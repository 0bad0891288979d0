---------------------------- MODULE GadgetProofs ----------------------------
(***************************************************************************)
(* Theorems about the gadgets of src/pi: AoaTwoStage, for any size of      *)
(* batch and any number of events, switches and teardowns, and MirrorLink, *)
(* for any targets, services and number of connections (types, and what    *)
(* the head unit may hold to be present at the start and at the end).      *)
(***************************************************************************)
EXTENDS AoaTwoStage, MirrorLink, TLAPS

Generic   == <<"generic", "generic">>
Accessory == <<"accessory", "accessory">>

\* Between the unbinding and the binding nothing is bound, and the two ids are
\* rewritten in order; what is bound has two ids of one identity.
SwitchInv ==
  /\ gadget \in {"starting", "watching", "unbind", "vendor", "product", "find", "rebind"}
  /\ udc \in BOOLEAN /\ unbound \in BOOLEAN
  /\ vendor \in {"generic", "accessory"} /\ product \in {"generic", "accessory"}
  /\ udc => vendor = product /\ ~unbound
  /\ unbound => vendor = "generic" /\ product = "generic"
  /\ gadget \in {"vendor", "product", "find", "rebind"} => ~udc /\ ~unbound
  /\ gadget \in {"product", "find", "rebind"} => vendor = "accessory"
  /\ gadget \in {"find", "rebind"} => product = "accessory"

\* What was seen, and that the accessory's ids stay once they were seen.
SeenInv ==
  /\ seen \in Seq({Generic, Accessory})
  /\ TwoIdentities
  /\ \A i \in DOMAIN seen : seen[i] = Accessory => vendor = "accessory" /\ product = "accessory"

IInv == SwitchInv /\ SeenInv

-----------------------------------------------------------------------------
\* The steps of perform_switch in their order.
LEMMA SwitchSteps ==
  /\ Range(SwitchOrder) = {"unbind", "vendor", "product", "find", "rebind", "watching"}
  /\ SwitchOrder[1] = "unbind"
  /\ After("unbind") = "vendor" /\ After("vendor") = "product"
  /\ After("product") = "find" /\ After("find") = "rebind" /\ After("rebind") = "watching"
<1>1. DOMAIN SwitchOrder = 1..6
  BY DEF SwitchOrder
<1>2. /\ SwitchOrder[1] = "unbind" /\ SwitchOrder[2] = "vendor"
      /\ SwitchOrder[3] = "product" /\ SwitchOrder[4] = "find"
      /\ SwitchOrder[5] = "rebind" /\ SwitchOrder[6] = "watching"
  BY DEF SwitchOrder
<1> QED BY <1>1, <1>2 DEF After, Range

LEMMA NothingSeen == ASSUME seen = <<>> PROVE TwoIdentities
<1>1. Len(seen) = 0 /\ DOMAIN seen = {}
  OBVIOUS
<1>2. seen = [i \in DOMAIN seen |-> IF i <= 0 THEN <<"generic", "generic">>
                                    ELSE <<"accessory", "accessory">>]
  BY <1>1
<1>3. 0 \in 0..Len(seen)
  BY <1>1
<1> QED BY <1>2, <1>3 DEF TwoIdentities

LEMMA InitIInv == AoaInit => IInv
<1> SUFFICES ASSUME AoaInit PROVE IInv
  OBVIOUS
<1>1. /\ gadget = "starting" /\ udc = FALSE /\ unbound = TRUE
      /\ vendor = "generic" /\ product = "generic" /\ seen = <<>>
  BY DEF AoaInit
<1>2. SwitchInv
  BY <1>1 DEF SwitchInv
<1>3. SeenInv
  BY <1>1, NothingSeen DEF SeenInv
<1> QED BY <1>2, <1>3 DEF IInv

LEMMA SwitchKept == IInv /\ [AoaNext]_aoaVars => SwitchInv'
<1> SUFFICES ASSUME IInv, [AoaNext]_aoaVars PROVE SwitchInv'
  OBVIOUS
<1>1. CASE Switches
  BY <1>1, SwitchSteps DEF IInv, SwitchInv, Switches
<1>2. CASE ReadsEvents
  BY <1>2, SwitchSteps DEF IInv, SwitchInv, ReadsEvents
<1>3. CASE OpensEndpoints \/ SwitchFails
  BY <1>3 DEF IInv, SwitchInv, OpensEndpoints, SwitchFails
<1>4. CASE OperatorBinds
  BY <1>4 DEF IInv, SwitchInv, OperatorBinds
<1>5. CASE TearsDown
  <2>1. /\ gadget' = "starting" /\ udc' = FALSE /\ unbound' = TRUE
        /\ vendor' = "generic" /\ product' = "generic"
    BY <1>5 DEF TearsDown
  <2> QED BY <2>1 DEF SwitchInv
<1>6. CASE HostEnumerates \/ HostAsks \/ HostLeaves \/ UNCHANGED aoaVars
  BY <1>6 DEF IInv, SwitchInv, HostEnumerates, HostAsks, HostLeaves, aoaVars
<1> QED BY <1>1, <1>2, <1>3, <1>4, <1>5, <1>6 DEF AoaNext

\* What TwoIdentities says of a sequence, place by place.
LEMMA TwoRuns ==
  ASSUME NEW s \in Seq({Generic, Accessory}), NEW k \in 0..Len(s)
  PROVE  s = [i \in DOMAIN s |-> IF i <= k THEN Generic ELSE Accessory]
           <=> \A i \in 1..Len(s) : s[i] = IF i <= k THEN Generic ELSE Accessory
OBVIOUS

\* Only an enumeration adds to what was seen; its ids are those of what is bound.
LEMMA SeenKept == IInv /\ [AoaNext]_aoaVars => SeenInv'
<1> SUFFICES ASSUME IInv, [AoaNext]_aoaVars PROVE SeenInv'
  OBVIOUS
<1>1. CASE HostEnumerates
  <2>1. seen' = Append(seen, <<vendor, product>>) /\ UNCHANGED <<vendor, product>> /\ udc
    BY <1>1 DEF HostEnumerates
  <2>2. \/ vendor = "generic" /\ product = "generic"
        \/ vendor = "accessory" /\ product = "accessory"
    BY <2>1 DEF IInv, SwitchInv
  <2>3. PICK id \in {Generic, Accessory} : /\ <<vendor, product>> = id
                                           /\ id = Accessory => vendor = "accessory"
                                           /\ id = Generic => vendor = "generic"
    BY <2>2 DEF Generic, Accessory
  <2>4. seen \in Seq({Generic, Accessory})
    BY DEF IInv, SeenInv
  <2> HIDE DEF Generic, Accessory
  <2>5. /\ seen' \in Seq({Generic, Accessory})
        /\ Len(seen') = Len(seen) + 1 /\ Len(seen) \in Nat
        /\ \A i \in 1..Len(seen) : seen'[i] = seen[i]
        /\ seen'[Len(seen) + 1] = id
    BY <2>1, <2>3, <2>4
  <2>6. PICK k \in 0..Len(seen) :
          \A i \in 1..Len(seen) : seen[i] = IF i <= k THEN Generic ELSE Accessory
    BY <2>4, TwoRuns DEF IInv, SeenInv, TwoIdentities, Generic, Accessory
  <2>7. \E m \in 0..Len(seen') :
          \A i \in 1..Len(seen') : seen'[i] = IF i <= m THEN Generic ELSE Accessory
    <3>1. CASE id = Accessory
      <4>1. \A i \in 1..Len(seen') : seen'[i] = IF i <= k THEN Generic ELSE Accessory
        BY <2>5, <2>6, <3>1
      <4> QED BY <2>5, <4>1
    <3>2. CASE id = Generic
      <4>1. \A i \in 1..Len(seen) : seen[i] # Accessory
        BY <2>2, <2>3, <2>4, <3>2 DEF IInv, SeenInv
      <4>2. \A i \in 1..Len(seen) : seen[i] = Generic
        BY <4>1, <2>6
      <4>3. \A i \in 1..Len(seen') :
              seen'[i] = IF i <= Len(seen') THEN Generic ELSE Accessory
        BY <2>5, <3>2, <4>2
      <4>4. Len(seen') \in 0..Len(seen')
        BY <2>5
      <4> QED BY <4>3, <4>4
    <3> QED BY <3>1, <3>2
  <2>8. TwoIdentities'
    <3>1. PICK m \in 0..Len(seen') :
            \A i \in 1..Len(seen') : seen'[i] = IF i <= m THEN Generic ELSE Accessory
      BY <2>7
    <3>2. seen' = [i \in DOMAIN seen' |-> IF i <= m THEN Generic ELSE Accessory]
      BY <2>5, <3>1, TwoRuns
    <3> QED BY <3>2 DEF TwoIdentities, Generic, Accessory
  <2>9. \A i \in DOMAIN seen' :
          seen'[i] = Accessory => vendor' = "accessory" /\ product' = "accessory"
    <3>1. Generic # Accessory
      BY DEF Generic, Accessory
    <3>2. \A i \in 1..Len(seen) : seen[i] = Accessory => vendor = "accessory"
      BY <2>4 DEF IInv, SeenInv
    <3>3. \A i \in 1..Len(seen') : seen'[i] = Accessory => vendor = "accessory"
      BY <2>3, <2>5, <3>1, <3>2
    <3> QED BY <2>1, <2>2, <2>5, <3>3
  <2> QED BY <2>5, <2>8, <2>9 DEF SeenInv
<1>2. CASE TearsDown
  <2>1. seen' = <<>>
    BY <1>2 DEF TearsDown
  <2>2. TwoIdentities'
    BY <2>1 DEF TwoIdentities
  <2> QED BY <2>1, <2>2 DEF SeenInv
<1>3. CASE Switches
  <2>1. seen' = seen /\ (vendor = "accessory" => vendor' = "accessory")
        /\ (product = "accessory" => product' = "accessory")
    BY <1>3 DEF Switches
  <2> QED BY <2>1 DEF IInv, SeenInv, TwoIdentities
<1>4. CASE \/ OpensEndpoints \/ ReadsEvents \/ SwitchFails \/ OperatorBinds \/ HostAsks
           \/ HostLeaves \/ UNCHANGED aoaVars
  <2>1. UNCHANGED <<seen, vendor, product>>
    BY <1>4 DEF OpensEndpoints, ReadsEvents, SwitchFails, OperatorBinds, HostAsks,
                HostLeaves, aoaVars
  <2> QED BY <2>1 DEF IInv, SeenInv, TwoIdentities
<1> QED BY <1>1, <1>2, <1>3, <1>4 DEF AoaNext

LEMMA Inductive == AoaSpec => []IInv
<1>1. IInv /\ [AoaNext]_aoaVars => IInv'
  BY SwitchKept, SeenKept DEF IInv
<1> QED BY InitIInv, <1>1, PTL DEF AoaSpec

-----------------------------------------------------------------------------
\* Wherever a switch fails, no host enumerates one id of each identity, nor the
\* generic identity after the accessory (perform_switch, main).
THEOREM OneIdentityAfterTheOther == AoaSpec => []TwoIdentities
<1>1. IInv => TwoIdentities
  BY DEF IInv, SeenInv
<1> QED BY Inductive, <1>1, PTL

-----------------------------------------------------------------------------

\* What waits to be sent, by main or by the search thread, is a target.
Sendable ==
  /\ left \in Seq(Range(Targets)) /\ answers \in Seq(Range(Targets))
  /\ known \subseteq Range(Targets)

\* Nothing is said of the device before the HTTP server is started.
Unannounced == main = "http" => known = {} /\ search = "off"

\* While the device is taken back, a target is still to be taken back or has been; the
\* head unit holds to be present what is still to be, and what was answered too late.
TakenBack ==
  /\ main = "byebye" => Range(Targets) \subseteq unsaid \cup Range(left)
  /\ main = "byebye" /\ ~failed => known \subseteq Range(left) \cup late
  /\ main = "gone" /\ ~failed => known \subseteq late

MlInv == MlTypeOK /\ Sendable /\ Unannounced /\ TakenBack

-----------------------------------------------------------------------------
LEMMA OrderOfParts ==
  /\ Range(StartOrder) = {"http", "search", "dap", "announce"}
  /\ \A m \in {"search", "dap", "announce"} :
       \E i, j \in DOMAIN StartOrder : StartOrder[i] = "http" /\ StartOrder[j] = m /\ i < j
<1>1. /\ DOMAIN StartOrder = 1..4
      /\ StartOrder[1] = "http" /\ StartOrder[2] = "search"
      /\ StartOrder[3] = "dap" /\ StartOrder[4] = "announce"
  BY DEF StartOrder
<1>2. DOMAIN StartOrder = {1, 2, 3, 4}
  BY <1>1
<1>3. Range(StartOrder) = {StartOrder[1], StartOrder[2], StartOrder[3], StartOrder[4]}
  BY <1>2 DEF Range
<1> QED BY <1>1, <1>3

LEMMA OrderGoesOn ==
  \A m \in {"http", "search", "dap"} :
    StartOrder[1 + CHOOSE i \in DOMAIN StartOrder : StartOrder[i] = m]
      = CASE m = "http" -> "search" [] m = "search" -> "dap" [] m = "dap" -> "announce"
<1>1. /\ DOMAIN StartOrder = 1..4
      /\ StartOrder[1] = "http" /\ StartOrder[2] = "search"
      /\ StartOrder[3] = "dap" /\ StartOrder[4] = "announce"
  BY DEF StartOrder
<1> QED BY <1>1

LEMMA ServedWhenAnnouncing == main \in {"search", "dap", "announce", "byebye"} => Started("http")
BY OrderOfParts DEF Started, Running

LEMMA TailSendable ==
  ASSUME NEW S, NEW s \in Seq(S), s # <<>>
  PROVE  /\ Tail(s) \in Seq(S) /\ Head(s) \in S
         /\ Range(s) = Range(Tail(s)) \cup {Head(s)}
<1>1. /\ Tail(s) \in Seq(S) /\ Head(s) \in S /\ Len(s) \in Nat \ {0}
      /\ DOMAIN s = 1..Len(s) /\ DOMAIN Tail(s) = 1..Len(s) - 1
      /\ Head(s) = s[1] /\ \A i \in 1..Len(s) - 1 : Tail(s)[i] = s[i + 1]
  OBVIOUS
<1>2. ASSUME NEW x \in Range(s) PROVE x \in Range(Tail(s)) \cup {Head(s)}
  <2>1. PICK i \in 1..Len(s) : s[i] = x
    BY <1>1 DEF Range
  <2>2. CASE i = 1
    BY <1>1, <2>1, <2>2
  <2>3. CASE i # 1
    <3>1. i - 1 \in 1..Len(s) - 1 /\ (i - 1) + 1 = i
      BY <1>1, <2>1, <2>3
    <3>2. i - 1 \in DOMAIN Tail(s) /\ Tail(s)[i - 1] = x
      BY <1>1, <2>1, <3>1
    <3> QED BY <3>2 DEF Range
  <2> QED BY <2>2, <2>3
<1>3. ASSUME NEW i \in 1..Len(s) - 1 PROVE Tail(s)[i] \in Range(s)
  <2>1. i + 1 \in 1..Len(s)
    BY <1>1
  <2> QED BY <1>1, <2>1 DEF Range
<1>4. Range(Tail(s)) \subseteq Range(s)
  BY <1>1, <1>3 DEF Range
<1>5. Head(s) \in Range(s)
  BY <1>1 DEF Range
<1>6. Range(s) = Range(Tail(s)) \cup {Head(s)}
  BY <1>2, <1>4, <1>5
<1> QED BY <1>1, <1>6

LEMMA EmptyRange == Range(<<>>) = {}
BY DEF Range

LEMMA TargetsSendable ==
  /\ Targets \in Seq(Range(Targets))
  /\ \A st \in Range(Targets) \cup {"ssdp:all"} : Matches(st) \in Seq(Range(Targets))
<1>1. Targets \in Seq(Range(Targets)) /\ Targets[1] \in Range(Targets)
  BY TargetsAssumption DEF Range
<1> QED BY <1>1 DEF Matches

-----------------------------------------------------------------------------
LEMMA MlInitInv == MlInit => MlInv
<1> SUFFICES ASSUME MlInit PROVE MlInv
  OBVIOUS
<1>1. main = "http" /\ known = {} /\ search = "off"
  BY DEF MlInit, StartOrder
<1>2. MlTypeOK
  BY <1>1, OrderOfParts, AnnouncesAssumption DEF MlInit, MlTypeOK
<1> QED BY <1>1, <1>2 DEF MlInit, MlInv, Sendable, Unannounced, TakenBack

\* main ends, or turns to taking the device back.
LEMMA EndsKeeps ==
  ASSUME MlInv, Running, Ends, UNCHANGED <<bursts, known, unsaid, late>>
  PROVE  MlInv'
<1>1. CASE main = "announce"
  <2>1. main' = "byebye" /\ left' = Targets /\ UNCHANGED <<search, answers, failed>>
    BY <1>1 DEF Ends, ByebyeTargets, threads
  <2> QED BY <2>1, TargetsSendable DEF MlInv, MlTypeOK, Sendable, Unannounced, TakenBack
<1>2. CASE main # "announce"
  <2>1. /\ main' = "gone" /\ left' = <<>> /\ search' = "off" /\ answers' = <<>>
        /\ failed' = TRUE
    BY <1>2 DEF Ends, Exits
  <2> QED BY <2>1 DEF MlInv, MlTypeOK, Sendable, Unannounced, TakenBack
<1> QED BY <1>1, <1>2

\* Steps that send and start nothing.
LEMMA BystanderKeeps ==
  ASSUME MlInv, UNCHANGED <<main, left, bursts, known, unsaid, late, failed>>,
         search' \in {search, "bound", "dead"}, search = "off" => search' = "off",
         answers' \in Seq(Range(Targets))
  PROVE  MlInv'
BY DEF MlInv, MlTypeOK, Sendable, Unannounced, TakenBack

LEMMA MlNextInv == MlInv /\ [MlNext]_mlVars => MlInv'
<1> SUFFICES ASSUME MlInv, [MlNext]_mlVars PROVE MlInv'
  OBVIOUS
<1> USE DEF MlInv
<1>1. CASE Starts
  <2>1. main \in {"http", "search", "dap"} /\ main' \in {"search", "dap", "announce"}
    BY <1>1, OrderGoesOn DEF Starts
  <2>2. /\ UNCHANGED <<left, bursts, answers, known, unsaid, late, failed>>
        /\ search' \in {search, "starting"}
    BY <1>1 DEF Starts, memory
  <2> QED BY <2>1, <2>2, OrderOfParts DEF MlTypeOK, Sendable, Unannounced, TakenBack
<1>2. CASE BeginsBurst
  <2>1. /\ main = "announce" /\ left' = Targets /\ bursts < MaxAnnounces
        /\ bursts' = bursts + 1
        /\ UNCHANGED <<main, search, answers, known, unsaid, late, failed>>
    BY <1>2 DEF BeginsBurst, threads, memory
  <2>2. bursts' \in 0..MaxAnnounces
    BY <2>1, AnnouncesAssumption DEF MlTypeOK
  <2> QED BY <2>1, <2>2, TargetsSendable DEF MlTypeOK, Sendable, Unannounced, TakenBack
<1>3. CASE NotifiesAlive
  <2>1. /\ main = "announce" /\ left # <<>> /\ left' = Tail(left)
        /\ known' \in {known, known \cup {Head(left)}}
        /\ UNCHANGED <<main, bursts, search, answers, unsaid, late, failed>>
    BY <1>3 DEF NotifiesAlive, threads, memory
  <2>2. left' \in Seq(Range(Targets)) /\ Head(left) \in Range(Targets)
    BY <2>1, TailSendable DEF Sendable
  <2> QED BY <2>1, <2>2 DEF MlTypeOK, Sendable, Unannounced, TakenBack
<1>4. CASE Interrupted
  BY <1>4, EndsKeeps DEF Interrupted
<1>5. CASE NotifiesByebye
  <2>1. /\ main = "byebye" /\ left # <<>> /\ left' = Tail(left)
        /\ unsaid' = unsaid \cup {Head(left)}
        /\ \/ known' = known \ {Head(left)} /\ failed' = failed
           \/ failed' = TRUE /\ known' = known
        /\ UNCHANGED <<main, bursts, search, answers, late>>
    BY <1>5 DEF NotifiesByebye, threads
  <2>2. left' \in Seq(Range(Targets)) /\ Range(left) = Range(left') \cup {Head(left)}
    BY <2>1, TailSendable DEF Sendable
  <2>3. MlTypeOK' /\ Sendable' /\ Unannounced'
    BY <2>1, <2>2 DEF MlTypeOK, Sendable, Unannounced
  <2>4. TakenBack'
    BY <2>1, <2>2 DEF TakenBack
  <2> QED BY <2>3, <2>4
<1>6. CASE Leaves
  <2>1. /\ main = "byebye" /\ left = <<>>
        /\ main' = "gone" /\ left' = <<>> /\ search' = "off" /\ answers' = <<>>
        /\ UNCHANGED <<bursts, known, unsaid, late, failed>>
    BY <1>6 DEF Leaves, Exits, memory
  <2>2. ~failed => known \subseteq late
    BY <2>1, EmptyRange DEF TakenBack
  <2>3. MlTypeOK'
    BY <2>1 DEF MlTypeOK
  <2> QED BY <2>1, <2>2, <2>3 DEF Sendable, Unannounced, TakenBack
<1>7. CASE SendRaises
  BY <1>7, EndsKeeps DEF SendRaises, Running
<1>8. CASE SearchBinds \/ AnswerRaises \/ DapListens
  <2>1. /\ UNCHANGED <<main, left, bursts, known, unsaid, late, failed>>
        /\ search' \in {search, "bound", "dead"} /\ (search = "off" => search' = "off")
        /\ answers' \in {answers, <<>>}
    BY <1>8 DEF SearchBinds, AnswerRaises, DapListens, announcing, threads, memory
  <2>2. <<>> \in Seq(Range(Targets))
    OBVIOUS
  <2>3. answers' \in Seq(Range(Targets))
    BY <2>1, <2>2 DEF Sendable
  <2> QED BY <2>1, <2>3, BystanderKeeps
<1>9. CASE Searched
  <2>1. /\ UNCHANGED <<main, left, bursts, known, unsaid, late, failed, search>>
        /\ \E st \in Range(Targets) \cup {"ssdp:all"} : answers' = Matches(st)
    BY <1>9 DEF Searched, announcing, memory
  <2> QED BY <2>1, TargetsSendable, BystanderKeeps
<1>10. CASE AnswersSearch
  <2>1. /\ main # "gone" /\ search = "bound" /\ answers # <<>> /\ answers' = Tail(answers)
        /\ known' \in {known, known \cup {Head(answers)}}
        /\ late' = IF Head(answers) \in unsaid THEN late \cup {Head(answers)} ELSE late
        /\ UNCHANGED <<main, left, bursts, search, unsaid, failed>>
    BY <1>10 DEF AnswersSearch, announcing, Running
  <2>2. answers' \in Seq(Range(Targets)) /\ Head(answers) \in Range(Targets)
    BY <2>1, TailSendable DEF Sendable
  <2>3. MlTypeOK' /\ Sendable' /\ Unannounced'
    BY <2>1, <2>2 DEF MlTypeOK, Sendable, Unannounced
  <2>4. TakenBack'
    BY <2>1, <2>2 DEF TakenBack
  <2> QED BY <2>3, <2>4
<1>11. ASSUME NEW c \in Conns, Asks(c) \/ Replies(c) \/ TimesOut(c) \/ Disconnects(c)
       PROVE  MlInv'
  <2>1. UNCHANGED <<main, left, bursts, search, answers, known, unsaid, late, failed>>
    BY <1>11 DEF Asks, Replies, TimesOut, Disconnects, announcing, threads, memory
  <2> QED BY <2>1, BystanderKeeps DEF Sendable
<1>12. CASE UNCHANGED mlVars
  <2>1. UNCHANGED <<main, left, bursts, search, answers, known, unsaid, late, failed>>
    BY <1>12 DEF mlVars
  <2> QED BY <2>1, BystanderKeeps DEF Sendable
<1> QED BY <1>1, <1>2, <1>3, <1>4, <1>5, <1>6, <1>7, <1>8, <1>9, <1>10, <1>11, <1>12 DEF MlNext

LEMMA MlInductive == MlSpec => []MlInv
BY MlInitInv, MlNextInv, PTL DEF MlSpec

-----------------------------------------------------------------------------
\* The program and its threads stay in the states that main goes through, and the head
\* unit learns of targets only (main, announce_loop, msearch_responder).
THEOREM MlTypeCorrect == MlSpec => []MlTypeOK
<1>1. MlInv => MlTypeOK
  BY DEF MlInv
<1> QED BY MlInductive, <1>1, PTL

\* Whatever the head unit learns of, by NOTIFY or by an answer to its search, is served
\* over HTTP by then: main starts the server before anything that could tell it.
THEOREM ServedWhenKnown == MlSpec => []KnownIsServed
<1>1. MlInv => KnownIsServed
  BY ServedWhenAnnouncing, OrderOfParts
  DEF MlInv, MlTypeOK, Unannounced, Running, KnownIsServed
<1> QED BY MlInductive, <1>1, PTL

\* However the announcing ended, once every byebye was sent and arrived the head unit
\* holds nothing to be present but what a search was answered after it was taken back.
THEOREM TakenBackForGood == MlSpec => []ByebyeCovers
<1>1. MlInv => ByebyeCovers
  BY DEF MlInv, TakenBack, ByebyeCovers
<1> QED BY MlInductive, <1>1, PTL
=============================================================================
