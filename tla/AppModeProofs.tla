--------------------------- MODULE AppModeProofs ----------------------------
(***************************************************************************)
(* Theorems about src/pi/appmode: that a session's side of the handshake   *)
(* is sent in order and once, that what the codec builds it reads back,    *)
(* and that a response answers a StartAuth and a whole StartAuth gets one  *)
(* (AvChannel); that a packet of which every record was captured comes out *)
(* of the reassembly (AclCapture).                                         *)
(***************************************************************************)
EXTENDS AvChannel, AclCapture, ParsingLemmas

Handshake == {"SessionStart", "AuthRequest", "AuthResponse"}

\* What the handshake's two sends may have left.
Opened == {<<>>, <<"SessionStart">>, <<"AuthRequest">>, <<"SessionStart", "AuthRequest">>}

\* What has been sent on a connection, by where it is: only a reading one has answered,
\* and only once.
Stage(s) ==
  \/ av[s] \in {"off", "dialling", "connected"} /\ ~b2_sent[s] /\ av_tx[s] = <<>>
  \/ av[s] = "started" /\ ~b2_sent[s] /\ av_tx[s] \in {<<>>, <<"SessionStart">>}
  \/ av[s] \in {"reading", "closed"} /\ ~b2_sent[s] /\ av_tx[s] \in Opened
  \/ /\ av[s] \in {"reading", "closed"} /\ b2_sent[s]
     /\ \E opened \in Opened : av_tx[s] = Append(opened, "AuthResponse")

AvStates == {"off", "dialling", "connected", "started", "reading", "closed"}

AvInv ==
  /\ av_count \in 0..MaxAvFrames
  /\ av_tx \in [AvSessions -> Seq(Handshake)]
  /\ b2_sent \in [AvSessions -> BOOLEAN]
  /\ av \in [AvSessions -> AvStates]
  /\ ~av_out_started => \A s \in AvTags : av[s] = "off"
  /\ \A s \in AvSessions : Stage(s)

LEMMA OpenedFrames == \A opened \in Opened : opened \in Seq(Handshake)
<1>1. /\ "SessionStart" \in Handshake /\ "AuthRequest" \in Handshake
      /\ "AuthResponse" \in Handshake
  BY DEF Handshake
<1>2. <<>> \in Seq(Handshake)
  OBVIOUS
<1>3. <<"SessionStart">> \in Seq(Handshake)
  BY <1>1
<1>4. <<"AuthRequest">> \in Seq(Handshake)
  BY <1>1
<1>5. <<"SessionStart", "AuthRequest">> \in Seq(Handshake)
  BY <1>1
<1> QED BY <1>2, <1>3, <1>4, <1>5, Zenon DEF Opened

\* What a send appends.
LEMMA FirstFrame == ASSUME NEW f PROVE Append(<<>>, f) = <<f>>
OBVIOUS

LEMMA SecondFrame ==
  ASSUME NEW S, NEW e \in S, NEW f \in S PROVE Append(<<e>>, f) = <<e, f>>
<1> DEFINE s == Append(<<e>>, f)
           t == <<e, f>>
<1>1. s \in Seq(S) /\ t \in Seq(S)
  OBVIOUS
<1>2. Len(s) = 2 /\ Len(t) = 2
  OBVIOUS
<1>3. s[1] = t[1] /\ s[2] = t[2]
  OBVIOUS
<1> HIDE DEF s, t
<1>4. \A i \in 1..2 : s[i] = t[i]
  BY <1>3
<1>5. s = t
  BY <1>1, <1>2, <1>4, SeqEqual
<1> QED BY <1>5 DEF s, t

\* A send that succeeds appends its frame, one that fails leaves what was sent.
LEMMA SentIs ==
  ASSUME AvInv, NEW s \in AvSessions, NEW frame
  PROVE  Sent(s, frame) = [av_tx EXCEPT ![s] = IF av_peer[s] = "open"
                                                  THEN Append(av_tx[s], frame) ELSE av_tx[s]]
<1>1. CASE av_peer[s] = "open"
  BY <1>1 DEF Sent
<1>2. CASE av_peer[s] # "open"
  <2>1. av_tx = [av_tx EXCEPT ![s] = av_tx[s]]
    BY DEF AvInv
  <2> QED BY <1>2, <2>1, Zenon DEF Sent
<1> QED BY <1>1, <1>2

LEMMA AvInitInv == AvInit => AvInv
<1> SUFFICES ASSUME AvInit PROVE AvInv
  OBVIOUS
<1>1. av_tx \in [AvSessions -> Seq(Handshake)]
  <2>1. <<>> \in Seq(Handshake)
    OBVIOUS
  <2> QED BY <2>1 DEF AvInit
<1> QED BY <1>1, AvAssumption DEF AvInit, AvInv, Stage, AvStates, AvSessions

\* A step that sends nothing.
LEMMA SilentStep ==
  ASSUME AvInv, NEW s \in AvSessions, NEW state,
         av' = [av EXCEPT ![s] = state], UNCHANGED <<av_out_started, av_tx, b2_sent, av_count>>,
         \/ av[s] = "dialling" /\ state \in {"connected", "reading", "closed"}
         \/ av[s] = "off" /\ s \notin AvTags /\ state = "reading"
         \/ av[s] = "reading" /\ state = "closed"
  PROVE  AvInv'
<1>1. \A t \in AvSessions : av'[t] = IF t = s THEN state ELSE av[t]
  BY DEF AvInv
<1>2. Stage(s)'
  BY <1>1 DEF AvInv, Stage, Opened
<1>3. \A t \in AvSessions : t # s => Stage(t)'
  BY <1>1 DEF AvInv, Stage
<1>4. ~av_out_started => \A t \in AvTags : av'[t] = "off"
  BY <1>1 DEF AvInv, AvSessions
<1>5. av' \in [AvSessions -> AvStates]
  BY DEF AvInv, AvStates
<1> QED BY <1>2, <1>3, <1>4, <1>5 DEF AvInv

\* A step that sends a frame, or fails to.
LEMMA SendStep ==
  ASSUME AvInv, NEW s \in AvSessions, NEW state, NEW tx,
         av[s] # "off", state \in AvStates, av' = [av EXCEPT ![s] = state],
         av_tx' = [av_tx EXCEPT ![s] = tx], tx \in Seq(Handshake),
         b2_sent' \in [AvSessions -> BOOLEAN],
         \A t \in AvSessions : t # s => b2_sent'[t] = b2_sent[t],
         UNCHANGED <<av_out_started, av_count>>,
         Stage(s)'
  PROVE  AvInv'
<1>0. av' \in [AvSessions -> AvStates]
  BY DEF AvInv, AvStates
<1>1. \A t \in AvSessions : t # s => av'[t] = av[t] /\ av_tx'[t] = av_tx[t]
  BY DEF AvInv
<1>2. \A t \in AvSessions : t # s => Stage(t)'
  BY <1>1 DEF AvInv, Stage
<1>3. av_tx' \in [AvSessions -> Seq(Handshake)]
  BY DEF AvInv
<1>4. ~av_out_started' => \A t \in AvTags : av'[t] = "off"
  BY <1>1 DEF AvInv, AvSessions
<1> QED BY <1>0, <1>2, <1>3, <1>4 DEF AvInv

LEMMA AvNextInv == AvInv /\ [AvNext]_avVars => AvInv'
<1> SUFFICES ASSUME AvInv, [AvNext]_avVars PROVE AvInv'
  OBVIOUS
<1>1. CASE Dials
  <2>1. /\ ~av_out_started /\ av_out_started' = TRUE
        /\ \A s \in AvSessions : av'[s] = IF s \in AvTags THEN "dialling" ELSE av[s]
        /\ av' \in [AvSessions -> AvStates]
        /\ UNCHANGED <<av_tx, b2_sent, av_count>>
    BY <1>1 DEF Dials, AvInv, AvStates
  <2>2. \A s \in AvSessions : Stage(s)'
    BY <2>1 DEF AvInv, Stage
  <2> QED BY <2>1, <2>2 DEF AvInv
<1>2. ASSUME NEW s \in AvSessions,
             Connects(s) \/ ConnectFails(s) \/ HeadUnitDials(s) \/ ReceivesEnd(s)
      PROVE  AvInv'
  <2>1. \E state : /\ av' = [av EXCEPT ![s] = state]
                   /\ UNCHANGED <<av_out_started, av_tx, b2_sent, av_count>>
                   /\ \/ av[s] = "dialling" /\ state \in {"connected", "reading", "closed"}
                      \/ av[s] = "off" /\ s \notin AvTags /\ state = "reading"
                      \/ av[s] = "reading" /\ state = "closed"
    BY <1>2, AvAssumption DEF Connects, ConnectFails, HeadUnitDials, ReceivesEnd
  <2> QED BY <2>1, SilentStep
<1>3. ASSUME NEW s \in AvSessions, SendsSessionStart(s) PROVE AvInv'
  <2> DEFINE tx == IF av_peer[s] = "open" THEN <<"SessionStart">> ELSE <<>>
  <2>1. /\ av[s] = "connected" /\ av_tx' = Sent(s, "SessionStart")
        /\ av' = [av EXCEPT ![s] = "started"]
        /\ UNCHANGED <<av_out_started, b2_sent, av_count>>
    BY <1>3 DEF SendsSessionStart
  <2>2. av_tx[s] = <<>> /\ ~b2_sent[s]
    BY <2>1 DEF AvInv, Stage
  <2>3. av_tx' = [av_tx EXCEPT ![s] = tx]
    <3>1. tx = IF av_peer[s] = "open" THEN Append(av_tx[s], "SessionStart") ELSE av_tx[s]
      BY <2>2, FirstFrame, Zenon
    <3> HIDE DEF tx
    <3> QED BY <2>1, <3>1, SentIs
  <2>4. tx \in Seq(Handshake) /\ tx \in {<<>>, <<"SessionStart">>}
    <3>1. tx \in {<<>>, <<"SessionStart">>}
      OBVIOUS
    <3>2. tx \in Opened
      BY <3>1, Zenon DEF Opened
    <3> QED BY <3>1, <3>2, OpenedFrames, Zenon
  <2>5. av'[s] = "started" /\ av_tx'[s] = tx
    BY <2>1, <2>3 DEF AvInv
  <2> HIDE DEF tx
  <2>6. Stage(s)'
    BY <2>1, <2>2, <2>4, <2>5 DEF Stage
  <2>7. b2_sent' \in [AvSessions -> BOOLEAN]
    BY <2>1 DEF AvInv
  <2> QED BY <2>1, <2>3, <2>4, <2>6, <2>7, SendStep DEF AvStates
<1>4. ASSUME NEW s \in AvSessions, SendsAuthRequest(s) PROVE AvInv'
  <2> DEFINE tx == IF av_peer[s] = "open" THEN Append(av_tx[s], "AuthRequest") ELSE av_tx[s]
  <2>1. /\ av[s] = "started" /\ av_tx' = Sent(s, "AuthRequest")
        /\ av' = [av EXCEPT ![s] = "reading"]
        /\ UNCHANGED <<av_out_started, b2_sent, av_count>>
    BY <1>4 DEF SendsAuthRequest
  <2>2. av_tx[s] \in {<<>>, <<"SessionStart">>} /\ ~b2_sent[s]
    BY <2>1 DEF AvInv, Stage
  <2>3. av_tx' = [av_tx EXCEPT ![s] = tx]
    BY <2>1, SentIs
  <2>4. tx \in Seq(Handshake) /\ tx \in Opened
    <3>1. /\ Append(<<>>, "AuthRequest") = <<"AuthRequest">>
          /\ Append(<<"SessionStart">>, "AuthRequest") = <<"SessionStart", "AuthRequest">>
      <4>1. "SessionStart" \in Handshake /\ "AuthRequest" \in Handshake
        BY DEF Handshake
      <4> QED BY <4>1, FirstFrame, SecondFrame, Zenon
    <3>2. tx \in Opened
      <4>1. CASE av_tx[s] = <<>>
        BY <3>1, <4>1, Zenon DEF Opened
      <4>2. CASE av_tx[s] = <<"SessionStart">>
        BY <3>1, <4>2, Zenon DEF Opened
      <4> QED BY <2>2, <4>1, <4>2
    <3> QED BY <3>2, OpenedFrames
  <2>5. av'[s] = "reading" /\ av_tx'[s] = tx
    BY <2>1, <2>3 DEF AvInv
  <2> HIDE DEF tx
  <2>6. Stage(s)'
    BY <2>1, <2>2, <2>4, <2>5 DEF Stage
  <2>7. b2_sent' \in [AvSessions -> BOOLEAN]
    BY <2>1 DEF AvInv
  <2> QED BY <2>1, <2>3, <2>4, <2>6, <2>7, SendStep DEF AvStates
<1>5. ASSUME NEW s \in AvSessions, NEW n \in 1..Len(av_wire[s]), Receives(s, n) PROVE AvInv'
  <2> DEFINE chunk    == SubSeq(av_wire[s], 1, n)
             answered == answer_b1(s) /\ ~b2_sent[s] /\ StartAuthIn(chunk)
  <2>1. /\ av[s] = "reading"
        /\ av_tx' = IF answered THEN Sent(s, "AuthResponse") ELSE av_tx
        /\ b2_sent' = [b2_sent EXCEPT ![s] = Remembers(s, answered)]
        /\ UNCHANGED <<av_out_started, av, av_count>>
    BY <1>5, Zenon DEF Receives
  <2> HIDE DEF answered
  <2>2. b2_sent[s] \in BOOLEAN /\ (answered => ~b2_sent[s])
    BY DEF AvInv, answered
  <2>3. CASE answered /\ av_peer[s] = "open"
    <3>1. /\ av_tx' = [av_tx EXCEPT ![s] = Append(av_tx[s], "AuthResponse")]
          /\ b2_sent' = [b2_sent EXCEPT ![s] = TRUE]
      BY <2>1, <2>3 DEF Sent, Remembers, AvInv
    <3>2. av_tx[s] \in Opened
      BY <2>1, <2>2, <2>3 DEF AvInv, Stage
    <3>3. Append(av_tx[s], "AuthResponse") \in Seq(Handshake)
      BY <3>2, OpenedFrames DEF Handshake
    <3>4. Stage(s)'
      BY <2>1, <3>1, <3>2 DEF AvInv, Stage
    <3>5. b2_sent' \in [AvSessions -> BOOLEAN]
          /\ \A t \in AvSessions : t # s => b2_sent'[t] = b2_sent[t]
      BY <3>1 DEF AvInv
    <3>6. av' = [av EXCEPT ![s] = "reading"] /\ av[s] # "off"
      <4>1. av = [av EXCEPT ![s] = av[s]]
        BY DEF AvInv
      <4> QED BY <2>1, <4>1
    <3> DEFINE tx == Append(av_tx[s], "AuthResponse")
    <3>7. tx \in Seq(Handshake) /\ av_tx' = [av_tx EXCEPT ![s] = tx]
      BY <3>1, <3>3
    <3> HIDE DEF tx
    <3> QED BY <2>1, <3>4, <3>5, <3>6, <3>7, SendStep DEF AvStates
  <2>4. CASE ~(answered /\ av_peer[s] = "open")
    <3>1. av_tx' = av_tx
      BY <2>1, <2>4 DEF Sent
    <3>2. Remembers(s, answered) = b2_sent[s]
      BY <2>2, <2>4 DEF Remembers
    <3>3. b2_sent' = b2_sent
      BY <2>1, <3>2 DEF AvInv
    <3>4. \A r \in AvSessions : Stage(r)' = Stage(r)
      BY <2>1, <3>1, <3>3 DEF Stage
    <3> QED BY <2>1, <3>1, <3>3, <3>4 DEF AvInv
  <2> QED BY <2>3, <2>4
<1>6. ASSUME NEW s \in AvSessions, HeadUnitSendsFrame(s) \/ HeadUnitCloses(s) PROVE AvInv'
  <2>1. /\ UNCHANGED <<av_out_started, av, av_tx, b2_sent>>
        /\ \/ av_count' = av_count
           \/ av_count < MaxAvFrames /\ av_count' = av_count + 1
    <3>1. CASE HeadUnitSendsFrame(s)
      BY <3>1, Zenon DEF HeadUnitSendsFrame
    <3>2. CASE HeadUnitCloses(s)
      <4>1. av_count' = av_count /\ UNCHANGED <<av_out_started, av, av_tx, b2_sent>>
        BY <3>2 DEF HeadUnitCloses
      <4> QED BY <4>1, Zenon
    <3> QED BY <1>6, <3>1, <3>2
  <2>2. av_count' \in 0..MaxAvFrames
    BY <2>1, AvAssumption DEF AvInv
  <2> QED BY <2>1, <2>2 DEF AvInv, Stage
<1>7. CASE UNCHANGED avVars
  BY <1>7 DEF avVars, AvInv, Stage
<1> QED BY <1>1, <1>2, <1>3, <1>4, <1>5, <1>6, <1>7 DEF AvNext

LEMMA AvInductive == AvSpec => []AvInv
BY AvInitInv, AvNextInv, PTL DEF AvSpec

-----------------------------------------------------------------------------
LEMMA AnsweredInOrder ==
  ASSUME NEW opened \in Opened, NEW tx \in {opened, Append(opened, "AuthResponse")}
  PROVE  \A i, j \in DOMAIN tx : i < j => Turn[tx[i]] < Turn[tx[j]]
<1> DEFINE Ordered(t) == \A i, j \in DOMAIN t : i < j => Turn[t[i]] < Turn[t[j]]
<1>1. /\ Turn["SessionStart"] = 1 /\ Turn["AuthRequest"] = 2 /\ Turn["AuthResponse"] = 3
  BY DEF Turn
<1>2. Ordered(<<>>)
  OBVIOUS
<1>3. Ordered(<<"SessionStart">>) /\ Ordered(Append(<<>>, "AuthResponse"))
  OBVIOUS
<1>4. Ordered(<<"AuthRequest">>)
  OBVIOUS
<1>5. Ordered(<<"SessionStart", "AuthRequest">>)
  BY <1>1
<1>6. Ordered(Append(<<"SessionStart">>, "AuthResponse"))
  BY <1>1
<1>7. Ordered(Append(<<"AuthRequest">>, "AuthResponse"))
  BY <1>1
<1>8. Ordered(Append(<<"SessionStart", "AuthRequest">>, "AuthResponse"))
  BY <1>1
<1> HIDE DEF Ordered
<1>9. Ordered(tx)
  <2>1. CASE opened = <<>>
    BY <2>1, <1>2, <1>3, Zenon
  <2>2. CASE opened = <<"SessionStart">>
    BY <2>2, <1>3, <1>6, Zenon
  <2>3. CASE opened = <<"AuthRequest">>
    BY <2>3, <1>4, <1>7, Zenon
  <2>4. CASE opened = <<"SessionStart", "AuthRequest">>
    BY <2>4, <1>5, <1>8, Zenon
  <2> QED BY <2>1, <2>2, <2>3, <2>4, Zenon DEF Opened
<1> QED BY <1>9 DEF Ordered

\* On every connection the frames come in the handshake's order and each at most once,
\* however many StartAuths arrive and whichever sends fail (_av_out_session,
\* _av_spp_recv_loop).
THEOREM HandshakeInOrder == AvSpec => []AvOrder
<1>1. AvInv => AvOrder
  <2> SUFFICES ASSUME AvInv, NEW s \in AvSessions
               PROVE  \A i, j \in DOMAIN av_tx[s] :
                        i < j => Turn[av_tx[s][i]] < Turn[av_tx[s][j]]
    BY DEF AvOrder
  <2>1. \E opened \in Opened : av_tx[s] \in {opened, Append(opened, "AuthResponse")}
    <3>1. Stage(s)
      BY DEF AvInv
    <3> QED BY <3>1 DEF Stage, Opened
  <2> QED BY <2>1, AnsweredInOrder
<1> QED BY AvInductive, <1>1, PTL

-----------------------------------------------------------------------------
(***************************************************************************)
(* What build_frame puts on the wire, parse_frames finds.  `at' says where *)
(* the escaped bytes of the body end, one by one.                          *)
(***************************************************************************)
Places(body, at) ==
  /\ at \in [0..Len(body) -> 0..Len(escape(body))]
  /\ at[0] = 0 /\ at[Len(body)] = Len(escape(body))
  /\ \A k \in 1..Len(body) :
       IF body[k] = MARK
         THEN /\ at[k] = at[k - 1] + 2
              /\ escape(body)[at[k] - 1] = MARK /\ escape(body)[at[k]] = MARK
         ELSE at[k] = at[k - 1] + 1 /\ escape(body)[at[k]] = body[k]

AddByte(v, b) == IF b = MARK THEN v \o <<MARK, MARK>> ELSE Append(v, b)

LEMMA EscapeGoesOn ==
  ASSUME NEW body \in Text
  PROVE  \E e \in [0..Len(body) -> Text] :
           /\ e[0] = <<>> /\ e[Len(body)] = escape(body)
           /\ \A k \in 1..Len(body) : e[k] = AddByte(e[k - 1], body[k])
<1> DEFINE n == Len(body)
           D == SUBSET (1..n)
           step == [k \in 1..n |-> [v \in Text |-> AddByte(v, body[k])]]
           Folds(it) == it = [u \in D |-> IF u = {} THEN <<>>
                                          ELSE AddByte(it[u \ {Max(u)}], body[Max(u)])]
           out == CHOOSE it : Folds(it)
<1>1. n \in Nat /\ DOMAIN body = 1..n /\ \A k \in 1..n : body[k] \in Nat
  BY DEF Text
<1>2. ASSUME NEW v \in Text, NEW k \in 1..n PROVE AddByte(v, body[k]) \in Text
  <2>1. <<MARK, MARK>> \in Text
    BY ShortIsText DEF MARK
  <2>2. v \o <<MARK, MARK>> \in Text
    BY <2>1, JoinIsText
  <2>3. Append(v, body[k]) \in Text
    BY <1>1, AppendProperties DEF Text
  <2> QED BY <2>2, <2>3 DEF AddByte
<1>3. escape(body) = out[1..n]
  BY <1>1, Zenon DEF escape, FoldLeft, MapThenFoldSet, AddByte
<1>4. PICK it \in [D -> Text] : FoldsBy(it, n, <<>>, step) /\ Through(it, n, <<>>, step)
  <2>1. step \in [1..n -> [Text -> Text]] /\ <<>> \in Text
    BY <1>2, ShortIsText
  <2> HIDE DEF step
  <2> QED BY <1>1, <2>1, Fold
<1>5. Folds(it)
  BY <1>1, <1>4, PlaceRanks DEF FoldsBy
<1>6. Folds(out)
  BY <1>5
<1>7. out = it
  <2> HIDE DEF out
  <2>1. FoldAlike(n, it, out)
    BY <1>5, <1>6 DEF FoldAlike
  <2> QED BY <1>1, <2>1, FoldUnique
<1> HIDE DEF out
<1> DEFINE e == [k \in 0..n |-> it[1..k]]
<1>8. e \in [0..n -> Text]
  <2>1. \A k \in 0..n : 1..k \in D
    BY <1>1
  <2> HIDE DEF D
  <2> QED BY <1>4, <2>1
<1>9. e[0] = <<>> /\ e[n] = escape(body)
  BY <1>1, <1>3, <1>4, <1>7 DEF Through
<1>10. ASSUME NEW k \in 1..n PROVE e[k] = AddByte(e[k - 1], body[k])
  <2>1. k \in 0..n /\ k - 1 \in 0..n
    BY <1>1
  <2>2. it[1..k] = step[k][it[1..k - 1]]
    BY <1>4 DEF Through
  <2>3. it[1..k - 1] \in Text
    BY <1>8, <2>1
  <2> QED BY <2>1, <2>2, <2>3
<1> HIDE DEF e
<1> QED BY <1>8, <1>9, <1>10

\* The bytes that adding one leaves, and those it adds.
LEMMA AddedByte ==
  ASSUME NEW v \in Text, NEW b \in Nat
  PROVE  /\ AddByte(v, b) \in Text
         /\ Len(AddByte(v, b)) = Len(v) + (IF b = MARK THEN 2 ELSE 1)
         /\ \A i \in 1..Len(v) : AddByte(v, b)[i] = v[i]
         /\ \A i \in Len(v) + 1..Len(AddByte(v, b)) : AddByte(v, b)[i] = b
<1>0. Len(v) \in Nat /\ MARK \in Nat
  BY DEF Text, MARK
<1>1. CASE b = MARK
  <2>1. <<MARK, MARK>> \in Text /\ Len(<<MARK, MARK>>) = 2
        /\ <<MARK, MARK>>[1] = MARK /\ <<MARK, MARK>>[2] = MARK
    BY <1>0, ShortIsText
  <2> DEFINE t == <<MARK, MARK>>
  <2> HIDE DEF t
  <2>2. /\ v \o t \in Text /\ Len(v \o t) = Len(v) + Len(t)
        /\ \A i \in 1..Len(v) + Len(t) :
             (v \o t)[i] = IF i <= Len(v) THEN v[i] ELSE t[i - Len(v)]
    BY <2>1, Joined, Zenon DEF t
  <2>3. Len(t) = 2 /\ t[1] = b /\ t[2] = b
    BY <1>1, <2>1 DEF t
  <2>4. AddByte(v, b) = v \o t
    BY <1>1 DEF AddByte, t
  <2> DEFINE r == v \o t
  <2> HIDE DEF r
  <2>5. \A i \in 1..Len(v) : r[i] = v[i]
    BY <1>0, <2>2, <2>3 DEF r
  <2>6. \A i \in Len(v) + 1..Len(v) + 2 : r[i] = b
    <3> SUFFICES ASSUME NEW i \in Len(v) + 1..Len(v) + 2 PROVE r[i] = b
      OBVIOUS
    <3>1. i \in 1..Len(v) + Len(t) /\ ~(i <= Len(v)) /\ i - Len(v) \in {1, 2}
      BY <1>0, <2>3
    <3>2. r[i] = t[i - Len(v)]
      BY <2>2, <3>1 DEF r
    <3> QED BY <2>3, <3>1, <3>2
  <2> QED BY <1>1, <2>2, <2>3, <2>4, <2>5, <2>6 DEF r
<1>2. CASE b # MARK
  <2>1. v \in Seq(Nat)
    BY DEF Text
  <2>2. /\ Append(v, b) \in Seq(Nat) /\ Len(Append(v, b)) = Len(v) + 1
        /\ \A i \in 1..Len(v) : Append(v, b)[i] = v[i]
        /\ Append(v, b)[Len(v) + 1] = b
    BY <2>1, AppendProperties
  <2>3. AddByte(v, b) = Append(v, b)
    BY <1>2 DEF AddByte
  <2> QED BY <1>0, <1>2, <2>2, <2>3 DEF Text
<1> QED BY <1>1, <1>2

LEMMA EscapeHasPlaces == ASSUME NEW body \in Text PROVE \E at : Places(body, at)
<1> DEFINE n == Len(body)
           out == escape(body)
<1>1. PICK e \in [0..n -> Text] :
        /\ e[0] = <<>> /\ e[n] = out
        /\ \A k \in 1..n : e[k] = AddByte(e[k - 1], body[k])
  BY EscapeGoesOn
<1>2. n \in Nat /\ \A k \in 1..n : body[k] \in Nat
  BY DEF Text
<1> HIDE DEF n, out
<1>3. \A k \in 0..n : e[k] \in Text /\ Len(e[k]) \in Nat
  BY <1>1 DEF Text
<1>4. ASSUME NEW k \in 1..n
      PROVE  /\ k \in 0..n /\ k - 1 \in 0..n
             /\ Len(e[k]) = Len(e[k - 1]) + (IF body[k] = MARK THEN 2 ELSE 1)
             /\ \A i \in 1..Len(e[k - 1]) : e[k][i] = e[k - 1][i]
             /\ \A i \in Len(e[k - 1]) + 1..Len(e[k]) : e[k][i] = body[k]
  <2>1. k \in 0..n /\ k - 1 \in 0..n
    BY <1>2
  <2>2. e[k] = AddByte(e[k - 1], body[k]) /\ e[k - 1] \in Text /\ body[k] \in Nat
    BY <1>1, <1>2, <1>3, <2>1
  <2> QED BY <2>1, <2>2, AddedByte
\* What has been escaped stays.
<1> DEFINE Stays(k) == Len(e[k]) <= Len(out) /\ \A i \in 1..Len(e[k]) : out[i] = e[k][i]
           S == {m \in Nat : \A k \in 0..n : n - k = m => Stays(k)}
<1>5. ASSUME NEW m \in Nat, \A l \in 0..m - 1 : l \in S PROVE m \in S
  <2> SUFFICES ASSUME NEW k \in 0..n, n - k = m PROVE Stays(k)
    OBVIOUS
  <2>1. CASE k = n
    BY <1>1, <1>2, <1>3, <2>1
  <2>2. CASE k # n
    <3>1. PICK j \in 1..n : j = k + 1
      BY <1>2, <2>2
    <3>2. j \in 0..n /\ n - j \in 0..m - 1 /\ j - 1 = k
      BY <1>2, <3>1
    <3>3. Stays(j)
      BY <1>5, <3>2
    <3>4. /\ Len(e[j]) = Len(e[k]) + (IF body[j] = MARK THEN 2 ELSE 1)
          /\ \A i \in 1..Len(e[k]) : e[j][i] = e[k][i]
      <4>1. /\ Len(e[j]) = Len(e[j - 1]) + (IF body[j] = MARK THEN 2 ELSE 1)
            /\ \A i \in 1..Len(e[j - 1]) : e[j][i] = e[j - 1][i]
        BY <1>4
      <4> QED BY <3>2, <4>1
    <3>5. Len(e[k]) \in Nat /\ Len(e[j]) \in Nat /\ Len(out) \in Nat
      BY <1>1, <1>2, <1>3, <3>2
    <3> QED BY <3>3, <3>4, <3>5
  <2> QED BY <2>1, <2>2
<1>6. Nat \subseteq S
  <2> HIDE DEF S
  <2> QED BY <1>5, Induction
<1>7. ASSUME NEW k \in 0..n PROVE Stays(k)
  <2>1. n - k \in Nat
    BY <1>2
  <2> QED BY <1>6, <2>1
<1> HIDE DEF S
<1> DEFINE at == [k \in 0..n |-> Len(e[k])]
<1>8. Len(out) \in Nat /\ at[n] = Len(out) /\ at[0] = 0
  BY <1>1, <1>2, <1>3
<1>9. at \in [0..n -> 0..Len(out)]
  BY <1>3, <1>7, <1>8
<1>10. ASSUME NEW k \in 1..n
       PROVE  IF body[k] = MARK
                THEN /\ at[k] = at[k - 1] + 2 /\ out[at[k] - 1] = MARK /\ out[at[k]] = MARK
                ELSE at[k] = at[k - 1] + 1 /\ out[at[k]] = body[k]
  <2>1. /\ k \in 0..n /\ k - 1 \in 0..n /\ Len(e[k]) \in Nat /\ Len(e[k - 1]) \in Nat
        /\ at[k] = Len(e[k]) /\ at[k - 1] = Len(e[k - 1])
    BY <1>3, <1>4
  <2>2. Len(e[k]) = Len(e[k - 1]) + (IF body[k] = MARK THEN 2 ELSE 1)
    BY <1>4
  <2>3. \A i \in Len(e[k - 1]) + 1..Len(e[k]) : out[i] = body[k]
    <3> SUFFICES ASSUME NEW i \in Len(e[k - 1]) + 1..Len(e[k]) PROVE out[i] = body[k]
      OBVIOUS
    <3>1. e[k][i] = body[k]
      BY <1>4
    <3>2. i \in 1..Len(e[k])
      BY <2>1
    <3>3. out[i] = e[k][i]
      BY <1>7, <2>1, <3>2
    <3> QED BY <3>1, <3>3
  <2> HIDE DEF at
  <2>4. CASE body[k] = MARK
    BY <2>1, <2>2, <2>3, <2>4
  <2>5. CASE body[k] # MARK
    BY <2>1, <2>2, <2>3, <2>5
  <2> QED BY <2>4, <2>5
<1> HIDE DEF at, Stays
<1>11. Places(body, at)
  BY <1>8, <1>9, <1>10 DEF Places, n, out
<1> QED BY <1>11

LEMMA HeadAndRest ==
  ASSUME NEW s \in Text, NEW k \in 1..Len(s)
  PROVE  <<s[k]>> \o SubSeq(s, k + 1, Len(s)) = SubSeq(s, k, Len(s))
<1> DEFINE n == Len(s)
           head == <<s[k]>>
           t == SubSeq(s, k + 1, n)
           u == SubSeq(s, k, n)
<1>1. n \in Nat /\ k \in Nat \ {0} /\ k <= n /\ k + 1 \in Nat \ {0} /\ s[k] \in Nat
  BY DEF Text
<1>2. u \in Text /\ Len(u) = n - k + 1
  BY <1>1, PartIsText
<1>3. t \in Text /\ Len(t) = n - k
  <2>1. t \in Text /\ Len(t) = IF k + 1 <= n THEN n - (k + 1) + 1 ELSE 0
    BY <1>1, PartIsText
  <2> HIDE DEF t
  <2> QED BY <1>1, <2>1
<1>4. \A i \in 1..n - k + 1 : u[i] = s[k + i - 1]
  <2> SUFFICES ASSUME NEW i \in 1..n - k + 1 PROVE u[i] = s[k + i - 1]
    OBVIOUS
  <2> QED BY <1>1, PartElement
<1>5. \A i \in 1..n - k : t[i] = s[k + i]
  <2> SUFFICES ASSUME NEW i \in 1..n - k PROVE t[i] = s[k + i]
    OBVIOUS
  <2>1. i \in 1..n - (k + 1) + 1 /\ n \in Int /\ n <= Len(s)
    BY <1>1
  <2>2. SubSeq(s, k + 1, n)[i] = s[(k + 1) + i - 1]
    BY <1>1, <2>1, PartElement
  <2>3. (k + 1) + i - 1 = k + i
    BY <1>1
  <2> QED BY <2>2, <2>3
<1>6. head \in Text /\ Len(head) = 1 /\ head[1] = s[k]
  BY <1>1, ShortIsText
<1> HIDE DEF head, t, u
<1>7. /\ head \o t \in Text /\ Len(head \o t) = Len(head) + Len(t)
      /\ \A i \in 1..Len(head) + Len(t) :
           (head \o t)[i] = IF i <= Len(head) THEN head[i] ELSE t[i - Len(head)]
  BY <1>3, <1>6, Joined, Zenon
<1> DEFINE r == head \o t
<1> HIDE DEF r
<1>8. Len(r) = n - k + 1
  BY <1>1, <1>3, <1>6, <1>7 DEF r
<1>9. \A i \in 1..n - k + 1 : r[i] = u[i]
  <2> SUFFICES ASSUME NEW i \in 1..n - k + 1 PROVE r[i] = u[i]
    OBVIOUS
  <2>1. r[i] = IF i <= 1 THEN head[i] ELSE t[i - 1]
    BY <1>1, <1>3, <1>6, <1>7 DEF r
  <2>2. CASE i = 1
    <3>1. u[i] = s[k]
      <4>1. u[i] = s[k + i - 1] /\ k + i - 1 = k
        BY <1>1, <1>4, <2>2
      <4> QED BY <4>1
    <3> QED BY <1>6, <2>1, <2>2, <3>1
  <2>3. CASE i # 1
    <3>1. i - 1 \in 1..n - k /\ ~(i <= 1) /\ k + (i - 1) = k + i - 1
      BY <1>1, <2>3
    <3>2. t[i - 1] = s[k + (i - 1)]
      BY <1>5, <3>1
    <3>3. u[i] = s[k + i - 1]
      BY <1>4
    <3> QED BY <2>1, <3>1, <3>2, <3>3
  <2> QED BY <2>2, <2>3
<1>10. r = u
  <2>1. r \in Seq(Nat) /\ u \in Seq(Nat)
    BY <1>2, <1>7 DEF r, Text
  <2>2. Len(r) = Len(u)
    BY <1>2, <1>8
  <2>3. \A i \in 1..Len(r) : r[i] = u[i]
    BY <1>8, <1>9
  <2> QED BY <2>1, <2>2, <2>3, SeqEqual
<1> QED BY <1>10 DEF r, head, t, u

\* The bytes of an escaped body and the end marker stand in the stream from `start' on.
HoldsEscaped(stream, start, body) ==
  LET m == Len(escape(body))
  IN  /\ start + m + 1 <= Len(stream)
      /\ \A i \in 1..m : stream[start - 1 + i] = escape(body)[i]
      /\ stream[start + m] = MARK /\ stream[start + m + 1] = 3

\* They scan to the body.
LEMMA EscapedScans ==
  ASSUME NEW stream \in Text, NEW start \in Nat \ {0}, NEW body \in Text,
         HoldsEscaped(stream, start, body)
  PROVE  Unescaped(stream, start)
           = [ended |-> TRUE, body |-> body, next |-> start + Len(escape(body)) + 2]
<1> DEFINE n == Len(body)
           out == escape(body)
           end == Len(out)
           f == Scan(stream, start)
           Found(k) ==
             [ended |-> TRUE, body |-> SubSeq(body, k + 1, n), next |-> start + end + 2]
<1>1. PICK at : Places(body, at)
  BY EscapeHasPlaces
<1>2. /\ n \in Nat /\ end \in Nat /\ Len(stream) \in Nat /\ start + end + 1 <= Len(stream)
      /\ \A k \in 1..n : body[k] \in Nat
  <2>1. n \in Nat /\ Len(stream) \in Nat /\ \A k \in 1..n : body[k] \in Nat
    BY DEF Text
  <2>2. out \in Text
    BY EscapedIsText
  <2>3. end \in Nat
    <3> HIDE DEF out
    <3> QED BY <2>2 DEF Text
  <2>4. start + end + 1 <= Len(stream)
    BY DEF HoldsEscaped
  <2> QED BY <2>1, <2>3, <2>4
<1>3. \A k \in 0..n : at[k] \in Nat /\ at[k] <= end
  BY <1>1, <1>2 DEF Places
<1>4. f \in [start..Len(stream) + 1 -> Scanned]
      /\ \A j \in start..Len(stream) + 1 : f[j] = ScanNext(stream, f, j)
  BY ScanGoesOn
<1>5. /\ at[0] = 0 /\ at[n] = end
      /\ \A k \in 1..n :
           IF body[k] = MARK
             THEN at[k] = at[k - 1] + 2 /\ out[at[k] - 1] = MARK /\ out[at[k]] = MARK
             ELSE at[k] = at[k - 1] + 1 /\ out[at[k]] = body[k]
  BY <1>1 DEF Places
<1>6. /\ \A i \in 1..end : stream[start - 1 + i] = out[i]
      /\ stream[start + end] = MARK /\ stream[start + end + 1] = 3
  BY DEF HoldsEscaped
<1> HIDE DEF f, n, end, out
<1> DEFINE S == {m \in Nat : \A k \in 0..n : n - k = m => f[start + at[k]] = Found(k)}
<1>7. f[start + at[n]] = Found(n)
  <2> DEFINE j == start + end
  <2>1. j \in Nat \ {0} /\ j \in start..Len(stream) + 1 /\ j < Len(stream)
    BY <1>2
  <2>2. stream[j] = MARK /\ stream[j + 1] = 3
    BY <1>6
  <2>3. f[j] = [ended |-> TRUE, body |-> <<>>, next |-> j + 2]
    <3> HIDE DEF j
    <3>1. ScanNext(stream, f, j) = [ended |-> TRUE, body |-> <<>>, next |-> j + 2]
      BY <2>1, <2>2, ScanEnd
    <3> QED BY <1>4, <2>1, <3>1
  <2>4. SubSeq(body, n + 1, n) = <<>>
    <3>1. n + 1 \in Nat \ {0} /\ n \in Int /\ n <= Len(body) /\ ~(n + 1 <= n)
      BY <1>2 DEF n
    <3>2. SubSeq(body, n + 1, n) \in Text /\ Len(SubSeq(body, n + 1, n)) = 0
      BY <3>1, PartIsText
    <3> DEFINE t == SubSeq(body, n + 1, n)
    <3> HIDE DEF t
    <3>3. t \in Seq(Nat) /\ Len(t) = 0
      BY <3>2 DEF t, Text
    <3>4. t = <<>>
      BY <3>3
    <3> QED BY <3>4 DEF t
  <2> QED BY <1>5, <2>3, <2>4
<1>8. ASSUME NEW m \in Nat, \A l \in 0..m - 1 : l \in S PROVE m \in S
  <2> SUFFICES ASSUME NEW k \in 0..n, n - k = m PROVE f[start + at[k]] = Found(k)
    OBVIOUS
  <2>1. CASE k = n
    BY <1>7, <2>1
  <2>2. CASE k # n
    <3>1. PICK l \in 1..n : l = k + 1
      BY <1>2, <2>2
    <3>2. l \in 0..n /\ n - l \in 0..m - 1 /\ l - 1 = k /\ body[l] \in Nat
      BY <1>2, <3>1
    <3> DEFINE j == start + at[k]
    <3>3. f[start + at[l]] = Found(l)
      BY <1>8, <3>2
    <3>4. Found(k) = [ended |-> TRUE, body |-> <<body[l]>> \o SubSeq(body, l + 1, n),
                      next |-> start + end + 2]
      <4>1. <<body[l]>> \o SubSeq(body, l + 1, n) = SubSeq(body, l, n)
        BY HeadAndRest DEF n
      <4> QED BY <3>1, <4>1
    <3>5. at[k] \in Nat /\ at[l] \in Nat /\ at[l] <= end
      BY <1>3, <3>2
    <3>6. IF body[l] = MARK
            THEN at[l] = at[k] + 2 /\ out[at[l] - 1] = MARK /\ out[at[l]] = MARK
            ELSE at[l] = at[k] + 1 /\ out[at[l]] = body[l]
      <4>1. IF body[l] = MARK
              THEN at[l] = at[l - 1] + 2 /\ out[at[l] - 1] = MARK /\ out[at[l]] = MARK
              ELSE at[l] = at[l - 1] + 1 /\ out[at[l]] = body[l]
        BY <1>5
      <4> QED BY <3>2, <4>1
    <3>7. CASE body[l] = MARK
      <4>1. /\ at[k] + 1 \in 1..end /\ at[k] + 2 \in 1..end
            /\ at[l] = at[k] + 2 /\ at[l] - 1 = at[k] + 1
        <5> DEFINE a == at[k]
                   b == at[l]
        <5>1. a \in Nat /\ b <= end /\ b = a + 2
          BY <3>5, <3>6, <3>7
        <5> HIDE DEF a, b
        <5>2. a + 1 \in 1..end /\ a + 2 \in 1..end /\ b = a + 2 /\ b - 1 = a + 1
          BY <1>2, <5>1
        <5> QED BY <5>2 DEF a, b
      <4>2. out[at[k] + 1] = MARK /\ out[at[k] + 2] = MARK
        BY <3>6, <3>7, <4>1
      <4>3. stream[start - 1 + (at[k] + 1)] = MARK /\ stream[start - 1 + (at[k] + 2)] = MARK
        BY <1>6, <4>1, <4>2
      <4>4. /\ start - 1 + (at[k] + 1) = j /\ start - 1 + (at[k] + 2) = j + 1
            /\ j \in Nat \ {0} /\ j < Len(stream) /\ j \in start..Len(stream) + 1
            /\ j + 2 = start + at[l]
        <5> DEFINE a == at[k]
                   b == at[l]
        <5>1. a \in Nat /\ a + 2 <= end /\ b = a + 2 /\ j = start + a
          BY <1>2, <3>5, <4>1
        <5> HIDE DEF a, b, j
        <5>2. /\ start - 1 + (a + 1) = j /\ start - 1 + (a + 2) = j + 1
              /\ j \in Nat \ {0} /\ j < Len(stream) /\ j \in start..Len(stream) + 1
              /\ j + 2 = start + b
          BY <1>2, <5>1
        <5> QED BY <5>2 DEF a, b
      <4> HIDE DEF j
      <4>0. stream[j] = MARK /\ stream[j + 1] = MARK
        BY <4>3, <4>4, Zenon
      <4>5. ScanNext(stream, f, j) = [f[j + 2] EXCEPT !.body = <<MARK>> \o @]
        <5>1. j \in Nat \ {0} /\ j < Len(stream)
          BY <4>4
        <5> QED BY <4>0, <5>1, ScanMark, SMTT(30)
      <4>6. f[j] = [Found(l) EXCEPT !.body = <<MARK>> \o @]
        BY <1>4, <3>3, <4>4, <4>5
      <4> DEFINE rest == SubSeq(body, l + 1, n)
      <4> HIDE DEF rest
      <4>7. f[j] = [ended |-> TRUE, body |-> <<MARK>> \o rest, next |-> start + end + 2]
        BY <4>6 DEF rest
      <4> QED BY <3>4, <3>7, <4>7 DEF rest, j
    <3>8. CASE body[l] # MARK
      <4>1. at[k] + 1 \in 1..end /\ at[l] = at[k] + 1
        <5> DEFINE a == at[k]
                   b == at[l]
        <5>1. a \in Nat /\ b <= end /\ b = a + 1
          BY <3>5, <3>6, <3>8
        <5> HIDE DEF a, b
        <5>2. a + 1 \in 1..end /\ b = a + 1
          BY <1>2, <5>1
        <5> QED BY <5>2 DEF a, b
      <4>2. out[at[k] + 1] = body[l]
        BY <3>6, <3>8, <4>1
      <4>3. stream[start - 1 + (at[k] + 1)] = body[l]
        BY <1>6, <4>1, <4>2
      <4>4. /\ start - 1 + (at[k] + 1) = j
            /\ j \in Nat \ {0} /\ j < Len(stream) /\ j \in start..Len(stream) + 1
            /\ j + 1 = start + at[l]
        <5> DEFINE a == at[k]
                   b == at[l]
        <5>1. a \in Nat /\ a + 1 <= end /\ b = a + 1 /\ j = start + a
          BY <1>2, <3>5, <4>1
        <5> HIDE DEF a, b, j
        <5>2. /\ start - 1 + (a + 1) = j
              /\ j \in Nat \ {0} /\ j < Len(stream) /\ j \in start..Len(stream) + 1
              /\ j + 1 = start + b
          BY <1>2, <5>1
        <5> QED BY <5>2 DEF a, b
      <4> HIDE DEF j
      <4>0. stream[j] = body[l]
        BY <4>3, <4>4, Zenon
      <4>5. ScanNext(stream, f, j) = [f[j + 1] EXCEPT !.body = <<stream[j]>> \o @]
        <5>1. j \in Nat \ {0} /\ j < Len(stream) /\ stream[j] # MARK
          BY <3>8, <4>0, <4>4
        <5> QED BY <5>1 DEF ScanNext
      <4>6. f[j] = [Found(l) EXCEPT !.body = <<body[l]>> \o @]
        BY <1>4, <3>3, <4>0, <4>4, <4>5
      <4> DEFINE rest == SubSeq(body, l + 1, n)
      <4> HIDE DEF rest
      <4>7. f[j] = [ended |-> TRUE, body |-> <<body[l]>> \o rest, next |-> start + end + 2]
        BY <4>6 DEF rest
      <4> QED BY <3>4, <4>7 DEF rest, j
    <3> QED BY <3>7, <3>8
  <2> QED BY <2>1, <2>2
<1>9. Nat \subseteq S
  <2> HIDE DEF S
  <2> QED BY <1>8, Induction
<1>10. f[start] = Found(0)
  <2>1. n - 0 \in S /\ 0 \in 0..n
    BY <1>2, <1>9
  <2>2. f[start + at[0]] = Found(0)
    BY <2>1
  <2> QED BY <1>5, <2>2
<1>11. Found(0) = [ended |-> TRUE, body |-> body, next |-> start + end + 2]
  <2>1. SubSeq(body, 1, n) = body
    BY DEF n, Text
  <2>2. SubSeq(body, 0 + 1, n) = body
    BY <2>1
  <2> QED BY <2>2
<1>12. Unescaped(stream, start) = f[start]
  <2>1. start \in 1..Len(stream) + 1
    BY <1>2
  <2> QED BY <2>1, UnescapedIsTyped DEF f
<1> HIDE DEF Found
<1> QED BY <1>10, <1>11, <1>12 DEF end, out

\* A scan that starts before a start marker and would pass it does not end: the marker
\* is no end, and it is not the second of a pair.
LEMMA ScanStops ==
  ASSUME NEW stream \in Text, NEW start \in Nat \ {0}, NEW p \in start..Len(stream),
         p < Len(stream), stream[p] = MARK, stream[p + 1] = 2,
         p = start \/ stream[p - 1] # MARK
  PROVE  Unescaped(stream, start).ended => Unescaped(stream, start).next <= p
<1> DEFINE f == Scan(stream, start)
           Stops(j) == f[j].ended => f[j].next <= p
           S == {m \in Nat : \A j \in start..p : p - j = m => Stops(j)}
<1>1. Len(stream) \in Nat /\ p \in Nat /\ MARK # 2 /\ MARK # 3 /\ MARK \in Nat
  BY DEF Text, MARK
<1>2. f \in [start..Len(stream) + 1 -> Scanned]
      /\ \A j \in start..Len(stream) + 1 : f[j] = ScanNext(stream, f, j)
  BY ScanGoesOn
<1> HIDE DEF f
<1>3. ASSUME NEW m \in Nat, \A l \in 0..m - 1 : l \in S PROVE m \in S
  <2> SUFFICES ASSUME NEW j \in start..p, p - j = m PROVE Stops(j)
    OBVIOUS
  <2>0. /\ j \in Nat \ {0} /\ j \in start..Len(stream) + 1 /\ j < Len(stream)
        /\ f[j] = ScanNext(stream, f, j)
    BY <1>1, <1>2
  <2>1. ASSUME NEW k \in start..p, k > j PROVE Stops(k) /\ f[k] \in Scanned
    <3>1. p - k \in 0..m - 1 /\ k \in start..Len(stream) + 1
      BY <1>1, <2>1
    <3> QED BY <1>2, <1>3, <3>1
  <2>2. CASE stream[j] = MARK /\ stream[j + 1] \notin {MARK, 3}
    <3>1. f[j] = [ended |-> FALSE, body |-> <<>>, next |-> j]
      BY <2>0, <2>2, ScanStop
    <3> QED BY <3>1
  <2>3. CASE j # p /\ stream[j] # MARK
    <3>1. f[j] = [f[j + 1] EXCEPT !.body = <<stream[j]>> \o @]
      <4>1. ScanNext(stream, f, j) = [f[j + 1] EXCEPT !.body = <<stream[j]>> \o @]
        <5>1. j \in Nat \ {0} /\ j < Len(stream) /\ stream[j] # MARK
          BY <2>0, <2>3
        <5> QED BY <5>1 DEF ScanNext
      <4> QED BY <2>0, <4>1
    <3>2. j + 1 \in start..p /\ j + 1 > j
      BY <1>1, <2>3
    <3>3. Stops(j + 1) /\ f[j + 1] \in Scanned
      BY <2>1, <3>2
    <3>4. f[j].next = f[j + 1].next /\ f[j].ended = f[j + 1].ended
      BY <3>1, <3>3 DEF Scanned
    <3> QED BY <3>3, <3>4
  <2>4. CASE j # p /\ stream[j] = MARK /\ stream[j + 1] = MARK
    <3>1. f[j] = [f[j + 2] EXCEPT !.body = <<MARK>> \o @]
      <4>1. ScanNext(stream, f, j) = [f[j + 2] EXCEPT !.body = <<MARK>> \o @]
        <5>1. j \in Nat \ {0} /\ j < Len(stream) /\ stream[j] = MARK /\ stream[j + 1] = MARK
          BY <2>0, <2>4
        <5>2. Len(stream) \in Nat /\ MarkThen(stream, j, MARK)
          BY <1>1, <5>1 DEF MarkThen
        <5> QED BY <5>1, <5>2 DEF ScanNext
      <4> QED BY <2>0, <4>1
    <3>2. j + 2 \in start..p /\ j + 2 > j
      <4>1. j + 1 # p
        <5> SUFFICES ASSUME j + 1 = p PROVE FALSE
          OBVIOUS
        <5>1. p - 1 = j /\ p # start
          BY <1>1
        <5> QED BY <2>4, <5>1
      <4> QED BY <1>1, <2>4, <4>1
    <3>3. Stops(j + 2) /\ f[j + 2] \in Scanned
      BY <2>1, <3>2
    <3>4. f[j].next = f[j + 2].next /\ f[j].ended = f[j + 2].ended
      BY <3>1, <3>3 DEF Scanned
    <3> QED BY <3>3, <3>4
  <2>5. CASE j # p /\ stream[j] = MARK /\ stream[j + 1] = 3
    <3>1. f[j] = [ended |-> TRUE, body |-> <<>>, next |-> j + 2]
      BY <2>0, <2>5, ScanEnd
    <3>2. j + 1 # p
      BY <1>1, <2>5
    <3> QED BY <1>1, <2>5, <3>1, <3>2
  <2>6. CASE j = p
    BY <1>1, <2>2, <2>6
  <2> QED BY <2>2, <2>3, <2>4, <2>5, <2>6
<1>4. Nat \subseteq S
  <2> HIDE DEF S
  <2> QED BY <1>3, Induction
<1>5. Stops(start)
  <2>1. p - start \in Nat /\ start \in start..p
    BY <1>1
  <2>2. p - start \in S
    BY <1>4, <2>1
  <2> HIDE DEF Stops
  <2> QED BY <2>1, <2>2
<1>6. Unescaped(stream, start) = f[start]
  <2>1. start \in 1..Len(stream) + 1
    BY <1>1
  <2> QED BY <2>1, UnescapedIsTyped DEF f
<1> QED BY <1>5, <1>6

LEMMA StartStands ==
  ASSUME NEW stream \in Text, NEW i \in Nat \ {0}, i < Len(stream)
  PROVE  SubSeq(stream, i, i + 1) = FRAME_START <=> stream[i] = MARK /\ stream[i + 1] = 2
<1> DEFINE s == SubSeq(stream, i, i + 1)
<1>1. Len(stream) \in Nat /\ MARK \in Nat
  BY DEF Text, MARK
<1>2. s \in Text /\ Len(s) = 2
  <2>1. i + 1 \in Int /\ i + 1 <= Len(stream)
    BY <1>1
  <2>2. s \in Text /\ Len(s) = IF i <= i + 1 THEN i + 1 - i + 1 ELSE 0
    BY <2>1, PartIsText
  <2> HIDE DEF s
  <2> QED BY <2>2
<1>3. s[1] = stream[i] /\ s[2] = stream[i + 1]
  <2>1. \A k \in 1..2 : s[k] = stream[i + k - 1]
    <3> SUFFICES ASSUME NEW k \in 1..2 PROVE s[k] = stream[i + k - 1]
      OBVIOUS
    <3>1. i + 1 \in Int /\ i + 1 <= Len(stream) /\ k \in 1..(i + 1) - i + 1
      BY <1>1
    <3> QED BY <3>1, PartElement
  <2>2. i + 1 - 1 = i /\ i + 2 - 1 = i + 1
    OBVIOUS
  <2>3. s[1] = stream[i + 1 - 1] /\ s[2] = stream[i + 2 - 1]
    BY <2>1
  <2> QED BY <2>2, <2>3
<1> HIDE DEF s
<1> DEFINE t == FRAME_START
<1>4. t \in Text /\ Len(t) = 2 /\ t[1] = MARK /\ t[2] = 2
  BY <1>1, ShortIsText DEF FRAME_START
<1> HIDE DEF t
<1>5. ASSUME s[1] = MARK, s[2] = 2 PROVE s = t
  <2>1. s \in Seq(Nat) /\ t \in Seq(Nat) /\ Len(s) = Len(t)
    BY <1>2, <1>4 DEF Text
  <2>2. \A k \in 1..Len(s) : s[k] = t[k]
    BY <1>2, <1>4, <1>5
  <2> QED BY <2>1, <2>2, SeqEqual
<1>6. s = t <=> s[1] = MARK /\ s[2] = 2
  BY <1>4, <1>5
<1> QED BY <1>3, <1>6 DEF s, t

\* What stands between the markers.
Body(id, payload) == <<id, Len(payload) % 256>> \o payload

LEMMA BodyIsText ==
  ASSUME NEW id \in Nat, NEW payload \in Text
  PROVE  /\ Body(id, payload) \in Text /\ Len(Body(id, payload)) >= 2
         /\ Body(id, payload)[1] = id
<1> DEFINE lead == <<id, Len(payload) % 256>>
<1>1. lead \in Text /\ Len(lead) = 2 /\ lead[1] = id
  <2>1. Len(payload) % 256 \in Nat
    BY DEF Text
  <2> QED BY <2>1, ShortIsText
<1>2. Len(payload) \in Nat
  BY DEF Text
<1> HIDE DEF lead
<1> DEFINE r == lead \o payload
<1>3. /\ r \in Text /\ Len(r) = Len(lead) + Len(payload)
      /\ \A i \in 1..Len(lead) + Len(payload) :
           r[i] = IF i <= Len(lead) THEN lead[i] ELSE payload[i - Len(lead)]
  BY <1>1, Joined, Zenon
<1>4. Body(id, payload) = r
  BY DEF Body, lead
<1> HIDE DEF r
<1>5. r[1] = id
  BY <1>1, <1>2, <1>3
<1> QED BY <1>1, <1>2, <1>3, <1>4, <1>5

LEMMA FrameIsTyped ==
  ASSUME NEW body \in Text, Len(body) >= 2
  PROVE  Frame(body) \in Frames /\ Frame(body).id = body[1]
<1>1. Len(body) \in Nat
  BY DEF Text
<1>2. body[1] \in Nat /\ body[2] \in Nat
  BY <1>1 DEF Text
<1>3. SubSeq(body, 3, Len(body)) \in Text
  BY <1>1, PartIsText
<1> DEFINE rest == SubSeq(body, 3, Len(body))
<1> HIDE DEF rest
<1>4. Frame(body) = [id |-> body[1], check |-> body[2], payload |-> rest]
  BY DEF Frame, rest
<1> QED BY <1>2, <1>3, <1>4 DEF Frames, rest

\* A frame that is carried: its markers and the escaped body between them.
LEMMA FrameStands ==
  ASSUME NEW stream \in Text, NEW at \in Nat, NEW id \in Nat, NEW payload \in Text,
         Carries(stream, at, build_frame(id, payload))
  PROVE  LET m == Len(escape(Body(id, payload)))
         IN  /\ m \in Nat /\ Len(build_frame(id, payload)) = m + 4
             /\ at + m + 4 <= Len(stream)
             /\ stream[at + 1] = MARK /\ stream[at + 2] = 2
             /\ HoldsEscaped(stream, at + 3, Body(id, payload))
<1> DEFINE out == escape(Body(id, payload))
           m == Len(out)
           lead == FRAME_START
           tail == FRAME_END
           t == build_frame(id, payload)
<1>1. out \in Text /\ m \in Nat
  <2>1. out \in Text
    BY BodyIsText, EscapedIsText
  <2> QED BY <2>1 DEF Text
<1>2. /\ lead \in Text /\ Len(lead) = 2 /\ lead[1] = MARK /\ lead[2] = 2
      /\ tail \in Text /\ Len(tail) = 2 /\ tail[1] = MARK /\ tail[2] = 3
  <2>1. MARK \in Nat
    BY DEF MARK
  <2> QED BY <2>1, ShortIsText DEF FRAME_START, FRAME_END
<1>3. t = (lead \o out) \o tail
  BY DEF build_frame, Body
<1>4. Carries(stream, at, t)
  OBVIOUS
<1> HIDE DEF lead, tail, t
<1> DEFINE s == lead \o out
<1>5. /\ s \in Text /\ Len(s) = Len(lead) + Len(out)
      /\ \A i \in 1..Len(lead) + Len(out) :
           s[i] = IF i <= Len(lead) THEN lead[i] ELSE out[i - Len(lead)]
  BY <1>1, <1>2, Joined, Zenon
<1>6. t = s \o tail
  BY <1>3
<1> HIDE DEF s, out
<1>7. /\ t \in Text /\ Len(t) = Len(s) + Len(tail)
      /\ \A i \in 1..Len(s) + Len(tail) :
           t[i] = IF i <= Len(s) THEN s[i] ELSE tail[i - Len(s)]
  BY <1>2, <1>5, <1>6, Joined, Zenon
<1>8. Len(s) = m + 2 /\ Len(t) = m + 4
  BY <1>1, <1>2, <1>5, <1>7
<1>9. /\ t[1] = MARK /\ t[2] = 2
      /\ t[m + 3] = MARK /\ t[m + 4] = 3
  <2>1. s[1] = MARK /\ s[2] = 2
    BY <1>1, <1>2, <1>5
  <2>2. t[1] = s[1] /\ t[2] = s[2]
    BY <1>1, <1>2, <1>7, <1>8
  <2>3. m + 3 - Len(s) = 1 /\ m + 4 - Len(s) = 2
    BY <1>1, <1>8
  <2>4. t[m + 3] = tail[m + 3 - Len(s)] /\ t[m + 4] = tail[m + 4 - Len(s)]
    BY <1>1, <1>2, <1>7, <1>8
  <2> QED BY <1>2, <2>1, <2>2, <2>3, <2>4
<1>10. \A i \in 1..m : t[i + 2] = out[i]
  <2> SUFFICES ASSUME NEW i \in 1..m PROVE t[i + 2] = out[i]
    OBVIOUS
  <2>1. i + 2 \in 1..Len(lead) + Len(out) /\ ~(i + 2 <= Len(lead)) /\ i + 2 - Len(lead) = i
    BY <1>1, <1>2
  <2>2. s[i + 2] = out[i + 2 - Len(lead)]
    BY <1>5, <2>1
  <2>3. i + 2 \in 1..Len(s) + Len(tail) /\ i + 2 <= Len(s)
    BY <1>1, <1>2, <1>8
  <2>4. t[i + 2] = s[i + 2]
    BY <1>7, <2>3
  <2> QED BY <2>1, <2>2, <2>4
<1>11. Len(stream) \in Nat /\ at + Len(t) <= Len(stream)
       /\ \A i \in 1..m + 4 : stream[at + i] = t[i]
  BY <1>4, <1>8 DEF Carries, Text
<1>12. stream[at + 1] = MARK /\ stream[at + 2] = 2
  <2>1. 1 \in 1..m + 4 /\ 2 \in 1..m + 4
    BY <1>1
  <2>2. stream[at + 1] = t[1] /\ stream[at + 2] = t[2]
    BY <1>11, <2>1
  <2> QED BY <1>9, <2>2
<1>13. \A i \in 1..m : stream[at + 3 - 1 + i] = out[i]
  <2> SUFFICES ASSUME NEW i \in 1..m PROVE stream[at + 3 - 1 + i] = out[i]
    OBVIOUS
  <2>1. i + 2 \in 1..m + 4 /\ at + 3 - 1 + i = at + (i + 2)
    BY <1>1
  <2>2. stream[at + (i + 2)] = t[i + 2]
    BY <1>11, <2>1
  <2> QED BY <1>10, <2>1, <2>2
<1>14. stream[at + 3 + m] = MARK /\ stream[at + 3 + m + 1] = 3
  <2>1. /\ m + 3 \in 1..m + 4 /\ m + 4 \in 1..m + 4
        /\ at + 3 + m = at + (m + 3) /\ at + 3 + m + 1 = at + (m + 4)
    BY <1>1
  <2>2. stream[at + (m + 3)] = t[m + 3] /\ stream[at + (m + 4)] = t[m + 4]
    BY <1>11, <2>1
  <2> QED BY <1>9, <2>1, <2>2
<1>15. at + m + 4 <= Len(stream) /\ at + 3 + m + 1 <= Len(stream)
  BY <1>1, <1>8, <1>11
<1>16. HoldsEscaped(stream, at + 3, Body(id, payload))
  BY <1>13, <1>14, <1>15 DEF HoldsEscaped, out
<1> QED BY <1>1, <1>8, <1>12, <1>15, <1>16 DEF t, out

\* A frame that is carried is found there, and the scan goes on behind it.
LEMMA FrameIsFound ==
  ASSUME NEW stream \in Text, NEW at \in Nat, NEW id \in Nat, NEW payload \in Text,
         Carries(stream, at, build_frame(id, payload))
  PROVE  LET next == at + Len(build_frame(id, payload)) + 1
         IN  /\ next \in at + 5..Len(stream) + 1
             /\ FramesFrom(stream)[at + 1]
                  = <<Frame(Body(id, payload))>> \o FramesFrom(stream)[next]
<1> DEFINE body == Body(id, payload)
           m == Len(escape(body))
           f == FramesFrom(stream)
           i == at + 1
           found == Unescaped(stream, i + 2)
<1>1. /\ m \in Nat /\ Len(build_frame(id, payload)) = m + 4
      /\ at + m + 4 <= Len(stream)
      /\ stream[at + 1] = MARK /\ stream[at + 2] = 2
      /\ HoldsEscaped(stream, at + 3, body)
  BY FrameStands
<1>2. body \in Text /\ Len(body) >= 2
  BY BodyIsText
<1>3. Len(stream) \in Nat
  BY DEF Text
<1> HIDE DEF body, m
<1>4. /\ i \in Nat \ {0} /\ i < Len(stream) /\ i \in 1..Len(stream) + 2
      /\ i + 1 = at + 2 /\ i + 2 = at + 3 /\ at + 3 \in Nat \ {0}
  BY <1>1, <1>3
<1>5. found = [ended |-> TRUE, body |-> body, next |-> at + 3 + m + 2]
  <2>1. Unescaped(stream, at + 3) = [ended |-> TRUE, body |-> body, next |-> at + 3 + m + 2]
    BY <1>1, <1>2, <1>4, EscapedScans DEF m
  <2> QED BY <1>4, <2>1
<1>6. SubSeq(stream, i, i + 1) = FRAME_START
  BY <1>1, <1>4, StartStands
<1>7. f[i] = FramesNext(stream, f, i)
  BY <1>4, FramesGoOn
<1> HIDE DEF f, i, found
<1>8. ~(i >= Len(stream))
  BY <1>3, <1>4
<1>9. found.ended /\ found.body = body /\ found.next = at + 3 + m + 2
  BY <1>5
<1>10. FramesNext(stream, f, i) = <<Frame(body)>> \o f[found.next]
  BY <1>2, <1>6, <1>8, <1>9, Zenon DEF FramesNext, found
<1>11. /\ at + Len(build_frame(id, payload)) + 1 = at + 3 + m + 2
       /\ at + 3 + m + 2 \in at + 5..Len(stream) + 1
  BY <1>1, <1>3
<1> QED BY <1>7, <1>9, <1>10, <1>11 DEF f, i, body

\* What build_frame builds, parse_frames reads back, whatever the bytes of the payload:
\* its id, its payload and, as `check', the length byte.
THEOREM FramesReadBack ==
  ASSUME NEW id \in Nat, NEW payload \in Text
  PROVE  parse_frames(build_frame(id, payload))
           = <<[id |-> id, check |-> Len(payload) % 256, payload |-> payload]>>
<1> DEFINE t == build_frame(id, payload)
           n == Len(t)
           f == FramesFrom(t)
           body == Body(id, payload)
           lead == <<id, Len(payload) % 256>>
<1>1. t \in Text /\ n \in Nat
  <2>1. t \in Text
    BY BuiltIsText
  <2> QED BY <2>1 DEF Text
<1>2. Carries(t, 0, t)
  BY <1>1 DEF Carries
<1>3. n + 1 \in 5..n + 1 /\ f[1] = <<Frame(body)>> \o f[n + 1]
  <2>1. /\ 0 + n + 1 \in 0 + 5..n + 1
        /\ f[0 + 1] = <<Frame(body)>> \o f[0 + n + 1]
    BY <1>1, <1>2, FrameIsFound
  <2> HIDE DEF f, n, body
  <2>2. 0 + n + 1 = n + 1 /\ 0 + 1 = 1 /\ 0 + 5 = 5
    BY <1>1
  <2> QED BY <2>1, <2>2
<1>4. f[n + 1] = <<>>
  <2>1. n + 1 \in 1..n + 2 /\ n + 1 >= n
    BY <1>1
  <2>2. f[n + 1] = FramesNext(t, f, n + 1)
    BY <1>1, <2>1, FramesGoOn
  <2> HIDE DEF f, t
  <2> QED BY <2>1, <2>2 DEF FramesNext
<1>5. parse_frames(t) = f[1]
  BY <1>1, FramesGoOn
<1>6. <<Frame(body)>> \o <<>> = <<Frame(body)>>
  <2> DEFINE first == Frame(body)
  <2> HIDE DEF first
  <2>1. <<first>> \in Seq({first})
    OBVIOUS
  <2>2. <<first>> \o <<>> = <<first>>
    BY <2>1
  <2> QED BY <2>2 DEF first
<1>7. Frame(body) = [id |-> id, check |-> Len(payload) % 256, payload |-> payload]
  <2>1. /\ lead \in Text /\ Len(lead) = 2 /\ lead[1] = id /\ lead[2] = Len(payload) % 256
        /\ Len(payload) \in Nat
    <3>1. Len(payload) \in Nat /\ Len(payload) % 256 \in Nat
      BY DEF Text
    <3> QED BY <3>1, ShortIsText
  <2> HIDE DEF lead
  <2> DEFINE r == lead \o payload
  <2>2. /\ r \in Text /\ Len(r) = Len(lead) + Len(payload)
        /\ \A i \in 1..Len(lead) + Len(payload) :
             r[i] = IF i <= Len(lead) THEN lead[i] ELSE payload[i - Len(lead)]
    BY <2>1, Joined, Zenon
  <2>3. body = r
    BY DEF Body, lead
  <2> HIDE DEF r
  <2>4. Len(r) = Len(payload) + 2 /\ r[1] = id /\ r[2] = Len(payload) % 256
    BY <2>1, <2>2
  <2> DEFINE rest == SubSeq(r, 3, Len(r))
  <2>5. rest \in Text /\ Len(rest) = Len(payload)
    <3>1. Len(r) \in Int /\ Len(r) <= Len(r)
      BY <2>1, <2>4
    <3>2. rest \in Text /\ Len(rest) = IF 3 <= Len(r) THEN Len(r) - 3 + 1 ELSE 0
      BY <2>2, <3>1, PartIsText
    <3> HIDE DEF rest
    <3> QED BY <2>1, <2>4, <3>2
  <2>6. ASSUME NEW i \in 1..Len(payload) PROVE rest[i] = payload[i]
    <3>1. i \in 1..Len(r) - 3 + 1 /\ 3 + i - 1 = i + 2 /\ Len(r) \in Int /\ Len(r) <= Len(r)
      BY <2>1, <2>4
    <3>2. rest[i] = r[3 + i - 1]
      BY <2>2, <3>1, PartElement
    <3>3. /\ i + 2 \in 1..Len(lead) + Len(payload) /\ ~(i + 2 <= Len(lead))
          /\ i + 2 - Len(lead) = i
      BY <2>1
    <3>4. r[i + 2] = payload[i + 2 - Len(lead)]
      BY <2>2, <3>3
    <3> QED BY <3>1, <3>2, <3>3, <3>4
  <2> HIDE DEF rest
  <2>7. rest = payload
    BY <2>5, <2>6, SeqEqual DEF Text
  <2>8. Frame(r) = [id |-> r[1], check |-> r[2], payload |-> rest]
    BY DEF Frame, rest
  <2> HIDE DEF body
  <2> QED BY <2>3, <2>4, <2>7, <2>8
<1> HIDE DEF f, body, t
<1>8. parse_frames(t) = <<Frame(body)>>
  BY <1>3, <1>4, <1>5, <1>6
<1> QED BY <1>7, <1>8 DEF t

LEMMA JoinFrames ==
  ASSUME NEW first \in Frames, NEW s \in Seq(Frames)
  PROVE  /\ <<first>> \o s \in Seq(Frames)
         /\ 1 \in DOMAIN (<<first>> \o s) /\ (<<first>> \o s)[1] = first
         /\ \A k \in DOMAIN s : k + 1 \in DOMAIN (<<first>> \o s)
                                /\ (<<first>> \o s)[k + 1] = s[k]
         /\ \A k \in DOMAIN (<<first>> \o s) : k = 1 \/ k - 1 \in DOMAIN s
<1> DEFINE head == <<first>>
           r == head \o s
<1>1. head \in Seq(Frames) /\ Len(head) = 1 /\ head[1] = first
  OBVIOUS
<1>2. Len(s) \in Nat /\ DOMAIN s = 1..Len(s)
  OBVIOUS
<1> HIDE DEF head
<1>3. /\ r \in Seq(Frames) /\ Len(r) = Len(head) + Len(s)
      /\ \A i \in 1..Len(head) + Len(s) :
           r[i] = IF i <= Len(head) THEN head[i] ELSE s[i - Len(head)]
  BY <1>1, ConcatProperties
<1>4. DOMAIN r = 1..1 + Len(s)
  BY <1>1, <1>3
<1> HIDE DEF r
<1>5. 1 \in DOMAIN r /\ r[1] = first
  BY <1>1, <1>2, <1>3, <1>4
<1>6. \A k \in DOMAIN s : k + 1 \in DOMAIN r /\ r[k + 1] = s[k]
  <2> SUFFICES ASSUME NEW k \in 1..Len(s) PROVE k + 1 \in DOMAIN r /\ r[k + 1] = s[k]
    BY <1>2
  <2>1. k + 1 \in 1..Len(head) + Len(s) /\ ~(k + 1 <= Len(head)) /\ k + 1 - Len(head) = k
    BY <1>1, <1>2
  <2>2. r[k + 1] = s[k + 1 - Len(head)]
    BY <1>3, <2>1
  <2> QED BY <1>1, <1>4, <2>1, <2>2
<1>7. \A k \in DOMAIN r : k = 1 \/ k - 1 \in DOMAIN s
  BY <1>2, <1>4
<1> QED BY <1>3, <1>5, <1>6, <1>7 DEF r, head

\* A frame that is carried, and not behind a marker, is parsed, whatever stands before it.
LEMMA CarriedIsParsed ==
  ASSUME NEW stream \in Text, NEW at \in Nat, NEW id \in Nat, NEW payload \in Text,
         Carries(stream, at, build_frame(id, payload)), at > 0 => stream[at] # MARK
  PROVE  \E k \in DOMAIN parse_frames(stream) : parse_frames(stream)[k].id = id
<1> DEFINE f == FramesFrom(stream)
           p == at + 1
           Holds(i) == \E k \in DOMAIN f[i] : f[i][k].id = id
           S == {m \in Nat : \A i \in 1..p : p - i = m => Holds(i)}
           N == Len(stream) + 2
<1>1. N \in Nat /\ Len(stream) \in Nat /\ MARK \in Nat
  BY DEF Text, MARK
<1>2. /\ f \in [1..N -> Seq(Frames)] /\ \A i \in 1..N : f[i] = FramesNext(stream, f, i)
      /\ parse_frames(stream) = f[1]
  BY FramesGoOn
<1>3. /\ at + 4 <= Len(stream) /\ stream[p] = MARK /\ stream[p + 1] = 2
  <2> DEFINE m == Len(escape(Body(id, payload)))
  <2>1. m \in Nat /\ at + m + 4 <= Len(stream) /\ stream[at + 1] = MARK /\ stream[at + 2] = 2
    BY FrameStands
  <2> HIDE DEF m
  <2>2. at + 4 <= Len(stream) /\ p + 1 = at + 2
    BY <1>1, <2>1
  <2> QED BY <2>1, <2>2
<1>4. Holds(p)
  <2> DEFINE next == at + Len(build_frame(id, payload)) + 1
             first == Frame(Body(id, payload))
  <2>1. next \in at + 5..Len(stream) + 1 /\ f[at + 1] = <<first>> \o f[next]
    BY FrameIsFound
  <2> HIDE DEF next
  <2>2. next \in 1..N
    BY <1>1, <2>1
  <2>3. f[next] \in Seq(Frames)
    BY <1>2, <2>2
  <2>4. Body(id, payload) \in Text /\ Len(Body(id, payload)) >= 2 /\ Body(id, payload)[1] = id
    BY BodyIsText
  <2>5. first \in Frames /\ first.id = id
    BY <2>4, FrameIsTyped
  <2> HIDE DEF f, first
  <2>6. 1 \in DOMAIN (<<first>> \o f[next]) /\ (<<first>> \o f[next])[1] = first
    BY <2>3, <2>5, JoinFrames
  <2>7. 1 \in DOMAIN f[at + 1] /\ f[at + 1][1] = first
    BY <2>1, <2>6
  <2> QED BY <2>5, <2>7
<1>5. ASSUME NEW i \in 1..p, i # p
      PROVE  LET found == Unescaped(stream, i + 2)
             IN  /\ found \in Scanned /\ i + 2 <= found.next
                 /\ SubSeq(stream, i, i + 1) = FRAME_START /\ found.ended => found.next <= p
  <2> DEFINE found == Unescaped(stream, i + 2)
  <2>1. /\ i \in Nat \ {0} /\ i < Len(stream) /\ i + 2 \in 1..Len(stream) + 1
        /\ p \in Nat /\ p < Len(stream)
    BY <1>1, <1>3, <1>5
  <2>2. found \in Scanned /\ found.next \in i + 2..Len(stream) + 1
    BY <2>1, UnescapedIsTyped
  <2>3. ASSUME SubSeq(stream, i, i + 1) = FRAME_START PROVE found.ended => found.next <= p
    <3>1. stream[i] = MARK
      BY <2>1, <2>3, StartStands
    <3>2. at > 0 /\ stream[at] # MARK /\ p - 1 = at
      BY <1>5, <2>1
    <3>3. i # at
      BY <3>1, <3>2
    <3>4. p \in i + 2..Len(stream) /\ i + 2 \in Nat \ {0}
      BY <1>5, <2>1, <3>3
    <3>5. stream[p - 1] # MARK
      BY <3>2
    <3> QED BY <1>3, <2>1, <3>4, <3>5, ScanStops
  <2> QED BY <2>2, <2>3
<1> HIDE DEF f, N
<1>6. ASSUME NEW m \in Nat, \A l \in 0..m - 1 : l \in S PROVE m \in S
  <2> SUFFICES ASSUME NEW i \in 1..p, p - i = m PROVE Holds(i)
    OBVIOUS
  <2>1. CASE i = p
    BY <1>4, <2>1
  <2>2. CASE i # p
    <3> DEFINE found == Unescaped(stream, i + 2)
    <3>1. i \in 1..N /\ ~(i >= Len(stream)) /\ i + 1 \in 1..p
      BY <1>1, <1>3, <2>2 DEF N
    <3>2. ASSUME NEW j \in 1..p, j > i PROVE Holds(j)
      <4>1. p - j \in 0..m - 1
        BY <3>2
      <4> QED BY <1>6, <4>1
    <3>3. /\ found \in Scanned /\ i + 2 <= found.next
          /\ SubSeq(stream, i, i + 1) = FRAME_START /\ found.ended => found.next <= p
      BY <1>5, <2>2
    <3>4. f[i] = FramesNext(stream, f, i)
      BY <1>2, <3>1
    <3>5. CASE /\ SubSeq(stream, i, i + 1) = FRAME_START
               /\ found.ended /\ Len(found.body) >= 2
      <4> DEFINE next == found.next
                 first == Frame(found.body)
      <4>1. FramesNext(stream, f, i) = <<first>> \o f[next]
        BY <3>1, <3>5, Zenon DEF FramesNext
      <4>2. found.body \in Text /\ next \in Nat
        BY <3>3 DEF Scanned
      <4>3. first \in Frames
        BY <3>5, <4>2, FrameIsTyped
      <4>4. next <= p /\ next >= i + 2
        BY <3>3, <3>5
      <4> HIDE DEF next, first, found
      <4>5. next \in 1..p /\ next > i /\ next \in 1..N
        BY <1>1, <1>3, <3>1, <4>2, <4>4 DEF N
      <4>6. PICK k \in DOMAIN f[next] : f[next][k].id = id
        BY <3>2, <4>5
      <4>7. f[next] \in Seq(Frames)
        BY <1>2, <4>5
      <4>8. k + 1 \in DOMAIN (<<first>> \o f[next]) /\ (<<first>> \o f[next])[k + 1] = f[next][k]
        BY <4>3, <4>7, JoinFrames
      <4>9. k + 1 \in DOMAIN f[i] /\ f[i][k + 1].id = id
        BY <3>4, <4>1, <4>6, <4>8
      <4> QED BY <4>9
    <3>6. CASE ~(/\ SubSeq(stream, i, i + 1) = FRAME_START
                 /\ found.ended /\ Len(found.body) >= 2)
      <4>1. FramesNext(stream, f, i) = f[i + 1]
        BY <3>1, <3>6, Zenon DEF FramesNext
      <4>2. Holds(i + 1)
        BY <3>1, <3>2
      <4>3. f[i] = f[i + 1]
        BY <3>4, <4>1
      <4> QED BY <4>2, <4>3
    <3> QED BY <3>5, <3>6
  <2> QED BY <2>1, <2>2
<1>7. Nat \subseteq S
  <2> HIDE DEF S
  <2> QED BY <1>6, Induction
<1>8. Holds(1)
  <2>1. p - 1 \in Nat /\ 1 \in 1..p
    OBVIOUS
  <2>2. p - 1 \in S
    BY <1>7, <2>1
  <2> HIDE DEF Holds
  <2> QED BY <2>1, <2>2
<1> QED BY <1>2, <1>8

-----------------------------------------------------------------------------
(***************************************************************************)
(* A wire that is cut at the ends of its frames parses to what was sent.   *)
(***************************************************************************)
LEMMA CarriesLead ==
  ASSUME NEW w \in Text, NEW a \in Nat, NEW t \in Text, Carries(w, a, t),
         NEW n \in 0..Len(w), a + Len(t) <= n
  PROVE  Carries(SubSeq(w, 1, n), a, t)
<1> DEFINE s == SubSeq(w, 1, n)
<1>1. Len(w) \in Nat /\ Len(t) \in Nat /\ n \in Nat
  BY DEF Text
<1>2. s \in Text /\ Len(s) = n
  BY <1>1, PartIsText
<1>3. ASSUME NEW i \in 1..Len(t) PROVE s[a + i] = t[i]
  <2>1. a + i \in 1..n - 1 + 1 /\ 1 + (a + i) - 1 = a + i
    BY <1>1
  <2>2. SubSeq(w, 1, n)[a + i] = w[1 + (a + i) - 1]
    BY <1>1, <2>1, PartElement
  <2>3. w[a + i] = t[i]
    BY DEF Carries
  <2> QED BY <2>1, <2>2, <2>3
<1> HIDE DEF s
<1>4. Carries(s, a, t)
  BY <1>2, <1>3 DEF Carries
<1> QED BY <1>4 DEF s

LEMMA CarriesRest ==
  ASSUME NEW w \in Text, NEW a \in Nat, NEW t \in Text, Carries(w, a, t), NEW n \in 0..a
  PROVE  Carries(SubSeq(w, n + 1, Len(w)), a - n, t)
<1> DEFINE s == SubSeq(w, n + 1, Len(w))
<1>1. Len(w) \in Nat /\ Len(t) \in Nat /\ n \in Nat /\ n + 1 \in Nat \ {0}
      /\ a + Len(t) <= Len(w)
  BY DEF Text, Carries
<1>2. s \in Text /\ Len(s) = Len(w) - n
  <2>1. s \in Text /\ Len(s) = IF n + 1 <= Len(w) THEN Len(w) - (n + 1) + 1 ELSE 0
    BY <1>1, PartIsText
  <2> HIDE DEF s
  <2> QED BY <1>1, <2>1
<1>3. ASSUME NEW i \in 1..Len(t) PROVE s[a - n + i] = t[i]
  <2>1. a - n + i \in 1..Len(w) - (n + 1) + 1 /\ (n + 1) + (a - n + i) - 1 = a + i
    BY <1>1
  <2>2. SubSeq(w, n + 1, Len(w))[a - n + i] = w[(n + 1) + (a - n + i) - 1]
    BY <1>1, <2>1, PartElement
  <2>3. w[a + i] = t[i]
    BY DEF Carries
  <2> QED BY <2>1, <2>2, <2>3
<1> HIDE DEF s
<1>4. a - n + Len(t) <= Len(s)
  BY <1>1, <1>2
<1>5. Carries(s, a - n, t)
  BY <1>3, <1>4 DEF Carries
<1> QED BY <1>5 DEF s

LEMMA CarriesJoin ==
  ASSUME NEW w \in Text, NEW u \in Text
  PROVE  /\ Carries(w \o u, Len(w), u)
         /\ \A a \in Nat, t \in Text : Carries(w, a, t) => Carries(w \o u, a, t)
<1> DEFINE s == w \o u
<1>1. Len(w) \in Nat /\ Len(u) \in Nat
  BY DEF Text
<1>2. /\ s \in Text /\ Len(s) = Len(w) + Len(u)
      /\ \A i \in 1..Len(w) + Len(u) : s[i] = IF i <= Len(w) THEN w[i] ELSE u[i - Len(w)]
  BY Joined, Zenon
<1> HIDE DEF s
<1>3. Carries(s, Len(w), u)
  <2>1. ASSUME NEW i \in 1..Len(u) PROVE s[Len(w) + i] = u[i]
    <3>1. Len(w) + i \in 1..Len(w) + Len(u) /\ ~(Len(w) + i <= Len(w)) /\ Len(w) + i - Len(w) = i
      BY <1>1
    <3>2. s[Len(w) + i] = u[Len(w) + i - Len(w)]
      BY <1>2, <3>1
    <3> QED BY <3>1, <3>2
  <2> QED BY <1>1, <1>2, <2>1 DEF Carries
<1>4. ASSUME NEW a \in Nat, NEW t \in Text, Carries(w, a, t) PROVE Carries(s, a, t)
  <2>1. Len(t) \in Nat /\ a + Len(t) <= Len(w) /\ \A i \in 1..Len(t) : w[a + i] = t[i]
    BY <1>4 DEF Text, Carries
  <2>2. ASSUME NEW i \in 1..Len(t) PROVE s[a + i] = t[i]
    <3>1. a + i \in 1..Len(w) + Len(u) /\ a + i <= Len(w)
      BY <1>1, <2>1
    <3>2. s[a + i] = w[a + i]
      BY <1>2, <3>1
    <3> QED BY <2>1, <3>2
  <2>3. a + Len(t) <= Len(s)
    BY <1>1, <1>2, <2>1
  <2> QED BY <2>2, <2>3 DEF Carries
<1> QED BY <1>3, <1>4 DEF s

Sendables == [id : Nat, payload : Text]
Wire(frame) == build_frame(frame.id, frame.payload)

\* Behind a, where a frame ends or the wire begins, the next frame is this one.
Continues(w, ends, a, frame) ==
  /\ Carries(w, a, Wire(frame)) /\ a + Len(Wire(frame)) \in ends
  /\ \A e \in ends : e <= a \/ e >= a + Len(Wire(frame))

\* The wire is frames of `sent', which end at `ends'.
Cut(w, ends, sent) ==
  /\ ends \subseteq 1..Len(w)
  /\ \A a \in ends \cup {0} : a # Len(w) => \E frame \in sent : Continues(w, ends, a, frame)

LEMMA WireIsText ==
  ASSUME NEW frame \in Sendables
  PROVE  Wire(frame) \in Text /\ Len(Wire(frame)) \in Nat
<1>1. frame.id \in Nat /\ frame.payload \in Text
  BY DEF Sendables
<1>2. Wire(frame) \in Text
  BY <1>1, BuiltIsText DEF Wire
<1> QED BY <1>2 DEF Text

LEMMA WireIsSome == ASSUME NEW frame \in Sendables PROVE Len(Wire(frame)) >= 4
<1> DEFINE t == Wire(frame)
           m == Len(escape(Body(frame.id, frame.payload)))
<1>1. frame.id \in Nat /\ frame.payload \in Text /\ t = build_frame(frame.id, frame.payload)
  BY DEF Sendables, Wire
<1>2. t \in Text /\ Carries(t, 0, t)
  BY WireIsText DEF Carries, Text
<1>3. Carries(t, 0, build_frame(frame.id, frame.payload))
  BY <1>1, <1>2
<1>4. m \in Nat /\ Len(build_frame(frame.id, frame.payload)) = m + 4
  BY <1>1, <1>2, <1>3, FrameStands
<1> HIDE DEF t, m
<1>5. Len(t) = m + 4
  BY <1>1, <1>4
<1> QED BY <1>4, <1>5 DEF t

\* What the frame at a place leaves to be parsed.
Behind(w, a, frame) ==
  /\ a + Len(Wire(frame)) + 1 \in a + 5..Len(w) + 1
  /\ FramesFrom(w)[a + 1]
       = <<Frame(Body(frame.id, frame.payload))>> \o FramesFrom(w)[a + Len(Wire(frame)) + 1]

LEMMA SentIsFound ==
  ASSUME NEW w \in Text, NEW a \in Nat, NEW frame \in Sendables, Carries(w, a, Wire(frame))
  PROVE  Behind(w, a, frame)
<1> DEFINE id == frame.id
           payload == frame.payload
<1>1. id \in Nat /\ payload \in Text /\ Wire(frame) = build_frame(id, payload)
  BY DEF Sendables, Wire
<1>2. Carries(w, a, build_frame(id, payload))
  BY <1>1
<1> HIDE DEF id, payload
<1>3. /\ a + Len(build_frame(id, payload)) + 1 \in a + 5..Len(w) + 1
      /\ FramesFrom(w)[a + 1]
           = <<Frame(Body(id, payload))>>
               \o FramesFrom(w)[a + Len(build_frame(id, payload)) + 1]
  BY <1>1, <1>2, FrameIsFound
<1> QED BY <1>1, <1>3 DEF Behind, id, payload

LEMMA CutIsParsed ==
  ASSUME NEW w \in Text, NEW ends, NEW sent \in SUBSET Sendables, Cut(w, ends, sent)
  PROVE  \A k \in DOMAIN parse_frames(w) : \E frame \in sent : parse_frames(w)[k].id = frame.id
<1> DEFINE f == FramesFrom(w)
           N == Len(w) + 2
           AllSent(i) == \A k \in DOMAIN f[i] : \E frame \in sent : f[i][k].id = frame.id
           S == {m \in Nat : \A a \in ends \cup {0} : Len(w) - a = m => AllSent(a + 1)}
<1>1. Len(w) \in Nat /\ N \in Nat
  BY DEF Text
<1>2. /\ f \in [1..N -> Seq(Frames)] /\ \A i \in 1..N : f[i] = FramesNext(w, f, i)
      /\ parse_frames(w) = f[1]
  BY FramesGoOn
<1>3. \A a \in ends \cup {0} : a \in Nat /\ a <= Len(w)
  BY <1>1 DEF Cut
<1>4. AllSent(Len(w) + 1)
  <2>1. Len(w) + 1 \in 1..N /\ Len(w) + 1 >= Len(w)
    BY <1>1
  <2>2. f[Len(w) + 1] = <<>>
    <3>1. f[Len(w) + 1] = FramesNext(w, f, Len(w) + 1)
      BY <1>2, <2>1
    <3> HIDE DEF f
    <3> QED BY <2>1, <3>1 DEF FramesNext
  <2> HIDE DEF f
  <2> QED BY <2>2
<1> HIDE DEF f, N
<1>5. ASSUME NEW m \in Nat, \A l \in 0..m - 1 : l \in S PROVE m \in S
  <2> SUFFICES ASSUME NEW a \in ends \cup {0}, Len(w) - a = m PROVE AllSent(a + 1)
    OBVIOUS
  <2>1. CASE a = Len(w)
    BY <1>4, <2>1
  <2>2. CASE a # Len(w)
    <3>1. PICK frame \in sent : Continues(w, ends, a, frame)
      BY <2>2 DEF Cut
    <3> DEFINE t == Wire(frame)
               first == Frame(Body(frame.id, frame.payload))
    <3>2. frame.id \in Nat /\ frame.payload \in Text /\ t = build_frame(frame.id, frame.payload)
      BY DEF Sendables, Wire
    <3>3. Carries(w, a, t) /\ a + Len(t) \in ends /\ a \in Nat
      BY <1>3, <3>1 DEF Continues
    <3>4. /\ a + Len(t) + 1 \in a + 5..Len(w) + 1
          /\ f[a + 1] = <<first>> \o f[a + Len(t) + 1]
      BY <3>3, SentIsFound DEF Behind, f
    <3> DEFINE b == a + Len(t)
    <3>5. first \in Frames /\ first.id = frame.id
      <4>1. /\ Body(frame.id, frame.payload) \in Text /\ Len(Body(frame.id, frame.payload)) >= 2
            /\ Body(frame.id, frame.payload)[1] = frame.id
        BY <3>2, BodyIsText
      <4> QED BY <4>1, FrameIsTyped
    <3> HIDE DEF first, t
    <3>6. b \in ends \cup {0} /\ b \in Nat /\ b <= Len(w)
      BY <1>3, <3>3
    <3> HIDE DEF b
    <3>7. b > a /\ b + 1 \in 1..N /\ f[a + 1] = <<first>> \o f[b + 1]
      BY <1>1, <3>3, <3>4, <3>6 DEF b, N
    <3>8. AllSent(b + 1)
      <4>1. Len(w) - b \in 0..m - 1
        BY <1>1, <3>3, <3>6, <3>7
      <4> QED BY <1>5, <3>6, <4>1
    <3>9. f[b + 1] \in Seq(Frames)
      BY <1>2, <3>7
    <3> DEFINE r == <<first>> \o f[b + 1]
    <3>10. /\ r[1] = first /\ \A k \in DOMAIN f[b + 1] : r[k + 1] = f[b + 1][k]
           /\ \A k \in DOMAIN r : k = 1 \/ k - 1 \in DOMAIN f[b + 1]
           /\ DOMAIN r \subseteq Nat
      <4>1. r \in Seq(Frames)
        BY <3>5, <3>9, JoinFrames
      <4>2. /\ r[1] = first /\ \A k \in DOMAIN f[b + 1] : r[k + 1] = f[b + 1][k]
            /\ \A k \in DOMAIN r : k = 1 \/ k - 1 \in DOMAIN f[b + 1]
        BY <3>5, <3>9, JoinFrames
      <4> HIDE DEF r
      <4>3. DOMAIN r \subseteq Nat
        BY <4>1
      <4> QED BY <4>2, <4>3
    <3> HIDE DEF r
    <3>11. ASSUME NEW k \in DOMAIN r PROVE \E g \in sent : r[k].id = g.id
      <4>1. CASE k = 1
        BY <3>5, <3>10, <4>1
      <4>2. CASE k # 1
        <5>1. k - 1 \in DOMAIN f[b + 1] /\ (k - 1) + 1 = k
          BY <3>10, <4>2
        <5>2. r[(k - 1) + 1] = f[b + 1][k - 1]
          BY <3>10, <5>1
        <5> QED BY <3>8, <5>1, <5>2
      <4> QED BY <4>1, <4>2
    <3>12. f[a + 1] = r
      BY <3>7 DEF r
    <3> QED BY <3>11, <3>12
  <2> QED BY <2>1, <2>2
<1>6. Nat \subseteq S
  <2> HIDE DEF S
  <2> QED BY <1>5, Induction
<1>7. AllSent(1)
  <2>1. Len(w) - 0 \in S /\ 0 \in ends \cup {0}
    BY <1>1, <1>6
  <2>2. AllSent(0 + 1)
    BY <2>1
  <2> QED BY <2>2
<1> QED BY <1>2, <1>7

LEMMA CutChunk ==
  ASSUME NEW w \in Text, NEW ends, NEW sent \in SUBSET Sendables, Cut(w, ends, sent),
         NEW n \in ends
  PROVE  Cut(SubSeq(w, 1, n), {e \in ends : e <= n}, sent)
<1> DEFINE s == SubSeq(w, 1, n)
           early == {e \in ends : e <= n}
<1>1. Len(w) \in Nat /\ ends \subseteq 1..Len(w) /\ n \in Nat \ {0} /\ n <= Len(w)
  BY DEF Text, Cut
<1>2. s \in Text /\ Len(s) = n
  BY <1>1, PartIsText
<1>3. ASSUME NEW a \in early \cup {0}, a # n
      PROVE  \E frame \in sent : Continues(s, early, a, frame)
  <2>1. a \in ends \cup {0} /\ a \in Nat /\ a < n /\ a # Len(w)
    BY <1>1, <1>3
  <2>2. PICK frame \in sent : Continues(w, ends, a, frame)
    BY <2>1 DEF Cut
  <2> DEFINE t == Wire(frame)
  <2>3. t \in Text /\ Len(t) \in Nat
    BY WireIsText
  <2> HIDE DEF t
  <2>4. /\ Carries(w, a, t) /\ a + Len(t) \in ends
        /\ \A e \in ends : e <= a \/ e >= a + Len(t)
    BY <2>2 DEF Continues, t
  <2>5. a + Len(t) <= n
    <3>1. n <= a \/ n >= a + Len(t)
      BY <2>4
    <3> QED BY <1>1, <2>1, <2>3, <3>1
  <2>6. Carries(s, a, t)
    <3>1. n \in 0..Len(w)
      BY <1>1
    <3> QED BY <2>1, <2>3, <2>4, <2>5, <3>1, CarriesLead
  <2>7. a + Len(t) \in early /\ \A e \in early : e <= a \/ e >= a + Len(t)
    BY <2>4, <2>5
  <2> HIDE DEF s, early
  <2> QED BY <2>6, <2>7 DEF Continues, t
<1>4. early \subseteq 1..n
  <2>1. \A e \in 1..Len(w) : e <= n => e \in 1..n
    BY <1>1
  <2> QED BY <1>1, <2>1
<1> HIDE DEF s, early
<1>5. Cut(s, early, sent)
  BY <1>2, <1>3, <1>4 DEF Cut
<1> QED BY <1>5 DEF s, early

LEMMA CutRest ==
  ASSUME NEW w \in Text, NEW ends, NEW sent \in SUBSET Sendables, Cut(w, ends, sent),
         NEW n \in ends
  PROVE  Cut(SubSeq(w, n + 1, Len(w)), {e - n : e \in {e \in ends : e > n}}, sent)
<1> DEFINE s == SubSeq(w, n + 1, Len(w))
           late == {e - n : e \in {e \in ends : e > n}}
<1>1. /\ Len(w) \in Nat /\ ends \subseteq 1..Len(w) /\ n \in Nat \ {0} /\ n <= Len(w)
      /\ n + 1 \in Nat \ {0}
  BY DEF Text, Cut
<1>2. s \in Text /\ Len(s) = Len(w) - n
  <2>1. s \in Text /\ Len(s) = IF n + 1 <= Len(w) THEN Len(w) - (n + 1) + 1 ELSE 0
    BY <1>1, PartIsText
  <2> HIDE DEF s
  <2> QED BY <1>1, <2>1
<1>3. \A e \in ends : e \in Nat /\ (e > n => e - n \in late)
  <2>1. \A e \in 1..Len(w) : e \in Nat
    BY <1>1
  <2> QED BY <1>1, <2>1
<1>4. \A a \in late : \E e \in ends : e > n /\ a = e - n
  OBVIOUS
<1>5. late \subseteq 1..Len(w) - n
  <2> SUFFICES ASSUME NEW a \in late PROVE a \in 1..Len(w) - n
    OBVIOUS
  <2>1. PICK e \in ends : e > n /\ a = e - n
    BY <1>4
  <2> HIDE DEF late
  <2> QED BY <1>1, <2>1
<1> HIDE DEF s, late
<1>6. ASSUME NEW a \in late \cup {0}, a # Len(w) - n
      PROVE  \E frame \in sent : Continues(s, late, a, frame)
  <2>1. PICK b \in ends : b >= n /\ b = a + n
    <3>1. CASE a = 0
      BY <1>1, <3>1
    <3>2. CASE a # 0
      <4>1. PICK e \in ends : e > n /\ a = e - n
        BY <1>4, <3>2
      <4>2. e >= n /\ e = a + n
        BY <1>1, <4>1
      <4> QED BY <4>2
    <3> QED BY <3>1, <3>2
  <2>2. a \in Nat /\ b \in Nat /\ b # Len(w) /\ b - n = a
    BY <1>1, <1>5, <1>6, <2>1
  <2>3. PICK frame \in sent : Continues(w, ends, b, frame)
    BY <2>2 DEF Cut
  <2> DEFINE t == Wire(frame)
  <2>4. t \in Text /\ Len(t) \in Nat /\ Len(t) >= 4
    BY WireIsText, WireIsSome
  <2> HIDE DEF t
  <2>5. /\ Carries(w, b, t) /\ b + Len(t) \in ends
        /\ \A e \in ends : e <= b \/ e >= b + Len(t)
    BY <2>3 DEF Continues, t
  <2>6. Carries(s, a, t)
    <3>1. n \in 0..b
      BY <1>1, <2>1, <2>2
    <3>2. Carries(s, b - n, t)
      BY <2>2, <2>4, <2>5, <3>1, CarriesRest DEF s
    <3> QED BY <2>2, <3>2
  <2>7. a + Len(t) \in late
    <3> DEFINE e == b + Len(t)
    <3>1. e \in ends /\ e > n /\ e - n = a + Len(t)
      BY <1>1, <2>1, <2>2, <2>4, <2>5
    <3> HIDE DEF e
    <3>2. e - n \in late
      BY <1>3, <3>1
    <3> QED BY <3>1, <3>2
  <2>8. ASSUME NEW c \in late PROVE c <= a \/ c >= a + Len(t)
    <3>1. PICK e \in ends : e > n /\ c = e - n
      BY <1>4
    <3>2. e \in Nat /\ (e <= b \/ e >= b + Len(t))
      BY <1>3, <2>5
    <3> QED BY <1>1, <2>2, <2>4, <3>1, <3>2
  <2> QED BY <2>6, <2>7, <2>8 DEF Continues, t
<1>7. Cut(s, late, sent)
  BY <1>2, <1>5, <1>6 DEF Cut
<1> QED BY <1>7 DEF s, late

LEMMA CutJoin ==
  ASSUME NEW w \in Text, NEW ends, NEW sent \in SUBSET Sendables, Cut(w, ends, sent),
         NEW frame \in sent
  PROVE  Cut(w \o Wire(frame), ends \cup {Len(w \o Wire(frame))}, sent)
<1> DEFINE t == Wire(frame)
           s == w \o t
           all == ends \cup {Len(s)}
<1>1. Len(w) \in Nat /\ ends \subseteq 1..Len(w)
  BY DEF Text, Cut
<1>2. t \in Text /\ Len(t) \in Nat /\ Len(t) >= 4
  BY WireIsText, WireIsSome
<1> HIDE DEF t
<1>3. s \in Text /\ Len(s) = Len(w) + Len(t)
  BY <1>2, Joined, Zenon
<1>4. /\ Carries(s, Len(w), t)
      /\ \A a \in Nat, u \in Text : Carries(w, a, u) => Carries(s, a, u)
  BY <1>2, CarriesJoin
<1> HIDE DEF s
<1>5. ASSUME NEW a \in all \cup {0}, a # Len(s)
      PROVE  \E g \in sent : Continues(s, all, a, g)
  <2>1. a \in ends \cup {0} /\ a \in Nat /\ a <= Len(w)
    BY <1>1, <1>5
  <2>2. CASE a = Len(w)
    <3>1. a + Len(t) \in all
      BY <1>3, <2>2
    <3>2. \A e \in all : e <= a \/ e >= a + Len(t)
      BY <1>1, <1>2, <1>3, <2>2
    <3>3. Carries(s, a, t)
      BY <1>4, <2>2
    <3> HIDE DEF all
    <3>4. Continues(s, all, a, frame)
      BY <3>1, <3>2, <3>3 DEF Continues, t
    <3> QED BY <3>4
  <2>3. CASE a # Len(w)
    <3>1. PICK g \in sent : Continues(w, ends, a, g)
      BY <2>1, <2>3 DEF Cut
    <3> DEFINE u == Wire(g)
    <3>2. u \in Text /\ Len(u) \in Nat
      BY WireIsText
    <3> HIDE DEF u
    <3>3. /\ Carries(w, a, u) /\ a + Len(u) \in ends
          /\ \A e \in ends : e <= a \/ e >= a + Len(u)
      BY <3>1 DEF Continues, u
    <3>4. a + Len(u) \in all /\ a + Len(u) <= Len(w)
      BY <1>1, <3>3
    <3>5. \A e \in all : e <= a \/ e >= a + Len(u)
      <4>1. Len(s) >= a + Len(u)
        BY <1>1, <1>2, <1>3, <2>1, <3>2, <3>4
      <4> QED BY <3>3, <4>1
    <3>6. Carries(s, a, u)
      BY <1>4, <2>1, <3>2, <3>3
    <3> HIDE DEF all
    <3>7. Continues(s, all, a, g)
      BY <3>4, <3>5, <3>6 DEF Continues, u
    <3> QED BY <3>7
  <2> QED BY <2>2, <2>3
<1>6. all \subseteq 1..Len(s)
  <2>1. Len(s) \in Nat /\ Len(s) >= 4 /\ Len(w) <= Len(s)
    BY <1>1, <1>2, <1>3
  <2>2. \A e \in 1..Len(w) : e \in 1..Len(s)
    BY <1>1, <2>1
  <2>3. Len(s) \in 1..Len(s)
    BY <2>1
  <2> QED BY <1>1, <2>2, <2>3
<1> HIDE DEF all
<1>7. Cut(s, all, sent)
  BY <1>5, <1>6 DEF Cut
<1> QED BY <1>7 DEF s, all, t

-----------------------------------------------------------------------------
(***************************************************************************)
(* What is answered.                                                       *)
(***************************************************************************)
Innocent == {frame \in AvFrames : classify(frame) # "StartAuth"}

\* A wire that was neither asked over nor cut inside a frame is frames that ask nothing,
\* and nothing was answered; who was sent a whole StartAuth was answered.
Asked(s) ==
  s \notin av_asked \cup av_torn =>
    ~b2_sent[s] /\ Cut(av_wire[s], av_ends[s], Innocent)

AskInv ==
  /\ av_wire \in [AvSessions -> Text] /\ av_ends \in [AvSessions -> SUBSET Nat]
  /\ \A s \in AvSessions : Asked(s)
  /\ av_owed \subseteq {s \in AvSessions : b2_sent[s]}

LEMMA ClassIs == \A frame : classify(frame) = "StartAuth" <=> frame.id = 177
<1> SUFFICES ASSUME NEW frame PROVE classify(frame) = "StartAuth" <=> frame.id = 177
  OBVIOUS
<1>1. CASE frame.id = 177
  BY <1>1 DEF classify
<1>2. CASE frame.id = 178
  BY <1>2 DEF classify
<1>3. CASE frame.id = 179
  BY <1>3 DEF classify
<1>4. CASE frame.id \notin {177, 178, 179}
  BY <1>4 DEF classify
<1> QED BY <1>1, <1>2, <1>3, <1>4

LEMMA AvFramesAreSent == AvFrames \subseteq Sendables
<1>1. 0..255 \subseteq Nat
  OBVIOUS
<1>2. Seq(0..255) \subseteq Text
  BY BytesAreText
<1>3. ASSUME NEW frame \in AvFrames PROVE frame \in Sendables
  <2>1. frame \in [id : 0..255, payload : Seq(0..255)]
    BY AvAssumption
  <2>2. frame = [id |-> frame.id, payload |-> frame.payload]
        /\ frame.id \in 0..255 /\ frame.payload \in Seq(0..255)
    BY <2>1
  <2> QED BY <1>1, <1>2, <2>2 DEF Sendables
<1> QED BY <1>3

LEMMA InnocentAsk ==
  ASSUME NEW w \in Text, NEW ends, Cut(w, ends, Innocent) PROVE ~StartAuthIn(w)
<1>1. Innocent \in SUBSET Sendables
  BY AvFramesAreSent DEF Innocent
<1>2. \A k \in DOMAIN parse_frames(w) :
        \E frame \in Innocent : parse_frames(w)[k].id = frame.id
  BY <1>1, CutIsParsed
<1>3. \A k \in DOMAIN parse_frames(w) : parse_frames(w)[k].id # 177
  BY <1>2, ClassIs DEF Innocent
<1> QED BY <1>3, ClassIs DEF StartAuthIn

LEMMA WholeIsSeen ==
  ASSUME NEW chunk \in Text, HoldsStartAuth(chunk) PROVE StartAuthIn(chunk)
<1>1. PICK frame \in AvFrames, at \in 0..Len(chunk) :
        /\ classify(frame) = "StartAuth"
        /\ Carries(chunk, at, build_frame(frame.id, frame.payload))
        /\ at > 0 => chunk[at] # MARK
  BY DEF HoldsStartAuth
<1>2. frame.id \in Nat /\ frame.payload \in Text /\ frame.id = 177
  BY <1>1, AvFramesAreSent, ClassIs DEF Sendables
<1>3. at \in Nat
  OBVIOUS
<1>4. \E k \in DOMAIN parse_frames(chunk) : parse_frames(chunk)[k].id = frame.id
  BY <1>1, <1>2, <1>3, CarriedIsParsed
<1> QED BY <1>2, <1>4, ClassIs DEF StartAuthIn

LEMMA AskInit == AvInit => AskInv
<1> SUFFICES ASSUME AvInit PROVE AskInv
  OBVIOUS
<1>1. <<>> \in Text /\ Len(<<>>) = 0
  BY ShortIsText
<1>2. Cut(<<>>, {}, Innocent)
  BY <1>1 DEF Cut
<1>3. ASSUME NEW s \in AvSessions PROVE Asked(s)
  <2>1. ~b2_sent[s] /\ av_wire[s] = <<>> /\ av_ends[s] = {}
    BY DEF AvInit
  <2> QED BY <1>2, <2>1 DEF Asked
<1>4. av_wire \in [AvSessions -> Text] /\ av_ends \in [AvSessions -> SUBSET Nat]
  BY <1>1 DEF AvInit
<1>5. av_owed = {}
  BY DEF AvInit
<1> QED BY <1>3, <1>4, <1>5 DEF AskInv

\* A frame joins the wire.
LEMMA AskSends ==
  ASSUME AskInv, NEW s \in AvSessions, HeadUnitSendsFrame(s) PROVE AskInv'
<1>1. PICK frame \in AvFrames :
        /\ av_wire' = [av_wire EXCEPT ![s] = @ \o build_frame(frame.id, frame.payload)]
        /\ av_ends' = [av_ends EXCEPT ![s] = @ \cup {Len(av_wire'[s])}]
        /\ av_asked' = IF classify(frame) = "StartAuth" THEN av_asked \cup {s} ELSE av_asked
  BY DEF HeadUnitSendsFrame
<1>2. UNCHANGED <<b2_sent, av_owed, av_torn>>
  BY DEF HeadUnitSendsFrame
<1>3. frame \in Sendables
  BY AvFramesAreSent
<1> DEFINE w == av_wire[s]
           t == Wire(frame)
<1>4. w \in Text /\ t \in Text /\ w \o t \in Text /\ Len(w \o t) \in Nat
  <2>1. w \in Text /\ t \in Text
    BY <1>3, WireIsText DEF AskInv
  <2>2. w \o t \in Text
    BY <2>1, JoinIsText
  <2> QED BY <2>1, <2>2 DEF Text
<1>5. /\ av_wire' = [av_wire EXCEPT ![s] = w \o t]
      /\ av_wire'[s] = w \o t
      /\ \A r \in AvSessions : r # s => av_wire'[r] = av_wire[r]
  BY <1>1 DEF AskInv, Wire
<1> HIDE DEF w, t
<1>6. av_wire' \in [AvSessions -> Text]
  BY <1>4, <1>5 DEF AskInv
<1>7. /\ av_ends' = [av_ends EXCEPT ![s] = @ \cup {Len(w \o t)}]
      /\ av_ends'[s] = av_ends[s] \cup {Len(w \o t)}
      /\ \A r \in AvSessions : r # s => av_ends'[r] = av_ends[r]
  BY <1>1, <1>5 DEF AskInv
<1>8. av_ends' \in [AvSessions -> SUBSET Nat]
  BY <1>4, <1>7 DEF AskInv
<1>9. Asked(s)'
  <2>1. CASE s \in av_asked' \cup av_torn'
    BY <2>1 DEF Asked
  <2>2. CASE s \notin av_asked' \cup av_torn'
    <3>1. s \notin av_asked \cup av_torn /\ classify(frame) # "StartAuth"
      BY <1>1, <1>2, <2>2
    <3>2. ~b2_sent[s] /\ Cut(w, av_ends[s], Innocent)
      BY <3>1 DEF AskInv, Asked, w
    <3>3. frame \in Innocent /\ Innocent \in SUBSET Sendables
      BY <3>1, AvFramesAreSent DEF Innocent
    <3>4. Cut(w \o t, av_ends[s] \cup {Len(w \o t)}, Innocent)
      BY <1>4, <3>2, <3>3, CutJoin DEF t
    <3> QED BY <1>2, <1>5, <1>7, <3>2, <3>4 DEF Asked
  <2> QED BY <2>1, <2>2
<1>10. ASSUME NEW r \in AvSessions, r # s PROVE Asked(r)'
  <2>1. Asked(r)
    BY DEF AskInv
  <2>2. av_wire'[r] = av_wire[r] /\ av_ends'[r] = av_ends[r]
    BY <1>5, <1>7, <1>10
  <2>3. r \in av_asked' <=> r \in av_asked
    BY <1>1, <1>10
  <2> QED BY <1>2, <2>1, <2>2, <2>3 DEF Asked
<1>11. av_owed' \subseteq {r \in AvSessions : b2_sent'[r]}
  BY <1>2 DEF AskInv
<1> QED BY <1>6, <1>8, <1>9, <1>10, <1>11 DEF AskInv

\* A chunk is received.
LEMMA AskReceives ==
  ASSUME AskInv, AvInv, NEW s \in AvSessions, NEW n \in 1..Len(av_wire[s]), Receives(s, n)
  PROVE  AskInv'
<1> DEFINE w        == av_wire[s]
           ends     == av_ends[s]
           chunk    == SubSeq(w, 1, n)
           rest     == SubSeq(w, n + 1, Len(w))
           late     == {e - n : e \in {e \in ends : e > n}}
           answered == answer_b1(s) /\ ~b2_sent[s] /\ StartAuthIn(chunk)
<1>1. /\ av_wire' = [av_wire EXCEPT ![s] = rest]
      /\ av_ends' = [av_ends EXCEPT ![s] = late]
      /\ b2_sent' = [b2_sent EXCEPT ![s] = Remembers(s, answered)]
      /\ av_owed' = IF answer_b1(s) /\ av_peer[s] = "open" /\ HoldsStartAuth(chunk)
                      THEN av_owed \cup {s} ELSE av_owed
      /\ av_torn' = IF n \in ends THEN av_torn ELSE av_torn \cup {s}
      /\ av_asked' = av_asked
  BY Zenon DEF Receives
<1>2. w \in Text /\ ends \in SUBSET Nat /\ Len(w) \in Nat /\ n \in Nat \ {0} /\ n <= Len(w)
  BY DEF AskInv, Text
<1>3. chunk \in Text /\ rest \in Text
  <2>1. n + 1 \in Nat \ {0}
    BY <1>2
  <2> QED BY <1>2, <2>1, PartIsText
<1>4. late \in SUBSET Nat
  <2> SUFFICES ASSUME NEW e \in ends, e > n PROVE e - n \in Nat
    OBVIOUS
  <2>1. e \in Nat
    BY <1>2
  <2> QED BY <1>2, <2>1
<1>5. b2_sent[s] \in BOOLEAN /\ answered \in BOOLEAN
  BY DEF AvInv, answer_b1, StartAuthIn
<1> HIDE DEF rest, late, answered, chunk
<1>6. /\ av_wire'[s] = rest /\ av_ends'[s] = late /\ b2_sent'[s] = Remembers(s, answered)
      /\ \A r \in AvSessions : r # s =>
           av_wire'[r] = av_wire[r] /\ av_ends'[r] = av_ends[r] /\ b2_sent'[r] = b2_sent[r]
  <2>1. /\ av_wire \in [AvSessions -> Text] /\ av_ends \in [AvSessions -> SUBSET Nat]
        /\ b2_sent \in [AvSessions -> BOOLEAN]
    BY DEF AskInv, AvInv
  <2> QED BY <1>1, <2>1
<1>7. av_wire' \in [AvSessions -> Text] /\ av_ends' \in [AvSessions -> SUBSET Nat]
  BY <1>1, <1>3, <1>4 DEF AskInv
<1>8. Asked(s)'
  <2>1. CASE s \in av_asked' \cup av_torn'
    BY <2>1 DEF Asked
  <2>2. CASE s \notin av_asked' \cup av_torn'
    <3>1. s \notin av_asked \cup av_torn /\ n \in ends
      BY <1>1, <2>2
    <3>2. ~b2_sent[s] /\ Cut(w, ends, Innocent)
      BY <3>1 DEF AskInv, Asked
    <3>3. Innocent \in SUBSET Sendables
      BY AvFramesAreSent DEF Innocent
    <3>4. Cut(chunk, {e \in ends : e <= n}, Innocent)
      BY <1>2, <3>1, <3>2, <3>3, CutChunk DEF chunk
    <3>5. ~answered
      BY <1>3, <3>4, InnocentAsk DEF answered
    <3>6. ~b2_sent'[s]
      BY <1>6, <3>2, <3>5 DEF Remembers
    <3>7. Cut(rest, late, Innocent)
      BY <1>2, <3>1, <3>2, <3>3, CutRest DEF rest, late
    <3> QED BY <1>6, <3>6, <3>7 DEF Asked
  <2> QED BY <2>1, <2>2
<1>9. ASSUME NEW r \in AvSessions, r # s PROVE Asked(r)'
  <2>1. Asked(r)
    BY DEF AskInv
  <2>2. r \in av_torn' <=> r \in av_torn
    BY <1>1, <1>9
  <2> QED BY <1>1, <1>6, <1>9, <2>1, <2>2 DEF Asked
<1>10. ASSUME NEW r \in av_owed' PROVE r \in AvSessions /\ b2_sent'[r]
  <2>1. CASE r \in av_owed
    <3>1. r \in AvSessions /\ b2_sent[r]
      BY <2>1 DEF AskInv
    <3>2. r = s => Remembers(s, answered)
      BY <3>1 DEF Remembers
    <3> QED BY <1>6, <3>1, <3>2
  <2>2. CASE r \notin av_owed
    <3>1. r = s /\ answer_b1(s) /\ av_peer[s] = "open" /\ HoldsStartAuth(chunk)
      BY <1>1, <1>10, <2>2
    <3>2. StartAuthIn(chunk)
      BY <1>3, <3>1, WholeIsSeen
    <3>3. Remembers(s, answered)
      BY <3>1, <3>2 DEF Remembers, answered
    <3> QED BY <1>6, <3>1, <3>3
  <2> QED BY <2>1, <2>2
<1> QED BY <1>7, <1>8, <1>9, <1>10 DEF AskInv

LEMMA AskQuiet ==
  ASSUME AskInv, UNCHANGED <<av_wire, b2_sent, av_owed, av_asked, av_ends, av_torn>>
  PROVE  AskInv'
BY DEF AskInv, Asked

LEMMA AskNext == AvInv /\ AskInv /\ [AvNext]_avVars => AskInv'
<1> SUFFICES ASSUME AvInv, AskInv, [AvNext]_avVars PROVE AskInv'
  OBVIOUS
<1>1. CASE Dials
  BY <1>1, AskQuiet DEF Dials, avHistory
<1>2. ASSUME NEW s \in AvSessions,
             \/ Connects(s) \/ ConnectFails(s) \/ SendsSessionStart(s) \/ SendsAuthRequest(s)
             \/ HeadUnitDials(s) \/ ReceivesEnd(s) \/ HeadUnitCloses(s)
      PROVE  AskInv'
  <2>1. UNCHANGED <<av_wire, b2_sent, av_owed, av_asked, av_ends, av_torn>>
    BY <1>2 DEF Connects, ConnectFails, SendsSessionStart, SendsAuthRequest, HeadUnitDials,
                ReceivesEnd, HeadUnitCloses, avHistory
  <2> QED BY <2>1, AskQuiet
<1>3. ASSUME NEW s \in AvSessions, HeadUnitSendsFrame(s) PROVE AskInv'
  BY <1>3, AskSends
<1>4. ASSUME NEW s \in AvSessions, NEW n \in 1..Len(av_wire[s]), Receives(s, n) PROVE AskInv'
  BY <1>4, AskReceives
<1>5. CASE UNCHANGED avVars
  <2>1. UNCHANGED <<av_wire, b2_sent, av_owed, av_asked, av_ends, av_torn>>
    BY <1>5 DEF avVars
  <2> QED BY <2>1, AskQuiet
<1> QED BY <1>1, <1>2, <1>3, <1>4, <1>5 DEF AvNext

\* A response was sent exactly when one is remembered.
LEMMA RememberedIsSent ==
  ASSUME AvInv, NEW s \in AvSessions
  PROVE  "AuthResponse" \in Range(av_tx[s]) <=> b2_sent[s]
<1>1. CASE b2_sent[s]
  <2>1. PICK opened \in Opened : av_tx[s] = Append(opened, "AuthResponse")
    BY <1>1 DEF AvInv, Stage
  <2>2. opened \in Seq(Handshake)
    BY OpenedFrames
  <2>3. /\ Len(opened) + 1 \in DOMAIN Append(opened, "AuthResponse")
        /\ Append(opened, "AuthResponse")[Len(opened) + 1] = "AuthResponse"
    BY <2>2
  <2> QED BY <1>1, <2>1, <2>3 DEF Range
<1>2. CASE ~b2_sent[s]
  <2>1. av_tx[s] \in Opened
    BY <1>2 DEF AvInv, Stage, Opened
  <2>2. \A opened \in Opened : "AuthResponse" \notin Range(opened)
    <3>1. "AuthResponse" \notin Range(<<>>)
      BY DEF Range
    <3>2. "AuthResponse" \notin Range(<<"SessionStart">>)
      BY DEF Range
    <3>3. "AuthResponse" \notin Range(<<"AuthRequest">>)
      BY DEF Range
    <3>4. "AuthResponse" \notin Range(<<"SessionStart", "AuthRequest">>)
      BY DEF Range
    <3> QED BY <3>1, <3>2, <3>3, <3>4, Zenon DEF Opened
  <2> QED BY <1>2, <2>1, <2>2
<1> QED BY <1>1, <1>2

\* On every connection, whatever frames the head unit sends and however they are cut: a
\* response is sent only to a StartAuth, unless a chunk ended inside a frame
\* (_av_spp_recv_loop).
THEOREM AnswersAreAsked == AvSpec => []ResponseIsAsked
<1>1. AvInv /\ AskInv => ResponseIsAsked
  BY RememberedIsSent DEF AskInv, Asked, ResponseIsAsked
<1> QED BY <1>1, AvInitInv, AvNextInv, AskInit, AskNext, PTL DEF AvSpec

\* On every connection that answers: a StartAuth that a chunk holds whole is answered,
\* whatever pieces of frames stand before and behind it (_av_spp_recv_loop).
THEOREM WholeOnesAreAnswered == AvSpec => []WholeStartAuthAnswered
<1>1. AvInv /\ AskInv => WholeStartAuthAnswered
  BY RememberedIsSent DEF AskInv, WholeStartAuthAnswered
<1> QED BY <1>1, AvInitInv, AvNextInv, AskInit, AskNext, PTL DEF AvSpec

-----------------------------------------------------------------------------
(***************************************************************************)
(* AclCapture.  A packet is told from the others by its first part, its    *)
(* name.  While no record of a packet was missed its connection holds just *)
(* its first parts; a captured packet is yielded and is no longer on its   *)
(* way; and what is yielded is either captured or begins with the name of  *)
(* a packet that never will be.                                            *)
(***************************************************************************)
Part == Nat \X Nat
Run(id, from, to) == [i \in 1..(to - from) |-> <<id, from + i>>]

Name(c) == sending[c].packet[1]
Sending(c) == sending[c].left # <<>>
Live(c) == Sending(c) /\ intact[c]
Names   == {<<i, 1>> : i \in 1..begun}

AclTypes ==
  /\ begun \in 0..MaxAclPackets
  /\ DOMAIN sending = Connections
  /\ intact \in [Connections -> BOOLEAN]
  /\ DOMAIN partial \subseteq Connections
  /\ \A c \in DOMAIN partial : /\ partial[c] \in [need : Nat, body : Seq(Part)]
                               /\ Len(partial[c].body) < partial[c].need
  /\ yielded \in Seq(Seq(Part))
  /\ captured \in Seq(Seq(Part))

\* The connection has sent the first parts of packet id; while no record of it was missed,
\* they are what its partial packet holds.
SentOf(c, id, size, sent) ==
  /\ sending[c] = [left |-> Run(id, sent, size), packet |-> Run(id, 0, size)]
  /\ sent = 0 => /\ intact[c]
                 /\ c \in DOMAIN partial => partial[c].body[1] # <<id, 1>>
  /\ intact[c] /\ 0 < sent /\ sent < size =>
       /\ c \in DOMAIN partial
       /\ partial[c] = [need |-> size, body |-> Run(id, 0, sent)]

Progress(c) ==
  \/ sending[c] = [left |-> <<>>, packet |-> <<>>]
  \/ \E id \in 1..begun, size \in AclSizes : \E sent \in 0..size : SentOf(c, id, size, sent)

Uncaptured(name) == \A i \in DOMAIN captured : captured[i][1] # name
Doomed(name) == Uncaptured(name) /\ \A c \in Connections : Live(c) => Name(c) # name

OwnNames ==
  \A c, d \in Connections : c # d /\ Sending(c) /\ Sending(d) => Name(c) # Name(d)

PartialName(c) ==
  /\ partial[c].body # <<>> /\ partial[c].body[1] \in Names
  /\ Uncaptured(partial[c].body[1])
  /\ \A d \in Connections : Live(d) /\ Name(d) = partial[c].body[1] => d = c

CapturedNames ==
  /\ \A i \in DOMAIN captured :
       /\ captured[i] # <<>> /\ captured[i][1] \in Names
       /\ \E k \in DOMAIN yielded : yielded[k] = captured[i]
       /\ \A c \in Connections : Live(c) => Name(c) # captured[i][1]
  /\ \A i, j \in DOMAIN captured : i # j => captured[i][1] # captured[j][1]

YieldedNames ==
  \A k \in DOMAIN yielded :
    /\ yielded[k] # <<>> /\ yielded[k][1] \in Names
    /\ (\E i \in DOMAIN captured : captured[i] = yielded[k]) \/ Doomed(yielded[k][1])

InOrder ==
  \A i, j \in DOMAIN captured, k, l \in DOMAIN yielded :
    yielded[k] = captured[i] /\ yielded[l] = captured[j] => (i < j <=> k < l)

AclInv ==
  /\ AclTypes
  /\ \A c \in Connections : Progress(c)
  /\ OwnNames
  /\ \A c \in DOMAIN partial : PartialName(c)
  /\ CapturedNames /\ YieldedNames /\ InOrder

-----------------------------------------------------------------------------
LEMMA RunIs ==
  ASSUME NEW id \in Nat, NEW from \in Nat, NEW to \in Nat, from <= to
  PROVE  /\ Run(id, from, to) \in Seq(Part)
         /\ Len(Run(id, from, to)) = to - from
         /\ \A i \in 1..(to - from) : Run(id, from, to)[i] = <<id, from + i>>
<1>1. \A i \in 1..(to - from) : <<id, from + i>> \in Part
  BY DEF Part
<1>2. to - from \in Nat
  OBVIOUS
<1> QED BY <1>1, <1>2 DEF Run

LEMMA WholeIs ==
  ASSUME NEW id \in Nat, NEW n \in Nat
  PROVE  /\ Run(id, 0, n) \in Seq(Part)
         /\ Len(Run(id, 0, n)) = n
         /\ \A i \in 1..n : Run(id, 0, n)[i] = <<id, i>>
<1>1. n - 0 = n /\ 0 <= n /\ \A i \in 1..n : 0 + i = i
  OBVIOUS
<1>2. /\ Run(id, 0, n) \in Seq(Part)
      /\ Len(Run(id, 0, n)) = n - 0
      /\ \A i \in 1..(n - 0) : Run(id, 0, n)[i] = <<id, 0 + i>>
  BY <1>1, RunIs
<1> QED BY <1>1, <1>2

LEMMA RunEmpty ==
  ASSUME NEW id \in Nat, NEW from \in Nat, NEW to \in Nat, from <= to
  PROVE  Run(id, from, to) = <<>> <=> from = to
<1>1. Run(id, from, to) \in Seq(Part) /\ Len(Run(id, from, to)) = to - from
  BY RunIs
<1> QED BY <1>1, EmptySeq

LEMMA RunHead ==
  ASSUME NEW id \in Nat, NEW from \in Nat, NEW to \in Nat, NEW n \in 1..(to - from)
  PROVE  SubSeq(Run(id, from, to), 1, n) = Run(id, from, from + n)
<1> DEFINE r == Run(id, from, to)
           s == SubSeq(r, 1, n)
           t == Run(id, from, from + n)
<1>1. /\ r \in Seq(Part) /\ Len(r) = to - from
      /\ \A i \in 1..(to - from) : r[i] = <<id, from + i>>
  <2>1. from <= to
    OBVIOUS
  <2> QED BY <2>1, RunIs
<1>2. t \in Seq(Part) /\ Len(t) = n /\ \A i \in 1..n : t[i] = <<id, from + i>>
  <2>1. from + n \in Nat /\ from <= from + n /\ (from + n) - from = n
    OBVIOUS
  <2>2. /\ t \in Seq(Part) /\ Len(t) = (from + n) - from
        /\ \A i \in 1..((from + n) - from) : t[i] = <<id, from + i>>
    BY <2>1, RunIs
  <2> HIDE DEF t
  <2> QED BY <2>1, <2>2
<1> HIDE DEF r
<1>3. s \in Seq(Part) /\ Len(s) = n /\ \A i \in 1..n : s[i] = r[i]
  <2>1. \A i \in 1..n : r[i] \in Part
    BY <1>1, ElementOfSeq
  <2> QED BY <2>1, SubSeqProperties
<1> HIDE DEF s, t
<1>4. \A i \in 1..n : s[i] = t[i]
  <2>1. \A i \in 1..n : i \in 1..(to - from)
    OBVIOUS
  <2>2. \A i \in 1..n : r[i] = <<id, from + i>>
    BY <1>1, <2>1
  <2> QED BY <1>2, <1>3, <2>2, Zenon
<1>5. s = t
  BY <1>2, <1>3, <1>4, SeqEqual
<1> QED BY <1>5 DEF s, t, r

LEMMA RunTail ==
  ASSUME NEW id \in Nat, NEW from \in Nat, NEW to \in Nat, NEW n \in 1..(to - from)
  PROVE  SubSeq(Run(id, from, to), n + 1, to - from) = Run(id, from + n, to)
<1> DEFINE r == Run(id, from, to)
           s == SubSeq(r, n + 1, to - from)
           t == Run(id, from + n, to)
<1>1. /\ r \in Seq(Part) /\ Len(r) = to - from
      /\ \A i \in 1..(to - from) : r[i] = <<id, from + i>>
  <2>1. from <= to
    OBVIOUS
  <2> QED BY <2>1, RunIs
<1> DEFINE m == to - (from + n)
<1>0. m \in Nat /\ m = (to - from) - n
  OBVIOUS
<1>2. t \in Seq(Part) /\ Len(t) = m /\ \A i \in 1..m : t[i] = <<id, from + n + i>>
  <2>1. from + n \in Nat /\ from + n <= to
    OBVIOUS
  <2> QED BY <2>1, RunIs
<1> HIDE DEF r
<1>3. s \in Seq(Part) /\ Len(s) = m /\ \A i \in 1..m : s[i] = r[n + i]
  <2>1. \A i \in n + 1..to - from : r[i] \in Part
    BY <1>1, ElementOfSeq
  <2>2. n + 1 \in Int /\ to - from \in Int
    OBVIOUS
  <2>3. /\ s \in Seq(Part)
        /\ Len(s) = IF n + 1 <= to - from THEN (to - from) - (n + 1) + 1 ELSE 0
        /\ \A i \in 1..(to - from) - (n + 1) + 1 : s[i] = r[(n + 1) + i - 1]
    BY <2>1, <2>2, SubSeqProperties
  <2> HIDE DEF s
  <2> QED BY <2>3
<1>4. \A i \in 1..m : s[i] = t[i]
  <2> SUFFICES ASSUME NEW i \in 1..m PROVE s[i] = t[i]
    OBVIOUS
  <2>1. n + i \in 1..(to - from)
    OBVIOUS
  <2>2. from + (n + i) = from + n + i
    OBVIOUS
  <2> HIDE DEF m, s, t
  <2> QED BY <1>1, <1>2, <1>3, <2>1, <2>2
<1> HIDE DEF s, t, m
<1>5. s = t
  BY <1>2, <1>3, <1>4, SeqEqual
<1> QED BY <1>5 DEF s, t, r

LEMMA RunJoin ==
  ASSUME NEW id \in Nat, NEW mid \in Nat, NEW to \in Nat, mid <= to
  PROVE  Run(id, 0, mid) \o Run(id, mid, to) = Run(id, 0, to)
<1> DEFINE a == Run(id, 0, mid)
           b == Run(id, mid, to)
           t == Run(id, 0, to)
           s == a \o b
<1>1. a \in Seq(Part) /\ Len(a) = mid /\ \A i \in 1..mid : a[i] = <<id, i>>
  BY WholeIs
<1>2. b \in Seq(Part) /\ Len(b) = to - mid /\ \A i \in 1..(to - mid) : b[i] = <<id, mid + i>>
  BY RunIs
<1>3. t \in Seq(Part) /\ Len(t) = to /\ \A i \in 1..to : t[i] = <<id, i>>
  BY WholeIs
<1> HIDE DEF a, b, t
<1>4. /\ s \in Seq(Part) /\ Len(s) = to
      /\ \A i \in 1..to : s[i] = IF i <= mid THEN a[i] ELSE b[i - mid]
  <2>1. mid + (to - mid) = to
    OBVIOUS
  <2>2. /\ s \in Seq(Part) /\ Len(s) = Len(a) + Len(b)
        /\ \A i \in 1..Len(a) + Len(b) : s[i] = IF i <= Len(a) THEN a[i] ELSE b[i - Len(a)]
    BY <1>1, <1>2, ConcatProperties
  <2> HIDE DEF s
  <2> QED BY <1>1, <1>2, <2>1, <2>2
<1> HIDE DEF s
<1>5. \A i \in 1..to : s[i] = t[i]
  <2> SUFFICES ASSUME NEW i \in 1..to PROVE s[i] = t[i]
    OBVIOUS
  <2>1. CASE i <= mid
    BY <1>1, <1>3, <1>4, <2>1
  <2>2. CASE i > mid
    <3>1. i - mid \in 1..(to - mid) /\ mid + (i - mid) = i
      BY <2>2
    <3>2. b[i - mid] = <<id, i>>
      BY <1>2, <3>1
    <3>3. s[i] = b[i - mid]
      BY <1>4, <2>2
    <3> QED BY <1>3, <3>2, <3>3
  <2> QED BY <2>1, <2>2
<1>6. s = t
  BY <1>3, <1>4, <1>5, SeqEqual
<1> QED BY <1>6 DEF s, t, a, b

-----------------------------------------------------------------------------
LEMMA AclInitInv == AclInit => AclInv
<1> SUFFICES ASSUME AclInit PROVE AclInv
  OBVIOUS
<1>1. <<>> \in Seq(Seq(Part))
  OBVIOUS
<1>2. DOMAIN partial = {} /\ DOMAIN captured = {} /\ DOMAIN yielded = {}
  BY DEF AclInit
<1>3. AclTypes
  BY <1>1, <1>2, AclAssumption DEF AclInit, AclTypes
<1>4. \A c \in Connections : Progress(c) /\ ~Sending(c)
  BY DEF AclInit, Progress, Sending
<1> QED
  BY <1>2, <1>3, <1>4 DEF AclInv, OwnNames, PartialName, CapturedNames, YieldedNames, InOrder

\* A packet on its way is named, and its name is one of those given.
LEMMA NameIs ==
  ASSUME NEW id \in Nat, NEW size \in Nat \ {0}
  PROVE  Run(id, 0, size)[1] = <<id, 1>> /\ Run(id, 0, size) # <<>>
<1>1. 1 \in 1..size /\ 0 # size /\ 0 <= size
  OBVIOUS
<1> QED BY <1>1, WholeIs, RunEmpty

LEMMA SendingIsNamed ==
  ASSUME AclInv, NEW c \in Connections, Sending(c)
  PROVE  Name(c) \in Names
<1>1. PICK id \in 1..begun, size \in AclSizes : sending[c].packet = Run(id, 0, size)
  <2>1. sending[c] # [left |-> <<>>, packet |-> <<>>]
    BY DEF Sending
  <2>2. \E id \in 1..begun, size \in AclSizes : \E sent \in 0..size :
          sending[c] = [left |-> Run(id, sent, size), packet |-> Run(id, 0, size)]
    BY <2>1 DEF AclInv, Progress, SentOf
  <2> QED BY <2>2
<1>2. id \in Nat /\ size \in Nat \ {0}
  BY AclAssumption DEF AclInv, AclTypes
<1> QED BY <1>1, <1>2, NameIs DEF Name, Names

-----------------------------------------------------------------------------
(***************************************************************************)
(* What a step must leave for names to stay what they are.                 *)
(***************************************************************************)
NoRevival ==
  /\ Names \subseteq Names'
  /\ \A c \in Connections : Live(c)' => \/ Live(c) /\ Name(c)' = Name(c)
                                        \/ Name(c)' \notin Names

LEMMA DoomedStays ==
  ASSUME NoRevival, captured' = captured, NEW name \in Names, Doomed(name)
  PROVE  Doomed(name)'
BY DEF NoRevival, Doomed, Uncaptured

LEMMA CapturedStay ==
  ASSUME AclInv, NoRevival, UNCHANGED captured,
         \A k \in DOMAIN yielded : k \in DOMAIN yielded' /\ yielded'[k] = yielded[k]
  PROVE  CapturedNames'
BY DEF AclInv, CapturedNames, NoRevival

\* Nothing is yielded.
LEMMA NothingYielded ==
  ASSUME AclInv, NoRevival, UNCHANGED <<yielded, captured>>
  PROVE  CapturedNames' /\ YieldedNames' /\ InOrder'
<1>1. CapturedNames'
  BY CapturedStay
<1>2. YieldedNames'
  <2> SUFFICES ASSUME NEW k \in DOMAIN yielded
               PROVE  /\ yielded[k] # <<>> /\ yielded[k][1] \in Names'
                      /\ \/ \E i \in DOMAIN captured : captured[i] = yielded[k]
                         \/ Doomed(yielded[k][1])'
    BY DEF YieldedNames
  <2>1. /\ yielded[k] # <<>> /\ yielded[k][1] \in Names
        /\ (\E i \in DOMAIN captured : captured[i] = yielded[k]) \/ Doomed(yielded[k][1])
    BY DEF AclInv, YieldedNames
  <2> QED BY <2>1, DoomedStays DEF NoRevival
<1>3. InOrder'
  BY DEF AclInv, InOrder
<1> QED BY <1>1, <1>2, <1>3

\* Something is yielded that begins a packet which is not captured, nor ever will be.
LEMMA SpoiltYielded ==
  ASSUME AclInv, NoRevival, UNCHANGED captured,
         NEW payload \in Seq(Part), yielded' = Append(yielded, payload),
         payload # <<>>, payload[1] \in Names, Doomed(payload[1])'
  PROVE  CapturedNames' /\ YieldedNames' /\ InOrder'
<1> DEFINE n == Len(yielded)
<1>1. n \in Nat /\ DOMAIN yielded = 1..n
  BY LenProperties DEF AclInv, AclTypes
<1>2. /\ DOMAIN yielded' = 1..n + 1
      /\ \A k \in 1..n : yielded'[k] = yielded[k]
      /\ yielded'[n + 1] = payload
  <2>1. /\ Append(yielded, payload) \in Seq(Seq(Part))
        /\ Len(Append(yielded, payload)) = n + 1
        /\ \A k \in 1..n : Append(yielded, payload)[k] = yielded[k]
        /\ Append(yielded, payload)[n + 1] = payload
    BY AppendProperties DEF AclInv, AclTypes
  <2> QED BY <2>1, LenProperties
<1> HIDE DEF n
<1>3. CapturedNames'
  BY <1>1, <1>2, CapturedStay
<1>4. YieldedNames'
  <2> SUFFICES ASSUME NEW k \in DOMAIN yielded'
               PROVE  /\ yielded'[k] # <<>> /\ yielded'[k][1] \in Names'
                      /\ \/ \E i \in DOMAIN captured' : captured'[i] = yielded'[k]
                         \/ Doomed(yielded[k][1])'
    BY DEF YieldedNames
  <2>1. CASE k = n + 1
    BY <1>2, <2>1 DEF NoRevival
  <2>2. CASE k # n + 1
    <3>1. k \in DOMAIN yielded /\ yielded'[k] = yielded[k]
      BY <1>1, <1>2, <2>2
    <3>2. /\ yielded[k] # <<>> /\ yielded[k][1] \in Names
          /\ (\E i \in DOMAIN captured : captured[i] = yielded[k]) \/ Doomed(yielded[k][1])
      BY <3>1 DEF AclInv, YieldedNames
    <3> QED BY <3>1, <3>2, DoomedStays DEF NoRevival
  <2> QED BY <2>1, <2>2
<1>5. InOrder'
  <2>1. \A i \in DOMAIN captured : captured[i] # payload
    BY DEF Doomed, Uncaptured
  <2>2. ASSUME NEW i \in DOMAIN captured', NEW j \in DOMAIN captured',
               NEW k \in DOMAIN yielded', NEW l \in DOMAIN yielded',
               yielded'[k] = captured'[i], yielded'[l] = captured'[j]
        PROVE  i < j <=> k < l
    <3>1. k # n + 1 /\ l # n + 1
      BY <1>2, <2>1, <2>2
    <3>2. k \in DOMAIN yielded /\ l \in DOMAIN yielded
          /\ yielded[k] = captured[i] /\ yielded[l] = captured[j]
      BY <1>1, <1>2, <2>2, <3>1
    <3> QED BY <3>2 DEF AclInv, InOrder
  <2> QED BY <2>2 DEF InOrder
<1> QED BY <1>3, <1>4, <1>5

\* The packet that was live on a connection is captured and yielded.
LEMMA PacketCaptured ==
  ASSUME AclInv, NEW c \in Connections, Live(c), ~Live(c)',
         Names' = Names, \A d \in Connections : Name(d)' = Name(d) /\ (Live(d)' => Live(d)),
         NEW payload \in Seq(Part), payload # <<>>, payload[1] = Name(c),
         yielded' = Append(yielded, payload), captured' = Append(captured, payload)
  PROVE  /\ CapturedNames' /\ YieldedNames' /\ InOrder'
         /\ \A name : Uncaptured(name) /\ name # Name(c)
                       => \A i \in DOMAIN captured' : captured'[i][1] # name
<1> DEFINE n == Len(yielded)
           m == Len(captured)
<1>1. n \in Nat /\ DOMAIN yielded = 1..n /\ m \in Nat /\ DOMAIN captured = 1..m
  BY LenProperties DEF AclInv, AclTypes
<1>2. /\ DOMAIN yielded' = 1..n + 1
      /\ \A k \in 1..n : yielded'[k] = yielded[k]
      /\ yielded'[n + 1] = payload
  <2>1. /\ Append(yielded, payload) \in Seq(Seq(Part))
        /\ Len(Append(yielded, payload)) = n + 1
        /\ \A k \in 1..n : Append(yielded, payload)[k] = yielded[k]
        /\ Append(yielded, payload)[n + 1] = payload
    BY AppendProperties DEF AclInv, AclTypes
  <2> QED BY <2>1, LenProperties
<1>3. /\ DOMAIN captured' = 1..m + 1
      /\ \A i \in 1..m : captured'[i] = captured[i]
      /\ captured'[m + 1] = payload
  <2>1. /\ Append(captured, payload) \in Seq(Seq(Part))
        /\ Len(Append(captured, payload)) = m + 1
        /\ \A i \in 1..m : Append(captured, payload)[i] = captured[i]
        /\ Append(captured, payload)[m + 1] = payload
    BY AppendProperties DEF AclInv, AclTypes
  <2> QED BY <2>1, LenProperties
<1> HIDE DEF n, m
<1>4. Name(c) \in Names
  BY SendingIsNamed DEF Live
<1>5. \A i \in 1..m : captured[i][1] # Name(c)
  BY <1>1 DEF AclInv, CapturedNames
<1>6. \A k \in 1..n : yielded[k][1] # Name(c)
  <2> SUFFICES ASSUME NEW k \in 1..n, yielded[k][1] = Name(c) PROVE FALSE
    OBVIOUS
  <2>1. ~Doomed(yielded[k][1])
    BY DEF Doomed
  <2>2. PICK i \in DOMAIN captured : captured[i] = yielded[k]
    BY <1>1, <2>1 DEF AclInv, YieldedNames
  <2> QED BY <1>1, <1>5, <2>2
<1>7. \A name : Uncaptured(name) /\ name # Name(c)
                => \A i \in DOMAIN captured' : captured'[i][1] # name
  <2> SUFFICES ASSUME NEW name, Uncaptured(name), name # Name(c), NEW i \in 1..m + 1
               PROVE  captured'[i][1] # name
    BY <1>3 DEF Uncaptured
  <2>1. CASE i = m + 1
    BY <1>3, <2>1
  <2>2. CASE i # m + 1
    <3>1. i \in 1..m
      BY <1>1, <2>2
    <3> QED BY <1>1, <1>3, <3>1 DEF Uncaptured
  <2> QED BY <2>1, <2>2
<1>8. \A d \in Connections : Live(d)' => Live(d) /\ Name(d)' = Name(d) /\ Name(d) # Name(c)
  <2> SUFFICES ASSUME NEW d \in Connections, Live(d)'
               PROVE  Live(d) /\ Name(d)' = Name(d) /\ Name(d) # Name(c)
    OBVIOUS
  <2>1. d # c /\ Live(d)
    OBVIOUS
  <2> QED BY <2>1 DEF AclInv, OwnNames, Live
<1>9. CapturedNames'
  <2>1. ASSUME NEW i \in 1..m
        PROVE  /\ captured'[i] = captured[i]
               /\ captured[i] # <<>> /\ captured[i][1] \in Names'
               /\ \E k \in DOMAIN yielded' : yielded'[k] = captured[i]
               /\ \A d \in Connections : Live(d)' => Name(d)' # captured[i][1]
    <3>1. /\ captured[i] # <<>> /\ captured[i][1] \in Names
          /\ \E k \in DOMAIN yielded : yielded[k] = captured[i]
          /\ \A d \in Connections : Live(d) => Name(d) # captured[i][1]
      BY <1>1 DEF AclInv, CapturedNames
    <3>2. \E k \in DOMAIN yielded' : yielded'[k] = captured[i]
      BY <1>1, <1>2, <3>1
    <3> QED BY <1>3, <1>8, <3>1, <3>2
  <2>2. /\ captured'[m + 1] = payload /\ payload # <<>> /\ payload[1] \in Names'
        /\ \E k \in DOMAIN yielded' : yielded'[k] = payload
        /\ \A d \in Connections : Live(d)' => Name(d)' # payload[1]
    <3>1. n + 1 \in DOMAIN yielded'
      BY <1>1, <1>2
    <3> QED BY <1>2, <1>3, <1>4, <1>8, <3>1
  <2>3. ASSUME NEW i \in 1..m + 1, NEW j \in 1..m + 1, i # j
        PROVE  captured'[i][1] # captured'[j][1]
    <3>1. CASE i = m + 1
      <4>1. j \in 1..m
        BY <1>1, <2>3, <3>1
      <4> QED BY <1>3, <1>5, <3>1, <4>1
    <3>2. CASE j = m + 1
      <4>1. i \in 1..m
        BY <1>1, <2>3, <3>2
      <4> QED BY <1>3, <1>5, <3>2, <4>1
    <3>3. CASE i # m + 1 /\ j # m + 1
      <4>1. i \in 1..m /\ j \in 1..m
        BY <1>1, <3>3
      <4> QED BY <1>1, <1>3, <2>3, <4>1 DEF AclInv, CapturedNames
    <3> QED BY <3>1, <3>2, <3>3
  <2>4. \A i \in 1..m + 1 : i \in 1..m \/ i = m + 1
    BY <1>1
  <2>5. \A i \in DOMAIN captured' :
          /\ captured'[i] # <<>> /\ captured'[i][1] \in Names'
          /\ \E k \in DOMAIN yielded' : yielded'[k] = captured'[i]
          /\ \A d \in Connections : Live(d)' => Name(d)' # captured'[i][1]
    <3> SUFFICES ASSUME NEW i \in 1..m + 1
                 PROVE  /\ captured'[i] # <<>> /\ captured'[i][1] \in Names'
                        /\ \E k \in DOMAIN yielded' : yielded'[k] = captured'[i]
                        /\ \A d \in Connections : Live(d)' => Name(d)' # captured'[i][1]
      BY <1>3
    <3>1. CASE i = m + 1
      BY <2>2, <3>1
    <3>2. CASE i \in 1..m
      BY <2>1, <3>2
    <3> QED BY <2>4, <3>1, <3>2
  <2>6. \A i, j \in DOMAIN captured' : i # j => captured'[i][1] # captured'[j][1]
    BY <1>3, <2>3
  <2> QED BY <2>5, <2>6 DEF CapturedNames
<1>10. YieldedNames'
  <2> SUFFICES ASSUME NEW k \in DOMAIN yielded'
               PROVE  /\ yielded'[k] # <<>> /\ yielded'[k][1] \in Names'
                      /\ \/ \E i \in DOMAIN captured' : captured'[i] = yielded'[k]
                         \/ Doomed(yielded[k][1])'
    BY DEF YieldedNames
  <2>1. CASE k = n + 1
    <3>1. m + 1 \in DOMAIN captured'
      BY <1>1, <1>3
    <3> QED BY <1>2, <1>3, <1>4, <2>1, <3>1
  <2>2. CASE k # n + 1
    <3>1. k \in 1..n /\ yielded'[k] = yielded[k]
      BY <1>1, <1>2, <2>2
    <3>2. /\ yielded[k] # <<>> /\ yielded[k][1] \in Names
          /\ (\E i \in DOMAIN captured : captured[i] = yielded[k]) \/ Doomed(yielded[k][1])
      BY <1>1, <3>1 DEF AclInv, YieldedNames
    <3>3. CASE \E i \in DOMAIN captured : captured[i] = yielded[k]
      <4>1. \E i \in DOMAIN captured' : captured'[i] = yielded[k]
        <5>1. PICK i \in 1..m : captured[i] = yielded[k]
          BY <1>1, <3>3
        <5>2. i \in 1..m + 1
          BY <1>1
        <5> QED BY <1>3, <5>1, <5>2
      <4> QED BY <3>1, <3>2, <4>1
    <3>4. CASE Doomed(yielded[k][1])
      <4> DEFINE name == yielded[k][1]
      <4>1. Uncaptured(name) /\ \A d \in Connections : Live(d) => Name(d) # name
        BY <3>4 DEF Doomed
      <4>2. name # Name(c)
        BY <4>1
      <4> HIDE DEF name
      <4>3. \A i \in DOMAIN captured' : captured'[i][1] # name
        BY <1>7, <4>1, <4>2
      <4>4. \A d \in Connections : Live(d)' => Name(d)' # name
        BY <1>8, <4>1
      <4>5. /\ \A i \in DOMAIN captured' : captured'[i][1] # name
            /\ yielded'[k][1] = name
        BY <3>1, <4>3 DEF name
      <4>6. Doomed(yielded[k][1])'
        BY <4>4, <4>5 DEF Doomed, Uncaptured
      <4> QED BY <3>1, <3>2, <4>6
    <3> QED BY <3>2, <3>3, <3>4
  <2> QED BY <2>1, <2>2
<1>11. InOrder'
  <2> SUFFICES ASSUME NEW i \in DOMAIN captured', NEW j \in DOMAIN captured',
                      NEW k \in DOMAIN yielded', NEW l \in DOMAIN yielded',
                      yielded'[k] = captured'[i], yielded'[l] = captured'[j]
               PROVE  i < j <=> k < l
    BY SMTT(30) DEF InOrder
  <2>1. i = m + 1 <=> k = n + 1
    <3>1. \A x \in 1..m : captured'[x][1] # Name(c)
      BY <1>3, <1>5
    <3>2. \A x \in 1..n : yielded'[x][1] # Name(c)
      BY <1>2, <1>6
    <3>3. i \in 1..m \/ i = m + 1
      BY <1>1, <1>3
    <3>4. k \in 1..n \/ k = n + 1
      BY <1>1, <1>2
    <3> QED BY <1>1, <1>2, <1>3, <3>1, <3>2, <3>3, <3>4
  <2>2. j = m + 1 <=> l = n + 1
    <3>1. \A x \in 1..m : captured'[x][1] # Name(c)
      BY <1>3, <1>5
    <3>2. \A x \in 1..n : yielded'[x][1] # Name(c)
      BY <1>2, <1>6
    <3>3. j \in 1..m \/ j = m + 1
      BY <1>1, <1>3
    <3>4. l \in 1..n \/ l = n + 1
      BY <1>1, <1>2
    <3> QED BY <1>1, <1>2, <1>3, <3>1, <3>2, <3>3, <3>4
  <2>3. i \in 1..m + 1 /\ j \in 1..m + 1 /\ k \in 1..n + 1 /\ l \in 1..n + 1
    BY <1>2, <1>3
  <2>4. CASE i # m + 1 /\ j # m + 1
    <3>1. i \in 1..m /\ j \in 1..m /\ k \in 1..n /\ l \in 1..n
      BY <1>1, <2>1, <2>2, <2>3, <2>4
    <3>2. yielded[k] = captured[i] /\ yielded[l] = captured[j]
      BY <1>2, <1>3, <3>1
    <3> QED BY <1>1, <3>1, <3>2 DEF AclInv, InOrder
  <2>5. CASE i = m + 1 \/ j = m + 1
    BY <1>1, <2>1, <2>2, <2>3, <2>5
  <2> QED BY <2>4, <2>5
<1> QED BY <1>7, <1>9, <1>10, <1>11
-----------------------------------------------------------------------------
\* A step leaves the progress of the connections that it does not concern.
LEMMA OthersProgress ==
  ASSUME AclInv, NEW c \in Connections, begun' \in Nat, begun <= begun',
         \A d \in Connections \ {c} :
           /\ sending'[d] = sending[d] /\ intact'[d] = intact[d]
           /\ d \in DOMAIN partial' <=> d \in DOMAIN partial
           /\ d \in DOMAIN partial => partial'[d] = partial[d]
  PROVE  \A d \in Connections \ {c} : Progress(d)'
<1> SUFFICES ASSUME NEW d \in Connections \ {c} PROVE Progress(d)'
  OBVIOUS
<1>1. Progress(d)
  BY DEF AclInv
<1>2. CASE sending[d] = [left |-> <<>>, packet |-> <<>>]
  BY <1>2 DEF Progress
<1>3. CASE \E id \in 1..begun, size \in AclSizes : \E sent \in 0..size :
             SentOf(d, id, size, sent)
  <2>1. begun \in Nat
    BY AclAssumption DEF AclInv, AclTypes
  <2>2. 1..begun \subseteq 1..begun'
    BY <2>1
  <2>3. PICK id \in 1..begun', size \in AclSizes : \E sent \in 0..size :
          SentOf(d, id, size, sent)
    BY <1>3, <2>2
  <2>4. PICK sent \in 0..size : SentOf(d, id, size, sent)
    BY <2>3
  <2>5. /\ sending'[d] = [left |-> Run(id, sent, size), packet |-> Run(id, 0, size)]
        /\ sent = 0 => /\ intact'[d]
                       /\ d \in DOMAIN partial' => partial'[d].body[1] # <<id, 1>>
        /\ intact'[d] /\ 0 < sent /\ sent < size =>
             /\ d \in DOMAIN partial'
             /\ partial'[d] = [need |-> size, body |-> Run(id, 0, sent)]
    BY <2>4 DEF SentOf
  <2> QED BY <2>5 DEF Progress, SentOf
<1> QED BY <1>1, <1>2, <1>3 DEF Progress

LEMMA PacketBeginsKeeps ==
  ASSUME AclInv, NEW c \in Connections, PacketBegins(c)
  PROVE  AclInv'
<1> DEFINE id == begun + 1
<1>1. begun \in 0..MaxAclPackets /\ id \in Nat /\ begun' = id /\ begun' \in 0..MaxAclPackets
  BY AclAssumption DEF PacketBegins, AclInv, AclTypes
<1>2. PICK size \in AclSizes :
        sending' = [sending EXCEPT ![c] = [left |-> [i \in 1..size |-> <<id, i>>],
                                           packet |-> [i \in 1..size |-> <<id, i>>]]]
  BY DEF PacketBegins
<1>3. size \in Nat \ {0}
  BY AclAssumption
<1>4. [i \in 1..size |-> <<id, i>>] = Run(id, 0, size)
  <2>1. size - 0 = size /\ \A i \in 1..size : 0 + i = i
    BY <1>3
  <2> HIDE DEF id
  <2> QED BY <2>1 DEF Run
<1>5. Run(id, 0, size)[1] = <<id, 1>> /\ Run(id, 0, size) # <<>>
  BY <1>1, <1>3, NameIs
<1>6. <<id, 1>> \notin Names /\ <<id, 1>> \in Names' /\ Names \subseteq Names'
  BY <1>1 DEF Names
<1> HIDE DEF id
<1>7. /\ sending'[c] = [left |-> Run(id, 0, size), packet |-> Run(id, 0, size)]
      /\ intact'[c] = TRUE /\ DOMAIN sending' = Connections
      /\ \A d \in Connections \ {c} : sending'[d] = sending[d] /\ intact'[d] = intact[d]
      /\ intact' \in [Connections -> BOOLEAN]
      /\ partial' = partial /\ yielded' = yielded /\ captured' = captured
  BY <1>2, <1>4 DEF PacketBegins, AclInv, AclTypes
<1>8. /\ Name(c)' = <<id, 1>>
      /\ \A d \in Connections \ {c} : /\ Name(d)' = Name(d) /\ Live(d)' = Live(d)
                                       /\ Sending(d)' = Sending(d)
  BY <1>5, <1>7 DEF Name, Live, Sending
<1>9. NoRevival
  BY <1>6, <1>8 DEF NoRevival
<1>10. AclTypes'
  BY <1>1, <1>7 DEF AclInv, AclTypes
<1>11. \A d \in Connections : Progress(d)'
  <2>1. \A d \in Connections \ {c} : Progress(d)'
    <3>1. begun' \in Nat /\ begun <= begun'
      BY <1>1 DEF id
    <3> QED BY <1>7, <3>1, OthersProgress
  <2>2. Progress(c)'
    <3>1. c \in DOMAIN partial => partial[c].body[1] # <<id, 1>>
      BY <1>6 DEF AclInv, PartialName
    <3>2. 0 \in 0..size /\ id \in 1..begun'
      BY <1>1, <1>3 DEF id
    <3> QED BY <1>7, <3>1, <3>2 DEF Progress, SentOf
  <2> QED BY <2>1, <2>2
<1>12. OwnNames'
  <2> SUFFICES ASSUME NEW d \in Connections, NEW e \in Connections,
                      d # e, Sending(d)', Sending(e)'
               PROVE  Name(d)' # Name(e)'
    BY DEF OwnNames
  <2>1. \A f \in Connections \ {c} : Sending(f)' => Name(f)' \in Names
    BY <1>8, SendingIsNamed
  <2>2. CASE d # c /\ e # c
    BY <1>8, <2>2 DEF AclInv, OwnNames
  <2> QED BY <1>6, <1>8, <2>1, <2>2
<1>13. \A d \in DOMAIN partial' : PartialName(d)'
  <2> SUFFICES ASSUME NEW d \in DOMAIN partial PROVE PartialName(d)'
    BY <1>7
  <2>1. PartialName(d)
    BY DEF AclInv
  <2>2. \A e \in Connections : Live(e)' /\ Name(e)' = partial[d].body[1] => e = d
    BY <1>6, <1>8, <2>1 DEF PartialName
  <2> QED BY <1>6, <1>7, <2>1, <2>2 DEF PartialName, Uncaptured
<1>14. CapturedNames' /\ YieldedNames' /\ InOrder'
  BY <1>7, <1>9, NothingYielded
<1> QED BY <1>10, <1>11, <1>12, <1>13, <1>14 DEF AclInv
-----------------------------------------------------------------------------
(***************************************************************************)
(* A record, told by the packet it belongs to: parts sent + 1 .. sent + n  *)
(* of the packet id of the given size.                                     *)
(***************************************************************************)
RecordOf(c, n, seen, id, size, sent) ==
  /\ sent + n <= size
  /\ sending[c] = [left |-> Run(id, sent, size), packet |-> Run(id, 0, size)]
  /\ sending' = [sending EXCEPT ![c] = [left |-> Run(id, sent + n, size),
                                         packet |-> Run(id, 0, size)]]
  /\ intact' = [intact EXCEPT ![c] = seen /\ intact[c]]
  /\ captured' = IF sent + n = size /\ seen /\ intact[c]
                   THEN Append(captured, Run(id, 0, size)) ELSE captured
  /\ begun' = begun
  /\ sent = 0 => /\ intact[c]
                 /\ c \in DOMAIN partial => partial[c].body[1] # <<id, 1>>
  /\ intact[c] /\ 0 < sent =>
       /\ c \in DOMAIN partial
       /\ partial[c] = [need |-> size, body |-> Run(id, 0, sent)]
  /\ ~seen => UNCHANGED <<partial, yielded>>
  /\ seen /\ sent = 0 => FirstFragment(c, size, Run(id, 0, n))
  /\ seen /\ sent # 0 => Continuation(c, Run(id, sent, sent + n))

LEMMA RecordIs ==
  ASSUME AclInv, NEW c \in Connections, NEW n \in 1..2, NEW seen \in BOOLEAN,
         Record(c, n, seen)
  PROVE  \E id \in 1..begun, size \in AclSizes : \E sent \in 0..size :
           RecordOf(c, n, seen, id, size, sent)
<1>1. n \in Nat \ {0} /\ n <= Len(sending[c].left) /\ c \in DOMAIN sending
  BY DEF Record, AclInv, AclTypes
<1>2. sending[c] # [left |-> <<>>, packet |-> <<>>]
  BY <1>1
<1>3. PICK id \in 1..begun, size \in AclSizes : \E sent \in 0..size : SentOf(c, id, size, sent)
  BY <1>2 DEF AclInv, Progress
<1>0. PICK sent \in 0..size : SentOf(c, id, size, sent)
  BY <1>3
<1>19. /\ sending[c].left = Run(id, sent, size)
       /\ sending[c].packet = Run(id, 0, size)
  BY <1>0 DEF SentOf
<1>4. id \in Nat /\ size \in Nat \ {0} /\ sent \in Nat /\ sent <= size
  BY AclAssumption DEF AclInv, AclTypes
<1>5. Len(sending[c].left) = size - sent
  <2>1. Len(Run(id, sent, size)) = size - sent
    BY <1>4, RunIs
  <2> QED BY <1>19, <2>1
<1>6. n \in 1..(size - sent) /\ sent + n <= size /\ sent < size
  BY <1>1, <1>4, <1>5
<1>7. SubSeq(sending[c].left, 1, n) = Run(id, sent, sent + n)
  <2>1. SubSeq(Run(id, sent, size), 1, n) = Run(id, sent, sent + n)
    BY <1>4, <1>6, RunHead
  <2> QED BY <1>19, <2>1
<1>8. SubSeq(sending[c].left, n + 1, Len(sending[c].left)) = Run(id, sent + n, size)
  <2>1. SubSeq(Run(id, sent, size), n + 1, size - sent) = Run(id, sent + n, size)
    BY <1>4, <1>6, RunTail
  <2> QED BY <1>5, <1>19, <2>1
<1>9. Len(sending[c].packet) = size
  BY <1>4, <1>19, WholeIs
<1>10. (sending[c].left = sending[c].packet) <=> sent = 0
  <2>1. sent # 0 => size - sent # size
    BY <1>4
  <2> QED BY <1>5, <1>9, <1>19, <2>1
<1>11. n = Len(sending[c].left) <=> sent + n = size
  BY <1>1, <1>4, <1>5
<1>12. sending' = [sending EXCEPT ![c] = [left |-> Run(id, sent + n, size),
                                          packet |-> Run(id, 0, size)]]
  <2>1. sending' = [sending EXCEPT ![c].left = SubSeq(@, n + 1, Len(@))]
    BY DEF Record
  <2>2. sending' = [sending EXCEPT ![c] =
                      [sending[c] EXCEPT !.left =
                         SubSeq(sending[c].left, n + 1, Len(sending[c].left))]]
    BY <2>1
  <2>3. sending[c] = [left |-> Run(id, sent, size), packet |-> Run(id, 0, size)]
    BY <1>0 DEF SentOf
  <2>4. [sending[c] EXCEPT !.left = Run(id, sent + n, size)]
          = [left |-> Run(id, sent + n, size), packet |-> Run(id, 0, size)]
    BY <2>3
  <2> QED BY <1>8, <2>2, <2>4
<1>13. intact' = [intact EXCEPT ![c] = seen /\ intact[c]]
  BY DEF Record
<1>14. captured' = IF sent + n = size /\ seen /\ intact[c]
                    THEN Append(captured, Run(id, 0, size)) ELSE captured
  BY <1>0, <1>11 DEF Record, SentOf
<1>15. /\ begun' = begun
       /\ ~seen => UNCHANGED <<partial, yielded>>
  BY DEF Record
<1>16. seen /\ sent = 0 => FirstFragment(c, size, Run(id, 0, n))
  <2>1. sent = 0 => sent + n = n
    BY <1>1
  <2> QED BY <1>7, <1>9, <1>10, <2>1 DEF Record, keyd
<1>17. seen /\ sent # 0 => Continuation(c, Run(id, sent, sent + n))
  BY <1>7, <1>10 DEF Record, keyd
<1>18. RecordOf(c, n, seen, id, size, sent)
  <2>1. intact[c] /\ 0 < sent => /\ c \in DOMAIN partial
                                 /\ partial[c] = [need |-> size, body |-> Run(id, 0, sent)]
    BY <1>0, <1>6 DEF SentOf
  <2> QED
    BY <1>0, <1>6, <1>12, <1>13, <1>14, <1>15, <1>16, <1>17, <2>1 DEF RecordOf, SentOf
<1> QED BY <1>18

\* What a record leaves, whatever is done with it.
Framed(c, n, seen, id, size, sent) ==
  /\ id \in Nat /\ size \in Nat \ {0} /\ sent + n \in 1..size /\ begun' = begun
  /\ DOMAIN sending' = Connections /\ intact' \in [Connections -> BOOLEAN]
  /\ sending'[c] = [left |-> Run(id, sent + n, size), packet |-> Run(id, 0, size)]
  /\ intact'[c] = (seen /\ intact[c])
  /\ \A d \in Connections \ {c} : sending'[d] = sending[d] /\ intact'[d] = intact[d]
  /\ Name(c) = <<id, 1>> /\ Sending(c) /\ Run(id, 0, size)[1] = <<id, 1>>
  /\ Names' = Names /\ NoRevival /\ OwnNames'
  /\ \A d \in Connections : Name(d)' = Name(d) /\ (Live(d)' => Live(d))

LEMMA RecordFrame ==
  ASSUME AclInv, NEW c \in Connections, NEW n \in 1..2, NEW seen \in BOOLEAN,
         NEW id \in 1..begun, NEW size \in AclSizes, NEW sent \in 0..size,
         RecordOf(c, n, seen, id, size, sent)
  PROVE  Framed(c, n, seen, id, size, sent)
<1>1. /\ id \in Nat /\ size \in Nat \ {0} /\ sent + n \in 1..size /\ begun' = begun
      /\ sent < size /\ sent \in Nat
  BY AclAssumption DEF RecordOf, AclInv, AclTypes
<1>2. /\ sending'[c] = [left |-> Run(id, sent + n, size), packet |-> Run(id, 0, size)]
      /\ sending[c] = [left |-> Run(id, sent, size), packet |-> Run(id, 0, size)]
      /\ DOMAIN sending' = Connections
      /\ \A d \in Connections \ {c} : sending'[d] = sending[d]
  BY DEF RecordOf, AclInv, AclTypes
<1>3. /\ intact' \in [Connections -> BOOLEAN] /\ intact'[c] = (seen /\ intact[c])
      /\ \A d \in Connections \ {c} : intact'[d] = intact[d]
  BY DEF RecordOf, AclInv, AclTypes
<1>4. Run(id, 0, size)[1] = <<id, 1>>
  BY <1>1, NameIs
<1>5. Run(id, sent, size) # <<>>
  BY <1>1, RunEmpty
<1>6. Name(c) = <<id, 1>> /\ Sending(c) /\ Name(c)' = Name(c)
  BY <1>2, <1>4, <1>5 DEF Name, Sending
<1>7. \A d \in Connections \ {c} : Name(d)' = Name(d) /\ Sending(d)' = Sending(d)
                                  /\ Live(d)' = Live(d)
  BY <1>2, <1>3 DEF Name, Sending, Live
<1>8. \A d \in Connections : Name(d)' = Name(d) /\ (Live(d)' => Live(d))
                            /\ (Sending(d)' => Sending(d))
  <2>1. Live(c)' => Live(c)
    BY <1>3, <1>6 DEF Live
  <2> QED BY <1>6, <1>7, <2>1
<1>9. Names' = Names
  BY <1>1 DEF Names
<1>10. NoRevival
  BY <1>8, <1>9 DEF NoRevival
<1>11. OwnNames'
  <2> SUFFICES ASSUME NEW d \in Connections, NEW e \in Connections,
                      d # e, Sending(d)', Sending(e)'
               PROVE  Name(d)' # Name(e)'
    BY DEF OwnNames
  <2> QED BY <1>8 DEF AclInv, OwnNames
<1> QED BY <1>1, <1>2, <1>3, <1>4, <1>6, <1>8, <1>9, <1>10, <1>11 DEF Framed

\* The step keeps the invariant, once it is known what it does to the connection's own
\* partial packet and to what is yielded and captured.
LEMMA RecordKeepsFrom ==
  ASSUME AclInv, NEW c \in Connections, NEW n \in 1..2, NEW seen \in BOOLEAN,
         NEW id \in 1..begun, NEW size \in AclSizes, NEW sent \in 0..size,
         RecordOf(c, n, seen, id, size, sent),
         \A d \in Connections \ {c} : d \in DOMAIN partial' <=> d \in DOMAIN partial,
         \A d \in DOMAIN partial \ {c} :
           /\ partial'[d] = partial[d]
           /\ \A i \in DOMAIN captured' : captured'[i][1] # partial[d].body[1],
         DOMAIN partial' \subseteq Connections,
         c \in DOMAIN partial' =>
           /\ partial'[c] \in [need : Nat, body : Seq(Part)]
           /\ Len(partial'[c].body) < partial'[c].need
           /\ PartialName(c)',
         seen /\ intact[c] /\ sent + n < size =>
           c \in DOMAIN partial' /\ partial'[c] = [need |-> size, body |-> Run(id, 0, sent + n)],
         yielded' \in Seq(Seq(Part)), captured' \in Seq(Seq(Part)),
         CapturedNames', YieldedNames', InOrder'
  PROVE  AclInv'
<1>1. /\ id \in Nat /\ size \in Nat \ {0} /\ sent + n \in 1..size /\ begun' = begun
      /\ DOMAIN sending' = Connections /\ intact' \in [Connections -> BOOLEAN]
      /\ sending'[c] = [left |-> Run(id, sent + n, size), packet |-> Run(id, 0, size)]
      /\ intact'[c] = (seen /\ intact[c])
      /\ \A d \in Connections \ {c} : sending'[d] = sending[d] /\ intact'[d] = intact[d]
      /\ Names' = Names /\ OwnNames'
      /\ \A d \in Connections : Name(d)' = Name(d) /\ (Live(d)' => Live(d))
  <2>1. Framed(c, n, seen, id, size, sent)
    BY RecordFrame, Zenon
  <2> QED BY ONLY <2>1 DEF Framed
<1>2. AclTypes'
  <2>1. /\ begun' \in 0..MaxAclPackets
        /\ \A d \in DOMAIN partial \ {c} : /\ partial[d] \in [need : Nat, body : Seq(Part)]
                                          /\ Len(partial[d].body) < partial[d].need
    BY <1>1 DEF AclInv, AclTypes
  <2>2. \A d \in DOMAIN partial' : /\ partial'[d] \in [need : Nat, body : Seq(Part)]
                                 /\ Len(partial'[d].body) < partial'[d].need
    <3> SUFFICES ASSUME NEW d \in DOMAIN partial'
                 PROVE  /\ partial'[d] \in [need : Nat, body : Seq(Part)]
                        /\ Len(partial'[d].body) < partial'[d].need
      OBVIOUS
    <3>1. CASE d = c
      BY <3>1
    <3>2. CASE d # c
      BY <2>1, <3>2
    <3> QED BY <3>1, <3>2
  <2> QED BY <1>1, <2>1, <2>2 DEF AclTypes
<1>3. \A d \in Connections : Progress(d)'
  <2>1. \A d \in Connections \ {c} : Progress(d)'
    <3>1. begun' \in Nat /\ begun <= begun'
      BY <1>1, AclAssumption DEF AclInv, AclTypes
    <3> QED BY <1>1, <3>1, OthersProgress
  <2>2. Progress(c)'
    <3>1. intact'[c] /\ sent + n < size =>
            c \in DOMAIN partial' /\ partial'[c] = [need |-> size, body |-> Run(id, 0, sent + n)]
      BY <1>1
    <3>2. sent + n \in 0..size /\ sent + n # 0 /\ id \in 1..begun'
      BY <1>1
    <3> QED BY <1>1, <3>1, <3>2 DEF Progress, SentOf
  <2> QED BY <2>1, <2>2
<1>4. \A d \in DOMAIN partial' : PartialName(d)'
  <2> SUFFICES ASSUME NEW d \in DOMAIN partial', d # c PROVE PartialName(d)'
    OBVIOUS
  <2>1. d \in DOMAIN partial /\ partial'[d] = partial[d]
    OBVIOUS
  <2>2. PartialName(d)
    BY <2>1 DEF AclInv
  <2>3. \A e \in Connections : Live(e)' /\ Name(e)' = partial[d].body[1] => e = d
    BY <1>1, <2>2 DEF PartialName
  <2> QED BY <1>1, <2>1, <2>2, <2>3 DEF PartialName, Uncaptured
<1> QED BY <1>1, <1>2, <1>3, <1>4 DEF AclInv

\* The last record of a packet that was captured as a whole, with what it makes the
\* reassembly yield.
LEMMA LastRecord ==
  ASSUME AclInv, NEW c \in Connections, NEW n \in 1..2, NEW seen \in BOOLEAN,
         NEW id \in 1..begun, NEW size \in AclSizes, NEW sent \in 0..size,
         RecordOf(c, n, seen, id, size, sent),
         seen, intact[c], sent + n = size, yielded' = Append(yielded, Run(id, 0, size))
  PROVE  /\ yielded' \in Seq(Seq(Part)) /\ captured' \in Seq(Seq(Part))
         /\ CapturedNames' /\ YieldedNames' /\ InOrder'
         /\ \A name : Uncaptured(name) /\ name # <<id, 1>>
                       => \A i \in DOMAIN captured' : captured'[i][1] # name
<1>1. Framed(c, n, seen, id, size, sent)
  BY RecordFrame, Zenon
<1>2. Run(id, 0, size) \in Seq(Part) /\ Run(id, 0, size) # <<>>
  BY <1>1, WholeIs, NameIs DEF Framed
<1>3. Live(c)
  BY <1>1 DEF Framed, Live
<1>4. ~Live(c)'
  <2>1. Run(id, size, size) = <<>>
    BY <1>1, RunEmpty DEF Framed
  <2> QED BY <1>1, <2>1 DEF Framed, Live, Sending
<1>5. captured' = Append(captured, Run(id, 0, size))
  BY DEF RecordOf
<1>6. /\ Names' = Names /\ Name(c) = <<id, 1>> /\ Run(id, 0, size)[1] = Name(c)
      /\ \A d \in Connections : Name(d)' = Name(d) /\ (Live(d)' => Live(d))
  BY <1>1 DEF Framed
<1>7. yielded' \in Seq(Seq(Part)) /\ captured' \in Seq(Seq(Part))
  BY <1>2, <1>5, AppendProperties DEF AclInv, AclTypes
<1>8. /\ CapturedNames' /\ YieldedNames' /\ InOrder'
      /\ \A name : Uncaptured(name) /\ name # Name(c)
                    => \A i \in DOMAIN captured' : captured'[i][1] # name
  BY <1>2, <1>3, <1>4, <1>5, <1>6, PacketCaptured
<1> QED BY <1>6, <1>7, <1>8

\* A record that is missed, or of which nothing is kept.
LEMMA RecordLost ==
  ASSUME AclInv, NEW c \in Connections, NEW n \in 1..2, NEW seen \in BOOLEAN,
         NEW id \in 1..begun, NEW size \in AclSizes, NEW sent \in 0..size,
         RecordOf(c, n, seen, id, size, sent),
         ~(seen /\ intact[c]), UNCHANGED <<partial, yielded>>
  PROVE  AclInv'
<1>1. Framed(c, n, seen, id, size, sent)
  BY RecordFrame, Zenon
<1>2. captured' = captured
  BY DEF RecordOf
<1>3. NoRevival /\ Names' = Names /\ \A d \in Connections : Name(d)' = Name(d) /\ (Live(d)' => Live(d))
  BY <1>1 DEF Framed
<1>4. CapturedNames' /\ YieldedNames' /\ InOrder'
  BY <1>2, <1>3, NothingYielded
<1>5. \A d \in DOMAIN partial \ {c} :
        /\ partial'[d] = partial[d]
        /\ \A i \in DOMAIN captured' : captured'[i][1] # partial[d].body[1]
  BY <1>2 DEF AclInv, PartialName, Uncaptured
<1>6. c \in DOMAIN partial' =>
        /\ partial'[c] \in [need : Nat, body : Seq(Part)]
        /\ Len(partial'[c].body) < partial'[c].need
        /\ PartialName(c)'
  <2> SUFFICES ASSUME c \in DOMAIN partial
               PROVE  /\ partial[c] \in [need : Nat, body : Seq(Part)]
                      /\ Len(partial[c].body) < partial[c].need
                      /\ PartialName(c)'
    OBVIOUS
  <2>1. PartialName(c)
    BY DEF AclInv
  <2>2. \A d \in Connections : Live(d)' /\ Name(d)' = partial[c].body[1] => d = c
    BY <1>3, <2>1 DEF PartialName
  <2>3. PartialName(c)'
    BY <1>2, <1>3, <2>1, <2>2 DEF PartialName, Uncaptured
  <2>4. AclTypes
    BY DEF AclInv
  <2>5. /\ partial[c] \in [need : Nat, body : Seq(Part)]
        /\ Len(partial[c].body) < partial[c].need
    BY <2>4 DEF AclTypes
  <2> QED BY <2>3, <2>5
<1>7. yielded' \in Seq(Seq(Part)) /\ captured' \in Seq(Seq(Part)) /\ DOMAIN partial' \subseteq Connections
  BY <1>2 DEF AclInv, AclTypes
<1>8. /\ \A d \in Connections \ {c} : d \in DOMAIN partial' <=> d \in DOMAIN partial
      /\ DOMAIN partial' \subseteq Connections
  BY <1>2, <1>7
<1>9. seen /\ intact[c] /\ sent + n < size =>
        c \in DOMAIN partial' /\ partial'[c] = [need |-> size, body |-> Run(id, 0, sent + n)]
  OBVIOUS
<1> QED BY <1>4, <1>5, <1>6, <1>7, <1>8, <1>9, RecordKeepsFrom, SMTT(30)

LEMMA FirstKeeps ==
  ASSUME AclInv, NEW c \in Connections, NEW n \in 1..2, NEW seen \in BOOLEAN,
         NEW id \in 1..begun, NEW size \in AclSizes, NEW sent \in 0..size,
         RecordOf(c, n, seen, id, size, sent),
         seen, sent = 0
  PROVE  AclInv'
<1>1. Framed(c, n, seen, id, size, sent)
  BY RecordFrame, Zenon
<1>2. /\ id \in Nat /\ size \in Nat \ {0} /\ n \in 1..size /\ sent + n = n
      /\ Name(c) = <<id, 1>> /\ Sending(c)
      /\ Names' = Names /\ NoRevival
      /\ \A d \in Connections : Name(d)' = Name(d) /\ (Live(d)' => Live(d))
  BY <1>1 DEF Framed
<1>3. intact[c] /\ (c \in DOMAIN partial => partial[c].body[1] # <<id, 1>>)
  BY DEF RecordOf
<1>4. Live(c)
  BY <1>2, <1>3 DEF Live
<1>5. \A d \in DOMAIN partial \ {c} : Uncaptured(partial[d].body[1]) /\ partial[d].body[1] # <<id, 1>>
  BY <1>2, <1>4 DEF AclInv, AclTypes, PartialName
<1>6. FirstFragment(c, size, Run(id, 0, n))
  BY DEF RecordOf
<1>7. Run(id, 0, n) \in Seq(Part) /\ Len(Run(id, 0, n)) = n
  <2>1. n \in Nat
    OBVIOUS
  <2> QED BY <1>2, <2>1, WholeIs
<1>8. CASE n = size
  <2>1. SubSeq(Run(id, 0, size), 1, size) = Run(id, 0, size)
    <3>1. size - 0 = size /\ 0 + size = size /\ size \in 1..size
      BY <1>2
    <3>2. SubSeq(Run(id, 0, size), 1, size) = Run(id, 0, 0 + size)
      BY <1>2, <3>1, RunHead
    <3> QED BY <3>1, <3>2
  <2>2. yielded' = Append(yielded, Run(id, 0, size)) /\ partial' = partial
    BY <1>2, <1>6, <1>7, <1>8, <2>1 DEF FirstFragment
  <2>3. /\ yielded' \in Seq(Seq(Part)) /\ captured' \in Seq(Seq(Part))
        /\ CapturedNames' /\ YieldedNames' /\ InOrder'
        /\ \A name : Uncaptured(name) /\ name # <<id, 1>>
                      => \A i \in DOMAIN captured' : captured'[i][1] # name
    BY <1>2, <1>3, <1>8, <2>2, LastRecord
  <2>4. \A d \in DOMAIN partial \ {c} :
          /\ partial'[d] = partial[d]
          /\ \A i \in DOMAIN captured' : captured'[i][1] # partial[d].body[1]
    BY <1>5, <2>2, <2>3
  <2>5. c \in DOMAIN partial' =>
          /\ partial'[c] \in [need : Nat, body : Seq(Part)]
          /\ Len(partial'[c].body) < partial'[c].need
          /\ PartialName(c)'
    <3> SUFFICES ASSUME c \in DOMAIN partial
                 PROVE  /\ partial[c] \in [need : Nat, body : Seq(Part)]
                        /\ Len(partial[c].body) < partial[c].need
                        /\ PartialName(c)'
      BY <2>2
    <3>1. PartialName(c)
      BY DEF AclInv
    <3>2. \A d \in Connections : Live(d)' /\ Name(d)' = partial[c].body[1] => d = c
      BY <1>2, <3>1 DEF PartialName
    <3>3. \A i \in DOMAIN captured' : captured'[i][1] # partial[c].body[1]
      BY <1>3, <2>3, <3>1 DEF PartialName
    <3>4. PartialName(c)'
      BY <1>2, <2>2, <3>1, <3>2, <3>3 DEF PartialName, Uncaptured
    <3> QED BY <3>4 DEF AclInv, AclTypes
  <2>6. DOMAIN partial' \subseteq Connections /\ ~(sent + n < size)
    BY <1>2, <1>8, <2>2 DEF AclInv, AclTypes
  <2>7. \A d \in Connections \ {c} : d \in DOMAIN partial' <=> d \in DOMAIN partial
    BY <2>2
  <2> QED BY <2>3, <2>4, <2>5, <2>6, <2>7, RecordKeepsFrom
<1>9. CASE n < size
  <2>1. yielded' = yielded /\ partial' = With(partial, c, [need |-> size, body |-> Run(id, 0, n)])
    BY <1>2, <1>6, <1>7, <1>9 DEF FirstFragment
  <2>2. /\ DOMAIN partial' = DOMAIN partial \cup {c}
        /\ partial'[c] = [need |-> size, body |-> Run(id, 0, n)]
        /\ \A d \in DOMAIN partial \ {c} : partial'[d] = partial[d]
    BY <2>1 DEF With
  <2>3. captured' = captured
    BY <1>2, <1>9 DEF RecordOf
  <2>4. CapturedNames' /\ YieldedNames' /\ InOrder'
    BY <1>2, <2>1, <2>3, NothingYielded
  <2>5. /\ partial'[c] \in [need : Nat, body : Seq(Part)]
        /\ Len(partial'[c].body) < partial'[c].need
    BY <1>2, <1>7, <1>9, <2>2
  <2>6. PartialName(c)'
    <3>1. partial'[c].body # <<>> /\ partial'[c].body[1] = <<id, 1>>
      BY <1>2, <2>2, NameIs
    <3>2. <<id, 1>> \in Names /\ Uncaptured(<<id, 1>>)
      <4>1. Name(c) \in Names
        BY <1>2, SendingIsNamed
      <4>2. Uncaptured(Name(c))
        BY <1>4 DEF AclInv, CapturedNames, Uncaptured
      <4> QED BY <1>2, <4>1, <4>2
    <3>3. \A d \in Connections : Live(d)' /\ Name(d)' = <<id, 1>> => d = c
      BY <1>2 DEF AclInv, OwnNames, Live
    <3> QED BY <1>2, <2>3, <3>1, <3>2, <3>3 DEF PartialName, Uncaptured
  <2>7. \A d \in DOMAIN partial \ {c} :
          /\ partial'[d] = partial[d]
          /\ \A i \in DOMAIN captured' : captured'[i][1] # partial[d].body[1]
    BY <1>5, <2>2, <2>3 DEF Uncaptured
  <2>8. yielded' \in Seq(Seq(Part)) /\ captured' \in Seq(Seq(Part)) /\ DOMAIN partial' \subseteq Connections
    BY <2>1, <2>2, <2>3 DEF AclInv, AclTypes
  <2>9. c \in DOMAIN partial' /\ partial'[c] = [need |-> size, body |-> Run(id, 0, sent + n)]
    BY <1>2, <2>2
  <2>10. \A d \in Connections \ {c} : d \in DOMAIN partial' <=> d \in DOMAIN partial
    BY <2>2
  <2> QED BY <2>4, <2>5, <2>6, <2>7, <2>8, <2>9, <2>10, RecordKeepsFrom
<1> QED BY <1>2, <1>8, <1>9

\* A continuation of a packet of which every record so far was captured.
LEMMA ContinuationKeeps ==
  ASSUME AclInv, NEW c \in Connections, NEW n \in 1..2, NEW seen \in BOOLEAN,
         NEW id \in 1..begun, NEW size \in AclSizes, NEW sent \in 0..size,
         RecordOf(c, n, seen, id, size, sent),
         seen, sent # 0, intact[c]
  PROVE  AclInv'
<1>1. Framed(c, n, seen, id, size, sent)
  BY RecordFrame, Zenon
<1>2. /\ id \in Nat /\ size \in Nat \ {0} /\ sent + n \in 1..size /\ sent \in Nat \ {0}
      /\ Name(c) = <<id, 1>> /\ Sending(c)
      /\ Names' = Names /\ NoRevival
      /\ \A d \in Connections : Name(d)' = Name(d) /\ (Live(d)' => Live(d))
  BY <1>1 DEF Framed
<1>3. c \in DOMAIN partial /\ partial[c] = [need |-> size, body |-> Run(id, 0, sent)]
  BY <1>2 DEF RecordOf
<1>4. Live(c)
  BY <1>2 DEF Live
<1>5. \A d \in DOMAIN partial \ {c} : Uncaptured(partial[d].body[1]) /\ partial[d].body[1] # <<id, 1>>
  BY <1>2, <1>4 DEF AclInv, AclTypes, PartialName
<1>6. Continuation(c, Run(id, sent, sent + n))
  BY DEF RecordOf
<1>7. Run(id, 0, sent) \o Run(id, sent, sent + n) = Run(id, 0, sent + n)
  <2>1. sent + n \in Nat /\ sent <= sent + n
    BY <1>2
  <2> QED BY <1>2, <2>1, RunJoin
<1>8. Run(id, 0, sent + n) \in Seq(Part) /\ Len(Run(id, 0, sent + n)) = sent + n
  <2>1. sent + n \in Nat
    BY <1>2
  <2> QED BY <1>2, <2>1, WholeIs
<1>11. partial[c].body \o Run(id, sent, sent + n) = Run(id, 0, sent + n) /\ partial[c].need = size
  <2>1. partial[c].body = Run(id, 0, sent) /\ partial[c].need = size
    BY <1>3
  <2> QED BY <1>7, <2>1
<1>12. \/ /\ sent + n >= size
          /\ yielded' = Append(yielded, SubSeq(Run(id, 0, sent + n), 1, size))
          /\ partial' = Without(partial, c)
       \/ /\ ~(sent + n >= size)
          /\ yielded' = yielded /\ partial' = [partial EXCEPT ![c].body = Run(id, 0, sent + n)]
  <2> DEFINE have == partial[c].body \o Run(id, sent, sent + n)
             need == partial[c].need
  <2>1. \/ /\ Len(have) >= need
           /\ yielded' = Append(yielded, SubSeq(have, 1, need)) /\ partial' = Without(partial, c)
        \/ /\ ~(Len(have) >= need)
           /\ yielded' = yielded /\ partial' = [partial EXCEPT ![c].body = have]
    BY <1>3, <1>6 DEF Continuation
  <2>2. have = Run(id, 0, sent + n) /\ need = size /\ Len(have) = sent + n
    BY <1>8, <1>11
  <2> HIDE DEF have, need
  <2> QED BY <2>1, <2>2
<1>9. CASE sent + n = size
  <2>1. SubSeq(Run(id, 0, size), 1, size) = Run(id, 0, size)
    <3>1. size - 0 = size /\ 0 + size = size /\ size \in 1..size
      BY <1>2
    <3>2. SubSeq(Run(id, 0, size), 1, size) = Run(id, 0, 0 + size)
      BY <1>2, <3>1, RunHead
    <3> QED BY <3>1, <3>2
  <2>2. yielded' = Append(yielded, Run(id, 0, size)) /\ partial' = Without(partial, c)
    <3>1. sent + n >= size
      BY <1>2, <1>9
    <3>2. Run(id, 0, sent + n) = Run(id, 0, size)
      BY <1>9
    <3>3. yielded' = Append(yielded, SubSeq(Run(id, 0, size), 1, size)) /\ partial' = Without(partial, c)
      BY <1>12, <3>1, <3>2, Zenon
    <3> QED BY <2>1, <3>3
  <2>3. /\ yielded' \in Seq(Seq(Part)) /\ captured' \in Seq(Seq(Part))
        /\ CapturedNames' /\ YieldedNames' /\ InOrder'
        /\ \A name : Uncaptured(name) /\ name # <<id, 1>>
                      => \A i \in DOMAIN captured' : captured'[i][1] # name
    BY <1>9, <2>2, LastRecord
  <2>4. /\ DOMAIN partial' = DOMAIN partial \ {c}
        /\ \A d \in DOMAIN partial \ {c} : partial'[d] = partial[d]
    BY <2>2 DEF Without
  <2>5. \A d \in DOMAIN partial \ {c} :
          /\ partial'[d] = partial[d]
          /\ \A i \in DOMAIN captured' : captured'[i][1] # partial[d].body[1]
    BY <1>5, <2>3, <2>4
  <2>6. DOMAIN partial' \subseteq Connections /\ c \notin DOMAIN partial' /\ ~(sent + n < size)
    BY <1>2, <1>9, <2>4 DEF AclInv, AclTypes
  <2>7. \A d \in Connections \ {c} : d \in DOMAIN partial' <=> d \in DOMAIN partial
    BY <2>4
  <2> QED BY <2>3, <2>5, <2>6, <2>7, RecordKeepsFrom
<1>10. CASE sent + n # size
  <2>0. sent + n < size
    BY <1>2, <1>10
  <2>1. yielded' = yielded /\ partial' = [partial EXCEPT ![c].body = Run(id, 0, sent + n)]
    BY <1>2, <1>12, <2>0
  <2>2. /\ DOMAIN partial' = DOMAIN partial
        /\ partial'[c] = [need |-> size, body |-> Run(id, 0, sent + n)]
        /\ \A d \in DOMAIN partial \ {c} : partial'[d] = partial[d]
    <3>1. partial'[c] = [partial[c] EXCEPT !.body = Run(id, 0, sent + n)]
      BY <1>3, <2>1
    <3>2. partial'[c] = [need |-> size, body |-> Run(id, 0, sent + n)]
      BY <1>3, <3>1
    <3> QED BY <2>1, <3>2
  <2>3. captured' = captured
    BY <2>0 DEF RecordOf
  <2>4. CapturedNames' /\ YieldedNames' /\ InOrder'
    BY <1>2, <2>1, <2>3, NothingYielded
  <2>5. /\ partial'[c] \in [need : Nat, body : Seq(Part)]
        /\ Len(partial'[c].body) < partial'[c].need
    BY <1>2, <1>8, <2>0, <2>2
  <2>6. PartialName(c)'
    <3>1. partial'[c].body # <<>> /\ partial'[c].body[1] = <<id, 1>>
      BY <1>2, <2>2, NameIs
    <3>2. <<id, 1>> \in Names /\ Uncaptured(<<id, 1>>)
      <4>1. Name(c) \in Names
        BY <1>2, SendingIsNamed
      <4>2. Uncaptured(Name(c))
        BY <1>4 DEF AclInv, CapturedNames, Uncaptured
      <4> QED BY <1>2, <4>1, <4>2
    <3>3. \A d \in Connections : Live(d)' /\ Name(d)' = <<id, 1>> => d = c
      BY <1>2 DEF AclInv, OwnNames, Live
    <3> QED BY <1>2, <2>3, <3>1, <3>2, <3>3 DEF PartialName, Uncaptured
  <2>7. \A d \in DOMAIN partial \ {c} :
          /\ partial'[d] = partial[d]
          /\ \A i \in DOMAIN captured' : captured'[i][1] # partial[d].body[1]
    BY <1>5, <2>2, <2>3 DEF Uncaptured
  <2>8. yielded' \in Seq(Seq(Part)) /\ captured' \in Seq(Seq(Part)) /\ DOMAIN partial' \subseteq Connections
    BY <2>1, <2>2, <2>3 DEF AclInv, AclTypes
  <2>9. c \in DOMAIN partial'
    BY <1>3, <2>2
  <2>10. \A d \in Connections \ {c} : d \in DOMAIN partial' <=> d \in DOMAIN partial
    BY <2>2
  <2> QED BY <2>2, <2>4, <2>5, <2>6, <2>7, <2>8, <2>9, <2>10, RecordKeepsFrom
<1> QED BY <1>9, <1>10

\* A continuation that is put behind the remains of another packet, or of its own.
LEMMA StaleContinuationKeeps ==
  ASSUME AclInv, NEW c \in Connections, NEW n \in 1..2, NEW seen \in BOOLEAN,
         NEW id \in 1..begun, NEW size \in AclSizes, NEW sent \in 0..size,
         RecordOf(c, n, seen, id, size, sent),
         seen, sent # 0, ~intact[c], c \in DOMAIN partial
  PROVE  AclInv'
<1>1. Framed(c, n, seen, id, size, sent)
  BY RecordFrame, Zenon
<1>2. /\ id \in Nat /\ size \in Nat \ {0} /\ sent + n \in 1..size /\ sent \in Nat
      /\ Names' = Names /\ NoRevival /\ ~Live(c)'
      /\ \A d \in Connections : Name(d)' = Name(d) /\ (Live(d)' => Live(d))
  BY <1>1 DEF Framed, Live
<1> DEFINE body == partial[c].body
           need == partial[c].need
           more == Run(id, sent, sent + n)
           have == body \o more
<1>3. /\ body \in Seq(Part) /\ need \in Nat /\ Len(body) < need
      /\ partial[c] \in [need : Nat, body : Seq(Part)]
      /\ body # <<>> /\ body[1] \in Names /\ Uncaptured(body[1])
      /\ \A d \in Connections : Live(d) /\ Name(d) = body[1] => d = c
  BY DEF AclInv, AclTypes, PartialName
<1>4. more \in Seq(Part)
  <2>1. sent + n \in Nat /\ sent <= sent + n
    BY <1>2
  <2> QED BY <1>2, <2>1, RunIs
<1>5. Continuation(c, more)
  BY DEF RecordOf
<1>6. captured' = captured
  BY DEF RecordOf
<1>7. \A d \in DOMAIN partial \ {c} : \A i \in DOMAIN captured' : captured'[i][1] # partial[d].body[1]
  BY <1>6 DEF AclInv, PartialName, Uncaptured
<1>8. \/ /\ Len(have) >= need
         /\ yielded' = Append(yielded, SubSeq(have, 1, need)) /\ partial' = Without(partial, c)
      \/ /\ ~(Len(have) >= need)
         /\ yielded' = yielded /\ partial' = [partial EXCEPT ![c].body = have]
  BY <1>5 DEF Continuation
<1> HIDE DEF more
<1>9. have \in Seq(Part) /\ Len(body) \in Nat \ {0} /\ have[1] = body[1] /\ Len(have) \in Nat /\ have # <<>>
  <2> HIDE DEF body
  <2>1. Len(body) \in Nat /\ Len(body) # 0 /\ Len(more) \in Nat
    BY <1>3, <1>4, LenProperties, EmptySeq
  <2>2. /\ have \in Seq(Part) /\ Len(have) = Len(body) + Len(more)
        /\ \A i \in 1..Len(body) + Len(more) :
             have[i] = IF i <= Len(body) THEN body[i] ELSE more[i - Len(body)]
    BY <1>3, <1>4, ConcatProperties
  <2>3. 1 \in 1..Len(body) + Len(more) /\ 1 <= Len(body)
    BY <2>1
  <2> HIDE DEF have
  <2>4. have # <<>>
    BY <2>1, <2>2
  <2> QED BY <2>1, <2>2, <2>3, <2>4
<1> HIDE DEF have, body, need
<1>10. CASE /\ Len(have) >= need
            /\ yielded' = Append(yielded, SubSeq(have, 1, need)) /\ partial' = Without(partial, c)
  <2>0. PICK payload : payload = SubSeq(have, 1, need)
    OBVIOUS
  <2>1. payload \in Seq(Part) /\ payload # <<>> /\ payload[1] = body[1]
    <3>1. \A i \in 1..need : have[i] \in Part
      <4>1. \A i \in 1..need : i \in 1..Len(have)
        BY <1>3, <1>9, <1>10
      <4> QED BY <1>9, <4>1, ElementOfSeq
    <3>2. 1 \in Int /\ need \in Int /\ 1 <= need
      BY <1>3, <1>9
    <3>3. /\ payload \in Seq(Part)
          /\ Len(payload) = IF 1 <= need THEN need - 1 + 1 ELSE 0
          /\ \A i \in 1..(need - 1 + 1) : payload[i] = have[1 + i - 1]
      BY <2>0, <3>1, <3>2, SubSeqProperties
    <3>4. Len(payload) = need /\ \A i \in 1..need : payload[i] = have[i]
      BY <1>3, <3>2, <3>3
    <3>5. payload # <<>> /\ 1 \in 1..need
      BY <1>3, <3>2, <3>4
    <3> QED BY <1>9, <3>3, <3>4, <3>5
  <2>2. yielded' = Append(yielded, payload)
    BY <1>10, <2>0
  <2>3. Doomed(payload[1])'
    <3>1. \A d \in Connections : Live(d)' => Name(d)' # body[1]
      BY <1>2, <1>3
    <3> QED BY <1>3, <1>6, <2>1, <3>1 DEF Doomed, Uncaptured
  <2>4. payload[1] \in Names
    BY <1>3, <2>1
  <2>5. CapturedNames' /\ YieldedNames' /\ InOrder'
    BY <1>2, <1>6, <2>1, <2>2, <2>3, <2>4, SpoiltYielded
  <2>6. /\ DOMAIN partial' = DOMAIN partial \ {c}
        /\ \A d \in DOMAIN partial \ {c} : partial'[d] = partial[d]
    BY <1>10 DEF Without
  <2>7. yielded' \in Seq(Seq(Part)) /\ captured' \in Seq(Seq(Part))
    BY <1>6, <2>1, <2>2, AppendProperties DEF AclInv, AclTypes
  <2>8. DOMAIN partial' \subseteq Connections /\ c \notin DOMAIN partial'
    BY <2>6 DEF AclInv, AclTypes
  <2>9. \A d \in Connections \ {c} : d \in DOMAIN partial' <=> d \in DOMAIN partial
    BY <2>6
  <2>10. \A d \in DOMAIN partial \ {c} :
           /\ partial'[d] = partial[d]
           /\ \A i \in DOMAIN captured' : captured'[i][1] # partial[d].body[1]
    BY <1>7, <2>6
  <2> QED BY <2>5, <2>7, <2>8, <2>9, <2>10, RecordKeepsFrom
<1>11. CASE /\ ~(Len(have) >= need)
            /\ yielded' = yielded /\ partial' = [partial EXCEPT ![c].body = have]
  <2>1. /\ DOMAIN partial' = DOMAIN partial
        /\ partial'[c] = [partial[c] EXCEPT !.body = have]
        /\ \A d \in DOMAIN partial \ {c} : partial'[d] = partial[d]
    BY <1>11
  <2>2. partial'[c] \in [need : Nat, body : Seq(Part)] /\ partial'[c].need = need /\ partial'[c].body = have
    BY <1>3, <1>9, <2>1 DEF need
  <2>3. Len(partial'[c].body) < partial'[c].need
    BY <1>3, <1>9, <1>11, <2>2
  <2>4. PartialName(c)'
    <3>1. \A d \in Connections : Live(d)' /\ Name(d)' = body[1] => d = c
      BY <1>2, <1>3
    <3> QED BY <1>2, <1>3, <1>6, <1>9, <2>2, <3>1 DEF PartialName, Uncaptured
  <2>5. CapturedNames' /\ YieldedNames' /\ InOrder'
    BY <1>2, <1>6, <1>11, NothingYielded
  <2>6. yielded' \in Seq(Seq(Part)) /\ captured' \in Seq(Seq(Part)) /\ DOMAIN partial' \subseteq Connections
    BY <1>6, <1>11, <2>1 DEF AclInv, AclTypes
  <2>7. \A d \in Connections \ {c} : d \in DOMAIN partial' <=> d \in DOMAIN partial
    BY <2>1
  <2>8. \A d \in DOMAIN partial \ {c} :
          /\ partial'[d] = partial[d]
          /\ \A i \in DOMAIN captured' : captured'[i][1] # partial[d].body[1]
    BY <1>7, <2>1
  <2> QED BY <2>2, <2>3, <2>4, <2>5, <2>6, <2>7, <2>8, RecordKeepsFrom
<1> QED BY <1>8, <1>10, <1>11

LEMMA RecordKeeps ==
  ASSUME AclInv, NEW c \in Connections, NEW n \in 1..2, NEW seen \in BOOLEAN,
         Record(c, n, seen)
  PROVE  AclInv'
<1>1. PICK id \in 1..begun, size \in AclSizes : \E sent \in 0..size :
        RecordOf(c, n, seen, id, size, sent)
  BY RecordIs
<1>2. PICK sent \in 0..size : RecordOf(c, n, seen, id, size, sent)
  BY <1>1
<1>3. intact[c] \in BOOLEAN
  BY DEF AclInv, AclTypes
<1>4. CASE ~seen
  <2>1. UNCHANGED <<partial, yielded>>
    BY <1>2, <1>4 DEF RecordOf
  <2> QED BY <1>2, <1>4, <2>1, RecordLost
<1>5. CASE seen /\ sent = 0
  BY <1>2, <1>5, FirstKeeps
<1>6. CASE seen /\ sent # 0 /\ intact[c]
  BY <1>2, <1>6, ContinuationKeeps
<1>7. CASE seen /\ sent # 0 /\ ~intact[c] /\ c \in DOMAIN partial
  BY <1>2, <1>7, StaleContinuationKeeps
<1>8. CASE seen /\ sent # 0 /\ ~intact[c] /\ c \notin DOMAIN partial
  <2>1. UNCHANGED <<partial, yielded>>
    BY <1>2, <1>8 DEF RecordOf, Continuation
  <2> QED BY <1>2, <1>8, <2>1, RecordLost
<1> QED BY <1>3, <1>4, <1>5, <1>6, <1>7, <1>8

LEMMA AclStutter == AclInv /\ UNCHANGED aclVars => AclInv'
<1> SUFFICES ASSUME AclInv, UNCHANGED aclVars PROVE AclInv'
  OBVIOUS
<1>1. /\ begun' = begun /\ sending' = sending /\ intact' = intact /\ partial' = partial
      /\ yielded' = yielded /\ captured' = captured
  BY DEF aclVars
<1> QED
  BY <1>1 DEF AclInv, AclTypes, Progress, SentOf, OwnNames, PartialName, CapturedNames,
     YieldedNames, InOrder, Names, Name, Live, Sending, Doomed, Uncaptured

\* A packet of which every record was captured is yielded whole and once, in the order in
\* which packets end, whatever was missed of other packets on any connection
\* (_reassemble_acl).
THEOREM CapturedComesThrough == AclSpec => []CapturedIsYielded
<1>1. AclInit => AclInv
  BY AclInitInv
<1>2. AclInv /\ [AclNext]_aclVars => AclInv'
  <2>1. ASSUME AclInv, AclNext PROVE AclInv'
    <3>1. PICK c \in Connections :
            PacketBegins(c) \/ \E n \in 1..2, seen \in BOOLEAN : Record(c, n, seen)
      BY <2>1 DEF AclNext
    <3>2. CASE PacketBegins(c)
      BY <2>1, <3>2, PacketBeginsKeeps
    <3>3. CASE \E n \in 1..2, seen \in BOOLEAN : Record(c, n, seen)
      BY <2>1, <3>3, RecordKeeps
    <3> QED BY <3>1, <3>2, <3>3
  <2> QED BY <2>1, AclStutter
<1>3. AclInv => CapturedIsYielded
  <2> SUFFICES ASSUME AclInv PROVE CapturedIsYielded
    OBVIOUS
  <2>1. Range(captured) \subseteq Range(yielded)
    BY DEF AclInv, CapturedNames, Range
  <2> QED BY <2>1 DEF AclInv, InOrder, CapturedIsYielded
<1> QED BY <1>1, <1>2, <1>3, PTL DEF AclSpec
=============================================================================
