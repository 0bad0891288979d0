------------------------ MODULE GuidedHarnessProofs ------------------------
(***************************************************************************)
(* Theorems about GuidedHarness, for any number of sessions, hypotheses,   *)
(* windows and packets.  The invariant ties each one-shot's count to the   *)
(* flag that guards it, every waiting timer to the handle, and a thread    *)
(* that is about to assign the session id to the announcement that it made *)
(* in this window, unless the window was armed in between.  TInv adds, for *)
(* the types, that packets in hand and packets recorded are no more than   *)
(* were received.                                                          *)
(***************************************************************************)
EXTENDS GuidedHarness, FiniteSetTheorems, TLAPS

Phases == {"mfi_status_acked", "mfi_auth_reloop", "ei_mode", "av_inbound_dial"}

HarnessFields ==
  [current : Hypotheses, window_id : Windows, phases : SUBSET Phases, postauth : Nat,
   ea_protocols : {"none", "hondalink", "other"}, ea_opened : BOOLEAN,
   ea_session_id : BOOLEAN, dp_kicked : BOOLEAN, dp_b2_sent : BOOLEAN,
   av_out_started : BOOLEAN, stall_reported : BOOLEAN,
   silence_timer : Windows \cup {NoTimer}, head_unit_bdaddr : BOOLEAN]

Counts == [announce : Nat, kick : Nat, b2 : Nat, dial : Nat, report : Nat]

Types ==
  /\ harness \in HarnessFields
  /\ taken \in Counts
  /\ ticking \in [Windows -> Nat]
  /\ pc \in [Sessions -> Labels]

Once(count, flag) == count \in {0, 1} /\ (count = 1 => flag)

Shots ==
  /\ Once(taken.announce, harness.ea_opened)
  /\ Once(taken.kick, harness.dp_kicked)
  /\ Once(taken.b2, harness.dp_b2_sent)
  /\ Once(taken.dial, harness.av_out_started)
  /\ Once(taken.report, harness.stall_reported)

\* The app of this window was announced, or a thread was overtaken on the way.
Announced == taken.announce = 1 \/ overtaken

Assignments ==
  /\ \A s \in Sessions : pc[s] = "assign" => Announced
  /\ harness.ea_session_id => Announced
  /\ taken.kick = 1 \/ taken.b2 = 1 => Announced

IInv == Types /\ Shots /\ NoOrphanTimer /\ Assignments

-----------------------------------------------------------------------------
\* A step that takes a thread anywhere but to "assign" leaves none there that was not.
LEMMA GotoElsewhere ==
  ASSUME Types, NEW s \in Sessions, NEW label \in Labels \ {"assign"}, Goto(s, label)
  PROVE  /\ pc' \in [Sessions -> Labels]
         /\ \A t \in Sessions : pc'[t] = "assign" => pc[t] = "assign"
BY DEF Types, Goto

\* After cancel() no timer waits.
LEMMA CancelClears ==
  ASSUME Types, NoOrphanTimer
  PROVE  /\ TickingAfterCancel \in [Windows -> Nat]
         /\ \A w \in Windows : TickingAfterCancel[w] = 0
<1>1. /\ harness.silence_timer \in Windows \cup {NoTimer}
      /\ ticking \in [Windows -> Nat]
  BY DEF Types, HarnessFields
<1>2. \A w \in Windows : ticking[w] \in {0, 1}
  BY <1>1 DEF NoOrphanTimer
<1>3. NoTimer \notin Windows
  BY BoundsAssumption DEF NoTimer, Windows
<1> QED BY <1>1, <1>2, <1>3 DEF TickingAfterCancel, NoOrphanTimer

\* What arm() leaves has nothing taken, no timer and no session.
LEMMA NothingTaken ==
  /\ NewTaken.announce = 0 /\ NewTaken.kick = 0 /\ NewTaken.b2 = 0
  /\ NewTaken.dial = 0 /\ NewTaken.report = 0
BY DEF NewTaken

LEMMA NewWindowFresh ==
  ASSUME NEW h \in Hypotheses, NEW w \in Windows, NEW known \in BOOLEAN
  PROVE  /\ NewWindow(h, w, known) \in HarnessFields
         /\ NewWindow(h, w, known).ea_session_id = FALSE
         /\ NewTaken \in Counts
BY DEF NewWindow, NewTaken, HarnessFields, Counts, Phases

-----------------------------------------------------------------------------
LEMMA InitIInv == Init => IInv
<1> SUFFICES ASSUME Init PROVE IInv
  OBVIOUS
<1>1. 0 \in Windows
  BY BoundsAssumption DEF Windows
<1>2. FirstArmed \in Hypotheses
  BY HypothesesAssumption
<1>3. Types
  BY <1>1, <1>2, NewWindowFresh DEF Init, Types, Labels
<1>4. Shots
  BY NothingTaken DEF Init, Shots, Once
<1>5. NoOrphanTimer
  BY DEF Init, NoOrphanTimer
<1>6. Assignments
  <2>1. ~harness.ea_session_id
    BY <1>1, <1>2, NewWindowFresh DEF Init
  <2>2. \A s \in Sessions : pc[s] # "assign"
    BY DEF Init
  <2>3. taken.kick = 0 /\ taken.b2 = 0
    BY NothingTaken DEF Init
  <2> QED BY <2>1, <2>2, <2>3 DEF Assignments
<1> QED BY <1>3, <1>4, <1>5, <1>6 DEF IInv

LEMMA ArmStep == IInv /\ Arm => IInv'
<1> SUFFICES ASSUME IInv, Arm PROVE IInv'
  OBVIOUS
<1>1. harness.window_id + 1 \in Windows
  BY BoundsAssumption DEF IInv, Types, HarnessFields, Windows, Arm
<1>2. /\ harness.head_unit_bdaddr \in BOOLEAN
      /\ \E h \in Hypotheses :
           harness' = NewWindow(h, harness.window_id + 1, harness.head_unit_bdaddr)
  BY DEF IInv, Types, HarnessFields, Arm
<1>3. taken' = NewTaken /\ ticking' = TickingAfterCancel /\ pc' = pc
      /\ overtaken' = (\E s \in Sessions : pc[s] = "assign")
  BY DEF Arm, locals, At
<1>4. Types'
  BY <1>1, <1>2, <1>3, NewWindowFresh, CancelClears DEF IInv, Types
<1>5. Shots'
  BY <1>3, NothingTaken DEF Shots, Once
<1>6. NoOrphanTimer'
  BY <1>3, CancelClears DEF IInv, NoOrphanTimer
<1>7. Assignments'
  BY <1>1, <1>2, <1>3, NewWindowFresh, NothingTaken DEF Assignments, Announced
<1> QED BY <1>4, <1>5, <1>6, <1>7 DEF IInv

-----------------------------------------------------------------------------
(***************************************************************************)
(* Steps that take no one-shot and touch no timer.                         *)
(***************************************************************************)
\* The fields that the invariant is about.
Guards == <<harness.ea_opened, harness.ea_session_id, harness.dp_kicked,
            harness.dp_b2_sent, harness.av_out_started, harness.stall_reported,
            harness.silence_timer>>

NoneAssigns ==
  /\ pc' \in [Sessions -> Labels]
  /\ \A t \in Sessions : pc'[t] = "assign" => pc[t] = "assign"

LEMMA BystanderStep ==
  ASSUME IInv, harness' \in HarnessFields, NoneAssigns,
         UNCHANGED <<ticking, taken, overtaken, Guards>>
  PROVE  IInv'
<1>1. Types'
  BY DEF IInv, Types, NoneAssigns
<1>2. Shots'
  BY DEF IInv, Shots, Once, Guards
<1>3. NoOrphanTimer'
  BY DEF IInv, NoOrphanTimer, Guards
<1>4. Assignments'
  BY DEF IInv, Assignments, Announced, NoneAssigns, Guards
<1> QED BY <1>1, <1>2, <1>3, <1>4 DEF IInv

\* Marking a phase, recording a packet and storing a declaration leave the guards.
LEMMA MarkLeavesGuards ==
  ASSUME Types, NEW phase \in Phases, Mark(phase)
  PROVE  harness' \in HarnessFields /\ UNCHANGED Guards
<1>1. harness' = [harness EXCEPT !.phases = harness.phases \cup {phase}]
  BY DEF Mark
<1>2. harness.phases \cup {phase} \in SUBSET Phases
  BY DEF Types, HarnessFields
<1> QED BY <1>1, <1>2 DEF Types, HarnessFields, Guards

\* Steps of a thread that keeps to itself.
LEMMA PrivateStep ==
  ASSUME IInv, NEW s \in Sessions,
         Connect(s) \/ Receive(s) \/ RespondB1(s) \/ SendFails(s) \/ HangUp(s) \/ Close(s)
  PROVE  IInv'
<1>1. UNCHANGED <<ticking, taken, overtaken>>
  BY DEF Connect, Receive, RespondB1, SendFails, HangUp, Close, timers, history
<1>2. \E label \in Labels \ {"assign"} : Goto(s, label)
  BY DEF Connect, Receive, RespondB1, SendFails, HangUp, Close, Labels
<1>3. NoneAssigns
  BY <1>2, GotoElsewhere DEF IInv, NoneAssigns
<1>4. harness' \in HarnessFields /\ UNCHANGED Guards
  <2>1. CASE UNCHANGED harness
    BY <2>1 DEF IInv, Types, Guards
  <2>2. CASE Connect(s)
    BY <2>2 DEF IInv, Types, HarnessFields, Guards, Connect
  <2> QED BY <2>1, <2>2 DEF Receive, RespondB1, SendFails, HangUp, Close
<1> QED BY <1>1, <1>3, <1>4, BystanderStep

\* Steps of a thread that marks or records something, and the head unit's dial.
LEMMA RecordingStep ==
  ASSUME IInv, NEW s \in Sessions,
         \/ Track(s) \/ MarkReloop(s) \/ RespondFid(s) \/ RespondEi(s)
         \/ SendAndRecord(s) \/ MarkAcked(s)
  PROVE  IInv'
<1>1. UNCHANGED <<ticking, taken, overtaken>>
  BY DEF Track, MarkReloop, RespondFid, RespondEi, SendAndRecord, MarkAcked, timers, history
<1>2. \E label \in Labels \ {"assign"} : Goto(s, label)
  BY DEF Track, MarkReloop, RespondFid, RespondEi, SendAndRecord, MarkAcked, Labels
<1>3. NoneAssigns
  BY <1>2, GotoElsewhere DEF IInv, NoneAssigns
<1>4. harness' \in HarnessFields /\ UNCHANGED Guards
  <2>1. CASE UNCHANGED harness
    BY <2>1 DEF IInv, Types, Guards
  <2>2. CASE \E phase \in Phases : Mark(phase)
    BY <2>2, MarkLeavesGuards DEF IInv
  <2>3. CASE RespondFid(s)
    BY <2>3 DEF IInv, Types, HarnessFields, Guards, RespondFid
  <2>4. CASE SendAndRecord(s)
    <3>1. harness.postauth + 1 \in Nat /\ harness.postauth \in Nat
      BY DEF IInv, Types, HarnessFields
    <3> QED BY <2>4, <3>1 DEF IInv, Types, HarnessFields, Guards, SendAndRecord
  <2> QED
    BY <2>1, <2>2, <2>3, <2>4
    DEF Track, EnteredEi, MarkReloop, RespondEi, ScheduleDial, MarkAcked, Phases
<1> QED BY <1>1, <1>3, <1>4, BystanderStep

LEMMA HeadUnitDialsStep == ASSUME IInv, HeadUnitDials PROVE IInv'
<1>1. UNCHANGED <<ticking, taken, overtaken, pc>>
  BY DEF HeadUnitDials, timers, locals, history
<1>2. NoneAssigns
  BY <1>1 DEF IInv, Types, NoneAssigns
<1>3. harness' \in HarnessFields /\ UNCHANGED Guards
  BY MarkLeavesGuards DEF IInv, HeadUnitDials, Phases
<1> QED BY <1>1, <1>2, <1>3, BystanderStep

-----------------------------------------------------------------------------
(***************************************************************************)
(* The one-shots.                                                          *)
(***************************************************************************)
\* What Take does to the counts.
LEMMA TakeKick ==
  ASSUME taken \in Counts, Take("kick")
  PROVE  /\ taken' \in Counts /\ taken'.kick = taken.kick + 1
         /\ taken'.announce = taken.announce /\ taken'.b2 = taken.b2
         /\ taken'.dial = taken.dial /\ taken'.report = taken.report
BY DEF Counts, Take

LEMMA TakeB2 ==
  ASSUME taken \in Counts, Take("b2")
  PROVE  /\ taken' \in Counts /\ taken'.b2 = taken.b2 + 1
         /\ taken'.announce = taken.announce /\ taken'.kick = taken.kick
         /\ taken'.dial = taken.dial /\ taken'.report = taken.report
BY DEF Counts, Take

LEMMA TakeDial ==
  ASSUME taken \in Counts, Take("dial")
  PROVE  /\ taken' \in Counts /\ taken'.dial = taken.dial + 1
         /\ taken'.announce = taken.announce /\ taken'.kick = taken.kick
         /\ taken'.b2 = taken.b2 /\ taken'.report = taken.report
BY DEF Counts, Take

LEMMA TakeReport ==
  ASSUME taken \in Counts, Take("report")
  PROVE  /\ taken' \in Counts /\ taken'.report = taken.report + 1
         /\ taken'.announce = taken.announce /\ taken'.kick = taken.kick
         /\ taken'.b2 = taken.b2 /\ taken'.dial = taken.dial
BY DEF Counts, Take

LEMMA TakeAnnounce ==
  ASSUME taken \in Counts, taken' = [taken EXCEPT !.announce = @ + 1]
  PROVE  /\ taken' \in Counts /\ taken'.announce = taken.announce + 1
         /\ taken'.kick = taken.kick /\ taken'.b2 = taken.b2
         /\ taken'.dial = taken.dial /\ taken'.report = taken.report
BY DEF Counts

\* The announcement: ea_opened was not set, so nothing was announced before, and
\* the thread goes to "assign" only when it has announced.
LEMMA RespondInfoStep == ASSUME IInv, NEW s \in Sessions, RespondInfo(s) PROVE IInv'
<1>1. UNCHANGED <<ticking, overtaken>>
  BY DEF RespondInfo, timers
<1>2. CASE ~MayAnnounce
  <2>1. UNCHANGED <<harness, taken>> /\ Goto(s, "kick")
    BY <1>2 DEF RespondInfo
  <2>2. NoneAssigns
    BY <2>1, GotoElsewhere DEF IInv, NoneAssigns, Labels
  <2>3. harness' \in HarnessFields /\ UNCHANGED Guards
    BY <2>1 DEF IInv, Types, Guards
  <2> QED BY <1>1, <2>1, <2>2, <2>3, BystanderStep
<1>3. CASE MayAnnounce
  <2>1. harness' = [harness EXCEPT !.ea_opened = TRUE]
    BY <1>3 DEF RespondInfo
  <2>2. /\ harness' \in HarnessFields /\ harness'.ea_opened
        /\ harness'.ea_session_id = harness.ea_session_id
        /\ harness'.dp_kicked = harness.dp_kicked
        /\ harness'.dp_b2_sent = harness.dp_b2_sent
        /\ harness'.av_out_started = harness.av_out_started
        /\ harness'.stall_reported = harness.stall_reported
        /\ harness'.silence_timer = harness.silence_timer
    BY <2>1 DEF IInv, Types, HarnessFields
  <2>3. taken.announce = 0
    BY <1>3 DEF IInv, Shots, Once, MayAnnounce
  <2>4. pc' \in [Sessions -> Labels]
    BY <1>3 DEF IInv, Types, RespondInfo, Goto, Labels
  <2>5. NoOrphanTimer'
    BY <1>1, <2>2 DEF IInv, NoOrphanTimer
  <2>6. CASE harness.ea_protocols = "hondalink"
    <3>1. taken' = [taken EXCEPT !.announce = @ + 1]
      BY <1>3, <2>6 DEF RespondInfo
    <3>2. /\ taken' \in Counts /\ taken'.announce = 1
          /\ taken'.kick = taken.kick /\ taken'.b2 = taken.b2
          /\ taken'.dial = taken.dial /\ taken'.report = taken.report
      BY <3>1, <2>3, TakeAnnounce DEF IInv, Types
    <3>3. Types'
      BY <1>1, <2>2, <2>4, <3>2 DEF IInv, Types
    <3>4. Shots'
      BY <2>2, <3>2 DEF IInv, Shots, Once
    <3>5. Assignments'
      BY <3>2 DEF Assignments, Announced
    <3> QED BY <2>5, <3>3, <3>4, <3>5 DEF IInv
  <2>7. CASE harness.ea_protocols # "hondalink"
    <3>1. taken' = taken /\ Goto(s, "kick")
      BY <1>3, <2>7 DEF IInv, Types, Counts, RespondInfo
    <3>2. NoneAssigns
      BY <3>1, GotoElsewhere DEF IInv, NoneAssigns, Labels
    <3>3. Types'
      BY <1>1, <2>2, <2>4, <3>1 DEF IInv, Types
    <3>4. Shots'
      BY <2>2, <2>3, <3>1 DEF IInv, Shots, Once
    <3>5. Assignments'
      BY <1>1, <2>2, <3>1, <3>2 DEF IInv, Assignments, Announced, NoneAssigns
    <3> QED BY <2>5, <3>3, <3>4, <3>5 DEF IInv
  <2> QED BY <2>6, <2>7
<1> QED BY <1>2, <1>3

\* The session id: a thread that assigns it has announced, or was overtaken.
LEMMA AssignSessionStep == ASSUME IInv, NEW s \in Sessions, AssignSession(s) PROVE IInv'
<1>1. UNCHANGED <<ticking, taken, overtaken>>
  BY DEF AssignSession, timers, history
<1>2. Announced
  BY DEF IInv, Assignments, AssignSession, At
<1>3. NoneAssigns
  BY GotoElsewhere DEF IInv, AssignSession, NoneAssigns, Labels
<1>4. /\ harness' \in HarnessFields
      /\ harness'.ea_opened = harness.ea_opened
      /\ harness'.dp_kicked = harness.dp_kicked
      /\ harness'.dp_b2_sent = harness.dp_b2_sent
      /\ harness'.av_out_started = harness.av_out_started
      /\ harness'.stall_reported = harness.stall_reported
      /\ harness'.silence_timer = harness.silence_timer
  BY DEF IInv, Types, HarnessFields, AssignSession
<1>5. Types'
  BY <1>1, <1>3, <1>4 DEF IInv, Types, NoneAssigns
<1>6. Shots'
  BY <1>1, <1>4 DEF IInv, Shots, Once
<1>7. NoOrphanTimer'
  BY <1>1, <1>4 DEF IInv, NoOrphanTimer
<1>8. Assignments'
  BY <1>1, <1>2 DEF Assignments, Announced
<1> QED BY <1>5, <1>6, <1>7, <1>8 DEF IInv

LEMMA KickStep == ASSUME IInv, NEW s \in Sessions, Kick(s) PROVE IInv'
<1>1. UNCHANGED <<ticking, overtaken>>
  BY DEF Kick, timers
<1>2. NoneAssigns
  BY GotoElsewhere DEF IInv, Kick, NoneAssigns, Labels
<1>3. CASE UNCHANGED <<harness, taken>>
  <2>1. harness' \in HarnessFields /\ UNCHANGED Guards
    BY <1>3 DEF IInv, Types, Guards
  <2> QED BY <1>1, <1>2, <1>3, <2>1, BystanderStep
<1>4. CASE /\ ~harness.dp_kicked /\ harness.ea_session_id
           /\ harness' = [harness EXCEPT !.dp_kicked = TRUE] /\ Take("kick")
  <2>1. /\ taken' \in Counts /\ taken'.kick = 1
        /\ taken'.announce = taken.announce /\ taken'.b2 = taken.b2
        /\ taken'.dial = taken.dial /\ taken'.report = taken.report
    BY <1>4, TakeKick DEF IInv, Types, Shots, Once
  <2>2. /\ harness' \in HarnessFields /\ harness'.dp_kicked
        /\ harness'.ea_opened = harness.ea_opened
        /\ harness'.ea_session_id = harness.ea_session_id
        /\ harness'.dp_b2_sent = harness.dp_b2_sent
        /\ harness'.av_out_started = harness.av_out_started
        /\ harness'.stall_reported = harness.stall_reported
        /\ harness'.silence_timer = harness.silence_timer
    BY <1>4 DEF IInv, Types, HarnessFields
  <2>3. Types'
    BY <1>1, <1>2, <2>1, <2>2 DEF IInv, Types, NoneAssigns
  <2>4. Shots'
    BY <2>1, <2>2 DEF IInv, Shots, Once
  <2>5. NoOrphanTimer'
    BY <1>1, <2>2 DEF IInv, NoOrphanTimer
  <2>6. Assignments'
    BY <1>1, <1>2, <1>4, <2>1, <2>2 DEF IInv, Assignments, Announced, NoneAssigns
  <2> QED BY <2>3, <2>4, <2>5, <2>6 DEF IInv
<1> QED BY <1>3, <1>4 DEF Kick

LEMMA BuildB2Step == ASSUME IInv, NEW s \in Sessions, BuildB2(s) PROVE IInv'
<1>1. UNCHANGED <<ticking, overtaken>>
  BY DEF BuildB2, timers
<1>2. NoneAssigns
  BY GotoElsewhere DEF IInv, BuildB2, NoneAssigns, Labels
<1>3. CASE UNCHANGED <<harness, taken>>
  <2>1. harness' \in HarnessFields /\ UNCHANGED Guards
    BY <1>3 DEF IInv, Types, Guards
  <2> QED BY <1>1, <1>2, <1>3, <2>1, BystanderStep
<1>4. CASE /\ ~harness.dp_b2_sent /\ harness.ea_session_id
           /\ harness' = [harness EXCEPT !.dp_b2_sent = TRUE] /\ Take("b2")
  <2>1. /\ taken' \in Counts /\ taken'.b2 = 1
        /\ taken'.announce = taken.announce /\ taken'.kick = taken.kick
        /\ taken'.dial = taken.dial /\ taken'.report = taken.report
    BY <1>4, TakeB2 DEF IInv, Types, Shots, Once
  <2>2. /\ harness' \in HarnessFields /\ harness'.dp_b2_sent
        /\ harness'.ea_opened = harness.ea_opened
        /\ harness'.ea_session_id = harness.ea_session_id
        /\ harness'.dp_kicked = harness.dp_kicked
        /\ harness'.av_out_started = harness.av_out_started
        /\ harness'.stall_reported = harness.stall_reported
        /\ harness'.silence_timer = harness.silence_timer
    BY <1>4 DEF IInv, Types, HarnessFields
  <2>3. Types'
    BY <1>1, <1>2, <2>1, <2>2 DEF IInv, Types, NoneAssigns
  <2>4. Shots'
    BY <2>1, <2>2 DEF IInv, Shots, Once
  <2>5. NoOrphanTimer'
    BY <1>1, <2>2 DEF IInv, NoOrphanTimer
  <2>6. Assignments'
    BY <1>1, <1>2, <1>4, <2>1, <2>2 DEF IInv, Assignments, Announced, NoneAssigns
  <2> QED BY <2>3, <2>4, <2>5, <2>6 DEF IInv
<1> QED BY <1>3, <1>4 DEF BuildB2

\* The outbound dial: the flag is read and set under one acquisition of the lock.
LEMMA DialStep == ASSUME IInv, ConnectHeadUnitAv PROVE IInv'
<1>1. UNCHANGED <<ticking, overtaken, pc>>
  BY DEF ConnectHeadUnitAv, locals
<1>2. NoneAssigns
  BY <1>1 DEF IInv, Types, NoneAssigns
<1>3. CASE UNCHANGED <<harness, taken>>
  <2>1. harness' \in HarnessFields /\ UNCHANGED Guards
    BY <1>3 DEF IInv, Types, Guards
  <2> QED BY <1>1, <1>2, <1>3, <2>1, BystanderStep
<1>4. CASE /\ ~harness.av_out_started
           /\ harness' = [harness EXCEPT !.av_out_started = TRUE] /\ Take("dial")
  <2>1. /\ taken' \in Counts /\ taken'.dial = 1
        /\ taken'.announce = taken.announce /\ taken'.kick = taken.kick
        /\ taken'.b2 = taken.b2 /\ taken'.report = taken.report
    BY <1>4, TakeDial DEF IInv, Types, Shots, Once
  <2>2. /\ harness' \in HarnessFields /\ harness'.av_out_started
        /\ harness'.ea_opened = harness.ea_opened
        /\ harness'.ea_session_id = harness.ea_session_id
        /\ harness'.dp_kicked = harness.dp_kicked
        /\ harness'.dp_b2_sent = harness.dp_b2_sent
        /\ harness'.stall_reported = harness.stall_reported
        /\ harness'.silence_timer = harness.silence_timer
    BY <1>4 DEF IInv, Types, HarnessFields
  <2>3. Types'
    BY <1>1, <1>2, <2>1, <2>2 DEF IInv, Types, NoneAssigns
  <2>4. Shots'
    BY <2>1, <2>2 DEF IInv, Shots, Once
  <2>5. NoOrphanTimer'
    BY <1>1, <2>2 DEF IInv, NoOrphanTimer
  <2>6. Assignments'
    BY <1>1, <1>2, <2>1, <2>2 DEF IInv, Assignments, Announced, NoneAssigns
  <2> QED BY <2>3, <2>4, <2>5, <2>6 DEF IInv
<1> QED BY <1>3, <1>4 DEF ConnectHeadUnitAv, DialOnce

\* A report, at a teardown or by a timer, for whatever window it was meant.
LEMMA ReportKeeps ==
  ASSUME IInv, NEW w, ReportStall(w), UNCHANGED overtaken, NoneAssigns,
         ticking' \in [Windows -> Nat],
         \A x \in Windows : ticking'[x] <= ticking[x]
  PROVE  IInv'
<1>1. /\ taken' \in Counts
      /\ taken'.announce = taken.announce /\ taken'.kick = taken.kick
      /\ taken'.b2 = taken.b2 /\ taken'.dial = taken.dial
      /\ \/ taken'.report = taken.report /\ harness' = harness
         \/ taken'.report = 1 /\ harness' = [harness EXCEPT !.stall_reported = TRUE]
  BY TakeReport DEF IInv, Types, Shots, Once, ReportStall
<1>2. /\ harness' \in HarnessFields
      /\ harness'.ea_opened = harness.ea_opened
      /\ harness'.ea_session_id = harness.ea_session_id
      /\ harness'.dp_kicked = harness.dp_kicked
      /\ harness'.dp_b2_sent = harness.dp_b2_sent
      /\ harness'.av_out_started = harness.av_out_started
      /\ harness'.silence_timer = harness.silence_timer
      /\ Once(taken'.report, harness'.stall_reported)
  BY <1>1 DEF IInv, Types, HarnessFields, Shots, Once
<1>3. Types'
  BY <1>1, <1>2 DEF IInv, Types, NoneAssigns
<1>4. Shots'
  BY <1>1, <1>2 DEF IInv, Shots, Once
<1>5. NoOrphanTimer'
  BY <1>2 DEF IInv, Types, NoOrphanTimer
<1>6. Assignments'
  BY <1>1, <1>2 DEF IInv, Assignments, Announced, NoneAssigns
<1> QED BY <1>3, <1>4, <1>5, <1>6 DEF IInv

LEMMA ReportOnCloseStep == ASSUME IInv, NEW s \in Sessions, ReportOnClose(s) PROVE IInv'
<1>1. UNCHANGED <<ticking, overtaken>> /\ ReportStall(harness.window_id)
  BY DEF ReportOnClose, timers
<1>2. NoneAssigns
  BY GotoElsewhere DEF IInv, ReportOnClose, NoneAssigns, Labels
<1>3. ticking' \in [Windows -> Nat] /\ \A x \in Windows : ticking'[x] <= ticking[x]
  BY <1>1 DEF IInv, Types
<1> QED BY <1>1, <1>2, <1>3, ReportKeeps

LEMMA TimerReportsStep == ASSUME IInv, TimerReports PROVE IInv'
<1>1. PICK w \in Windows : ReportStall(w)
  BY DEF TimerReports
<1>2. UNCHANGED <<ticking, overtaken, pc>>
  BY DEF TimerReports, locals
<1>3. NoneAssigns
  BY <1>2 DEF IInv, Types, NoneAssigns
<1>4. ticking' \in [Windows -> Nat] /\ \A x \in Windows : ticking'[x] <= ticking[x]
  BY <1>2 DEF IInv, Types
<1> QED BY <1>1, <1>2, <1>3, <1>4, ReportKeeps

-----------------------------------------------------------------------------
(***************************************************************************)
(* The silence timer.                                                      *)
(***************************************************************************)
\* Steps that put another timer, or none, in place of the cancelled one.
LEMMA TimerChanges ==
  ASSUME IInv, UNCHANGED <<taken, overtaken>>, NoneAssigns,
         NEW handle \in Windows \cup {NoTimer},
         harness' = [harness EXCEPT !.silence_timer = handle],
         ticking' \in [Windows -> Nat],
         \A w \in Windows : ticking'[w] <= 1 /\ (ticking'[w] = 1 => handle = w)
  PROVE  IInv'
<1>1. /\ harness' \in HarnessFields /\ harness'.silence_timer = handle
      /\ harness'.ea_opened = harness.ea_opened
      /\ harness'.ea_session_id = harness.ea_session_id
      /\ harness'.dp_kicked = harness.dp_kicked
      /\ harness'.dp_b2_sent = harness.dp_b2_sent
      /\ harness'.av_out_started = harness.av_out_started
      /\ harness'.stall_reported = harness.stall_reported
  BY DEF IInv, Types, HarnessFields
<1>2. Types'
  BY <1>1 DEF IInv, Types, NoneAssigns
<1>3. Shots'
  BY <1>1 DEF IInv, Shots, Once
<1>4. NoOrphanTimer'
  BY <1>1 DEF NoOrphanTimer
<1>5. Assignments'
  BY <1>1 DEF IInv, Assignments, Announced, NoneAssigns
<1> QED BY <1>2, <1>3, <1>4, <1>5 DEF IInv

LEMMA ArmSilenceStep == ASSUME IInv, NEW s \in Sessions, ArmSilenceWatchdog(s) PROVE IInv'
<1>1. UNCHANGED <<taken, overtaken>>
  BY DEF ArmSilenceWatchdog, history
<1>2. \E label \in Labels \ {"assign"} : Goto(s, label)
  BY DEF ArmSilenceWatchdog, Labels
<1>3. NoneAssigns
  BY <1>2, GotoElsewhere DEF IInv, NoneAssigns
<1>4. /\ TickingAfterCancel \in [Windows -> Nat]
      /\ \A w \in Windows : TickingAfterCancel[w] = 0
  BY CancelClears DEF IInv
<1>5. harness.window_id \in Windows
  BY DEF IInv, Types, HarnessFields
<1>6. CASE /\ ticking' = [TickingAfterCancel EXCEPT ![harness.window_id] = @ + 1]
           /\ harness' = [harness EXCEPT !.silence_timer = harness.window_id]
  <2>1. /\ ticking' \in [Windows -> Nat]
        /\ \A w \in Windows : ticking'[w] = IF w = harness.window_id THEN 1 ELSE 0
    BY <1>4, <1>5, <1>6
  <2> QED BY <1>1, <1>3, <1>5, <1>6, <2>1, TimerChanges
<1>7. CASE /\ ticking' = TickingAfterCancel
           /\ harness' = [harness EXCEPT !.silence_timer = NoTimer]
  BY <1>1, <1>3, <1>4, <1>7, TimerChanges
<1> QED BY <1>6, <1>7 DEF ArmSilenceWatchdog, TickingBeforeRestart

LEMMA CancelSilenceStep ==
  ASSUME IInv, NEW s \in Sessions, CancelSilenceWatchdog(s) PROVE IInv'
<1>1. UNCHANGED <<taken, overtaken>> /\ ticking' = TickingAfterCancel
      /\ harness' = [harness EXCEPT !.silence_timer = NoTimer]
  BY DEF CancelSilenceWatchdog
<1>2. NoneAssigns
  BY GotoElsewhere DEF IInv, CancelSilenceWatchdog, NoneAssigns, Labels
<1>3. /\ TickingAfterCancel \in [Windows -> Nat]
      /\ \A w \in Windows : TickingAfterCancel[w] = 0
  BY CancelClears DEF IInv
<1> QED BY <1>1, <1>2, <1>3, TimerChanges

LEMMA TimerExpiresStep == ASSUME IInv, TimerExpires PROVE IInv'
<1>1. PICK w \in Windows : ticking[w] > 0 /\ ticking' = [ticking EXCEPT ![w] = @ - 1]
  BY DEF TimerExpires
<1>2. UNCHANGED <<harness, taken, overtaken, pc>>
  BY DEF TimerExpires, locals, history
<1>3. /\ ticking' \in [Windows -> Nat]
      /\ \A x \in Windows : ticking'[x] <= ticking[x]
  BY <1>1 DEF IInv, Types
<1>4. Types'
  BY <1>2, <1>3 DEF IInv, Types
<1>5. Shots' /\ Assignments'
  BY <1>2 DEF IInv, Shots, Once, Assignments, Announced
<1>6. NoOrphanTimer'
  BY <1>2, <1>3 DEF IInv, Types, NoOrphanTimer
<1> QED BY <1>4, <1>5, <1>6 DEF IInv

-----------------------------------------------------------------------------
LEMMA NextIInv == IInv /\ [Next]_vars => IInv'
<1> SUFFICES ASSUME IInv, [Next]_vars PROVE IInv'
  OBVIOUS
<1>1. CASE UNCHANGED vars
  BY <1>1 DEF vars, IInv, Types, Shots, Once, NoOrphanTimer, Assignments, Announced
<1>2. ASSUME NEW s \in Sessions, Connect(s) \/ Receive(s) \/ HangUp(s) \/ Runs(s)
      PROVE  IInv'
  BY <1>2, PrivateStep, RecordingStep, RespondInfoStep, AssignSessionStep, KickStep,
     BuildB2Step, ReportOnCloseStep, ArmSilenceStep, CancelSilenceStep DEF Runs
<1> QED
  BY <1>1, <1>2, ArmStep, HeadUnitDialsStep, TimerExpiresStep, TimerReportsStep, DialStep
  DEF Next

LEMMA Inductive == Spec => []IInv
BY InitIInv, NextIInv, PTL DEF Spec

-----------------------------------------------------------------------------
\* Each one-shot is taken at most once per window (take_ea_open_packets,
\* take_dp_kick_packets, _build_b2_response, connect_head_unit_av, _report_stall).
THEOREM OneShotsOnce == Spec => []OneShots
<1>1. IInv => OneShots
  <2> SUFFICES ASSUME IInv PROVE OneShots
    OBVIOUS
  <2>1. DOMAIN taken = {"announce", "kick", "b2", "dial", "report"}
    BY DEF IInv, Types, Counts
  <2>2. /\ taken["announce"] <= 1 /\ taken["kick"] <= 1 /\ taken["b2"] <= 1
        /\ taken["dial"] <= 1 /\ taken["report"] <= 1
    BY DEF IInv, Shots, Once
  <2> QED BY <2>1, <2>2 DEF OneShots
<1> QED BY Inductive, <1>1, PTL

\* The one timer that waits is the one that can be cancelled (arm_silence_watchdog,
\* cancel_silence_watchdog, arm).
THEOREM TimerNotOrphaned == Spec => []NoOrphanTimer
<1>1. IInv => NoOrphanTimer
  BY DEF IInv
<1> QED BY Inductive, <1>1, PTL

\* No app data without an announcement in the same window, but for a thread that
\* the operator's arm() overtakes (take_dp_kick_packets, _build_b2_response).
THEOREM DataIsAnnounced == Spec => []DataAfterAnnouncement
<1>1. IInv => DataAfterAnnouncement
  BY DEF IInv, Types, Counts, Shots, Once, Assignments, Announced, DataAfterAnnouncement
<1> QED BY Inductive, <1>1, PTL

-----------------------------------------------------------------------------
(***************************************************************************)
(* Types and flags.  A report and a dial leave their flags set exactly     *)
(* when they are counted, and no more packets are recorded than received:  *)
(* a packet that a thread still handles is received and not yet recorded.  *)
(***************************************************************************)
Handling == {"track", "reloop", "respond", "assign", "kick", "b2", "send"}
Busy == {s \in Sessions : pc[s] \in Handling}

Flagged == /\ harness.stall_reported = (taken.report = 1)
           /\ harness.av_out_started = (taken.dial = 1)

Recorded == /\ received \in 0..MaxPackets
            /\ IsFiniteSet(Busy)
            /\ harness.postauth + Cardinality(Busy) <= received

Waiting == /\ firing \in [Windows -> Nat]
           /\ dials \in Nat
           /\ hyp \in [Sessions -> Hypotheses]

TInv == IInv /\ Flagged /\ Recorded /\ Waiting

\* Who is busy after a thread has moved.
LEMMA BusyStays ==
  ASSUME Types, NEW s \in Sessions, NEW label \in Labels, Goto(s, label),
         pc[s] \in Handling <=> label \in Handling
  PROVE  Busy' = Busy
BY DEF Types, Goto, Busy

LEMMA BusyLeaves ==
  ASSUME Types, IsFiniteSet(Busy), NEW s \in Sessions, NEW label \in Labels \ Handling,
         Goto(s, label), pc[s] \in Handling
  PROVE  /\ IsFiniteSet(Busy')
         /\ Cardinality(Busy) \in Nat
         /\ Cardinality(Busy') = Cardinality(Busy) - 1
<1>1. Busy' = Busy \ {s}
  BY DEF Types, Goto, Busy
<1>2. s \in Busy
  BY DEF Busy
<1> QED BY <1>1, <1>2, FS_RemoveElement, FS_CardinalityType

LEMMA BusyJoins ==
  ASSUME Types, IsFiniteSet(Busy), NEW s \in Sessions, NEW label \in Handling,
         Goto(s, label), pc[s] \notin Handling
  PROVE  /\ IsFiniteSet(Busy')
         /\ Cardinality(Busy) \in Nat
         /\ Cardinality(Busy') = Cardinality(Busy) + 1
<1>1. Busy' = Busy \cup {s}
  BY DEF Types, Goto, Busy
<1>2. s \notin Busy
  BY DEF Busy
<1> QED BY <1>1, <1>2, FS_AddElement, FS_CardinalityType

LEMMA InitTInv == Init => TInv
<1> SUFFICES ASSUME Init PROVE TInv
  OBVIOUS
<1>1. IInv
  BY InitIInv
<1>2. Flagged
  <2>1. harness.stall_reported = FALSE /\ harness.av_out_started = FALSE
    BY DEF Init, NewWindow
  <2>2. (taken.report = 1) = FALSE /\ (taken.dial = 1) = FALSE
    BY NothingTaken DEF Init
  <2> QED BY <2>1, <2>2, Zenon DEF Flagged
<1>3. Recorded
  <2>1. Busy = {}
    BY DEF Init, Busy, Handling
  <2>2. harness.postauth = 0 /\ received = 0
    BY DEF Init, NewWindow
  <2> QED BY <2>1, <2>2, FS_EmptySet, BoundsAssumption DEF Recorded
<1>4. Waiting
  BY HypothesesAssumption DEF Init, Waiting
<1> QED BY <1>1, <1>2, <1>3, <1>4 DEF TInv

-----------------------------------------------------------------------------
\* The flags and their counts move together.
SameFlags == /\ harness'.stall_reported = harness.stall_reported
             /\ harness'.av_out_started = harness.av_out_started
             /\ taken'.report = taken.report
             /\ taken'.dial = taken.dial

LEMMA QuietFlags ==
  ASSUME IInv, NEW s \in Sessions,
         \/ Connect(s) \/ Receive(s) \/ HangUp(s)
         \/ Track(s) \/ MarkReloop(s) \/ RespondFid(s) \/ RespondEi(s) \/ RespondB1(s)
         \/ AssignSession(s) \/ SendFails(s) \/ SendAndRecord(s) \/ ArmSilenceWatchdog(s)
         \/ MarkAcked(s) \/ Close(s) \/ CancelSilenceWatchdog(s)
  PROVE  SameFlags
<1>1. harness \in HarnessFields
  BY DEF IInv, Types
<1>2. CASE \/ Receive(s) \/ HangUp(s) \/ RespondEi(s) \/ RespondB1(s)
           \/ SendFails(s) \/ Close(s)
  <2>1. UNCHANGED <<harness, taken>>
    BY <1>2 DEF Receive, HangUp, RespondEi, ScheduleDial, RespondB1, SendFails, Close,
                history
  <2> QED BY <2>1 DEF SameFlags
<1>3. CASE Track(s) \/ MarkReloop(s) \/ MarkAcked(s)
  <2>1. UNCHANGED taken /\ (UNCHANGED harness \/ \E phase \in Phases : Mark(phase))
    BY <1>3 DEF Track, EnteredEi, MarkReloop, MarkAcked, history, Phases
  <2>2. ASSUME NEW phase \in Phases, Mark(phase)
        PROVE  /\ harness'.stall_reported = harness.stall_reported
               /\ harness'.av_out_started = harness.av_out_started
    BY <1>1, <2>2 DEF Mark, HarnessFields
  <2> QED BY <2>1, <2>2 DEF SameFlags
<1>4. CASE RespondFid(s)
  BY <1>1, <1>4 DEF RespondFid, HarnessFields, SameFlags, history
<1>5. CASE AssignSession(s)
  BY <1>1, <1>5 DEF AssignSession, HarnessFields, SameFlags, history
<1>6. CASE SendAndRecord(s)
  BY <1>1, <1>6 DEF SendAndRecord, HarnessFields, SameFlags, history
<1>7. CASE ArmSilenceWatchdog(s)
  BY <1>1, <1>7 DEF ArmSilenceWatchdog, HarnessFields, SameFlags, history
<1>8. CASE CancelSilenceWatchdog(s)
  BY <1>1, <1>8 DEF CancelSilenceWatchdog, HarnessFields, SameFlags
<1>9. CASE Connect(s)
  BY <1>1, <1>9 DEF Connect, HarnessFields, SameFlags, history
<1> QED BY <1>2, <1>3, <1>4, <1>5, <1>6, <1>7, <1>8, <1>9

LEMMA ShotFlags ==
  ASSUME IInv, NEW s \in Sessions, RespondInfo(s) \/ Kick(s) \/ BuildB2(s)
  PROVE  SameFlags
<1>1. harness \in HarnessFields /\ taken \in Counts
  BY DEF IInv, Types
<1>2. CASE RespondInfo(s)
  BY <1>1, <1>2 DEF RespondInfo, HarnessFields, Counts, SameFlags
<1>3. CASE Kick(s)
  BY <1>1, <1>3 DEF Kick, Take, HarnessFields, Counts, SameFlags
<1>4. CASE BuildB2(s)
  BY <1>1, <1>4 DEF BuildB2, Take, HarnessFields, Counts, SameFlags
<1> QED BY <1>2, <1>3, <1>4

LEMMA ReportFlags ==
  ASSUME IInv, Flagged, NEW w, ReportStall(w)
  PROVE  Flagged' /\ harness'.postauth = harness.postauth
<1>1. harness \in HarnessFields /\ taken \in Counts
  BY DEF IInv, Types
<1>2. CASE UNCHANGED <<harness, taken>>
  BY <1>2 DEF Flagged
<1>3. CASE /\ ~harness.stall_reported
           /\ harness' = [harness EXCEPT !.stall_reported = TRUE] /\ Take("report")
  <2>1. /\ harness'.stall_reported
        /\ harness'.av_out_started = harness.av_out_started
        /\ harness'.postauth = harness.postauth
    BY <1>1, <1>3 DEF HarnessFields
  <2>2. taken.report = 0
    BY <1>3 DEF IInv, Shots, Once
  <2>3. taken'.report = 1 /\ taken'.dial = taken.dial
    BY <1>1, <1>3, <2>2, TakeReport
  <2> QED BY <2>1, <2>3 DEF Flagged
<1> QED BY <1>2, <1>3 DEF ReportStall

LEMMA DialFlags ==
  ASSUME IInv, Flagged, ConnectHeadUnitAv
  PROVE  Flagged' /\ harness'.postauth = harness.postauth
<1>1. harness \in HarnessFields /\ taken \in Counts
  BY DEF IInv, Types
<1>2. CASE UNCHANGED <<harness, taken>>
  BY <1>2 DEF Flagged
<1>3. CASE /\ ~harness.av_out_started
           /\ harness' = [harness EXCEPT !.av_out_started = TRUE] /\ Take("dial")
  <2>1. /\ harness'.av_out_started
        /\ harness'.stall_reported = harness.stall_reported
        /\ harness'.postauth = harness.postauth
    BY <1>1, <1>3 DEF HarnessFields
  <2>2. taken.dial = 0
    BY <1>3 DEF IInv, Shots, Once
  <2>3. taken'.dial = 1 /\ taken'.report = taken.report
    BY <1>1, <1>3, <2>2, TakeDial
  <2> QED BY <2>1, <2>3 DEF Flagged
<1> QED BY <1>2, <1>3 DEF ConnectHeadUnitAv, DialOnce

-----------------------------------------------------------------------------
\* What the threads' steps do to the record.
SamePostauth == harness'.postauth = harness.postauth

LEMMA Unrecorded ==
  ASSUME IInv, NEW s \in Sessions,
         \/ Connect(s) \/ Receive(s) \/ HangUp(s)
         \/ Track(s) \/ MarkReloop(s) \/ RespondFid(s) \/ RespondEi(s) \/ RespondInfo(s)
         \/ RespondB1(s) \/ AssignSession(s) \/ Kick(s) \/ BuildB2(s) \/ SendFails(s)
         \/ ArmSilenceWatchdog(s) \/ MarkAcked(s) \/ Close(s) \/ CancelSilenceWatchdog(s)
  PROVE  SamePostauth
<1>1. harness \in HarnessFields
  BY DEF IInv, Types
<1>2. CASE \/ Receive(s) \/ HangUp(s) \/ RespondEi(s) \/ RespondB1(s)
           \/ SendFails(s) \/ Close(s)
  <2>1. UNCHANGED harness
    BY <1>2 DEF Receive, HangUp, RespondEi, ScheduleDial, RespondB1, SendFails, Close
  <2> QED BY <2>1 DEF SamePostauth
<1>3. CASE Track(s) \/ MarkReloop(s) \/ MarkAcked(s)
  <2>1. UNCHANGED harness \/ \E phase \in Phases : Mark(phase)
    BY <1>3 DEF Track, EnteredEi, MarkReloop, MarkAcked, Phases
  <2>2. ASSUME NEW phase \in Phases, Mark(phase)
        PROVE  harness'.postauth = harness.postauth
    BY <1>1, <2>2 DEF Mark, HarnessFields
  <2> QED BY <2>1, <2>2 DEF SamePostauth
<1>4. CASE RespondFid(s)
  BY <1>1, <1>4 DEF RespondFid, HarnessFields, SamePostauth
<1>5. CASE AssignSession(s)
  BY <1>1, <1>5 DEF AssignSession, HarnessFields, SamePostauth
<1>6. CASE RespondInfo(s)
  BY <1>1, <1>6 DEF RespondInfo, HarnessFields, SamePostauth
<1>7. CASE Kick(s) \/ BuildB2(s)
  BY <1>1, <1>7 DEF Kick, BuildB2, HarnessFields, SamePostauth
<1>8. CASE ArmSilenceWatchdog(s) \/ CancelSilenceWatchdog(s)
  BY <1>1, <1>8 DEF ArmSilenceWatchdog, CancelSilenceWatchdog, HarnessFields, SamePostauth
<1>9. CASE Connect(s)
  BY <1>1, <1>9 DEF Connect, HarnessFields, SamePostauth
<1> QED BY <1>2, <1>3, <1>4, <1>5, <1>6, <1>7, <1>8, <1>9

\* Steps that begin no packet and finish none.
LEMMA SteadyRecord ==
  ASSUME IInv, Recorded, NEW s \in Sessions,
         \/ Connect(s) \/ HangUp(s)
         \/ Track(s) \/ MarkReloop(s) \/ RespondFid(s) \/ RespondEi(s) \/ RespondInfo(s)
         \/ RespondB1(s) \/ AssignSession(s) \/ Kick(s) \/ BuildB2(s)
         \/ ArmSilenceWatchdog(s) \/ MarkAcked(s) \/ Close(s) \/ CancelSilenceWatchdog(s)
  PROVE  Recorded'
<1>1. SamePostauth
  BY Unrecorded
<1>2. received' = received
  BY DEF Connect, HangUp, Track, MarkReloop, RespondFid, RespondEi, RespondInfo, RespondB1,
         AssignSession, Kick, BuildB2, ArmSilenceWatchdog, MarkAcked, Close,
         CancelSilenceWatchdog
<1>3. \E label \in Labels : Goto(s, label) /\ (pc[s] \in Handling <=> label \in Handling)
  <2>1. CASE Connect(s) \/ HangUp(s) \/ ArmSilenceWatchdog(s) \/ MarkAcked(s) \/ Close(s)
             \/ CancelSilenceWatchdog(s)
    BY <2>1 DEF Connect, HangUp, ArmSilenceWatchdog, MarkAcked, Close, CancelSilenceWatchdog,
                At, Labels, Handling
  <2>2. CASE Track(s) \/ MarkReloop(s) \/ RespondFid(s) \/ RespondEi(s) \/ RespondInfo(s)
             \/ RespondB1(s) \/ AssignSession(s) \/ Kick(s) \/ BuildB2(s)
    BY <2>2 DEF Track, MarkReloop, RespondFid, RespondEi, RespondInfo, RespondB1,
                AssignSession, Kick, BuildB2, At, Labels, Handling
  <2> QED BY <2>1, <2>2
<1>4. Busy' = Busy
  BY <1>3, BusyStays DEF IInv
<1> QED BY <1>1, <1>2, <1>4 DEF Recorded, SamePostauth

LEMMA ReceiveRecord == ASSUME IInv, Recorded, NEW s \in Sessions, Receive(s) PROVE Recorded'
<1>1. SamePostauth
  BY Unrecorded
<1>2. received < MaxPackets /\ received' = received + 1 /\ Goto(s, "track")
      /\ pc[s] \notin Handling
  BY DEF Receive, At, Handling
<1>3. /\ IsFiniteSet(Busy') /\ Cardinality(Busy) \in Nat
      /\ Cardinality(Busy') = Cardinality(Busy) + 1
  BY <1>2, BusyJoins DEF IInv, Recorded, Handling
<1>4. harness.postauth \in Nat
  BY DEF IInv, Types, HarnessFields
<1>5. received' \in 0..MaxPackets
  BY <1>2, BoundsAssumption DEF Recorded
<1> QED BY <1>1, <1>2, <1>3, <1>4, <1>5 DEF Recorded, SamePostauth

LEMMA FinishRecord ==
  ASSUME IInv, Recorded, NEW s \in Sessions, SendFails(s) \/ SendAndRecord(s)
  PROVE  Recorded'
<1>1. harness \in HarnessFields /\ harness.postauth \in Nat
  BY DEF IInv, Types, HarnessFields
<1>2. harness'.postauth \in {harness.postauth, harness.postauth + 1}
  BY <1>1 DEF HarnessFields, SendFails, SendAndRecord
<1>3. received' = received /\ pc[s] \in Handling
      /\ \E label \in Labels \ Handling : Goto(s, label)
  BY DEF SendFails, SendAndRecord, At, Handling, Labels
<1>4. /\ IsFiniteSet(Busy') /\ Cardinality(Busy) \in Nat
      /\ Cardinality(Busy') = Cardinality(Busy) - 1
  BY <1>3, BusyLeaves DEF IInv, Recorded
<1> QED BY <1>1, <1>2, <1>3, <1>4 DEF Recorded

-----------------------------------------------------------------------------
LEMMA ThreadWaiting ==
  ASSUME Waiting, IInv, NEW s \in Sessions, Connect(s) \/ Receive(s) \/ HangUp(s) \/ Runs(s)
  PROVE  Waiting'
<1>1. firing' = firing
  BY DEF Connect, Receive, HangUp, Runs, Track, MarkReloop, RespondFid, RespondEi, RespondInfo,
         RespondB1, AssignSession, Kick, BuildB2, SendFails, SendAndRecord,
         ArmSilenceWatchdog, MarkAcked, Close, ReportOnClose, CancelSilenceWatchdog, timers
<1>2. dials' \in {dials, dials + 1}
  BY DEF Connect, Receive, HangUp, Runs, Track, MarkReloop, RespondFid, RespondEi, RespondInfo,
         RespondB1, AssignSession, Kick, BuildB2, SendFails, SendAndRecord, ScheduleDial,
         ArmSilenceWatchdog, MarkAcked, Close, ReportOnClose, CancelSilenceWatchdog, timers
<1>3. hyp' = hyp \/ hyp' = [hyp EXCEPT ![s] = harness.current]
  BY DEF Connect, Receive, HangUp, Runs, Track, MarkReloop, RespondFid, RespondEi, RespondInfo,
         RespondB1, AssignSession, Kick, BuildB2, SendFails, SendAndRecord,
         ArmSilenceWatchdog, MarkAcked, Close, ReportOnClose, CancelSilenceWatchdog
<1>4. hyp' \in [Sessions -> Hypotheses]
  BY <1>3 DEF Waiting, IInv, Types, HarnessFields
<1>5. dials' \in Nat
  BY <1>2 DEF Waiting
<1> QED BY <1>1, <1>4, <1>5 DEF Waiting

LEMMA ThreadTInv ==
  ASSUME TInv, NEW s \in Sessions, Connect(s) \/ Receive(s) \/ HangUp(s) \/ Runs(s)
  PROVE  Flagged' /\ Recorded' /\ Waiting'
<1>1. Waiting'
  BY ThreadWaiting DEF TInv
<1>2. CASE ReportOnClose(s)
  <2>1. Flagged' /\ harness'.postauth = harness.postauth
    BY <1>2, ReportFlags DEF TInv, ReportOnClose
  <2>2. received' = received /\ pc[s] \notin Handling /\ Goto(s, "cancel")
    BY <1>2 DEF ReportOnClose, At, Handling
  <2>3. Busy' = Busy
    BY <2>2, BusyStays DEF TInv, IInv, Handling, Labels
  <2> QED BY <1>1, <2>1, <2>2, <2>3 DEF TInv, Recorded
<1>3. CASE ~ReportOnClose(s)
  <2>1. SameFlags
    BY <1>3, QuietFlags, ShotFlags DEF TInv, Runs
  <2>2. Flagged'
    BY <2>1 DEF TInv, Flagged, SameFlags
  <2>3. Recorded'
    BY <1>3, SteadyRecord, ReceiveRecord, FinishRecord DEF TInv, Runs
  <2> QED BY <1>1, <2>2, <2>3
<1> QED BY <1>2, <1>3

\* The steps that are not a thread's.
LEMMA OtherTInv ==
  ASSUME TInv,
         Arm \/ HeadUnitDials \/ TimerExpires \/ TimerReports \/ ConnectHeadUnitAv
  PROVE  Flagged' /\ Recorded' /\ Waiting'
<1>1. /\ UNCHANGED <<pc, received, hyp>>
      /\ Busy' = Busy
  BY DEF Arm, HeadUnitDials, TimerExpires, TimerReports, ConnectHeadUnitAv, locals, Busy
<1>2. harness \in HarnessFields /\ harness.postauth \in Nat
  BY DEF TInv, IInv, Types, HarnessFields
<1>3. CASE Arm
  <2>1. PICK h \in Hypotheses :
          harness' = NewWindow(h, harness.window_id + 1, harness.head_unit_bdaddr)
    BY <1>3 DEF Arm
  <2>2. /\ harness'.postauth = 0 /\ harness'.stall_reported = FALSE
        /\ harness'.av_out_started = FALSE
    BY <2>1 DEF NewWindow
  <2>3. Flagged'
    <3>1. (taken'.report = 1) = FALSE /\ (taken'.dial = 1) = FALSE
      BY <1>3, NothingTaken DEF Arm
    <3> QED BY <2>2, <3>1, Zenon DEF Flagged
  <2>4. Recorded'
    <3>1. Cardinality(Busy) \in Nat
      BY FS_CardinalityType DEF TInv, Recorded
    <3> QED BY <1>1, <1>2, <2>2, <3>1 DEF TInv, Recorded
  <2>5. Waiting'
    BY <1>1, <1>3 DEF Arm, TInv, Waiting
  <2> QED BY <2>3, <2>4, <2>5
<1>4. CASE HeadUnitDials
  <2>1. /\ harness'.postauth = harness.postauth
        /\ harness'.stall_reported = harness.stall_reported
        /\ harness'.av_out_started = harness.av_out_started
    BY <1>2, <1>4 DEF HeadUnitDials, Mark, HarnessFields
  <2>2. UNCHANGED <<taken, firing, dials>>
    BY <1>4 DEF HeadUnitDials, history, timers
  <2> QED BY <1>1, <2>1, <2>2 DEF TInv, Flagged, Recorded, Waiting
<1>5. CASE TimerExpires
  <2>1. UNCHANGED <<harness, taken, dials>> /\ firing' \in [Windows -> Nat]
    BY <1>5 DEF TimerExpires, history, TInv, Waiting
  <2> QED BY <1>1, <2>1 DEF TInv, Flagged, Recorded, Waiting
<1>6. CASE TimerReports
  <2>1. PICK w \in Windows : /\ firing[w] > 0 /\ firing' = [firing EXCEPT ![w] = @ - 1]
                             /\ ReportStall(w) /\ UNCHANGED dials
    BY <1>6 DEF TimerReports
  <2>2. Flagged' /\ harness'.postauth = harness.postauth
    BY <2>1, ReportFlags DEF TInv
  <2>3. firing' \in [Windows -> Nat]
    BY <2>1 DEF TInv, Waiting
  <2> QED BY <1>1, <2>1, <2>2, <2>3 DEF TInv, Recorded, Waiting
<1>7. CASE ConnectHeadUnitAv
  <2>1. Flagged' /\ harness'.postauth = harness.postauth
    BY <1>7, DialFlags DEF TInv
  <2>2. UNCHANGED firing /\ dials' \in Nat
    BY <1>7 DEF ConnectHeadUnitAv, TInv, Waiting
  <2> QED BY <1>1, <2>1, <2>2 DEF TInv, Recorded, Waiting
<1> QED BY <1>3, <1>4, <1>5, <1>6, <1>7

LEMMA NextTInv == TInv /\ [Next]_vars => TInv'
<1> SUFFICES ASSUME TInv, [Next]_vars PROVE TInv'
  OBVIOUS
<1>1. IInv'
  BY NextIInv DEF TInv
<1>2. CASE UNCHANGED vars
  BY <1>1, <1>2 DEF vars, TInv, Flagged, Recorded, Waiting, Busy
<1>3. CASE Next
  BY <1>1, <1>3, ThreadTInv, OtherTInv DEF Next, TInv
<1> QED BY <1>2, <1>3

\* Every variable keeps its type; no more packets are recorded than were received, and
\* a stall report and an AV dial leave their flags set (record_postauth, _report_stall,
\* connect_head_unit_av).
THEOREM TypeCorrect == Spec => []TypeOK
<1>1. Spec => []TInv
  BY InitTInv, NextTInv, PTL DEF Spec
<1>2. TInv => TypeOK
  <2> SUFFICES ASSUME TInv PROVE TypeOK
    OBVIOUS
  <2>1. harness.postauth \in 0..MaxPackets
    <3>1. Cardinality(Busy) \in Nat
      BY FS_CardinalityType DEF TInv, Recorded
    <3>2. harness.postauth \in Nat
      BY DEF TInv, IInv, Types, HarnessFields
    <3> QED BY <3>1, <3>2, BoundsAssumption DEF TInv, Recorded
  <2> QED BY <2>1 DEF TInv, IInv, Types, HarnessFields, Phases, Flagged, Waiting, TypeOK
<1> QED BY <1>1, <1>2, PTL
=============================================================================
