--------------------------- MODULE GuidedHarness ---------------------------
(***************************************************************************)
(* src/pi/iap1/btsdp_iap_guided.py: the Harness object that the operator's *)
(* console, the RFCOMM session threads and the timers they start share.    *)
(*                                                                         *)
(* An action is what happens under one acquisition of harness.lock, or one *)
(* unlocked access, with the thread-local code after it.  A window is what *)
(* the console arms: a hypothesis, with everything seen so far forgotten.  *)
(* All shipped hypotheses announce the app on "device_info" and dial       *)
(* outbound; they differ, for the harness, in whether DataParts is driven. *)
(* Logs, the checklist and the console's questions are left out, and so    *)
(* are the timers that only log.                                           *)
(***************************************************************************)
EXTENDS Integers, FiniteSets

CONSTANTS
  Sessions,       \* RFCOMM connections, each served by a thread of its own
  DrivesData,     \* per hypothesis: dataparts_session
  FirstArmed,     \* HYPOTHESES[0]
  Commands,       \* the kinds of packet the head unit sends
  MaxWindows,     \* bound: hypotheses armed
  MaxPackets      \* bound: packets received

Hypotheses == DOMAIN DrivesData
Windows    == 0..MaxWindows
AllCommands == {"fid_hondalink", "fid_other",  \* SetFIDTokenValues, by protocol declared
                "cert", "sig",                 \* 0x15, 0x18
                "info",                        \* REQUEST_HANDLERS: name, serial...
                "enter_ei",                    \* General 0x05
                "ei",                          \* any Extended-Interface packet
                "b1",                          \* app data: a DataParts StartAuth
                "other"}                       \* answered with a plain ack

ASSUME HypothesesAssumption == /\ DrivesData \in [Hypotheses -> BOOLEAN]
                               /\ FirstArmed \in Hypotheses
ASSUME CommandsAssumption   == Commands \subseteq AllCommands
ASSUME BoundsAssumption     == MaxWindows \in Nat /\ MaxPackets \in Nat

NoTimer == -1

VARIABLES
  harness,    \* the fields of Harness that any decision depends on
  ticking,    \* silence timers still waiting, by the window they were started in
  firing,     \* silence timers whose callback waits for the lock
  dials,      \* outbound-dial timers that have not run yet
  pc,         \* where each session's thread is
  packet,     \* the packet it handles
  hyp,        \* the hypothesis it read for that packet
  received,   \* packets received
  taken,      \* history: how often each one-shot was taken in this window
  torn,       \* history: a teardown in this window left another session open
  overtaken   \* history: the window was armed while a thread was announcing the app

vars == <<harness, ticking, firing, dials, pc, packet, hyp, received,
          taken, torn, overtaken>>
timers  == <<ticking, firing, dials>>
locals  == <<pc, packet, hyp, received>>
history == <<taken, torn, overtaken>>

NewTaken == [announce |-> 0, kick |-> 0, b2 |-> 0, dial |-> 0, report |-> 0]

(***************************************************************************)
(* What arm() leaves.  Of head_unit_bdaddr, which it keeps, only whether    *)
(* it is known is modelled.                                                *)
(***************************************************************************)
NewWindow(hypothesis, id, bdaddr) ==
  [current |-> hypothesis, window_id |-> id, phases |-> {}, postauth |-> 0,
   ea_protocols |-> "none", ea_opened |-> FALSE, ea_session_id |-> FALSE,
   dp_kicked |-> FALSE, dp_b2_sent |-> FALSE, av_out_started |-> FALSE,
   stall_reported |-> FALSE, silence_timer |-> NoTimer, head_unit_bdaddr |-> bdaddr]

Init ==
  /\ harness = NewWindow(FirstArmed, 0, FALSE)
  /\ ticking = [w \in Windows |-> 0]
  /\ firing = [w \in Windows |-> 0]
  /\ dials = 0
  /\ pc = [s \in Sessions |-> "idle"]
  /\ packet = [s \in Sessions |-> "none"]
  /\ hyp = [s \in Sessions |-> FirstArmed]
  /\ received = 0
  /\ taken = NewTaken
  /\ torn = FALSE
  /\ overtaken = FALSE

Goto(s, label) == pc' = [pc EXCEPT ![s] = label]
At(s, label)   == pc[s] = label
Mark(phase)    == harness' = [harness EXCEPT !.phases = @ \cup {phase}]
Take(shot)     == taken' = [taken EXCEPT ![shot] = @ + 1]

\* Timer.cancel() stops a timer that is still waiting.
TickingAfterCancel ==
  LET w == harness.silence_timer
  IN IF w # NoTimer /\ ticking[w] > 0 THEN [ticking EXCEPT ![w] = @ - 1] ELSE ticking

-----------------------------------------------------------------------------
(***************************************************************************)
(* The console arms a hypothesis.                                          *)
(***************************************************************************)
Arm ==
  /\ harness.window_id < MaxWindows
  /\ \E h \in Hypotheses :
       harness' = NewWindow(h, harness.window_id + 1, harness.head_unit_bdaddr)
  /\ ticking' = TickingAfterCancel
  /\ taken' = NewTaken
  /\ torn' = FALSE
  /\ overtaken' = \E s \in Sessions : At(s, "assign")
  /\ UNCHANGED <<firing, dials, locals>>

(***************************************************************************)
(* A session: connect, then receive packets one by one.  The address is    *)
(* read from the device's path, or cannot be.                              *)
(***************************************************************************)
Connect(s) ==
  /\ At(s, "idle")
  /\ \E known \in BOOLEAN : harness' = [harness EXCEPT !.head_unit_bdaddr = known]
  /\ Goto(s, "recv")
  /\ UNCHANGED <<timers, packet, hyp, received, history>>

Receive(s) ==
  /\ At(s, "recv")
  /\ received < MaxPackets
  /\ received' = received + 1
  /\ \E c \in Commands : packet' = [packet EXCEPT ![s] = c]
  /\ hyp' = [hyp EXCEPT ![s] = harness.current]
  /\ Goto(s, "track")
  /\ UNCHANGED <<harness, timers, history>>

(***************************************************************************)
(* _track_rx_phase.  A certificate that comes when mfi_status_acked is     *)
(* marked is a re-opened authentication.                                   *)
(***************************************************************************)
EnteredEi(s) ==
  IF packet[s] \in {"enter_ei", "ei"} THEN Mark("ei_mode") ELSE UNCHANGED harness

Track(s) ==
  /\ At(s, "track")
  /\ EnteredEi(s)
  /\ Goto(s, IF packet[s] \notin {"cert", "sig", "enter_ei", "other"} THEN "respond"
             ELSE IF packet[s] = "cert" /\ "mfi_status_acked" \in harness.phases
               THEN "reloop" ELSE "send")
  /\ UNCHANGED <<timers, packet, hyp, received, history>>

MarkReloop(s) ==
  /\ At(s, "reloop")
  /\ Mark("mfi_auth_reloop")
  /\ Goto(s, "send")
  /\ UNCHANGED <<timers, packet, hyp, received, history>>

-----------------------------------------------------------------------------
(***************************************************************************)
(* respond_to_packet: the packets that touch the harness.                  *)
(***************************************************************************)
\* Mutant: the session id is assigned when the protocol is declared.
AssignWhenDeclared(s) ==
  /\ At(s, "respond") /\ packet[s] \in {"fid_hondalink", "fid_other"}
  /\ harness' = [harness EXCEPT
                   !.ea_protocols = IF packet[s] = "fid_hondalink" THEN "hondalink" ELSE "other",
                   !.ea_session_id = @ \/ packet[s] = "fid_hondalink"]
  /\ Goto(s, "send")
  /\ UNCHANGED <<timers, packet, hyp, received, history>>
RespondFid(s) ==
  /\ At(s, "respond") /\ packet[s] \in {"fid_hondalink", "fid_other"}
  /\ harness' = [harness EXCEPT !.ea_protocols =
                   IF packet[s] = "fid_hondalink" THEN "hondalink" ELSE "other"]
  /\ Goto(s, "send")
  /\ UNCHANGED <<timers, packet, hyp, received, history>>

\* The dial is scheduled when no dial has started; several may be scheduled.
\* Mutant: the one-shot flag is set when the dial is scheduled.
ScheduledIsStarted ==
  /\ dials' = IF harness.av_out_started THEN dials ELSE dials + 1
  /\ harness' = [harness EXCEPT !.av_out_started = TRUE]
ScheduleDial ==
  /\ dials' = IF harness.av_out_started THEN dials ELSE dials + 1
  /\ UNCHANGED harness

RespondEi(s) ==
  /\ At(s, "respond") /\ packet[s] = "ei"
  /\ ScheduleDial
  /\ Goto(s, "send")
  /\ UNCHANGED <<ticking, firing, packet, hyp, received, history>>

(***************************************************************************)
(* take_ea_open_packets: the one-shot guard under the lock, the session id *)
(* under another acquisition of it.                                        *)
(***************************************************************************)
\* Mutant: ea_opened is not consulted.
MayAnnounceAgain == harness.ea_protocols # "none"
MayAnnounce == ~harness.ea_opened /\ harness.ea_protocols # "none"

RespondInfo(s) ==
  /\ At(s, "respond") /\ packet[s] = "info"
  /\ IF MayAnnounce
       THEN /\ harness' = [harness EXCEPT !.ea_opened = TRUE]
            /\ Goto(s, IF harness.ea_protocols = "hondalink" THEN "assign" ELSE "kick")
            /\ taken' = [taken EXCEPT !.announce =
                           IF harness.ea_protocols = "hondalink" THEN @ + 1 ELSE @]
       ELSE Goto(s, "kick") /\ UNCHANGED <<harness, taken>>
  /\ UNCHANGED <<timers, packet, hyp, received, torn, overtaken>>

AssignSession(s) ==
  /\ At(s, "assign")
  /\ harness' = [harness EXCEPT !.ea_session_id = TRUE]
  /\ Goto(s, "kick")
  /\ UNCHANGED <<timers, packet, hyp, received, history>>

(***************************************************************************)
(* take_dp_kick_packets.                                                   *)
(***************************************************************************)
Kick(s) ==
  /\ At(s, "kick")
  /\ IF DrivesData[hyp[s]] /\ ~harness.dp_kicked /\ harness.ea_session_id
       THEN harness' = [harness EXCEPT !.dp_kicked = TRUE] /\ Take("kick")
       ELSE UNCHANGED <<harness, taken>>
  /\ Goto(s, "send")
  /\ UNCHANGED <<timers, packet, hyp, received, torn, overtaken>>

(***************************************************************************)
(* handle_inbound_dataparts on a StartAuth: gated on ea_opened without the *)
(* lock; _build_b2_response has a one-shot of its own.                     *)
(***************************************************************************)
RespondB1(s) ==
  /\ At(s, "respond") /\ packet[s] = "b1"
  /\ Goto(s, IF DrivesData[hyp[s]] /\ harness.ea_opened THEN "b2" ELSE "send")
  /\ UNCHANGED <<harness, timers, packet, hyp, received, history>>

BuildB2(s) ==
  /\ At(s, "b2")
  /\ IF ~harness.dp_b2_sent /\ harness.ea_session_id
       THEN harness' = [harness EXCEPT !.dp_b2_sent = TRUE] /\ Take("b2")
       ELSE UNCHANGED <<harness, taken>>
  /\ Goto(s, "send")
  /\ UNCHANGED <<timers, packet, hyp, received, torn, overtaken>>

-----------------------------------------------------------------------------
(***************************************************************************)
(* _drain, once the replies are built: send them, then record_postauth.  A *)
(* failed send raises OSError, which ends the session.                     *)
(***************************************************************************)
PostAuth == harness.phases \cap {"mfi_status_acked", "ei_mode"} # {}
Dialled  == "av_inbound_dial" \in harness.phases
Handled(s) == packet' = [packet EXCEPT ![s] = "none"]

SendFails(s) ==
  /\ At(s, "send")
  /\ Goto(s, "close")
  /\ Handled(s)
  /\ UNCHANGED <<harness, timers, hyp, received, history>>

SendAndRecord(s) ==
  /\ At(s, "send")
  /\ harness' = [harness EXCEPT !.postauth = IF PostAuth THEN @ + 1 ELSE @]
  /\ Goto(s, "watchdog")
  /\ UNCHANGED <<timers, packet, hyp, received, history>>

\* Mutant: the timer that is restarted is not cancelled.
TickingKept == ticking
TickingBeforeRestart == TickingAfterCancel

ArmSilenceWatchdog(s) ==
  /\ At(s, "watchdog")
  /\ IF PostAuth /\ ~harness.stall_reported /\ ~Dialled
       THEN /\ ticking' = [TickingBeforeRestart EXCEPT ![harness.window_id] = @ + 1]
            /\ harness' = [harness EXCEPT !.silence_timer = harness.window_id]
       ELSE /\ ticking' = TickingBeforeRestart
            /\ harness' = [harness EXCEPT !.silence_timer = NoTimer]
  /\ Goto(s, IF packet[s] = "sig" THEN "acked" ELSE "recv")
  /\ Handled(s)
  /\ UNCHANGED <<firing, dials, hyp, received, history>>

MarkAcked(s) ==
  /\ At(s, "acked")
  /\ Mark("mfi_status_acked")
  /\ Goto(s, "recv")
  /\ UNCHANGED <<timers, packet, hyp, received, history>>

(***************************************************************************)
(* The end of the stream or an error of recv, and the finally clause.      *)
(***************************************************************************)
HangUp(s) ==
  /\ At(s, "recv")
  /\ Goto(s, "close")
  /\ UNCHANGED <<harness, timers, packet, hyp, received, history>>

\* Mutant: a teardown is not a stall.
NeverAStall == FALSE
TornDownWhileStalled == PostAuth /\ ~Dialled

Close(s) ==
  /\ At(s, "close")
  /\ Goto(s, IF TornDownWhileStalled THEN "report" ELSE "cancel")
  /\ UNCHANGED <<harness, timers, packet, hyp, received, history>>

\* _report_stall
ReportStall(window_at_arm) ==
  IF window_at_arm = harness.window_id /\ ~harness.stall_reported /\ ~Dialled
    THEN harness' = [harness EXCEPT !.stall_reported = TRUE] /\ Take("report")
    ELSE UNCHANGED <<harness, taken>>

ReportOnClose(s) ==
  /\ At(s, "report")
  /\ ReportStall(harness.window_id)
  /\ Goto(s, "cancel")
  /\ UNCHANGED <<timers, packet, hyp, received, torn, overtaken>>

CancelSilenceWatchdog(s) ==
  /\ At(s, "cancel")
  /\ ticking' = TickingAfterCancel
  /\ harness' = [harness EXCEPT !.silence_timer = NoTimer]
  /\ Goto(s, "closed")
  /\ torn' = (torn \/ \E t \in Sessions \ {s} : pc[t] \notin {"idle", "closed"})
  /\ UNCHANGED <<firing, dials, packet, hyp, received, taken, overtaken>>

-----------------------------------------------------------------------------
(***************************************************************************)
(* Timers, and the head unit's own dial.                                   *)
(***************************************************************************)
TimerExpires ==
  \E w \in Windows :
    /\ ticking[w] > 0
    /\ ticking' = [ticking EXCEPT ![w] = @ - 1]
    /\ firing' = [firing EXCEPT ![w] = @ + 1]
    /\ UNCHANGED <<harness, dials, locals, history>>

TimerReports ==
  \E w \in Windows :
    /\ firing[w] > 0
    /\ firing' = [firing EXCEPT ![w] = @ - 1]
    /\ ReportStall(w)
    /\ UNCHANGED <<ticking, dials, locals, torn, overtaken>>

\* Mutant: the one-shot is taken before the address is looked at.
DialStarted ==
  /\ harness' = [harness EXCEPT !.av_out_started = TRUE]
  /\ IF harness.av_out_started \/ ~harness.head_unit_bdaddr
       THEN UNCHANGED taken ELSE Take("dial")
DialOnce ==
  IF harness.av_out_started \/ ~harness.head_unit_bdaddr
    THEN UNCHANGED <<harness, taken>>
    ELSE harness' = [harness EXCEPT !.av_out_started = TRUE] /\ Take("dial")

ConnectHeadUnitAv ==
  /\ dials > 0
  /\ dials' = dials - 1
  /\ DialOnce
  /\ UNCHANGED <<ticking, firing, locals, torn, overtaken>>

\* data_channel_session
HeadUnitDials ==
  /\ ~Dialled
  /\ Mark("av_inbound_dial")
  /\ UNCHANGED <<timers, locals, history>>

\* Every step of a session's thread that waits for nobody.
Runs(s) ==
  \/ Track(s) \/ MarkReloop(s)
  \/ RespondFid(s) \/ RespondEi(s) \/ RespondInfo(s) \/ RespondB1(s)
  \/ AssignSession(s) \/ Kick(s) \/ BuildB2(s)
  \/ SendFails(s) \/ SendAndRecord(s) \/ ArmSilenceWatchdog(s) \/ MarkAcked(s)
  \/ Close(s) \/ ReportOnClose(s) \/ CancelSilenceWatchdog(s)

Next ==
  \/ Arm
  \/ HeadUnitDials
  \/ \E s \in Sessions : Connect(s) \/ Receive(s) \/ HangUp(s) \/ Runs(s)
  \/ TimerExpires \/ TimerReports \/ ConnectHeadUnitAv

Spec == Init /\ [][Next]_vars

\* Threads run and timers expire; the operator and the head unit owe nothing.
FairSpec ==
  /\ Spec
  /\ \A s \in Sessions : WF_vars(Runs(s))
  /\ WF_vars(TimerExpires)
  /\ WF_vars(TimerReports)
  /\ WF_vars(ConnectHeadUnitAv)

-----------------------------------------------------------------------------
(***************************************************************************)
(* Properties.                                                             *)
(***************************************************************************)

Labels == {"idle", "recv", "track", "reloop", "respond", "assign", "kick", "b2",
           "send", "watchdog", "acked", "close", "report", "cancel", "closed"}

\* Every variable keeps its type; a stall report and an AV dial leave their flags set.
TypeOK ==
  /\ harness.current \in Hypotheses
  /\ harness.window_id \in Windows
  /\ harness.phases \subseteq
       {"mfi_status_acked", "mfi_auth_reloop", "ei_mode", "av_inbound_dial"}
  /\ harness.postauth \in 0..MaxPackets
  /\ harness.ea_protocols \in {"none", "hondalink", "other"}
  /\ harness.head_unit_bdaddr \in BOOLEAN
  /\ harness.silence_timer \in Windows \cup {NoTimer}
  /\ harness.stall_reported = (taken.report = 1)
  /\ harness.av_out_started = (taken.dial = 1)
  /\ ticking \in [Windows -> Nat] /\ firing \in [Windows -> Nat] /\ dials \in Nat
  /\ pc \in [Sessions -> Labels]
  /\ hyp \in [Sessions -> Hypotheses]

\* Whatever overlaps, and however often a connection is retried, each one-shot
\* is taken at most once per window: the app is announced, the DataParts
\* handshake kicked and answered, the head unit dialled, the stall reported.
OneShots == \A shot \in DOMAIN taken : taken[shot] <= 1

\* DataParts frames are addressed to an app the head unit was offered in this
\* window: neither the kick nor the answer to a StartAuth is taken without the
\* announcement, whatever sessions overlap and whatever a declaration changes
\* in between.  The exception is a window armed between the announcement and
\* its session id, which then lands in the new window.
DataAfterAnnouncement ==
  taken.kick + taken.b2 > 0 => taken.announce = 1 \/ overtaken

\* At most one silence timer is waiting, and it is the one the harness can
\* still cancel: no thread's restart or teardown leaves another's behind.
NoOrphanTimer ==
  \A w \in Windows : /\ ticking[w] <= 1
                     /\ ticking[w] = 1 => harness.silence_timer = w

\* Once a post-auth command is on record, the stall is reported, or the head
\* unit has dialled, or the operator has armed another window: teardowns,
\* reconnections, failed sends and restarted timers in between lose no report.
\* A teardown while another session is open does lose it: it cancels that
\* session's timer.
StallNamed ==
  \A w \in Windows :
    (harness.window_id = w /\ harness.postauth > 0)
      ~> (harness.window_id # w \/ harness.stall_reported \/ Dialled \/ torn)

\* Whichever sessions schedule the dial, and however often, an Extended-Interface
\* packet that is answered gets the head unit dialled, or the operator has armed
\* another window, or the session that connected last has left its address unknown:
\* a dial that finds no address leaves a later packet's to be made.  (EI mode itself
\* promises no dial: General 0x05 marks the phase and schedules nothing.)
DialledOnEi ==
  \A w \in Windows :
    (harness.window_id = w /\ \E s \in Sessions : At(s, "respond") /\ packet[s] = "ei")
      ~> (harness.window_id # w \/ taken.dial = 1 \/ ~harness.head_unit_bdaddr)

\* "If the head unit stays silent STALL_SILENCE_S after its last command,
\* _report_stall names the command it's waiting on": the signature, which the
\* harness has acked, can be that last command.
SilenceIsReported ==
  \A w \in Windows :
    (harness.window_id = w /\ "mfi_status_acked" \in harness.phases)
      ~> (harness.window_id # w \/ harness.stall_reported \/ Dialled)
=============================================================================
