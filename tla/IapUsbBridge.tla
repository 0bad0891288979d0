---------------------------- MODULE IapUsbBridge ----------------------------
(***************************************************************************)
(* src/pi/iap-usb/iap_usb_bridge.py: iAP1 over HID reports.  The read loop *)
(* reassembles what the head unit sends and answers it, the opener loop    *)
(* prompts the head unit until something arrives, and each opener is       *)
(* written by a thread of its own to the same device.                      *)
(*                                                                         *)
(* The device (external) delivers the head unit's reports in order, with   *)
(* their ReportID when they come over the interrupt endpoint and without   *)
(* it when they come by SET_REPORT, and queues ours until the head unit    *)
(* collects them; a write to a full queue is retried and then given up.    *)
(* The head unit (external) sends packets whenever it likes and            *)
(* reassembles as the bridge does.                                         *)
(***************************************************************************)
EXTENDS GuidedPolicy, HidFraming

CONSTANTS
  Bearers,      \* "interrupt_out" or "set_report"
  InPackets,    \* what the head unit may send
  Openers,      \* IAP_USB_OPENER: the openers that are cycled through
  FifoSize,     \* reports the device queues
  MaxPackets,   \* bound: packets the head unit sends
  MaxOpeners    \* rounds * openers, bounded

ASSUME BridgeAssumption ==
  /\ Bearers \subseteq {"interrupt_out", "set_report"}
  /\ InPackets \subseteq Seq(0..255)
  /\ Openers \in Seq({"requestidentify", "identify", "startidps"})
  /\ FifoSize \in Nat \ {0} /\ MaxPackets \in Nat /\ MaxOpeners \in Nat

VARIABLES
  bearer,
  inbox,       \* reports delivered, not read
  received,    \* packets the head unit has sent
  intended,    \* history: the session that these leave, each handled whole and once
  reader,      \* the read loop: "alive" or "dead"
  reasm,       \* FrameReassembler's buffer
  session,     \* the session's fields
  got_rx,
  replies,     \* the read loop's packets being sent
  opener,      \* the opener loop: "check", "start" or "done"
  opened,      \* openers started
  senders,     \* their threads' packets being sent
  fifo,        \* reports queued in the device
  hu_buf,      \* the head unit's reassembly
  strays,      \* history: openers started after something was received
  split        \* history: a report was queued between two of another packet

vars == <<bearer, inbox, received, intended, reader, reasm, session, got_rx, replies,
          opener, opened, senders, fifo, hu_buf, strays, split>>
readerVars == <<reader, reasm, session, got_rx>>
openerVars == <<opener, opened, strays>>

Init ==
  /\ bearer \in Bearers
  /\ inbox = <<>> /\ received = 0 /\ intended = NewSession
  /\ reader = "alive" /\ reasm = <<>> /\ session = NewSession /\ got_rx = FALSE
  /\ replies = <<>>
  /\ opener = "check" /\ opened = 0 /\ senders = <<>>
  /\ fifo = <<>> /\ hu_buf = <<>>
  /\ strays = 0 /\ split = FALSE

-----------------------------------------------------------------------------
(***************************************************************************)
(* _trim_iap: the length byte cuts the padding off; no checksum is read,   *)
(* and the command is one byte whatever the lingo.                         *)
(***************************************************************************)
NoPacket == [lingo |-> 256]

trim_iap(frame) ==
  LET i    == Find(frame, SYNC_SHORT)
      large == frame[i + 1] = 0
      body == IF large THEN Slice(frame, i + 4, i + 3 + U16(frame[i + 2], frame[i + 3]))
              ELSE Slice(frame, i + 2, i + 1 + frame[i + 1])
  IN CASE i = 0 \/ Len(frame) < i + 1 -> NoPacket
       [] i > 0 /\ Len(frame) >= i + 1 /\ large /\ Len(frame) < i + 3 -> NoPacket
       [] OTHER -> IF Len(body) < 2 THEN NoPacket
                   ELSE Packet(body[1], body[2], Drop(body, 2))

-----------------------------------------------------------------------------
(***************************************************************************)
(* respond: the ported baseline.                                           *)
(***************************************************************************)
take_ea_open(st) ==
  IF st.ea_opened \/ st.ea_protocols = <<>> THEN Answer(st, <<>>)
  ELSE LET opening == Opening(st.ea_protocols, <<HONDALINK>>)
       IN Answer([st EXCEPT !.ea_opened = TRUE, !.ea_session_id = opening.kept], opening.out)

\* Mutant: an app session is taken for granted.
AnySession(st) == TRUE
HasSession(st) == st.ea_session_id # NoSession

DP_OPCODE_SWEEP == <<65, 66, 64, 67>>

take_dp_kick(st) ==
  IF st.dp_kicked \/ ~HasSession(st) THEN Answer(st, <<>>)
  ELSE LET kick(op) == <<build_ipod_data_transfer(st.ea_session_id, SessionStart, op),
                         build_ipod_data_transfer(st.ea_session_id, AuthRequest, op)>>
       IN Answer([st EXCEPT !.dp_kicked = TRUE],
                 FoldLeft(LAMBDA out, op : out \o kick(op), <<>>, DP_OPCODE_SWEEP))

build_b2(st, b1) ==
  IF st.dp_b2_sent \/ ~HasSession(st) THEN Answer(st, <<>>)
  ELSE Answer([st EXCEPT !.dp_b2_sent = TRUE],
              <<build_ipod_data_transfer(st.ea_session_id, build_b2_frame(b1), 65)>>)

handle_inbound(st, payload) ==
  FoldLeft(LAMBDA acc, frame :
             IF classify(frame) = "StartAuth"
               THEN LET b2 == build_b2(acc.st, frame) IN Answer(b2.st, acc.out \o b2.out)
               ELSE acc,
           Answer(st, <<>>), FramesIn(payload))

\* Mutant: protocols once declared are kept.
FirstProtocols(st, protocols) ==
  IF st.ea_protocols # <<>> THEN st ELSE [st EXCEPT !.ea_protocols = protocols]
LatestProtocols(st, protocols) ==
  IF protocols = <<>> THEN st ELSE [st EXCEPT !.ea_protocols = protocols]

RespondFidTokens(st, payload) ==
  IF fid_token_values_raises(payload) THEN Crash(st)
  ELSE LET fields == parse_fid_token_values(payload)
       IN Answer(LatestProtocols(st, parse_ea_protocols(fields)),
                 <<build_ret_fid_token_value_acks(SubSeq(payload, 1, 2), fields),
                   build_get_dev_authentication_info>>)

\* Mutant: the final section is acked without its transID.
RespondCertPlain(payload) ==
  IF NonFinal(payload) THEN <<General(2, CertTransPrefix(payload) \o <<0, 21>>)>>
  ELSE <<General(22, <<0>>),
         General(23, CertTransPrefix(payload) \o Challenge(payload) \o <<1>>)>>
RespondCert(payload) ==
  IF NonFinal(payload) THEN <<General(2, CertTransPrefix(payload) \o <<0, 21>>)>>
  ELSE <<General(22, CertTransPrefix(payload) \o <<0>>),
         General(23, CertTransPrefix(payload) \o Challenge(payload) \o <<1>>)>>

RespondRequest(st, cmd) ==
  LET open == take_ea_open(st)
      kick == take_dp_kick(open.st)
  IN Answer(kick.st, <<REQUEST_HANDLERS[cmd]>> \o open.out \o kick.out)

RespondGeneral(st, cmd, payload) ==
  CASE cmd = 5  -> Answer(st, <<build_ack(0, 5)>>)
    [] cmd = 56 -> Answer(st, <<build_ack(0, 56)>>)
    [] cmd = 57 -> RespondFidTokens(st, payload)
    [] cmd = 59 -> IF Len(payload) < 2 THEN Crash(st)
                   ELSE Answer(st, <<build_idps_status(SubSeq(payload, 1, 2), 0)>>)
    [] cmd = 21 -> Answer(st, RespondCert(payload))
    [] cmd = 24 -> Answer(st, <<General(25, TransPrefix(payload) \o <<0>>)>>)
    [] cmd \in {75, 15} /\ payload = <<>> -> Crash(st)
    [] cmd = 75 /\ payload # <<>> ->
         Answer(st, <<General(76, TransPrefix(payload) \o <<Last(payload)>> \o Zeros(6)
                                    \o <<IF Last(payload) = GENERAL THEN 32 ELSE 0, 0>>)>>)
    [] cmd = 15 /\ payload # <<>> ->
         Answer(st, <<response_lingo_protocol_version(Last(payload))>>)
    [] cmd = 19 -> Answer(st, <<build_ack(0, 19)>>)
    [] cmd = 17 -> Answer(st, <<General(18, TransOrZero(payload) \o <<2, 0>>)>>)
    [] cmd \in DOMAIN REQUEST_HANDLERS -> RespondRequest(st, cmd)
    [] OTHER -> Answer(st, <<General(2, TransOrZero(payload) \o <<0, cmd>>)>>)

\* The Extended-Interface commands here are the first byte of two: 0x00.
RespondEi(cmd, payload) ==
  <<IF cmd \in DOMAIN EI_GET_RETURNS THEN EiReturn(cmd, payload) ELSE EiAck(cmd, payload)>>

respond(st, p) ==
  LET scanned == IF p.lingo = GENERAL /\ st.ea_opened /\ p.cmd \notin {21, 24}
                   THEN handle_inbound(st, p.payload) ELSE Answer(st, <<>>)
      answer  == CASE p.lingo = EXTENDED_INTERFACE ->
                        Answer(scanned.st, RespondEi(p.cmd, p.payload))
                   [] p.lingo = GENERAL -> RespondGeneral(scanned.st, p.cmd, p.payload)
                   [] OTHER -> Answer(scanned.st, <<>>)
  IN [answer EXCEPT !.out = scanned.out \o @]

-----------------------------------------------------------------------------
(***************************************************************************)
(* Sending: the reports of a packet one by one.  With the queue full for   *)
(* all retries the rest of the packet is given up.                         *)
(***************************************************************************)
Outgoing(bytes) == [packet |-> bytes, reports |-> encode_frame(bytes, "in"), begun |-> FALSE]

Queued(sending) == Append(fifo, [packet |-> sending.packet, report |-> Head(sending.reports)])

\* What is left of a packet after its first report.
Rest(sending) == [sending EXCEPT !.reports = Tail(@), !.begun = TRUE]

\* Mutant: a write to a full queue is retried for ever.
NeverGivesUp == FALSE
GivesUp      == Len(fifo) = FifoSize

Begun(sendings) == \E i \in DOMAIN sendings : sendings[i].begun

ReaderWrites ==
  /\ replies # <<>> /\ Len(fifo) < FifoSize
  /\ fifo' = Queued(Head(replies))
  /\ replies' = IF Len(Head(replies).reports) = 1 THEN Tail(replies)
                ELSE <<Rest(Head(replies))>> \o Tail(replies)
  /\ split' = (split \/ Begun(senders))
  /\ UNCHANGED <<bearer, inbox, received, intended, readerVars, openerVars, senders, hu_buf>>

ReaderGivesUp ==
  /\ replies # <<>> /\ GivesUp
  /\ replies' = Tail(replies)
  /\ UNCHANGED <<bearer, inbox, received, intended, readerVars, openerVars, senders, fifo,
                 hu_buf, split>>

SenderWrites ==
  /\ Len(fifo) < FifoSize
  /\ \E i \in DOMAIN senders :
       /\ fifo' = Queued(senders[i])
       /\ senders' = IF Len(senders[i].reports) = 1 THEN RemoveAt(senders, i)
                     ELSE ReplaceAt(senders, i, Rest(senders[i]))
       /\ split' = (split \/ Begun(replies) \/ Begun(RemoveAt(senders, i)))
  /\ UNCHANGED <<bearer, inbox, received, intended, readerVars, openerVars, replies, hu_buf>>

SenderGivesUp ==
  /\ GivesUp
  /\ \E i \in DOMAIN senders : senders' = RemoveAt(senders, i)
  /\ UNCHANGED <<bearer, inbox, received, intended, readerVars, openerVars, replies, fifo,
                 hu_buf, split>>

-----------------------------------------------------------------------------
(***************************************************************************)
(* read_loop: the reassembled frame first; when there is none, or it is no *)
(* packet, the report itself.                                              *)
(***************************************************************************)
Pushed == push(reasm, Head(inbox))
\* Mutant: only the report itself is looked at.
ReportOnly == trim_iap(Head(inbox))

Incoming == IF trim_iap(Pushed.frame) # NoPacket THEN trim_iap(Pushed.frame)
            ELSE trim_iap(Head(inbox))

\* read returns a report.
TakesReport ==
  /\ reader = "alive" /\ replies = <<>> /\ inbox # <<>>
  /\ inbox' = Tail(inbox)

ReadReport ==
  /\ TakesReport
  /\ LET packet == Incoming
         answer == respond(session, packet)
     IN /\ reasm' = Pushed.buf
        /\ IF packet = NoPacket THEN UNCHANGED <<got_rx, session, reader, replies>>
           ELSE /\ got_rx' = TRUE
                /\ session' = answer.st
                /\ reader' = IF answer.raises THEN "dead" ELSE "alive"
                /\ replies' = [k \in DOMAIN answer.out |-> Outgoing(Encoded(answer.out[k]))]
  /\ UNCHANGED <<bearer, received, intended, openerVars, senders, fifo, hu_buf, split>>

(***************************************************************************)
(* opener_loop: got_rx is read, then the opener's thread is started.       *)
(***************************************************************************)
OpenerPacket(name) ==
  CASE name = "requestidentify" -> build_packet(GENERAL, 0, <<>>)
    [] name = "identify" -> build_packet(GENERAL, 19, <<0, 0, 0, 29>> \o Zeros(8))
    [] name = "startidps" -> build_packet(GENERAL, 56, <<0, 0>>)

\* Mutant: got_rx is read once, before the first opener.
ReadsOnce    == got_rx /\ opened = 0
StopsOpening == got_rx

OpenerChecks ==
  /\ opener = "check"
  /\ opener' = IF opened = MaxOpeners \/ Openers = <<>> \/ StopsOpening THEN "done"
               ELSE "start"
  /\ UNCHANGED <<bearer, inbox, received, intended, readerVars, replies, opened, senders,
                 fifo, hu_buf, strays, split>>

OpenerStarts ==
  /\ opener = "start"
  /\ senders' = Append(senders, Outgoing(OpenerPacket(Openers[1 + (opened % Len(Openers))])))
  /\ opened' = opened + 1
  /\ strays' = strays + IF got_rx THEN 1 ELSE 0
  /\ opener' = "check"
  /\ UNCHANGED <<bearer, inbox, received, intended, readerVars, replies, fifo, hu_buf, split>>

-----------------------------------------------------------------------------
(***************************************************************************)
(* The head unit (external).                                               *)
(***************************************************************************)
Delivered(bytes) ==
  LET reports == encode_frame(bytes, "out")
  IN IF bearer = "interrupt_out" THEN reports
     ELSE [k \in DOMAIN reports |-> Tail(reports[k])]

HeadUnitSends ==
  /\ received < MaxPackets
  /\ received' = received + 1
  /\ \E bytes \in InPackets :
       /\ inbox' = inbox \o Delivered(bytes)
       /\ intended' = IF trim_iap(bytes) = NoPacket THEN intended
                      ELSE respond(intended, trim_iap(bytes)).st
  /\ UNCHANGED <<bearer, readerVars, replies, openerVars, senders, fifo, hu_buf, split>>

Heard == push(hu_buf, Head(fifo).report)

HeadUnitCollects ==
  /\ fifo # <<>>
  /\ hu_buf' = Heard.buf
  /\ fifo' = Tail(fifo)
  /\ UNCHANGED <<bearer, inbox, received, intended, readerVars, replies, openerVars, senders,
                 split>>

ReaderSends == ReaderWrites \/ ReaderGivesUp
Reader == ReadReport \/ ReaderSends
Sender == SenderWrites \/ SenderGivesUp
Opener == OpenerChecks \/ OpenerStarts

Next == Reader \/ Sender \/ Opener \/ HeadUnitSends \/ HeadUnitCollects

Spec == Init /\ [][Next]_vars

\* The read loop runs: a report that can be taken is (TakesReport holds of no
\* step but ReadReport), a report that can be written is, or is given up.  The
\* other threads may be held up for ever, the head unit may send and collect nothing.
FairSpec == Spec /\ WF_inbox(TakesReport) /\ WF_vars(ReaderSends)

-----------------------------------------------------------------------------
(***************************************************************************)
(* Properties.                                                             *)
(***************************************************************************)

\* Every variable keeps its type, and the one-shots come in order: no kick and no
\* AuthResponse but for a session that was opened.
TypeOK ==
  /\ received \in 0..MaxPackets /\ opened \in 0..MaxOpeners
  /\ reader \in {"alive", "dead"} /\ opener \in {"check", "start", "done"}
  /\ Len(fifo) <= FifoSize
  /\ reader = "dead" => got_rx
  /\ session.dp_kicked \/ session.dp_b2_sent => session.ea_session_id # NoSession
  /\ session.ea_session_id # NoSession => session.ea_opened

\* "stopping the instant the head unit replies": one opener at most is started
\* after the first packet was received, the one whose check came before it.
OneStrayOpener == strays <= 1

\* Whatever packets were given up half sent, a frame that the head unit has put
\* together is the packet whose report completes it, unless reports of two
\* packets were queued in turns.
WholeFrames ==
  [][fifo # <<>> /\ fifo' = Tail(fifo) /\ Heard.frame # <<>>
       => split \/ IsPrefix(Head(fifo).packet, Heard.frame)]_vars

\* The packet that is taken is answered as the guided harness would answer it.
AnswersAsBaseline ==
  LET p        == Incoming
      baseline == respond_to_packet(A2_EA_SWEEP, session, p)
  IN  p.lingo = GENERAL /\ p.cmd # 5
        => /\ session' = baseline.st
           /\ (reader' = "dead") = baseline.raises
           /\ [k \in DOMAIN replies' |-> replies'[k].packet]
                = [k \in DOMAIN baseline.out |-> Encoded(baseline.out[k])]

\* "respond() emits byte-identical replies to the BT baseline": a packet of the
\* General lingo leaves the session and the replies that the guided harness would
\* leave under A2_EA_SWEEP, EnterExtendedInterfaceMode excepted.  (A step that
\* changes the inbox and is no arrival takes a report.)
AsBaseline == [][inbox' # inbox /\ received' = received => AnswersAsBaseline]_vars

\* Over the interrupt endpoint the first report of a long packet is answered by
\* itself, cut short, and the whole packet after it: that leaves no trace.  Once all
\* has been read the session is the one that each packet, answered whole and once,
\* leaves: its latest protocols, and no one-shot more or less.  This is claimed of
\* packets whose reports between the first and the last hold no 0x55, which would
\* be taken for a packet of its own, and while the read loop lives.
HandledOnce ==
  bearer = "interrupt_out" /\ inbox = <<>> /\ reader = "alive" => session = intended

\* "retry briefly, then give up rather than deadlock": a head unit that collects
\* nothing does not keep the read loop from the packets that are waiting.
ReaderComesBack ==
  (inbox # <<>> \/ replies # <<>>)
    ~> (reader = "dead" \/ (inbox = <<>> /\ replies = <<>>))

\* "This makes the bridge robust to the exact report/link framing": no framing of
\* the head unit's packets ends the read loop.
RobustToFraming == reader # "dead"
=============================================================================
