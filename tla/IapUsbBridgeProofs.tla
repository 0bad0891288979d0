------------------------- MODULE IapUsbBridgeProofs -------------------------
(***************************************************************************)
(* Theorems about IapUsbBridge, for any report definitions, openers,       *)
(* packets and length of the device's queue: openers stray once, the read  *)
(* loop answers as the Bluetooth harness does, every variable keeps its    *)
(* type whatever the head unit sends, and a packet none of whose reports   *)
(* was queued between two of another's is held whole by the head unit.     *)
(***************************************************************************)
EXTENDS IapUsbBridge, ParsingLemmas

\* The opener that is about to start is the first stray one, if it is one; after
\* it got_rx is set for good, and the next check ends the loop.
StrayInv ==
  /\ strays \in {0, 1}
  /\ strays = 1 => got_rx
  /\ opener = "start" => strays = 0

\* What has been received is never forgotten, and only the opener loop opens.
LEMMA OthersKeep ==
  ASSUME StrayInv,
         Reader \/ Sender \/ HeadUnitSends \/ HeadUnitCollects \/ UNCHANGED vars
  PROVE  StrayInv'
<1>1. UNCHANGED <<opener, strays>>
  BY DEF Reader, ReaderSends, ReadReport, ReaderWrites, ReaderGivesUp, Sender, SenderWrites,
         SenderGivesUp, HeadUnitSends, HeadUnitCollects, openerVars, vars
<1>2. got_rx' = got_rx \/ got_rx' = TRUE
  <2>1. CASE ReadReport
    BY <2>1 DEF ReadReport
  <2>2. CASE ~ReadReport
    BY <2>2 DEF Reader, ReaderSends, ReaderWrites, ReaderGivesUp, Sender, SenderWrites,
                SenderGivesUp, HeadUnitSends, HeadUnitCollects, readerVars, vars
  <2> QED BY <2>1, <2>2
<1> QED BY <1>1, <1>2 DEF StrayInv

LEMMA ChecksKeep == ASSUME StrayInv, OpenerChecks PROVE StrayInv'
<1>1. UNCHANGED <<got_rx, strays>>
  BY DEF OpenerChecks, readerVars
<1>2. opener' = "start" => ~got_rx
  BY DEF OpenerChecks, StopsOpening
<1> QED BY <1>1, <1>2 DEF StrayInv

LEMMA StartsKeep == ASSUME StrayInv, OpenerStarts PROVE StrayInv'
<1>1. got_rx' = got_rx /\ opener' = "check" /\ opener = "start"
      /\ strays' = strays + IF got_rx THEN 1 ELSE 0
  BY DEF OpenerStarts, readerVars
<1> QED BY <1>1 DEF StrayInv

\* At most one opener is started after the head unit's first packet was received
\* (opener_loop, _on_frame).
THEOREM OneOpenerStrays == Spec => []OneStrayOpener
<1>1. Init => StrayInv
  <2> SUFFICES ASSUME Init PROVE StrayInv
    OBVIOUS
  <2>1. got_rx = FALSE /\ strays = 0 /\ opener = "check"
    BY DEF Init
  <2> QED BY <2>1 DEF StrayInv
<1>2. StrayInv /\ [Next]_vars => StrayInv'
  BY OthersKeep, ChecksKeep, StartsKeep DEF Next, Opener
<1>3. StrayInv => OneStrayOpener
  BY DEF StrayInv, OneStrayOpener
<1> QED BY <1>1, <1>2, <1>3, PTL DEF Spec

-----------------------------------------------------------------------------
(***************************************************************************)
(* The baseline: respond is the guided harness's policy under the          *)
(* hypothesis A2_EA_SWEEP, for every session and packet.                   *)
(***************************************************************************)
LEMMA Baseline ==
  /\ A2_EA_SWEEP.start_idps = "accept" /\ A2_EA_SWEEP.run_idps_body /\ A2_EA_SWEEP.init_auth
  /\ A2_EA_SWEEP.opt11_mode = "ret_max_payload"
  /\ A2_EA_SWEEP.general_options = 32 /\ A2_EA_SWEEP.other_lingo_options = 0
  /\ A2_EA_SWEEP.echo_transid /\ A2_EA_SWEEP.auth_trigger = "after_fidtokens"
  /\ A2_EA_SWEEP.force_idps_success /\ A2_EA_SWEEP.cert_section_mode = "ack_transid"
  /\ A2_EA_SWEEP.auth_transid /\ ~A2_EA_SWEEP.defer_challenge
  /\ A2_EA_SWEEP.challenge_retry_byte /\ A2_EA_SWEEP.autoack_unknown
  /\ A2_EA_SWEEP.ea_open_session /\ A2_EA_SWEEP.ea_open_protocols = <<HONDALINK>>
  /\ A2_EA_SWEEP.ea_open_trigger = "device_info"
  /\ A2_EA_SWEEP.dataparts_session /\ A2_EA_SWEEP.dp_ipod_transfer_cmd = 65
  /\ A2_EA_SWEEP.dp_opcode_sweep = <<65, 66, 64, 67>> /\ A2_EA_SWEEP.dp_auto_b2
BY DEF A2_EA_SWEEP, BASE, FULL_INIT, Hypothesis

LEMMA Pair == ASSUME NEW e, NEW f PROVE Append(<<e>>, f) = <<e, f>> /\ <<e>> \o <<f>> = <<e, f>>
<1> DEFINE S == {e, f}
           s == Append(<<e>>, f)
           t == <<e, f>>
           u == <<e>> \o <<f>>
<1>1. s \in Seq(S) /\ t \in Seq(S) /\ u \in Seq(S)
  OBVIOUS
<1>2. Len(s) = 2 /\ Len(t) = 2 /\ Len(u) = 2
  OBVIOUS
<1>3. s[1] = t[1] /\ s[2] = t[2] /\ u[1] = t[1] /\ u[2] = t[2]
  OBVIOUS
<1> HIDE DEF S, s, t, u
<1>4. \A i \in 1..2 : s[i] = t[i] /\ u[i] = t[i]
  BY <1>3
<1>5. s = t
  BY <1>1, <1>2, <1>4, SeqEqual
<1>6. u = t
  BY <1>1, <1>2, <1>4, SeqEqual
<1> QED BY <1>5, <1>6 DEF s, t, u

LEMMA Alone == ASSUME NEW e PROVE <<e>> \o <<>> = <<e>>
<1>1. <<e>> \in Seq({e})
  OBVIOUS
<1> QED BY <1>1, ConcatEmptySeq

-----------------------------------------------------------------------------
(***************************************************************************)
(* The app session.                                                        *)
(***************************************************************************)
LEMMA OpenAsBaseline ==
  ASSUME NEW st PROVE take_ea_open(st) = take_ea_open_packets(A2_EA_SWEEP, st)
BY Baseline DEF take_ea_open, take_ea_open_packets

LEMMA KickAsBaseline ==
  ASSUME NEW st PROVE take_dp_kick(st) = take_dp_kick_packets(A2_EA_SWEEP, st)
<1>1. <<65, 66, 64, 67>> # <<>>
  OBVIOUS
<1> QED
  BY <1>1, Baseline, Zenon DEF take_dp_kick, take_dp_kick_packets, HasSession, DP_OPCODE_SWEEP

LEMMA B2AsBaseline ==
  ASSUME NEW st, NEW b1 PROVE build_b2(st, b1) = build_b2_response(A2_EA_SWEEP, st, b1)
BY Baseline DEF build_b2, build_b2_response, HasSession

\* What one DataParts frame does is the same, and so is what all of them do.
LEMMA DataAsBaseline ==
  ASSUME NEW st, NEW payload
  PROVE  handle_inbound(st, payload) = handle_inbound_dataparts(A2_EA_SWEEP, st, payload)
<1> DEFINE ours(acc, frame) ==
             IF classify(frame) = "StartAuth"
               THEN LET b2 == build_b2(acc.st, frame) IN Answer(b2.st, acc.out \o b2.out)
               ELSE acc
           theirs(acc, frame) ==
             IF classify(frame) = "StartAuth" /\ A2_EA_SWEEP.dp_auto_b2
               THEN LET b2 == build_b2_response(A2_EA_SWEEP, acc.st, frame)
                    IN  Answer(b2.st, acc.out \o b2.out)
               ELSE acc
<1>1. \A acc, frame : ours(acc, frame) = theirs(acc, frame)
  BY B2AsBaseline, Baseline
<1>2. handle_inbound(st, payload) = FoldLeft(ours, Answer(st, <<>>), FramesIn(payload))
  BY DEF handle_inbound
<1>3. handle_inbound_dataparts(A2_EA_SWEEP, st, payload)
        = FoldLeft(theirs, Answer(st, <<>>), FramesIn(payload))
  BY DEF handle_inbound_dataparts
<1> HIDE DEF ours, theirs
<1>4. FoldLeft(ours, Answer(st, <<>>), FramesIn(payload))
        = FoldLeft(theirs, Answer(st, <<>>), FramesIn(payload))
  BY <1>1, Zenon DEF FoldLeft, MapThenFoldSet
<1> QED BY <1>2, <1>3, <1>4

-----------------------------------------------------------------------------
(***************************************************************************)
(* The General lingo, command by command.                                  *)
(***************************************************************************)
Agree(st, cmd, payload) ==
  /\ RespondGeneral(st, cmd, payload) = GuidedGeneral(A2_EA_SWEEP, st, cmd, payload)
  /\ RespondGeneral(st, cmd, payload).raises \in BOOLEAN

LEMMA FidTokensAgree ==
  ASSUME NEW st, NEW payload
  PROVE  RespondFidTokens(st, payload) = GuidedFidTokens(A2_EA_SWEEP, st, payload)
<1> DEFINE acks == build_ret_fid_token_value_acks(SubSeq(payload, 1, 2),
                                                  parse_fid_token_values(payload))
<1>1. <<acks>> \o <<build_get_dev_authentication_info>>
        = <<acks, build_get_dev_authentication_info>>
  <2> HIDE DEF acks
  <2> QED BY Pair
<1> QED BY <1>1, Baseline, Zenon DEF RespondFidTokens, GuidedFidTokens, LatestProtocols

LEMMA CertAgree ==
  ASSUME NEW payload PROVE RespondCert(payload) = GuidedCert(A2_EA_SWEEP, payload)
<1> DEFINE prefix    == CertTransPrefix(payload)
           ack       == General(22, prefix \o <<0>>)
           challenge == General(23, prefix \o Challenge(payload) \o <<1>>)
<1>1. Append(<<ack>>, challenge) = <<ack, challenge>>
  <2> HIDE DEF ack, challenge
  <2> QED BY Pair
<1>2. CASE NonFinal(payload)
  BY <1>2, Baseline DEF RespondCert, GuidedCert
<1>3. CASE ~NonFinal(payload)
  BY <1>1, <1>3, Baseline, Zenon DEF RespondCert, GuidedCert
<1> QED BY <1>2, <1>3

LEMMA GeneralAgrees ==
  ASSUME NEW st, NEW cmd, cmd # 5, NEW payload PROVE Agree(st, cmd, payload)
<1>0. DOMAIN REQUEST_HANDLERS = {7, 9, 11, 13}
  BY DEF REQUEST_HANDLERS
<1> DEFINE ours   == RespondGeneral(st, cmd, payload)
           theirs == GuidedGeneral(A2_EA_SWEEP, st, cmd, payload)
<1>1. CASE cmd = 56
  <2>1. ours = Answer(st, <<build_ack(0, 56)>>)
    BY <1>0, <1>1 DEF RespondGeneral
  <2>2. theirs = Answer(st, <<build_ack(0, 56)>>)
    BY <1>0, <1>1, Baseline DEF GuidedGeneral, GuidedStartIdps
  <2> QED BY <2>1, <2>2 DEF Agree, Answer, Crash
<1>2. CASE cmd = 57
  <2>1. ours = RespondFidTokens(st, payload)
    BY <1>0, <1>2 DEF RespondGeneral
  <2>2. theirs = GuidedFidTokens(A2_EA_SWEEP, st, payload)
    BY <1>0, <1>2, Baseline DEF GuidedGeneral
  <2>3. RespondFidTokens(st, payload).raises \in BOOLEAN
    BY DEF RespondFidTokens, Answer, Crash
  <2> QED BY <2>1, <2>2, <2>3, FidTokensAgree DEF Agree
<1>3. CASE cmd = 59
  <2>1. <<build_idps_status(SubSeq(payload, 1, 2), 0)>> \o <<>>
          = <<build_idps_status(SubSeq(payload, 1, 2), 0)>>
    BY Alone
  <2>2. ours = IF Len(payload) < 2 THEN Crash(st)
               ELSE Answer(st, <<build_idps_status(SubSeq(payload, 1, 2), 0)>>)
    BY <1>0, <1>3 DEF RespondGeneral
  <2>3. theirs = GuidedEndIdps(A2_EA_SWEEP, st, payload)
    BY <1>0, <1>3, Baseline DEF GuidedGeneral
  <2>4. theirs = ours
    BY <2>1, <2>2, <2>3, Baseline DEF GuidedEndIdps
  <2> QED BY <2>2, <2>4 DEF Agree, Answer, Crash
<1>4. CASE cmd = 21
  <2>1. ours = Answer(st, RespondCert(payload))
    BY <1>0, <1>4 DEF RespondGeneral
  <2>2. theirs = Answer(st, GuidedCert(A2_EA_SWEEP, payload))
    BY <1>0, <1>4, Baseline DEF GuidedGeneral
  <2>3. ours = theirs
    BY <2>1, <2>2, CertAgree
  <2> QED BY <2>1, <2>3 DEF Agree, Answer
<1>5. CASE cmd = 24
  <2>1. ours = Answer(st, <<General(25, TransPrefix(payload) \o <<0>>)>>)
    BY <1>0, <1>5 DEF RespondGeneral
  <2>2. theirs = Answer(st, <<General(25, TransPrefix(payload) \o <<0>>)>>)
    BY <1>0, <1>5, Baseline DEF GuidedGeneral, GuidedSignature
  <2> QED BY <2>1, <2>2 DEF Agree, Answer, Crash
<1>6. CASE cmd \in {75, 15} /\ payload = <<>>
  <2>1. ours = Crash(st)
    BY <1>0, <1>6 DEF RespondGeneral
  <2>2. theirs = Crash(st)
    BY <1>0, <1>6, Baseline DEF GuidedGeneral
  <2> QED BY <2>1, <2>2 DEF Agree, Answer, Crash
<1>7. CASE cmd = 75 /\ payload # <<>>
  <2> DEFINE options == <<General(76, TransPrefix(payload) \o <<Last(payload)>> \o Zeros(6)
                                       \o <<IF Last(payload) = GENERAL THEN 32 ELSE 0, 0>>)>>
  <2>1. ours = Answer(st, options)
    BY <1>0, <1>7 DEF RespondGeneral
  <2>2. GuidedOptions(A2_EA_SWEEP, payload) = options
    BY Baseline DEF GuidedOptions
  <2>3. theirs = Answer(st, GuidedOptions(A2_EA_SWEEP, payload))
    BY <1>0, <1>7, Baseline DEF GuidedGeneral
  <2> QED BY <2>1, <2>2, <2>3 DEF Agree, Answer
<1>8. CASE cmd = 15 /\ payload # <<>>
  <2>1. ours = Answer(st, <<response_lingo_protocol_version(Last(payload))>>)
    BY <1>0, <1>8 DEF RespondGeneral
  <2>2. theirs = Answer(st, <<response_lingo_protocol_version(Last(payload))>>)
    BY <1>0, <1>8, Baseline DEF GuidedGeneral
  <2> QED BY <2>1, <2>2 DEF Agree, Answer, Crash
<1>9. CASE cmd = 19
  <2>1. ours = Answer(st, <<build_ack(0, 19)>>)
    BY <1>0, <1>9 DEF RespondGeneral
  <2>2. theirs = Answer(st, <<build_ack(0, 19)>>)
    BY <1>0, <1>9, Baseline DEF GuidedGeneral
  <2> QED BY <2>1, <2>2 DEF Agree, Answer, Crash
<1>10. CASE cmd = 17
  <2>1. ours = Answer(st, <<General(18, TransOrZero(payload) \o <<2, 0>>)>>)
    BY <1>0, <1>10 DEF RespondGeneral
  <2>2. theirs = Answer(st, <<General(18, TransOrZero(payload) \o <<2, 0>>)>>)
    BY <1>0, <1>10, Baseline DEF GuidedGeneral, Guided0x11
  <2> QED BY <2>1, <2>2 DEF Agree, Answer, Crash
<1>11. CASE cmd \in DOMAIN REQUEST_HANDLERS
  <2>1. ours = RespondRequest(st, cmd)
    BY <1>0, <1>11 DEF RespondGeneral
  <2>2. theirs = GuidedRequest(A2_EA_SWEEP, st, cmd)
    BY <1>0, <1>11, Baseline DEF GuidedGeneral
  <2>3. theirs = ours
    BY <2>1, <2>2, Baseline, OpenAsBaseline, KickAsBaseline DEF RespondRequest, GuidedRequest
  <2> QED BY <2>1, <2>3 DEF Agree, RespondRequest, Answer
<1>12. CASE cmd \notin {56, 57, 59, 21, 24, 75, 15, 19, 17} \cup DOMAIN REQUEST_HANDLERS
  <2>1. ours = Answer(st, <<General(2, TransOrZero(payload) \o <<0, cmd>>)>>)
    BY <1>0, <1>12 DEF RespondGeneral
  <2>2. theirs = Answer(st, <<General(2, TransOrZero(payload) \o <<0, cmd>>)>>)
    BY <1>0, <1>12, Baseline DEF GuidedGeneral
  <2> QED BY <2>1, <2>2 DEF Agree, Answer, Crash
<1> QED BY <1>1, <1>2, <1>3, <1>4, <1>5, <1>6, <1>7, <1>8, <1>9, <1>10, <1>11, <1>12

LEMMA RespondAgrees ==
  ASSUME NEW st, NEW p, p.lingo = GENERAL, p.cmd # 5
  PROVE  /\ respond(st, p) = respond_to_packet(A2_EA_SWEEP, st, p)
         /\ respond(st, p).raises \in BOOLEAN
<1> DEFINE scanned == IF st.ea_opened /\ p.cmd \notin {21, 24}
                        THEN handle_inbound(st, p.payload) ELSE Answer(st, <<>>)
           answer  == RespondGeneral(scanned.st, p.cmd, p.payload)
<1>1. answer = GuidedGeneral(A2_EA_SWEEP, scanned.st, p.cmd, p.payload)
      /\ answer.raises \in BOOLEAN
  <2> HIDE DEF scanned
  <2> QED BY GeneralAgrees DEF Agree
<1>2. GENERAL # EXTENDED_INTERFACE
  BY DEF GENERAL, EXTENDED_INTERFACE
<1>3. respond(st, p) = [answer EXCEPT !.out = scanned.out \o @]
  BY <1>2 DEF respond
<1>4. respond_to_packet(A2_EA_SWEEP, st, p) = [answer EXCEPT !.out = scanned.out \o @]
  BY <1>1, <1>2, Baseline, DataAsBaseline DEF respond_to_packet
<1>5. respond(st, p).raises = answer.raises
  <2> HIDE DEF answer, scanned
  <2> QED BY <1>3
<1>6. respond(st, p).raises \in BOOLEAN
  BY <1>1, <1>5, Zenon
<1> HIDE DEF answer, scanned
<1>7. respond(st, p) = respond_to_packet(A2_EA_SWEEP, st, p)
  BY <1>3, <1>4, Zenon
<1> QED BY <1>6, <1>7

Counted == received \in Nat

\* "respond() emits byte-identical replies to the BT baseline": whatever the session and
\* the packet, a packet of the General lingo, EnterExtendedInterfaceMode excepted, leaves
\* what the guided harness would leave (respond, respond_to_packet).
THEOREM RespondsAsBaseline == Spec => AsBaseline
<1>1. Init => Counted
  BY DEF Init, Counted
<1>2. Counted /\ [Next]_vars => Counted'
  BY DEF Counted, Next, Reader, ReaderSends, ReadReport, ReaderWrites, ReaderGivesUp, Sender,
         SenderWrites, SenderGivesUp, Opener, OpenerChecks, OpenerStarts, HeadUnitSends,
         HeadUnitCollects, vars
<1>3. Counted /\ [Next]_vars
        => [inbox' # inbox /\ received' = received => AnswersAsBaseline]_vars
  <2> SUFFICES ASSUME received \in Nat, Next, inbox' # inbox, received' = received,
                      Incoming.lingo = GENERAL, Incoming.cmd # 5
               PROVE  LET baseline == respond_to_packet(A2_EA_SWEEP, session, Incoming)
                      IN  /\ session' = baseline.st
                          /\ (reader' = "dead") = baseline.raises
                          /\ [k \in DOMAIN replies' |-> replies'[k].packet]
                               = [k \in DOMAIN baseline.out |-> Encoded(baseline.out[k])]
    BY DEF vars, AnswersAsBaseline, Counted
  <2>1. ReadReport
    BY DEF Next, Reader, ReaderSends, ReadReport, ReaderWrites, ReaderGivesUp, Sender,
           SenderWrites, SenderGivesUp, Opener, OpenerChecks, OpenerStarts, HeadUnitSends,
           HeadUnitCollects
  <2> DEFINE answer == respond(session, Incoming)
  <2>2. Incoming # NoPacket
    BY DEF NoPacket, GENERAL
  <2>3. /\ session' = answer.st
        /\ reader' = IF answer.raises THEN "dead" ELSE "alive"
        /\ replies' = [k \in DOMAIN answer.out |-> Outgoing(Encoded(answer.out[k]))]
    BY <2>1, <2>2 DEF ReadReport
  <2>4. answer = respond_to_packet(A2_EA_SWEEP, session, Incoming) /\ answer.raises \in BOOLEAN
    BY RespondAgrees
  <2> HIDE DEF answer
  <2>5. [k \in DOMAIN replies' |-> replies'[k].packet]
          = [k \in DOMAIN answer.out |-> Encoded(answer.out[k])]
    BY <2>3 DEF Outgoing
  <2>6. (reader' = "dead") = answer.raises
    BY <2>3, <2>4
  <2> QED BY <2>3, <2>4, <2>5, <2>6
<1> QED BY <1>1, <1>2, <1>3, PTL DEF Spec, AsBaseline

-----------------------------------------------------------------------------
(***************************************************************************)
(* What the read loop answers is packets, and the session stays typed.     *)
(***************************************************************************)
LEMMA ZerosIsText == ASSUME NEW n \in Nat PROVE Zeros(n) \in Text
BY DEF Zeros, Text

LEMMA TrimIsTyped ==
  ASSUME NEW frame \in Text PROVE trim_iap(frame) \in Packets \cup {NoPacket}
<1> DEFINE i    == Find(frame, SYNC_SHORT)
           large == frame[i + 1] = 0
           body == IF large THEN Slice(frame, i + 4, i + 3 + U16(frame[i + 2], frame[i + 3]))
                   ELSE Slice(frame, i + 2, i + 1 + frame[i + 1])
<1>1. trim_iap(frame)
        = CASE i = 0 \/ Len(frame) < i + 1 -> NoPacket
            [] i > 0 /\ Len(frame) >= i + 1 /\ large /\ Len(frame) < i + 3 -> NoPacket
            [] OTHER -> IF Len(body) < 2 THEN NoPacket
                        ELSE Packet(body[1], body[2], Drop(body, 2))
  BY DEF trim_iap
<1>2. i \in 0..Len(frame) /\ Len(frame) \in Nat
  <2>1. SYNC_SHORT \in Text /\ SYNC_SHORT # <<>>
    BY DEF SYNC_SHORT, Text
  <2> QED BY <2>1, FindIsPlace DEF Text
<1> HIDE DEF i
<1>3. CASE i = 0 \/ Len(frame) < i + 1 \/ (large /\ Len(frame) < i + 3)
  <2>1. trim_iap(frame) = NoPacket
    BY <1>1, <1>2, <1>3
  <2> QED BY <2>1
<1>4. CASE ~(i = 0 \/ Len(frame) < i + 1 \/ (large /\ Len(frame) < i + 3))
  <2>1. body \in Text
    <3>1. CASE large
      <4>1. frame[i + 2] \in Nat /\ frame[i + 3] \in Nat
        BY <1>2, <1>4, <3>1 DEF Text
      <4>2. i + 4 \in Nat \ {0} /\ i + 3 + U16(frame[i + 2], frame[i + 3]) \in Nat
        <5> DEFINE h == frame[i + 2]
                   l == frame[i + 3]
        <5>1. h \in Nat /\ l \in Nat
          BY <4>1
        <5> HIDE DEF h, l
        <5>2. U16(h, l) \in Nat
          BY <5>1 DEF U16
        <5>3. i + 4 \in Nat \ {0} /\ i + 3 + U16(h, l) \in Nat
          BY <1>2, <5>2
        <5> QED BY <5>3 DEF h, l
      <4> QED BY <3>1, <4>2, SliceIsText
    <3>2. CASE ~large
      <4>1. frame[i + 1] \in Nat
        BY <1>2, <1>4 DEF Text
      <4>2. i + 2 \in Nat \ {0} /\ i + 1 + frame[i + 1] \in Nat
        BY <1>2, <4>1
      <4> QED BY <3>2, <4>2, SliceIsText
    <3> QED BY <3>1, <3>2
  <2>2. trim_iap(frame) = IF Len(body) < 2 THEN NoPacket
                          ELSE Packet(body[1], body[2], Drop(body, 2))
    BY <1>1, <1>2, <1>4
  <2> HIDE DEF body
  <2>3. CASE Len(body) < 2
    BY <2>2, <2>3
  <2>4. CASE ~(Len(body) < 2)
    <3>1. body[1] \in Nat /\ body[2] \in Nat
      BY <2>1, <2>4 DEF Text
    <3>2. Drop(body, 2) \in Text
      BY <2>1, DropIsText
    <3> QED BY <2>2, <2>4, <3>1, <3>2, PacketIsTyped
  <2> QED BY <2>3, <2>4
<1> QED BY <1>3, <1>4


-----------------------------------------------------------------------------
(***************************************************************************)
(* Answers keep their type, and the one-shots come in order.               *)
(***************************************************************************)
Sessions == [ea_protocols : Seq(Protocols), ea_opened : BOOLEAN, ea_session_id : Nat,
             dp_kicked : BOOLEAN, dp_b2_sent : BOOLEAN]

InOrder(st) ==
  /\ st.dp_kicked \/ st.dp_b2_sent => st.ea_session_id # NoSession
  /\ st.ea_session_id # NoSession => st.ea_opened

Sound == {st \in Sessions : InOrder(st)}

Answers == [st : Sound, out : Seq(Packets), raises : BOOLEAN]

LEMMA AnswerIsTyped ==
  ASSUME NEW st \in Sound
  PROVE  /\ Crash(st) \in Answers /\ Answer(st, <<>>) \in Answers
         /\ \A out \in Seq(Packets) : Answer(st, out) \in Answers
<1>1. <<>> \in Seq(Packets)
  OBVIOUS
<1> QED BY <1>1 DEF Answer, Crash, Answers

LEMMA TransferIsTyped ==
  ASSUME NEW session_id \in Nat, NEW data \in Text, NEW cmd \in Nat
  PROVE  build_ipod_data_transfer(session_id, data, cmd) \in Packets
BY WordIsText, JoinIsText, GeneralIsTyped DEF build_ipod_data_transfer

LEMMA OpeningIsTyped ==
  ASSUME NEW protocols \in Seq(Protocols), NEW wanted \in Text
  PROVE  /\ Opening(protocols, wanted).out \in Seq(Packets)
         /\ Opening(protocols, wanted).kept \in Nat
<1> DEFINE n == Len(wanted)
           D == SUBSET (1..n)
           V == [next : Nat, out : Seq(Packets), kept : Nat]
           Matches(want) == {i \in DOMAIN protocols : Contains(protocols[i].protocol, want)}
           Open(acc, want) ==
             IF Matches(want) = {} THEN acc
             ELSE LET p == protocols[Min(Matches(want))]
                  IN [next |-> acc.next + 1,
                      out |-> Append(acc.out, build_open_data_session(acc.next, p.index)),
                      kept |-> IF acc.kept = NoSession \/ Contains(p.protocol, HONDALINK)
                                 THEN acc.next ELSE acc.kept]
           base == [next |-> 1, out |-> <<>>, kept |-> NoSession]
           step == [k \in 1..n |-> [v \in V |-> Open(v, wanted[k])]]
           Folds(it) == it = [u \in D |-> IF u = {} THEN base
                                          ELSE Open(it[u \ {Max(u)}], wanted[Max(u)])]
           opening == CHOOSE it : Folds(it)
<1>1. n \in Nat /\ DOMAIN wanted = 1..n
  BY DEF Text
<1>2. ASSUME NEW v \in V, NEW want PROVE Open(v, want) \in V
  <2>1. CASE Matches(want) = {}
    BY <2>1
  <2>2. CASE Matches(want) # {}
    <3> DEFINE p == protocols[Min(Matches(want))]
    <3>1. p \in Protocols
      <4>1. Matches(want) \in SUBSET (1..Len(protocols)) /\ Len(protocols) \in Nat
        BY LenProperties
      <4>2. Min(Matches(want)) \in 1..Len(protocols)
        <5> HIDE DEF Matches
        <5> QED BY <2>2, <4>1, Least
      <4> HIDE DEF Matches
      <4> QED BY <4>2, ElementOfSeq
    <3> HIDE DEF p
    <3>2. build_open_data_session(v.next, p.index) \in Packets
      <4>1. v.next \in Nat /\ p.index \in Nat
        BY <3>1 DEF Protocols
      <4>2. Bytes16(v.next) \o <<p.index>> \in Text
        BY <4>1, WordIsText, ShortIsText, JoinIsText
      <4> QED BY <4>2, GeneralIsTyped DEF build_open_data_session
    <3>3. Append(v.out, build_open_data_session(v.next, p.index)) \in Seq(Packets)
      <4>1. v.out \in Seq(Packets)
        OBVIOUS
      <4> QED BY <3>2, <4>1, AppendProperties
    <3>4. [next |-> v.next + 1,
           out |-> Append(v.out, build_open_data_session(v.next, p.index)),
           kept |-> IF v.kept = NoSession \/ Contains(p.protocol, HONDALINK)
                      THEN v.next ELSE v.kept] \in V
      BY <3>3
    <3> HIDE DEF V, Matches
    <3> QED BY <2>2, <3>4 DEF p
  <2> QED BY <2>1, <2>2
<1>3. Opening(protocols, wanted) = opening[1..n]
  BY <1>1, Zenon DEF Opening, FoldLeft, MapThenFoldSet
<1>4. base \in V
  BY DEF NoSession
<1> HIDE DEF Open, base
<1>5. PICK it \in [D -> V] : FoldsBy(it, n, base, step) /\ Through(it, n, base, step)
  <2> HIDE DEF V
  <2>1. step \in [1..n -> [V -> V]]
    BY <1>2
  <2> HIDE DEF step
  <2> QED BY <1>1, <1>4, <2>1, Fold
<1>6. Folds(it)
  <2> HIDE DEF V
  <2> QED BY <1>1, <1>5, PlaceRanks DEF FoldsBy
<1>7. Folds(opening)
  BY <1>6
<1>8. opening = it
  <2> HIDE DEF opening
  <2>1. FoldAlike(n, it, opening)
    BY <1>6, <1>7 DEF FoldAlike
  <2> QED BY <1>1, <2>1, FoldUnique
<1>9. opening[1..n] \in V
  <2> HIDE DEF V
  <2> QED BY <1>8
<1> HIDE DEF opening
<1> QED BY <1>3, <1>9

LEMMA EaOpenIsSound == ASSUME NEW st \in Sound PROVE take_ea_open(st) \in Answers
<1> DEFINE opening == Opening(st.ea_protocols, <<HONDALINK>>)
<1>1. st \in Sessions /\ InOrder(st)
  BY DEF Sound
<1>2. CASE st.ea_opened \/ st.ea_protocols = <<>>
  <2>1. take_ea_open(st) = Answer(st, <<>>)
    BY <1>2 DEF take_ea_open
  <2> QED BY <2>1, AnswerIsTyped
<1>3. CASE ~(st.ea_opened \/ st.ea_protocols = <<>>)
  <2>1. opening.out \in Seq(Packets) /\ opening.kept \in Nat
    <3>1. <<HONDALINK>> \in Text /\ st.ea_protocols \in Seq(Protocols)
      BY <1>1, ShortIsText DEF HONDALINK, Sessions
    <3> QED BY <3>1, OpeningIsTyped
  <2> DEFINE after == [st EXCEPT !.ea_opened = TRUE, !.ea_session_id = opening.kept]
  <2>2. take_ea_open(st) = Answer(after, opening.out)
    BY <1>3 DEF take_ea_open
  <2> HIDE DEF opening
  <2>3. after \in Sessions
    BY <1>1, <2>1 DEF Sessions
  <2>4. /\ after.ea_opened = TRUE
        /\ after.dp_kicked = st.dp_kicked /\ after.dp_b2_sent = st.dp_b2_sent
    BY <1>1 DEF Sessions
  <2>5. st.dp_kicked = FALSE /\ st.dp_b2_sent = FALSE
    BY <1>1, <1>3 DEF InOrder, Sessions
  <2> HIDE DEF after
  <2>6. after \in Sound
    BY <2>3, <2>4, <2>5 DEF Sound, InOrder
  <2> QED BY <2>1, <2>2, <2>6, AnswerIsTyped
<1> QED BY <1>2, <1>3

LEMMA KickIsTyped ==
  ASSUME NEW session_id \in Nat, NEW opcodes \in Text
  PROVE  FoldLeft(LAMBDA out, op :
                    out \o <<build_ipod_data_transfer(session_id, SessionStart, op),
                             build_ipod_data_transfer(session_id, AuthRequest, op)>>,
                  <<>>, opcodes) \in Seq(Packets)
<1> DEFINE n == Len(opcodes)
           D == SUBSET (1..n)
           V == Seq(Packets)
           Kick(out, op) == out \o <<build_ipod_data_transfer(session_id, SessionStart, op),
                                     build_ipod_data_transfer(session_id, AuthRequest, op)>>
           step == [k \in 1..n |-> [v \in V |-> Kick(v, opcodes[k])]]
           Folds(it) == it = [u \in D |-> IF u = {} THEN <<>>
                                          ELSE Kick(it[u \ {Max(u)}], opcodes[Max(u)])]
           all == CHOOSE it : Folds(it)
<1>1. n \in Nat /\ DOMAIN opcodes = 1..n /\ \A k \in 1..n : opcodes[k] \in Nat
  BY DEF Text
<1>2. ASSUME NEW v \in V, NEW op \in Nat PROVE Kick(v, op) \in V
  <2>1. SessionStart \in Text /\ AuthRequest \in Text
    BY BuiltIsText, ShortIsText DEF SessionStart, AuthRequest
  <2> DEFINE a == build_ipod_data_transfer(session_id, SessionStart, op)
             b == build_ipod_data_transfer(session_id, AuthRequest, op)
  <2>2. a \in Packets /\ b \in Packets
    BY <2>1, TransferIsTyped
  <2> HIDE DEF a, b
  <2>3. <<a, b>> \in V
    BY <2>2
  <2>4. v \o <<a, b>> \in V
    BY <2>3, ConcatProperties
  <2> QED BY <2>4 DEF a, b
<1>3. FoldLeft(LAMBDA out, op :
                    out \o <<build_ipod_data_transfer(session_id, SessionStart, op),
                             build_ipod_data_transfer(session_id, AuthRequest, op)>>,
                  <<>>, opcodes) = all[1..n]
  BY <1>1, Zenon DEF FoldLeft, MapThenFoldSet
<1> HIDE DEF Kick
<1>4. PICK it \in [D -> V] : FoldsBy(it, n, <<>>, step) /\ Through(it, n, <<>>, step)
  <2>1. <<>> \in V
    OBVIOUS
  <2> HIDE DEF V
  <2>2. step \in [1..n -> [V -> V]]
    BY <1>1, <1>2
  <2> HIDE DEF step
  <2> QED BY <1>1, <2>1, <2>2, Fold
<1>5. Folds(it)
  <2> HIDE DEF V
  <2> QED BY <1>1, <1>4, PlaceRanks DEF FoldsBy
<1>6. Folds(all)
  BY <1>5
<1>7. all = it
  <2> HIDE DEF all
  <2>1. FoldAlike(n, it, all)
    BY <1>5, <1>6 DEF FoldAlike
  <2> QED BY <1>1, <2>1, FoldUnique
<1>8. all[1..n] \in V
  BY <1>7
<1> QED BY <1>3, <1>8

LEMMA KickIsSound == ASSUME NEW st \in Sound PROVE take_dp_kick(st) \in Answers
<1>1. st \in Sessions /\ InOrder(st)
  BY DEF Sound
<1>2. CASE st.dp_kicked \/ ~HasSession(st)
  <2>1. take_dp_kick(st) = Answer(st, <<>>)
    BY <1>2 DEF take_dp_kick
  <2> QED BY <2>1, AnswerIsTyped
<1>3. CASE ~(st.dp_kicked \/ ~HasSession(st))
  <2> DEFINE after == [st EXCEPT !.dp_kicked = TRUE]
             out == FoldLeft(LAMBDA out, op :
                      out \o <<build_ipod_data_transfer(st.ea_session_id, SessionStart, op),
                               build_ipod_data_transfer(st.ea_session_id, AuthRequest, op)>>,
                      <<>>, DP_OPCODE_SWEEP)
  <2>1. out \in Seq(Packets)
    <3>1. DP_OPCODE_SWEEP \in Text /\ st.ea_session_id \in Nat
      BY <1>1, ShortIsText DEF DP_OPCODE_SWEEP, Sessions
    <3> QED BY <3>1, KickIsTyped
  <2>2. take_dp_kick(st) = Answer(after, out)
    BY <1>3, Zenon DEF take_dp_kick
  <2>3. after \in Sessions /\ after.ea_session_id = st.ea_session_id
        /\ after.ea_opened = st.ea_opened
    BY <1>1 DEF Sessions
  <2>4. st.ea_session_id # NoSession /\ st.ea_opened
    BY <1>1, <1>3 DEF HasSession, InOrder
  <2> HIDE DEF after, out
  <2>5. after \in Sound
    BY <2>3, <2>4 DEF Sound, InOrder
  <2> QED BY <2>1, <2>2, <2>5, AnswerIsTyped
<1> QED BY <1>2, <1>3

LEMMA B2IsSound ==
  ASSUME NEW st \in Sound, NEW b1 \in Frames PROVE build_b2(st, b1) \in Answers
<1>1. st \in Sessions /\ InOrder(st)
  BY DEF Sound
<1>2. CASE st.dp_b2_sent \/ ~HasSession(st)
  <2>1. build_b2(st, b1) = Answer(st, <<>>)
    BY <1>2 DEF build_b2
  <2> QED BY <2>1, AnswerIsTyped
<1>3. CASE ~(st.dp_b2_sent \/ ~HasSession(st))
  <2> DEFINE after == [st EXCEPT !.dp_b2_sent = TRUE]
             response == build_ipod_data_transfer(st.ea_session_id, build_b2_frame(b1), 65)
  <2>1. response \in Packets
    <3>1. NonceOf(b1) \in Text
      <4>1. b1.payload \in Text /\ Zeros(4) \in Text
        BY ZerosIsText DEF Frames
      <4>2. Len(b1.payload) >= 5 => SubSeq(b1.payload, 2, 5) \in Text
        BY <4>1, PartIsText
      <4> QED BY <4>1, <4>2 DEF NonceOf
    <3>2. <<0>> \o Encrypted(derive_key(NonceOf(b1))) \in Text
      BY <3>1, ZerosIsText, ShortIsText, JoinIsText DEF Encrypted, derive_key
    <3>3. build_b2_frame(b1) \in Text
      BY <3>2, BuiltIsText DEF build_b2_frame
    <3>4. st.ea_session_id \in Nat
      BY <1>1 DEF Sessions
    <3> QED BY <3>3, <3>4, TransferIsTyped
  <2>2. build_b2(st, b1) = Answer(after, <<response>>)
    BY <1>3, Zenon DEF build_b2
  <2>3. after \in Sessions /\ after.ea_session_id = st.ea_session_id
        /\ after.ea_opened = st.ea_opened
    BY <1>1 DEF Sessions
  <2>4. st.ea_session_id # NoSession /\ st.ea_opened
    BY <1>1, <1>3 DEF HasSession, InOrder
  <2> HIDE DEF after, response
  <2>5. after \in Sound
    BY <2>3, <2>4 DEF Sound, InOrder
  <2>6. <<response>> \in Seq(Packets)
    BY <2>1
  <2> QED BY <2>2, <2>5, <2>6, AnswerIsTyped
<1> QED BY <1>2, <1>3

LEMMA FramesInIsTyped == ASSUME NEW payload \in Text PROVE FramesIn(payload) \in Seq(Frames)
<1>1. parse_ea_data_transfer(payload) \in Text
  BY DropIsText DEF parse_ea_data_transfer
<1> QED BY <1>1, ParsedIsTyped DEF FramesIn

LEMMA InboundIsSound ==
  ASSUME NEW st \in Sound, NEW payload \in Text PROVE handle_inbound(st, payload) \in Answers
<1> DEFINE frames == FramesIn(payload)
           n == Len(frames)
           D == SUBSET (1..n)
           Take(acc, frame) ==
             IF classify(frame) = "StartAuth"
               THEN LET b2 == build_b2(acc.st, frame) IN Answer(b2.st, acc.out \o b2.out)
               ELSE acc
           base == Answer(st, <<>>)
           step == [k \in 1..n |-> [v \in Answers |-> Take(v, frames[k])]]
           Folds(it) == it = [u \in D |-> IF u = {} THEN base
                                          ELSE Take(it[u \ {Max(u)}], frames[Max(u)])]
           all == CHOOSE it : Folds(it)
<1>1. n \in Nat /\ DOMAIN frames = 1..n /\ \A k \in 1..n : frames[k] \in Frames
  <2>1. frames \in Seq(Frames)
    BY FramesInIsTyped
  <2> HIDE DEF frames
  <2> QED BY <2>1, LenProperties, ElementOfSeq
<1>2. ASSUME NEW v \in Answers, NEW frame \in Frames PROVE Take(v, frame) \in Answers
  <2> DEFINE b2 == build_b2(v.st, frame)
  <2>1. v.st \in Sound /\ v.out \in Seq(Packets)
    BY DEF Answers
  <2>2. b2.st \in Sound /\ b2.out \in Seq(Packets)
    BY <2>1, B2IsSound DEF Answers
  <2> HIDE DEF b2
  <2>3. v.out \o b2.out \in Seq(Packets)
    BY <2>1, <2>2, ConcatProperties
  <2>4. Answer(b2.st, v.out \o b2.out) \in Answers
    BY <2>2, <2>3, AnswerIsTyped
  <2> QED BY <2>4 DEF b2
<1>3. handle_inbound(st, payload) = all[1..n]
  BY <1>1, Zenon DEF handle_inbound, FoldLeft, MapThenFoldSet
<1> HIDE DEF Take, base, frames
<1>4. PICK it \in [D -> Answers] : FoldsBy(it, n, base, step) /\ Through(it, n, base, step)
  <2>1. step \in [1..n -> [Answers -> Answers]] /\ base \in Answers
    BY <1>1, <1>2, AnswerIsTyped DEF base
  <2> HIDE DEF step
  <2> QED BY <1>1, <2>1, Fold
<1>5. Folds(it)
  BY <1>1, <1>4, PlaceRanks DEF FoldsBy
<1>6. Folds(all)
  BY <1>5
<1>7. all = it
  <2> HIDE DEF all
  <2>1. FoldAlike(n, it, all)
    BY <1>5, <1>6 DEF FoldAlike
  <2> QED BY <1>1, <2>1, FoldUnique
<1>8. all[1..n] \in Answers
  BY <1>7
<1> QED BY <1>3, <1>8

-----------------------------------------------------------------------------
\* The General lingo, command by command.
LEMMA LastIsNumber == ASSUME NEW s \in Text, s # <<>> PROVE Last(s) \in Nat
<1>1. Len(s) \in 1..Len(s)
  BY DEF Text
<1> QED BY <1>1 DEF Last, Text

LEMMA PrefixesAreText ==
  ASSUME NEW payload \in Text
  PROVE  /\ TransPrefix(payload) \in Text /\ TransOrZero(payload) \in Text
         /\ CertTransPrefix(payload) \in Text /\ Challenge(payload) \in Text
<1>1. Len(payload) >= 2 => SubSeq(payload, 1, 2) \in Text
  BY LeadIsText
<1> QED BY <1>1, ShortIsText DEF TransPrefix, TransOrZero, CertTransPrefix, Challenge

LEMMA AckIsTyped ==
  ASSUME NEW status \in Nat, NEW acked \in Nat PROVE build_ack(status, acked) \in Packets
BY ShortIsText, GeneralIsTyped DEF build_ack

LEMMA FidTokensIsSound ==
  ASSUME NEW st \in Sound, NEW payload \in Text PROVE RespondFidTokens(st, payload) \in Answers
<1>1. CASE fid_token_values_raises(payload)
  BY <1>1, AnswerIsTyped DEF RespondFidTokens
<1>2. CASE ~fid_token_values_raises(payload)
  <2> DEFINE fields == parse_fid_token_values(payload)
             protocols == parse_ea_protocols(fields)
             after == LatestProtocols(st, protocols)
             acks == build_ret_fid_token_value_acks(SubSeq(payload, 1, 2), fields)
  <2>1. Len(payload) >= 3 /\ fields \in Seq(Fields)
    BY <1>2, FieldsAreTyped
  <2>2. RespondFidTokens(st, payload) = Answer(after, <<acks, build_get_dev_authentication_info>>)
    BY <1>2, Zenon DEF RespondFidTokens
  <2> HIDE DEF fields
  <2>3. protocols \in Seq(Protocols)
    BY <2>1, ProtocolsAreTyped
  <2> HIDE DEF protocols
  <2>4. after \in Sound
    <3>1. st \in Sessions /\ InOrder(st)
      BY DEF Sound
    <3> DEFINE other == [st EXCEPT !.ea_protocols = protocols]
    <3>2. /\ other \in Sessions /\ other.dp_kicked = st.dp_kicked
          /\ other.dp_b2_sent = st.dp_b2_sent /\ other.ea_session_id = st.ea_session_id
          /\ other.ea_opened = st.ea_opened
      BY <2>3, <3>1 DEF Sessions
    <3> HIDE DEF other
    <3>3. other \in Sound
      BY <3>1, <3>2 DEF Sound, InOrder
    <3> QED BY <3>3 DEF LatestProtocols, other
  <2>5. acks \in Packets
    <3>1. SubSeq(payload, 1, 2) \in Text
      <4>1. Len(payload) >= 2
        BY <2>1 DEF Text
      <4> QED BY <4>1, LeadIsText
    <3> QED BY <2>1, <3>1, AcksAreTyped
  <2>6. build_get_dev_authentication_info \in Packets
    BY ShortIsText, GeneralIsTyped DEF build_get_dev_authentication_info
  <2> HIDE DEF acks, after
  <2>7. <<acks, build_get_dev_authentication_info>> \in Seq(Packets)
    BY <2>5, <2>6
  <2> QED BY <2>2, <2>4, <2>7, AnswerIsTyped
<1> QED BY <1>1, <1>2

LEMMA CertIsTyped == ASSUME NEW payload \in Text PROVE RespondCert(payload) \in Seq(Packets)
<1> DEFINE prefix == CertTransPrefix(payload)
           a == General(2, prefix \o <<0, 21>>)
           b == General(22, prefix \o <<0>>)
           c == General(23, prefix \o Challenge(payload) \o <<1>>)
<1>1. prefix \in Text /\ Challenge(payload) \in Text
  BY PrefixesAreText
<1>2. a \in Packets /\ b \in Packets /\ c \in Packets
  <2> HIDE DEF prefix
  <2>1. /\ prefix \o <<0, 21>> \in Text /\ prefix \o <<0>> \in Text
        /\ prefix \o Challenge(payload) \o <<1>> \in Text
    BY <1>1, ShortIsText, JoinIsText
  <2> QED BY <2>1, GeneralIsTyped
<1>3. RespondCert(payload) = IF NonFinal(payload) THEN <<a>> ELSE <<b, c>>
  BY DEF RespondCert
<1> HIDE DEF a, b, c
<1>4. <<a>> \in Seq(Packets) /\ <<b, c>> \in Seq(Packets)
  BY <1>2
<1> QED BY <1>3, <1>4

LEMMA RequestIsSound ==
  ASSUME NEW st \in Sound, NEW cmd \in DOMAIN REQUEST_HANDLERS
  PROVE  RespondRequest(st, cmd) \in Answers
<1> DEFINE open == take_ea_open(st)
           kick == take_dp_kick(open.st)
           reply == REQUEST_HANDLERS[cmd]
<1>1. open.st \in Sound /\ open.out \in Seq(Packets)
  BY EaOpenIsSound DEF Answers
<1> HIDE DEF open
<1>2. kick.st \in Sound /\ kick.out \in Seq(Packets)
  BY <1>1, KickIsSound DEF Answers
<1>3. reply \in Packets
  <2>1. cmd \in Nat /\ reply = General(cmd + 1, <<cmd>>)
    BY DEF REQUEST_HANDLERS
  <2>2. <<cmd>> \in Text /\ cmd + 1 \in Nat
    BY <2>1, ShortIsText
  <2> QED BY <2>1, <2>2, GeneralIsTyped
<1> HIDE DEF kick, reply
<1>4. <<reply>> \o open.out \o kick.out \in Seq(Packets)
  <2>1. <<reply>> \in Seq(Packets)
    BY <1>3
  <2> QED BY <1>1, <1>2, <2>1, ConcatProperties
<1>5. RespondRequest(st, cmd) = Answer(kick.st, <<reply>> \o open.out \o kick.out)
  BY DEF RespondRequest, open, kick, reply
<1> QED BY <1>2, <1>4, <1>5, AnswerIsTyped

LEMMA OneReply ==
  ASSUME NEW st \in Sound, NEW p \in Packets PROVE Answer(st, <<p>>) \in Answers
<1>1. <<p>> \in Seq(Packets)
  OBVIOUS
<1> QED BY <1>1, AnswerIsTyped

LEMMA GeneralIsSound ==
  ASSUME NEW st \in Sound, NEW cmd \in Nat, NEW payload \in Text
  PROVE  RespondGeneral(st, cmd, payload) \in Answers
<1> DEFINE answer == RespondGeneral(st, cmd, payload)
           trans == TransPrefix(payload)
           transid == TransOrZero(payload)
<1>0. DOMAIN REQUEST_HANDLERS = {7, 9, 11, 13}
  BY DEF REQUEST_HANDLERS
<1>1. trans \in Text /\ transid \in Text
  BY PrefixesAreText
<1>2. CASE cmd = 5
  <2>1. answer = Answer(st, <<build_ack(0, 5)>>)
    BY <1>0, <1>2 DEF RespondGeneral
  <2> QED BY <2>1, AckIsTyped, OneReply
<1>3. CASE cmd = 56
  <2>1. answer = Answer(st, <<build_ack(0, 56)>>)
    BY <1>0, <1>3 DEF RespondGeneral
  <2> QED BY <2>1, AckIsTyped, OneReply
<1>4. CASE cmd = 57
  <2>1. answer = RespondFidTokens(st, payload)
    BY <1>0, <1>4 DEF RespondGeneral
  <2> QED BY <2>1, FidTokensIsSound
<1>5. CASE cmd = 59
  <2>1. answer = IF Len(payload) < 2 THEN Crash(st)
                 ELSE Answer(st, <<build_idps_status(SubSeq(payload, 1, 2), 0)>>)
    BY <1>0, <1>5 DEF RespondGeneral
  <2>2. Len(payload) \in Nat
    BY DEF Text
  <2>3. CASE Len(payload) < 2
    BY <2>1, <2>3, AnswerIsTyped
  <2>4. CASE ~(Len(payload) < 2)
    <3>1. SubSeq(payload, 1, 2) \o <<0>> \in Text
      BY <2>2, <2>4, LeadIsText, ShortIsText, JoinIsText
    <3>2. build_idps_status(SubSeq(payload, 1, 2), 0) \in Packets
      BY <3>1, GeneralIsTyped DEF build_idps_status
    <3> QED BY <2>1, <2>4, <3>2, OneReply
  <2> QED BY <2>3, <2>4
<1>6. CASE cmd = 21
  <2>1. answer = Answer(st, RespondCert(payload))
    BY <1>0, <1>6 DEF RespondGeneral
  <2> QED BY <2>1, CertIsTyped, AnswerIsTyped
<1>7. CASE cmd = 24
  <2>1. answer = Answer(st, <<General(25, trans \o <<0>>)>>)
    BY <1>0, <1>7 DEF RespondGeneral
  <2>2. trans \o <<0>> \in Text
    BY <1>1, ShortIsText, JoinIsText
  <2> QED BY <2>1, <2>2, GeneralIsTyped, OneReply
<1>8. CASE cmd \in {75, 15} /\ payload = <<>>
  <2>1. answer = Crash(st)
    BY <1>0, <1>8 DEF RespondGeneral
  <2> QED BY <2>1, AnswerIsTyped
<1>9. CASE cmd = 75 /\ payload # <<>>
  <2> DEFINE out == trans \o <<Last(payload)>> \o Zeros(6)
                      \o <<IF Last(payload) = GENERAL THEN 32 ELSE 0, 0>>
  <2>1. answer = Answer(st, <<General(76, out)>>)
    BY <1>0, <1>9 DEF RespondGeneral
  <2>2. out \in Text
    <3>1. <<Last(payload)>> \in Text /\ Zeros(6) \in Text
          /\ <<IF Last(payload) = GENERAL THEN 32 ELSE 0, 0>> \in Text
      BY <1>9, LastIsNumber, ZerosIsText, ShortIsText
    <3> HIDE DEF trans
    <3> QED BY <1>1, <3>1, JoinIsText
  <2> HIDE DEF out
  <2> QED BY <2>1, <2>2, GeneralIsTyped, OneReply
<1>10. CASE cmd = 15 /\ payload # <<>>
  <2> DEFINE lingo == Last(payload)
  <2>1. answer = Answer(st, <<response_lingo_protocol_version(lingo)>>)
    BY <1>0, <1>10 DEF RespondGeneral
  <2>2. lingo \in Nat
    BY <1>10, LastIsNumber
  <2> HIDE DEF lingo
  <2>3. response_lingo_protocol_version(lingo) \in Packets
    <3>1. CASE lingo \in DOMAIN LINGO_PROTOCOL_VERSIONS
      <4>1. LINGO_PROTOCOL_VERSIONS[lingo] \in Text
        BY <3>1, ShortIsText DEF LINGO_PROTOCOL_VERSIONS
      <4>2. <<lingo>> \o LINGO_PROTOCOL_VERSIONS[lingo] \in Text
        BY <2>2, <4>1, ShortIsText, JoinIsText
      <4> QED BY <3>1, <4>2, GeneralIsTyped DEF response_lingo_protocol_version
    <3>2. CASE lingo \notin DOMAIN LINGO_PROTOCOL_VERSIONS
      BY <3>2, AckIsTyped DEF response_lingo_protocol_version
    <3> QED BY <3>1, <3>2
  <2> QED BY <2>1, <2>3, OneReply
<1>11. CASE cmd = 19
  <2>1. answer = Answer(st, <<build_ack(0, 19)>>)
    BY <1>0, <1>11 DEF RespondGeneral
  <2> QED BY <2>1, AckIsTyped, OneReply
<1>12. CASE cmd = 17
  <2>1. answer = Answer(st, <<General(18, transid \o <<2, 0>>)>>)
    BY <1>0, <1>12 DEF RespondGeneral
  <2>2. transid \o <<2, 0>> \in Text
    BY <1>1, ShortIsText, JoinIsText
  <2> QED BY <2>1, <2>2, GeneralIsTyped, OneReply
<1>13. CASE cmd \in DOMAIN REQUEST_HANDLERS
  <2>1. answer = RespondRequest(st, cmd)
    BY <1>0, <1>13 DEF RespondGeneral
  <2> QED BY <1>13, <2>1, RequestIsSound
<1>14. CASE cmd \notin {5, 7, 9, 11, 13, 15, 17, 19, 21, 24, 56, 57, 59, 75}
  <2>1. answer = Answer(st, <<General(2, transid \o <<0, cmd>>)>>)
    BY <1>0, <1>14 DEF RespondGeneral
  <2>2. transid \o <<0, cmd>> \in Text
    BY <1>1, ShortIsText, JoinIsText
  <2> QED BY <2>1, <2>2, GeneralIsTyped, OneReply
<1> QED BY <1>0, <1>2, <1>3, <1>4, <1>5, <1>6, <1>7, <1>8, <1>9, <1>10, <1>11, <1>12, <1>13,
           <1>14

LEMMA EiIsTyped ==
  ASSUME NEW cmd \in Nat, NEW payload \in Text PROVE RespondEi(cmd, payload) \in Seq(Packets)
<1> DEFINE transid == TransOrZero(payload)
<1>1. transid \in Text
  BY PrefixesAreText
<1>2. CASE cmd \in DOMAIN EI_GET_RETURNS
  <2> DEFINE reply == EI_GET_RETURNS[cmd]
  <2>1. reply \in Packets
    <3> DEFINE size == CASE cmd = 28 -> 9 [] cmd = 24 -> 4 [] OTHER -> 1
    <3>1. cmd \in {24, 28, 44, 47} /\ reply = Packet(EXTENDED_INTERFACE, cmd + 1, Zeros(size))
      BY <1>2 DEF EI_GET_RETURNS
    <3>2. size \in Nat
      BY <3>1
    <3> HIDE DEF size
    <3>3. Zeros(size) \in Text
      BY <3>2, ZerosIsText
    <3> QED BY <3>1, <3>3, PacketIsTyped DEF EXTENDED_INTERFACE
  <2>2. EiReturn(cmd, payload) = [reply EXCEPT !.payload = transid \o @]
    BY DEF EiReturn
  <2> HIDE DEF reply, transid
  <2>3. transid \o reply.payload \in Text
    BY <1>1, <2>1, JoinIsText DEF Packets
  <2>4. EiReturn(cmd, payload) \in Packets
    BY <2>1, <2>2, <2>3 DEF Packets
  <2> QED BY <1>2, <2>4 DEF RespondEi
<1>3. CASE cmd \notin DOMAIN EI_GET_RETURNS
  <2>1. EiAck(cmd, payload) = Packet(EXTENDED_INTERFACE, 1, transid \o <<0>> \o Bytes16(cmd))
    BY DEF EiAck
  <2> HIDE DEF transid
  <2>2. transid \o <<0>> \o Bytes16(cmd) \in Text
    BY <1>1, WordIsText, ShortIsText, JoinIsText
  <2>3. EiAck(cmd, payload) \in Packets
    BY <2>1, <2>2, PacketIsTyped DEF EXTENDED_INTERFACE
  <2> QED BY <1>3, <2>3 DEF RespondEi
<1> QED BY <1>2, <1>3

\* Whatever packet is read, the session it leaves is sound.
LEMMA RespondIsSound ==
  ASSUME NEW st \in Sound, NEW p \in Packets PROVE respond(st, p) \in Answers
<1> DEFINE scanned == IF p.lingo = GENERAL /\ st.ea_opened /\ p.cmd \notin {21, 24}
                        THEN handle_inbound(st, p.payload) ELSE Answer(st, <<>>)
           answer == CASE p.lingo = EXTENDED_INTERFACE ->
                            Answer(scanned.st, RespondEi(p.cmd, p.payload))
                       [] p.lingo = GENERAL -> RespondGeneral(scanned.st, p.cmd, p.payload)
                       [] OTHER -> Answer(scanned.st, <<>>)
<1>0. p.lingo \in Nat /\ p.cmd \in Nat /\ p.payload \in Text
  BY DEF Packets
<1>1. scanned \in Answers
  BY <1>0, InboundIsSound, AnswerIsTyped
<1>2. respond(st, p) = [answer EXCEPT !.out = scanned.out \o @]
  BY Zenon DEF respond
<1> HIDE DEF scanned
<1>3. scanned.st \in Sound /\ scanned.out \in Seq(Packets)
  BY <1>1 DEF Answers
<1>4. answer \in Answers
  <2>1. CASE p.lingo = EXTENDED_INTERFACE
    <3>1. answer = Answer(scanned.st, RespondEi(p.cmd, p.payload))
      BY <2>1 DEF EXTENDED_INTERFACE, GENERAL
    <3> QED BY <1>0, <1>3, <3>1, EiIsTyped, AnswerIsTyped
  <2>2. CASE p.lingo = GENERAL
    <3>1. answer = RespondGeneral(scanned.st, p.cmd, p.payload)
      BY <2>2 DEF EXTENDED_INTERFACE, GENERAL
    <3> QED BY <1>0, <1>3, <3>1, GeneralIsSound
  <2>3. CASE p.lingo \notin {EXTENDED_INTERFACE, GENERAL}
    <3>1. answer = Answer(scanned.st, <<>>)
      BY <2>3
    <3> QED BY <1>3, <3>1, AnswerIsTyped
  <2> QED BY <2>1, <2>2, <2>3
<1> HIDE DEF answer
<1>5. scanned.out \o answer.out \in Seq(Packets)
  BY <1>3, <1>4, ConcatProperties DEF Answers
<1> QED BY <1>2, <1>4, <1>5 DEF Answers

-----------------------------------------------------------------------------
(***************************************************************************)
(* Framing.  A packet of which `offset' bytes are in earlier reports goes  *)
(* on with Report(data, offset, dir), which takes Taken(data, offset, dir) *)
(* bytes; Reports(data, dir)[offset] are the reports that are left.        *)
(***************************************************************************)
Chosen(data, offset, dir) == pick(Len(data) - offset, dir)

Taken(data, offset, dir) ==
  LET max == MaxPayload(Chosen(data, offset, dir))
  IN  IF Len(data) - offset > max THEN max ELSE Len(data) - offset

Padding(data, offset, dir) ==
  Zeros(MaxPayload(Chosen(data, offset, dir)) - Taken(data, offset, dir))

Content(data, offset, dir) ==
  SubSeq(data, offset + 1, offset + Taken(data, offset, dir)) \o Padding(data, offset, dir)

Report(data, offset, dir) ==
  <<Chosen(data, offset, dir).id,
    LinkControl(offset, Taken(data, offset, dir) = Len(data) - offset)>>
    \o SubSeq(data, offset + 1, offset + Taken(data, offset, dir))
    \o Padding(data, offset, dir)

ReportsNext(data, dir, f, offset) ==
  IF offset = Len(data) THEN <<>>
  ELSE <<Report(data, offset, dir)>> \o f[offset + Taken(data, offset, dir)]

Reports(data, dir) ==
  CHOOSE f : f = [offset \in 0..Len(data) |-> ReportsNext(data, dir, f, offset)]

LEMMA DefsAre ==
  /\ Len(ReportDefs) \in Nat /\ DOMAIN ReportDefs = 1..Len(ReportDefs)
  /\ \A i \in 1..Len(ReportDefs) :
       ReportDefs[i] \in [id : 0..255, length : 2..255, dir : {"in", "out"}]
<1> DEFINE defs == [id : 0..255, length : 2..255, dir : {"in", "out"}]
<1>1. ReportDefs \in Seq(defs)
  BY ReportDefsAssumption
<1> HIDE DEF defs
<1>2. /\ Len(ReportDefs) \in Nat /\ DOMAIN ReportDefs = 1..Len(ReportDefs)
      /\ ReportDefs \in [1..Len(ReportDefs) -> defs]
  BY <1>1, LenProperties, Zenon
<1>3. \A i \in 1..Len(ReportDefs) : ReportDefs[i] \in defs
  BY <1>2
<1> QED BY <1>2, <1>3 DEF defs

LEMMA PickIsDefined ==
  ASSUME NEW size \in Nat, NEW dir \in {"in", "out"}
  PROVE  /\ \E i \in DOMAIN ReportDefs : pick(size, dir) = ReportDefs[i]
         /\ pick(size, dir).id \in 0..255 /\ MaxPayload(pick(size, dir)) \in Nat \ {0}
<1> DEFINE n == Len(ReportDefs)
           defs == {i \in DOMAIN ReportDefs : ReportDefs[i].dir = dir}
           fits == {i \in defs : MaxPayload(ReportDefs[i]) >= size}
<1>1. n \in Nat /\ DOMAIN ReportDefs = 1..n
      /\ \A i \in 1..n : ReportDefs[i] \in [id : 0..255, length : 2..255, dir : {"in", "out"}]
  BY DefsAre
<1>2. defs \in SUBSET (1..n) /\ defs # {} /\ fits \in SUBSET (1..n)
  <2>1. defs \in SUBSET (1..n) /\ fits \in SUBSET (1..n)
    BY <1>1
  <2>2. \E i \in DOMAIN ReportDefs : ReportDefs[i].dir = dir
    BY ReportDefsAssumption
  <2> QED BY <2>1, <2>2
<1>3. pick(size, dir) = ReportDefs[IF fits = {} THEN Max(defs) ELSE Min(fits)]
  BY DEF pick
<1> HIDE DEF defs, fits, n
<1>4. Max(defs) \in 1..n
  BY <1>1, <1>2, Greatest
<1>5. fits # {} => Min(fits) \in 1..n
  BY <1>1, <1>2, Least
<1>6. PICK i \in 1..n : pick(size, dir) = ReportDefs[i]
  <2>1. CASE fits = {}
    BY <1>3, <1>4, <2>1
  <2>2. CASE fits # {}
    BY <1>3, <1>5, <2>2
  <2> QED BY <2>1, <2>2
<1> DEFINE def == ReportDefs[i]
<1>7. def \in [id : 0..255, length : 2..255, dir : {"in", "out"}]
  BY <1>1
<1> HIDE DEF def
<1>8. def.id \in 0..255 /\ MaxPayload(def) \in Nat \ {0}
  BY <1>7 DEF MaxPayload
<1> QED BY <1>1, <1>6, <1>8 DEF def

\* Some bytes are taken, at most those that are left; when bytes are left over the
\* report is full.
LEMMA TakenIsProgress ==
  ASSUME NEW data \in Text, NEW offset \in 0..Len(data), offset # Len(data),
         NEW dir \in {"in", "out"}
  PROVE  /\ Taken(data, offset, dir) \in 1..Len(data) - offset
         /\ offset + Taken(data, offset, dir) \in offset + 1..Len(data)
         /\ Chosen(data, offset, dir).id \in 0..255
         /\ \E i \in DOMAIN ReportDefs : Chosen(data, offset, dir) = ReportDefs[i]
         /\ MaxPayload(Chosen(data, offset, dir)) \in Nat \ {0}
         /\ Taken(data, offset, dir) <= MaxPayload(Chosen(data, offset, dir))
         /\ Taken(data, offset, dir) # Len(data) - offset
              => Taken(data, offset, dir) = MaxPayload(Chosen(data, offset, dir))
<1> DEFINE left == Len(data) - offset
           max == MaxPayload(Chosen(data, offset, dir))
<1>1. Len(data) \in Nat /\ offset \in Nat /\ left \in Nat \ {0}
  BY DEF Text
<1>2. /\ \E i \in DOMAIN ReportDefs : Chosen(data, offset, dir) = ReportDefs[i]
      /\ Chosen(data, offset, dir).id \in 0..255 /\ max \in Nat \ {0}
  <2> HIDE DEF left
  <2>1. /\ \E i \in DOMAIN ReportDefs : pick(left, dir) = ReportDefs[i]
        /\ pick(left, dir).id \in 0..255 /\ MaxPayload(pick(left, dir)) \in Nat \ {0}
    BY <1>1, PickIsDefined, ZenonT(30)
  <2>2. Chosen(data, offset, dir) = pick(left, dir)
    BY DEF Chosen, left
  <2> QED BY <2>1, <2>2
<1>3. Taken(data, offset, dir) = IF left > max THEN max ELSE left
  BY DEF Taken
<1> HIDE DEF max
<1> QED BY <1>1, <1>2, <1>3 DEF max


LEMMA ContentIsText ==
  ASSUME NEW data \in Text, NEW offset \in 0..Len(data), offset # Len(data),
         NEW dir \in {"in", "out"}
  PROVE  /\ SubSeq(data, offset + 1, offset + Taken(data, offset, dir)) \in Text
         /\ Len(SubSeq(data, offset + 1, offset + Taken(data, offset, dir)))
              = Taken(data, offset, dir)
         /\ Padding(data, offset, dir) \in Text
         /\ Len(Padding(data, offset, dir))
              = MaxPayload(Chosen(data, offset, dir)) - Taken(data, offset, dir)
         /\ Content(data, offset, dir) \in Text
         /\ Len(Content(data, offset, dir)) = MaxPayload(Chosen(data, offset, dir))
<1> DEFINE taken == Taken(data, offset, dir)
           max == MaxPayload(Chosen(data, offset, dir))
           part == SubSeq(data, offset + 1, offset + taken)
           pad == Padding(data, offset, dir)
<1>1. /\ taken \in 1..Len(data) - offset /\ max \in Nat \ {0} /\ taken <= max
      /\ Len(data) \in Nat /\ offset \in Nat
  <2>1. Len(data) \in Nat
    BY DEF Text
  <2>2. taken \in 1..Len(data) - offset /\ max \in Nat \ {0} /\ taken <= max
    BY TakenIsProgress
  <2> QED BY <2>1, <2>2
<1>2. pad = Zeros(max - taken)
  BY DEF Padding
<1>3. Content(data, offset, dir) = part \o pad
  BY DEF Content
<1> HIDE DEF taken, max
<1>4. part \in Text /\ Len(part) = taken
  <2>1. offset + 1 \in Nat \ {0} /\ offset + taken \in Int /\ offset + taken <= Len(data)
    BY <1>1
  <2> QED BY <1>1, <2>1, PartIsText
<1>5. pad \in Text /\ Len(pad) = max - taken
  <2>1. max - taken \in Nat
    BY <1>1
  <2> QED BY <1>2, <2>1, ZerosIsText DEF Zeros
<1> HIDE DEF part, pad
<1>6. part \o pad \in Text /\ Len(part \o pad) = max
  <2>1. part \o pad \in Text /\ Len(part \o pad) = Len(part) + Len(pad)
    BY <1>4, <1>5, Joined, Zenon
  <2> QED BY <1>1, <1>4, <1>5, <2>1
<1> QED BY <1>3, <1>4, <1>5, <1>6 DEF taken, max, part, pad

LEMMA LinkControlIs ==
  ASSUME NEW offset, NEW is_last PROVE LinkControl(offset, is_last) \in {0, 1, 2, 3}
BY DEF LinkControl, LC_DONE, LC_CONTINUE, LC_MORE_TO_FOLLOW, LC_CONTINUE_MORE

LEMMA ReportIsText ==
  ASSUME NEW data \in Text, NEW offset \in 0..Len(data), offset # Len(data),
         NEW dir \in {"in", "out"}
  PROVE  /\ Report(data, offset, dir) \in Text
         /\ Len(Report(data, offset, dir)) = 2 + MaxPayload(Chosen(data, offset, dir))
         /\ Report(data, offset, dir)[1] = Chosen(data, offset, dir).id
         /\ Report(data, offset, dir)[2]
              = LinkControl(offset, Taken(data, offset, dir) = Len(data) - offset)
         /\ SubSeq(Report(data, offset, dir), 3, Len(Report(data, offset, dir)))
              = Content(data, offset, dir)
<1> DEFINE id == Chosen(data, offset, dir).id
           lc == LinkControl(offset, Taken(data, offset, dir) = Len(data) - offset)
           head == <<id, lc>>
           content == Content(data, offset, dir)
           max == MaxPayload(Chosen(data, offset, dir))
<1>1. id \in Nat /\ lc \in Nat /\ max \in Nat \ {0}
  <2>1. id \in 0..255 /\ max \in Nat \ {0}
    BY TakenIsProgress, ZenonT(30)
  <2>2. lc \in {0, 1, 2, 3}
    BY LinkControlIs
  <2> HIDE DEF id, lc, max
  <2> QED BY <2>1, <2>2
<1>2. content \in Text /\ Len(content) = max
  BY ContentIsText
<1>3. Report(data, offset, dir) = head \o content
  <2> DEFINE part == SubSeq(data, offset + 1, offset + Taken(data, offset, dir))
             pad == Padding(data, offset, dir)
  <2>1. head \in Seq(Nat) /\ part \in Seq(Nat) /\ pad \in Seq(Nat)
    <3> HIDE DEF id, lc
    <3>1. head \in Text
      BY <1>1, ShortIsText
    <3> QED BY <3>1, ContentIsText DEF Text
  <2>2. Report(data, offset, dir) = (head \o part) \o pad /\ content = part \o pad
    BY DEF Report, Content
  <2> HIDE DEF head, part, pad, content
  <2>3. (head \o part) \o pad = head \o (part \o pad)
    BY <2>1, JoinsAssociate
  <2> QED BY <2>2, <2>3, Zenon
<1> HIDE DEF id, lc, content, max
<1>4. head \in Text /\ Len(head) = 2 /\ head[1] = id /\ head[2] = lc
  BY <1>1, ShortIsText
<1> HIDE DEF head
<1>5. /\ head \o content \in Text /\ Len(head \o content) = 2 + max
      /\ \A i \in 1..2 + max : (head \o content)[i] = IF i <= 2 THEN head[i] ELSE content[i - 2]
  <2>1. /\ head \o content \in Text /\ Len(head \o content) = Len(head) + Len(content)
        /\ \A i \in 1..Len(head) + Len(content) :
             (head \o content)[i] = IF i <= Len(head) THEN head[i] ELSE content[i - Len(head)]
    BY <1>2, <1>4, Joined, Zenon
  <2> QED BY <1>1, <1>2, <1>4, <2>1
<1>6. (head \o content)[1] = id /\ (head \o content)[2] = lc
  BY <1>1, <1>4, <1>5
<1>7. SubSeq(head \o content, 3, 2 + max) = content
  <2>1. SubSeq(head \o content, 3, 2 + max) \in Text
        /\ Len(SubSeq(head \o content, 3, 2 + max)) = max
    <3>1. 3 \in Nat \ {0} /\ 2 + max \in Int /\ 3 <= 2 + max /\ 2 + max - 3 + 1 = max
      BY <1>1
    <3> DEFINE r == head \o content
    <3> HIDE DEF r
    <3>2. r \in Text /\ Len(r) = 2 + max
      BY <1>5 DEF r
    <3>3. SubSeq(r, 3, 2 + max) \in Text /\ Len(SubSeq(r, 3, 2 + max)) = max
      BY <1>1, <3>1, <3>2, PartIsText
    <3> QED BY <3>3 DEF r
  <2>2. \A i \in 1..max : SubSeq(head \o content, 3, 2 + max)[i] = content[i]
    <3> SUFFICES ASSUME NEW i \in 1..max
                 PROVE  SubSeq(head \o content, 3, 2 + max)[i] = content[i]
      OBVIOUS
    <3>1. SubSeq(head \o content, 3, 2 + max)[i] = (head \o content)[i + 2]
      <4> DEFINE r == head \o content
      <4> HIDE DEF r
      <4>1. r \in Text /\ Len(r) = 2 + max /\ 3 + i - 1 = i + 2
        BY <1>1, <1>5 DEF r
      <4>2. i \in 1..(2 + max) - 3 + 1 /\ 2 + max \in Int
        BY <1>1
      <4>3. SubSeq(r, 3, 2 + max)[i] = r[3 + i - 1]
        BY <1>1, <4>1, <4>2, PartElement
      <4> QED BY <4>1, <4>3 DEF r
    <3>2. (head \o content)[i + 2] = content[i]
      <4>1. i + 2 \in 1..2 + max /\ ~(i + 2 <= 2) /\ i + 2 - 2 = i
        BY <1>1
      <4> QED BY <1>5, <4>1
    <3> QED BY <3>1, <3>2
  <2> QED BY <1>2, <2>1, <2>2, SeqEqual DEF Text
<1> QED BY <1>3, <1>5, <1>6, <1>7 DEF id, lc, content, max

Full == Text \ {<<>>}

LEMMA ReportIsFull ==
  ASSUME NEW data \in Text, NEW offset \in 0..Len(data), offset # Len(data),
         NEW dir \in {"in", "out"}
  PROVE  Report(data, offset, dir) \in Full
<1> DEFINE report == Report(data, offset, dir)
           max == MaxPayload(Chosen(data, offset, dir))
<1>1. report \in Text /\ Len(report) = 2 + max
  BY ReportIsText, Zenon
<1>2. max \in Nat \ {0}
  BY TakenIsProgress, Zenon
<1> HIDE DEF report, max
<1>3. report # <<>>
  BY <1>1, <1>2
<1> QED BY <1>1, <1>3 DEF Full, report

LEMMA ReportsGoOn ==
  ASSUME NEW data \in Text, NEW dir \in {"in", "out"}
  PROVE  /\ encode_frame(data, dir) = Reports(data, dir)[0]
         /\ Reports(data, dir) \in [0..Len(data) -> Seq(Full)]
         /\ \A o \in 0..Len(data) :
              Reports(data, dir)[o] = ReportsNext(data, dir, Reports(data, dir), o)
<1> DEFINE N == Len(data)
           D == 0..N
           V == Seq(Full)
           rank == [o \in D |-> N - o]
           step == [o \in D |-> [g \in [D -> V] |-> ReportsNext(data, dir, g, o)]]
           f == Reports(data, dir)
<1>1. N \in Nat
  BY DEF Text
<1>2. rank \in [D -> Nat] /\ (\A o \in D : rank[o] <= N) /\ V # {}
  <2>1. <<>> \in V
    OBVIOUS
  <2> HIDE DEF N, V
  <2>2. \A o \in D : N - o \in Nat /\ N - o <= N
    BY <1>1
  <2> QED BY <2>1, <2>2
<1>3. ASSUME NEW o \in D, o # N
      PROVE  o + Taken(data, o, dir) \in D /\ o + Taken(data, o, dir) > o
  <2>1. o + Taken(data, o, dir) \in o + 1..N
    BY <1>3, TakenIsProgress
  <2> HIDE DEF N
  <2> QED BY <1>1, <2>1
<1>4. ASSUME NEW o \in D, NEW g \in [D -> V] PROVE ReportsNext(data, dir, g, o) \in V
  <2>1. CASE o = N
    BY <2>1 DEF ReportsNext
  <2>2. CASE o # N
    <3> DEFINE first == Report(data, o, dir)
               rest == g[o + Taken(data, o, dir)]
    <3>1. first \in Full
      BY <2>2, ReportIsFull
    <3>2. rest \in V
      BY <1>3, <2>2
    <3>3. ReportsNext(data, dir, g, o) = <<first>> \o rest
      BY <2>2 DEF ReportsNext
    <3> HIDE DEF first, rest
    <3>4. <<first>> \in V
      BY <3>1
    <3>5. <<first>> \o rest \in V
      BY <3>2, <3>4, ConcatProperties
    <3> QED BY <3>3, <3>5
  <2> QED BY <2>1, <2>2
<1>5. ASSUME NEW o \in D, NEW g, NEW h, \A k \in D : k > o => g[k] = h[k]
      PROVE  ReportsNext(data, dir, g, o) = ReportsNext(data, dir, h, o)
  <2>1. CASE o = N
    BY <2>1 DEF ReportsNext
  <2>2. CASE o # N
    <3>1. g[o + Taken(data, o, dir)] = h[o + Taken(data, o, dir)]
      BY <1>3, <1>5, <2>2
    <3> QED BY <2>2, <3>1 DEF ReportsNext
  <2> QED BY <2>1, <2>2
<1>6. LooksBelow(D, V, rank, step)
  <2>1. step \in [D -> [[D -> V] -> V]]
    <3> HIDE DEF D, V
    <3> QED BY <1>4
  <2>2. ASSUME NEW o \in D, NEW g \in [D -> V], NEW h \in [D -> V],
               \A e \in D : rank[e] < rank[o] => g[e] = h[e]
        PROVE  ReportsNext(data, dir, g, o) = ReportsNext(data, dir, h, o)
    <3>1. ASSUME NEW k \in D, k > o PROVE g[k] = h[k]
      <4>1. rank[k] < rank[o]
        <5> HIDE DEF N
        <5> QED BY <1>1, <3>1
      <4> QED BY <2>2, <4>1
    <3> QED BY <3>1, <1>5
  <2> HIDE DEF D, V, rank
  <2> QED BY <2>1, <2>2 DEF LooksBelow
<1>7. PICK w \in [D -> V] : \A o \in D : w[o] = step[o][w]
  <2> HIDE DEF D, V, rank, step
  <2> QED BY <1>1, <1>2, <1>6, FixedPoint
<1>8. w = [o \in D |-> ReportsNext(data, dir, w, o)]
  <2> HIDE DEF D, V
  <2> QED BY <1>7
<1>9. f = [o \in D |-> ReportsNext(data, dir, f, o)]
  BY <1>8 DEF Reports
<1> HIDE DEF f
<1>10. f = w
  <2>1. ASSUME NEW o \in D, \A e \in D : rank[e] < rank[o] => f[e] = w[e] PROVE f[o] = w[o]
    <3>1. ASSUME NEW k \in D, k > o PROVE f[k] = w[k]
      <4>1. rank[k] < rank[o]
        <5> HIDE DEF N
        <5> QED BY <1>1, <3>1
      <4> QED BY <2>1, <4>1
    <3>2. ReportsNext(data, dir, f, o) = ReportsNext(data, dir, w, o)
      BY <3>1, <1>5
    <3> HIDE DEF D
    <3> QED BY <1>8, <1>9, <3>2
  <2> HIDE DEF D, rank, V
  <2>2. AgreeAbove(D, rank, f, w)
    BY <1>8, <1>9, <2>1 DEF AgreeAbove
  <2> QED BY <1>2, <2>2, Unique
<1>11. \A o \in D : f[o] = ReportsNext(data, dir, f, o)
  <2> HIDE DEF D
  <2> QED BY <1>9
<1>12. encode_frame(data, dir) = f[0]
  BY Zenon DEF encode_frame, Reports, ReportsNext, Report, Taken, Padding, Chosen, Zeros, f
<1> QED BY <1>7, <1>10, <1>11, <1>12 DEF f

\* The reports that are left are none exactly behind the last byte, and the first of
\* them is followed by those behind what it takes.
LEMMA ReportsAre ==
  ASSUME NEW data \in Text, NEW dir \in {"in", "out"}, NEW o \in 0..Len(data), o # Len(data)
  PROVE  /\ Reports(data, dir)[o] \in Seq(Full) /\ Reports(data, dir)[o] # <<>>
         /\ Head(Reports(data, dir)[o]) = Report(data, o, dir)
         /\ Tail(Reports(data, dir)[o]) = Reports(data, dir)[o + Taken(data, o, dir)]
         /\ Tail(Reports(data, dir)[o]) = <<>> <=> o + Taken(data, o, dir) = Len(data)
         /\ Len(Reports(data, dir)[o]) = 1 <=> o + Taken(data, o, dir) = Len(data)
<1> DEFINE f == Reports(data, dir)
           o2 == o + Taken(data, o, dir)
           first == Report(data, o, dir)
<1>1. /\ f \in [0..Len(data) -> Seq(Full)]
      /\ \A k \in 0..Len(data) : f[k] = ReportsNext(data, dir, f, k)
  BY ReportsGoOn
<1>2. o2 \in 0..Len(data)
  <2>1. o2 \in o + 1..Len(data)
    BY TakenIsProgress
  <2> HIDE DEF o2
  <2> QED BY <2>1
<1>3. first \in Full
  BY ReportIsFull
<1>4. f[o] = <<first>> \o f[o2]
  <2>1. f[o] = ReportsNext(data, dir, f, o)
    BY <1>1
  <2> QED BY <2>1 DEF ReportsNext
<1>5. f[o2] = <<>> <=> o2 = Len(data)
  <2>1. f[o2] = ReportsNext(data, dir, f, o2)
    BY <1>1, <1>2
  <2>2. CASE o2 = Len(data)
    BY <2>1, <2>2 DEF ReportsNext
  <2>3. CASE o2 # Len(data)
    <3> DEFINE o3 == o2 + Taken(data, o2, dir)
               second == Report(data, o2, dir)
    <3>1. f[o2] = <<second>> \o f[o3]
      BY <2>1, <2>3 DEF ReportsNext
    <3>2. second \in Full
      BY <1>2, <2>3, ReportIsFull
    <3>3. o3 \in 0..Len(data)
      <4>1. o3 \in o2 + 1..Len(data)
        BY <1>2, <2>3, TakenIsProgress
      <4> HIDE DEF o2, o3
      <4> QED BY <1>2, <4>1
    <3>4. f[o3] \in Seq(Full)
      BY <1>1, <3>3
    <3> HIDE DEF f, o2, o3, second
    <3> DEFINE rest == f[o3]
    <3> HIDE DEF rest
    <3>5. <<second>> \in Seq(Full) /\ rest \in Seq(Full) /\ Len(<<second>>) = 1
      BY <3>2, <3>4 DEF rest
    <3>6. Len(<<second>> \o rest) = 1 + Len(rest) /\ Len(rest) \in Nat
      BY <3>5, ConcatProperties
    <3>7. <<second>> \o rest # <<>>
      BY <3>6
    <3> QED BY <2>3, <3>1, <3>7 DEF rest
  <2> QED BY <2>2, <2>3
<1> DEFINE rest == f[o2]
<1>6. rest \in Seq(Full)
  BY <1>1, <1>2
<1> HIDE DEF f, o2, first, rest
<1>7. f[o] = <<first>> \o rest
  BY <1>4 DEF rest
<1>8. <<first>> \o rest \in Seq(Full) /\ Len(<<first>> \o rest) = 1 + Len(rest)
  <2>1. <<first>> \in Seq(Full) /\ Len(<<first>>) = 1
    BY <1>3
  <2> QED BY <1>6, <2>1, ConcatProperties
<1>9. Head(<<first>> \o rest) = first
  BY <1>3, <1>6
<1>10. Tail(<<first>> \o rest) = rest
  BY <1>3, <1>6
<1>11. Len(rest) \in Nat /\ (Len(rest) = 0 <=> rest = <<>>)
  BY <1>6
<1>12. <<first>> \o rest # <<>> /\ (Len(<<first>> \o rest) = 1 <=> rest = <<>>)
  BY <1>8, <1>11
<1> QED BY <1>5, <1>7, <1>8, <1>9, <1>10, <1>12 DEF f, o2, first, rest

-----------------------------------------------------------------------------
Pushes == [buf : Text, frame : Text]

\* What a report carries: the padding is cut to the definition's length.
Payload(report) ==
  LET known == {i \in DOMAIN ReportDefs : ReportDefs[i].id = report[1]}
      whole == SubSeq(report, 3, Len(report))
  IN  IF known = {} THEN whole
      ELSE LET max == MaxPayload(ReportDefs[Max(known)])
           IN  SubSeq(whole, 1, IF max < Len(whole) THEN max ELSE Len(whole))

\* What push does, one LinkControl at a time.
LEMMA PushCases ==
  ASSUME NEW buf, NEW report
  PROVE  /\ Len(report) < 2 => push(buf, report) = [buf |-> buf, frame |-> <<>>]
         /\ ~(Len(report) < 2) =>
              /\ report[2] = 0 => push(buf, report) = [buf |-> <<>>, frame |-> Payload(report)]
              /\ report[2] = 2 => push(buf, report) = [buf |-> Payload(report), frame |-> <<>>]
              /\ report[2] = 3 =>
                   push(buf, report) = [buf |-> buf \o Payload(report), frame |-> <<>>]
              /\ report[2] = 1 =>
                   push(buf, report) = [buf |-> <<>>, frame |-> buf \o Payload(report)]
              /\ report[2] \notin {0, 1, 2, 3} => push(buf, report) = [buf |-> buf, frame |-> <<>>]
<1> DEFINE payload == Payload(report)
<1>1. push(buf, report) =
        IF Len(report) < 2 THEN [buf |-> buf, frame |-> <<>>]
        ELSE CASE report[2] = 0 -> [buf |-> <<>>, frame |-> payload]
               [] report[2] = 2 -> [buf |-> payload, frame |-> <<>>]
               [] report[2] = 3 -> [buf |-> buf \o payload, frame |-> <<>>]
               [] report[2] = 1 -> [buf |-> <<>>, frame |-> buf \o payload]
               [] OTHER         -> [buf |-> buf, frame |-> <<>>]
  BY Zenon DEF push, Payload, LC_DONE, LC_CONTINUE, LC_MORE_TO_FOLLOW, LC_CONTINUE_MORE
<1> HIDE DEF payload
<1>2. Len(report) < 2 => push(buf, report) = [buf |-> buf, frame |-> <<>>]
  BY <1>1
<1>3. SUFFICES ASSUME ~(Len(report) < 2)
      PROVE  /\ report[2] = 0 => push(buf, report) = [buf |-> <<>>, frame |-> payload]
             /\ report[2] = 2 => push(buf, report) = [buf |-> payload, frame |-> <<>>]
             /\ report[2] = 3 => push(buf, report) = [buf |-> buf \o payload, frame |-> <<>>]
             /\ report[2] = 1 => push(buf, report) = [buf |-> <<>>, frame |-> buf \o payload]
             /\ report[2] \notin {0, 1, 2, 3}
                  => push(buf, report) = [buf |-> buf, frame |-> <<>>]
  BY <1>2 DEF payload
<1> DEFINE lc == report[2]
<1>4. push(buf, report) =
        CASE lc = 0 -> [buf |-> <<>>, frame |-> payload]
          [] lc = 2 -> [buf |-> payload, frame |-> <<>>]
          [] lc = 3 -> [buf |-> buf \o payload, frame |-> <<>>]
          [] lc = 1 -> [buf |-> <<>>, frame |-> buf \o payload]
          [] OTHER  -> [buf |-> buf, frame |-> <<>>]
  BY <1>1, <1>3
<1> HIDE DEF lc
<1> QED BY <1>4 DEF lc

LEMMA PayloadIsText ==
  ASSUME NEW report \in Text, ~(Len(report) < 2) PROVE Payload(report) \in Text
<1> DEFINE known == {i \in DOMAIN ReportDefs : ReportDefs[i].id = report[1]}
           whole == SubSeq(report, 3, Len(report))
           max == MaxPayload(ReportDefs[Max(known)])
           n == Len(ReportDefs)
<1>1. whole \in Text /\ Len(whole) \in Nat
  <2>1. Len(report) \in Nat
    BY DEF Text
  <2>2. whole \in Text
    BY <2>1, PartIsText
  <2> HIDE DEF whole
  <2> QED BY <2>2 DEF Text
<1>2. n \in Nat /\ DOMAIN ReportDefs = 1..n
      /\ \A i \in 1..n : ReportDefs[i] \in [id : 0..255, length : 2..255, dir : {"in", "out"}]
  BY DefsAre
<1>3. known \in SUBSET (1..n)
  <2>1. known \in SUBSET DOMAIN ReportDefs
    OBVIOUS
  <2> HIDE DEF known, n
  <2> QED BY <1>2, <2>1
<1>4. known # {} => max \in Nat
  <2> SUFFICES ASSUME known # {} PROVE max \in Nat
    OBVIOUS
  <2> DEFINE i == Max(known)
  <2> HIDE DEF known, n
  <2>1. i \in 1..n
    BY <1>2, <1>3, Greatest
  <2> DEFINE def == ReportDefs[i]
  <2>2. def \in [id : 0..255, length : 2..255, dir : {"in", "out"}]
    BY <1>2, <2>1
  <2> HIDE DEF def
  <2>3. MaxPayload(def) \in Nat
    <3>1. def.length \in 2..255
      BY <2>2
    <3>2. MaxPayload(def) = def.length - 1
      BY DEF MaxPayload
    <3>3. \A x \in 2..255 : x - 1 \in Nat
      OBVIOUS
    <3>4. def.length - 1 \in Nat
      BY <3>1, <3>3, Zenon
    <3> QED BY <3>2, <3>4, Zenon
  <2> QED BY <2>3 DEF def
<1>5. Payload(report) = IF known = {} THEN whole
                        ELSE SubSeq(whole, 1, IF max < Len(whole) THEN max ELSE Len(whole))
  BY DEF Payload
<1> HIDE DEF known, whole, max
<1>6. known # {} => SubSeq(whole, 1, IF max < Len(whole) THEN max ELSE Len(whole)) \in Text
  <2> DEFINE b == IF max < Len(whole) THEN max ELSE Len(whole)
  <2>1. known # {} => b \in Int /\ b <= Len(whole)
    BY <1>1, <1>4
  <2> HIDE DEF b
  <2>2. known # {} => SubSeq(whole, 1, b) \in Text
    BY <1>1, <2>1, PartIsText
  <2> QED BY <2>2 DEF b
<1> QED BY <1>1, <1>5, <1>6

LEMMA PushIsTyped ==
  ASSUME NEW buf \in Text, NEW report \in Text PROVE push(buf, report) \in Pushes
<1>1. <<>> \in Text
  BY ShortIsText
<1>2. CASE Len(report) < 2
  <2>1. push(buf, report) = [buf |-> buf, frame |-> <<>>]
    BY <1>2, PushCases
  <2> QED BY <1>1, <2>1 DEF Pushes
<1>3. CASE ~(Len(report) < 2)
  <2> DEFINE payload == Payload(report)
  <2>1. payload \in Text /\ buf \o payload \in Text
    BY <1>3, PayloadIsText, JoinIsText
  <2>2. \/ push(buf, report) = [buf |-> <<>>, frame |-> payload]
        \/ push(buf, report) = [buf |-> payload, frame |-> <<>>]
        \/ push(buf, report) = [buf |-> buf \o payload, frame |-> <<>>]
        \/ push(buf, report) = [buf |-> <<>>, frame |-> buf \o payload]
        \/ push(buf, report) = [buf |-> buf, frame |-> <<>>]
    <3> HIDE DEF payload
    <3> QED BY <1>3, PushCases DEF payload
  <2> HIDE DEF payload
  <2> DEFINE joined == buf \o payload
  <2>3. joined \in Text
    BY <2>1
  <2> HIDE DEF joined
  <2>4. \A a, b \in Text : [buf |-> a, frame |-> b] \in Pushes
    BY DEF Pushes
  <2> QED BY <1>1, <2>1, <2>2, <2>3, <2>4 DEF joined
<1> QED BY <1>2, <1>3

\* A report carries the bytes it took and its padding.
LEMMA ReportCarries ==
  ASSUME NEW data \in Text, NEW offset \in 0..Len(data), offset # Len(data),
         NEW dir \in {"in", "out"}
  PROVE  Payload(Report(data, offset, dir)) = Content(data, offset, dir)
<1> DEFINE report == Report(data, offset, dir)
           content == Content(data, offset, dir)
           chosen == Chosen(data, offset, dir)
           known == {i \in DOMAIN ReportDefs : ReportDefs[i].id = report[1]}
           whole == SubSeq(report, 3, Len(report))
           max == MaxPayload(ReportDefs[Max(known)])
           n == Len(ReportDefs)
<1>1. Payload(report) = IF known = {} THEN whole
                        ELSE SubSeq(whole, 1, IF max < Len(whole) THEN max ELSE Len(whole))
  BY DEF Payload
<1>2. whole = content /\ report[1] = chosen.id
  BY ReportIsText
<1>3. content \in Text /\ Len(content) = MaxPayload(chosen) /\ MaxPayload(chosen) \in Nat \ {0}
  <2>1. content \in Text /\ Len(content) = MaxPayload(chosen)
    BY ContentIsText, Zenon
  <2>2. MaxPayload(chosen) \in Nat \ {0}
    BY TakenIsProgress, Zenon
  <2> QED BY <2>1, <2>2
<1>4. PICK k \in DOMAIN ReportDefs : chosen = ReportDefs[k]
  BY TakenIsProgress
<1>5. known = {k}
  <2> HIDE DEF report, chosen
  <2> QED BY <1>2, <1>4, ReportDefsAssumption
<1>6. Max(known) = k
  <2>1. n \in Nat /\ DOMAIN ReportDefs = 1..n
    BY ReportDefsAssumption, LenProperties
  <2> HIDE DEF known, n
  <2>2. known \in SUBSET (1..n) /\ known # {}
    BY <1>4, <1>5, <2>1
  <2>3. Max(known) \in known
    BY <2>1, <2>2, Greatest
  <2> QED BY <1>5, <2>3
<1>7. max = MaxPayload(chosen)
  <2> HIDE DEF known, chosen
  <2> QED BY <1>4, <1>6
<1> HIDE DEF report, content, chosen, known, whole, max
<1>8. Payload(report) = SubSeq(content, 1, Len(content))
  <2>1. known # {}
    BY <1>5
  <2>2. Payload(report) = SubSeq(whole, 1, IF max < Len(whole) THEN max ELSE Len(whole))
    BY <1>1, <2>1
  <2> QED BY <1>2, <1>3, <1>7, <2>2
<1>9. SubSeq(content, 1, Len(content)) = content
  <2>1. content \in Seq(Nat)
    BY <1>3 DEF Text
  <2> QED BY <2>1, SubSeqFull
<1> QED BY <1>8, <1>9 DEF report, content

\* The bytes taken follow those that were taken before.
LEMMA PartsJoin ==
  ASSUME NEW data \in Text, NEW a \in 0..Len(data), NEW b \in a..Len(data)
  PROVE  SubSeq(data, 1, a) \o SubSeq(data, a + 1, b) = SubSeq(data, 1, b)
<1>1. Len(data) \in Nat /\ a \in Nat /\ b \in Nat /\ a <= b /\ b <= Len(data)
  BY DEF Text
<1> DEFINE s == SubSeq(data, 1, a)
           t == SubSeq(data, a + 1, b)
           u == SubSeq(data, 1, b)
<1>2. s \in Text /\ Len(s) = a
  BY <1>1, PartIsText
<1>3. t \in Text /\ Len(t) = b - a
  <2>1. a + 1 \in Nat \ {0}
    BY <1>1
  <2>2. t \in Text /\ Len(t) = IF a + 1 <= b THEN b - (a + 1) + 1 ELSE 0
    BY <1>1, <2>1, PartIsText
  <2> HIDE DEF t
  <2> QED BY <1>1, <2>2
<1>4. u \in Text /\ Len(u) = b
  BY <1>1, PartIsText
<1>5. \A i \in 1..a : s[i] = data[i]
  <2> SUFFICES ASSUME NEW i \in 1..a PROVE s[i] = data[i]
    OBVIOUS
  <2>1. SubSeq(data, 1, a)[i] = data[1 + i - 1]
    BY <1>1, PartElement
  <2> QED BY <2>1
<1>6. \A i \in 1..b - a : t[i] = data[a + i]
  <2> SUFFICES ASSUME NEW i \in 1..b - a PROVE t[i] = data[a + i]
    OBVIOUS
  <2>1. a + 1 \in Nat \ {0} /\ i \in 1..b - (a + 1) + 1 /\ (a + 1) + i - 1 = a + i
    BY <1>1
  <2>2. SubSeq(data, a + 1, b)[i] = data[(a + 1) + i - 1]
    BY <1>1, <2>1, PartElement
  <2> QED BY <2>1, <2>2
<1>7. \A i \in 1..b : u[i] = data[i]
  <2> SUFFICES ASSUME NEW i \in 1..b PROVE u[i] = data[i]
    OBVIOUS
  <2>1. SubSeq(data, 1, b)[i] = data[1 + i - 1]
    BY <1>1, PartElement
  <2> QED BY <2>1
<1> HIDE DEF s, t, u
<1>8. s \o t \in Text /\ Len(s \o t) = b
  <2>1. s \o t \in Text /\ Len(s \o t) = Len(s) + Len(t)
    BY <1>2, <1>3, Joined, Zenon
  <2> QED BY <1>1, <1>2, <1>3, <2>1
<1>9. \A i \in 1..b : (s \o t)[i] = u[i]
  <2> SUFFICES ASSUME NEW i \in 1..b PROVE (s \o t)[i] = u[i]
    OBVIOUS
  <2>1. (s \o t)[i] = IF i <= a THEN s[i] ELSE t[i - a]
    <3>1. \A k \in 1..Len(s) + Len(t) :
            (s \o t)[k] = IF k <= Len(s) THEN s[k] ELSE t[k - Len(s)]
      BY <1>2, <1>3, Joined, Zenon
    <3>2. i \in 1..Len(s) + Len(t)
      BY <1>1, <1>2, <1>3
    <3> QED BY <1>2, <3>1, <3>2
  <2>2. CASE i <= a
    BY <1>1, <1>5, <1>7, <2>1, <2>2
  <2>3. CASE ~(i <= a)
    <3>1. i - a \in 1..b - a /\ a + (i - a) = i
      BY <1>1, <2>3
    <3> QED BY <1>6, <1>7, <2>1, <2>3, <3>1
  <2> QED BY <2>2, <2>3
<1>10. s \o t = u
  <2>1. s \o t \in Seq(Nat) /\ u \in Seq(Nat)
    BY <1>4, <1>8 DEF Text
  <2> QED BY <1>4, <1>8, <1>9, <2>1, SeqEqual
<1> QED BY <1>10 DEF s, t, u

LEMMA PrefixOfJoin ==
  ASSUME NEW data \in Text, NEW pad \in Text PROVE IsPrefix(data, data \o pad)
<1>1. data \in Seq(Nat) /\ Len(data) \in Nat /\ Len(pad) \in Nat
  BY DEF Text
<1> DEFINE r == data \o pad
           lead == SubSeq(r, 1, Len(data))
<1>2. r \in Text /\ Len(r) = Len(data) + Len(pad)
      /\ \A k \in 1..Len(data) + Len(pad) :
            r[k] = IF k <= Len(data) THEN data[k] ELSE pad[k - Len(data)]
  BY Joined, Zenon
<1> HIDE DEF r
<1>3. Len(data) <= Len(r) /\ Len(data) \in Int
  BY <1>1, <1>2
<1>4. lead \in Text /\ Len(lead) = Len(data)
  BY <1>1, <1>2, <1>3, PartIsText
<1>5. \A k \in 1..Len(data) : lead[k] = data[k]
  <2> SUFFICES ASSUME NEW k \in 1..Len(data) PROVE lead[k] = data[k]
    OBVIOUS
  <2>1. lead[k] = r[1 + k - 1]
    BY <1>2, <1>3, PartElement
  <2>2. r[k] = data[k]
    BY <1>1, <1>2
  <2> QED BY <2>1, <2>2
<1> HIDE DEF lead
<1>6. lead = data
  <2>1. lead \in Seq(Nat)
    BY <1>4 DEF Text
  <2> QED BY <1>1, <1>4, <1>5, <2>1, SeqEqual
<1>7. SubSeq(data, 1, Len(data)) = data
  BY <1>1, SubSeqFull
<1> QED BY <1>3, <1>6, <1>7 DEF IsPrefix, r, lead

\* A packet of which the reassembly holds what was taken before goes on with the next
\* report: the last one completes it, the others complete nothing.
Holding(data, offset, buf) == offset # 0 => buf = SubSeq(data, 1, offset)

LEMMA PushGoesOn ==
  ASSUME NEW data \in Text, NEW offset \in 0..Len(data), offset # Len(data),
         NEW dir \in {"in", "out"}, NEW buf \in Text, Holding(data, offset, buf)
  PROVE  LET t == Taken(data, offset, dir)
             pushed == push(buf, Report(data, offset, dir))
         IN  /\ offset + t # Len(data)
                  => pushed.frame = <<>> /\ pushed.buf = SubSeq(data, 1, offset + t)
             /\ offset + t = Len(data) => IsPrefix(data, pushed.frame)
<1> DEFINE t == Taken(data, offset, dir)
           report == Report(data, offset, dir)
           max == MaxPayload(Chosen(data, offset, dir))
           part == SubSeq(data, offset + 1, offset + t)
           pad == Padding(data, offset, dir)
           before == IF offset = 0 THEN <<>> ELSE buf
           payload == Payload(report)
           lc == LinkControl(offset, t = Len(data) - offset)
           pushed == push(buf, report)
<1>1. /\ Len(data) \in Nat /\ offset \in Nat /\ t \in 1..Len(data) - offset
      /\ (t # Len(data) - offset => t = max) /\ max \in Nat \ {0}
  <2>1. Len(data) \in Nat
    BY DEF Text
  <2>2. t \in 1..Len(data) - offset /\ (t # Len(data) - offset => t = max)
        /\ max \in Nat \ {0}
    BY TakenIsProgress, ZenonT(30)
  <2> QED BY <2>1, <2>2
<1>2. /\ report \in Text /\ Len(report) = 2 + max /\ report[2] = lc
  BY ReportIsText, Zenon
<1>3. payload = part \o pad /\ part \in Text /\ pad \in Text /\ Len(pad) = max - t
  <2>1. payload = Content(data, offset, dir)
    BY ReportCarries, Zenon
  <2>2. part \in Text /\ pad \in Text /\ Len(pad) = max - t
    BY ContentIsText, Zenon
  <2> QED BY <2>1, <2>2 DEF Content
<1>4. before \in Text /\ before = SubSeq(data, 1, offset)
  <2>1. CASE offset = 0
    <3>1. SubSeq(data, 1, 0) = <<>>
      <4>1. SubSeq(data, 1, 0) \in Text /\ Len(SubSeq(data, 1, 0)) = 0
        BY <1>1, PartIsText
      <4> QED BY <4>1 DEF Text
    <3> QED BY <2>1, <3>1, ShortIsText
  <2>2. CASE offset # 0
    BY <2>2 DEF Holding
  <2> QED BY <2>1, <2>2
<1>5. before \o part = SubSeq(data, 1, offset + t)
  <2>1. offset + t \in offset..Len(data)
    <3> HIDE DEF t
    <3> QED BY <1>1
  <2>2. SubSeq(data, 1, offset) \o SubSeq(data, offset + 1, offset + t)
          = SubSeq(data, 1, offset + t)
    BY <2>1, PartsJoin
  <2> QED BY <1>4, <2>2
<1>6. pushed = IF t = Len(data) - offset
                 THEN [buf |-> <<>>, frame |-> before \o payload]
                 ELSE [buf |-> before \o payload, frame |-> <<>>]
  <2>1. ~(Len(report) < 2)
    <3> HIDE DEF report, max
    <3> QED BY <1>1, <1>2
  <2>2. payload \in Text /\ <<>> \o payload = payload
    <3>1. payload \in Text
      BY <2>1, <1>2, PayloadIsText
    <3> HIDE DEF payload
    <3> QED BY <3>1 DEF Text
  <2>3. report[2] = IF t = Len(data) - offset THEN IF offset > 0 THEN 1 ELSE 0
                    ELSE IF offset = 0 THEN 2 ELSE 3
    BY <1>2 DEF LinkControl, LC_DONE, LC_CONTINUE, LC_MORE_TO_FOLLOW, LC_CONTINUE_MORE
  <2> HIDE DEF report, payload, t, lc
  <2>4. CASE t = Len(data) - offset /\ offset > 0
    <3>1. report[2] = 1 /\ before = buf
      BY <1>1, <2>3, <2>4
    <3>2. pushed = [buf |-> <<>>, frame |-> buf \o payload]
      BY <2>1, <3>1, PushCases DEF payload
    <3> QED BY <2>4, <3>1, <3>2
  <2>5. CASE t = Len(data) - offset /\ offset = 0
    <3>1. report[2] = 0 /\ before = <<>>
      BY <1>1, <2>3, <2>5
    <3>2. pushed = [buf |-> <<>>, frame |-> payload]
      BY <2>1, <3>1, PushCases DEF payload
    <3> QED BY <2>2, <2>5, <3>1, <3>2
  <2>6. CASE t # Len(data) - offset /\ offset > 0
    <3>1. report[2] = 3 /\ before = buf
      BY <1>1, <2>3, <2>6
    <3>2. pushed = [buf |-> buf \o payload, frame |-> <<>>]
      BY <2>1, <3>1, PushCases DEF payload
    <3> QED BY <2>6, <3>1, <3>2
  <2>7. CASE t # Len(data) - offset /\ offset = 0
    <3>1. report[2] = 2 /\ before = <<>>
      BY <1>1, <2>3, <2>7
    <3>2. pushed = [buf |-> payload, frame |-> <<>>]
      BY <2>1, <3>1, PushCases DEF payload
    <3> QED BY <2>2, <2>7, <3>1, <3>2
  <2> QED BY <1>1, <2>4, <2>5, <2>6, <2>7
<1> HIDE DEF before
<1>7. before \o payload = SubSeq(data, 1, offset + t) \o pad
  <2>1. before \in Seq(Nat) /\ part \in Seq(Nat) /\ pad \in Seq(Nat)
    BY <1>3, <1>4 DEF Text
  <2> HIDE DEF part, pad, payload
  <2>2. (before \o part) \o pad = before \o (part \o pad)
    BY <2>1, JoinsAssociate
  <2>3. before \o payload = before \o (part \o pad)
    BY <1>3
  <2> QED BY <1>5, <2>2, <2>3
<1> HIDE DEF t, report, max, part, pad, payload, lc, pushed
<1>8. ASSUME offset + t # Len(data)
      PROVE  pushed.frame = <<>> /\ pushed.buf = SubSeq(data, 1, offset + t)
  <2>1. pushed = [buf |-> before \o payload, frame |-> <<>>]
    BY <1>1, <1>6, <1>8
  <2>2. SubSeq(data, 1, offset + t) \in Text
    <3>1. offset + t \in Int /\ offset + t <= Len(data)
      BY <1>1
    <3> QED BY <3>1, PartIsText
  <2>3. Len(pad) = 0
    BY <1>1, <1>3, <1>8
  <2>4. pad = <<>>
    BY <1>3, <2>3 DEF Text
  <2> DEFINE lead == SubSeq(data, 1, offset + t)
  <2> HIDE DEF lead
  <2>5. lead \o <<>> = lead
    BY <2>2 DEF Text, lead
  <2>6. before \o payload = lead
    BY <1>7, <2>4, <2>5 DEF lead
  <2> QED BY <2>1, <2>6 DEF lead
<1>9. ASSUME offset + t = Len(data) PROVE IsPrefix(data, pushed.frame)
  <2>1. pushed = [buf |-> <<>>, frame |-> before \o payload]
    BY <1>1, <1>6, <1>9
  <2>2. SubSeq(data, 1, offset + t) = data
    BY <1>9, SubSeqFull DEF Text
  <2>3. before \o payload = data \o pad
    BY <1>7, <2>2
  <2> QED BY <1>3, <2>1, <2>3, PrefixOfJoin
<1> QED BY <1>8, <1>9 DEF t, report, pushed

-----------------------------------------------------------------------------
Sendings == [packet : Full, reports : Seq(Full) \ {<<>>}, begun : BOOLEAN]
Entries  == [packet : Full, report : Full]

\* Every variable has its type, the session being one whose one-shots came in order;
\* an opener starts only while some are left.
BridgeTyped ==
  /\ bearer \in Bearers
  /\ inbox \in Seq(Text) /\ received \in 0..MaxPackets
  /\ reader \in {"alive", "dead"} /\ reasm \in Text /\ session \in Sound /\ got_rx \in BOOLEAN
  /\ replies \in Seq(Sendings)
  /\ opener \in {"check", "start", "done"} /\ opened \in 0..MaxOpeners
  /\ senders \in Seq(Sendings)
  /\ fifo \in Seq(Entries) /\ Len(fifo) \in 0..FifoSize
  /\ hu_buf \in Text /\ split \in BOOLEAN
  /\ reader = "dead" => got_rx
  /\ opener = "start" => opened # MaxOpeners /\ Openers # <<>>

LEMMA OutgoingIsTyped ==
  ASSUME NEW bytes \in Full
  PROVE  Outgoing(bytes) \in Sendings
         /\ Outgoing(bytes).reports = Reports(bytes, "in")[0] /\ 0 # Len(bytes)
<1>1. bytes \in Text /\ bytes # <<>> /\ Len(bytes) \in Nat
  BY DEF Full, Text
<1>2. 0 # Len(bytes) /\ 0 \in 0..Len(bytes)
  <2>1. Len(bytes) # 0
    BY <1>1 DEF Text
  <2> QED BY <1>1, <2>1
<1>3. encode_frame(bytes, "in") = Reports(bytes, "in")[0]
  BY <1>1, ReportsGoOn
<1>4. Reports(bytes, "in")[0] \in Seq(Full) \ {<<>>}
  BY <1>1, <1>2, ReportsAre
<1>5. Outgoing(bytes) = [packet |-> bytes, reports |-> Reports(bytes, "in")[0], begun |-> FALSE]
  BY <1>3 DEF Outgoing
<1> DEFINE reports == Reports(bytes, "in")[0]
<1> HIDE DEF reports
<1>6. [packet |-> bytes, reports |-> reports, begun |-> FALSE] \in Sendings
  BY <1>4 DEF Sendings, reports
<1> QED BY <1>2, <1>5, <1>6 DEF reports

LEMMA DeliveredIsTyped ==
  ASSUME bearer \in Bearers, NEW bytes \in InPackets PROVE Delivered(bytes) \in Seq(Text)
<1> DEFINE reports == encode_frame(bytes, "out")
<1>1. bytes \in Text
  BY BridgeAssumption, BytesAreText
<1>2. reports \in Seq(Full)
  <2>1. Reports(bytes, "out") \in [0..Len(bytes) -> Seq(Full)]
        /\ reports = Reports(bytes, "out")[0]
    BY <1>1, ReportsGoOn
  <2>2. 0 \in 0..Len(bytes)
    BY <1>1 DEF Text
  <2> QED BY <2>1, <2>2
<1>3. Delivered(bytes) = IF bearer = "interrupt_out" THEN reports
                         ELSE [k \in DOMAIN reports |-> Tail(reports[k])]
  BY DEF Delivered
<1> HIDE DEF reports
<1>4. reports \in Seq(Text)
  BY <1>2 DEF Full
<1>5. [k \in DOMAIN reports |-> Tail(reports[k])] \in Seq(Text)
  <2>1. Len(reports) \in Nat /\ DOMAIN reports = 1..Len(reports)
        /\ \A k \in 1..Len(reports) : reports[k] \in Full
    BY <1>2, LenProperties, ElementOfSeq
  <2>2. \A t \in Full : Tail(t) \in Text
    BY DEF Full, Text
  <2>3. \A k \in 1..Len(reports) : Tail(reports[k]) \in Text
    BY <2>1, <2>2
  <2> QED BY <2>1, <2>3
<1> QED BY <1>3, <1>4, <1>5

LEMMA OpenerIsText ==
  ASSUME NEW name \in {"requestidentify", "identify", "startidps"}
  PROVE  OpenerPacket(name) \in Full
<1>1. GENERAL \in Nat
  BY DEF GENERAL
<1>2. <<>> \in Text /\ <<0, 0>> \in Text /\ <<0, 0, 0, 29>> \o Zeros(8) \in Text
  <2>1. <<0, 0, 0, 29>> \in Text /\ Zeros(8) \in Text
    BY ShortIsText, ZerosIsText
  <2> QED BY <2>1, ShortIsText, JoinIsText
<1>3. build_packet(GENERAL, 0, <<>>) \in Full
  BY <1>1, <1>2, BuildIsText DEF Full
<1>4. build_packet(GENERAL, 19, <<0, 0, 0, 29>> \o Zeros(8)) \in Full
  BY <1>1, <1>2, BuildIsText DEF Full
<1>5. build_packet(GENERAL, 56, <<0, 0>>) \in Full
  BY <1>1, <1>2, BuildIsText DEF Full
<1>6. OpenerPacket(name) =
        CASE name = "requestidentify" -> build_packet(GENERAL, 0, <<>>)
          [] name = "identify" -> build_packet(GENERAL, 19, <<0, 0, 0, 29>> \o Zeros(8))
          [] name = "startidps" -> build_packet(GENERAL, 56, <<0, 0>>)
  BY DEF OpenerPacket
<1> QED BY <1>3, <1>4, <1>5, <1>6

\* What is left of a packet after a report.
LEMMA RestIsTyped ==
  ASSUME NEW s \in Sendings
  PROVE  /\ Head(s.reports) \in Full
         /\ Len(s.reports) # 1 => Rest(s) \in Sendings
         /\ Rest(s) = [packet |-> s.packet, reports |-> Tail(s.reports), begun |-> TRUE]
<1> DEFINE r == s.reports
<1>1. r \in Seq(Full) /\ r # <<>> /\ s.packet \in Full
  BY DEF Sendings
<1>2. Rest(s) = [packet |-> s.packet, reports |-> Tail(r), begun |-> TRUE]
  <2>1. Rest(s) = [s EXCEPT !.reports = Tail(s.reports), !.begun = TRUE]
    BY DEF Rest
  <2>2. s = [packet |-> s.packet, reports |-> s.reports, begun |-> s.begun]
    BY DEF Sendings
  <2> QED BY <2>1, <2>2
<1> HIDE DEF r
<1>3. Head(r) \in Full /\ Tail(r) \in Seq(Full) /\ Len(Tail(r)) = Len(r) - 1 /\ Len(r) \in Nat
  BY <1>1, HeadTailProperties, LenProperties
<1> DEFINE tail == Tail(r)
<1> HIDE DEF tail
<1>4. Len(r) # 1 => tail # <<>>
  <2>1. Len(r) # 0
    BY <1>1
  <2>2. Len(tail) = Len(r) - 1 /\ Len(<<>>) = 0
    BY <1>3 DEF tail
  <2> QED BY <1>3, <2>1, <2>2
<1>5. Len(r) # 1 => [packet |-> s.packet, reports |-> tail, begun |-> TRUE] \in Sendings
  BY <1>1, <1>3, <1>4 DEF Sendings, tail
<1> QED BY <1>2, <1>3, <1>5 DEF r, tail

LEMMA QueuedIsTyped ==
  ASSUME NEW s \in Sendings, fifo \in Seq(Entries), Len(fifo) < FifoSize, Len(fifo) \in Nat
  PROVE  Queued(s) \in Seq(Entries) /\ Len(Queued(s)) \in 0..FifoSize
<1> DEFINE e == [packet |-> s.packet, report |-> Head(s.reports)]
<1>1. e \in Entries
  <2>1. s.packet \in Full /\ Head(s.reports) \in Full
    BY RestIsTyped DEF Sendings
  <2> QED BY <2>1 DEF Entries
<1>2. Queued(s) = Append(fifo, e)
  BY DEF Queued
<1> HIDE DEF e
<1>3. Append(fifo, e) \in Seq(Entries) /\ Len(Append(fifo, e)) = Len(fifo) + 1
  BY <1>1, AppendProperties
<1> QED BY <1>2, <1>3, BridgeAssumption

\* A sending that is taken out leaves the others.
LEMMA RemovedAre ==
  ASSUME NEW S, NEW s \in Seq(S), NEW i \in DOMAIN s
  PROVE  /\ RemoveAt(s, i) \in Seq(S)
         /\ \A k \in DOMAIN RemoveAt(s, i) : \E j \in DOMAIN s \ {i} : RemoveAt(s, i)[k] = s[j]
         /\ \A j \in DOMAIN s \ {i} : \E k \in DOMAIN RemoveAt(s, i) : RemoveAt(s, i)[k] = s[j]
<1> DEFINE a == SubSeq(s, 1, i - 1)
           b == SubSeq(s, i + 1, Len(s))
           r == a \o b
<1>1. Len(s) \in Nat /\ DOMAIN s = 1..Len(s) /\ i \in 1..Len(s)
  BY LenProperties
<1>2. a \in Seq(S) /\ Len(a) = i - 1 /\ \A k \in 1..i - 1 : a[k] = s[k]
  <2>1. \A k \in 1..i - 1 : s[k] \in S
    <3>1. \A k \in 1..i - 1 : k \in 1..Len(s)
      BY <1>1
    <3> QED BY <3>1, ElementOfSeq
  <2>2. a \in Seq(S) /\ Len(a) = IF 1 <= i - 1 THEN (i - 1) - 1 + 1 ELSE 0
    BY <1>1, <2>1, SubSeqProperties
  <2>3. \A k \in 1..(i - 1) - 1 + 1 : a[k] = s[1 + k - 1]
    BY <1>1, <2>1, SubSeqProperties
  <2> HIDE DEF a
  <2> QED BY <1>1, <2>2, <2>3
<1>3. b \in Seq(S) /\ Len(b) = Len(s) - i /\ \A k \in 1..Len(s) - i : b[k] = s[i + k]
  <2>1. \A k \in i + 1..Len(s) : s[k] \in S
    <3>1. \A k \in i + 1..Len(s) : k \in 1..Len(s)
      BY <1>1
    <3> QED BY <3>1, ElementOfSeq
  <2>2. b \in Seq(S) /\ Len(b) = IF i + 1 <= Len(s) THEN Len(s) - (i + 1) + 1 ELSE 0
    BY <1>1, <2>1, SubSeqProperties
  <2>3. \A k \in 1..Len(s) - (i + 1) + 1 : b[k] = s[i + 1 + k - 1]
    BY <1>1, <2>1, SubSeqProperties
  <2> HIDE DEF b
  <2>4. ASSUME NEW k \in 1..Len(s) - i PROVE b[k] = s[i + k]
    <3>1. k \in 1..Len(s) - (i + 1) + 1 /\ i + 1 + k - 1 = i + k
      BY <1>1
    <3> QED BY <2>3, <3>1
  <2> QED BY <1>1, <2>2, <2>4
<1> HIDE DEF a, b
<1>4. /\ r \in Seq(S) /\ Len(r) = Len(a) + Len(b)
      /\ \A k \in 1..Len(a) + Len(b) : r[k] = IF k <= Len(a) THEN a[k] ELSE b[k - Len(a)]
  BY <1>2, <1>3, ConcatProperties
<1>5. RemoveAt(s, i) = r
  BY DEF RemoveAt, a, b
<1> HIDE DEF r
<1>6. DOMAIN r = 1..Len(s) - 1
  BY <1>1, <1>2, <1>3, <1>4, LenProperties
<1>7. ASSUME NEW k \in 1..Len(s) - 1 PROVE r[k] = s[IF k < i THEN k ELSE k + 1]
  <2>1. CASE k < i
    BY <1>1, <1>2, <1>3, <1>4, <2>1, SMTT(30)
  <2>2. CASE ~(k < i)
    <3>1. r[k] = b[k - (i - 1)]
      BY <1>1, <1>2, <1>3, <1>4, <2>2, SMTT(30)
    <3>2. k - (i - 1) \in 1..Len(s) - i /\ i + (k - (i - 1)) = k + 1
      BY <1>1, <2>2
    <3>3. b[k - (i - 1)] = s[k + 1]
      BY <1>3, <3>2
    <3> QED BY <2>2, <3>1, <3>3
  <2> QED BY <2>1, <2>2
<1>8. ASSUME NEW k \in DOMAIN r PROVE \E j \in DOMAIN s \ {i} : r[k] = s[j]
  <2> DEFINE j == IF k < i THEN k ELSE k + 1
  <2>1. j \in DOMAIN s \ {i}
    BY <1>1, <1>6
  <2>2. r[k] = s[j]
    BY <1>6, <1>7
  <2> QED BY <2>1, <2>2
<1>9. ASSUME NEW j \in DOMAIN s \ {i} PROVE \E k \in DOMAIN r : r[k] = s[j]
  <2> DEFINE k == IF j < i THEN j ELSE j - 1
  <2>1. k \in 1..Len(s) - 1 /\ (IF k < i THEN k ELSE k + 1) = j
    BY <1>1
  <2> HIDE DEF k
  <2>2. r[k] = s[j]
    BY <1>7, <2>1
  <2> QED BY <1>6, <2>1, <2>2
<1> QED BY <1>4, <1>5, <1>8, <1>9

-----------------------------------------------------------------------------
LEMMA StartsTyped == Init => BridgeTyped
<1> SUFFICES ASSUME Init PROVE BridgeTyped
  OBVIOUS
<1>1. <<>> \in Text /\ <<>> \in Seq(Sendings) /\ <<>> \in Seq(Entries) /\ <<>> \in Seq(Text)
  BY ShortIsText
<1>2. NewSession \in Sound
  <2>1. NewSession \in Sessions
    <3>1. <<>> \in Seq(Protocols)
      OBVIOUS
    <3> HIDE DEF Protocols
    <3>2. NoSession \in Nat
      BY DEF NoSession
    <3> QED BY <3>1, <3>2 DEF NewSession, Sessions
  <2> QED BY <2>1 DEF Sound, InOrder, NewSession
<1>3. /\ bearer \in Bearers /\ inbox = <<>> /\ received = 0 /\ reader = "alive" /\ reasm = <<>>
      /\ session = NewSession /\ got_rx = FALSE /\ replies = <<>> /\ opener = "check"
      /\ opened = 0 /\ senders = <<>> /\ fifo = <<>> /\ hu_buf = <<>> /\ split = FALSE
  BY DEF Init
<1>4. Len(fifo) \in 0..FifoSize /\ 0 \in 0..MaxPackets /\ 0 \in 0..MaxOpeners
  <2>1. Len(fifo) = 0
    BY <1>3
  <2> QED BY <2>1, BridgeAssumption
<1> HIDE DEF Sendings, Entries, Text, Sound
<1> QED BY <1>1, <1>2, <1>3, <1>4 DEF BridgeTyped

LEMMA ReadTyped == ASSUME BridgeTyped, ReadReport PROVE BridgeTyped'
<1> DEFINE packet == Incoming
           answer == respond(session, packet)
<1>1. /\ inbox \in Seq(Text) /\ inbox # <<>> /\ replies = <<>> /\ reader = "alive"
      /\ reasm \in Text /\ session \in Sound
  BY DEF BridgeTyped, ReadReport, TakesReport
<1>2. Head(inbox) \in Text /\ Tail(inbox) \in Seq(Text)
  BY <1>1, HeadTailProperties
<1>3. Pushed \in Pushes
  BY <1>1, <1>2, PushIsTyped DEF Pushed
<1>4. packet \in Packets \cup {NoPacket}
  <2>1. Pushed.frame \in Text
    BY <1>3 DEF Pushes
  <2>2. trim_iap(Pushed.frame) \in Packets \cup {NoPacket}
        /\ trim_iap(Head(inbox)) \in Packets \cup {NoPacket}
    BY <1>2, <2>1, TrimIsTyped
  <2> QED BY <2>2 DEF Incoming
<1>5. /\ inbox' = Tail(inbox) /\ reasm' = Pushed.buf
      /\ IF packet = NoPacket THEN UNCHANGED <<got_rx, session, reader, replies>>
         ELSE /\ got_rx' = TRUE /\ session' = answer.st
              /\ reader' = IF answer.raises THEN "dead" ELSE "alive"
              /\ replies' = [k \in DOMAIN answer.out |-> Outgoing(Encoded(answer.out[k]))]
      /\ UNCHANGED <<bearer, received, opener, opened, strays, senders, fifo, hu_buf, split>>
  BY DEF ReadReport, TakesReport, openerVars
<1>6. inbox' \in Seq(Text) /\ reasm' \in Text
  BY <1>2, <1>3, <1>5 DEF Pushes
<1> HIDE DEF packet
<1>7. packet # NoPacket => answer \in Answers
  BY <1>1, <1>4, RespondIsSound
<1> HIDE DEF answer
<1>8. packet # NoPacket => replies' \in Seq(Sendings)
  <2> SUFFICES ASSUME packet # NoPacket PROVE replies' \in Seq(Sendings)
    OBVIOUS
  <2> DEFINE out == answer.out
  <2>1. out \in Seq(Packets)
    BY <1>7 DEF Answers
  <2> HIDE DEF out
  <2>2. Len(out) \in Nat /\ DOMAIN out = 1..Len(out) /\ \A k \in 1..Len(out) : out[k] \in Packets
    BY <2>1, LenProperties, ElementOfSeq
  <2>3. \A k \in 1..Len(out) : Outgoing(Encoded(out[k])) \in Sendings
    <3> SUFFICES ASSUME NEW k \in 1..Len(out) PROVE Outgoing(Encoded(out[k])) \in Sendings
      OBVIOUS
    <3>1. Encoded(out[k]) \in Full
      BY <2>2, EncodedIsText DEF Full
    <3> QED BY <3>1, OutgoingIsTyped
  <2>4. replies' = [k \in 1..Len(out) |-> Outgoing(Encoded(out[k]))]
    BY <1>5, <2>2 DEF out
  <2> HIDE DEF Sendings
  <2> QED BY <2>2, <2>3, <2>4
<1>9. /\ session' \in Sound /\ got_rx' \in BOOLEAN /\ replies' \in Seq(Sendings)
      /\ reader' \in {"alive", "dead"} /\ (reader' = "dead" => got_rx')
  <2>1. CASE packet = NoPacket
    <3>1. UNCHANGED <<got_rx, session, reader, replies>>
      BY <1>5, <2>1
    <3> QED BY <3>1 DEF BridgeTyped
  <2>2. CASE packet # NoPacket
    <3>1. /\ got_rx' = TRUE /\ session' = answer.st
          /\ reader' = IF answer.raises THEN "dead" ELSE "alive"
      BY <1>5, <2>2
    <3>2. answer.st \in Sound
      BY <1>7, <2>2 DEF Answers
    <3> QED BY <1>8, <2>2, <3>1, <3>2
  <2> QED BY <2>1, <2>2
<1> HIDE DEF Sendings, Entries, Text, Sound
<1> QED BY <1>5, <1>6, <1>9 DEF BridgeTyped

LEMMA WritesTyped == ASSUME BridgeTyped, ReaderWrites PROVE BridgeTyped'
<1>1. replies \in Seq(Sendings) /\ replies # <<>> /\ Len(fifo) < FifoSize
      /\ fifo \in Seq(Entries) /\ Len(fifo) \in Nat
  BY BridgeAssumption DEF BridgeTyped, ReaderWrites
<1> DEFINE s == Head(replies)
           rest == Tail(replies)
<1>2. s \in Sendings /\ rest \in Seq(Sendings)
  BY <1>1, HeadTailProperties
<1>3. fifo' = Queued(s)
      /\ replies' = (IF Len(s.reports) = 1 THEN rest ELSE <<Rest(s)>> \o rest)
      /\ split' = (split \/ Begun(senders))
      /\ UNCHANGED <<bearer, inbox, received, reader, reasm, session, got_rx, opener, opened,
                     strays, senders, hu_buf>>
  BY DEF ReaderWrites, readerVars, openerVars
<1>4. fifo' \in Seq(Entries) /\ Len(fifo') \in 0..FifoSize
  BY <1>1, <1>2, <1>3, QueuedIsTyped
<1>5. replies' \in Seq(Sendings)
  <2>1. Len(s.reports) # 1 => <<Rest(s)>> \in Seq(Sendings)
    <3>1. Len(s.reports) # 1 => Rest(s) \in Sendings
      BY <1>2, RestIsTyped
    <3> DEFINE t == Rest(s)
    <3> HIDE DEF t, Sendings
    <3> QED BY <3>1 DEF t
  <2>2. Len(s.reports) # 1 => <<Rest(s)>> \o rest \in Seq(Sendings)
    BY <1>2, <2>1, ConcatProperties
  <2> QED BY <1>2, <1>3, <2>2
<1>6. split' \in BOOLEAN
  BY <1>3 DEF Begun, BridgeTyped
<1> HIDE DEF s, rest, Sendings, Entries, Text, Sound
<1> QED BY <1>3, <1>4, <1>5, <1>6 DEF BridgeTyped

LEMMA GivesUpTyped == ASSUME BridgeTyped, ReaderGivesUp PROVE BridgeTyped'
<1>1. replies \in Seq(Sendings) /\ replies # <<>>
  BY DEF BridgeTyped, ReaderGivesUp
<1>2. Tail(replies) \in Seq(Sendings)
  BY <1>1, HeadTailProperties
<1> HIDE DEF Sendings, Entries, Text, Sound
<1> QED BY <1>2 DEF BridgeTyped, ReaderGivesUp, readerVars, openerVars

LEMMA ReplacedIsTyped ==
  ASSUME NEW S, NEW s \in Seq(S), NEW i \in DOMAIN s, NEW e \in S
  PROVE  /\ ReplaceAt(s, i, e) \in Seq(S)
         /\ DOMAIN ReplaceAt(s, i, e) = DOMAIN s
         /\ \A k \in DOMAIN s : ReplaceAt(s, i, e)[k] = IF k = i THEN e ELSE s[k]
BY DEF ReplaceAt

LEMMA SenderWritesTyped == ASSUME BridgeTyped, SenderWrites PROVE BridgeTyped'
<1>1. senders \in Seq(Sendings) /\ Len(fifo) < FifoSize
      /\ fifo \in Seq(Entries) /\ Len(fifo) \in Nat
  BY BridgeAssumption DEF BridgeTyped, SenderWrites
<1>2. PICK i \in DOMAIN senders :
        /\ fifo' = Queued(senders[i])
        /\ senders' = IF Len(senders[i].reports) = 1 THEN RemoveAt(senders, i)
                      ELSE ReplaceAt(senders, i, Rest(senders[i]))
        /\ split' = (split \/ Begun(replies) \/ Begun(RemoveAt(senders, i)))
  BY DEF SenderWrites
<1>3. UNCHANGED <<bearer, inbox, received, reader, reasm, session, got_rx, opener, opened,
                  strays, replies, hu_buf>>
  BY DEF SenderWrites, readerVars, openerVars
<1> DEFINE s == senders[i]
<1>4. s \in Sendings
  BY <1>1, ElementOfSeq, LenProperties
<1>5. fifo' \in Seq(Entries) /\ Len(fifo') \in 0..FifoSize
  BY <1>1, <1>2, <1>4, QueuedIsTyped
<1>6. senders' \in Seq(Sendings)
  <2>1. RemoveAt(senders, i) \in Seq(Sendings)
    BY <1>1, RemovedAre
  <2>2. Len(s.reports) # 1 => ReplaceAt(senders, i, Rest(s)) \in Seq(Sendings)
    BY <1>1, <1>4, RestIsTyped, ReplacedIsTyped
  <2> QED BY <1>2, <2>1, <2>2
<1>7. split' \in BOOLEAN
  BY <1>2 DEF Begun, BridgeTyped
<1> HIDE DEF s, Sendings, Entries, Text, Sound
<1> QED BY <1>3, <1>5, <1>6, <1>7 DEF BridgeTyped

LEMMA SenderGivesUpTyped == ASSUME BridgeTyped, SenderGivesUp PROVE BridgeTyped'
<1>1. PICK i \in DOMAIN senders : senders' = RemoveAt(senders, i)
  BY DEF SenderGivesUp
<1>2. senders' \in Seq(Sendings)
  BY <1>1, RemovedAre DEF BridgeTyped
<1> HIDE DEF Sendings, Entries, Text, Sound
<1> QED BY <1>2 DEF BridgeTyped, SenderGivesUp, readerVars, openerVars

LEMMA ChecksTyped == ASSUME BridgeTyped, OpenerChecks PROVE BridgeTyped'
<1> HIDE DEF Sendings, Entries, Text, Sound
<1> QED BY DEF BridgeTyped, OpenerChecks, readerVars

LEMMA OpensTyped == ASSUME BridgeTyped, OpenerStarts PROVE BridgeTyped'
<1> DEFINE name == Openers[1 + (opened % Len(Openers))]
<1>1. opener = "start" /\ opened \in 0..MaxOpeners /\ opened # MaxOpeners /\ Openers # <<>>
      /\ senders \in Seq(Sendings)
  BY DEF BridgeTyped, OpenerStarts
<1>2. name \in {"requestidentify", "identify", "startidps"}
  <2>1. Len(Openers) \in Nat \ {0}
    BY <1>1, BridgeAssumption, EmptySeq
  <2>2. opened \in Nat
    BY <1>1
  <2>3. opened % Len(Openers) \in 0..Len(Openers) - 1
    BY <2>1, <2>2
  <2>4. 1 + (opened % Len(Openers)) \in 1..Len(Openers)
    BY <2>1, <2>3
  <2> QED BY <2>4, BridgeAssumption, ElementOfSeq
<1> HIDE DEF name
<1> DEFINE s == Outgoing(OpenerPacket(name))
<1>3. s \in Sendings
  BY <1>2, OpenerIsText, OutgoingIsTyped
<1> HIDE DEF s
<1>4. /\ senders' = Append(senders, s) /\ opened' = opened + 1 /\ opener' = "check"
      /\ UNCHANGED <<bearer, inbox, received, reader, reasm, session, got_rx, replies, fifo,
                     hu_buf, split>>
  BY DEF OpenerStarts, readerVars, s, name
<1>5. senders' \in Seq(Sendings)
  BY <1>1, <1>3, <1>4, AppendProperties
<1>6. opened' \in 0..MaxOpeners
  BY <1>1, <1>4, BridgeAssumption
<1> HIDE DEF Sendings, Entries, Text, Sound
<1> QED BY <1>4, <1>5, <1>6 DEF BridgeTyped

LEMMA SendsTyped == ASSUME BridgeTyped, HeadUnitSends PROVE BridgeTyped'
<1>1. PICK bytes \in InPackets : inbox' = inbox \o Delivered(bytes)
  BY DEF HeadUnitSends
<1>2. inbox' \in Seq(Text)
  <2>1. Delivered(bytes) \in Seq(Text)
    BY DeliveredIsTyped DEF BridgeTyped
  <2> QED BY <1>1, <2>1, ConcatProperties DEF BridgeTyped
<1>3. received' \in 0..MaxPackets
  BY BridgeAssumption DEF BridgeTyped, HeadUnitSends
<1> HIDE DEF Sendings, Entries, Text, Sound
<1> QED BY <1>2, <1>3 DEF BridgeTyped, HeadUnitSends, readerVars, openerVars

LEMMA HeardIsTyped ==
  ASSUME BridgeTyped, fifo # <<>> PROVE Head(fifo) \in Entries /\ Heard \in Pushes
<1>1. Head(fifo) \in Entries
  BY HeadTailProperties DEF BridgeTyped
<1>2. Head(fifo).report \in Text
  BY <1>1 DEF Entries, Full
<1> QED BY <1>1, <1>2, PushIsTyped DEF Heard, BridgeTyped

LEMMA CollectsTyped == ASSUME BridgeTyped, HeadUnitCollects PROVE BridgeTyped'
<1>1. fifo # <<>> /\ hu_buf' = Heard.buf /\ fifo' = Tail(fifo)
  BY DEF HeadUnitCollects
<1>2. hu_buf' \in Text
  BY <1>1, HeardIsTyped DEF Pushes
<1>3. fifo' \in Seq(Entries) /\ Len(fifo') = Len(fifo) - 1
  BY <1>1, HeadTailProperties DEF BridgeTyped
<1>4. Len(fifo') \in 0..FifoSize
  <2>1. Len(fifo) # 0
    BY <1>1 DEF BridgeTyped
  <2> QED BY <1>3, <2>1, BridgeAssumption DEF BridgeTyped
<1> HIDE DEF Sendings, Entries, Text, Sound
<1> QED BY <1>2, <1>3, <1>4 DEF BridgeTyped, HeadUnitCollects, readerVars, openerVars

LEMMA NextTyped == BridgeTyped /\ [Next]_vars => BridgeTyped'
<1> SUFFICES ASSUME BridgeTyped, [Next]_vars PROVE BridgeTyped'
  OBVIOUS
<1>1. CASE UNCHANGED vars
  <2> HIDE DEF Sendings, Entries, Text, Sound
  <2> QED BY <1>1 DEF BridgeTyped, vars
<1>2. CASE Next
  BY <1>2, ReadTyped, WritesTyped, GivesUpTyped, SenderWritesTyped, SenderGivesUpTyped,
     ChecksTyped, OpensTyped, SendsTyped, CollectsTyped
     DEF Next, Reader, ReaderSends, Sender, Opener
<1> QED BY <1>1, <1>2

\* TypeOK of every reachable state: what is read, answered, queued and collected is
\* typed, the device's queue never holds more than its size, a reader is dead only of a
\* packet, and the session's one-shots come in order (respond, read_loop, opener_loop).
THEOREM BridgeTypes == Spec => []TypeOK
<1>1. BridgeTyped => TypeOK
  <2> SUFFICES ASSUME BridgeTyped PROVE TypeOK
    OBVIOUS
  <2>1. Len(fifo) <= FifoSize
    BY BridgeAssumption DEF BridgeTyped
  <2>2. InOrder(session)
    BY DEF BridgeTyped, Sound
  <2> QED BY <2>1, <2>2 DEF BridgeTyped, TypeOK, InOrder
<1> QED BY <1>1, StartsTyped, NextTyped, PTL DEF Spec

-----------------------------------------------------------------------------
(***************************************************************************)
(* Frames are whole.  As long as no report was queued between two of       *)
(* another packet, a report is queued right behind the one before it of    *)
(* its packet, or the head unit holds all that was sent of it: `at' are    *)
(* the offsets of the queued reports, `entries' the queue, `buf' what the  *)
(* head unit holds.                                                        *)
(***************************************************************************)
\* What is sent next of a packet, from an offset, comes behind the n-th report.
Behind(at, entries, buf, packet, offset, n) ==
  offset # 0 =>
    IF n = 0 THEN buf = SubSeq(packet, 1, offset)
    ELSE entries[n].packet = packet /\ offset = at[n] + Taken(packet, at[n], "in")

Lined(at, entries, buf) ==
  /\ at \in Seq(Nat) /\ Len(at) = Len(entries)
  /\ \A i \in 1..Len(entries) :
       /\ at[i] \in 0..Len(entries[i].packet) - 1
       /\ entries[i].report = Report(entries[i].packet, at[i], "in")
       /\ Behind(at, entries, buf, entries[i].packet, at[i], i - 1)

\* A sending goes on behind the last report of the queue.
Goes(at, entries, buf, s) ==
  \E offset \in 0..Len(s.packet) - 1 :
    /\ s.reports = Reports(s.packet, "in")[offset]
    /\ ~s.begun => offset = 0
    /\ Behind(at, entries, buf, s.packet, offset, Len(entries))

Orderly(at, entries, buf, sent, sending) ==
  /\ Lined(at, entries, buf)
  /\ \A i \in DOMAIN sent : Goes(at, entries, buf, sent[i]) /\ (sent[i].begun => i = 1)
  /\ \A i \in DOMAIN sending : Goes(at, entries, buf, sending[i])

WholeInv == BridgeTyped /\ (split \/ \E at : Orderly(at, fifo, hu_buf, replies, senders))

\* The first report of the queue is pushed onto what the head unit holds of its packet.
LEMMA CollectsNext ==
  ASSUME NEW entries \in Seq(Entries), entries # <<>>, NEW buf \in Text, NEW at,
         Lined(at, entries, buf)
  PROVE  LET e == entries[1]
             t == Taken(e.packet, at[1], "in")
             pushed == push(buf, e.report)
         IN  /\ at[1] \in Nat /\ e \in Entries
             /\ at[1] + t # Len(e.packet)
                  => pushed.frame = <<>> /\ pushed.buf = SubSeq(e.packet, 1, at[1] + t)
             /\ at[1] + t = Len(e.packet) => IsPrefix(e.packet, pushed.frame)
<1> DEFINE e == entries[1]
           packet == e.packet
           offset == at[1]
<1>1. 1 \in 1..Len(entries) /\ e \in Entries
  BY EmptySeq, ElementOfSeq
<1>2. /\ offset \in 0..Len(packet) - 1 /\ e.report = Report(packet, offset, "in")
      /\ Behind(at, entries, buf, packet, offset, 0)
  <2>1. \A i \in 1..Len(entries) :
          /\ at[i] \in 0..Len(entries[i].packet) - 1
          /\ entries[i].report = Report(entries[i].packet, at[i], "in")
          /\ Behind(at, entries, buf, entries[i].packet, at[i], i - 1)
    BY DEF Lined
  <2>2. 1 - 1 = 0
    OBVIOUS
  <2> QED BY <1>1, <2>1, <2>2
<1>3. Holding(packet, offset, buf)
  BY <1>2 DEF Behind, Holding
<1>4. packet \in Text
  BY <1>1 DEF Entries, Full
<1> HIDE DEF packet, offset
<1>5. offset \in 0..Len(packet) /\ offset # Len(packet) /\ offset \in Nat
  <2>1. Len(packet) \in Nat
    BY <1>4 DEF Text
  <2> QED BY <1>2, <2>1
<1>6. LET t == Taken(packet, offset, "in")
          pushed == push(buf, Report(packet, offset, "in"))
      IN  /\ offset + t # Len(packet)
               => pushed.frame = <<>> /\ pushed.buf = SubSeq(packet, 1, offset + t)
          /\ offset + t = Len(packet) => IsPrefix(packet, pushed.frame)
  BY <1>3, <1>4, <1>5, PushGoesOn
<1> QED BY <1>1, <1>2, <1>5, <1>6 DEF packet, offset

\* What came behind the n-th report comes behind the one before it when the first one
\* is collected.
LEMMA BehindShifts ==
  ASSUME NEW entries \in Seq(Entries), entries # <<>>, NEW buf \in Text, NEW at,
         Lined(at, entries, buf), NEW packet \in Text, NEW offset \in 0..Len(packet) - 1,
         NEW n \in 1..Len(entries), Behind(at, entries, buf, packet, offset, n)
  PROVE  Behind(Tail(at), Tail(entries), push(buf, entries[1].report).buf,
                packet, offset, n - 1)
<1> DEFINE buf2 == push(buf, entries[1].report).buf
<1>1. Len(packet) \in Nat /\ Len(entries) \in Nat /\ n \in Nat \ {0}
  BY LenProperties DEF Text
<1>2. CASE offset = 0
  BY <1>2 DEF Behind
<1>3. CASE offset # 0
  <2>1. entries[n].packet = packet /\ offset = at[n] + Taken(packet, at[n], "in")
    BY <1>1, <1>3 DEF Behind
  <2>2. CASE n = 1
    <3>1. offset # Len(packet)
      BY <1>1
    <3>2. buf2 = SubSeq(packet, 1, offset)
      BY <2>1, <2>2, <3>1, CollectsNext
    <3>3. n - 1 = 0
      BY <2>2
    <3> HIDE DEF buf2
    <3>4. Behind(Tail(at), Tail(entries), buf2, packet, offset, 0)
      BY <3>2 DEF Behind
    <3> QED BY <3>3, <3>4 DEF buf2
  <2>3. CASE n # 1
    <3>1. at \in Seq(Nat) /\ Len(at) = Len(entries) /\ at # <<>>
      BY DEF Lined
    <3>2. n - 1 \in 1..Len(entries) - 1 /\ n - 1 # 0 /\ n - 1 + 1 = n
      BY <1>1, <2>3
    <3>3. Tail(at)[n - 1] = at[n]
      <4>1. Len(Tail(at)) = Len(at) - 1 /\ \A i \in 1..Len(Tail(at)) : Tail(at)[i] = at[i + 1]
        BY <3>1, HeadTailProperties
      <4> QED BY <3>1, <3>2, <4>1
    <3>4. Tail(entries)[n - 1] = entries[n]
      <4>1. Len(Tail(entries)) = Len(entries) - 1
            /\ \A i \in 1..Len(Tail(entries)) : Tail(entries)[i] = entries[i + 1]
        BY HeadTailProperties
      <4> QED BY <3>2, <4>1
    <3> DEFINE m == n - 1
               at2 == Tail(at)
               entries2 == Tail(entries)
    <3>5. m # 0 /\ entries2[m].packet = packet /\ offset = at2[m] + Taken(packet, at2[m], "in")
      BY <2>1, <3>2, <3>3, <3>4
    <3> HIDE DEF m, at2, entries2
    <3> QED BY <3>5 DEF Behind, m, at2, entries2
  <2> QED BY <2>2, <2>3
<1> QED BY <1>2, <1>3

LEMMA CollectLines ==
  ASSUME NEW entries \in Seq(Entries), entries # <<>>, NEW buf \in Text, NEW at,
         Lined(at, entries, buf)
  PROVE  /\ Lined(Tail(at), Tail(entries), push(buf, entries[1].report).buf)
         /\ \A s \in Sendings : Goes(at, entries, buf, s) =>
              Goes(Tail(at), Tail(entries), push(buf, entries[1].report).buf, s)
<1> DEFINE buf2 == push(buf, entries[1].report).buf
           at2 == Tail(at)
           entries2 == Tail(entries)
<1>1. /\ Len(entries) \in Nat \ {0} /\ at \in Seq(Nat) /\ Len(at) = Len(entries) /\ at # <<>>
  BY EmptySeq DEF Lined
<1>2. at2 \in Seq(Nat) /\ Len(at2) = Len(entries) - 1
      /\ \A i \in 1..Len(entries) - 1 : at2[i] = at[i + 1]
  BY <1>1, HeadTailProperties
<1>3. entries2 \in Seq(Entries) /\ Len(entries2) = Len(entries) - 1
      /\ \A i \in 1..Len(entries) - 1 : entries2[i] = entries[i + 1]
  BY <1>1, HeadTailProperties
<1>4. \A i \in 1..Len(entries) :
        /\ at[i] \in 0..Len(entries[i].packet) - 1
        /\ entries[i].report = Report(entries[i].packet, at[i], "in")
        /\ Behind(at, entries, buf, entries[i].packet, at[i], i - 1)
  BY DEF Lined
<1>5. ASSUME NEW i \in 1..Len(entries2)
      PROVE  /\ at2[i] \in 0..Len(entries2[i].packet) - 1
             /\ entries2[i].report = Report(entries2[i].packet, at2[i], "in")
             /\ Behind(at2, entries2, buf2, entries2[i].packet, at2[i], i - 1)
  <2>1. i + 1 \in 1..Len(entries) /\ i \in 1..Len(entries) - 1 /\ i \in 1..Len(entries)
        /\ i + 1 - 1 = i
    BY <1>1, <1>3
  <2> DEFINE e == entries[i + 1]
             packet == e.packet
             offset == at[i + 1]
  <2>2. /\ offset \in 0..Len(packet) - 1 /\ e.report = Report(packet, offset, "in")
        /\ Behind(at, entries, buf, packet, offset, i + 1 - 1)
    BY <1>4, <2>1
  <2>3. at2[i] = offset /\ entries2[i] = e
    BY <1>2, <1>3, <2>1
  <2>4. packet \in Text
    <3>1. e \in Entries
      BY <2>1, ElementOfSeq
    <3> QED BY <3>1 DEF Entries, Full
  <2> HIDE DEF packet, offset
  <2>5. Behind(at2, entries2, buf2, packet, offset, i - 1)
    <3>1. Behind(at, entries, buf, packet, offset, i)
      BY <2>1, <2>2
    <3> QED BY <2>1, <2>2, <2>4, <3>1, BehindShifts
  <2> HIDE DEF at2, entries2, buf2
  <2> QED BY <2>2, <2>3, <2>5 DEF packet
<1>6. ASSUME NEW s \in Sendings, Goes(at, entries, buf, s) PROVE Goes(at2, entries2, buf2, s)
  <2>1. PICK offset \in 0..Len(s.packet) - 1 :
          /\ s.reports = Reports(s.packet, "in")[offset]
          /\ ~s.begun => offset = 0
          /\ Behind(at, entries, buf, s.packet, offset, Len(entries))
    BY <1>6 DEF Goes
  <2>2. s.packet \in Text /\ Len(entries) \in 1..Len(entries)
    BY <1>1 DEF Sendings, Full
  <2>3. Behind(at2, entries2, buf2, s.packet, offset, Len(entries) - 1)
    BY <2>1, <2>2, BehindShifts
  <2> HIDE DEF at2, entries2, buf2
  <2> QED BY <1>3, <2>1, <2>3 DEF Goes
<1> HIDE DEF at2, entries2, buf2
<1>7. Lined(at2, entries2, buf2)
  BY <1>2, <1>3, <1>5 DEF Lined
<1> QED BY <1>6, <1>7 DEF at2, entries2, buf2

\* A report that is queued: the queue stays in line, its packet goes on behind it, and
\* what has not begun is not disturbed.
LEMMA UnbegunGoes ==
  ASSUME NEW s, ~s.begun, NEW at, NEW entries, NEW buf, Goes(at, entries, buf, s),
         NEW at2, NEW entries2, NEW buf2
  PROVE  Goes(at2, entries2, buf2, s)
<1>1. PICK offset \in 0..Len(s.packet) - 1 :
        s.reports = Reports(s.packet, "in")[offset] /\ offset = 0
  BY DEF Goes
<1>2. Behind(at2, entries2, buf2, s.packet, offset, Len(entries2))
  BY <1>1 DEF Behind
<1> QED BY <1>1, <1>2 DEF Goes

LEMMA QueueLines ==
  ASSUME NEW entries \in Seq(Entries), NEW buf \in Text, NEW at, Lined(at, entries, buf),
         NEW s \in Sendings, Goes(at, entries, buf, s)
  PROVE  \E at2 :
           LET entries2 == Append(entries, [packet |-> s.packet, report |-> Head(s.reports)])
           IN  /\ Lined(at2, entries2, buf)
               /\ Len(s.reports) # 1 => Goes(at2, entries2, buf, Rest(s))
<1> DEFINE e == [packet |-> s.packet, report |-> Head(s.reports)]
           entries2 == Append(entries, e)
           n == Len(entries)
           packet == s.packet
<1>1. PICK offset \in 0..Len(packet) - 1 :
        s.reports = Reports(packet, "in")[offset] /\ Behind(at, entries, buf, packet, offset, n)
  BY DEF Goes
<1> DEFINE at2 == Append(at, offset)
           t == Taken(packet, offset, "in")
<1>2. packet \in Text /\ Len(packet) \in Nat /\ n \in Nat
      /\ s = [packet |-> packet, reports |-> s.reports, begun |-> s.begun]
  BY LenProperties DEF Sendings, Full, Text
<1>3. offset \in Nat /\ offset \in 0..Len(packet) /\ offset # Len(packet)
  <2> HIDE DEF packet
  <2> QED BY <1>2
<1>4. e \in Entries
  BY RestIsTyped DEF Entries, Sendings
<1>5. entries2 \in Seq(Entries) /\ Len(entries2) = n + 1
      /\ (\A i \in 1..n : entries2[i] = entries[i]) /\ entries2[n + 1] = e
  <2> HIDE DEF e
  <2> QED BY <1>4, AppendProperties
<1>6. at \in Seq(Nat) /\ Len(at) = n
      /\ \A i \in 1..n :
           /\ at[i] \in 0..Len(entries[i].packet) - 1
           /\ entries[i].report = Report(entries[i].packet, at[i], "in")
           /\ Behind(at, entries, buf, entries[i].packet, at[i], i - 1)
  BY DEF Lined
<1>7. at2 \in Seq(Nat) /\ Len(at2) = n + 1
      /\ (\A i \in 1..n : at2[i] = at[i]) /\ at2[n + 1] = offset
  BY <1>3, <1>6, AppendProperties
<1>8. /\ s.reports \in Seq(Full) /\ Head(s.reports) = Report(packet, offset, "in")
      /\ Tail(s.reports) = Reports(packet, "in")[offset + t]
      /\ (Len(s.reports) = 1 <=> offset + t = Len(packet))
  BY <1>1, <1>2, <1>3, ReportsAre
<1>9. offset + t \in offset + 1..Len(packet)
  BY <1>2, <1>3, TakenIsProgress
<1> HIDE DEF entries2, n, packet, at2, t
\* Behind reads the queue at the n-th report only.
<1>10. ASSUME NEW p, NEW o, NEW i \in 0..n, Behind(at, entries, buf, p, o, i)
       PROVE  Behind(at2, entries2, buf, p, o, i)
  <2>1. i # 0 => at2[i] = at[i] /\ entries2[i] = entries[i]
    BY <1>2, <1>5, <1>7
  <2> QED BY <1>10, <2>1 DEF Behind
<1>11. ASSUME NEW i \in 1..n + 1
       PROVE  /\ at2[i] \in 0..Len(entries2[i].packet) - 1
              /\ entries2[i].report = Report(entries2[i].packet, at2[i], "in")
              /\ Behind(at2, entries2, buf, entries2[i].packet, at2[i], i - 1)
  <2>1. CASE i = n + 1
    <3>1. entries2[i].packet = packet /\ entries2[i].report = Report(packet, offset, "in")
          /\ at2[i] = offset
      BY <1>5, <1>7, <1>8, <2>1 DEF packet
    <3>2. i - 1 = n /\ n \in 0..n
      BY <1>2, <2>1
    <3>3. Behind(at2, entries2, buf, packet, offset, n)
      BY <1>1, <1>10, <3>2
    <3> QED BY <3>1, <3>2, <3>3
  <2>2. CASE i # n + 1
    <3>1. i \in 1..n /\ i - 1 \in 0..n
      BY <1>2, <2>2
    <3>2. at2[i] = at[i] /\ entries2[i] = entries[i]
      BY <1>5, <1>7, <3>1
    <3>3. Behind(at2, entries2, buf, entries[i].packet, at[i], i - 1)
      BY <1>6, <1>10, <3>1
    <3> QED BY <1>6, <3>1, <3>2, <3>3
  <2> QED BY <2>1, <2>2
<1>12. Lined(at2, entries2, buf)
  BY <1>5, <1>7, <1>11 DEF Lined
<1>13. ASSUME Len(s.reports) # 1 PROVE Goes(at2, entries2, buf, Rest(s))
  <2> DEFINE r == Rest(s)
             o == offset + t
  <2>1. r.packet = packet /\ r.reports = Tail(s.reports) /\ r.begun = TRUE
    <3>1. r = [packet |-> s.packet, reports |-> Tail(s.reports), begun |-> TRUE]
      BY RestIsTyped
    <3> DEFINE tail == Tail(s.reports)
    <3> HIDE DEF tail, r
    <3> QED BY <3>1 DEF packet, tail
  <2>2. o \in 0..Len(packet) - 1
    <3>1. o # Len(packet)
      BY <1>8, <1>13
    <3> QED BY <1>2, <1>3, <1>9, <3>1
  <2>3. Behind(at2, entries2, buf, packet, o, n + 1)
    <3>1. n + 1 # 0 /\ entries2[n + 1].packet = packet
      BY <1>2, <1>5 DEF packet
    <3>2. o = at2[n + 1] + Taken(packet, at2[n + 1], "in")
      BY <1>7 DEF t
    <3> DEFINE m == n + 1
    <3> HIDE DEF m, o
    <3> QED BY <3>1, <3>2 DEF Behind, m
  <2>4. r.reports = Reports(packet, "in")[o]
    BY <1>8, <2>1
  <2> HIDE DEF r, o
  <2>5. Goes(at2, entries2, buf, r)
    BY <1>5, <2>1, <2>2, <2>3, <2>4 DEF Goes
  <2> QED BY <2>5 DEF r
<1> QED BY <1>12, <1>13 DEF entries2, at2

-----------------------------------------------------------------------------
LEMMA StartsWhole == Init => WholeInv
<1> SUFFICES ASSUME Init PROVE WholeInv
  OBVIOUS
<1>1. fifo = <<>> /\ replies = <<>> /\ senders = <<>>
  BY DEF Init
<1>2. <<>> \in Seq(Nat) /\ Len(<<>>) = 0
  OBVIOUS
<1>3. Lined(<<>>, fifo, hu_buf)
  BY <1>1, <1>2 DEF Lined
<1>4. Orderly(<<>>, fifo, hu_buf, replies, senders)
  BY <1>1, <1>3 DEF Orderly
<1> QED BY <1>4, StartsTyped DEF WholeInv

LEMMA FreshGoes ==
  ASSUME NEW bytes \in Full, NEW at, NEW entries, NEW buf
  PROVE  Goes(at, entries, buf, Outgoing(bytes)) /\ ~Outgoing(bytes).begun
<1> DEFINE s == Outgoing(bytes)
<1>1. s \in Sendings /\ s.reports = Reports(bytes, "in")[0] /\ 0 # Len(bytes)
  BY OutgoingIsTyped
<1>2. s.packet = bytes /\ s.begun = FALSE
  BY DEF Outgoing
<1>3. 0 \in 0..Len(bytes) - 1
  <2>1. Len(bytes) \in Nat
    BY DEF Full, Text
  <2> QED BY <1>1, <2>1
<1> HIDE DEF s
<1>4. Behind(at, entries, buf, s.packet, 0, Len(entries))
  BY DEF Behind
<1>5. s.reports = Reports(s.packet, "in")[0]
  BY <1>1, <1>2
<1>6. Goes(at, entries, buf, s)
  BY <1>2, <1>3, <1>4, <1>5 DEF Goes
<1> QED BY <1>2, <1>6 DEF s

LEMMA ReadWhole ==
  ASSUME BridgeTyped, ReadReport, NEW at, Orderly(at, fifo, hu_buf, replies, senders)
  PROVE  Orderly(at, fifo, hu_buf, replies, senders)'
<1> DEFINE packet == Incoming
           out == respond(session, packet).out
<1>1. UNCHANGED <<senders, fifo, hu_buf>>
      /\ (packet = NoPacket => UNCHANGED replies)
      /\ (packet # NoPacket => replies' = [k \in DOMAIN out |-> Outgoing(Encoded(out[k]))])
  BY DEF ReadReport
<1>2. packet \in Packets \cup {NoPacket} /\ session \in Sound
  <2>1. inbox \in Seq(Text) /\ inbox # <<>> /\ reasm \in Text
    BY DEF BridgeTyped, ReadReport, TakesReport
  <2>2. Head(inbox) \in Text
    BY <2>1, HeadTailProperties
  <2>3. Pushed.frame \in Text
    BY <2>1, <2>2, PushIsTyped DEF Pushed, Pushes
  <2> QED BY <2>2, <2>3, TrimIsTyped DEF Incoming, BridgeTyped
<1> HIDE DEF packet, out
<1>3. ASSUME packet # NoPacket, NEW k \in DOMAIN replies'
      PROVE  Goes(at, fifo, hu_buf, replies'[k]) /\ ~replies'[k].begun
  <2>1. out \in Seq(Packets)
    BY <1>2, <1>3, RespondIsSound DEF Answers, out
  <2>2. k \in DOMAIN out /\ replies'[k] = Outgoing(Encoded(out[k]))
    BY <1>1, <1>3
  <2>3. out[k] \in Packets
    BY <2>1, <2>2, LenProperties, ElementOfSeq
  <2>4. Encoded(out[k]) \in Full
    BY <2>3, EncodedIsText DEF Full
  <2> QED BY <2>2, <2>4, FreshGoes
<1>4. ASSUME NEW k \in DOMAIN replies'
      PROVE  Goes(at, fifo, hu_buf, replies'[k]) /\ (replies'[k].begun => k = 1)
  <2>1. CASE packet = NoPacket
    <3>1. replies' = replies
      BY <1>1, <2>1
    <3> QED BY <3>1 DEF Orderly
  <2>2. CASE packet # NoPacket
    BY <1>3, <2>2
  <2> QED BY <2>1, <2>2
<1>5. Orderly(at, fifo, hu_buf, replies', senders)
  BY <1>4 DEF Orderly
<1> QED BY <1>1, <1>5

\* After the reader's write: the rest of the packet goes on behind its report.
LEMMA WritesWhole ==
  ASSUME BridgeTyped, ReaderWrites, ~split',
         NEW at, Orderly(at, fifo, hu_buf, replies, senders)
  PROVE  \E at2 : Orderly(at2, fifo, hu_buf, replies, senders)'
<1> DEFINE s == Head(replies)
           rest == Tail(replies)
           entries2 == Queued(s)
<1>1. replies \in Seq(Sendings) /\ replies # <<>> /\ fifo \in Seq(Entries) /\ hu_buf \in Text
  BY DEF BridgeTyped, ReaderWrites
<1>2. /\ fifo' = entries2 /\ hu_buf' = hu_buf /\ senders' = senders
      /\ replies' = (IF Len(s.reports) = 1 THEN rest ELSE <<Rest(s)>> \o rest)
      /\ ~Begun(senders)
  BY DEF ReaderWrites
<1>3. s \in Sendings /\ rest \in Seq(Sendings) /\ Len(replies) \in Nat \ {0} /\ s = replies[1]
      /\ Len(rest) = Len(replies) - 1 /\ DOMAIN replies = 1..Len(replies)
      /\ \A i \in 1..Len(rest) : rest[i] = replies[i + 1]
  BY <1>1, HeadTailProperties, EmptySeq, LenProperties
<1>4. Goes(at, fifo, hu_buf, s) /\ Lined(at, fifo, hu_buf)
  BY <1>3 DEF Orderly
<1>5. PICK at2 : Lined(at2, entries2, hu_buf)
                 /\ (Len(s.reports) # 1 => Goes(at2, entries2, hu_buf, Rest(s)))
  BY <1>1, <1>3, <1>4, QueueLines DEF Queued
<1> HIDE DEF s, rest, entries2
<1>6. ASSUME NEW i \in 1..Len(rest)
      PROVE  Goes(at2, entries2, hu_buf, rest[i]) /\ ~rest[i].begun
  <2>1. i + 1 \in DOMAIN replies /\ i + 1 # 1 /\ rest[i] = replies[i + 1]
    BY <1>3
  <2>2. Goes(at, fifo, hu_buf, replies[i + 1]) /\ ~replies[i + 1].begun
    BY <2>1 DEF Orderly
  <2> QED BY <2>1, <2>2, UnbegunGoes
<1>7. ASSUME NEW i \in DOMAIN senders PROVE Goes(at2, entries2, hu_buf, senders[i])
  <2>1. ~senders[i].begun /\ Goes(at, fifo, hu_buf, senders[i])
    BY <1>2 DEF Begun, Orderly
  <2> QED BY <2>1, UnbegunGoes
<1>8. ASSUME NEW i \in DOMAIN replies'
      PROVE  Goes(at2, entries2, hu_buf, replies'[i]) /\ (replies'[i].begun => i = 1)
  <2>1. CASE Len(s.reports) = 1
    <3>1. replies' = rest
      BY <1>2, <2>1
    <3>2. i \in 1..Len(rest)
      BY <1>3, <3>1, LenProperties
    <3> QED BY <1>6, <3>1, <3>2
  <2>2. CASE Len(s.reports) # 1
    <3> DEFINE r == Rest(s)
               first == <<r>>
    <3>1. r \in Sendings /\ Goes(at2, entries2, hu_buf, r)
      BY <1>3, <1>5, <2>2, RestIsTyped
    <3> HIDE DEF r
    <3>2. first \in Seq(Sendings) /\ Len(first) = 1 /\ first[1] = r
      BY <3>1
    <3> HIDE DEF first
    <3>3. replies' = first \o rest
      BY <1>2, <2>2 DEF first, r
    <3>4. first \o rest \in Seq(Sendings) /\ Len(first \o rest) = 1 + Len(rest)
          /\ \A k \in 1..1 + Len(rest) :
               (first \o rest)[k] = IF k <= 1 THEN first[k] ELSE rest[k - 1]
      <4>1. rest \in Seq(Sendings) /\ first \in Seq(Sendings)
        BY <1>3, <3>2
      <4>2. /\ first \o rest \in Seq(Sendings) /\ Len(first \o rest) = Len(first) + Len(rest)
            /\ \A k \in 1..Len(first) + Len(rest) :
                 (first \o rest)[k] = IF k <= Len(first) THEN first[k] ELSE rest[k - Len(first)]
        BY <4>1, ConcatProperties
      <4> QED BY <3>2, <4>2
    <3>5. i \in 1..1 + Len(rest)
      BY <3>3, <3>4, LenProperties
    <3>6. CASE i = 1
      <4>1. replies'[i] = r
        BY <3>2, <3>3, <3>4, <3>5, <3>6
      <4> QED BY <3>1, <3>6, <4>1
    <3>7. CASE i # 1
      <4>1. i - 1 \in 1..Len(rest) /\ ~(i <= 1)
        BY <1>3, <3>5, <3>7
      <4>2. replies'[i] = rest[i - 1]
        BY <3>3, <3>4, <3>5, <4>1
      <4> QED BY <1>6, <4>1, <4>2
    <3> QED BY <3>6, <3>7
  <2> QED BY <2>1, <2>2
<1>9. Orderly(at2, entries2, hu_buf, replies', senders)
  BY <1>5, <1>7, <1>8 DEF Orderly
<1> QED BY <1>2, <1>9

LEMMA GivesUpWhole ==
  ASSUME BridgeTyped, ReaderGivesUp, NEW at, Orderly(at, fifo, hu_buf, replies, senders)
  PROVE  Orderly(at, fifo, hu_buf, replies, senders)'
<1> DEFINE rest == Tail(replies)
<1>1. replies \in Seq(Sendings) /\ replies # <<>>
      /\ replies' = rest /\ UNCHANGED <<fifo, hu_buf, senders>>
  BY DEF BridgeTyped, ReaderGivesUp
<1>2. rest \in Seq(Sendings) /\ Len(replies) \in Nat \ {0}
      /\ Len(rest) = Len(replies) - 1 /\ DOMAIN replies = 1..Len(replies)
      /\ \A i \in 1..Len(rest) : rest[i] = replies[i + 1]
  BY <1>1, HeadTailProperties, EmptySeq, LenProperties
<1> HIDE DEF rest
<1>3. ASSUME NEW i \in DOMAIN rest
      PROVE  Goes(at, fifo, hu_buf, rest[i]) /\ (rest[i].begun => i = 1)
  <2>1. i \in 1..Len(rest)
    BY <1>2, LenProperties
  <2>2. i + 1 \in DOMAIN replies /\ i + 1 # 1 /\ rest[i] = replies[i + 1]
    BY <1>2, <2>1
  <2> QED BY <2>2 DEF Orderly
<1>4. Orderly(at, fifo, hu_buf, rest, senders)
  BY <1>3 DEF Orderly
<1> QED BY <1>1, <1>4

LEMMA SenderWritesWhole ==
  ASSUME BridgeTyped, SenderWrites, ~split',
         NEW at, Orderly(at, fifo, hu_buf, replies, senders)
  PROVE  \E at2 : Orderly(at2, fifo, hu_buf, replies, senders)'
<1>1. senders \in Seq(Sendings) /\ fifo \in Seq(Entries) /\ hu_buf \in Text
  BY DEF BridgeTyped
<1>2. PICK i \in DOMAIN senders :
        /\ fifo' = Queued(senders[i])
        /\ senders' = IF Len(senders[i].reports) = 1 THEN RemoveAt(senders, i)
                      ELSE ReplaceAt(senders, i, Rest(senders[i]))
        /\ split' = (split \/ Begun(replies) \/ Begun(RemoveAt(senders, i)))
  BY DEF SenderWrites
<1> DEFINE s == senders[i]
           entries2 == Queued(s)
<1>3. s \in Sendings /\ UNCHANGED <<replies, hu_buf>>
  <2>1. s \in Sendings
    BY <1>1, ElementOfSeq, LenProperties
  <2> QED BY <2>1 DEF SenderWrites
<1>4. Goes(at, fifo, hu_buf, s) /\ Lined(at, fifo, hu_buf)
  BY DEF Orderly
<1>5. PICK at2 : Lined(at2, entries2, hu_buf)
                 /\ (Len(s.reports) # 1 => Goes(at2, entries2, hu_buf, Rest(s)))
  BY <1>1, <1>3, <1>4, QueueLines DEF Queued
<1>6. ~Begun(replies) /\ ~Begun(RemoveAt(senders, i))
  BY <1>2
<1> HIDE DEF entries2
<1>7. ASSUME NEW k \in DOMAIN replies
      PROVE  Goes(at2, entries2, hu_buf, replies[k]) /\ (replies[k].begun => k = 1)
  <2>1. ~replies[k].begun /\ Goes(at, fifo, hu_buf, replies[k])
    BY <1>6 DEF Begun, Orderly
  <2> QED BY <2>1, UnbegunGoes
<1>8. ASSUME NEW j \in DOMAIN senders \ {i} PROVE Goes(at2, entries2, hu_buf, senders[j])
  <2>1. PICK k \in DOMAIN RemoveAt(senders, i) : RemoveAt(senders, i)[k] = senders[j]
    BY <1>1, RemovedAre
  <2>2. ~senders[j].begun
    <3>1. ~RemoveAt(senders, i)[k].begun
      BY <1>6 DEF Begun
    <3> QED BY <2>1, <3>1
  <2>3. Goes(at, fifo, hu_buf, senders[j])
    BY DEF Orderly
  <2> QED BY <2>2, <2>3, UnbegunGoes
<1>9. ASSUME NEW k \in DOMAIN senders' PROVE Goes(at2, entries2, hu_buf, senders'[k])
  <2>1. CASE Len(s.reports) = 1
    <3>1. senders' = RemoveAt(senders, i)
      BY <1>2, <2>1
    <3>2. PICK j \in DOMAIN senders \ {i} : senders'[k] = senders[j]
      BY <1>1, <3>1, RemovedAre
    <3> QED BY <1>8, <3>2
  <2>2. CASE Len(s.reports) # 1
    <3>1. senders' = ReplaceAt(senders, i, Rest(s))
      BY <1>2, <2>2
    <3>2. Rest(s) \in Sendings
      BY <1>3, <2>2, RestIsTyped
    <3>3. k \in DOMAIN senders /\ senders'[k] = IF k = i THEN Rest(s) ELSE senders[k]
      <4> DEFINE r == Rest(s)
      <4> HIDE DEF r, s
      <4>1. r \in Sendings /\ senders' = ReplaceAt(senders, i, r)
        BY <3>1, <3>2 DEF r
      <4>2. /\ DOMAIN ReplaceAt(senders, i, r) = DOMAIN senders
            /\ \A j \in DOMAIN senders :
                 ReplaceAt(senders, i, r)[j] = IF j = i THEN r ELSE senders[j]
        BY <1>1, <4>1, ReplacedIsTyped
      <4> QED BY <4>1, <4>2 DEF r
    <3> QED BY <1>5, <1>8, <2>2, <3>3
  <2> QED BY <2>1, <2>2
<1>10. Orderly(at2, entries2, hu_buf, replies, senders')
  BY <1>5, <1>7, <1>9 DEF Orderly
<1> QED BY <1>2, <1>3, <1>10 DEF entries2

LEMMA SenderGivesUpWhole ==
  ASSUME BridgeTyped, SenderGivesUp, NEW at, Orderly(at, fifo, hu_buf, replies, senders)
  PROVE  Orderly(at, fifo, hu_buf, replies, senders)'
<1>1. PICK i \in DOMAIN senders : senders' = RemoveAt(senders, i)
  BY DEF SenderGivesUp
<1>2. UNCHANGED <<fifo, hu_buf, replies>>
  BY DEF SenderGivesUp
<1>3. ASSUME NEW k \in DOMAIN senders' PROVE Goes(at, fifo, hu_buf, senders'[k])
  <2>1. PICK j \in DOMAIN senders \ {i} : senders'[k] = senders[j]
    BY <1>1, RemovedAre DEF BridgeTyped
  <2> QED BY <2>1 DEF Orderly
<1>4. Orderly(at, fifo, hu_buf, replies, senders')
  BY <1>3 DEF Orderly
<1> QED BY <1>2, <1>4

LEMMA OpensWhole ==
  ASSUME BridgeTyped, OpenerStarts, NEW at, Orderly(at, fifo, hu_buf, replies, senders)
  PROVE  Orderly(at, fifo, hu_buf, replies, senders)'
<1> DEFINE name == Openers[1 + (opened % Len(Openers))]
           s == Outgoing(OpenerPacket(name))
<1>1. senders' = Append(senders, s) /\ UNCHANGED <<fifo, hu_buf, replies>>
      /\ senders \in Seq(Sendings)
  BY DEF OpenerStarts, BridgeTyped
<1>2. name \in {"requestidentify", "identify", "startidps"}
  <2>1. Len(Openers) \in Nat \ {0} /\ opened \in Nat
    BY BridgeAssumption, EmptySeq DEF BridgeTyped, OpenerStarts
  <2>2. opened % Len(Openers) \in 0..Len(Openers) - 1
    BY <2>1
  <2>3. 1 + (opened % Len(Openers)) \in 1..Len(Openers)
    BY <2>1, <2>2
  <2> QED BY <2>3, BridgeAssumption, ElementOfSeq
<1> HIDE DEF name
<1>3. s \in Sendings /\ Goes(at, fifo, hu_buf, s)
  BY <1>2, OpenerIsText, OutgoingIsTyped, FreshGoes
<1> HIDE DEF s
<1>4. ASSUME NEW k \in DOMAIN senders' PROVE Goes(at, fifo, hu_buf, senders'[k])
  <2>1. /\ senders' \in Seq(Sendings) /\ Len(senders') = Len(senders) + 1
        /\ (\A i \in 1..Len(senders) : senders'[i] = senders[i])
        /\ senders'[Len(senders) + 1] = s
    BY <1>1, <1>3, AppendProperties
  <2>2. k \in 1..Len(senders) + 1 /\ Len(senders) \in Nat /\ DOMAIN senders = 1..Len(senders)
    BY <1>1, <2>1, LenProperties
  <2>3. CASE k = Len(senders) + 1
    BY <1>3, <2>1, <2>3
  <2>4. CASE k # Len(senders) + 1
    <3>1. k \in 1..Len(senders)
      BY <2>2, <2>4
    <3> QED BY <2>1, <2>2, <3>1 DEF Orderly
  <2> QED BY <2>3, <2>4
<1>5. Orderly(at, fifo, hu_buf, replies, senders')
  BY <1>4 DEF Orderly
<1> QED BY <1>1, <1>5

LEMMA CollectsWhole ==
  ASSUME BridgeTyped, HeadUnitCollects, NEW at, Orderly(at, fifo, hu_buf, replies, senders)
  PROVE  Orderly(Tail(at), fifo, hu_buf, replies, senders)'
<1> DEFINE buf2 == push(hu_buf, fifo[1].report).buf
<1>1. /\ fifo \in Seq(Entries) /\ fifo # <<>> /\ hu_buf \in Text
      /\ replies \in Seq(Sendings) /\ senders \in Seq(Sendings)
      /\ fifo' = Tail(fifo) /\ UNCHANGED <<replies, senders>>
  BY DEF HeadUnitCollects, BridgeTyped
<1>2. hu_buf' = buf2
  <2>1. Head(fifo) = fifo[1]
    BY <1>1
  <2> QED BY <2>1 DEF HeadUnitCollects, Heard
<1>3. Lined(at, fifo, hu_buf)
  BY DEF Orderly
<1>4. /\ Lined(Tail(at), Tail(fifo), buf2)
      /\ \A s \in Sendings : Goes(at, fifo, hu_buf, s) => Goes(Tail(at), Tail(fifo), buf2, s)
  BY <1>1, <1>3, CollectLines
<1> HIDE DEF buf2
<1>5. ASSUME NEW k \in DOMAIN replies
      PROVE  Goes(Tail(at), Tail(fifo), buf2, replies[k]) /\ (replies[k].begun => k = 1)
  <2>1. replies[k] \in Sendings
    BY <1>1, LenProperties, ElementOfSeq
  <2> QED BY <1>4, <2>1 DEF Orderly
<1>6. ASSUME NEW k \in DOMAIN senders PROVE Goes(Tail(at), Tail(fifo), buf2, senders[k])
  <2>1. senders[k] \in Sendings
    BY <1>1, LenProperties, ElementOfSeq
  <2> QED BY <1>4, <2>1 DEF Orderly
<1>7. Orderly(Tail(at), Tail(fifo), buf2, replies, senders)
  BY <1>4, <1>5, <1>6 DEF Orderly
<1> QED BY <1>1, <1>2, <1>7

LEMMA NextWhole == WholeInv /\ [Next]_vars => WholeInv'
<1> SUFFICES ASSUME WholeInv, [Next]_vars PROVE WholeInv'
  OBVIOUS
<1>1. BridgeTyped /\ BridgeTyped'
  BY NextTyped DEF WholeInv
<1>2. SUFFICES ASSUME ~split' PROVE \E at : Orderly(at, fifo, hu_buf, replies, senders)'
  BY <1>1 DEF WholeInv
<1>3. ~split
  BY <1>2 DEF Next, Reader, ReaderSends, ReadReport, ReaderWrites, ReaderGivesUp, Sender,
              SenderWrites, SenderGivesUp, Opener, OpenerChecks, OpenerStarts, HeadUnitSends,
              HeadUnitCollects, vars
<1>4. PICK at : Orderly(at, fifo, hu_buf, replies, senders)
  BY <1>3 DEF WholeInv
<1>5. CASE UNCHANGED <<fifo, hu_buf, replies, senders>>
  BY <1>4, <1>5
<1>6. CASE ReadReport
  BY <1>1, <1>4, <1>6, ReadWhole
<1>7. CASE ReaderWrites
  BY <1>1, <1>2, <1>4, <1>7, WritesWhole
<1>8. CASE ReaderGivesUp
  BY <1>1, <1>4, <1>8, GivesUpWhole
<1>9. CASE SenderWrites
  BY <1>1, <1>2, <1>4, <1>9, SenderWritesWhole
<1>10. CASE SenderGivesUp
  BY <1>1, <1>4, <1>10, SenderGivesUpWhole
<1>11. CASE OpenerStarts
  BY <1>1, <1>4, <1>11, OpensWhole
<1>12. CASE HeadUnitCollects
  BY <1>1, <1>4, <1>12, CollectsWhole
<1>13. CASE OpenerChecks \/ HeadUnitSends \/ UNCHANGED vars
  <2>1. UNCHANGED <<fifo, hu_buf, replies, senders>>
    BY <1>13 DEF OpenerChecks, HeadUnitSends, vars
  <2> QED BY <1>5, <2>1
<1> QED BY <1>6, <1>7, <1>8, <1>9, <1>10, <1>11, <1>12, <1>13
        DEF Next, Reader, ReaderSends, Sender, Opener

WholeFrame ==
  fifo # <<>> /\ Heard.frame # <<>> => split \/ IsPrefix(Head(fifo).packet, Heard.frame)

\* Whatever packets are given up half sent, and whichever of the reader and the openers'
\* threads send in between: a frame that the head unit has put together starts with the
\* packet whose report completed it, unless reports of two packets were queued in turns
\* (HidWriter.send, FrameReassembler.push).
THEOREM FramesAreWhole == Spec => WholeFrames
<1>1. WholeInv => WholeFrame
  <2> SUFFICES ASSUME WholeInv, fifo # <<>>, Heard.frame # <<>>, ~split
               PROVE  IsPrefix(Head(fifo).packet, Heard.frame)
    BY DEF WholeFrame
  <2>1. PICK at : Lined(at, fifo, hu_buf)
    BY DEF WholeInv, Orderly
  <2>2. fifo \in Seq(Entries) /\ hu_buf \in Text
    BY DEF WholeInv, BridgeTyped
  <2> DEFINE e == fifo[1]
             t == Taken(e.packet, at[1], "in")
             pushed == push(hu_buf, e.report)
  <2>3. /\ at[1] + t # Len(e.packet) => pushed.frame = <<>>
        /\ at[1] + t = Len(e.packet) => IsPrefix(e.packet, pushed.frame)
    BY <2>1, <2>2, CollectsNext
  <2>4. Head(fifo) = e /\ Heard = pushed
    <3>1. Head(fifo) = fifo[1]
      BY <2>2
    <3> QED BY <3>1 DEF Heard
  <2> HIDE DEF e, t, pushed
  <2> QED BY <2>3, <2>4
<1>2. WholeFrame => [fifo # <<>> /\ fifo' = Tail(fifo) /\ Heard.frame # <<>>
                       => split \/ IsPrefix(Head(fifo).packet, Heard.frame)]_vars
  BY DEF WholeFrame
<1> QED BY <1>1, <1>2, StartsWhole, NextWhole, PTL DEF Spec, WholeFrames
=============================================================================
