---------------------------- MODULE GuidedPolicy ----------------------------
(***************************************************************************)
(* What src/pi/iap1/btsdp_iap_guided.py answers to one iAP1 packet: its    *)
(* hypotheses, respond_to_packet and the one-shots of the app session.     *)
(* When the one-shots' steps interleave is GuidedHarness's concern.        *)
(*                                                                         *)
(* A policy maps the session's state and a packet to an answer: the state  *)
(* after it, the packets to send, or an uncaught IndexError.  A challenge  *)
(* is its length, a ciphertext the nonce that determines it, a wanted      *)
(* protocol the symbol that a declared name contains.                      *)
(***************************************************************************)
EXTENDS IapPackets, DataParts

HONDALINK == 200
NoSession == 0

NewSession == [ea_protocols |-> <<>>, ea_opened |-> FALSE, ea_session_id |-> NoSession,
               dp_kicked |-> FALSE, dp_b2_sent |-> FALSE]

Answer(st, out) == [st |-> st, out |-> out, raises |-> FALSE]
Crash(st)       == [st |-> st, out |-> <<>>, raises |-> TRUE]

-----------------------------------------------------------------------------
(***************************************************************************)
(* Hypotheses: the constructor's defaults, the proven full initialisation, *)
(* and those that are shipped.                                             *)
(***************************************************************************)
Hypothesis ==
  [start_idps |-> "accept", run_idps_body |-> TRUE, init_auth |-> TRUE,
   opt11_mode |-> "unknown_id", general_options |-> 32, other_lingo_options |-> 0,
   echo_transid |-> TRUE, auth_trigger |-> "after_endidps", force_idps_success |-> FALSE,
   cert_section_mode |-> "accept_first", auth_transid |-> FALSE, defer_challenge |-> FALSE,
   challenge_retry_byte |-> TRUE, autoack_unknown |-> FALSE,
   ei_return_dbrecords |-> FALSE, ei_return_cmd |-> 44, ei_return_count |-> 0,
   ei_nowplaying_returns |-> FALSE,
   ea_open_session |-> FALSE, ea_open_protocols |-> <<HONDALINK>>,
   ea_open_trigger |-> "device_info",
   dataparts_session |-> FALSE, dp_ipod_transfer_cmd |-> 65, dp_opcode_sweep |-> <<>>,
   dp_auto_b2 |-> TRUE]

FULL_INIT == [Hypothesis EXCEPT !.cert_section_mode = "ack_transid", !.auth_transid = TRUE,
                !.auth_trigger = "after_fidtokens", !.force_idps_success = TRUE,
                !.autoack_unknown = TRUE, !.ei_nowplaying_returns = TRUE,
                !.opt11_mode = "ret_max_payload"]

BASE        == [FULL_INIT EXCEPT !.ea_open_session = TRUE]
A2_EA_SWEEP == [BASE EXCEPT !.dataparts_session = TRUE,
                            !.dp_opcode_sweep = <<65, 66, 64, 67>>]

-----------------------------------------------------------------------------
(***************************************************************************)
(* Helpers on payloads: the transID that leads it, echoed or defaulted.    *)
(***************************************************************************)
TransPrefix(payload) == IF Len(payload) >= 2 THEN SubSeq(payload, 1, 2) ELSE <<>>
TransOrZero(payload) == IF Len(payload) >= 2 THEN SubSeq(payload, 1, 2) ELSE <<0, 0>>
Zeros(n) == [i \in 1..n |-> 0]

\* Typed empty returns for the Extended-Interface Gets.
EI_GET_RETURNS == [c \in {24, 28, 44, 47} |->
                     Packet(EXTENDED_INTERFACE, c + 1,
                            Zeros(CASE c = 28 -> 9 [] c = 24 -> 4 [] OTHER -> 1))]
EiReturn(cmd, payload) == [EI_GET_RETURNS[cmd] EXCEPT !.payload = TransOrZero(payload) \o @]
EiAck(cmd, payload) ==
  Packet(EXTENDED_INTERFACE, 1, TransOrZero(payload) \o <<0>> \o Bytes16(cmd))

GuidedEi(hyp, p) ==
  CASE hyp.ei_return_dbrecords /\ p.cmd = hyp.ei_return_cmd ->
         <<Packet(EXTENDED_INTERFACE, 25,
                  TransOrZero(p.payload) \o <<0, 0>> \o Bytes16(hyp.ei_return_count))>>
    [] ~(hyp.ei_return_dbrecords /\ p.cmd = hyp.ei_return_cmd)
       /\ hyp.ei_nowplaying_returns /\ p.cmd \in DOMAIN EI_GET_RETURNS ->
         <<EiReturn(p.cmd, p.payload)>>
    [] OTHER -> IF hyp.autoack_unknown THEN <<EiAck(p.cmd, p.payload)>> ELSE <<>>

-----------------------------------------------------------------------------
(***************************************************************************)
(* The app session.  take_ea_open_packets: per wanted protocol the first   *)
(* declared one that matches is opened; the session of HondaLink is kept.  *)
(***************************************************************************)
Opening(protocols, wanted) ==
  FoldLeft(LAMBDA acc, want :
    LET matches == {i \in DOMAIN protocols : Contains(protocols[i].protocol, want)}
    IN IF matches = {} THEN acc
       ELSE LET p == protocols[Min(matches)]
            IN [next |-> acc.next + 1,
                out |-> Append(acc.out, build_open_data_session(acc.next, p.index)),
                kept |-> IF acc.kept = NoSession \/ Contains(p.protocol, HONDALINK)
                           THEN acc.next ELSE acc.kept],
    [next |-> 1, out |-> <<>>, kept |-> NoSession], wanted)

take_ea_open_packets(hyp, st) ==
  IF st.ea_opened \/ ~hyp.ea_open_session \/ st.ea_protocols = <<>> THEN Answer(st, <<>>)
  ELSE LET opening == Opening(st.ea_protocols, hyp.ea_open_protocols)
       IN Answer([st EXCEPT !.ea_opened = TRUE, !.ea_session_id = opening.kept], opening.out)

take_dp_kick_packets(hyp, st) ==
  IF st.dp_kicked \/ ~hyp.dataparts_session \/ st.ea_session_id = NoSession
    THEN Answer(st, <<>>)
    ELSE LET opcodes == IF hyp.dp_opcode_sweep = <<>> THEN <<hyp.dp_ipod_transfer_cmd>>
                        ELSE hyp.dp_opcode_sweep
             kick(op) == <<build_ipod_data_transfer(st.ea_session_id, SessionStart, op),
                           build_ipod_data_transfer(st.ea_session_id, AuthRequest, op)>>
         IN Answer([st EXCEPT !.dp_kicked = TRUE],
                   FoldLeft(LAMBDA out, op : out \o kick(op), <<>>, opcodes))

\* _build_b2_frame: the subtype, then the identity encrypted under the nonce's key.
NonceOf(b1) == IF Len(b1.payload) >= 5 THEN SubSeq(b1.payload, 2, 5) ELSE Zeros(4)
Encrypted(key) == key \o Zeros(4)
build_b2_frame(b1) == build_frame(178, <<0>> \o Encrypted(derive_key(NonceOf(b1))))

build_b2_response(hyp, st, b1) ==
  IF st.dp_b2_sent \/ st.ea_session_id = NoSession THEN Answer(st, <<>>)
  ELSE Answer([st EXCEPT !.dp_b2_sent = TRUE],
              <<build_ipod_data_transfer(st.ea_session_id, build_b2_frame(b1),
                                         hyp.dp_ipod_transfer_cmd)>>)

\* DataParts are looked for in the whole payload, then after a session id.
FramesIn(payload) == IF parse_frames(payload) # <<>> THEN parse_frames(payload)
                     ELSE parse_frames(parse_ea_data_transfer(payload))

handle_inbound_dataparts(hyp, st, payload) ==
  FoldLeft(LAMBDA acc, frame :
             IF classify(frame) = "StartAuth" /\ hyp.dp_auto_b2
               THEN LET b2 == build_b2_response(hyp, acc.st, frame)
                    IN  Answer(b2.st, acc.out \o b2.out)
               ELSE acc,
           Answer(st, <<>>), FramesIn(payload))

-----------------------------------------------------------------------------
(***************************************************************************)
(* General lingo: identification.                                          *)
(***************************************************************************)
GuidedStartIdps(hyp, st) ==
  Answer(st, CASE hyp.start_idps = "accept" -> <<build_ack(0, 56)>>
               [] hyp.start_idps = "reject" -> <<build_ack(4, 56)>>
               [] OTHER -> <<>>)

GuidedFidTokens(hyp, st, payload) ==
  IF fid_token_values_raises(payload) THEN Crash(st)
  ELSE LET fields    == parse_fid_token_values(payload)
           protocols == parse_ea_protocols(fields)
       IN Answer(IF protocols = <<>> THEN st ELSE [st EXCEPT !.ea_protocols = protocols],
                 <<build_ret_fid_token_value_acks(SubSeq(payload, 1, 2), fields)>>
                   \o IF hyp.auth_trigger = "after_fidtokens" /\ hyp.init_auth
                        THEN <<build_get_dev_authentication_info>> ELSE <<>>)

GuidedEndIdps(hyp, st, payload) ==
  IF Len(payload) < 2 THEN Crash(st)
  ELSE LET succeed == \/ Len(payload) = 2 \/ payload[3] = 0
                      \/ hyp.force_idps_success
       IN Answer(st,
            <<build_idps_status(SubSeq(payload, 1, 2), IF succeed THEN 0 ELSE 4)>>
              \o IF succeed /\ hyp.init_auth /\ hyp.auth_trigger = "after_endidps"
                   THEN <<build_get_dev_authentication_info>> ELSE <<>>)

(***************************************************************************)
(* General lingo: the certificate and the signature.                       *)
(***************************************************************************)
CertTransPrefix(payload) ==
  IF Len(payload) >= 6 /\ payload[1] = 0 /\ payload[2] = 0 /\ payload[3] \in {1, 2}
    THEN <<0, 0>> ELSE <<>>
CertBody(payload)  == Drop(payload, Len(CertTransPrefix(payload)))
CertMajor(payload) == IF CertBody(payload) = <<>> THEN 1 ELSE CertBody(payload)[1]
NonFinal(payload)  == LET body == CertBody(payload)
                      IN  CertMajor(payload) = 2 /\ Len(body) >= 4 /\ body[3] < body[4]
Challenge(payload) == <<IF CertMajor(payload) = 2 THEN 20 ELSE 16>>

GuidedCert(hyp, payload) ==
  LET prefix == CertTransPrefix(payload)
      trans  == IF hyp.auth_transid THEN prefix ELSE <<>>
      accept == <<General(22, trans \o <<0>>)>>
      challenge == General(23, trans \o Challenge(payload)
                                 \o IF hyp.challenge_retry_byte THEN <<1>> ELSE <<>>)
  IN IF NonFinal(payload) /\ hyp.cert_section_mode # "accept_first"
       THEN CASE hyp.cert_section_mode = "ack_sections" -> <<build_ack(0, 21)>>
              [] hyp.cert_section_mode = "ack_transid" -> <<General(2, prefix \o <<0, 21>>)>>
              [] OTHER -> <<build_get_dev_authentication_info>>
       ELSE IF hyp.defer_challenge THEN accept ELSE Append(accept, challenge)

GuidedSignature(hyp, payload) ==
  <<General(25, (IF hyp.auth_transid THEN TransPrefix(payload) ELSE <<>>) \o <<0>>)>>

(***************************************************************************)
(* General lingo: requests, and what no handler knows.                     *)
(***************************************************************************)
GuidedOptions(hyp, payload) ==
  LET lingo == Last(payload)
  IN <<General(76, (IF hyp.echo_transid THEN TransPrefix(payload) ELSE <<>>) \o <<lingo>>
             \o Zeros(6) \o <<IF lingo = GENERAL THEN hyp.general_options
                              ELSE hyp.other_lingo_options, 0>>)>>

GuidedRequest(hyp, st, cmd) ==
  IF ~(hyp.ea_open_session /\ hyp.ea_open_trigger = "device_info")
    THEN Answer(st, <<REQUEST_HANDLERS[cmd]>>)
    ELSE LET open == take_ea_open_packets(hyp, st)
             kick == take_dp_kick_packets(hyp, open.st)
         IN Answer(kick.st, <<REQUEST_HANDLERS[cmd]>> \o open.out \o kick.out)

Guided0x11(hyp, payload) ==
  CASE hyp.opt11_mode = "ret_max_payload" -> <<General(18, TransOrZero(payload) \o <<2, 0>>)>>
    [] hyp.opt11_mode = "ack_success"     -> <<build_ack(0, 17)>>
    [] hyp.opt11_mode = "ret_options"     ->
         <<General(18, TransOrZero(payload) \o Zeros(6) \o <<hyp.general_options, 0>>)>>
    [] OTHER -> <<build_ack(5, 17)>>

GuidedGeneral(hyp, st, cmd, payload) ==
  CASE cmd = 56 -> GuidedStartIdps(hyp, st)
    [] cmd = 57 /\ hyp.run_idps_body -> GuidedFidTokens(hyp, st, payload)
    [] cmd = 59 /\ hyp.run_idps_body -> GuidedEndIdps(hyp, st, payload)
    [] cmd = 21 /\ hyp.init_auth -> Answer(st, GuidedCert(hyp, payload))
    [] cmd = 24 /\ hyp.init_auth -> Answer(st, GuidedSignature(hyp, payload))
    [] cmd \in {75, 15} /\ payload = <<>> -> Crash(st)
    [] cmd = 75 /\ payload # <<>> -> Answer(st, GuidedOptions(hyp, payload))
    [] cmd = 15 /\ payload # <<>> ->
         Answer(st, <<response_lingo_protocol_version(Last(payload))>>)
    [] cmd = 19 -> Answer(st, <<build_ack(0, 19)>>)
    [] cmd \in DOMAIN REQUEST_HANDLERS -> GuidedRequest(hyp, st, cmd)
    [] cmd = 17 -> Answer(st, Guided0x11(hyp, payload))
    [] OTHER -> Answer(st, IF hyp.autoack_unknown
                             THEN <<General(2, TransOrZero(payload) \o <<0, cmd>>)>> ELSE <<>>)

respond_to_packet(hyp, st, p) ==
  LET scanned == IF p.lingo = GENERAL /\ hyp.dataparts_session /\ st.ea_opened
                    /\ p.cmd \notin {21, 24}
                   THEN handle_inbound_dataparts(hyp, st, p.payload) ELSE Answer(st, <<>>)
      answer  == CASE p.lingo = EXTENDED_INTERFACE -> Answer(scanned.st, GuidedEi(hyp, p))
                   [] p.lingo = GENERAL -> GuidedGeneral(hyp, scanned.st, p.cmd, p.payload)
                   [] OTHER -> Answer(scanned.st, <<>>)
  IN [answer EXCEPT !.out = scanned.out \o @]
=============================================================================
