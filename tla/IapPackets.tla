----------------------------- MODULE IapPackets -----------------------------
(***************************************************************************)
(* iAP1 packets, as src/pi/iap1/iap1_daemon.py parses and builds them for  *)
(* every transport: bytes are 0..255, a byte string is a sequence of them. *)
(*                                                                         *)
(* Sequences count from 1 where Python counts from 0.  A Python slice that *)
(* reaches past the end is shorter; an index past the end raises           *)
(* IndexError, which a parser below reports as the outcome "raises".       *)
(* Names that come out of a packet (protocols, serial numbers) stay        *)
(* sequences of symbols: their decoding to text decides nothing.           *)
(***************************************************************************)
EXTENDS Integers, SequencesExt

Slice(s, first, last) == SubSeq(s, first, IF last <= Len(s) THEN last ELSE Len(s))
Drop(s, n)   == SubSeq(s, n + 1, Len(s))
U16(hi, lo)  == 256 * hi + lo
Bytes16(n)   == <<n \div 256, n % 256>>
SumOf(bytes) == FoldLeft(+, 0, bytes)

GENERAL            == 0
EXTENDED_INTERFACE == 4

SYNC       == <<255, 85>>
SYNC_SHORT == <<85>>

\* Find(s, t): the first place of t in s, or 0.
Find(s, t) ==
  LET at == {i \in 1..Len(s) - Len(t) + 1 : SubSeq(s, i, i + Len(t) - 1) = t}
  IN  IF at = {} THEN 0 ELSE Min(at)

-----------------------------------------------------------------------------
(***************************************************************************)
(* Framing.  Over Bluetooth OUTGOING_SYNC_MODE is "short", and the USB     *)
(* bridge strips the leading 0xFF: what is sent starts with 0x55 alone.    *)
(***************************************************************************)
iap1_checksum(body) == (256 - (SumOf(body) % 256)) % 256

CmdBytes(lingo, cmd) == IF lingo = EXTENDED_INTERFACE THEN Bytes16(cmd) ELSE <<cmd>>

\* A content of more than 255 bytes (build_packet_large_aware) does not occur here.
build_packet(lingo, cmd, payload) ==
  LET content == <<lingo>> \o CmdBytes(lingo, cmd) \o payload
      body    == <<Len(content)>> \o content
  IN  SYNC_SHORT \o body \o <<iap1_checksum(body)>>

Packet(lingo, cmd, payload) == [lingo |-> lingo, cmd |-> cmd, payload |-> payload]
Raises == [outcome |-> "raises"]
More   == [outcome |-> "more"]
Skip(n) == [outcome |-> "skip", used |-> n]

\* _split_lingo_cmd: `first' and `last' bound the body within buf.
split_lingo_cmd(buf, first, last) ==
  IF buf[first] = EXTENDED_INTERFACE /\ last - first + 1 >= 3
    THEN Packet(EXTENDED_INTERFACE, U16(buf[first + 1], buf[first + 2]),
                SubSeq(buf, first + 3, last))
    ELSE Packet(buf[first], buf[first + 1], SubSeq(buf, first + 2, last))

\* The checksum is looked at first; a body of no byte or one is then indexed
\* past its end, into the checksum or past the buffer.
parse_body(buf, header_len, summed, first, last) ==
  IF Len(buf) < last + 1 THEN More
  ELSE IF iap1_checksum(SubSeq(buf, summed, last)) # buf[last + 1] THEN Skip(header_len)
  ELSE IF first + 1 > Len(buf) THEN Raises
  ELSE [outcome |-> "packet", used |-> last + 1,
        packet |-> split_lingo_cmd(buf, first, last)]

parse_at(buf, header_len) ==
  LET len == header_len + 1       \* where LEN is
  IN IF Len(buf) < len THEN More
     ELSE IF buf[len] # 0 THEN parse_body(buf, header_len, len, len + 1, len + buf[len])
     ELSE IF Len(buf) < len + 2 THEN More
     ELSE parse_body(buf, header_len, len + 1, len + 3,
                     len + 2 + U16(buf[len + 1], buf[len + 2]))

try_parse_packet(buf) ==
  LET full  == Find(buf, SYNC)
      short == Find(buf, SYNC_SHORT)
      \* Every full sync holds a short one.
      at == IF full # 0 /\ full < short THEN full ELSE short
  IN CASE at = 0 -> IF buf[Len(buf)] = SYNC[1]
                      THEN IF Len(buf) = 1 THEN More ELSE Skip(Len(buf) - 1)
                      ELSE Skip(Len(buf))
       [] at > 1 -> Skip(at - 1)
       [] OTHER  -> parse_at(buf, IF at = full THEN Len(SYNC) ELSE Len(SYNC_SHORT))

(***************************************************************************)
(* process_rx's and _drain's loop: parse and remove until more is needed.  *)
(***************************************************************************)
Drained(buffer) ==
  LET drain[at \in 0..Len(buffer)] ==     \* what is behind the first `at' bytes
        LET buf    == Drop(buffer, at)
            parsed == try_parse_packet(buf)
        IN IF buf = <<>> \/ parsed.outcome \in {"more", "raises"}
             THEN [packets |-> <<>>, rest |-> buf,
                   alive |-> buf = <<>> \/ parsed.outcome = "more"]
           ELSE IF parsed.outcome = "skip" THEN drain[at + parsed.used]
           ELSE [drain[at + parsed.used] EXCEPT !.packets = <<parsed.packet>> \o @]
  IN drain[0]

-----------------------------------------------------------------------------
(***************************************************************************)
(* The packets that the daemon, the harness and the bridge all build.      *)
(***************************************************************************)
General(cmd, payload)  == Packet(GENERAL, cmd, payload)
Encoded(packet)        == build_packet(packet.lingo, packet.cmd, packet.payload)

build_ack(status, acked)         == General(2, <<status, acked>>)
build_idps_status(trans, status) == General(60, trans \o <<status>>)
build_get_dev_authentication_info == General(20, <<>>)
build_open_data_session(session, index) == General(63, Bytes16(session) \o <<index>>)
build_ipod_data_transfer(session, data, cmd) == General(cmd, Bytes16(session) \o data)

\* Per lingo, the version announced; any other lingo is a bad parameter.
LINGO_PROTOCOL_VERSIONS == [l \in {0, 2, 3, 4} |-> IF l = 0 THEN <<1, 9>> ELSE <<1, 0>>]

response_lingo_protocol_version(lingo) ==
  IF lingo \in DOMAIN LINGO_PROTOCOL_VERSIONS
    THEN General(16, <<lingo>> \o LINGO_PROTOCOL_VERSIONS[lingo])
    ELSE build_ack(4, 15)

\* Name, software version, serial and model number: fixed texts, here symbols.
REQUEST_HANDLERS == [c \in {7, 9, 11, 13} |-> General(c + 1, <<c>>)]

\* The session id is the payload's first two bytes when it has them.
parse_ea_data_transfer(payload) == IF Len(payload) < 2 THEN payload ELSE Drop(payload, 2)

-----------------------------------------------------------------------------
(***************************************************************************)
(* SetFIDTokenValues: <<transHi, transLo, count>>, then per token          *)
(* <<length, type, subtype>> and data, the length not counting itself.     *)
(***************************************************************************)
TokenStarts(payload) ==
  LET at[k \in 0..payload[3]] ==
        IF k = 0 THEN 4
        ELSE IF at[k - 1] > Len(payload) THEN at[k - 1]
        ELSE at[k - 1] + 1 + payload[at[k - 1]]
  IN at

\* Each token's length, type and subtype are indexed: too short a payload
\* raises.  Its data is a slice: cut short, it is shorter.
fid_token_values_raises(payload) ==
  Len(payload) < 3 \/ \E k \in 0..payload[3] - 1 : TokenStarts(payload)[k] + 2 > Len(payload)

parse_fid_token_values(payload) ==
  [k \in 1..payload[3] |->
     LET at == TokenStarts(payload)[k - 1]
     IN  [id |-> <<payload[at + 1], payload[at + 2]>>,
          data |-> Slice(payload, at + 3, at + payload[at])]]

\* Per token: length 3, type, subtype, and last the result, always accepted.
build_ret_fid_token_value_acks(trans, fields) ==
  General(58, trans \o <<Len(fields)>> \o
    FoldLeft(LAMBDA acks, field : acks \o <<3>> \o field.id \o <<0>>, <<>>, fields))

FID_TOKEN_EA_PROTOCOL == <<0, 4>>

\* The declared protocols in order: the head unit's index and the name, up to NUL.
UpToNul(s) == IF Find(s, <<0>>) = 0 THEN s ELSE SubSeq(s, 1, Find(s, <<0>>) - 1)
EaProtocol(data) == [index |-> data[1], protocol |-> UpToNul(Drop(data, 1))]
parse_ea_protocols(fields) ==
  FoldLeft(LAMBDA protocols, field :
             IF field.id = FID_TOKEN_EA_PROTOCOL /\ Len(field.data) >= 2
               THEN Append(protocols, EaProtocol(field.data)) ELSE protocols,
           <<>>, fields)
=============================================================================
