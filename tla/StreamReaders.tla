---------------------------- MODULE StreamReaders ----------------------------
(***************************************************************************)
(* The programs that read a byte stream which arrives cut anywhere: iAP1   *)
(* packets over RFCOMM (src/pi/iap1/btsdp_iap.py and btsdp_iap_guided.py,  *)
(* by iap1_daemon.py's parser) and AT commands of the hands-free profile   *)
(* (src/pi/bluetooth-test/hfp_ag.py).  The other end is external: it sends *)
(* whole items and noise, and may close.                                   *)
(*                                                                         *)
(* iAP1 streams are of bytes.  An AT stream is of symbols: a command with  *)
(* its arguments, a carriage return, a line feed.                          *)
(***************************************************************************)
EXTENDS IapPackets

CONSTANTS
  Streams,     \* "iap" or "at"
  Items,       \* per stream, what may be sent: [bytes, means]
  MaxItems,    \* bound: items sent
  MaxRead      \* recv's size, bounded

-----------------------------------------------------------------------------
(***************************************************************************)
(* What the other end sends: packets in the short form and in the long     *)
(* one, noise that no packet begins in, and lines.                         *)
(***************************************************************************)
PacketContent(packet) ==
  <<packet.lingo>> \o CmdBytes(packet.lingo, packet.cmd) \o packet.payload

LongEncoded(packet) ==
  LET body == Bytes16(Len(PacketContent(packet))) \o PacketContent(packet)
  IN  SYNC_SHORT \o <<0>> \o body \o <<iap1_checksum(body)>>

IsPacket(packet) ==
  /\ packet \in [lingo : 0..255, cmd : Nat, payload : Seq(0..255)]
  /\ packet.cmd <= IF packet.lingo = EXTENDED_INTERFACE THEN 65535 ELSE 255

IsPacketItem(item) ==
  \E packet \in {item.means[k] : k \in DOMAIN item.means} :
    /\ IsPacket(packet) /\ item.means = <<packet>>
    /\ \/ item.bytes = Encoded(packet) /\ Len(PacketContent(packet)) <= 255
       \/ item.bytes = LongEncoded(packet) /\ Len(PacketContent(packet)) <= 65535

IsNoiseItem(item) ==
  /\ item.bytes \in Seq(0..255) /\ item.means = <<>>
  /\ \A k \in DOMAIN item.bytes : item.bytes[k] # SYNC_SHORT[1]

VARIABLES stream, sent, wire, buf, out, serving, peer

readerVars == <<stream, sent, wire, buf, out, serving, peer>>

\* `sent' holds the items, `out' the packets parsed or the lines replied.
ReadersInit ==
  /\ stream \in Streams
  /\ sent = <<>> /\ wire = <<>> /\ buf = <<>> /\ out = <<>>
  /\ serving = TRUE /\ peer = "open"

-----------------------------------------------------------------------------
(***************************************************************************)
(* hfp_ag: what a line is answered with.                                   *)
(***************************************************************************)
CR == "\r"
LF == "\n"

CommandsWithInfo == {"AT+BRSF", "AT+CIND=?", "AT+CIND?", "AT+CHLD=?", "AT+XAPL"}

\* A blank line has no reply, any other exactly one OK, after its information.
handle_at_command(line) ==
  LET stripped == SelectSeq(line, LAMBDA symbol : symbol # LF)
  IN  IF stripped = <<>> THEN <<>>
      ELSE (IF stripped[1] \in CommandsWithInfo THEN <<<<"info", stripped[1]>>>> ELSE <<>>)
             \o <<"OK">>

\* A write to a peer that has closed fails, and the session ends with it.
AtReplies(line, open) ==
  IF open \/ handle_at_command(line) = <<>>
    THEN [packets |-> handle_at_command(line), alive |-> TRUE]
    ELSE [packets |-> <<>>, alive |-> FALSE]

\* Mutant: one line at most is taken from what has arrived.
AtFirstLine(buffer, open) ==
  LET end == Find(buffer, <<CR>>)
  IN IF end = 0 THEN [packets |-> <<>>, rest |-> buffer, alive |-> TRUE]
     ELSE LET replied == AtReplies(SubSeq(buffer, 1, end - 1), open)
          IN [packets |-> replied.packets, rest |-> Drop(buffer, end), alive |-> replied.alive]

AtDrained(buffer, open) ==
  LET drain[at \in 0..Len(buffer)] ==     \* what the lines that start after `at' give
        LET end == Find(Drop(buffer, at), <<CR>>)
        IN IF end = 0 THEN [packets |-> <<>>, rest |-> Drop(buffer, at), alive |-> TRUE]
           ELSE LET replied == AtReplies(SubSeq(buffer, at + 1, at + end - 1), open)
                IN IF ~replied.alive
                     THEN [packets |-> <<>>, rest |-> Drop(buffer, at + end), alive |-> FALSE]
                     ELSE [drain[at + end] EXCEPT !.packets = replied.packets \o @]
  IN drain[0]

-----------------------------------------------------------------------------
\* A line and its end.
IsLineItem(item) ==
  /\ item.bytes \in Seq(STRING) /\ item.bytes # <<>>
  /\ \A k \in DOMAIN item.bytes : item.bytes[k] = CR <=> k = Len(item.bytes)
  /\ item.means = handle_at_command(Front(item.bytes))

ASSUME ItemsAssumption ==
  /\ MaxItems \in Nat /\ MaxRead \in Nat
  /\ Streams \subseteq {"iap", "at"}
  /\ "iap" \in Streams => \A item \in Items["iap"] : IsPacketItem(item) \/ IsNoiseItem(item)
  /\ "at" \in Streams => \A item \in Items["at"] : IsLineItem(item)

PeerSends ==
  /\ Len(sent) < MaxItems /\ peer = "open"
  /\ \E item \in Items[stream] :
       sent' = Append(sent, item) /\ wire' = wire \o item.bytes
  /\ UNCHANGED <<stream, buf, out, serving, peer>>

PeerCloses ==
  /\ peer = "open" /\ stream = "at"
  /\ peer' = "closed"
  /\ UNCHANGED <<stream, sent, wire, buf, out, serving>>

\* recv returns part of what is there; all that is complete is handled.
Reads ==
  /\ serving /\ wire # <<>>
  /\ \E n \in 1..MaxRead :
       /\ n <= Len(wire)
       /\ wire' = Drop(wire, n)
       /\ LET arrived == buf \o SubSeq(wire, 1, n)
              drained == IF stream = "iap" THEN Drained(arrived)
                         ELSE AtDrained(arrived, peer = "open")
          IN /\ buf' = drained.rest
             /\ out' = out \o drained.packets
             /\ serving' = drained.alive
  /\ UNCHANGED <<stream, sent, peer>>

ReadsEnd ==
  /\ serving /\ wire = <<>> /\ peer = "closed"
  /\ serving' = FALSE
  /\ UNCHANGED <<stream, sent, wire, buf, out, peer>>

ReadersNext == PeerSends \/ PeerCloses \/ Reads \/ ReadsEnd

ReadersSpec == ReadersInit /\ [][ReadersNext]_readerVars

-----------------------------------------------------------------------------
ReadersTypeOK ==
  /\ stream \in Streams /\ peer \in {"open", "closed"} /\ serving \in BOOLEAN
  /\ Len(sent) <= MaxItems

\* What the stream meant.
Due == FlattenSeq([k \in DOMAIN sent |-> sent[k].means])

\* However the stream is cut, what is handled is what was sent, in order, nothing
\* twice, and nothing waits for a later chunk once its last byte has been read; the
\* reader stops for nothing but a closed connection.
CutAnywhere ==
  /\ IsPrefix(out, Due)
  /\ serving /\ wire = <<>> /\ peer = "open" => out = Due
  /\ ~serving => peer = "closed"
=============================================================================
