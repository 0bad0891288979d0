----------------------------- MODULE HidFraming -----------------------------
(***************************************************************************)
(* src/pi/iap-usb/hid_framing.py: one iAP1 packet is cut into HID reports  *)
(* <<ReportID, LinkControl, payload...>> padded with zeros to the fixed    *)
(* length of their ReportID, and put together again by the LinkControl.    *)
(*                                                                         *)
(* The report definitions are a parameter: the program has five for what   *)
(* it receives and four for what it sends.                                 *)
(***************************************************************************)
EXTENDS Integers, SequencesExt

CONSTANTS
  ReportDefs    \* a sequence of [id, length, dir], dir being "in" (sent) or "out"

\* As in DEFAULT_REPORT_DEFS: every direction has a report, no two share an id, and
\* each has room for a byte beside its LinkControl.
ASSUME ReportDefsAssumption ==
  /\ ReportDefs \in Seq([id : 0..255, length : 2..255, dir : {"in", "out"}])
  /\ \A dir \in {"in", "out"} : \E i \in DOMAIN ReportDefs : ReportDefs[i].dir = dir
  /\ \A i, j \in DOMAIN ReportDefs : ReportDefs[i].id = ReportDefs[j].id => i = j

LC_DONE           == 0      \* a single report
LC_CONTINUE       == 1      \* the last report of several
LC_MORE_TO_FOLLOW == 2      \* the first one
LC_CONTINUE_MORE  == 3      \* one between

MaxPayload(def) == def.length - 1

\* The first definition of the direction that is large enough, else its last.
pick(size, dir) ==
  LET defs == {i \in DOMAIN ReportDefs : ReportDefs[i].dir = dir}
      fits == {i \in defs : MaxPayload(ReportDefs[i]) >= size}
  IN  ReportDefs[IF fits = {} THEN Max(defs) ELSE Min(fits)]

\* Mutant: a first report is marked as one between.
LinkControlWithoutFirst(offset, is_last) ==
  IF is_last THEN IF offset > 0 THEN LC_CONTINUE ELSE LC_DONE ELSE LC_CONTINUE_MORE

\* LinkControl of a report that starts after `offset' bytes, the last or not.
LinkControl(offset, is_last) ==
  IF is_last THEN IF offset > 0 THEN LC_CONTINUE ELSE LC_DONE
  ELSE IF offset = 0 THEN LC_MORE_TO_FOLLOW ELSE LC_CONTINUE_MORE

encode_frame(data, dir) ==
  LET rest[offset \in 0..Len(data)] ==
        IF offset = Len(data) THEN <<>>
        ELSE LET left == Len(data) - offset
                 def  == pick(left, dir)
                 take == IF left > MaxPayload(def) THEN MaxPayload(def) ELSE left
             IN << <<def.id, LinkControl(offset, take = left)>>
                     \o SubSeq(data, offset + 1, offset + take)
                     \o [i \in 1..MaxPayload(def) - take |-> 0] >>
                \o rest[offset + take]
  IN rest[0]

\* FrameReassembler.push: what is kept, and the frame that is complete (none is
\* <<>>, which completes nothing either).
push(buf, report) ==
  IF Len(report) < 2 THEN [buf |-> buf, frame |-> <<>>]
  ELSE
    LET known   == {i \in DOMAIN ReportDefs : ReportDefs[i].id = report[1]}
        whole   == SubSeq(report, 3, Len(report))
        payload == IF known = {} THEN whole
                   ELSE LET max == MaxPayload(ReportDefs[Max(known)])
                        IN  SubSeq(whole, 1, IF max < Len(whole) THEN max ELSE Len(whole))
    IN CASE report[2] = LC_DONE           -> [buf |-> <<>>, frame |-> payload]
         [] report[2] = LC_MORE_TO_FOLLOW -> [buf |-> payload, frame |-> <<>>]
         [] report[2] = LC_CONTINUE_MORE  -> [buf |-> buf \o payload, frame |-> <<>>]
         [] report[2] = LC_CONTINUE       -> [buf |-> <<>>, frame |-> buf \o payload]
         [] OTHER                         -> [buf |-> buf, frame |-> <<>>]
=============================================================================
