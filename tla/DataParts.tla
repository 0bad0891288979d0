----------------------------- MODULE DataParts ------------------------------
(***************************************************************************)
(* The DataParts codec of src/pi/appmode/appmode_proto.py: a frame is      *)
(* 9F 02 | id | length | payload | 9F 03, every 0x9F between the markers   *)
(* doubled.  MD5 and AES are symbols: equal inputs have equal results and  *)
(* nothing else is known of them.                                          *)
(***************************************************************************)
EXTENDS Integers, SequencesExt

MARK        == 159
FRAME_START == <<MARK, 2>>
FRAME_END   == <<MARK, 3>>

escape(body) ==
  FoldLeft(LAMBDA out, b : IF b = MARK THEN out \o <<MARK, MARK>> ELSE Append(out, b),
           <<>>, body)

build_frame(id, payload) ==
  FRAME_START \o escape(<<id, Len(payload) % 256>> \o payload) \o FRAME_END

\* Frame: `check' is the length byte on the wire.
Frame(body) == [id |-> body[1], check |-> body[2], payload |-> SubSeq(body, 3, Len(body))]

(***************************************************************************)
(* From the byte after a start marker: the body up to the end marker, and  *)
(* where that ends.  A marker followed by anything but a marker or 0x03,   *)
(* and the end of the stream, leave no frame.                              *)
(***************************************************************************)
MarkThen(stream, j, byte) == j < Len(stream) /\ stream[j] = MARK /\ stream[j + 1] = byte

Unescaped(stream, start) ==
  LET n == Len(stream)
      scan[j \in start..n + 1] ==
        IF j < n /\ stream[j] # MARK THEN [scan[j + 1] EXCEPT !.body = <<stream[j]>> \o @]
        ELSE IF MarkThen(stream, j, MARK) THEN [scan[j + 2] EXCEPT !.body = <<MARK>> \o @]
        ELSE LET ended == MarkThen(stream, j, 3)
             IN  [ended |-> ended, body |-> <<>>, next |-> IF ended THEN j + 2 ELSE j]
  IN scan[start]

\* Scanning goes on after a frame, or one byte after a start that was none.
parse_frames(stream) ==
  LET n == Len(stream)
      from[i \in 1..n + 2] ==
        IF i >= n THEN <<>>
        ELSE LET found == Unescaped(stream, i + 2)
             IN IF /\ SubSeq(stream, i, i + 1) = FRAME_START
                   /\ found.ended /\ Len(found.body) >= 2
                  THEN <<Frame(found.body)>> \o from[found.next]
                  ELSE from[i + 1]
  IN from[1]

\* classify, as far as the callers ask: StartAuth, AuthResponse, AuthFin.
classify(frame) ==
  CASE frame.id = 177 -> "StartAuth"
    [] frame.id = 178 -> "AuthResponse"
    [] frame.id = 179 -> "AuthFin"
    [] OTHER -> "other"

\* derive_key: the nonce determines the key, the other inputs being fixed.
derive_key(nonce) == nonce

SessionStart == build_frame(0, <<1, 1>>)
AuthRequest  == build_frame(0, <<0>>)
=============================================================================
