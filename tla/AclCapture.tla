------------------------------ MODULE AclCapture ------------------------------
(***************************************************************************)
(* src/pi/appmode/sniff_capture.py: L2CAP packets put together again from  *)
(* the ACL records of a Bluetooth capture.  A packet's records are one     *)
(* first fragment, which names the packet's length (one too short for that *)
(* is not sent), and continuations.  Records of the connections interleave, *)
(* and the capture (external) may miss any of them.                        *)
(*                                                                         *)
(* A packet of n parts is <<id, 1>>, ..., <<id, n>>; its id is its number  *)
(* in the order in which packets begin.                                    *)
(***************************************************************************)
EXTENDS Integers, SequencesExt

CONSTANTS
  Connections,    \* pairs <<direction, handle>>
  AclSizes,       \* lengths of packets, in parts
  MaxAclPackets   \* bound: packets sent

ASSUME AclAssumption == AclSizes \subseteq Nat \ {0} /\ MaxAclPackets \in Nat

VARIABLES
  begun,     \* packets begun
  sending,   \* per connection: the parts still to be sent, and the whole packet
  intact,    \* history, per connection: no record of the packet was missed
  partial,   \* _reassemble_acl's partial packets, by key
  yielded,   \* what it yields
  captured   \* history: the packets of which every record was captured

aclVars == <<begun, sending, intact, partial, yielded, captured>>

\* Mutant: partial packets are kept by direction alone.
ByDirection(connection) == connection[1]
keyd(connection)        == connection

AclInit ==
  /\ begun = 0
  /\ sending = [c \in Connections |-> [left |-> <<>>, packet |-> <<>>]]
  /\ intact = [c \in Connections |-> TRUE]
  /\ partial = <<>>      \* the empty function
  /\ yielded = <<>> /\ captured = <<>>

PacketBegins(c) ==
  /\ begun < MaxAclPackets /\ sending[c].left = <<>>
  /\ begun' = begun + 1
  /\ \E n \in AclSizes :
       LET packet == [i \in 1..n |-> <<begun + 1, i>>]
       IN  sending' = [sending EXCEPT ![c] = [left |-> packet, packet |-> packet]]
  /\ intact' = [intact EXCEPT ![c] = TRUE]
  /\ UNCHANGED <<partial, yielded, captured>>

Without(f, key)      == [k \in DOMAIN f \ {key} |-> f[k]]
With(f, key, value)  == [k \in DOMAIN f \cup {key} |-> IF k = key THEN value ELSE f[k]]

\* A first fragment: yielded if it is the whole, else it replaces what was partial.
FirstFragment(key, total, body) ==
  IF Len(body) >= total
    THEN yielded' = Append(yielded, SubSeq(body, 1, total)) /\ UNCHANGED partial
    ELSE /\ partial' = With(partial, key, [need |-> total, body |-> body])
         /\ UNCHANGED yielded

Continuation(key, body) ==
  IF key \notin DOMAIN partial THEN UNCHANGED <<partial, yielded>>
  ELSE LET have == partial[key].body \o body
           need == partial[key].need
       IN IF Len(have) >= need
            THEN /\ yielded' = Append(yielded, SubSeq(have, 1, need))
                 /\ partial' = Without(partial, key)
            ELSE /\ partial' = [partial EXCEPT ![key].body = have]
                 /\ UNCHANGED yielded

\* The connection's next record of n parts is captured and reassembled, or missed.
Record(c, n, seen) ==
  LET body  == SubSeq(sending[c].left, 1, n)
      last  == n = Len(sending[c].left)
      whole == seen /\ intact[c]
  IN /\ n <= Len(sending[c].left)
     /\ sending' = [sending EXCEPT ![c].left = SubSeq(@, n + 1, Len(@))]
     /\ intact' = [intact EXCEPT ![c] = whole]
     /\ captured' = IF last /\ whole THEN Append(captured, sending[c].packet) ELSE captured
     /\ IF ~seen THEN UNCHANGED <<partial, yielded>>
        ELSE IF sending[c].left = sending[c].packet
          THEN FirstFragment(keyd(c), Len(sending[c].packet), body)
          ELSE Continuation(keyd(c), body)
     /\ UNCHANGED begun

AclNext ==
  \E c \in Connections :
    PacketBegins(c) \/ \E n \in 1..2, seen \in BOOLEAN : Record(c, n, seen)

AclSpec == AclInit /\ [][AclNext]_aclVars

-----------------------------------------------------------------------------
AclTypeOK ==
  /\ begun \in 0..MaxAclPackets
  /\ \A key \in DOMAIN partial : Len(partial[key].body) < partial[key].need

\* A packet of which every record was captured is yielded whole and once, in the
\* order in which packets end, whatever was missed of other packets before or between;
\* what else is yielded is pieced together from packets that are not all there.
CapturedIsYielded ==
  /\ Range(captured) \subseteq Range(yielded)
  /\ \A i, j \in DOMAIN captured, k, l \in DOMAIN yielded :
       yielded[k] = captured[i] /\ yielded[l] = captured[j] => (i < j <=> k < l)
=============================================================================
