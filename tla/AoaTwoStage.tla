----------------------------- MODULE AoaTwoStage -----------------------------
(***************************************************************************)
(* src/pi/aoa-gadget/aoa_gadget_twostage.c: the gadget enumerates under a  *)
(* generic identity, and on AOA_START unbinds itself, rewrites its two ids *)
(* and binds itself again.  Any of these writes may fail, which leaves the *)
(* rest undone.                                                            *)
(*                                                                         *)
(* External: the operator sets the gadget up, binds it once and may tear   *)
(* it down (clean_restart.sh); the host enumerates what is bound, sends    *)
(* requests and is unplugged when it likes.                                *)
(***************************************************************************)
EXTENDS Integers, SequencesExt

CONSTANTS
  AoaBatch,      \* events read at once
  MaxEvents,     \* bound: events waiting on ep0
  MaxTeardowns   \* bound: teardowns

VARIABLES
  gadget,     \* the program: "starting", "watching", or a step of the switch
  udc,        \* is the gadget bound?
  vendor, product,
  unbound,    \* has the operator still to bind it?
  host,       \* "away" or "attached"
  events,     \* what ep0 has to read
  teardowns,
  seen,       \* history: the identities enumerated since the setup
  failed_aoa  \* history: has a switch failed since then?

aoaVars == <<gadget, udc, vendor, product, unbound, host, events, teardowns, seen,
             failed_aoa>>

Requests == {"protocol", "string", "start"}

AoaInit ==
  /\ gadget = "starting" /\ udc = FALSE /\ unbound = TRUE
  /\ vendor = "generic" /\ product = "generic"
  /\ host = "away" /\ events = <<>> /\ teardowns = 0
  /\ seen = <<>> /\ failed_aoa = FALSE

-----------------------------------------------------------------------------
\* Descriptors written, endpoints opened.
OpensEndpoints ==
  /\ gadget = "starting"
  /\ gadget' = "watching"
  /\ UNCHANGED <<udc, vendor, product, unbound, host, events, teardowns, seen, failed_aoa>>

\* Mutant: only the batch's last event is looked at.
StartLast(batch) == Last(batch) = "start"
StartSeen(batch) == "start" \in Range(batch)

\* Mutant: the ids are rewritten under the host's eyes.
RewriteFirst == <<"vendor", "product", "unbind", "find", "rebind", "watching">>
SwitchOrder  == <<"unbind", "vendor", "product", "find", "rebind", "watching">>
After(step)  == SwitchOrder[1 + CHOOSE i \in DOMAIN SwitchOrder : SwitchOrder[i] = step]

ReadsEvents ==
  /\ gadget = "watching" /\ events # <<>>
  /\ LET n == IF Len(events) < AoaBatch THEN Len(events) ELSE AoaBatch
     IN /\ events' = SubSeq(events, n + 1, Len(events))
        /\ gadget' = IF StartSeen(SubSeq(events, 1, n)) THEN SwitchOrder[1] ELSE gadget
  /\ UNCHANGED <<udc, vendor, product, unbound, host, teardowns, seen, failed_aoa>>

\* perform_switch, a write a step.  Unbinding what is not bound fails.
Switches ==
  /\ gadget \in Range(SwitchOrder) \ {"watching"}
  /\ gadget = "unbind" => udc
  /\ gadget' = After(gadget)
  /\ udc' = CASE gadget = "unbind" -> FALSE [] gadget = "rebind" -> TRUE [] OTHER -> udc
  /\ vendor' = IF gadget = "vendor" THEN "accessory" ELSE vendor
  /\ product' = IF gadget = "product" THEN "accessory" ELSE product
  /\ host' = IF gadget = "unbind" THEN "away" ELSE host
  /\ events' = IF gadget = "unbind" /\ host = "attached" THEN Append(events, "disable")
               ELSE events
  /\ UNCHANGED <<unbound, teardowns, seen, failed_aoa>>

SwitchFails ==
  /\ gadget \in Range(SwitchOrder) \ {"watching"}
  /\ gadget' = "watching" /\ failed_aoa' = TRUE
  /\ UNCHANGED <<udc, vendor, product, unbound, host, events, teardowns, seen>>

-----------------------------------------------------------------------------
OperatorBinds ==
  /\ unbound /\ gadget = "watching"
  /\ unbound' = FALSE /\ udc' = TRUE
  /\ UNCHANGED <<gadget, vendor, product, host, events, teardowns, seen, failed_aoa>>

TearsDown ==
  /\ teardowns < MaxTeardowns
  /\ teardowns' = teardowns + 1
  /\ gadget' = "starting" /\ udc' = FALSE /\ unbound' = TRUE
  /\ vendor' = "generic" /\ product' = "generic"
  /\ host' = "away" /\ events' = <<>>
  /\ seen' = <<>> /\ failed_aoa' = FALSE

HostEnumerates ==
  /\ udc /\ host = "away" /\ Len(events) < MaxEvents /\ Len(seen) < MaxEvents
  /\ host' = "attached"
  /\ events' = Append(events, "enable")
  /\ seen' = Append(seen, <<vendor, product>>)
  /\ UNCHANGED <<gadget, udc, vendor, product, unbound, teardowns, failed_aoa>>

HostAsks ==
  /\ host = "attached" /\ Len(events) < MaxEvents
  /\ \E r \in Requests : events' = Append(events, r)
  /\ UNCHANGED <<gadget, udc, vendor, product, unbound, host, teardowns, seen, failed_aoa>>

HostLeaves ==
  /\ host = "attached" /\ Len(events) < MaxEvents
  /\ host' = "away"
  /\ events' = Append(events, "disable")
  /\ UNCHANGED <<gadget, udc, vendor, product, unbound, teardowns, seen, failed_aoa>>

AoaNext ==
  \/ OpensEndpoints \/ ReadsEvents \/ Switches \/ SwitchFails
  \/ OperatorBinds \/ TearsDown \/ HostEnumerates \/ HostAsks \/ HostLeaves

AoaSpec == AoaInit /\ [][AoaNext]_aoaVars

-----------------------------------------------------------------------------
AoaTypeOK ==
  /\ gadget \in {"starting"} \cup Range(SwitchOrder) /\ host \in {"away", "attached"}
  /\ Len(events) <= MaxEvents + 1

\* "the host should observe this as the device disappearing and a new device (now at
\* 0x18d1/0x2d00) appearing": wherever a switch fails, and however often it is asked
\* for, no host enumerates one id of each identity, or the generic one after the other.
TwoIdentities ==
  \E k \in 0..Len(seen) :
    seen = [i \in DOMAIN seen |-> IF i <= k THEN <<"generic", "generic">>
                                  ELSE <<"accessory", "accessory">>]

\* A START that the host has sent, with whatever events around it and even if the host
\* has left, ends in a bound accessory, a switch that failed or a teardown.
StartSwitches ==
  "start" \in Range(events)
    ~> \/ gadget = "starting" \/ failed_aoa
       \/ udc /\ vendor = "accessory" /\ product = "accessory"
=============================================================================
