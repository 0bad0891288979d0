--------------------------- MODULE BulkEndpoints ---------------------------
(***************************************************************************)
(* The main loop of src/pi/iap1/iap1_daemon.py and the two bulk endpoint   *)
(* descriptors it keeps while the gadget is unbound and bound again: ep0   *)
(* events, open_bulk_eps step by step, the non-blocking read of ep1 and    *)
(* the reply on ep2, with an open that may fail.                           *)
(*                                                                         *)
(* FunctionFS is modelled from what the code says of it: a descriptor      *)
(* serves one enumeration, and an open takes the lowest free number.       *)
(***************************************************************************)
EXTENDS Naturals, Sequences, FiniteSets

CONSTANTS
  BatchSize,     \* events that one read of ep0 returns at most
  MaxEnables,    \* bound: enumerations
  MaxFailures    \* bound: opens that fail

ASSUME MaxEnablesAssumption  == MaxEnables \in Nat
ASSUME BatchSizeAssumption   == BatchSize \in Nat \ {0}
ASSUME MaxFailuresAssumption == MaxFailures \in Nat

\* Descriptor numbers, the ones that other files hold left out.
Fds == 0..3

Closed == [file |-> "none", gen |-> 0]

VARIABLES
  table,         \* what each descriptor number refers to
  ep_out_fd,     \* main's two variables: descriptor numbers
  ep_in_fd,
  first,         \* open_bulk_eps' first result
  loop,          \* where main is
  up, gen,       \* the gadget is enumerated; how many times it has been
  events,        \* ep0's events, not yet read
  request,       \* the head unit's: "none", "sent" or "read"
  failures,
  failed         \* history: the last reopening failed

vars == <<table, ep_out_fd, ep_in_fd, first, loop, up, gen, events, request,
          failures, failed>>
daemon == <<table, ep_out_fd, ep_in_fd, first, failures, failed>>

Named == {ep_out_fd, ep_in_fd}

(***************************************************************************)
(* Both endpoints are opened before the gadget is first bound.             *)
(***************************************************************************)
Init ==
  /\ table = [fd \in Fds |-> CASE fd = 0 -> [file |-> "ep1", gen |-> 1]
                               [] fd = 1 -> [file |-> "ep2", gen |-> 1]
                               [] OTHER -> Closed]
  /\ ep_out_fd = 0
  /\ ep_in_fd = 1
  /\ first = 0
  /\ loop = "poll"
  /\ up = FALSE
  /\ gen = 0
  /\ events = <<>>
  /\ request = "none"
  /\ failures = 0
  /\ failed = FALSE

-----------------------------------------------------------------------------
(***************************************************************************)
(* The kernel and the head unit (external).                                *)
(***************************************************************************)
Enable ==
  /\ ~up
  /\ gen < MaxEnables
  /\ up' = TRUE
  /\ gen' = gen + 1
  /\ events' = Append(events, "ENABLE")
  /\ UNCHANGED <<daemon, loop, request>>

Disable ==
  /\ up
  /\ up' = FALSE
  /\ request' = "none"
  /\ events' = Append(events, "DISABLE")
  /\ UNCHANGED <<daemon, loop, gen>>

HeadUnitSends ==
  /\ up
  /\ request = "none"
  /\ request' = "sent"
  /\ UNCHANGED <<daemon, loop, up, gen, events>>

(***************************************************************************)
(* A descriptor opened while the gadget is down serves its next            *)
(* enumeration; one that has served is of no more use.                     *)
(***************************************************************************)
Generation == IF up THEN gen ELSE gen + 1
Fresh(fd)  == table[fd].gen = Generation
Usable(fd) == up /\ Fresh(fd)
LowestFree(tab) ==
  CHOOSE fd \in Fds : /\ tab[fd] = Closed
                      /\ \A lower \in 0..fd - 1 : tab[lower] # Closed
Opened(tab, file) == [tab EXCEPT ![LowestFree(tab)] = [file |-> file, gen |-> Generation]]

-----------------------------------------------------------------------------
(***************************************************************************)
(* poll and ep0_event_loop: a batch of at most BatchSize events; an ENABLE *)
(* among them leads to open_bulk_eps.  The read of ep1 follows in any      *)
(* case.                                                                   *)
(***************************************************************************)
Taken == IF Len(events) < BatchSize THEN Len(events) ELSE BatchSize
Batch == SubSeq(events, 1, Taken)

\* Mutant: only the first event of a batch is looked at.
FirstIsEnable == Head(events) = "ENABLE"

EnableSeen == \E i \in DOMAIN Batch : Batch[i] = "ENABLE"

PollNothing ==
  /\ loop = "poll"
  /\ events = <<>>
  /\ loop' = "read"
  /\ UNCHANGED <<daemon, up, gen, events, request>>

PollEvents ==
  /\ loop = "poll"
  /\ events # <<>>
  /\ loop' = IF EnableSeen THEN "close" ELSE "read"
  /\ events' = SubSeq(events, Taken + 1, Len(events))
  /\ UNCHANGED <<daemon, up, gen, request>>

(***************************************************************************)
(* open_bulk_eps: close both old numbers (an error is ignored), then open  *)
(* ep1, then ep2.  A failed open raises, and main's variables keep the old *)
(* numbers.                                                                *)
(***************************************************************************)
\* Mutants: only one of the two is closed.
ClosedOut == {ep_out_fd}
ClosedIn  == {ep_in_fd}
ToClose   == Named

CloseOld ==
  /\ loop \in {"close", "close_after_error"}
  /\ table' = [fd \in Fds |-> IF fd \in ToClose THEN Closed ELSE table[fd]]
  /\ loop' = IF loop = "close" THEN "open_first" ELSE "open_first_after_error"
  /\ UNCHANGED <<ep_out_fd, ep_in_fd, first, up, gen, events, request, failures, failed>>

\* After an ENABLE the read follows; after a read error the loop starts again.
AfterReopening == IF loop \in {"open_first", "open_second"} THEN "read" ELSE "poll"

\* Mutant: ep2 is opened before ep1.
InBeforeOut == <<"ep2", "ep1">>
OpenOrder   == <<"ep1", "ep2">>

OpenFirst ==
  /\ loop \in {"open_first", "open_first_after_error"}
  /\ first' = LowestFree(table)
  /\ table' = Opened(table, OpenOrder[1])
  /\ loop' = IF loop = "open_first" THEN "open_second" ELSE "open_second_after_error"
  /\ UNCHANGED <<ep_out_fd, ep_in_fd, up, gen, events, request, failures, failed>>

OpenSecond ==
  /\ loop \in {"open_second", "open_second_after_error"}
  /\ LET results == <<first, LowestFree(table)>>
     IN /\ ep_out_fd' = results[IF OpenOrder[1] = "ep1" THEN 1 ELSE 2]
        /\ ep_in_fd' = results[IF OpenOrder[1] = "ep1" THEN 2 ELSE 1]
  /\ table' = Opened(table, OpenOrder[2])
  /\ failed' = FALSE
  /\ loop' = AfterReopening
  /\ UNCHANGED <<first, up, gen, events, request, failures>>

OpenFails ==
  /\ loop \in {"open_first", "open_second",
               "open_first_after_error", "open_second_after_error"}
  /\ failures < MaxFailures
  /\ failures' = failures + 1
  /\ failed' = TRUE
  /\ loop' = AfterReopening
  /\ UNCHANGED <<table, ep_out_fd, ep_in_fd, first, up, gen, events, request>>

(***************************************************************************)
(* The read of ep1, and process_rx's write on ep2, raise EBADF on a closed *)
(* number and ESHUTDOWN on a stale one; only the second is acted upon.     *)
(***************************************************************************)
AfterError(fd) == IF table[fd] = Closed THEN "poll" ELSE "close_after_error"

Read ==
  /\ loop = "read"
  /\ \/ /\ Usable(ep_out_fd) /\ request = "sent"
        /\ request' = "read"
        /\ loop' = "write"
     \/ /\ Fresh(ep_out_fd) /\ ~(up /\ request = "sent")     \* BlockingIOError
        /\ loop' = "poll"
        /\ UNCHANGED request
     \/ /\ ~Fresh(ep_out_fd)
        /\ loop' = AfterError(ep_out_fd)
        /\ UNCHANGED request
  /\ UNCHANGED <<daemon, up, gen, events>>

Write ==
  /\ loop = "write"
  /\ \/ /\ Usable(ep_in_fd)
        /\ request' = IF request = "read" THEN "none" ELSE request
        /\ loop' = "poll"
     \/ /\ ~Usable(ep_in_fd)
        /\ loop' = AfterError(ep_in_fd)
        /\ UNCHANGED request
  /\ UNCHANGED <<daemon, up, gen, events>>

Main == PollNothing \/ PollEvents \/ CloseOld \/ OpenFirst \/ OpenSecond \/ OpenFails
          \/ Read \/ Write

Next == Enable \/ Disable \/ HeadUnitSends \/ Main

Spec == Init /\ [][Next]_vars

\* main's loop polls at least every 500 ms and never stops.
FairSpec == Spec /\ WF_vars(Main)

-----------------------------------------------------------------------------
(***************************************************************************)
(* Properties.                                                             *)
(***************************************************************************)

Reopening == loop \notin {"poll", "read", "write"}

\* Every variable keeps its type, and each of main's descriptors its end: the
\* number it reads from is never ep2's, the one it writes to never ep1's, though
\* failed opens leave numbers behind that the next open takes.
TypeOK ==
  /\ table \in [Fds -> [file : {"none", "ep1", "ep2"}, gen : 0..MaxEnables + 1]]
  /\ {ep_out_fd, ep_in_fd, first} \subseteq Fds
  /\ table[ep_out_fd].file # "ep2"
  /\ table[ep_in_fd].file # "ep1"
  /\ up \in BOOLEAN /\ failed \in BOOLEAN
  /\ gen \in 0..MaxEnables
  /\ failures \in 0..MaxFailures
  /\ request \in {"none", "sent", "read"}
  /\ events \in Seq({"ENABLE", "DISABLE"})

\* No descriptor is leaked over any number of reopenings, failed ones included.
NoLeak == ~Reopening => {fd \in Fds : table[fd] # Closed} \subseteq Named

\* A packet that can be read can be answered: whenever ep1's descriptor serves
\* the present enumeration ep2's does too, unless an open failed.
ReadableIsAnswerable ==
  ~Reopening /\ Fresh(ep_out_fd) => Fresh(ep_in_fd) \/ failed

Recovered == Usable(ep_out_fd) /\ Usable(ep_in_fd)

\* However many opens have failed before, an ENABLE after which none fails gets
\* both endpoints back, unless the gadget goes down again.
EnableRescues ==
  (up /\ failures = MaxFailures /\ "ENABLE" \in {events[i] : i \in DOMAIN events})
    ~> (Recovered \/ ~up)

\* "reopen failed ... will keep retrying", "will fall back to reopening on the
\* next read error": a failed reopening is tried again, and the endpoints come
\* back once opens succeed, unless the gadget goes down.
KeepsRetrying == failed /\ up ~> (Recovered \/ ~up)

=============================================================================
