----------------------------- MODULE AuthOrder -----------------------------
(***************************************************************************)
(* What the accessory may rely on while it is being authenticated (the     *)
(* steps of Table 2-5 that iap1_daemon.py's comments quote): it is asked   *)
(* for its certificate; once that is acked it is asked for every required  *)
(* accessory-info type, one after the other; only then is it challenged,   *)
(* once; only an answered challenge authenticates it.  A new connection    *)
(* starts from nothing.                                                    *)
(***************************************************************************)
EXTENDS Naturals

CONSTANT Types   \* how many accessory-info types are required, at least one

VARIABLES stage, requested

vars == <<stage, requested>>

Init == stage = "none" /\ requested = 0

AskCertificate == stage = "none" /\ stage' = "asked" /\ UNCHANGED requested

\* The ack is followed at once by the first request, unless the link fails.
AckCertificate == stage = "asked" /\ stage' = "certified" /\ requested' \in {0, 1}

AskInfo ==
  /\ stage = "certified"
  /\ requested \in 1..Types - 1
  /\ requested' = requested + 1
  /\ UNCHANGED stage

Challenge ==
  /\ stage = "certified"
  /\ requested = Types
  /\ stage' = "challenged"
  /\ UNCHANGED requested

Accept == stage = "challenged" /\ stage' = "authenticated" /\ UNCHANGED requested

Restart == stage' = "none" /\ requested' = 0

Next ==
  \/ AskCertificate \/ AckCertificate \/ AskInfo \/ Challenge \/ Accept \/ Restart

Spec == Init /\ [][Next]_vars

=============================================================================
