-------------------------- MODULE MCGuidedHarness --------------------------
(***************************************************************************)
(* Values for TLC: the shipped hypotheses fall into two classes for the    *)
(* harness, BASE (and A3_SPP_AUTH) and A2_EA_SWEEP (and A1_EA_AUTH).       *)
(***************************************************************************)
EXTENDS GuidedHarness, TLC

MCDrivesData    == [h \in {"BASE", "A2_EA_SWEEP"} |-> h = "A2_EA_SWEEP"]
MCOneHypothesis == [h \in {"A2_EA_SWEEP"} |-> TRUE]

\* What moves the watchdog and the dial, and a packet that does not.
MCCommands == {"enter_ei", "ei", "sig", "cert"}

\* A head unit that authenticates itself and does nothing more.
MCAuthOnly == {"cert", "sig"}

MCSymmetry == Permutations(Sessions)
=============================================================================
