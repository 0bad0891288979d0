---------------------------- MODULE MCIapDaemon ----------------------------
(***************************************************************************)
(* Values for the constants of IapDaemon, for TLC.                         *)
(***************************************************************************)
EXTENDS IapDaemon

\* Two types tell "first", "next" and "none left" apart; six is the code's list.
TwoTypes == <<0, 1>>
SixTypes == <<0, 1, 4, 5, 6, 7>>

Identify == Packet("Identify", 1)
Cancel   == Packet("Identify", 0)
EndIDPS(status) == Packet("EndIDPS", status)

\* Everything the head unit has been seen to start.
EveryInitiation ==
  {Identify, Cancel, EndIDPS(0), EndIDPS(1), EndIDPS(2), Packet("StartIDPS", 0)}

\* A head unit that neither cancels nor resets.
OrderlyInitiations ==
  {Identify, EndIDPS(0), Packet("StartIDPS", 0), Packet("Query", 0)}

JustCancel == {Identify, Cancel}
JustIdentify == {Identify}

=============================================================================
