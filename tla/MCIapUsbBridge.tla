--------------------------- MODULE MCIapUsbBridge ---------------------------
(***************************************************************************)
(* Values for TLC.  Two report lengths per direction, of the program's     *)
(* own; packets are short, so that the longer length plays the largest's   *)
(* part: some packets need two reports.                                    *)
(***************************************************************************)
EXTENDS IapUsbBridge

MCReportDefs == <<[id |-> 1, length |-> 6, dir |-> "in"],
                  [id |-> 3, length |-> 15, dir |-> "in"],
                  [id |-> 5, length |-> 8, dir |-> "out"],
                  [id |-> 8, length |-> 20, dir |-> "out"]>>

Tokens(list) == build_packet(GENERAL, 57, <<0, 7, Len(list)>> \o FlattenSeq(list))
Filler == <<1, 1, 1, 1, 1, 1>>
Protocol(index, name) == <<4 + Len(name), 0, 4, index>> \o name \o <<0>>

Fid      == Tokens(<<Protocol(2, <<HONDALINK>>)>>)              \* one report
FidLong  == Tokens(<<Protocol(2, Filler \o <<1, 1, HONDALINK>>)>>)        \* the name is cut
FidTwo   == Tokens(<<Protocol(1, Filler), Protocol(2, <<HONDALINK>>)>>)
Info     == build_packet(GENERAL, 7, <<0, 7>>)
Cert     == build_packet(GENERAL, 21, <<0, 0, 2, 0, 1, 1>> \o Filler \o Filler \o Filler
                                         \o Filler \o Filler)            \* three reports
StartAuth == build_packet(GENERAL, 66, <<0, 1>> \o build_frame(177, Filler))  \* two
Ei       == build_packet(EXTENDED_INTERFACE, 44, <<0, 7>>)
Options  == build_packet(GENERAL, 75, <<0, 7, 0>>)
EndIdps  == build_packet(GENERAL, 59, <<0, 7, 0>>)

MCInPackets == {FidLong, Info, Cert, StartAuth}
MCFragments == {Fid, FidTwo}
MCOpeners   == <<"requestidentify", "identify", "startidps">>
=============================================================================
