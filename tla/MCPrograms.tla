------------------------------ MODULE MCPrograms ------------------------------
(***************************************************************************)
(* The programs that do not share a process or a connection, checked side  *)
(* by side: one of them runs, the others stay as they start.               *)
(***************************************************************************)
EXTENDS StreamReaders, AclCapture, Aes, AvChannel, MirrorLink, AoaTwoStage

VARIABLE program

allVars == <<program, readerVars, aclVars, aesVars, avVars, mlVars, aoaVars>>

-----------------------------------------------------------------------------
\* Streams: packets of one and of two bytes of command, noise without a sync byte and
\* a packet in the long form.
Means(p)  == [bytes |-> build_packet(p.lingo, p.cmd, p.payload), means |-> <<p>>]
Noise(s)  == [bytes |-> s, means |-> <<>>]
LongForm  == [bytes |-> <<85, 0, 0, 3, 0, 7, 1, 245>>, means |-> <<General(7, <<1>>)>>]
AtLine(line, means) == [bytes |-> line \o <<CR>>, means |-> means]

MCItems ==
  [iap |-> {Means(General(7, <<85>>)), Means(Packet(EXTENDED_INTERFACE, 44, <<>>)),
            Noise(<<255, 1, 255>>), LongForm},
   at  |-> {AtLine(<<"AT+BRSF", "=1">>, <<<<"info", "AT+BRSF">>, "OK">>),
            AtLine(<<LF>>, <<>>), AtLine(<<LF, "AT+NREC">>, <<"OK">>)}]

MCConnections == {<<"TX", 1>>, <<"TX", 2>>}

\* FIPS-197's block and key, and messages of other lengths, of which one ends as
\* padding does.
FipsKey   == [i \in 1..16 |-> i - 1]
FipsBlock == [i \in 1..16 |-> 17 * (i - 1)]
FipsAnswer == <<105, 196, 224, 216, 106, 123, 4, 48, 216, 205, 183, 128, 112, 180, 197, 90>>
OtherKey  == [i \in 1..16 |-> (37 * i) % 256]
MCAesInputs ==
  {[key |-> FipsKey, message |-> FipsBlock, answer |-> FipsAnswer]} \cup
  {[key |-> OtherKey, message |-> [i \in 1..n |-> (91 * i) % 256]] : n \in {0, 5, 17}} \cup
  {[key |-> OtherKey, message |-> [i \in 1..16 |-> IF i = 16 THEN 1 ELSE 159]]}

\* A StartAuth, an AuthFin, and a payload in which what reads as one stands behind a marker.
MCAvFrames == {[id |-> 177, payload |-> <<0>>], [id |-> 179, payload |-> <<0>>],
               [id |-> 0, payload |-> <<159, 2, 177, 0>>]}

MCTargets  == <<"device", "TmApplicationServer">>
MCServices == {"TmApplicationServer"}

-----------------------------------------------------------------------------
Programs == {"readers", "acl", "aes", "av", "mirrorlink", "aoa"}

Init ==
  /\ program \in Programs
  /\ ReadersInit /\ AclInit /\ AesInit /\ AvInit /\ MlInit /\ AoaInit
  /\ program # "readers" => stream = "iap"
  /\ program # "aes" => input.message = FipsBlock

Next ==
  \/ /\ program = "readers" /\ ReadersNext
     /\ UNCHANGED <<program, aclVars, aesVars, avVars, mlVars, aoaVars>>
  \/ /\ program = "acl" /\ AclNext
     /\ UNCHANGED <<program, readerVars, aesVars, avVars, mlVars, aoaVars>>
  \/ /\ program = "aes" /\ AesNext
     /\ UNCHANGED <<program, readerVars, aclVars, avVars, mlVars, aoaVars>>
  \/ /\ program = "av" /\ AvNext
     /\ UNCHANGED <<program, readerVars, aclVars, aesVars, mlVars, aoaVars>>
  \/ /\ program = "mirrorlink" /\ MlNext
     /\ UNCHANGED <<program, readerVars, aclVars, aesVars, avVars, aoaVars>>
  \/ /\ program = "aoa" /\ AoaNext
     /\ UNCHANGED <<program, readerVars, aclVars, aesVars, avVars, mlVars>>

\* The thread of every HTTP connection replies and times out; the AOA gadget reads its
\* events and goes on with a switch.  Nothing is assumed of the head unit, the link or
\* the operator, nor of the other programs.
FairSpec ==
  /\ Init /\ [][Next]_allVars
  /\ \A c \in Conns : WF_mlVars(program = "mirrorlink" /\ (Replies(c) \/ TimesOut(c)))
  /\ WF_aoaVars(program = "aoa" /\ (ReadsEvents \/ Switches \/ SwitchFails))

\* Every variable of every program keeps its type.
TypeOK == ReadersTypeOK /\ AclTypeOK /\ AesTypeOK /\ AvTypeOK /\ MlTypeOK /\ AoaTypeOK
=============================================================================
