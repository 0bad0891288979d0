------------------------------ MODULE AvChannel ------------------------------
(***************************************************************************)
(* The AppMode channels of src/pi/iap1/btsdp_iap_guided.py, in one window: *)
(* the harness dials the head unit's two SPP channels once and drives the  *)
(* handshake on those the hypothesis names; the head unit may dial in as   *)
(* well.  On each connection a thread parses every chunk it receives by    *)
(* itself and answers a StartAuth once.                                    *)
(*                                                                         *)
(* The head unit (external) accepts or refuses, sends whole frames which   *)
(* arrive cut anywhere, and closes when it likes: a send then fails.       *)
(***************************************************************************)
EXTENDS DataParts

CONSTANTS
  AvTags,       \* the channels that are dialled
  AvInbound,    \* connections that the head unit may open
  AvFrames,     \* what the head unit may send: [id, payload]
  MaxAvFrames   \* bound: frames it sends

ASSUME AvAssumption ==
  /\ AvTags \cap AvInbound = {} /\ MaxAvFrames \in Nat
  /\ AvFrames \subseteq [id : 0..255, payload : Seq(0..255)]

AvSessions == AvTags \cup AvInbound

VARIABLES
  av_out_started,
  av,          \* per session: "off", "dialling", "connected", "started", "reading", "closed"
  driven,      \* the dialled sessions whose handshake is driven
  av_peer,     \* per session: has the head unit closed?
  av_wire,     \* per session: bytes sent by the head unit and not received
  av_tx,       \* per session: what was sent to it
  b2_sent,     \* per session
  av_count,    \* frames the head unit has sent
  av_owed,     \* history: sessions that were sent a whole StartAuth in one chunk
  av_asked,    \* history: sessions that were sent a StartAuth at all
  av_ends,     \* history: per session, the places of av_wire where a frame ends
  av_torn      \* history: sessions where a chunk ended inside a frame

avVars == <<av_out_started, av, driven, av_peer, av_wire, av_tx, b2_sent, av_count, av_owed,
            av_asked, av_ends, av_torn>>
avHistory == <<av_owed, av_asked, av_ends, av_torn>>

AvInit ==
  /\ av_out_started = FALSE /\ av_count = 0 /\ driven = {}
  /\ av = [s \in AvSessions |-> "off"]
  /\ av_peer = [s \in AvSessions |-> "open"]
  /\ av_wire = [s \in AvSessions |-> <<>>]
  /\ av_tx = [s \in AvSessions |-> <<>>]
  /\ b2_sent = [s \in AvSessions |-> FALSE]
  /\ av_owed = {} /\ av_asked = {} /\ av_torn = {}
  /\ av_ends = [s \in AvSessions |-> {}]

-----------------------------------------------------------------------------
\* connect_head_unit_av: one thread per channel, once.
Dials ==
  /\ ~av_out_started
  /\ av_out_started' = TRUE
  /\ av' = [s \in AvSessions |-> IF s \in AvTags THEN "dialling" ELSE av[s]]
  /\ UNCHANGED <<driven, av_peer, av_wire, av_tx, b2_sent, av_count, avHistory>>

\* The hypothesis of the moment says whether the handshake is driven on this channel
\* (av_spp_handshake and av_spp_channels).
Connects(s) ==
  /\ av[s] = "dialling"
  /\ \/ av' = [av EXCEPT ![s] = "connected"] /\ driven' = driven \cup {s}
     \/ av' = [av EXCEPT ![s] = "reading"] /\ UNCHANGED driven
  /\ UNCHANGED <<av_out_started, av_peer, av_wire, av_tx, b2_sent, av_count, avHistory>>

ConnectFails(s) ==
  /\ av[s] = "dialling"
  /\ av' = [av EXCEPT ![s] = "closed"]
  /\ UNCHANGED <<av_out_started, driven, av_peer, av_wire, av_tx, b2_sent, av_count, avHistory>>

\* _av_spp_send: a frame is sent, or the send fails.
Sent(s, frame) ==
  IF av_peer[s] = "open" THEN [av_tx EXCEPT ![s] = Append(@, frame)] ELSE av_tx

\* The handshake goes on whether or not its sends succeed.
SendsSessionStart(s) ==
  /\ av[s] = "connected"
  /\ av_tx' = Sent(s, "SessionStart")
  /\ av' = [av EXCEPT ![s] = "started"]
  /\ UNCHANGED <<av_out_started, driven, av_peer, av_wire, b2_sent, av_count, avHistory>>

SendsAuthRequest(s) ==
  /\ av[s] = "started"
  /\ av_tx' = Sent(s, "AuthRequest")
  /\ av' = [av EXCEPT ![s] = "reading"]
  /\ UNCHANGED <<av_out_started, driven, av_peer, av_wire, b2_sent, av_count, avHistory>>

\* data_channel_session: the head unit has dialled in.
HeadUnitDials(s) ==
  /\ s \in AvInbound /\ av[s] = "off"
  /\ av' = [av EXCEPT ![s] = "reading"]
  /\ UNCHANGED <<av_out_started, driven, av_peer, av_wire, av_tx, b2_sent, av_count, avHistory>>

-----------------------------------------------------------------------------
answer_b1(s) == s \in driven \cup AvInbound

\* Mutant: only the chunk's first frame is looked at.
StartAuthFirst(chunk) ==
  parse_frames(chunk) # <<>> /\ classify(parse_frames(chunk)[1]) = "StartAuth"
\* Mutant: any frame is taken for one.
FrameIn(chunk) == parse_frames(chunk) # <<>>
StartAuthIn(chunk) == \E k \in DOMAIN parse_frames(chunk) :
                        classify(parse_frames(chunk)[k]) = "StartAuth"

\* Mutant: a response that was sent is not remembered.
Forgets(s, answered) == FALSE
\* Mutant: a response is remembered whether or not its send succeeded.
RemembersAnyway(s, answered) == b2_sent[s] \/ answered
Remembers(s, answered) == b2_sent[s] \/ (answered /\ av_peer[s] = "open")

\* Does t lie in s behind the first `at' bytes?
Carries(s, at, t) == at + Len(t) <= Len(s) /\ \A i \in 1..Len(t) : s[at + i] = t[i]

\* Does a whole StartAuth lie in the chunk?  (Behind a marker, which would escape its
\* first byte, the same bytes are the payload of another frame.)
HoldsStartAuth(chunk) ==
  \E frame \in AvFrames, at \in 0..Len(chunk) :
    /\ classify(frame) = "StartAuth"
    /\ Carries(chunk, at, build_frame(frame.id, frame.payload))
    /\ at > 0 => chunk[at] # MARK

\* _av_spp_recv_loop, for a chunk of n bytes.
Receives(s, n) ==
  LET chunk    == SubSeq(av_wire[s], 1, n)
      answered == answer_b1(s) /\ ~b2_sent[s] /\ StartAuthIn(chunk)
  IN /\ av[s] = "reading" /\ n \in 1..Len(av_wire[s])
     /\ av_wire' = [av_wire EXCEPT ![s] = SubSeq(@, n + 1, Len(@))]
     /\ av_tx' = IF answered THEN Sent(s, "AuthResponse") ELSE av_tx
     /\ b2_sent' = [b2_sent EXCEPT ![s] = Remembers(s, answered)]
     /\ av_owed' = IF answer_b1(s) /\ av_peer[s] = "open"
                      /\ HoldsStartAuth(chunk)
                     THEN av_owed \cup {s} ELSE av_owed
     /\ av_torn' = IF n \in av_ends[s] THEN av_torn ELSE av_torn \cup {s}
     /\ av_ends' = [av_ends EXCEPT ![s] = {e - n : e \in {e \in @ : e > n}}]
     /\ UNCHANGED <<av_out_started, av, driven, av_peer, av_count, av_asked>>

ReceivesEnd(s) ==
  /\ av[s] = "reading" /\ av_wire[s] = <<>> /\ av_peer[s] = "closed"
  /\ av' = [av EXCEPT ![s] = "closed"]
  /\ UNCHANGED <<av_out_started, driven, av_peer, av_wire, av_tx, b2_sent, av_count, avHistory>>

-----------------------------------------------------------------------------
HeadUnitSendsFrame(s) ==
  /\ av[s] \in {"connected", "started", "reading"} /\ av_peer[s] = "open"
  /\ av_count < MaxAvFrames
  /\ av_count' = av_count + 1
  /\ \E frame \in AvFrames :
       /\ av_wire' = [av_wire EXCEPT ![s] = @ \o build_frame(frame.id, frame.payload)]
       /\ av_ends' = [av_ends EXCEPT ![s] = @ \cup {Len(av_wire'[s])}]
       /\ av_asked' = IF classify(frame) = "StartAuth" THEN av_asked \cup {s} ELSE av_asked
  /\ UNCHANGED <<av_out_started, av, driven, av_peer, av_tx, b2_sent, av_owed, av_torn>>

HeadUnitCloses(s) ==
  /\ av[s] \in {"connected", "started", "reading"} /\ av_peer[s] = "open"
  /\ av_peer' = [av_peer EXCEPT ![s] = "closed"]
  /\ UNCHANGED <<av_out_started, av, driven, av_wire, av_tx, b2_sent, av_count, avHistory>>

AvNext ==
  \/ Dials
  \/ \E s \in AvSessions :
       \/ Connects(s) \/ ConnectFails(s) \/ SendsSessionStart(s) \/ SendsAuthRequest(s)
       \/ HeadUnitDials(s) \/ ReceivesEnd(s) \/ HeadUnitSendsFrame(s) \/ HeadUnitCloses(s)
       \/ \E n \in 1..Len(av_wire[s]) : Receives(s, n)

AvSpec == AvInit /\ [][AvNext]_avVars

-----------------------------------------------------------------------------
AvTypeOK ==
  /\ av_count \in 0..MaxAvFrames
  /\ \A s \in AvSessions : b2_sent[s] => "AuthResponse" \in Range(av_tx[s])

\* The handshake's order.
Turn == [SessionStart |-> 1, AuthRequest |-> 2, AuthResponse |-> 3]

\* On every connection the frames come in the handshake's order and each at most once,
\* however many StartAuths arrive and whichever sends fail.
AvOrder ==
  \A s \in AvSessions :
    \A i, j \in DOMAIN av_tx[s] : i < j => Turn[av_tx[s][i]] < Turn[av_tx[s][j]]

\* A response answers a StartAuth that was sent, unless a chunk ended inside a frame,
\* when the rest, which is parsed by itself, can read as one.
ResponseIsAsked ==
  \A s \in AvSessions : "AuthResponse" \in Range(av_tx[s]) => s \in av_asked \cup av_torn

\* A StartAuth that arrives whole in a chunk, whatever pieces of frames stand around
\* it, is answered (one that is cut is not: chunks are parsed by themselves).
WholeStartAuthAnswered ==
  \A s \in av_owed : "AuthResponse" \in Range(av_tx[s])
=============================================================================
