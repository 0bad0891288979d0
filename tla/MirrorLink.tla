------------------------------ MODULE MirrorLink ------------------------------
(***************************************************************************)
(* src/pi/mirrorlink-ncm/ssdp_announce.py: main starts the HTTP server and *)
(* the threads that answer searches and DAP connections, then announces    *)
(* the device until it is interrupted and takes its word back.             *)
(*                                                                         *)
(* Datagrams (external) may be lost, and a send may raise.  The head unit  *)
(* (external) searches, and talks HTTP to the location it has learned, on  *)
(* connections that it keeps open.                                         *)
(***************************************************************************)
EXTENDS Integers, SequencesExt

CONSTANTS
  Targets,       \* notify_targets: root device, device and service types
  Services,      \* the service types among them
  Conns,         \* HTTP connections
  MaxAnnounces   \* bound: rounds of NOTIFY ssdp:alive

\* The root device is always among the targets.
ASSUME TargetsAssumption == /\ Targets \in Seq(STRING) /\ Targets # <<>>
                            /\ Services \subseteq Range(Targets)
ASSUME AnnouncesAssumption == MaxAnnounces \in Nat

VARIABLES
  main,        \* the program: started so far, or "announce", "byebye", "gone"
  left,        \* targets still to be sent in this burst
  bursts,      \* rounds begun
  search,      \* the search thread: "off", "starting", "bound", "dead"
  answers,     \* what it still has to send
  dap,         \* the DAP thread: "off", "starting", "listening"
  known,       \* targets that the head unit holds to be present
  conn,        \* per connection: "closed", "idle", an answer pending, or "waiting"
  unsaid,      \* history: targets taken back
  late,        \* history: targets sent as an answer after that
  failed       \* history: a byebye was lost, or not sent

mlVars == <<main, left, bursts, search, answers, dap, known, conn, unsaid, late,
            failed>>
announcing == <<main, left, bursts>>
threads    == <<search, answers, dap>>
memory     == <<unsaid, late, failed>>

\* Mutant: the server is started last, that is, never: announce_loop does not return.
AnnounceFirst == <<"search", "dap", "announce", "http">>
StartOrder    == <<"http", "search", "dap", "announce">>

MlInit ==
  /\ main = StartOrder[1]
  /\ left = <<>> /\ bursts = 0
  /\ search = "off" /\ answers = <<>> /\ dap = "off"
  /\ known = {}
  /\ conn = [c \in Conns |-> "closed"]
  /\ unsaid = {} /\ late = {} /\ failed = FALSE

Running == main # "gone"
Started(part) ==
  Running /\ \/ main = "byebye"
             \/ \E i, j \in DOMAIN StartOrder :
                  StartOrder[i] = part /\ StartOrder[j] = main /\ i < j

\* All threads are daemons and end with main.
Exits ==
  /\ main' = "gone" /\ left' = <<>> /\ conn' = [c \in Conns |-> "closed"]
  /\ search' = "off" /\ answers' = <<>> /\ dap' = "off"

-----------------------------------------------------------------------------
(***************************************************************************)
(* main and announce_loop.                                                 *)
(***************************************************************************)
Starts ==
  /\ main \in {"http", "search", "dap"}
  /\ main' = StartOrder[1 + CHOOSE i \in DOMAIN StartOrder : StartOrder[i] = main]
  /\ search' = IF main = "search" THEN "starting" ELSE search
  /\ dap' = IF main = "dap" THEN "starting" ELSE dap
  /\ UNCHANGED <<left, bursts, answers, known, conn, memory>>

BeginsBurst ==
  /\ main = "announce" /\ left = <<>> /\ bursts < MaxAnnounces
  /\ left' = Targets /\ bursts' = bursts + 1
  /\ UNCHANGED <<main, threads, known, conn, memory>>

NotifiesAlive ==
  /\ main = "announce" /\ left # <<>>
  /\ left' = Tail(left)
  /\ known' \in {known, known \cup {Head(left)}}
  /\ UNCHANGED <<main, bursts, threads, conn, memory>>

\* Mutant: services are not taken back.
DeviceOnly    == SelectSeq(Targets, LAMBDA t : t \notin Services)
ByebyeTargets == Targets

\* The announcing ends by an interrupt or a send that raises: the device is taken back,
\* as far as the sends of that succeed and no second interrupt comes.
Ends ==
  IF main = "announce"
    THEN main' = "byebye" /\ left' = ByebyeTargets /\ UNCHANGED <<conn, threads, failed>>
    ELSE Exits /\ failed' = TRUE

Interrupted ==
  /\ Running
  /\ Ends
  /\ UNCHANGED <<bursts, known, unsaid, late>>

NotifiesByebye ==
  /\ main = "byebye" /\ left # <<>>
  /\ left' = Tail(left)
  /\ unsaid' = unsaid \cup {Head(left)}
  /\ \/ known' = known \ {Head(left)} /\ UNCHANGED failed
     \/ failed' = TRUE /\ UNCHANGED known
  /\ UNCHANGED <<main, bursts, threads, conn, late>>

Leaves ==
  /\ main = "byebye" /\ left = <<>>
  /\ Exits
  /\ UNCHANGED <<bursts, known, memory>>

SendRaises ==
  /\ main \in {"announce", "byebye"} /\ left # <<>>
  /\ Ends
  /\ UNCHANGED <<bursts, known, unsaid, late>>

-----------------------------------------------------------------------------
(***************************************************************************)
(* msearch_responder and dap_listener.                                     *)
(***************************************************************************)
SearchBinds ==
  /\ Running /\ search = "starting"
  /\ search' = "bound"
  /\ UNCHANGED <<announcing, answers, dap, known, conn, memory>>

\* ssdp:all is answered with every target and the root device again.
Matches(st) == IF st = "ssdp:all" THEN Append(Targets, Targets[1]) ELSE <<st>>

Searched ==
  /\ Running /\ search = "bound" /\ answers = <<>>
  /\ \E st \in Range(Targets) \cup {"ssdp:all"} : answers' = Matches(st)
  /\ UNCHANGED <<announcing, search, dap, known, conn, memory>>

AnswersSearch ==
  /\ Running /\ search = "bound" /\ answers # <<>>
  /\ answers' = Tail(answers)
  /\ known' \in {known, known \cup {Head(answers)}}
  /\ late' = IF Head(answers) \in unsaid THEN late \cup {Head(answers)} ELSE late
  /\ UNCHANGED <<announcing, search, dap, conn, unsaid, failed>>

\* An answer that raises ends the thread, and the process goes on without it.
AnswerRaises ==
  /\ Running /\ search = "bound" /\ answers # <<>>
  /\ search' = "dead" /\ answers' = <<>>
  /\ UNCHANGED <<announcing, dap, known, conn, memory>>

DapListens ==
  /\ Running /\ dap = "starting"
  /\ dap' = "listening"
  /\ UNCHANGED <<announcing, search, answers, known, conn, memory>>

-----------------------------------------------------------------------------
(***************************************************************************)
(* The HTTP server: a thread per connection.  A handler answers a request  *)
(* with a response that names its length ("whole") or with a 404 or a 412  *)
(* that does not ("endless"): on a kept connection the client waits for    *)
(* its end.                                                                *)
(***************************************************************************)
Paths == {<<"description">>, <<"eventSub">>, <<"unknown">>}
           \cup {"scpd", "control", "event"} \X Services
HttpRequests == [method : {"GET", "POST", "SUBSCRIBE", "UNSUBSCRIBE"}, path : Paths,
                 soapaction : BOOLEAN]      \* whether it names an action

\* Both are kept by service: the action lists and the service types.
ScpdPaths    == {"scpd"} \X Services
ControlPaths == {"control"} \X Services

do_GET(r) == IF r.path \in {<<"description">>} \cup ScpdPaths THEN "whole" ELSE "endless"
do_POST(r) ==
  IF r.path \in ControlPaths /\ r.soapaction THEN "whole" ELSE "endless"
do_SUBSCRIBE(r)   == IF r.path = <<"eventSub">> THEN "whole" ELSE "endless"
do_UNSUBSCRIBE(r) == "whole"

Response(r) ==
  CASE r.method = "GET" -> do_GET(r)
    [] r.method = "POST" -> do_POST(r)
    [] r.method = "SUBSCRIBE" -> do_SUBSCRIBE(r)
    [] r.method = "UNSUBSCRIBE" -> do_UNSUBSCRIBE(r)

\* Of a request, a connection holds how it will be answered.
Pending == {Response(r) : r \in HttpRequests}

Asks(c) ==
  /\ known # {} /\ Started("http") /\ conn[c] \in {"closed", "idle"}
  /\ \E answer \in Pending : conn' = [conn EXCEPT ![c] = answer]
  /\ UNCHANGED <<announcing, threads, known, memory>>

Replies(c) ==
  /\ Started("http") /\ conn[c] \in Pending
  /\ conn' = [conn EXCEPT ![c] = IF conn[c] = "whole" THEN "idle" ELSE "waiting"]
  /\ UNCHANGED <<announcing, threads, known, memory>>

\* The handler's timeout: no next request for 30 seconds.
\* Mutant: there is none.
WaitsForEver(c) == FALSE
TimedOut(c)     == conn[c] \in {"idle", "waiting"}

TimesOut(c) ==
  /\ Running /\ TimedOut(c)
  /\ conn' = [conn EXCEPT ![c] = "closed"]
  /\ UNCHANGED <<announcing, threads, known, memory>>

\* The client closes, before or while it is answered: that thread alone ends.
Disconnects(c) ==
  /\ Running /\ conn[c] # "closed"
  /\ conn' = [conn EXCEPT ![c] = "closed"]
  /\ UNCHANGED <<announcing, threads, known, memory>>

MlNext ==
  \/ Starts \/ BeginsBurst \/ NotifiesAlive \/ Interrupted \/ NotifiesByebye \/ Leaves
  \/ SendRaises \/ SearchBinds \/ Searched \/ AnswersSearch \/ AnswerRaises \/ DapListens
  \/ \E c \in Conns : Asks(c) \/ Replies(c) \/ TimesOut(c) \/ Disconnects(c)

MlSpec == MlInit /\ [][MlNext]_mlVars

-----------------------------------------------------------------------------
MlTypeOK ==
  /\ main \in Range(StartOrder) \cup {"byebye", "gone"}
  /\ bursts \in 0..MaxAnnounces /\ known \subseteq Range(Targets)
  /\ search \in {"off", "starting", "bound", "dead"}

\* What the head unit learns of, by NOTIFY or by an answer, it can fetch: the server
\* has been started before the first of them is sent.
KnownIsServed == Running /\ known # {} => Started("http")

\* However the announcing ended, when every byebye was sent and arrived, the head unit
\* holds nothing to be present but what a search was answered after it was taken back.
ByebyeCovers == main = "gone" /\ ~failed => known \subseteq late

\* "a client that opens a keep-alive connection and never sends a second request":
\* every request's answer ends, at the handler's timeout when it names no length.
AnswersEnd ==
  \A c \in Conns : conn[c] \in Pending ~> conn[c] \in {"idle", "closed"}
=============================================================================
