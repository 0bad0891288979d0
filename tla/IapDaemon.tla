----------------------------- MODULE IapDaemon -----------------------------
(***************************************************************************)
(* The iAP1 "iPod side" of src/pi/iap1/iap1_daemon.py: process_rx and the  *)
(* device-authentication state it keeps in a State object, driven over USB *)
(* (iap1_daemon.main: one State for the life of the process) or over       *)
(* RFCOMM (btsdp_iap.rfcomm_session: a fresh State per connection), with a *)
(* head unit that identifies itself, cancels, resets IDPS and answers what *)
(* it is asked, and a link that can go down between any two packets.       *)
(*                                                                         *)
(* One packet is one record [kind, arg]; framing is the subject of another *)
(* module.  The queries that are answered with one packet and touch no     *)
(* state (0x11, lingo versions, FID tokens, options, name, serial...) are  *)
(* one kind, "Query".  The certificate's bytes are the numbers of its      *)
(* sections, the challenge is its retry counter.                           *)
(***************************************************************************)
EXTENDS Naturals, Sequences, FiniteSets

CONSTANTS
  FreshState,     \* TRUE: a State per connection (RFCOMM); FALSE: per process (USB)
  InfoTypes,      \* ACC_INFO_REQUIRED_TYPES, in the order they are requested
  LastSection,    \* the head unit's certificate has sections 0..LastSection
  AuthVersions,   \* the authentication versions the head unit may answer with
  RetryMax,       \* largest retry counter that fits the byte it is sent in
  Initiations,    \* the packets the head unit sends of its own accord
  Silent,         \* TRUE: the head unit may leave a request unanswered
  MaxInitiations, \* bound: packets of its own accord
  MaxConnections  \* bound: enumerations or RFCOMM connections

Packet(kind, arg) == [kind |-> kind, arg |-> arg]

Dialogues    == {"StartIDPS", "Identify", "EndIDPS", "Query"}
Replies      == {"RetInfo", "RetInfo10", "RetAccInfo", "RetSignature"}
FromHeadUnit == [kind : Dialogues \cup Replies, arg : Nat]
ToHeadUnit   == [kind : {"Ack", "IDPSStatus", "GetInfo", "SectionAck", "CertAck",
                         "GetAccInfo", "GetSignature", "StatusAck"}, arg : Nat]

ASSUME FreshStateAssumption  == FreshState \in BOOLEAN
ASSUME InfoTypesAssumption   == InfoTypes \in Seq(Nat) /\ InfoTypes # <<>>
ASSUME HeadUnitAssumption    == /\ LastSection \in Nat
                                /\ AuthVersions \subseteq {1, 2}
                                /\ Silent \in BOOLEAN
                                /\ Initiations \subseteq [kind : Dialogues, arg : Nat]
ASSUME BoundsAssumption      == /\ RetryMax \in Nat
                                /\ MaxInitiations \in Nat
                                /\ MaxConnections \in Nat

VARIABLES
  \* The State object of iap1_daemon.py.
  rx_buf,                \* packets read from the link and not yet handled
  idps_done,
  cert_buf,
  auth_retry_counter,
  accessory_info_queue,
  auth_signature_due,
  \* The loop that drives it, and the link.
  loop,                  \* "reading" the link, or "handling" inside process_rx
  link,                  \* "up", "down", "deaf": nobody reads it, "dead": no process
  pipe,                  \* head unit to daemon, not yet read
  wire,                  \* daemon to head unit, not yet received
  \* The head unit, and the bounds.
  section,               \* the certificate section it sent last
  initiated,
  connections,
  \* History: what was sent since the State was created; whether a cancellation
  \* came after the last certificate ack; what happened on this connection.
  log,
  cancelled,
  conn

history == <<log, cancelled, conn>>

session == <<idps_done, cert_buf, auth_retry_counter, accessory_info_queue,
             auth_signature_due>>
vars == <<rx_buf, idps_done, cert_buf, auth_retry_counter, accessory_info_queue,
          auth_signature_due, loop, link, pipe, wire, section, initiated,
          connections, log, cancelled, conn>>

NewLog  == [infoReqs |-> 0, grants |-> 0, certAcks |-> 0, asked |-> 0,
            challenges |-> 0, accepted |-> 0]
NewConn == [identified |-> FALSE, asked |-> FALSE]

(***************************************************************************)
(* State.__init__                                                          *)
(***************************************************************************)
Init ==
  /\ rx_buf = <<>>
  /\ idps_done = FALSE
  /\ cert_buf = <<>>
  /\ auth_retry_counter = 0
  /\ accessory_info_queue = <<>>
  /\ auth_signature_due = FALSE
  /\ loop = "reading"
  /\ link = "down"
  /\ pipe = <<>>
  /\ wire = <<>>
  /\ section = 0
  /\ initiated = 0
  /\ connections = 0
  /\ log = NewLog
  /\ cancelled = FALSE
  /\ conn = NewConn

-----------------------------------------------------------------------------
(***************************************************************************)
(* The link.  When it goes down, what is in flight either way is lost.     *)
(***************************************************************************)
NewState ==
  /\ rx_buf' = <<>>
  /\ idps_done' = FALSE
  /\ cert_buf' = <<>>
  /\ auth_retry_counter' = 0
  /\ accessory_info_queue' = <<>>
  /\ auth_signature_due' = FALSE
  /\ log' = NewLog
  /\ cancelled' = FALSE

SameState == UNCHANGED <<rx_buf, session, log, cancelled>>

\* Mutant: rfcomm_session takes the State of the session before.
SharedState == SameState

StateOfConnection == IF FreshState THEN NewState ELSE SameState

Connect ==
  /\ link = "down"
  /\ loop = "reading"
  /\ connections < MaxConnections
  /\ link' = "up"
  /\ connections' = connections + 1
  /\ conn' = NewConn
  /\ StateOfConnection
  /\ UNCHANGED <<loop, pipe, wire, section, initiated>>

Disconnect ==
  /\ link \in {"up", "deaf"}
  /\ link' = "down"
  /\ pipe' = <<>>
  /\ wire' = <<>>
  /\ UNCHANGED <<rx_buf, session, loop, section, initiated, connections, history>>

(***************************************************************************)
(* The read loop: a chunk is any prefix of what the head unit has written. *)
(***************************************************************************)
ReadChunk ==
  /\ link = "up"
  /\ loop = "reading"
  /\ \E k \in 1..Len(pipe) :
       /\ rx_buf' = rx_buf \o SubSeq(pipe, 1, k)
       /\ pipe' = SubSeq(pipe, k + 1, Len(pipe))
  /\ loop' = "handling"
  /\ UNCHANGED <<session, link, wire, section, initiated, connections, history>>

-----------------------------------------------------------------------------
(***************************************************************************)
(* process_rx.  A handler takes its packet off rx_buf first; the n packets *)
(* it manages to send are a prefix of those it wants to send.  A failed    *)
(* os.write raises out of process_rx: the link is down, the rest of the    *)
(* handler is skipped and the packets behind it stay in rx_buf.            *)
(***************************************************************************)
Taking(kind) == loop = "handling" /\ rx_buf # <<>> /\ Head(rx_buf).kind = kind

\* Mutant: process_rx handles one packet per chunk.
LoopAfterOne == "reading"

LoopAfterPacket == IF Len(rx_buf) > 1 THEN "handling" ELSE "reading"

Sends(packets, n) ==
  /\ n = 0 \/ link = "up"
  /\ rx_buf' = Tail(rx_buf)
  /\ IF n = Len(packets)
       THEN /\ loop' = LoopAfterPacket
            /\ wire' = wire \o packets
            /\ UNCHANGED <<link, pipe>>
       ELSE /\ loop' = "reading"
            /\ link' = "down"
            /\ wire' = <<>>
            /\ pipe' = <<>>
  /\ UNCHANGED <<section, initiated, connections>>

Ack            == Packet("Ack", 0)
GetInfo        == Packet("GetInfo", 0)
GetAccInfo(t)  == Packet("GetAccInfo", t)

(***************************************************************************)
(* StartIDPS and the stateless queries: one reply each.                    *)
(***************************************************************************)
HandleQuery ==
  /\ Taking("StartIDPS") \/ Taking("Query")
  /\ \E n \in 0..1 : Sends(<<Ack>>, n)
  /\ UNCHANGED <<session, history>>

(***************************************************************************)
(* The tail of IdentifyDeviceLingoes (nonzero device ID) and of EndIDPS    *)
(* (status 0): reply, then ask for the certificate once.  idps_done is set *)
(* between the two writes, so a failed second write leaves it set.         *)
(***************************************************************************)
\* Mutant: the idps_done guard is missing.
AuthPacketsUnguarded(reply) == <<reply, GetInfo>>

AuthPackets(reply) == IF idps_done THEN <<reply>> ELSE <<reply, GetInfo>>

InitiateAuthentication(reply) ==
  LET packets == AuthPackets(reply)
  IN \E n \in 0..Len(packets) :
       /\ Sends(packets, n)
       /\ idps_done' = IF n > 0 THEN TRUE ELSE idps_done
       /\ log' = IF n = 2 THEN [log EXCEPT !.infoReqs = @ + 1] ELSE log
       /\ conn' = [identified |-> IF n = Len(packets) THEN TRUE ELSE conn.identified,
                   asked      |-> IF n = 2 THEN TRUE ELSE conn.asked]
       /\ UNCHANGED <<cert_buf, auth_retry_counter, accessory_info_queue,
                      auth_signature_due, cancelled>>

HandleIdentify ==
  /\ Taking("Identify")
  /\ Head(rx_buf).arg # 0
  /\ InitiateAuthentication(Ack)

(***************************************************************************)
(* accessory_info_queue is refilled and its first type popped at once.     *)
(***************************************************************************)
\* Mutant: the queue is extended, not replaced.
QueueExtended == accessory_info_queue \o Tail(InfoTypes)

QueueRefilled == Tail(InfoTypes)

(***************************************************************************)
(* IdentifyDeviceLingoes with device ID 0 cancels the authentication: ack, *)
(* refill the queue, request its first type.                               *)
(***************************************************************************)
HandleCancel ==
  /\ Taking("Identify")
  /\ Head(rx_buf).arg = 0
  /\ \E n \in 0..2 :
       /\ Sends(<<Ack, GetAccInfo(Head(InfoTypes))>>, n)
       /\ accessory_info_queue' = IF n = 0 THEN accessory_info_queue ELSE QueueRefilled
       /\ log' = IF n = 0 THEN log
                 ELSE [log EXCEPT !.asked = n - 1]
       /\ cancelled' = IF n = 0 THEN cancelled ELSE TRUE
  /\ UNCHANGED <<idps_done, cert_buf, auth_retry_counter, auth_signature_due, conn>>

(***************************************************************************)
(* EndIDPS: proceed (0), reset and retry (1), abandon (2).                 *)
(***************************************************************************)
HandleEndIDPSProceed ==
  /\ Taking("EndIDPS")
  /\ Head(rx_buf).arg = 0
  /\ InitiateAuthentication(Packet("IDPSStatus", 0))

HandleEndIDPSReset ==
  /\ Taking("EndIDPS")
  /\ Head(rx_buf).arg = 1
  /\ \E n \in 0..1 :
       /\ Sends(<<Packet("IDPSStatus", 4)>>, n)
       /\ IF n = 1
            THEN /\ idps_done' = FALSE
                 /\ cert_buf' = <<>>
                 /\ auth_retry_counter' = 0
                 /\ log' = [log EXCEPT !.grants = @ + 1]
            ELSE UNCHANGED <<idps_done, cert_buf, auth_retry_counter, log>>
  /\ UNCHANGED <<accessory_info_queue, auth_signature_due, cancelled, conn>>

HandleEndIDPSAbandon ==
  /\ Taking("EndIDPS")
  /\ Head(rx_buf).arg \notin {0, 1}
  /\ \E n \in 0..1 : Sends(<<Packet("IDPSStatus", 6)>>, n)
  /\ UNCHANGED <<session, history>>

(***************************************************************************)
(* RetDevAuthenticationInfo: a section that is not the last is buffered    *)
(* and acked plainly.                                                      *)
(***************************************************************************)
\* Mutant: a section replaces the one before it.
CertLatest == <<Head(rx_buf).arg>>

CertCollected == Append(cert_buf, Head(rx_buf).arg)

HandleCertSection ==
  /\ Taking("RetInfo")
  /\ Head(rx_buf).arg < LastSection
  /\ cert_buf' = CertCollected
  /\ \E n \in 0..1 : Sends(<<Packet("SectionAck", 0)>>, n)
  /\ UNCHANGED <<idps_done, auth_retry_counter, accessory_info_queue,
                 auth_signature_due, history>>

(***************************************************************************)
(* The last section, or an Authentication 1.0 answer: ack the certificate, *)
(* note that a signature is due and start the accessory-info exchange.     *)
(***************************************************************************)
HandleCertComplete ==
  /\ \/ Taking("RetInfo") /\ Head(rx_buf).arg >= LastSection
     \/ Taking("RetInfo10")
  /\ cert_buf' = IF Head(rx_buf).kind = "RetInfo"
                   THEN CertCollected ELSE cert_buf
  /\ \E n \in 0..2 :
       /\ Sends(<<Packet("CertAck", 0), GetAccInfo(Head(InfoTypes))>>, n)
       /\ IF n = 0
            THEN UNCHANGED <<accessory_info_queue, auth_signature_due, log, cancelled>>
            ELSE /\ accessory_info_queue' = QueueRefilled
                 /\ auth_signature_due' = TRUE
                 /\ log' = [log EXCEPT !.certAcks = @ + 1, !.asked = n - 1]
                 /\ cancelled' = FALSE
  /\ UNCHANGED <<idps_done, auth_retry_counter, conn>>

(***************************************************************************)
(* RetAccessoryInfo: request the next type, or, the queue being empty, the *)
(* signature that is due.  A retry counter above RetryMax does not fit its *)
(* byte: bytes() raises ValueError, which nothing catches.  It ends the    *)
(* USB process; over RFCOMM it ends the session's thread, which closes its *)
(* copy of the descriptor only, so the link stays up with no reader.       *)
(***************************************************************************)
RequestNextAccessoryInfo ==
  /\ accessory_info_queue # <<>>
  /\ accessory_info_queue' = Tail(accessory_info_queue)
  /\ \E n \in 0..1 :
       /\ Sends(<<GetAccInfo(Head(accessory_info_queue))>>, n)
       /\ log' = [log EXCEPT !.asked = @ + n]
  /\ UNCHANGED <<auth_retry_counter, auth_signature_due>>

\* Mutants: one or the other guard of the elif chain is missing.
ChallengeWhenDrained == accessory_info_queue = <<>>
ChallengeWhenDue     == auth_signature_due

ChallengeReady == accessory_info_queue = <<>> /\ auth_signature_due

RequestSignature ==
  /\ ChallengeReady
  /\ auth_signature_due' = FALSE
  /\ auth_retry_counter' = auth_retry_counter + 1
  /\ IF auth_retry_counter' <= RetryMax
       THEN \E n \in 0..1 :
              /\ Sends(<<Packet("GetSignature", auth_retry_counter')>>, n)
              /\ log' = [log EXCEPT !.challenges = @ + n]
       ELSE /\ link' = IF FreshState THEN "deaf" ELSE "dead"
            /\ loop' = "reading"
            /\ rx_buf' = Tail(rx_buf)
            /\ wire' = <<>>
            /\ pipe' = <<>>
            /\ UNCHANGED <<section, initiated, connections, log>>
  /\ UNCHANGED accessory_info_queue

HandleAccessoryInfo ==
  /\ Taking("RetAccInfo")
  /\ \/ RequestNextAccessoryInfo
     \/ RequestSignature
     \/ /\ accessory_info_queue = <<>>
        /\ ~auth_signature_due
        /\ Sends(<<>>, 0)
        /\ UNCHANGED <<auth_retry_counter, accessory_info_queue, auth_signature_due, log>>
  /\ UNCHANGED <<idps_done, cert_buf, cancelled, conn>>

(***************************************************************************)
(* RetDevAuthenticationSignature: accepted unconditionally.                *)
(***************************************************************************)
HandleSignature ==
  /\ Taking("RetSignature")
  /\ \E n \in 0..1 :
       /\ Sends(<<Packet("StatusAck", 0)>>, n)
       /\ log' = [log EXCEPT !.accepted = @ + n]
  /\ UNCHANGED <<session, cancelled, conn>>

ProcessRx ==
  \/ HandleQuery \/ HandleIdentify \/ HandleCancel
  \/ HandleEndIDPSProceed \/ HandleEndIDPSReset \/ HandleEndIDPSAbandon
  \/ HandleCertSection \/ HandleCertComplete
  \/ HandleAccessoryInfo \/ HandleSignature

-----------------------------------------------------------------------------
(***************************************************************************)
(* The head unit (external): it starts dialogues on its own, and answers   *)
(* each request once, in order.                                            *)
(***************************************************************************)
Initiate ==
  /\ link = "up"
  /\ initiated < MaxInitiations
  /\ \E p \in Initiations : pipe' = Append(pipe, p)
  /\ initiated' = initiated + 1
  /\ UNCHANGED <<rx_buf, session, loop, link, wire, section, connections, history>>

Answers(p) ==
  CASE p.kind = "GetInfo" ->
         {Packet("RetInfo", 0) : v \in AuthVersions \cap {2}}
           \cup {Packet("RetInfo10", 0) : v \in AuthVersions \cap {1}}
    [] p.kind = "SectionAck" ->
         IF section < LastSection THEN {Packet("RetInfo", section + 1)} ELSE {}
    [] p.kind = "GetAccInfo" -> {Packet("RetAccInfo", p.arg)}
    [] p.kind = "GetSignature" -> {Packet("RetSignature", 0)}
    [] OTHER -> {}

Receive ==
  /\ link = "up"
  /\ wire # <<>>
  /\ wire' = Tail(wire)
  /\ \/ \E a \in Answers(Head(wire)) :
          /\ pipe' = Append(pipe, a)
          /\ section' = IF a.kind = "RetInfo" THEN a.arg ELSE section
     \/ /\ Silent \/ Answers(Head(wire)) = {}
        /\ UNCHANGED <<pipe, section>>
  /\ UNCHANGED <<rx_buf, session, loop, link, initiated, connections, history>>

Next ==
  \/ Connect
  \/ Disconnect
  \/ ReadChunk
  \/ ProcessRx
  \/ Initiate
  \/ Receive

Spec == Init /\ [][Next]_vars

(***************************************************************************)
(* The daemon's loops never stop while the link is up; the head unit that  *)
(* FairSpec is about reads its input and, when ~Silent, answers it.        *)
(***************************************************************************)
FairSpec ==
  /\ Spec
  /\ WF_vars(ReadChunk)
  /\ WF_vars(ProcessRx)
  /\ WF_vars(Receive)

-----------------------------------------------------------------------------
(***************************************************************************)
(* Properties.                                                             *)
(***************************************************************************)

IsTail(queue) ==
  \E k \in 1..Len(InfoTypes) + 1 : queue = SubSeq(InfoTypes, k, Len(InfoTypes))

LinkTypeOK ==
  /\ rx_buf \in Seq(FromHeadUnit)
  /\ pipe \in Seq(FromHeadUnit)
  /\ wire \in Seq(ToHeadUnit)
  /\ loop \in {"reading", "handling"}
  /\ link \in {"up", "down", "deaf", "dead"}
  /\ section \in Nat
  /\ initiated \in 0..MaxInitiations
  /\ connections \in 0..MaxConnections

SessionTypeOK ==
  /\ idps_done \in BOOLEAN
  /\ cert_buf \in Seq(Nat)
  /\ auth_retry_counter \in Nat
  /\ IsTail(accessory_info_queue)
  /\ auth_signature_due \in BOOLEAN

HistoryTypeOK ==
  /\ log \in [infoReqs : Nat, grants : Nat, certAcks : Nat, asked : Nat,
              challenges : Nat, accepted : Nat]
  /\ cancelled \in BOOLEAN
  /\ conn \in [identified : BOOLEAN, asked : BOOLEAN]

\* Every variable stays within the values the code can give it; the request
\* queue is always a tail of ACC_INFO_REQUIRED_TYPES.
TypeOK == LinkTypeOK /\ SessionTypeOK /\ HistoryTypeOK

\* GetDevAuthenticationInfo is sent at most once, and once more for each IDPS
\* reset that was granted, however many identifications, cancellations and
\* reconnections come in between (idps_done).
AuthOncePerGrant == log.infoReqs <= log.grants + 1

\* Every signature challenge has an acked certificate of its own: none is sent
\* twice for one certificate, nor before one (auth_signature_due).
ChallengePerCertificate == log.challenges <= log.certAcks

\* A head unit that only answers what it is asked is challenged at most once
\* per GetDevAuthenticationInfo, whatever it cancels or resets meanwhile and
\* whatever was left over in rx_buf from a connection that failed.
ChallengesWithinRequests == log.challenges <= log.infoReqs

Count(packets, kinds) ==
  Cardinality({i \in DOMAIN packets : packets[i].kind \in kinds})

\* "A simple, one-track state machine that can't handle two outstanding request
\* threads from us at once": of the requests of this session and their answers,
\* at most one is in flight or unhandled at any time.
OneRequestAtATime ==
  Count(wire, {"GetInfo", "SectionAck", "GetAccInfo", "GetSignature"})
    + Count(pipe \o rx_buf, Replies) <= 1

\* When a certificate is acked, cert_buf holds the sections of one answer, each
\* once, in order and complete; an Authentication 1.0 answer leaves it empty.
CertificateWhole ==
  log.certAcks > 0 =>
    \/ cert_buf = [i \in 1..LastSection + 1 |-> i - 1]
    \/ cert_buf = <<>> /\ 1 \in AuthVersions

\* A connection on which the head unit asked to be authenticated has been asked
\* for its certificate: the handshake is fresh on every connection.
FreshHandshake == link = "up" /\ conn.identified => conn.asked

\* "This exchange is deliberately kept separate from the real auth flow": once
\* a cancellation has begun its accessory-info exchange, no signature challenge
\* is sent until another certificate has been acked.
CancelKeptSeparate ==
  [][log'.challenges > log.challenges => ~cancelled]_vars

\* A head unit that answers is authenticated on every connection on which it
\* identifies itself, unless the link goes down first.
Authenticates == conn.identified ~> (log.accepted > 0 \/ link # "up")

\* The daemon implements the order of authentication of Table 2-5 that
\* AuthOrder states, when the head unit neither cancels nor resets.
Order == INSTANCE AuthOrder WITH
  Types <- Len(InfoTypes),
  requested <- log.asked,
  stage <- IF log.accepted > 0 THEN "authenticated"
           ELSE IF log.challenges > 0 THEN "challenged"
           ELSE IF log.certAcks > 0 THEN "certified"
           ELSE IF log.infoReqs > 0 THEN "asked" ELSE "none"

ImplementsAuthOrder == Order!Spec

=============================================================================
