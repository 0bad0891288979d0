-------------------------- MODULE IapDaemonProofs --------------------------
(***************************************************************************)
(* Invariants of IapDaemon, proved for every value of its constants: any   *)
(* list of accessory-info types, any number of sections, initiations and   *)
(* connections, either bearer, a silent head unit or not.                  *)
(***************************************************************************)
EXTENDS IapDaemon, FiniteSetTheorems, SequenceTheorems, TLAPS

-----------------------------------------------------------------------------
(***************************************************************************)
(* The request queue is a tail of ACC_INFO_REQUIRED_TYPES when it is empty *)
(* and when it has just been refilled and its first type requested, and    *)
(* stays one when its head is taken.                                       *)
(***************************************************************************)
LEMMA EmptyIsTail == IsTail(<<>>)
<1>1. SubSeq(InfoTypes, Len(InfoTypes) + 1, Len(InfoTypes)) = <<>>
  BY InfoTypesAssumption
<1>2. Len(InfoTypes) + 1 \in 1..Len(InfoTypes) + 1
  BY InfoTypesAssumption
<1>3. QED BY <1>1, <1>2 DEF IsTail

LEMMA RefillIsTail == IsTail(QueueRefilled) /\ Head(InfoTypes) \in Nat
<1>1. QueueRefilled = SubSeq(InfoTypes, 2, Len(InfoTypes))
  BY InfoTypesAssumption DEF QueueRefilled
<1>2. 2 \in 1..Len(InfoTypes) + 1
  BY InfoTypesAssumption
<1>3. Head(InfoTypes) \in Nat
  BY InfoTypesAssumption
<1>4. QED BY <1>1, <1>2, <1>3 DEF IsTail

LEMMA TailIsTail ==
  ASSUME NEW q, IsTail(q), q # <<>>
  PROVE  IsTail(Tail(q)) /\ Head(q) \in Nat
<1>1. PICK k \in 1..Len(InfoTypes) + 1 : q = SubSeq(InfoTypes, k, Len(InfoTypes))
  BY DEF IsTail
<1>2. k + 1 \in 1..Len(InfoTypes) + 1
  BY <1>1, InfoTypesAssumption
<1>3. Tail(q) = SubSeq(InfoTypes, k + 1, Len(InfoTypes))
  BY <1>1, <1>2, InfoTypesAssumption
<1>4. Head(q) \in Nat
  BY <1>1, <1>2, InfoTypesAssumption
<1>5. IsTail(Tail(q))
  BY <1>2, <1>3 DEF IsTail
<1>6. QED BY <1>4, <1>5

-----------------------------------------------------------------------------
(***************************************************************************)
(* The packets the handlers send are packets the head unit can receive.    *)
(***************************************************************************)
LEMMA ToHeadUnitPackets ==
  /\ Ack \in ToHeadUnit
  /\ GetInfo \in ToHeadUnit
  /\ Packet("SectionAck", 0) \in ToHeadUnit
  /\ Packet("CertAck", 0) \in ToHeadUnit
  /\ Packet("StatusAck", 0) \in ToHeadUnit
  /\ \A a \in Nat : /\ Packet("IDPSStatus", a) \in ToHeadUnit
                    /\ Packet("GetSignature", a) \in ToHeadUnit
                    /\ GetAccInfo(a) \in ToHeadUnit
BY DEF Ack, GetInfo, GetAccInfo, Packet, ToHeadUnit

LEMMA OneOrTwo ==
  ASSUME NEW S, NEW p \in S, NEW q \in S
  PROVE  <<p>> \in Seq(S) /\ <<p, q>> \in Seq(S)
OBVIOUS

LEMMA EmptySequence == \A S : <<>> \in Seq(S)
OBVIOUS

(***************************************************************************)
(* What one handler's writes do to the loop and the link: all the packets  *)
(* are sent, or one of them fails and takes the link down.                 *)
(***************************************************************************)
LEMMA SendsEffect ==
  ASSUME NEW packets, NEW n, Sends(packets, n)
  PROVE  /\ rx_buf' = Tail(rx_buf)
         /\ loop' = "reading" \/ loop' = "handling"
         /\ \/ wire' = wire \o packets /\ pipe' = pipe /\ link' = link
            \/ wire' = <<>> /\ pipe' = <<>> /\ link' = "down"
         /\ section' = section
         /\ initiated' = initiated
         /\ connections' = connections
BY DEF Sends, LoopAfterPacket

LEMMA SendsType ==
  ASSUME LinkTypeOK, rx_buf # <<>>,
         NEW packets \in Seq(ToHeadUnit), NEW n, Sends(packets, n)
  PROVE  LinkTypeOK'
<1>1. rx_buf' \in Seq(FromHeadUnit)
  <2>1. rx_buf \in Seq(FromHeadUnit) /\ rx_buf' = Tail(rx_buf)
    BY SendsEffect DEF LinkTypeOK
  <2>2. QED BY <2>1
<1>2. wire' \in Seq(ToHeadUnit)
  <2>1. wire \in Seq(ToHeadUnit) /\ (wire' = wire \o packets \/ wire' = <<>>)
    BY SendsEffect DEF LinkTypeOK
  <2>2. wire \o packets \in Seq(ToHeadUnit)
    BY <2>1
  <2>3. QED BY <2>1, <2>2, EmptySequence
<1>3. pipe' \in Seq(FromHeadUnit)
  <2>1. pipe \in Seq(FromHeadUnit) /\ (pipe' = pipe \/ pipe' = <<>>)
    BY SendsEffect DEF LinkTypeOK
  <2>2. QED BY <2>1, EmptySequence
<1>4. QED BY <1>1, <1>2, <1>3, SendsEffect DEF LinkTypeOK

-----------------------------------------------------------------------------
(***************************************************************************)
(* Type correctness.                                                       *)
(***************************************************************************)
Log == [infoReqs : Nat, grants : Nat, certAcks : Nat, asked : Nat,
        challenges : Nat, accepted : Nat]

LEMMA NewTypes == NewLog \in Log /\ NewConn \in [identified : BOOLEAN, asked : BOOLEAN]
<1>1. NewLog \in Log
  BY DEF NewLog, Log
<1>2. NewConn \in [identified : BOOLEAN, asked : BOOLEAN]
  BY DEF NewConn
<1>3. QED BY <1>1, <1>2

LEMMA CertAckLog ==
  ASSUME NEW l \in Log, NEW m \in Nat
  PROVE  [l EXCEPT !.certAcks = @ + 1, !.asked = m] \in Log
<1>1. [l EXCEPT !.certAcks = @ + 1] \in Log
  BY DEF Log
<1>2. PICK k \in Log : k = [l EXCEPT !.certAcks = @ + 1]
  BY <1>1
<1>3. [k EXCEPT !.asked = m] \in Log
  BY DEF Log
<1>4. [l EXCEPT !.certAcks = @ + 1, !.asked = m] = [[l EXCEPT !.certAcks = @ + 1] EXCEPT !.asked = m]
  OBVIOUS
<1>5. QED BY <1>2, <1>3, <1>4

LEMMA InitType == Init => TypeOK
<1>1. ASSUME Init PROVE LinkTypeOK
  <2>1. initiated \in 0..MaxInitiations /\ connections \in 0..MaxConnections
    BY <1>1, BoundsAssumption DEF Init
  <2>2. QED BY <1>1, <2>1, EmptySequence DEF Init, LinkTypeOK
<1>2. ASSUME Init PROVE SessionTypeOK
  <2>1. cert_buf \in Seq(Nat) /\ auth_retry_counter \in Nat
    BY <1>2, EmptySequence DEF Init
  <2>2. IsTail(accessory_info_queue)
    BY <1>2, EmptyIsTail DEF Init
  <2>3. idps_done \in BOOLEAN /\ auth_signature_due \in BOOLEAN
    BY <1>2 DEF Init
  <2>4. QED BY <2>1, <2>2, <2>3 DEF SessionTypeOK
<1>3. ASSUME Init PROVE HistoryTypeOK
  <2>1. log = NewLog /\ conn = NewConn /\ cancelled \in BOOLEAN
    BY <1>3 DEF Init
  <2>2. QED BY <2>1, NewTypes DEF HistoryTypeOK, Log
<1>4. QED BY <1>1, <1>2, <1>3 DEF TypeOK

LEMMA LinkStep == LinkTypeOK /\ SessionTypeOK /\ [Next]_vars => LinkTypeOK'
<1> SUFFICES ASSUME LinkTypeOK, SessionTypeOK, [Next]_vars PROVE LinkTypeOK'
  OBVIOUS
<1> DEFINE Sent(packets) == \E n \in Nat : rx_buf # <<>> /\ Sends(packets, n)
<1>0. ASSUME NEW packets \in Seq(ToHeadUnit), Sent(packets)
      PROVE  LinkTypeOK'
  BY <1>0, SendsType
<1> HIDE DEF Sent
<1>1. CASE Connect
  <2>1. connections' \in 0..MaxConnections
    BY <1>1, BoundsAssumption DEF Connect, StateOfConnection, NewState, SameState, LinkTypeOK
  <2>2. QED BY <1>1, <2>1, EmptySequence DEF Connect, StateOfConnection, NewState, SameState, LinkTypeOK
<1>2. CASE Disconnect
  BY <1>2, EmptySequence DEF Disconnect, LinkTypeOK
<1>3. CASE ReadChunk
  <2>1. PICK k \in 1..Len(pipe) : /\ rx_buf' = rx_buf \o SubSeq(pipe, 1, k)
                                  /\ pipe' = SubSeq(pipe, k + 1, Len(pipe))
    BY <1>3 DEF ReadChunk
  <2>2. rx_buf \in Seq(FromHeadUnit) /\ pipe \in Seq(FromHeadUnit)
    BY DEF LinkTypeOK
  <2>3. rx_buf' \in Seq(FromHeadUnit) /\ pipe' \in Seq(FromHeadUnit)
    BY <2>1, <2>2
  <2>4. QED BY <1>3, <2>3 DEF ReadChunk, LinkTypeOK
<1>4. CASE HandleQuery
  <2>1. Sent(<<Ack>>)
    BY <1>4 DEF HandleQuery, Taking, Sent
  <2>2. QED BY <2>1, <1>0, OneOrTwo, ToHeadUnitPackets
<1>5. ASSUME NEW reply \in ToHeadUnit, rx_buf # <<>>, InitiateAuthentication(reply)
      PROVE  LinkTypeOK'
  <2>1. Sent(<<reply>>) \/ Sent(<<reply, GetInfo>>)
    BY <1>5 DEF InitiateAuthentication, AuthPackets, Sent
  <2>2. QED BY <2>1, <1>0, OneOrTwo, ToHeadUnitPackets
<1>6. CASE HandleIdentify
  BY <1>5, <1>6, ToHeadUnitPackets DEF HandleIdentify, Taking
<1>7. CASE HandleCancel
  <2>1. Sent(<<Ack, GetAccInfo(Head(InfoTypes))>>)
    BY <1>7 DEF HandleCancel, Taking, Sent
  <2>2. QED BY <2>1, <1>0, OneOrTwo, ToHeadUnitPackets, RefillIsTail
<1>8. CASE HandleEndIDPSProceed
  BY <1>5, <1>8, ToHeadUnitPackets DEF HandleEndIDPSProceed, Taking
<1>9. CASE HandleEndIDPSReset
  <2>1. Sent(<<Packet("IDPSStatus", 4)>>)
    BY <1>9 DEF HandleEndIDPSReset, Taking, Sent
  <2>2. QED BY <2>1, <1>0, OneOrTwo, ToHeadUnitPackets
<1>10. CASE HandleEndIDPSAbandon
  <2>1. Sent(<<Packet("IDPSStatus", 6)>>)
    BY <1>10 DEF HandleEndIDPSAbandon, Taking, Sent
  <2>2. QED BY <2>1, <1>0, OneOrTwo, ToHeadUnitPackets
<1>11. CASE HandleCertSection
  <2>1. Sent(<<Packet("SectionAck", 0)>>)
    BY <1>11 DEF HandleCertSection, Taking, Sent
  <2>2. QED BY <2>1, <1>0, OneOrTwo, ToHeadUnitPackets
<1>12. CASE HandleCertComplete
  <2>1. Sent(<<Packet("CertAck", 0), GetAccInfo(Head(InfoTypes))>>)
    BY <1>12 DEF HandleCertComplete, Taking, Sent
  <2>2. QED BY <2>1, <1>0, OneOrTwo, ToHeadUnitPackets, RefillIsTail
<1>13. CASE HandleAccessoryInfo
  <2>1. CASE RequestNextAccessoryInfo
    <3>1. Sent(<<GetAccInfo(Head(accessory_info_queue))>>)
      BY <1>13, <2>1 DEF HandleAccessoryInfo, RequestNextAccessoryInfo, Taking, Sent
    <3>2. Head(accessory_info_queue) \in Nat
      BY <2>1, TailIsTail DEF RequestNextAccessoryInfo, SessionTypeOK
    <3>3. QED BY <3>1, <3>2, <1>0, OneOrTwo, ToHeadUnitPackets
  <2>2. CASE RequestSignature
    <3>1. auth_retry_counter' \in Nat
      BY <2>2 DEF RequestSignature, ChallengeReady, SessionTypeOK
    <3>2. CASE auth_retry_counter' <= RetryMax
      <4>1. Sent(<<Packet("GetSignature", auth_retry_counter')>>)
        BY <1>13, <2>2, <3>2 DEF HandleAccessoryInfo, RequestSignature, ChallengeReady, Taking, Sent
      <4>2. QED BY <4>1, <3>1, <1>0, OneOrTwo, ToHeadUnitPackets
    <3>3. CASE ~(auth_retry_counter' <= RetryMax)
      <4>1. rx_buf \in Seq(FromHeadUnit) /\ rx_buf # <<>> /\ rx_buf' = Tail(rx_buf)
        BY <1>13, <2>2, <3>3
        DEF HandleAccessoryInfo, RequestSignature, ChallengeReady, Taking, LinkTypeOK
      <4>2. rx_buf' \in Seq(FromHeadUnit)
        BY <4>1
      <4>3. QED BY <2>2, <3>3, <4>2, EmptySequence DEF RequestSignature, ChallengeReady, LinkTypeOK
    <3>4. QED BY <3>2, <3>3
  <2>3. CASE Sends(<<>>, 0)
    <3>1. Sent(<<>>)
      BY <1>13, <2>3 DEF HandleAccessoryInfo, Taking, Sent
    <3>2. QED BY <3>1, <1>0, EmptySequence
  <2>4. QED BY <1>13, <2>1, <2>2, <2>3 DEF HandleAccessoryInfo
<1>14. CASE HandleSignature
  <2>1. Sent(<<Packet("StatusAck", 0)>>)
    BY <1>14 DEF HandleSignature, Taking, Sent
  <2>2. QED BY <2>1, <1>0, OneOrTwo, ToHeadUnitPackets
<1>15. CASE Initiate
  <2>1. PICK p \in Initiations : pipe' = Append(pipe, p)
    BY <1>15 DEF Initiate
  <2>2. p \in FromHeadUnit
    BY HeadUnitAssumption DEF FromHeadUnit
  <2>3. pipe \in Seq(FromHeadUnit)
    BY DEF LinkTypeOK
  <2>4. pipe' \in Seq(FromHeadUnit)
    BY <2>1, <2>2, <2>3
  <2>5. initiated' \in 0..MaxInitiations
    BY <1>15, BoundsAssumption DEF Initiate, LinkTypeOK
  <2>6. QED BY <1>15, <2>4, <2>5 DEF Initiate, LinkTypeOK
<1>16. CASE Receive
  <2>1. wire \in Seq(ToHeadUnit) /\ wire # <<>> /\ wire' = Tail(wire)
    BY <1>16 DEF Receive, LinkTypeOK
  <2>2. wire' \in Seq(ToHeadUnit) /\ Head(wire) \in ToHeadUnit
    BY <2>1
  <2>3. \A a \in Answers(Head(wire)) : a \in FromHeadUnit
    <3>1. Head(wire).arg \in Nat
      BY <2>2 DEF ToHeadUnit
    <3>2. section \in Nat
      BY DEF LinkTypeOK
    <3>3. QED BY <3>1, <3>2 DEF Answers, Packet, FromHeadUnit, Replies
  <2>4. /\ pipe' = pipe \/ \E a \in FromHeadUnit : pipe' = Append(pipe, a)
        /\ section' \in Nat
    BY <1>16, <2>3 DEF Receive, LinkTypeOK, FromHeadUnit
  <2>5. pipe' \in Seq(FromHeadUnit)
    <3>1. pipe \in Seq(FromHeadUnit)
      BY DEF LinkTypeOK
    <3>2. QED BY <2>4, <3>1
  <2>6. QED BY <1>16, <2>2, <2>4, <2>5 DEF Receive, LinkTypeOK
<1>17. CASE UNCHANGED vars
  BY <1>17 DEF vars, LinkTypeOK
<1>18. QED
  BY <1>1, <1>2, <1>3, <1>4, <1>6, <1>7, <1>8, <1>9, <1>10, <1>11, <1>12, <1>13,
     <1>14, <1>15, <1>16, <1>17 DEF Next, ProcessRx

LEMMA SessionStep == LinkTypeOK /\ SessionTypeOK /\ [Next]_vars => SessionTypeOK'
<1> SUFFICES ASSUME LinkTypeOK, SessionTypeOK, [Next]_vars PROVE SessionTypeOK'
  OBVIOUS
<1>1. CASE Connect
  <2>1. CASE FreshState
    <3>1. cert_buf' \in Seq(Nat) /\ auth_retry_counter' \in Nat
      BY <1>1, <2>1, EmptySequence DEF Connect, StateOfConnection, NewState, SameState
    <3>2. IsTail(accessory_info_queue)'
      BY <1>1, <2>1, EmptyIsTail DEF Connect, StateOfConnection, NewState, SameState, IsTail
    <3>3. idps_done' \in BOOLEAN /\ auth_signature_due' \in BOOLEAN
      BY <1>1, <2>1 DEF Connect, StateOfConnection, NewState, SameState
    <3>4. QED BY <3>1, <3>2, <3>3 DEF SessionTypeOK
  <2>2. CASE ~FreshState
    BY <1>1, <2>2 DEF Connect, StateOfConnection, NewState, SameState, SessionTypeOK, session, IsTail
  <2>3. QED BY <2>1, <2>2
<1>2. CASE UNCHANGED session
  BY <1>2 DEF SessionTypeOK, session
<1>3. ASSUME NEW reply, InitiateAuthentication(reply) PROVE SessionTypeOK'
  BY <1>3 DEF InitiateAuthentication, AuthPackets, SessionTypeOK
<1>4. CASE HandleCancel
  BY <1>4, RefillIsTail DEF HandleCancel, SessionTypeOK
<1>5. CASE HandleEndIDPSReset
  <2>1. cert_buf' \in Seq(Nat) /\ auth_retry_counter' \in Nat
    <3>1. cert_buf' = <<>> \/ cert_buf' = cert_buf
      BY <1>5 DEF HandleEndIDPSReset
    <3>2. auth_retry_counter' \in Nat
      BY <1>5 DEF HandleEndIDPSReset, SessionTypeOK
    <3>3. cert_buf \in Seq(Nat)
      BY DEF SessionTypeOK
    <3>4. cert_buf' \in Seq(Nat)
      BY <3>1, <3>3, EmptySequence
    <3>5. QED BY <3>2, <3>4
  <2>2. idps_done' \in BOOLEAN
    BY <1>5 DEF HandleEndIDPSReset, SessionTypeOK
  <2>3. QED BY <1>5, <2>1, <2>2 DEF HandleEndIDPSReset, SessionTypeOK, IsTail
<1>6. ASSUME Taking("RetInfo") \/ Taking("RetInfo10"), rx_buf # <<>>
      PROVE  CertCollected \in Seq(Nat)
  <2>1. rx_buf \in Seq(FromHeadUnit) /\ rx_buf # <<>>
    BY <1>6 DEF LinkTypeOK
  <2>2. Head(rx_buf) \in FromHeadUnit
    BY <2>1
  <2>3. Head(rx_buf).arg \in Nat
    BY <2>2 DEF FromHeadUnit
  <2>4. QED BY <2>3 DEF SessionTypeOK, CertCollected
<1>7. CASE HandleCertSection
  <2>1. cert_buf' \in Seq(Nat)
    BY <1>6, <1>7 DEF HandleCertSection, Taking
  <2>2. QED BY <1>7, <2>1 DEF HandleCertSection, SessionTypeOK
<1>8. CASE HandleCertComplete
  <2>1. cert_buf' \in Seq(Nat)
    BY <1>6, <1>8 DEF HandleCertComplete, Taking, SessionTypeOK
  <2>2. QED BY <1>8, <2>1, RefillIsTail DEF HandleCertComplete, SessionTypeOK
<1>9. CASE HandleAccessoryInfo
  <2>1. CASE RequestNextAccessoryInfo
    BY <1>9, <2>1, TailIsTail
    DEF HandleAccessoryInfo, RequestNextAccessoryInfo, SessionTypeOK
  <2>2. CASE RequestSignature
    <3>1. auth_retry_counter' \in Nat
      BY <2>2 DEF RequestSignature, ChallengeReady, SessionTypeOK
    <3>2. auth_signature_due' \in BOOLEAN
      BY <2>2 DEF RequestSignature, ChallengeReady
    <3>3. UNCHANGED <<idps_done, cert_buf, accessory_info_queue>>
      BY <1>9, <2>2 DEF HandleAccessoryInfo, RequestSignature
    <3>4. QED BY <3>1, <3>2, <3>3 DEF SessionTypeOK, IsTail
  <2>3. CASE UNCHANGED <<auth_retry_counter, accessory_info_queue, auth_signature_due>>
    BY <1>9, <2>3 DEF HandleAccessoryInfo, SessionTypeOK
  <2>4. QED BY <1>9, <2>1, <2>2, <2>3 DEF HandleAccessoryInfo
<1>10. CASE HandleIdentify \/ HandleEndIDPSProceed
  BY <1>3, <1>10 DEF HandleIdentify, HandleEndIDPSProceed
<1>11. QED
  BY <1>1, <1>2, <1>4, <1>5, <1>7, <1>8, <1>9, <1>10
  DEF Next, ProcessRx, vars, session, Disconnect, ReadChunk, HandleQuery,
      HandleEndIDPSAbandon, HandleSignature, Initiate, Receive

LEMMA HistoryStep == HistoryTypeOK /\ [Next]_vars => HistoryTypeOK'
<1> SUFFICES ASSUME HistoryTypeOK, [Next]_vars PROVE HistoryTypeOK'
  OBVIOUS
<1>0. ASSUME log' \in Log, cancelled' \in BOOLEAN,
             conn' \in [identified : BOOLEAN, asked : BOOLEAN]
      PROVE  HistoryTypeOK'
  BY <1>0 DEF HistoryTypeOK, Log
<1>a. /\ log \in Log
      /\ cancelled \in BOOLEAN
      /\ conn \in [identified : BOOLEAN, asked : BOOLEAN]
      /\ conn.identified \in BOOLEAN
      /\ conn.asked \in BOOLEAN
  BY DEF HistoryTypeOK, Log
<1>1. CASE Connect
  <2>1. log' \in Log
    BY <1>a, <1>1, NewTypes DEF Connect, StateOfConnection, NewState, SameState
  <2>2. cancelled' \in BOOLEAN
    BY <1>a, <1>1 DEF Connect, StateOfConnection, NewState, SameState
  <2>3. conn' \in [identified : BOOLEAN, asked : BOOLEAN]
    BY <1>1, NewTypes DEF Connect, StateOfConnection, NewState, SameState
  <2>4. QED BY <1>0, <2>1, <2>2, <2>3
<1>2. CASE UNCHANGED history
  BY <1>2 DEF HistoryTypeOK, history
<1>3. ASSUME NEW reply, InitiateAuthentication(reply) PROVE HistoryTypeOK'
  <2>1. log' \in Log
    BY <1>a, <1>3 DEF InitiateAuthentication, AuthPackets, Log
  <2>2. PICK i \in BOOLEAN, a \in BOOLEAN : conn' = [identified |-> i, asked |-> a]
    BY <1>a, <1>3 DEF InitiateAuthentication, AuthPackets
  <2>3. conn' \in [identified : BOOLEAN, asked : BOOLEAN]
    BY <2>2
  <2>4. cancelled' \in BOOLEAN
    BY <1>a, <1>3 DEF InitiateAuthentication, AuthPackets
  <2>5. QED BY <1>0, <2>1, <2>3, <2>4
<1>4. CASE HandleCancel
  <2>1. log' \in Log
    BY <1>a, <1>4 DEF HandleCancel, Log
  <2>2. cancelled' \in BOOLEAN
    BY <1>a, <1>4 DEF HandleCancel
  <2>3. QED BY <1>0, <1>a, <1>4, <2>1, <2>2 DEF HandleCancel
<1>5. CASE HandleEndIDPSReset
  <2>1. log' \in Log
    <3>1. log' = log \/ log' = [log EXCEPT !.grants = @ + 1]
      BY <1>5, Zenon DEF HandleEndIDPSReset
    <3>2. QED BY <1>a, <3>1 DEF Log
  <2>2. QED BY <1>0, <1>a, <1>5, <2>1 DEF HandleEndIDPSReset
<1>6. CASE HandleCertComplete
  <2>1. log' \in Log
    <3>1. PICK n \in 0..2 :
            IF n = 0 THEN UNCHANGED log
            ELSE log' = [log EXCEPT !.certAcks = @ + 1, !.asked = n - 1]
      BY <1>6, Zenon DEF HandleCertComplete
    <3>2. CASE n = 0
      BY <1>a, <3>1, <3>2
    <3>3. CASE n # 0
      <4>1. n - 1 \in Nat
        BY <3>3
      <4>2. [log EXCEPT !.certAcks = @ + 1, !.asked = n - 1] \in Log
        BY <1>a, <4>1, CertAckLog
      <4>3. QED BY <3>1, <3>3, <4>2, Zenon
    <3>4. QED BY <3>2, <3>3
  <2>2. cancelled' \in BOOLEAN
    BY <1>a, <1>6 DEF HandleCertComplete
  <2>3. conn' = conn
    BY <1>6 DEF HandleCertComplete
  <2>4. QED BY <1>0, <1>a, <2>1, <2>2, <2>3
<1>7. CASE HandleAccessoryInfo
  <2>1. log' \in Log
    <3>1. CASE RequestNextAccessoryInfo
      <4>1. PICK n \in 0..1 : log' = [log EXCEPT !.asked = @ + n]
        BY <3>1 DEF RequestNextAccessoryInfo
      <4> QED BY <1>a, <4>1 DEF Log
    <3>2. CASE RequestSignature
      <4>1. log' = log \/ \E n \in 0..1 : log' = [log EXCEPT !.challenges = @ + n]
        BY <3>2, Zenon DEF RequestSignature
      <4> QED BY <1>a, <4>1 DEF Log
    <3>3. QED BY <1>a, <1>7, <3>1, <3>2 DEF HandleAccessoryInfo
  <2>2. QED BY <1>0, <1>a, <1>7, <2>1 DEF HandleAccessoryInfo
<1>8. CASE HandleSignature
  <2>1. log' \in Log
    BY <1>a, <1>8 DEF HandleSignature, Log
  <2>2. QED BY <1>0, <1>a, <1>8, <2>1 DEF HandleSignature
<1>9. CASE HandleIdentify \/ HandleEndIDPSProceed
  BY <1>3, <1>9 DEF HandleIdentify, HandleEndIDPSProceed
<1>10. QED
  BY <1>1, <1>2, <1>4, <1>5, <1>6, <1>7, <1>8, <1>9
  DEF Next, ProcessRx, vars, history, Disconnect, ReadChunk, HandleQuery,
      HandleEndIDPSAbandon, HandleCertSection, Initiate, Receive

\* The State object, the link and the history keep their types, whatever the
\* head unit sends and whenever the link fails.
THEOREM TypeCorrect == Spec => []TypeOK
<1>1. TypeOK /\ [Next]_vars => TypeOK'
  BY LinkStep, SessionStep, HistoryStep DEF TypeOK
<1>2. QED BY InitType, <1>1, PTL DEF Spec

-----------------------------------------------------------------------------
(***************************************************************************)
(* idps_done: AuthOncePerGrant alone is not inductive.  A reset grants one *)
(* more request only because it clears the flag; while the flag is clear   *)
(* the request it guards has not been sent.                                *)
(***************************************************************************)
IdpsInv ==
  /\ log.infoReqs <= log.grants + 1
  /\ ~idps_done => log.infoReqs <= log.grants

LEMMA IdpsInit == Init => IdpsInv
BY DEF Init, IdpsInv, NewLog

LEMMA IdpsStep == HistoryTypeOK /\ IdpsInv /\ [Next]_vars => IdpsInv'
<1> SUFFICES ASSUME HistoryTypeOK, IdpsInv, [Next]_vars PROVE IdpsInv'
  OBVIOUS
<1>0. log \in Log
  BY DEF HistoryTypeOK, Log
<1>1. CASE Connect
  <2>1. CASE FreshState
    BY <1>1, <2>1 DEF Connect, StateOfConnection, NewState, SameState, IdpsInv, NewLog
  <2>2. CASE ~FreshState
    BY <1>1, <2>2 DEF Connect, StateOfConnection, NewState, SameState, IdpsInv, session
  <2>3. QED BY <2>1, <2>2
<1>2. CASE UNCHANGED <<idps_done, log>>
  BY <1>2 DEF IdpsInv
<1>3. ASSUME NEW reply, InitiateAuthentication(reply) PROVE IdpsInv'
  <2>1. PICK n \in 0..2 :
          /\ idps_done => n # 2
          /\ idps_done' = IF n > 0 THEN TRUE ELSE idps_done
          /\ log' = IF n = 2 THEN [log EXCEPT !.infoReqs = @ + 1] ELSE log
    <3>1. PICK n \in 0..Len(AuthPackets(reply)) :
            /\ idps_done' = IF n > 0 THEN TRUE ELSE idps_done
            /\ log' = IF n = 2 THEN [log EXCEPT !.infoReqs = @ + 1] ELSE log
      BY <1>3 DEF InitiateAuthentication
    <3>2. n \in 0..2 /\ (idps_done => n # 2)
      BY <3>1 DEF AuthPackets
    <3>3. QED BY <3>1, <3>2
  <2>2. CASE n = 2
    BY <1>0, <2>1, <2>2 DEF IdpsInv, Log
  <2>3. CASE n # 2
    BY <2>1, <2>3 DEF IdpsInv
  <2>4. QED BY <2>2, <2>3
<1>4. CASE HandleIdentify \/ HandleEndIDPSProceed
  BY <1>3, <1>4 DEF HandleIdentify, HandleEndIDPSProceed
<1>5. CASE HandleEndIDPSReset
  <2>1. \/ UNCHANGED <<idps_done, log>>
        \/ log' = [log EXCEPT !.grants = @ + 1]
    BY <1>5 DEF HandleEndIDPSReset
  <2>2. QED BY <1>0, <2>1 DEF IdpsInv, Log
<1>6. ASSUME UNCHANGED idps_done,
             log'.infoReqs = log.infoReqs, log'.grants = log.grants
      PROVE  IdpsInv'
  BY <1>6 DEF IdpsInv
<1>7. CASE HandleCancel
  BY <1>0, <1>6, <1>7 DEF HandleCancel, Log
<1>8. CASE HandleCertComplete
  BY <1>0, <1>6, <1>8 DEF HandleCertComplete, Log
<1>9. CASE HandleAccessoryInfo
  BY <1>0, <1>6, <1>9
  DEF HandleAccessoryInfo, RequestNextAccessoryInfo, RequestSignature, ChallengeReady, Log
<1>10. CASE HandleSignature
  BY <1>0, <1>6, <1>10 DEF HandleSignature, session, Log
<1>11. QED
  BY <1>1, <1>2, <1>4, <1>5, <1>7, <1>8, <1>9, <1>10
  DEF Next, ProcessRx, vars, session, history, Disconnect, ReadChunk, HandleQuery,
      HandleEndIDPSAbandon, HandleCertSection, Initiate, Receive

\* The certificate is asked for at most once per session and once more for each
\* reset that was granted (idps_done).
THEOREM AuthenticationOnce == Spec => []AuthOncePerGrant
<1>1. IdpsInv => AuthOncePerGrant
  BY DEF IdpsInv, AuthOncePerGrant
<1>2. TypeOK => HistoryTypeOK
  BY DEF TypeOK
<1>3. QED BY TypeCorrect, IdpsInit, IdpsStep, <1>1, <1>2, PTL DEF Spec

-----------------------------------------------------------------------------
(***************************************************************************)
(* auth_signature_due: a certificate ack entitles the daemon to one        *)
(* challenge, and the flag is that entitlement while it is unspent.        *)
(***************************************************************************)
SignatureInv ==
  /\ log.challenges <= log.certAcks
  /\ auth_signature_due => log.challenges + 1 <= log.certAcks

LEMMA SignatureInit == Init => SignatureInv
BY DEF Init, SignatureInv, NewLog

LEMMA SignatureStep == HistoryTypeOK /\ SignatureInv /\ [Next]_vars => SignatureInv'
<1> SUFFICES ASSUME HistoryTypeOK, SignatureInv, [Next]_vars PROVE SignatureInv'
  OBVIOUS
<1>0. log \in Log
  BY DEF HistoryTypeOK, Log
<1>1. CASE Connect
  <2>1. CASE FreshState
    BY <1>1, <2>1 DEF Connect, StateOfConnection, NewState, SameState, SignatureInv, NewLog
  <2>2. CASE ~FreshState
    BY <1>1, <2>2 DEF Connect, StateOfConnection, NewState, SameState, SignatureInv, session
  <2>3. QED BY <2>1, <2>2
<1>2. ASSUME UNCHANGED auth_signature_due,
             log'.challenges = log.challenges, log'.certAcks = log.certAcks
      PROVE  SignatureInv'
  BY <1>2 DEF SignatureInv
<1>3. ASSUME NEW reply, InitiateAuthentication(reply) PROVE SignatureInv'
  BY <1>0, <1>2, <1>3 DEF InitiateAuthentication, AuthPackets, Log
<1>4. CASE HandleIdentify \/ HandleEndIDPSProceed
  BY <1>3, <1>4 DEF HandleIdentify, HandleEndIDPSProceed
<1>5. CASE HandleEndIDPSReset
  BY <1>0, <1>2, <1>5 DEF HandleEndIDPSReset, Log
<1>6. CASE HandleCancel
  BY <1>0, <1>2, <1>6 DEF HandleCancel, Log
<1>7. CASE HandleCertComplete
  <2>1. PICK n \in 0..2 :
          IF n = 0 THEN UNCHANGED <<auth_signature_due, log>>
          ELSE log' = [log EXCEPT !.certAcks = @ + 1, !.asked = n - 1]
    BY <1>7, Zenon DEF HandleCertComplete
  <2>2. CASE n = 0
    BY <2>1, <2>2 DEF SignatureInv
  <2>3. CASE n # 0
    <3>1. log'.challenges = log.challenges /\ log'.certAcks = log.certAcks + 1
      BY <1>0, <2>1, <2>3 DEF Log
    <3>2. QED BY <1>0, <3>1 DEF SignatureInv, Log
  <2>4. QED BY <2>2, <2>3
<1>8. CASE HandleAccessoryInfo
  <2>1. CASE RequestNextAccessoryInfo
    BY <1>0, <1>2, <2>1 DEF RequestNextAccessoryInfo, Log
  <2>2. CASE RequestSignature
    <3>1. /\ auth_signature_due
          /\ auth_signature_due' = FALSE
          /\ log'.challenges \in {log.challenges, log.challenges + 1}
          /\ log'.certAcks = log.certAcks
      BY <1>0, <2>2 DEF RequestSignature, ChallengeReady, Log
    <3>2. QED BY <1>0, <3>1 DEF SignatureInv, Log
  <2>3. CASE UNCHANGED <<auth_signature_due, log>>
    BY <1>2, <2>3
  <2>4. QED BY <1>8, <2>1, <2>2, <2>3 DEF HandleAccessoryInfo
<1>9. CASE HandleSignature
  BY <1>0, <1>2, <1>9 DEF HandleSignature, session, Log
<1>10. CASE UNCHANGED <<auth_signature_due, log>>
  BY <1>2, <1>10
<1>11. QED
  BY <1>1, <1>4, <1>5, <1>6, <1>7, <1>8, <1>9, <1>10
  DEF Next, ProcessRx, vars, session, history, Disconnect, ReadChunk, HandleQuery,
      HandleEndIDPSAbandon, HandleCertSection, Initiate, Receive

\* Every challenge has an acked certificate of its own (auth_signature_due).
THEOREM OneChallengePerCertificate == Spec => []ChallengePerCertificate
<1>1. SignatureInv => ChallengePerCertificate
  BY DEF SignatureInv, ChallengePerCertificate
<1>2. TypeOK => HistoryTypeOK
  BY DEF TypeOK
<1>3. QED BY TypeCorrect, SignatureInit, SignatureStep, <1>1, <1>2, PTL DEF Spec

-----------------------------------------------------------------------------
(***************************************************************************)
(* The theorems that need the packets in flight: what was asked and is not *)
(* yet answered, on either direction of the link, in hand or still to be   *)
(* read.  Three invariants, each on top of TypeOK:                         *)
(*  - CreditInv counts, for each request, its answers in flight;           *)
(*  - FreshInv ties idps_done to the connection (FreshState);              *)
(*  - TrackInv says where a head unit that follows the protocol and the    *)
(*    daemon stand in Table 2-5's order (OrderlyHeadUnit).                 *)
(***************************************************************************)
LEMMA CountType ==
  ASSUME NEW S, NEW s \in Seq(S), NEW K
  PROVE  /\ IsFiniteSet({i \in DOMAIN s : s[i].kind \in K})
         /\ Count(s, K) \in Nat
<1>1. DOMAIN s = 1..Len(s) /\ Len(s) \in Nat
  OBVIOUS
<1>2. IsFiniteSet(DOMAIN s)
  BY <1>1, FS_Interval
<1>3. IsFiniteSet({i \in DOMAIN s : s[i].kind \in K})
  BY <1>2, FS_Subset
<1> QED BY <1>3, FS_CardinalityType DEF Count

LEMMA CountEmpty == \A K : Count(<<>>, K) = 0
<1>1. DOMAIN <<>> = {}
  OBVIOUS
<1> QED BY <1>1, FS_EmptySet DEF Count

LEMMA CountConcat ==
  ASSUME NEW S, NEW s \in Seq(S), NEW t \in Seq(S), NEW K
  PROVE  Count(s \o t, K) = Count(s, K) + Count(t, K)
<1> DEFINE A == {i \in DOMAIN s : s[i].kind \in K}
           B == {j \in DOMAIN t : t[j].kind \in K}
           C == {i \in DOMAIN (s \o t) : (s \o t)[i].kind \in K}
           Shifted == {Len(s) + j : j \in B}
<1>1. /\ Len(s) \in Nat /\ Len(t) \in Nat
      /\ DOMAIN s = 1..Len(s) /\ DOMAIN t = 1..Len(t)
      /\ DOMAIN (s \o t) = 1..Len(s) + Len(t)
      /\ \A i \in 1..Len(s) : (s \o t)[i] = s[i]
      /\ \A j \in 1..Len(t) : (s \o t)[Len(s) + j] = t[j]
  OBVIOUS
<1>2. C = A \cup Shifted
  <2>1. ASSUME NEW i \in C PROVE i \in A \cup Shifted
    <3>1. CASE i <= Len(s)
      BY <1>1, <2>1, <3>1
    <3>2. CASE i > Len(s)
      <4>1. i - Len(s) \in 1..Len(t) /\ i = Len(s) + (i - Len(s))
        BY <1>1, <2>1, <3>2
      <4>2. i - Len(s) \in B
        BY <1>1, <2>1, <4>1
      <4> QED BY <4>1, <4>2
    <3> QED BY <1>1, <2>1, <3>1, <3>2
  <2>2. ASSUME NEW i \in A PROVE i \in C
    BY <1>1, <2>2
  <2>3. ASSUME NEW j \in B PROVE Len(s) + j \in C
    <3>1. j \in 1..Len(t) /\ t[j].kind \in K
      BY <1>1, <2>3
    <3>2. Len(s) + j \in 1..Len(s) + Len(t)
      BY <1>1, <3>1
    <3> QED BY <1>1, <3>1, <3>2
  <2> QED BY <2>1, <2>2, <2>3
<1>3. A \cap Shifted = {}
  BY <1>1
<1>4. /\ IsFiniteSet(A) /\ Cardinality(A) = Count(s, K) /\ Cardinality(A) \in Nat
      /\ IsFiniteSet(B) /\ Cardinality(B) = Count(t, K) /\ Cardinality(B) \in Nat
  BY CountType, Zenon DEF Count
<1>5. IsFiniteSet(Shifted) /\ Cardinality(Shifted) = Cardinality(B)
  <2> DEFINE f == [j \in B |-> Len(s) + j]
  <2>1. f \in [B -> Shifted]
    OBVIOUS
  <2>2. ASSUME NEW j \in B, NEW k \in B, f[j] = f[k] PROVE j = k
    BY <1>1, <2>2
  <2>3. ASSUME NEW x \in Shifted PROVE \E j \in B : f[j] = x
    OBVIOUS
  <2>4. f \in Bijection(B, Shifted)
    BY <2>1, <2>2, <2>3 DEF Bijection, Injection, IsInjective, Surjection
  <2> QED BY <1>4, <2>4, FS_Bijection DEF ExistsBijection
<1>6. Cardinality(C) = Cardinality(A) + Cardinality(Shifted) - Cardinality(A \cap Shifted)
  BY <1>2, <1>4, <1>5, FS_Union
<1>7. Cardinality(A \cap Shifted) = 0
  BY <1>3, FS_EmptySet
<1>8. Cardinality(C) = Cardinality(A) + Cardinality(B)
  <2> HIDE DEF A, B, C, Shifted
  <2> QED BY <1>4, <1>5, <1>6, <1>7
<1> QED BY <1>4, <1>8 DEF Count

LEMMA CountOne ==
  \A p, K : Count(<<p>>, K) = IF p.kind \in K THEN 1 ELSE 0
<1> SUFFICES ASSUME NEW p, NEW K
             PROVE  Count(<<p>>, K) = IF p.kind \in K THEN 1 ELSE 0
  OBVIOUS
<1>1. DOMAIN <<p>> = {1} /\ <<p>>[1] = p
  OBVIOUS
<1>2. CASE p.kind \in K
  <2>1. {i \in DOMAIN <<p>> : <<p>>[i].kind \in K} = {1}
    BY <1>1, <1>2
  <2> QED BY <1>2, <2>1, FS_Singleton DEF Count
<1>3. CASE p.kind \notin K
  <2>1. {i \in DOMAIN <<p>> : <<p>>[i].kind \in K} = {}
    BY <1>1, <1>3
  <2> QED BY <1>3, <2>1, FS_EmptySet DEF Count
<1> QED BY <1>2, <1>3

LEMMA CountNone ==
  ASSUME NEW S, NEW s \in Seq(S), NEW K, Count(s, K) = 0
  PROVE  \A i \in DOMAIN s : s[i].kind \notin K
<1>1. IsFiniteSet({i \in DOMAIN s : s[i].kind \in K})
  BY CountType
<1>2. {i \in DOMAIN s : s[i].kind \in K} = {}
  BY <1>1, FS_EmptySet, Zenon DEF Count
<1> QED BY <1>2

LEMMA CountTail ==
  ASSUME NEW S, NEW s \in Seq(S), s # <<>>, NEW K
  PROVE  /\ Tail(s) \in Seq(S)
         /\ Count(s, K) = Count(Tail(s), K) + (IF Head(s).kind \in K THEN 1 ELSE 0)
<1>1. /\ s = <<Head(s)>> \o Tail(s) /\ <<Head(s)>> \in Seq(S) /\ Tail(s) \in Seq(S)
  OBVIOUS
<1>2. Count(s, K) = Count(<<Head(s)>>, K) + Count(Tail(s), K)
  <2> DEFINE h == <<Head(s)>>
             t == Tail(s)
  <2>1. s = h \o t /\ h \in Seq(S) /\ t \in Seq(S)
    BY <1>1
  <2> HIDE DEF h, t
  <2>2. Count(h \o t, K) = Count(h, K) + Count(t, K)
    BY <2>1, CountConcat
  <2> QED BY <2>1, <2>2 DEF h, t
<1>3. Count(Tail(s), K) \in Nat
  BY <1>1, CountType
<1> QED BY <1>1, <1>2, <1>3, CountOne

LEMMA CountAppend ==
  ASSUME NEW S, NEW s \in Seq(S), NEW p \in S, NEW K
  PROVE  Count(Append(s, p), K) = Count(s, K) + (IF p.kind \in K THEN 1 ELSE 0)
<1>1. Append(s, p) = s \o <<p>> /\ <<p>> \in Seq(S)
  OBVIOUS
<1>2. Count(s \o <<p>>, K) = Count(s, K) + Count(<<p>>, K)
  BY <1>1, CountConcat
<1> QED BY <1>1, <1>2, CountOne

LEMMA CountSplit ==
  ASSUME NEW S, NEW s \in Seq(S), NEW k \in 0..Len(s), NEW K
  PROVE  /\ SubSeq(s, 1, k) \in Seq(S) /\ SubSeq(s, k + 1, Len(s)) \in Seq(S)
         /\ Count(s, K) = Count(SubSeq(s, 1, k), K) + Count(SubSeq(s, k + 1, Len(s)), K)
<1> DEFINE a == SubSeq(s, 1, k)
           b == SubSeq(s, k + 1, Len(s))
<1>1. a \in Seq(S) /\ b \in Seq(S)
  OBVIOUS
<1>2. a \o b = SubSeq(s, 1, Len(s))
  <2>1. 1 \in 1..Len(s) + 1 /\ k \in 1 - 1..Len(s) /\ Len(s) \in k..Len(s)
    OBVIOUS
  <2> QED BY <2>1, ConcatAdjacentSubSeq
<1>3. a \o b = s
  BY <1>2, SubSeqFull
<1>4. Count(a \o b, K) = Count(a, K) + Count(b, K)
  <2> HIDE DEF a, b
  <2> QED BY <1>1, CountConcat
<1> QED BY <1>1, <1>3, <1>4

LEMMA CountTwo ==
  \A p, q, K : Count(<<p, q>>, K) = (IF p.kind \in K THEN 1 ELSE 0)
                                      + (IF q.kind \in K THEN 1 ELSE 0)
<1> SUFFICES ASSUME NEW p, NEW q, NEW K
             PROVE  Count(<<p, q>>, K) = (IF p.kind \in K THEN 1 ELSE 0)
                                           + (IF q.kind \in K THEN 1 ELSE 0)
  OBVIOUS
<1> DEFINE S == {p, q}
<1>1. p \in S /\ q \in S
  OBVIOUS
<1> HIDE DEF S
<1>2. <<p>> \in Seq(S) /\ Append(<<p>>, q) = <<p, q>>
  <2>1. <<p>> \in Seq(S)
    BY <1>1
  <2>2. <<p, q>> \in Seq(S) /\ Append(<<p>>, q) \in Seq(S)
    BY <1>1, <2>1
  <2>3. /\ Len(<<p, q>>) = 2 /\ Len(Append(<<p>>, q)) = 2
        /\ \A i \in 1..2 : <<p, q>>[i] = Append(<<p>>, q)[i]
    BY <1>1, <2>1
  <2> QED BY <2>1, <2>2, <2>3, SeqEqual
<1>3. Count(Append(<<p>>, q), K) = Count(<<p>>, K) + (IF q.kind \in K THEN 1 ELSE 0)
  <2> DEFINE s == <<p>>
  <2>1. s \in Seq(S)
    BY <1>2
  <2> HIDE DEF s
  <2>2. Count(Append(s, q), K) = Count(s, K) + (IF q.kind \in K THEN 1 ELSE 0)
    BY <1>1, <2>1, CountAppend
  <2> QED BY <2>2 DEF s
<1> QED BY <1>2, <1>3, CountOne

-----------------------------------------------------------------------------
(***************************************************************************)
(* What is under way of a dialogue: its requests on their way to the head  *)
(* unit, and their replies, not yet read or not yet handled.               *)
(***************************************************************************)
Pending(requests, replies) ==
  Count(wire, requests) + Count(pipe, replies) + Count(rx_buf, replies)

LEMMA PendingType ==
  ASSUME LinkTypeOK, NEW Q, NEW R
  PROVE  /\ Count(wire, Q) \in Nat /\ Count(pipe, R) \in Nat /\ Count(rx_buf, R) \in Nat
         /\ Pending(Q, R) \in Nat
<1>1. wire \in Seq(ToHeadUnit) /\ pipe \in Seq(FromHeadUnit) /\ rx_buf \in Seq(FromHeadUnit)
  BY DEF LinkTypeOK
<1>2. Count(wire, Q) \in Nat /\ Count(pipe, R) \in Nat /\ Count(rx_buf, R) \in Nat
  BY <1>1, CountType
<1> QED BY <1>2 DEF Pending

LEMMA PendingNextType ==
  ASSUME LinkTypeOK', NEW Q, NEW R
  PROVE  Pending(Q, R)' \in Nat
<1>1. wire' \in Seq(ToHeadUnit) /\ pipe' \in Seq(FromHeadUnit) /\ rx_buf' \in Seq(FromHeadUnit)
  BY DEF LinkTypeOK
<1>2. Count(wire', Q) \in Nat /\ Count(pipe', R) \in Nat /\ Count(rx_buf', R) \in Nat
  BY <1>1, CountType
<1>3. Pending(Q, R)' = Count(wire', Q) + Count(pipe', R) + Count(rx_buf', R)
  BY DEF Pending, Count
<1> QED BY <1>2, <1>3

\* A handler takes its packet away, and adds the requests among those it sends.
LEMMA SendsPending ==
  ASSUME LinkTypeOK, rx_buf # <<>>,
         NEW packets \in Seq(ToHeadUnit), NEW n, Sends(packets, n), NEW Q, NEW R
  PROVE  /\ n = Len(packets) =>
              Pending(Q, R)' = Pending(Q, R) + Count(packets, Q)
                                 - (IF Head(rx_buf).kind \in R THEN 1 ELSE 0)
         /\ n # Len(packets) =>
              Pending(Q, R)' <= Pending(Q, R) - (IF Head(rx_buf).kind \in R THEN 1 ELSE 0)
<1>1. wire \in Seq(ToHeadUnit) /\ pipe \in Seq(FromHeadUnit) /\ rx_buf \in Seq(FromHeadUnit)
  BY DEF LinkTypeOK
<1>2. /\ Tail(rx_buf) \in Seq(FromHeadUnit)
      /\ Count(rx_buf, R)
           = Count(Tail(rx_buf), R) + (IF Head(rx_buf).kind \in R THEN 1 ELSE 0)
  BY <1>1, CountTail
<1>3. /\ Count(wire, Q) \in Nat /\ Count(pipe, R) \in Nat
      /\ Count(Tail(rx_buf), R) \in Nat /\ Count(packets, Q) \in Nat
  BY <1>1, <1>2, CountType
<1>4. Count(wire \o packets, Q) = Count(wire, Q) + Count(packets, Q)
  BY <1>1, CountConcat
<1>5. rx_buf' = Tail(rx_buf)
  BY DEF Sends
<1>6. CASE n = Len(packets)
  <2>1. wire' = wire \o packets /\ pipe' = pipe
    BY <1>6 DEF Sends
  <2>2. Pending(Q, R)' = Count(wire \o packets, Q) + Count(pipe, R) + Count(Tail(rx_buf), R)
    BY <1>5, <2>1 DEF Pending, Count
  <2> QED BY <1>2, <1>3, <1>4, <1>6, <2>2 DEF Pending
<1>7. CASE n # Len(packets)
  <2>1. wire' = <<>> /\ pipe' = <<>>
    BY <1>7 DEF Sends
  <2>2. Pending(Q, R)' = Count(<<>>, Q) + Count(<<>>, R) + Count(Tail(rx_buf), R)
    BY <1>5, <2>1 DEF Pending, Count
  <2>3. Count(<<>>, Q) = 0 /\ Count(<<>>, R) = 0
    BY CountEmpty
  <2> QED BY <1>2, <1>3, <1>7, <2>2, <2>3 DEF Pending
<1> QED BY <1>6, <1>7

\* The head unit answers a request of the dialogue with a reply of it, or not at all.
LEMMA ReceivePending ==
  ASSUME LinkTypeOK, Receive, NEW Q, NEW R,
         \A a \in Answers(Head(wire)) : a.kind \in R => Head(wire).kind \in Q
  PROVE  Pending(Q, R)' <= Pending(Q, R)
<1>1. /\ wire \in Seq(ToHeadUnit) /\ pipe \in Seq(FromHeadUnit) /\ rx_buf \in Seq(FromHeadUnit)
      /\ wire # <<>> /\ wire' = Tail(wire) /\ rx_buf' = rx_buf
  BY DEF LinkTypeOK, Receive
<1>2. /\ Tail(wire) \in Seq(ToHeadUnit)
      /\ Count(wire, Q) = Count(Tail(wire), Q) + (IF Head(wire).kind \in Q THEN 1 ELSE 0)
  BY <1>1, CountTail
<1>3. Count(Tail(wire), Q) \in Nat /\ Count(pipe, R) \in Nat /\ Count(rx_buf, R) \in Nat
  BY <1>1, <1>2, CountType
<1>4. Pending(Q, R)' = Count(Tail(wire), Q) + Count(pipe', R) + Count(rx_buf, R)
  BY <1>1 DEF Pending, Count
<1>5. CASE pipe' = pipe
  BY <1>2, <1>3, <1>4, <1>5 DEF Pending
<1>6. ASSUME NEW a \in Answers(Head(wire)), pipe' = Append(pipe, a)
      PROVE  Pending(Q, R)' <= Pending(Q, R)
  <2>1. Append(pipe, a) = pipe \o <<a>>
    BY <1>1
  <2>2. pipe \in Seq(FromHeadUnit \cup {a}) /\ a \in FromHeadUnit \cup {a}
    BY <1>1
  <2>3. Count(Append(pipe, a), R) = Count(pipe, R) + (IF a.kind \in R THEN 1 ELSE 0)
    BY <2>2, CountAppend
  <2>4. Count(pipe', R) = Count(pipe, R) + (IF a.kind \in R THEN 1 ELSE 0)
    BY <1>6, <2>3
  <2>5. CASE a.kind \in R
    <3>1. Head(wire).kind \in Q
      BY <1>6, <2>5
    <3> QED BY <1>2, <1>3, <1>4, <2>4, <2>5, <3>1 DEF Pending
  <2>6. CASE a.kind \notin R
    BY <1>2, <1>3, <1>4, <2>4, <2>6 DEF Pending
  <2> QED BY <2>5, <2>6
<1> QED BY <1>5, <1>6 DEF Receive

\* Reading moves replies, connections lose them, and what the head unit starts is none.
LEMMA LinkPending ==
  ASSUME LinkTypeOK, Connect \/ Disconnect \/ ReadChunk \/ Initiate \/ UNCHANGED vars,
         NEW Q, NEW R, R \cap Dialogues = {}
  PROVE  Pending(Q, R)' <= Pending(Q, R)
<1>1. wire \in Seq(ToHeadUnit) /\ pipe \in Seq(FromHeadUnit) /\ rx_buf \in Seq(FromHeadUnit)
  BY DEF LinkTypeOK
<1>2. /\ Count(wire, Q) \in Nat /\ Count(pipe, R) \in Nat /\ Count(rx_buf, R) \in Nat
      /\ Count(<<>>, Q) = 0 /\ Count(<<>>, R) = 0
  BY <1>1, CountType, CountEmpty
<1>3. Pending(Q, R)' = Count(wire', Q) + Count(pipe', R) + Count(rx_buf', R)
  BY DEF Pending, Count
<1>4. CASE Connect \/ UNCHANGED vars
  <2>1. wire' = wire /\ pipe' = pipe /\ (rx_buf' = rx_buf \/ rx_buf' = <<>>)
    BY <1>4 DEF Connect, StateOfConnection, NewState, SameState, vars
  <2> QED BY <1>2, <1>3, <2>1 DEF Pending
<1>5. CASE Disconnect
  <2>1. wire' = <<>> /\ pipe' = <<>> /\ rx_buf' = rx_buf
    BY <1>5 DEF Disconnect
  <2> QED BY <1>2, <1>3, <2>1 DEF Pending
<1>6. CASE ReadChunk
  <2>1. PICK k \in 1..Len(pipe) : /\ rx_buf' = rx_buf \o SubSeq(pipe, 1, k)
                                  /\ pipe' = SubSeq(pipe, k + 1, Len(pipe))
    BY <1>6 DEF ReadChunk
  <2>2. wire' = wire
    BY <1>6 DEF ReadChunk
  <2>3. /\ SubSeq(pipe, 1, k) \in Seq(FromHeadUnit)
        /\ SubSeq(pipe, k + 1, Len(pipe)) \in Seq(FromHeadUnit)
        /\ Count(pipe, R)
             = Count(SubSeq(pipe, 1, k), R) + Count(SubSeq(pipe, k + 1, Len(pipe)), R)
    <3>1. k \in 0..Len(pipe)
      BY <1>1
    <3> QED BY <1>1, <3>1, CountSplit
  <2>4. Count(rx_buf \o SubSeq(pipe, 1, k), R)
          = Count(rx_buf, R) + Count(SubSeq(pipe, 1, k), R)
    <3> DEFINE chunk == SubSeq(pipe, 1, k)
    <3>1. chunk \in Seq(FromHeadUnit)
      BY <2>3
    <3> HIDE DEF chunk
    <3>2. Count(rx_buf \o chunk, R) = Count(rx_buf, R) + Count(chunk, R)
      BY <1>1, <3>1, CountConcat, Zenon
    <3> QED BY <3>2, Zenon DEF chunk
  <2>5. /\ Count(SubSeq(pipe, 1, k), R) \in Nat
        /\ Count(SubSeq(pipe, k + 1, Len(pipe)), R) \in Nat
    BY <2>3, CountType
  <2>6. /\ Count(pipe', R) = Count(SubSeq(pipe, k + 1, Len(pipe)), R)
        /\ Count(rx_buf', R) = Count(rx_buf \o SubSeq(pipe, 1, k), R)
        /\ Count(wire', Q) = Count(wire, Q)
    BY <2>1, <2>2, Zenon
  <2>7. Pending(Q, R) = Count(wire, Q) + Count(pipe, R) + Count(rx_buf, R)
    BY DEF Pending
  <2> QED BY <1>2, <1>3, <2>3, <2>4, <2>5, <2>6, <2>7
<1>7. CASE Initiate
  <2>1. PICK p \in Initiations : pipe' = Append(pipe, p)
    BY <1>7 DEF Initiate
  <2>2. p \in FromHeadUnit /\ p.kind \notin R
    BY HeadUnitAssumption DEF FromHeadUnit
  <2>3. Count(Append(pipe, p), R) = Count(pipe, R) + (IF p.kind \in R THEN 1 ELSE 0)
    BY <1>1, <2>2, CountAppend
  <2>4. wire' = wire /\ rx_buf' = rx_buf
    BY <1>7 DEF Initiate
  <2> QED BY <1>2, <1>3, <2>1, <2>2, <2>3, <2>4 DEF Pending
<1> QED BY <1>4, <1>5, <1>6, <1>7

-----------------------------------------------------------------------------
(***************************************************************************)
(* Nothing is in flight while nobody is connected.                         *)
(***************************************************************************)
DownIsEmpty == link # "up" => wire = <<>> /\ pipe = <<>>

\* The challenge whose retry counter does not fit: process_rx raises.
Raises ==
  /\ rx_buf' = Tail(rx_buf) /\ link' # "up" /\ wire' = <<>> /\ pipe' = <<>>
  /\ UNCHANGED section

LEMMA HandlerSends ==
  ASSUME SessionTypeOK, ProcessRx
  PROVE  /\ rx_buf # <<>>
         /\ Raises \/ \E packets \in Seq(ToHeadUnit), n \in Nat : Sends(packets, n)
<1> DEFINE Sent(packets) == \E n \in Nat : Sends(packets, n)
<1>0. ASSUME NEW packets \in Seq(ToHeadUnit), Sent(packets)
      PROVE  \E p \in Seq(ToHeadUnit), n \in Nat : Sends(p, n)
  BY <1>0
<1> HIDE DEF Sent
<1>1. rx_buf # <<>>
  BY DEF ProcessRx, Taking, HandleQuery, HandleIdentify, HandleCancel,
         HandleEndIDPSProceed, HandleEndIDPSReset, HandleEndIDPSAbandon,
         HandleCertSection, HandleCertComplete, HandleAccessoryInfo, HandleSignature
<1>2. CASE HandleQuery
  <2>1. Sent(<<Ack>>)
    BY <1>2 DEF HandleQuery, Sent
  <2> QED BY <1>0, <1>1, <2>1, OneOrTwo, ToHeadUnitPackets
<1>3. ASSUME NEW reply \in ToHeadUnit, InitiateAuthentication(reply)
      PROVE  \E p \in Seq(ToHeadUnit), n \in Nat : Sends(p, n)
  <2>1. Sent(<<reply>>) \/ Sent(<<reply, GetInfo>>)
    BY <1>3 DEF InitiateAuthentication, AuthPackets, Sent
  <2> QED BY <1>0, <2>1, OneOrTwo, ToHeadUnitPackets
<1>4. CASE HandleIdentify \/ HandleEndIDPSProceed
  BY <1>1, <1>3, <1>4, ToHeadUnitPackets DEF HandleIdentify, HandleEndIDPSProceed
<1>5. CASE HandleCancel
  <2>1. Sent(<<Ack, GetAccInfo(Head(InfoTypes))>>)
    BY <1>5 DEF HandleCancel, Sent
  <2> QED BY <1>0, <1>1, <2>1, OneOrTwo, ToHeadUnitPackets, RefillIsTail
<1>6. CASE HandleEndIDPSReset
  <2>1. Sent(<<Packet("IDPSStatus", 4)>>)
    BY <1>6 DEF HandleEndIDPSReset, Sent
  <2> QED BY <1>0, <1>1, <2>1, OneOrTwo, ToHeadUnitPackets
<1>7. CASE HandleEndIDPSAbandon
  <2>1. Sent(<<Packet("IDPSStatus", 6)>>)
    BY <1>7 DEF HandleEndIDPSAbandon, Sent
  <2> QED BY <1>0, <1>1, <2>1, OneOrTwo, ToHeadUnitPackets
<1>8. CASE HandleCertSection
  <2>1. Sent(<<Packet("SectionAck", 0)>>)
    BY <1>8 DEF HandleCertSection, Sent
  <2> QED BY <1>0, <1>1, <2>1, OneOrTwo, ToHeadUnitPackets
<1>9. CASE HandleCertComplete
  <2>1. Sent(<<Packet("CertAck", 0), GetAccInfo(Head(InfoTypes))>>)
    BY <1>9 DEF HandleCertComplete, Sent
  <2> QED BY <1>0, <1>1, <2>1, OneOrTwo, ToHeadUnitPackets, RefillIsTail
<1>10. CASE HandleAccessoryInfo
  <2>1. CASE RequestNextAccessoryInfo
    <3>1. Sent(<<GetAccInfo(Head(accessory_info_queue))>>)
      BY <2>1 DEF RequestNextAccessoryInfo, Sent
    <3>2. Head(accessory_info_queue) \in Nat
      BY <2>1, TailIsTail DEF RequestNextAccessoryInfo, SessionTypeOK
    <3> QED BY <1>0, <1>1, <3>1, <3>2, OneOrTwo, ToHeadUnitPackets
  <2>2. CASE RequestSignature /\ auth_retry_counter' <= RetryMax
    <3>1. Sent(<<Packet("GetSignature", auth_retry_counter')>>)
      BY <2>2 DEF RequestSignature, ChallengeReady, Sent
    <3>2. auth_retry_counter' \in Nat
      BY <2>2 DEF RequestSignature, ChallengeReady, SessionTypeOK
    <3> QED BY <1>0, <1>1, <3>1, <3>2, OneOrTwo, ToHeadUnitPackets
  <2>3. CASE RequestSignature /\ ~(auth_retry_counter' <= RetryMax)
    BY <1>1, <2>3 DEF RequestSignature, ChallengeReady, Raises
  <2>4. CASE Sends(<<>>, 0)
    BY <1>1, <2>4, EmptySequence
  <2> QED BY <1>10, <2>1, <2>2, <2>3, <2>4 DEF HandleAccessoryInfo
<1>11. CASE HandleSignature
  <2>1. Sent(<<Packet("StatusAck", 0)>>)
    BY <1>11 DEF HandleSignature, Sent
  <2> QED BY <1>0, <1>1, <2>1, OneOrTwo, ToHeadUnitPackets
<1> QED BY <1>2, <1>4, <1>5, <1>6, <1>7, <1>8, <1>9, <1>10, <1>11 DEF ProcessRx

LEMMA DownInit == Init => DownIsEmpty
BY DEF Init, DownIsEmpty

LEMMA DownStep == LinkTypeOK /\ SessionTypeOK /\ DownIsEmpty /\ [Next]_vars => DownIsEmpty'
<1> SUFFICES ASSUME LinkTypeOK, SessionTypeOK, DownIsEmpty, [Next]_vars PROVE DownIsEmpty'
  OBVIOUS
<1>1. CASE ProcessRx
  <2>1. CASE Raises
    BY <2>1 DEF Raises, DownIsEmpty
  <2>2. ASSUME NEW packets \in Seq(ToHeadUnit), NEW n \in Nat, Sends(packets, n)
        PROVE  DownIsEmpty'
    <3>1. CASE n = Len(packets) /\ link = "up"
      BY <2>2, <3>1 DEF Sends, DownIsEmpty
    <3>2. CASE n = Len(packets) /\ link # "up"
      <4>1. packets = <<>> /\ wire = <<>> /\ pipe = <<>>
        BY <2>2, <3>2 DEF Sends, DownIsEmpty
      <4>2. wire' = <<>> \o packets /\ pipe' = pipe
        BY <2>2, <3>2, <4>1 DEF Sends
      <4>3. <<>> \o packets = <<>>
        BY <4>1, ConcatEmptySeq
      <4> QED BY <4>1, <4>2, <4>3 DEF DownIsEmpty
    <3>3. CASE n # Len(packets)
      BY <2>2, <3>3 DEF Sends, DownIsEmpty
    <3> QED BY <3>1, <3>2, <3>3
  <2> QED BY <1>1, <2>1, <2>2, HandlerSends
<1>2. CASE Connect
  BY <1>2 DEF Connect, DownIsEmpty
<1>3. CASE Disconnect
  BY <1>3 DEF Disconnect, DownIsEmpty
<1>4. CASE ReadChunk \/ Initiate \/ Receive
  BY <1>4 DEF ReadChunk, Initiate, Receive, DownIsEmpty
<1>5. CASE UNCHANGED vars
  BY <1>5 DEF vars, DownIsEmpty
<1> QED BY <1>1, <1>2, <1>3, <1>4, <1>5 DEF Next

-----------------------------------------------------------------------------
(***************************************************************************)
(* ChallengesWithinRequests: the credit that a request for the certificate *)
(* gives is nowhere doubled.  It travels as the request, as each section   *)
(* and its ack, then becomes auth_signature_due, then the challenge.       *)
(***************************************************************************)
CertRequests == {"GetInfo", "SectionAck"}
CertReplies  == {"RetInfo", "RetInfo10"}

Due == IF auth_signature_due THEN 1 ELSE 0

CreditInv ==
  /\ DownIsEmpty
  /\ log.challenges + Due + Pending(CertRequests, CertReplies) <= log.infoReqs

LEMMA CreditInit == Init => CreditInv
<1> SUFFICES ASSUME Init PROVE CreditInv
  OBVIOUS
<1>1. /\ wire = <<>> /\ pipe = <<>> /\ rx_buf = <<>>
      /\ auth_signature_due = FALSE /\ log.challenges = 0 /\ log.infoReqs = 0
  BY DEF Init, NewLog
<1>2. Pending(CertRequests, CertReplies) = 0
  BY <1>1, CountEmpty DEF Pending
<1> QED BY <1>1, <1>2, DownInit DEF CreditInv, Due

\* What a handler must show: the credit that it takes off rx_buf (t) covers what it
\* passes on as a request (g), as auth_signature_due and as a challenge.
LEMMA HandlerCredit ==
  ASSUME TypeOK, TypeOK', CreditInv, DownIsEmpty', rx_buf # <<>>,
         NEW packets \in Seq(ToHeadUnit), NEW n, Sends(packets, n),
         NEW g \in Nat, n = Len(packets) => Count(packets, CertRequests) <= g,
         NEW t \in {0, 1}, t = 1 => Head(rx_buf).kind \in CertReplies,
         log'.challenges + Due' + g + log.infoReqs
           <= log.challenges + Due + t + log'.infoReqs
  PROVE  CreditInv'
<1> DEFINE P == Pending(CertRequests, CertReplies)
           a == Count(packets, CertRequests)
<1>1. LinkTypeOK /\ LinkTypeOK'
  BY DEF TypeOK
<1>2. P \in Nat /\ P' \in Nat /\ a \in Nat
  BY <1>1, PendingType, PendingNextType, CountType
<1>3. P' <= P + g - t
  <2>1. /\ n = Len(packets) =>
             P' = P + a - (IF Head(rx_buf).kind \in CertReplies THEN 1 ELSE 0)
        /\ n # Len(packets) =>
             P' <= P - (IF Head(rx_buf).kind \in CertReplies THEN 1 ELSE 0)
    BY <1>1, SendsPending
  <2> HIDE DEF P
  <2> QED BY <1>2, <2>1
<1>4. /\ log.challenges \in Nat /\ log.infoReqs \in Nat /\ Due \in Nat
      /\ log'.challenges \in Nat /\ log'.infoReqs \in Nat /\ Due' \in Nat
  BY DEF TypeOK, HistoryTypeOK, Due
<1> HIDE DEF P
<1>5. log.challenges + Due + P <= log.infoReqs
  BY DEF CreditInv, P
<1>6. log'.challenges + Due' + P' <= log'.infoReqs
  <2> DEFINE c == log.challenges  d == Due   i == log.infoReqs
             c1 == log'.challenges  d1 == Due'  i1 == log'.infoReqs  p1 == P'
  <2>1. /\ c \in Nat /\ d \in Nat /\ i \in Nat /\ c1 \in Nat /\ d1 \in Nat /\ i1 \in Nat
        /\ P \in Nat /\ p1 \in Nat /\ g \in Nat /\ t \in Nat
        /\ c1 + d1 + g + i <= c + d + t + i1
        /\ p1 <= P + g - t /\ c + d + P <= i
    BY <1>2, <1>3, <1>4, <1>5
  <2> HIDE DEF c, d, i, c1, d1, i1, p1
  <2>2. c1 + d1 + p1 <= i1
    BY <2>1
  <2> QED BY <2>2 DEF c1, d1, i1, p1
<1> QED BY <1>6 DEF CreditInv, P

\* The link passes credit on, or loses it.
LEMMA LinkCredit ==
  ASSUME TypeOK, TypeOK', CreditInv, DownIsEmpty',
         Connect \/ Disconnect \/ ReadChunk \/ Initiate \/ Receive \/ UNCHANGED vars
  PROVE  CreditInv'
<1> DEFINE P == Pending(CertRequests, CertReplies)
<1>1. LinkTypeOK /\ LinkTypeOK'
  BY DEF TypeOK
<1>2. P \in Nat /\ P' \in Nat
  BY <1>1, PendingType, PendingNextType
<1>3. CASE Connect /\ FreshState
  <2>1. wire = <<>> /\ pipe = <<>>
    BY <1>3 DEF CreditInv, DownIsEmpty, Connect
  <2>2. /\ wire' = <<>> /\ pipe' = <<>> /\ rx_buf' = <<>>
        /\ auth_signature_due' = FALSE /\ log'.challenges = 0 /\ log'.infoReqs = 0
    BY <1>3, <2>1 DEF Connect, StateOfConnection, NewState, SameState, NewLog
  <2>3. P' = Count(<<>>, CertRequests) + Count(<<>>, CertReplies) + Count(<<>>, CertReplies)
    BY <2>2 DEF Pending, Count
  <2>4. P' = 0
    BY <2>3, CountEmpty
  <2> QED BY <2>2, <2>4 DEF CreditInv, Due
<1>4. P' <= P
  <2>1. CASE Receive
    <3>1. \A a \in Answers(Head(wire)) :
            a.kind \in CertReplies => Head(wire).kind \in CertRequests
      BY DEF Answers, Packet, CertReplies, CertRequests
    <3> QED BY <1>1, <2>1, <3>1, ReceivePending
  <2>2. CASE Connect \/ Disconnect \/ ReadChunk \/ Initiate \/ UNCHANGED vars
    <3>1. CertReplies \cap Dialogues = {}
      BY DEF CertReplies, Dialogues
    <3> QED BY <1>1, <2>2, <3>1, LinkPending
  <2> QED BY <2>1, <2>2
<1>5. CASE ~(Connect /\ FreshState)
  <2>1. log' = log /\ Due' = Due
    BY <1>5 DEF Connect, Disconnect, ReadChunk, Initiate, Receive, vars, session, history,
            StateOfConnection, NewState, SameState, Due
  <2>2. log.challenges \in Nat /\ log.infoReqs \in Nat /\ Due \in Nat
    BY DEF TypeOK, HistoryTypeOK, Due
  <2> HIDE DEF P
  <2>3. log.challenges + Due + P <= log.infoReqs
    BY DEF CreditInv, P
  <2>4. log'.challenges + Due' + P' <= log'.infoReqs
    BY <1>2, <1>4, <2>1, <2>2, <2>3
  <2> QED BY <2>4 DEF CreditInv, P
<1> QED BY <1>3, <1>5

LEMMA NoCertRequest ==
  \A a \in Nat :
    /\ Count(<<Ack>>, CertRequests) = 0
    /\ Count(<<Packet("IDPSStatus", a)>>, CertRequests) = 0
    /\ Count(<<Ack, GetAccInfo(a)>>, CertRequests) = 0
    /\ Count(<<Packet("SectionAck", 0)>>, CertRequests) = 1
    /\ Count(<<Packet("CertAck", 0), GetAccInfo(a)>>, CertRequests) = 0
    /\ Count(<<GetAccInfo(a)>>, CertRequests) = 0
    /\ Count(<<Packet("GetSignature", a)>>, CertRequests) = 0
    /\ Count(<<Packet("StatusAck", 0)>>, CertRequests) = 0
    /\ Count(<<>>, CertRequests) = 0
BY CountOne, CountTwo, CountEmpty DEF Ack, GetAccInfo, Packet, CertRequests

LEMMA CreditStep == TypeOK /\ TypeOK' /\ CreditInv /\ DownIsEmpty' /\ [Next]_vars => CreditInv'
<1> SUFFICES ASSUME TypeOK, TypeOK', CreditInv, DownIsEmpty', [Next]_vars
             PROVE  CreditInv'
  OBVIOUS
<1>0. /\ log \in Log /\ log.challenges \in Nat /\ log.infoReqs \in Nat
      /\ Due \in {0, 1}
  BY DEF TypeOK, HistoryTypeOK, Log, Due
<1>1. ASSUME rx_buf # <<>>, NEW packets \in Seq(ToHeadUnit), NEW n, Sends(packets, n),
             Count(packets, CertRequests) = 0, UNCHANGED auth_signature_due,
             log'.challenges = log.challenges, log'.infoReqs = log.infoReqs
      PROVE  CreditInv'
  <2>1. Due' = Due
    BY <1>1 DEF Due
  <2>2. log'.challenges + Due' + 0 + log.infoReqs <= log.challenges + Due + 0 + log'.infoReqs
    BY <1>0, <1>1, <2>1
  <2> QED BY <1>1, <2>2, HandlerCredit
<1>2. CASE HandleQuery
  <2>1. PICK n \in 0..1 : Sends(<<Ack>>, n)
    BY <1>2 DEF HandleQuery
  <2>2. rx_buf # <<>> /\ <<Ack>> \in Seq(ToHeadUnit) /\ Count(<<Ack>>, CertRequests) = 0
    BY <1>2, OneOrTwo, ToHeadUnitPackets, NoCertRequest DEF HandleQuery, Taking
  <2>3. UNCHANGED auth_signature_due /\ log' = log
    BY <1>2 DEF HandleQuery, session, history
  <2> QED BY <1>1, <2>1, <2>2, <2>3
<1>3. ASSUME NEW reply \in ToHeadUnit, reply.kind \notin CertRequests, rx_buf # <<>>,
             InitiateAuthentication(reply)
      PROVE  CreditInv'
  <2>1. PICK n \in 0..Len(AuthPackets(reply)) :
          /\ Sends(AuthPackets(reply), n)
          /\ log' = IF n = 2 THEN [log EXCEPT !.infoReqs = @ + 1] ELSE log
    BY <1>3 DEF InitiateAuthentication
  <2>2. UNCHANGED auth_signature_due /\ Due' = Due
    BY <1>3 DEF InitiateAuthentication, Due
  <2>3. CASE idps_done
    <3>1. AuthPackets(reply) = <<reply>> /\ n # 2
      BY <2>1, <2>3 DEF AuthPackets
    <3>2. <<reply>> \in Seq(ToHeadUnit) /\ Count(<<reply>>, CertRequests) = 0
      BY <1>3, OneOrTwo, CountOne
    <3>3. log' = log
      BY <2>1, <3>1
    <3>4. Sends(<<reply>>, n)
      BY <2>1, <3>1
    <3> QED BY <1>1, <1>3, <2>2, <3>2, <3>3, <3>4
  <2>4. CASE ~idps_done
    <3> DEFINE packets == <<reply, GetInfo>>
    <3>1. AuthPackets(reply) = packets
      BY <2>4 DEF AuthPackets
    <3>2. /\ packets \in Seq(ToHeadUnit) /\ Len(packets) = 2
          /\ Count(packets, CertRequests) = 1
      BY <1>3, OneOrTwo, ToHeadUnitPackets, CountTwo DEF GetInfo, Packet, CertRequests
    <3> HIDE DEF packets
    <3>3. Sends(packets, n)
      BY <2>1, <3>1
    <3>4. CASE n = 2
      <4>1. log'.challenges = log.challenges /\ log'.infoReqs = log.infoReqs + 1
        BY <1>0, <2>1, <3>4 DEF Log
      <4>2. log'.challenges + Due' + 1 + log.infoReqs
              <= log.challenges + Due + 0 + log'.infoReqs
        BY <1>0, <2>2, <4>1
      <4>3. n = Len(packets) => Count(packets, CertRequests) <= 1
        BY <3>2
      <4> QED BY <1>3, <3>2, <3>3, <4>2, <4>3, HandlerCredit
    <3>5. CASE n # 2
      <4>1. log' = log
        BY <2>1, <3>5
      <4>2. log'.challenges + Due' + 0 + log.infoReqs
              <= log.challenges + Due + 0 + log'.infoReqs
        BY <1>0, <2>2, <4>1
      <4>3. n = Len(packets) => Count(packets, CertRequests) <= 0
        BY <3>2, <3>5
      <4>4. 0 \in Nat /\ 0 \in {0, 1} /\ ~(0 = 1)
        OBVIOUS
      <4> QED BY <1>3, <3>2, <3>3, <4>2, <4>3, <4>4, HandlerCredit, Zenon
    <3> QED BY <3>4, <3>5
  <2> QED BY <2>3, <2>4
<1>4. CASE HandleIdentify
  <2>1. Ack \in ToHeadUnit /\ Ack.kind \notin CertRequests
    BY ToHeadUnitPackets DEF Ack, Packet, CertRequests
  <2> QED BY <1>3, <1>4, <2>1 DEF HandleIdentify, Taking
<1>5. CASE HandleEndIDPSProceed
  <2>1. Packet("IDPSStatus", 0) \in ToHeadUnit /\ Packet("IDPSStatus", 0).kind \notin CertRequests
    BY ToHeadUnitPackets DEF Packet, CertRequests
  <2> QED BY <1>3, <1>5, <2>1 DEF HandleEndIDPSProceed, Taking
<1>6. CASE HandleCancel
  <2> DEFINE packets == <<Ack, GetAccInfo(Head(InfoTypes))>>
  <2>1. PICK n \in 0..2 : /\ Sends(packets, n)
                          /\ log' = IF n = 0 THEN log ELSE [log EXCEPT !.asked = n - 1]
    BY <1>6, Zenon DEF HandleCancel
  <2>2. rx_buf # <<>> /\ packets \in Seq(ToHeadUnit) /\ Count(packets, CertRequests) = 0
    BY <1>6, OneOrTwo, ToHeadUnitPackets, NoCertRequest, RefillIsTail DEF HandleCancel, Taking
  <2>3. UNCHANGED auth_signature_due
    BY <1>6 DEF HandleCancel
  <2>4. log'.challenges = log.challenges /\ log'.infoReqs = log.infoReqs
    BY <1>0, <2>1 DEF Log
  <2> HIDE DEF packets
  <2> QED BY <1>1, <2>1, <2>2, <2>3, <2>4
<1>7. CASE HandleEndIDPSReset
  <2> DEFINE packets == <<Packet("IDPSStatus", 4)>>
  <2>1. PICK n \in 0..1 : /\ Sends(packets, n)
                          /\ log' = log \/ log' = [log EXCEPT !.grants = @ + 1]
    BY <1>7, Zenon DEF HandleEndIDPSReset
  <2>2. rx_buf # <<>> /\ packets \in Seq(ToHeadUnit) /\ Count(packets, CertRequests) = 0
    BY <1>7, OneOrTwo, ToHeadUnitPackets, NoCertRequest DEF HandleEndIDPSReset, Taking
  <2>3. UNCHANGED auth_signature_due
    BY <1>7 DEF HandleEndIDPSReset
  <2>4. log'.challenges = log.challenges /\ log'.infoReqs = log.infoReqs
    BY <1>0, <2>1 DEF Log
  <2> HIDE DEF packets
  <2> QED BY <1>1, <2>1, <2>2, <2>3, <2>4
<1>8. CASE HandleEndIDPSAbandon
  <2> DEFINE packets == <<Packet("IDPSStatus", 6)>>
  <2>1. PICK n \in 0..1 : Sends(packets, n)
    BY <1>8 DEF HandleEndIDPSAbandon
  <2>2. rx_buf # <<>> /\ packets \in Seq(ToHeadUnit) /\ Count(packets, CertRequests) = 0
    BY <1>8, OneOrTwo, ToHeadUnitPackets, NoCertRequest DEF HandleEndIDPSAbandon, Taking
  <2>3. UNCHANGED auth_signature_due /\ log' = log
    BY <1>8 DEF HandleEndIDPSAbandon, session, history
  <2> HIDE DEF packets
  <2> QED BY <1>1, <2>1, <2>2, <2>3
<1>9. CASE HandleCertSection
  <2> DEFINE packets == <<Packet("SectionAck", 0)>>
  <2>1. PICK n \in 0..1 : Sends(packets, n)
    BY <1>9 DEF HandleCertSection
  <2>2. /\ rx_buf # <<>> /\ packets \in Seq(ToHeadUnit) /\ Count(packets, CertRequests) = 1
        /\ Head(rx_buf).kind \in CertReplies
    BY <1>9, OneOrTwo, ToHeadUnitPackets, NoCertRequest DEF HandleCertSection, Taking, CertReplies
  <2>3. Due' = Due /\ log' = log
    BY <1>9 DEF HandleCertSection, history, Due
  <2>4. log'.challenges + Due' + 1 + log.infoReqs
          <= log.challenges + Due + 1 + log'.infoReqs
    BY <1>0, <2>3
  <2> HIDE DEF packets
  <2> QED BY <2>1, <2>2, <2>4, HandlerCredit
<1>10. CASE HandleCertComplete
  <2> DEFINE packets == <<Packet("CertAck", 0), GetAccInfo(Head(InfoTypes))>>
  <2>1. PICK n \in 0..2 :
          /\ Sends(packets, n)
          /\ IF n = 0 THEN UNCHANGED <<auth_signature_due, log>>
             ELSE log' = [log EXCEPT !.certAcks = @ + 1, !.asked = n - 1]
    BY <1>10, Zenon DEF HandleCertComplete
  <2>2. /\ rx_buf # <<>> /\ packets \in Seq(ToHeadUnit) /\ Count(packets, CertRequests) = 0
        /\ Head(rx_buf).kind \in CertReplies
    BY <1>10, OneOrTwo, ToHeadUnitPackets, NoCertRequest, RefillIsTail
    DEF HandleCertComplete, Taking, CertReplies
  <2>3. log'.challenges = log.challenges /\ log'.infoReqs = log.infoReqs
    BY <1>0, <2>1 DEF Log
  <2>4. Due' \in {0, 1}
    BY DEF Due
  <2>5. log'.challenges + Due' + 0 + log.infoReqs
          <= log.challenges + Due + 1 + log'.infoReqs
    BY <1>0, <2>3, <2>4
  <2> HIDE DEF packets
  <2> QED BY <2>1, <2>2, <2>5, HandlerCredit
<1>11. CASE HandleAccessoryInfo
  <2>0. rx_buf # <<>>
    BY <1>11 DEF HandleAccessoryInfo, Taking
  <2>1. CASE RequestNextAccessoryInfo
    <3> DEFINE packets == <<GetAccInfo(Head(accessory_info_queue))>>
    <3>1. PICK n \in 0..1 : /\ Sends(packets, n)
                            /\ log' = [log EXCEPT !.asked = @ + n]
      BY <2>1 DEF RequestNextAccessoryInfo
    <3>2. Head(accessory_info_queue) \in Nat
      BY <2>1, TailIsTail DEF RequestNextAccessoryInfo, TypeOK, SessionTypeOK
    <3>3. packets \in Seq(ToHeadUnit) /\ Count(packets, CertRequests) = 0
      BY <3>2, OneOrTwo, ToHeadUnitPackets, NoCertRequest
    <3>4. UNCHANGED auth_signature_due
      BY <2>1 DEF RequestNextAccessoryInfo
    <3>5. log'.challenges = log.challenges /\ log'.infoReqs = log.infoReqs
      BY <1>0, <3>1 DEF Log
    <3> HIDE DEF packets
    <3> QED BY <1>1, <2>0, <3>1, <3>3, <3>4, <3>5
  <2>2. CASE RequestSignature
    <3>1. Due = 1 /\ Due' = 0
      BY <2>2 DEF RequestSignature, ChallengeReady, Due
    <3>2. CASE auth_retry_counter' <= RetryMax
      <4> DEFINE packets == <<Packet("GetSignature", auth_retry_counter')>>
      <4>1. PICK n \in 0..1 : /\ Sends(packets, n)
                              /\ log' = [log EXCEPT !.challenges = @ + n]
        BY <2>2, <3>2 DEF RequestSignature
      <4>2. auth_retry_counter' \in Nat
        BY DEF TypeOK, SessionTypeOK
      <4>3. packets \in Seq(ToHeadUnit) /\ Count(packets, CertRequests) = 0
        BY <4>2, OneOrTwo, ToHeadUnitPackets, NoCertRequest
      <4>4. log'.challenges = log.challenges + n /\ log'.infoReqs = log.infoReqs
        BY <1>0, <4>1 DEF Log
      <4>5. log'.challenges + Due' + 0 + log.infoReqs
              <= log.challenges + Due + 0 + log'.infoReqs
        BY <1>0, <3>1, <4>4
      <4> HIDE DEF packets
      <4> QED BY <2>0, <4>1, <4>3, <4>5, HandlerCredit
    <3>3. CASE ~(auth_retry_counter' <= RetryMax)
      <4> DEFINE P == Pending(CertRequests, CertReplies)
      <4>1. /\ rx_buf' = Tail(rx_buf) /\ wire' = <<>> /\ pipe' = <<>> /\ log' = log
        BY <2>2, <3>3 DEF RequestSignature
      <4>2. P \in Nat /\ P' \in Nat
        BY PendingType, PendingNextType DEF TypeOK
      <4>3. P' <= P
        <5>1. P' = Count(<<>>, CertRequests) + Count(<<>>, CertReplies)
                     + Count(Tail(rx_buf), CertReplies)
          BY <4>1 DEF Pending, Count
        <5>2. /\ Count(rx_buf, CertReplies)
                   = Count(Tail(rx_buf), CertReplies)
                       + (IF Head(rx_buf).kind \in CertReplies THEN 1 ELSE 0)
              /\ Tail(rx_buf) \in Seq(FromHeadUnit)
          BY <2>0, CountTail DEF TypeOK, LinkTypeOK
        <5>3. Count(Tail(rx_buf), CertReplies) \in Nat
          BY <5>2, CountType
        <5>4. Count(wire, CertRequests) \in Nat /\ Count(pipe, CertReplies) \in Nat
          BY PendingType DEF TypeOK
        <5> QED BY <5>1, <5>2, <5>3, <5>4, CountEmpty DEF Pending
      <4> HIDE DEF P
      <4>4. log.challenges + Due + P <= log.infoReqs
        BY DEF CreditInv, P
      <4>5. log'.challenges + Due' + P' <= log'.infoReqs
        BY <1>0, <3>1, <4>1, <4>2, <4>3, <4>4
      <4> QED BY <4>5 DEF CreditInv, P
    <3> QED BY <3>2, <3>3
  <2>3. CASE Sends(<<>>, 0) /\ UNCHANGED <<auth_signature_due, log>>
    <3>1. <<>> \in Seq(ToHeadUnit) /\ Count(<<>>, CertRequests) = 0
      BY EmptySequence, CountEmpty
    <3> QED BY <1>1, <2>0, <2>3, <3>1
  <2> QED BY <1>11, <2>1, <2>2, <2>3 DEF HandleAccessoryInfo
<1>12. CASE HandleSignature
  <2> DEFINE packets == <<Packet("StatusAck", 0)>>
  <2>1. PICK n \in 0..1 : /\ Sends(packets, n)
                          /\ log' = [log EXCEPT !.accepted = @ + n]
    BY <1>12 DEF HandleSignature
  <2>2. rx_buf # <<>> /\ packets \in Seq(ToHeadUnit) /\ Count(packets, CertRequests) = 0
    BY <1>12, OneOrTwo, ToHeadUnitPackets, NoCertRequest DEF HandleSignature, Taking
  <2>3. UNCHANGED auth_signature_due
    BY <1>12 DEF HandleSignature, session
  <2>4. log'.challenges = log.challenges /\ log'.infoReqs = log.infoReqs
    BY <1>0, <2>1 DEF Log
  <2> HIDE DEF packets
  <2> QED BY <1>1, <2>1, <2>2, <2>3, <2>4
<1>13. CASE Connect \/ Disconnect \/ ReadChunk \/ Initiate \/ Receive \/ UNCHANGED vars
  BY <1>13, LinkCredit
<1> QED
  BY <1>2, <1>4, <1>5, <1>6, <1>7, <1>8, <1>9, <1>10, <1>11, <1>12, <1>13
  DEF Next, ProcessRx

\* A head unit is challenged at most once per request for its certificate, whatever it
\* cancels, resets or leaves unanswered and whichever connections fail meanwhile.
THEOREM ChallengesFollowRequests == Spec => []ChallengesWithinRequests
<1>1. TypeOK /\ CreditInv => ChallengesWithinRequests
  <2> SUFFICES ASSUME TypeOK, CreditInv PROVE ChallengesWithinRequests
    OBVIOUS
  <2> DEFINE P == Pending(CertRequests, CertReplies)
  <2>1. P \in Nat /\ Due \in Nat /\ log.challenges \in Nat /\ log.infoReqs \in Nat
    BY PendingType DEF TypeOK, HistoryTypeOK, Due
  <2> HIDE DEF P
  <2>2. log.challenges + Due + P <= log.infoReqs
    BY DEF CreditInv, P
  <2> QED BY <2>1, <2>2 DEF ChallengesWithinRequests
<1>2. TypeOK /\ CreditInv /\ [Next]_vars => DownIsEmpty'
  BY DownStep DEF TypeOK, CreditInv
<1>3. QED BY TypeCorrect, CreditInit, CreditStep, <1>1, <1>2, PTL DEF Spec

-----------------------------------------------------------------------------
(***************************************************************************)
(* FreshHandshake, when every connection has a State of its own: idps_done *)
(* then stands for a request on this very connection.                      *)
(***************************************************************************)
FreshInv == link = "up" => ((idps_done \/ conn.identified) => conn.asked)

LEMMA FreshInit == Init => FreshInv
BY DEF Init, FreshInv

LEMMA FreshStep == FreshState /\ TypeOK /\ FreshInv /\ [Next]_vars => FreshInv'
<1> SUFFICES ASSUME FreshState, TypeOK, FreshInv, [Next]_vars PROVE FreshInv'
  OBVIOUS
<1>1. CASE Connect
  BY <1>1 DEF Connect, StateOfConnection, NewState, NewConn, FreshInv
<1>2. CASE Disconnect
  BY <1>2 DEF Disconnect, FreshInv
<1>3. ASSUME link' = link \/ link' # "up", UNCHANGED conn, ~idps_done' \/ idps_done' = idps_done
      PROVE  FreshInv'
  BY <1>3 DEF FreshInv
<1>4. CASE ReadChunk \/ Initiate \/ Receive \/ UNCHANGED vars
  BY <1>3, <1>4 DEF ReadChunk, Initiate, Receive, vars, session, history
<1>5. ASSUME NEW reply, InitiateAuthentication(reply) PROVE FreshInv'
  <2>1. PICK n \in 0..Len(AuthPackets(reply)) :
          /\ Sends(AuthPackets(reply), n)
          /\ idps_done' = IF n > 0 THEN TRUE ELSE idps_done
          /\ conn' = [identified |-> IF n = Len(AuthPackets(reply)) THEN TRUE
                                     ELSE conn.identified,
                      asked      |-> IF n = 2 THEN TRUE ELSE conn.asked]
    BY <1>5 DEF InitiateAuthentication
  <2>2. CASE n # Len(AuthPackets(reply))
    BY <2>1, <2>2 DEF Sends, FreshInv
  <2>3. CASE n = Len(AuthPackets(reply)) /\ ~idps_done
    <3>1. n = 2
      BY <2>3 DEF AuthPackets
    <3> QED BY <2>1, <3>1 DEF FreshInv
  <2>4. CASE n = Len(AuthPackets(reply)) /\ idps_done
    <3>1. n = 1
      BY <2>4 DEF AuthPackets
    <3>2. link = "up" /\ link' = link
      BY <2>1, <2>4, <3>1 DEF Sends
    <3>3. conn.asked
      BY <2>4, <3>2 DEF FreshInv
    <3> QED BY <2>1, <3>1, <3>3 DEF FreshInv
  <2> QED BY <2>2, <2>3, <2>4
<1>6. CASE ProcessRx
  <2>1. link' = link \/ link' # "up"
    <3>1. CASE Raises
      BY <3>1 DEF Raises
    <3>2. ASSUME NEW packets, NEW n, Sends(packets, n) PROVE link' = link \/ link' # "up"
      BY <3>2 DEF Sends
    <3> QED BY <1>6, <3>1, <3>2, HandlerSends DEF TypeOK
  <2>2. CASE HandleIdentify \/ HandleEndIDPSProceed
    BY <1>5, <2>2 DEF HandleIdentify, HandleEndIDPSProceed
  <2>3. CASE HandleEndIDPSReset
    <3>1. UNCHANGED conn /\ (~idps_done' \/ idps_done' = idps_done)
      BY <2>3 DEF HandleEndIDPSReset
    <3> QED BY <1>3, <2>1, <3>1
  <2>4. CASE HandleQuery \/ HandleCancel \/ HandleEndIDPSAbandon \/ HandleCertSection
               \/ HandleCertComplete \/ HandleAccessoryInfo \/ HandleSignature
    <3>1. UNCHANGED conn /\ idps_done' = idps_done
      BY <2>4 DEF HandleQuery, HandleCancel, HandleEndIDPSAbandon, HandleCertSection,
             HandleCertComplete, HandleAccessoryInfo, HandleSignature, session, history
    <3> QED BY <1>3, <2>1, <3>1
  <2> QED BY <1>6, <2>2, <2>3, <2>4 DEF ProcessRx
<1> QED BY <1>1, <1>2, <1>4, <1>6 DEF Next

\* Over RFCOMM a connection on which the head unit identified itself has been asked for
\* the certificate, whatever went wrong on the connections before it.  (Over USB, where
\* one State outlives the connections, a run shows that it need not have been.)
THEOREM FreshOnEveryConnection ==
  ASSUME FreshState PROVE Spec => []FreshHandshake
<1>1. TypeOK /\ FreshInv => FreshHandshake
  BY DEF FreshInv, FreshHandshake
<1>2. TypeOK /\ FreshInv /\ [Next]_vars => FreshInv'
  BY FreshStep
<1>3. QED BY TypeCorrect, FreshInit, <1>1, <1>2, PTL DEF Spec

-----------------------------------------------------------------------------
(***************************************************************************)
(* A head unit that neither cancels an authentication nor resets IDPS, on  *)
(* either bearer: what it and the daemon ask each other is one thread.     *)
(***************************************************************************)
Orderly(p) == ~(p.kind = "Identify" /\ p.arg = 0) /\ ~(p.kind = "EndIDPS" /\ p.arg = 1)

OrderlyHeadUnit == \A p \in Initiations : Orderly(p)

Requests == {"GetInfo", "SectionAck", "GetAccInfo", "GetSignature"}

InFlight == Range(wire) \cup Range(pipe) \cup Range(rx_buf)

Sections(n) == [i \in 1..n |-> i - 1]

\* The certificate was asked for and is not acked yet.
Unacked ==
  /\ log.infoReqs = 1 /\ log.certAcks = 0 /\ log.asked = 0
  /\ log.challenges = 0 /\ log.accepted = 0

\* It is acked, and the accessory information is being asked for.
Asking ==
  /\ log.infoReqs = 1 /\ log.certAcks = 1 /\ log.challenges = 0 /\ log.accepted = 0
  /\ auth_signature_due = TRUE
  /\ log.asked >= 1 /\ log.asked + Len(accessory_info_queue) = Len(InfoTypes)

\* What a packet of the thread says of the state of the one who waits for it.
Expected(p) ==
  /\ p.kind = "GetInfo" => Unacked /\ cert_buf = <<>>
  /\ p.kind = "RetInfo10" => Unacked /\ cert_buf = <<>> /\ 1 \in AuthVersions
  /\ p.kind = "RetInfo" => /\ Unacked /\ p.arg = section /\ section <= LastSection
                           /\ cert_buf = Sections(section)
  /\ p.kind = "SectionAck" => /\ Unacked /\ section < LastSection
                              /\ cert_buf = Sections(section + 1)
  /\ p.kind \in {"GetAccInfo", "RetAccInfo"} => Asking
  /\ p.kind \in {"GetSignature", "RetSignature"} =>
       log.certAcks = 1 /\ log.challenges = 1 /\ log.accepted = 0

SingleThread == Pending(Requests, Replies) <= (IF idps_done THEN 1 ELSE 0)
Unasked      == idps_done = FALSE => log = NewLog /\ cert_buf = <<>>

\* One packet of the thread at most, none before the certificate is asked for, and each
\* of them where the state expects it.
ThreadInv ==
  /\ SingleThread
  /\ Unasked
  /\ \A p \in InFlight : Expected(p)
  /\ CertificateWhole

OrderlyPackets == \A p \in Range(pipe) \cup Range(rx_buf) : Orderly(p)

TrackInv ==
  /\ DownIsEmpty
  /\ OrderlyPackets
  /\ ThreadInv

-----------------------------------------------------------------------------
\* Of packets that belong to no dialogue nothing is expected.
Idle(p) == p.kind \notin Requests \cup Replies

LEMMA IdleExpected == \A p : Idle(p) => Expected(p) /\ Expected(p)'
BY DEF Idle, Expected, Requests, Replies

LEMMA IdlePackets ==
  /\ Idle(Ack) /\ Idle(Packet("CertAck", 0)) /\ Idle(Packet("StatusAck", 0))
  /\ \A a : Idle(Packet("IDPSStatus", a))
  /\ \A p \in Initiations : Idle(p)
<1>1. \A p \in Initiations : p.kind \in Dialogues
  BY HeadUnitAssumption
<1>2. \A p \in Initiations : Idle(p)
  BY <1>1 DEF Idle, Dialogues, Requests, Replies
<1> QED BY <1>2 DEF Idle, Ack, Packet, Requests, Replies

LEMMA SameExpected ==
  ASSUME UNCHANGED <<session, log, section>>
  PROVE  \A p : Expected(p) => Expected(p)'
<1>1. cert_buf' = cert_buf /\ auth_signature_due' = auth_signature_due
      /\ accessory_info_queue' = accessory_info_queue /\ log' = log /\ section' = section
  BY DEF session
<1> QED BY <1>1 DEF Expected, Unacked, Asking

\* A sequence without a packet of these kinds.
LEMMA NoneInRange ==
  ASSUME NEW S, NEW s \in Seq(S), NEW K, Count(s, K) = 0
  PROVE  \A p \in Range(s) : p.kind \notin K
BY CountNone DEF Range

LEMMA RangeKinds ==
  ASSUME LinkTypeOK
  PROVE  /\ \A p \in Range(wire) : p.kind \notin Replies
         /\ \A p \in Range(pipe) \cup Range(rx_buf) : p.kind \notin Requests
<1>1. \A p \in ToHeadUnit : p.kind \notin Replies
  BY DEF ToHeadUnit, Replies
<1>2. \A p \in FromHeadUnit : p.kind \notin Requests
  BY DEF FromHeadUnit, Replies, Dialogues, Requests
<1>3. Range(wire) \subseteq ToHeadUnit
  BY RangeOfSeq DEF LinkTypeOK
<1>4. Range(pipe) \subseteq FromHeadUnit /\ Range(rx_buf) \subseteq FromHeadUnit
  BY RangeOfSeq DEF LinkTypeOK
<1> QED BY <1>1, <1>2, <1>3, <1>4

\* With the thread's packet in hand, all the others are idle.
LEMMA AloneInHand ==
  ASSUME LinkTypeOK, SingleThread, rx_buf # <<>>, Head(rx_buf).kind \in Replies
  PROVE  /\ idps_done
         /\ \A p \in Range(wire) \cup Range(pipe) \cup Range(Tail(rx_buf)) : Idle(p)
<1>1. wire \in Seq(ToHeadUnit) /\ pipe \in Seq(FromHeadUnit) /\ rx_buf \in Seq(FromHeadUnit)
  BY DEF LinkTypeOK
<1>2. /\ Tail(rx_buf) \in Seq(FromHeadUnit)
      /\ Count(rx_buf, Replies) = Count(Tail(rx_buf), Replies) + 1
  BY <1>1, CountTail
<1>3. /\ Count(wire, Requests) \in Nat /\ Count(pipe, Replies) \in Nat
      /\ Count(Tail(rx_buf), Replies) \in Nat
  BY <1>1, <1>2, CountType
<1>4. /\ idps_done
      /\ Count(wire, Requests) = 0 /\ Count(pipe, Replies) = 0
      /\ Count(Tail(rx_buf), Replies) = 0
  BY <1>2, <1>3 DEF SingleThread, Pending
<1>5. /\ \A p \in Range(wire) : p.kind \notin Requests
      /\ \A p \in Range(pipe) : p.kind \notin Replies
      /\ \A p \in Range(Tail(rx_buf)) : p.kind \notin Replies
  BY <1>1, <1>2, <1>4, NoneInRange
<1>6. Range(Tail(rx_buf)) \subseteq Range(rx_buf)
  BY <1>1 DEF Range
<1> QED BY <1>4, <1>5, <1>6, RangeKinds DEF Idle

LEMMA AloneOnWire ==
  ASSUME LinkTypeOK, SingleThread, wire # <<>>, Head(wire).kind \in Requests
  PROVE  /\ idps_done
         /\ \A p \in Range(Tail(wire)) \cup Range(pipe) \cup Range(rx_buf) : Idle(p)
<1>1. wire \in Seq(ToHeadUnit) /\ pipe \in Seq(FromHeadUnit) /\ rx_buf \in Seq(FromHeadUnit)
  BY DEF LinkTypeOK
<1>2. /\ Tail(wire) \in Seq(ToHeadUnit)
      /\ Count(wire, Requests) = Count(Tail(wire), Requests) + 1
  BY <1>1, CountTail
<1>3. /\ Count(Tail(wire), Requests) \in Nat /\ Count(pipe, Replies) \in Nat
      /\ Count(rx_buf, Replies) \in Nat
  BY <1>1, <1>2, CountType
<1>4. /\ idps_done
      /\ Count(Tail(wire), Requests) = 0 /\ Count(pipe, Replies) = 0
      /\ Count(rx_buf, Replies) = 0
  BY <1>2, <1>3 DEF SingleThread, Pending
<1>5. /\ \A p \in Range(Tail(wire)) : p.kind \notin Requests
      /\ \A p \in Range(pipe) : p.kind \notin Replies
      /\ \A p \in Range(rx_buf) : p.kind \notin Replies
  BY <1>1, <1>2, <1>4, NoneInRange
<1>6. Range(Tail(wire)) \subseteq Range(wire)
  BY <1>1 DEF Range
<1> QED BY <1>4, <1>5, <1>6, RangeKinds DEF Idle

LEMMA NothingBefore ==
  ASSUME LinkTypeOK, SingleThread, ~idps_done
  PROVE  \A p \in InFlight : Idle(p)
<1>1. wire \in Seq(ToHeadUnit) /\ pipe \in Seq(FromHeadUnit) /\ rx_buf \in Seq(FromHeadUnit)
  BY DEF LinkTypeOK
<1>2. /\ Count(wire, Requests) \in Nat /\ Count(pipe, Replies) \in Nat
      /\ Count(rx_buf, Replies) \in Nat
  BY <1>1, CountType
<1>3. Count(wire, Requests) = 0 /\ Count(pipe, Replies) = 0 /\ Count(rx_buf, Replies) = 0
  BY <1>2 DEF SingleThread, Pending
<1>4. /\ \A p \in Range(wire) : p.kind \notin Requests
      /\ \A p \in Range(pipe) : p.kind \notin Replies
      /\ \A p \in Range(rx_buf) : p.kind \notin Replies
  BY <1>1, <1>3, NoneInRange
<1> QED BY <1>4, RangeKinds DEF Idle, InFlight

\* What is in flight after a handler's writes.
LEMMA SendsInFlight ==
  ASSUME LinkTypeOK, rx_buf # <<>>,
         NEW packets \in Seq(ToHeadUnit), NEW n, Sends(packets, n)
  PROVE  /\ n = Len(packets) =>
              InFlight' \subseteq Range(wire) \cup Range(pipe) \cup Range(Tail(rx_buf))
                                    \cup Range(packets)
         /\ n # Len(packets) => InFlight' \subseteq Range(Tail(rx_buf))
         /\ Range(pipe)' \cup Range(rx_buf)' \subseteq Range(pipe) \cup Range(rx_buf)
         /\ Range(Tail(rx_buf)) \subseteq Range(rx_buf)
<1>1. wire \in Seq(ToHeadUnit) /\ rx_buf \in Seq(FromHeadUnit)
  BY DEF LinkTypeOK
<1>2. Range(Tail(rx_buf)) \subseteq Range(rx_buf)
  BY <1>1 DEF Range
<1>3. Range(wire \o packets) = Range(wire) \cup Range(packets)
  BY <1>1, RangeConcatenation
<1>4. Range(<<>>) = {}
  BY DEF Range
<1>5. rx_buf' = Tail(rx_buf)
  BY DEF Sends
<1>6. CASE n = Len(packets)
  <2>1. wire' = wire \o packets /\ pipe' = pipe
    BY <1>6 DEF Sends
  <2> QED BY <1>2, <1>3, <1>5, <1>6, <2>1 DEF InFlight
<1>7. CASE n # Len(packets)
  <2>1. wire' = <<>> /\ pipe' = <<>>
    BY <1>7 DEF Sends
  <2> QED BY <1>2, <1>4, <1>5, <1>7, <2>1 DEF InFlight
<1> QED BY <1>6, <1>7

\* A handler of the thread's packet: the thread goes on with a request, or ends.
LEMMA HandlesReply ==
  ASSUME LinkTypeOK, LinkTypeOK', SingleThread, rx_buf # <<>>, Head(rx_buf).kind \in Replies,
         idps_done' = idps_done,
         NEW packets \in Seq(ToHeadUnit), NEW n, Sends(packets, n),
         n = Len(packets) =>
           Count(packets, Requests) <= 1 /\ \A p \in Range(packets) : Expected(p)'
  PROVE  /\ SingleThread' /\ idps_done /\ idps_done'
         /\ \A p \in InFlight' : Expected(p)'
<1> DEFINE P == Pending(Requests, Replies)
           c == Count(packets, Requests)
<1>1. /\ idps_done
      /\ \A p \in Range(wire) \cup Range(pipe) \cup Range(Tail(rx_buf)) : Idle(p)
  BY AloneInHand
<1>2. \A p \in InFlight' : Expected(p)'
  BY <1>1, SendsInFlight, IdleExpected
<1>3. P \in Nat /\ P' \in Nat /\ c \in Nat
  BY PendingType, PendingNextType, CountType
<1>4. /\ n = Len(packets) => P' = P + c - 1
      /\ n # Len(packets) => P' <= P - 1
  BY SendsPending
<1>5. P <= 1
  BY <1>1 DEF SingleThread
<1> HIDE DEF P
<1>6. P' <= 1
  BY <1>3, <1>4, <1>5
<1>7. SingleThread'
  BY <1>1, <1>6 DEF SingleThread, P
<1> QED BY <1>1, <1>2, <1>7

\* A handler of a packet that is no reply, and that asks for nothing: the state of the
\* thread stays what it is.
LEMMA HandlesIdle ==
  ASSUME LinkTypeOK, LinkTypeOK', ThreadInv, rx_buf # <<>>, UNCHANGED <<session, log>>,
         NEW packets \in Seq(ToHeadUnit), NEW n, Sends(packets, n),
         Count(packets, Requests) = 0, \A p \in Range(packets) : Idle(p)
  PROVE  ThreadInv'
<1> DEFINE P == Pending(Requests, Replies)
<1>1. UNCHANGED <<idps_done, cert_buf, log>> /\ section' = section
  BY DEF session, Sends
<1>2. P \in Nat /\ P' \in Nat
  BY PendingType, PendingNextType
<1>3. P' <= P
  BY <1>2, SendsPending
<1> HIDE DEF P
<1>4. SingleThread'
  BY <1>1, <1>2, <1>3 DEF ThreadInv, SingleThread, P
<1>5. \A p : Expected(p) => Expected(p)'
  BY <1>1, SameExpected
<1>6. \A p \in InFlight' : p \in InFlight \/ Idle(p)
  BY SendsInFlight DEF InFlight
<1>7. \A p \in InFlight' : Expected(p)'
  BY <1>5, <1>6, IdleExpected DEF ThreadInv
<1>8. Unasked' /\ CertificateWhole'
  BY <1>1 DEF ThreadInv, Unasked, CertificateWhole
<1> QED BY <1>4, <1>7, <1>8 DEF ThreadInv

OrderStep == [Order!Next]_(Order!vars)

LEMMA UnchangedEntry ==
  ASSUME NEW l \in Log PROVE [l EXCEPT !.challenges = l.challenges] = l
BY DEF Log

LEMMA SameOrder == ASSUME log' = log PROVE OrderStep
BY DEF OrderStep, Order!vars

LEMMA RangeOne == \A p, q : Range(<<p>>) = {p} /\ Range(<<p, q>>) = {p, q} /\ Range(<<>>) = {}
<1> TAKE p, q
<1>1. DOMAIN <<p>> = {1} /\ DOMAIN <<p, q>> = {1, 2} /\ DOMAIN <<>> = {}
  OBVIOUS
<1> QED BY <1>1 DEF Range

LEMMA ThreadRequests ==
  \A a \in Nat :
    /\ Count(<<Ack>>, Requests) = 0
    /\ Count(<<Packet("IDPSStatus", a)>>, Requests) = 0
    /\ Count(<<Packet("SectionAck", 0)>>, Requests) = 1
    /\ Count(<<Packet("CertAck", 0), GetAccInfo(a)>>, Requests) = 1
    /\ Count(<<GetAccInfo(a)>>, Requests) = 1
    /\ Count(<<Packet("GetSignature", a)>>, Requests) = 1
    /\ Count(<<Packet("StatusAck", 0)>>, Requests) = 0
BY CountOne, CountTwo DEF Ack, GetAccInfo, Packet, Requests

LEMMA QueryThread ==
  ASSUME TypeOK, TypeOK', ThreadInv, HandleQuery \/ HandleEndIDPSAbandon
  PROVE  ThreadInv' /\ OrderStep
<1>0. PICK packets \in {<<Ack>>, <<Packet("IDPSStatus", 6)>>} : \E n : Sends(packets, n)
  BY DEF HandleQuery, HandleEndIDPSAbandon
<1>1. PICK n : Sends(packets, n)
  BY <1>0
<1>2. /\ packets \in Seq(ToHeadUnit) /\ Count(packets, Requests) = 0
      /\ \A p \in Range(packets) : Idle(p)
  <2>1. ASSUME NEW q \in ToHeadUnit, Idle(q)
        PROVE  /\ <<q>> \in Seq(ToHeadUnit) /\ Count(<<q>>, Requests) = 0
               /\ \A p \in Range(<<q>>) : Idle(p)
    BY <2>1, OneOrTwo, CountOne, RangeOne DEF Idle
  <2>2. Packet("IDPSStatus", 6) \in ToHeadUnit /\ Idle(Packet("IDPSStatus", 6))
    BY ToHeadUnitPackets, IdlePackets
  <2>3. Ack \in ToHeadUnit /\ Idle(Ack)
    BY ToHeadUnitPackets, IdlePackets
  <2> QED BY <1>1, <2>1, <2>2, <2>3
<1>3. rx_buf # <<>> /\ UNCHANGED <<session, log>>
  BY DEF HandleQuery, HandleEndIDPSAbandon, Taking, history
<1> QED BY <1>1, <1>2, <1>3, HandlesIdle, SameOrder DEF TypeOK

LEMMA InitiateThread ==
  ASSUME TypeOK, TypeOK', ThreadInv, rx_buf # <<>>,
         NEW reply \in ToHeadUnit, Idle(reply), InitiateAuthentication(reply)
  PROVE  ThreadInv' /\ OrderStep
<1>1. PICK n \in 0..Len(AuthPackets(reply)) :
        /\ Sends(AuthPackets(reply), n)
        /\ idps_done' = IF n > 0 THEN TRUE ELSE idps_done
        /\ log' = IF n = 2 THEN [log EXCEPT !.infoReqs = @ + 1] ELSE log
  BY DEF InitiateAuthentication
<1>2. /\ UNCHANGED <<cert_buf, auth_retry_counter, accessory_info_queue, auth_signature_due>>
      /\ section' = section
  BY <1>1 DEF InitiateAuthentication, Sends
<1>3. CASE idps_done
  <2>1. AuthPackets(reply) = <<reply>> /\ n # 2 /\ log' = log /\ idps_done' = idps_done
    BY <1>1, <1>3 DEF AuthPackets, TypeOK, SessionTypeOK
  <2>2. /\ <<reply>> \in Seq(ToHeadUnit) /\ Count(<<reply>>, Requests) = 0
        /\ \A p \in Range(<<reply>>) : Idle(p)
    BY OneOrTwo, CountOne, RangeOne DEF Idle
  <2>3. Sends(<<reply>>, n) /\ UNCHANGED <<session, log>>
    BY <1>1, <1>2, <2>1 DEF session
  <2> QED BY <2>1, <2>2, <2>3, HandlesIdle, SameOrder DEF TypeOK
<1>4. CASE ~idps_done
  <2> DEFINE packets == <<reply, GetInfo>>
             P == Pending(Requests, Replies)
  <2>1. AuthPackets(reply) = packets /\ packets \in Seq(ToHeadUnit) /\ Len(packets) = 2
    BY <1>4, OneOrTwo, ToHeadUnitPackets DEF AuthPackets
  <2>2. Count(packets, Requests) = 1 /\ Range(packets) = {reply, GetInfo}
    BY CountTwo, RangeOne DEF Idle, GetInfo, Packet, Requests
  <2>3. \A p \in InFlight : Idle(p)
    BY <1>4, NothingBefore DEF TypeOK, ThreadInv
  <2>4. log = NewLog /\ cert_buf = <<>>
    BY <1>4 DEF ThreadInv, Unasked, TypeOK, SessionTypeOK
  <2>5. P \in Nat /\ P' \in Nat /\ P = 0
    BY <1>4, PendingType, PendingNextType DEF TypeOK, ThreadInv, SingleThread
  <2> HIDE DEF packets
  <2>6. Sends(packets, n)
    BY <1>1, <2>1
  <2>7. CASE n = 2
    <3>1. idps_done' = TRUE /\ log' = [NewLog EXCEPT !.infoReqs = 1]
      BY <1>1, <2>4, <2>7 DEF NewLog
    <3>2. Unacked' /\ cert_buf' = <<>>
      BY <1>2, <2>4, <3>1 DEF Unacked, NewLog
    <3>3. Expected(GetInfo)'
      BY <3>2 DEF Expected, GetInfo, Packet
    <3>4. InFlight' \subseteq InFlight \cup {reply, GetInfo}
      BY <2>1, <2>2, <2>6, <2>7, SendsInFlight DEF InFlight, TypeOK
    <3>5. \A p \in InFlight' : Expected(p)'
      BY <2>3, <3>3, <3>4, IdleExpected
    <3>6. P' <= 1
      <4>1. P' <= P + Count(packets, Requests)
        BY <2>1, <2>2, <2>5, <2>6, <2>7, SendsPending DEF TypeOK
      <4> QED BY <2>2, <2>5, <4>1
    <3>7. SingleThread' /\ Unasked' /\ CertificateWhole'
      BY <3>1, <3>2, <3>6 DEF SingleThread, Unasked, CertificateWhole, Unacked
    <3>8. OrderStep
      BY <2>4, <3>1 DEF OrderStep, Order!Next, Order!AskCertificate, NewLog
    <3> QED BY <3>5, <3>7, <3>8 DEF ThreadInv
  <2>8. CASE n # 2
    <3>1. log' = log /\ n # Len(packets)
      BY <1>1, <2>1, <2>8
    <3>2. InFlight' \subseteq InFlight
      BY <2>1, <2>6, <3>1, SendsInFlight DEF InFlight, TypeOK
    <3>3. \A p \in InFlight' : Expected(p)'
      BY <2>3, <3>2, IdleExpected
    <3>4. P' = 0
      <4>1. P' <= P
        <5>1. P' <= P - (IF Head(rx_buf).kind \in Replies THEN 1 ELSE 0)
          BY <2>1, <2>6, <3>1, SendsPending DEF TypeOK
        <5> QED BY <2>5, <5>1
      <4> QED BY <2>5, <4>1
    <3>5. SingleThread'
      BY <3>4 DEF SingleThread
    <3>6. Unasked' /\ CertificateWhole'
      BY <1>2, <2>4, <3>1 DEF Unasked, CertificateWhole, NewLog
    <3> QED BY <3>1, <3>3, <3>5, <3>6, SameOrder DEF ThreadInv
  <2> QED BY <2>7, <2>8
<1> QED BY <1>3, <1>4

LEMMA HeadExpected ==
  ASSUME LinkTypeOK, ThreadInv, rx_buf # <<>>
  PROVE  Head(rx_buf) \in FromHeadUnit /\ Expected(Head(rx_buf))
<1>1. rx_buf \in Seq(FromHeadUnit)
  BY DEF LinkTypeOK
<1>2. Head(rx_buf) \in FromHeadUnit /\ Head(rx_buf) \in Range(rx_buf)
  BY <1>1 DEF Range
<1> QED BY <1>2 DEF ThreadInv, InFlight

LEMMA SectionsAppend ==
  ASSUME NEW n \in Nat
  PROVE  Append(Sections(n), n) = Sections(n + 1)
<1>1. Sections(n) \in Seq(Nat) /\ Len(Sections(n)) = n
  BY DEF Sections
<1>2. Sections(n + 1) \in Seq(Nat) /\ Len(Sections(n + 1)) = n + 1
  BY DEF Sections
<1>3. Append(Sections(n), n) \in Seq(Nat) /\ Len(Append(Sections(n), n)) = n + 1
  BY <1>1
<1>4. \A i \in 1..n + 1 : Append(Sections(n), n)[i] = Sections(n + 1)[i]
  BY <1>1 DEF Sections
<1> QED BY <1>2, <1>3, <1>4, SeqEqual

LEMMA SectionThread ==
  ASSUME TypeOK, TypeOK', ThreadInv, HandleCertSection
  PROVE  ThreadInv' /\ OrderStep
<1> DEFINE packets == <<Packet("SectionAck", 0)>>
<1>1. PICK n \in 0..1 : Sends(packets, n)
  BY DEF HandleCertSection
<1>2. /\ rx_buf # <<>> /\ Head(rx_buf).kind = "RetInfo" /\ Head(rx_buf).arg < LastSection
      /\ cert_buf' = Append(cert_buf, Head(rx_buf).arg) /\ idps_done' = idps_done /\ log' = log
  BY DEF HandleCertSection, Taking, CertCollected, history
<1>3. /\ Unacked /\ Head(rx_buf).arg = section /\ section <= LastSection
      /\ cert_buf = Sections(section)
  BY <1>2, HeadExpected DEF Expected, TypeOK
<1>4. cert_buf' = Sections(section + 1) /\ section' = section
  BY <1>1, <1>2, <1>3, SectionsAppend DEF Sends, TypeOK, LinkTypeOK
<1>5. Unacked'
  BY <1>2, <1>3 DEF Unacked
<1>6. Expected(Packet("SectionAck", 0))'
  BY <1>2, <1>3, <1>4, <1>5 DEF Expected, Packet
<1>7. /\ packets \in Seq(ToHeadUnit) /\ Count(packets, Requests) = 1
      /\ Range(packets) = {Packet("SectionAck", 0)}
  BY OneOrTwo, ToHeadUnitPackets, ThreadRequests, RangeOne
<1>8. \A p \in Range(packets) : Expected(p)'
  BY <1>6, <1>7
<1> HIDE DEF packets
<1>9. Head(rx_buf).kind \in Replies
  BY <1>2 DEF Replies
<1>10. /\ SingleThread' /\ idps_done'
       /\ \A p \in InFlight' : Expected(p)'
  BY <1>1, <1>2, <1>7, <1>8, <1>9, HandlesReply DEF TypeOK, ThreadInv
<1>11. Unasked' /\ CertificateWhole'
  BY <1>5, <1>10 DEF Unasked, CertificateWhole, Unacked
<1> QED BY <1>2, <1>10, <1>11, SameOrder DEF ThreadInv

LEMMA CompleteThread ==
  ASSUME TypeOK, TypeOK', ThreadInv, HandleCertComplete
  PROVE  ThreadInv' /\ OrderStep
<1> DEFINE packets == <<Packet("CertAck", 0), GetAccInfo(Head(InfoTypes))>>
<1>1. PICK n \in 0..2 :
        /\ Sends(packets, n)
        /\ IF n = 0
             THEN UNCHANGED <<accessory_info_queue, auth_signature_due, log, cancelled>>
             ELSE /\ accessory_info_queue' = QueueRefilled
                  /\ auth_signature_due' = TRUE
                  /\ log' = [log EXCEPT !.certAcks = @ + 1, !.asked = n - 1]
                  /\ cancelled' = FALSE
  BY Zenon DEF HandleCertComplete
<1>2. /\ rx_buf # <<>> /\ Head(rx_buf).kind \in {"RetInfo", "RetInfo10"}
      /\ Head(rx_buf).kind = "RetInfo" => Head(rx_buf).arg >= LastSection
      /\ cert_buf' = IF Head(rx_buf).kind = "RetInfo"
                       THEN Append(cert_buf, Head(rx_buf).arg) ELSE cert_buf
      /\ idps_done' = idps_done
  BY DEF HandleCertComplete, Taking, CertCollected
<1>3. Expected(Head(rx_buf)) /\ section \in Nat /\ LastSection \in Nat
  BY <1>2, HeadExpected, HeadUnitAssumption DEF TypeOK, LinkTypeOK
<1>4. Unacked /\ log \in Log
  BY <1>2, <1>3 DEF Expected, TypeOK, HistoryTypeOK, Log
<1>5. \/ cert_buf' = Sections(LastSection + 1)
      \/ cert_buf' = <<>> /\ 1 \in AuthVersions
  <2>1. CASE Head(rx_buf).kind = "RetInfo"
    <3>1. /\ Head(rx_buf).arg = section /\ section = LastSection
          /\ cert_buf = Sections(section)
      BY <1>2, <1>3, <2>1 DEF Expected
    <3> QED BY <1>2, <1>3, <2>1, <3>1, SectionsAppend
  <2>2. CASE Head(rx_buf).kind = "RetInfo10"
    BY <1>2, <1>3, <2>2 DEF Expected
  <2> QED BY <1>2, <2>1, <2>2
<1>6. CertificateWhole'
  BY <1>5 DEF CertificateWhole, Sections
<1>7. /\ packets \in Seq(ToHeadUnit) /\ Count(packets, Requests) = 1 /\ Len(packets) = 2
      /\ Range(packets) = {Packet("CertAck", 0), GetAccInfo(Head(InfoTypes))}
  BY OneOrTwo, ToHeadUnitPackets, ThreadRequests, RangeOne, RefillIsTail
<1> HIDE DEF packets
<1>8. CASE n = 0
  <2>1. log' = log /\ n # Len(packets)
    BY <1>1, <1>7, <1>8
  <2> QED BY <1>1, <1>2, <1>6, <1>7, <2>1, HandlesReply, SameOrder
          DEF TypeOK, ThreadInv, Replies, Unasked
<1>9. CASE n # 0
  <2>1. /\ log'.infoReqs = 1 /\ log'.certAcks = 1 /\ log'.asked = n - 1
        /\ log'.challenges = 0 /\ log'.accepted = 0
    <3>1. log' = [log EXCEPT !.certAcks = @ + 1, !.asked = n - 1]
      BY <1>1, <1>9, Zenon
    <3> QED BY <1>4, <3>1 DEF Unacked, Log
  <2>2. auth_signature_due' = TRUE /\ accessory_info_queue' = Tail(InfoTypes)
    BY <1>1, <1>9 DEF QueueRefilled
  <2>3. Len(Tail(InfoTypes)) = Len(InfoTypes) - 1 /\ Len(InfoTypes) \in Nat
    BY InfoTypesAssumption
  <2>4. ASSUME n = 2 PROVE \A p \in Range(packets) : Expected(p)'
    <3>1. Asking'
      BY <2>1, <2>2, <2>3, <2>4 DEF Asking
    <3>2. Expected(GetAccInfo(Head(InfoTypes)))'
      BY <3>1 DEF Expected, GetAccInfo, Packet
    <3> QED BY <1>7, <3>2, IdleExpected, IdlePackets
  <2>5. /\ SingleThread' /\ idps_done'
        /\ \A p \in InFlight' : Expected(p)'
    <3>1. n = Len(packets) =>
            Count(packets, Requests) <= 1 /\ \A p \in Range(packets) : Expected(p)'
      BY <1>7, <2>4
    <3>2. Head(rx_buf).kind \in Replies /\ LinkTypeOK /\ LinkTypeOK' /\ SingleThread
      BY <1>2 DEF Replies, TypeOK, ThreadInv
    <3>3. Sends(packets, n) /\ packets \in Seq(ToHeadUnit)
      BY <1>1, <1>7
    <3> QED BY <1>2, <3>1, <3>2, <3>3, HandlesReply
  <2>6. OrderStep
    <3>1. n - 1 \in {0, 1}
      BY <1>9
    <3> QED BY <1>4, <2>1, <3>1 DEF OrderStep, Order!Next, Order!AckCertificate, Unacked
  <2> QED BY <1>6, <2>5, <2>6 DEF ThreadInv, Unasked
<1> QED BY <1>8, <1>9

LEMMA InfoThread ==
  ASSUME TypeOK, TypeOK', ThreadInv, HandleAccessoryInfo
  PROVE  ThreadInv' /\ OrderStep
<1>1. /\ rx_buf # <<>> /\ Head(rx_buf).kind = "RetAccInfo"
      /\ idps_done' = idps_done /\ cert_buf' = cert_buf
  BY DEF HandleAccessoryInfo, Taking
<1>2. /\ Asking /\ log \in Log /\ Len(InfoTypes) \in Nat
      /\ accessory_info_queue \in Seq(Nat)
  <2>1. Expected(Head(rx_buf)) /\ log \in Log
    BY <1>1, HeadExpected DEF TypeOK, HistoryTypeOK, Log
  <2>2. accessory_info_queue \in Seq(Nat)
    <3>1. PICK k \in 1..Len(InfoTypes) + 1 :
            accessory_info_queue = SubSeq(InfoTypes, k, Len(InfoTypes))
      BY DEF TypeOK, SessionTypeOK, IsTail
    <3> QED BY <3>1, InfoTypesAssumption, SubSeqProperties
  <2> QED BY <1>1, <2>1, <2>2, InfoTypesAssumption DEF Expected
<1>3. /\ Head(rx_buf).kind \in Replies /\ LinkTypeOK /\ LinkTypeOK' /\ SingleThread
      /\ CertificateWhole
  BY <1>1 DEF Replies, TypeOK, ThreadInv
\* The thread after a handler that leaves the certificate alone.
<1>4. ASSUME NEW packets \in Seq(ToHeadUnit), NEW n, Sends(packets, n),
             n = Len(packets) =>
               Count(packets, Requests) <= 1 /\ \A p \in Range(packets) : Expected(p)',
             log'.certAcks = log.certAcks
      PROVE  ThreadInv'
  <2>1. /\ SingleThread' /\ idps_done'
        /\ \A p \in InFlight' : Expected(p)'
    BY <1>1, <1>3, <1>4, HandlesReply
  <2> QED BY <1>1, <1>3, <1>4, <2>1 DEF ThreadInv, Unasked, CertificateWhole
<1>5. CASE RequestNextAccessoryInfo
  <2> DEFINE packets == <<GetAccInfo(Head(accessory_info_queue))>>
  <2>1. PICK n \in 0..1 : Sends(packets, n) /\ log' = [log EXCEPT !.asked = @ + n]
    BY <1>5 DEF RequestNextAccessoryInfo
  <2>2. /\ accessory_info_queue # <<>> /\ accessory_info_queue' = Tail(accessory_info_queue)
        /\ auth_signature_due' = auth_signature_due
    BY <1>5 DEF RequestNextAccessoryInfo
  <2>3. Head(accessory_info_queue) \in Nat
    BY <1>2, <2>2
  <2>4. /\ packets \in Seq(ToHeadUnit) /\ Count(packets, Requests) = 1 /\ Len(packets) = 1
        /\ Range(packets) = {GetAccInfo(Head(accessory_info_queue))}
    BY <2>3, OneOrTwo, ToHeadUnitPackets, ThreadRequests, RangeOne
  <2> HIDE DEF packets
  <2>5. /\ log'.infoReqs = log.infoReqs /\ log'.certAcks = log.certAcks
        /\ log'.challenges = log.challenges /\ log'.accepted = log.accepted
        /\ log'.asked = log.asked + n /\ log.asked \in Nat
    BY <1>2, <2>1 DEF Log
  <2>6. Len(accessory_info_queue') = Len(accessory_info_queue) - 1
        /\ Len(accessory_info_queue) \in Nat \ {0}
    BY <1>2, <2>2
  <2>7. CASE n = 1
    <3>a. log.asked >= 1 /\ log.asked + Len(accessory_info_queue) = Len(InfoTypes)
      BY <1>2 DEF Asking
    <3>1. /\ log'.asked >= 1
          /\ log'.asked + Len(accessory_info_queue') = Len(InfoTypes)
          /\ log.asked \in 1..Len(InfoTypes) - 1
      BY <1>2, <2>5, <2>6, <2>7, <3>a
    <3>0. /\ log'.infoReqs = 1 /\ log'.certAcks = 1 /\ log'.challenges = 0 /\ log'.accepted = 0
          /\ auth_signature_due' = TRUE
      BY <1>2, <2>2, <2>5 DEF Asking
    <3>2. Asking'
      BY <3>0, <3>1 DEF Asking
    <3>3. \A p \in Range(packets) : Expected(p)'
      BY <2>4, <3>2 DEF Expected, GetAccInfo, Packet
    <3>4. OrderStep
      BY <1>2, <2>5, <2>7, <3>1 DEF OrderStep, Order!Next, Order!AskInfo, Asking
    <3> QED BY <1>4, <2>1, <2>4, <2>5, <3>3, <3>4
  <2>8. CASE n = 0
    <3>1. log' = log /\ n # Len(packets)
      BY <1>2, <2>1, <2>4, <2>8 DEF Log
    <3>2. ThreadInv'
      BY <1>4, <2>1, <2>4, <3>1
    <3> QED BY <3>1, <3>2, SameOrder
  <2> QED BY <2>1, <2>7, <2>8
<1>6. CASE RequestSignature
  <2>1. Len(accessory_info_queue) = 0 /\ log.asked = Len(InfoTypes)
    BY <1>2, <1>6 DEF RequestSignature, ChallengeReady, Asking, Log
  <2>2. CASE auth_retry_counter' <= RetryMax
    <3> DEFINE packets == <<Packet("GetSignature", auth_retry_counter')>>
    <3>1. PICK n \in 0..1 : Sends(packets, n) /\ log' = [log EXCEPT !.challenges = @ + n]
      BY <1>6, <2>2 DEF RequestSignature
    <3>2. auth_retry_counter' \in Nat
      BY DEF TypeOK, SessionTypeOK
    <3>3. /\ packets \in Seq(ToHeadUnit) /\ Count(packets, Requests) = 1 /\ Len(packets) = 1
          /\ Range(packets) = {Packet("GetSignature", auth_retry_counter')}
      BY <3>2, OneOrTwo, ToHeadUnitPackets, ThreadRequests, RangeOne
    <3> HIDE DEF packets
    <3>4. /\ log'.infoReqs = log.infoReqs /\ log'.certAcks = log.certAcks
          /\ log'.challenges = log.challenges + n /\ log'.accepted = log.accepted
          /\ log'.asked = log.asked /\ log.challenges \in Nat
      BY <1>2, <3>1 DEF Log
    <3>5. CASE n = 1
      <4>0. log.challenges = 0 /\ log.certAcks = 1 /\ log.accepted = 0
        BY <1>2 DEF Asking
      <4>1. log'.certAcks = 1 /\ log'.challenges = 1 /\ log'.accepted = 0
        BY <3>4, <3>5, <4>0
      <4>2. \A p \in Range(packets) : Expected(p)'
        BY <3>3, <4>1 DEF Expected, Packet
      <4>3. OrderStep
        BY <1>2, <2>1, <3>4, <4>1 DEF OrderStep, Order!Next, Order!Challenge, Asking
      <4> QED BY <1>4, <3>1, <3>3, <3>4, <4>2, <4>3
    <3>6. CASE n = 0
      <4>1. log' = log
        <5>1. /\ log \in Log /\ log.challenges + n = log.challenges
              /\ log' = [log EXCEPT !.challenges = log.challenges + n]
          BY <1>2, <3>1, <3>4, <3>6
        <5>2. log' = [log EXCEPT !.challenges = log.challenges]
          BY <5>1, Zenon
        <5>3. [log EXCEPT !.challenges = log.challenges] = log
          BY <5>1, UnchangedEntry
        <5> QED BY <5>2, <5>3, Zenon
      <4>2. n # Len(packets)
        BY <3>3, <3>6
      <4>3. ThreadInv'
        BY <1>4, <3>1, <3>3, <4>1, <4>2
      <4> QED BY <4>1, <4>3, SameOrder
    <3> QED BY <3>1, <3>5, <3>6
  <2>3. CASE ~(auth_retry_counter' <= RetryMax)
    <3>1. rx_buf' = Tail(rx_buf) /\ wire' = <<>> /\ pipe' = <<>> /\ log' = log
      BY <1>6, <2>3 DEF RequestSignature
    <3>2. idps_done /\ \A p \in Range(Tail(rx_buf)) : Idle(p)
      BY <1>1, <1>3, AloneInHand
    <3>3. \A p \in InFlight' : Expected(p)'
      BY <3>1, <3>2, IdleExpected, RangeOne DEF InFlight
    <3>4. SingleThread'
      <4>1. Tail(rx_buf) \in Seq(FromHeadUnit)
        BY <1>1 DEF TypeOK, LinkTypeOK
      <4>2. Count(Tail(rx_buf), Replies) \in Nat
            /\ Count(rx_buf, Replies) = Count(Tail(rx_buf), Replies) + 1
        <5>1. rx_buf \in Seq(FromHeadUnit)
          BY DEF TypeOK, LinkTypeOK
        <5> QED BY <1>1, <1>3, <4>1, <5>1, CountType, CountTail
      <4>3. Pending(Requests, Replies)' = 0 + 0 + Count(Tail(rx_buf), Replies)
        BY <3>1, CountEmpty DEF Pending, Count
      <4>4. Count(wire, Requests) \in Nat /\ Count(pipe, Replies) \in Nat
        BY <1>3, PendingType
      <4> QED BY <1>1, <1>3, <3>2, <4>2, <4>3, <4>4 DEF SingleThread, Pending
    <3> QED BY <1>1, <1>3, <3>1, <3>2, <3>3, <3>4, SameOrder
            DEF ThreadInv, Unasked, CertificateWhole
  <2> QED BY <2>2, <2>3
<1> QED BY <1>2, <1>5, <1>6 DEF HandleAccessoryInfo, Asking

LEMMA SignatureThread ==
  ASSUME TypeOK, TypeOK', ThreadInv, HandleSignature
  PROVE  ThreadInv' /\ OrderStep
<1> DEFINE packets == <<Packet("StatusAck", 0)>>
<1>1. PICK n \in 0..1 : Sends(packets, n) /\ log' = [log EXCEPT !.accepted = @ + n]
  BY DEF HandleSignature
<1>2. /\ rx_buf # <<>> /\ Head(rx_buf).kind = "RetSignature"
      /\ idps_done' = idps_done /\ cert_buf' = cert_buf
  BY DEF HandleSignature, Taking, session
<1>3. /\ log.certAcks = 1 /\ log.challenges = 1 /\ log.accepted = 0 /\ log \in Log
  BY <1>2, HeadExpected DEF Expected, TypeOK, HistoryTypeOK, Log
<1>4. /\ packets \in Seq(ToHeadUnit) /\ Count(packets, Requests) = 0
      /\ \A p \in Range(packets) : Idle(p)
  <2>1. packets \in Seq(ToHeadUnit)
    BY OneOrTwo, ToHeadUnitPackets
  <2>2. Count(packets, Requests) = 0 /\ Range(packets) = {Packet("StatusAck", 0)}
    BY ThreadRequests, RangeOne
  <2> QED BY <2>1, <2>2, IdlePackets
<1> HIDE DEF packets
<1>5. Head(rx_buf).kind \in Replies
  BY <1>2 DEF Replies
<1>6. /\ SingleThread' /\ idps_done'
      /\ \A p \in InFlight' : Expected(p)'
  <2>1. LinkTypeOK /\ LinkTypeOK' /\ SingleThread
    BY DEF TypeOK, ThreadInv
  <2>2. n = Len(packets) => Count(packets, Requests) <= 1
                              /\ \A p \in Range(packets) : Expected(p)'
    BY <1>4, IdleExpected
  <2> QED BY <1>1, <1>2, <1>4, <1>5, <2>1, <2>2, HandlesReply
<1>7. /\ log'.infoReqs = log.infoReqs /\ log'.certAcks = 1 /\ log'.challenges = 1
      /\ log'.accepted = n /\ log'.asked = log.asked
  BY <1>1, <1>3 DEF Log
<1>8. Unasked' /\ CertificateWhole'
  BY <1>2, <1>3, <1>6, <1>7 DEF Unasked, CertificateWhole, ThreadInv
<1>9. CASE n = 1
  <2>1. OrderStep
    BY <1>3, <1>7, <1>9 DEF OrderStep, Order!Next, Order!Accept
  <2> QED BY <1>6, <1>8, <2>1 DEF ThreadInv
<1>10. CASE n = 0
  <2>1. log' = log
    BY <1>1, <1>3, <1>10 DEF Log
  <2> QED BY <1>6, <1>8, <2>1, SameOrder DEF ThreadInv
<1> QED BY <1>1, <1>9, <1>10

LEMMA RangeAppended ==
  ASSUME NEW S, NEW s \in Seq(S), NEW p
  PROVE  Range(Append(s, p)) = Range(s) \cup {p}
<1>1. /\ Len(s) \in Nat /\ DOMAIN s = 1..Len(s)
      /\ DOMAIN Append(s, p) = 1..Len(s) + 1
      /\ \A i \in 1..Len(s) : Append(s, p)[i] = s[i]
      /\ Append(s, p)[Len(s) + 1] = p
  BY AppendProperties
<1>2. 1..Len(s) + 1 = 1..Len(s) \cup {Len(s) + 1}
  BY <1>1
<1>3. \A x : x \in Range(Append(s, p)) => x \in Range(s) \/ x = p
  BY <1>1, <1>2 DEF Range
<1>4. \A x \in Range(s) : x \in Range(Append(s, p))
  BY <1>1, <1>2 DEF Range
<1>5. p \in Range(Append(s, p))
  BY <1>1, <1>2 DEF Range
<1> QED BY <1>3, <1>4, <1>5

\* A chunk that is read only moves.
LEMMA ChunkInFlight ==
  ASSUME LinkTypeOK, NEW k \in 1..Len(pipe),
         rx_buf' = rx_buf \o SubSeq(pipe, 1, k), pipe' = SubSeq(pipe, k + 1, Len(pipe))
  PROVE  Range(pipe)' \cup Range(rx_buf)' \subseteq Range(pipe) \cup Range(rx_buf)
<1> DEFINE a == SubSeq(pipe, 1, k)
           b == SubSeq(pipe, k + 1, Len(pipe))
<1>1. rx_buf \in Seq(FromHeadUnit) /\ pipe \in Seq(FromHeadUnit) /\ Len(pipe) \in Nat
  BY DEF LinkTypeOK
<1>2. a \in Seq(FromHeadUnit) /\ Range(a) \subseteq Range(pipe)
  BY <1>1, SubSeqProperties DEF Range
<1>3. b \in Seq(FromHeadUnit) /\ Range(b) \subseteq Range(pipe)
  BY <1>1, SubSeqProperties DEF Range
<1> HIDE DEF a, b
<1>4. Range(rx_buf \o a) = Range(rx_buf) \cup Range(a)
  BY <1>1, <1>2, RangeConcatenation
<1>5. rx_buf' = rx_buf \o a /\ pipe' = b
  BY DEF a, b
<1> QED BY <1>2, <1>3, <1>4, <1>5

-----------------------------------------------------------------------------
\* Reading, losing and starting packets leaves the thread as it is.
LEMMA LinkThread ==
  ASSUME TypeOK, TypeOK', ThreadInv, DownIsEmpty,
         Connect \/ Disconnect \/ ReadChunk \/ Initiate \/ UNCHANGED vars
  PROVE  ThreadInv' /\ OrderStep
<1> DEFINE P == Pending(Requests, Replies)
<1>1. P \in Nat /\ P' \in Nat
  BY PendingType, PendingNextType DEF TypeOK
<1>2. P' <= P
  BY LinkPending DEF TypeOK, Replies, Dialogues
<1> HIDE DEF P
<1>3. ASSUME UNCHANGED <<session, log, section>>, \A p \in InFlight' : p \in InFlight \/ Idle(p)
      PROVE  ThreadInv' /\ OrderStep
  <2>1. UNCHANGED <<idps_done, cert_buf, log>>
    BY <1>3 DEF session
  <2>2. SingleThread'
    BY <1>1, <1>2, <2>1 DEF ThreadInv, SingleThread, P
  <2>3. \A p \in InFlight' : Expected(p)'
    BY <1>3, SameExpected, IdleExpected DEF ThreadInv
  <2>4. Unasked' /\ CertificateWhole'
    BY <2>1 DEF ThreadInv, Unasked, CertificateWhole
  <2> QED BY <2>1, <2>2, <2>3, <2>4, SameOrder DEF ThreadInv
<1>4. CASE Connect /\ FreshState
  <2>1. /\ wire' = <<>> /\ pipe' = <<>> /\ rx_buf' = <<>>
        /\ idps_done' = FALSE /\ cert_buf' = <<>> /\ log' = NewLog
    BY <1>4 DEF Connect, DownIsEmpty, StateOfConnection, NewState
  <2>2. InFlight' = {}
    BY <2>1, RangeOne DEF InFlight
  <2>3. P' = 0
    <3>1. Pending(Requests, Replies)' = 0 + 0 + 0
      BY <2>1, CountEmpty DEF Pending, Count
    <3> QED BY <3>1 DEF P
  <2>4. SingleThread'
    BY <2>3 DEF SingleThread, P
  <2>5. Unasked' /\ CertificateWhole'
    BY <2>1 DEF Unasked, CertificateWhole, NewLog
  <2>6. OrderStep
    BY <2>1 DEF OrderStep, Order!Next, Order!Restart, NewLog
  <2> QED BY <2>2, <2>4, <2>5, <2>6 DEF ThreadInv
<1>5. CASE Connect /\ ~FreshState
  <2>1. UNCHANGED <<session, log, section>> /\ UNCHANGED <<wire, pipe, rx_buf>>
    BY <1>5 DEF Connect, StateOfConnection, SameState
  <2> QED BY <1>3, <2>1 DEF InFlight
<1>6. CASE UNCHANGED vars
  <2>1. UNCHANGED <<session, log, section>> /\ UNCHANGED <<wire, pipe, rx_buf>>
    BY <1>6 DEF vars, session
  <2> QED BY <1>3, <2>1 DEF InFlight
<1>7. CASE Disconnect
  <2>1. /\ UNCHANGED <<session, log, section>>
        /\ wire' = <<>> /\ pipe' = <<>> /\ rx_buf' = rx_buf
    BY <1>7 DEF Disconnect, history
  <2> QED BY <1>3, <2>1, RangeOne DEF InFlight
<1>8. CASE ReadChunk
  <2>1. PICK k \in 1..Len(pipe) : /\ rx_buf' = rx_buf \o SubSeq(pipe, 1, k)
                                  /\ pipe' = SubSeq(pipe, k + 1, Len(pipe))
    BY <1>8 DEF ReadChunk
  <2>2. UNCHANGED <<session, log, section>> /\ wire' = wire
    BY <1>8 DEF ReadChunk, history
  <2>3. InFlight' \subseteq InFlight
    BY <2>1, <2>2, ChunkInFlight DEF InFlight, TypeOK
  <2> QED BY <1>3, <2>2, <2>3
<1>9. CASE Initiate
  <2>1. PICK p \in Initiations : pipe' = Append(pipe, p)
    BY <1>9 DEF Initiate
  <2>2. UNCHANGED <<session, log, section>> /\ wire' = wire /\ rx_buf' = rx_buf
    BY <1>9 DEF Initiate, history
  <2>3. Idle(p)
    BY IdlePackets
  <2>4. Range(pipe)' = Range(pipe) \cup {p}
    BY <2>1, RangeAppended DEF TypeOK, LinkTypeOK
  <2> QED BY <1>3, <2>2, <2>3, <2>4 DEF InFlight
<1> QED BY <1>4, <1>5, <1>6, <1>7, <1>8, <1>9

\* The head unit takes the thread's request and goes on with its reply, or ends it.
LEMMA ReceiveThread ==
  ASSUME TypeOK, TypeOK', ThreadInv, Receive
  PROVE  ThreadInv' /\ OrderStep
<1> DEFINE P == Pending(Requests, Replies)
           request == Head(wire)
<1>1. P \in Nat /\ P' \in Nat
  BY PendingType, PendingNextType DEF TypeOK
<1>2. /\ wire # <<>> /\ wire' = Tail(wire) /\ rx_buf' = rx_buf
      /\ UNCHANGED <<session, log>> /\ UNCHANGED <<idps_done, cert_buf>>
  BY DEF Receive, session, history
<1>3. \A a \in Answers(request) : request.kind \in Requests /\ a.kind \in Replies
  BY DEF Answers, Packet, Requests, Replies
<1>4. P' <= P
  BY <1>3, ReceivePending DEF TypeOK
<1> HIDE DEF P
<1>5. SingleThread'
  BY <1>1, <1>2, <1>4 DEF ThreadInv, SingleThread, P
<1>6. Unasked' /\ CertificateWhole' /\ OrderStep
  BY <1>2, SameOrder DEF ThreadInv, Unasked, CertificateWhole
<1>7. wire \in Seq(ToHeadUnit) /\ pipe \in Seq(FromHeadUnit)
  BY DEF TypeOK, LinkTypeOK
<1>8. Range(wire)' \subseteq Range(wire) /\ request \in Range(wire) /\ request \in ToHeadUnit
  BY <1>2, <1>7 DEF Range
<1>9. CASE UNCHANGED <<pipe, section>>
  <2>1. InFlight' \subseteq InFlight
    BY <1>2, <1>8, <1>9 DEF InFlight
  <2>2. \A p \in InFlight' : Expected(p)'
    BY <1>2, <1>9, <2>1, SameExpected DEF ThreadInv
  <2> QED BY <1>5, <1>6, <2>2 DEF ThreadInv
<1>10. ASSUME NEW a \in Answers(request), pipe' = Append(pipe, a),
              section' = IF a.kind = "RetInfo" THEN a.arg ELSE section
       PROVE  ThreadInv'
  <2>1. /\ \A p \in Range(Tail(wire)) \cup Range(pipe) \cup Range(rx_buf) : Idle(p)
    BY <1>2, <1>3, <1>10, AloneOnWire DEF TypeOK, ThreadInv
  <2>2. Range(pipe)' = Range(pipe) \cup {a}
    BY <1>7, <1>10, RangeAppended
  <2>3. \A p \in InFlight' : p = a \/ Idle(p)
    BY <1>2, <2>1, <2>2 DEF InFlight
  <2>4. Expected(request)
    BY <1>8 DEF ThreadInv, InFlight
  <2>5. /\ Unacked => Unacked'
        /\ Asking => Asking'
        /\ log' = log /\ cert_buf' = cert_buf
    BY <1>2 DEF Unacked, Asking, session
  <2>6. Expected(a)'
    <3>1. CASE request.kind = "GetInfo"
      <4>1. \/ a = Packet("RetInfo", 0)
            \/ a = Packet("RetInfo10", 0) /\ 1 \in AuthVersions
        BY <3>1 DEF Answers
      <4>2. Unacked' /\ cert_buf' = <<>>
        BY <2>4, <2>5, <3>1 DEF Expected
      <4>3. CASE a = Packet("RetInfo", 0)
        <5>1. section' = 0 /\ a.arg = 0 /\ a.kind = "RetInfo"
          BY <1>10, <4>3 DEF Packet
        <5>2. Sections(0) = <<>> /\ 0 <= LastSection
          BY HeadUnitAssumption DEF Sections
        <5> QED BY <4>2, <5>1, <5>2 DEF Expected
      <4>4. CASE a = Packet("RetInfo10", 0) /\ 1 \in AuthVersions
        BY <4>2, <4>4 DEF Expected, Packet
      <4> QED BY <4>1, <4>3, <4>4
    <3>2. CASE request.kind = "SectionAck"
      <4>1. section < LastSection /\ a = Packet("RetInfo", section + 1)
        BY <3>2 DEF Answers
      <4>2. section' = section + 1 /\ a.arg = section + 1 /\ a.kind = "RetInfo"
        BY <1>10, <4>1 DEF Packet
      <4>3. Unacked' /\ cert_buf' = Sections(section + 1)
        BY <2>4, <2>5, <3>2 DEF Expected
      <4>4. section + 1 <= LastSection
        BY <4>1, HeadUnitAssumption DEF TypeOK, LinkTypeOK
      <4> QED BY <4>2, <4>3, <4>4 DEF Expected
    <3>3. CASE request.kind = "GetAccInfo"
      <4>1. a.kind = "RetAccInfo"
        BY <3>3 DEF Answers, Packet
      <4>2. Asking'
        BY <2>4, <2>5, <3>3 DEF Expected
      <4> QED BY <4>1, <4>2 DEF Expected
    <3>4. CASE request.kind = "GetSignature"
      <4>1. a.kind = "RetSignature"
        BY <3>4 DEF Answers, Packet
      <4> QED BY <2>4, <2>5, <3>4, <4>1 DEF Expected
    <3> QED BY <1>3, <1>10, <3>1, <3>2, <3>3, <3>4 DEF Requests
  <2>7. \A p \in InFlight' : Expected(p)'
    BY <2>3, <2>6, IdleExpected
  <2> QED BY <1>5, <1>6, <2>7 DEF ThreadInv
<1> QED BY <1>6, <1>9, <1>10 DEF Receive

-----------------------------------------------------------------------------
LEMMA OrderlyStep ==
  ASSUME OrderlyHeadUnit, TypeOK, OrderlyPackets, [Next]_vars
  PROVE  OrderlyPackets'
<1>1. /\ rx_buf \in Seq(FromHeadUnit) /\ pipe \in Seq(FromHeadUnit)
      /\ Range(<<>>) = {}
  BY RangeOne DEF TypeOK, LinkTypeOK
<1>2. CASE ProcessRx
  <2>1. CASE Raises
    <3>1. rx_buf # <<>> /\ rx_buf' = Tail(rx_buf) /\ pipe' = <<>>
      BY <1>2, <2>1, HandlerSends DEF Raises, TypeOK
    <3>2. Range(Tail(rx_buf)) \subseteq Range(rx_buf)
      BY <1>1, <3>1 DEF Range
    <3> QED BY <1>1, <3>1, <3>2 DEF OrderlyPackets
  <2>2. ASSUME NEW packets \in Seq(ToHeadUnit), NEW n, Sends(packets, n)
        PROVE  OrderlyPackets'
    <3>1. Range(pipe)' \cup Range(rx_buf)' \subseteq Range(pipe) \cup Range(rx_buf)
      BY <1>2, <2>2, HandlerSends, SendsInFlight DEF TypeOK
    <3> QED BY <3>1 DEF OrderlyPackets
  <2> QED BY <1>2, <2>1, <2>2, HandlerSends DEF TypeOK
<1>3. CASE Connect
  <2>1. pipe' = pipe /\ (rx_buf' = rx_buf \/ rx_buf' = <<>>)
    BY <1>3 DEF Connect, StateOfConnection, NewState, SameState
  <2> QED BY <1>1, <2>1 DEF OrderlyPackets
<1>4. CASE Disconnect \/ UNCHANGED vars
  <2>1. rx_buf' = rx_buf /\ (pipe' = pipe \/ pipe' = <<>>)
    BY <1>4 DEF Disconnect, vars
  <2> QED BY <1>1, <2>1 DEF OrderlyPackets
<1>5. CASE ReadChunk
  <2>1. PICK k \in 1..Len(pipe) : /\ rx_buf' = rx_buf \o SubSeq(pipe, 1, k)
                                  /\ pipe' = SubSeq(pipe, k + 1, Len(pipe))
    BY <1>5 DEF ReadChunk
  <2>2. Range(pipe)' \cup Range(rx_buf)' \subseteq Range(pipe) \cup Range(rx_buf)
    BY <2>1, ChunkInFlight DEF TypeOK
  <2> QED BY <2>2 DEF OrderlyPackets
<1>6. CASE Initiate
  <2>1. PICK p \in Initiations : pipe' = Append(pipe, p)
    BY <1>6 DEF Initiate
  <2>2. rx_buf' = rx_buf /\ Orderly(p)
    BY <1>6 DEF Initiate, OrderlyHeadUnit
  <2>3. Range(pipe)' = Range(pipe) \cup {p}
    BY <1>1, <2>1, RangeAppended
  <2> QED BY <2>2, <2>3 DEF OrderlyPackets
<1>7. CASE Receive
  <2>1. rx_buf' = rx_buf
    BY <1>7 DEF Receive
  <2>2. CASE pipe' = pipe
    BY <2>1, <2>2 DEF OrderlyPackets
  <2>3. ASSUME NEW a \in Answers(Head(wire)), pipe' = Append(pipe, a) PROVE OrderlyPackets'
    <3>1. Orderly(a)
      BY DEF Answers, Packet, Orderly
    <3>2. Range(pipe)' = Range(pipe) \cup {a}
      BY <1>1, <2>3, RangeAppended
    <3> QED BY <2>1, <3>1, <3>2 DEF OrderlyPackets
  <2> QED BY <1>7, <2>2, <2>3 DEF Receive
<1> QED BY <1>2, <1>3, <1>4, <1>5, <1>6, <1>7 DEF Next

\* An orderly head unit's packets never reach the handlers of the other ones.
LEMMA OrderlyHandlers ==
  ASSUME TypeOK, OrderlyPackets
  PROVE  ~HandleCancel /\ ~HandleEndIDPSReset
<1>1. ASSUME rx_buf # <<>> PROVE Orderly(Head(rx_buf))
  <2>1. Head(rx_buf) \in Range(rx_buf)
    BY <1>1 DEF Range, TypeOK, LinkTypeOK
  <2> QED BY <2>1 DEF OrderlyPackets
<1> QED BY <1>1 DEF Orderly, HandleCancel, HandleEndIDPSReset, Taking

LEMMA TrackInit == Init => TrackInv
<1> SUFFICES ASSUME Init PROVE TrackInv
  OBVIOUS
<1>1. /\ wire = <<>> /\ pipe = <<>> /\ rx_buf = <<>>
      /\ idps_done = FALSE /\ cert_buf = <<>> /\ log = NewLog
  BY DEF Init
<1>2. InFlight = {} /\ Range(pipe) \cup Range(rx_buf) = {}
  BY <1>1, RangeOne DEF InFlight
<1>3. Pending(Requests, Replies) = 0
  BY <1>1, CountEmpty DEF Pending
<1>4. SingleThread /\ Unasked /\ CertificateWhole
  BY <1>1, <1>3 DEF SingleThread, Unasked, CertificateWhole, NewLog
<1> QED BY <1>1, <1>2, <1>4 DEF TrackInv, ThreadInv, DownIsEmpty, OrderlyPackets

LEMMA TrackStep ==
  ASSUME OrderlyHeadUnit, TypeOK, TypeOK', TrackInv, [Next]_vars
  PROVE  TrackInv' /\ OrderStep
<1>1. ThreadInv /\ OrderlyPackets /\ DownIsEmpty
  BY DEF TrackInv
<1>2. OrderlyPackets' /\ DownIsEmpty'
  BY <1>1, OrderlyStep, DownStep DEF TypeOK
<1>3. CASE ProcessRx
  <2>1. rx_buf # <<>>
    BY <1>3, HandlerSends DEF TypeOK
  <2>2. ~HandleCancel /\ ~HandleEndIDPSReset
    BY <1>1, OrderlyHandlers
  <2>3. ThreadInv' /\ OrderStep
    <3>1. CASE HandleIdentify \/ HandleEndIDPSProceed
      <4>1. /\ Ack \in ToHeadUnit /\ Idle(Ack)
            /\ Packet("IDPSStatus", 0) \in ToHeadUnit /\ Idle(Packet("IDPSStatus", 0))
        BY ToHeadUnitPackets, IdlePackets
      <4>2. InitiateAuthentication(Ack) \/ InitiateAuthentication(Packet("IDPSStatus", 0))
        BY <3>1 DEF HandleIdentify, HandleEndIDPSProceed
      <4> QED BY <1>1, <2>1, <4>1, <4>2, InitiateThread
    <3>2. CASE HandleQuery \/ HandleEndIDPSAbandon
      BY <1>1, <3>2, QueryThread
    <3>3. CASE HandleCertSection
      BY <1>1, <3>3, SectionThread
    <3>4. CASE HandleCertComplete
      BY <1>1, <3>4, CompleteThread
    <3>5. CASE HandleAccessoryInfo
      BY <1>1, <3>5, InfoThread
    <3>6. CASE HandleSignature
      BY <1>1, <3>6, SignatureThread
    <3> QED BY <1>3, <2>2, <3>1, <3>2, <3>3, <3>4, <3>5, <3>6 DEF ProcessRx
  <2> QED BY <1>2, <2>3 DEF TrackInv
<1>4. CASE Connect \/ Disconnect \/ ReadChunk \/ Initiate \/ UNCHANGED vars
  BY <1>1, <1>2, <1>4, LinkThread DEF TrackInv
<1>5. CASE Receive
  BY <1>1, <1>2, <1>5, ReceiveThread DEF TrackInv
<1> QED BY <1>3, <1>4, <1>5 DEF Next

\* With a head unit that neither cancels nor resets, the daemon never has two requests
\* outstanding: of its requests and their answers one packet at most is on its way,
\* on either bearer and over any number of reconnections.
THEOREM OneRequestInFlight ==
  ASSUME OrderlyHeadUnit PROVE Spec => []OneRequestAtATime
<1>1. TypeOK /\ TrackInv => OneRequestAtATime
  <2> SUFFICES ASSUME TypeOK, TrackInv PROVE OneRequestAtATime
    OBVIOUS
  <2>1. /\ rx_buf \in Seq(FromHeadUnit) /\ pipe \in Seq(FromHeadUnit)
    BY DEF TypeOK, LinkTypeOK
  <2>2. Count(pipe \o rx_buf, Replies) = Count(pipe, Replies) + Count(rx_buf, Replies)
    BY <2>1, CountConcat
  <2>3. /\ Count(wire, Requests) \in Nat
        /\ Count(pipe, Replies) \in Nat /\ Count(rx_buf, Replies) \in Nat
    BY PendingType DEF TypeOK
  <2>4. Count(wire, Requests) + Count(pipe, Replies) + Count(rx_buf, Replies) <= 1
    BY <2>3 DEF TrackInv, ThreadInv, SingleThread, Pending
  <2>5. Count(wire, Requests) + Count(pipe \o rx_buf, Replies) <= 1
    BY <2>2, <2>3, <2>4
  <2> QED BY <2>5 DEF OneRequestAtATime, Requests
<1>2. TypeOK /\ TypeOK' /\ TrackInv /\ [Next]_vars => TrackInv'
  BY TrackStep
<1>3. QED BY TypeCorrect, TrackInit, <1>1, <1>2, PTL DEF Spec

\* With such a head unit an acked certificate is whole: cert_buf holds the sections of
\* one answer, each once and in order, whatever reconnections cut the answer short.
THEOREM CertificatesWhole ==
  ASSUME OrderlyHeadUnit PROVE Spec => []CertificateWhole
<1>1. TrackInv => CertificateWhole
  BY DEF TrackInv, ThreadInv
<1>2. TypeOK /\ TypeOK' /\ TrackInv /\ [Next]_vars => TrackInv'
  BY TrackStep
<1>3. QED BY TypeCorrect, TrackInit, <1>1, <1>2, PTL DEF Spec

\* With such a head unit the daemon implements the order of authentication that AuthOrder
\* states: each of its steps is one of AuthOrder's, or changes nothing that AuthOrder sees.
THEOREM OrderImplemented ==
  ASSUME OrderlyHeadUnit PROVE Spec => ImplementsAuthOrder
<1>1. Init => Order!Init
  BY DEF Init, Order!Init, NewLog
<1>2. TypeOK /\ TypeOK' /\ TrackInv /\ [Next]_vars => TrackInv' /\ [Order!Next]_(Order!vars)
  BY TrackStep DEF OrderStep
<1>3. QED BY TypeCorrect, TrackInit, <1>1, <1>2, PTL DEF Spec, ImplementsAuthOrder, Order!Spec

=============================================================================
