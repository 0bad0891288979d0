------------------------ MODULE BulkEndpointsProofs ------------------------
(***************************************************************************)
(* Theorems about BulkEndpoints, for any number of enumerations and of     *)
(* failed opens and any size of batch.                                     *)
(*                                                                         *)
(* The argument: CloseOld empties the table, so the first open takes the   *)
(* number 0 and the second the number 1, whatever failed before.  Main's   *)
(* variables therefore keep the numbers they start with, and no other      *)
(* number is ever open.                                                    *)
(***************************************************************************)
EXTENDS BulkEndpoints, TLAPS

Files == [file : {"none", "ep1", "ep2"}, gen : 0..MaxEnables + 1]

Loops == {"poll", "read", "write", "close", "close_after_error",
          "open_first", "open_first_after_error",
          "open_second", "open_second_after_error"}

\* The types, without what TypeOK says of the descriptors' ends.
Types ==
  /\ table \in [Fds -> Files]
  /\ loop \in Loops
  /\ up \in BOOLEAN /\ failed \in BOOLEAN
  /\ gen \in 0..MaxEnables
  /\ gen = 0 => ~up
  /\ failures \in 0..MaxFailures
  /\ request \in {"none", "sent", "read"}
  /\ events \in Seq({"ENABLE", "DISABLE"})

\* Numbers are what they were at the start.
Numbers == ep_out_fd = 0 /\ ep_in_fd = 1 /\ first = 0

\* What is open, by where open_bulk_eps is.
OpenFds ==
  /\ table[0].file # "ep2" /\ table[1].file # "ep1"
  /\ table[2] = Closed /\ table[3] = Closed
  /\ loop \in {"open_first", "open_first_after_error"} => table[0] = Closed
  /\ loop \in {"open_first", "open_first_after_error",
               "open_second", "open_second_after_error"} => table[1] = Closed
  /\ loop \in {"open_second", "open_second_after_error"} => table[0] # Closed

\* No descriptor serves an enumeration later than the next, and a successful
\* reopening leaves none that serves a later one than its peer.
Generations ==
  /\ table[0].gen <= Generation
  /\ ~Reopening /\ table[0].gen = Generation => table[1].gen = Generation \/ failed

IInv == Types /\ Numbers /\ OpenFds /\ Generations

-----------------------------------------------------------------------------
\* The lowest free number of an empty table, and of one whose number 0 is taken.
LEMMA LowestFreeIsZero ==
  ASSUME NEW tab, tab[0] = Closed
  PROVE  LowestFree(tab) = 0
BY DEF LowestFree, Fds

LEMMA LowestFreeIsOne ==
  ASSUME NEW tab, tab[0] # Closed, tab[1] = Closed
  PROVE  LowestFree(tab) = 1
<1>1. 1 \in Fds /\ tab[1] = Closed /\ \A lower \in 0..1 - 1 : tab[lower] # Closed
  BY DEF Fds
<1>2. \A fd \in Fds : (/\ tab[fd] = Closed
                       /\ \A lower \in 0..fd - 1 : tab[lower] # Closed) => fd = 1
  <2> SUFFICES ASSUME NEW fd \in Fds, tab[fd] = Closed,
                      \A lower \in 0..fd - 1 : tab[lower] # Closed
               PROVE  fd = 1
    OBVIOUS
  <2>1. fd # 0
    OBVIOUS
  <2>2. ~(1 \in 0..fd - 1)
    OBVIOUS
  <2> QED BY <2>1, <2>2 DEF Fds
<1> QED BY <1>1, <1>2 DEF LowestFree

\* A generation that an open can record.
LEMMA GenerationType ==
  ASSUME Types PROVE Generation \in 1..MaxEnables + 1
BY MaxEnablesAssumption DEF Types, Generation

\* An open leaves a table of descriptors.
LEMMA OpenedType ==
  ASSUME Types, NEW file \in {"ep1", "ep2"}, NEW fd
  PROVE  [table EXCEPT ![fd] = [file |-> file, gen |-> Generation]] \in [Fds -> Files]
<1>1. [file |-> file, gen |-> Generation] \in Files
  BY GenerationType, MaxEnablesAssumption DEF Files
<1> QED BY <1>1, Zenon DEF Types

-----------------------------------------------------------------------------
LEMMA InitIInv == Init => IInv
<1> SUFFICES ASSUME Init PROVE IInv
  OBVIOUS
<1>1. table \in [Fds -> Files]
  BY MaxEnablesAssumption DEF Init, Files, Closed, Fds
<1>2. Types
  <2>1. loop = "poll" /\ up = FALSE /\ failed = FALSE /\ gen = 0 /\ failures = 0
        /\ request = "none" /\ events = <<>>
    BY DEF Init
  <2>2. events \in Seq({"ENABLE", "DISABLE"})
    BY <2>1
  <2>3. gen \in 0..MaxEnables /\ failures \in 0..MaxFailures
    BY <2>1, MaxEnablesAssumption, MaxFailuresAssumption
  <2> QED BY <1>1, <2>1, <2>2, <2>3 DEF Types, Loops
<1>3. table[0] = [file |-> "ep1", gen |-> 1] /\ table[1] = [file |-> "ep2", gen |-> 1]
      /\ table[2] = Closed /\ table[3] = Closed
  BY DEF Init, Fds
<1>4. OpenFds
  BY <1>3 DEF Init, OpenFds
<1>5. Generations
  BY <1>3 DEF Init, Generations, Generation
<1> QED BY <1>2, <1>4, <1>5 DEF Init, IInv, Numbers

-----------------------------------------------------------------------------
(***************************************************************************)
(* Steps that leave the descriptors alone: the environment's, and those of *)
(* main's loop that neither close nor open.                                *)
(***************************************************************************)
LEMMA EventsTyped ==
  ASSUME Types
  PROVE  /\ \A e \in {"ENABLE", "DISABLE"} : Append(events, e) \in Seq({"ENABLE", "DISABLE"})
         /\ SubSeq(events, Taken + 1, Len(events)) \in Seq({"ENABLE", "DISABLE"})
<1>1. events \in Seq({"ENABLE", "DISABLE"})
  BY DEF Types
<1>2. Taken \in Nat
  BY <1>1, BatchSizeAssumption DEF Taken
<1> HIDE DEF Taken
<1>3. SubSeq(events, Taken + 1, Len(events)) \in Seq({"ENABLE", "DISABLE"})
  BY <1>1, <1>2
<1> QED BY <1>1, <1>3

LEMMA EnableStep == IInv /\ Enable => IInv'
<1> SUFFICES ASSUME IInv, Enable PROVE IInv'
  OBVIOUS
<1>1. events' \in Seq({"ENABLE", "DISABLE"})
  BY EventsTyped DEF IInv, Enable
<1>2. Types'
  BY <1>1, MaxEnablesAssumption DEF IInv, Types, Enable, daemon
<1>3. Generation' = Generation
  BY DEF IInv, Types, Enable, Generation
<1>4. Numbers' /\ OpenFds'
  BY DEF IInv, Numbers, OpenFds, Enable, daemon
<1>5. Generations'
  BY <1>3 DEF IInv, Generations, Enable, daemon, Reopening
<1> QED BY <1>2, <1>4, <1>5 DEF IInv

\* A descriptor of the enumeration that ends serves no later one.
LEMMA DisableStep == IInv /\ Disable => IInv'
<1> SUFFICES ASSUME IInv, Disable PROVE IInv'
  OBVIOUS
<1>1. events' \in Seq({"ENABLE", "DISABLE"})
  BY EventsTyped DEF IInv, Disable
<1>2. Types'
  BY <1>1 DEF IInv, Types, Disable, daemon
<1>3. Numbers' /\ OpenFds'
  BY DEF IInv, Numbers, OpenFds, Disable, daemon
<1>4. table[0].gen \in Nat /\ table[0].gen <= gen /\ Generation' = gen + 1 /\ gen \in Nat
  BY MaxEnablesAssumption
  DEF IInv, Types, Files, Fds, Generations, Generation, Disable
<1>5. Generations'
  BY <1>4 DEF Generations, Disable, daemon
<1> QED BY <1>2, <1>3, <1>5 DEF IInv

LEMMA LoopStep ==
  IInv /\ (HeadUnitSends \/ PollNothing \/ PollEvents \/ Read \/ Write) => IInv'
<1> SUFFICES ASSUME IInv, HeadUnitSends \/ PollNothing \/ PollEvents \/ Read \/ Write
             PROVE  IInv'
  OBVIOUS
<1>1. UNCHANGED <<table, ep_out_fd, ep_in_fd, first, failures, failed, up, gen>>
  BY DEF HeadUnitSends, PollNothing, PollEvents, Read, Write, daemon
<1>2. events' \in Seq({"ENABLE", "DISABLE"})
  BY EventsTyped DEF IInv, Types, HeadUnitSends, PollNothing, PollEvents, Read, Write
<1>3. request' \in {"none", "sent", "read"}
  BY DEF IInv, Types, HeadUnitSends, PollNothing, PollEvents, Read, Write
<1>4. \/ loop' = loop
      \/ ~Reopening /\ loop' \in {"poll", "read", "write", "close", "close_after_error"}
  BY DEF HeadUnitSends, PollNothing, PollEvents, Read, Write, AfterError, Reopening
<1>5. Types'
  BY <1>1, <1>2, <1>3, <1>4 DEF IInv, Types, Loops
<1>6. Numbers'
  BY <1>1 DEF IInv, Numbers
<1>7. OpenFds'
  BY <1>1, <1>4 DEF IInv, OpenFds
<1>8. Generations'
  BY <1>1, <1>4 DEF IInv, Generations, Generation, Reopening
<1> QED BY <1>5, <1>6, <1>7, <1>8 DEF IInv

-----------------------------------------------------------------------------
(***************************************************************************)
(* open_bulk_eps.                                                          *)
(***************************************************************************)
LEMMA CloseStep == IInv /\ CloseOld => IInv'
<1> SUFFICES ASSUME IInv, CloseOld PROVE IInv'
  OBVIOUS
<1>1. \A fd \in Fds : table'[fd] = Closed
  BY DEF IInv, Numbers, OpenFds, CloseOld, ToClose, Named, Fds
<1>2. table' \in [Fds -> Files]
  BY MaxEnablesAssumption DEF IInv, Types, CloseOld, Closed, Files
<1>3. loop' \in {"open_first", "open_first_after_error"}
  BY DEF CloseOld
<1>4. Types'
  BY <1>2, <1>3 DEF IInv, Types, CloseOld, Loops
<1>5. Numbers'
  BY DEF IInv, Numbers, CloseOld
<1>6. OpenFds'
  BY <1>1, <1>3 DEF OpenFds, Closed, Fds
<1>7. Generation' = Generation /\ Generation \in Nat
  BY GenerationType, MaxEnablesAssumption DEF IInv, CloseOld, Generation
<1>8. Generations'
  BY <1>1, <1>3, <1>7 DEF Generations, Reopening, Closed, Fds
<1> QED BY <1>4, <1>5, <1>6, <1>8 DEF IInv

LEMMA OpenFirstStep == IInv /\ OpenFirst => IInv'
<1> SUFFICES ASSUME IInv, OpenFirst PROVE IInv'
  OBVIOUS
<1>1. LowestFree(table) = 0
  BY LowestFreeIsZero DEF IInv, OpenFds, OpenFirst
<1>2. table' = [table EXCEPT ![0] = [file |-> "ep1", gen |-> Generation]]
  BY <1>1 DEF OpenFirst, Opened, OpenOrder
<1>3. Generation' = Generation /\ Generation \in 1..MaxEnables + 1
  BY GenerationType DEF IInv, OpenFirst, Generation
<1>4. table' \in [Fds -> Files]
  BY <1>2, OpenedType DEF IInv
<1>5. loop' \in {"open_second", "open_second_after_error"}
  BY DEF OpenFirst
<1>6. Types'
  BY <1>4, <1>5 DEF IInv, Types, OpenFirst, Loops
<1>7. Numbers'
  BY <1>1 DEF IInv, Numbers, OpenFirst
<1>8. /\ table'[0] = [file |-> "ep1", gen |-> Generation]
      /\ table'[1] = table[1] /\ table'[2] = table[2] /\ table'[3] = table[3]
  BY <1>2 DEF IInv, Types, Fds
<1>9. OpenFds'
  BY <1>5, <1>8 DEF IInv, OpenFds, OpenFirst, Closed
<1>10. Generations'
  BY <1>3, <1>5, <1>8, MaxEnablesAssumption DEF Generations, Reopening
<1> QED BY <1>6, <1>7, <1>9, <1>10 DEF IInv

\* Both descriptors are open again, the second for an enumeration no earlier.
LEMMA OpenSecondStep == IInv /\ OpenSecond => IInv'
<1> SUFFICES ASSUME IInv, OpenSecond PROVE IInv'
  OBVIOUS
<1>1. LowestFree(table) = 1
  BY LowestFreeIsOne DEF IInv, OpenFds, OpenSecond
<1>2. table' = [table EXCEPT ![1] = [file |-> "ep2", gen |-> Generation]]
  BY <1>1 DEF OpenSecond, Opened, OpenOrder
<1>3. Generation' = Generation /\ Generation \in 1..MaxEnables + 1
  BY GenerationType DEF IInv, OpenSecond, Generation
<1>4. table' \in [Fds -> Files]
  BY <1>2, OpenedType DEF IInv
<1>5. loop' \in {"read", "poll"}
  BY DEF OpenSecond, AfterReopening
<1>6. Types'
  BY <1>4, <1>5 DEF IInv, Types, OpenSecond, Loops
<1>7. Numbers'
  BY <1>1 DEF IInv, Numbers, OpenSecond, OpenOrder
<1>8. /\ table'[1] = [file |-> "ep2", gen |-> Generation]
      /\ table'[0] = table[0] /\ table'[2] = table[2] /\ table'[3] = table[3]
  BY <1>2 DEF IInv, Types, Fds
<1>9. OpenFds'
  BY <1>5, <1>8 DEF IInv, OpenFds
<1>10. Generations'
  BY <1>3, <1>8 DEF IInv, Generations
<1> QED BY <1>6, <1>7, <1>9, <1>10 DEF IInv

LEMMA OpenFailsStep == IInv /\ OpenFails => IInv'
<1> SUFFICES ASSUME IInv, OpenFails PROVE IInv'
  OBVIOUS
<1>1. loop' \in {"read", "poll"} /\ failed' = TRUE
  BY DEF OpenFails, AfterReopening
<1>2. failures' \in 0..MaxFailures
  BY MaxFailuresAssumption DEF IInv, Types, OpenFails
<1>3. Types'
  BY <1>1, <1>2 DEF IInv, Types, OpenFails, Loops
<1>4. Numbers' /\ OpenFds'
  BY <1>1 DEF IInv, Numbers, OpenFds, OpenFails
<1>5. Generations'
  BY <1>1 DEF IInv, Generations, Generation, OpenFails
<1> QED BY <1>3, <1>4, <1>5 DEF IInv

LEMMA NextIInv == IInv /\ [Next]_vars => IInv'
<1>1. IInv /\ UNCHANGED vars => IInv'
  BY DEF vars, IInv, Types, Numbers, OpenFds, Generations, Generation, Reopening
<1> QED
  BY <1>1, EnableStep, DisableStep, LoopStep, CloseStep, OpenFirstStep, OpenSecondStep,
     OpenFailsStep DEF Next, Main

LEMMA Inductive == Spec => []IInv
BY InitIInv, NextIInv, PTL DEF Spec

-----------------------------------------------------------------------------
\* The descriptor that main reads from is never ep2's and the one it writes to
\* never ep1's (open_bulk_eps, main).
THEOREM DescriptorsTyped == Spec => []TypeOK
<1>1. IInv => TypeOK
  BY DEF IInv, Types, Numbers, OpenFds, TypeOK, Fds, Files
<1> QED BY Inductive, <1>1, PTL

\* Between two reopenings every open number is one that main can still close.
THEOREM NothingLeaks == Spec => []NoLeak
<1>1. IInv => NoLeak
  BY DEF IInv, Numbers, OpenFds, NoLeak, Named, Fds
<1> QED BY Inductive, <1>1, PTL

\* When ep1 can be read, ep2 can be written, unless the last reopening failed.
THEOREM AnswerableWhenReadable == Spec => []ReadableIsAnswerable
<1>1. IInv => ReadableIsAnswerable
  BY DEF IInv, Numbers, Generations, ReadableIsAnswerable, Fresh
<1> QED BY Inductive, <1>1, PTL
=============================================================================
