--------------------------- MODULE ParsingLemmas ---------------------------
(***************************************************************************)
(* What the recursive definitions of IapPackets and DataParts return.      *)
(*                                                                         *)
(* A definition f[x \in D] == e, and a fold, choose a function with        *)
(* f = [x \in D |-> e]: nothing is known of f until one is shown to exist. *)
(* Both this and what f computes are inductions over numbers, stated for   *)
(* sets, so that no lemma has an operator as its parameter.                *)
(***************************************************************************)
EXTENDS IapPackets, DataParts, SequenceTheorems, WellFoundedInduction, TLAPS

\* A set of numbers that has each one whose predecessors it has is all of them.
LEMMA Induction ==
  ASSUME NEW S, \A n \in Nat : (\A k \in 0..n - 1 : k \in S) => n \in S
  PROVE  Nat \subseteq S
<1> SUFFICES ASSUME ~(Nat \subseteq S) PROVE FALSE
  OBVIOUS
<1>1. Nat \ S \subseteq Nat /\ Nat \ S # {}
  OBVIOUS
<1>2. PICK n \in Nat \ S : \A k \in Nat \ S : ~(<<k, n>> \in OpToRel(<, Nat))
  BY <1>1, NatLessThanWellFounded, WFMin
<1>3. ASSUME NEW k \in 0..n - 1 PROVE k \in S
  <2>1. k \in Nat /\ n \in Nat /\ k < n
    OBVIOUS
  <2>2. <<k, n>> \in OpToRel(<, Nat)
    BY <2>1 DEF OpToRel
  <2> QED BY <1>2, <2>1, <2>2
<1> QED BY <1>2, <1>3

\* A step from functions to values that looks at lower ranks only.
LooksBelow(D, V, rank, step) ==
  /\ step \in [D -> [[D -> V] -> V]]
  /\ \A d \in D : \A g, h \in [D -> V] :
       (\A e \in D : rank[e] < rank[d] => g[e] = h[e]) => step[d][g] = step[d][h]

\* It has a fixed point when the rank is bounded.
LEMMA FixedPoint ==
  ASSUME NEW D, NEW V, V # {}, NEW rank \in [D -> Nat], NEW N \in Nat,
         \A d \in D : rank[d] <= N, NEW step, LooksBelow(D, V, rank, step)
  PROVE  \E f \in [D -> V] : \A d \in D : f[d] = step[d][f]
<1> USE DEF LooksBelow
<1> DEFINE Good(f, m) == \A d \in D : rank[d] < m => f[d] = step[d][f]
           S == {m \in Nat : \E f \in [D -> V] : Good(f, m)}
<1>1. ASSUME NEW m \in Nat, \A k \in 0..m - 1 : k \in S PROVE m \in S
  <2>1. CASE m = 0
    <3>1. PICK v : v \in V
      OBVIOUS
    <3>2. [d \in D |-> v] \in [D -> V] /\ Good([d \in D |-> v], 0)
      BY <3>1
    <3> QED BY <2>1, <3>2
  <2>2. CASE m # 0
    <3>1. m - 1 \in S
      <4>1. m - 1 \in 0..m - 1
        BY <2>2
      <4> HIDE DEF S
      <4> QED BY <1>1, <4>1
    <3>2. PICK f \in [D -> V] : Good(f, m - 1)
      BY <3>1
    <3> DEFINE g == [d \in D |-> step[d][f]]
    <3>3. g \in [D -> V]
      OBVIOUS
    <3>4. \A e \in D : rank[e] < m - 1 => g[e] = f[e]
      BY <3>2
    <3>5. ASSUME NEW d \in D, rank[d] < m PROVE g[d] = step[d][g]
      <4>1. \A e \in D : rank[e] < rank[d] => g[e] = f[e]
        BY <3>4, <3>5
      <4>2. step[d][g] = step[d][f]
        <5> HIDE DEF g
        <5> QED BY <3>3, <4>1
      <4> QED BY <4>2
    <3>6. Good(g, m)
      BY <3>5
    <3> HIDE DEF g
    <3> QED BY <3>3, <3>6
  <2> QED BY <2>1, <2>2
<1>2. Nat \subseteq S
  <2> HIDE DEF S
  <2> QED BY <1>1, Induction
<1>3. N + 1 \in S
  BY <1>2
<1> QED BY <1>3

\* Two functions that agree wherever they agree on the lower ranks are one.
AgreeAbove(D, rank, f, g) ==
  /\ f = [d \in D |-> f[d]] /\ g = [d \in D |-> g[d]]
  /\ \A d \in D : (\A e \in D : rank[e] < rank[d] => f[e] = g[e]) => f[d] = g[d]

LEMMA Unique ==
  ASSUME NEW D, NEW rank \in [D -> Nat], NEW f, NEW g, AgreeAbove(D, rank, f, g)
  PROVE  f = g
<1> USE DEF AgreeAbove
<1> DEFINE S == {m \in Nat : \A d \in D : rank[d] = m => f[d] = g[d]}
<1>1. ASSUME NEW m \in Nat, \A k \in 0..m - 1 : k \in S PROVE m \in S
  <2>1. SUFFICES ASSUME NEW d \in D, rank[d] = m PROVE f[d] = g[d]
    OBVIOUS
  <2>2. ASSUME NEW e \in D, rank[e] < rank[d] PROVE f[e] = g[e]
    <3>1. rank[e] \in 0..m - 1
      BY <2>1, <2>2
    <3> QED BY <1>1, <3>1
  <2> QED BY <2>2
<1>2. Nat \subseteq S
  <2> HIDE DEF S
  <2> QED BY <1>1, Induction
<1>3. \A d \in D : f[d] = g[d]
  BY <1>2
<1> QED BY <1>3

-----------------------------------------------------------------------------
(***************************************************************************)
(* FoldLeft goes through the sets of places, the greatest place last.      *)
(***************************************************************************)
LEMMA Greatest ==
  ASSUME NEW n \in Nat, NEW u \in SUBSET (1..n), u # {}
  PROVE  Max(u) \in u /\ \A k \in u : k <= Max(u)
<1> DEFINE S == {m \in Nat : ~(\E k \in u : n - k = m)}
<1>1. \E m \in u : \A k \in u : k <= m
  <2> SUFFICES ASSUME ~(\E m \in u : \A k \in u : k <= m) PROVE FALSE
    OBVIOUS
  <2>1. ASSUME NEW m \in Nat, \A k \in 0..m - 1 : k \in S PROVE m \in S
    <3> SUFFICES ASSUME NEW k \in u, n - k = m PROVE FALSE
      OBVIOUS
    <3>1. PICK j \in u : ~(j <= k)
      OBVIOUS
    <3>2. n - j \in 0..m - 1
      BY <3>1
    <3> QED BY <2>1, <3>2
  <2>2. Nat \subseteq S
    <3> HIDE DEF S
    <3> QED BY <2>1, Induction
  <2>3. PICK k : k \in u
    OBVIOUS
  <2>4. n - k \in Nat
    BY <2>3
  <2> QED BY <2>2, <2>3, <2>4
<1>2. PICK m \in u : \A k \in u : m >= k
  BY <1>1
<1> QED BY <1>2 DEF Max

\* A set of places ranks by its greatest one.
PlaceRank(n) == [u \in SUBSET (1..n) |-> IF u = {} THEN 0 ELSE Max(u)]

LEMMA PlaceRanks ==
  ASSUME NEW n \in Nat
  PROVE  /\ PlaceRank(n) \in [SUBSET (1..n) -> Nat]
         /\ \A u \in SUBSET (1..n) : PlaceRank(n)[u] <= n
         /\ \A u \in SUBSET (1..n) : u # {} =>
              /\ Max(u) \in 1..n /\ u \ {Max(u)} \in SUBSET (1..n)
              /\ PlaceRank(n)[u \ {Max(u)}] < PlaceRank(n)[u]
<1>1. ASSUME NEW u \in SUBSET (1..n), u # {}
      PROVE  /\ Max(u) \in 1..n /\ PlaceRank(n)[u] = Max(u)
             /\ u \ {Max(u)} \in SUBSET (1..n)
             /\ PlaceRank(n)[u \ {Max(u)}] < Max(u)
  <2> DEFINE v == u \ {Max(u)}
  <2>1. Max(u) \in 1..n /\ \A k \in u : k <= Max(u)
    BY <1>1, Greatest
  <2>2. v \in SUBSET (1..n)
    OBVIOUS
  <2>3. CASE v = {}
    BY <1>1, <2>1, <2>2, <2>3 DEF PlaceRank
  <2>4. CASE v # {}
    <3>1. Max(v) \in v
      BY <2>2, <2>4, Greatest
    <3>2. Max(v) < Max(u)
      <4> DEFINE a == Max(u)
                 b == Max(v)
      <4>1. b \in u /\ b # a /\ a \in 1..n
        BY <2>1, <3>1
      <4>2. b <= a /\ b \in 1..n
        BY <2>1, <4>1
      <4> HIDE DEF a, b
      <4>3. b < a
        BY <4>1, <4>2
      <4> QED BY <4>3 DEF a, b
    <3> QED BY <1>1, <2>1, <2>2, <2>4, <3>2 DEF PlaceRank
  <2> QED BY <2>3, <2>4
<1>2. ASSUME NEW u \in SUBSET (1..n)
      PROVE  PlaceRank(n)[u] \in Nat /\ PlaceRank(n)[u] <= n
  <2>1. CASE u = {}
    BY <2>1 DEF PlaceRank
  <2>2. CASE u # {}
    <3> DEFINE a == Max(u)
    <3>1. a \in 1..n /\ PlaceRank(n)[u] = a
      BY <1>1, <2>2
    <3> HIDE DEF a
    <3> QED BY <3>1
  <2> QED BY <2>1, <2>2
<1>3. PlaceRank(n) \in [SUBSET (1..n) -> Nat]
  BY <1>2 DEF PlaceRank
<1> QED BY <1>1, <1>2, <1>3

\* Two folds that are equal wherever they were equal one place before are one.
FoldAlike(n, f, g) ==
  /\ f = [u \in SUBSET (1..n) |-> f[u]] /\ g = [u \in SUBSET (1..n) |-> g[u]]
  /\ \A u \in SUBSET (1..n) :
       (u # {} => f[u \ {Max(u)}] = g[u \ {Max(u)}]) => f[u] = g[u]

LEMMA FoldUnique == ASSUME NEW n \in Nat, NEW f, NEW g, FoldAlike(n, f, g) PROVE f = g
<1> DEFINE D == SUBSET (1..n)
           rank == PlaceRank(n)
<1>1. /\ rank \in [D -> Nat]
      /\ \A u \in D : u # {} => u \ {Max(u)} \in D /\ rank[u \ {Max(u)}] < rank[u]
  BY PlaceRanks
<1> HIDE DEF rank
<1>2. \A d \in D : (\A e \in D : rank[e] < rank[d] => f[e] = g[e]) => f[d] = g[d]
  BY <1>1 DEF FoldAlike
<1>3. f = [d \in D |-> f[d]] /\ g = [d \in D |-> g[d]]
  BY DEF FoldAlike
<1> HIDE DEF D
<1>4. AgreeAbove(D, rank, f, g)
  BY <1>2, <1>3 DEF AgreeAbove
<1> QED BY <1>1, <1>4, Unique

\* A fold of values in V over n places goes through n + 1 of them.
FoldsBy(it, n, base, step) ==
  it = [u \in SUBSET (1..n) |-> IF u = {} THEN base ELSE step[Max(u)][it[u \ {Max(u)}]]]

Through(it, n, base, step) ==
  it[1..0] = base /\ \A k \in 1..n : it[1..k] = step[k][it[1..k - 1]]

LEMMA Fold ==
  ASSUME NEW n \in Nat, NEW V, NEW base \in V, NEW step \in [1..n -> [V -> V]]
  PROVE  \E it \in [SUBSET (1..n) -> V] :
           FoldsBy(it, n, base, step) /\ Through(it, n, base, step)
<1> DEFINE D == SUBSET (1..n)
           rank == PlaceRank(n)
           next == [u \in D |-> [g \in [D -> V] |->
                      IF u = {} THEN base ELSE step[Max(u)][g[u \ {Max(u)}]]]]
<1>1. /\ rank \in [D -> Nat] /\ \A u \in D : rank[u] <= n
      /\ \A u \in D : u # {} => Max(u) \in 1..n /\ u \ {Max(u)} \in D
                                /\ rank[u \ {Max(u)}] < rank[u]
  BY PlaceRanks
<1> HIDE DEF rank
<1>2. next \in [D -> [[D -> V] -> V]]
  <2> SUFFICES ASSUME NEW u \in D, NEW g \in [D -> V], u # {}
               PROVE  step[Max(u)][g[u \ {Max(u)}]] \in V
    OBVIOUS
  <2>1. g[u \ {Max(u)}] \in V /\ step[Max(u)] \in [V -> V]
    BY <1>1
  <2> QED BY <2>1
<1>3. ASSUME NEW u \in D, NEW g \in [D -> V], NEW h \in [D -> V],
             \A e \in D : rank[e] < rank[u] => g[e] = h[e]
      PROVE  next[u][g] = next[u][h]
  <2>1. u # {} => g[u \ {Max(u)}] = h[u \ {Max(u)}]
    BY <1>1, <1>3
  <2> QED BY <2>1
<1>4. \E it \in [D -> V] : \A u \in D : it[u] = next[u][it]
  <2>1. V # {} /\ rank \in [D -> Nat] /\ \A u \in D : rank[u] <= n
    BY <1>1
  <2> HIDE DEF next, D
  <2>2. LooksBelow(D, V, rank, next)
    BY <1>2, <1>3 DEF LooksBelow
  <2> QED BY <2>1, <2>2, FixedPoint
<1>5. PICK it \in [D -> V] : \A u \in D : it[u] = next[u][it]
  BY <1>4
<1>6. \A u \in D : it[u] = IF u = {} THEN base ELSE step[Max(u)][it[u \ {Max(u)}]]
  BY <1>5
<1>7. it[1..0] = base
  <2>1. 1..0 = {}
    OBVIOUS
  <2> QED BY <1>6, <2>1
<1>8. ASSUME NEW k \in 1..n PROVE it[1..k] = step[k][it[1..k - 1]]
  <2>0. \A j \in 1..k : j \in 1..n
    OBVIOUS
  <2>1. 1..k \in D /\ 1..k # {} /\ k \in 1..k
    <3>1. 1..k \subseteq 1..n
      BY <2>0
    <3>2. k \in 1..k
      OBVIOUS
    <3> QED BY <3>1, <3>2
  <2>2. Max(1..k) \in 1..k /\ k <= Max(1..k)
    BY <2>1, Greatest
  <2>3. Max(1..k) = k
    BY <2>2
  <2>4. (1..k) \ {k} = 1..k - 1
    OBVIOUS
  <2> QED BY <1>6, <2>1, <2>3, <2>4
<1> QED BY <1>6, <1>7, <1>8 DEF FoldsBy, Through

-----------------------------------------------------------------------------
(***************************************************************************)
(* Byte strings, here sequences of any numbers.                            *)
(***************************************************************************)
Text == Seq(Nat)

LEMMA BytesAreText == ASSUME NEW bytes \in Seq(0..255) PROVE bytes \in Text
<1>1. Len(bytes) \in Nat /\ bytes = [k \in 1..Len(bytes) |-> bytes[k]]
      /\ \A k \in 1..Len(bytes) : bytes[k] \in 0..255
  BY LenProperties, ElementOfSeq
<1>2. \A k \in 1..Len(bytes) : bytes[k] \in Nat
  <2>1. 0..255 \subseteq Nat
    OBVIOUS
  <2> QED BY <1>1, <2>1, Zenon
<1> QED BY <1>1, <1>2 DEF Text

LEMMA PartIsText ==
  ASSUME NEW s \in Text, NEW a \in Nat \ {0}, NEW b \in Int, b <= Len(s)
  PROVE  SubSeq(s, a, b) \in Text /\ Len(SubSeq(s, a, b)) = IF a <= b THEN b - a + 1 ELSE 0
<1>1. \A i \in a..b : s[i] \in Nat
  BY DEF Text
<1> QED BY <1>1, SubSeqProperties DEF Text

LEMMA SliceIsText ==
  ASSUME NEW s \in Text, NEW a \in Nat \ {0}, NEW b \in Nat PROVE Slice(s, a, b) \in Text
<1>1. Len(s) \in Nat
  BY DEF Text
<1> QED BY <1>1, PartIsText DEF Slice

LEMMA DropIsText ==
  ASSUME NEW s \in Text, NEW n \in Nat
  PROVE  Drop(s, n) \in Text /\ Len(Drop(s, n)) = IF n <= Len(s) THEN Len(s) - n ELSE 0
<1>1. Len(s) \in Nat
  BY DEF Text
<1> QED BY <1>1, PartIsText DEF Drop

LEMMA LeadIsText ==
  ASSUME NEW s \in Text, Len(s) >= 2 PROVE SubSeq(s, 1, 2) \in Text
<1>1. Len(s) \in Nat
  BY DEF Text
<1> QED BY <1>1, PartIsText

LEMMA JoinIsText == ASSUME NEW s \in Text, NEW t \in Text PROVE s \o t \in Text
BY ConcatProperties DEF Text

LEMMA Joined ==
  ASSUME NEW s \in Text, NEW t \in Text
  PROVE  /\ s \o t \in Text /\ Len(s \o t) = Len(s) + Len(t)
         /\ \A i \in 1..Len(s) + Len(t) :
              (s \o t)[i] = IF i <= Len(s) THEN s[i] ELSE t[i - Len(s)]
<1>1. s \in Seq(Nat) /\ t \in Seq(Nat)
  BY DEF Text
<1>2. s \o t \in Seq(Nat)
  BY <1>1, ConcatProperties
<1>3. Len(s \o t) = Len(s) + Len(t)
      /\ \A i \in 1..Len(s) + Len(t) :
           (s \o t)[i] = IF i <= Len(s) THEN s[i] ELSE t[i - Len(s)]
  BY <1>1, ConcatProperties
<1> QED BY <1>2, <1>3 DEF Text

LEMMA JoinsAssociate ==
  ASSUME NEW s \in Seq(Nat), NEW t \in Seq(Nat), NEW u \in Seq(Nat)
  PROVE  (s \o t) \o u = s \o (t \o u)
BY ConcatAssociative, SMTT(30)

LEMMA PartElement ==
  ASSUME NEW s \in Text, NEW a \in Nat \ {0}, NEW b \in Int, b <= Len(s),
         NEW i \in 1..b - a + 1
  PROVE  SubSeq(s, a, b)[i] = s[a + i - 1]
<1>1. Len(s) \in Nat
  BY DEF Text
<1>2. \A k \in a..b : s[k] \in Nat
  BY <1>1 DEF Text
<1> QED BY <1>1, <1>2, SubSeqProperties

LEMMA ShortIsText ==
  /\ <<>> \in Text
  /\ \A a \in Nat : <<a>> \in Text
  /\ \A a, b \in Nat : <<a, b>> \in Text
  /\ \A a, b, c \in Nat : <<a, b, c>> \in Text
  /\ \A a, b, c, d \in Nat : <<a, b, c, d>> \in Text
BY DEF Text

LEMMA WordIsText == ASSUME NEW n \in Nat PROVE Bytes16(n) \in Text
<1>1. n \div 256 \in Nat /\ n % 256 \in Nat
  OBVIOUS
<1> QED BY <1>1, ShortIsText DEF Bytes16

LEMMA Least ==
  ASSUME NEW n \in Nat, NEW u \in SUBSET (1..n), u # {}
  PROVE  Min(u) \in u /\ \A k \in u : Min(u) <= k
<1> DEFINE S == {m \in Nat : m \notin u}
<1>1. \E m \in u : \A k \in u : m <= k
  <2> SUFFICES ASSUME ~(\E m \in u : \A k \in u : m <= k) PROVE FALSE
    OBVIOUS
  <2>1. ASSUME NEW m \in Nat, \A k \in 0..m - 1 : k \in S PROVE m \in S
    <3> SUFFICES ASSUME m \in u PROVE FALSE
      OBVIOUS
    <3>1. PICK j \in u : ~(m <= j)
      OBVIOUS
    <3>2. j \in 0..m - 1
      BY <3>1
    <3> QED BY <2>1, <3>2
  <2>2. Nat \subseteq S
    <3> HIDE DEF S
    <3> QED BY <2>1, Induction
  <2>3. PICK m : m \in u
    OBVIOUS
  <2> HIDE DEF S
  <2>4. m \in S
    BY <2>2, <2>3
  <2> QED BY <2>3, <2>4 DEF S
<1>2. PICK m \in u : \A k \in u : m =< k
  BY <1>1
<1> QED BY <1>2 DEF Min

LEMMA FindIsPlace ==
  ASSUME NEW s \in Text, NEW t \in Text, t # <<>> PROVE Find(s, t) \in 0..Len(s)
<1> DEFINE at == {i \in 1..Len(s) - Len(t) + 1 : SubSeq(s, i, i + Len(t) - 1) = t}
<1>1. Len(s) \in Nat /\ Len(t) \in Nat \ {0}
  BY DEF Text
<1>2. at \in SUBSET (1..Len(s))
  BY <1>1
<1>3. at # {} => Min(at) \in at
  BY <1>1, <1>2, Least
<1>4. Find(s, t) = IF at = {} THEN 0 ELSE Min(at)
  BY DEF Find
<1> HIDE DEF at
<1>5. CASE at = {}
  BY <1>1, <1>4, <1>5
<1>6. CASE at # {}
  <2>1. Min(at) \in 1..Len(s)
    BY <1>2, <1>3, <1>6
  <2>2. Find(s, t) = Min(at)
    BY <1>4, <1>6
  <2> QED BY <1>1, <2>1, <2>2
<1> QED BY <1>5, <1>6

-----------------------------------------------------------------------------
(***************************************************************************)
(* Packets.                                                                *)
(***************************************************************************)
Packets == [lingo : Nat, cmd : Nat, payload : Text]

LEMMA SumIsNumber == ASSUME NEW s \in Text PROVE SumOf(s) \in Nat
<1> DEFINE n == Len(s)
           D == SUBSET (1..n)
           step == [k \in 1..n |-> [v \in Nat |-> v + s[k]]]
           Folds(it) == it = [u \in D |-> IF u = {} THEN 0 ELSE it[u \ {Max(u)}] + s[Max(u)]]
           sum == CHOOSE it : Folds(it)
<1>1. n \in Nat /\ DOMAIN s = 1..n /\ step \in [1..n -> [Nat -> Nat]]
  BY DEF Text
<1>2. SumOf(s) = sum[1..n]
  BY <1>1, Zenon DEF SumOf, FoldLeft, MapThenFoldSet
<1>3. PICK it \in [D -> Nat] : FoldsBy(it, n, 0, step) /\ Through(it, n, 0, step)
  <2> HIDE DEF step
  <2> QED BY <1>1, Fold
<1>4. Folds(it)
  BY <1>1, <1>3, PlaceRanks DEF FoldsBy
<1>5. Folds(sum)
  BY <1>4
<1>6. FoldAlike(n, it, sum)
  <2> HIDE DEF sum
  <2> QED BY <1>4, <1>5 DEF FoldAlike
<1>7. sum = it
  <2> HIDE DEF sum
  <2> QED BY <1>1, <1>6, FoldUnique
<1>8. 1..n \in D
  OBVIOUS
<1> HIDE DEF sum
<1> QED BY <1>2, <1>7, <1>8

LEMMA BuildIsText ==
  ASSUME NEW lingo \in Nat, NEW cmd \in Nat, NEW payload \in Text
  PROVE  build_packet(lingo, cmd, payload) \in Text /\ build_packet(lingo, cmd, payload) # <<>>
<1> DEFINE content == <<lingo>> \o CmdBytes(lingo, cmd) \o payload
           body    == <<Len(content)>> \o content
           sum     == iap1_checksum(body)
<1>1. content \in Text
  <2>1. CmdBytes(lingo, cmd) \in Text
    BY WordIsText, ShortIsText DEF CmdBytes
  <2> QED BY <2>1, ShortIsText, JoinIsText
<1>2. Len(content) \in Nat
  BY <1>1 DEF Text
<1>3. body \in Text
  <2> HIDE DEF content
  <2> QED BY <1>1, <1>2, ShortIsText, JoinIsText
<1> HIDE DEF content, body
<1>4. sum \in Nat
  <2>1. SumOf(body) % 256 \in 0..255
    BY <1>3, SumIsNumber
  <2> QED BY <2>1 DEF iap1_checksum
<1>5. build_packet(lingo, cmd, payload) = SYNC_SHORT \o body \o <<sum>>
  BY DEF build_packet, content, body
<1> HIDE DEF sum
<1>6. SYNC_SHORT \o body \in Text /\ <<sum>> \in Text /\ Len(<<sum>>) = 1
  BY <1>3, <1>4, ShortIsText, JoinIsText DEF SYNC_SHORT
<1> DEFINE start == SYNC_SHORT \o body
<1> HIDE DEF start
<1>7. start \o <<sum>> \in Text /\ Len(start \o <<sum>>) = Len(start) + 1
  BY <1>6, ConcatProperties DEF Text, start
<1>8. start \o <<sum>> # <<>>
  BY <1>6, <1>7 DEF Text, start
<1> QED BY <1>5, <1>7, <1>8 DEF start

LEMMA EncodedIsText ==
  ASSUME NEW p \in Packets PROVE Encoded(p) \in Text /\ Encoded(p) # <<>>
BY BuildIsText DEF Packets, Encoded

LEMMA PacketIsTyped ==
  ASSUME NEW lingo \in Nat, NEW cmd \in Nat, NEW payload \in Text
  PROVE  Packet(lingo, cmd, payload) \in Packets
BY DEF Packet, Packets

LEMMA GeneralIsTyped ==
  ASSUME NEW cmd \in Nat, NEW payload \in Text PROVE General(cmd, payload) \in Packets
BY PacketIsTyped DEF General, GENERAL

-----------------------------------------------------------------------------
(***************************************************************************)
(* The tokens of a SetFIDTokenValues.                                      *)
(***************************************************************************)
Fields    == [id : Text, data : Text]
Protocols == [index : Nat, protocol : Text]

\* Every token starts behind the count.
LEMMA StartsArePlaces ==
  ASSUME NEW payload \in Text, Len(payload) >= 3
  PROVE  \A k \in 0..payload[3] : TokenStarts(payload)[k] \in Nat \ {0}
<1> DEFINE N == payload[3]
           D == 0..N
           V == Nat \ {0}
           rank == [k \in D |-> k]
           next(g, k) == IF k = 0 THEN 4
                         ELSE IF g[k - 1] > Len(payload) THEN g[k - 1]
                         ELSE g[k - 1] + 1 + payload[g[k - 1]]
           step == [k \in D |-> [g \in [D -> V] |-> next(g, k)]]
           Starts(f) == f = [k \in D |-> next(f, k)]
           at == CHOOSE f : Starts(f)
<1>1. N \in Nat /\ Len(payload) \in Nat /\ \A j \in 1..Len(payload) : payload[j] \in Nat
  BY DEF Text
<1>2. TokenStarts(payload) = at
  BY DEF TokenStarts
<1>3. rank \in [D -> Nat] /\ (\A k \in D : rank[k] <= N) /\ V # {}
  BY <1>1
<1> HIDE DEF N
<1>4. LooksBelow(D, V, rank, step)
  <2>1. ASSUME NEW k \in D, NEW g \in [D -> V] PROVE next(g, k) \in V
    <3>1. CASE k = 0
      BY <3>1
    <3>2. CASE k # 0
      <4> DEFINE j == g[k - 1]
      <4>1. j \in V
        BY <1>1, <3>2
      <4>2. next(g, k) = IF j > Len(payload) THEN j ELSE j + 1 + payload[j]
        BY <3>2
      <4> HIDE DEF j
      <4>3. j <= Len(payload) => payload[j] \in Nat
        BY <1>1, <4>1
      <4> QED BY <1>1, <4>1, <4>2, <4>3, SMTT(30)
    <3> QED BY <3>1, <3>2
  <2>2. ASSUME NEW k \in D, NEW g \in [D -> V], NEW h \in [D -> V],
               \A e \in D : rank[e] < rank[k] => g[e] = h[e]
        PROVE  next(g, k) = next(h, k)
    <3>1. CASE k = 0
      BY <3>1
    <3>2. CASE k # 0
      <4>1. k - 1 \in D /\ rank[k - 1] < rank[k]
        BY <1>1, <3>2
      <4>2. g[k - 1] = h[k - 1]
        BY <2>2, <4>1
      <4> QED BY <4>2
    <3> QED BY <3>1, <3>2
  <2> HIDE DEF next, V
  <2>3. step \in [D -> [[D -> V] -> V]]
    BY <2>1
  <2> QED BY <2>2, <2>3 DEF LooksBelow
<1>5. PICK f \in [D -> V] : \A k \in D : f[k] = step[k][f]
  <2> HIDE DEF D, V, rank, step
  <2> QED BY <1>1, <1>3, <1>4, FixedPoint
<1>6. Starts(f)
  <2> HIDE DEF next
  <2> QED BY <1>5
<1>7. Starts(at)
  BY <1>6
<1>8. at = f
  <2>1. AgreeAbove(D, rank, at, f)
    <3>1. at = [k \in D |-> at[k]] /\ f = [k \in D |-> f[k]]
      <4> HIDE DEF next, at
      <4> QED BY <1>6, <1>7
    <3>2. ASSUME NEW k \in D, \A e \in D : rank[e] < rank[k] => at[e] = f[e]
          PROVE  at[k] = f[k]
      <4>1. at[k] = next(at, k) /\ f[k] = next(f, k)
        <5> HIDE DEF next, at
        <5> QED BY <1>6, <1>7
      <4> HIDE DEF at
      <4>2. CASE k = 0
        BY <4>1, <4>2
      <4>3. CASE k # 0
        <5>1. k - 1 \in D /\ rank[k - 1] < rank[k]
          BY <1>1, <4>3
        <5>2. at[k - 1] = f[k - 1]
          BY <3>2, <5>1
        <5> QED BY <4>1, <5>2
      <4> QED BY <4>2, <4>3
    <3> HIDE DEF at, rank
    <3> QED BY <3>1, <3>2 DEF AgreeAbove
  <2> HIDE DEF at, rank, D
  <2> QED BY <1>3, <2>1, Unique
<1> HIDE DEF at
<1> QED BY <1>2, <1>8 DEF N

LEMMA FieldsAreTyped ==
  ASSUME NEW payload \in Text, ~fid_token_values_raises(payload)
  PROVE  Len(payload) >= 3 /\ parse_fid_token_values(payload) \in Seq(Fields)
<1> DEFINE N == payload[3]
           at == TokenStarts(payload)
           Field(k) == [id |-> <<payload[at[k - 1] + 1], payload[at[k - 1] + 2]>>,
                        data |-> Slice(payload, at[k - 1] + 3, at[k - 1] + payload[at[k - 1]])]
<1>1. Len(payload) \in Nat /\ Len(payload) >= 3
  BY DEF fid_token_values_raises, Text
<1>2. N \in Nat /\ \A j \in 1..Len(payload) : payload[j] \in Nat
  BY <1>1 DEF Text
<1>3. \A k \in 0..N - 1 : at[k] + 2 <= Len(payload)
  <2>1. \A k \in 0..N - 1 : ~(at[k] + 2 > Len(payload))
    BY DEF fid_token_values_raises
  <2>2. \A k \in 0..N : at[k] \in Nat \ {0}
    BY <1>1, StartsArePlaces
  <2> HIDE DEF at, N
  <2> QED BY <1>1, <1>2, <2>1, <2>2
<1>4. ASSUME NEW k \in 1..N PROVE Field(k) \in Fields
  <2> DEFINE j == at[k - 1]
  <2>1. k - 1 \in 0..N - 1 /\ k - 1 \in 0..N
    BY <1>2
  <2>2. j \in Nat \ {0} /\ j + 2 <= Len(payload)
    BY <1>1, <1>3, <2>1, StartsArePlaces
  <2> HIDE DEF j, N
  <2>3. payload[j] \in Nat /\ payload[j + 1] \in Nat /\ payload[j + 2] \in Nat
    BY <1>1, <1>2, <2>2
  <2>4. <<payload[j + 1], payload[j + 2]>> \in Text
    BY <2>3, ShortIsText
  <2>5. Slice(payload, j + 3, j + payload[j]) \in Text
    <3>1. j + 3 \in Nat \ {0} /\ j + payload[j] \in Nat
      BY <2>2, <2>3
    <3> QED BY <3>1, SliceIsText
  <2> QED BY <2>4, <2>5 DEF Fields, j
<1>5. parse_fid_token_values(payload) = [k \in 1..N |-> Field(k)]
  BY DEF parse_fid_token_values
<1> HIDE DEF Field, N
<1>6. [k \in 1..N |-> Field(k)] \in Seq(Fields)
  BY <1>2, <1>4
<1> QED BY <1>1, <1>5, <1>6

LEMMA AcksAreTyped ==
  ASSUME NEW trans \in Text, NEW fields \in Seq(Fields)
  PROVE  build_ret_fid_token_value_acks(trans, fields) \in Packets
<1> DEFINE n == Len(fields)
           D == SUBSET (1..n)
           Ack(v, field) == v \o <<3>> \o field.id \o <<0>>
           step == [k \in 1..n |-> [v \in Text |-> Ack(v, fields[k])]]
           Folds(it) == it = [u \in D |-> IF u = {} THEN <<>>
                                          ELSE Ack(it[u \ {Max(u)}], fields[Max(u)])]
           acks == CHOOSE it : Folds(it)
<1>1. n \in Nat /\ DOMAIN fields = 1..n /\ \A k \in 1..n : fields[k].id \in Text
  <2>1. n \in Nat /\ DOMAIN fields = 1..n /\ \A k \in 1..n : fields[k] \in Fields
    BY LenProperties, ElementOfSeq
  <2> QED BY <2>1 DEF Fields
<1>2. ASSUME NEW v \in Text, NEW k \in 1..n PROVE Ack(v, fields[k]) \in Text
  BY <1>1, ShortIsText, JoinIsText
<1>3. build_ret_fid_token_value_acks(trans, fields)
        = General(58, trans \o <<Len(fields)>> \o acks[1..n])
  BY <1>1, Zenon DEF build_ret_fid_token_value_acks, FoldLeft, MapThenFoldSet
<1> HIDE DEF Ack
<1>4. PICK it \in [D -> Text] : FoldsBy(it, n, <<>>, step) /\ Through(it, n, <<>>, step)
  <2>1. step \in [1..n -> [Text -> Text]] /\ <<>> \in Text
    BY <1>2, ShortIsText
  <2> HIDE DEF step
  <2> QED BY <1>1, <2>1, Fold
<1>5. Folds(it)
  BY <1>1, <1>4, PlaceRanks DEF FoldsBy
<1>6. Folds(acks)
  BY <1>5
<1>7. acks = it
  <2> HIDE DEF acks
  <2>1. FoldAlike(n, it, acks)
    BY <1>5, <1>6 DEF FoldAlike
  <2> QED BY <1>1, <2>1, FoldUnique
<1>8. acks[1..n] \in Text
  BY <1>7
<1> HIDE DEF acks
<1>9. trans \o <<Len(fields)>> \o acks[1..n] \in Text
  BY <1>1, <1>8, ShortIsText, JoinIsText
<1> QED BY <1>3, <1>9, GeneralIsTyped

LEMMA UpToNulIsText == ASSUME NEW s \in Text PROVE UpToNul(s) \in Text
<1> DEFINE i == Find(s, <<0>>)
<1>1. i \in 0..Len(s) /\ Len(s) \in Nat
  <2>1. <<0>> \in Text /\ <<0>> # <<>>
    BY DEF Text
  <2>2. Len(s) \in Nat
    BY DEF Text
  <2> QED BY <2>1, <2>2, FindIsPlace
<1>2. UpToNul(s) = IF i = 0 THEN s ELSE SubSeq(s, 1, i - 1)
  BY DEF UpToNul
<1> HIDE DEF i
<1>3. i # 0 => SubSeq(s, 1, i - 1) \in Text
  BY <1>1, PartIsText
<1> QED BY <1>2, <1>3

LEMMA ProtocolsAreTyped ==
  ASSUME NEW fields \in Seq(Fields) PROVE parse_ea_protocols(fields) \in Seq(Protocols)
<1> DEFINE n == Len(fields)
           D == SUBSET (1..n)
           V == Seq(Protocols)
           Add(v, field) == IF field.id = FID_TOKEN_EA_PROTOCOL /\ Len(field.data) >= 2
                              THEN Append(v, EaProtocol(field.data)) ELSE v
           step == [k \in 1..n |-> [v \in V |-> Add(v, fields[k])]]
           Folds(it) == it = [u \in D |-> IF u = {} THEN <<>>
                                          ELSE Add(it[u \ {Max(u)}], fields[Max(u)])]
           found == CHOOSE it : Folds(it)
<1>1. n \in Nat /\ DOMAIN fields = 1..n /\ \A k \in 1..n : fields[k].data \in Text
  <2>1. n \in Nat /\ DOMAIN fields = 1..n /\ \A k \in 1..n : fields[k] \in Fields
    BY LenProperties, ElementOfSeq
  <2> QED BY <2>1 DEF Fields
<1>2. ASSUME NEW v \in V, NEW k \in 1..n PROVE Add(v, fields[k]) \in V
  <2> DEFINE data == fields[k].data
  <2>1. data \in Text
    BY <1>1
  <2> HIDE DEF data
  <2>2. CASE Len(data) >= 2
    <3>1. data[1] \in Nat
      BY <2>1, <2>2 DEF Text
    <3>2. UpToNul(Drop(data, 1)) \in Text
      BY <2>1, DropIsText, UpToNulIsText
    <3>3. EaProtocol(data) \in Protocols
      BY <3>1, <3>2 DEF EaProtocol, Protocols
    <3>4. Append(v, EaProtocol(data)) \in V
      BY <3>3, AppendProperties
    <3> QED BY <3>4 DEF data
  <2>3. CASE ~(Len(data) >= 2)
    BY <2>3 DEF data
  <2> QED BY <2>2, <2>3
<1>3. parse_ea_protocols(fields) = found[1..n]
  BY <1>1, Zenon DEF parse_ea_protocols, FoldLeft, MapThenFoldSet
<1> HIDE DEF Add
<1>4. PICK it \in [D -> V] : FoldsBy(it, n, <<>>, step) /\ Through(it, n, <<>>, step)
  <2>1. step \in [1..n -> [V -> V]] /\ <<>> \in V
    BY <1>2
  <2> HIDE DEF step, V
  <2> QED BY <1>1, <2>1, Fold
<1>5. Folds(it)
  <2> HIDE DEF V
  <2> QED BY <1>1, <1>4, PlaceRanks DEF FoldsBy
<1>6. Folds(found)
  BY <1>5
<1>7. found = it
  <2> HIDE DEF found
  <2>1. FoldAlike(n, it, found)
    BY <1>5, <1>6 DEF FoldAlike
  <2> QED BY <1>1, <2>1, FoldUnique
<1>8. found[1..n] \in V
  BY <1>7
<1> QED BY <1>3, <1>8

-----------------------------------------------------------------------------
(***************************************************************************)
(* DataParts frames.  Scan is the function that Unescaped reads at its     *)
(* start: ScanGoesOn is its defining equation, ScanIsTyped what it returns. *)
(***************************************************************************)
Scanned == [ended : BOOLEAN, body : Text, next : Nat]
Frames  == [id : Nat, check : Nat, payload : Text]

ScanNext(stream, f, j) ==
  IF j < Len(stream) /\ stream[j] # MARK THEN [f[j + 1] EXCEPT !.body = <<stream[j]>> \o @]
  ELSE IF MarkThen(stream, j, MARK) THEN [f[j + 2] EXCEPT !.body = <<MARK>> \o @]
  ELSE [ended |-> MarkThen(stream, j, 3), body |-> <<>>,
        next |-> IF MarkThen(stream, j, 3) THEN j + 2 ELSE j]

Scan(stream, start) ==
  CHOOSE f : f = [j \in start..Len(stream) + 1 |-> ScanNext(stream, f, j)]

\* The cases one at a time: a byte, a marker that stands for itself, the end marker,
\* and what leaves no frame.
LEMMA ScanByte ==
  ASSUME NEW stream \in Text, NEW f, NEW j \in Nat \ {0}, j < Len(stream), stream[j] # MARK
  PROVE  ScanNext(stream, f, j) = [f[j + 1] EXCEPT !.body = <<stream[j]>> \o @]
<1>1. Len(stream) \in Nat
  BY DEF Text
<1> QED BY <1>1 DEF ScanNext, MarkThen

LEMMA ScanMark ==
  ASSUME NEW stream \in Text, NEW f, NEW j \in Nat \ {0}, j < Len(stream), stream[j] = MARK,
         stream[j + 1] = MARK
  PROVE  ScanNext(stream, f, j) = [f[j + 2] EXCEPT !.body = <<MARK>> \o @]
<1>1. Len(stream) \in Nat /\ MARK # 3
  BY DEF Text, MARK
<1> QED BY <1>1 DEF ScanNext, MarkThen

LEMMA ScanEnd ==
  ASSUME NEW stream \in Text, NEW f, NEW j \in Nat \ {0}, j < Len(stream), stream[j] = MARK,
         stream[j + 1] = 3
  PROVE  ScanNext(stream, f, j) = [ended |-> TRUE, body |-> <<>>, next |-> j + 2]
<1>1. Len(stream) \in Nat /\ MARK # 3
  BY DEF Text, MARK
<1> QED BY <1>1 DEF ScanNext, MarkThen

LEMMA ScanStop ==
  ASSUME NEW stream \in Text, NEW f, NEW j \in Nat \ {0},
         j >= Len(stream) \/ (stream[j] = MARK /\ stream[j + 1] \notin {MARK, 3})
  PROVE  ScanNext(stream, f, j) = [ended |-> FALSE, body |-> <<>>, next |-> j]
<1>1. Len(stream) \in Nat
  BY DEF Text
<1>2. ~(j < Len(stream) /\ stream[j] # MARK) /\ ~MarkThen(stream, j, MARK)
  BY <1>1 DEF MarkThen
<1>3. MarkThen(stream, j, 3) = FALSE
  BY <1>1 DEF MarkThen
<1> QED BY <1>2, <1>3 DEF ScanNext

LEMMA ScanNextIsTyped ==
  ASSUME NEW stream \in Text, NEW start \in Nat \ {0}, NEW j \in start..Len(stream) + 1,
         NEW f \in [start..Len(stream) + 1 -> Scanned]
  PROVE  ScanNext(stream, f, j) \in Scanned
<1>1. Len(stream) \in Nat /\ j \in Nat \ {0} /\ j <= Len(stream) + 1 /\ j >= start
  BY DEF Text
<1>2. <<>> \in Text /\ MARK \in Nat
  BY ShortIsText DEF MARK
<1>3. ASSUME NEW r \in Scanned, NEW b \in Nat PROVE [r EXCEPT !.body = <<b>> \o @] \in Scanned
  <2>1. <<b>> \o r.body \in Text
    BY ShortIsText, JoinIsText DEF Scanned
  <2> QED BY <2>1 DEF Scanned
<1>4. CASE j < Len(stream) /\ stream[j] # MARK
  <2>1. j + 1 \in start..Len(stream) + 1
    BY <1>1, <1>4
  <2>2. f[j + 1] \in Scanned
    BY <2>1
  <2>3. stream[j] \in Nat
    BY <1>1, <1>4 DEF Text
  <2>4. ScanNext(stream, f, j) = [f[j + 1] EXCEPT !.body = <<stream[j]>> \o @]
    BY <1>1, <1>4, ScanByte
  <2> QED BY <1>3, <2>2, <2>3, <2>4
<1>5. CASE j < Len(stream) /\ stream[j] = MARK /\ stream[j + 1] = MARK
  <2>1. j + 2 \in start..Len(stream) + 1
    BY <1>1, <1>5
  <2>2. f[j + 2] \in Scanned
    BY <2>1
  <2>3. ScanNext(stream, f, j) = [f[j + 2] EXCEPT !.body = <<MARK>> \o @]
    BY <1>1, <1>5, ScanMark
  <2> QED BY <1>2, <1>3, <2>2, <2>3
<1>6. CASE j < Len(stream) /\ stream[j] = MARK /\ stream[j + 1] = 3
  <2>1. ScanNext(stream, f, j) = [ended |-> TRUE, body |-> <<>>, next |-> j + 2]
    BY <1>1, <1>6, ScanEnd
  <2> QED BY <1>1, <1>2, <2>1 DEF Scanned
<1>7. CASE j >= Len(stream) \/ (stream[j] = MARK /\ stream[j + 1] \notin {MARK, 3})
  <2>1. ScanNext(stream, f, j) = [ended |-> FALSE, body |-> <<>>, next |-> j]
    BY <1>1, <1>7, ScanStop
  <2> QED BY <1>1, <1>2, <2>1 DEF Scanned
<1> QED BY <1>1, <1>4, <1>5, <1>6, <1>7

LEMMA ScanLooksAhead ==
  ASSUME NEW stream \in Text, NEW start \in Nat \ {0}, NEW j \in start..Len(stream) + 1, NEW f, NEW g,
         \A k \in start..Len(stream) + 1 : k > j => f[k] = g[k]
  PROVE  ScanNext(stream, f, j) = ScanNext(stream, g, j)
<1>1. Len(stream) \in Nat /\ j \in Nat \ {0} /\ j >= start
  BY DEF Text
<1>2. CASE j < Len(stream)
  <2>1. /\ j + 1 \in start..Len(stream) + 1 /\ j + 2 \in start..Len(stream) + 1
        /\ j + 1 > j /\ j + 2 > j
    BY <1>1, <1>2
  <2>2. f[j + 1] = g[j + 1] /\ f[j + 2] = g[j + 2]
    BY <2>1
  <2> QED BY <2>2, Zenon DEF ScanNext
<1>3. CASE j >= Len(stream)
  BY <1>1, <1>3, ScanStop, ZenonT(30)
<1> QED BY <1>1, <1>2, <1>3

\* Scan exists, and keeps its type and its equation.
LEMMA ScanGoesOn ==
  ASSUME NEW stream \in Text, NEW start \in Nat \ {0}
  PROVE  LET D == start..Len(stream) + 1
             f == Scan(stream, start)
         IN  f \in [D -> Scanned] /\ \A j \in D : f[j] = ScanNext(stream, f, j)
<1> DEFINE N == Len(stream) + 1
           D == start..N
           rank == [j \in D |-> N - j]
           step == [j \in D |-> [g \in [D -> Scanned] |-> ScanNext(stream, g, j)]]
           f == Scan(stream, start)
<1>1. N \in Nat
  BY DEF Text
<1>2. rank \in [D -> Nat] /\ (\A j \in D : rank[j] <= N) /\ Scanned # {}
  <2>1. [ended |-> FALSE, body |-> <<>>, next |-> 0] \in Scanned
    BY ShortIsText DEF Scanned
  <2> HIDE DEF N
  <2>2. \A j \in D : N - j \in Nat /\ N - j <= N
    BY <1>1
  <2> QED BY <2>1, <2>2
<1>3. LooksBelow(D, Scanned, rank, step)
  <2>1. step \in [D -> [[D -> Scanned] -> Scanned]]
    BY ScanNextIsTyped
  <2>2. ASSUME NEW j \in D, NEW g \in [D -> Scanned], NEW h \in [D -> Scanned],
               \A e \in D : rank[e] < rank[j] => g[e] = h[e]
        PROVE  ScanNext(stream, g, j) = ScanNext(stream, h, j)
    <3>1. ASSUME NEW k \in D, k > j PROVE g[k] = h[k]
      <4>1. rank[k] < rank[j]
        <5> HIDE DEF N
        <5> QED BY <1>1, <3>1
      <4> QED BY <2>2, <4>1
    <3> QED BY <3>1, ScanLooksAhead
  <2> HIDE DEF D, rank
  <2> QED BY <2>1, <2>2 DEF LooksBelow
<1>4. PICK w \in [D -> Scanned] : \A j \in D : w[j] = step[j][w]
  <2> HIDE DEF D, rank, step
  <2> QED BY <1>1, <1>2, <1>3, FixedPoint
<1>5. w = [j \in D |-> ScanNext(stream, w, j)]
  BY <1>4
<1>6. f = [j \in D |-> ScanNext(stream, f, j)]
  BY <1>5 DEF Scan
<1> HIDE DEF f
<1>7. f = w
  <2>1. ASSUME NEW j \in D, \A e \in D : rank[e] < rank[j] => f[e] = w[e] PROVE f[j] = w[j]
    <3>1. ASSUME NEW k \in D, k > j PROVE f[k] = w[k]
      <4>1. rank[k] < rank[j]
        <5> HIDE DEF N
        <5> QED BY <1>1, <3>1
      <4> QED BY <2>1, <4>1
    <3>2. ScanNext(stream, f, j) = ScanNext(stream, w, j)
      BY <3>1, ScanLooksAhead, ZenonT(30)
    <3> HIDE DEF D
    <3> QED BY <1>5, <1>6, <3>2
  <2> HIDE DEF D, rank
  <2>2. AgreeAbove(D, rank, f, w)
    BY <1>5, <1>6, <2>1 DEF AgreeAbove
  <2> QED BY <1>2, <2>2, Unique
<1>8. \A j \in D : f[j] = ScanNext(stream, f, j)
  BY <1>6
<1> QED BY <1>4, <1>7, <1>8 DEF f

\* A scan never goes back, nor beyond the byte after the last.
LEMMA ScanGoesForward ==
  ASSUME NEW stream \in Text, NEW start \in Nat \ {0}
  PROVE  \A j \in start..Len(stream) + 1 : Scan(stream, start)[j].next \in j..Len(stream) + 1
<1> DEFINE N == Len(stream) + 1
           D == start..N
           f == Scan(stream, start)
           S == {m \in Nat : \A j \in D : N - j = m => f[j].next \in j..N}
<1>1. N \in Nat /\ Len(stream) = N - 1
  BY DEF Text
<1>2. f \in [D -> Scanned] /\ \A j \in D : f[j] = ScanNext(stream, f, j)
  BY ScanGoesOn
<1> HIDE DEF f, N
<1>3. ASSUME NEW m \in Nat, \A k \in 0..m - 1 : k \in S PROVE m \in S
  <2> SUFFICES ASSUME NEW j \in D, N - j = m PROVE f[j].next \in j..N
    OBVIOUS
  <2>0. j \in Nat \ {0} /\ j <= N /\ D = start..Len(stream) + 1
    BY <1>1
  <2>1. ASSUME NEW k \in D, k > j PROVE f[k].next \in j..N /\ f[k] \in Scanned
    <3>1. N - k \in 0..m - 1
      BY <1>1, <2>1
    <3>2. f[k].next \in k..N
      BY <1>3, <3>1
    <3> QED BY <1>2, <2>1, <3>2
  <2>2. CASE j < Len(stream) /\ stream[j] # MARK
    <3>1. f[j] = [f[j + 1] EXCEPT !.body = <<stream[j]>> \o @]
      <4>1. ScanNext(stream, f, j) = [f[j + 1] EXCEPT !.body = <<stream[j]>> \o @]
        BY <2>0, <2>2, ScanByte
      <4> QED BY <1>2, <4>1
    <3>2. j + 1 \in D /\ j + 1 > j
      BY <1>1, <2>2
    <3>3. f[j + 1].next \in j..N /\ f[j + 1] \in Scanned
      BY <2>1, <3>2
    <3>4. f[j].next = f[j + 1].next
      BY <3>1, <3>3 DEF Scanned
    <3> QED BY <3>3, <3>4
  <2>3. CASE j < Len(stream) /\ stream[j] = MARK /\ stream[j + 1] = MARK
    <3>1. f[j] = [f[j + 2] EXCEPT !.body = <<MARK>> \o @]
      <4>1. ScanNext(stream, f, j) = [f[j + 2] EXCEPT !.body = <<MARK>> \o @]
        BY <2>0, <2>3, ScanMark
      <4> QED BY <1>2, <4>1
    <3>2. j + 2 \in D /\ j + 2 > j
      BY <1>1, <2>3
    <3>3. f[j + 2].next \in j..N /\ f[j + 2] \in Scanned
      BY <2>1, <3>2
    <3>4. f[j].next = f[j + 2].next
      BY <3>1, <3>3 DEF Scanned
    <3> QED BY <3>3, <3>4
  <2>4. CASE j < Len(stream) /\ stream[j] = MARK /\ stream[j + 1] = 3
    <3>1. f[j] = [ended |-> TRUE, body |-> <<>>, next |-> j + 2]
      BY <1>2, <2>0, <2>4, ScanEnd
    <3>2. f[j].next = j + 2
      BY <3>1
    <3> QED BY <1>1, <2>0, <2>4, <3>2
  <2>5. CASE j >= Len(stream) \/ (stream[j] = MARK /\ stream[j + 1] \notin {MARK, 3})
    <3>1. f[j] = [ended |-> FALSE, body |-> <<>>, next |-> j]
      BY <1>2, <2>0, <2>5, ScanStop
    <3> QED BY <1>1, <2>0, <3>1
  <2> QED BY <1>1, <2>0, <2>2, <2>3, <2>4, <2>5
<1>4. Nat \subseteq S
  <2> HIDE DEF S
  <2> QED BY <1>3, Induction
<1>5. ASSUME NEW j \in D PROVE f[j].next \in j..N
  <2>1. N - j \in Nat
    BY <1>1
  <2> QED BY <1>4, <2>1
<1> QED BY <1>5 DEF f, N

LEMMA UnescapedIsTyped ==
  ASSUME NEW stream \in Text, NEW start \in 1..Len(stream) + 1
  PROVE  /\ Unescaped(stream, start) = Scan(stream, start)[start]
         /\ Unescaped(stream, start) \in Scanned
         /\ Unescaped(stream, start).next \in start..Len(stream) + 1
<1>1. Unescaped(stream, start) = Scan(stream, start)[start]
  BY Zenon DEF Unescaped, Scan, ScanNext
<1>2. Len(stream) \in Nat /\ start \in Nat \ {0} /\ start \in start..Len(stream) + 1
  BY DEF Text
<1>3. Scan(stream, start) \in [start..Len(stream) + 1 -> Scanned]
  BY <1>2, ScanGoesOn
<1>4. Scan(stream, start)[start].next \in start..Len(stream) + 1
  BY <1>2, ScanGoesForward
<1> QED BY <1>1, <1>2, <1>3, <1>4

\* The frames from a place on.
FramesNext(stream, f, i) ==
  IF i >= Len(stream) THEN <<>>
  ELSE LET found == Unescaped(stream, i + 2)
       IN IF /\ SubSeq(stream, i, i + 1) = FRAME_START
             /\ found.ended /\ Len(found.body) >= 2
            THEN <<Frame(found.body)>> \o f[found.next]
            ELSE f[i + 1]

FramesFrom(stream) == CHOOSE f : f = [i \in 1..Len(stream) + 2 |-> FramesNext(stream, f, i)]

LEMMA FramesGoOn ==
  ASSUME NEW stream \in Text
  PROVE  /\ parse_frames(stream) = FramesFrom(stream)[1]
         /\ FramesFrom(stream) \in [1..Len(stream) + 2 -> Seq(Frames)]
         /\ \A i \in 1..Len(stream) + 2 :
              FramesFrom(stream)[i] = FramesNext(stream, FramesFrom(stream), i)
<1> DEFINE N == Len(stream) + 2
           D == 1..N
           V == Seq(Frames)
           rank == [i \in D |-> N - i]
           step == [i \in D |-> [g \in [D -> V] |-> FramesNext(stream, g, i)]]
           f == FramesFrom(stream)
<1>1. N \in Nat /\ Len(stream) = N - 2 /\ Len(stream) \in Nat
  BY DEF Text
<1>2. rank \in [D -> Nat] /\ (\A i \in D : rank[i] <= N) /\ V # {}
  <2>1. <<>> \in V
    OBVIOUS
  <2> HIDE DEF N, V
  <2>2. \A i \in D : N - i \in Nat /\ N - i <= N
    BY <1>1
  <2> QED BY <2>1, <2>2
<1>3. ASSUME NEW i \in D, i < Len(stream)
      PROVE  LET found == Unescaped(stream, i + 2)
             IN  found \in Scanned /\ found.next \in D /\ found.next > i
  <2>1. i + 2 \in 1..Len(stream) + 1
    BY <1>1, <1>3
  <2> DEFINE found == Unescaped(stream, i + 2)
  <2>2. found \in Scanned /\ found.next \in (i + 2)..Len(stream) + 1
    BY <2>1, UnescapedIsTyped
  <2> HIDE DEF found
  <2> QED BY <1>1, <2>2 DEF found
<1>4. ASSUME NEW i \in D, NEW g \in [D -> V] PROVE FramesNext(stream, g, i) \in V
  <2>1. CASE i >= Len(stream)
    BY <2>1 DEF FramesNext
  <2>2. CASE ~(i >= Len(stream))
    <3> DEFINE found == Unescaped(stream, i + 2)
    <3>1. found \in Scanned /\ found.next \in D
      BY <1>1, <1>3, <2>2
    <3> HIDE DEF found
    <3>2. Len(found.body) >= 2 => Frame(found.body) \in Frames
      <4> SUFFICES ASSUME Len(found.body) >= 2 PROVE Frame(found.body) \in Frames
        OBVIOUS
      <4>1. found.body \in Text
        BY <3>1 DEF Scanned
      <4> DEFINE body == found.body
      <4> HIDE DEF body
      <4>2. body \in Text /\ Len(body) >= 2 /\ Len(body) \in Nat
        BY <4>1 DEF body, Text
      <4>3. body[1] \in Nat /\ body[2] \in Nat
        BY <4>2 DEF Text
      <4>4. SubSeq(body, 3, Len(body)) \in Text
        BY <4>2, PartIsText
      <4>5. Frame(body) \in Frames
        BY <4>3, <4>4 DEF Frame, Frames
      <4> QED BY <4>5 DEF body
    <3>3. Len(found.body) >= 2 => <<Frame(found.body)>> \o g[found.next] \in V
      <4> DEFINE first == <<Frame(found.body)>>
      <4>1. Len(found.body) >= 2 => first \in V
        BY <3>2
      <4>2. g[found.next] \in V
        BY <3>1
      <4> HIDE DEF first
      <4> QED BY <4>1, <4>2, ConcatProperties DEF first
    <3>4. g[i + 1] \in V
      <4>1. i + 1 \in D
        BY <1>1, <2>2
      <4> QED BY <4>1
    <3> HIDE DEF V
    <3> QED BY <2>2, <3>3, <3>4 DEF FramesNext, found
  <2> QED BY <2>1, <2>2
<1>5. ASSUME NEW i \in D, NEW g, NEW h, \A k \in D : k > i => g[k] = h[k]
      PROVE  FramesNext(stream, g, i) = FramesNext(stream, h, i)
  <2>1. CASE i >= Len(stream)
    BY <2>1 DEF FramesNext
  <2>2. CASE ~(i >= Len(stream))
    <3>1. g[i + 1] = h[i + 1]
      <4>1. i + 1 \in D /\ i + 1 > i
        BY <1>1, <2>2
      <4> QED BY <1>5, <4>1
    <3>2. g[Unescaped(stream, i + 2).next] = h[Unescaped(stream, i + 2).next]
      BY <1>1, <1>3, <1>5, <2>2
    <3> QED BY <3>1, <3>2, Zenon DEF FramesNext
  <2> QED BY <2>1, <2>2
<1>6. LooksBelow(D, V, rank, step)
  <2>1. step \in [D -> [[D -> V] -> V]]
    <3> HIDE DEF D, V
    <3> QED BY <1>4
  <2>2. ASSUME NEW i \in D, NEW g \in [D -> V], NEW h \in [D -> V],
               \A e \in D : rank[e] < rank[i] => g[e] = h[e]
        PROVE  FramesNext(stream, g, i) = FramesNext(stream, h, i)
    <3>1. ASSUME NEW k \in D, k > i PROVE g[k] = h[k]
      <4>1. rank[k] < rank[i]
        <5> HIDE DEF N
        <5> QED BY <1>1, <3>1
      <4> QED BY <2>2, <4>1
    <3> QED BY <3>1, <1>5
  <2> HIDE DEF D, V, rank
  <2> QED BY <2>1, <2>2 DEF LooksBelow
<1>7. PICK w \in [D -> V] : \A i \in D : w[i] = step[i][w]
  <2> HIDE DEF D, V, rank, step
  <2> QED BY <1>1, <1>2, <1>6, FixedPoint
<1>8. w = [i \in D |-> FramesNext(stream, w, i)]
  <2> HIDE DEF D, V
  <2> QED BY <1>7
<1>9. f = [i \in D |-> FramesNext(stream, f, i)]
  BY <1>8 DEF FramesFrom
<1> HIDE DEF f
<1>10. f = w
  <2>1. ASSUME NEW i \in D, \A e \in D : rank[e] < rank[i] => f[e] = w[e] PROVE f[i] = w[i]
    <3>1. ASSUME NEW k \in D, k > i PROVE f[k] = w[k]
      <4>1. rank[k] < rank[i]
        <5> HIDE DEF N
        <5> QED BY <1>1, <3>1
      <4> QED BY <2>1, <4>1
    <3>2. FramesNext(stream, f, i) = FramesNext(stream, w, i)
      BY <3>1, <1>5
    <3> HIDE DEF D
    <3> QED BY <1>8, <1>9, <3>2
  <2> HIDE DEF D, rank, V
  <2>2. AgreeAbove(D, rank, f, w)
    BY <1>8, <1>9, <2>1 DEF AgreeAbove
  <2> QED BY <1>2, <2>2, Unique
<1>11. \A i \in D : f[i] = FramesNext(stream, f, i)
  <2> HIDE DEF D
  <2> QED BY <1>9
<1>12. parse_frames(stream) = f[1]
  BY DEF parse_frames, FramesFrom, FramesNext, f
<1> QED BY <1>7, <1>10, <1>11, <1>12 DEF f

LEMMA ParsedIsTyped == ASSUME NEW stream \in Text PROVE parse_frames(stream) \in Seq(Frames)
<1>1. 1 \in 1..Len(stream) + 2
  BY DEF Text
<1>2. FramesFrom(stream) \in [1..Len(stream) + 2 -> Seq(Frames)]
  BY FramesGoOn
<1> QED BY <1>1, <1>2, FramesGoOn

LEMMA EscapedIsText == ASSUME NEW body \in Text PROVE escape(body) \in Text
<1> DEFINE n == Len(body)
           D == SUBSET (1..n)
           Add(v, b) == IF b = MARK THEN v \o <<MARK, MARK>> ELSE Append(v, b)
           step == [k \in 1..n |-> [v \in Text |-> Add(v, body[k])]]
           Folds(it) == it = [u \in D |-> IF u = {} THEN <<>>
                                          ELSE Add(it[u \ {Max(u)}], body[Max(u)])]
           out == CHOOSE it : Folds(it)
<1>1. n \in Nat /\ DOMAIN body = 1..n /\ \A k \in 1..n : body[k] \in Nat
  BY DEF Text
<1>2. ASSUME NEW v \in Text, NEW k \in 1..n PROVE Add(v, body[k]) \in Text
  <2>1. <<MARK, MARK>> \in Text
    BY ShortIsText DEF MARK
  <2>2. v \o <<MARK, MARK>> \in Text
    BY <2>1, JoinIsText
  <2>3. Append(v, body[k]) \in Text
    BY <1>1, AppendProperties DEF Text
  <2> QED BY <2>2, <2>3
<1>3. escape(body) = out[1..n]
  BY <1>1, Zenon DEF escape, FoldLeft, MapThenFoldSet
<1> HIDE DEF Add
<1>4. PICK it \in [D -> Text] : FoldsBy(it, n, <<>>, step) /\ Through(it, n, <<>>, step)
  <2>1. step \in [1..n -> [Text -> Text]] /\ <<>> \in Text
    BY <1>2, ShortIsText
  <2> HIDE DEF step
  <2> QED BY <1>1, <2>1, Fold
<1>5. Folds(it)
  BY <1>1, <1>4, PlaceRanks DEF FoldsBy
<1>6. Folds(out)
  BY <1>5
<1>7. out = it
  <2> HIDE DEF out
  <2>1. FoldAlike(n, it, out)
    BY <1>5, <1>6 DEF FoldAlike
  <2> QED BY <1>1, <2>1, FoldUnique
<1>8. out[1..n] \in Text
  BY <1>7
<1> QED BY <1>3, <1>8

LEMMA BuiltIsText ==
  ASSUME NEW id \in Nat, NEW payload \in Text PROVE build_frame(id, payload) \in Text
<1> DEFINE body == <<id, Len(payload) % 256>> \o payload
<1>1. body \in Text
  <2>1. Len(payload) % 256 \in Nat
    BY DEF Text
  <2> QED BY <2>1, ShortIsText, JoinIsText
<1>2. FRAME_START \in Text /\ FRAME_END \in Text
  BY ShortIsText DEF FRAME_START, FRAME_END, MARK
<1>3. build_frame(id, payload) = FRAME_START \o escape(body) \o FRAME_END
  BY DEF build_frame
<1> HIDE DEF body
<1> QED BY <1>1, <1>2, <1>3, EscapedIsText, JoinIsText
=============================================================================
