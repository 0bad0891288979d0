------------------------ MODULE StreamReadersProofs ------------------------
(***************************************************************************)
(* Theorem about StreamReaders: however a stream of packets and noise, or  *)
(* of AT lines, is cut, what was sent is handled, in order and at once.    *)
(***************************************************************************)
EXTENDS StreamReaders, ParsingLemmas

-----------------------------------------------------------------------------
(***************************************************************************)
(* Sequences of anything.                                                  *)
(***************************************************************************)
LEMMA DropPlaces ==
  ASSUME NEW S, NEW s \in Seq(S), NEW n \in 0..Len(s)
  PROVE  /\ Drop(s, n) \in Seq(S) /\ Len(Drop(s, n)) = Len(s) - n
         /\ \A i \in 1..Len(s) - n : Drop(s, n)[i] = s[n + i]
<1>1. Len(s) \in Nat
  BY LenProperties
<1>2. \A i \in n + 1..Len(s) : s[i] \in S
  BY <1>1, ElementOfSeq
<1> DEFINE m == n + 1
<1>3. m \in Int /\ Len(s) \in Int /\ \A i \in m..Len(s) : s[i] \in S
  BY <1>1, <1>2
<1> HIDE DEF m
<1>4. /\ SubSeq(s, m, Len(s)) \in Seq(S)
      /\ Len(SubSeq(s, m, Len(s))) = IF m <= Len(s) THEN Len(s) - m + 1 ELSE 0
      /\ \A i \in 1..Len(s) - m + 1 : SubSeq(s, m, Len(s))[i] = s[m + i - 1]
  BY <1>3, SubSeqProperties
<1>5. Drop(s, n) = SubSeq(s, m, Len(s))
  BY DEF Drop, m
<1> HIDE DEF Drop
<1>6. \A i \in 1..Len(s) - n : m + i - 1 = n + i /\ i \in 1..Len(s) - m + 1
  BY <1>1 DEF m
<1>7. Len(Drop(s, n)) = Len(s) - n
  BY <1>1, <1>4, <1>5 DEF m
<1> QED BY <1>4, <1>5, <1>6, <1>7

\* What is dropped of a join is dropped of its first part.
LEMMA DropJoin ==
  ASSUME NEW S, NEW s \in Seq(S), NEW t \in Seq(S), NEW n \in 0..Len(s)
  PROVE  Drop(s \o t, n) = Drop(s, n) \o t
<1> DEFINE j == s \o t
           a == Drop(s, n)
           u == Drop(j, n)
           v == a \o t
<1>1. Len(s) \in Nat /\ Len(t) \in Nat
  BY LenProperties
<1>2. /\ j \in Seq(S) /\ Len(j) = Len(s) + Len(t)
      /\ \A i \in 1..Len(s) + Len(t) : j[i] = IF i <= Len(s) THEN s[i] ELSE t[i - Len(s)]
  BY ConcatProperties
<1>3. /\ a \in Seq(S) /\ Len(a) = Len(s) - n
      /\ \A i \in 1..Len(s) - n : a[i] = s[n + i]
  BY DropPlaces
<1> HIDE DEF a
<1>4. /\ v \in Seq(S) /\ Len(v) = Len(a) + Len(t)
      /\ \A i \in 1..Len(a) + Len(t) : v[i] = IF i <= Len(a) THEN a[i] ELSE t[i - Len(a)]
  BY <1>3, ConcatProperties
<1> HIDE DEF j, v
<1>5. n \in 0..Len(j)
  BY <1>1, <1>2
<1>6. /\ u \in Seq(S) /\ Len(u) = Len(j) - n
      /\ \A i \in 1..Len(j) - n : u[i] = j[n + i]
  BY <1>2, <1>5, DropPlaces, ZenonT(60)
<1> HIDE DEF u
<1>7. Len(u) = Len(v)
  BY <1>1, <1>2, <1>3, <1>4, <1>6
<1>8. ASSUME NEW i \in 1..Len(u) PROVE u[i] = v[i]
  <2>1. u[i] = j[n + i] /\ n + i \in 1..Len(s) + Len(t)
    BY <1>1, <1>2, <1>6
  <2>2. CASE i <= Len(s) - n
    <3>1. j[n + i] = s[n + i] /\ a[i] = s[n + i] /\ v[i] = a[i]
      BY <1>1, <1>2, <1>3, <1>4, <1>6, <1>7, <2>1, <2>2
    <3> QED BY <2>1, <3>1
  <2>3. CASE ~(i <= Len(s) - n)
    <3>1. /\ ~(n + i <= Len(s)) /\ ~(i <= Len(a)) /\ i \in 1..Len(a) + Len(t)
          /\ n + i - Len(s) = i - Len(a)
      BY <1>1, <1>3, <1>4, <1>7, <2>3
    <3>2. j[n + i] = t[n + i - Len(s)]
      BY <1>2, <2>1, <3>1
    <3>3. v[i] = t[i - Len(a)]
      BY <1>4, <3>1
    <3> QED BY <2>1, <3>1, <3>2, <3>3
  <2> QED BY <2>2, <2>3
<1>9. u = v
  BY <1>4, <1>6, <1>7, <1>8, SeqEqual
<1> QED BY <1>9 DEF u, v, j, a

Regroups(s, t, u) == (s \o t) \o u = s \o (t \o u)

LEMMA Regroup ==
  ASSUME NEW S, NEW s \in Seq(S), NEW t \in Seq(S), NEW u \in Seq(S)
  PROVE  Regroups(s, t, u)
BY ConcatAssociative, SMTT(30) DEF Regroups

LEMMA TakeAndDrop ==
  ASSUME NEW S, NEW s \in Seq(S), NEW n \in 0..Len(s)
  PROVE  SubSeq(s, 1, n) \in Seq(S) /\ SubSeq(s, 1, n) \o Drop(s, n) = s
<1>1. Len(s) \in Nat
  BY LenProperties
<1>2. 1 \in 1..Len(s) + 1 /\ n \in 1 - 1..Len(s) /\ Len(s) \in n..Len(s)
  BY <1>1
<1>3. SubSeq(s, 1, n) \o SubSeq(s, n + 1, Len(s)) = SubSeq(s, 1, Len(s))
  BY <1>2, ConcatAdjacentSubSeq
<1>4. SubSeq(s, 1, Len(s)) = s
  BY SubSeqFull
<1>5. \A i \in 1..n : s[i] \in S
  BY <1>1, ElementOfSeq
<1>6. SubSeq(s, 1, n) \in Seq(S)
  BY <1>1, <1>5, SubSeqProperties
<1> QED BY <1>3, <1>4, <1>6 DEF Drop

-----------------------------------------------------------------------------
(***************************************************************************)
(* FlattenSeq, element by element.                                         *)
(***************************************************************************)
FlattenNext(seqs, f, i) == IF i = 1 THEN seqs[i] ELSE f[i - 1] \o seqs[i]

Flatten(seqs) ==
  CHOOSE f : f = [i \in 1..Len(seqs) |-> FlattenNext(seqs, f, i)]

LEMMA FlattenGoesOn ==
  ASSUME NEW S, NEW seqs \in Seq(Seq(S))
  PROVE  LET D == 1..Len(seqs)
             f == Flatten(seqs)
         IN  f \in [D -> Seq(S)] /\ \A i \in D : f[i] = FlattenNext(seqs, f, i)
<1> DEFINE N == Len(seqs)
           D == 1..N
           V == Seq(S)
           rank == [i \in D |-> i]
           step == [i \in D |-> [g \in [D -> V] |-> FlattenNext(seqs, g, i)]]
           f == Flatten(seqs)
<1>1. N \in Nat /\ \A i \in D : seqs[i] \in V
  BY LenProperties, ElementOfSeq
<1>2. rank \in [D -> Nat] /\ (\A i \in D : rank[i] <= N) /\ V # {}
  <2>1. <<>> \in V
    BY EmptySeq
  <2> QED BY <1>1, <2>1
<1>3. \A i \in D : \A g : (i # 1 => g[i - 1] \in V) => FlattenNext(seqs, g, i) \in V
  <2> SUFFICES ASSUME NEW i \in D, NEW g, i # 1 => g[i - 1] \in V
               PROVE  FlattenNext(seqs, g, i) \in V
    OBVIOUS
  <2>1. seqs[i] \in V
    BY <1>1
  <2>2. i # 1 => g[i - 1] \o seqs[i] \in V
    BY <2>1, ConcatProperties
  <2> QED BY <2>1, <2>2 DEF FlattenNext
<1>4. LooksBelow(D, V, rank, step)
  <2>1. step \in [D -> [[D -> V] -> V]]
    <3>1. ASSUME NEW i \in D, NEW g \in [D -> V] PROVE FlattenNext(seqs, g, i) \in V
      <4>1. i # 1 => i - 1 \in D
        BY <1>1
      <4> HIDE DEF D, V
      <4> QED BY <1>3, <4>1
    <3> HIDE DEF D, V
    <3> QED BY <3>1
  <2>2. ASSUME NEW i \in D, NEW g \in [D -> V], NEW h \in [D -> V],
               \A e \in D : rank[e] < rank[i] => g[e] = h[e]
        PROVE  FlattenNext(seqs, g, i) = FlattenNext(seqs, h, i)
    <3>1. i # 1 => i - 1 \in D /\ rank[i - 1] < rank[i]
      BY <1>1
    <3> QED BY <2>2, <3>1 DEF FlattenNext
  <2> HIDE DEF D, V, rank
  <2> QED BY <2>1, <2>2 DEF LooksBelow
<1>5. PICK w \in [D -> V] : \A i \in D : w[i] = step[i][w]
  <2>1. N \in Nat
    BY <1>1
  <2> HIDE DEF N, D, V, rank, step
  <2> QED BY <1>2, <1>4, <2>1, FixedPoint
<1>6. w = [i \in D |-> FlattenNext(seqs, w, i)]
  <2> HIDE DEF V
  <2> QED BY <1>5
<1>7. f = [i \in D |-> FlattenNext(seqs, f, i)]
  BY <1>6 DEF Flatten
<1> HIDE DEF f
<1>8. \A i \in D : f[i] \in V
  <2> DEFINE T == {m \in Nat : m \in D => f[m] \in V}
  <2>1. ASSUME NEW m \in Nat, \A k \in 0..m - 1 : k \in T PROVE m \in T
    <3> SUFFICES ASSUME m \in D PROVE f[m] \in V
      OBVIOUS
    <3>1. m # 1 => f[m - 1] \in V
      <4>1. m # 1 => m - 1 \in 0..m - 1 /\ m - 1 \in D
        BY <1>1
      <4> QED BY <2>1, <4>1
    <3>2. FlattenNext(seqs, f, m) \in V
      <4> HIDE DEF D, V
      <4> QED BY <1>3, <3>1
    <3> HIDE DEF V, D
    <3> QED BY <1>7, <3>2
  <2>2. Nat \subseteq T
    <3> HIDE DEF T
    <3> QED BY <2>1, Induction
  <2> QED BY <1>1, <2>2
<1>9. \A i \in D : f[i] = FlattenNext(seqs, f, i)
  BY <1>7
<1>10. f \in [D -> V]
  <2> HIDE DEF D, V
  <2> QED BY <1>7, <1>8
<1> QED BY <1>9, <1>10 DEF f

LEMMA FlattenIs ==
  ASSUME NEW S, NEW seqs \in Seq(Seq(S))
  PROVE  /\ FlattenSeq(seqs) \in Seq(S)
         /\ seqs = <<>> => FlattenSeq(seqs) = <<>>
         /\ seqs # <<>> => FlattenSeq(seqs) = Flatten(seqs)[Len(seqs)]
<1>1. Len(seqs) \in Nat /\ (seqs # <<>> => Len(seqs) \in Nat \ {0})
  BY EmptySeq, LenProperties
<1>2. CASE seqs = <<>>
  <2>1. FlattenSeq(seqs) = <<>>
    BY <1>2 DEF FlattenSeq
  <2> QED BY <1>2, <2>1, EmptySeq
<1>3. CASE seqs # <<>>
  <2>1. FlattenSeq(seqs) = Flatten(seqs)[Len(seqs)]
    BY <1>1, <1>3, Zenon DEF FlattenSeq, Flatten, FlattenNext
  <2> DEFINE V == Seq(S)
             f == Flatten(seqs)
  <2>2. f \in [1..Len(seqs) -> V]
    BY FlattenGoesOn
  <2> HIDE DEF V, f
  <2> DEFINE n == Len(seqs)
  <2>3. n \in 1..n
    BY <1>1, <1>3
  <2> HIDE DEF n
  <2>4. f[n] \in V
    BY <2>2, <2>3, Zenon DEF n
  <2> QED BY <1>3, <2>1, <2>4 DEF V, f, n
<1> QED BY <1>2, <1>3

LEMMA FlattenAppend ==
  ASSUME NEW S, NEW seqs \in Seq(Seq(S)), NEW e \in Seq(S)
  PROVE  FlattenSeq(Append(seqs, e)) = FlattenSeq(seqs) \o e
<1> DEFINE V == Seq(S)
           n == Len(seqs)
           a == Append(seqs, e)
           f == Flatten(seqs)
           g == Flatten(a)
<1>1. n \in Nat
  BY LenProperties
<1>2. /\ a \in Seq(V) /\ a # <<>> /\ Len(a) = n + 1 /\ a[n + 1] = e
      /\ \A i \in 1..n : a[i] = seqs[i]
  BY AppendProperties
<1>3. /\ FlattenSeq(seqs) \in V
      /\ seqs = <<>> => FlattenSeq(seqs) = <<>>
      /\ seqs # <<>> => FlattenSeq(seqs) = f[n]
  BY FlattenIs
<1>4. \A i \in 1..n : f[i] = FlattenNext(seqs, f, i)
  BY FlattenGoesOn
<1> HIDE DEF a, f
<1>5. FlattenSeq(a) = g[n + 1]
  <2>1. FlattenSeq(a) = g[Len(a)]
    BY <1>2, FlattenIs
  <2> HIDE DEF g
  <2> QED BY <1>2, <2>1
<1>6. \A i \in 1..n + 1 : g[i] = FlattenNext(a, g, i)
  <2>1. \A i \in 1..Len(a) : g[i] = FlattenNext(a, g, i)
    BY <1>2, FlattenGoesOn
  <2> HIDE DEF g
  <2> QED BY <1>2, <2>1
<1> HIDE DEF g, n
<1>7. \A i \in 1..n : g[i] = f[i]
  <2> DEFINE T == {m \in Nat : m \in 1..n => g[m] = f[m]}
  <2>1. ASSUME NEW m \in Nat, \A k \in 0..m - 1 : k \in T PROVE m \in T
    <3> SUFFICES ASSUME m \in 1..n PROVE g[m] = f[m]
      OBVIOUS
    <3>1. m # 1 => g[m - 1] = f[m - 1]
      <4>1. m # 1 => m - 1 \in 0..m - 1 /\ m - 1 \in 1..n
        BY <1>1
      <4> QED BY <2>1, <4>1
    <3>2. m \in 1..n + 1 /\ a[m] = seqs[m]
      BY <1>1, <1>2
    <3>3. g[m] = FlattenNext(a, g, m) /\ f[m] = FlattenNext(seqs, f, m)
      BY <1>4, <1>6, <3>2
    <3> QED BY <3>1, <3>2, <3>3 DEF FlattenNext
  <2>2. Nat \subseteq T
    <3> HIDE DEF T
    <3> QED BY <2>1, Induction
  <2> QED BY <1>1, <2>2
<1>8. g[n + 1] = IF n + 1 = 1 THEN e ELSE g[n] \o e
  <2> DEFINE j == n + 1
  <2>1. j \in 1..n + 1 /\ j - 1 = n /\ a[j] = e
    BY <1>1, <1>2
  <2> HIDE DEF j
  <2>2. g[j] = FlattenNext(a, g, j)
    BY <1>6, <2>1
  <2>3. g[j] = IF j = 1 THEN a[j] ELSE g[j - 1] \o a[j]
    BY <2>2 DEF FlattenNext
  <2>4. g[j] = IF j = 1 THEN e ELSE g[n] \o e
    BY <2>1, <2>3, Zenon
  <2> QED BY <2>4 DEF j
<1>9. CASE seqs = <<>>
  <2>1. n = 0
    BY <1>9 DEF n
  <2>2. FlattenSeq(a) = e
    BY <1>5, <1>8, <2>1
  <2>3. <<>> \o e = e
    BY ConcatEmptySeq
  <2> QED BY <1>3, <1>9, <2>2, <2>3 DEF a
<1>10. CASE seqs # <<>>
  <2>1. n \in Nat \ {0}
    BY <1>10, EmptySeq DEF n
  <2>2. g[n] = f[n] /\ n + 1 # 1
    BY <1>7, <2>1
  <2>3. FlattenSeq(a) = FlattenSeq(seqs) \o e
    BY <1>3, <1>5, <1>8, <1>10, <2>2, Zenon
  <2> QED BY <2>3 DEF a
<1> QED BY <1>9, <1>10

LEMMA FlattenTail ==
  ASSUME NEW S, NEW seqs \in Seq(Seq(S)), seqs # <<>>
  PROVE  FlattenSeq(seqs) = seqs[1] \o FlattenSeq(Tail(seqs))
<1> DEFINE V == Seq(S)
           Splits(q) == FlattenSeq(q) = q[1] \o FlattenSeq(Tail(q))
           T == {m \in Nat : \A q \in Seq(V) : q # <<>> /\ Len(q) = m => Splits(q)}
<1>1. ASSUME NEW m \in Nat, \A k \in 0..m - 1 : k \in T PROVE m \in T
  <2> SUFFICES ASSUME NEW q \in Seq(V), q # <<>>, Len(q) = m PROVE Splits(q)
    OBVIOUS
  <2>1. PICK v \in Seq(V), x \in V : q = Append(v, x)
    <3> HIDE DEF V
    <3> QED BY SequenceEmptyOrAppend
  <2>2. /\ Len(v) \in Nat /\ m = Len(v) + 1
        /\ \A i \in 1..Len(v) : q[i] = v[i]
        /\ q[Len(v) + 1] = x
    <3> HIDE DEF V
    <3> QED BY <2>1, AppendProperties, LenProperties
  <2>3. FlattenSeq(q) = FlattenSeq(v) \o x
    BY <2>1, FlattenAppend
  <2>4. Tail(q) = IF v = <<>> THEN <<>> ELSE Append(Tail(v), x)
    <3> HIDE DEF V
    <3> QED BY <2>1, HeadTailAppend
  <2>5. CASE v = <<>>
    <3>1. FlattenSeq(v) = <<>> /\ FlattenSeq(Tail(q)) = <<>> /\ q[1] = x
      <4>1. Len(v) = 0
        BY <2>5
      <4>2. <<>> \in Seq(V)
        BY EmptySeq
      <4>3. FlattenSeq(<<>>) = <<>>
        BY <4>2, FlattenIs
      <4>4. FlattenSeq(v) = <<>> /\ FlattenSeq(Tail(q)) = <<>>
        BY <2>4, <2>5, <4>3, Zenon
      <4>5. q[1] = x
        BY <2>2, <4>1
      <4> QED BY <4>4, <4>5
    <3>2. <<>> \o x = x /\ x \o <<>> = x
      BY ConcatEmptySeq
    <3> QED BY <2>3, <3>1, <3>2
  <2>6. CASE v # <<>>
    <3>1. Len(v) \in 0..m - 1 /\ Len(v) \in Nat \ {0} /\ Tail(v) \in Seq(V)
      <4> HIDE DEF V
      <4> QED BY <2>2, <2>6, EmptySeq, HeadTailProperties
    <3>2. Splits(v)
      BY <1>1, <2>6, <3>1
    <3>3. q[1] = v[1] /\ v[1] \in V
      <4> HIDE DEF V
      <4> QED BY <2>2, <3>1, ElementOfSeq
    <3>4. FlattenSeq(Tail(q)) = FlattenSeq(Tail(v)) \o x
      BY <2>4, <2>6, <3>1, FlattenAppend
    <3>5. FlattenSeq(Tail(v)) \in V
      BY <3>1, FlattenIs
    <3> DEFINE a == v[1]
               b == FlattenSeq(Tail(v))
    <3>6. a \in Seq(S) /\ b \in Seq(S) /\ x \in Seq(S)
      BY <3>3, <3>5
    <3> HIDE DEF a, b
    <3>7. Regroups(a, b, x)
      BY <3>6, Regroup, Zenon
    <3> QED BY <2>3, <3>2, <3>3, <3>4, <3>7 DEF a, b, Regroups
  <2> QED BY <2>5, <2>6
<1>2. Nat \subseteq T
  <2> HIDE DEF T
  <2> QED BY <1>1, Induction
<1>3. Len(seqs) \in Nat
  BY LenProperties
<1> HIDE DEF Splits
<1>4. Splits(seqs)
  <2> HIDE DEF V
  <2>1. seqs \in Seq(V)
    BY DEF V
  <2> QED BY <1>2, <1>3, <2>1
<1> QED BY <1>4 DEF Splits

-----------------------------------------------------------------------------
(***************************************************************************)
(* The places of a packet's parts.                                         *)
(***************************************************************************)
HeadLen(packet) == IF packet.lingo = EXTENDED_INTERFACE THEN 3 ELSE 2

ContentOf(c, packet) ==
  /\ c \in Text /\ packet \in Packets
  /\ Len(c) = HeadLen(packet) + Len(packet.payload)
  /\ c[1] = packet.lingo
  /\ IF packet.lingo = EXTENDED_INTERFACE THEN U16(c[2], c[3]) = packet.cmd ELSE c[2] = packet.cmd
  /\ \A i \in 1..Len(packet.payload) : c[HeadLen(packet) + i] = packet.payload[i]

LEMMA WordIs ==
  ASSUME NEW n \in Nat
  PROVE  /\ Bytes16(n) \in Text /\ Len(Bytes16(n)) = 2
         /\ U16(Bytes16(n)[1], Bytes16(n)[2]) = n
<1>1. Bytes16(n) \in Text
  BY WordIsText
<1>2. /\ Len(Bytes16(n)) = 2
      /\ Bytes16(n)[1] = n \div 256 /\ Bytes16(n)[2] = n % 256
  BY DEF Bytes16
<1>3. 256 * (n \div 256) + (n % 256) = n
  OBVIOUS
<1> QED BY <1>1, <1>2, <1>3 DEF U16

LEMMA ContentIs ==
  ASSUME NEW packet, IsPacket(packet)
  PROVE  ContentOf(PacketContent(packet), packet)
<1> DEFINE l == packet.lingo
           t == packet.payload
           w == CmdBytes(l, packet.cmd)
           k == HeadLen(packet)
           lead == <<l>> \o w
           c == PacketContent(packet)
<1>1. /\ l \in Nat /\ packet.cmd \in Nat /\ t \in Seq(0..255)
      /\ packet = [lingo |-> l, cmd |-> packet.cmd, payload |-> t]
  <2> DEFINE P == Seq(0..255)
  <2>1. packet \in [lingo : 0..255, cmd : Nat, payload : P]
    BY DEF IsPacket
  <2> HIDE DEF P
  <2>2. /\ l \in Nat /\ packet.cmd \in Nat /\ t \in P
        /\ packet = [lingo |-> l, cmd |-> packet.cmd, payload |-> t]
    BY <2>1
  <2> QED BY <2>2 DEF P
<1>2. t \in Text
  <2> HIDE DEF t
  <2> QED BY <1>1, BytesAreText
<1>3. packet \in Packets
  <2> HIDE DEF l, t
  <2> QED BY <1>1, <1>2 DEF Packets
<1>4. k \in {2, 3} /\ (k = 3 <=> l = EXTENDED_INTERFACE)
  BY DEF HeadLen
<1>5. /\ w \in Text /\ Len(w) = k - 1
      /\ IF l = EXTENDED_INTERFACE THEN U16(w[1], w[2]) = packet.cmd ELSE w[1] = packet.cmd
  <2>1. CASE l = EXTENDED_INTERFACE
    <3> DEFINE cmd == packet.cmd
    <3>1. w = Bytes16(cmd) /\ k = 3 /\ cmd \in Nat
      BY <1>1, <2>1 DEF CmdBytes, HeadLen
    <3> HIDE DEF w, k, l, cmd
    <3>2. /\ Bytes16(cmd) \in Text /\ Len(Bytes16(cmd)) = 2
          /\ U16(Bytes16(cmd)[1], Bytes16(cmd)[2]) = cmd
      BY <3>1, WordIs
    <3>3. w \in Text /\ Len(w) = k - 1 /\ U16(w[1], w[2]) = cmd
      BY <3>1, <3>2
    <3> QED BY <2>1, <3>3 DEF cmd
  <2>2. CASE l # EXTENDED_INTERFACE
    <3> DEFINE cmd == packet.cmd
    <3>1. w = <<cmd>> /\ k = 2 /\ cmd \in Nat
      BY <1>1, <2>2 DEF CmdBytes, HeadLen
    <3> HIDE DEF w, k, l, cmd
    <3>2. w \in Text /\ Len(w) = k - 1 /\ w[1] = cmd
      BY <3>1, ShortIsText
    <3> QED BY <2>2, <3>2 DEF cmd
  <2> QED BY <2>1, <2>2
<1>6. c = lead \o t
  BY DEF PacketContent
<1> HIDE DEF w, k, c, t, l
<1>7. <<l>> \in Text /\ Len(<<l>>) = 1 /\ <<l>>[1] = l
  BY <1>1, ShortIsText
<1> DEFINE head == <<l>>
<1> HIDE DEF head
<1>8. /\ lead \in Text /\ Len(lead) = k /\ lead[1] = l
      /\ \A i \in 1..k - 1 : lead[i + 1] = w[i]
  <2>1. /\ head \o w \in Text /\ Len(head \o w) = Len(head) + Len(w)
        /\ \A i \in 1..Len(head) + Len(w) :
             (head \o w)[i] = IF i <= Len(head) THEN head[i] ELSE w[i - Len(head)]
    BY <1>5, <1>7, Joined DEF head
  <2>2. lead = head \o w /\ head[1] = l /\ Len(head) = 1
    BY <1>7 DEF head
  <2> HIDE DEF lead
  <2>3. lead[1] = l /\ Len(lead) = k
    BY <1>4, <1>5, <2>1, <2>2
  <2>4. ASSUME NEW i \in 1..k - 1 PROVE lead[i + 1] = w[i]
    <3>1. i + 1 \in 1..Len(head) + Len(w) /\ ~(i + 1 <= Len(head)) /\ i + 1 - Len(head) = i
      BY <1>4, <1>5, <2>2
    <3> QED BY <2>1, <2>2, <3>1
  <2> QED BY <2>1, <2>2, <2>3, <2>4
<1> HIDE DEF lead
<1>9. Len(t) \in Nat
  BY <1>2 DEF Text
<1>10. /\ c \in Text /\ Len(c) = k + Len(t)
       /\ \A i \in 1..k + Len(t) : c[i] = IF i <= k THEN lead[i] ELSE t[i - k]
  BY <1>2, <1>6, <1>8, Joined
<1>11. c[1] = l /\ \A i \in 1..k - 1 : c[i + 1] = w[i]
  <2>1. 1 \in 1..k + Len(t) /\ 1 <= k
    BY <1>4, <1>9
  <2>2. \A i \in 1..k - 1 : i + 1 \in 1..k + Len(t) /\ i + 1 <= k
    BY <1>4, <1>9
  <2> QED BY <1>8, <1>10, <2>1, <2>2
<1>12. IF l = EXTENDED_INTERFACE THEN U16(c[2], c[3]) = packet.cmd ELSE c[2] = packet.cmd
  <2>1. CASE l = EXTENDED_INTERFACE
    <3>1. 1 \in 1..k - 1 /\ 2 \in 1..k - 1 /\ 1 + 1 = 2 /\ 2 + 1 = 3
      BY <1>4, <2>1
    <3>2. c[2] = w[1] /\ c[3] = w[2]
      BY <1>11, <3>1
    <3> QED BY <1>5, <2>1, <3>2, Zenon
  <2>2. CASE l # EXTENDED_INTERFACE
    <3>1. 1 \in 1..k - 1 /\ 1 + 1 = 2
      BY <1>4
    <3> QED BY <1>5, <1>11, <2>2, <3>1
  <2> QED BY <2>1, <2>2
<1>13. ASSUME NEW i \in 1..Len(t) PROVE c[k + i] = t[i]
  <2> DEFINE j == k + i
  <2>1. j \in 1..k + Len(t) /\ ~(j <= k) /\ j - k = i
    BY <1>4, <1>9
  <2> HIDE DEF j
  <2>2. c[j] = t[j - k]
    BY <1>10, <2>1
  <2>3. c[j] = t[i]
    BY <2>1, <2>2, Zenon
  <2> QED BY <2>3 DEF j
<1> QED BY <1>3, <1>10, <1>11, <1>12, <1>13 DEF ContentOf, c, k, t, l

\* The bytes that are summed begin behind the sync byte, in the long form behind the
\* zero as well.
SummedAt(first) == IF first = 3 THEN 2 ELSE 3

Placed(bytes, c, first) ==
  /\ bytes \in Text /\ c \in Text /\ first \in {3, 5} /\ Len(c) >= 2
  /\ Len(bytes) = first + Len(c)
  /\ bytes[1] = 85
  /\ IF first = 3 THEN bytes[2] = Len(c) ELSE bytes[2] = 0 /\ U16(bytes[3], bytes[4]) = Len(c)
  /\ \A i \in 1..Len(c) : bytes[first - 1 + i] = c[i]
  /\ \E body \in Text :
       /\ Len(body) = Len(bytes) - SummedAt(first)
       /\ \A i \in 1..Len(body) : bytes[SummedAt(first) - 1 + i] = body[i]
       /\ bytes[Len(bytes)] = iap1_checksum(body)

\* A sync, the length and the content, and the checksum of both.
FrameHolds(lead, len, c) ==
  LET body  == len \o c
        bytes == lead \o body \o <<iap1_checksum(body)>>
  IN  /\ body \in Text /\ bytes \in Text
      /\ Len(body) = Len(len) + Len(c) /\ Len(bytes) = Len(lead) + Len(body) + 1
      /\ \A i \in 1..Len(lead) : bytes[i] = lead[i]
      /\ \A i \in 1..Len(len) : bytes[Len(lead) + i] = len[i]
      /\ \A i \in 1..Len(c) : bytes[Len(lead) + Len(len) + i] = c[i]
      /\ \A i \in 1..Len(body) : bytes[Len(lead) + i] = body[i]
      /\ bytes[Len(bytes)] = iap1_checksum(body)

LEMMA FramePlaces ==
  ASSUME NEW lead \in Text, NEW len \in Text, NEW c \in Text PROVE FrameHolds(lead, len, c)
<1> DEFINE body  == len \o c
           sum   == iap1_checksum(body)
           a     == lead \o body
           last  == <<sum>>
           bytes == a \o last
           x     == Len(lead)
           y     == Len(len)
           z     == Len(c)
<1>1. x \in Nat /\ y \in Nat /\ z \in Nat
  BY DEF Text
<1>2. /\ body \in Text /\ Len(body) = y + z
      /\ \A i \in 1..y + z : body[i] = IF i <= y THEN len[i] ELSE c[i - y]
  BY Joined
<1> HIDE DEF body
<1>3. sum \in Nat
  <2> DEFINE v == SumOf(body)
  <2>1. v \in Nat
    BY <1>2, SumIsNumber
  <2> HIDE DEF v
  <2>2. (256 - (v % 256)) % 256 \in Nat
    BY <2>1
  <2> QED BY <2>2 DEF iap1_checksum, v
<1> HIDE DEF sum
<1>4. last \in Text /\ Len(last) = 1 /\ last[1] = sum
  BY <1>3, ShortIsText
<1>5. /\ a \in Text /\ Len(a) = x + Len(body)
      /\ \A i \in 1..x + Len(body) : a[i] = IF i <= x THEN lead[i] ELSE body[i - x]
  BY <1>2, Joined
<1> HIDE DEF a, last
<1>6. /\ bytes \in Text /\ Len(bytes) = Len(a) + Len(last)
      /\ \A i \in 1..Len(a) + Len(last) :
           bytes[i] = IF i <= Len(a) THEN a[i] ELSE last[i - Len(a)]
  BY <1>4, <1>5, Joined
<1> HIDE DEF bytes, x, y, z
<1> DEFINE n == x + (y + z)
<1>7. Len(body) = y + z /\ Len(a) = n /\ Len(bytes) = n + 1
  BY <1>1, <1>2, <1>4, <1>5, <1>6
<1>8. \A i \in 1..n : bytes[i] = a[i]
  <2>1. \A i \in 1..n : i \in 1..Len(a) + Len(last) /\ i <= Len(a)
    BY <1>1, <1>4, <1>7
  <2> QED BY <1>6, <2>1
<1>9. bytes[n + 1] = sum
  <2> DEFINE j == n + 1
  <2>1. j \in 1..Len(a) + Len(last) /\ ~(j <= Len(a)) /\ j - Len(a) = 1
    BY <1>1, <1>4, <1>7
  <2> HIDE DEF j
  <2>2. bytes[j] = last[j - Len(a)]
    BY <1>6, <2>1
  <2>3. bytes[j] = sum
    BY <1>4, <2>1, <2>2, Zenon
  <2> QED BY <2>3 DEF j
<1>10. ASSUME NEW i \in 1..y + z PROVE bytes[x + i] = body[i]
  <2> DEFINE j == x + i
  <2>1. j \in 1..n /\ j \in 1..x + Len(body) /\ ~(j <= x) /\ j - x = i
    BY <1>1, <1>7
  <2> HIDE DEF j
  <2>2. bytes[j] = a[j] /\ a[j] = body[j - x]
    BY <1>5, <1>8, <2>1
  <2>3. bytes[j] = body[i]
    BY <2>1, <2>2, Zenon
  <2> QED BY <2>3 DEF j
<1>11. ASSUME NEW i \in 1..x PROVE bytes[i] = lead[i]
  <2>1. i \in 1..n /\ i \in 1..x + Len(body) /\ i <= x
    BY <1>1, <1>7
  <2>2. bytes[i] = a[i] /\ a[i] = lead[i]
    BY <1>5, <1>8, <2>1
  <2> QED BY <2>2
<1>12. ASSUME NEW i \in 1..y PROVE bytes[x + i] = len[i]
  <2>1. i \in 1..y + z /\ i <= y
    BY <1>1
  <2>2. bytes[x + i] = body[i] /\ body[i] = len[i]
    BY <1>2, <1>10, <2>1
  <2> QED BY <2>2
<1>13. ASSUME NEW i \in 1..z PROVE bytes[x + y + i] = c[i]
  <2> DEFINE j == y + i
  <2>1. j \in 1..y + z /\ ~(j <= y) /\ j - y = i /\ x + j = x + y + i
    BY <1>1
  <2> HIDE DEF j
  <2>2. bytes[x + j] = body[j] /\ body[j] = c[j - y]
    BY <1>2, <1>10, <2>1
  <2>3. bytes[x + j] = c[i]
    BY <2>1, <2>2, Zenon
  <2> QED BY <2>1, <2>3
<1>14. Len(bytes) = x + Len(body) + 1 /\ bytes[Len(bytes)] = sum
  BY <1>1, <1>7, <1>9
<1> QED BY <1>2, <1>6, <1>7, <1>10, <1>11, <1>12, <1>13, <1>14
        DEF FrameHolds, bytes, a, last, sum, body, x, y, z

LEMMA ShortForm ==
  ASSUME NEW packet, NEW c, ContentOf(c, packet), c = PacketContent(packet)
  PROVE  Placed(Encoded(packet), c, 3)
<1> DEFINE lead  == SYNC_SHORT
           m     == Len(c)
           len   == <<m>>
           body  == len \o c
           bytes == lead \o body \o <<iap1_checksum(body)>>
<1>1. bytes = Encoded(packet)
  BY DEF Encoded, build_packet, PacketContent
<1>2. c \in Text /\ m \in Nat /\ m >= 2
  <2>1. c \in Text /\ packet.payload \in Text /\ m = HeadLen(packet) + Len(packet.payload)
    BY DEF ContentOf, Packets
  <2>2. HeadLen(packet) \in {2, 3} /\ Len(packet.payload) \in Nat
    BY <2>1 DEF HeadLen, Text
  <2> HIDE DEF m
  <2> QED BY <2>1, <2>2
<1>3. lead \in Text /\ Len(lead) = 1 /\ lead[1] = 85
  BY ShortIsText DEF SYNC_SHORT
<1> HIDE DEF m
<1>4. len \in Text /\ Len(len) = 1 /\ len[1] = m
  BY <1>2, ShortIsText
<1> HIDE DEF lead, len
<1>5. /\ body \in Text /\ bytes \in Text
      /\ Len(body) = Len(len) + Len(c) /\ Len(bytes) = Len(lead) + Len(body) + 1
      /\ \A i \in 1..Len(lead) : bytes[i] = lead[i]
      /\ \A i \in 1..Len(len) : bytes[Len(lead) + i] = len[i]
      /\ \A i \in 1..Len(c) : bytes[Len(lead) + Len(len) + i] = c[i]
      /\ \A i \in 1..Len(body) : bytes[Len(lead) + i] = body[i]
      /\ bytes[Len(bytes)] = iap1_checksum(body)
  <2>1. FrameHolds(lead, len, c)
    BY <1>2, <1>3, <1>4, FramePlaces
  <2> QED BY <2>1 DEF FrameHolds
<1> HIDE DEF bytes, body
<1>6. Len(c) = m
  BY DEF m
<1>7. Len(body) = 1 + m /\ Len(bytes) = 3 + m /\ Len(body) = Len(bytes) - 2
  BY <1>2, <1>3, <1>4, <1>5, <1>6
<1>8. bytes[1] = 85 /\ bytes[2] = m
  <2>1. 1 \in 1..Len(lead) /\ 1 \in 1..Len(len) /\ Len(lead) + 1 = 2
    BY <1>3, <1>4
  <2>2. bytes[1] = lead[1] /\ bytes[Len(lead) + 1] = len[1]
    BY <1>5, <2>1
  <2> QED BY <1>3, <1>4, <2>1, <2>2, Zenon
<1>9. \A i \in 1..m : bytes[3 - 1 + i] = c[i]
  <2>1. \A i \in 1..m : bytes[Len(lead) + Len(len) + i] = c[i]
    BY <1>5, <1>6
  <2>2. Len(lead) + Len(len) = 3 - 1
    BY <1>3, <1>4
  <2> QED BY <2>1, <2>2, Zenon
<1>10. \A i \in 1..Len(body) : bytes[2 - 1 + i] = body[i]
  <2>1. Len(lead) = 2 - 1
    BY <1>3
  <2> QED BY <1>5, <2>1, Zenon
<1>11. SummedAt(3) = 2
  BY DEF SummedAt
<1>12. Placed(bytes, c, 3)
  BY <1>2, <1>5, <1>6, <1>7, <1>8, <1>9, <1>10, <1>11 DEF Placed
<1> QED BY <1>1, <1>12

LEMMA LongForm ==
  ASSUME NEW packet, NEW c, ContentOf(c, packet), c = PacketContent(packet)
  PROVE  Placed(LongEncoded(packet), c, 5)
<1> DEFINE lead  == SYNC_SHORT \o <<0>>
           m     == Len(c)
           len   == Bytes16(m)
           body  == len \o c
           bytes == lead \o body \o <<iap1_checksum(body)>>
<1>1. bytes = LongEncoded(packet)
  BY DEF LongEncoded
<1>2. c \in Text /\ m \in Nat /\ m >= 2
  <2>1. c \in Text /\ packet.payload \in Text /\ m = HeadLen(packet) + Len(packet.payload)
    BY DEF ContentOf, Packets
  <2>2. HeadLen(packet) \in {2, 3} /\ Len(packet.payload) \in Nat
    BY <2>1 DEF HeadLen, Text
  <2> HIDE DEF m
  <2> QED BY <2>1, <2>2
<1>3. lead \in Text /\ Len(lead) = 2 /\ lead[1] = 85 /\ lead[2] = 0
  <2> DEFINE a == <<85>>
             b == <<0>>
  <2>1. a \in Text /\ b \in Text /\ Len(a) = 1 /\ Len(b) = 1 /\ a[1] = 85 /\ b[1] = 0
    BY ShortIsText
  <2>2. lead = a \o b
    BY DEF SYNC_SHORT
  <2> HIDE DEF lead, a, b
  <2> QED BY <2>1, <2>2, Joined, SMTT(30)
<1> HIDE DEF m
<1>4. len \in Text /\ Len(len) = 2 /\ U16(len[1], len[2]) = m
  BY <1>2, WordIs
<1> HIDE DEF lead, len
<1>5. /\ body \in Text /\ bytes \in Text
      /\ Len(body) = Len(len) + Len(c) /\ Len(bytes) = Len(lead) + Len(body) + 1
      /\ \A i \in 1..Len(lead) : bytes[i] = lead[i]
      /\ \A i \in 1..Len(len) : bytes[Len(lead) + i] = len[i]
      /\ \A i \in 1..Len(c) : bytes[Len(lead) + Len(len) + i] = c[i]
      /\ \A i \in 1..Len(body) : bytes[Len(lead) + i] = body[i]
      /\ bytes[Len(bytes)] = iap1_checksum(body)
  <2>1. FrameHolds(lead, len, c)
    BY <1>2, <1>3, <1>4, FramePlaces
  <2> QED BY <2>1 DEF FrameHolds
<1> HIDE DEF bytes, body
<1>6. Len(c) = m
  BY DEF m
<1>7. Len(body) = 2 + m /\ Len(bytes) = 5 + m /\ Len(body) = Len(bytes) - 3
  BY <1>2, <1>3, <1>4, <1>5, <1>6
<1>8. bytes[1] = 85 /\ bytes[2] = 0 /\ U16(bytes[3], bytes[4]) = m
  <2>1. /\ 1 \in 1..Len(lead) /\ 2 \in 1..Len(lead) /\ 1 \in 1..Len(len) /\ 2 \in 1..Len(len)
        /\ Len(lead) + 1 = 3 /\ Len(lead) + 2 = 4
    BY <1>3, <1>4
  <2>2. /\ bytes[1] = lead[1] /\ bytes[2] = lead[2]
        /\ bytes[Len(lead) + 1] = len[1] /\ bytes[Len(lead) + 2] = len[2]
    BY <1>5, <2>1
  <2> QED BY <1>3, <1>4, <2>1, <2>2, Zenon
<1>9. \A i \in 1..m : bytes[5 - 1 + i] = c[i]
  <2>1. \A i \in 1..m : bytes[Len(lead) + Len(len) + i] = c[i]
    BY <1>5, <1>6
  <2>2. Len(lead) + Len(len) = 5 - 1
    BY <1>3, <1>4
  <2> QED BY <2>1, <2>2, Zenon
<1>10. \A i \in 1..Len(body) : bytes[3 - 1 + i] = body[i]
  <2>1. Len(lead) = 3 - 1
    BY <1>3
  <2> QED BY <1>5, <2>1, Zenon
<1>11. SummedAt(5) = 3
  BY DEF SummedAt
<1>12. Placed(bytes, c, 5)
  BY <1>2, <1>5, <1>6, <1>7, <1>8, <1>9, <1>10, <1>11, SMTT(30) DEF Placed
<1> QED BY <1>1, <1>12

\* The packet of an item, whichever its form.
Carries(item, packet, c, first) ==
  item.means = <<packet>> /\ ContentOf(c, packet) /\ Placed(item.bytes, c, first)

LEMMA PacketItemIs ==
  ASSUME NEW item, IsPacketItem(item)
  PROVE  \E packet, c, first : Carries(item, packet, c, first)
<1>1. PICK packet : /\ IsPacket(packet) /\ item.means = <<packet>>
                    /\ item.bytes = Encoded(packet) \/ item.bytes = LongEncoded(packet)
  BY DEF IsPacketItem
<1> DEFINE c == PacketContent(packet)
<1>2. ContentOf(c, packet)
  BY <1>1, ContentIs
<1>3. c = PacketContent(packet)
  OBVIOUS
<1> HIDE DEF c
<1>4. Placed(Encoded(packet), c, 3) /\ Placed(LongEncoded(packet), c, 5)
  BY <1>2, <1>3, ShortForm, LongForm
<1> QED BY <1>1, <1>2, <1>4 DEF Carries

-----------------------------------------------------------------------------
(***************************************************************************)
(* A packet that stands in a buffer, as far as it has arrived, is parsed.  *)
(***************************************************************************)
Stands(b, h, bytes) ==
  \A i \in 1..Len(bytes) : h - 1 + i <= Len(b) => b[h - 1 + i] = bytes[i]

LEMMA PartIs ==
  ASSUME NEW b \in Text, NEW t \in Text, NEW k \in Nat, k + Len(t) <= Len(b),
         \A i \in 1..Len(t) : b[k + i] = t[i]
  PROVE  SubSeq(b, k + 1, k + Len(t)) = t
<1> DEFINE a == k + 1
           e == k + Len(t)
           u == SubSeq(b, a, e)
<1>1. Len(b) \in Nat /\ Len(t) \in Nat
  BY DEF Text
<1>2. a \in Nat \ {0} /\ e \in Int /\ e <= Len(b)
  BY <1>1
<1>3. \A i \in 1..Len(t) : i \in 1..e - a + 1 /\ a + i - 1 = k + i
  BY <1>1
<1>4. IF a <= e THEN e - a + 1 = Len(t) ELSE Len(t) = 0
  BY <1>1
<1> HIDE DEF a, e
<1>5. u \in Text /\ Len(u) = Len(t)
  <2>1. u \in Text /\ Len(u) = IF a <= e THEN e - a + 1 ELSE 0
    BY <1>2, PartIsText
  <2> HIDE DEF u
  <2> QED BY <1>4, <2>1
<1>6. ASSUME NEW i \in 1..Len(t) PROVE u[i] = t[i]
  <2>1. u[i] = b[a + i - 1]
    BY <1>2, <1>3, PartElement
  <2> HIDE DEF u
  <2>2. u[i] = b[k + i]
    BY <1>3, <2>1
  <2> QED BY <2>2
<1> HIDE DEF u
<1>7. u \in Seq(Nat) /\ t \in Seq(Nat) /\ \A i \in 1..Len(u) : u[i] = t[i]
  BY <1>5, <1>6 DEF Text
<1>8. u = t
  BY <1>5, <1>7, SeqEqual
<1> QED BY <1>8 DEF u, a, e

LEMMA SplitIs ==
  ASSUME NEW packet, NEW c, ContentOf(c, packet), NEW b \in Text, NEW f \in Nat,
         f + Len(c) <= Len(b), \A i \in 1..Len(c) : b[f + i] = c[i]
  PROVE  split_lingo_cmd(b, f + 1, f + Len(c)) = packet
<1> DEFINE t == packet.payload
           k == HeadLen(packet)
           m == Len(c)
           l == packet.lingo
<1>1. /\ t \in Text /\ Len(t) \in Nat
      /\ packet = [lingo |-> l, cmd |-> packet.cmd, payload |-> t]
  <2>1. packet \in Packets
    BY DEF ContentOf
  <2>2. t \in Text /\ packet = [lingo |-> l, cmd |-> packet.cmd, payload |-> t]
    BY <2>1 DEF Packets
  <2>3. Len(t) \in Nat
    <3> HIDE DEF t
    <3> QED BY <2>2 DEF Text
  <2> QED BY <2>2, <2>3
<1>2. /\ m = k + Len(t) /\ c[1] = l
      /\ IF l = EXTENDED_INTERFACE THEN U16(c[2], c[3]) = packet.cmd ELSE c[2] = packet.cmd
      /\ \A i \in 1..Len(t) : c[k + i] = t[i]
  BY DEF ContentOf
<1>3. k = IF l = EXTENDED_INTERFACE THEN 3 ELSE 2
  BY DEF HeadLen
<1> HIDE DEF t, k, m, l
<1>4. \A i \in 1..m : b[f + i] = c[i]
  BY DEF m
<1>5. SubSeq(b, f + k + 1, f + m) = t
  <2> DEFINE g == f + k
  <2>1. g \in Nat /\ g + Len(t) = f + m /\ f + m <= Len(b)
    BY <1>1, <1>2, <1>3, SMTT(30) DEF m
  <2>2. ASSUME NEW i \in 1..Len(t) PROVE b[g + i] = t[i]
    <3> DEFINE j == k + i
    <3>1. j \in 1..m /\ g + i = f + j
      <4>1. Len(t) \in Nat /\ m = k + Len(t) /\ k \in {2, 3} /\ i \in 1..Len(t)
        BY <1>1, <1>2, <1>3
      <4> QED BY <4>1
    <3>2. c[j] = t[i]
      BY <1>2
    <3> HIDE DEF j, g
    <3>3. b[f + j] = c[j]
      BY <1>4, <3>1
    <3> QED BY <3>1, <3>2, <3>3
  <2> HIDE DEF g
  <2>3. SubSeq(b, g + 1, g + Len(t)) = t
    BY <1>1, <2>1, <2>2, PartIs
  <2>4. SubSeq(b, g + 1, f + m) = t
    BY <2>1, <2>3, Zenon
  <2> QED BY <2>4 DEF g
<1>6. b[f + 1] = l
  <2>1. 1 \in 1..m
    BY <1>1, <1>2, <1>3
  <2> QED BY <1>2, <1>4, <2>1
<1>7. split_lingo_cmd(b, f + 1, f + m) = Packet(l, packet.cmd, t)
  <2>1. CASE l = EXTENDED_INTERFACE
    <3>1. k = 3 /\ f + m - (f + 1) + 1 >= 3 /\ f + 1 + 3 = f + k + 1
          /\ f + 1 + 1 = f + 2 /\ f + 1 + 2 = f + 3
      BY <1>1, <1>2, <1>3, <2>1, SMTT(30)
    <3>2. b[f + 2] = c[2] /\ b[f + 3] = c[3]
      <4>1. 2 \in 1..m /\ 3 \in 1..m
        BY <1>1, <1>2, <3>1
      <4> QED BY <1>4, <4>1
    <3>3. b[f + 1 + 1] = c[2] /\ b[f + 1 + 2] = c[3] /\ SubSeq(b, f + 1 + 3, f + m) = t
      BY <1>5, <3>1, <3>2, Zenon
    <3>4. U16(b[f + 1 + 1], b[f + 1 + 2]) = packet.cmd
      BY <1>2, <2>1, <3>3, Zenon
    <3> DEFINE first == f + 1
               last == f + m
    <3>5. last - first + 1 >= 3
      BY <1>1, <1>2, <1>3, <2>1
    <3>6. /\ b[first] = EXTENDED_INTERFACE
          /\ U16(b[first + 1], b[first + 2]) = packet.cmd /\ SubSeq(b, first + 3, last) = t
      BY <1>6, <2>1, <3>3, <3>4
    <3> HIDE DEF first, last
    <3>7. split_lingo_cmd(b, first, last) = Packet(EXTENDED_INTERFACE, packet.cmd, t)
      BY <3>5, <3>6 DEF split_lingo_cmd
    <3> QED BY <2>1, <3>7 DEF first, last
  <2>2. CASE l # EXTENDED_INTERFACE
    <3>1. k = 2 /\ f + 1 + 2 = f + k + 1 /\ f + 1 + 1 = f + 2 /\ 2 \in 1..m
      BY <1>1, <1>2, <1>3, <2>2
    <3>2. b[f + 1 + 1] = packet.cmd
      BY <1>2, <1>4, <2>2, <3>1
    <3>3. SubSeq(b, f + 1 + 2, f + m) = t
      BY <1>5, <3>1, Zenon
    <3> QED BY <1>6, <2>2, <3>2, <3>3, Zenon DEF split_lingo_cmd
  <2> QED BY <2>1, <2>2
<1> QED BY <1>1, <1>7 DEF Packet, m

Whole(b, h, bytes, packet) ==
  IF Len(b) < h - 1 + Len(bytes) THEN More
  ELSE [outcome |-> "packet", used |-> h - 1 + Len(bytes), packet |-> packet]

LEMMA BodyIs ==
  ASSUME NEW bytes, NEW c, NEW first, Placed(bytes, c, first), NEW packet, ContentOf(c, packet),
         NEW b \in Text, NEW h \in {1, 2}, Stands(b, h, bytes)
  PROVE  parse_body(b, h, h - 1 + SummedAt(first), h - 1 + first, h - 2 + first + Len(c))
           = Whole(b, h, bytes, packet)
<1> DEFINE m == Len(c)
           n == Len(bytes)
           summed == h - 1 + SummedAt(first)
           from == h - 1 + first
           last == h - 2 + first + m
<1>1. /\ bytes \in Text /\ c \in Text /\ first \in {3, 5} /\ m >= 2 /\ n = first + m
      /\ \A i \in 1..m : bytes[first - 1 + i] = c[i]
  BY DEF Placed
<1>2. PICK body \in Text : /\ Len(body) = n - SummedAt(first)
                           /\ \A i \in 1..Len(body) : bytes[SummedAt(first) - 1 + i] = body[i]
                           /\ bytes[n] = iap1_checksum(body)
  BY DEF Placed
<1>3. m \in Nat /\ n \in Nat /\ Len(b) \in Nat /\ Len(body) \in Nat
  BY <1>1, SMTT(30) DEF Text
<1>4. SummedAt(first) \in {2, 3}
  BY DEF SummedAt
<1>5. \A i \in 1..n : h - 1 + i <= Len(b) => b[h - 1 + i] = bytes[i]
  BY DEF Stands
<1> HIDE DEF m, n
<1>6. last + 1 = h - 1 + n
  BY <1>1, <1>3
<1>7. CASE Len(b) < h - 1 + n
  BY <1>6, <1>7 DEF parse_body, Whole, n, m
<1>8. CASE ~(Len(b) < h - 1 + n)
  <2>1. iap1_checksum(SubSeq(b, summed, last)) = b[last + 1]
    <3> DEFINE s == SummedAt(first)
               z == Len(body)
               e == Len(b)
               k == h - 2 + s
    <3>0. s \in {2, 3} /\ z \in Nat /\ e \in Nat /\ z = first + m - s /\ h - 1 + first + m <= e
      BY <1>1, <1>2, <1>3, <1>4, <1>8, SMTT(30)
    <3>1. k \in Nat /\ k + 1 = summed /\ k + Len(body) = last /\ k + Len(body) <= Len(b)
      <4> SUFFICES k \in Nat /\ k + 1 = h - 1 + s /\ k + z = h - 2 + first + m /\ k + z <= e
        OBVIOUS
      <4> HIDE DEF s, z, e
      <4> QED BY <1>1, <1>3, <3>0
    <3>2. ASSUME NEW i \in 1..Len(body) PROVE b[k + i] = body[i]
      <4> DEFINE j == SummedAt(first) - 1 + i
      <4>1. j \in 1..n /\ h - 1 + j = k + i /\ h - 1 + j <= Len(b)
        <5> SUFFICES s - 1 + i \in 1..n /\ h - 1 + (s - 1 + i) = k + i /\ h - 1 + (s - 1 + i) <= e
          OBVIOUS
        <5>1. i \in 1..z
          OBVIOUS
        <5> HIDE DEF s, z, e
        <5> QED BY <1>1, <1>3, <3>0, <5>1
      <4>2. bytes[j] = body[i]
        BY <1>2
      <4> HIDE DEF j, k
      <4>3. b[h - 1 + j] = bytes[j]
        BY <1>5, <4>1
      <4> QED BY <4>1, <4>2, <4>3, Zenon
    <3> HIDE DEF k, summed, last
    <3>3. SubSeq(b, k + 1, k + Len(body)) = body
      BY <1>2, <3>1, <3>2, PartIs
    <3>4. SubSeq(b, summed, last) = body
      BY <3>1, <3>3, Zenon
    <3>5. b[last + 1] = bytes[n]
      <4>1. n \in 1..n /\ last + 1 = h - 1 + n /\ h - 1 + n <= Len(b)
        BY <1>1, <1>3, <1>6, <1>8 DEF last
      <4> QED BY <1>5, <4>1, Zenon
    <3> QED BY <1>2, <3>4, <3>5, Zenon
  <2>2. split_lingo_cmd(b, from, last) = packet
    <3> DEFINE f == h - 2 + first
    <3>1. f \in Nat /\ f + 1 = from /\ f + m = last /\ f + m <= Len(b)
      BY <1>1, <1>3, <1>6, <1>8
    <3>2. ASSUME NEW i \in 1..m PROVE b[f + i] = c[i]
      <4> DEFINE j == first - 1 + i
      <4>1. j \in 1..n /\ h - 1 + j = f + i /\ h - 1 + j <= Len(b)
        BY <1>1, <1>3, <1>8
      <4>2. bytes[j] = c[i]
        BY <1>1
      <4> HIDE DEF j, f
      <4>3. b[h - 1 + j] = bytes[j]
        BY <1>5, <4>1
      <4> QED BY <4>1, <4>2, <4>3, Zenon
    <3> HIDE DEF f, from, last
    <3>3. split_lingo_cmd(b, f + 1, f + m) = packet
      BY <3>1, <3>2, SplitIs DEF m
    <3> QED BY <3>1, <3>3, Zenon
  <2>3. ~(from + 1 > Len(b)) /\ ~(Len(b) < last + 1)
    BY <1>1, <1>3, <1>6, <1>8
  <2> HIDE DEF summed, from, last
  <2>4. parse_body(b, h, summed, from, last) = [outcome |-> "packet", used |-> last + 1, packet |-> packet]
    BY <2>1, <2>2, <2>3, Zenon DEF parse_body
  <2>5. Whole(b, h, bytes, packet) = [outcome |-> "packet", used |-> h - 1 + n, packet |-> packet]
    BY <1>8, Zenon DEF Whole, n
  <2>6. last + 1 = h - 1 + n
    BY <1>6 DEF last
  <2>7. parse_body(b, h, summed, from, last) = Whole(b, h, bytes, packet)
    BY <2>4, <2>5, <2>6, Zenon
  <2> QED BY <2>7 DEF summed, from, last, m
<1> QED BY <1>7, <1>8

LEMMA ParseAtIs ==
  ASSUME NEW bytes, NEW c, NEW first, Placed(bytes, c, first), NEW packet, ContentOf(c, packet),
         NEW b \in Text, NEW h \in {1, 2}, Stands(b, h, bytes)
  PROVE  parse_at(b, h) = Whole(b, h, bytes, packet)
<1> DEFINE m == Len(c)
           n == Len(bytes)
<1>1. /\ bytes \in Text /\ first \in {3, 5} /\ m >= 2 /\ n = first + m
      /\ IF first = 3 THEN bytes[2] = m ELSE bytes[2] = 0 /\ U16(bytes[3], bytes[4]) = m
  BY DEF Placed
<1>2. m \in Nat /\ n \in Nat /\ Len(b) \in Nat
  BY SMTT(30) DEF Placed, Text
<1>3. \A i \in 1..n : h - 1 + i <= Len(b) => b[h - 1 + i] = bytes[i]
  BY DEF Stands
<1>4. parse_body(b, h, h - 1 + SummedAt(first), h - 1 + first, h - 2 + first + m)
        = Whole(b, h, bytes, packet)
  BY BodyIs
<1>5. Whole(b, h, bytes, packet) = IF Len(b) < h - 1 + n THEN More ELSE Whole(b, h, bytes, packet)
  BY DEF Whole
<1> HIDE DEF m, n
<1> DEFINE len == h + 1
<1>6. CASE Len(b) < len
  <2>1. Len(b) < h - 1 + n
    BY <1>1, <1>2, <1>6
  <2>2. parse_at(b, h) = More
    BY <1>6 DEF parse_at
  <2> QED BY <1>5, <2>1, <2>2
<1>7. CASE ~(Len(b) < len)
  <2>1. b[len] = bytes[2]
    <3>1. 2 \in 1..n /\ h - 1 + 2 = len /\ h - 1 + 2 <= Len(b)
      BY <1>1, <1>2, <1>7
    <3> HIDE DEF len
    <3>2. b[h - 1 + 2] = bytes[2]
      BY <1>3, <3>1
    <3> QED BY <3>1, <3>2, Zenon
  <2>2. CASE first = 3
    <3>1. bytes[2] = m /\ m # 0 /\ SummedAt(first) = 2
      BY <1>1, <1>2, <2>2 DEF SummedAt
    <3>2. len = h - 1 + SummedAt(first) /\ len + 1 = h - 1 + first /\ len + m = h - 2 + first + m
      BY <1>2, <2>2, <3>1
    <3> HIDE DEF len
    <3>3. parse_at(b, h) = parse_body(b, h, len, len + 1, len + m)
      BY <1>7, <2>1, <3>1, Zenon DEF parse_at, len
    <3> QED BY <1>4, <3>2, <3>3, Zenon
  <2>3. CASE first = 5
    <3>1. bytes[2] = 0 /\ U16(bytes[3], bytes[4]) = m /\ SummedAt(first) = 3
      BY <1>1, <2>3 DEF SummedAt
    <3>2. b[len] = 0
      BY <2>1, <3>1
    <3>3. CASE Len(b) < len + 2
      <4>1. Len(b) < h - 1 + n
        BY <1>1, <1>2, <2>3, <3>3
      <4>2. parse_at(b, h) = More
        BY <1>7, <3>2, <3>3 DEF parse_at
      <4> QED BY <1>5, <4>1, <4>2
    <3>4. CASE ~(Len(b) < len + 2)
      <4>1. b[len + 1] = bytes[3] /\ b[len + 2] = bytes[4]
        <5>1. /\ 3 \in 1..n /\ h - 1 + 3 = len + 1 /\ h - 1 + 3 <= Len(b)
              /\ 4 \in 1..n /\ h - 1 + 4 = len + 2 /\ h - 1 + 4 <= Len(b)
          BY <1>1, <1>2, <2>3, <3>4
        <5> HIDE DEF len
        <5>2. b[h - 1 + 3] = bytes[3] /\ b[h - 1 + 4] = bytes[4]
          BY <1>3, <5>1
        <5> QED BY <5>1, <5>2, Zenon
      <4>2. len + 1 = h - 1 + SummedAt(first) /\ len + 3 = h - 1 + first
            /\ len + 2 + m = h - 2 + first + m
        BY <1>2, <2>3, <3>1
      <4>3. U16(b[len + 1], b[len + 2]) = m
        BY <3>1, <4>1, Zenon
      <4> HIDE DEF len
      <4>4. parse_at(b, h) = parse_body(b, h, len + 1, len + 3, len + 2 + m)
        BY <1>7, <3>2, <3>4, <4>3, Zenon DEF parse_at, len
      <4> QED BY <1>4, <4>2, <4>4, Zenon
    <3> QED BY <3>3, <3>4
  <2> QED BY <1>1, <2>2, <2>3
<1> QED BY <1>6, <1>7

-----------------------------------------------------------------------------
(***************************************************************************)
(* What is looked for in a buffer, and what the parser makes of it.        *)
(***************************************************************************)
LEMMA FindOne ==
  ASSUME NEW S, NEW s \in Seq(S), NEW x
  PROVE  /\ Find(s, <<x>>) \in 0..Len(s)
         /\ Find(s, <<x>>) = 0 => \A i \in 1..Len(s) : s[i] # x
         /\ Find(s, <<x>>) # 0 => /\ s[Find(s, <<x>>)] = x
                                  /\ \A i \in 1..Find(s, <<x>>) - 1 : s[i] # x
<1> DEFINE n == Len(s)
           u == {i \in 1..n : s[i] = x}
           p == Find(s, <<x>>)
<1>1. n \in Nat
  BY LenProperties
<1>2. p = IF u = {} THEN 0 ELSE Min(u)
  <2> DEFINE t == <<x>>
             v == {i \in 1..n - Len(t) + 1 : SubSeq(s, i, i + Len(t) - 1) = t}
  <2>1. Len(t) = 1 /\ t[1] = x
    OBVIOUS
  <2>2. ASSUME NEW i \in 1..n PROVE SubSeq(s, i, i) = <<s[i]>>
    <3>1. SubSeq(s, i, i) = <<s[i]>> \o SubSeq(s, i + 1, i)
      BY <1>1, SubSeqRecursiveFirst
    <3>2. SubSeq(s, i + 1, i) = <<>>
      BY <1>1, SubSeqEmpty
    <3>3. s[i] \in S
      BY ElementOfSeq
    <3>4. <<s[i]>> \in Seq(S)
      BY <3>3
    <3>5. <<s[i]>> \o <<>> = <<s[i]>>
      BY <3>4, ConcatEmptySeq
    <3> QED BY <3>1, <3>2, <3>5, Zenon
  <2>3. ASSUME NEW i \in 1..n PROVE SubSeq(s, i, i) = t <=> s[i] = x
    BY <2>2
  <2>4. 1..n - Len(t) + 1 = 1..n /\ \A i \in 1..n : i + Len(t) - 1 = i
    BY <1>1, <2>1
  <2> HIDE DEF t, n
  <2>5. v = u
    BY <2>3, <2>4
  <2>6. p = IF v = {} THEN 0 ELSE Min(v)
    BY Zenon DEF Find, t, n
  <2> HIDE DEF p, u, v
  <2> QED BY <2>5, <2>6, Zenon
<1>3. u # {} => Min(u) \in u /\ \A k \in u : Min(u) <= k
  <2>1. u \in SUBSET (1..n)
    OBVIOUS
  <2> HIDE DEF u, n
  <2> QED BY <1>1, <2>1, Least
<1> HIDE DEF p, n
<1>4. CASE u = {}
  BY <1>1, <1>2, <1>4 DEF p, n
<1>5. CASE u # {}
  <2> DEFINE q == Min(u)
  <2>1. q \in 1..n /\ s[q] = x /\ \A k \in 1..n : s[k] = x => q <= k
    BY <1>3, <1>5
  <2>2. p = q
    BY <1>2, <1>5
  <2> HIDE DEF q, u
  <2>3. p \in 0..n /\ p # 0 /\ s[p] = x /\ \A i \in 1..p - 1 : s[i] # x
    BY <1>1, <2>1, <2>2
  <2> QED BY <2>3 DEF p, n
<1> QED BY <1>4, <1>5

IsSync(s, i) == s[i] = 255 /\ s[i + 1] = 85

\* What the search for a full sync finds.
LEMMA FindTwo ==
  ASSUME NEW s \in Text
  PROVE  LET n == Len(s)
             p == Find(s, SYNC)
         IN  \/ p = 0 /\ \A k \in 1..n - 1 : ~IsSync(s, k)
             \/ p \in 1..n - 1 /\ IsSync(s, p) /\ \A k \in 1..n - 1 : IsSync(s, k) => p <= k
<1> DEFINE t == SYNC
           n == Len(s)
           u == {i \in 1..n - 1 : SubSeq(s, i, i + 1) = t}
           p == Find(s, SYNC)
<1>1. n \in Nat
  BY DEF Text
<1>2. Len(t) = 2 /\ t[1] = 255 /\ t[2] = 85
  BY DEF SYNC
<1>3. p = IF u = {} THEN 0 ELSE Min(u)
  <2> DEFINE v == {i \in 1..n - Len(t) + 1 : SubSeq(s, i, i + Len(t) - 1) = t}
  <2>1. 1..n - Len(t) + 1 = 1..n - 1 /\ \A i \in 1..n - 1 : i + Len(t) - 1 = i + 1
    BY <1>1, <1>2
  <2> HIDE DEF t, n
  <2>2. v = u
    BY <2>1
  <2>3. p = IF v = {} THEN 0 ELSE Min(v)
    BY Zenon DEF Find, t, n
  <2> HIDE DEF p, u, v
  <2> QED BY <2>2, <2>3, Zenon
<1>4. ASSUME NEW i \in 1..n - 1 PROVE SubSeq(s, i, i + 1) = t <=> s[i] = 255 /\ s[i + 1] = 85
  <2> DEFINE w == SubSeq(s, i, i + 1)
             e == i + 1
  <2>1. e \in Int /\ e <= Len(s) /\ i \in Nat \ {0} /\ i <= e /\ e - i + 1 = 2
    BY <1>1
  <2> HIDE DEF e
  <2>2. w \in Text /\ Len(w) = 2
    BY <2>1, PartIsText DEF e
  <2>3. w[1] = s[i] /\ w[2] = s[i + 1]
    <3>1. \A j \in 1..e - i + 1 : SubSeq(s, i, e)[j] = s[i + j - 1]
      BY <2>1, PartElement
    <3>2. 1 \in 1..e - i + 1 /\ 2 \in 1..e - i + 1 /\ i + 1 - 1 = i /\ i + 2 - 1 = i + 1
      BY <2>1
    <3>3. w = SubSeq(s, i, e)
      BY DEF e
    <3> HIDE DEF w
    <3>4. w[1] = s[i + 1 - 1] /\ w[2] = s[i + 2 - 1]
      <4> HIDE DEF e
      <4> QED BY <3>1, <3>2, <3>3
    <3> QED BY <3>2, <3>4, Zenon
  <2>4. w = t <=> w[1] = 255 /\ w[2] = 85
    <3>1. t \in Seq(Nat) /\ w \in Seq(Nat)
      BY <2>2, ShortIsText DEF SYNC, Text
    <3> HIDE DEF w, t
    <3>2. w[1] = 255 /\ w[2] = 85 => \A j \in 1..Len(w) : w[j] = t[j]
      BY <1>2, <2>2
    <3>3. ASSUME w[1] = 255, w[2] = 85 PROVE w = t
      <4>1. Len(w) = Len(t) /\ \A j \in 1..Len(w) : w[j] = t[j]
        BY <1>2, <2>2, <3>2, <3>3
      <4> QED BY <3>1, <4>1, SeqEqual
    <3> QED BY <1>2, <3>3
  <2>5. w = t <=> s[i] = 255 /\ s[i + 1] = 85
    <3> HIDE DEF w, t
    <3> QED BY <2>3, <2>4
  <2> QED BY <2>5 DEF w
<1>5. ASSUME NEW i \in 1..n - 1 PROVE i \in u <=> IsSync(s, i)
  BY <1>4 DEF IsSync
<1>6. u \in SUBSET (1..n) /\ u \subseteq 1..n - 1
  BY <1>1
<1> HIDE DEF p, t, u, n
<1>7. u # {} => Min(u) \in u /\ \A k \in u : Min(u) <= k
  BY <1>1, <1>6, Least
<1>8. CASE u = {}
  <2>1. p = 0
    BY <1>3, <1>8
  <2>2. \A k \in 1..n - 1 : ~IsSync(s, k)
    BY <1>5, <1>8
  <2> QED BY <2>1, <2>2 DEF p, n
<1>9. CASE u # {}
  <2>1. p = Min(u)
    BY <1>3, <1>9
  <2>2. p \in u /\ \A k \in u : p <= k
    BY <1>7, <1>9, <2>1, Zenon
  <2>3. p \in 1..n - 1 /\ IsSync(s, p) /\ \A k \in 1..n - 1 : IsSync(s, k) => p <= k
    BY <1>5, <1>6, <2>2
  <2> QED BY <2>3 DEF p, n
<1> QED BY <1>8, <1>9

\* What it finds if one stands before the first short sync.
LEMMA FindSync ==
  ASSUME NEW s \in Text, NEW g \in Nat, g < Len(s), s[g + 1] = 85, \A i \in 1..g : s[i] # 85
  PROVE  IF g # 0 /\ s[g] = 255 THEN Find(s, SYNC) = g
         ELSE Find(s, SYNC) = 0 \/ Find(s, SYNC) > g + 1
<1> DEFINE n == Len(s)
           p == Find(s, SYNC)
<1>1. n \in Nat
  BY DEF Text
<1>2. \/ p = 0 /\ \A k \in 1..n - 1 : ~IsSync(s, k)
      \/ p \in 1..n - 1 /\ IsSync(s, p) /\ \A k \in 1..n - 1 : IsSync(s, k) => p <= k
  BY FindTwo
<1>3. g + 1 <= n /\ g \in 0..n - 1
  BY <1>1
<1> HIDE DEF n, p
<1>4. ASSUME NEW k \in 1..n - 1, IsSync(s, k) PROVE k >= g
  <2> SUFFICES ASSUME ~(k >= g) PROVE FALSE
    OBVIOUS
  <2>1. s[k + 1] = 85
    BY <1>4 DEF IsSync
  <2>2. k + 1 \in 1..g
    BY <1>1, <1>3
  <2> QED BY <2>1, <2>2
<1>5. CASE g # 0 /\ s[g] = 255
  <2>1. g \in 1..n - 1 /\ IsSync(s, g)
    BY <1>1, <1>3, <1>5 DEF IsSync
  <2>2. p \in 1..n - 1 /\ p >= g /\ p <= g
    BY <1>2, <1>4, <2>1
  <2>3. p = g
    BY <1>1, <2>2
  <2> QED BY <1>5, <2>3 DEF p
<1>6. CASE ~(g # 0 /\ s[g] = 255)
  <2>1. CASE p = 0
    BY <1>6, <2>1 DEF p
  <2>2. CASE p # 0
    <3>1. p \in 1..n - 1 /\ IsSync(s, p) /\ p >= g
      BY <1>2, <1>4, <2>2
    <3>2. s[p] = 255
      BY <3>1 DEF IsSync
    <3>3. p # g + 1
      BY <3>2
    <3>4. p # g
      BY <1>6, <3>1, <3>2
    <3>5. p > g + 1
      BY <1>1, <1>3, <3>1, <3>3, <3>4
    <3> QED BY <1>6, <3>5 DEF p
  <2> QED BY <2>1, <2>2
<1> QED BY <1>5, <1>6

\* The first `g' bytes hold no sync, the next one, if there is one, is a sync.
SyncAfter(b, g) ==
  /\ g \in 0..Len(b)
  /\ \A i \in 1..g : b[i] # 85
  /\ g < Len(b) => b[g + 1] = 85

LEMMA SyncIs == ASSUME NEW b \in Text PROVE \E g : SyncAfter(b, g)
<1> DEFINE p == Find(b, SYNC_SHORT)
<1>1. /\ p \in 0..Len(b) /\ Len(b) \in Nat
      /\ p = 0 => \A i \in 1..Len(b) : b[i] # 85
      /\ p # 0 => b[p] = 85 /\ \A i \in 1..p - 1 : b[i] # 85
  BY FindOne DEF SYNC_SHORT, Text
<1> HIDE DEF p
<1>2. CASE p = 0
  <2>1. SyncAfter(b, Len(b))
    BY <1>1, <1>2 DEF SyncAfter
  <2> QED BY <2>1
<1>3. CASE p # 0
  <2> DEFINE g == p - 1
  <2>1. g \in 0..Len(b) /\ g + 1 = p
    BY <1>1, <1>3
  <2>2. \A i \in 1..g : b[i] # 85
    BY <1>1, <1>3
  <2>3. b[g + 1] = 85
    BY <1>1, <1>3, <2>1, Zenon
  <2> HIDE DEF g
  <2>4. SyncAfter(b, g)
    BY <2>1, <2>2, <2>3 DEF SyncAfter
  <2> QED BY <2>4
<1> QED BY <1>2, <1>3

LEMMA TryIs ==
  ASSUME NEW b \in Text, b # <<>>, NEW g, SyncAfter(b, g)
  PROVE  \/ \E n \in 1..g : try_parse_packet(b) = Skip(n)
         \/ g = Len(b) /\ try_parse_packet(b) = More
         \/ g \in {0, 1} /\ g < Len(b) /\ try_parse_packet(b) = parse_at(b, g + 1)
<1> DEFINE full  == Find(b, SYNC)
           short == Find(b, SYNC_SHORT)
           at    == IF full # 0 /\ full < short THEN full ELSE short
           r     == try_parse_packet(b)
           e     == Len(b)
<1>1. /\ short \in 0..e /\ e \in Nat /\ e # 0
      /\ short = 0 => \A i \in 1..e : b[i] # 85
      /\ short # 0 => b[short] = 85 /\ \A i \in 1..short - 1 : b[i] # 85
  BY FindOne, EmptySeq DEF SYNC_SHORT, Text
<1>2. g \in 0..e /\ (\A i \in 1..g : b[i] # 85) /\ (g < e => b[g + 1] = 85)
  BY DEF SyncAfter
<1>3. full \in 0..e
  <2>1. SYNC \in Text /\ SYNC # <<>>
    BY ShortIsText DEF SYNC
  <2> QED BY <2>1, FindIsPlace
<1>4. r = CASE at = 0 -> IF b[e] = SYNC[1]
                           THEN IF e = 1 THEN More ELSE Skip(e - 1)
                           ELSE Skip(e)
            [] at > 1 -> Skip(at - 1)
            [] OTHER  -> parse_at(b, IF at = full THEN Len(SYNC) ELSE Len(SYNC_SHORT))
  BY DEF try_parse_packet
<1>5. Len(SYNC) = 2 /\ Len(SYNC_SHORT) = 1
  BY DEF SYNC, SYNC_SHORT
<1> HIDE DEF short, full, r
<1>6. CASE g = e
  <2>1. short = 0
    BY <1>1, <1>2, <1>6 DEF e
  <2>2. at = 0
    BY <1>3, <2>1
  <2>3. r = More \/ (r = Skip(e - 1) /\ e - 1 \in 1..g) \/ r = Skip(e)
    <3> HIDE DEF at, e
    <3> QED BY <1>1, <1>4, <1>6, <2>2
  <2> QED BY <1>1, <1>6, <2>3 DEF r
<1>7. CASE g < e
  <2>1. short = g + 1
    <3>1. b[g + 1] = 85 /\ g + 1 \in 1..e
      BY <1>1, <1>2, <1>7
    <3>2. short # 0
      BY <1>1, <3>1
    <3>3. ~(short < g + 1) /\ ~(g + 1 < short)
      BY <1>1, <1>2, <3>1, <3>2
    <3> QED BY <1>1, <1>2, <3>3
  <2>2. IF g # 0 /\ b[g] = 255 THEN full = g ELSE full = 0 \/ full > g + 1
    <3>1. b[g + 1] = 85 /\ g \in Nat /\ g < Len(b)
      BY <1>1, <1>2, <1>7
    <3> QED BY <1>2, <3>1, FindSync DEF full
  <2> HIDE DEF e
  <2>3. CASE g # 0 /\ b[g] = 255
    <3>1. full = g /\ at = g
      BY <1>2, <2>1, <2>2, <2>3
    <3>2. CASE g = 1
      <4>1. r = parse_at(b, 2)
        <5>1. at = 1 /\ at = full
          BY <3>1, <3>2
        <5> HIDE DEF at
        <5> QED BY <1>4, <1>5, <5>1
      <4> QED BY <1>7, <3>2, <4>1 DEF r, e
    <3>3. CASE g # 1
      <4>1. at > 1 /\ at - 1 \in 1..g
        BY <1>1, <1>2, <2>3, <3>1, <3>3
      <4> HIDE DEF at
      <4>2. r = Skip(at - 1)
        BY <1>4, <4>1
      <4> QED BY <4>1, <4>2 DEF r
    <3> QED BY <3>2, <3>3
  <2>4. CASE ~(g # 0 /\ b[g] = 255)
    <3>1. at = g + 1 /\ at # full
      BY <1>2, <1>3, <2>1, <2>2, <2>4
    <3>2. CASE g = 0
      <4>1. at = 1
        BY <3>1, <3>2
      <4> HIDE DEF at
      <4>2. r = parse_at(b, 1)
        BY <1>4, <1>5, <3>1, <4>1
      <4> QED BY <1>7, <3>2, <4>2 DEF r, e
    <3>3. CASE g # 0
      <4>1. at > 1 /\ at - 1 \in 1..g
        BY <1>1, <1>2, <3>1, <3>3
      <4> HIDE DEF at
      <4>2. r = Skip(at - 1)
        BY <1>4, <4>1
      <4> QED BY <4>1, <4>2 DEF r
    <3> QED BY <3>2, <3>3
  <2> QED BY <2>3, <2>4
<1> QED BY <1>1, <1>2, <1>6, <1>7 DEF e

\* Whatever is in the buffer, what the parser uses up is in it.
Bounded(r, n) == r.outcome \in {"more", "raises"} \/ r.used \in 1..n

LEMMA BodyBounded ==
  ASSUME NEW b, Len(b) \in Nat, NEW h \in Nat \ {0}, NEW summed, NEW first, NEW last \in Nat, h <= last
  PROVE  Bounded(parse_body(b, h, summed, first, last), Len(b))
<1> DEFINE p == split_lingo_cmd(b, first, last)
           c == iap1_checksum(SubSeq(b, summed, last))
           r == parse_body(b, h, summed, first, last)
<1>1. r = IF Len(b) < last + 1 THEN More
          ELSE IF c # b[last + 1] THEN Skip(h)
          ELSE IF first + 1 > Len(b) THEN Raises
          ELSE [outcome |-> "packet", used |-> last + 1, packet |-> p]
  BY DEF parse_body
<1> HIDE DEF p, c, r
<1>2. r = More \/ r = Raises \/ (Len(b) >= last + 1 /\ r.used \in {h, last + 1})
  BY <1>1 DEF Skip
<1>3. Bounded(r, Len(b))
  BY <1>2 DEF Bounded, More, Raises
<1> QED BY <1>3 DEF r

LEMMA TryBounded ==
  ASSUME NEW b \in Text, b # <<>>
  PROVE  Bounded(try_parse_packet(b), Len(b))
<1>1. Len(b) \in Nat /\ \A i \in 1..Len(b) : b[i] \in Nat
  BY ElementOfSeq DEF Text
<1>2. ASSUME NEW h \in {1, 2} PROVE Bounded(parse_at(b, h), Len(b))
  <2> DEFINE len == h + 1
             n == b[len]
             m == U16(b[len + 1], b[len + 2])
  <2>1. CASE Len(b) < len
    BY <2>1 DEF parse_at, Bounded, More
  <2>2. CASE ~(Len(b) < len) /\ n # 0
    <3>1. n \in Nat
      BY <1>1, <2>2
    <3> HIDE DEF n
    <3>2. Bounded(parse_body(b, h, len, len + 1, len + n), Len(b))
      BY <1>1, <3>1, BodyBounded
    <3>3. parse_at(b, h) = parse_body(b, h, len, len + 1, len + n)
      <4> HIDE DEF len
      <4> QED BY <2>2, Zenon DEF parse_at, n, len
    <3> QED BY <3>2, <3>3, Zenon
  <2>3. CASE ~(Len(b) < len) /\ n = 0 /\ Len(b) < len + 2
    BY <2>3 DEF parse_at, Bounded, More
  <2>4. CASE ~(Len(b) < len) /\ n = 0 /\ ~(Len(b) < len + 2)
    <3>1. m \in Nat
      BY <1>1, <2>4, SMTT(30) DEF U16
    <3> HIDE DEF m
    <3>2. Bounded(parse_body(b, h, len + 1, len + 3, len + 2 + m), Len(b))
      BY <1>1, <3>1, BodyBounded
    <3>3. parse_at(b, h) = parse_body(b, h, len + 1, len + 3, len + 2 + m)
      <4> HIDE DEF len
      <4> QED BY <2>4, Zenon DEF parse_at, m, n, len
    <3> QED BY <3>2, <3>3, Zenon
  <2> QED BY <2>1, <2>2, <2>3, <2>4
<1>3. PICK g : SyncAfter(b, g)
  BY SyncIs
<1> DEFINE r == try_parse_packet(b)
<1>4. \/ \E n \in 1..g : r = Skip(n)
      \/ r = More
      \/ g \in {0, 1} /\ r = parse_at(b, g + 1)
  BY <1>3, TryIs
<1>5. g \in 0..Len(b)
  BY <1>3 DEF SyncAfter
<1> HIDE DEF r
<1>6. ASSUME \E n \in 1..g : r = Skip(n) PROVE Bounded(r, Len(b))
  BY <1>1, <1>5, <1>6 DEF Skip, Bounded
<1>7. ASSUME r = More PROVE Bounded(r, Len(b))
  BY <1>7 DEF More, Bounded
<1>8. ASSUME g \in {0, 1}, r = parse_at(b, g + 1) PROVE Bounded(r, Len(b))
  <2>1. g + 1 \in {1, 2}
    BY <1>8
  <2> QED BY <1>2, <1>8, <2>1
<1>9. Bounded(r, Len(b))
  BY <1>4, <1>6, <1>7, <1>8
<1> QED BY <1>9 DEF r

-----------------------------------------------------------------------------
(***************************************************************************)
(* What is left of a stream of packets and noise.                          *)
(***************************************************************************)
LEMMA Overlap ==
  ASSUME NEW S, NEW s \in Seq(S), NEW t \in Seq(S), NEW u \in Seq(S), NEW v \in Seq(S),
         s \o t = u \o v
  PROVE  /\ Len(s) + Len(t) = Len(u) + Len(v)
         /\ \A i \in 1..Len(s) : i <= Len(u) => s[i] = u[i]
         /\ \A i \in 1..Len(v) : Len(u) + i <= Len(s) => s[Len(u) + i] = v[i]
<1> DEFINE x == s \o t
           y == u \o v
<1>1. /\ Len(s) \in Nat /\ Len(t) \in Nat /\ Len(u) \in Nat /\ Len(v) \in Nat
  BY LenProperties
<1>2. /\ Len(x) = Len(s) + Len(t)
      /\ \A i \in 1..Len(s) + Len(t) : x[i] = IF i <= Len(s) THEN s[i] ELSE t[i - Len(s)]
  BY ConcatProperties
<1>3. /\ Len(y) = Len(u) + Len(v)
      /\ \A i \in 1..Len(u) + Len(v) : y[i] = IF i <= Len(u) THEN u[i] ELSE v[i - Len(u)]
  BY ConcatProperties
<1>4. x = y
  OBVIOUS
<1> HIDE DEF x, y
<1>5. Len(s) + Len(t) = Len(u) + Len(v)
  BY <1>2, <1>3, <1>4
<1>6. ASSUME NEW i \in 1..Len(s), i <= Len(u) PROVE s[i] = u[i]
  <2>1. i \in 1..Len(s) + Len(t) /\ i <= Len(s) /\ i \in 1..Len(u) + Len(v)
    BY <1>1, <1>6
  <2>2. x[i] = s[i] /\ y[i] = u[i]
    BY <1>2, <1>3, <1>6, <2>1
  <2> QED BY <1>4, <2>2
<1>7. ASSUME NEW i \in 1..Len(v), Len(u) + i <= Len(s) PROVE s[Len(u) + i] = v[i]
  <2> DEFINE j == Len(u) + i
  <2>1. /\ j \in 1..Len(s) + Len(t) /\ j <= Len(s)
        /\ j \in 1..Len(u) + Len(v) /\ ~(j <= Len(u)) /\ j - Len(u) = i
    BY <1>1, <1>7
  <2> HIDE DEF j
  <2>2. x[j] = s[j] /\ y[j] = v[j - Len(u)]
    BY <1>2, <1>3, <2>1
  <2>3. s[j] = v[i]
    BY <1>4, <2>1, <2>2, Zenon
  <2> QED BY <2>3 DEF j
<1> QED BY <1>5, <1>6, <1>7

LEMMA DropFirst ==
  ASSUME NEW S, NEW s \in Seq(S), NEW t \in Seq(S)
  PROVE  Drop(s \o t, Len(s)) = t
<1> DEFINE n == Len(s)
           a == Drop(s, n)
<1>1. n \in 0..Len(s)
  BY LenProperties
<1>2. a \in Seq(S) /\ Len(a) = 0
  <2>1. a \in Seq(S) /\ Len(a) = Len(s) - n
    BY <1>1, DropPlaces
  <2>2. Len(s) - n = 0
    BY <1>1
  <2> QED BY <2>1, <2>2, Zenon
<1>3. Drop(s \o t, n) = a \o t
  BY <1>1, DropJoin
<1> HIDE DEF a
<1>4. a = <<>>
  BY <1>2, EmptySeq
<1>5. <<>> \o t = t
  BY ConcatEmptySeq
<1> QED BY <1>3, <1>4, <1>5, Zenon

\* Noise holds no sync.
Gap(r) == r \in Text /\ \A i \in 1..Len(r) : r[i] # 85

\* A packet and the noise behind it.
Chunk(x, packet) ==
  \E c, first, head, tail :
    /\ Placed(head, c, first) /\ ContentOf(c, packet) /\ Gap(tail)
    /\ x = head \o tail

\* `rest' is noise and the packets `due', each with the noise behind it.
Chunks(bs, due) ==
  /\ bs \in Seq(Text) /\ due \in Seq(Packets) /\ Len(bs) = Len(due)
  /\ \A k \in 1..Len(bs) : Chunk(bs[k], due[k])

LeftBy(r, bs, due, rest) == Gap(r) /\ Chunks(bs, due) /\ rest = r \o FlattenSeq(bs)

PacketsLeft(rest, due) == \E r, bs : LeftBy(r, bs, due, rest)

LEMMA GapDrops ==
  ASSUME NEW r, Gap(r), NEW n \in 0..Len(r)
  PROVE  Gap(Drop(r, n))
<1>1. Len(r) \in Nat
  BY DEF Gap, Text
<1>2. /\ Drop(r, n) \in Seq(Nat) /\ Len(Drop(r, n)) = Len(r) - n
      /\ \A i \in 1..Len(r) - n : Drop(r, n)[i] = r[n + i]
  BY DropPlaces DEF Gap, Text
<1>3. \A i \in 1..Len(r) - n : n + i \in 1..Len(r)
  BY <1>1
<1> DEFINE d == Drop(r, n)
<1> HIDE DEF d
<1>4. d \in Text /\ \A i \in 1..Len(d) : d[i] = r[n + i] /\ n + i \in 1..Len(r)
  BY <1>2, <1>3 DEF d, Text
<1>5. Gap(d)
  BY <1>4 DEF Gap
<1> QED BY <1>5 DEF d

LEMMA ChunkIs ==
  ASSUME NEW x, NEW p, Chunk(x, p) PROVE x \in Text /\ p \in Packets /\ Len(x) > 0 /\ x[1] = 85
<1>1. PICK c, first, head, tail : /\ Placed(head, c, first) /\ ContentOf(c, p) /\ Gap(tail)
                                  /\ x = head \o tail
  BY DEF Chunk
<1>2. /\ head \in Text /\ tail \in Text /\ Len(head) \in Nat /\ Len(tail) \in Nat
      /\ Len(head) = first + Len(c) /\ first \in {3, 5} /\ Len(c) >= 2 /\ head[1] = 85
      /\ p \in Packets /\ Len(c) \in Nat
  BY <1>1 DEF Placed, ContentOf, Gap, Text
<1>3. Len(head) \in Nat \ {0}
  BY <1>2
<1>4. /\ x \in Text /\ Len(x) = Len(head) + Len(tail)
      /\ \A i \in 1..Len(head) + Len(tail) : x[i] = IF i <= Len(head) THEN head[i] ELSE tail[i - Len(head)]
  <2> DEFINE y == head \o tail
  <2>1. head \in Text /\ tail \in Text
    BY <1>2
  <2>2. /\ y \in Text /\ Len(y) = Len(head) + Len(tail)
        /\ \A i \in 1..Len(head) + Len(tail) : y[i] = IF i <= Len(head) THEN head[i] ELSE tail[i - Len(head)]
    BY <2>1, Joined
  <2>3. x = y
    BY <1>1
  <2> HIDE DEF y
  <2> QED BY <2>2, <2>3, Zenon
<1>5. 1 \in 1..Len(head) + Len(tail) /\ 1 <= Len(head)
  BY <1>2, <1>3
<1>6. x[1] = head[1]
  BY <1>4, <1>5
<1> QED BY <1>2, <1>3, <1>4, <1>6

\* Where the chunks begin.
LEMMA FirstChunk ==
  ASSUME NEW r, NEW bs, NEW due, NEW rest, LeftBy(r, bs, due, rest), bs # <<>>
  PROVE  /\ Chunk(bs[1], due[1]) /\ Chunks(Tail(bs), Tail(due))
         /\ FlattenSeq(Tail(bs)) \in Text
         /\ FlattenSeq(bs) = bs[1] \o FlattenSeq(Tail(bs))
         /\ due = <<due[1]>> \o Tail(due)
<1>1. /\ bs \in Seq(Text) /\ due \in Seq(Packets) /\ Len(bs) = Len(due)
      /\ \A k \in 1..Len(bs) : Chunk(bs[k], due[k])
  BY DEF LeftBy, Chunks
<1>2. Len(bs) \in Nat \ {0}
  BY <1>1, EmptySeq
<1>3. due # <<>>
  BY <1>1, <1>2, EmptySeq
<1>4. /\ Tail(bs) \in Seq(Text) /\ Len(Tail(bs)) = Len(bs) - 1
      /\ \A i \in 1..Len(Tail(bs)) : Tail(bs)[i] = bs[i + 1]
  BY <1>1, HeadTailProperties
<1>5. /\ Tail(due) \in Seq(Packets) /\ Len(Tail(due)) = Len(due) - 1
      /\ \A i \in 1..Len(Tail(due)) : Tail(due)[i] = due[i + 1]
  BY <1>1, <1>3, HeadTailProperties
<1>6. \A k \in 1..Len(Tail(bs)) : Chunk(Tail(bs)[k], Tail(due)[k])
  <2>1. \A k \in 1..Len(Tail(bs)) : k \in 1..Len(Tail(due)) /\ k + 1 \in 1..Len(bs)
    BY <1>1, <1>2, <1>4, <1>5
  <2> QED BY <1>1, <1>4, <1>5, <2>1
<1>7. FlattenSeq(Tail(bs)) \in Text /\ FlattenSeq(bs) = bs[1] \o FlattenSeq(Tail(bs))
  BY <1>1, <1>4, FlattenIs, FlattenTail DEF Text
<1>8. due = <<due[1]>> \o Tail(due)
  <2> DEFINE n == Len(due)
  <2>1. n \in Nat \ {0}
    BY <1>1, <1>2
  <2>2. 1 \in 1..n /\ n \in 1..n
    BY <2>1
  <2>3. SubSeq(due, 1, n) = <<due[1]>> \o SubSeq(due, 1 + 1, n)
    BY <1>1, <2>2, SubSeqRecursiveFirst
  <2>4. SubSeq(due, 1, n) = due /\ Tail(due) = SubSeq(due, 2, n)
    BY <1>1, <1>3, SubSeqFull, TailIsSubSeq
  <2>5. 1 + 1 = 2
    OBVIOUS
  <2> HIDE DEF n
  <2> QED BY <2>3, <2>4, <2>5, Zenon
<1>9. Chunk(bs[1], due[1])
  BY <1>1, <1>2
<1>10. Chunks(Tail(bs), Tail(due))
  <2>1. Len(Tail(bs)) = Len(Tail(due))
    BY <1>1, <1>4, <1>5
  <2> QED BY <1>4, <1>5, <1>6, <2>1 DEF Chunks
<1> QED BY <1>7, <1>8, <1>9, <1>10

\* A skip leaves what is due.
LEMMA SkipLeaves ==
  ASSUME NEW r, NEW bs, NEW due, NEW b \in Text, NEW w \in Text, LeftBy(r, bs, due, b \o w),
         NEW n \in 0..Len(b), n <= Len(r)
  PROVE  PacketsLeft(Drop(b, n) \o w, due)
<1> DEFINE f == FlattenSeq(bs)
<1>1. /\ Gap(r) /\ r \in Text /\ f \in Text /\ b \o w = r \o f /\ Len(r) \in Nat /\ Len(b) \in Nat
  BY FlattenIs DEF LeftBy, Chunks, Gap, Text
<1>2. Drop(b, n) \o w = Drop(r, n) \o f
  <2>1. b \in Seq(Nat) /\ w \in Seq(Nat) /\ r \in Seq(Nat) /\ f \in Seq(Nat)
    BY <1>1 DEF Text
  <2>2. b \o w = r \o f
    BY <1>1
  <2> HIDE DEF f
  <2>3. Drop(b \o w, n) = Drop(b, n) \o w
    BY <2>1, DropJoin
  <2>4. n \in 0..Len(r)
    BY <1>1
  <2>5. Drop(r \o f, n) = Drop(r, n) \o f
    BY <2>1, <2>4, DropJoin
  <2> QED BY <2>2, <2>3, <2>5, Zenon
<1>3. n \in 0..Len(r)
  BY <1>1
<1>4. Gap(Drop(r, n))
  BY <1>1, <1>3, GapDrops
<1>5. LeftBy(Drop(r, n), bs, due, Drop(b, n) \o w)
  BY <1>2, <1>4 DEF LeftBy
<1> QED BY <1>5 DEF PacketsLeft

Parsed(b, w, due) ==
  LET r == try_parse_packet(b)
  IN \/ r = More /\ (w = <<>> => due = <<>>)
     \/ \E n \in 1..Len(b) : r = Skip(n) /\ PacketsLeft(Drop(b, n) \o w, due)
     \/ \E n \in 1..Len(b), packet \in Packets, later \in Seq(Packets) :
          /\ r = [outcome |-> "packet", used |-> n, packet |-> packet]
          /\ due = <<packet>> \o later /\ PacketsLeft(Drop(b, n) \o w, later)

LEMMA ParsedInNoise ==
  ASSUME NEW r, NEW bs, NEW due, NEW b \in Text, NEW w \in Text, LeftBy(r, bs, due, b \o w),
         b # <<>>, Len(b) <= Len(r)
  PROVE  Parsed(b, w, due)
<1> DEFINE f == FlattenSeq(bs)
           p == try_parse_packet(b)
<1>1. /\ Gap(r) /\ r \in Text /\ f \in Text /\ b \o w = r \o f /\ Len(r) \in Nat /\ Len(b) \in Nat
      /\ bs \in Seq(Text) /\ due \in Seq(Packets) /\ Len(bs) = Len(due) /\ Len(f) \in Nat
      /\ \A i \in 1..Len(r) : r[i] # 85
  BY FlattenIs DEF LeftBy, Chunks, Gap, Text
<1> HIDE DEF f
<1>2. /\ Len(b) + Len(w) = Len(r) + Len(f)
      /\ \A i \in 1..Len(b) : i <= Len(r) => b[i] = r[i]
  BY <1>1, Overlap, SMTT(30) DEF Text
<1>3. SyncAfter(b, Len(b))
  <2>1. \A i \in 1..Len(b) : b[i] = r[i] /\ i \in 1..Len(r)
    BY <1>1, <1>2
  <2> QED BY <1>1, <2>1 DEF SyncAfter
<1>4. (\E n \in 1..Len(b) : p = Skip(n)) \/ p = More
  <2>1. \/ \E n \in 1..Len(b) : p = Skip(n)
        \/ p = More
        \/ Len(b) < Len(b)
    BY <1>3, TryIs
  <2> HIDE DEF p
  <2> QED BY <1>1, <2>1
<1>5. ASSUME p = More, w = <<>> PROVE due = <<>>
  <2>1. Len(f) = 0
    <3>1. Len(w) = 0
      BY <1>5
    <3> QED BY <1>1, <1>2, <3>1
  <2>2. bs = <<>>
    <3> SUFFICES ASSUME bs # <<>> PROVE FALSE
      OBVIOUS
    <3> DEFINE x == bs[1]
               g == FlattenSeq(Tail(bs))
    <3>1. x \in Text /\ Len(x) > 0 /\ g \in Text /\ f = x \o g
      <4>1. Chunk(x, due[1]) /\ g \in Text /\ f = x \o g
        BY FirstChunk DEF f
      <4> HIDE DEF x
      <4> QED BY <4>1, ChunkIs
    <3> HIDE DEF x, g
    <3>2. Len(f) = Len(x) + Len(g) /\ Len(x) \in Nat /\ Len(g) \in Nat
      BY <3>1, Joined DEF Text
    <3> QED BY <2>1, <3>1, <3>2
  <2>3. Len(due) = 0
    BY <1>1, <2>2, EmptySeq
  <2> QED BY <1>1, <2>3, EmptySeq
<1>6. \A n \in 1..Len(b) : PacketsLeft(Drop(b, n) \o w, due)
  <2>1. \A n \in 1..Len(b) : n \in 0..Len(b) /\ n <= Len(r)
    BY <1>1
  <2> QED BY <2>1, SkipLeaves
<1> HIDE DEF p
<1>7. \/ p = More /\ (w = <<>> => due = <<>>)
      \/ \E n \in 1..Len(b) : p = Skip(n) /\ PacketsLeft(Drop(b, n) \o w, due)
  BY <1>4, <1>5, <1>6
<1> QED BY <1>7 DEF Parsed, p

LEMMA ParsedAtSync ==
  ASSUME NEW r, NEW bs, NEW due, NEW b \in Text, NEW w \in Text, LeftBy(r, bs, due, b \o w),
         b # <<>>, Len(r) < Len(b)
  PROVE  Parsed(b, w, due)
<1> DEFINE f == FlattenSeq(bs)
           p == try_parse_packet(b)
           g == Len(r)
           x == bs[1]
           later == Tail(due)
           f2 == FlattenSeq(Tail(bs))
<1>1. /\ Gap(r) /\ r \in Text /\ f \in Text /\ b \o w = r \o f /\ g \in Nat /\ Len(b) \in Nat
      /\ bs \in Seq(Text) /\ due \in Seq(Packets) /\ Len(bs) = Len(due) /\ Len(f) \in Nat
      /\ Len(w) \in Nat /\ \A i \in 1..g : r[i] # 85
  BY FlattenIs, SMTT(30) DEF LeftBy, Chunks, Gap, Text
<1>2. /\ Len(b) + Len(w) = g + Len(f)
      /\ \A i \in 1..Len(b) : i <= g => b[i] = r[i]
      /\ \A i \in 1..Len(f) : g + i <= Len(b) => b[g + i] = f[i]
  <2> HIDE DEF f
  <2> QED BY <1>1, Overlap DEF Text
<1>3. bs # <<>>
  <2> SUFFICES ASSUME bs = <<>> PROVE FALSE
    OBVIOUS
  <2>1. f = <<>>
    BY <1>1, FlattenIs DEF Text
  <2>2. Len(f) = 0
    BY <2>1
  <2> HIDE DEF f, g
  <2> QED BY <1>1, <1>2, <2>2 DEF g
<1>4. /\ Chunk(x, due[1]) /\ f2 \in Text /\ f = x \o f2 /\ due = <<due[1]>> \o later
      /\ Chunks(Tail(bs), later) /\ later \in Seq(Packets)
  <2>1. /\ Chunk(x, due[1]) /\ f2 \in Text /\ f = x \o f2 /\ due = <<due[1]>> \o later
        /\ Chunks(Tail(bs), later)
    BY <1>3, FirstChunk
  <2>2. later \in Seq(Packets)
    BY <2>1 DEF Chunks
  <2> QED BY <2>1, <2>2
<1>5. PICK c, first, head, tail : /\ Placed(head, c, first) /\ ContentOf(c, due[1]) /\ Gap(tail)
                                  /\ x = head \o tail
  <2> HIDE DEF x
  <2> QED BY <1>4 DEF Chunk
<1>6. /\ head \in Text /\ tail \in Text /\ Len(head) \in Nat /\ Len(head) > 0 /\ head[1] = 85
      /\ due[1] \in Packets
  <2> DEFINE packet == due[1]
  <2> HIDE DEF x, packet
  <2>1. /\ head \in Text /\ tail \in Text /\ Len(head) \in Nat /\ Len(c) \in Nat
        /\ Len(head) = first + Len(c) /\ first \in {3, 5} /\ Len(c) >= 2 /\ head[1] = 85
    BY <1>5 DEF Placed, Gap, Text
  <2>2. packet \in Packets
    BY <1>5 DEF ContentOf, packet
  <2>3. Len(head) > 0
    BY <2>1
  <2> QED BY <2>1, <2>2, <2>3 DEF packet
<1> DEFINE rest == tail \o f2
<1>7. f = head \o rest /\ rest \in Text
  <2> HIDE DEF x, f, f2
  <2>1. Regroups(head, tail, f2)
    BY <1>4, <1>6, Regroup, Zenon DEF Text
  <2> QED BY <1>4, <1>5, <1>6, <2>1, JoinIsText DEF Regroups
<1> HIDE DEF f, f2, x, rest
<1>8. /\ Len(f) = Len(head) + Len(rest) /\ Len(rest) \in Nat
      /\ \A i \in 1..Len(head) : f[i] = head[i]
  <2>1. /\ Len(f) = Len(head) + Len(rest) /\ Len(rest) \in Nat
        /\ \A i \in 1..Len(head) + Len(rest) : f[i] = IF i <= Len(head) THEN head[i] ELSE rest[i - Len(head)]
    BY <1>6, <1>7, Joined, SMTT(30) DEF Text
  <2>2. \A i \in 1..Len(head) : i \in 1..Len(head) + Len(rest) /\ i <= Len(head)
    BY <1>6, <2>1
  <2> QED BY <2>1, <2>2
<1> HIDE DEF g
<1>9. g < Len(b)
  BY DEF g
<1>10. Stands(b, g + 1, head)
  <2> DEFINE h == g + 1
  <2>1. ASSUME NEW i \in 1..Len(head), h - 1 + i <= Len(b) PROVE b[h - 1 + i] = head[i]
    <3>1. h - 1 + i = g + i /\ i \in 1..Len(f)
      BY <1>1, <1>6, <1>8
    <3>2. g + i <= Len(b)
      BY <2>1, <3>1
    <3>3. b[g + i] = f[i] /\ f[i] = head[i]
      BY <1>2, <1>8, <3>1, <3>2
    <3> HIDE DEF h
    <3> QED BY <3>1, <3>3, Zenon
  <2> HIDE DEF h
  <2>2. Stands(b, h, head)
    BY <2>1 DEF Stands
  <2> QED BY <2>2 DEF h
<1>11. SyncAfter(b, g)
  <2>1. \A i \in 1..g : b[i] # 85
    <3>1. \A i \in 1..g : i \in 1..Len(b) /\ i <= g
      BY <1>1, <1>9
    <3> QED BY <1>1, <1>2, <3>1
  <2>2. b[g + 1] = 85
    <3>1. 1 \in 1..Len(f) /\ 1 \in 1..Len(head) /\ g + 1 <= Len(b)
      BY <1>1, <1>6, <1>8, <1>9
    <3> QED BY <1>2, <1>6, <1>8, <3>1
  <2> QED BY <1>1, <1>9, <2>1, <2>2 DEF SyncAfter
<1>12. \/ \E n \in 1..g : p = Skip(n)
       \/ g = Len(b)
       \/ g \in {0, 1} /\ p = parse_at(b, g + 1)
  BY <1>11, TryIs
<1> HIDE DEF p, later
<1>13. ASSUME \E n \in 1..g : p = Skip(n)
       PROVE  \E n \in 1..Len(b) : p = Skip(n) /\ PacketsLeft(Drop(b, n) \o w, due)
  <2>1. PICK n \in 1..g : p = Skip(n)
    BY <1>13
  <2>2. n \in 1..Len(b) /\ n \in 0..Len(b) /\ n <= Len(r)
    BY <1>1, <1>9 DEF g
  <2>3. PacketsLeft(Drop(b, n) \o w, due)
    BY <2>2, SkipLeaves
  <2> QED BY <2>1, <2>2, <2>3
<1>14. ASSUME g \in {0, 1}, p = parse_at(b, g + 1)
       PROVE  \/ p = More /\ (w = <<>> => due = <<>>)
              \/ \E n \in 1..Len(b), packet \in Packets, due2 \in Seq(Packets) :
                   /\ p = [outcome |-> "packet", used |-> n, packet |-> packet]
                   /\ due = <<packet>> \o due2 /\ PacketsLeft(Drop(b, n) \o w, due2)
  <2> DEFINE h == g + 1
             n == g + Len(head)
  <2>1. h \in {1, 2} /\ h - 1 + Len(head) = n
    BY <1>1, <1>6, <1>14
  <2>2. p = IF Len(b) < n THEN More
            ELSE [outcome |-> "packet", used |-> n, packet |-> due[1]]
    <3> HIDE DEF h, n
    <3>1. parse_at(b, h) = Whole(b, h, head, due[1])
      BY <1>5, <1>10, <2>1, ParseAtIs DEF h
    <3> QED BY <1>14, <2>1, <3>1 DEF Whole, h
  <2>3. CASE Len(b) < n
    <3>1. w # <<>>
      <4> SUFFICES ASSUME w = <<>> PROVE FALSE
        OBVIOUS
      <4>1. Len(w) = 0
        OBVIOUS
      <4> QED BY <1>1, <1>2, <1>6, <1>8, <2>3, <4>1
    <3> QED BY <2>2, <2>3, <3>1
  <2>4. CASE ~(Len(b) < n)
    <3>1. n \in 1..Len(b) /\ n \in 0..Len(b)
      BY <1>1, <1>6, <2>4
    <3> DEFINE k == r \o head
    <3>2. k \in Text /\ Len(k) = n
      BY <1>1, <1>6, Joined DEF g
    <3>3. b \o w = k \o rest
      <4>1. Regroups(r, head, rest)
        <5>1. r \in Seq(Nat) /\ head \in Seq(Nat) /\ rest \in Seq(Nat)
          BY <1>1, <1>6, <1>7 DEF Text
        <5> QED BY <5>1, Regroup, Zenon
      <4> QED BY <1>1, <1>7, <4>1, Zenon DEF Regroups
    <3> HIDE DEF k, n
    <3>4. Drop(b, n) \o w = rest
      <4>1. Drop(b \o w, n) = Drop(b, n) \o w
        BY <3>1, DropJoin DEF Text
      <4>2. Drop(k \o rest, Len(k)) = rest
        BY <1>7, <3>2, DropFirst DEF Text
      <4> QED BY <3>2, <3>3, <4>1, <4>2, Zenon
    <3>5. LeftBy(tail, Tail(bs), later, rest)
      <4> QED BY <1>4, <1>5 DEF LeftBy, rest, f2
    <3>6. PacketsLeft(Drop(b, n) \o w, later)
      BY <3>4, <3>5 DEF PacketsLeft
    <3>7. p = [outcome |-> "packet", used |-> n, packet |-> due[1]]
      BY <2>2, <2>4
    <3> QED BY <1>4, <1>6, <3>1, <3>6, <3>7
  <2> QED BY <2>3, <2>4
<1>15. g # Len(b)
  BY <1>1, <1>9
<1> QED BY <1>12, <1>13, <1>14, <1>15 DEF Parsed, p

LEMMA ParsedIs ==
  ASSUME NEW due, NEW b \in Text, NEW w \in Text, PacketsLeft(b \o w, due), b # <<>>
  PROVE  Parsed(b, w, due)
<1>1. PICK r, bs : LeftBy(r, bs, due, b \o w)
  BY DEF PacketsLeft
<1>2. Len(r) \in Nat /\ Len(b) \in Nat
  BY <1>1 DEF LeftBy, Chunks, Gap, Text
<1>3. CASE Len(b) <= Len(r)
  BY <1>1, <1>3, ParsedInNoise
<1>4. CASE Len(r) < Len(b)
  BY <1>1, <1>4, ParsedAtSync
<1> QED BY <1>2, <1>3, <1>4

-----------------------------------------------------------------------------
(***************************************************************************)
(* The loop that drains a buffer: its step, and that it has one.           *)
(***************************************************************************)
LEMMA DropDrop ==
  ASSUME NEW S, NEW s \in Seq(S), NEW m \in 0..Len(s), NEW n \in 0..Len(s) - m
  PROVE  Drop(Drop(s, m), n) = Drop(s, m + n)
<1> DEFINE a == Drop(s, m)
           u == Drop(a, n)
           k == m + n
           v == Drop(s, k)
<1>1. Len(s) \in Nat
  BY LenProperties
<1>2. /\ a \in Seq(S) /\ Len(a) = Len(s) - m
      /\ \A i \in 1..Len(s) - m : a[i] = s[m + i]
  BY DropPlaces
<1>3. k \in 0..Len(s)
  BY <1>1
<1> HIDE DEF a
<1>4. n \in 0..Len(a)
  BY <1>2
<1>5. /\ u \in Seq(S) /\ Len(u) = Len(a) - n
      /\ \A i \in 1..Len(a) - n : u[i] = a[n + i]
  BY <1>2, <1>4, DropPlaces, ZenonT(60)
<1> HIDE DEF u
<1> HIDE DEF k
<1>6. /\ v \in Seq(S) /\ Len(v) = Len(s) - k
      /\ \A i \in 1..Len(s) - k : v[i] = s[k + i]
  BY <1>3, DropPlaces
<1> HIDE DEF v
<1>7. Len(u) = Len(v)
  BY <1>1, <1>2, <1>5, <1>6 DEF k
<1>8. ASSUME NEW i \in 1..Len(u) PROVE u[i] = v[i]
  <2>1. /\ i \in 1..Len(a) - n /\ n + i \in 1..Len(s) - m /\ i \in 1..Len(s) - k
        /\ m + (n + i) = k + i
    BY <1>1, <1>2, <1>5, <1>6, <1>7 DEF k
  <2>2. u[i] = a[n + i] /\ a[n + i] = s[m + (n + i)] /\ v[i] = s[k + i]
    BY <1>2, <1>5, <1>6, <2>1
  <2> QED BY <2>1, <2>2, Zenon
<1>9. u = v
  BY <1>5, <1>6, <1>7, <1>8, SeqEqual
<1> QED BY <1>9 DEF u, v, a, k

DrainNext(buffer, f, at) ==
  LET b      == Drop(buffer, at)
      parsed == try_parse_packet(b)
  IN IF b = <<>> \/ parsed.outcome \in {"more", "raises"}
       THEN [packets |-> <<>>, rest |-> b, alive |-> b = <<>> \/ parsed.outcome = "more"]
     ELSE IF parsed.outcome = "skip" THEN f[at + parsed.used]
     ELSE [f[at + parsed.used] EXCEPT !.packets = <<parsed.packet>> \o @]

Drain(buffer) == CHOOSE f : f = [at \in 0..Len(buffer) |-> DrainNext(buffer, f, at)]

LEMMA DrainGoesOn ==
  ASSUME NEW buffer \in Text
  PROVE  LET f == Drain(buffer)
         IN  \A at \in 0..Len(buffer) : f[at] = DrainNext(buffer, f, at)
<1> DEFINE N == Len(buffer)
           D == 0..N
           B == [at \in D |-> Drop(buffer, at)]
           T == [at \in D |-> try_parse_packet(Drop(buffer, at))]
           P == {T[at].packet : at \in D}
           Q == Seq(P)
           V == [packets : Q, rest : {B[at] : at \in D}, alive : BOOLEAN]
           rank == [at \in D |-> N - at]
           step == [at \in D |-> [g \in [D -> V] |-> DrainNext(buffer, g, at)]]
           f == Drain(buffer)
<1>1. N \in Nat
  BY DEF Text
<1>2. rank \in [D -> Nat] /\ \A at \in D : rank[at] <= N
  BY <1>1
<1>3. <<>> \in Q
  BY EmptySeq
<1>4. V # {}
  <2>1. 0 \in D
    BY <1>1
  <2> HIDE DEF D, B, Q
  <2>2. [packets |-> <<>>, rest |-> B[0], alive |-> TRUE] \in V
    BY <1>3, <2>1
  <2> QED BY <2>2
<1>5. ASSUME NEW at \in D, B[at] # <<>>, T[at].outcome \notin {"more", "raises"}
      PROVE  at + T[at].used \in D /\ at + T[at].used > at
  <2> DEFINE b == Drop(buffer, at)
             used == T[at].used
  <2>1. b \in Text /\ Len(b) = N - at
    BY <1>1, DropIsText
  <2>2. Bounded(T[at], Len(b))
    BY <1>5, <2>1, TryBounded
  <2>3. used \in 1..Len(b)
    BY <1>5, <2>2 DEF Bounded
  <2> HIDE DEF used, b
  <2> QED BY <1>1, <2>1, <2>3 DEF used
<1>6. ASSUME NEW at \in D, NEW g
      PROVE  DrainNext(buffer, g, at) =
               IF B[at] = <<>> \/ T[at].outcome \in {"more", "raises"}
                 THEN [packets |-> <<>>, rest |-> B[at],
                       alive |-> B[at] = <<>> \/ T[at].outcome = "more"]
               ELSE IF T[at].outcome = "skip" THEN g[at + T[at].used]
               ELSE [g[at + T[at].used] EXCEPT !.packets = <<T[at].packet>> \o @]
  BY DEF DrainNext
<1> HIDE DEF B, T
<1>7. ASSUME NEW at \in D, NEW g \in [D -> V] PROVE DrainNext(buffer, g, at) \in V
  <2>1. CASE B[at] = <<>> \/ T[at].outcome \in {"more", "raises"}
    <3> DEFINE alive == B[at] = <<>> \/ T[at].outcome = "more"
    <3>1. alive \in BOOLEAN
      OBVIOUS
    <3>2. DrainNext(buffer, g, at) = [packets |-> <<>>, rest |-> B[at], alive |-> alive]
      BY <1>6, <2>1, Zenon
    <3> HIDE DEF D, Q, alive
    <3> QED BY <1>3, <3>1, <3>2
  <2>2. CASE ~(B[at] = <<>> \/ T[at].outcome \in {"more", "raises"})
    <3> DEFINE e == at + T[at].used
               p == T[at].packet
    <3>1. e \in D
      BY <1>5, <2>2
    <3>2. p \in P
      OBVIOUS
    <3>3. DrainNext(buffer, g, at) = IF T[at].outcome = "skip" THEN g[e]
                                     ELSE [g[e] EXCEPT !.packets = <<p>> \o @]
      BY <1>6, <2>2, Zenon
    <3> HIDE DEF e, p, P, D
    <3>4. g[e] \in V
      BY <3>1
    <3>5. g[e].packets \in Q
      <4> HIDE DEF Q
      <4> QED BY <3>4
    <3>6. <<p>> \o g[e].packets \in Q
      <4>1. <<p>> \in Q
        BY <3>2
      <4> QED BY <3>5, <4>1, ConcatProperties
    <3>7. [g[e] EXCEPT !.packets = <<p>> \o @] \in V
      <4> HIDE DEF Q
      <4> QED BY <3>4, <3>6
    <3> QED BY <3>3, <3>4, <3>7
  <2> QED BY <2>1, <2>2
<1>8. ASSUME NEW at \in D, NEW g, NEW h, \A e \in D : rank[e] < rank[at] => g[e] = h[e]
      PROVE  DrainNext(buffer, g, at) = DrainNext(buffer, h, at)
  <2>1. CASE B[at] = <<>> \/ T[at].outcome \in {"more", "raises"}
    BY <1>6, <2>1, Zenon
  <2>2. CASE ~(B[at] = <<>> \/ T[at].outcome \in {"more", "raises"})
    <3> DEFINE e == at + T[at].used
    <3>1. e \in D /\ e > at
      BY <1>5, <2>2
    <3> HIDE DEF e
    <3>2. rank[e] < rank[at]
      BY <1>1, <3>1
    <3>3. g[e] = h[e]
      BY <1>8, <3>1, <3>2
    <3> DEFINE Goes(k) == IF T[at].outcome = "skip" THEN k[e]
                          ELSE [k[e] EXCEPT !.packets = <<T[at].packet>> \o @]
    <3>4. DrainNext(buffer, g, at) = Goes(g)
      BY <1>6, <2>2, Zenon DEF e
    <3>5. DrainNext(buffer, h, at) = Goes(h)
      BY <1>6, <2>2, Zenon DEF e
    <3>6. Goes(g) = Goes(h)
      BY <3>3, Zenon
    <3> HIDE DEF Goes
    <3> QED BY <3>4, <3>5, <3>6
  <2> QED BY <2>1, <2>2
<1>9. LooksBelow(D, V, rank, step)
  <2> HIDE DEF D, V, rank
  <2>1. step \in [D -> [[D -> V] -> V]]
    BY <1>7
  <2> QED BY <1>8, <2>1 DEF LooksBelow
<1>10. PICK w \in [D -> V] : \A at \in D : w[at] = step[at][w]
  <2> HIDE DEF N, D, V, rank, step
  <2> QED BY <1>1, <1>2, <1>4, <1>9, FixedPoint
<1>11. w = [at \in D |-> DrainNext(buffer, w, at)]
  <2> HIDE DEF V
  <2> QED BY <1>10
<1>12. f = [at \in D |-> DrainNext(buffer, f, at)]
  BY <1>11 DEF Drain
<1> HIDE DEF f
<1>13. \A at \in D : f[at] = DrainNext(buffer, f, at)
  BY <1>12
<1> QED BY <1>13 DEF f

-----------------------------------------------------------------------------
(***************************************************************************)
(* What a drain handles, and what it leaves.                               *)
(***************************************************************************)
LEMMA NothingLeft == ASSUME NEW due, PacketsLeft(<<>>, due) PROVE due = <<>>
<1> DEFINE e == <<>>
<1>1. PICK r, bs : LeftBy(r, bs, due, e)
  BY DEF PacketsLeft
<1> DEFINE f == FlattenSeq(bs)
<1>2. /\ r \in Text /\ f \in Text /\ e = r \o f /\ Len(r) \in Nat /\ Len(f) \in Nat
      /\ due \in Seq(Packets) /\ Len(bs) = Len(due) /\ bs \in Seq(Text)
  BY <1>1, FlattenIs DEF LeftBy, Chunks, Gap, Text
<1>3. Len(r \o f) = 0
  BY <1>2
<1> HIDE DEF e, f
<1>4. Len(f) = 0
  <2>1. Len(r \o f) = Len(r) + Len(f)
    BY <1>2, Joined
  <2> QED BY <1>2, <1>3, <2>1
<1>5. bs = <<>>
  <2> SUFFICES ASSUME bs # <<>> PROVE FALSE
    OBVIOUS
  <2> DEFINE x == bs[1]
             g == FlattenSeq(Tail(bs))
  <2>1. x \in Text /\ Len(x) > 0 /\ g \in Text /\ f = x \o g
    <3>1. Chunk(x, due[1]) /\ g \in Text /\ f = x \o g
      BY <1>1, FirstChunk DEF f
    <3> HIDE DEF x
    <3> QED BY <3>1, ChunkIs
  <2> HIDE DEF x, g
  <2>2. Len(f) = Len(x) + Len(g) /\ Len(x) \in Nat /\ Len(g) \in Nat
    BY <2>1, Joined DEF Text
  <2> QED BY <1>4, <2>1, <2>2
<1>6. Len(due) = 0
  BY <1>2, <1>5, EmptySeq
<1> QED BY <1>2, <1>6, EmptySeq

\* `packets' are handled, `rest' stays in the buffer for the `later' ones.
HandledAs(r, w, due, packets, rest, later) ==
  /\ r = [packets |-> packets, rest |-> rest, alive |-> TRUE]
  /\ packets \in Seq(Packets) /\ rest \in Text /\ later \in Seq(Packets)
  /\ due = packets \o later /\ PacketsLeft(rest \o w, later)
  /\ w = <<>> => later = <<>>

Handled(r, w, due) == \E packets, rest, later : HandledAs(r, w, due, packets, rest, later)

LEMMA LeftIsTyped ==
  ASSUME NEW rest, NEW due, PacketsLeft(rest, due) PROVE due \in Seq(Packets)
BY DEF PacketsLeft, LeftBy, Chunks

\* Nothing is handled yet, and more is needed.
LEMMA HandledNone ==
  ASSUME NEW b \in Text, NEW w, NEW due, PacketsLeft(b \o w, due), w = <<>> => due = <<>>
  PROVE  Handled([packets |-> <<>>, rest |-> b, alive |-> TRUE], w, due)
<1> DEFINE none == <<>>
           r == [packets |-> none, rest |-> b, alive |-> TRUE]
<1>1. due \in Seq(Packets) /\ none \in Seq(Packets) /\ due = none \o due
  BY LeftIsTyped, EmptySeq, ConcatEmptySeq
<1> HIDE DEF none
<1>2. HandledAs(r, w, due, none, b, due)
  BY <1>1 DEF HandledAs
<1> HIDE DEF r
<1>3. Handled(r, w, due)
  BY <1>2 DEF Handled
<1> QED BY <1>3 DEF r, none

\* One packet before what the rest of the loop handles.
LEMMA HandledFirst ==
  ASSUME NEW r, NEW w, NEW due, Handled(r, w, due), NEW packet \in Packets
  PROVE  Handled([r EXCEPT !.packets = <<packet>> \o @], w, <<packet>> \o due)
<1>1. PICK packets, rest, later : HandledAs(r, w, due, packets, rest, later)
  BY DEF Handled
<1> DEFINE one == <<packet>>
           all == one \o packets
           s == [r EXCEPT !.packets = one \o @]
           d == one \o due
<1>2. /\ r = [packets |-> packets, rest |-> rest, alive |-> TRUE]
      /\ packets \in Seq(Packets) /\ later \in Seq(Packets) /\ rest \in Text
      /\ due = packets \o later /\ PacketsLeft(rest \o w, later) /\ (w = <<>> => later = <<>>)
  BY <1>1 DEF HandledAs
<1>3. s = [packets |-> all, rest |-> rest, alive |-> TRUE]
  <2> HIDE DEF one
  <2>1. r.packets = packets
    BY <1>2
  <2>2. s = [r EXCEPT !.packets = all]
    BY <2>1, Zenon
  <2> HIDE DEF all, s
  <2> QED BY <1>2, <2>2
<1>4. one \in Seq(Packets)
  OBVIOUS
<1> HIDE DEF one, s
<1>5. all \in Seq(Packets)
  BY <1>2, <1>4, ConcatProperties
<1>6. Regroups(one, packets, later)
  BY <1>2, <1>4, Regroup, Zenon
<1>7. d = all \o later
  BY <1>2, <1>6 DEF Regroups
<1> HIDE DEF all, d
<1>8. HandledAs(s, w, d, all, rest, later)
  BY <1>2, <1>3, <1>5, <1>7 DEF HandledAs
<1>9. Handled(s, w, d)
  BY <1>8 DEF Handled
<1> QED BY <1>9 DEF s, d, one

LEMMA DrainLeaves ==
  ASSUME NEW b \in Text, NEW w \in Text, NEW due, PacketsLeft(b \o w, due)
  PROVE  Handled(Drained(b), w, due)
<1> DEFINE N == Len(b)
           f == Drain(b)
           Goes(at) == \A d : PacketsLeft(Drop(b, at) \o w, d) => Handled(f[at], w, d)
           S == {m \in Nat : \A at \in 0..N : N - at = m => Goes(at)}
<1>1. N \in Nat
  BY DEF Text
<1>2. \A at \in 0..N : f[at] = DrainNext(b, f, at)
  BY DrainGoesOn
<1>3. Drained(b) = f[0]
  BY Zenon DEF Drained, Drain, DrainNext
<1> HIDE DEF f
<1>4. ASSUME NEW m \in Nat, \A k \in 0..m - 1 : k \in S PROVE m \in S
  <2> SUFFICES ASSUME NEW at \in 0..N, N - at = m, NEW d, PacketsLeft(Drop(b, at) \o w, d)
               PROVE  Handled(f[at], w, d)
    OBVIOUS
  <2> DEFINE c == Drop(b, at)
             p == try_parse_packet(c)
  <2>1. c \in Text /\ Len(c) = m
    <3>1. c \in Text /\ Len(c) = N - at
      <4>1. at \in Nat /\ at <= Len(b)
        BY <1>1
      <4>2. c \in Text /\ Len(c) = IF at <= Len(b) THEN Len(b) - at ELSE 0
        BY <4>1, DropIsText
      <4> HIDE DEF c
      <4> QED BY <4>1, <4>2
    <3>2. N - at = m
      OBVIOUS
    <3> HIDE DEF c, N
    <3> QED BY <3>1, <3>2
  <2>2. ASSUME NEW n \in 1..Len(c) PROVE /\ at + n \in 0..N /\ Goes(at + n)
                                         /\ Drop(c, n) = Drop(b, at + n)
    <3>1. at + n \in 0..N /\ N - (at + n) \in 0..m - 1 /\ n \in 0..Len(b) - at
      BY <1>1, <2>1
    <3>2. Drop(c, n) = Drop(b, at + n)
      BY <3>1, DropDrop DEF Text
    <3>3. N - (at + n) \in S
      <4> DEFINE j == N - (at + n)
      <4>1. j \in 0..m - 1
        BY <3>1
      <4> HIDE DEF j, S
      <4>2. j \in S
        BY <1>4, <4>1
      <4> QED BY <4>2 DEF j
    <3>4. Goes(at + n)
      <4> DEFINE e == at + n
      <4>1. e \in 0..N /\ N - e \in S
        BY <3>1, <3>3
      <4> HIDE DEF e, N, Goes
      <4>2. Goes(e)
        BY <4>1
      <4> QED BY <4>2 DEF e
    <3> QED BY <3>1, <3>2, <3>4
  <2>3. f[at] = IF c = <<>> \/ p.outcome \in {"more", "raises"}
                  THEN [packets |-> <<>>, rest |-> c, alive |-> c = <<>> \/ p.outcome = "more"]
                ELSE IF p.outcome = "skip" THEN f[at + p.used]
                ELSE [f[at + p.used] EXCEPT !.packets = <<p.packet>> \o @]
    BY <1>2, Zenon DEF DrainNext
  <2>4. PacketsLeft(c \o w, d)
    OBVIOUS
  <2>5. CASE c = <<>>
    <3>1. f[at] = [packets |-> <<>>, rest |-> c, alive |-> TRUE]
      <4> HIDE DEF c, p
      <4> QED BY <2>3, <2>5
    <3>2. w = <<>> => d = <<>>
      <4>1. <<>> \o w = w
        BY ConcatEmptySeq DEF Text
      <4>2. PacketsLeft(w, d)
        <5> HIDE DEF c
        <5> QED BY <2>4, <2>5, <4>1, Zenon
      <4> QED BY <4>2, NothingLeft
    <3> HIDE DEF c
    <3> QED BY <2>1, <2>4, <3>1, <3>2, HandledNone
  <2>6. CASE c # <<>>
    <3>1. Parsed(c, w, d)
      <4> HIDE DEF c
      <4> QED BY <2>1, <2>4, <2>6, ParsedIs
    <3>2. \/ p = More /\ (w = <<>> => d = <<>>)
          \/ \E n \in 1..Len(c) : p = Skip(n) /\ PacketsLeft(Drop(c, n) \o w, d)
          \/ \E n \in 1..Len(c), packet \in Packets, later \in Seq(Packets) :
               /\ p = [outcome |-> "packet", used |-> n, packet |-> packet]
               /\ d = <<packet>> \o later /\ PacketsLeft(Drop(c, n) \o w, later)
      <4> HIDE DEF c
      <4> QED BY <3>1 DEF Parsed
    <3> HIDE DEF c, p, Goes
    <3>3. CASE p = More /\ (w = <<>> => d = <<>>)
      <4>1. f[at] = [packets |-> <<>>, rest |-> c, alive |-> TRUE]
        BY <2>3, <3>3 DEF More
      <4> QED BY <2>1, <2>4, <3>3, <4>1, HandledNone
    <3>4. CASE \E n \in 1..Len(c) : p = Skip(n) /\ PacketsLeft(Drop(c, n) \o w, d)
      <4>1. PICK n \in 1..Len(c) : p = Skip(n) /\ PacketsLeft(Drop(c, n) \o w, d)
        BY <3>4
      <4>2. f[at] = f[at + n]
        BY <2>3, <2>6, <4>1 DEF Skip
      <4>3. Goes(at + n) /\ Drop(c, n) = Drop(b, at + n)
        BY <2>2
      <4>4. Handled(f[at + n], w, d)
        BY <4>1, <4>3 DEF Goes
      <4> QED BY <4>2, <4>4
    <3>5. CASE \E n \in 1..Len(c), packet \in Packets, later \in Seq(Packets) :
                 /\ p = [outcome |-> "packet", used |-> n, packet |-> packet]
                 /\ d = <<packet>> \o later /\ PacketsLeft(Drop(c, n) \o w, later)
      <4>1. PICK n \in 1..Len(c), packet \in Packets, later \in Seq(Packets) :
                 /\ p = [outcome |-> "packet", used |-> n, packet |-> packet]
                 /\ d = <<packet>> \o later /\ PacketsLeft(Drop(c, n) \o w, later)
        BY <3>5
      <4> DEFINE one == <<packet>>
                 r == f[at + n]
      <4>2. f[at] = [r EXCEPT !.packets = one \o @]
        <5>1. p.outcome = "packet" /\ p.used = n /\ p.packet = packet
          BY <4>1
        <5>2. p.outcome \notin {"more", "raises"} /\ p.outcome # "skip"
          BY <5>1
        <5> QED BY <2>3, <2>6, <5>1, <5>2, Zenon
      <4>3. Goes(at + n) /\ Drop(c, n) = Drop(b, at + n)
        BY <2>2
      <4>4. Handled(r, w, later)
        BY <4>1, <4>3 DEF Goes
      <4> HIDE DEF r
      <4>5. Handled([r EXCEPT !.packets = one \o @], w, one \o later)
        BY <4>4, HandledFirst
      <4> QED BY <4>1, <4>2, <4>5, Zenon
    <3> QED BY <3>2, <3>3, <3>4, <3>5
  <2> QED BY <2>5, <2>6
<1>5. Nat \subseteq S
  <2> HIDE DEF S
  <2> QED BY <1>4, Induction
<1>6. Goes(0)
  <2> HIDE DEF Goes, N
  <2>1. N \in S
    <3> HIDE DEF S
    <3> QED BY <1>1, <1>5
  <2>2. 0 \in 0..N /\ N - 0 = N
    BY <1>1
  <2> QED BY <2>1, <2>2
<1>7. Drop(b, 0) = b
  <2>1. SubSeq(b, 1, Len(b)) = b
    BY SubSeqFull DEF Text
  <2>2. 0 + 1 = 1
    OBVIOUS
  <2> QED BY <2>1, <2>2, Zenon DEF Drop
<1>8. Handled(f[0], w, due)
  BY <1>6, <1>7, Zenon
<1> QED BY <1>3, <1>8, Zenon

-----------------------------------------------------------------------------
(***************************************************************************)
(* What is sent joins what is left.                                        *)
(***************************************************************************)
LEMMA GapsJoin == ASSUME NEW r, Gap(r), NEW t, Gap(t) PROVE Gap(r \o t)
<1>1. /\ r \in Text /\ t \in Text /\ Len(r) \in Nat /\ Len(t) \in Nat
      /\ \A i \in 1..Len(r) : r[i] # 85
      /\ \A i \in 1..Len(t) : t[i] # 85
  BY DEF Gap, Text
<1> DEFINE j == r \o t
<1>2. /\ j \in Text /\ Len(j) = Len(r) + Len(t)
      /\ \A i \in 1..Len(r) + Len(t) : j[i] = IF i <= Len(r) THEN r[i] ELSE t[i - Len(r)]
  BY <1>1, Joined
<1> HIDE DEF j
<1>3. ASSUME NEW i \in 1..Len(j) PROVE j[i] # 85
  <2>1. CASE i <= Len(r)
    <3>1. i \in 1..Len(r) + Len(t) /\ i \in 1..Len(r)
      BY <1>1, <1>2, <2>1
    <3> QED BY <1>1, <1>2, <2>1, <3>1
  <2>2. CASE ~(i <= Len(r))
    <3>1. i \in 1..Len(r) + Len(t) /\ i - Len(r) \in 1..Len(t)
      BY <1>1, <1>2, <2>2
    <3>2. j[i] = t[i - Len(r)]
      BY <1>2, <2>2, <3>1
    <3> QED BY <1>1, <3>1, <3>2
  <2> QED BY <2>1, <2>2
<1>4. Gap(j)
  BY <1>2, <1>3 DEF Gap
<1> QED BY <1>4 DEF j

LEMMA EmptyGap == Gap(<<>>)
<1> DEFINE e == <<>>
<1>1. e \in Text /\ Len(e) = 0
  BY ShortIsText
<1> HIDE DEF e
<1>2. Gap(e)
  BY <1>1 DEF Gap
<1> QED BY <1>2 DEF e

LEMMA ChunkGrows == ASSUME NEW x, NEW p, Chunk(x, p), NEW t, Gap(t) PROVE Chunk(x \o t, p)
<1>1. PICK c, first, head, tail : /\ Placed(head, c, first) /\ ContentOf(c, p) /\ Gap(tail)
                                  /\ x = head \o tail
  BY DEF Chunk
<1>2. head \in Seq(Nat) /\ tail \in Seq(Nat) /\ t \in Seq(Nat)
  BY <1>1 DEF Placed, Gap, Text
<1>3. Regroups(head, tail, t)
  BY <1>2, Regroup, Zenon
<1> DEFINE more == tail \o t
           y == x \o t
<1>4. Gap(more)
  BY <1>1, GapsJoin
<1>5. y = head \o more
  BY <1>1, <1>3, Zenon DEF Regroups
<1> HIDE DEF more, y
<1>6. Chunk(y, p)
  BY <1>1, <1>4, <1>5 DEF Chunk
<1> QED BY <1>6 DEF y

LEMMA ChunksAppend ==
  ASSUME NEW bs, NEW due, Chunks(bs, due), NEW x, NEW p, Chunk(x, p)
  PROVE  Chunks(Append(bs, x), Append(due, p))
<1> DEFINE a == Append(bs, x)
           d == Append(due, p)
           n == Len(bs)
<1>1. /\ bs \in Seq(Text) /\ due \in Seq(Packets) /\ Len(due) = n /\ n \in Nat
      /\ \A k \in 1..n : Chunk(bs[k], due[k])
  BY LenProperties DEF Chunks
<1>2. x \in Text /\ p \in Packets
  BY ChunkIs
<1>3. a \in Seq(Text) /\ Len(a) = n + 1 /\ (\A i \in 1..n : a[i] = bs[i]) /\ a[n + 1] = x
  BY <1>1, <1>2, AppendProperties
<1>4. d \in Seq(Packets) /\ Len(d) = n + 1 /\ (\A i \in 1..n : d[i] = due[i]) /\ d[n + 1] = p
  BY <1>1, <1>2, AppendProperties
<1> HIDE DEF a, d, n
<1>5. ASSUME NEW k \in 1..Len(a) PROVE Chunk(a[k], d[k])
  <2>1. CASE k \in 1..n
    <3>1. a[k] = bs[k] /\ d[k] = due[k]
      BY <1>3, <1>4, <2>1
    <3> QED BY <1>1, <2>1, <3>1, Zenon
  <2>2. CASE k = n + 1
    <3>1. a[k] = x /\ d[k] = p
      BY <1>3, <1>4, <2>2
    <3> QED BY <3>1, Zenon
  <2>3. k \in 1..n \/ k = n + 1
    BY <1>1, <1>3
  <2> QED BY <2>1, <2>2, <2>3
<1>6. Chunks(a, d)
  BY <1>3, <1>4, <1>5 DEF Chunks
<1> QED BY <1>6 DEF a, d

LEMMA PacketJoins ==
  ASSUME NEW rest, NEW due, PacketsLeft(rest, due), NEW x, NEW p, Chunk(x, p)
  PROVE  PacketsLeft(rest \o x, due \o <<p>>)
<1>1. PICK r, bs : LeftBy(r, bs, due, rest)
  BY DEF PacketsLeft
<1> DEFINE f == FlattenSeq(bs)
<1>2. Gap(r) /\ Chunks(bs, due) /\ rest = r \o f
  BY <1>1 DEF LeftBy
<1>3. r \in Seq(Nat) /\ bs \in Seq(Seq(Nat)) /\ due \in Seq(Packets) /\ x \in Seq(Nat) /\ p \in Packets
  BY <1>2, ChunkIs DEF Gap, Chunks, Text
<1>4. f \in Seq(Nat) /\ FlattenSeq(Append(bs, x)) = f \o x
  BY <1>3, FlattenIs, FlattenAppend
<1> HIDE DEF f
<1>5. rest \o x = r \o FlattenSeq(Append(bs, x))
  <2>1. Regroups(r, f, x)
    BY <1>3, <1>4, Regroup, Zenon
  <2> QED BY <1>2, <1>4, <2>1, Zenon DEF Regroups
<1>6. Append(due, p) = due \o <<p>>
  BY <1>3, AppendIsConcat
<1>7. Chunks(Append(bs, x), Append(due, p))
  BY <1>2, ChunksAppend
<1>8. Chunks(Append(bs, x), due \o <<p>>)
  BY <1>6, <1>7, Zenon
<1>9. LeftBy(r, Append(bs, x), due \o <<p>>, rest \o x)
  BY <1>2, <1>5, <1>8, Zenon DEF LeftBy
<1> QED BY <1>9, Zenon DEF PacketsLeft

LEMMA NoiseJoins ==
  ASSUME NEW rest, NEW due, PacketsLeft(rest, due), NEW t, Gap(t)
  PROVE  PacketsLeft(rest \o t, due)
<1>1. PICK r, bs : LeftBy(r, bs, due, rest)
  BY DEF PacketsLeft
<1>2. Gap(r) /\ Chunks(bs, due) /\ rest = r \o FlattenSeq(bs)
  BY <1>1 DEF LeftBy
<1>3. /\ r \in Seq(Nat) /\ bs \in Seq(Text) /\ due \in Seq(Packets) /\ t \in Seq(Nat)
      /\ Len(bs) = Len(due)
  BY <1>2 DEF Gap, Chunks, Text
<1>4. CASE bs = <<>>
  <2>1. FlattenSeq(bs) = <<>>
    BY <1>3, <1>4, FlattenIs DEF Text
  <2>2. rest = r
    BY <1>2, <1>3, <2>1, ConcatEmptySeq
  <2> DEFINE j == r \o t
  <2>3. Gap(j)
    BY <1>2, GapsJoin
  <2>4. j = j \o FlattenSeq(bs)
    <3>1. j \in Seq(Nat)
      BY <2>3 DEF Gap, Text
    <3> HIDE DEF j
    <3> QED BY <2>1, <3>1, ConcatEmptySeq
  <2>5. j = rest \o t
    BY <2>2
  <2> HIDE DEF j
  <2>6. LeftBy(j, bs, due, rest \o t)
    BY <1>2, <2>3, <2>4, <2>5, Zenon DEF LeftBy
  <2> QED BY <2>6, Zenon DEF PacketsLeft
<1>5. CASE bs # <<>>
  <2>1. PICK v \in Seq(Text), x \in Text : bs = Append(v, x)
    BY <1>3, <1>5, SequenceEmptyOrAppend
  <2>2. Len(due) \in Nat \ {0}
    BY <1>3, <1>5, EmptySeq
  <2>3. due # <<>>
    BY <2>2, EmptySeq
  <2>4. PICK d \in Seq(Packets), p \in Packets : due = Append(d, p)
    BY <1>3, <2>3, SequenceEmptyOrAppend
  <2> DEFINE n == Len(v)
  <2>5. /\ n \in Nat /\ Len(bs) = n + 1 /\ bs[n + 1] = x
        /\ \A i \in 1..n : bs[i] = v[i]
    BY <2>1, AppendProperties, LenProperties
  <2>6. /\ Len(d) = n /\ due[n + 1] = p
        /\ \A i \in 1..n : due[i] = d[i]
    <3>1. /\ Len(due) = Len(d) + 1 /\ due[Len(d) + 1] = p /\ Len(d) \in Nat
          /\ \A i \in 1..Len(d) : due[i] = d[i]
      BY <2>4, AppendProperties, LenProperties
    <3>2. Len(d) = n
      <4> DEFINE l == Len(d)
      <4>1. l \in Nat /\ n \in Nat /\ l + 1 = n + 1
        <5> HIDE DEF n
        <5> QED BY <1>3, <2>5, <3>1
      <4> HIDE DEF n, l
      <4>2. l = n
        BY <4>1
      <4> QED BY <4>2 DEF l
    <3> HIDE DEF n
    <3> QED BY <3>1, <3>2, Zenon
  <2> HIDE DEF n
  <2>7. Chunks(v, d) /\ Chunk(x, p)
    <3>1. \A k \in 1..Len(bs) : Chunk(bs[k], due[k])
      BY <1>2 DEF Chunks
    <3>2. n + 1 \in 1..Len(bs) /\ \A k \in 1..n : k \in 1..Len(bs)
      BY <2>5
    <3>3. Chunk(bs[n + 1], due[n + 1])
      BY <3>1, <3>2
    <3>4. Chunk(x, p)
      BY <2>5, <2>6, <3>3, Zenon
    <3>5. ASSUME NEW k \in 1..n PROVE Chunk(v[k], d[k])
      <4>1. Chunk(bs[k], due[k])
        BY <3>1, <3>2
      <4>2. bs[k] = v[k] /\ due[k] = d[k]
        BY <2>5, <2>6
      <4> QED BY <4>1, <4>2, Zenon
    <3>6. Len(v) = n
      BY DEF n
    <3> QED BY <2>1, <2>4, <2>6, <3>4, <3>5, <3>6 DEF Chunks
  <2> DEFINE y == x \o t
             f == FlattenSeq(v)
  <2>8. Chunk(y, p)
    BY <2>7, ChunkGrows
  <2>9. x \in Seq(Nat) /\ v \in Seq(Seq(Nat)) /\ y \in Seq(Nat)
    BY <2>1, <2>8, ChunkIs DEF Text
  <2>10. /\ f \in Seq(Nat) /\ FlattenSeq(bs) = f \o x /\ FlattenSeq(Append(v, y)) = f \o y
    <3> HIDE DEF y
    <3> QED BY <2>1, <2>9, FlattenIs, FlattenAppend
  <2> HIDE DEF f
  <2>11. rest \o t = r \o FlattenSeq(Append(v, y))
    <3> DEFINE g == f \o x
    <3>1. g \in Seq(Nat)
      BY <2>9, <2>10, ConcatProperties
    <3> HIDE DEF g
    <3>2. Regroups(r, g, t)
      BY <1>3, <3>1, Regroup, Zenon
    <3>3. Regroups(f, x, t)
      BY <1>3, <2>9, <2>10, Regroup, Zenon
    <3>4. rest = r \o g
      BY <1>2, <2>10 DEF g
    <3>5. g \o t = f \o y
      BY <3>3 DEF Regroups, g
    <3> HIDE DEF y
    <3> QED BY <2>10, <3>2, <3>4, <3>5, Zenon DEF Regroups
  <2> HIDE DEF y
  <2>12. Chunks(Append(v, y), due)
    <3>1. Chunks(Append(v, y), Append(d, p))
      BY <2>7, <2>8, ChunksAppend
    <3> QED BY <2>4, <3>1, Zenon
  <2>13. LeftBy(r, Append(v, y), due, rest \o t)
    BY <1>2, <2>11, <2>12, Zenon DEF LeftBy
  <2> QED BY <2>13, Zenon DEF PacketsLeft
<1> QED BY <1>4, <1>5

LEMMA ItemJoins ==
  ASSUME NEW rest, NEW due, PacketsLeft(rest, due),
         NEW item, IsPacketItem(item) \/ IsNoiseItem(item)
  PROVE  /\ PacketsLeft(rest \o item.bytes, due \o item.means)
         /\ item.bytes \in Text /\ item.means \in Seq(Packets)
         /\ item.bytes = <<>> => item.means = <<>>
<1> DEFINE x == item.bytes
           m == item.means
<1>1. CASE IsPacketItem(item)
  <2>1. PICK p, c, first : Carries(item, p, c, first)
    BY <1>1, PacketItemIs
  <2>2. m = <<p>> /\ ContentOf(c, p) /\ Placed(x, c, first)
    BY <2>1 DEF Carries
  <2> HIDE DEF x, m
  <2>3. Chunk(x, p)
    <3> DEFINE e == <<>>
    <3>1. Gap(e)
      BY EmptyGap
    <3>2. x = x \o e
      <4>1. x \in Seq(Nat)
        BY <2>2 DEF Placed, Text
      <4> QED BY <4>1, ConcatEmptySeq
    <3> HIDE DEF e
    <3> QED BY <2>2, <3>1, <3>2 DEF Chunk
  <2>4. x \in Text /\ p \in Packets /\ Len(x) > 0
    BY <2>3, ChunkIs
  <2>5. PacketsLeft(rest \o x, due \o m)
    BY <2>2, <2>3, PacketJoins
  <2>6. m \in Seq(Packets)
    BY <2>2, <2>4
  <2>7. x # <<>>
    <3> SUFFICES ASSUME x = <<>> PROVE FALSE
      OBVIOUS
    <3>1. Len(x) = 0
      OBVIOUS
    <3> QED BY <2>4, <3>1
  <2> QED BY <2>4, <2>5, <2>6, <2>7 DEF x, m
<1>2. CASE IsNoiseItem(item)
  <2>1. /\ x \in Seq(0..255) /\ m = <<>>
        /\ \A k \in DOMAIN x : x[k] # 85
    BY <1>2 DEF IsNoiseItem, SYNC_SHORT
  <2> HIDE DEF x, m
  <2>2. x \in Text /\ DOMAIN x = 1..Len(x)
    <3>1. x \in Text
      BY <2>1, BytesAreText
    <3> QED BY <3>1, LenProperties DEF Text
  <2>3. Gap(x)
    BY <2>1, <2>2 DEF Gap
  <2>4. PacketsLeft(rest \o x, due)
    BY <2>3, NoiseJoins
  <2>5. due \o m = due /\ m \in Seq(Packets)
    BY <2>1, LeftIsTyped, ConcatEmptySeq, EmptySeq
  <2>6. PacketsLeft(rest \o x, due \o m)
    BY <2>4, <2>5, Zenon
  <2> QED BY <2>1, <2>2, <2>5, <2>6 DEF x, m
<1> QED BY <1>1, <1>2

-----------------------------------------------------------------------------
(***************************************************************************)
(* Lines, and what they are answered with.                                 *)
(***************************************************************************)
Symbols == Seq(STRING)
Replies == {"OK"} \union {<<"info", command>> : command \in CommandsWithInfo}

LEMMA AnswerIsTyped == ASSUME NEW line PROVE handle_at_command(line) \in Seq(Replies)
<1> DEFINE stripped == SelectSeq(line, LAMBDA symbol : symbol # LF)
           c == stripped[1]
           ok == <<"OK">>
           info == IF c \in CommandsWithInfo THEN <<<<"info", c>>>> ELSE <<>>
<1>1. <<>> \in Seq(Replies)
  BY EmptySeq
<1>2. ok \in Seq(Replies)
  BY DEF Replies
<1>3. info \in Seq(Replies)
  <2>1. CASE c \in CommandsWithInfo
    <3> DEFINE reply == <<"info", c>>
    <3>1. reply \in Replies
      BY <2>1 DEF Replies
    <3> HIDE DEF reply
    <3>2. <<reply>> \in Seq(Replies)
      BY <3>1
    <3>3. info = <<reply>>
      BY <2>1 DEF reply
    <3> QED BY <3>2, <3>3, Zenon
  <2>2. CASE c \notin CommandsWithInfo
    BY <1>1, <2>2
  <2> QED BY <2>1, <2>2
<1> HIDE DEF info, ok
<1>4. info \o ok \in Seq(Replies)
  BY <1>2, <1>3, ConcatProperties
<1>5. handle_at_command(line) = IF stripped = <<>> THEN <<>> ELSE info \o ok
  BY Zenon DEF handle_at_command, info, ok
<1> HIDE DEF stripped
<1> QED BY <1>1, <1>4, <1>5

Line(x) == x \in Symbols /\ x # <<>> /\ \A k \in 1..Len(x) : x[k] = CR <=> k = Len(x)
Lines(bs) == bs \in Seq(Symbols) /\ \A k \in 1..Len(bs) : Line(bs[k])
Answer(x) == handle_at_command(Front(x))
Answers(bs) == [k \in 1..Len(bs) |-> Answer(bs[k])]

LinesBy(bs, due, rest) ==
  Lines(bs) /\ rest = FlattenSeq(bs) /\ due = FlattenSeq(Answers(bs))

LinesLeft(rest, due) == \E bs : LinesBy(bs, due, rest)

LEMMA AnswersAre ==
  ASSUME NEW bs \in Seq(Symbols)
  PROVE  Answers(bs) \in Seq(Seq(Replies)) /\ Len(Answers(bs)) = Len(bs)
<1> DEFINE n == Len(bs)
           V == Seq(Replies)
           a == Answers(bs)
<1>1. n \in Nat
  BY LenProperties
<1>2. a = [k \in 1..n |-> Answer(bs[k])]
  BY DEF Answers
<1>3. \A k \in 1..n : Answer(bs[k]) \in V
  BY AnswerIsTyped DEF Answer
<1> HIDE DEF V, n, a
<1>4. a \in [1..n -> V]
  BY <1>2, <1>3
<1>5. a \in Seq(V) /\ Len(a) = n
  BY <1>1, <1>4
<1> QED BY <1>5 DEF V, n, a

LEMMA LinesTail ==
  ASSUME NEW bs, Lines(bs), bs # <<>>
  PROVE  /\ Line(bs[1]) /\ Lines(Tail(bs))
         /\ Answers(bs) # <<>> /\ Answers(bs)[1] = Answer(bs[1])
         /\ Tail(Answers(bs)) = Answers(Tail(bs))
<1> DEFINE a == Answers(bs)
           t == Tail(bs)
           n == Len(bs)
<1>1. bs \in Seq(Symbols) /\ n \in Nat \ {0} /\ \A k \in 1..n : Line(bs[k])
  BY EmptySeq DEF Lines
<1>2. t \in Seq(Symbols) /\ Len(t) = n - 1 /\ \A i \in 1..Len(t) : t[i] = bs[i + 1]
  BY <1>1, HeadTailProperties
<1>3. a \in Seq(Seq(Replies)) /\ Len(a) = n
  BY <1>1, AnswersAre
<1>4. \A k \in 1..n : a[k] = Answer(bs[k])
  <2>1. a = [k \in 1..n |-> Answer(bs[k])]
    BY Zenon DEF Answers
  <2> HIDE DEF a, n
  <2> QED BY <2>1
<1>5. Answers(t) \in Seq(Seq(Replies)) /\ Len(Answers(t)) = n - 1
  BY <1>2, AnswersAre
<1>6. \A k \in 1..Len(t) : Answers(t)[k] = Answer(t[k])
  BY DEF Answers
<1> HIDE DEF a, t, n
<1>7. a # <<>>
  BY <1>1, <1>3
<1>8. /\ Tail(a) \in Seq(Seq(Replies)) /\ Len(Tail(a)) = n - 1
      /\ \A i \in 1..Len(Tail(a)) : Tail(a)[i] = a[i + 1]
  BY <1>1, <1>3, <1>7, HeadTailProperties
<1>9. ASSUME NEW i \in 1..n - 1 PROVE Tail(a)[i] = Answers(t)[i]
  <2>1. i \in 1..Len(t) /\ i \in 1..Len(Tail(a)) /\ i + 1 \in 1..n
    BY <1>1, <1>2, <1>8
  <2>2. Answers(t)[i] = Answer(t[i]) /\ t[i] = bs[i + 1]
    BY <1>2, <1>6, <2>1
  <2>3. Tail(a)[i] = a[i + 1] /\ a[i + 1] = Answer(bs[i + 1])
    BY <1>4, <1>8, <2>1
  <2> QED BY <2>2, <2>3, Zenon
<1>10. Tail(a) = Answers(t)
  BY <1>5, <1>8, <1>9, SeqEqual
<1>11. Lines(t)
  <2>1. \A i \in 1..Len(t) : i + 1 \in 1..n
    BY <1>1, <1>2
  <2> QED BY <1>1, <1>2, <2>1 DEF Lines
<1>12. Line(bs[1]) /\ a[1] = Answer(bs[1])
  <2>1. 1 \in 1..n
    BY <1>1
  <2> QED BY <1>1, <1>4, <2>1
<1> QED BY <1>7, <1>10, <1>11, <1>12 DEF a, t

\* The first line and what is left behind it.
LineThen(rest, due, x, f, later) ==
  /\ Line(x) /\ f \in Symbols /\ later \in Seq(Replies)
  /\ rest = x \o f /\ due = Answer(x) \o later /\ LinesLeft(f, later)

LEMMA FirstLine ==
  ASSUME NEW bs, NEW due, NEW rest, LinesBy(bs, due, rest), bs # <<>>
  PROVE  \E x, f, later : LineThen(rest, due, x, f, later)
<1> DEFINE x == bs[1]
           t == Tail(bs)
           a == Answers(bs)
           f == FlattenSeq(t)
           later == FlattenSeq(Answers(t))
<1>1. Lines(bs) /\ rest = FlattenSeq(bs) /\ due = FlattenSeq(a)
  BY DEF LinesBy
<1>2. Line(x) /\ Lines(t) /\ a # <<>> /\ a[1] = Answer(x) /\ Tail(a) = Answers(t)
  BY <1>1, LinesTail
<1>3. /\ bs \in Seq(Seq(STRING)) /\ t \in Seq(Seq(STRING))
      /\ a \in Seq(Seq(Replies)) /\ Answers(t) \in Seq(Seq(Replies))
  BY <1>1, <1>2, AnswersAre DEF Lines, Symbols
<1>4. f \in Symbols /\ later \in Seq(Replies)
  BY <1>3, FlattenIs DEF Symbols
<1>5. rest = x \o f
  BY <1>1, <1>3, FlattenTail
<1>6. due = Answer(x) \o later
  <2> HIDE DEF a
  <2>1. due = a[1] \o FlattenSeq(Tail(a))
    BY <1>1, <1>2, <1>3, FlattenTail
  <2> QED BY <1>2, <2>1
<1>7. LinesLeft(f, later)
  <2>1. LinesBy(t, later, f)
    BY <1>2 DEF LinesBy
  <2> QED BY <2>1 DEF LinesLeft
<1> HIDE DEF x, f, later
<1>8. LineThen(rest, due, x, f, later)
  BY <1>2, <1>4, <1>5, <1>6, <1>7 DEF LineThen
<1> QED BY <1>8

LEMMA NoLineLeft ==
  ASSUME NEW bs, NEW due, NEW rest, LinesBy(bs, due, rest), bs = <<>>
  PROVE  rest = <<>> /\ due = <<>>
<1>1. rest = FlattenSeq(bs) /\ due = FlattenSeq(Answers(bs))
  BY DEF LinesBy
<1>2. FlattenSeq(bs) = <<>>
  BY EmptySeq, FlattenIs
<1> DEFINE a == Answers(bs)
<1>3. a \in Seq(Seq(Replies)) /\ Len(a) = Len(bs)
  BY AnswersAre, EmptySeq
<1>4. Len(bs) = 0
  OBVIOUS
<1> HIDE DEF a
<1>5. a = <<>>
  BY <1>3, <1>4, EmptySeq
<1>6. FlattenSeq(a) = <<>>
  BY <1>3, <1>5, FlattenIs
<1> QED BY <1>1, <1>2, <1>6 DEF a

LEMMA LinesAreTyped ==
  ASSUME NEW rest, NEW due, LinesLeft(rest, due) PROVE due \in Seq(Replies)
<1>1. PICK bs : LinesBy(bs, due, rest)
  BY DEF LinesLeft
<1>2. Answers(bs) \in Seq(Seq(Replies)) /\ due = FlattenSeq(Answers(bs))
  BY <1>1, AnswersAre DEF LinesBy, Lines
<1> QED BY <1>2, FlattenIs

LEMMA LineJoins ==
  ASSUME NEW rest, NEW due, LinesLeft(rest, due), NEW item, IsLineItem(item)
  PROVE  /\ LinesLeft(rest \o item.bytes, due \o item.means)
         /\ item.bytes \in Symbols /\ item.means \in Seq(Replies) /\ item.bytes # <<>>
<1> DEFINE x == item.bytes
           m == item.means
<1>1. Line(x) /\ m = Answer(x)
  <2>1. /\ x \in Symbols /\ x # <<>> /\ m = Answer(x)
        /\ \A k \in DOMAIN x : x[k] = CR <=> k = Len(x)
    BY DEF IsLineItem, Symbols, Answer
  <2> HIDE DEF x
  <2>2. DOMAIN x = 1..Len(x)
    BY <2>1, LenProperties DEF Symbols
  <2> QED BY <2>1, <2>2 DEF Line
<1>2. m \in Seq(Replies) /\ x \in Symbols /\ x # <<>>
  BY <1>1, AnswerIsTyped DEF Answer, Line
<1> HIDE DEF x, m
<1>3. PICK bs : LinesBy(bs, due, rest)
  BY DEF LinesLeft
<1> DEFINE b == Append(bs, x)
           a == Answers(bs)
           n == Len(bs)
<1>4. /\ bs \in Seq(Symbols) /\ n \in Nat /\ (\A k \in 1..n : Line(bs[k]))
      /\ rest = FlattenSeq(bs) /\ due = FlattenSeq(a)
  BY <1>3, LenProperties DEF LinesBy, Lines
<1>5. a \in Seq(Seq(Replies)) /\ Len(a) = n
  BY <1>4, AnswersAre
<1>6. \A k \in 1..n : a[k] = Answer(bs[k])
  BY DEF Answers
<1>7. b \in Seq(Symbols) /\ Len(b) = n + 1 /\ (\A i \in 1..n : b[i] = bs[i]) /\ b[n + 1] = x
  BY <1>2, <1>4, AppendProperties
<1>8. Answers(b) \in Seq(Seq(Replies)) /\ Len(Answers(b)) = n + 1
  BY <1>7, AnswersAre
<1>9. \A k \in 1..Len(b) : Answers(b)[k] = Answer(b[k])
  BY DEF Answers
<1> HIDE DEF a, b, n
<1> DEFINE c == Append(a, m)
<1>10. c \in Seq(Seq(Replies)) /\ Len(c) = n + 1 /\ (\A i \in 1..n : c[i] = a[i]) /\ c[n + 1] = m
  BY <1>2, <1>5, AppendProperties
<1> HIDE DEF c
<1>11. ASSUME NEW k \in 1..n + 1 PROVE Answers(b)[k] = c[k] /\ Line(b[k])
  <2>1. Answers(b)[k] = Answer(b[k])
    BY <1>7, <1>9
  <2>2. CASE k \in 1..n
    <3>1. b[k] = bs[k] /\ c[k] = a[k] /\ a[k] = Answer(bs[k]) /\ Line(bs[k])
      BY <1>4, <1>6, <1>7, <1>10, <2>2
    <3> QED BY <2>1, <3>1, Zenon
  <2>3. CASE k = n + 1
    <3>1. b[k] = x /\ c[k] = m
      BY <1>7, <1>10, <2>3
    <3> QED BY <1>1, <2>1, <3>1, Zenon
  <2>4. k \in 1..n \/ k = n + 1
    BY <1>4
  <2> QED BY <2>2, <2>3, <2>4
<1>12. Answers(b) = c
  BY <1>8, <1>10, <1>11, SeqEqual
<1>13. Lines(b)
  BY <1>7, <1>11 DEF Lines
<1>14. FlattenSeq(b) = rest \o x /\ FlattenSeq(c) = due \o m
  <2>1. bs \in Seq(Seq(STRING)) /\ x \in Seq(STRING)
    BY <1>2, <1>4 DEF Symbols
  <2>2. FlattenSeq(b) = rest \o x
    BY <1>4, <2>1, FlattenAppend DEF b
  <2>3. FlattenSeq(c) = due \o m
    BY <1>2, <1>4, <1>5, FlattenAppend DEF c
  <2> QED BY <2>2, <2>3
<1>15. LinesBy(b, due \o m, rest \o x)
  BY <1>12, <1>13, <1>14 DEF LinesBy
<1>16. LinesLeft(rest \o x, due \o m)
  BY <1>15 DEF LinesLeft
<1> QED BY <1>2, <1>16 DEF x, m

-----------------------------------------------------------------------------
(***************************************************************************)
(* The loop over the lines.                                                *)
(***************************************************************************)
LEMMA PartOfDrop ==
  ASSUME NEW S, NEW s \in Seq(S), NEW at \in 0..Len(s), NEW e \in 1..Len(s) - at
  PROVE  SubSeq(s, at + 1, at + e - 1) = SubSeq(Drop(s, at), 1, e - 1)
<1> DEFINE i == at + 1
           j == Len(s)
           n == e - 1
           d == SubSeq(s, i, j)
<1>1. j \in Nat
  BY LenProperties
<1>2. Drop(s, at) = d
  BY DEF Drop
<1>3. i + 1 - 1 = i /\ i + n - 1 = at + e - 1
  BY <1>1
<1>4. SubSeq(d, 1, n) = SubSeq(s, i, at + e - 1)
  <2>1. CASE e = 1
    <3>1. n = 0 /\ at + e - 1 = at
      BY <2>1
    <3> HIDE DEF d, n
    <3>2. SubSeq(d, 1, n) = <<>>
      BY <3>1, SubSeqEmpty
    <3>3. SubSeq(s, i, at + e - 1) = <<>>
      BY <3>1, SubSeqEmpty
    <3> QED BY <3>2, <3>3
  <2>2. CASE e # 1
    <3>1. i \in 1..j /\ j \in 1..j /\ 1 \in 1..j - i + 1 /\ n \in 1..j - i + 1
      BY <1>1, <2>2
    <3> HIDE DEF i, n, j
    <3>2. i \in 1..Len(s) /\ j \in 1..Len(s)
      BY <3>1 DEF j
    <3>3. SubSeq(SubSeq(s, i, j), 1, n) = SubSeq(s, i + 1 - 1, i + n - 1)
      BY <3>1, <3>2, SubSeqOfSubSeq
    <3> QED BY <1>3, <3>3, Zenon
  <2> QED BY <2>1, <2>2
<1> HIDE DEF d
<1>5. SubSeq(d, 1, e - 1) = SubSeq(s, at + 1, at + e - 1)
  BY <1>4
<1> QED BY <1>2, <1>5, Zenon

\* Where the first line of what is left ends.
EndsAt(b, w, x, f, e) ==
  /\ e = 0 => w # <<>>
  /\ e # 0 => e \in 1..Len(b) /\ SubSeq(b, 1, e - 1) = Front(x) /\ Drop(b, e) \o w = f

LEMMA LineEnds ==
  ASSUME NEW b \in Symbols, NEW w \in Symbols, NEW x, Line(x), NEW f \in Symbols,
         b \o w = x \o f, NEW e, e = Find(b, <<CR>>)
  PROVE  EndsAt(b, w, x, f, e)
<1> DEFINE m == Len(x)
           n == Len(b)
<1>1. /\ x \in Symbols /\ m \in Nat \ {0} /\ n \in Nat /\ Len(w) \in Nat /\ Len(f) \in Nat
      /\ \A k \in 1..m : x[k] = CR <=> k = m
  BY EmptySeq, LenProperties DEF Line, Symbols
<1>2. /\ n + Len(w) = m + Len(f)
      /\ \A i \in 1..n : i <= m => b[i] = x[i]
  <2>1. b \in Seq(STRING) /\ w \in Seq(STRING) /\ x \in Seq(STRING) /\ f \in Seq(STRING)
    BY <1>1 DEF Symbols
  <2> QED BY <2>1, Overlap
<1>3. /\ e \in 0..n
      /\ e = 0 => \A i \in 1..n : b[i] # CR
      /\ e # 0 => b[e] = CR /\ \A i \in 1..e - 1 : b[i] # CR
  BY FindOne DEF Symbols
<1> HIDE DEF m, n
<1>4. m <= n => b[m] = CR
  <2> SUFFICES ASSUME m <= n PROVE b[m] = CR
    OBVIOUS
  <2>1. m \in 1..n /\ m \in 1..m /\ m <= m
    BY <1>1
  <2> QED BY <1>1, <1>2, <2>1
<1>5. ASSUME e = 0 PROVE w # <<>>
  <2> SUFFICES ASSUME w = <<>> PROVE FALSE
    OBVIOUS
  <2>1. Len(w) = 0
    OBVIOUS
  <2>2. m <= n /\ m \in 1..n
    BY <1>1, <1>2, <2>1
  <2> QED BY <1>3, <1>4, <1>5, <2>2
<1>6. ASSUME e # 0 PROVE e = m /\ m <= n
  <2>1. e <= m
    <3> SUFFICES ASSUME ~(e <= m) PROVE FALSE
      OBVIOUS
    <3>1. m \in 1..e - 1 /\ m <= n
      BY <1>1, <1>3
    <3> QED BY <1>3, <1>4, <1>6, <3>1
  <2>2. e \in 1..m /\ e \in 1..n
    BY <1>1, <1>3, <1>6, <2>1
  <2>3. x[e] = CR
    BY <1>2, <1>3, <1>6, <2>1, <2>2
  <2> QED BY <1>1, <2>2, <2>3
<1>7. ASSUME e # 0 PROVE SubSeq(b, 1, e - 1) = Front(x)
  <2> DEFINE k == m - 1
             u == SubSeq(b, 1, k)
             v == SubSeq(x, 1, k)
  <2>1. k \in Int /\ 1 \in Int /\ k <= n /\ k <= m /\ e - 1 = k
    BY <1>1, <1>6, <1>7
  <2>2. \A i \in 1..k : b[i] \in STRING /\ x[i] \in STRING /\ b[i] = x[i]
    <3>1. \A i \in 1..k : i \in 1..n /\ i \in 1..m /\ i <= m
      BY <1>1, <2>1
    <3>2. \A i \in 1..n : b[i] \in STRING
      BY ElementOfSeq DEF Symbols, n
    <3>3. \A i \in 1..m : x[i] \in STRING
      BY <1>1, ElementOfSeq DEF Symbols, m
    <3> QED BY <1>2, <3>1, <3>2, <3>3
  <2> HIDE DEF k
  <2> DEFINE l == IF 1 <= k THEN k - 1 + 1 ELSE 0
  <2>3. /\ u \in Seq(STRING) /\ Len(u) = l
        /\ \A i \in 1..k - 1 + 1 : u[i] = b[1 + i - 1]
    BY <2>1, <2>2, SubSeqProperties
  <2>4. /\ v \in Seq(STRING) /\ Len(v) = l
        /\ \A i \in 1..k - 1 + 1 : v[i] = x[1 + i - 1]
    BY <2>1, <2>2, SubSeqProperties
  <2> HIDE DEF u, v
  <2>5. ASSUME NEW i \in 1..Len(u) PROVE u[i] = v[i]
    <3>1. i \in 1..k - 1 + 1 /\ 1 + i - 1 = i /\ i \in 1..k
      BY <2>1, <2>3
    <3>2. u[i] = b[1 + i - 1] /\ v[i] = x[1 + i - 1]
      BY <2>3, <2>4, <3>1
    <3> QED BY <2>2, <3>1, <3>2, Zenon
  <2>6. Len(u) = Len(v)
    BY <2>3, <2>4
  <2>7. u = v
    BY <2>3, <2>4, <2>5, <2>6, SeqEqual
  <2>8. Front(x) = v
    BY Zenon DEF Front, v, k, m
  <2> QED BY <2>1, <2>7, <2>8, Zenon DEF u
<1>8. ASSUME e # 0 PROVE Drop(b, e) \o w = f
  <2>1. e \in 0..n /\ e = Len(x)
    BY <1>1, <1>3, <1>6, <1>8 DEF m
  <2>2. Drop(b \o w, e) = Drop(b, e) \o w
    BY <2>1, DropJoin DEF n, Symbols
  <2>3. Drop(x \o f, Len(x)) = f
    BY <1>1, DropFirst DEF Symbols
  <2> QED BY <2>1, <2>2, <2>3, Zenon
<1>9. e # 0 => e \in 1..n
  BY <1>1, <1>3
<1> QED BY <1>5, <1>7, <1>8, <1>9 DEF EndsAt, n

AtNext(buffer, open, f, at) ==
  LET end == Find(Drop(buffer, at), <<CR>>)
  IN IF end = 0 THEN [packets |-> <<>>, rest |-> Drop(buffer, at), alive |-> TRUE]
     ELSE LET replied == AtReplies(SubSeq(buffer, at + 1, at + end - 1), open)
          IN IF ~replied.alive
               THEN [packets |-> <<>>, rest |-> Drop(buffer, at + end), alive |-> FALSE]
               ELSE [f[at + end] EXCEPT !.packets = replied.packets \o @]

AtDrain(buffer, open) ==
  CHOOSE f : f = [at \in 0..Len(buffer) |-> AtNext(buffer, open, f, at)]

LEMMA RepliesAre ==
  ASSUME NEW line, NEW open \in BOOLEAN
  PROVE  LET r == AtReplies(line, open)
         IN  /\ r.packets \in Seq(Replies) /\ r.alive \in BOOLEAN
             /\ r.alive => r.packets = handle_at_command(line)
             /\ open => r.alive
<1> DEFINE h == handle_at_command(line)
<1>1. h \in Seq(Replies) /\ <<>> \in Seq(Replies)
  BY AnswerIsTyped, EmptySeq
<1>2. AtReplies(line, open) = IF open \/ h = <<>> THEN [packets |-> h, alive |-> TRUE]
                              ELSE [packets |-> <<>>, alive |-> FALSE]
  BY DEF AtReplies
<1> DEFINE r == AtReplies(line, open)
<1> HIDE DEF h, r
<1>3. CASE open \/ h = <<>>
  <2>1. r = [packets |-> h, alive |-> TRUE]
    BY <1>2, <1>3 DEF r
  <2> QED BY <1>1, <2>1 DEF r, h
<1>4. CASE ~(open \/ h = <<>>)
  <2>1. r = [packets |-> <<>>, alive |-> FALSE]
    BY <1>2, <1>4 DEF r
  <2> QED BY <1>1, <1>4, <2>1 DEF r, h
<1> QED BY <1>3, <1>4

LEMMA AtGoesOn ==
  ASSUME NEW buffer \in Symbols, NEW open \in BOOLEAN
  PROVE  LET f == AtDrain(buffer, open)
         IN  \A at \in 0..Len(buffer) : f[at] = AtNext(buffer, open, f, at)
<1> DEFINE N == Len(buffer)
           D == 0..N
           B == [at \in D |-> Drop(buffer, at)]
           E == [at \in D |-> Find(Drop(buffer, at), <<CR>>)]
           R == [at \in D |-> AtReplies(SubSeq(buffer, at + 1, at + E[at] - 1), open)]
           Q == Seq(Replies)
           V == [packets : Q, rest : {B[at] : at \in D}, alive : BOOLEAN]
           rank == [at \in D |-> N - at]
           step == [at \in D |-> [g \in [D -> V] |-> AtNext(buffer, open, g, at)]]
           f == AtDrain(buffer, open)
<1>1. N \in Nat
  BY LenProperties DEF Symbols
<1>2. rank \in [D -> Nat] /\ \A at \in D : rank[at] <= N
  BY <1>1
<1>3. <<>> \in Q
  BY EmptySeq
<1>4. V # {}
  <2>1. 0 \in D
    BY <1>1
  <2> HIDE DEF D, B, Q
  <2>2. [packets |-> <<>>, rest |-> B[0], alive |-> TRUE] \in V
    BY <1>3, <2>1
  <2> QED BY <2>2
<1>5. ASSUME NEW at \in D, E[at] # 0
      PROVE  at + E[at] \in D /\ at + E[at] > at
  <2> DEFINE b == Drop(buffer, at)
             e == E[at]
  <2>1. b \in Seq(STRING) /\ Len(b) = N - at
    BY <1>1, DropPlaces DEF Symbols
  <2>2. e \in 0..Len(b)
    BY <2>1, FindOne
  <2> HIDE DEF e, b
  <2> QED BY <1>1, <1>5, <2>1, <2>2 DEF e
<1>6. ASSUME NEW at \in D PROVE R[at].packets \in Q /\ R[at].alive \in BOOLEAN
  <2> DEFINE line == SubSeq(buffer, at + 1, at + E[at] - 1)
             r == AtReplies(line, open)
  <2>1. R[at] = r
    OBVIOUS
  <2> HIDE DEF line
  <2>2. r.packets \in Q /\ r.alive \in BOOLEAN
    BY RepliesAre
  <2> HIDE DEF r, R
  <2> QED BY <2>1, <2>2
<1>7. ASSUME NEW at \in D, NEW g
      PROVE  AtNext(buffer, open, g, at) =
               IF E[at] = 0 THEN [packets |-> <<>>, rest |-> B[at], alive |-> TRUE]
               ELSE IF ~R[at].alive
                 THEN [packets |-> <<>>, rest |-> Drop(buffer, at + E[at]), alive |-> FALSE]
               ELSE [g[at + E[at]] EXCEPT !.packets = R[at].packets \o @]
  BY DEF AtNext
<1>8. \A at \in D : B[at] = Drop(buffer, at)
  OBVIOUS
<1> HIDE DEF B, E, R
<1>9. ASSUME NEW at \in D, NEW g \in [D -> V] PROVE AtNext(buffer, open, g, at) \in V
  <2>1. CASE E[at] = 0
    <3>1. AtNext(buffer, open, g, at) = [packets |-> <<>>, rest |-> B[at], alive |-> TRUE]
      BY <1>7, <2>1, Zenon
    <3> HIDE DEF D, Q
    <3> QED BY <1>3, <3>1
  <2>2. CASE E[at] # 0 /\ ~R[at].alive
    <3> DEFINE e == at + E[at]
    <3>1. e \in D
      BY <1>5, <2>2
    <3>2. AtNext(buffer, open, g, at) = [packets |-> <<>>, rest |-> Drop(buffer, e), alive |-> FALSE]
      BY <1>7, <2>2, Zenon
    <3> HIDE DEF e
    <3>3. Drop(buffer, e) = B[e]
      BY <1>8, <3>1
    <3> HIDE DEF D, Q
    <3> QED BY <1>3, <3>1, <3>2, <3>3
  <2>3. CASE E[at] # 0 /\ R[at].alive
    <3> DEFINE e == at + E[at]
               p == R[at].packets
    <3>1. e \in D
      BY <1>5, <2>3
    <3>2. p \in Q
      BY <1>6
    <3>3. AtNext(buffer, open, g, at) = [g[e] EXCEPT !.packets = p \o @]
      BY <1>7, <2>3, Zenon
    <3> HIDE DEF e, p, D
    <3>4. g[e] \in V
      BY <3>1
    <3>5. g[e].packets \in Q
      <4> HIDE DEF Q
      <4> QED BY <3>4
    <3>6. p \o g[e].packets \in Q
      BY <3>2, <3>5, ConcatProperties
    <3> HIDE DEF Q
    <3> QED BY <3>3, <3>4, <3>6
  <2> QED BY <2>1, <2>2, <2>3
<1>10. ASSUME NEW at \in D, NEW g, NEW h, \A e \in D : rank[e] < rank[at] => g[e] = h[e]
      PROVE  AtNext(buffer, open, g, at) = AtNext(buffer, open, h, at)
  <2>1. CASE E[at] = 0 \/ ~R[at].alive
    BY <1>7, <2>1, Zenon
  <2>2. CASE ~(E[at] = 0 \/ ~R[at].alive)
    <3> DEFINE e == at + E[at]
    <3>1. e \in D /\ e > at
      BY <1>5, <2>2
    <3> HIDE DEF e
    <3>2. rank[e] < rank[at]
      BY <1>1, <3>1
    <3>3. g[e] = h[e]
      BY <1>10, <3>1, <3>2
    <3> DEFINE Goes(k) == [k[e] EXCEPT !.packets = R[at].packets \o @]
    <3>4. AtNext(buffer, open, g, at) = Goes(g)
      BY <1>7, <2>2, Zenon DEF e
    <3>5. AtNext(buffer, open, h, at) = Goes(h)
      BY <1>7, <2>2, Zenon DEF e
    <3>6. Goes(g) = Goes(h)
      BY <3>3, Zenon
    <3> HIDE DEF Goes
    <3> QED BY <3>4, <3>5, <3>6
  <2> QED BY <2>1, <2>2
<1>11. LooksBelow(D, V, rank, step)
  <2> HIDE DEF D, V, rank
  <2>1. step \in [D -> [[D -> V] -> V]]
    BY <1>9
  <2> QED BY <1>10, <2>1 DEF LooksBelow
<1>12. PICK w \in [D -> V] : \A at \in D : w[at] = step[at][w]
  <2> HIDE DEF N, D, V, rank, step
  <2> QED BY <1>1, <1>2, <1>4, <1>11, FixedPoint
<1>13. w = [at \in D |-> AtNext(buffer, open, w, at)]
  <2> HIDE DEF V
  <2> QED BY <1>12
<1>14. f = [at \in D |-> AtNext(buffer, open, f, at)]
  BY <1>13 DEF AtDrain
<1> HIDE DEF f
<1>15. \A at \in D : f[at] = AtNext(buffer, open, f, at)
  BY <1>14
<1> QED BY <1>15 DEF f

\* `packets' are replied; the session ends with a reply that cannot be written.
AnsweredAs(r, w, due, open, packets, rest, later) ==
  /\ r.packets = packets /\ r.rest = rest /\ r.alive \in BOOLEAN
  /\ r = [packets |-> packets, rest |-> rest, alive |-> r.alive]
  /\ packets \in Seq(Replies) /\ rest \in Symbols /\ later \in Seq(Replies)
  /\ due = packets \o later
  /\ r.alive => LinesLeft(rest \o w, later) /\ (w = <<>> => later = <<>>)
  /\ ~r.alive => ~open

Answered(r, w, due, open) ==
  \E packets, rest, later : AnsweredAs(r, w, due, open, packets, rest, later)

LEMMA AnsweredNone ==
  ASSUME NEW b \in Symbols, NEW w, NEW due \in Seq(Replies), NEW open, NEW alive \in BOOLEAN,
         alive => LinesLeft(b \o w, due) /\ (w = <<>> => due = <<>>),
         ~alive => ~open
  PROVE  Answered([packets |-> <<>>, rest |-> b, alive |-> alive], w, due, open)
<1> DEFINE none == <<>>
           r == [packets |-> none, rest |-> b, alive |-> alive]
<1>1. none \in Seq(Replies) /\ due = none \o due
  BY EmptySeq, ConcatEmptySeq
<1> HIDE DEF none
<1>2. AnsweredAs(r, w, due, open, none, b, due)
  BY <1>1 DEF AnsweredAs
<1> HIDE DEF r
<1>3. Answered(r, w, due, open)
  BY <1>2 DEF Answered
<1> QED BY <1>3 DEF r, none

LEMMA AnsweredFirst ==
  ASSUME NEW r, NEW w, NEW due, NEW open, Answered(r, w, due, open), NEW first \in Seq(Replies)
  PROVE  Answered([r EXCEPT !.packets = first \o @], w, first \o due, open)
<1>1. PICK packets, rest, later : AnsweredAs(r, w, due, open, packets, rest, later)
  BY DEF Answered
<1> DEFINE all == first \o packets
           s == [r EXCEPT !.packets = first \o @]
           d == first \o due
           alive == r.alive
<1>2. /\ r = [packets |-> packets, rest |-> rest, alive |-> alive] /\ alive \in BOOLEAN
      /\ packets \in Seq(Replies) /\ later \in Seq(Replies) /\ rest \in Symbols
      /\ due = packets \o later
      /\ alive => LinesLeft(rest \o w, later) /\ (w = <<>> => later = <<>>)
      /\ ~alive => ~open
  BY <1>1 DEF AnsweredAs
<1> HIDE DEF alive
<1>3. s = [packets |-> all, rest |-> rest, alive |-> alive]
  <2>1. r.packets = packets
    BY <1>2
  <2>2. s = [r EXCEPT !.packets = all]
    BY <2>1, Zenon
  <2> HIDE DEF all, s
  <2> QED BY <1>2, <2>2
<1> HIDE DEF s
<1>4. all \in Seq(Replies)
  BY <1>2, ConcatProperties
<1>5. Regroups(first, packets, later)
  BY <1>2, Regroup, Zenon
<1>6. d = all \o later
  BY <1>2, <1>5 DEF Regroups
<1> HIDE DEF all, d
<1>7. s.alive = alive /\ s.packets = all /\ s.rest = rest
  BY <1>3
<1>8. AnsweredAs(s, w, d, open, all, rest, later)
  BY <1>2, <1>3, <1>4, <1>6, <1>7 DEF AnsweredAs
<1>9. Answered(s, w, d, open)
  BY <1>8 DEF Answered
<1> QED BY <1>9 DEF s, d

LEMMA LinesAnswered ==
  ASSUME NEW b \in Symbols, NEW w \in Symbols, NEW due, LinesLeft(b \o w, due),
         NEW open \in BOOLEAN
  PROVE  Answered(AtDrained(b, open), w, due, open)
<1> DEFINE N == Len(b)
           f == AtDrain(b, open)
           Goes(at) == \A d : LinesLeft(Drop(b, at) \o w, d) => Answered(f[at], w, d, open)
           S == {m \in Nat : \A at \in 0..N : N - at = m => Goes(at)}
<1>1. N \in Nat
  BY LenProperties DEF Symbols
<1>2. \A at \in 0..N : f[at] = AtNext(b, open, f, at)
  BY AtGoesOn
<1>3. AtDrained(b, open) = f[0]
  BY Zenon DEF AtDrained, AtDrain, AtNext
<1> HIDE DEF f
<1>4. ASSUME NEW m \in Nat, \A k \in 0..m - 1 : k \in S PROVE m \in S
  <2> SUFFICES ASSUME NEW at \in 0..N, N - at = m, NEW d, LinesLeft(Drop(b, at) \o w, d)
               PROVE  Answered(f[at], w, d, open)
    OBVIOUS
  <2> DEFINE c == Drop(b, at)
             e == Find(c, <<CR>>)
             line == SubSeq(b, at + 1, at + e - 1)
             r == AtReplies(line, open)
  <2>1. c \in Symbols /\ Len(c) = m
    <3>1. c \in Seq(STRING) /\ Len(c) = N - at
      BY <1>1, DropPlaces DEF Symbols
    <3>2. N - at = m
      OBVIOUS
    <3> HIDE DEF c, N
    <3> QED BY <3>1, <3>2 DEF Symbols
  <2>2. LinesLeft(c \o w, d) /\ d \in Seq(Replies)
    <3>1. LinesLeft(c \o w, d)
      OBVIOUS
    <3> HIDE DEF c
    <3> QED BY <3>1, LinesAreTyped
  <2>3. f[at] = IF e = 0 THEN [packets |-> <<>>, rest |-> c, alive |-> TRUE]
                ELSE IF ~r.alive
                  THEN [packets |-> <<>>, rest |-> Drop(b, at + e), alive |-> FALSE]
                ELSE [f[at + e] EXCEPT !.packets = r.packets \o @]
    BY <1>2, Zenon DEF AtNext
  <2>4. e \in 0..Len(c)
    <3> HIDE DEF c
    <3> QED BY <2>1, FindOne DEF Symbols
  <2>5. ASSUME e # 0
        PROVE  /\ at + e \in 0..N /\ Goes(at + e) /\ Drop(c, e) = Drop(b, at + e)
               /\ line = SubSeq(c, 1, e - 1)
    <3> HIDE DEF e
    <3>1. /\ at + e \in 0..N /\ N - (at + e) \in 0..m - 1 /\ e \in 0..Len(b) - at
          /\ e \in 1..Len(b) - at
      <4> DEFINE l == Len(c)
      <4>1. l = m /\ e \in 0..l
        BY <2>1, <2>4
      <4> HIDE DEF l
      <4> QED BY <1>1, <2>5, <4>1
    <3>2. Drop(c, e) = Drop(b, at + e)
      BY <3>1, DropDrop DEF Symbols
    <3>3. N - (at + e) \in S
      <4> DEFINE j == N - (at + e)
      <4>1. j \in 0..m - 1
        BY <3>1
      <4> HIDE DEF j, S
      <4>2. j \in S
        BY <1>4, <4>1
      <4> QED BY <4>2 DEF j
    <3>4. Goes(at + e)
      <4> DEFINE k == at + e
      <4>1. k \in 0..N /\ N - k \in S
        BY <3>1, <3>3
      <4> HIDE DEF k, N, Goes
      <4>2. Goes(k)
        BY <4>1
      <4> QED BY <4>2 DEF k
    <3>5. line = SubSeq(c, 1, e - 1)
      BY <3>1, PartOfDrop DEF Symbols
    <3> QED BY <3>1, <3>2, <3>4, <3>5
  <2>6. ASSUME e = 0, w = <<>> PROVE d = <<>>
    <3>1. PICK bs : LinesBy(bs, d, c \o w)
      BY <2>2 DEF LinesLeft
    <3> HIDE DEF c
    <3>2. bs = <<>>
      <4> SUFFICES ASSUME bs # <<>> PROVE FALSE
        OBVIOUS
      <4>1. PICK x, g, later : LineThen(c \o w, d, x, g, later)
        BY <3>1, FirstLine
      <4>2. Line(x) /\ g \in Symbols /\ c \o w = x \o g
        BY <4>1 DEF LineThen
      <4>3. EndsAt(c, w, x, g, e)
        <5> DEFINE k == e
        <5>1. k = Find(c, <<CR>>)
          OBVIOUS
        <5> HIDE DEF k
        <5>2. EndsAt(c, w, x, g, k)
          BY <2>1, <4>2, <5>1, LineEnds
        <5> QED BY <5>2 DEF k
      <4> HIDE DEF e
      <4> QED BY <2>6, <4>3 DEF EndsAt
    <3> QED BY <3>1, <3>2, NoLineLeft
  <2>7. CASE e = 0
    <3>1. f[at] = [packets |-> <<>>, rest |-> c, alive |-> TRUE]
      <4> HIDE DEF c, e
      <4> QED BY <2>3, <2>7
    <3> HIDE DEF c, e
    <3> QED BY <2>1, <2>2, <2>6, <2>7, <3>1, AnsweredNone
  <2>8. CASE e # 0
    <3>1. PICK bs : LinesBy(bs, d, c \o w)
      BY <2>2 DEF LinesLeft
    <3> HIDE DEF c
    <3>2. bs # <<>>
      <4> SUFFICES ASSUME bs = <<>> PROVE FALSE
        OBVIOUS
      <4>1. c \o w = <<>>
        BY <3>1, NoLineLeft
      <4>2. c = <<>>
        BY <2>1, <4>1, ConcatEqualIffEmpty DEF Symbols
      <4>3. Len(c) = 0
        BY <4>2
      <4> HIDE DEF e
      <4> QED BY <2>4, <2>8, <4>3
    <3>0. PICK x, g, later : LineThen(c \o w, d, x, g, later)
      BY <3>1, <3>2, FirstLine
    <3>3. /\ Line(x) /\ g \in Symbols /\ later \in Seq(Replies)
          /\ c \o w = x \o g /\ d = Answer(x) \o later
          /\ LinesLeft(g, later)
      BY <3>0 DEF LineThen
    <3>4. e \in 1..Len(c) /\ SubSeq(c, 1, e - 1) = Front(x) /\ Drop(c, e) \o w = g
      <4>1. e = Find(c, <<CR>>)
        OBVIOUS
      <4> HIDE DEF e
      <4>2. EndsAt(c, w, x, g, e)
        BY <2>1, <3>3, <4>1, LineEnds
      <4> QED BY <2>8, <4>2 DEF EndsAt
    <3> HIDE DEF e, Goes
    <3>5. /\ Goes(at + e) /\ Drop(c, e) = Drop(b, at + e) /\ line = Front(x)
      <4>1. /\ Goes(at + e) /\ Drop(c, e) = Drop(b, at + e) /\ line = SubSeq(c, 1, e - 1)
        BY <2>5, <2>8, Zenon
      <4> HIDE DEF line
      <4> QED BY <3>4, <4>1, Zenon
    <3> HIDE DEF line
    <3>6. /\ r.packets \in Seq(Replies) /\ r.alive \in BOOLEAN
          /\ r.alive => r.packets = Answer(x)
          /\ open => r.alive
      <4>1. /\ r.packets \in Seq(Replies) /\ r.alive \in BOOLEAN
            /\ r.alive => r.packets = handle_at_command(line)
            /\ open => r.alive
        BY RepliesAre
      <4> QED BY <3>5, <4>1 DEF Answer
    <3> HIDE DEF r
    <3>7. CASE ~r.alive
      <4> DEFINE rest == Drop(b, at + e)
      <4>1. f[at] = [packets |-> <<>>, rest |-> rest, alive |-> FALSE]
        BY <2>3, <2>8, <3>7
      <4>2. rest \in Symbols
        <5>1. e \in 0..Len(c)
          BY <2>4
        <5>2. Drop(c, e) \in Seq(STRING)
          BY <2>1, <5>1, DropPlaces DEF Symbols
        <5> QED BY <3>5, <5>2, Zenon DEF Symbols
      <4>3. ~open /\ FALSE \in BOOLEAN
        BY <3>6, <3>7
      <4> HIDE DEF rest
      <4> QED BY <2>2, <4>1, <4>2, <4>3, AnsweredNone
    <3>8. CASE r.alive
      <4> DEFINE q == f[at + e]
                 one == r.packets
      <4>1. f[at] = [q EXCEPT !.packets = one \o @]
        BY <2>3, <2>8, <3>8, Zenon
      <4>2. LinesLeft(Drop(b, at + e) \o w, later)
        BY <3>3, <3>4, <3>5, Zenon
      <4>3. Answered(q, w, later, open)
        BY <3>5, <4>2 DEF Goes
      <4>4. one = Answer(x) /\ one \in Seq(Replies)
        BY <3>6, <3>8
      <4> HIDE DEF q, one
      <4>5. Answered([q EXCEPT !.packets = one \o @], w, one \o later, open)
        BY <4>3, <4>4, AnsweredFirst
      <4>6. d = one \o later
        BY <3>3, <4>4
      <4> QED BY <4>1, <4>5, <4>6, Zenon
    <3> QED BY <3>6, <3>7, <3>8
  <2> QED BY <2>7, <2>8
<1>5. Nat \subseteq S
  <2> HIDE DEF S
  <2> QED BY <1>4, Induction
<1>6. Goes(0)
  <2> HIDE DEF Goes, N
  <2>1. N \in S
    <3> HIDE DEF S
    <3> QED BY <1>1, <1>5
  <2>2. 0 \in 0..N /\ N - 0 = N
    BY <1>1
  <2> QED BY <2>1, <2>2
<1>7. Drop(b, 0) = b
  <2>1. SubSeq(b, 1, Len(b)) = b
    BY SubSeqFull DEF Symbols
  <2>2. 0 + 1 = 1
    OBVIOUS
  <2> QED BY <2>1, <2>2, Zenon DEF Drop
<1>8. Answered(f[0], w, due, open)
  BY <1>6, <1>7, Zenon
<1> QED BY <1>3, <1>8, Zenon

-----------------------------------------------------------------------------
(***************************************************************************)
(* The reader.                                                             *)
(***************************************************************************)
LEMMA PrefixIs ==
  ASSUME NEW S, NEW s \in Seq(S), NEW t \in Seq(S)
  PROVE  IsPrefix(s, s \o t)
<1> DEFINE j == s \o t
           n == Len(s)
<1>1. n \in Nat /\ Len(t) \in Nat /\ Len(j) = n + Len(t)
  BY LenProperties, ConcatProperties
<1>2. SubSeq(s, 1, n) = SubSeq(j, 1, n)
  <2>1. CASE n = 0
    <3>1. SubSeq(s, 1, n) = <<>> /\ SubSeq(j, 1, n) = <<>>
      <4> HIDE DEF j, n
      <4> QED BY <2>1, SubSeqEmpty
    <3> QED BY <3>1
  <2>2. CASE n # 0
    <3>1. 1 \in 1..n /\ n \in 1..n
      BY <1>1, <2>2
    <3> QED BY <3>1, SubSeqOfConcat1
  <2> QED BY <2>1, <2>2
<1> HIDE DEF j
<1>3. n <= Len(j)
  BY <1>1
<1>4. IsPrefix(s, j)
  BY <1>2, <1>3, Zenon DEF IsPrefix, n
<1> QED BY <1>4 DEF j

ByteStrings == IF stream = "iap" THEN Text ELSE Symbols
Handling    == IF stream = "iap" THEN Packets ELSE Replies

WhatIsLeft(rest, later) ==
  IF stream = "iap" THEN PacketsLeft(rest, later) ELSE LinesLeft(rest, later)

ReaderTyped ==
  /\ stream \in Streams /\ sent \in Seq(Items[stream]) /\ Len(sent) <= MaxItems
  /\ wire \in ByteStrings /\ buf \in ByteStrings /\ out \in Seq(Handling)
  /\ serving \in BOOLEAN /\ peer \in {"open", "closed"}
  /\ stream = "iap" => peer = "open"

\* What was handled and the `later' that is still in the buffer and on the wire are
\* what is due; a reader that stopped has a closed peer.
Owed(later) ==
  /\ later \in Seq(Handling) /\ Due = out \o later
  /\ serving => WhatIsLeft(buf \o wire, later) /\ (wire = <<>> => later = <<>>)
  /\ ~serving => peer = "closed"

ReaderInv == ReaderTyped /\ \E later : Owed(later)

LEMMA AtStart == WhatIsLeft(<<>>, <<>>)
<1> DEFINE e == <<>>
<1>1. e \in Seq(Text) /\ e \in Seq(Packets) /\ e \in Seq(Symbols) /\ Len(e) = 0 /\ e \in Text
  BY EmptySeq, ShortIsText
<1>2. FlattenSeq(e) = e /\ e \o e = e
  BY <1>1, FlattenIs, ConcatEmptySeq DEF Text
<1>3. Answers(e) = e
  <2>1. Answers(e) \in Seq(Seq(Replies)) /\ Len(Answers(e)) = 0
    BY <1>1, AnswersAre
  <2> QED BY <2>1, EmptySeq
<1>4. Gap(e)
  BY EmptyGap
<1> HIDE DEF e
<1>5. Chunks(e, e)
  BY <1>1 DEF Chunks
<1>6. LeftBy(e, e, e, e)
  BY <1>2, <1>4, <1>5 DEF LeftBy
<1>7. LinesBy(e, e, e)
  BY <1>1, <1>2, <1>3 DEF LinesBy, Lines
<1>8. PacketsLeft(e, e) /\ LinesLeft(e, e)
  BY <1>6, <1>7 DEF PacketsLeft, LinesLeft
<1> QED BY <1>8 DEF WhatIsLeft, e

LEMMA SentJoins ==
  ASSUME stream \in Streams, NEW item \in Items[stream], NEW rest, NEW later, WhatIsLeft(rest, later)
  PROVE  /\ WhatIsLeft(rest \o item.bytes, later \o item.means)
         /\ item.bytes \in ByteStrings /\ item.means \in Seq(Handling)
         /\ item.bytes = <<>> => item.means = <<>>
<1>1. CASE stream = "iap"
  <2>1. IsPacketItem(item) \/ IsNoiseItem(item)
    BY <1>1, ItemsAssumption
  <2>2. PacketsLeft(rest, later)
    BY <1>1 DEF WhatIsLeft
  <2>3. /\ PacketsLeft(rest \o item.bytes, later \o item.means)
        /\ item.bytes \in Text /\ item.means \in Seq(Packets)
        /\ item.bytes = <<>> => item.means = <<>>
    BY <2>1, <2>2, ItemJoins
  <2> QED BY <1>1, <2>3 DEF WhatIsLeft, ByteStrings, Handling
<1>2. CASE stream # "iap"
  <2>1. IsLineItem(item)
    <3>1. stream = "at"
      BY <1>2, ItemsAssumption
    <3> QED BY <3>1, ItemsAssumption
  <2>2. LinesLeft(rest, later)
    BY <1>2 DEF WhatIsLeft
  <2>3. /\ LinesLeft(rest \o item.bytes, later \o item.means)
        /\ item.bytes \in Symbols /\ item.means \in Seq(Replies) /\ item.bytes # <<>>
    BY <2>1, <2>2, LineJoins
  <2> QED BY <1>2, <2>3 DEF WhatIsLeft, ByteStrings, Handling
<1> QED BY <1>1, <1>2

MeansOf(items) == [k \in DOMAIN items |-> items[k].means]

LEMMA DueGrows ==
  ASSUME stream \in Streams, NEW items \in Seq(Items[stream]), NEW item \in Items[stream]
  PROVE  /\ FlattenSeq(MeansOf(Append(items, item))) = FlattenSeq(MeansOf(items)) \o item.means
         /\ FlattenSeq(MeansOf(items)) \in Seq(Handling)
<1> DEFINE V == Seq(Handling)
           n == Len(items)
           m == MeansOf(items)
           b == Append(items, item)
           c == MeansOf(b)
           a == Append(m, item.means)
<1>1. \A i \in Items[stream] : i.means \in V
  BY AtStart, SentJoins
<1>2. n \in Nat /\ DOMAIN items = 1..n /\ \A k \in 1..n : items[k] \in Items[stream]
  BY LenProperties, ElementOfSeq
<1>3. /\ b \in Seq(Items[stream]) /\ Len(b) = n + 1 /\ DOMAIN b = 1..Len(b)
      /\ (\A i \in 1..n : b[i] = items[i]) /\ b[n + 1] = item
  BY AppendProperties, LenProperties
<1> HIDE DEF b
<1>4. m = [k \in 1..n |-> items[k].means]
  BY <1>2 DEF MeansOf
<1>5. c = [k \in 1..n + 1 |-> b[k].means]
  BY <1>3 DEF MeansOf
<1> HIDE DEF m, c, V, n
<1>6. m \in Seq(V) /\ Len(m) = n
  <2>1. m \in [1..n -> V]
    BY <1>1, <1>2, <1>4
  <2> QED BY <1>2, <2>1
<1>7. c \in Seq(V) /\ Len(c) = n + 1
  <2>1. \A k \in 1..n + 1 : b[k] \in Items[stream]
    BY <1>2, <1>3, ElementOfSeq
  <2>2. c \in [1..n + 1 -> V]
    BY <1>1, <1>5, <2>1
  <2> DEFINE l == n + 1
  <2>3. l \in Nat /\ c \in [1..l -> V]
    BY <1>2, <2>2
  <2> HIDE DEF l
  <2>4. c \in Seq(V) /\ Len(c) = l
    BY <2>3
  <2> QED BY <2>4 DEF l
<1>8. item.means \in V
  BY <1>1
<1>9. a \in Seq(V) /\ Len(a) = n + 1 /\ (\A i \in 1..n : a[i] = m[i]) /\ a[n + 1] = item.means
  BY <1>6, <1>8, AppendProperties
<1> HIDE DEF a
<1>10. ASSUME NEW k \in 1..n + 1 PROVE c[k] = a[k]
  <2>1. c[k] = b[k].means
    BY <1>5
  <2>2. CASE k \in 1..n
    <3>1. b[k] = items[k] /\ a[k] = m[k] /\ m[k] = items[k].means
      BY <1>3, <1>4, <1>9, <2>2
    <3> QED BY <2>1, <3>1, Zenon
  <2>3. CASE k = n + 1
    BY <1>3, <1>9, <2>1, <2>3
  <2>4. k \in 1..n \/ k = n + 1
    BY <1>2
  <2> QED BY <2>2, <2>3, <2>4
<1>11. c = a
  BY <1>7, <1>9, <1>10, SeqEqual
<1>12. FlattenSeq(a) = FlattenSeq(m) \o item.means /\ FlattenSeq(m) \in V
  BY <1>6, <1>8, FlattenIs, FlattenAppend DEF V, a
<1> QED BY <1>11, <1>12, Zenon DEF b, c, m, V

LEMMA ReadersStart == ASSUME ReadersInit PROVE ReaderInv
<1> DEFINE e == <<>>
<1>1. /\ stream \in Streams /\ sent = e /\ wire = e /\ buf = e /\ out = e
      /\ serving = TRUE /\ peer = "open"
  BY DEF ReadersInit
<1>2. /\ e \in Seq(Items[stream]) /\ e \in ByteStrings /\ e \in Seq(Handling) /\ Len(e) = 0
      /\ e \o e = e
  BY EmptySeq, ConcatEmptySeq DEF ByteStrings, Text, Symbols
<1>3. Due = e
  <2>1. MeansOf(e) = e
    BY DEF MeansOf
  <2>2. FlattenSeq(e) = e
    BY EmptySeq, FlattenIs
  <2> QED BY <1>1, <2>1, <2>2 DEF Due, MeansOf
<1>4. WhatIsLeft(e, e)
  BY AtStart
<1> HIDE DEF e
<1>5. ReaderTyped
  BY <1>1, <1>2, ItemsAssumption DEF ReaderTyped
<1>6. Owed(e)
  BY <1>1, <1>2, <1>3, <1>4 DEF Owed
<1> QED BY <1>5, <1>6 DEF ReaderInv

-----------------------------------------------------------------------------
(***************************************************************************)
(* Each step keeps what is owed.                                           *)
(***************************************************************************)
Elements == IF stream = "iap" THEN Nat ELSE STRING

LEMMA ByElement == ByteStrings = Seq(Elements)
BY DEF ByteStrings, Elements, Text, Symbols

\* What the handling of what `arrived' owes, `w' being still on the wire.
TookAs(r, w, due, rest, packets, later) ==
  /\ r.packets = packets /\ r.rest = rest /\ r.alive \in BOOLEAN
  /\ packets \in Seq(Handling) /\ rest \in ByteStrings /\ later \in Seq(Handling)
  /\ due = packets \o later
  /\ r.alive => WhatIsLeft(rest \o w, later) /\ (w = <<>> => later = <<>>)
  /\ ~r.alive => peer = "closed"

Took(r, w, due) == \E rest, packets, later : TookAs(r, w, due, rest, packets, later)

HandledOf(arrived) ==
  IF stream = "iap" THEN Drained(arrived) ELSE AtDrained(arrived, peer = "open")

LEMMA Takes ==
  ASSUME NEW arrived \in ByteStrings, NEW w \in ByteStrings, NEW due,
         WhatIsLeft(arrived \o w, due), peer \in {"open", "closed"}
  PROVE  Took(HandledOf(arrived), w, due)
<1> DEFINE r == HandledOf(arrived)
<1>1. CASE stream = "iap"
  <2>1. /\ arrived \in Text /\ w \in Text /\ PacketsLeft(arrived \o w, due) /\ r = Drained(arrived)
    BY <1>1 DEF ByteStrings, WhatIsLeft, HandledOf
  <2>2. Handled(r, w, due)
    BY <2>1, DrainLeaves
  <2> HIDE DEF r
  <2>3. PICK packets, rest, later : HandledAs(r, w, due, packets, rest, later)
    BY <2>2 DEF Handled
  <2>4. TookAs(r, w, due, rest, packets, later)
    BY <1>1, <2>3 DEF HandledAs, TookAs, ByteStrings, WhatIsLeft, Handling
  <2> QED BY <2>4 DEF Took, r
<1>2. CASE stream # "iap"
  <2> DEFINE open == (peer = "open")
  <2>1. /\ arrived \in Symbols /\ w \in Symbols /\ LinesLeft(arrived \o w, due)
        /\ r = AtDrained(arrived, open)
    BY <1>2 DEF ByteStrings, WhatIsLeft, HandledOf
  <2>2. open \in BOOLEAN
    OBVIOUS
  <2> HIDE DEF open, r
  <2>3. Answered(r, w, due, open)
    BY <2>1, <2>2, LinesAnswered
  <2>4. PICK packets, rest, later : AnsweredAs(r, w, due, open, packets, rest, later)
    BY <2>3 DEF Answered
  <2>5. ~open => peer = "closed"
    BY DEF open
  <2>6. TookAs(r, w, due, rest, packets, later)
    BY <1>2, <2>4, <2>5 DEF AnsweredAs, TookAs, ByteStrings, WhatIsLeft, Handling
  <2> QED BY <2>6 DEF Took, r
<1> QED BY <1>1, <1>2


\* A step that leaves the stream alone, and what is owed after it.
LEMMA StillOwed ==
  ASSUME ReaderTyped, stream' = stream, NEW later \in Seq(Handling),
         sent' \in Seq(Items[stream]), Len(sent') <= MaxItems,
         wire' \in ByteStrings, buf' \in ByteStrings, out' \in Seq(Handling),
         serving' \in BOOLEAN, peer' \in {"open", "closed"}, stream = "iap" => peer' = "open",
         Due' = out' \o later,
         serving' => WhatIsLeft(buf' \o wire', later) /\ (wire' = <<>> => later = <<>>),
         ~serving' => peer' = "closed"
  PROVE  ReaderInv'
<1>1. ByteStrings' = ByteStrings /\ Handling' = Handling
  BY DEF ByteStrings, Handling
<1>2. ReaderTyped'
  BY <1>1 DEF ReaderTyped
<1>3. serving' => WhatIsLeft(buf \o wire, later)'
  BY DEF WhatIsLeft
<1>4. Owed(later)'
  BY <1>1, <1>3 DEF Owed
<1> QED BY <1>2, <1>4 DEF ReaderInv

LEMMA InvReads == ASSUME ReaderInv, Reads PROVE ReaderInv'
<1>1. PICK due : Owed(due)
  BY DEF ReaderInv
<1>2. PICK n \in 1..MaxRead :
        /\ n <= Len(wire)
        /\ wire' = Drop(wire, n)
        /\ buf' = HandledOf(buf \o SubSeq(wire, 1, n)).rest
        /\ out' = out \o HandledOf(buf \o SubSeq(wire, 1, n)).packets
        /\ serving' = HandledOf(buf \o SubSeq(wire, 1, n)).alive
  BY DEF Reads, HandledOf
<1> DEFINE w == Drop(wire, n)
           part == SubSeq(wire, 1, n)
           arrived == buf \o part
           r == HandledOf(arrived)
<1>3. /\ stream' = stream /\ sent' = sent /\ peer' = peer /\ serving
  BY DEF Reads
<1>4. /\ ReaderTyped /\ wire \in ByteStrings /\ buf \in ByteStrings /\ peer \in {"open", "closed"}
      /\ out \in Seq(Handling)
  BY DEF ReaderInv, ReaderTyped
<1>5. n \in 0..Len(wire)
  <2>1. Len(wire) \in Nat
    BY <1>4, ByElement, LenProperties
  <2> QED BY <1>2, <2>1, ItemsAssumption
<1>6. part \in Seq(Elements) /\ w \in Seq(Elements) /\ part \o w = wire
  <2>1. wire \in Seq(Elements)
    BY <1>4, ByElement
  <2>2. SubSeq(wire, 1, n) \in Seq(Elements) /\ SubSeq(wire, 1, n) \o Drop(wire, n) = wire
    BY <1>5, <2>1, TakeAndDrop
  <2>3. Drop(wire, n) \in Seq(Elements)
    BY <1>5, <2>1, DropPlaces
  <2> QED BY <2>2, <2>3
<1> HIDE DEF w, part
<1>7. arrived \in ByteStrings /\ w \in ByteStrings /\ arrived \o w = buf \o wire
  <2>1. buf \in Seq(Elements)
    BY <1>4, ByElement
  <2>2. Regroups(buf, part, w)
    BY <1>6, <2>1, Regroup, Zenon
  <2>3. arrived \in Seq(Elements)
    BY <1>6, <2>1, ConcatProperties
  <2> QED BY <1>6, <2>2, <2>3, ByElement DEF Regroups
<1> HIDE DEF arrived
<1>8. WhatIsLeft(arrived \o w, due)
  BY <1>1, <1>3, <1>7 DEF Owed
<1>9. Took(r, w, due)
  BY <1>4, <1>7, <1>8, Takes
<1>10. wire' = w /\ buf' = r.rest /\ out' = out \o r.packets /\ serving' = r.alive
  BY <1>2 DEF w, r, arrived, part
<1> HIDE DEF r
<1>11. PICK rest, packets, later : TookAs(r, w, due, rest, packets, later)
  BY <1>9 DEF Took
<1> DEFINE o == out \o packets
<1>12. /\ wire' = w /\ buf' = rest /\ out' = o /\ serving' = r.alive
       /\ packets \in Seq(Handling) /\ rest \in ByteStrings /\ later \in Seq(Handling)
       /\ due = packets \o later /\ serving' \in BOOLEAN
       /\ serving' => WhatIsLeft(rest \o w, later) /\ (w = <<>> => later = <<>>)
       /\ ~serving' => peer = "closed"
  BY <1>10, <1>11 DEF TookAs
<1>13. o \in Seq(Handling)
  BY <1>4, <1>12, ConcatProperties
<1>14. Due' = o \o later
  <2>1. Due' = Due
    BY <1>3 DEF Due
  <2>2. Regroups(out, packets, later)
    BY <1>4, <1>12, Regroup, Zenon
  <2> QED BY <1>1, <1>12, <2>1, <2>2 DEF Owed, Regroups
<1> HIDE DEF o
<1>15. sent' \in Seq(Items[stream]) /\ Len(sent') <= MaxItems /\ (stream = "iap" => peer' = "open")
  BY <1>3, <1>4 DEF ReaderTyped
<1> QED BY <1>3, <1>4, <1>7, <1>12, <1>13, <1>14, <1>15, StillOwed

LEMMA InvSends == ASSUME ReaderInv, PeerSends PROVE ReaderInv'
<1>1. PICK due : Owed(due)
  BY DEF ReaderInv
<1>2. PICK item \in Items[stream] : sent' = Append(sent, item) /\ wire' = wire \o item.bytes
  BY DEF PeerSends
<1>3. /\ stream' = stream /\ buf' = buf /\ out' = out /\ serving' = serving /\ peer' = peer
      /\ peer = "open" /\ Len(sent) < MaxItems
  BY DEF PeerSends
<1>4. /\ ReaderTyped /\ wire \in ByteStrings /\ buf \in ByteStrings /\ stream \in Streams
      /\ out \in Seq(Handling) /\ sent \in Seq(Items[stream]) /\ serving \in BOOLEAN
  BY DEF ReaderInv, ReaderTyped
<1>5. /\ serving /\ due \in Seq(Handling) /\ Due = out \o due
      /\ WhatIsLeft(buf \o wire, due) /\ (wire = <<>> => due = <<>>)
  BY <1>1, <1>3, <1>4 DEF Owed
<1> DEFINE rest == buf \o wire
           later == due \o item.means
           bytes == item.bytes
           means == item.means
           w == wire \o bytes
<1>6. /\ WhatIsLeft(rest \o bytes, due \o means) /\ bytes \in ByteStrings
      /\ means \in Seq(Handling) /\ (bytes = <<>> => means = <<>>)
  <2> HIDE DEF rest
  <2> QED BY <1>4, <1>5, SentJoins DEF rest
<1>7. Due' = Due \o means
  <2>1. Due = FlattenSeq(MeansOf(sent)) /\ Due' = FlattenSeq(MeansOf(Append(sent, item)))
    BY <1>2 DEF Due, MeansOf
  <2> QED BY <1>4, <2>1, DueGrows
<1> HIDE DEF bytes, means
<1>8. later \in Seq(Handling)
  BY <1>5, <1>6, ConcatProperties DEF means
<1>9. Due' = out \o later
  <2>1. Regroups(out, due, means)
    BY <1>4, <1>5, <1>6, Regroup, Zenon
  <2> QED BY <1>5, <1>7, <2>1 DEF Regroups, means
<1>10. w \in ByteStrings /\ WhatIsLeft(buf \o w, later)
  <2>1. buf \in Seq(Elements) /\ wire \in Seq(Elements) /\ bytes \in Seq(Elements)
    BY <1>4, <1>6, ByElement
  <2>2. Regroups(buf, wire, bytes)
    BY <2>1, Regroup, Zenon
  <2>3. w \in Seq(Elements)
    BY <2>1, ConcatProperties
  <2> QED BY <1>6, <2>2, <2>3, ByElement DEF Regroups, means
<1>11. w = <<>> => later = <<>>
  <2>1. wire \in Seq(Elements) /\ bytes \in Seq(Elements)
    BY <1>4, <1>6, ByElement
  <2>2. w = <<>> => wire = <<>> /\ bytes = <<>>
    BY <2>1, ConcatProperties, LenProperties, EmptySeq
  <2>3. due = <<>> /\ means = <<>> => later = <<>>
    BY ConcatEmptySeq, EmptySeq DEF means
  <2> QED BY <1>5, <1>6, <2>2, <2>3
<1>12. sent' \in Seq(Items[stream]) /\ Len(sent') <= MaxItems
  <2>1. Append(sent, item) \in Seq(Items[stream]) /\ Len(Append(sent, item)) = Len(sent) + 1
    BY <1>4, AppendProperties
  <2>2. Len(sent) \in Nat
    BY <1>4, LenProperties
  <2> QED BY <1>2, <1>3, <2>1, <2>2, ItemsAssumption
<1>13. wire' = w
  BY <1>2 DEF bytes
<1> HIDE DEF w, later
<1>14. stream = "iap" => peer' = "open"
  BY <1>3
<1> QED BY <1>3, <1>4, <1>5, <1>8, <1>9, <1>10, <1>11, <1>12, <1>13, <1>14, StillOwed

\* The other steps leave all the bytes where they are.
LEMMA InvWaits ==
  ASSUME ReaderInv, PeerCloses \/ ReadsEnd \/ UNCHANGED readerVars PROVE ReaderInv'
<1>1. PICK due : Owed(due)
  BY DEF ReaderInv
<1>2. /\ stream' = stream /\ sent' = sent /\ wire' = wire /\ buf' = buf /\ out' = out
  BY DEF PeerCloses, ReadsEnd, readerVars
<1>3. /\ serving' \in BOOLEAN /\ peer' \in {"open", "closed"} /\ (stream = "iap" => peer' = "open")
      /\ (serving' => serving) /\ (~serving' => peer' = "closed")
  <2>1. /\ serving \in BOOLEAN /\ peer \in {"open", "closed"} /\ (stream = "iap" => peer = "open")
        /\ (~serving => peer = "closed")
    BY <1>1 DEF ReaderInv, ReaderTyped, Owed
  <2>2. CASE PeerCloses
    BY <2>1, <2>2 DEF PeerCloses
  <2>3. CASE ReadsEnd
    BY <2>1, <2>3 DEF ReadsEnd
  <2>4. CASE UNCHANGED readerVars
    BY <2>1, <2>4 DEF readerVars
  <2> QED BY <2>2, <2>3, <2>4
<1>4. Due' = Due
  BY <1>2 DEF Due
<1>5. /\ due \in Seq(Handling) /\ Due = out \o due
      /\ serving => WhatIsLeft(buf \o wire, due) /\ (wire = <<>> => due = <<>>)
  BY <1>1 DEF Owed
<1>6. /\ ReaderTyped /\ sent \in Seq(Items[stream]) /\ Len(sent) <= MaxItems
      /\ wire \in ByteStrings /\ buf \in ByteStrings /\ out \in Seq(Handling)
  BY DEF ReaderInv, ReaderTyped
<1> QED BY <1>2, <1>3, <1>4, <1>5, <1>6, StillOwed

LEMMA InvCuts == ASSUME ReaderInv PROVE CutAnywhere
<1>1. PICK later : Owed(later)
  BY DEF ReaderInv
<1>2. /\ out \in Seq(Handling) /\ later \in Seq(Handling) /\ Due = out \o later
      /\ (serving /\ wire = <<>> => later = <<>>) /\ (~serving => peer = "closed")
  BY <1>1 DEF ReaderInv, ReaderTyped, Owed
<1>3. IsPrefix(out, Due)
  <2>1. IsPrefix(out, out \o later)
    BY <1>2, PrefixIs
  <2> QED BY <1>2, <2>1, Zenon
<1>4. later = <<>> => Due = out
  BY <1>2, ConcatEmptySeq
<1> QED BY <1>2, <1>3, <1>4 DEF CutAnywhere

\* Whatever the other end sends, of the items the programs expect, and wherever recv
\* cuts it: the packets that iap1_daemon's parser hands on, and the replies hfp_ag
\* writes, are what was sent means, in order, none lost to a cut, none made of two
\* chunks, none twice; once the last byte is read nothing waits; only a closed
\* connection stops the reader.  For every number of items, of bytes and of reads.
THEOREM HandledWhateverTheCuts == ReadersSpec => []CutAnywhere
<1>1. ReadersInit => ReaderInv
  BY ReadersStart
<1>2. ReaderInv /\ [ReadersNext]_readerVars => ReaderInv'
  BY InvReads, InvSends, InvWaits DEF ReadersNext
<1>3. ReaderInv => CutAnywhere
  BY InvCuts
<1> QED BY <1>1, <1>2, <1>3, PTL DEF ReadersSpec
=============================================================================
