--------------------------- MODULE Malloc_proofs ---------------------------
(***************************************************************************)
(* Theorems about Malloc, for every limit of the heap, every page and every*)
(* request.  First the heap of mm.c and what its helpers do to it: the     *)
(* walks along the blocks and the lists, the tags of the blocks, the lists *)
(* by size, and the functions that unlink, insert, place, coalesce and     *)
(* free.  The lemmas describe the heap by sets: B of its blocks, D of the  *)
(* free ones, and L of those that the lists hold.                          *)
(*                                                                         *)
(* Then what split_block, find_fit, extend_heap, mm_malloc and mm_realloc  *)
(* do to a heap in order, the calls of the client, the invariant, the      *)
(* properties of the runs, and the refinement of Allocator.                *)
(***************************************************************************)
EXTENDS Malloc, Counting, FiniteSetTheorems, SequenceTheorems

(* Walks.  What Trail says of a step, for every function of successors.    *)

(* One round of a loop: from p to the next node, and on from there as g    *)
(* says.                                                                   *)
Round(next, g, n) ==
    [p \in DOMAIN next |->
        IF n = 0 \/ next[p] \notin DOMAIN next THEN <<p>>
        ELSE <<p>> \o g[n - 1][next[p]]]

(* The recursive function of Trail exists: there is one for every bound on *)
(* the rounds.                                                             *)
LEMMA RoundsExist ==
    ASSUME NEW next, NEW rounds \in Nat
    PROVE  \E g : g = [n \in 0 .. rounds |-> Round(next, g, n)]
<1> DEFINE Bad == {m \in Nat : ~ \E g : g = [n \in 0 .. m |-> Round(next, g, n)]}
<1>1. Bad = {}
  <2>1. SUFFICES ASSUME Bad # {} PROVE FALSE
    OBVIOUS
  <2>2. PICK m \in Bad : \A k \in Bad : m <= k
    BY <2>1, LeastMember
  <2> m \in Nat
    BY <2>2
  <2>3. CASE m = 0
    <3> DEFINE g == [n \in 0 .. 0 |-> [p \in DOMAIN next |-> <<p>>]]
    <3>1. \A n \in 0 .. 0 : Round(next, g, n) = [p \in DOMAIN next |-> <<p>>]
      BY DEF Round
    <3>2. g = [n \in 0 .. 0 |-> Round(next, g, n)]
      BY <3>1
    <3> QED BY <2>2, <2>3, <3>2
  <2>4. CASE m # 0
    <3>1. m - 1 \in Nat /\ m - 1 \notin Bad
      BY <2>2, <2>4
    <3>2. PICK g : g = [n \in 0 .. m - 1 |-> Round(next, g, n)]
      BY <3>1
    <3> DEFINE f == [n \in 0 .. m |-> IF n = m THEN Round(next, g, m) ELSE g[n]]
    <3>3. \A n \in 0 .. m : Round(next, f, n) = Round(next, g, n)
      <4>1. SUFFICES ASSUME NEW n \in 0 .. m
                     PROVE  Round(next, f, n) = Round(next, g, n)
        OBVIOUS
      <4>2. CASE n = 0
        BY <4>2 DEF Round
      <4>3. CASE n # 0
        <5>1. f[n - 1] = g[n - 1]
          BY <3>1, <4>3
        <5> QED BY <5>1 DEF Round
      <4> QED BY <4>2, <4>3
    <3>4. \A n \in 0 .. m : f[n] = Round(next, g, n)
      <4> HIDE DEF Bad
      <4>1. SUFFICES ASSUME NEW n \in 0 .. m PROVE f[n] = Round(next, g, n)
        OBVIOUS
      <4>2. CASE n = m
        BY <4>2
      <4>3. CASE n # m
        <5>1. n \in 0 .. m - 1
          BY <3>1, <4>3
        <5>2. g[n] = Round(next, g, n)
          BY <3>2, <5>1
        <5> QED BY <5>2, <4>3
      <4> QED BY <4>2, <4>3
    <3>5. f = [n \in 0 .. m |-> f[n]]
      OBVIOUS
    <3> HIDE DEF f
    <3>6. f = [n \in 0 .. m |-> Round(next, f, n)]
      BY <3>3, <3>4, <3>5
    <3> QED BY <2>2, <3>6
  <2> QED BY <2>3, <2>4
<1> QED BY <1>1

(* The nodes that Trail visits are one node and then those that it visits  *)
(* from the next with one round less.                                      *)
LEMMA TrailRounds ==
    ASSUME NEW next, NEW start, NEW rounds \in Nat
    PROVE  \E g : /\ Trail(next, start, rounds) =
                        IF start \in DOMAIN next THEN g[rounds][start] ELSE << >>
                  /\ \A n \in 0 .. rounds : \A p \in DOMAIN next :
                        g[n][p] = IF n = 0 \/ next[p] \notin DOMAIN next THEN <<p>>
                                  ELSE <<p>> \o g[n - 1][next[p]]
<1> DEFINE g == CHOOSE f :
                    f = [n \in 0 .. rounds |-> [p \in DOMAIN next |->
                            IF n = 0 \/ next[p] \notin DOMAIN next THEN <<p>>
                            ELSE <<p>> \o f[n - 1][next[p]]]]
<1>1. \E f : f = [n \in 0 .. rounds |-> [p \in DOMAIN next |->
                            IF n = 0 \/ next[p] \notin DOMAIN next THEN <<p>>
                            ELSE <<p>> \o f[n - 1][next[p]]]]
  BY RoundsExist, Zenon DEF Round
<1>2. g = [n \in 0 .. rounds |-> [p \in DOMAIN next |->
                            IF n = 0 \/ next[p] \notin DOMAIN next THEN <<p>>
                            ELSE <<p>> \o g[n - 1][next[p]]]]
  BY <1>1, Zenon
<1>3. Trail(next, start, rounds) =
          IF start \in DOMAIN next THEN g[rounds][start] ELSE << >>
  BY Zenon DEF Trail
<1> HIDE DEF g
<1>4. \A n \in 0 .. rounds : g[n] = [p \in DOMAIN next |->
                            IF n = 0 \/ next[p] \notin DOMAIN next THEN <<p>>
                            ELSE <<p>> \o g[n - 1][next[p]]]
  BY <1>2, Zenon
<1>5. \A n \in 0 .. rounds : \A p \in DOMAIN next :
          g[n][p] = IF n = 0 \/ next[p] \notin DOMAIN next THEN <<p>>
                    ELSE <<p>> \o g[n - 1][next[p]]
  BY <1>4, Zenon
<1> QED BY <1>3, <1>5, Zenon
(* A sequence that runs through a set of numbers in ascending order.       *)
Enumerates(s, S) ==
    /\ s \in Seq(S)
    /\ \A i, j \in 1 .. Len(s) : i < j => s[i] < s[j]
    /\ \A q \in S : \E i \in 1 .. Len(s) : s[i] = q

(* One node is the whole of a walk that has no next.                       *)
LEMMA EnumeratesOne ==
    ASSUME NEW p
    PROVE  Enumerates(<<p>>, {p})
BY DEF Enumerates

(* A node before a walk of all the nodes above it makes a walk of one more.*)
LEMMA EnumeratesMore ==
    ASSUME NEW S \in SUBSET Nat, NEW p \in S, NEW m \in S, p < m,
           \A q \in S : q <= p \/ m <= q,
           NEW t, Enumerates(t, {q \in S : m <= q})
    PROVE  Enumerates(<<p>> \o t, {q \in S : p <= q})
<1> DEFINE s == <<p>> \o t
           T == {q \in S : p <= q}
<1>1. t \in Seq(T)
  <2>1. {q \in S : m <= q} \subseteq T
    <3>1. p \in Int /\ m \in Int /\ \A q \in S : q \in Int
      OBVIOUS
    <3>2. \A q \in S : m <= q => p <= q
      BY <3>1
    <3> QED BY <3>2
  <2>2. \A i \in 1 .. Len(t) : t[i] \in T
    BY <2>1 DEF Enumerates
  <2>3. Len(t) \in Nat /\ t \in [1 .. Len(t) -> {q \in S : m <= q}]
    BY DEF Enumerates
  <2> QED BY <2>2, <2>3
<1>2. s \in Seq(T) /\ Len(s) = 1 + Len(t) /\ Len(t) \in Nat
  BY <1>1
<1>3. s[1] = p /\ \A i \in 1 .. Len(t) : s[i + 1] = t[i] /\ t[i] \in S /\ m <= t[i]
  <2>1. t \in Seq({q \in S : m <= q})
    BY DEF Enumerates
  <2> QED BY <1>2, <2>1
<1>4. \A i \in 2 .. Len(s) : i - 1 \in 1 .. Len(t) /\ s[i] = t[i - 1] /\ s[i] \in S /\ m <= s[i]
  BY <1>2, <1>3
<1> HIDE DEF s
<1>5. \A i, j \in 1 .. Len(s) : i < j => s[i] < s[j]
  <2>1. SUFFICES ASSUME NEW i \in 1 .. Len(s), NEW j \in 1 .. Len(s), i < j
                 PROVE  s[i] < s[j]
    OBVIOUS
  <2>2. j \in 2 .. Len(s)
    BY <2>1, <1>2
  <2>3. CASE i = 1
    <3>1. s[i] = p /\ m <= s[j] /\ s[j] \in S
      BY <2>2, <2>3, <1>3, <1>4
    <3>2. p \in Nat /\ m \in Nat /\ s[j] \in Nat
      BY <3>1
    <3> QED BY <3>1, <3>2
  <2>4. CASE i # 1
    <3>1. i \in 2 .. Len(s) /\ i - 1 < j - 1
      BY <2>1, <2>4, <1>2
    <3>2. s[i] = t[i - 1] /\ s[j] = t[j - 1]
          /\ i - 1 \in 1 .. Len(t) /\ j - 1 \in 1 .. Len(t)
      BY <2>2, <3>1, <1>4
    <3>3. t[i - 1] < t[j - 1]
      BY <3>1, <3>2 DEF Enumerates
    <3> QED BY <3>2, <3>3
  <2> QED BY <2>3, <2>4
<1>6. \A q \in T : \E i \in 1 .. Len(s) : s[i] = q
  <2>1. SUFFICES ASSUME NEW q \in T PROVE \E i \in 1 .. Len(s) : s[i] = q
    OBVIOUS
  <2>2. CASE q = p
    BY <2>2, <1>2, <1>3
  <2>3. CASE q # p
    <3>1. q \in {r \in S : m <= r}
      BY <2>3
    <3>2. PICK i \in 1 .. Len(t) : t[i] = q
      BY <3>1 DEF Enumerates
    <3>3. i + 1 \in 1 .. Len(s) /\ s[i + 1] = q
      BY <3>2, <1>2, <1>3
    <3> QED BY <3>3
  <2> QED BY <2>2, <2>3
<1> QED BY <1>2, <1>5, <1>6 DEF s, Enumerates

(* A walk along a set in ascending order comes to every member.            *)
Ascends(next, start, S) ==
    /\ S \subseteq DOMAIN next
    /\ start \in S /\ \A q \in S : start <= q
    /\ \A p \in S : \/ next[p] \notin DOMAIN next /\ \A q \in S : q <= p
                    \/ next[p] \in S /\ p < next[p]
                        /\ \A q \in S : q <= p \/ next[p] <= q

(* A walk that goes up to the next member of S each time visits the members*)
(* of S in order, whatever the bound on the rounds that N leaves.          *)
LEMMA TrailEnumerates ==
    ASSUME NEW next, NEW start, NEW N \in Nat, NEW S \in SUBSET (1 .. N),
           Ascends(next, start, S)
    PROVE  Enumerates(Trail(next, start, N), S)
<1> USE DEF Ascends
<1>1. PICK g : /\ Trail(next, start, N) =
                        IF start \in DOMAIN next THEN g[N][start] ELSE << >>
               /\ \A n \in 0 .. N : \A p \in DOMAIN next :
                        g[n][p] = IF n = 0 \/ next[p] \notin DOMAIN next THEN <<p>>
                                  ELSE <<p>> \o g[n - 1][next[p]]
  BY TrailRounds
<1> DEFINE From(p) == {q \in S : p <= q}
           Done(k) == \A p \in S : N - p <= k =>
                        \A n \in 0 .. N : N - p <= n => Enumerates(g[n][p], From(p))
           Bad == {k \in Nat : ~ Done(k)}
<1>2. Bad = {}
  <2>1. SUFFICES ASSUME Bad # {} PROVE FALSE
    OBVIOUS
  <2>2. PICK k \in Bad : \A i \in Bad : k <= i
    BY <2>1, LeastMember
  <2> k \in Nat
    BY <2>2
  <2>3. PICK p \in S, n \in 0 .. N :
            N - p <= k /\ N - p <= n /\ ~ Enumerates(g[n][p], From(p))
    BY <2>2
  <2> p \in 1 .. N
    OBVIOUS
  <2>4. CASE next[p] \notin DOMAIN next
    <3>1. \A q \in S : q <= p
      BY <2>4
    <3>2. From(p) = {p}
      <4>1. \A q \in S : q \in Int
        OBVIOUS
      <4>2. \A q \in S : p <= q <=> q = p
        BY <3>1, <4>1
      <4> QED BY <4>2
    <3>3. g[n][p] = <<p>>
      BY <1>1, <2>4
    <3> QED BY <2>3, <3>2, <3>3, EnumeratesOne
  <2>5. CASE next[p] \in DOMAIN next
    <3>1. next[p] \in S /\ p < next[p] /\ \A q \in S : q <= p \/ next[p] <= q
      BY <2>5
    <3>2. next[p] \in 1 .. N
      BY <3>1
    <3>3. n # 0 /\ k # 0 /\ n - 1 \in 0 .. N /\ k - 1 \in Nat
          /\ N - next[p] <= n - 1 /\ N - next[p] <= k - 1
      BY <2>3, <3>1, <3>2
    <3>4. Done(k - 1)
      BY <2>2, <3>3
    <3>5. Enumerates(g[n - 1][next[p]], From(next[p]))
      BY <3>1, <3>3, <3>4
    <3>6. g[n][p] = <<p>> \o g[n - 1][next[p]]
      BY <1>1, <2>5, <3>3
    <3>7. Enumerates(<<p>> \o g[n - 1][next[p]], From(p))
      BY <3>1, <3>5, EnumeratesMore
    <3> QED BY <2>3, <3>6, <3>7
  <2> QED BY <2>4, <2>5
<1>3. Done(N)
  BY <1>2
<1>4. N \in 0 .. N /\ N - start <= N /\ From(start) = S
  <2>1. start \in 1 .. N
    OBVIOUS
  <2>2. N \in 0 .. N /\ N - start <= N
    BY <2>1
  <2>3. From(start) = S
    OBVIOUS
  <2> QED BY <2>2, <2>3
<1>5. Enumerates(g[N][start], From(start))
  BY <1>3, <1>4
<1> QED BY <1>1, <1>4, <1>5

-----------------------------------------------------------------------------
(* Lists by size.  Powers of two up to the last that a page can hold.      *)

(* 2 ^ k is a natural number and grows with k.                             *)
LEMMA Powers ==
    /\ \A k \in 0 .. 29 : 2 ^ k \in Nat
    /\ \A j, k \in 0 .. 29 : j <= k => 2 ^ j <= 2 ^ k
<1> DEFINE P(k) == 2 ^ k
<1>1. /\ P(0) = 1 /\ P(1) = 2 /\ P(2) = 4 /\ P(3) = 8 /\ P(4) = 16
      /\ P(5) = 32 /\ P(6) = 64 /\ P(7) = 128 /\ P(8) = 256 /\ P(9) = 512
  OBVIOUS
<1>2. /\ P(10) = 1024 /\ P(11) = 2048 /\ P(12) = 4096 /\ P(13) = 8192
      /\ P(14) = 16384 /\ P(15) = 32768 /\ P(16) = 65536 /\ P(17) = 131072
      /\ P(18) = 262144 /\ P(19) = 524288
  OBVIOUS
<1>3. /\ P(20) = 1048576 /\ P(21) = 2097152 /\ P(22) = 4194304
      /\ P(23) = 8388608 /\ P(24) = 16777216 /\ P(25) = 33554432
      /\ P(26) = 67108864 /\ P(27) = 134217728 /\ P(28) = 268435456
      /\ P(29) = 536870912
  OBVIOUS
<1> HIDE DEF P
<1>4. \A k \in 0 .. 29 : P(k) \in Nat
  BY <1>1, <1>2, <1>3
<1>5. \A j, k \in 0 .. 29 : j <= k => P(j) <= P(k)
  BY <1>1, <1>2, <1>3
<1> QED BY <1>4, <1>5 DEF P

(* mm_init makes two lists at least: a page holds the smallest payload.    *)
LEMMA LevelsType == Levels \in Nat /\ Levels >= 2
<1> DEFINE D == {k \in 0 .. 29 : MinPayload * 2 ^ k <= PageWords}
<1>1. IsFiniteSet(D)
  <2>1. IsFiniteSet(0 .. 29)
    BY 0 \in Int, 29 \in Int, FS_Interval
  <2> QED BY <2>1, FS_Subset
<1>2. 0 \in D
  <2>1. 0 \in 0 .. 29 /\ MinPayload * 2 ^ 0 = 2
    BY DEF MinPayload
  <2> QED BY <2>1, SizesAssumption
<1>3. Cardinality(D) \in Nat /\ Cardinality(D) # 0
  BY <1>1, <1>2, FS_CardinalityType, FS_EmptySet
<1> QED BY <1>3 DEF Levels

(* get_segrelist_level_by_size returns an index of the array of roots.     *)
LEMMA LevelType ==
    ASSUME NEW payload
    PROVE  Level(payload) \in 0 .. Levels - 1
<1> DEFINE E == {k \in 0 .. Levels - 2 : 2 ^ k <= (payload - 1) \div MinPayload}
<1>1. IsFiniteSet(0 .. Levels - 2) /\ Cardinality(0 .. Levels - 2) = Levels - 1
  <2>1. 0 \in Int /\ Levels - 2 \in Int
    BY LevelsType
  <2>2. /\ IsFiniteSet(0 .. Levels - 2)
        /\ Cardinality(0 .. Levels - 2) = IF 0 > Levels - 2 THEN 0 ELSE Levels - 2 - 0 + 1
    BY <2>1, FS_Interval
  <2> QED BY <2>2, LevelsType
<1>2. IsFiniteSet(E) /\ Cardinality(E) <= Levels - 1
  BY <1>1, FS_Subset
<1>3. Cardinality(E) \in Nat
  BY <1>2, FS_CardinalityType
<1> QED BY <1>2, <1>3, LevelsType DEF Level

(* Every list but the last is for payloads up to a page.                   *)
LEMMA LevelsBounded ==
    /\ Levels - 1 = Cardinality({k \in 0 .. 29 : MinPayload * 2 ^ k <= PageWords})
    /\ \A k \in 0 .. Levels - 2 : k \in 0 .. 29 /\ MinPayload * 2 ^ k <= PageWords
<1> DEFINE D == {k \in 0 .. 29 : MinPayload * 2 ^ k <= PageWords}
<1>1. IsFiniteSet(D) /\ Cardinality(D) \in Nat
  <2>1. IsFiniteSet(0 .. 29)
    BY 0 \in Int, 29 \in Int, FS_Interval
  <2> QED BY <2>1, FS_Subset, FS_CardinalityType
<1>2. Levels - 1 = Cardinality(D)
  BY <1>1 DEF Levels
<1>3. \A k \in 0 .. Levels - 2 : k \in D
  <2>1. SUFFICES ASSUME NEW k \in 0 .. Levels - 2, k \notin D
                 PROVE  FALSE
    OBVIOUS
  <2>2. D \subseteq 0 .. k - 1
    <3>1. SUFFICES ASSUME NEW j \in D, j >= k PROVE FALSE
      BY LevelsType
    <3>2. k \in 0 .. 29 /\ j \in 0 .. 29 /\ k <= j
      BY <3>1, LevelsType
    <3>3. 2 ^ k <= 2 ^ j /\ 2 ^ k \in Nat /\ 2 ^ j \in Nat
      BY <3>2, Powers
    <3> PageWords \in Nat
      BY SizesAssumption
    <3>4. 2 * 2 ^ k <= PageWords
      <4> DEFINE a == 2 ^ k  b == 2 ^ j
      <4>1. 2 * b <= PageWords
        BY DEF MinPayload
      <4>2. a <= b /\ a \in Nat /\ b \in Nat
        BY <3>3
      <4> HIDE DEF a, b
      <4>3. 2 * a <= PageWords
        BY <4>1, <4>2, PageWords \in Nat
      <4> QED BY <4>3 DEF a
    <3> QED BY <2>1, <3>2, <3>4 DEF MinPayload
  <2>3. k \in Int /\ 0 \in Int /\ k - 1 \in Int
    BY LevelsType
  <2>4. IsFiniteSet(0 .. k - 1) /\ Cardinality(0 .. k - 1) = k
    <3>1. /\ IsFiniteSet(0 .. k - 1)
          /\ Cardinality(0 .. k - 1) = IF 0 > k - 1 THEN 0 ELSE k - 1 - 0 + 1
      BY <2>3, FS_Interval
    <3> QED BY <3>1, LevelsType
  <2>5. Cardinality(D) <= k
    BY <2>2, <2>4, FS_Subset
  <2> QED BY <1>1, <1>2, <2>5, LevelsType
<1> QED BY <1>2, <1>3

(* A larger payload is in a higher list, and what is not in the last list  *)
(* is not larger than a page.                                              *)
LEMMA LevelMonotone ==
    ASSUME NEW a \in Int, NEW b \in Int, a <= b
    PROVE  Level(a) <= Level(b)
<1> DEFINE E(x) == {k \in 0 .. Levels - 2 : 2 ^ k <= (x - 1) \div MinPayload}
<1>1. (a - 1) \div MinPayload <= (b - 1) \div MinPayload
      /\ (a - 1) \div MinPayload \in Int /\ (b - 1) \div MinPayload \in Int
  BY DEF MinPayload
<1>2. \A k \in 0 .. Levels - 2 : 2 ^ k \in Nat
  BY LevelsBounded, Powers
<1>3. E(a) \subseteq E(b)
  <2>1. SUFFICES ASSUME NEW k \in E(a) PROVE k \in E(b)
    OBVIOUS
  <2> DEFINE m == 2 ^ k  u == (a - 1) \div MinPayload  v == (b - 1) \div MinPayload
  <2>2. m \in Nat /\ m <= u /\ u <= v /\ u \in Int /\ v \in Int
    BY <1>1, <1>2
  <2> HIDE DEF m, u, v
  <2>3. m <= v
    BY <2>2
  <2> QED BY <2>3 DEF m, v
<1>4. IsFiniteSet(E(b))
  <2>1. IsFiniteSet(0 .. Levels - 2)
    BY LevelsType, FS_Interval
  <2> QED BY <2>1, FS_Subset
<1>5. Cardinality(E(a)) <= Cardinality(E(b))
  BY <1>3, <1>4, FS_Subset
<1> QED BY <1>5 DEF Level

(* get_segrelist_level_by_size: what belongs in a list before the last is  *)
(* not larger than a page, which extend_heap relies on.                    *)
LEMMA LevelLast ==
    ASSUME NEW payload \in Int, Level(payload) # Levels - 1
    PROVE  payload <= PageWords
<1> DEFINE E == {k \in 0 .. Levels - 2 : 2 ^ k <= (payload - 1) \div MinPayload}
<1>1. IsFiniteSet(0 .. Levels - 2) /\ Cardinality(0 .. Levels - 2) = Levels - 1
  <2>1. 0 \in Int /\ Levels - 2 \in Int
    BY LevelsType
  <2>2. /\ IsFiniteSet(0 .. Levels - 2)
        /\ Cardinality(0 .. Levels - 2) = IF 0 > Levels - 2 THEN 0 ELSE Levels - 2 - 0 + 1
    BY <2>1, FS_Interval
  <2> QED BY <2>2, LevelsType
<1>2. E # 0 .. Levels - 2
  BY <1>1 DEF Level
<1>3. PICK k \in 0 .. Levels - 2 : ~ (2 ^ k <= (payload - 1) \div MinPayload)
  BY <1>2
<1>4. 2 ^ k \in Nat /\ MinPayload * 2 ^ k <= PageWords
  BY LevelsBounded, Powers
<1> DEFINE m == 2 ^ k
<1>5. m \in Nat /\ 2 * m <= PageWords /\ ~ (m <= (payload - 1) \div 2)
  BY <1>3, <1>4 DEF MinPayload
<1>6. PageWords \in Nat
  BY SizesAssumption
<1> HIDE DEF m
<1> QED BY <1>5, <1>6

-----------------------------------------------------------------------------
(* Heaps.  What a word may hold, and which words a write leaves alone.      *)

(* What a word may hold, and the heaps of such words.                      *)
HeaderCells == [kind : {"header"}, size : Int, prev : {0, 1}, alloc : {0, 1}]
LinkCells == [kind : {"links"}, next : Nat, prev : Nat]
DataCells == [kind : {"data"}, id : Ids, k : Int]
Cells == HeaderCells \cup LinkCells \cup DataCells \cup {Junk}
Heaps == [mem : Seq(Cells), roots : [0 .. Levels - 1 -> Nat]]

NextOf(h, p) == LinksAt(h, p).next
PrevOf(h, p) == LinksAt(h, p).prev

(* g is h but for words of V.                                              *)
Changes(h, g, V) ==
    /\ g \in Heaps /\ Len(g.mem) = Len(h.mem)
    /\ \A a \in 1 .. Len(h.mem) : a \in V \/ g.mem[a] = h.mem[a]

(* The kind of a word says which record it is.                             *)
LEMMA CellKinds ==
    /\ \A c \in Cells : c.kind = "header" => c \in HeaderCells
    /\ \A c \in Cells : c.kind = "links" => c \in LinkCells
    /\ \A c \in Cells : c.kind \in {"header", "links", "data", "junk"}
<1>1. \A c \in HeaderCells : c.kind = "header"
  BY DEF HeaderCells
<1>2. \A c \in LinkCells : c.kind = "links"
  BY DEF LinkCells
<1>3. \A c \in DataCells : c.kind = "data"
  BY DEF DataCells
<1>4. Junk.kind = "junk"
  BY DEF Junk
<1> QED BY <1>1, <1>2, <1>3, <1>4 DEF Cells

(* What write_header writes is a word of the heap.                         *)
LEMMA HeaderType ==
    ASSUME NEW size \in Int, NEW prev \in {0, 1}, NEW alloc \in {0, 1}
    PROVE  /\ Header(size, prev, alloc) \in HeaderCells
           /\ Header(size, prev, alloc) \in Cells
           /\ Header(size, prev, alloc).kind = "header"
           /\ Header(size, prev, alloc).size = size
           /\ Header(size, prev, alloc).prev = prev
           /\ Header(size, prev, alloc).alloc = alloc
BY DEF Header, HeaderCells, Cells

(* What a block's struct of links holds is a word of the heap.             *)
LEMMA LinksType ==
    ASSUME NEW next \in Nat, NEW prev \in Nat
    PROVE  /\ Links(next, prev) \in Cells
           /\ Links(next, prev).kind = "links"
           /\ Links(next, prev).next = next
           /\ Links(next, prev).prev = prev
BY DEF Links, LinkCells, Cells

(* The parts of a heap have their types.                                   *)
LEMMA HeapType ==
    ASSUME NEW h \in Heaps
    PROVE  /\ h.mem \in Seq(Cells) /\ Len(h.mem) \in Nat /\ DOMAIN h.mem = 1 .. Len(h.mem)
           /\ \A a \in 1 .. Len(h.mem) : h.mem[a] \in Cells
           /\ h.roots \in [0 .. Levels - 1 -> Nat]
           /\ h = [mem |-> h.mem, roots |-> h.roots]
BY DEF Heaps

(* GET_SIZE, GET_ALLOC and GET_PREV_ALLOC read numbers and bits at any     *)
(* word.                                                                   *)
LEMMA TagsType ==
    ASSUME NEW h \in Heaps, NEW p
    PROVE  /\ HeaderAt(h, p) \in HeaderCells
           /\ Size(h, p) \in Int /\ Alloc(h, p) \in {0, 1} /\ PrevAlloc(h, p) \in {0, 1}
<1>1. HeaderAt(h, p) \in HeaderCells
  <2>1. CASE p \in DOMAIN h.mem /\ h.mem[p].kind = "header"
    <3>1. h.mem[p] \in HeaderCells
      BY <2>1, HeapType, CellKinds
    <3> QED BY <2>1, <3>1 DEF HeaderAt
  <2>2. CASE ~(p \in DOMAIN h.mem /\ h.mem[p].kind = "header")
    <3>1. HeaderAt(h, p) = Header(0, 1, 1)
      BY <2>2 DEF HeaderAt
    <3> QED BY <3>1, HeaderType
  <2> QED BY <2>1, <2>2
<1> QED BY <1>1 DEF Size, Alloc, PrevAlloc, HeaderCells

(* The links of a block, read at any word, are addresses or NULL.          *)
LEMMA LinksAtType ==
    ASSUME NEW h \in Heaps, NEW p \in Int, p + 1 \in 1 .. Len(h.mem)
    PROVE  NextOf(h, p) \in Nat /\ PrevOf(h, p) \in Nat
<1>1. CASE h.mem[p + 1].kind = "links"
  <2>1. h.mem[p + 1] \in LinkCells
    BY <1>1, HeapType, CellKinds
  <2> QED BY <1>1, <2>1 DEF NextOf, PrevOf, LinksAt, LinkCells
<1>2. CASE h.mem[p + 1].kind # "links"
  BY <1>2 DEF NextOf, PrevOf, LinksAt, Links, NULL
<1> QED BY <1>1, <1>2

(* A word that did not change is read as before.                           *)
LEMMA ChangesReads ==
    ASSUME NEW h \in Heaps, NEW g, NEW V, Changes(h, g, V)
    PROVE  /\ \A a \in 1 .. Len(h.mem) : a \in V \/
                /\ Size(g, a) = Size(h, a) /\ Alloc(g, a) = Alloc(h, a)
                /\ PrevAlloc(g, a) = PrevAlloc(h, a)
           /\ \A a \in Int : a + 1 \in V \/ a + 1 \notin 1 .. Len(h.mem) \/
                (NextOf(g, a) = NextOf(h, a) /\ PrevOf(g, a) = PrevOf(h, a))
<1>1. DOMAIN h.mem = 1 .. Len(h.mem) /\ DOMAIN g.mem = 1 .. Len(h.mem)
  BY HeapType DEF Changes
<1>2. \A a \in 1 .. Len(h.mem) : a \in V \/ HeaderAt(g, a) = HeaderAt(h, a)
  BY <1>1 DEF Changes, HeaderAt
<1>3. \A a \in Int : a + 1 \in V \/ a + 1 \notin 1 .. Len(h.mem) \/ LinksAt(g, a) = LinksAt(h, a)
  BY DEF Changes, LinksAt
<1>4. \A a \in 1 .. Len(h.mem) : a \in V \/
        /\ Size(g, a) = Size(h, a) /\ Alloc(g, a) = Alloc(h, a)
        /\ PrevAlloc(g, a) = PrevAlloc(h, a)
  BY <1>2 DEF Size, Alloc, PrevAlloc
<1>5. \A a \in Int : a + 1 \in V \/ a + 1 \notin 1 .. Len(h.mem) \/
        (NextOf(g, a) = NextOf(h, a) /\ PrevOf(g, a) = PrevOf(h, a))
  BY <1>3 DEF NextOf, PrevOf
<1> QED BY <1>4, <1>5

With(h, a, c) == [h EXCEPT !.mem[a] = c]

(* One word is stored and no other changes.                                *)
LEMMA WithIs ==
    ASSUME NEW h \in Heaps, NEW p \in 1 .. Len(h.mem), NEW c \in Cells
    PROVE  /\ Changes(h, With(h, p, c), {p}) /\ With(h, p, c).roots = h.roots
           /\ With(h, p, c).mem[p] = c
<1> DEFINE g == With(h, p, c)
<1>1. g = [mem |-> [h.mem EXCEPT ![p] = c], roots |-> h.roots]
  <2>1. g = [h EXCEPT !.mem = [h.mem EXCEPT ![p] = c]]
    BY DEF With
  <2> QED BY <2>1, HeapType
<1>2. [h.mem EXCEPT ![p] = c] \in Seq(Cells) /\ Len([h.mem EXCEPT ![p] = c]) = Len(h.mem)
  BY HeapType, ExceptSeq
<1>3. g \in Heaps
  BY <1>1, <1>2, HeapType DEF Heaps
<1> QED BY <1>1, <1>2, <1>3, HeapType DEF Changes

(* g is h with another header at p, or with other links in the block at p.  *)
HeaderChange(h, g, p, size, prev, alloc) ==
    /\ Changes(h, g, {p}) /\ g.roots = h.roots
    /\ g.mem[p] = Header(size, prev, alloc)
    /\ Size(g, p) = size /\ PrevAlloc(g, p) = prev /\ Alloc(g, p) = alloc

LinksChange(h, g, p, next, prev) ==
    /\ Changes(h, g, {p + 1}) /\ g.roots = h.roots
    /\ \A q \in 1 .. Len(h.mem) - 1 :
        /\ NextOf(g, q) = IF q = p THEN next ELSE NextOf(h, q)
        /\ PrevOf(g, q) = IF q = p THEN prev ELSE PrevOf(h, q)

(* write_header changes the header of one block.                           *)
LEMMA WriteHeaderIs ==
    ASSUME NEW h \in Heaps, NEW p \in 1 .. Len(h.mem),
           NEW size \in Int, NEW prev \in {0, 1}, NEW alloc \in {0, 1}
    PROVE  HeaderChange(h, WriteHeader(h, p, size, prev, alloc), p, size, prev, alloc)
<1> DEFINE g == WriteHeader(h, p, size, prev, alloc)
           c == Header(size, prev, alloc)
<1>1. c \in Cells
  BY HeaderType
<1>2. g = With(h, p, c)
  BY DEF WriteHeader, With
<1> HIDE DEF g, c
<1>3. Changes(h, g, {p}) /\ g.roots = h.roots /\ g.mem[p] = c
  BY <1>1, <1>2, WithIs
<1>4. p \in DOMAIN g.mem
  BY <1>3, HeapType DEF Changes
<1>5. HeaderAt(g, p) = c
  <2>1. c.kind = "header"
    BY HeaderType DEF c
  <2> QED BY <1>3, <1>4, <2>1 DEF HeaderAt
<1>6. c.size = size /\ c.prev = prev /\ c.alloc = alloc
  BY HeaderType DEF c
<1>7. Size(g, p) = size /\ PrevAlloc(g, p) = prev /\ Alloc(g, p) = alloc
  BY <1>5, <1>6 DEF Size, PrevAlloc, Alloc
<1> QED BY <1>3, <1>7 DEF HeaderChange, g, c

(* Storing both links of a block changes those of no other.                *)
LEMMA WriteLinksIs ==
    ASSUME NEW h \in Heaps, NEW p \in 1 .. Len(h.mem) - 1,
           NEW next \in Nat, NEW prev \in Nat
    PROVE  LinksChange(h, WriteLinks(h, p, next, prev), p, next, prev)
<1> DEFINE g == WriteLinks(h, p, next, prev)
           c == Links(next, prev)
<1>1. c \in Cells /\ p \in Int /\ p + 1 \in 1 .. Len(h.mem)
  BY LinksType, HeapType
<1>2. g = With(h, p + 1, c)
  BY DEF WriteLinks, With
<1> HIDE DEF g, c
<1>3. Changes(h, g, {p + 1}) /\ g.roots = h.roots /\ g.mem[p + 1] = c
  BY <1>1, <1>2, WithIs
<1>4. LinksAt(g, p) = c
  <2>1. c.kind = "links"
    BY LinksType DEF c
  <2> QED BY <1>3, <2>1 DEF LinksAt
<1>5. c.next = next /\ c.prev = prev
  BY LinksType DEF c
<1>6. NextOf(g, p) = next /\ PrevOf(g, p) = prev
  BY <1>4, <1>5 DEF NextOf, PrevOf
<1>7. ASSUME NEW q \in 1 .. Len(h.mem) - 1, q # p
      PROVE  NextOf(g, q) = NextOf(h, q) /\ PrevOf(g, q) = PrevOf(h, q)
  <2>1. q \in Int /\ q + 1 \in 1 .. Len(h.mem) /\ q + 1 \notin {p + 1}
    BY <1>1, <1>7, HeapType
  <2> QED BY <1>3, <2>1, ChangesReads
<1>8. LinksChange(h, g, p, next, prev)
  BY <1>3, <1>6, <1>7 DEF LinksChange
<1> QED BY <1>8 DEF g

(* p->next = next leaves the other link of p as it was.                    *)
LEMMA ChangeNextIs ==
    ASSUME NEW h \in Heaps, NEW p \in 1 .. Len(h.mem) - 1, NEW next \in Nat
    PROVE  LinksChange(h, ChangeNext(h, p, next), p, next, PrevOf(h, p))
<1>1. p \in Int /\ p + 1 \in 1 .. Len(h.mem)
  BY HeapType
<1>2. PrevOf(h, p) \in Nat
  BY <1>1, LinksAtType
<1>3. ChangeNext(h, p, next) = WriteLinks(h, p, next, PrevOf(h, p))
  BY DEF ChangeNext, PrevOf
<1> QED BY <1>2, <1>3, WriteLinksIs

(* p->prev = prev leaves the other link of p as it was.                    *)
LEMMA ChangePrevIs ==
    ASSUME NEW h \in Heaps, NEW p \in 1 .. Len(h.mem) - 1, NEW prev \in Nat
    PROVE  LinksChange(h, ChangePrev(h, p, prev), p, NextOf(h, p), prev)
<1>1. p \in Int /\ p + 1 \in 1 .. Len(h.mem)
  BY HeapType
<1>2. NextOf(h, p) \in Nat
  BY <1>1, LinksAtType
<1>3. ChangePrev(h, p, prev) = WriteLinks(h, p, NextOf(h, p), prev)
  BY DEF ChangePrev, NextOf
<1> QED BY <1>2, <1>3, WriteLinksIs

(* change_header_alloc leaves the size and the other bit as they were.     *)
LEMMA ChangeAllocIs ==
    ASSUME NEW h \in Heaps, NEW p \in 1 .. Len(h.mem), NEW alloc \in {0, 1}
    PROVE  HeaderChange(h, ChangeAlloc(h, p, alloc), p, Size(h, p), PrevAlloc(h, p), alloc)
<1>1. Size(h, p) \in Int /\ PrevAlloc(h, p) \in {0, 1}
  BY TagsType
<1>2. ChangeAlloc(h, p, alloc) = WriteHeader(h, p, Size(h, p), PrevAlloc(h, p), alloc)
  BY DEF ChangeAlloc
<1> QED BY <1>1, <1>2, WriteHeaderIs

(* change_header_prealloc leaves the size and the other bit as they were.  *)
LEMMA ChangePrevAllocIs ==
    ASSUME NEW h \in Heaps, NEW p \in 1 .. Len(h.mem), NEW prev \in {0, 1}
    PROVE  HeaderChange(h, ChangePrevAlloc(h, p, prev), p, Size(h, p), prev, Alloc(h, p))
<1>1. Size(h, p) \in Int /\ Alloc(h, p) \in {0, 1}
  BY TagsType
<1>2. ChangePrevAlloc(h, p, prev) = WriteHeader(h, p, Size(h, p), prev, Alloc(h, p))
  BY DEF ChangePrevAlloc
<1> QED BY <1>1, <1>2, WriteHeaderIs

(* Two changes in a row change the words that either does.                 *)
LEMMA ChangesThen ==
    ASSUME NEW h, NEW g, NEW k, NEW V, NEW B, NEW C,
           Changes(h, g, V), Changes(g, k, B), V \subseteq C, B \subseteq C
    PROVE  Changes(h, k, C)
BY DEF Changes

(* Another root for list l.                                                *)
SetRoot(h, l, p) == [h EXCEPT !.roots[l] = p]

(* One root is stored and no word of the heap changes.                     *)
LEMMA SetRootIs ==
    ASSUME NEW h \in Heaps, NEW l \in 0 .. Levels - 1, NEW p \in Nat
    PROVE  /\ SetRoot(h, l, p) \in Heaps /\ SetRoot(h, l, p).mem = h.mem
           /\ SetRoot(h, l, p).roots = [h.roots EXCEPT ![l] = p]
<1> DEFINE g == SetRoot(h, l, p)
<1>1. g = [mem |-> h.mem, roots |-> [h.roots EXCEPT ![l] = p]]
  BY HeapType DEF SetRoot
<1>2. [h.roots EXCEPT ![l] = p] \in [0 .. Levels - 1 -> Nat]
  BY HeapType
<1> QED BY <1>1, <1>2, HeapType DEF Heaps

(* Heaps with the same words read the same.                                *)
LEMMA SameWords ==
    ASSUME NEW h, NEW g, g.mem = h.mem
    PROVE  /\ \A p : Size(g, p) = Size(h, p) /\ Alloc(g, p) = Alloc(h, p)
                    /\ PrevAlloc(g, p) = PrevAlloc(h, p)
           /\ \A p : NextOf(g, p) = NextOf(h, p) /\ PrevOf(g, p) = PrevOf(h, p)
<1>1. \A p : HeaderAt(g, p) = HeaderAt(h, p) /\ LinksAt(g, p) = LinksAt(h, p)
  BY DEF HeaderAt, LinksAt
<1> QED BY <1>1 DEF Size, Alloc, PrevAlloc, NextOf, PrevOf

-----------------------------------------------------------------------------
(* The lists.  S is the set of the blocks of one; F[l], of list l.         *)

(* n is the next member of S after p, and b the one before, or NULL.       *)
Succeeds(S, p, n) ==
    \/ n = NULL /\ \A q \in S : q <= p
    \/ n \in S /\ p < n /\ \A q \in S : q <= p \/ n <= q

Precedes(S, p, b) ==
    \/ b = NULL /\ \A q \in S : p <= q
    \/ b \in S /\ b < p /\ \A q \in S : q <= b \/ p <= q

Starts(S, r) == (r = NULL /\ S = {}) \/ (r \in S /\ \A q \in S : r <= q)

Chain(h, S, r) ==
    /\ Starts(S, r)
    /\ \A p \in S : Succeeds(S, p, NextOf(h, p)) /\ Precedes(S, p, PrevOf(h, p))

(* F[l] is list l: the lists are apart, and each is a chain from its root. *)
Linked(h, F) ==
    /\ F \in [0 .. Levels - 1 -> SUBSET (1 .. Len(h.mem) - 1)]
    /\ \A l, m \in 0 .. Levels - 1 : l # m => F[l] \cap F[m] = {}
    /\ \A l \in 0 .. Levels - 1 : Chain(h, F[l], h.roots[l])

(* The words that hold the links of listed blocks.                         *)
LinkWords(F) == {a \in Nat : \E l \in 0 .. Levels - 1 : a - 1 \in F[l]}

(* The loop along a list comes to its blocks in the order of addresses.     *)
LEMMA NodesEnumerate ==
    ASSUME NEW h \in Heaps, NEW F, Linked(h, F), NEW l \in 0 .. Levels - 1
    PROVE  Enumerates(Nodes(h, l), F[l])
<1> DEFINE next == [p \in 1 .. Len(h.mem) - 1 |-> LinksAt(h, p).next]
           S == F[l]
<1>1. Nodes(h, l) = Trail(next, h.roots[l], Len(h.mem))
  BY DEF Nodes
<1>2. Chain(h, S, h.roots[l]) /\ S \in SUBSET (1 .. Len(h.mem) - 1)
  BY DEF Linked
<1>3. DOMAIN next = 1 .. Len(h.mem) - 1 /\ \A p \in S : next[p] = NextOf(h, p)
  BY <1>2 DEF NextOf
<1>4. CASE S = {}
  <2>1. h.roots[l] = NULL
    BY <1>2, <1>4 DEF Chain, Starts
  <2>2. NULL \notin DOMAIN next
    BY <1>3, HeapType DEF NULL
  <2> HIDE DEF next
  <2>3. Trail(next, h.roots[l], Len(h.mem)) = << >>
    BY <2>1, <2>2 DEF Trail
  <2> QED BY <1>1, <1>4, <2>3 DEF Enumerates
<1>5. CASE S # {}
  <2>1. h.roots[l] \in S /\ \A q \in S : h.roots[l] <= q
    BY <1>2, <1>5 DEF Chain, Starts
  <2>2. \A p \in S : \/ next[p] = NULL /\ \A q \in S : q <= p
                     \/ next[p] \in S /\ p < next[p] /\ \A q \in S : q <= p \/ next[p] <= q
    BY <1>2, <1>3 DEF Chain, Succeeds
  <2>3. NULL \notin DOMAIN next /\ Len(h.mem) \in Nat
    BY <1>3, HeapType DEF NULL
  <2>4. S \in SUBSET (1 .. Len(h.mem)) /\ S \subseteq DOMAIN next
    BY <1>2, <1>3, HeapType
  <2> HIDE DEF next, S
  <2>5. Ascends(next, h.roots[l], S)
    <3>1. \A p \in S : \/ next[p] \notin DOMAIN next /\ \A q \in S : q <= p
                       \/ next[p] \in S /\ p < next[p]
                            /\ \A q \in S : q <= p \/ next[p] <= q
      BY <2>2, <2>3, Zenon
    <3> QED BY <2>1, <2>4, <3>1, Zenon DEF Ascends
  <2>6. Enumerates(Trail(next, h.roots[l], Len(h.mem)), S)
    BY <2>3, <2>4, <2>5, TrailEnumerates
  <2> QED BY <1>1, <2>6 DEF S
<1> QED BY <1>4, <1>5

-----------------------------------------------------------------------------
(* A block leaves a list, or joins it between its neighbours.              *)
Skips(h, g, S, p) ==
    \A q \in S : q # p =>
        /\ NextOf(g, q) = IF q = PrevOf(h, p) THEN NextOf(h, p) ELSE NextOf(h, q)
        /\ PrevOf(g, q) = IF q = NextOf(h, p) THEN PrevOf(h, p) ELSE PrevOf(h, q)

(* A list without one of its blocks, whose neighbours are linked to each   *)
(* other, is a list in order.                                              *)
LEMMA ChainWithout ==
    ASSUME NEW h, NEW g, NEW S \in SUBSET (Nat \ {0}), NEW r, Chain(h, S, r),
           NEW p \in S, Skips(h, g, S, p)
    PROVE  Chain(g, S \ {p}, IF r = p THEN NextOf(h, p) ELSE r)
<1> DEFINE T == S \ {p}
           n == NextOf(h, p)
           b == PrevOf(h, p)
<1>0. \A q \in S : q # p =>
          /\ NextOf(g, q) = IF q = b THEN n ELSE NextOf(h, q)
          /\ PrevOf(g, q) = IF q = n THEN b ELSE PrevOf(h, q)
  BY DEF Skips
<1>1. \A q \in S : q \in Nat /\ q # 0
  OBVIOUS
<1>2. \/ n = 0 /\ \A q \in S : q <= p
      \/ n \in T /\ p < n /\ \A q \in S : q <= p \/ n <= q
  BY <1>1 DEF Chain, Succeeds, NULL
<1>3. \/ b = 0 /\ \A q \in S : p <= q
      \/ b \in T /\ b < p /\ \A q \in S : q <= b \/ p <= q
  BY <1>1 DEF Chain, Precedes, NULL
<1> HIDE DEF n, b
<1>4. n \in Nat /\ b \in Nat
  <2>1. 0 \in Nat
    OBVIOUS
  <2> QED BY <1>1, <1>2, <1>3, <2>1, Zenon
<1>5. ASSUME NEW q \in T PROVE Succeeds(T, q, NextOf(g, q))
  <2> DEFINE m == NextOf(h, q)
  <2>1. \/ m = 0 /\ \A x \in S : x <= q
        \/ m \in S /\ q < m /\ \A x \in S : x <= q \/ m <= x
    BY DEF Chain, Succeeds, NULL
  <2>2. q \in Nat /\ q # 0 /\ q # p /\ m \in Nat
    <3>1. 0 \in Nat
      OBVIOUS
    <3> QED BY <1>1, <2>1, <3>1, Zenon
  <2> HIDE DEF m
  <2>3. CASE q = b
    <3>1. NextOf(g, q) = n
      BY <1>0, <2>2, <2>3
    <3>2. b # 0 /\ b < p /\ \A x \in S : x <= q \/ p <= x
      BY <1>3, <2>2, <2>3
    <3>3. CASE n = 0 /\ \A x \in S : x <= p
      <4>1. \A x \in T : x <= q
        <5> TAKE x \in T
        <5> QED BY <1>1, <2>2, <3>2, <3>3
      <4> QED BY <3>1, <3>3, <4>1 DEF Succeeds, NULL
    <3>4. CASE n \in T /\ p < n /\ \A x \in S : x <= p \/ n <= x
      <4>1. \A x \in T : x <= q \/ n <= x
        <5> TAKE x \in T
        <5> QED BY <1>1, <2>2, <3>2, <3>4
      <4>2. q < n
        BY <1>4, <2>2, <2>3, <3>2, <3>4
      <4> QED BY <3>1, <3>4, <4>1, <4>2 DEF Succeeds
    <3> QED BY <1>2, <3>3, <3>4
  <2>4. CASE q # b
    <3>1. NextOf(g, q) = m
      BY <1>0, <2>2, <2>4 DEF m
    <3>2. m # p
      <4> SUFFICES ASSUME m = p PROVE FALSE
        OBVIOUS
      <4>1. q < p /\ \A x \in S : x <= q \/ p <= x
        BY <1>1, <2>1, <2>2
      <4>2. CASE b = 0 /\ \A x \in S : p <= x
        BY <1>1, <2>2, <4>1, <4>2
      <4>3. CASE b \in T /\ b < p /\ \A x \in S : x <= b \/ p <= x
        <5>1. q <= b
          BY <1>1, <2>2, <4>1, <4>3
        <5>2. b <= q
          BY <1>1, <1>4, <2>2, <4>1, <4>3
        <5> QED BY <1>4, <2>2, <2>4, <5>1, <5>2
      <4> QED BY <1>3, <4>2, <4>3
    <3>3. \/ m = 0 /\ \A x \in T : x <= q
          \/ m \in T /\ q < m /\ \A x \in T : x <= q \/ m <= x
      BY <2>1, <3>2
    <3> QED BY <3>1, <3>3 DEF Succeeds, NULL
  <2> QED BY <2>3, <2>4
<1>6. ASSUME NEW q \in T PROVE Precedes(T, q, PrevOf(g, q))
  <2> DEFINE m == PrevOf(h, q)
  <2>1. \/ m = 0 /\ \A x \in S : q <= x
        \/ m \in S /\ m < q /\ \A x \in S : x <= m \/ q <= x
    BY DEF Chain, Precedes, NULL
  <2>2. q \in Nat /\ q # 0 /\ q # p /\ m \in Nat
    <3>1. 0 \in Nat
      OBVIOUS
    <3> QED BY <1>1, <2>1, <3>1, Zenon
  <2> HIDE DEF m
  <2>3. CASE q = n
    <3>1. PrevOf(g, q) = b
      BY <1>0, <2>2, <2>3
    <3>2. n # 0 /\ p < n /\ \A x \in S : x <= p \/ q <= x
      BY <1>2, <2>2, <2>3
    <3>3. CASE b = 0 /\ \A x \in S : p <= x
      <4>1. \A x \in T : q <= x
        <5> TAKE x \in T
        <5> QED BY <1>1, <2>2, <3>2, <3>3
      <4> QED BY <3>1, <3>3, <4>1 DEF Precedes, NULL
    <3>4. CASE b \in T /\ b < p /\ \A x \in S : x <= b \/ p <= x
      <4>1. \A x \in T : x <= b \/ q <= x
        <5> TAKE x \in T
        <5> QED BY <1>1, <2>2, <3>2, <3>4
      <4>2. b < q
        BY <1>1, <1>4, <2>2, <2>3, <3>2, <3>4
      <4> QED BY <3>1, <3>4, <4>1, <4>2 DEF Precedes
    <3> QED BY <1>3, <3>3, <3>4
  <2>4. CASE q # n
    <3>1. PrevOf(g, q) = m
      BY <1>0, <2>2, <2>4 DEF m
    <3>2. m # p
      <4> SUFFICES ASSUME m = p PROVE FALSE
        OBVIOUS
      <4>1. p < q /\ \A x \in S : x <= p \/ q <= x
        BY <1>1, <2>1, <2>2
      <4>2. CASE n = 0 /\ \A x \in S : x <= p
        BY <1>1, <2>2, <4>1, <4>2
      <4>3. CASE n \in T /\ p < n /\ \A x \in S : x <= p \/ n <= x
        <5>1. n <= q
          BY <1>1, <2>2, <4>1, <4>3
        <5>2. q <= n
          BY <1>1, <1>4, <2>2, <4>1, <4>3
        <5> QED BY <1>4, <2>2, <2>4, <5>1, <5>2
      <4> QED BY <1>2, <4>2, <4>3
    <3>3. \/ m = 0 /\ \A x \in T : q <= x
          \/ m \in T /\ m < q /\ \A x \in T : x <= m \/ q <= x
      BY <2>1, <3>2
    <3> QED BY <3>1, <3>3 DEF Precedes, NULL
  <2> QED BY <2>3, <2>4
<1>7. Starts(T, IF r = p THEN n ELSE r)
  <2>1. r \in S /\ \A q \in S : r <= q
    BY DEF Chain, Starts
  <2>2. CASE r = p
    <3>1. CASE n = 0 /\ \A x \in S : x <= p
      <4>1. \A x \in S : x = p
        BY <1>1, <2>1, <2>2, <3>1
      <4> QED BY <2>2, <3>1, <4>1 DEF Starts, NULL
    <3>2. CASE n \in T /\ p < n /\ \A x \in S : x <= p \/ n <= x
      <4>1. \A x \in T : n <= x
        BY <1>1, <2>1, <2>2, <3>2
      <4> QED BY <2>2, <3>2, <4>1 DEF Starts
    <3> QED BY <1>2, <3>1, <3>2
  <2>3. CASE r # p
    BY <2>1, <2>3 DEF Starts
  <2> QED BY <2>2, <2>3
<1> QED BY <1>5, <1>6, <1>7 DEF Chain, n

Joins(h, g, S, p) ==
    \A q \in S :
        /\ NextOf(g, q) = IF q = PrevOf(g, p) THEN p ELSE NextOf(h, q)
        /\ PrevOf(g, q) = IF q = NextOf(g, p) THEN p ELSE PrevOf(h, q)

(* A list with a block more, linked between its neighbours in the order of *)
(* addresses, is a list in order.                                          *)
LEMMA ChainWith ==
    ASSUME NEW h, NEW g, NEW S \in SUBSET (Nat \ {0}), NEW r, Chain(h, S, r),
           NEW p \in Nat \ {0}, p \notin S, Joins(h, g, S, p),
           Succeeds(S, p, NextOf(g, p)), Precedes(S, p, PrevOf(g, p))
    PROVE  Chain(g, S \cup {p}, IF PrevOf(g, p) = NULL THEN p ELSE r)
<1> DEFINE T == S \cup {p}
           n == NextOf(g, p)
           b == PrevOf(g, p)
<1>0. \A q \in S :
          /\ NextOf(g, q) = IF q = b THEN p ELSE NextOf(h, q)
          /\ PrevOf(g, q) = IF q = n THEN p ELSE PrevOf(h, q)
  BY DEF Joins
<1>1. p \in Nat /\ p # 0 /\ \A q \in S : q \in Nat /\ q # 0 /\ q # p
  OBVIOUS
<1>2. \/ n = 0 /\ \A q \in S : q <= p
      \/ n \in S /\ p < n /\ \A q \in S : q <= p \/ n <= q
  BY DEF Succeeds, NULL, n
<1>3. \/ b = 0 /\ \A q \in S : p <= q
      \/ b \in S /\ b < p /\ \A q \in S : q <= b \/ p <= q
  BY DEF Precedes, NULL, b
<1> HIDE DEF n, b
<1>4. n \in Nat /\ b \in Nat
  <2>1. 0 \in Nat
    OBVIOUS
  <2> QED BY <1>1, <1>2, <1>3, <2>1, Zenon
<1>5. ASSUME NEW q \in S PROVE Succeeds(T, q, NextOf(g, q))
  <2> DEFINE m == NextOf(h, q)
  <2>1. \/ m = 0 /\ \A x \in S : x <= q
        \/ m \in S /\ q < m /\ \A x \in S : x <= q \/ m <= x
    BY DEF Chain, Succeeds, NULL
  <2>2. q \in Nat /\ q # 0 /\ q # p /\ m \in Nat
    <3>1. 0 \in Nat
      OBVIOUS
    <3> QED BY <1>1, <2>1, <3>1, Zenon
  <2> HIDE DEF m
  <2>3. CASE q = b
    <3>1. NextOf(g, q) = p
      BY <1>0, <2>2, <2>3
    <3>2. q < p /\ \A x \in S : x <= q \/ p <= x
      BY <1>3, <2>2, <2>3
    <3>3. \A x \in T : x <= q \/ p <= x
      BY <1>1, <3>2
    <3> QED BY <3>1, <3>2, <3>3 DEF Succeeds
  <2>4. CASE q # b
    <3>1. NextOf(g, q) = m
      BY <1>0, <2>2, <2>4 DEF m
    <3>2. CASE m = 0 /\ \A x \in S : x <= q
      <4>1. p <= q
        <5>1. CASE b = 0 /\ \A x \in S : p <= x
          BY <5>1
        <5>2. CASE b \in S /\ b < p /\ \A x \in S : x <= b \/ p <= x
          BY <1>1, <1>4, <2>2, <2>4, <3>2, <5>2
        <5> QED BY <1>3, <5>1, <5>2
      <4>2. \A x \in T : x <= q
        BY <3>2, <4>1
      <4> QED BY <3>1, <3>2, <4>2 DEF Succeeds, NULL
    <3>3. CASE m \in S /\ q < m /\ \A x \in S : x <= q \/ m <= x
      <4>1. p <= q \/ m <= p
        <5>1. CASE b = 0 /\ \A x \in S : p <= x
          BY <5>1
        <5>2. CASE b \in S /\ b < p /\ \A x \in S : x <= b \/ p <= x
          BY <1>1, <1>4, <2>2, <2>4, <3>3, <5>2
        <5> QED BY <1>3, <5>1, <5>2
      <4>2. \A x \in T : x <= q \/ m <= x
        BY <3>3, <4>1
      <4> QED BY <3>1, <3>3, <4>2 DEF Succeeds
    <3> QED BY <2>1, <3>2, <3>3
  <2> QED BY <2>3, <2>4
<1>6. ASSUME NEW q \in S PROVE Precedes(T, q, PrevOf(g, q))
  <2> DEFINE m == PrevOf(h, q)
  <2>1. \/ m = 0 /\ \A x \in S : q <= x
        \/ m \in S /\ m < q /\ \A x \in S : x <= m \/ q <= x
    BY DEF Chain, Precedes, NULL
  <2>2. q \in Nat /\ q # 0 /\ q # p /\ m \in Nat
    <3>1. 0 \in Nat
      OBVIOUS
    <3> QED BY <1>1, <2>1, <3>1, Zenon
  <2> HIDE DEF m
  <2>3. CASE q = n
    <3>1. PrevOf(g, q) = p
      BY <1>0, <2>2, <2>3
    <3>2. p < q /\ \A x \in S : x <= p \/ q <= x
      BY <1>2, <2>2, <2>3
    <3>3. \A x \in T : x <= p \/ q <= x
      BY <1>1, <3>2
    <3> QED BY <3>1, <3>2, <3>3 DEF Precedes
  <2>4. CASE q # n
    <3>1. PrevOf(g, q) = m
      BY <1>0, <2>2, <2>4 DEF m
    <3>2. CASE m = 0 /\ \A x \in S : q <= x
      <4>1. q <= p
        <5>1. CASE n = 0 /\ \A x \in S : x <= p
          BY <5>1
        <5>2. CASE n \in S /\ p < n /\ \A x \in S : x <= p \/ n <= x
          BY <1>1, <1>4, <2>2, <2>4, <3>2, <5>2
        <5> QED BY <1>2, <5>1, <5>2
      <4>2. \A x \in T : q <= x
        BY <3>2, <4>1
      <4> QED BY <3>1, <3>2, <4>2 DEF Precedes, NULL
    <3>3. CASE m \in S /\ m < q /\ \A x \in S : x <= m \/ q <= x
      <4>1. p <= m \/ q <= p
        <5>1. CASE n = 0 /\ \A x \in S : x <= p
          BY <5>1
        <5>2. CASE n \in S /\ p < n /\ \A x \in S : x <= p \/ n <= x
          BY <1>1, <1>4, <2>2, <2>4, <3>3, <5>2
        <5> QED BY <1>2, <5>1, <5>2
      <4>2. \A x \in T : x <= m \/ q <= x
        BY <3>3, <4>1
      <4> QED BY <3>1, <3>3, <4>2 DEF Precedes
    <3> QED BY <2>1, <3>2, <3>3
  <2> QED BY <2>3, <2>4
<1>7. Succeeds(T, p, NextOf(g, p)) /\ Precedes(T, p, PrevOf(g, p))
  BY <1>1, <1>2, <1>3 DEF Succeeds, Precedes, NULL, n, b
<1>8. Starts(T, IF b = NULL THEN p ELSE r)
  <2>1. (r = 0 /\ S = {}) \/ (r \in S /\ \A q \in S : r <= q)
    BY DEF Chain, Starts, NULL
  <2>2. CASE b = 0
    <3>1. \A x \in T : p <= x
      BY <1>1, <1>3, <2>2
    <3> QED BY <2>2, <3>1 DEF Starts, NULL
  <2>3. CASE b # 0
    <3>1. b \in S /\ b < p
      BY <1>3, <2>3
    <3>2. r \in S /\ \A q \in S : r <= q
      BY <2>1, <3>1
    <3>3. r <= p
      BY <1>1, <1>4, <3>1, <3>2
    <3> QED BY <2>3, <3>2, <3>3 DEF Starts, NULL
  <2> QED BY <2>2, <2>3
<1> QED BY <1>5, <1>6, <1>7, <1>8 DEF Chain, b

(* The words of the lists stay: the lists do.                              *)
LEMMA ChainSame ==
    ASSUME NEW h, NEW g, NEW S, NEW r, Chain(h, S, r),
           \A q \in S : NextOf(g, q) = NextOf(h, q) /\ PrevOf(g, q) = PrevOf(h, q)
    PROVE  Chain(g, S, r)
BY DEF Chain

(* Writing outside the links of the listed blocks leaves every list as it  *)
(* was.                                                                    *)
LEMMA LinkedSame ==
    ASSUME NEW h \in Heaps, NEW g, NEW F, NEW V, Linked(h, F), Changes(h, g, V),
           g.roots = h.roots, \A a \in V : a \notin LinkWords(F)
    PROVE  Linked(g, F)
<1>1. ASSUME NEW l \in 0 .. Levels - 1
      PROVE  Chain(g, F[l], g.roots[l])
  <2>1. ASSUME NEW q \in F[l]
        PROVE  NextOf(g, q) = NextOf(h, q) /\ PrevOf(g, q) = PrevOf(h, q)
    <3>1. q \in 1 .. Len(h.mem) - 1
      BY DEF Linked
    <3>2. q \in Int /\ q + 1 \in 1 .. Len(h.mem) /\ q + 1 \in Nat /\ (q + 1) - 1 = q
      BY <3>1, HeapType
    <3>3. q + 1 \in LinkWords(F)
      BY <3>2 DEF LinkWords
    <3>4. q + 1 \notin V
      BY <3>3
    <3> QED BY <3>2, <3>4, ChangesReads
  <2>2. Chain(h, F[l], h.roots[l])
    BY DEF Linked
  <2> QED BY <2>1, <2>2, ChainSame
<1> QED BY <1>1 DEF Linked, Changes

-----------------------------------------------------------------------------
(* A listed block has its links in its second word.                        *)
LEMMA LinkWord ==
    ASSUME NEW F, NEW l \in 0 .. Levels - 1, NEW p \in Nat, p \in F[l]
    PROVE  p + 1 \in LinkWords(F)
<1>1. p + 1 \in Nat /\ (p + 1) - 1 = p
  OBVIOUS
<1> QED BY <1>1 DEF LinkWords

(* Every listed block has its links inside the heap.                       *)
LEMMA ListBlocks ==
    ASSUME NEW h \in Heaps, NEW F, Linked(h, F), NEW l \in 0 .. Levels - 1
    PROVE  /\ F[l] \in SUBSET (Nat \ {0}) /\ F[l] \in SUBSET (1 .. Len(h.mem) - 1)
           /\ \A p \in F[l] : p \in 1 .. Len(h.mem) - 1 /\ p \in 1 .. Len(h.mem)
                                /\ p \in Nat /\ p # 0 /\ p + 1 \in LinkWords(F)
<1>1. F[l] \in SUBSET (1 .. Len(h.mem) - 1)
  BY DEF Linked
<1>2. Len(h.mem) \in Nat
  BY HeapType
<1>3. \A p \in F[l] : p \in 1 .. Len(h.mem) - 1
  BY <1>1
<1>4. \A p \in F[l] : p \in 1 .. Len(h.mem) /\ p \in Nat /\ p # 0
  BY <1>2, <1>3
<1>5. \A p \in F[l] : p + 1 \in LinkWords(F)
  BY <1>4, LinkWord
<1> QED BY <1>1, <1>3, <1>4, <1>5

(* The blocks around one of a list are of that list.                       *)
LEMMA Neighbours ==
    ASSUME NEW h \in Heaps, NEW F, Linked(h, F), NEW l \in 0 .. Levels - 1, NEW p \in F[l]
    PROVE  /\ NextOf(h, p) = 0 \/ NextOf(h, p) \in F[l] \ {p}
           /\ PrevOf(h, p) = 0 \/ PrevOf(h, p) \in F[l] \ {p}
           /\ NextOf(h, p) \in Nat /\ PrevOf(h, p) \in Nat
<1>1. Chain(h, F[l], h.roots[l]) /\ \A q \in F[l] : q \in Nat
  BY ListBlocks DEF Linked
<1>2. NextOf(h, p) = 0 \/ NextOf(h, p) \in F[l] \ {p}
  BY <1>1 DEF Chain, Succeeds, NULL
<1>3. PrevOf(h, p) = 0 \/ PrevOf(h, p) \in F[l] \ {p}
  BY <1>1 DEF Chain, Precedes, NULL
<1>4. 0 \in Nat
  OBVIOUS
<1> QED BY <1>1, <1>2, <1>3, <1>4, Zenon

(* What unlinking does to the links.                                       *)
Unlinks(h, g, p, n, b) ==
    \A q \in 1 .. Len(h.mem) - 1 : q # p =>
        /\ NextOf(g, q) = IF q = b THEN n ELSE NextOf(h, q)
        /\ PrevOf(g, q) = IF q = n THEN b ELSE PrevOf(h, q)

(* remove_block_from_segrelist, 240-257: once p is unlinked from list l,   *)
(* that list holds the others of its blocks and the other lists what they  *)
(* held.                                                                   *)
LEMMA UnlinkedLists ==
    ASSUME NEW h \in Heaps, NEW g \in Heaps, NEW F, Linked(h, F), Len(g.mem) = Len(h.mem),
           NEW l \in 0 .. Levels - 1, NEW p \in F[l],
           NEW V, V \cap LinkWords(F) = {},
           NEW k, Unlinks(h, k, p, NextOf(h, p), PrevOf(h, p)), k \in Heaps, Changes(k, g, V),
           Len(k.mem) = Len(h.mem), g.roots = k.roots,
           k.roots = [h.roots EXCEPT ![l] = IF h.roots[l] = p THEN NextOf(h, p) ELSE h.roots[l]]
    PROVE  Linked(g, [F EXCEPT ![l] = F[l] \ {p}])
<1> DEFINE G == [F EXCEPT ![l] = F[l] \ {p}]
           n == NextOf(h, p)
           b == PrevOf(h, p)
<1>1. F \in [0 .. Levels - 1 -> SUBSET (1 .. Len(h.mem) - 1)]
      /\ \A m, o \in 0 .. Levels - 1 : m # o => F[m] \cap F[o] = {}
  BY DEF Linked
<1>2. G \in [0 .. Levels - 1 -> SUBSET (1 .. Len(g.mem) - 1)]
  BY <1>1
<1>3. \A m, o \in 0 .. Levels - 1 : m # o => G[m] \cap G[o] = {}
  BY <1>1
<1>4. \A m \in 0 .. Levels - 1 : \A q \in F[m] :
        NextOf(g, q) = NextOf(k, q) /\ PrevOf(g, q) = PrevOf(k, q)
  <2> TAKE m \in 0 .. Levels - 1
  <2> TAKE q \in F[m]
  <2>1. q \in 1 .. Len(h.mem) - 1 /\ q + 1 \in LinkWords(F) /\ Len(h.mem) \in Nat
    BY ListBlocks, HeapType
  <2>2. q \in Int /\ q + 1 \in 1 .. Len(k.mem) /\ q + 1 \notin V
    BY <2>1
  <2> QED BY <2>2, ChangesReads
<1>5. ASSUME NEW m \in 0 .. Levels - 1
      PROVE  Chain(g, G[m], g.roots[m])
  <2>1. Chain(h, F[m], h.roots[m])
    BY DEF Linked
  <2>2. CASE m = l
    <3>1. G[m] = F[l] \ {p} /\ F[l] \in SUBSET (Nat \ {0})
      BY <1>1, <2>2, ListBlocks
    <3>2. g.roots[m] = IF h.roots[l] = p THEN n ELSE h.roots[l]
      BY <2>2, HeapType
    <3>3. Skips(h, g, F[l], p)
      BY <1>1, <1>4 DEF Unlinks, Skips
    <3>4. Chain(g, F[l] \ {p}, IF h.roots[l] = p THEN n ELSE h.roots[l])
      BY <2>1, <2>2, <3>1, <3>3, ChainWithout
    <3> QED BY <3>1, <3>2, <3>4
  <2>3. CASE m # l
    <3>1. G[m] = F[m] /\ g.roots[m] = h.roots[m]
      BY <1>1, <2>3, HeapType
    <3>2. (n = 0 \/ n \in F[l]) /\ (b = 0 \/ b \in F[l])
      BY Neighbours
    <3>3. \A q \in F[m] : q \notin F[l] /\ q # 0 /\ q \in 1 .. Len(h.mem) - 1
      BY <1>1, <2>3, ListBlocks
    <3>4. \A q \in F[m] : q # p /\ q # n /\ q # b
      BY <3>2, <3>3
    <3>5. \A q \in F[m] : NextOf(g, q) = NextOf(h, q) /\ PrevOf(g, q) = PrevOf(h, q)
      BY <1>4, <3>3, <3>4 DEF Unlinks
    <3>6. Chain(g, F[m], h.roots[m])
      BY <2>1, <3>5, ChainSame
    <3> QED BY <3>1, <3>6
  <2> QED BY <2>2, <2>3
<1> QED BY <1>2, <1>3, <1>5 DEF Linked

(* remove_block_from_segrelist as a whole: p leaves its list, is marked    *)
(* allocated, and the next block is told so.                               *)
LEMMA RemoveIs ==
    ASSUME NEW h \in Heaps, NEW F, Linked(h, F), NEW l \in 0 .. Levels - 1, NEW p \in F[l],
           Alloc(h, p) = 0, p \notin LinkWords(F),
           Following(h, p) \in 1 .. Len(h.mem), Following(h, p) # p,
           Following(h, p) \notin LinkWords(F)
    PROVE  LET g == Remove(h, p, l)
               s == Following(h, p)
           IN  /\ Changes(h, g, LinkWords(F) \cup {p, s})
               /\ Linked(g, [F EXCEPT ![l] = F[l] \ {p}])
               /\ g.mem[p] = Header(Size(h, p), PrevAlloc(h, p), 1)
               /\ g.mem[s] = Header(Size(h, s), 1, Alloc(h, s))
<1> DEFINE n == LinksAt(h, p).next
           b == LinksAt(h, p).prev
           s == Following(h, p)
           h1 == IF h.roots[l] = p THEN [h EXCEPT !.roots[l] = n] ELSE h
           h2 == IF b # NULL THEN ChangeNext(h1, b, n) ELSE h1
           h3 == LinkBack(h2, n, b)
           k == WriteLinks(h3, p, NULL, NULL)
           h4 == ChangeAlloc(k, p, 1)
           g == ChangePrevAlloc(h4, s, 1)
           W == LinkWords(F)
<1>1. n = NextOf(h, p) /\ b = PrevOf(h, p) /\ n \in Nat /\ b \in Nat
      /\ (n = 0 \/ n \in F[l] \ {p}) /\ (b = 0 \/ b \in F[l] \ {p})
  BY Neighbours DEF NextOf, PrevOf
<1>2. p \in 1 .. Len(h.mem) - 1 /\ p \in 1 .. Len(h.mem) /\ p \in Nat /\ p + 1 \in W
  BY ListBlocks
<1>3. Len(h.mem) \in Nat
  BY HeapType
<1> HIDE DEF n, b, W
<1>4. /\ h1 \in Heaps /\ h1.mem = h.mem
      /\ h1.roots = [h.roots EXCEPT ![l] = IF h.roots[l] = p THEN n ELSE h.roots[l]]
  <2>1. CASE h.roots[l] = p
    <3> DEFINE r == IF h.roots[l] = p THEN n ELSE h.roots[l]
    <3>1. h1 = SetRoot(h, l, n) /\ r = n
      BY <2>1 DEF SetRoot
    <3> HIDE DEF h1, r
    <3>2. h1 \in Heaps /\ h1.mem = h.mem /\ h1.roots = [h.roots EXCEPT ![l] = r]
      BY <1>1, <3>1, SetRootIs
    <3> QED BY <3>2 DEF r
  <2>2. CASE h.roots[l] # p
    <3> DEFINE r == IF h.roots[l] = p THEN n ELSE h.roots[l]
    <3>1. h.roots = [h.roots EXCEPT ![l] = h.roots[l]]
      BY HeapType
    <3>2. r = h.roots[l] /\ h1 = h
      BY <2>2
    <3> HIDE DEF r, h1
    <3>3. h.roots = [h.roots EXCEPT ![l] = r]
      BY <3>1, <3>2
    <3> QED BY <3>2, <3>3 DEF r
  <2> QED BY <2>1, <2>2
<1>5. /\ \A q : NextOf(h1, q) = NextOf(h, q) /\ PrevOf(h1, q) = PrevOf(h, q)
      /\ Changes(h, h1, W)
  BY <1>4, SameWords DEF Changes
<1> HIDE DEF h1
<1>6. /\ Changes(h, h2, W) /\ h2.roots = h1.roots
      /\ \A q \in 1 .. Len(h.mem) - 1 :
            /\ NextOf(h2, q) = IF q = b THEN n ELSE NextOf(h, q)
            /\ PrevOf(h2, q) = PrevOf(h, q)
  <2>1. CASE b = NULL
    BY <1>3, <1>5, <2>1 DEF NULL
  <2>2. CASE b # NULL
    <3>1. b \in 1 .. Len(h1.mem) - 1 /\ {b + 1} \subseteq W
      BY <1>1, <1>4, <2>2, ListBlocks DEF NULL, W
    <3>2. LinksChange(h1, h2, b, n, PrevOf(h1, b))
      BY <1>1, <1>4, <2>2, <3>1, ChangeNextIs
    <3>3. Changes(h, h2, W)
      BY <1>5, <3>1, <3>2, ChangesThen DEF LinksChange
    <3> QED BY <1>4, <1>5, <3>2, <3>3 DEF LinksChange
  <2> QED BY <2>1, <2>2
<1> HIDE DEF h2
<1>7. /\ Changes(h, h3, W) /\ h3.roots = h1.roots
      /\ \A q \in 1 .. Len(h.mem) - 1 :
            /\ NextOf(h3, q) = IF q = b THEN n ELSE NextOf(h, q)
            /\ PrevOf(h3, q) = IF q = n THEN b ELSE PrevOf(h, q)
  <2>1. CASE n = NULL
    <3>1. h3 = h2
      BY <2>1 DEF LinkBack
    <3> QED BY <1>3, <1>6, <2>1, <3>1 DEF NULL
  <2>2. CASE n # NULL
    <3>1. n \in 1 .. Len(h.mem) - 1 /\ {n + 1} \subseteq W
      BY <1>1, <2>2, ListBlocks DEF NULL, W
    <3>2. h3 = ChangePrev(h2, n, b) /\ h2 \in Heaps /\ Len(h2.mem) = Len(h.mem)
      BY <1>6, <2>2 DEF LinkBack, Changes
    <3>3. LinksChange(h2, h3, n, NextOf(h2, n), b)
      BY <1>1, <3>1, <3>2, ChangePrevIs
    <3>4. Changes(h, h3, W)
      BY <1>6, <3>1, <3>3, ChangesThen DEF LinksChange
    <3> QED BY <1>6, <3>2, <3>3, <3>4 DEF LinksChange
  <2> QED BY <2>1, <2>2
<1> HIDE DEF h3
<1>8. /\ Changes(h, k, W) /\ k.roots = h1.roots
      /\ Unlinks(h, k, p, n, b)
  <2>1. h3 \in Heaps /\ Len(h3.mem) = Len(h.mem) /\ NULL \in Nat
    BY <1>7 DEF Changes, NULL
  <2>2. LinksChange(h3, k, p, NULL, NULL)
    BY <1>2, <2>1, WriteLinksIs
  <2>3. {p + 1} \subseteq W
    BY <1>2
  <2>4. Changes(h, k, W)
    BY <1>7, <2>2, <2>3, ChangesThen DEF LinksChange
  <2> QED BY <1>7, <2>1, <2>2, <2>4 DEF LinksChange, Unlinks
<1> HIDE DEF k
<1>9. k \in Heaps /\ Len(k.mem) = Len(h.mem)
      /\ Size(k, p) = Size(h, p) /\ PrevAlloc(k, p) = PrevAlloc(h, p)
      /\ Size(k, s) = Size(h, s) /\ Alloc(k, s) = Alloc(h, s)
  <2>1. p \notin W /\ s \notin W
    BY DEF W
  <2>2. k \in Heaps /\ Len(k.mem) = Len(h.mem)
    BY <1>8 DEF Changes
  <2>3. p \in 1 .. Len(h.mem) /\ s \in 1 .. Len(h.mem)
    BY <1>2
  <2>4. \A a \in 1 .. Len(h.mem) : a \in W \/
          /\ Size(k, a) = Size(h, a) /\ Alloc(k, a) = Alloc(h, a)
          /\ PrevAlloc(k, a) = PrevAlloc(h, a)
    BY <1>8, ChangesReads
  <2> QED BY <2>1, <2>2, <2>3, <2>4
<1>10. HeaderChange(k, h4, p, Size(h, p), PrevAlloc(h, p), 1)
  BY <1>2, <1>9, ChangeAllocIs
<1> HIDE DEF h4
<1>11. h4 \in Heaps /\ Len(h4.mem) = Len(h.mem) /\ Size(h4, p) = Size(h, p)
       /\ Size(h4, s) = Size(h, s) /\ Alloc(h4, s) = Alloc(h, s)
  <2>1. h4 \in Heaps /\ Len(h4.mem) = Len(h.mem) /\ Size(h4, p) = Size(h, p)
        /\ Changes(k, h4, {p})
    BY <1>9, <1>10 DEF HeaderChange, Changes
  <2>2. s \in 1 .. Len(k.mem) /\ s \notin {p}
    BY <1>9
  <2>3. Size(h4, s) = Size(k, s) /\ Alloc(h4, s) = Alloc(k, s)
    BY <1>9, <2>1, <2>2, ChangesReads
  <2> QED BY <1>9, <2>1, <2>3
<1>12. HeaderChange(h4, g, s, Size(h, s), 1, Alloc(h, s))
  BY <1>11, ChangePrevAllocIs
<1>13. Remove(h, p, l) = g
  <2>1. Following(h4, p) = s
    BY <1>11 DEF Following
  <2> QED BY <2>1 DEF Remove, h4, k, h3, h2, h1, b, n
<1> HIDE DEF g
<1>14. Changes(k, g, {p, s}) /\ g.roots = k.roots
  BY <1>10, <1>12, ChangesThen DEF HeaderChange
<1>15. Changes(h, g, W \cup {p, s})
  BY <1>8, <1>14, ChangesThen
<1>16. g.mem[s] = Header(Size(h, s), 1, Alloc(h, s))
  BY <1>12 DEF HeaderChange
<1>17. g.mem[p] = Header(Size(h, p), PrevAlloc(h, p), 1)
  <2>1. p \notin {s} /\ p \in 1 .. Len(h4.mem)
    BY <1>2, <1>11
  <2> QED BY <1>10, <1>12, <2>1 DEF HeaderChange, Changes
<1>18. Linked(g, [F EXCEPT ![l] = F[l] \ {p}])
  <2> DEFINE V == {p, s}
  <2>1. V \cap LinkWords(F) = {}
    OBVIOUS
  <2>2. g \in Heaps /\ Len(g.mem) = Len(h.mem)
    BY <1>15 DEF Changes
  <2>3. Unlinks(h, k, p, NextOf(h, p), PrevOf(h, p))
    BY <1>1, <1>8
  <2>4. k.roots = [h.roots EXCEPT ![l] = IF h.roots[l] = p THEN NextOf(h, p) ELSE h.roots[l]]
    BY <1>1, <1>4, <1>8
  <2>5. Changes(k, g, V)
    BY <1>14
  <2> HIDE DEF V
  <2> QED BY <1>9, <1>14, <2>1, <2>2, <2>3, <2>4, <2>5, UnlinkedLists
<1> QED BY <1>13, <1>15, <1>16, <1>17, <1>18 DEF W

-----------------------------------------------------------------------------
(* A block that no list holds joins one.                                   *)
JoinedLists(h, g, F, l, p) ==
    /\ Changes(h, g, LinkWords(F) \cup {p + 1})
    /\ Joins(h, g, F[l], p)
    /\ Succeeds(F[l], p, NextOf(g, p)) /\ Precedes(F[l], p, PrevOf(g, p))
    /\ \A m \in 0 .. Levels - 1 : \A q \in F[m] : m # l =>
            NextOf(g, q) = NextOf(h, q) /\ PrevOf(g, q) = PrevOf(h, q)
    /\ g.roots = IF PrevOf(g, p) = NULL THEN [h.roots EXCEPT ![l] = p] ELSE h.roots

(* Once p is linked into list l between its neighbours, that list holds p  *)
(* too and the other lists what they held.                                 *)
LEMMA JoinedLinked ==
    ASSUME NEW h \in Heaps, NEW F, Linked(h, F), NEW l \in 0 .. Levels - 1,
           NEW p \in 1 .. Len(h.mem) - 1, \A m \in 0 .. Levels - 1 : p \notin F[m],
           NEW g, JoinedLists(h, g, F, l, p)
    PROVE  Linked(g, [F EXCEPT ![l] = F[l] \cup {p}])
<1> DEFINE G == [F EXCEPT ![l] = F[l] \cup {p}]
<1>1. F \in [0 .. Levels - 1 -> SUBSET (1 .. Len(h.mem) - 1)]
      /\ \A m, o \in 0 .. Levels - 1 : m # o => F[m] \cap F[o] = {}
  BY DEF Linked
<1>2. G \in [0 .. Levels - 1 -> SUBSET (1 .. Len(g.mem) - 1)]
  BY <1>1 DEF JoinedLists, Changes
<1>3. \A m, o \in 0 .. Levels - 1 : m # o => G[m] \cap G[o] = {}
  BY <1>1
<1>4. p \in Nat \ {0} /\ Len(h.mem) \in Nat
  BY HeapType
<1>5. ASSUME NEW m \in 0 .. Levels - 1
      PROVE  Chain(g, G[m], g.roots[m])
  <2>1. Chain(h, F[m], h.roots[m])
    BY DEF Linked
  <2>2. CASE m = l
    <3>1. G[m] = F[l] \cup {p} /\ F[l] \in SUBSET (Nat \ {0})
      BY <1>1, <2>2, ListBlocks
    <3>2. g.roots[m] = IF PrevOf(g, p) = NULL THEN p ELSE h.roots[l]
      BY <2>2, HeapType DEF JoinedLists
    <3>3. Chain(g, F[l] \cup {p}, IF PrevOf(g, p) = NULL THEN p ELSE h.roots[l])
      BY <1>4, <2>1, <2>2, <3>1, ChainWith DEF JoinedLists
    <3> QED BY <3>1, <3>2, <3>3
  <2>3. CASE m # l
    <3>1. G[m] = F[m] /\ g.roots[m] = h.roots[m]
      BY <1>1, <2>3, HeapType DEF JoinedLists
    <3>2. Chain(g, F[m], h.roots[m])
      BY <2>1, <2>3, ChainSame DEF JoinedLists
    <3> QED BY <3>1, <3>2
  <2> QED BY <2>2, <2>3
<1> QED BY <1>2, <1>3, <1>5 DEF Linked

(* The block at which the search stops is the first one.                   *)
LEMMA FirstInLeast ==
    ASSUME NEW S, S \subseteq Nat, S # {}
    PROVE  FirstIn(S) \in S /\ \A k \in S : FirstIn(S) <= k
<1>1. \E x \in S : \A y \in S : x <= y
  BY LeastMember
<1> QED BY <1>1 DEF FirstIn

(* insert_block_to_segrelist, 195-238: p joins list l at its place in the  *)
(* order of addresses, and only links are written.                         *)
LEMMA InsertIs ==
    ASSUME NEW h \in Heaps, NEW F, Linked(h, F), NEW l \in 0 .. Levels - 1,
           NEW p \in 1 .. Len(h.mem) - 1, \A m \in 0 .. Levels - 1 : p \notin F[m]
    PROVE  /\ Changes(h, Insert(h, p, l), LinkWords(F) \cup {p + 1})
           /\ Linked(Insert(h, p, l), [F EXCEPT ![l] = F[l] \cup {p}])
<1> DEFINE S == F[l]
           list == Nodes(h, l)
           higher == {i \in DOMAIN list : list[i] > p}
           target == list[FirstIn(higher)]
           last == list[Len(list)]
           before == LinksAt(h, target).prev
           linked == ChangePrev(WriteLinks(h, p, target, before), target, p)
           g == Insert(h, p, l)
           W == LinkWords(F) \cup {p + 1}
<1>0. p \in Nat /\ p # 0 /\ Len(h.mem) \in Nat /\ NULL = 0 /\ NULL \in Nat
      /\ p \in 1 .. Len(h.mem) - 1
  BY HeapType DEF NULL
<1>1. Enumerates(list, S)
  BY NodesEnumerate
<1>2. \A q \in S : q \in 1 .. Len(h.mem) - 1 /\ q \in Nat /\ q # 0 /\ q # p
                    /\ q + 1 \in W
  BY ListBlocks
<1>3. /\ DOMAIN list = 1 .. Len(list) /\ Len(list) \in Nat
      /\ \A i \in 1 .. Len(list) : list[i] \in S
      /\ \A i, j \in 1 .. Len(list) : i < j => list[i] < list[j]
      /\ \A q \in S : \E i \in 1 .. Len(list) : list[i] = q
  BY <1>1 DEF Enumerates
<1>4. Starts(S, h.roots[l]) /\ Chain(h, S, h.roots[l])
  BY DEF Linked, Chain
<1>5. g = CASE h.roots[l] = NULL ->
                    [WriteLinks(h, p, NULL, NULL) EXCEPT !.roots[l] = p]
            [] h.roots[l] # NULL /\ higher = {} ->
                    ChangeNext(WriteLinks(h, p, NULL, last), last, p)
            [] h.roots[l] # NULL /\ higher # {} ->
                    IF before # NULL THEN ChangeNext(linked, before, p)
                    ELSE [linked EXCEPT !.roots[l] = p]
  BY DEF Insert
<1>6. \A m \in 0 .. Levels - 1 : \A q \in F[m] :
        q \in 1 .. Len(h.mem) - 1 /\ q # p /\ q # 0 /\ (m # l => q \notin S)
  BY ListBlocks DEF Linked
<1>7. SUFFICES JoinedLists(h, g, F, l, p)
  BY <1>7, JoinedLinked DEF JoinedLists
<1> HIDE DEF S, list, W, g
<1>8. ASSUME NEW n, NEW b, n = 0 \/ n \in S, b = 0 \/ b \in S,
             Succeeds(S, p, n), Precedes(S, p, b), Changes(h, g, W),
             g.roots = IF b = NULL THEN [h.roots EXCEPT ![l] = p] ELSE h.roots,
             \A q \in 1 .. Len(h.mem) - 1 :
                /\ NextOf(g, q) = IF q = p THEN n ELSE IF q = b THEN p ELSE NextOf(h, q)
                /\ PrevOf(g, q) = IF q = p THEN b ELSE IF q = n THEN p ELSE PrevOf(h, q)
      PROVE  JoinedLists(h, g, F, l, p)
  <2>1. NextOf(g, p) = n /\ PrevOf(g, p) = b
    BY <1>0, <1>8
  <2>2. Joins(h, g, S, p)
    BY <1>2, <1>8, <2>1 DEF Joins
  <2>3. \A m \in 0 .. Levels - 1 : \A q \in F[m] : m # l =>
            NextOf(g, q) = NextOf(h, q) /\ PrevOf(g, q) = PrevOf(h, q)
    <3> TAKE m \in 0 .. Levels - 1
    <3> TAKE q \in F[m]
    <3> HAVE m # l
    <3>1. q \in 1 .. Len(h.mem) - 1 /\ q # p /\ q # n /\ q # b
      BY <1>6, <1>8
    <3> QED BY <1>8, <3>1
  <2> QED BY <1>8, <2>1, <2>2, <2>3 DEF JoinedLists, S, W
<1>9. CASE h.roots[l] = NULL
  <2> DEFINE k == WriteLinks(h, p, NULL, NULL)
  <2>1. LinksChange(h, k, p, NULL, NULL)
    BY <1>0, WriteLinksIs
  <2>2. g = SetRoot(k, l, p)
    BY <1>5, <1>9 DEF SetRoot
  <2> HIDE DEF k
  <2>3. k \in Heaps /\ Len(k.mem) = Len(h.mem) /\ k.roots = h.roots
    BY <2>1 DEF LinksChange, Changes
  <2>4. g \in Heaps /\ g.mem = k.mem /\ g.roots = [h.roots EXCEPT ![l] = p]
    BY <1>0, <2>2, <2>3, SetRootIs
  <2>5. S = {}
    BY <1>0, <1>2, <1>4, <1>9 DEF Starts
  <2>6. Changes(h, g, W)
    BY <2>1, <2>4 DEF LinksChange, Changes, W
  <2>7. \A q \in 1 .. Len(h.mem) - 1 :
                /\ NextOf(g, q) = IF q = p THEN 0 ELSE NextOf(h, q)
                /\ PrevOf(g, q) = IF q = p THEN 0 ELSE PrevOf(h, q)
    BY <1>0, <2>1, <2>4, SameWords DEF LinksChange
  <2>8. Succeeds(S, p, 0) /\ Precedes(S, p, 0)
    BY <1>0, <2>5 DEF Succeeds, Precedes
  <2>9. \A q \in 1 .. Len(h.mem) - 1 : q # 0
    OBVIOUS
  <2> QED BY <1>0, <1>8, <2>4, <2>6, <2>7, <2>8, <2>9
<1>10. CASE h.roots[l] # NULL /\ higher = {}
  <2> DEFINE k == WriteLinks(h, p, NULL, last)
  <2>1. PICK r \in S : TRUE
    BY <1>4, <1>10 DEF Starts
  <2>2. PICK i \in 1 .. Len(list) : list[i] = r
    BY <1>3, <2>1
  <2>3. Len(list) \in 1 .. Len(list) /\ last \in S
    BY <1>3, <2>2
  <2>4. \A q \in S : q <= last /\ q <= p
    <3> TAKE q \in S
    <3>1. PICK j \in 1 .. Len(list) : list[j] = q
      BY <1>3
    <3>2. ~(q > p)
      BY <1>3, <1>10, <3>1
    <3>3. j = Len(list) \/ j < Len(list)
      <4>1. Len(list) \in Nat
        BY <1>3
      <4> QED BY <3>1, <4>1
    <3>4. q <= last
      <4>1. CASE j < Len(list)
        <5>1. list[j] < list[Len(list)]
          BY <1>3, <2>3, <3>1, <4>1
        <5>2. last \in Nat /\ q \in Nat
          BY <1>2, <2>3
        <5> QED BY <3>1, <5>1, <5>2
      <4>2. CASE j = Len(list)
        BY <1>2, <3>1, <4>2
      <4> QED BY <3>3, <4>1, <4>2
    <3> QED BY <1>0, <1>2, <3>2, <3>4
  <2>5. last < p /\ last \in Nat /\ last \in 1 .. Len(h.mem) - 1 /\ last # p /\ last # 0
    BY <1>0, <1>2, <2>3, <2>4
  <2>6. Succeeds(S, p, 0) /\ Precedes(S, p, last)
    BY <1>0, <2>3, <2>4, <2>5 DEF Succeeds, Precedes
  <2>7. g = ChangeNext(k, last, p)
    BY <1>5, <1>10
  <2>8. LinksChange(h, k, p, 0, last)
    BY <1>0, <2>5, WriteLinksIs
  <2> HIDE DEF k, last
  <2>9. k \in Heaps /\ Len(k.mem) = Len(h.mem)
    BY <2>8 DEF LinksChange, Changes
  <2>10. LinksChange(k, g, last, p, PrevOf(k, last))
    BY <1>0, <2>5, <2>7, <2>9, ChangeNextIs
  <2>11. {p + 1} \subseteq W /\ {last + 1} \subseteq W
    BY <1>2, <2>3 DEF W
  <2>12. Changes(h, g, W)
    BY <2>8, <2>10, <2>11, ChangesThen DEF LinksChange
  <2>13. g.roots = h.roots
    BY <2>8, <2>10 DEF LinksChange
  <2>14. \A q \in 1 .. Len(h.mem) - 1 : q # 0 /\
                /\ NextOf(g, q) = IF q = p THEN 0 ELSE IF q = last THEN p ELSE NextOf(h, q)
                /\ PrevOf(g, q) = IF q = p THEN last ELSE PrevOf(h, q)
    BY <2>5, <2>8, <2>9, <2>10 DEF LinksChange
  <2> QED BY <1>0, <1>8, <2>3, <2>5, <2>6, <2>12, <2>13, <2>14
<1>11. CASE h.roots[l] # NULL /\ higher # {}
  <2> DEFINE k == WriteLinks(h, p, target, before)
  <2>1. higher \subseteq Nat
    BY <1>3
  <2>2. FirstIn(higher) \in higher /\ \A i \in higher : FirstIn(higher) <= i
    BY <1>11, <2>1, FirstInLeast
  <2>3. target \in S /\ target > p
    BY <1>3, <2>2
  <2>4. \A q \in S : q <= p \/ target <= q
    <3> TAKE q \in S
    <3>1. PICK j \in 1 .. Len(list) : list[j] = q
      BY <1>3
    <3>2. CASE q > p
      <4>1. FirstIn(higher) <= j /\ FirstIn(higher) \in 1 .. Len(list)
        BY <1>3, <2>2, <3>1, <3>2
      <4>2. FirstIn(higher) = j \/ FirstIn(higher) < j
        BY <3>1, <4>1
      <4> QED BY <1>2, <1>3, <2>3, <3>1, <4>1, <4>2
    <3> QED BY <1>0, <1>2, <3>2
  <2>5. before = PrevOf(h, target)
    BY DEF PrevOf
  <2> HIDE DEF target, before, higher
  <2>6. target \in Nat /\ target \in 1 .. Len(h.mem) - 1 /\ target # p /\ target # 0
    BY <1>2, <2>3
  <2>7. \/ before = 0 /\ \A q \in S : target <= q
        \/ before \in S /\ before < target /\ \A q \in S : q <= before \/ target <= q
    BY <1>4, <2>3, <2>5 DEF Chain, Precedes, NULL
  <2>8. (before = 0 \/ before \in S) /\ before \in Nat
    BY <1>0, <1>2, <2>7, Zenon
  <2>9. Succeeds(S, p, target)
    BY <2>3, <2>4 DEF Succeeds
  <2>10. Precedes(S, p, before)
    <3>1. CASE before = 0 /\ \A q \in S : target <= q
      <4>1. \A q \in S : p <= q
        BY <1>0, <1>2, <2>3, <2>6, <3>1
      <4> QED BY <1>0, <3>1, <4>1 DEF Precedes
    <3>2. CASE before \in S /\ before < target /\ \A q \in S : q <= before \/ target <= q
      <4>1. before < p
        BY <1>0, <1>2, <2>4, <2>6, <2>8, <3>2
      <4>2. \A q \in S : q <= before \/ p <= q
        BY <1>0, <1>2, <2>3, <2>6, <2>8, <3>2
      <4> QED BY <3>2, <4>1, <4>2 DEF Precedes
    <3> QED BY <2>7, <3>1, <3>2
  <2>11. LinksChange(h, k, p, target, before)
    BY <1>0, <2>6, <2>8, WriteLinksIs
  <2> HIDE DEF k
  <2>12. k \in Heaps /\ Len(k.mem) = Len(h.mem)
    BY <2>11 DEF LinksChange, Changes
  <2>13. LinksChange(k, linked, target, NextOf(k, target), p)
    BY <1>0, <2>6, <2>12, ChangePrevIs DEF k
  <2> HIDE DEF linked
  <2>14. linked \in Heaps /\ Len(linked.mem) = Len(h.mem) /\ linked.roots = h.roots
    BY <2>11, <2>12, <2>13 DEF LinksChange, Changes
  <2>15. {p + 1} \subseteq W /\ {target + 1} \subseteq W
    BY <1>2, <2>3 DEF W
  <2>16. Changes(h, linked, W)
    BY <2>11, <2>13, <2>15, ChangesThen DEF LinksChange
  <2>17. \A q \in 1 .. Len(h.mem) - 1 : q # 0 /\
                /\ NextOf(linked, q) = IF q = p THEN target ELSE NextOf(h, q)
                /\ PrevOf(linked, q) = IF q = p THEN before
                                       ELSE IF q = target THEN p ELSE PrevOf(h, q)
    BY <2>6, <2>11, <2>12, <2>13 DEF LinksChange
  <2>18. CASE before = 0
    <3>1. g = SetRoot(linked, l, p)
      BY <1>0, <1>5, <1>11, <2>18 DEF SetRoot
    <3>2. g \in Heaps /\ g.mem = linked.mem /\ g.roots = [h.roots EXCEPT ![l] = p]
      <4>1. p \in Nat /\ linked \in Heaps /\ linked.roots = h.roots
        BY <1>0, <2>14
      <4>2. SetRoot(linked, l, p).roots = [linked.roots EXCEPT ![l] = p]
        BY <4>1, SetRootIs
      <4>3. SetRoot(linked, l, p) \in Heaps /\ SetRoot(linked, l, p).mem = linked.mem
        BY <4>1, SetRootIs
      <4> QED BY <3>1, <4>1, <4>2, <4>3
    <3>3. Changes(h, g, W)
      BY <2>16, <3>2 DEF Changes
    <3>4. \A q : NextOf(g, q) = NextOf(linked, q) /\ PrevOf(g, q) = PrevOf(linked, q)
      BY <3>2, SameWords
    <3>5. \A q \in 1 .. Len(h.mem) - 1 :
            /\ NextOf(g, q) = IF q = p THEN target ELSE IF q = before THEN p ELSE NextOf(h, q)
            /\ PrevOf(g, q) = IF q = p THEN before ELSE IF q = target THEN p ELSE PrevOf(h, q)
      BY <2>17, <2>18, <3>4
    <3> QED BY <1>0, <1>8, <2>3, <2>8, <2>9, <2>10, <2>18, <3>2, <3>3, <3>5
  <2>19. CASE before # 0
    <3>1. before \in S /\ before \in 1 .. Len(h.mem) - 1 /\ before # p
      BY <1>2, <2>8, <2>19
    <3>2. g = ChangeNext(linked, before, p)
      BY <1>0, <1>5, <1>11, <2>19
    <3>3. LinksChange(linked, g, before, p, PrevOf(linked, before))
      BY <1>0, <2>14, <3>1, <3>2, ChangeNextIs
    <3>4. {before + 1} \subseteq W
      BY <1>2, <3>1
    <3>5. Changes(h, g, W)
      BY <2>16, <3>3, <3>4, ChangesThen DEF LinksChange
    <3>6. g.roots = h.roots
      BY <2>14, <3>3 DEF LinksChange
    <3>7. \A q \in 1 .. Len(h.mem) - 1 :
            /\ NextOf(g, q) = IF q = p THEN target ELSE IF q = before THEN p ELSE NextOf(h, q)
            /\ PrevOf(g, q) = IF q = p THEN before ELSE IF q = target THEN p ELSE PrevOf(h, q)
      BY <2>14, <2>17, <3>1, <3>3 DEF LinksChange
    <3> QED BY <1>0, <1>8, <2>3, <2>8, <2>9, <2>10, <2>19, <3>5, <3>6, <3>7
  <2> QED BY <2>18, <2>19
<1> QED BY <1>9, <1>10, <1>11

-----------------------------------------------------------------------------
(* The blocks.  B is the set of the blocks of a heap, D of the free ones    *)
(* and L of those that the lists hold, which the code calls with one free  *)
(* block outside the lists at most.                                        *)

(* The tags are right: from the prologue to the epilogue each block reaches*)
(* to the next one, those of D are marked free, and each header has the bit*)
(* of the block before it.                                                 *)
Tagged(h, B, D) ==
    /\ h \in Heaps /\ B \in SUBSET (1 .. Len(h.mem) - 1) /\ D \subseteq B
    /\ 1 \in B /\ 1 \notin D
    /\ \A p \in B :
        /\ Following(h, p) \in B \cup {Len(h.mem)}
        /\ p + (IF p = 1 THEN 2 ELSE 3) <= Following(h, p)
        /\ \A q \in B : q <= p \/ Following(h, p) <= q
        /\ Alloc(h, p) = IF p \in D THEN 0 ELSE 1
        /\ PrevAlloc(h, Following(h, p)) = Alloc(h, p)
    /\ h.mem[Len(h.mem)] = Header(0, PrevAlloc(h, Len(h.mem)), 1)

(* A listed block repeats its header in its last word; a block before it is*)
(* allocated.                                                              *)
Footed(h, p) == h.mem[Following(h, p) - 1] = Header(Size(h, p), 1, 0)

ListsOf(h, L) == [l \in 0 .. Levels - 1 |-> {p \in L : Level(Size(h, p) - 1) = l}]

(* The lists hold the blocks of L, each in the list of its size.           *)
Loose(h, B, D, L) ==
    /\ Tagged(h, B, D) /\ L \subseteq D
    /\ Linked(h, ListsOf(h, L))
    /\ \A p \in L : Footed(h, p)

(* A heap in order: every free block is listed, and no two touch.          *)
Good(h, B, D) ==
    /\ Loose(h, B, D, D)
    /\ \A p \in D : Following(h, p) \notin D

(* The blocks of U are what they were.                                     *)
Keeps(h, g, U) ==
    \A p \in U : /\ Size(g, p) = Size(h, p)
                 /\ \A a \in p + 1 .. Following(h, p) - 1 : g.mem[a] = h.mem[a]

(* The blocks of B before p and from s on.                                 *)
Outside(B, p, s) == {q \in B : q < p \/ s <= q}

(* What a block of a heap with its tags is: inside the heap, followed by a *)
(* block or by the epilogue, of two words at least, or of three after the  *)
(* prologue.                                                               *)
LEMMA BlockFacts ==
    ASSUME NEW h, NEW B, NEW D, Tagged(h, B, D), NEW p \in B
    PROVE  /\ h \in Heaps /\ Len(h.mem) \in Nat
           /\ p \in Nat /\ p \in Int /\ 1 <= p /\ p \in 1 .. Len(h.mem) /\ p < Len(h.mem)
           /\ Following(h, p) \in Nat /\ Following(h, p) \in 1 .. Len(h.mem)
           /\ p + 2 <= Following(h, p) /\ (p # 1 => p + 3 <= Following(h, p))
           /\ p < Following(h, p) /\ Following(h, p) <= Len(h.mem)
           /\ Size(h, p) = Following(h, p) - p /\ Size(h, p) \in Nat
           /\ Following(h, p) = p + Size(h, p)
           /\ Following(h, p) \in B \/ Following(h, p) = Len(h.mem)
<1>1. h \in Heaps /\ Len(h.mem) \in Nat
  BY HeapType DEF Tagged
<1>2. p \in 1 .. Len(h.mem) - 1 /\ \A q \in B : q \in 1 .. Len(h.mem) - 1
  BY DEF Tagged
<1>3. Size(h, p) \in Int
  BY <1>1, TagsType
<1>4. Following(h, p) = p + Size(h, p)
  BY DEF Following
<1>5. Following(h, p) \in B \/ Following(h, p) = Len(h.mem)
  BY DEF Tagged
<1>6. p + (IF p = 1 THEN 2 ELSE 3) <= Following(h, p)
  BY DEF Tagged
<1> DEFINE n == Following(h, p)
           s == Size(h, p)
           E == Len(h.mem)
<1>7. p \in Nat /\ 1 <= p /\ p < E /\ E \in Nat
  BY <1>1, <1>2
<1>8. n \in Nat /\ n <= E
  <2>1. CASE n \in B
    <3>1. n \in 1 .. E - 1
      BY <1>2, <2>1
    <3> QED BY <1>7, <3>1
  <2>2. CASE n = E
    BY <1>7, <2>2
  <2> QED BY <1>5, <2>1, <2>2
<1> HIDE DEF n, s, E
<1>9. n = p + s /\ s \in Int
  BY <1>3, <1>4 DEF n, s
<1>10. p + 2 <= n /\ (p # 1 => p + 3 <= n)
  BY <1>6, <1>7, <1>8 DEF n
<1>11. p < n /\ s = n - p /\ s \in Nat /\ n \in 1 .. E /\ p \in 1 .. E
  BY <1>7, <1>8, <1>9, <1>10
<1> QED BY <1>1, <1>4, <1>5, <1>7, <1>8, <1>9, <1>10, <1>11 DEF n, s, E

(* Blocks do not overlap, and the words inside one are no tags of another.  *)
LEMMA Apart ==
    ASSUME NEW h, NEW B, NEW D, Tagged(h, B, D), NEW p \in B
    PROVE  /\ \A q \in B : q <= p \/ Following(h, p) <= q
           /\ \A q \in B \cup {Len(h.mem)} : q <= p \/ Following(h, p) <= q
           /\ \A q \in B \cup {Len(h.mem)} : q \notin p + 1 .. Following(h, p) - 1
<1>1. \A q \in B : q <= p \/ Following(h, p) <= q
  BY DEF Tagged
<1>2. \A q \in B \cup {Len(h.mem)} : q <= p \/ Following(h, p) <= q
  BY <1>1, BlockFacts
<1>3. \A q \in B \cup {Len(h.mem)} : q \in Int
  BY BlockFacts
<1>4. p \in Int /\ Following(h, p) \in Int
  BY BlockFacts
<1> QED BY <1>1, <1>2, <1>3, <1>4

(* The loop of the heap checker (614) from the first block on visits every *)
(* block, in order.                                                        *)
LEMMA BlocksEnumerate ==
    ASSUME NEW h, NEW B, NEW D, Tagged(h, B, D)
    PROVE  Enumerates(BlocksOf(h), B)
<1> DEFINE E == Len(h.mem)
           dom == {q \in 1 .. E : Size(h, q) > 0}
           next == [p \in dom |-> Following(h, p)]
<1>1. BlocksOf(h) = Trail(next, 1, E)
  BY DEF BlocksOf
<1>2. E \in Nat /\ 1 \in B /\ B \in SUBSET (1 .. E)
  BY BlockFacts DEF Tagged
<1>3. \A p \in B : p \in dom
  <2> TAKE p \in B
  <2> QED BY BlockFacts
<1>4. E \notin dom
  <2>1. Size(h, E) = 0
    <3>1. h \in Heaps /\ E \in Nat /\ E \in 1 .. E /\ PrevAlloc(h, E) \in {0, 1}
      <4>1. h \in Heaps /\ 1 \in B
        BY DEF Tagged
      <4>2. 1 < E
        BY <4>1, BlockFacts
      <4> QED BY <4>1, <4>2, <1>2, TagsType
    <3>2. Header(0, PrevAlloc(h, E), 1).kind = "header" /\ Header(0, PrevAlloc(h, E), 1).size = 0
      BY DEF Header
    <3>3. E \in DOMAIN h.mem /\ h.mem[E] = Header(0, PrevAlloc(h, E), 1)
      BY <3>1, HeapType DEF Tagged
    <3> QED BY <3>2, <3>3 DEF Size, HeaderAt
  <2> QED BY <2>1
<1>5. DOMAIN next = dom /\ \A p \in B : next[p] = Following(h, p)
  BY <1>3
<1> HIDE DEF next, dom, E
<1>6. \A q \in B : 1 <= q
  BY BlockFacts
<1>7. \A p \in B : \/ next[p] \notin DOMAIN next /\ \A q \in B : q <= p
                   \/ next[p] \in B /\ p < next[p] /\ \A q \in B : q <= p \/ next[p] <= q
  <2> TAKE p \in B
  <2>1. \A q \in B : q <= p \/ Following(h, p) <= q
    BY Apart
  <2>2. p < Following(h, p)
    BY BlockFacts
  <2>3. CASE Following(h, p) \in B
    BY <1>5, <2>1, <2>2, <2>3
  <2>4. CASE Following(h, p) = E
    <3>1. \A q \in B : q <= p
      <4> TAKE q \in B
      <4>1. q < E /\ q \in Int /\ p \in Int /\ E \in Int
        BY BlockFacts, <1>2 DEF E
      <4> QED BY <2>1, <2>4, <4>1
    <3> QED BY <1>4, <1>5, <2>4, <3>1
  <2> QED BY <2>3, <2>4, BlockFacts DEF E
<1>8. Ascends(next, 1, B)
  BY <1>2, <1>3, <1>5, <1>6, <1>7 DEF Ascends
<1> QED BY <1>1, <1>2, <1>8, TrailEnumerates

(* Before every block but the prologue, and before the epilogue, a block    *)
(* ends.                                                                   *)
LEMMA Predecessor ==
    ASSUME NEW h, NEW B, NEW D, Tagged(h, B, D), NEW p \in B \cup {Len(h.mem)}, p # 1
    PROVE  \E q \in B : Following(h, q) = p
<1> DEFINE T == {d \in Nat : \E q \in B : q < p /\ d = p - q}
<1>1. p \in Int /\ 1 \in B /\ 1 < p
  <2>1. 1 \in B
    BY DEF Tagged
  <2>2. CASE p \in B
    <3>1. p \in Int /\ 1 <= p
      BY <2>2, BlockFacts
    <3> QED BY <2>1, <3>1
  <2>3. CASE p = Len(h.mem)
    <3>1. 1 < Len(h.mem) /\ Len(h.mem) \in Int
      BY <2>1, BlockFacts
    <3> QED BY <2>1, <2>3, <3>1
  <2> QED BY <2>1, <2>2, <2>3
<1>2. p - 1 \in T
  BY <1>1
<1>3. T \subseteq Nat /\ T # {}
  BY <1>2
<1>4. PICK d \in T : \A e \in T : d <= e
  BY <1>3, LeastMember
<1>5. PICK q \in B : q < p /\ d = p - q
  BY <1>4
<1>6. q \in Int /\ Following(h, q) \in Int /\ q < Following(h, q)
      /\ (Following(h, q) \in B \/ Following(h, q) = Len(h.mem))
  BY BlockFacts
<1>7. Following(h, q) <= p
  BY <1>1, <1>5, <1>6, Apart
<1>8. ASSUME Following(h, q) < p PROVE FALSE
  <2>1. Following(h, q) \in B
    <3>1. p <= Len(h.mem) /\ Len(h.mem) \in Int
      <4>1. Len(h.mem) \in Int
        BY BlockFacts
      <4>2. CASE p \in B
        <5>1. p < Len(h.mem)
          BY <4>2, BlockFacts
        <5> QED BY <1>1, <4>1, <5>1
      <4>3. CASE p = Len(h.mem)
        BY <4>1, <4>3
      <4> QED BY <4>2, <4>3
    <3> QED BY <1>1, <1>6, <1>8, <3>1
  <2> DEFINE m == Following(h, q)
  <2>2. p - m \in T
    <3>1. p - m \in Nat
      BY <1>1, <1>6, <1>8
    <3> QED BY <1>8, <2>1, <3>1
  <2>3. d <= p - m
    BY <1>4, <2>2
  <2> QED BY <1>1, <1>5, <1>6, <2>3
<1> QED BY <1>1, <1>6, <1>7, <1>8

-----------------------------------------------------------------------------
(* New tags for the words from a block p to before s: N are the blocks that *)
(* are there then, M the free ones.                                        *)

(* g is h with other blocks, N, from p to before s, those of M free, and   *)
(* with tags that agree with each other and with those around.             *)
Retiles(h, g, p, s, N, M) ==
    /\ Changes(h, g, p .. s) /\ g.roots = h.roots
    /\ g.mem[s] = Header(Size(h, s), PrevAlloc(g, s), Alloc(h, s))
    /\ p \in N /\ N \subseteq p .. s - 1 /\ M \subseteq N
    /\ PrevAlloc(g, p) = PrevAlloc(h, p)
    /\ \A q \in N :
        /\ Following(g, q) \in N \cup {s}
        /\ q + 3 <= Following(g, q)
        /\ \A r \in N : r <= q \/ Following(g, q) <= r
        /\ Alloc(g, q) = IF q \in M THEN 0 ELSE 1
        /\ PrevAlloc(g, Following(g, q)) = Alloc(g, q)

(* p is a block, and s a later one or the epilogue.                        *)
Spans(h, B, p, s) == p \in B /\ p # 1 /\ s \in B \cup {Len(h.mem)} /\ p < s

(* A header is read as it was written.                                     *)
LEMMA HeaderReads ==
    ASSUME NEW h \in Heaps, NEW p \in 1 .. Len(h.mem),
           NEW size, NEW prev, NEW alloc, h.mem[p] = Header(size, prev, alloc)
    PROVE  Size(h, p) = size /\ PrevAlloc(h, p) = prev /\ Alloc(h, p) = alloc
<1>1. p \in DOMAIN h.mem
  BY HeapType
<1>2. /\ Header(size, prev, alloc).kind = "header" /\ Header(size, prev, alloc).size = size
      /\ Header(size, prev, alloc).prev = prev /\ Header(size, prev, alloc).alloc = alloc
  BY DEF Header
<1>3. HeaderAt(h, p) = Header(size, prev, alloc)
  BY <1>1, <1>2 DEF HeaderAt
<1> QED BY <1>2, <1>3 DEF Size, PrevAlloc, Alloc

(* The last word of the heap is the epilogue's header.                     *)
LEMMA LastTags ==
    ASSUME NEW h, NEW B, NEW D, Tagged(h, B, D)
    PROVE  /\ Len(h.mem) \in Nat /\ Len(h.mem) \in 1 .. Len(h.mem) /\ 2 < Len(h.mem)
           /\ Size(h, Len(h.mem)) = 0 /\ Alloc(h, Len(h.mem)) = 1
<1>1. 1 \in B /\ h \in Heaps
  BY DEF Tagged
<1>2. Len(h.mem) \in Nat /\ Len(h.mem) \in 1 .. Len(h.mem) /\ 2 < Len(h.mem)
  <2>1. 1 + 2 <= Following(h, 1) /\ Following(h, 1) <= Len(h.mem)
        /\ Following(h, 1) \in Nat /\ Len(h.mem) \in Nat
    BY <1>1, BlockFacts
  <2> QED BY <2>1
<1>3. h.mem[Len(h.mem)] = Header(0, PrevAlloc(h, Len(h.mem)), 1)
  BY DEF Tagged
<1> QED BY <1>1, <1>2, <1>3, HeaderReads

(* Where blocks from p to before s are in a heap.                          *)
LEMMA SpanFacts ==
    ASSUME NEW h, NEW B, NEW D, Tagged(h, B, D),
           NEW p, NEW s, Spans(h, B, p, s)
    PROVE  /\ h \in Heaps /\ Len(h.mem) \in Nat /\ p \in Int /\ 1 < p /\ p < Len(h.mem)
           /\ s \in Int /\ s <= Len(h.mem) /\ s \in 1 .. Len(h.mem)
           /\ p \in 1 .. Len(h.mem) /\ Len(h.mem) \in 1 .. Len(h.mem)
<1> DEFINE E == Len(h.mem)
<1>0. p \in B /\ p # 1 /\ s \in B \cup {E} /\ p < s
  BY DEF Spans
<1>1. h \in Heaps /\ E \in Nat /\ p \in Int /\ 1 <= p /\ p < E
  BY <1>0, BlockFacts
<1>2. s \in Int /\ s <= E
  <2>1. CASE s \in B
    <3>1. s \in Int /\ s < E
      BY <2>1, BlockFacts
    <3> QED BY <1>1, <3>1
  <2>2. CASE s = E
    BY <1>1, <2>2
  <2> QED BY <1>0, <2>1, <2>2
<1> HIDE DEF E
<1>3. 1 < p /\ s \in 1 .. E /\ p \in 1 .. E /\ E \in 1 .. E
  BY <1>0, <1>1, <1>2
<1> QED BY <1>1, <1>2, <1>3 DEF E

(* New tags for the words from p to before s, consistent with each other   *)
(* and with the tags on both sides, leave the tags of the heap right.      *)
LEMMA RetileTagged ==
    ASSUME NEW h, NEW B, NEW D, Tagged(h, B, D),
           NEW p, NEW s, Spans(h, B, p, s),
           NEW g, NEW N, NEW M, Retiles(h, g, p, s, N, M)
    PROVE  /\ Tagged(g, Outside(B, p, s) \cup N, Outside(D, p, s) \cup M)
           /\ \A q \in Outside(B, p, s) : Size(g, q) = Size(h, q)
<1> DEFINE E == Len(h.mem)
           C == Outside(B, p, s) \cup N
           X == Outside(D, p, s) \cup M
<1>0. p \in B /\ p # 1 /\ s \in B \cup {E} /\ p < s
  BY DEF Spans
<1>1. h \in Heaps /\ E \in Nat /\ p \in Int /\ 1 < p /\ p < E /\ s \in Int /\ s <= E
      /\ s \in 1 .. E /\ p \in 1 .. E /\ E \in 1 .. E
  BY SpanFacts
<1>2. /\ Changes(h, g, p .. s) /\ g \in Heaps /\ Len(g.mem) = E
      /\ \A a \in 1 .. E : a < p \/ s < a => g.mem[a] = h.mem[a]
  BY <1>1 DEF Retiles, Changes
<1>3. \A a \in 1 .. E : a < p \/ s < a =>
        Size(g, a) = Size(h, a) /\ Alloc(g, a) = Alloc(h, a) /\ PrevAlloc(g, a) = PrevAlloc(h, a)
  <2> TAKE a \in 1 .. E
  <2> HAVE a < p \/ s < a
  <2>1. a \notin p .. s
    BY <1>1
  <2> QED BY <1>1, <1>2, <2>1, ChangesReads
<1>4. Size(g, s) = Size(h, s) /\ Alloc(g, s) = Alloc(h, s)
  BY <1>1, <1>2, HeaderReads DEF Retiles
<1>5. \A q \in B : q \in 1 .. E /\ q \in Int /\ q < E
  BY BlockFacts
<1>6. D \subseteq B /\ 1 \in B /\ 1 \notin D
  BY DEF Tagged
<1>7. \A q \in Outside(B, p, s) : Size(g, q) = Size(h, q) /\ Alloc(g, q) = Alloc(h, q)
  <2> TAKE q \in Outside(B, p, s)
  <2>1. q \in 1 .. E /\ q \in Int /\ (q < p \/ s <= q)
    BY <1>5 DEF Outside
  <2>2. q = s \/ q < p \/ s < q
    BY <1>1, <2>1
  <2> QED BY <1>3, <1>4, <2>1, <2>2
<1>8. N \subseteq p .. s - 1 /\ M \subseteq N /\ p \in N
      /\ \A q \in N : q \in Int /\ p <= q /\ q < s
  BY <1>1 DEF Retiles
<1>9. C \in SUBSET (1 .. Len(g.mem) - 1) /\ X \subseteq C /\ 1 \in C /\ 1 \notin X
  <2>1. \A q \in Outside(B, p, s) : q \in 1 .. E - 1
    BY <1>1, <1>5 DEF Outside
  <2>2. \A q \in N : q \in 1 .. E - 1 /\ q # 1
    BY <1>1, <1>8
  <2>3. 1 \in Outside(B, p, s)
    BY <1>1, <1>6 DEF Outside
  <2> QED BY <1>2, <1>6, <1>8, <2>1, <2>2, <2>3 DEF Outside
<1>10. ASSUME NEW q \in Outside(B, p, s)
       PROVE  /\ Following(g, q) \in C \cup {E}
              /\ q + (IF q = 1 THEN 2 ELSE 3) <= Following(g, q)
              /\ \A r \in C : r <= q \/ Following(g, q) <= r
              /\ Alloc(g, q) = IF q \in X THEN 0 ELSE 1
              /\ PrevAlloc(g, Following(g, q)) = Alloc(g, q)
  <2> DEFINE n == Following(h, q)
  <2>1. q \in B /\ (q < p \/ s <= q) /\ q \in Int
    BY <1>5 DEF Outside
  <2>2. Following(g, q) = n
    BY <1>7 DEF Following
  <2>3. /\ n \in B \cup {E} /\ q + (IF q = 1 THEN 2 ELSE 3) <= n
        /\ Alloc(h, q) = IF q \in D THEN 0 ELSE 1
        /\ PrevAlloc(h, n) = Alloc(h, q)
    BY <2>1 DEF Tagged
  <2>4. n \in 1 .. E /\ n \in Int /\ q < n
    BY <2>1, BlockFacts
  <2>5. q \notin N
    BY <1>1, <1>8, <2>1
  <2> HIDE DEF n
  <2>6. (q \in X) = (q \in D)
    BY <1>8, <2>1, <2>5 DEF Outside
  <2>7. Alloc(g, q) = IF q \in X THEN 0 ELSE 1
    BY <1>7, <2>3, <2>6
  <2>8. CASE q < p
    <3>1. n <= p
      BY <1>0, <1>1, <2>1, <2>8, Apart DEF n
    <3>2. n \in C
      <4>1. CASE n = p
        BY <1>8, <4>1
      <4>2. CASE n < p
        BY <1>1, <2>3, <2>4, <4>2 DEF Outside
      <4> QED BY <1>1, <2>4, <3>1, <4>1, <4>2
    <3>3. \A r \in C : r <= q \/ n <= r
      <4> TAKE r \in C
      <4>1. CASE r \in N
        BY <1>1, <1>8, <2>4, <3>1, <4>1
      <4>2. CASE r \in Outside(B, p, s)
        BY <2>1, <4>2, Apart DEF Outside, n
      <4> QED BY <4>1, <4>2
    <3>4. PrevAlloc(g, n) = PrevAlloc(h, n)
      <4>1. CASE n = p
        BY <4>1 DEF Retiles
      <4>2. CASE n < p
        BY <1>3, <2>4, <4>2
      <4> QED BY <1>1, <2>4, <3>1, <4>1, <4>2
    <3> QED BY <1>7, <2>2, <2>3, <2>7, <3>2, <3>3, <3>4
  <2>9. CASE s <= q
    <3>1. s < n
      BY <1>1, <2>1, <2>4, <2>9
    <3>2. n \in C \cup {E}
      BY <1>1, <2>3, <2>4, <3>1 DEF Outside
    <3>3. \A r \in C : r <= q \/ n <= r
      <4> TAKE r \in C
      <4>1. CASE r \in N
        BY <1>1, <1>8, <2>1, <2>9, <4>1
      <4>2. CASE r \in Outside(B, p, s)
        BY <2>1, <4>2, Apart DEF Outside, n
      <4> QED BY <4>1, <4>2
    <3>4. PrevAlloc(g, n) = PrevAlloc(h, n)
      BY <1>3, <2>4, <3>1
    <3> QED BY <1>7, <2>2, <2>3, <2>7, <3>2, <3>3, <3>4
  <2> QED BY <2>1, <2>8, <2>9
<1>11. ASSUME NEW q \in N
       PROVE  /\ Following(g, q) \in C \cup {E}
              /\ q + (IF q = 1 THEN 2 ELSE 3) <= Following(g, q)
              /\ \A r \in C : r <= q \/ Following(g, q) <= r
              /\ Alloc(g, q) = IF q \in X THEN 0 ELSE 1
              /\ PrevAlloc(g, Following(g, q)) = Alloc(g, q)
  <2> DEFINE n == Following(g, q)
  <2>1. /\ n \in N \cup {s} /\ q + 3 <= n
        /\ \A r \in N : r <= q \/ n <= r
        /\ Alloc(g, q) = IF q \in M THEN 0 ELSE 1
        /\ PrevAlloc(g, n) = Alloc(g, q)
    BY DEF Retiles
  <2> HIDE DEF n
  <2>2. q \in Int /\ p <= q /\ q < s /\ q # 1 /\ q \notin Outside(B, p, s)
    BY <1>1, <1>8 DEF Outside
  <2>3. n \in Int /\ n <= s
    BY <1>1, <1>8, <2>1
  <2>4. (q \in X) = (q \in M)
    BY <1>6, <2>2 DEF Outside
  <2>5. n \in C \cup {E}
    <3>1. s \in Outside(B, p, s) \/ s = E
      BY <1>0, <1>1 DEF Outside
    <3> QED BY <2>1, <3>1
  <2>6. \A r \in C : r <= q \/ n <= r
    <3> TAKE r \in C
    <3>1. CASE r \in N
      BY <2>1, <3>1
    <3>2. CASE r \in Outside(B, p, s)
      <4>1. r \in Int /\ (r < p \/ s <= r)
        BY <1>5, <3>2 DEF Outside
      <4> QED BY <1>1, <2>2, <2>3, <4>1
    <3> QED BY <3>1, <3>2
  <2> QED BY <2>1, <2>2, <2>4, <2>5, <2>6 DEF n
<1>12. g.mem[E] = Header(0, PrevAlloc(g, E), 1)
  <2>1. h.mem[E] = Header(0, PrevAlloc(h, E), 1)
    BY DEF Tagged
  <2>2. CASE s = E
    BY <2>2, LastTags DEF Retiles
  <2>3. CASE s # E
    <3>1. s < E
      BY <1>1, <2>3
    <3> QED BY <1>1, <1>2, <1>3, <2>1, <3>1
  <2> QED BY <2>2, <2>3
<1>13. Tagged(g, C, X)
  <2>1. \A q \in C :
            /\ Following(g, q) \in C \cup {E}
            /\ q + (IF q = 1 THEN 2 ELSE 3) <= Following(g, q)
            /\ \A r \in C : r <= q \/ Following(g, q) <= r
            /\ Alloc(g, q) = IF q \in X THEN 0 ELSE 1
            /\ PrevAlloc(g, Following(g, q)) = Alloc(g, q)
    <3> TAKE q \in C
    <3>1. CASE q \in N
      BY <1>11, <3>1
    <3>2. CASE q \in Outside(B, p, s)
      BY <1>10, <3>2
    <3> QED BY <3>1, <3>2
  <2> HIDE DEF C, X
  <2> QED BY <1>2, <1>9, <1>12, <2>1 DEF Tagged
<1> QED BY <1>7, <1>13

(* h with such blocks, as a heap with its lists.                           *)
Retiled(h, g, B, D, L, p, s, N, M) ==
    /\ Loose(g, Outside(B, p, s) \cup N, Outside(D, p, s) \cup M, L)
    /\ Keeps(h, g, Outside(B, p, s))
    /\ Len(g.mem) = Len(h.mem)
    /\ \A q \in Outside(B, p, s) : Size(g, q) = Size(h, q)

(* The lists stay, too, when no block of them was among those words.       *)
LEMMA RetileLoose ==
    ASSUME NEW h, NEW B, NEW D, NEW L, Loose(h, B, D, L),
           NEW p, NEW s, Spans(h, B, p, s), L \subseteq Outside(D, p, s),
           NEW g, NEW N, NEW M, Retiles(h, g, p, s, N, M)
    PROVE  Retiled(h, g, B, D, L, p, s, N, M)
<1> DEFINE E == Len(h.mem)
<1>0. Tagged(h, B, D)
  BY DEF Loose
<1>1. h \in Heaps /\ E \in Nat /\ p \in Int /\ 1 < p /\ p < E /\ s \in Int /\ s <= E
      /\ p \in 1 .. E /\ s \in 1 .. E
  BY <1>0, SpanFacts
<1>2. /\ Tagged(g, Outside(B, p, s) \cup N, Outside(D, p, s) \cup M)
      /\ \A q \in Outside(B, p, s) : Size(g, q) = Size(h, q)
  <2> HIDE DEF E
  <2> QED BY <1>0, RetileTagged
<1>3. /\ Changes(h, g, p .. s) /\ g \in Heaps /\ Len(g.mem) = E
      /\ \A a \in 1 .. E : a < p \/ s < a => g.mem[a] = h.mem[a]
  BY <1>1 DEF Retiles, Changes
<1>4. \A q \in Outside(B, p, s) :
        /\ q \in Int /\ Following(h, q) \in Int /\ Following(h, q) <= E
        /\ Following(g, q) = Following(h, q)
        /\ \A a \in q + 1 .. Following(h, q) - 1 : a \in 1 .. E /\ (a < p \/ s < a)
  <2> TAKE q \in Outside(B, p, s)
  <2>1. q \in B /\ (q < p \/ s <= q)
    BY DEF Outside
  <2>2. q \in Int /\ Following(h, q) \in Int /\ 1 <= q /\ Following(h, q) <= E
    BY <1>0, <2>1, BlockFacts
  <2>3. Following(g, q) = Following(h, q)
    BY <1>2 DEF Following
  <2>4. q < p => Following(h, q) <= p
    BY <1>0, <1>1, <2>1, <2>2, Apart DEF Spans
  <2>5. ASSUME NEW a \in q + 1 .. Following(h, q) - 1
        PROVE  a \in 1 .. E /\ (a < p \/ s < a)
    BY <1>1, <2>1, <2>2, <2>4
  <2> QED BY <2>2, <2>3, <2>5
<1>5. Keeps(h, g, Outside(B, p, s))
  BY <1>2, <1>3, <1>4 DEF Keeps
<1>6. L \subseteq Outside(B, p, s)
  BY <1>0 DEF Outside, Tagged
<1>7. ListsOf(g, L) = ListsOf(h, L)
  <2>1. \A q \in L : Size(g, q) = Size(h, q)
    BY <1>2, <1>6
  <2> QED BY <2>1 DEF ListsOf
<1>8. \A a \in p .. s : a \notin LinkWords(ListsOf(h, L))
  <2> SUFFICES ASSUME NEW a \in p .. s, a \in LinkWords(ListsOf(h, L)) PROVE FALSE
    OBVIOUS
  <2>1. a - 1 \in L /\ a \in Int
    BY <1>1 DEF LinkWords, ListsOf
  <2> DEFINE q == a - 1
  <2>2. q \in Outside(B, p, s) /\ q \in D /\ q \in B /\ q # 1
    BY <1>0, <1>6, <2>1 DEF Loose, Tagged
  <2> HIDE DEF q
  <2>3. q + 3 <= Following(h, q) /\ q \in Int /\ Following(h, q) \in Int
    BY <1>0, <2>2, BlockFacts
  <2>4. a \in q + 1 .. Following(h, q) - 1
    BY <2>1, <2>3 DEF q
  <2>5. a < p \/ s < a
    BY <1>4, <2>2, <2>4
  <2> QED BY <1>1, <2>5
<1>9. Linked(g, ListsOf(g, L))
  <2>1. Linked(h, ListsOf(h, L)) /\ g.roots = h.roots
    BY DEF Loose, Retiles
  <2> QED BY <1>1, <1>3, <1>7, <1>8, <2>1, LinkedSame
<1>10. ASSUME NEW q \in L PROVE Footed(g, q)
  <2>1. q \in Outside(B, p, s) /\ q \in D /\ q \in B /\ q # 1 /\ Footed(h, q)
    BY <1>0, <1>6 DEF Loose, Tagged
  <2>2. q + 3 <= Following(h, q) /\ q \in Int /\ Following(h, q) \in Int
    BY <1>0, <2>1, BlockFacts
  <2>3. Following(h, q) - 1 \in q + 1 .. Following(h, q) - 1
    BY <2>2
  <2>4. g.mem[Following(h, q) - 1] = h.mem[Following(h, q) - 1]
    BY <1>3, <1>4, <2>1, <2>3
  <2>5. Following(g, q) = Following(h, q) /\ Size(g, q) = Size(h, q)
    BY <1>2, <1>4, <2>1
  <2> QED BY <2>1, <2>4, <2>5 DEF Footed
<1>11. L \subseteq Outside(D, p, s) \cup M
  OBVIOUS
<1>12. Loose(g, Outside(B, p, s) \cup N, Outside(D, p, s) \cup M, L)
  BY <1>2, <1>9, <1>10, <1>11 DEF Loose
<1> QED BY <1>2, <1>3, <1>5, <1>12 DEF Retiled

-----------------------------------------------------------------------------
(* Lists and tags together.                                                *)

(* Which words are links, and which list a block is in.                    *)
LEMMA ListsWords ==
    ASSUME NEW h, NEW L
    PROVE  /\ \A a \in Int : a \in LinkWords(ListsOf(h, L)) => a - 1 \in L
           /\ \A a \in LinkWords(ListsOf(h, L)) : a \in Nat /\ a - 1 \in L
           /\ \A l \in 0 .. Levels - 1 : \A p :
                p \in ListsOf(h, L)[l] <=> p \in L /\ Level(Size(h, p) - 1) = l
<1>1. \A l \in 0 .. Levels - 1 : \A p :
                p \in ListsOf(h, L)[l] <=> p \in L /\ Level(Size(h, p) - 1) = l
  BY DEF ListsOf
<1>2. \A a \in LinkWords(ListsOf(h, L)) : a \in Nat /\ a - 1 \in L
  BY <1>1 DEF LinkWords
<1> QED BY <1>1, <1>2

(* Where the links and the footer of a free block are, no tags are.        *)
LEMMA FreeWords ==
    ASSUME NEW h, NEW B, NEW D, Tagged(h, B, D), NEW p \in D
    PROVE  /\ p \in B /\ p # 1 /\ p \in Int /\ Following(h, p) \in Int
           /\ p + 3 <= Following(h, p)
           /\ p + 1 \in p + 1 .. Following(h, p) - 1
           /\ Following(h, p) - 1 \in p + 1 .. Following(h, p) - 1
           /\ Following(h, p) - 1 # p + 1
           /\ \A q \in B \cup {Len(h.mem)} : q # p + 1 /\ q # Following(h, p) - 1
           /\ Alloc(h, p) = 0 /\ PrevAlloc(h, Following(h, p)) = 0
<1>1. p \in B /\ p # 1 /\ Alloc(h, p) = 0 /\ PrevAlloc(h, Following(h, p)) = 0
  BY DEF Tagged
<1>2. p \in Int /\ Following(h, p) \in Int /\ p + 3 <= Following(h, p)
  BY <1>1, BlockFacts
<1>3. /\ p + 1 \in p + 1 .. Following(h, p) - 1
      /\ Following(h, p) - 1 \in p + 1 .. Following(h, p) - 1
      /\ Following(h, p) - 1 # p + 1
  BY <1>2
<1>4. \A q \in B \cup {Len(h.mem)} : q \notin p + 1 .. Following(h, p) - 1
  BY <1>1, Apart
<1> QED BY <1>1, <1>2, <1>3, <1>4

(* A body is the words of a block after its header.                        *)
LEMMA BodyWords ==
    ASSUME NEW h, NEW B, NEW D, Tagged(h, B, D), NEW p \in B, NEW q \in B, p # q,
           NEW a \in p + 1 .. Following(h, p) - 1
    PROVE  /\ a \notin q .. Following(h, q) - 1
           /\ a \in Int /\ a \in 1 .. Len(h.mem)
           /\ a \notin B /\ a # Len(h.mem)
<1>1. /\ p \in Int /\ Following(h, p) \in Int /\ 1 <= p /\ Following(h, p) <= Len(h.mem)
      /\ Len(h.mem) \in Nat
  BY BlockFacts
<1>2. q \in Int /\ Following(h, q) \in Int
  BY BlockFacts
<1>3. (q <= p \/ Following(h, p) <= q) /\ (p <= q \/ Following(h, q) <= p)
  BY Apart
<1>4. a \in Int /\ a \in 1 .. Len(h.mem) /\ a # Len(h.mem)
  BY <1>1
<1>5. a \notin B
  BY Apart
<1>6. a \notin q .. Following(h, q) - 1
  BY <1>1, <1>2, <1>3, <1>4
<1> QED BY <1>4, <1>5, <1>6

(* g is h with X and M for the free blocks and the listed ones.            *)
Relisted(h, g, B, X, M, U) ==
    /\ Loose(g, B, X, M) /\ Keeps(h, g, U)
    /\ Len(g.mem) = Len(h.mem)
    /\ \A q \in B : Size(g, q) = Size(h, q)

(* remove_block_from_segrelist on a heap in order, but for a free block    *)
(* outside the lists: one free block less, one listed block less, the words*)
(* of the allocated blocks as they were.                                   *)
LEMMA RemoveLoose ==
    ASSUME NEW h, NEW B, NEW D, NEW L, Loose(h, B, D, L), NEW p \in L
    PROVE  Relisted(h, Remove(h, p, Level(Size(h, p) - 1)), B, D \ {p}, L \ {p}, B \ D)
<1> DEFINE l == Level(Size(h, p) - 1)
           g == Remove(h, p, l)
           s == Following(h, p)
           F == ListsOf(h, L)
           V == LinkWords(F) \cup {p, s}
<1>1. Tagged(h, B, D) /\ Linked(h, F) /\ h \in Heaps /\ L \subseteq D /\ p \in D /\ p \in B
      /\ D \subseteq B
  BY DEF Loose, Tagged
<1>2. l \in 0 .. Levels - 1 /\ p \in F[l]
  <2>1. l \in 0 .. Levels - 1
    BY LevelType
  <2> QED BY <2>1, ListsWords
<1>3. \A a \in LinkWords(F) : a \notin B /\ a # Len(h.mem) /\ a - 1 \in L /\ a \in Nat
  <2> TAKE a \in LinkWords(F)
  <2>1. a - 1 \in D /\ a \in Nat /\ a - 1 \in L
    BY <1>1, ListsWords
  <2> DEFINE r == a - 1
  <2>2. r \in D /\ r + 1 = a
    BY <2>1
  <2> HIDE DEF r
  <2>3. \A q \in B \cup {Len(h.mem)} : q # r + 1
    BY <1>1, <2>2, FreeWords
  <2> QED BY <2>1, <2>2, <2>3
<1>4. s \in B \cup {Len(h.mem)} /\ s \in 1 .. Len(h.mem) /\ s # p /\ s \in Int /\ p \in Int
      /\ p \in 1 .. Len(h.mem)
  BY <1>1, BlockFacts
<1>5. p \notin LinkWords(F) /\ s \notin LinkWords(F)
  BY <1>1, <1>3, <1>4
<1>6. Alloc(h, p) = 0
  BY <1>1, FreeWords
<1> HIDE DEF l, F
<1>7. /\ Changes(h, g, V)
      /\ Linked(g, [F EXCEPT ![l] = F[l] \ {p}])
      /\ g.mem[p] = Header(Size(h, p), PrevAlloc(h, p), 1)
      /\ g.mem[s] = Header(Size(h, s), 1, Alloc(h, s))
  BY <1>1, <1>2, <1>4, <1>5, <1>6, RemoveIs
<1> HIDE DEF g
<1>8. g \in Heaps /\ Len(g.mem) = Len(h.mem)
  BY <1>7 DEF Changes
<1>9. /\ Size(g, p) = Size(h, p) /\ PrevAlloc(g, p) = PrevAlloc(h, p) /\ Alloc(g, p) = 1
      /\ Size(g, s) = Size(h, s) /\ PrevAlloc(g, s) = 1 /\ Alloc(g, s) = Alloc(h, s)
  BY <1>4, <1>7, <1>8, HeaderReads
<1>10. \A q \in 1 .. Len(h.mem) : q \notin V =>
        Size(g, q) = Size(h, q) /\ Alloc(g, q) = Alloc(h, q) /\ PrevAlloc(g, q) = PrevAlloc(h, q)
  BY <1>1, <1>7, ChangesReads
<1>11. \A q \in B \cup {Len(h.mem)} :
        /\ q \in 1 .. Len(h.mem)
        /\ Size(g, q) = Size(h, q) /\ (q # p => Alloc(g, q) = Alloc(h, q))
        /\ PrevAlloc(g, q) = IF q = s THEN 1 ELSE PrevAlloc(h, q)
  <2> TAKE q \in B \cup {Len(h.mem)}
  <2>1. q \in 1 .. Len(h.mem)
    <3>1. CASE q \in B
      BY <1>1, <3>1, BlockFacts
    <3>2. CASE q = Len(h.mem)
      BY <1>1, <3>2, LastTags
    <3> QED BY <3>1, <3>2
  <2>2. q \notin LinkWords(F)
    BY <1>3
  <2>3. CASE q = p
    BY <1>4, <1>9, <2>1, <2>3
  <2>4. CASE q = s
    BY <1>4, <1>9, <2>1, <2>4
  <2>5. CASE q # p /\ q # s
    BY <1>10, <2>1, <2>2, <2>5
  <2> QED BY <2>3, <2>4, <2>5
<1>12. ASSUME NEW q \in B
       PROVE  /\ Following(g, q) = Following(h, q)
              /\ Alloc(g, q) = IF q \in D \ {p} THEN 0 ELSE 1
              /\ PrevAlloc(g, Following(h, q)) = Alloc(g, q)
  <2>1. Following(g, q) = Following(h, q)
    BY <1>11 DEF Following
  <2>2. Alloc(h, q) = (IF q \in D THEN 0 ELSE 1) /\ PrevAlloc(h, Following(h, q)) = Alloc(h, q)
        /\ Following(h, q) \in B \cup {Len(h.mem)}
    BY <1>1 DEF Tagged
  <2>3. CASE q = p
    BY <1>9, <2>1, <2>3
  <2>4. CASE q # p
    <3>1. Following(h, q) # s
      <4>1. (q <= p \/ s <= q) /\ (p <= q \/ Following(h, q) <= p)
        BY <1>1, Apart
      <4>2. q \in Int /\ Following(h, q) \in Int /\ q < Following(h, q) /\ p < s
        BY <1>1, BlockFacts
      <4> QED BY <1>4, <2>4, <4>1, <4>2
    <3>2. Alloc(g, q) = IF q \in D \ {p} THEN 0 ELSE 1
      BY <1>11, <2>2, <2>4
    <3>3. PrevAlloc(g, Following(h, q)) = PrevAlloc(h, Following(h, q))
      BY <1>11, <2>2, <3>1
    <3> QED BY <1>11, <2>1, <2>2, <2>4, <3>2, <3>3
  <2> QED BY <2>3, <2>4
<1>13. Tagged(g, B, D \ {p})
  <2>1. g.mem[Len(h.mem)] = Header(0, PrevAlloc(g, Len(h.mem)), 1)
    <3>1. h.mem[Len(h.mem)] = Header(0, PrevAlloc(h, Len(h.mem)), 1)
      BY <1>1 DEF Tagged
    <3>2. Size(h, Len(h.mem)) = 0 /\ Alloc(h, Len(h.mem)) = 1 /\ Len(h.mem) \in 1 .. Len(h.mem)
      BY <1>1, LastTags
    <3>3. CASE s = Len(h.mem)
      BY <1>7, <1>9, <3>2, <3>3
    <3>4. CASE s # Len(h.mem)
      <4>1. Len(h.mem) \notin V
        BY <1>1, <1>3, <3>4, BlockFacts
      <4>2. g.mem[Len(h.mem)] = h.mem[Len(h.mem)]
        BY <1>7, <3>2, <4>1 DEF Changes
      <4>3. PrevAlloc(g, Len(h.mem)) = PrevAlloc(h, Len(h.mem))
        BY <1>10, <3>2, <4>1
      <4> QED BY <3>1, <4>2, <4>3
    <3> QED BY <3>3, <3>4
  <2>2. \A q \in B :
            /\ Following(h, q) \in B \cup {Len(h.mem)}
            /\ q + (IF q = 1 THEN 2 ELSE 3) <= Following(h, q)
            /\ \A r \in B : r <= q \/ Following(h, q) <= r
    BY <1>1 DEF Tagged
  <2>3. B \in SUBSET (1 .. Len(h.mem) - 1) /\ D \ {p} \subseteq B /\ 1 \in B /\ 1 \notin D
    BY <1>1 DEF Tagged
  <2>4. \A q \in B :
            /\ Following(g, q) \in B \cup {Len(h.mem)}
            /\ q + (IF q = 1 THEN 2 ELSE 3) <= Following(g, q)
            /\ \A r \in B : r <= q \/ Following(g, q) <= r
            /\ Alloc(g, q) = IF q \in D \ {p} THEN 0 ELSE 1
            /\ PrevAlloc(g, Following(g, q)) = Alloc(g, q)
    BY <1>12, <2>2
  <2> QED BY <1>8, <2>1, <2>3, <2>4 DEF Tagged
<1>14. ListsOf(g, L \ {p}) = [F EXCEPT ![l] = F[l] \ {p}]
  <2>1. \A q \in L : Size(g, q) = Size(h, q)
    BY <1>1, <1>11
  <2>2. \A m \in 0 .. Levels - 1 : m # l => p \notin F[m]
    BY <1>1, <1>2, ListsWords DEF F, l
  <2>3. F = [m \in 0 .. Levels - 1 |-> {q \in L : Level(Size(h, q) - 1) = m}]
    BY DEF F, ListsOf
  <2>4. ListsOf(g, L \ {p}) = [m \in 0 .. Levels - 1 |-> F[m] \ {p}]
    BY <2>1, <2>3 DEF ListsOf
  <2>5. [F EXCEPT ![l] = F[l] \ {p}] = [m \in 0 .. Levels - 1 |-> F[m] \ {p}]
    BY <1>2, <2>2, <2>3
  <2> QED BY <2>4, <2>5
<1>15. \A a \in 1 .. Len(h.mem) : a \notin V => g.mem[a] = h.mem[a]
  BY <1>7 DEF Changes
<1>16. ASSUME NEW q \in L \ {p} PROVE Footed(g, q)
  <2>1. q \in D /\ q \in B /\ Footed(h, q) /\ q # p
    BY <1>1 DEF Loose
  <2> DEFINE a == Following(h, q) - 1
  <2>2. a \in q + 1 .. Following(h, q) - 1 /\ a # q + 1
        /\ \A r \in B \cup {Len(h.mem)} : r # a
    BY <1>1, <2>1, FreeWords
  <2> HIDE DEF a
  <2>3. a \notin LinkWords(F)
    <3> SUFFICES ASSUME a \in LinkWords(F) PROVE FALSE
      OBVIOUS
    <3> DEFINE r == a - 1
    <3>1. r \in L /\ r \in D /\ r \in B /\ a \in Int
      BY <1>1, <1>3
    <3>2. r + 1 = a
      BY <3>1
    <3> HIDE DEF r
    <3>3. CASE r = q
      BY <2>2, <3>2, <3>3
    <3>4. CASE r # q
      <4>1. a \notin r .. Following(h, r) - 1
        BY <1>1, <2>1, <2>2, <3>1, <3>4, BodyWords
      <4>2. r + 1 \in r + 1 .. Following(h, r) - 1 /\ r \in Int /\ Following(h, r) \in Int
        BY <1>1, <3>1, FreeWords
      <4> QED BY <3>2, <4>1, <4>2
    <3> QED BY <3>3, <3>4
  <2>4. a \notin V
    BY <1>1, <1>4, <2>2, <2>3
  <2>5. a \in 1 .. Len(h.mem)
    BY <1>1, <2>1, <2>2, BodyWords
  <2>6. g.mem[a] = h.mem[a]
    BY <1>15, <2>4, <2>5
  <2> QED BY <1>11, <1>12, <2>1, <2>6 DEF Footed, a
<1>17. Keeps(h, g, B \ D)
  <2>1. ASSUME NEW q \in B \ D, NEW a \in q + 1 .. Following(h, q) - 1
        PROVE  g.mem[a] = h.mem[a]
    <3>1. q # p /\ a \in Int /\ a \in 1 .. Len(h.mem) /\ a \notin B /\ a # Len(h.mem)
      BY <1>1, BodyWords
    <3>2. a \notin LinkWords(F)
      <4> SUFFICES ASSUME a \in LinkWords(F) PROVE FALSE
        OBVIOUS
      <4> DEFINE r == a - 1
      <4>1. r \in D /\ r \in B /\ r # q /\ r + 1 = a
        BY <1>1, <1>3, <3>1
      <4> HIDE DEF r
      <4>2. a \notin r .. Following(h, r) - 1
        BY <1>1, <4>1, BodyWords
      <4>3. r + 1 \in r + 1 .. Following(h, r) - 1 /\ r \in Int /\ Following(h, r) \in Int
        BY <1>1, <4>1, FreeWords
      <4> QED BY <4>1, <4>2, <4>3
    <3>3. a \notin V
      BY <1>1, <1>4, <3>1, <3>2
    <3> QED BY <1>15, <3>1, <3>3
  <2>2. \A q \in B \ D : Size(g, q) = Size(h, q)
    BY <1>11
  <2> QED BY <2>1, <2>2 DEF Keeps
<1>18. Loose(g, B, D \ {p}, L \ {p})
  BY <1>1, <1>7, <1>13, <1>14, <1>16 DEF Loose
<1> QED BY <1>8, <1>11, <1>17, <1>18 DEF Relisted, g, l

-----------------------------------------------------------------------------
(* insert_block_to_segrelist on such a heap: one listed block more.        *)
LEMMA InsertLoose ==
    ASSUME NEW h, NEW B, NEW D, NEW L, Loose(h, B, D, L), NEW p \in D, p \notin L,
           Footed(h, p)
    PROVE  Relisted(h, Insert(h, p, Level(Size(h, p) - 1)), B, D, L \cup {p}, B \ D)
<1> DEFINE l == Level(Size(h, p) - 1)
           g == Insert(h, p, l)
           F == ListsOf(h, L)
           V == LinkWords(F) \cup {p + 1}
<1>1. Tagged(h, B, D) /\ Linked(h, F) /\ h \in Heaps /\ L \subseteq D /\ p \in B
      /\ D \subseteq B /\ Len(h.mem) \in Nat
  BY HeapType DEF Loose, Tagged
<1>2. l \in 0 .. Levels - 1 /\ \A m \in 0 .. Levels - 1 : p \notin F[m]
  <2>1. l \in 0 .. Levels - 1
    BY LevelType
  <2> QED BY <2>1, ListsWords
<1>3. p \in 1 .. Len(h.mem) - 1
  BY <1>1 DEF Tagged
<1> HIDE DEF l, F
<1>4. /\ Changes(h, g, V)
      /\ Linked(g, [F EXCEPT ![l] = F[l] \cup {p}])
  BY <1>1, <1>2, <1>3, InsertIs
<1> HIDE DEF g
<1>5. g \in Heaps /\ Len(g.mem) = Len(h.mem)
  BY <1>4 DEF Changes
<1>6. \A a \in V : \E r \in D : a = r + 1
  <2> TAKE a \in V
  <2>1. CASE a = p + 1
    BY <2>1
  <2>2. CASE a \in LinkWords(F)
    <3>1. a - 1 \in L /\ a \in Nat
      BY <2>2, ListsWords DEF F
    <3>2. a - 1 \in D /\ a = (a - 1) + 1
      BY <1>1, <3>1
    <3> QED BY <3>2
  <2> QED BY <2>1, <2>2
<1>7. ASSUME NEW r \in D, NEW q \in B, NEW a \in q + 1 .. Following(h, q) - 1, a = r + 1
      PROVE  r = q
  <2> SUFFICES ASSUME r # q PROVE FALSE
    OBVIOUS
  <2>1. r \in B
    BY <1>1
  <2>2. a \notin r .. Following(h, r) - 1
    BY <1>1, <2>1, BodyWords
  <2>3. r + 1 \in r + 1 .. Following(h, r) - 1 /\ r \in Int /\ Following(h, r) \in Int
    BY <1>1, FreeWords
  <2> QED BY <1>7, <2>2, <2>3
<1>8. \A a \in 1 .. Len(h.mem) : a \notin V => g.mem[a] = h.mem[a]
  BY <1>4 DEF Changes
<1>9. \A a \in B \cup {Len(h.mem)} : a \in 1 .. Len(h.mem) /\ a \notin V
  <2> TAKE a \in B \cup {Len(h.mem)}
  <2>1. a \in 1 .. Len(h.mem)
    <3>1. CASE a \in B
      BY <1>1, <3>1, BlockFacts
    <3>2. CASE a = Len(h.mem)
      BY <1>1, <3>2, LastTags
    <3> QED BY <3>1, <3>2
  <2>2. \A r \in D : a # r + 1
    BY <1>1, FreeWords
  <2> QED BY <1>6, <2>1, <2>2
<1>10. \A q \in B \cup {Len(h.mem)} :
         Size(g, q) = Size(h, q) /\ Alloc(g, q) = Alloc(h, q) /\ PrevAlloc(g, q) = PrevAlloc(h, q)
  BY <1>1, <1>4, <1>9, ChangesReads
<1>11. \A q \in B : /\ Following(g, q) = Following(h, q)
                    /\ Following(h, q) \in B \cup {Len(h.mem)}
  BY <1>1, <1>10 DEF Following, Tagged
<1>12. Tagged(g, B, D)
  <2>1. g.mem[Len(h.mem)] = Header(0, PrevAlloc(g, Len(h.mem)), 1)
    BY <1>1, <1>8, <1>9, <1>10 DEF Tagged
  <2>2. B \in SUBSET (1 .. Len(h.mem) - 1) /\ D \subseteq B /\ 1 \in B /\ 1 \notin D
    BY <1>1 DEF Tagged
  <2>3. \A q \in B :
            /\ Following(h, q) \in B \cup {Len(h.mem)}
            /\ q + (IF q = 1 THEN 2 ELSE 3) <= Following(h, q)
            /\ \A r \in B : r <= q \/ Following(h, q) <= r
            /\ Alloc(h, q) = IF q \in D THEN 0 ELSE 1
            /\ PrevAlloc(h, Following(h, q)) = Alloc(h, q)
    BY <1>1 DEF Tagged
  <2>4. \A q \in B :
            /\ Following(g, q) \in B \cup {Len(h.mem)}
            /\ q + (IF q = 1 THEN 2 ELSE 3) <= Following(g, q)
            /\ \A r \in B : r <= q \/ Following(g, q) <= r
            /\ Alloc(g, q) = IF q \in D THEN 0 ELSE 1
            /\ PrevAlloc(g, Following(g, q)) = Alloc(g, q)
    BY <1>10, <1>11, <2>3
  <2> QED BY <1>5, <2>1, <2>2, <2>4 DEF Tagged
<1>13. ListsOf(g, L \cup {p}) = [F EXCEPT ![l] = F[l] \cup {p}]
  <2>1. \A q \in L \cup {p} : Size(g, q) = Size(h, q)
    BY <1>1, <1>10
  <2>2. F = [m \in 0 .. Levels - 1 |-> {q \in L : Level(Size(h, q) - 1) = m}]
    BY DEF F, ListsOf
  <2>3. ListsOf(g, L \cup {p}) =
            [m \in 0 .. Levels - 1 |-> IF m = l THEN F[m] \cup {p} ELSE F[m]]
    BY <2>1, <2>2 DEF ListsOf, l
  <2> QED BY <1>2, <2>2, <2>3
<1>14. ASSUME NEW q \in L \cup {p} PROVE Footed(g, q)
  <2>1. q \in D /\ q \in B /\ Footed(h, q)
    BY <1>1 DEF Loose
  <2> DEFINE a == Following(h, q) - 1
  <2>2. a \in q + 1 .. Following(h, q) - 1 /\ a # q + 1
    BY <1>1, <2>1, FreeWords
  <2> HIDE DEF a
  <2>3. a \notin V
    BY <1>6, <1>7, <2>1, <2>2
  <2>4. a \in 1 .. Len(h.mem)
    <3>1. q \in Int /\ 1 <= q /\ Following(h, q) \in Int /\ Following(h, q) <= Len(h.mem)
      BY <1>1, <2>1, BlockFacts
    <3> QED BY <1>1, <2>2, <3>1
  <2> QED BY <1>8, <1>10, <1>11, <2>1, <2>3, <2>4 DEF Footed, a
<1>15. Keeps(h, g, B \ D)
  <2>1. ASSUME NEW q \in B \ D, NEW a \in q + 1 .. Following(h, q) - 1
        PROVE  g.mem[a] = h.mem[a]
    <3>1. a \notin V
      BY <1>6, <1>7
    <3>2. a \in 1 .. Len(h.mem)
      <4>1. q \in Int /\ 1 <= q /\ Following(h, q) \in Int /\ Following(h, q) <= Len(h.mem)
        BY <1>1, BlockFacts
      <4> QED BY <1>1, <4>1
    <3> QED BY <1>8, <3>1, <3>2
  <2>2. \A q \in B \ D : Size(g, q) = Size(h, q)
    BY <1>10
  <2> QED BY <2>1, <2>2 DEF Keeps
<1>16. Loose(g, B, D, L \cup {p})
  <2>1. \A q \in L : Footed(h, q)
    BY DEF Loose
  <2> QED BY <1>1, <1>4, <1>12, <1>13, <1>14 DEF Loose
<1> QED BY <1>5, <1>10, <1>15, <1>16 DEF Relisted, g, l

-----------------------------------------------------------------------------
(* place_alloc and place_free.                                             *)

(* What place_alloc and place_free write.                                  *)
PlacedAlloc(h, g, p, size, prev) ==
    /\ Changes(h, g, {p, p + size}) /\ g.roots = h.roots
    /\ g.mem[p] = Header(size, prev, 1)
    /\ g.mem[p + size] = Header(Size(h, p + size), 1, Alloc(h, p + size))

PlacedFree(h, g, p, size, prev) ==
    /\ Changes(h, g, {p, p + size - 1, p + size}) /\ g.roots = h.roots
    /\ g.mem[p] = Header(size, prev, 0)
    /\ g.mem[p + size - 1] = Header(size, prev, 0)
    /\ g.mem[p + size] = Header(Size(h, p + size), 0, Alloc(h, p + size))

(* place_alloc writes the header of the block and one bit of the next.     *)
LEMMA PlaceAllocIs ==
    ASSUME NEW h \in Heaps, NEW p \in 1 .. Len(h.mem), NEW size \in Nat, size > 0,
           p + size \in 1 .. Len(h.mem), NEW prev \in {0, 1}
    PROVE  PlacedAlloc(h, PlaceAlloc(h, p, size, prev), p, size, prev)
<1> DEFINE k == WriteHeader(h, p, size, prev, 1)
           s == p + size
           g == ChangePrevAlloc(k, s, 1)
<1>1. HeaderChange(h, k, p, size, prev, 1)
  BY WriteHeaderIs
<1>2. PlaceAlloc(h, p, size, prev) = g
  BY DEF PlaceAlloc
<1>3. s \in 1 .. Len(h.mem) /\ s \notin {p} /\ p \notin {s} /\ Len(h.mem) \in Nat
  BY HeapType
<1> HIDE DEF k, s
<1>4. k \in Heaps /\ Len(k.mem) = Len(h.mem) /\ Changes(h, k, {p}) /\ k.roots = h.roots
      /\ k.mem[p] = Header(size, prev, 1)
  BY <1>1 DEF HeaderChange, Changes
<1>5. Size(k, s) = Size(h, s) /\ Alloc(k, s) = Alloc(h, s)
  BY <1>3, <1>4, ChangesReads
<1>6. HeaderChange(k, g, s, Size(h, s), 1, Alloc(h, s))
  BY <1>3, <1>4, <1>5, ChangePrevAllocIs
<1> HIDE DEF g
<1>7. Changes(k, g, {s}) /\ g.roots = k.roots
      /\ g.mem[s] = Header(Size(h, s), 1, Alloc(h, s))
  BY <1>6 DEF HeaderChange
<1>8. Changes(h, g, {p, s})
  BY <1>4, <1>7, ChangesThen
<1>9. g.mem[p] = k.mem[p]
  BY <1>3, <1>4, <1>7 DEF Changes
<1> QED BY <1>2, <1>4, <1>7, <1>8, <1>9 DEF PlacedAlloc, s

(* place_free writes the header, the footer, and one bit of the next.      *)
LEMMA PlaceFreeIs ==
    ASSUME NEW h \in Heaps, NEW p \in 1 .. Len(h.mem), NEW size \in Nat, size > 1,
           p + size \in 1 .. Len(h.mem), NEW prev \in {0, 1}
    PROVE  PlacedFree(h, PlaceFree(h, p, size, prev), p, size, prev)
<1> DEFINE k == WriteHeader(h, p, size, prev, 0)
           f == p + size - 1
           m == WriteHeader(k, f, size, prev, 0)
           s == p + size
           g == ChangePrevAlloc(m, s, 0)
<1>1. HeaderChange(h, k, p, size, prev, 0)
  BY WriteHeaderIs
<1>2. PlaceFree(h, p, size, prev) = g
  BY DEF PlaceFree
<1>3. /\ s \in 1 .. Len(h.mem) /\ f \in 1 .. Len(h.mem) /\ Len(h.mem) \in Nat
      /\ s # p /\ f # p /\ s # f
  BY HeapType
<1> HIDE DEF k, s, f
<1>4. k \in Heaps /\ Len(k.mem) = Len(h.mem) /\ Changes(h, k, {p}) /\ k.roots = h.roots
      /\ k.mem[p] = Header(size, prev, 0)
  BY <1>1 DEF HeaderChange, Changes
<1>5. HeaderChange(k, m, f, size, prev, 0)
  BY <1>3, <1>4, WriteHeaderIs
<1> HIDE DEF m
<1>6. m \in Heaps /\ Len(m.mem) = Len(h.mem) /\ Changes(k, m, {f}) /\ m.roots = h.roots
      /\ m.mem[f] = Header(size, prev, 0)
  BY <1>4, <1>5 DEF HeaderChange, Changes
<1>7. Changes(h, m, {p, f})
  BY <1>4, <1>6, ChangesThen
<1>8. m.mem[p] = Header(size, prev, 0)
  BY <1>3, <1>4, <1>6 DEF Changes
<1>9. Size(m, s) = Size(h, s) /\ Alloc(m, s) = Alloc(h, s)
  <2>1. s \notin {p, f}
    BY <1>3
  <2> QED BY <1>3, <1>7, <2>1, ChangesReads
<1>10. HeaderChange(m, g, s, Size(h, s), 0, Alloc(h, s))
  BY <1>3, <1>6, <1>9, ChangePrevAllocIs
<1> HIDE DEF g
<1>11. Changes(m, g, {s}) /\ g.roots = h.roots
      /\ g.mem[s] = Header(Size(h, s), 0, Alloc(h, s))
  BY <1>6, <1>10 DEF HeaderChange
<1>12. Changes(h, g, {p, f, s})
  BY <1>7, <1>11, ChangesThen
<1>13. g.mem[p] = m.mem[p] /\ g.mem[f] = m.mem[f]
  BY <1>3, <1>6, <1>11 DEF Changes
<1> QED BY <1>2, <1>6, <1>8, <1>11, <1>12, <1>13 DEF PlacedFree, s, f

-----------------------------------------------------------------------------
(* One block, or two, where p was.                                         *)
LEMMA OneTile ==
    ASSUME NEW h, NEW B, NEW D, Tagged(h, B, D), NEW p, NEW s, Spans(h, B, p, s),
           NEW g, NEW a \in {0, 1}, p + 3 <= s,
           Changes(h, g, p .. s), g.roots = h.roots,
           Size(g, p) = s - p, PrevAlloc(g, p) = PrevAlloc(h, p), Alloc(g, p) = a,
           g.mem[s] = Header(Size(h, s), a, Alloc(h, s))
    PROVE  Retiles(h, g, p, s, {p}, IF a = 0 THEN {p} ELSE {})
<1>1. /\ h \in Heaps /\ Len(h.mem) \in Nat /\ p \in Int /\ 1 < p /\ p < Len(h.mem)
      /\ s \in Int /\ s <= Len(h.mem) /\ s \in 1 .. Len(h.mem) /\ p \in 1 .. Len(h.mem)
  BY SpanFacts
<1>2. g \in Heaps /\ Len(g.mem) = Len(h.mem)
  BY DEF Changes
<1>3. PrevAlloc(g, s) = a
  BY <1>1, <1>2, HeaderReads
<1>4. Following(g, p) = s
  BY <1>1 DEF Following
<1>5. {p} \subseteq p .. s - 1
  BY <1>1
<1>6. \A q \in {p} :
        /\ Following(g, q) \in {p} \cup {s}
        /\ q + 3 <= Following(g, q)
        /\ \A r \in {p} : r <= q \/ Following(g, q) <= r
        /\ Alloc(g, q) = IF q \in (IF a = 0 THEN {p} ELSE {}) THEN 0 ELSE 1
        /\ PrevAlloc(g, Following(g, q)) = Alloc(g, q)
  BY <1>1, <1>3, <1>4
<1> QED BY <1>3, <1>5, <1>6 DEF Retiles

(* The tags of a block from p to before m and one from m to before s, with *)
(* the bits a and b.                                                       *)
Tiles(h, g, p, s, m, a, b) ==
    /\ m \in Int /\ p + 3 <= m /\ m + 3 <= s
    /\ Changes(h, g, p .. s) /\ g.roots = h.roots
    /\ g.mem[p] = Header(m - p, PrevAlloc(h, p), a)
    /\ g.mem[m] = Header(s - m, a, b)
    /\ g.mem[s] = Header(Size(h, s), b, Alloc(h, s))

(* Which of the two are free.                                              *)
FreeTiles(p, m, a, b) ==
    (IF a = 0 THEN {p} ELSE {}) \cup (IF b = 0 THEN {m} ELSE {})

(* These tags are consistent.                                              *)
Tiled(h, g, p, s, m, a, b) ==
    /\ Retiles(h, g, p, s, {p, m}, FreeTiles(p, m, a, b))
    /\ Following(g, p) = m /\ Following(g, m) = s
    /\ PrevAlloc(g, p) = PrevAlloc(h, p) /\ PrevAlloc(g, m) = a
    /\ Size(g, p) = m - p /\ Size(g, m) = s - m

(* Two blocks where one span was, cut at m.                                *)
LEMMA TwoTiles ==
    ASSUME NEW h, NEW B, NEW D, Tagged(h, B, D), NEW p, NEW s, Spans(h, B, p, s),
           NEW m, NEW g, NEW a \in {0, 1}, NEW b \in {0, 1}, Tiles(h, g, p, s, m, a, b)
    PROVE  Tiled(h, g, p, s, m, a, b)
<1>0. /\ m \in Int /\ p + 3 <= m /\ m + 3 <= s
      /\ Changes(h, g, p .. s) /\ g.roots = h.roots
      /\ g.mem[p] = Header(m - p, PrevAlloc(h, p), a)
      /\ g.mem[m] = Header(s - m, a, b)
      /\ g.mem[s] = Header(Size(h, s), b, Alloc(h, s))
  BY DEF Tiles
<1>1. /\ h \in Heaps /\ Len(h.mem) \in Nat /\ p \in Int /\ 1 < p /\ p < Len(h.mem)
      /\ s \in Int /\ s <= Len(h.mem) /\ s \in 1 .. Len(h.mem) /\ p \in 1 .. Len(h.mem)
  BY SpanFacts
<1>2. g \in Heaps /\ Len(g.mem) = Len(h.mem) /\ m \in 1 .. Len(h.mem)
  BY <1>0, <1>1 DEF Changes
<1>3. /\ PrevAlloc(g, s) = b /\ Size(g, p) = m - p /\ Size(g, m) = s - m
      /\ Alloc(g, p) = a /\ Alloc(g, m) = b /\ PrevAlloc(g, m) = a
      /\ PrevAlloc(g, p) = PrevAlloc(h, p)
  BY <1>0, <1>1, <1>2, HeaderReads
<1>4. Following(g, p) = m /\ Following(g, m) = s
  BY <1>0, <1>1, <1>3 DEF Following
<1>5. {p, m} \subseteq p .. s - 1 /\ p # m /\ p < m /\ m < s
  BY <1>0, <1>1
<1> DEFINE M == FreeTiles(p, m, a, b)
<1>6. (p \in M <=> a = 0) /\ (m \in M <=> b = 0) /\ M \subseteq {p, m}
  BY <1>5 DEF FreeTiles
<1> HIDE DEF M
<1>7. ASSUME NEW q \in {p, m}
      PROVE  /\ Following(g, q) \in {p, m} \cup {s}
             /\ q + 3 <= Following(g, q)
             /\ \A r \in {p, m} : r <= q \/ Following(g, q) <= r
             /\ Alloc(g, q) = IF q \in M THEN 0 ELSE 1
             /\ PrevAlloc(g, Following(g, q)) = Alloc(g, q)
  <2>1. CASE q = p
    BY <1>0, <1>1, <1>3, <1>4, <1>5, <1>6, <2>1
  <2>2. CASE q = m
    BY <1>0, <1>1, <1>3, <1>4, <1>5, <1>6, <2>2
  <2> QED BY <2>1, <2>2
<1>8. Retiles(h, g, p, s, {p, m}, M)
  BY <1>0, <1>3, <1>5, <1>6, <1>7 DEF Retiles
<1> QED BY <1>3, <1>4, <1>8 DEF M, Tiled

-----------------------------------------------------------------------------
(* coalesce: a block p that is free, of no list, and may have free          *)
(* neighbours.                                                             *)
Pending(h, B, D, p) ==
    /\ Loose(h, B, D, D \ {p}) /\ p \in D
    /\ \A q \in D \ {p} : Following(h, q) \notin D \ {p}
    /\ h.mem[Following(h, p) - 1] = Header(Size(h, p), PrevAlloc(h, p), 0)

(* The words from start to before stop hold p and its free neighbours.      *)
Region(h, B, D, p, start, stop) ==
    /\ Spans(h, B, start, stop) /\ start \in D /\ stop \notin D
    /\ start <= p /\ p < stop /\ start + 3 <= stop
    /\ \A q \in B : Following(h, q) = start => q \notin D
    /\ \A q \in B : q < start \/ stop <= q \/ q \in D

(* h has lost the neighbours, but is like f otherwise.                     *)
Detached(f, h, B, D, p, start, stop) ==
    /\ Loose(h, B, Outside(D, start, stop) \cup {p}, Outside(D, start, stop))
    /\ \A q \in B : Size(h, q) = Size(f, q)
    /\ Len(h.mem) = Len(f.mem)
    /\ Keeps(f, h, B \ D)

(* A block that two steps keep is kept by both together.                   *)
LEMMA KeepsThen ==
    ASSUME NEW f, NEW g, NEW h, NEW U, Keeps(f, g, U), Keeps(g, h, U)
    PROVE  Keeps(f, h, U)
<1>1. \A p \in U : Following(g, p) = Following(f, p)
  BY DEF Keeps, Following
<1> QED BY <1>1 DEF Keeps

(* What is kept of some blocks is kept of fewer.                           *)
LEMMA KeepsLess ==
    ASSUME NEW f, NEW g, NEW U, NEW T, Keeps(f, g, U), T \subseteq U
    PROVE  Keeps(f, g, T)
BY DEF Keeps

(* U are the blocks that are allocated in a heap that is in order.         *)
Sound(h, U) == \E B, D : Good(h, B, D) /\ U = B \ D

(* The step from f to g leaves a heap in order, and the blocks of U as they*)
(* were.                                                                   *)
Stays(f, g, U) == Sound(g, U) /\ Keeps(f, g, U) /\ Len(g.mem) = Len(f.mem)

(* The end of coalesce: the merged block, with its header and footer, joins*)
(* its list, and the heap is in order.                                     *)
LEMMA MergeGood ==
    ASSUME NEW f, NEW B, NEW D, NEW p, Pending(f, B, D, p),
           NEW start, NEW stop, Region(f, B, D, p, start, stop),
           NEW h, Detached(f, h, B, D, p, start, stop),
           NEW k, Retiles(h, k, start, stop, {start}, {start}),
           Footed(k, start)
    PROVE  Stays(f, Insert(k, start, Level(stop - start - 1)), B \ D)
<1> DEFINE L == Outside(D, start, stop)
           C == Outside(B, start, stop) \cup {start}
           X == L \cup {start}
           g == Insert(k, start, Level(stop - start - 1))
<1>1. Tagged(f, B, D) /\ D \subseteq B
  BY DEF Pending, Loose, Tagged
<1>2. /\ Spans(f, B, start, stop) /\ start \in D /\ stop \notin D
      /\ start <= p /\ p < stop /\ start + 3 <= stop /\ start \in B
  BY <1>1 DEF Region
<1>3. /\ start \in Int /\ stop \in Int
  BY <1>1, <1>2, SpanFacts
<1>4. p \in D /\ p \in B /\ p \in Int
  BY <1>1, BlockFacts DEF Pending
<1>5. p \notin L /\ start \notin L
  BY <1>2, <1>3, <1>4 DEF Outside
<1>6. Outside(L \cup {p}, start, stop) = L
  <2>1. ~(p < start) /\ ~(stop <= p)
    BY <1>2, <1>3, <1>4
  <2> QED BY <2>1 DEF Outside
<1>7. Loose(h, B, L \cup {p}, L) /\ Spans(h, B, start, stop) /\ Tagged(h, B, L \cup {p})
  BY <1>2 DEF Detached, Spans, Loose
<1>8. L \subseteq Outside(L \cup {p}, start, stop)
  BY <1>6
<1>9. /\ Loose(k, Outside(B, start, stop) \cup {start},
               Outside(L \cup {p}, start, stop) \cup {start}, L)
      /\ Keeps(h, k, Outside(B, start, stop))
      /\ Len(k.mem) = Len(h.mem)
      /\ \A q \in Outside(B, start, stop) : Size(k, q) = Size(h, q)
  <2> DEFINE R == L \cup {p}
  <2>1. Loose(h, B, R, L) /\ L \subseteq Outside(R, start, stop)
    BY <1>7, <1>8
  <2> HIDE DEF R, L
  <2>2. Retiled(h, k, B, R, L, start, stop, {start}, {start})
    BY <1>7, <2>1, RetileLoose
  <2> QED BY <2>2 DEF R, Retiled
<1>10. Loose(k, C, X, L) /\ start \in X /\ Tagged(k, C, X)
  BY <1>6, <1>9 DEF Loose
<1>11. Size(k, start) = stop - start /\ Following(k, start) = stop
  <2>1. start \in C
    OBVIOUS
  <2>2. Following(k, start) \in {start} \cup {stop} /\ start + 3 <= Following(k, start)
    BY DEF Retiles
  <2>3. Following(k, start) = stop
    BY <1>3, <2>2
  <2>4. Size(k, start) = Following(k, start) - start
    BY <1>10, <2>1, BlockFacts
  <2> QED BY <2>3, <2>4
<1> HIDE DEF C, X, L, g
<1>12. /\ Loose(g, C, X, L \cup {start})
       /\ Keeps(k, g, C \ X) /\ Len(g.mem) = Len(k.mem)
       /\ \A q \in C : Size(g, q) = Size(k, q)
  <2>1. start \notin L
    BY <1>5 DEF L
  <2>2. g = Insert(k, start, Level(Size(k, start) - 1))
    BY <1>11 DEF g
  <2>3. Footed(k, start) /\ Loose(k, C, X, L) /\ start \in X
    BY <1>10
  <2>4. Relisted(k, Insert(k, start, Level(Size(k, start) - 1)), C, X, L \cup {start}, C \ X)
    BY <2>1, <2>3, InsertLoose
  <2> QED BY <2>2, <2>4 DEF Relisted
<1>13. C \ X = B \ D
  <2>1. \A q \in B : q < start \/ stop <= q \/ q \in D
    BY DEF Region
  <2> QED BY <1>2, <2>1 DEF C, X, L, Outside
<1>14. Keeps(f, g, B \ D)
  <2>1. B \ D \subseteq Outside(B, start, stop)
    BY DEF Region, Outside
  <2>2. Keeps(h, k, B \ D)
    BY <1>9, <2>1, KeepsLess
  <2>3. Keeps(f, k, B \ D)
    BY <2>2, KeepsThen DEF Detached
  <2> QED BY <1>12, <1>13, <2>3, KeepsThen
<1>15. ASSUME NEW q \in X PROVE Following(g, q) \notin X
  <2>1. q \in C
    BY <1>10 DEF Tagged
  <2>2. Following(g, q) = Following(k, q)
    BY <1>12, <2>1 DEF Following
  <2>3. CASE q = start
    <3>1. stop \notin L /\ stop # start
      BY <1>2, <1>3 DEF L, Outside
    <3> QED BY <1>11, <2>2, <2>3, <3>1 DEF X
  <2>4. CASE q \in L
    <3>1. q \in D /\ q \in B /\ q \in Outside(B, start, stop) /\ q # p /\ q \in D \ {p}
      BY <1>1, <1>5, <2>4 DEF L, Outside
    <3>2. Following(k, q) = Following(f, q)
      BY <1>9, <3>1 DEF Following, Detached
    <3>3. Following(f, q) \notin D \ {p}
      BY <3>1 DEF Pending
    <3>4. Following(f, q) # start
      BY <3>1 DEF Region
    <3>5. L \subseteq D \ {p}
      BY <1>5 DEF L, Outside
    <3> QED BY <2>2, <3>2, <3>3, <3>4, <3>5 DEF X
  <2> QED BY <2>3, <2>4 DEF X
<1>16. Good(g, C, X)
  BY <1>12, <1>15 DEF Good, X
<1>17. Len(g.mem) = Len(f.mem)
  BY <1>9, <1>12 DEF Detached
<1>18. Sound(g, B \ D)
  BY <1>13, <1>16 DEF Sound
<1> QED BY <1>14, <1>17, <1>18 DEF Stays, g

-----------------------------------------------------------------------------
(* Before the merged block no free block is left.                          *)
LEMMA RegionLast ==
    ASSUME NEW f, NEW B, NEW D, NEW p, Pending(f, B, D, p),
           NEW start, NEW stop, Region(f, B, D, p, start, stop),
           NEW h, Detached(f, h, B, D, p, start, stop)
    PROVE  PrevAlloc(h, start) = 1
<1>1. Tagged(h, B, Outside(D, start, stop) \cup {p}) /\ start \in B /\ start # 1
  BY DEF Detached, Loose, Region, Spans
<1>2. PICK t \in B : Following(h, t) = start
  BY <1>1, Predecessor
<1>3. Following(f, t) = start
  BY <1>2 DEF Detached, Following
<1>4. t \notin D
  BY <1>3 DEF Region
<1>5. t \notin Outside(D, start, stop) \cup {p}
  BY <1>4 DEF Outside, Pending
<1>6. Alloc(h, t) = 1 /\ PrevAlloc(h, Following(h, t)) = Alloc(h, t)
  BY <1>1, <1>5 DEF Tagged
<1> QED BY <1>2, <1>6

(* coalesce, 286-350: whichever neighbours of p are free, the heap is in   *)
(* order afterwards, no two free blocks touch, and no word of an allocated *)
(* block has changed.                                                      *)
LEMMA CoalesceSound ==
    ASSUME NEW f, NEW B, NEW D, NEW p, Pending(f, B, D, p)
    PROVE  Stays(f, Coalesce(f, p), B \ D)
<1> DEFINE pfree == PrevAlloc(f, p) = 0
           n == Following(f, p)
           nfree == Alloc(f, n) = 0
           E == Len(f.mem)
<1>1. /\ Loose(f, B, D, D \ {p}) /\ Tagged(f, B, D) /\ D \subseteq B /\ p \in D /\ p \in B
      /\ f \in Heaps /\ p # 1 /\ 1 \notin D
  BY DEF Pending, Loose, Tagged
<1>2. /\ p \in Int /\ 1 <= p /\ p < n /\ n \in Int /\ n \in B \cup {E} /\ n <= E /\ E \in Nat
      /\ p + 3 <= n /\ Size(f, p) = n - p /\ n \in 1 .. E /\ p \in 1 .. E
  BY <1>1, BlockFacts
<1>3. nfree <=> n \in D
  <2>1. CASE n \in B
    <3>1. Alloc(f, n) = IF n \in D THEN 0 ELSE 1
      BY <1>1, <2>1 DEF Tagged
    <3> QED BY <3>1
  <2>2. CASE n = E
    <3>1. Alloc(f, n) = 1
      BY <1>1, <2>2, LastTags
    <3>2. n \notin D
      <4>1. \A q \in B : q < E
        BY <1>1, BlockFacts
      <4> QED BY <1>1, <1>2, <2>2, <4>1
    <3> QED BY <3>1, <3>2
  <2> QED BY <1>2, <2>1, <2>2
<1>4. PICK q \in B : Following(f, q) = p
  BY <1>1, Predecessor
<1>5. /\ q \in Int /\ 1 <= q /\ q < p /\ Size(f, q) = p - q
      /\ Alloc(f, q) = (IF q \in D THEN 0 ELSE 1) /\ PrevAlloc(f, p) = Alloc(f, q)
  <2>1. q \in Int /\ 1 <= q /\ q < Following(f, q) /\ Size(f, q) = Following(f, q) - q
    BY <1>1, BlockFacts
  <2>2. Alloc(f, q) = (IF q \in D THEN 0 ELSE 1)
        /\ PrevAlloc(f, Following(f, q)) = Alloc(f, q)
    BY <1>1 DEF Tagged
  <2> QED BY <1>4, <2>1, <2>2
<1>6. (pfree <=> q \in D) /\ (~pfree => PrevAlloc(f, p) = 1)
  BY <1>5
<1>7. pfree => Preceding(f, p) = q
  <2> HAVE pfree
  <2>1. q \in D \ {p}
    BY <1>5, <1>6
  <2>2. f.mem[p - 1] = Header(Size(f, q), 1, 0)
    BY <1>1, <1>4, <2>1 DEF Loose, Footed
  <2>3. p - 1 \in 1 .. Len(f.mem)
    BY <1>2, <1>5
  <2>4. Size(f, p - 1) = Size(f, q)
    BY <1>1, <2>2, <2>3, HeaderReads
  <2> QED BY <1>2, <1>5, <2>4 DEF Preceding
<1>8. /\ \A t \in B : t <= q \/ p <= t
      /\ \A t \in B : t <= p \/ n <= t
      /\ \A t \in B : t \in Int
  BY <1>1, <1>4, Apart, BlockFacts
<1> DEFINE start == IF pfree THEN Preceding(f, p) ELSE p
           stop == IF nfree THEN Following(f, n) ELSE n
           size == Size(f, p) + (IF pfree THEN Size(f, start) ELSE 0)
                              + (IF nfree THEN Size(f, n) ELSE 0)
<1>9. /\ pfree => start = q
      /\ ~pfree => start = p
      /\ start \in D /\ start \in B /\ start # 1 /\ start \in Int /\ 1 < start
      /\ start <= p
  <2>1. (pfree => start = q) /\ (~pfree => start = p)
    BY <1>7
  <2> HIDE DEF start
  <2>2. start \in D
    BY <1>1, <1>6, <2>1
  <2>3. start # 1 /\ start \in B
    BY <1>1, <2>2
  <2> QED BY <1>2, <1>5, <2>1, <2>2, <2>3
<1>10. nfree => /\ n \in D \ {p} /\ n \in B /\ n < Following(f, n) /\ Following(f, n) \in Int
                /\ Following(f, n) \in B \cup {E} /\ Following(f, n) <= E
                /\ Size(f, n) = Following(f, n) - n
                /\ Following(f, n) \notin D
  <2> HAVE nfree
  <2>1. n \in D \ {p} /\ n \in B
    BY <1>1, <1>2, <1>3
  <2>2. /\ n < Following(f, n) /\ Following(f, n) \in Int
        /\ Following(f, n) \in B \cup {E} /\ Following(f, n) <= E
        /\ Size(f, n) = Following(f, n) - n
    <3> HIDE DEF n, nfree
    <3>1. /\ n < Following(f, n) /\ Following(f, n) <= Len(f.mem)
          /\ Following(f, n) \in Nat /\ Size(f, n) = Following(f, n) - n
          /\ (Following(f, n) \in B \/ Following(f, n) = Len(f.mem))
      BY <1>1, <2>1, BlockFacts
    <3> QED BY <3>1
  <2>3. Following(f, n) \notin D \ {p}
    BY <2>1 DEF Pending
  <2>4. Following(f, n) # p
    BY <1>2, <2>2
  <2> QED BY <2>1, <2>2, <2>3, <2>4
<1>11. /\ stop \in B \cup {E} /\ stop \in Int /\ stop \notin D /\ n <= stop /\ stop <= E
       /\ (nfree => n < stop)
  BY <1>2, <1>3, <1>10
<1>12. size = stop - start /\ size \in Int
  <2>1. pfree => Size(f, start) = p - start
    BY <1>5, <1>9
  <2>2. nfree => Size(f, n) = stop - n
    BY <1>10
  <2>3. ~nfree => stop = n
    OBVIOUS
  <2>4. ~pfree => start = p
    BY <1>9
  <2>5. size = Size(f, p) + (IF pfree THEN Size(f, start) ELSE 0)
                          + (IF nfree THEN Size(f, n) ELSE 0)
    OBVIOUS
  <2> HIDE DEF start, stop, pfree, nfree, size
  <2>6. (IF pfree THEN Size(f, start) ELSE 0) = p - start
    BY <1>2, <1>9, <2>1, <2>4
  <2>7. (IF nfree THEN Size(f, n) ELSE 0) = stop - n
    BY <1>2, <1>11, <2>2, <2>3
  <2>8. size = Size(f, p) + (p - start) + (stop - n)
    BY <2>5, <2>6, <2>7
  <2> QED BY <1>2, <1>9, <1>11, <2>8
<1> DEFINE U == B \ D
           L == Outside(D, start, stop)
<1>13. Region(f, B, D, p, start, stop)
  <2>1. Spans(f, B, start, stop) /\ p < stop /\ start + 3 <= stop
    BY <1>2, <1>9, <1>11 DEF Spans
  <2>2. ASSUME NEW t \in B, Following(f, t) = start
        PROVE  t \notin D
    <3>1. CASE pfree
      <4>1. Following(f, t) \in D \ {p}
        BY <1>5, <1>6, <1>9, <2>2, <3>1
      <4>2. t # p
        BY <1>2, <1>5, <1>9, <2>2, <3>1
      <4> QED BY <4>1, <4>2 DEF Pending
    <3>2. CASE ~pfree
      <4>1. PrevAlloc(f, Following(f, t)) = Alloc(f, t)
            /\ Alloc(f, t) = IF t \in D THEN 0 ELSE 1
        BY <1>1 DEF Tagged
      <4>2. PrevAlloc(f, Following(f, t)) = 1
        BY <1>6, <1>9, <2>2, <3>2
      <4> QED BY <4>1, <4>2
    <3> QED BY <3>1, <3>2
  <2>3. ASSUME NEW t \in B, ~(t < start), ~(stop <= t)
        PROVE  t \in D
    <3>1. t \in Int
      BY <1>8
    <3>2. t = start \/ t = p \/ t = n
      <4>1. t <= q \/ p <= t
        BY <1>8
      <4>2. t <= p \/ n <= t
        BY <1>8
      <4>3. nfree => t <= n \/ stop <= t
        BY <1>1, <1>10, Apart
      <4>4. ~nfree => stop = n
        OBVIOUS
      <4> HIDE DEF start, stop, nfree, pfree
      <4> QED BY <1>2, <1>5, <1>9, <1>11, <2>3, <3>1, <4>1, <4>2, <4>3, <4>4
    <3>3. t = n => nfree
      BY <1>11, <2>3
    <3> QED BY <1>1, <1>3, <1>9, <3>2, <3>3
  <2> QED BY <1>9, <1>11, <2>1, <2>2, <2>3 DEF Region
<1>14. ASSUME NEW t \in D
       PROVE  t \in L <=> t # p /\ (pfree => t # q) /\ (nfree => t # n)
  <2>1. t \in Int /\ t \in B
    BY <1>1, <1>8
  <2>2. t \in L <=> t < start \/ stop <= t
    BY DEF Outside
  <2>3. t <= q \/ p <= t
    BY <1>8, <2>1
  <2>4. t <= p \/ n <= t
    BY <1>8, <2>1
  <2>5. nfree => t <= n \/ stop <= t
    BY <1>1, <1>10, <2>1, Apart
  <2>6. ~nfree => stop = n
    OBVIOUS
  <2>7. ~pfree => q \notin D
    BY <1>6
  <2> HIDE DEF start, stop, nfree, pfree, L
  <2> QED BY <1>2, <1>5, <1>9, <1>11, <2>1, <2>2, <2>3, <2>4, <2>5, <2>6, <2>7
<1>15. L \subseteq D
  BY DEF Outside
<1> DEFINE h1 == IF pfree THEN Remove(f, start, Level(Size(f, start) - 1)) ELSE f
           h2 == IF nfree THEN Remove(h1, n, Level(Size(f, n) - 1)) ELSE h1
           prev == IF pfree THEN PrevAlloc(h2, start) ELSE 1
           joined == PlaceFree(h2, start, size, prev)
<1> HIDE DEF start, stop, size, L
<1>16. /\ Loose(h1, B, {t \in D : pfree => t # q}, {t \in D : t # p /\ (pfree => t # q)})
       /\ \A t \in B : Size(h1, t) = Size(f, t)
       /\ Len(h1.mem) = Len(f.mem) /\ Keeps(f, h1, U)
  <2>1. CASE pfree
    <3>1. start = q /\ start \in D \ {p}
      BY <1>5, <1>9, <2>1
    <3>2. Relisted(f, Remove(f, start, Level(Size(f, start) - 1)), B,
                   D \ {start}, (D \ {p}) \ {start}, B \ D)
      BY <1>1, <3>1, RemoveLoose
    <3>3. {t \in D : pfree => t # q} = D \ {start}
          /\ {t \in D : t # p /\ (pfree => t # q)} = (D \ {p}) \ {start}
      BY <2>1, <3>1
    <3>4. h1 = Remove(f, start, Level(Size(f, start) - 1))
      BY <2>1
    <3> HIDE DEF h1, pfree
    <3> QED BY <3>2, <3>3, <3>4 DEF Relisted
  <2>2. CASE ~pfree
    <3>1. {t \in D : pfree => t # q} = D /\ {t \in D : t # p /\ (pfree => t # q)} = D \ {p}
      BY <2>2
    <3>2. h1 = f
      BY <2>2
    <3> HIDE DEF h1, pfree
    <3> QED BY <1>1, <3>1, <3>2 DEF Keeps
  <2> QED BY <2>1, <2>2
<1> HIDE DEF h1, U
<1>17. /\ Loose(h2, B, {t \in D : (pfree => t # q) /\ (nfree => t # n)},
                {t \in D : t # p /\ (pfree => t # q) /\ (nfree => t # n)})
       /\ \A t \in B : Size(h2, t) = Size(f, t)
       /\ Len(h2.mem) = Len(f.mem) /\ Keeps(f, h2, U)
  <2> DEFINE X == {t \in D : pfree => t # q}
             M == {t \in D : t # p /\ (pfree => t # q)}
  <2>1. CASE nfree
    <3>1. n \in M /\ Size(h1, n) = Size(f, n)
      BY <1>2, <1>5, <1>10, <1>16, <2>1
    <3>2. Loose(h1, B, X, M)
      BY <1>16
    <3>3. X \subseteq D
      OBVIOUS
    <3>4. /\ {t \in D : (pfree => t # q) /\ (nfree => t # n)} = X \ {n}
          /\ {t \in D : t # p /\ (pfree => t # q) /\ (nfree => t # n)} = M \ {n}
      BY <2>1
    <3>5. h2 = Remove(h1, n, Level(Size(h1, n) - 1))
      BY <2>1, <3>1
    <3> HIDE DEF X, M
    <3>6. Relisted(h1, Remove(h1, n, Level(Size(h1, n) - 1)), B, X \ {n}, M \ {n}, B \ X)
      BY <3>1, <3>2, RemoveLoose
    <3>7. U \subseteq B \ X
      BY <3>3 DEF U
    <3> HIDE DEF h2, pfree, nfree
    <3>8. Relisted(h1, h2, B, X \ {n}, M \ {n}, B \ X)
      BY <3>5, <3>6
    <3>9. Keeps(h1, h2, U)
      BY <3>7, <3>8, KeepsLess DEF Relisted
    <3>10. Keeps(f, h2, U)
      BY <1>16, <3>9, KeepsThen
    <3> QED BY <1>16, <3>4, <3>8, <3>10 DEF Relisted
  <2>2. CASE ~nfree
    <3>1. /\ {t \in D : (pfree => t # q) /\ (nfree => t # n)} = X
          /\ {t \in D : t # p /\ (pfree => t # q) /\ (nfree => t # n)} = M
          /\ h2 = h1
      BY <2>2
    <3> QED BY <1>16, <3>1
  <2> QED BY <2>1, <2>2
<1> HIDE DEF h2
<1>18. Detached(f, h2, B, D, p, start, stop)
  <2>1. {t \in D : t # p /\ (pfree => t # q) /\ (nfree => t # n)} = L
    BY <1>14, <1>15
  <2>2. {t \in D : (pfree => t # q) /\ (nfree => t # n)} = L \cup {p}
    <3>1. p \in D /\ p # q /\ p # n
      BY <1>1, <1>2, <1>5
    <3> HIDE DEF n, pfree, nfree
    <3>2. L = {t \in D : t # p /\ (pfree => t # q) /\ (nfree => t # n)}
      BY <2>1
    <3> QED BY <3>1, <3>2
  <2> QED BY <1>17, <2>1, <2>2 DEF Detached, L, U
<1>19. PrevAlloc(h2, start) = 1 /\ prev = 1
  BY <1>13, <1>18, RegionLast
<1> HIDE DEF prev, pfree, nfree
<1>20. /\ Tagged(h2, B, L \cup {p}) /\ h2 \in Heaps /\ Len(h2.mem) = E
       /\ Spans(h2, B, start, stop)
  BY <1>13, <1>17, <1>18 DEF Detached, Loose, Tagged, L, Region, Spans
<1>21. /\ start \in 1 .. Len(h2.mem) /\ size \in Nat /\ size > 1 /\ start + size = stop
       /\ stop \in 1 .. Len(h2.mem) /\ start + 3 <= stop
       /\ start .. stop = start .. start + size /\ E \in Nat
  <2>1. start + 3 <= stop
    BY <1>2, <1>9, <1>11
  <2> QED BY <1>2, <1>9, <1>11, <1>12, <1>20, <2>1
<1>22. CASE pfree \/ nfree
  <2>1. PlacedFree(h2, joined, start, size, prev)
    BY <1>19, <1>20, <1>21, PlaceFreeIs
  <2>2. Coalesce(f, p) = Insert(joined, start, Level(size - 1))
    BY <1>22 DEF Coalesce, joined, prev, h2, h1, size, start, pfree, nfree
  <2> HIDE DEF joined
  <2>3. /\ Changes(h2, joined, {start, stop - 1, stop}) /\ joined.roots = h2.roots
        /\ joined.mem[start] = Header(size, 1, 0)
        /\ joined.mem[stop - 1] = Header(size, 1, 0)
        /\ joined.mem[stop] = Header(Size(h2, stop), 0, Alloc(h2, stop))
    <3>1. start + size = stop /\ start + size - 1 = stop - 1 /\ prev = 1
      BY <1>19, <1>21
    <3>2. /\ Changes(h2, joined, {start, start + size - 1, start + size})
          /\ joined.roots = h2.roots
          /\ joined.mem[start] = Header(size, prev, 0)
          /\ joined.mem[start + size - 1] = Header(size, prev, 0)
          /\ joined.mem[start + size]
                = Header(Size(h2, start + size), 0, Alloc(h2, start + size))
      BY <2>1 DEF PlacedFree
    <3> QED BY <3>1, <3>2
  <2>4. {start, stop - 1, stop} \subseteq start .. stop
    BY <1>9, <1>11, <1>21
  <2>5. Changes(h2, joined, start .. stop)
    BY <2>3, <2>4 DEF Changes
  <2>6. joined \in Heaps /\ Len(joined.mem) = Len(h2.mem)
    BY <2>5 DEF Changes
  <2>7. Size(joined, start) = size /\ PrevAlloc(joined, start) = 1 /\ Alloc(joined, start) = 0
    BY <1>21, <2>3, <2>6, HeaderReads
  <2>8. Retiles(h2, joined, start, stop, {start}, {start})
    <3>1. Retiles(h2, joined, start, stop, {start}, IF 0 = 0 THEN {start} ELSE {})
      <4>1. 0 \in {0, 1} /\ PrevAlloc(joined, start) = PrevAlloc(h2, start)
            /\ Size(joined, start) = stop - start
        BY <1>12, <1>19, <2>7
      <4> QED BY <1>20, <1>21, <2>3, <2>5, <2>7, <4>1, OneTile
    <3> QED BY <3>1
  <2>9. Footed(joined, start)
    <3>1. Following(joined, start) = stop
      BY <1>21, <2>7 DEF Following
    <3> QED BY <2>3, <2>7, <3>1 DEF Footed
  <2>10. Stays(f, Insert(joined, start, Level(stop - start - 1)), B \ D)
    BY <1>13, <1>18, <2>8, <2>9, MergeGood
  <2> QED BY <1>12, <2>2, <2>10
<1>23. CASE ~pfree /\ ~nfree
  <2> DEFINE k == ChangePrevAlloc(f, n, 0)
  <2>1. h2 = f /\ start = p /\ stop = n
    BY <1>9, <1>23 DEF h2, h1, stop
  <2>2. Coalesce(f, p) = Insert(k, p, Level(Size(f, p) - 1))
    BY <1>23 DEF Coalesce, pfree, nfree
  <2>3. HeaderChange(f, k, n, Size(f, n), 0, Alloc(f, n))
    BY <1>1, <1>2, ChangePrevAllocIs
  <2> HIDE DEF k
  <2>4. /\ Changes(f, k, {n}) /\ k.roots = f.roots
        /\ k.mem[n] = Header(Size(f, n), 0, Alloc(f, n))
    BY <2>3 DEF HeaderChange
  <2>5. Changes(f, k, p .. n)
    <3>1. {n} \subseteq p .. n
      BY <1>2
    <3> QED BY <2>4, <3>1 DEF Changes
  <2>6. Size(k, p) = Size(f, p) /\ PrevAlloc(k, p) = PrevAlloc(f, p) /\ Alloc(k, p) = Alloc(f, p)
    <3>1. p \notin {n}
      BY <1>2
    <3> QED BY <1>1, <1>2, <2>4, <3>1, ChangesReads
  <2>7. Alloc(f, p) = 0
    BY <1>1 DEF Tagged
  <2>8. Retiles(f, k, p, n, {p}, {p})
    <3>1. Retiles(f, k, p, n, {p}, IF 0 = 0 THEN {p} ELSE {})
      <4>1. 0 \in {0, 1} /\ Size(k, p) = n - p
        BY <1>2, <2>6
      <4>2. Spans(f, B, p, n)
        BY <1>20, <2>1
      <4> QED BY <1>1, <1>2, <2>4, <2>5, <2>6, <2>7, <4>1, <4>2, OneTile
    <3> QED BY <3>1
  <2>9. Footed(k, p)
    <3>1. k.mem[n - 1] = f.mem[n - 1]
      <4>1. n - 1 \in 1 .. Len(f.mem) /\ n - 1 \notin {n}
        BY <1>2
      <4> QED BY <2>4, <4>1 DEF Changes
    <3>2. f.mem[n - 1] = Header(Size(f, p), PrevAlloc(f, p), 0)
      BY DEF Pending
    <3>3. PrevAlloc(f, p) = 1
      BY <1>6, <1>23
    <3>4. Following(k, p) = n
      BY <2>6 DEF Following
    <3> QED BY <2>6, <3>1, <3>2, <3>3, <3>4 DEF Footed
  <2>10. Stays(f, Insert(k, start, Level(stop - start - 1)), B \ D)
    BY <1>13, <1>18, <2>1, <2>8, <2>9, MergeGood
  <2> QED BY <1>2, <2>1, <2>2, <2>10
<1> QED BY <1>22, <1>23

-----------------------------------------------------------------------------
(* A free block q is made of words that were not free, in h, with the      *)
(* blocks N where those from p to before s were; then it is coalesced.     *)
Releases(h, g, B, D, p, s, N, q) ==
    /\ Spans(h, B, p, s) /\ \A t \in D : t < p \/ s <= t
    /\ Retiles(h, g, p, s, N, {q})
    /\ g.mem[Following(g, q) - 1] = Header(Size(g, q), PrevAlloc(g, q), 0)

(* After coalesce the blocks of N but q are allocated, and all others that *)
(* were.                                                                   *)
Settled(h, g, k, B, D, p, s, N, q) ==
    /\ Sound(k, (Outside(B, p, s) \ D) \cup (N \ {q}))
    /\ Keeps(h, k, Outside(B, p, s) \ D) /\ Keeps(g, k, N \ {q})
    /\ Len(k.mem) = Len(h.mem) /\ Len(g.mem) = Len(h.mem)

(* What place_free and coalesce do together: a span is tiled anew, one of  *)
(* its blocks is released, and the rest stays allocated.                   *)
LEMMA ReleaseSound ==
    ASSUME NEW h, NEW B, NEW D, Good(h, B, D), NEW g, NEW p, NEW s, NEW N, NEW q,
           Releases(h, g, B, D, p, s, N, q)
    PROVE  Settled(h, g, Coalesce(g, q), B, D, p, s, N, q)
<1> DEFINE C == Outside(B, p, s) \cup N
           X == D \cup {q}
           k == Coalesce(g, q)
<1>1. /\ Loose(h, B, D, D) /\ Tagged(h, B, D) /\ D \subseteq B
      /\ \A t \in D : Following(h, t) \notin D
  BY DEF Good, Loose, Tagged
<1>2. Spans(h, B, p, s) /\ Retiles(h, g, p, s, N, {q}) /\ Outside(D, p, s) = D
  BY DEF Releases, Outside
<1>3. Retiled(h, g, B, D, D, p, s, N, {q})
  BY <1>1, <1>2, RetileLoose
<1>4. /\ Loose(g, C, X, D) /\ Keeps(h, g, Outside(B, p, s)) /\ Len(g.mem) = Len(h.mem)
      /\ \A t \in Outside(B, p, s) : Size(g, t) = Size(h, t)
  BY <1>2, <1>3 DEF Retiled
<1>5. p \in Int /\ s \in Int /\ p < s
  BY <1>1, <1>2, SpanFacts DEF Spans
<1>6. N \subseteq p .. s - 1 /\ q \in N
  BY <1>2 DEF Retiles
<1>7. \A t \in N : t \notin Outside(B, p, s) /\ t \notin D
  BY <1>5, <1>6 DEF Outside, Releases
<1>8. q \notin D /\ X \ {q} = D /\ q \in X
  BY <1>6, <1>7
<1>9. \A t \in D : t \in Outside(B, p, s) /\ Following(g, t) = Following(h, t)
  <2> TAKE t \in D
  <2>1. t \in Outside(B, p, s)
    BY <1>1 DEF Outside, Releases
  <2> QED BY <1>4, <2>1 DEF Following
<1>10. C \ X = (Outside(B, p, s) \ D) \cup (N \ {q})
  BY <1>6, <1>7
<1> HIDE DEF C, X, k
<1>11. Pending(g, C, X, q)
  BY <1>1, <1>4, <1>8, <1>9 DEF Pending, Releases
<1>12. Stays(g, k, C \ X)
  BY <1>11, CoalesceSound DEF k
<1>13. Keeps(g, k, N \ {q}) /\ Keeps(g, k, Outside(B, p, s) \ D)
  BY <1>10, <1>12, KeepsLess DEF Stays
<1>14. Keeps(h, g, Outside(B, p, s) \ D)
  BY <1>4, KeepsLess
<1>15. Keeps(h, k, Outside(B, p, s) \ D)
  BY <1>13, <1>14, KeepsThen
<1> QED BY <1>4, <1>10, <1>12, <1>13, <1>15 DEF Settled, Stays, k

(* The words of one block.                                                 *)
LEMMA OneSpan ==
    ASSUME NEW h, NEW B, NEW D, Tagged(h, B, D), NEW p \in B \ D, p # 1
    PROVE  /\ Spans(h, B, p, Following(h, p))
           /\ \A t \in D : t < p \/ Following(h, p) <= t
           /\ Outside(B, p, Following(h, p)) = B \ {p}
           /\ Outside(B, p, Following(h, p)) \ D = (B \ D) \ {p}
           /\ Alloc(h, p) = 1 /\ p + 3 <= Following(h, p)
<1> DEFINE s == Following(h, p)
<1>1. p \in B /\ p \in Int /\ s \in Int /\ p < s /\ p + 3 <= s
  BY BlockFacts
<1>2. \A q \in B : q \in Int
  BY BlockFacts
<1>3. \A q \in B : q <= p \/ s <= q
  BY Apart
<1>4. D \subseteq B /\ Alloc(h, p) = 1 /\ s \in B \cup {Len(h.mem)}
  BY DEF Tagged
<1> HIDE DEF s
<1>5. \A q \in B : q # p => q < p \/ s <= q
  BY <1>1, <1>2, <1>3
<1>6. Outside(B, p, s) = B \ {p}
  <2>1. ~(p < p) /\ ~(s <= p)
    BY <1>1
  <2> QED BY <1>5, <2>1, Zenon DEF Outside
<1>7. Spans(h, B, p, s)
  BY <1>1, <1>4 DEF Spans
<1> QED BY <1>1, <1>4, <1>5, <1>6, <1>7 DEF s

(* What is released of one allocated block.                                *)
LEMMA MmFreeSound ==
    ASSUME NEW h, NEW U, Sound(h, U), NEW p \in U, p # 1
    PROVE  Stays(h, MmFree(h, p), U \ {p})
<1>1. PICK B, D : Good(h, B, D) /\ U = B \ D
  BY DEF Sound
<1> DEFINE s == Following(h, p)
           prev == PrevAlloc(h, p)
           g == PlaceFree(h, p, Size(h, p), prev)
           k == Coalesce(g, p)
<1>2. Tagged(h, B, D) /\ p \in B \ D /\ h \in Heaps
  BY <1>1 DEF Good, Loose, Tagged
<1>3. /\ Spans(h, B, p, s) /\ \A t \in D : t < p \/ s <= t
      /\ Outside(B, p, s) \ D = U \ {p} /\ p + 3 <= s
  BY <1>1, <1>2, OneSpan
<1>4. /\ p \in Int /\ s \in Int /\ p \in 1 .. Len(h.mem) /\ s \in 1 .. Len(h.mem)
      /\ Size(h, p) = s - p /\ Size(h, p) \in Nat /\ p + Size(h, p) = s
  BY <1>2, BlockFacts
<1>5. prev \in {0, 1}
  BY <1>2, TagsType
<1> HIDE DEF s, prev
<1>6. PlacedFree(h, g, p, Size(h, p), prev)
  <2>1. Size(h, p) > 1 /\ p + Size(h, p) \in 1 .. Len(h.mem)
    BY <1>3, <1>4
  <2> QED BY <1>2, <1>4, <1>5, <2>1, PlaceFreeIs
<1> HIDE DEF g
<1>7. /\ Changes(h, g, {p, s - 1, s}) /\ g.roots = h.roots
      /\ g.mem[p] = Header(Size(h, p), prev, 0)
      /\ g.mem[s - 1] = Header(Size(h, p), prev, 0)
      /\ g.mem[s] = Header(Size(h, s), 0, Alloc(h, s))
  <2>1. p + Size(h, p) - 1 = s - 1
    BY <1>4
  <2> QED BY <1>4, <1>6, <2>1 DEF PlacedFree
<1>8. Changes(h, g, p .. s)
  <2>1. {p, s - 1, s} \subseteq p .. s
    BY <1>3, <1>4
  <2> QED BY <1>7, <2>1 DEF Changes
<1>9. /\ g \in Heaps /\ Len(g.mem) = Len(h.mem)
      /\ Size(g, p) = Size(h, p) /\ PrevAlloc(g, p) = prev /\ Alloc(g, p) = 0
  <2>1. g \in Heaps /\ Len(g.mem) = Len(h.mem)
    BY <1>8 DEF Changes
  <2> QED BY <1>4, <1>7, <2>1, HeaderReads
<1>10. Following(g, p) = s
  BY <1>4, <1>9 DEF Following
<1>11. Retiles(h, g, p, s, {p}, {p})
  <2>1. Retiles(h, g, p, s, {p}, IF 0 = 0 THEN {p} ELSE {})
    <3>1. 0 \in {0, 1} /\ Size(g, p) = s - p /\ PrevAlloc(g, p) = PrevAlloc(h, p)
      BY <1>4, <1>9 DEF prev
    <3> QED BY <1>2, <1>3, <1>7, <1>8, <1>9, <3>1, OneTile
  <2> QED BY <2>1
<1>12. Releases(h, g, B, D, p, s, {p}, p)
  BY <1>3, <1>7, <1>9, <1>10, <1>11 DEF Releases
<1>13. Settled(h, g, k, B, D, p, s, {p}, p)
  BY <1>1, <1>12, ReleaseSound
<1>14. k = MmFree(h, p)
  BY DEF k, g, prev, MmFree
<1> HIDE DEF k
<1> QED BY <1>3, <1>13, <1>14 DEF Settled, Stays

---------------------------------------------------------------------------
(* mm_malloc and mm_realloc, and the calls of the client.                  *)

(* One allocated span is cut at m: the part before m is released...         *)
CutTail(h, k, g, B, D, p, s, m) ==
    /\ Releases(h, g, B, D, p, s, {p, m}, p)
    /\ Size(g, m) = s - m /\ Following(g, m) = s /\ Len(g.mem) = Len(h.mem)
    /\ m \in p .. s - 1 /\ m # p
    /\ \A a \in m + 1 .. s - 1 : g.mem[a] = k.mem[a]

(* place_alloc of the end of a span and place_free of the rest.            *)
LEMMA TailCut ==
    ASSUME NEW h, NEW B, NEW D, Tagged(h, B, D), NEW p, NEW s, Spans(h, B, p, s),
           \A t \in D : t < p \/ s <= t,
           NEW m \in Int, p + 3 <= m, m + 3 <= s,
           NEW k, Changes(h, k, p .. s - 1), k.roots = h.roots
    PROVE  CutTail(h, k, PlaceFree(PlaceAlloc(k, m, s - m, 0), p, m - p, PrevAlloc(h, p)),
                   B, D, p, s, m)
<1> DEFINE prev == PrevAlloc(h, p)
           j == PlaceAlloc(k, m, s - m, 0)
           g == PlaceFree(j, p, m - p, prev)
           E == Len(h.mem)
<1>1. /\ h \in Heaps /\ E \in Nat /\ p \in Int /\ 1 < p /\ p < E
      /\ s \in Int /\ s <= E /\ s \in 1 .. E /\ p \in 1 .. E
  BY SpanFacts
<1>2. k \in Heaps /\ Len(k.mem) = E
  BY DEF Changes
<1> HIDE DEF E
<1>3. /\ m \in 1 .. E /\ s - m \in Nat /\ s - m > 0 /\ m + (s - m) = s
      /\ m - p \in Nat /\ m - p > 1 /\ p + (m - p) = m /\ p + (m - p) - 1 = m - 1
      /\ s \notin p .. s - 1 /\ m \in p .. s - 1 /\ m # p
      /\ {m, s} \subseteq p .. s /\ {p, m - 1, m} \subseteq p .. s
      /\ p .. s - 1 \subseteq p .. s
      /\ s \notin {p, m - 1, m} /\ m - 1 # p /\ m - 1 # m
  BY <1>1
<1>4. prev \in {0, 1}
  BY <1>1, TagsType
<1>5. PlacedAlloc(k, j, m, s - m, 0)
  <2>1. 0 \in {0, 1} /\ m \in 1 .. Len(k.mem) /\ m + (s - m) \in 1 .. Len(k.mem)
    BY <1>1, <1>2, <1>3
  <2> QED BY <1>2, <1>3, <2>1, PlaceAllocIs
<1> HIDE DEF j, prev
<1>6. /\ Changes(k, j, {m, s}) /\ j.roots = k.roots
      /\ j.mem[m] = Header(s - m, 0, 1)
      /\ j.mem[s] = Header(Size(k, s), 1, Alloc(k, s))
  BY <1>3, <1>5 DEF PlacedAlloc
<1>7. j \in Heaps /\ Len(j.mem) = E
  BY <1>2, <1>6 DEF Changes
<1>8. PlacedFree(j, g, p, m - p, prev)
  <2>1. p \in 1 .. Len(j.mem) /\ p + (m - p) \in 1 .. Len(j.mem)
    BY <1>1, <1>3, <1>7
  <2> QED BY <1>3, <1>4, <1>7, <2>1, PlaceFreeIs
<1> HIDE DEF g
<1>9. /\ Changes(j, g, {p, m - 1, m}) /\ g.roots = j.roots
      /\ g.mem[p] = Header(m - p, prev, 0)
      /\ g.mem[m - 1] = Header(m - p, prev, 0)
      /\ g.mem[m] = Header(Size(j, m), 0, Alloc(j, m))
  BY <1>3, <1>8 DEF PlacedFree
<1>10. Size(j, m) = s - m /\ Alloc(j, m) = 1
  <2>1. m \in 1 .. Len(j.mem)
    BY <1>3, <1>7
  <2> QED BY <1>6, <1>7, <2>1, HeaderReads
<1>11. g.mem[m] = Header(s - m, 0, 1)
  BY <1>9, <1>10
<1>12. g.mem[s] = Header(Size(h, s), 1, Alloc(h, s))
  <2>1. Size(k, s) = Size(h, s) /\ Alloc(k, s) = Alloc(h, s)
    BY <1>1, <1>3, ChangesReads DEF E
  <2>2. g.mem[s] = j.mem[s]
    BY <1>1, <1>3, <1>7, <1>9 DEF Changes
  <2> QED BY <1>6, <2>1, <2>2
<1>13. Changes(h, g, p .. s)
  <2>1. Changes(h, j, p .. s)
    <3>1. Changes(h, k, p .. s - 1) /\ Changes(k, j, {m, s})
      BY <1>6
    <3> QED BY <1>3, <3>1, ChangesThen
  <2>2. Changes(j, g, {p, m - 1, m}) /\ p .. s \subseteq p .. s
    BY <1>9
  <2>3. Changes(j, g, p .. s)
    BY <1>3, <2>2 DEF Changes
  <2> QED BY <2>1, <2>3 DEF Changes
<1>14. g.roots = h.roots
  BY <1>6, <1>9
<1>15. /\ Retiles(h, g, p, s, {p, m}, {p})
       /\ Following(g, p) = m /\ Following(g, m) = s
       /\ PrevAlloc(g, p) = prev
       /\ Size(g, p) = m - p /\ Size(g, m) = s - m
  <2>1. 0 \in {0, 1} /\ 1 \in {0, 1} /\ Tiles(h, g, p, s, m, 0, 1)
    BY <1>9, <1>11, <1>12, <1>13, <1>14 DEF prev, Tiles
  <2>2. /\ Retiles(h, g, p, s, {p, m}, FreeTiles(p, m, 0, 1))
        /\ Following(g, p) = m /\ Following(g, m) = s
        /\ PrevAlloc(g, p) = PrevAlloc(h, p) /\ PrevAlloc(g, m) = 0
        /\ Size(g, p) = m - p /\ Size(g, m) = s - m
    <3>1. Tiled(h, g, p, s, m, 0, 1)
      BY <2>1, TwoTiles
    <3> QED BY <3>1 DEF Tiled
  <2>3. FreeTiles(p, m, 0, 1) = {p}
    BY DEF FreeTiles
  <2> QED BY <2>2, <2>3 DEF prev
<1>16. Releases(h, g, B, D, p, s, {p, m}, p)
  BY <1>9, <1>15 DEF Releases
<1>17. \A a \in m + 1 .. s - 1 : g.mem[a] = k.mem[a]
  <2> TAKE a \in m + 1 .. s - 1
  <2>1. a \in 1 .. E /\ a \notin {m, s} /\ a \notin {p, m - 1, m}
    BY <1>1, <1>3
  <2> QED BY <1>2, <1>6, <1>7, <1>9, <2>1 DEF Changes
<1>18. Len(g.mem) = Len(h.mem)
  BY <1>7, <1>9 DEF Changes, E
<1> QED BY <1>3, <1>15, <1>16, <1>17, <1>18 DEF CutTail, g, j, prev

(* ... or the part from m on.                                              *)
CutFront(h, g, B, D, p, s, m) ==
    /\ Releases(h, g, B, D, p, s, {p, m}, m)
    /\ Size(g, p) = m - p /\ Following(g, p) = m /\ Len(g.mem) = Len(h.mem)
    /\ m \in p .. s - 1 /\ m # p
    /\ \A a \in p + 1 .. m - 1 : g.mem[a] = h.mem[a]

(* place_free of the end of a span whose beginning has its header.         *)
LEMMA FrontCut ==
    ASSUME NEW h, NEW B, NEW D, Tagged(h, B, D), NEW p, NEW s, Spans(h, B, p, s),
           \A t \in D : t < p \/ s <= t,
           NEW m \in Int, p + 3 <= m, m + 3 <= s,
           NEW k, Changes(h, k, {p, m}), k.roots = h.roots,
           k.mem[p] = Header(m - p, PrevAlloc(h, p), 1)
    PROVE  CutFront(h, PlaceFree(k, m, s - m, 1), B, D, p, s, m)
<1> DEFINE prev == PrevAlloc(h, p)
           g == PlaceFree(k, m, s - m, 1)
           E == Len(h.mem)
<1>1. /\ h \in Heaps /\ E \in Nat /\ p \in Int /\ 1 < p /\ p < E
      /\ s \in Int /\ s <= E /\ s \in 1 .. E /\ p \in 1 .. E
  BY SpanFacts
<1>2. k \in Heaps /\ Len(k.mem) = E
  BY DEF Changes
<1> HIDE DEF E
<1>3. /\ m \in 1 .. E /\ s - m \in Nat /\ s - m > 1 /\ m + (s - m) = s
      /\ m + (s - m) - 1 = s - 1
      /\ s \notin {p, m} /\ p \notin {m, s - 1, s} /\ m \in p .. s - 1 /\ m # p
      /\ {p, m} \subseteq p .. s /\ {m, s - 1, s} \subseteq p .. s
  BY <1>1
<1>4. PlacedFree(k, g, m, s - m, 1)
  <2>1. 1 \in {0, 1} /\ m \in 1 .. Len(k.mem) /\ m + (s - m) \in 1 .. Len(k.mem)
    BY <1>1, <1>2, <1>3
  <2> QED BY <1>2, <1>3, <2>1, PlaceFreeIs
<1> HIDE DEF g, prev
<1>5. /\ Changes(k, g, {m, s - 1, s}) /\ g.roots = k.roots
      /\ g.mem[m] = Header(s - m, 1, 0)
      /\ g.mem[s - 1] = Header(s - m, 1, 0)
      /\ g.mem[s] = Header(Size(k, s), 0, Alloc(k, s))
  BY <1>3, <1>4 DEF PlacedFree
<1>6. g.mem[s] = Header(Size(h, s), 0, Alloc(h, s))
  <2>1. Size(k, s) = Size(h, s) /\ Alloc(k, s) = Alloc(h, s)
    BY <1>1, <1>3, ChangesReads DEF E
  <2> QED BY <1>5, <2>1
<1>7. g.mem[p] = Header(m - p, prev, 1)
  BY <1>1, <1>2, <1>3, <1>5 DEF Changes, prev
<1>8. Changes(h, g, p .. s)
  BY <1>3, <1>5, ChangesThen
<1>9. g.roots = h.roots /\ Len(g.mem) = E
  BY <1>2, <1>5 DEF Changes
<1>10. /\ Retiles(h, g, p, s, {p, m}, {m})
       /\ Following(g, p) = m /\ Following(g, m) = s
       /\ PrevAlloc(g, m) = 1
       /\ Size(g, p) = m - p /\ Size(g, m) = s - m
  <2>1. 0 \in {0, 1} /\ 1 \in {0, 1} /\ Tiles(h, g, p, s, m, 1, 0)
    BY <1>5, <1>6, <1>7, <1>8, <1>9 DEF prev, Tiles
  <2>2. /\ Retiles(h, g, p, s, {p, m}, FreeTiles(p, m, 1, 0))
        /\ Following(g, p) = m /\ Following(g, m) = s
        /\ PrevAlloc(g, p) = PrevAlloc(h, p) /\ PrevAlloc(g, m) = 1
        /\ Size(g, p) = m - p /\ Size(g, m) = s - m
    <3>1. Tiled(h, g, p, s, m, 1, 0)
      BY <2>1, TwoTiles
    <3> QED BY <3>1 DEF Tiled
  <2>3. FreeTiles(p, m, 1, 0) = {m}
    BY DEF FreeTiles
  <2> QED BY <2>2, <2>3
<1>11. Releases(h, g, B, D, p, s, {p, m}, m)
  BY <1>5, <1>10 DEF Releases
<1>12. \A a \in p + 1 .. m - 1 : g.mem[a] = h.mem[a]
  <2> TAKE a \in p + 1 .. m - 1
  <2>1. a \in 1 .. E /\ a \notin {p, m} /\ a \notin {m, s - 1, s}
    BY <1>1, <1>3
  <2> QED BY <1>2, <1>5, <2>1 DEF Changes, E
<1> QED BY <1>3, <1>9, <1>10, <1>11, <1>12 DEF CutFront, g, E

-----------------------------------------------------------------------------
(* r is h with one more allocated block, r.p, of a size at least.           *)
Handed(h, r, U, size) ==
    /\ Sound(r.h, U \cup {r.p}) /\ Keeps(h, r.h, U)
    /\ r.p \notin U /\ r.p \in Nat /\ r.p # NULL /\ Size(r.h, r.p) >= size

(* What an allocated block of a heap in order is.                          *)
LEMMA SoundBlocks ==
    ASSUME NEW h, NEW U, Sound(h, U)
    PROVE  /\ h \in Heaps /\ 1 \in U /\ Len(h.mem) \in Nat
           /\ \A p \in U : /\ p \in Nat /\ p # 0 /\ p \in Int
                           /\ p < Following(h, p) /\ Following(h, p) <= Len(h.mem)
                           /\ Following(h, p) \in Nat
                           /\ Size(h, p) = Following(h, p) - p
                           /\ (p # 1 => p + 3 <= Following(h, p))
<1>1. PICK B, D : Good(h, B, D) /\ U = B \ D
  BY DEF Sound
<1>2. Tagged(h, B, D) /\ h \in Heaps /\ 1 \in U
  BY <1>1 DEF Good, Loose, Tagged
<1>3. Len(h.mem) \in Nat
  BY <1>2, HeapType
<1>4. ASSUME NEW p \in U
      PROVE  /\ p \in Nat /\ p # 0 /\ p \in Int
             /\ p < Following(h, p) /\ Following(h, p) <= Len(h.mem)
             /\ Following(h, p) \in Nat
             /\ Size(h, p) = Following(h, p) - p
             /\ (p # 1 => p + 3 <= Following(h, p))
  <2>1. p \in B
    BY <1>1
  <2>2. p \in Nat /\ 1 <= p /\ p < Following(h, p) /\ Following(h, p) <= Len(h.mem)
        /\ Following(h, p) \in Nat /\ Size(h, p) = Following(h, p) - p
        /\ (p # 1 => p + 3 <= Following(h, p))
    BY <1>2, <2>1, BlockFacts
  <2> QED BY <2>2
<1> QED BY <1>2, <1>3, <1>4

(* split_block, 413-446: the block that it gives is large enough, what it  *)
(* cuts off is released, and the other allocated blocks stay.              *)
LEMMA SplitSound ==
    ASSUME NEW h, NEW U, NEW p, Sound(h, U \cup {p}), p \notin U, p # 1,
           NEW payload \in Nat, payload >= 2, payload + 1 <= Size(h, p)
    PROVE  /\ Handed(h, Split(h, p, payload), U, payload + 1)
           /\ Len(Split(h, p, payload).h.mem) = Len(h.mem)
<1>1. PICK B, D : Good(h, B, D) /\ U \cup {p} = B \ D
  BY DEF Sound
<1> DEFINE s == Following(h, p)
           total == Size(h, p)
           need == payload + 1
           free == total - need
           prev == PrevAlloc(h, p)
           tail == PlaceFree(PlaceAlloc(h, p + free, need, 0), p, free, prev)
           front == PlaceFree(ChangeSize(h, p, need), p + need, free, 1)
           r == Split(h, p, payload)
<1>2. Tagged(h, B, D) /\ p \in B \ D /\ h \in Heaps
  BY <1>1 DEF Good, Loose, Tagged
<1>3. /\ Spans(h, B, p, s) /\ \A t \in D : t < p \/ s <= t
      /\ Outside(B, p, s) \ D = U /\ Alloc(h, p) = 1
  <2>1. (B \ D) \ {p} = U
    BY <1>1
  <2> QED BY <1>2, <2>1, OneSpan
<1>4. /\ p \in Nat /\ p \in Int /\ 1 <= p /\ s \in Int /\ total = s - p
      /\ p \in 1 .. Len(h.mem)
  BY <1>2, BlockFacts
<1>5. \A t \in U : t \notin p .. s - 1
  <2>1. \A t \in U : t \in Outside(B, p, s)
    BY <1>3
  <2>2. \A t \in B : t \in Int
    BY <1>2, BlockFacts
  <2> QED BY <1>4, <2>1, <2>2 DEF Outside
<1>6. r = IF free < MinBlock THEN [h |-> h, p |-> p]
          ELSE IF payload > TailWords THEN [h |-> Coalesce(tail, p), p |-> p + free]
          ELSE [h |-> Coalesce(front, p + need), p |-> p]
  BY DEF Split
<1> HIDE DEF s, r, prev
<1>7. CASE free < MinBlock
  <2>1. r.h = h /\ r.p = p
    BY <1>6, <1>7
  <2>2. Keeps(h, h, U)
    BY DEF Keeps
  <2>3. p # NULL /\ total \in Int /\ payload + 1 <= total
    BY <1>4 DEF NULL
  <2>4. Size(h, p) >= payload + 1
    BY <1>4, <2>3
  <2> QED BY <1>4, <2>1, <2>2, <2>3, <2>4 DEF Handed, r
<1>8. CASE ~(free < MinBlock) /\ payload > TailWords
  <2> DEFINE m == p + free
             k == Coalesce(tail, p)
  <2>1. r.h = k /\ r.p = m
    BY <1>6, <1>8
  <2>2. /\ m \in Int /\ p + 3 <= m /\ m + 3 <= s /\ s - m = need /\ m - p = free
        /\ p .. s - 1 \subseteq p .. s - 1
    BY <1>4, <1>8 DEF MinBlock
  <2>3. Changes(h, h, p .. s - 1)
    BY <1>2 DEF Changes
  <2> HIDE DEF m, k, free, need, total
  <2>4. CutTail(h, h, PlaceFree(PlaceAlloc(h, m, s - m, 0), p, m - p, PrevAlloc(h, p)),
                B, D, p, s, m)
    BY <1>2, <1>3, <2>2, <2>3, TailCut
  <2>5. tail = PlaceFree(PlaceAlloc(h, m, s - m, 0), p, m - p, PrevAlloc(h, p))
    BY <2>2 DEF prev, m
  <2> HIDE DEF tail
  <2>6. CutTail(h, h, tail, B, D, p, s, m)
    BY <2>4, <2>5
  <2>7. Settled(h, tail, k, B, D, p, s, {p, m}, p)
    BY <1>1, <2>6, ReleaseSound DEF CutTail, k
  <2>8. m # p /\ m \in p .. s - 1 /\ Size(tail, m) = need
    BY <2>2, <2>6 DEF CutTail
  <2>9. {p, m} \ {p} = {m}
    BY <2>8
  <2>10. Sound(k, U \cup {m}) /\ Keeps(h, k, U) /\ Keeps(tail, k, {m})
         /\ Len(k.mem) = Len(h.mem)
    BY <1>3, <2>7, <2>9 DEF Settled
  <2>11. Size(k, m) = need
    BY <2>8, <2>10 DEF Keeps
  <2>12. m \notin U /\ m \in Nat /\ m # NULL /\ need >= payload + 1
    BY <1>4, <1>5, <2>2, <2>8 DEF NULL, need
  <2> QED BY <2>1, <2>10, <2>11, <2>12 DEF Handed, r
<1>9. CASE ~(free < MinBlock) /\ ~(payload > TailWords)
  <2> DEFINE m == p + need
             j == ChangeSize(h, p, need)
             k == Coalesce(front, m)
  <2>1. r.h = k /\ r.p = p
    BY <1>6, <1>9
  <2>2. m \in Int /\ p + 3 <= m /\ m + 3 <= s /\ s - m = free /\ m - p = need /\ need \in Int
    BY <1>4, <1>9 DEF MinBlock
  <2>3. HeaderChange(h, j, p, need, prev, 1)
    <3>1. prev \in {0, 1} /\ 1 \in {0, 1} /\ need \in Int
      BY <1>2, <2>2, TagsType DEF prev
    <3>2. j = WriteHeader(h, p, need, prev, 1)
      BY <1>3 DEF ChangeSize, prev
    <3> HIDE DEF j, need
    <3> QED BY <1>2, <1>4, <3>1, <3>2, WriteHeaderIs
  <2> HIDE DEF m, k, j, free, need, total
  <2>4. Changes(h, j, {p, m}) /\ j.roots = h.roots /\ j.mem[p] = Header(m - p, PrevAlloc(h, p), 1)
    BY <2>2, <2>3 DEF HeaderChange, Changes, prev
  <2>5. CutFront(h, PlaceFree(j, m, s - m, 1), B, D, p, s, m)
    BY <1>2, <1>3, <2>2, <2>4, FrontCut
  <2>6. front = PlaceFree(j, m, s - m, 1)
    BY <2>2 DEF m, j
  <2> HIDE DEF front
  <2>7. CutFront(h, front, B, D, p, s, m)
    BY <2>5, <2>6
  <2>8. Settled(h, front, k, B, D, p, s, {p, m}, m)
    BY <1>1, <2>7, ReleaseSound DEF CutFront, k
  <2>9. m # p /\ Size(front, p) = need
    BY <2>2, <2>7 DEF CutFront
  <2>10. {p, m} \ {m} = {p}
    BY <2>9
  <2>11. Sound(k, U \cup {p}) /\ Keeps(h, k, U) /\ Keeps(front, k, {p})
         /\ Len(k.mem) = Len(h.mem)
    BY <1>3, <2>8, <2>10 DEF Settled
  <2>12. Size(k, p) = need
    BY <2>9, <2>11 DEF Keeps
  <2>13. p # NULL /\ need >= payload + 1
    BY <1>4 DEF NULL, need
  <2> QED BY <1>4, <2>1, <2>11, <2>12, <2>13 DEF Handed, r
<1> QED BY <1>7, <1>8, <1>9

-----------------------------------------------------------------------------
(* What it means for a walk to visit a set in order.                       *)
LEMMA Enumerated ==
    ASSUME NEW t, NEW S, Enumerates(t, S)
    PROVE  /\ DOMAIN t = 1 .. Len(t) /\ Len(t) \in Nat
           /\ \A i \in DOMAIN t : t[i] \in S
           /\ \A q \in S : \E i \in DOMAIN t : t[i] = q
           /\ \A i, j \in DOMAIN t : i < j => t[i] < t[j]
<1>1. t \in Seq(S)
  BY DEF Enumerates
<1>2. DOMAIN t = 1 .. Len(t) /\ Len(t) \in Nat /\ \A i \in DOMAIN t : t[i] \in S
  BY <1>1
<1> QED BY <1>2 DEF Enumerates

(* The list of a size, in a heap in order.                                 *)
LEMMA ListOf ==
    ASSUME NEW h, NEW B, NEW D, Good(h, B, D), NEW l \in 0 .. Levels - 1
    PROVE  Enumerates(Nodes(h, l), {p \in D : Level(Size(h, p) - 1) = l})
<1>1. h \in Heaps /\ Linked(h, ListsOf(h, D))
  BY DEF Good, Loose, Tagged
<1>2. Enumerates(Nodes(h, l), ListsOf(h, D)[l])
  BY <1>1, NodesEnumerate
<1> QED BY <1>2 DEF ListsOf

(* The lists in which find_fit finds a block.                              *)
Suited(h, payload) == {l \in ListsToSearch(payload) : Fits(h, l, payload) # {}}

(* find_fit finds a block only in a list with one that is large enough.    *)
LEMMA FitNull ==
    ASSUME NEW h, NEW payload, FindFit(h, payload).p # NULL
    PROVE  Suited(h, payload) # {}
BY DEF FindFit, Suited

(* find_fit: if it finds no block, no free block is large enough. The lists*)
(* that it does not search hold smaller blocks only.                       *)
LEMMA FoundNone ==
    ASSUME NEW h, NEW B, NEW D, Good(h, B, D), NEW payload \in Nat,
           Suited(h, payload) = {},
           NEW p \in D
    PROVE  Size(h, p) <= payload
<1> DEFINE l == Level(Size(h, p) - 1)
<1>1. Size(h, p) \in Int
  <2>1. h \in Heaps
    BY DEF Good, Loose, Tagged
  <2> QED BY <2>1, TagsType
<1>2. l \in 0 .. Levels - 1 /\ Levels \in Nat
  BY LevelType, LevelsType
<1> SUFFICES ASSUME ~(Size(h, p) <= payload) PROVE FALSE
  OBVIOUS
<1>3. Level(payload) <= l
  BY <1>1, LevelMonotone
<1>4. l \in ListsToSearch(payload)
  BY <1>2, <1>3, LevelType DEF ListsToSearch
<1>5. Enumerates(Nodes(h, l), {q \in D : Level(Size(h, q) - 1) = l})
  <2> HIDE DEF l
  <2> QED BY <1>2, ListOf
<1> DEFINE list == Nodes(h, l)
<1>6. p \in {q \in D : Level(Size(h, q) - 1) = l}
  OBVIOUS
<1>7. PICK i \in DOMAIN list : list[i] = p
  <2> HIDE DEF l
  <2> QED BY <1>5, <1>6, Enumerated
<1>8. i \in Fits(h, l, payload)
  BY <1>1, <1>7 DEF Fits, Required
<1> QED BY <1>4, <1>8 DEF Suited

(* find_fit: what it gives is a block of its own, large enough, taken from *)
(* the free ones; the heap is in order and not longer.                     *)
LEMMA FitFound ==
    ASSUME NEW h, NEW B, NEW D, Good(h, B, D), NEW payload \in Nat, Suited(h, payload) # {}
    PROVE  /\ Handed(h, FindFit(h, payload), B \ D, payload + 1)
           /\ Len(FindFit(h, payload).h.mem) = Len(h.mem)
<1> DEFINE lists == Suited(h, payload)
           l == FirstIn(lists)
           list == Nodes(h, l)
           i == FirstIn(Fits(h, l, payload))
           p == list[i]
           g == Remove(h, p, l)
           r == FindFit(h, payload)
           U == B \ D
<1>1. Loose(h, B, D, D) /\ Tagged(h, B, D) /\ D \subseteq B /\ h \in Heaps
  BY DEF Good, Loose, Tagged
<1>2. r = IF lists = {} THEN [h |-> h, p |-> NULL] ELSE [h |-> g, p |-> p]
  BY DEF FindFit, Suited
<1>3. lists # {}
  OBVIOUS
<1>4. r.h = g /\ r.p = p
  BY <1>2, <1>3
<1>5. ListsToSearch(payload) \subseteq Nat /\ ListsToSearch(payload) \subseteq 0 .. Levels - 1
  <2>1. Level(payload) \in 0 .. Levels - 1 /\ Levels \in Nat
    BY LevelType, LevelsType
  <2> QED BY <2>1 DEF ListsToSearch
<1>6. l \in lists
  <2> HIDE DEF lists
  <2>1. lists \subseteq Nat
    BY <1>5 DEF lists, Suited
  <2> QED BY <1>3, <2>1, FirstInLeast
<1>7. l \in 0 .. Levels - 1 /\ Fits(h, l, payload) # {}
  BY <1>5, <1>6 DEF Suited
<1> HIDE DEF lists, l
<1>8. Enumerates(list, {q \in D : Level(Size(h, q) - 1) = l})
  BY <1>7, ListOf
<1>9. i \in Fits(h, l, payload)
  <2>1. Fits(h, l, payload) \subseteq DOMAIN list
    BY DEF Fits
  <2>2. DOMAIN list \subseteq Nat
    <3> HIDE DEF list
    <3>1. DOMAIN list = 1 .. Len(list)
      BY <1>8, Enumerated
    <3> QED BY <3>1
  <2>3. Fits(h, l, payload) \subseteq Nat
    BY <2>1, <2>2
  <2> QED BY <1>7, <2>3, FirstInLeast
<1>10. i \in DOMAIN list /\ Size(h, list[i]) >= payload + 1
  BY <1>9 DEF Fits, Required
<1>11. p \in {q \in D : Level(Size(h, q) - 1) = l}
  <2> HIDE DEF list, i
  <2> QED BY <1>8, <1>10, Enumerated
<1> HIDE DEF list, i
<1>12. p \in D /\ Level(Size(h, p) - 1) = l /\ Size(h, p) >= payload + 1
  BY <1>10, <1>11
<1> HIDE DEF p
<1>13. Relisted(h, g, B, D \ {p}, D \ {p}, B \ D)
  BY <1>1, <1>12, RemoveLoose
<1> HIDE DEF g, r, U
<1>14. Good(g, B, D \ {p})
  <2>1. \A q \in D \ {p} : Following(g, q) = Following(h, q)
    BY <1>1, <1>13 DEF Relisted, Following
  <2>2. \A q \in D : Following(h, q) \notin D
    BY DEF Good
  <2> QED BY <1>13, <2>1, <2>2 DEF Good, Relisted
<1>15. Sound(g, U \cup {p})
  <2>1. U \cup {p} = B \ (D \ {p})
    BY <1>1, <1>12 DEF U
  <2> QED BY <1>14, <2>1 DEF Sound
<1>16. p \notin U /\ p \in Nat /\ p # NULL
  <2>1. p \in Nat /\ 1 <= p
    BY <1>1, <1>12, BlockFacts
  <2> QED BY <1>12, <2>1 DEF U, NULL
<1>17. Size(g, p) >= payload + 1 /\ Keeps(h, g, U) /\ Len(g.mem) = Len(h.mem)
  BY <1>1, <1>12, <1>13 DEF Relisted, U
<1> QED BY <1>4, <1>15, <1>16, <1>17 DEF Handed, r, U

-----------------------------------------------------------------------------
(* The heap with words more, in a block of its own: g is h with it.         *)
Grown(h, g, words) ==
    /\ g \in Heaps /\ Len(g.mem) = Len(h.mem) + words /\ g.roots = h.roots
    /\ \A a \in 1 .. Len(h.mem) - 1 : g.mem[a] = h.mem[a]
    /\ g.mem[Len(h.mem)] = Header(words, PrevAlloc(h, Len(h.mem)), 1)
    /\ g.mem[Len(h.mem) + words] = Header(0, 1, 1)

(* A heap with an allocated block more before the epilogue, which mem_sbrk *)
(* makes room for, is in order.                                            *)
LEMMA GrownGood ==
    ASSUME NEW h, NEW B, NEW D, Good(h, B, D), NEW words \in Nat, words >= 3,
           NEW g, Grown(h, g, words)
    PROVE  /\ Good(g, B \cup {Len(h.mem)}, D) /\ Keeps(h, g, B)
           /\ Size(g, Len(h.mem)) = words
<1> DEFINE E == Len(h.mem)
           Z == E + words
           C == B \cup {E}
<1>1. /\ Tagged(h, B, D) /\ h \in Heaps /\ D \subseteq B /\ 1 \in B /\ 1 \notin D
      /\ Linked(h, ListsOf(h, D)) /\ (\A p \in D : Footed(h, p))
      /\ \A p \in D : Following(h, p) \notin D
  BY DEF Good, Loose, Tagged
<1>2. E \in Nat /\ 2 < E /\ Alloc(h, E) = 1 /\ Size(h, E) = 0
  BY <1>1, LastTags
<1>3. /\ g \in Heaps /\ Len(g.mem) = Z /\ g.roots = h.roots
      /\ \A a \in 1 .. E - 1 : g.mem[a] = h.mem[a]
      /\ g.mem[E] = Header(words, PrevAlloc(h, E), 1)
      /\ g.mem[Z] = Header(0, 1, 1)
  BY DEF Grown
<1> HIDE DEF Z, E
<1>4. Z \in Nat /\ E + 3 <= Z /\ E \in 1 .. Z /\ Z \in 1 .. Z
      /\ \A a \in 1 .. E - 1 : a \in 1 .. E /\ a \in 1 .. Z /\ a # E /\ a # Z
  BY <1>2 DEF Z
<1>5. DOMAIN h.mem = 1 .. E /\ DOMAIN g.mem = 1 .. Z
  BY <1>1, <1>3, HeapType DEF E
<1>6. \A a \in 1 .. E - 1 : Size(g, a) = Size(h, a) /\ Alloc(g, a) = Alloc(h, a)
                            /\ PrevAlloc(g, a) = PrevAlloc(h, a)
  <2> TAKE a \in 1 .. E - 1
  <2>1. HeaderAt(g, a) = HeaderAt(h, a)
    BY <1>3, <1>4, <1>5 DEF HeaderAt
  <2> QED BY <2>1 DEF Size, Alloc, PrevAlloc
<1>7. Size(g, E) = words /\ Alloc(g, E) = 1 /\ PrevAlloc(g, E) = PrevAlloc(h, E)
  BY <1>3, <1>4, HeaderReads
<1>8. PrevAlloc(g, Z) = 1
  BY <1>3, <1>4, HeaderReads
<1>9. Following(g, E) = Z
  BY <1>7 DEF Following, Z
<1>10. \A p \in B : /\ p \in 1 .. E - 1 /\ p \in Int /\ p < E /\ 1 <= p
                    /\ Following(h, p) \in Nat /\ Following(h, p) <= E /\ p < Following(h, p)
  <2> TAKE p \in B
  <2>1. p \in Nat /\ 1 <= p /\ p < E
        /\ Following(h, p) \in Nat /\ Following(h, p) <= E /\ p < Following(h, p)
    BY <1>1, BlockFacts DEF E
  <2> QED BY <1>2, <2>1
<1>11. \A p \in B : Following(g, p) = Following(h, p) /\ Size(g, p) = Size(h, p)
  BY <1>6, <1>10 DEF Following
<1>12. ASSUME NEW p \in B
       PROVE  /\ Following(g, p) \in C \cup {Z}
              /\ p + (IF p = 1 THEN 2 ELSE 3) <= Following(g, p)
              /\ \A q \in C : q <= p \/ Following(g, p) <= q
              /\ Alloc(g, p) = IF p \in D THEN 0 ELSE 1
              /\ PrevAlloc(g, Following(g, p)) = Alloc(g, p)
  <2> DEFINE n == Following(h, p)
  <2>1. /\ n \in B \cup {E}
        /\ p + (IF p = 1 THEN 2 ELSE 3) <= n
        /\ \A q \in B : q <= p \/ n <= q
        /\ Alloc(h, p) = IF p \in D THEN 0 ELSE 1
        /\ PrevAlloc(h, n) = Alloc(h, p)
    BY <1>1 DEF Tagged, E
  <2>2. n \in Nat /\ n <= E /\ Following(g, p) = n /\ Alloc(g, p) = Alloc(h, p)
    BY <1>6, <1>10, <1>11
  <2> HIDE DEF n
  <2>3. PrevAlloc(g, n) = PrevAlloc(h, n)
    BY <1>6, <1>7, <1>10, <2>1
  <2> QED BY <2>1, <2>2, <2>3
<1>13. /\ Following(g, E) \in C \cup {Z}
       /\ E + (IF E = 1 THEN 2 ELSE 3) <= Following(g, E)
       /\ \A q \in C : q <= E \/ Following(g, E) <= q
       /\ Alloc(g, E) = IF E \in D THEN 0 ELSE 1
       /\ PrevAlloc(g, Following(g, E)) = Alloc(g, E)
  <2>1. E \notin B
    BY <1>10
  <2>2. E \notin D /\ E # 1
    BY <1>1, <1>2, <2>1
  <2> QED BY <1>2, <1>4, <1>7, <1>8, <1>9, <1>10, <2>2
<1>14. Tagged(g, C, D)
  <2>1. C \in SUBSET (1 .. Z - 1)
    <3>1. E \in 1 .. Z - 1
      BY <1>2, <1>4
    <3>2. \A p \in B : p \in 1 .. Z - 1
      BY <1>2, <1>4, <1>10
    <3> QED BY <3>1, <3>2
  <2>2. g.mem[Z] = Header(0, PrevAlloc(g, Z), 1)
    BY <1>3, <1>8
  <2>3. \A p \in C :
            /\ Following(g, p) \in C \cup {Z}
            /\ p + (IF p = 1 THEN 2 ELSE 3) <= Following(g, p)
            /\ \A q \in C : q <= p \/ Following(g, p) <= q
            /\ Alloc(g, p) = IF p \in D THEN 0 ELSE 1
            /\ PrevAlloc(g, Following(g, p)) = Alloc(g, p)
    <3> TAKE p \in C
    <3>1. CASE p \in B
      BY <1>12, <3>1
    <3>2. CASE p = E
      BY <1>13, <3>2, Zenon
    <3> QED BY <3>1, <3>2
  <2>4. D \subseteq C /\ 1 \in C
    BY <1>1
  <2> HIDE DEF C
  <2> QED BY <1>1, <1>3, <2>1, <2>2, <2>3, <2>4 DEF Tagged
<1>15. \A p \in D : NextOf(g, p) = NextOf(h, p) /\ PrevOf(g, p) = PrevOf(h, p)
  <2> TAKE p \in D
  <2>1. p + 3 <= Following(h, p) /\ p \in B
    BY <1>1, FreeWords
  <2>2. p + 1 \in 1 .. E - 1
    BY <1>2, <1>10, <2>1
  <2>3. LinksAt(g, p) = LinksAt(h, p)
    BY <1>3, <2>2 DEF LinksAt
  <2> QED BY <2>3 DEF NextOf, PrevOf
<1>16. ListsOf(g, D) = ListsOf(h, D)
  BY <1>1, <1>11 DEF ListsOf
<1>17. Linked(g, ListsOf(g, D))
  <2> DEFINE F == ListsOf(h, D)
  <2>1. /\ F \in [0 .. Levels - 1 -> SUBSET (1 .. E - 1)]
        /\ \A l, m \in 0 .. Levels - 1 : l # m => F[l] \cap F[m] = {}
        /\ \A l \in 0 .. Levels - 1 : Chain(h, F[l], h.roots[l])
    BY <1>1 DEF Linked, E
  <2>2. \A l \in 0 .. Levels - 1 : F[l] \subseteq D
    BY DEF ListsOf
  <2> HIDE DEF F
  <2>3. F \in [0 .. Levels - 1 -> SUBSET (1 .. Z - 1)]
    <3>1. 1 .. E - 1 \subseteq 1 .. Z - 1
      BY <1>2, <1>4
    <3> QED BY <2>1, <3>1
  <2>4. \A l \in 0 .. Levels - 1 : Chain(g, F[l], g.roots[l])
    <3> TAKE l \in 0 .. Levels - 1
    <3>1. Chain(h, F[l], h.roots[l])
      BY <2>1
    <3>2. \A q \in F[l] : NextOf(g, q) = NextOf(h, q) /\ PrevOf(g, q) = PrevOf(h, q)
      BY <1>15, <2>2
    <3>3. Chain(g, F[l], h.roots[l])
      BY <3>1, <3>2, ChainSame
    <3> QED BY <1>3, <3>3
  <2>5. Linked(g, F)
    BY <1>3, <2>1, <2>3, <2>4 DEF Linked
  <2> QED BY <1>16, <2>5 DEF F
<1>18. \A p \in D : Footed(g, p)
  <2> TAKE p \in D
  <2>1. p + 3 <= Following(h, p) /\ p \in B
    BY <1>1, FreeWords
  <2>2. Following(h, p) - 1 \in 1 .. E - 1
    BY <1>2, <1>10, <2>1
  <2> QED BY <1>1, <1>3, <1>11, <2>1, <2>2 DEF Footed
<1>19. Good(g, C, D)
  BY <1>1, <1>11, <1>14, <1>17, <1>18 DEF Good, Loose
<1>20. Keeps(h, g, B)
  <2> SUFFICES ASSUME NEW p \in B
               PROVE  /\ Size(g, p) = Size(h, p)
                      /\ \A a \in p + 1 .. Following(h, p) - 1 : g.mem[a] = h.mem[a]
    BY DEF Keeps
  <2>1. \A a \in p + 1 .. Following(h, p) - 1 : a \in 1 .. E - 1
    BY <1>2, <1>10
  <2> QED BY <1>3, <1>11, <2>1
<1> QED BY <1>7, <1>19, <1>20 DEF E

(* A number of words rounded up to pages is not less.                      *)
LEMMA Pages ==
    ASSUME NEW a \in Nat, NEW b \in Nat, b > 0
    PROVE  ((a + b - 1) \div b) * b \in Nat /\ ((a + b - 1) \div b) * b >= a
<1> DEFINE n == a + b - 1
           q == n \div b
           r == n % b
<1>1. n \in Int /\ q \in Int /\ r \in Int
  OBVIOUS
<1>2. n = b * q + r /\ 0 <= r /\ r < b
  OBVIOUS
<1>3. q \in Nat
  BY <1>1
<1> HIDE DEF n, q, r
<1>4. b * q \in Nat /\ q * b = b * q
  BY <1>3
<1> DEFINE m == b * q
<1>5. m \in Nat /\ n = m + r /\ n = a + b - 1
  BY <1>2, <1>4 DEF n
<1> HIDE DEF m
<1>6. m >= a
  BY <1>1, <1>2, <1>5
<1> QED BY <1>4, <1>5, <1>6 DEF m, q, n

(* The words that extend_heap asks mem_sbrk for.                           *)
Room(payload) ==
    IF Level(payload) = Levels - 1
    THEN ((payload + PageWords - 1) \div PageWords) * PageWords + 1
    ELSE PageWords + 1

(* extend_heap asks for room for the payload and its header.               *)
LEMMA RoomEnough ==
    ASSUME NEW payload \in Nat, payload >= 2
    PROVE  Room(payload) \in Nat /\ Room(payload) >= payload + 1 /\ Room(payload) >= 3
<1>0. PageWords \in Nat /\ PageWords >= 2
  BY SizesAssumption, Zenon
<1>1. PageWords \in Nat /\ PageWords >= 2 /\ PageWords > 0
  BY <1>0
<1>2. CASE Level(payload) = Levels - 1
  <2> DEFINE w == ((payload + PageWords - 1) \div PageWords) * PageWords
  <2>1. w \in Nat /\ w >= payload
    BY <1>1, Pages
  <2>2. Room(payload) = w + 1
    BY <1>2 DEF Room
  <2> HIDE DEF w
  <2> QED BY <2>1, <2>2
<1>3. CASE Level(payload) # Levels - 1
  <2>1. payload <= PageWords
    BY <1>3, LevelLast
  <2>2. Room(payload) = PageWords + 1
    BY <1>3 DEF Room
  <2> QED BY <1>1, <2>1, <2>2
<1> QED BY <1>2, <1>3

-----------------------------------------------------------------------------
(* extend_heap: unless mem_sbrk refuses, it gives a block of its own in a  *)
(* longer heap that is in order and within its limit.                      *)
LEMMA ExtendIs ==
    ASSUME NEW h, NEW U, Sound(h, U), NEW payload \in Nat, payload >= 2,
           Extend(h, payload).p # NULL
    PROVE  /\ Handed(h, Extend(h, payload), U, payload + 1)
           /\ Len(Extend(h, payload).h.mem) \in Len(h.mem) .. HeapWords
<1>1. PICK B, D : Good(h, B, D) /\ U = B \ D
  BY DEF Sound
<1> DEFINE w == Room(payload)
           E == Len(h.mem)
           fresh == [i \in 1 .. w |-> Junk]
           grown == [h EXCEPT !.mem = @ \o fresh]
           moved == [grown EXCEPT !.mem[E + w] = h.mem[E]]
           g == PlaceAlloc(moved, E, w, PrevAlloc(h, E))
           r == Extend(h, payload)
<1>2. Tagged(h, B, D) /\ h \in Heaps
  BY <1>1 DEF Good, Loose, Tagged
<1>3. E \in Nat /\ E \in 1 .. E /\ 2 < E
  BY <1>2, LastTags
<1>4. w \in Nat /\ w >= payload + 1 /\ w >= 3
  BY RoomEnough
<1>5. r = IF ~SbrkAllows(h, w) THEN [h |-> h, p |-> NULL] ELSE Split(g, E, payload)
  BY DEF Extend, Room
<1>6. r = Split(g, E, payload) /\ E + w <= HeapWords
  <2> HIDE DEF g, r, w
  <2> QED BY <1>5 DEF SbrkAllows, r
<1>7. HeapWords \in Nat
  BY SizesAssumption, Zenon
<1> HIDE DEF w, E, r
<1>8. fresh \in Seq(Cells) /\ Len(fresh) = w /\ \A i \in 1 .. w : fresh[i] = Junk
  <2>1. Junk \in Cells
    BY DEF Cells
  <2> QED BY <1>4, <2>1
<1> HIDE DEF fresh
<1>9. /\ h.mem \in Seq(Cells) /\ E = Len(h.mem) /\ h.roots \in [0 .. Levels - 1 -> Nat]
      /\ h = [mem |-> h.mem, roots |-> h.roots]
  BY <1>2, HeapType DEF E
<1>10. grown = [mem |-> h.mem \o fresh, roots |-> h.roots]
  <2> DEFINE q == h.mem \o fresh
  <2>1. grown = [h EXCEPT !.mem = q]
    OBVIOUS
  <2> HIDE DEF q, grown
  <2>2. grown = [mem |-> q, roots |-> h.roots]
    BY <1>9, <2>1
  <2> QED BY <2>2 DEF q
<1>11. /\ grown \in Heaps /\ Len(grown.mem) = E + w /\ grown.roots = h.roots
       /\ \A a \in 1 .. E : grown.mem[a] = h.mem[a]
  <2>1. h.mem \o fresh \in Seq(Cells) /\ Len(h.mem \o fresh) = E + w
        /\ \A a \in 1 .. E : (h.mem \o fresh)[a] = h.mem[a]
    <3>1. /\ h.mem \o fresh \in Seq(Cells) /\ Len(h.mem \o fresh) = E + w
          /\ \A a \in 1 .. E + w : (h.mem \o fresh)[a] = IF a <= E THEN h.mem[a] ELSE fresh[a - E]
      <4> DEFINE s == h.mem
      <4>1. s \in Seq(Cells) /\ Len(s) = E
        BY <1>9
      <4> HIDE DEF s
      <4>2. /\ s \o fresh \in Seq(Cells)
            /\ Len(s \o fresh) = Len(s) + Len(fresh)
            /\ \A a \in 1 .. Len(s) + Len(fresh) :
                (s \o fresh)[a] = IF a <= Len(s) THEN s[a] ELSE fresh[a - Len(s)]
        BY <1>8, <4>1, ConcatProperties, Zenon
      <4>3. /\ s \o fresh \in Seq(Cells) /\ Len(s \o fresh) = E + w
            /\ \A a \in 1 .. E + w : (s \o fresh)[a] = IF a <= E THEN s[a] ELSE fresh[a - E]
        BY <1>8, <4>1, <4>2, Zenon
      <4> QED BY <4>3 DEF s
    <3>2. \A a \in 1 .. E : a \in 1 .. E + w /\ a <= E
      BY <1>3, <1>4
    <3> QED BY <3>1, <3>2
  <2> HIDE DEF grown
  <2> QED BY <1>9, <1>10, <2>1 DEF Heaps
<1> HIDE DEF grown
<1>12. h.mem[E] \in Cells /\ h.mem[E] = Header(0, PrevAlloc(h, E), 1)
  BY <1>2, <1>3, <1>9, HeapType DEF Tagged, E
<1>13. moved = With(grown, E + w, h.mem[E])
  BY DEF With
<1>14. /\ Changes(grown, moved, {E + w}) /\ moved.roots = h.roots
       /\ moved.mem[E + w] = h.mem[E]
  <2>1. E + w \in 1 .. Len(grown.mem)
    BY <1>3, <1>4, <1>11
  <2> HIDE DEF moved
  <2> QED BY <1>11, <1>12, <1>13, <2>1, WithIs
<1> HIDE DEF moved
<1>15. moved \in Heaps /\ Len(moved.mem) = E + w
  BY <1>11, <1>14 DEF Changes
<1>16. PrevAlloc(h, E) \in {0, 1}
  BY <1>2, TagsType
<1>17. PlacedAlloc(moved, g, E, w, PrevAlloc(h, E))
  <2>1. E \in 1 .. Len(moved.mem) /\ w > 0 /\ E + w \in 1 .. Len(moved.mem)
    BY <1>3, <1>4, <1>15
  <2> QED BY <1>4, <1>15, <1>16, <2>1, PlaceAllocIs
<1> HIDE DEF g
<1>18. /\ Changes(moved, g, {E, E + w}) /\ g.roots = moved.roots
       /\ g.mem[E] = Header(w, PrevAlloc(h, E), 1)
       /\ g.mem[E + w] = Header(Size(moved, E + w), 1, Alloc(moved, E + w))
  BY <1>17 DEF PlacedAlloc
<1>19. Size(moved, E + w) = 0 /\ Alloc(moved, E + w) = 1
  <2>1. E + w \in 1 .. Len(moved.mem)
    BY <1>3, <1>4, <1>15
  <2> QED BY <1>12, <1>14, <1>15, <2>1, HeaderReads
<1>20. Grown(h, g, w)
  <2>1. g \in Heaps /\ Len(g.mem) = E + w /\ g.roots = h.roots
    BY <1>14, <1>15, <1>18 DEF Changes
  <2>2. ASSUME NEW a \in 1 .. E - 1 PROVE g.mem[a] = h.mem[a]
    <3>1. a \in 1 .. E /\ a \in 1 .. E + w /\ a \notin {E, E + w} /\ a \notin {E + w}
      BY <1>3, <1>4
    <3>2. g.mem[a] = moved.mem[a]
      BY <1>15, <1>18, <3>1 DEF Changes
    <3>3. moved.mem[a] = grown.mem[a]
      BY <1>11, <1>14, <3>1 DEF Changes
    <3> QED BY <1>11, <3>1, <3>2, <3>3
  <2> QED BY <1>18, <1>19, <2>1, <2>2 DEF Grown, E
<1>21. Good(g, B \cup {E}, D) /\ Keeps(h, g, B) /\ Size(g, E) = w
  BY <1>1, <1>4, <1>20, GrownGood DEF E
<1>22. E \notin B /\ E \notin D /\ \A q \in B : q # E
  <2>1. \A q \in B : q < E
    BY <1>2, BlockFacts DEF E
  <2>2. D \subseteq B
    BY <1>2 DEF Tagged
  <2> QED BY <1>3, <2>1, <2>2
<1>23. Sound(g, U \cup {E}) /\ E \notin U /\ Keeps(h, g, U)
  <2>1. U \cup {E} = (B \cup {E}) \ D
    BY <1>1, <1>22
  <2>2. U \subseteq B
    BY <1>1
  <2> QED BY <1>21, <1>22, <2>1, <2>2, KeepsLess DEF Sound
<1>24. Handed(g, r, U, payload + 1) /\ Len(r.h.mem) = Len(g.mem)
  <2>1. E # 1 /\ payload + 1 <= Size(g, E)
    BY <1>3, <1>4, <1>21
  <2> QED BY <1>6, <1>23, <2>1, SplitSound
<1>25. Handed(h, r, U, payload + 1)
  BY <1>23, <1>24, KeepsThen DEF Handed
<1>26. Len(r.h.mem) \in Len(h.mem) .. HeapWords
  <2>1. Len(r.h.mem) = E + w
    BY <1>20, <1>24 DEF Grown, E
  <2> QED BY <1>3, <1>4, <1>6, <1>7, <2>1 DEF E
<1> QED BY <1>25, <1>26 DEF r

-----------------------------------------------------------------------------
(* What mm_malloc of a size that is not 0 does.                             *)
Payload(size) == IF size < 8 * MinPayload THEN MinPayload ELSE Align(size)

(* A payload holds the request, and two words for the links.               *)
LEMMA PayloadFacts ==
    ASSUME NEW size \in Nat, size > 0
    PROVE  /\ Payload(size) \in Nat /\ Payload(size) >= 2
           /\ Align(size) \in Nat /\ Align(size) > 0 /\ Align(size) <= Payload(size)
           /\ Align(size) = Payload(size) \/ Payload(size) = 2
BY DEF Payload, Align, MinPayload

(* mm_malloc, 452-479: unless it returns NULL, its block is none of those  *)
(* the client has, is large enough, and the heap is in order and within its*)
(* limit.                                                                  *)
LEMMA MmMallocSound ==
    ASSUME NEW h, NEW U, Sound(h, U), NEW size \in Nat, size > 0,
           MmMalloc(h, size).p # NULL
    PROVE  /\ Handed(h, MmMalloc(h, size), U, Align(size) + 1)
           /\ Len(MmMalloc(h, size).h.mem) = Len(h.mem)
                \/ Len(MmMalloc(h, size).h.mem) \in Len(h.mem) .. HeapWords
<1> DEFINE payload == Payload(size)
           fit == FindFit(h, payload)
           r == MmMalloc(h, size)
<1>1. PICK B, D : Good(h, B, D) /\ U = B \ D
  BY DEF Sound
<1>2. payload \in Nat /\ payload >= 2 /\ Align(size) \in Nat /\ Align(size) <= payload
  BY PayloadFacts
<1>3. r = IF fit.p # NULL THEN Split(fit.h, fit.p, payload) ELSE Extend(h, payload)
  BY DEF MmMalloc, Payload
<1> HIDE DEF payload, r, fit
<1>4. ASSUME fit.p # NULL
      PROVE  Handed(h, r, U, payload + 1) /\ Len(r.h.mem) = Len(h.mem)
  <2>1. Handed(h, fit, U, payload + 1) /\ Len(fit.h.mem) = Len(h.mem)
    BY <1>1, <1>2, <1>4, FitFound, FitNull DEF fit
  <2>2. Sound(fit.h, U \cup {fit.p}) /\ fit.p \notin U /\ payload + 1 <= Size(fit.h, fit.p)
    <3>1. Size(fit.h, fit.p) >= payload + 1
      BY <2>1 DEF Handed
    <3> QED BY <2>1, <3>1 DEF Handed
  <2>3. fit.p # 1
    BY <1>1, <2>2, SoundBlocks
  <2>4. Handed(fit.h, r, U, payload + 1) /\ Len(r.h.mem) = Len(fit.h.mem)
    BY <1>2, <1>3, <1>4, <2>2, <2>3, SplitSound
  <2>5. Handed(h, r, U, payload + 1) /\ Len(r.h.mem) = Len(h.mem)
    BY <2>1, <2>4, KeepsThen DEF Handed
  <2> QED BY <2>5
<1>5. ASSUME fit.p = NULL
      PROVE  Handed(h, r, U, payload + 1) /\ Len(r.h.mem) \in Len(h.mem) .. HeapWords
  <2>1. r = Extend(h, payload) /\ r.p # NULL
    BY <1>3, <1>5 DEF r
  <2> QED BY <1>2, <2>1, ExtendIs
<1>6. Handed(h, r, U, payload + 1)
      /\ (Len(r.h.mem) = Len(h.mem) \/ Len(r.h.mem) \in Len(h.mem) .. HeapWords)
  BY <1>4, <1>5
<1>7. Handed(h, r, U, Align(size) + 1)
  <2>1. Sound(r.h, U \cup {r.p}) /\ r.h \in Heaps
    BY <1>6, SoundBlocks DEF Handed
  <2>2. Size(r.h, r.p) \in Int
    BY <2>1, TagsType
  <2>3. Size(r.h, r.p) >= payload + 1
    BY <1>6 DEF Handed
  <2>4. Size(r.h, r.p) >= Align(size) + 1
    BY <1>2, <2>2, <2>3
  <2> QED BY <1>6, <2>4 DEF Handed
<1> QED BY <1>6, <1>7 DEF r

(* mm_malloc makes the heap longer only when no free block would do.       *)
LEMMA MmMallocGrows ==
    ASSUME NEW h, NEW B, NEW D, Good(h, B, D), NEW size \in Nat, size > 0,
           MmMalloc(h, size).p # NULL, Len(MmMalloc(h, size).h.mem) # Len(h.mem), NEW p \in D
    PROVE  Size(h, p) <= Align(size)
<1> DEFINE payload == Payload(size)
           fit == FindFit(h, payload)
           r == MmMalloc(h, size)
           U == B \ D
<1>1. Sound(h, U)
  BY DEF Sound
<1>2. payload \in Nat /\ payload >= 2 /\ Align(size) \in Nat /\ Align(size) <= payload
      /\ (Align(size) = payload \/ payload = 2)
  BY PayloadFacts
<1>3. r = IF fit.p # NULL THEN Split(fit.h, fit.p, payload) ELSE Extend(h, payload)
  BY DEF MmMalloc, Payload
<1> HIDE DEF payload, r, U
<1>4. fit.p = NULL
  <2> SUFFICES ASSUME fit.p # NULL PROVE FALSE
    OBVIOUS
  <2>1. Handed(h, fit, U, payload + 1) /\ Len(fit.h.mem) = Len(h.mem)
    BY <1>2, FitFound, FitNull DEF U
  <2> HIDE DEF fit
  <2>2. Sound(fit.h, U \cup {fit.p}) /\ fit.p \notin U /\ payload + 1 <= Size(fit.h, fit.p)
    <3>1. Size(fit.h, fit.p) >= payload + 1
      BY <2>1 DEF Handed
    <3> QED BY <2>1, <3>1 DEF Handed
  <2>3. fit.p # 1
    BY <1>1, <2>2, SoundBlocks
  <2>4. Len(r.h.mem) = Len(fit.h.mem)
    BY <1>2, <1>3, <2>2, <2>3, SplitSound
  <2> QED BY <2>1, <2>4 DEF r
<1>5. Suited(h, payload) = {}
  <2> SUFFICES ASSUME Suited(h, payload) # {} PROVE FALSE
    OBVIOUS
  <2>1. Handed(h, fit, U, payload + 1)
    BY <1>2, FitFound DEF U
  <2> QED BY <1>4, <2>1 DEF Handed
<1>6. Size(h, p) <= payload
  BY <1>2, <1>5, FoundNone
<1>7. Size(h, p) >= 3 /\ Size(h, p) \in Int
  <2>1. Tagged(h, B, D)
    BY DEF Good, Loose
  <2>2. p \in B /\ p # 1 /\ p + 3 <= Following(h, p) /\ p \in Int /\ Following(h, p) \in Int
    BY <2>1, FreeWords
  <2>3. Size(h, p) = Following(h, p) - p
    BY <2>1, <2>2, BlockFacts
  <2> QED BY <2>2, <2>3
<1> QED BY <1>2, <1>6, <1>7

-----------------------------------------------------------------------------
(* Writing words that are neither tags nor links nor footers.               *)
Rewrites(h, g, B, D) ==
    /\ g \in Heaps /\ Len(g.mem) = Len(h.mem) /\ g.roots = h.roots
    /\ \A a \in B \cup {Len(h.mem)} : g.mem[a] = h.mem[a]
    /\ \A p \in D : /\ g.mem[p + 1] = h.mem[p + 1]
                    /\ g.mem[Following(h, p) - 1] = h.mem[Following(h, p) - 1]

(* Writing anything elsewhere than in tags, links and footers leaves the   *)
(* heap in order.                                                          *)
LEMMA RewritesGood ==
    ASSUME NEW h, NEW B, NEW D, Good(h, B, D), NEW g, Rewrites(h, g, B, D)
    PROVE  Good(g, B, D) /\ \A p \in B : Size(g, p) = Size(h, p)
<1> DEFINE E == Len(h.mem)
<1>1. /\ Tagged(h, B, D) /\ h \in Heaps /\ D \subseteq B /\ 1 \in B /\ 1 \notin D
      /\ Linked(h, ListsOf(h, D)) /\ (\A p \in D : Footed(h, p))
      /\ \A p \in D : Following(h, p) \notin D
  BY DEF Good, Loose, Tagged
<1>2. /\ g \in Heaps /\ Len(g.mem) = E /\ g.roots = h.roots
      /\ \A a \in B \cup {E} : g.mem[a] = h.mem[a]
  BY DEF Rewrites
<1>3. E \in 1 .. E /\ \A p \in B : p \in 1 .. E
  BY <1>1, LastTags, BlockFacts
<1> HIDE DEF E
<1>4. \A a \in B \cup {E} : Size(g, a) = Size(h, a) /\ Alloc(g, a) = Alloc(h, a)
                            /\ PrevAlloc(g, a) = PrevAlloc(h, a)
  <2> TAKE a \in B \cup {E}
  <2>1. a \in DOMAIN h.mem <=> a \in DOMAIN g.mem
    BY <1>1, <1>2, HeapType DEF E
  <2>2. HeaderAt(g, a) = HeaderAt(h, a)
    BY <1>2, <2>1 DEF HeaderAt
  <2> QED BY <2>2 DEF Size, Alloc, PrevAlloc
<1>5. \A p \in B : Following(g, p) = Following(h, p)
  BY <1>4 DEF Following
<1>6. Tagged(g, B, D)
  <2>1. ASSUME NEW p \in B
        PROVE  /\ Following(g, p) \in B \cup {E}
               /\ p + (IF p = 1 THEN 2 ELSE 3) <= Following(g, p)
               /\ \A q \in B : q <= p \/ Following(g, p) <= q
               /\ Alloc(g, p) = IF p \in D THEN 0 ELSE 1
               /\ PrevAlloc(g, Following(g, p)) = Alloc(g, p)
    <3> DEFINE n == Following(h, p)
    <3>1. /\ n \in B \cup {E}
          /\ p + (IF p = 1 THEN 2 ELSE 3) <= n
          /\ \A q \in B : q <= p \/ n <= q
          /\ Alloc(h, p) = IF p \in D THEN 0 ELSE 1
          /\ PrevAlloc(h, n) = Alloc(h, p)
      BY <1>1 DEF Tagged, E
    <3>2. Following(g, p) = n
      BY <1>5
    <3> HIDE DEF n
    <3> QED BY <1>4, <3>1, <3>2
  <2>2. B \in SUBSET (1 .. E - 1) /\ h.mem[E] = Header(0, PrevAlloc(h, E), 1)
    BY <1>1 DEF Tagged, E
  <2>3. g.mem[E] = Header(0, PrevAlloc(g, E), 1)
    BY <1>2, <1>4, <2>2
  <2> QED BY <1>1, <1>2, <2>1, <2>2, <2>3 DEF Tagged
<1>7. \A p \in D : NextOf(g, p) = NextOf(h, p) /\ PrevOf(g, p) = PrevOf(h, p)
  <2> TAKE p \in D
  <2>1. LinksAt(g, p) = LinksAt(h, p)
    BY DEF Rewrites, LinksAt
  <2> QED BY <2>1 DEF NextOf, PrevOf
<1>8. ListsOf(g, D) = ListsOf(h, D)
  BY <1>1, <1>4 DEF ListsOf
<1>9. Linked(g, ListsOf(g, D))
  <2> DEFINE F == ListsOf(h, D)
  <2>1. Linked(h, F) /\ \A l \in 0 .. Levels - 1 : F[l] \subseteq D
    BY <1>1 DEF ListsOf
  <2> HIDE DEF F
  <2>2. \A l \in 0 .. Levels - 1 : Chain(g, F[l], g.roots[l])
    <3> TAKE l \in 0 .. Levels - 1
    <3>1. Chain(h, F[l], h.roots[l])
      BY <2>1 DEF Linked
    <3>2. \A q \in F[l] : NextOf(g, q) = NextOf(h, q) /\ PrevOf(g, q) = PrevOf(h, q)
      BY <1>7, <2>1
    <3>3. Chain(g, F[l], h.roots[l])
      BY <3>1, <3>2, ChainSame
    <3> QED BY <1>2, <3>3
  <2>3. Linked(g, F)
    BY <1>2, <2>1, <2>2 DEF Linked, E
  <2> QED BY <1>8, <2>3 DEF F
<1>10. \A p \in D : Footed(g, p)
  <2> TAKE p \in D
  <2>1. Following(g, p) = Following(h, p) /\ Size(g, p) = Size(h, p)
    BY <1>1, <1>4, <1>5
  <2>2. g.mem[Following(h, p) - 1] = h.mem[Following(h, p) - 1]
    BY DEF Rewrites
  <2> QED BY <1>1, <2>1, <2>2 DEF Footed
<1>11. Good(g, B, D)
  BY <1>1, <1>5, <1>6, <1>9, <1>10 DEF Good, Loose
<1> QED BY <1>4, <1>11

(* Writing in the bodies of allocated blocks.                              *)
Bodies(h, U) == {a \in Nat : \E p \in U : a \in p + 1 .. Following(h, p) - 1}

(* The payload of an allocated block holds no tag, link or footer.         *)
LEMMA BodiesFree ==
    ASSUME NEW h, NEW B, NEW D, Good(h, B, D), NEW a \in Bodies(h, B \ D)
    PROVE  /\ a \in 1 .. Len(h.mem) /\ a \notin B /\ a # Len(h.mem)
           /\ \A q \in D : a # q + 1 /\ a # Following(h, q) - 1
<1>1. Tagged(h, B, D) /\ D \subseteq B
  BY DEF Good, Loose, Tagged
<1>2. PICK p \in B \ D : a \in p + 1 .. Following(h, p) - 1
  BY DEF Bodies
<1>3. \A q \in B : p # q => /\ a \notin q .. Following(h, q) - 1
                            /\ a \in 1 .. Len(h.mem) /\ a \notin B /\ a # Len(h.mem)
  BY <1>1, <1>2, BodyWords
<1>4. p \in Nat /\ 1 <= p /\ Following(h, p) \in Nat /\ Following(h, p) <= Len(h.mem)
      /\ Len(h.mem) \in Nat
  BY <1>1, <1>2, BlockFacts
<1>5. a \in 1 .. Len(h.mem) /\ a # Len(h.mem)
  BY <1>2, <1>4
<1>6. a \notin B
  BY <1>1, <1>2, Apart
<1>7. ASSUME NEW q \in D PROVE a # q + 1 /\ a # Following(h, q) - 1
  <2>1. q \in B /\ p # q
    BY <1>1, <1>2
  <2>2. q \in Int /\ Following(h, q) \in Int /\ q + 3 <= Following(h, q)
    BY <1>1, FreeWords
  <2>3. q + 1 \in q .. Following(h, q) - 1 /\ Following(h, q) - 1 \in q .. Following(h, q) - 1
    BY <2>2
  <2> QED BY <1>3, <2>1, <2>3
<1> QED BY <1>5, <1>6, <1>7

Scribbles(h, g, U) == Changes(h, g, Bodies(h, U)) /\ g.roots = h.roots

(* A client that writes in its own blocks leaves the heap in order.        *)
LEMMA ScribblesSound ==
    ASSUME NEW h, NEW U, Sound(h, U), NEW g, Scribbles(h, g, U)
    PROVE  Sound(g, U) /\ \A p \in U : Size(g, p) = Size(h, p) /\ Following(g, p) = Following(h, p)
<1>1. PICK B, D : Good(h, B, D) /\ U = B \ D
  BY DEF Sound
<1>2. Tagged(h, B, D) /\ D \subseteq B
  BY <1>1 DEF Good, Loose, Tagged
<1>3. Len(h.mem) \in 1 .. Len(h.mem) /\ \A p \in B : p \in 1 .. Len(h.mem)
  BY <1>2, LastTags, BlockFacts
<1>4. \A a \in B \cup {Len(h.mem)} : a \in 1 .. Len(h.mem) /\ a \notin Bodies(h, U)
  BY <1>1, <1>3, BodiesFree
<1>5. ASSUME NEW p \in D
      PROVE  /\ p + 1 \in 1 .. Len(h.mem) /\ p + 1 \notin Bodies(h, U)
             /\ Following(h, p) - 1 \in 1 .. Len(h.mem)
             /\ Following(h, p) - 1 \notin Bodies(h, U)
  <2>1. p \in Nat /\ Following(h, p) \in Nat /\ Following(h, p) <= Len(h.mem)
        /\ Len(h.mem) \in Nat /\ 1 <= p
    BY <1>2, BlockFacts
  <2>2. p + 3 <= Following(h, p)
    BY <1>2, FreeWords
  <2>3. p + 1 \in 1 .. Len(h.mem) /\ Following(h, p) - 1 \in 1 .. Len(h.mem)
    BY <2>1, <2>2
  <2> QED BY <1>1, <2>3, BodiesFree
<1>6. Rewrites(h, g, B, D)
  BY <1>4, <1>5 DEF Rewrites, Scribbles, Changes
<1>7. Good(g, B, D) /\ \A p \in B : Size(g, p) = Size(h, p)
  BY <1>1, <1>6, RewritesGood
<1> QED BY <1>1, <1>7 DEF Sound, Following

(* What is written outside the bodies of some blocks leaves them as they    *)
(* were.                                                                   *)
LEMMA ScribblesKeeps ==
    ASSUME NEW h, NEW U, Sound(h, U), NEW g, Scribbles(h, g, U),
           NEW T, T \subseteq U, Changes(h, g, Bodies(h, U \ T))
    PROVE  Keeps(h, g, T)
<1>1. PICK B, D : Good(h, B, D) /\ U = B \ D
  BY DEF Sound
<1>2. Tagged(h, B, D) /\ T \subseteq B
  BY <1>1 DEF Good, Loose, Tagged
<1> SUFFICES ASSUME NEW p \in T
             PROVE  /\ Size(g, p) = Size(h, p)
                    /\ \A a \in p + 1 .. Following(h, p) - 1 : g.mem[a] = h.mem[a]
  BY DEF Keeps
<1>3. Size(g, p) = Size(h, p)
  BY ScribblesSound
<1>4. ASSUME NEW a \in p + 1 .. Following(h, p) - 1
      PROVE  g.mem[a] = h.mem[a]
  <2>1. ASSUME a \in Bodies(h, U \ T) PROVE FALSE
    <3>1. PICK q \in U \ T : a \in q + 1 .. Following(h, q) - 1
      BY <2>1 DEF Bodies
    <3>2. p # q /\ p \in B /\ q \in B
      BY <1>1, <1>2, <3>1
    <3>3. a \notin q .. Following(h, q) - 1
      BY <1>2, <3>2, BodyWords
    <3>4. q \in Int /\ Following(h, q) \in Int
      BY <1>2, <3>2, BlockFacts
    <3> QED BY <3>1, <3>3, <3>4
  <2>2. a \in 1 .. Len(h.mem)
    <3>1. p \in Nat /\ 1 <= p /\ Following(h, p) \in Nat /\ Following(h, p) <= Len(h.mem)
          /\ Len(h.mem) \in Nat
      BY <1>2, BlockFacts
    <3> QED BY <3>1
  <2> QED BY <2>1, <2>2 DEF Changes
<1> QED BY <1>3, <1>4

-----------------------------------------------------------------------------
(* A heap with other words.                                                *)
LEMMA MapIs ==
    ASSUME NEW h \in Heaps, NEW f \in [1 .. Len(h.mem) -> Cells], NEW g, g = [h EXCEPT !.mem = f]
    PROVE  g \in Heaps /\ g.mem = f /\ Len(g.mem) = Len(h.mem) /\ g.roots = h.roots
<1>1. Len(h.mem) \in Nat /\ h.roots \in [0 .. Levels - 1 -> Nat]
      /\ h = [mem |-> h.mem, roots |-> h.roots]
  BY HeapType
<1>2. g = [mem |-> f, roots |-> h.roots]
  BY <1>1
<1>3. f \in Seq(Cells) /\ Len(f) = Len(h.mem)
  BY <1>1
<1> QED BY <1>1, <1>2, <1>3 DEF Heaps

(* What the client writes in the block at p from the k-th word on.          *)
Filled(h, g, U, p, id, w, k) ==
    /\ Sound(g, U) /\ Keeps(h, g, U \ {p}) /\ Size(g, p) = Size(h, p)
    /\ Len(g.mem) = Len(h.mem)
    /\ \A j \in 1 .. w : g.mem[p + j] = IF j < k THEN h.mem[p + j] ELSE Data(id, j)

(* The client fills its block, which leaves the heap in order and the other*)
(* blocks as they were.                                                    *)
LEMMA FillSound ==
    ASSUME NEW h, NEW U, Sound(h, U), NEW p \in U, NEW id \in Ids,
           NEW w \in Nat, w < Size(h, p), NEW k \in Nat, k >= 1
    PROVE  Filled(h, Fill(h, id, [first |-> p + 1, words |-> w], k), U, p, id, w, k)
<1> DEFINE b == [first |-> p + 1, words |-> w]
           f == [a \in DOMAIN h.mem |-> IF a \in b.first + k - 1 .. b.first + b.words - 1
                                        THEN Data(id, a - b.first + 1) ELSE h.mem[a]]
           g == Fill(h, id, b, k)
<1>1. g = [h EXCEPT !.mem = f]
  BY DEF Fill
<1>2. /\ h \in Heaps /\ p \in Nat /\ p \in Int /\ Following(h, p) \in Nat
      /\ Following(h, p) <= Len(h.mem) /\ Size(h, p) = Following(h, p) - p
      /\ Len(h.mem) \in Nat /\ p # 0
  BY SoundBlocks
<1>3. DOMAIN h.mem = 1 .. Len(h.mem) /\ \A a \in 1 .. Len(h.mem) : h.mem[a] \in Cells
  BY <1>2, HeapType
<1>4. b.first = p + 1 /\ b.words = w
  OBVIOUS
<1> HIDE DEF b
<1>5. \A a \in 1 .. Len(h.mem) :
        f[a] = IF a \in p + k .. p + w THEN Data(id, a - p) ELSE h.mem[a]
  <2> TAKE a \in 1 .. Len(h.mem)
  <2>1. p + 1 + k - 1 = p + k /\ p + 1 + w - 1 = p + w /\ a - (p + 1) + 1 = a - p
    BY <1>2
  <2> QED BY <1>3, <1>4, <2>1
<1>6. f \in [1 .. Len(h.mem) -> Cells]
  <2>1. \A i \in Int : Data(id, i) \in Cells
    BY DEF Cells, DataCells, Data
  <2>2. \A a \in 1 .. Len(h.mem) : f[a] \in Cells
    <3> TAKE a \in 1 .. Len(h.mem)
    <3>1. a - p \in Int
      BY <1>2
    <3> HIDE DEF f
    <3> QED BY <1>3, <1>5, <2>1, <3>1
  <2> QED BY <1>3, <2>2
<1> HIDE DEF f, g
<1>7. g \in Heaps /\ g.mem = f /\ Len(g.mem) = Len(h.mem) /\ g.roots = h.roots
  BY <1>1, <1>2, <1>6, MapIs
<1>8. \A a \in p + k .. p + w : a \in p + 1 .. Following(h, p) - 1 /\ a \in Nat
  BY <1>2
<1>9. Changes(h, g, Bodies(h, {p}))
  <2>1. \A a \in 1 .. Len(h.mem) : a \in p + k .. p + w => a \in Bodies(h, {p})
    BY <1>8 DEF Bodies
  <2> QED BY <1>5, <1>7, <2>1 DEF Changes
<1>10. Scribbles(h, g, U)
  <2>1. Bodies(h, {p}) \subseteq Bodies(h, U)
    BY DEF Bodies
  <2> QED BY <1>7, <1>9, <2>1 DEF Scribbles, Changes
<1>11. Sound(g, U) /\ Size(g, p) = Size(h, p)
  BY <1>10, ScribblesSound
<1>12. Keeps(h, g, U \ {p})
  <2>1. U \ (U \ {p}) = {p} /\ U \ {p} \subseteq U
    OBVIOUS
  <2>2. Changes(h, g, Bodies(h, U \ (U \ {p})))
    BY <1>9, <2>1
  <2> QED BY <1>10, <2>1, <2>2, ScribblesKeeps
<1>13. ASSUME NEW j \in 1 .. w
       PROVE  g.mem[p + j] = IF j < k THEN h.mem[p + j] ELSE Data(id, j)
  <2>1. p + j \in 1 .. Len(h.mem) /\ (p + j \in p + k .. p + w <=> ~(j < k)) /\ (p + j) - p = j
    BY <1>2
  <2> QED BY <1>5, <1>7, <2>1
<1> QED BY <1>7, <1>11, <1>12, <1>13 DEF Filled, g, b

(* memmove between the bodies of two blocks, or within one.                 *)
Copied(h, g, to, from, n) ==
    /\ g \in Heaps /\ Len(g.mem) = Len(h.mem) /\ g.roots = h.roots
    /\ Changes(h, g, to + 1 .. to + n)
    /\ \A j \in 1 .. n : g.mem[to + j] = h.mem[from + j]

(* memmove copies n words, also where the two ranges overlap.              *)
LEMMA MoveIs ==
    ASSUME NEW h \in Heaps, NEW to \in Nat, NEW from \in Nat, NEW n \in Nat,
           to + n <= Len(h.mem), from + n <= Len(h.mem)
    PROVE  Copied(h, Move(h, to + 1, from + 1, n), to, from, n)
<1> DEFINE f == [a \in DOMAIN h.mem |-> IF a \in to + 1 .. to + 1 + n - 1
                                        THEN h.mem[from + 1 + (a - (to + 1))] ELSE h.mem[a]]
           g == Move(h, to + 1, from + 1, n)
<1>1. g = [h EXCEPT !.mem = f]
  BY DEF Move
<1>2. DOMAIN h.mem = 1 .. Len(h.mem) /\ \A a \in 1 .. Len(h.mem) : h.mem[a] \in Cells
  BY HeapType
<1>3. Len(h.mem) \in Nat
  BY HeapType
<1>4. \A a \in 1 .. Len(h.mem) :
        f[a] = IF a \in to + 1 .. to + n THEN h.mem[from + (a - to)] ELSE h.mem[a]
  <2> TAKE a \in 1 .. Len(h.mem)
  <2>1. to + 1 + n - 1 = to + n /\ from + 1 + (a - (to + 1)) = from + (a - to)
    OBVIOUS
  <2> QED BY <1>2, <2>1
<1>5. f \in [1 .. Len(h.mem) -> Cells]
  <2>1. \A a \in 1 .. Len(h.mem) : f[a] \in Cells
    <3> TAKE a \in 1 .. Len(h.mem)
    <3>1. a \in to + 1 .. to + n => from + (a - to) \in 1 .. Len(h.mem)
      BY <1>3
    <3> HIDE DEF f
    <3> QED BY <1>2, <1>4, <3>1
  <2> QED BY <1>2, <2>1
<1> HIDE DEF f, g
<1>6. g \in Heaps /\ g.mem = f /\ Len(g.mem) = Len(h.mem) /\ g.roots = h.roots
  BY <1>1, <1>5, MapIs
<1>7. Changes(h, g, to + 1 .. to + n)
  BY <1>4, <1>6 DEF Changes
<1>8. ASSUME NEW j \in 1 .. n PROVE g.mem[to + j] = h.mem[from + j]
  <2>1. to + j \in 1 .. Len(h.mem) /\ to + j \in to + 1 .. to + n /\ (to + j) - to = j
    BY <1>3
  <2> QED BY <1>4, <1>6, <2>1
<1> QED BY <1>6, <1>7, <1>8 DEF Copied, g

-----------------------------------------------------------------------------
(* r is h with the block r.p in the place of p, with what p held.           *)
Carried(h, r, U, p, size) ==
    /\ Sound(r.h, (U \ {p}) \cup {r.p}) /\ Keeps(h, r.h, U \ {p})
    /\ r.p \notin U \ {p} /\ r.p \in Nat /\ r.p # NULL /\ Size(r.h, r.p) >= size
    /\ \A j \in 1 .. Size(h, p) - 1 : r.h.mem[r.p + j] = h.mem[p + j]

(* realloc by a copy to a block that mm_malloc gave.                        *)
LEMMA MoveSound ==
    ASSUME NEW h, NEW U, Sound(h, U), NEW p \in U, p # 1,
           NEW r, NEW size \in Nat, Handed(h, r, U, size), size > Size(h, p)
    PROVE  /\ Carried(h, [h |-> MmFree(Move(r.h, r.p + 1, p + 1, Size(h, p) - 1), p), p |-> r.p],
                      U, p, size)
           /\ Len(MmFree(Move(r.h, r.p + 1, p + 1, Size(h, p) - 1), p).mem) = Len(r.h.mem)
<1> DEFINE n == Size(h, p) - 1
           k == Move(r.h, r.p + 1, p + 1, n)
           g == MmFree(k, p)
           W == U \cup {r.p}
           q == r.p
           f == r.h
<1>1. /\ Sound(f, W) /\ Keeps(h, f, U) /\ q \notin U /\ q \in Nat /\ q # NULL
      /\ Size(f, q) >= size
  BY DEF Handed
<1> HIDE DEF f, q, W
<1>1a. p \in W /\ q \in W /\ p # q /\ 1 \in U /\ q # 1 /\ U \subseteq W
  BY <1>1, SoundBlocks DEF W, q
<1>2. /\ h \in Heaps /\ p \in Nat /\ p < Following(h, p) /\ Following(h, p) \in Nat
      /\ Size(h, p) = Following(h, p) - p
  BY SoundBlocks
<1>3. /\ f \in Heaps /\ Len(f.mem) \in Nat
      /\ Following(f, p) <= Len(f.mem) /\ Size(f, p) = Following(f, p) - p
      /\ Following(f, p) \in Nat
      /\ Following(f, q) <= Len(f.mem) /\ Size(f, q) = Following(f, q) - q
      /\ Following(f, q) \in Nat
  BY <1>1, <1>1a, SoundBlocks
<1>4. Size(f, p) = Size(h, p)
  BY <1>1 DEF Keeps
<1>5. n \in Nat /\ q + n <= Len(f.mem) /\ p + n <= Len(f.mem) /\ q + n <= Following(f, q) - 1
      /\ p + n = Following(h, p) - 1
  <2>1. n = Size(h, p) - 1 /\ Size(h, p) = Following(h, p) - p
    BY <1>2
  <2> HIDE DEF n
  <2>2. n \in Nat /\ p + n = Following(h, p) - 1
    BY <1>2, <2>1
  <2>3. Following(f, p) = Following(h, p)
    BY <1>2, <1>3, <1>4
  <2>4. p + n <= Len(f.mem)
    BY <1>2, <1>3, <2>2, <2>3
  <2>5. size \in Int /\ n + 1 < size /\ size <= Following(f, q) - q
    BY <1>1, <1>2, <1>3, <2>1
  <2>6. q + n <= Following(f, q) - 1 /\ q + n <= Len(f.mem)
    BY <1>1, <1>3, <2>2, <2>5
  <2> QED BY <2>2, <2>4, <2>6
<1> HIDE DEF n
<1>6. Copied(f, k, q, p, n)
  BY <1>1, <1>2, <1>3, <1>5, MoveIs DEF q, f
<1> HIDE DEF k
<1>7. Changes(f, k, Bodies(f, {q}))
  <2>1. \A a \in q + 1 .. q + n : a \in q + 1 .. Following(f, q) - 1 /\ a \in Nat
    BY <1>1, <1>3, <1>5
  <2>2. q + 1 .. q + n \subseteq Bodies(f, {q})
    BY <2>1 DEF Bodies
  <2> QED BY <1>6, <2>2 DEF Copied, Changes
<1>8. Scribbles(f, k, W)
  <2>1. Bodies(f, {q}) \subseteq Bodies(f, W)
    BY <1>1a DEF Bodies
  <2> QED BY <1>6, <1>7, <2>1 DEF Scribbles, Copied, Changes
<1>9. Sound(k, W) /\ Size(k, q) = Size(f, q) /\ Following(k, q) = Following(f, q)
  BY <1>1, <1>1a, <1>8, ScribblesSound
<1>10. Keeps(f, k, U)
  <2>1. W \ U = {q}
    BY <1>1 DEF W, q
  <2> QED BY <1>1, <1>1a, <1>7, <1>8, <2>1, ScribblesKeeps
<1>11. Stays(k, g, W \ {p})
  BY <1>1a, <1>9, MmFreeSound
<1> HIDE DEF g
<1>12. W \ {p} = (U \ {p}) \cup {q}
  BY <1>1a DEF W, q
<1>13. Keeps(h, g, U \ {p})
  <2>1. Keeps(h, k, U)
    BY <1>1, <1>10, KeepsThen
  <2>2. Keeps(h, k, U \ {p}) /\ Keeps(k, g, U \ {p})
    BY <1>11, <1>12, <2>1, KeepsLess DEF Stays
  <2> QED BY <2>2, KeepsThen
<1>14. q \in W \ {p}
  BY <1>1a
<1>15. Size(g, q) = Size(f, q)
  BY <1>9, <1>11, <1>14 DEF Stays, Keeps
<1>16. ASSUME NEW j \in 1 .. n PROVE g.mem[q + j] = h.mem[p + j]
  <2>1. k.mem[q + j] = f.mem[p + j]
    BY <1>6 DEF Copied
  <2>2. q + j \in q + 1 .. Following(k, q) - 1 /\ p + j \in p + 1 .. Following(h, p) - 1
    BY <1>1, <1>2, <1>3, <1>5, <1>9
  <2>3. g.mem[q + j] = k.mem[q + j]
    BY <1>11, <1>14, <2>2 DEF Stays, Keeps
  <2>4. f.mem[p + j] = h.mem[p + j]
    BY <1>1, <2>2 DEF Keeps
  <2> QED BY <2>1, <2>3, <2>4
<1>17. Len(g.mem) = Len(f.mem)
  BY <1>6, <1>11 DEF Copied, Stays
<1> DEFINE o == [h |-> g, p |-> q]
<1>18. o.h = g /\ o.p = q
  OBVIOUS
<1> HIDE DEF o
<1>19. Carried(h, o, U, p, size)
  BY <1>1, <1>11, <1>12, <1>13, <1>15, <1>16, <1>18 DEF Carried, Stays, n
<1> QED BY <1>17, <1>19 DEF o, g, k, n, q, f

-----------------------------------------------------------------------------
(* A block before a free one that is taken off its list: f is h without it, *)
(* and the words from p to before s are one span.                          *)
Spanned(h, f, U, B, X, p, s) ==
    /\ Good(f, B, X) /\ Spans(f, B, p, s)
    /\ \A t \in X : t < p \/ s <= t
    /\ Outside(B, p, s) \ X = U \ {p}
    /\ Keeps(h, f, U) /\ Len(f.mem) = Len(h.mem)
    /\ PrevAlloc(f, p) = PrevAlloc(h, p) /\ Size(f, p) = Size(h, p)

(* mm_realloc, 529-565: the free block after p leaves its list, and p and  *)
(* it are one span.                                                        *)
LEMMA Absorb ==
    ASSUME NEW h, NEW U, Sound(h, U), NEW p \in U, p # 1, Alloc(h, Following(h, p)) = 0
    PROVE  LET n == Following(h, p)
               s == Following(h, n)
               f == Remove(h, n, Level(Size(h, n) - 1))
           IN  /\ \E B, X : Spanned(h, f, U, B, X, p, s)
               /\ Size(h, p) + Size(h, n) = s - p /\ s \in Nat /\ n < s
<1> DEFINE n == Following(h, p)
           s == Following(h, n)
           f == Remove(h, n, Level(Size(h, n) - 1))
<1>1. PICK B, D : Good(h, B, D) /\ U = B \ D
  BY DEF Sound
<1>2. Tagged(h, B, D) /\ Loose(h, B, D, D) /\ D \subseteq B /\ p \in B /\ p \notin D
  BY <1>1 DEF Good, Loose, Tagged
<1>3. n \in B \cup {Len(h.mem)} /\ p \in Nat /\ n \in Nat /\ p + 3 <= n
      /\ Size(h, p) = n - p /\ 1 <= p
  BY <1>2, BlockFacts
<1> HIDE DEF n
<1>4. n \in B
  <2>1. Alloc(h, Len(h.mem)) = 1
    BY <1>2, LastTags
  <2> QED BY <1>3, <2>1 DEF n
<1>5. n \in D
  <2>1. Alloc(h, n) = IF n \in D THEN 0 ELSE 1
    BY <1>2, <1>4 DEF Tagged
  <2> QED BY <2>1 DEF n
<1>6. /\ n < s /\ s \in Nat /\ s \in B \cup {Len(h.mem)} /\ Size(h, n) = s - n
      /\ s <= Len(h.mem) /\ Len(h.mem) \in Nat
  BY <1>2, <1>4, BlockFacts
<1> HIDE DEF s
<1>7. Relisted(h, f, B, D \ {n}, D \ {n}, U)
  BY <1>1, <1>2, <1>5, RemoveLoose
<1> HIDE DEF f
<1> DEFINE X == D \ {n}
<1>8. /\ Loose(f, B, X, X) /\ Keeps(h, f, U) /\ Len(f.mem) = Len(h.mem)
      /\ \A q \in B : Size(f, q) = Size(h, q)
  BY <1>7 DEF Relisted
<1>9. \A q \in B : Following(f, q) = Following(h, q)
  BY <1>8 DEF Following
<1>10. Good(f, B, X)
  BY <1>1, <1>2, <1>8, <1>9 DEF Good
<1>11. Spans(f, B, p, s)
  BY <1>2, <1>3, <1>6, <1>8 DEF Spans
<1>12. \A t \in B : t \in Int /\ (t <= p \/ n <= t) /\ (t <= n \/ s <= t)
  BY <1>2, <1>4, Apart, BlockFacts DEF n, s
<1>13. \A t \in B : t = p \/ t = n \/ t < p \/ s <= t
  BY <1>3, <1>6, <1>12
<1>14. \A t \in X : t < p \/ s <= t
  BY <1>2, <1>13
<1>15. Outside(B, p, s) \ X = U \ {p}
  <2>1. ~(n < p) /\ ~(s <= n) /\ ~(s <= p) /\ ~(p < p)
    BY <1>3, <1>6
  <2>2. \A t \in B : t \in Outside(B, p, s) <=> t # p /\ t # n
    BY <1>13, <2>1 DEF Outside
  <2>3. \A t : t \in Outside(B, p, s) => t \in B
    BY DEF Outside
  <2>4. ASSUME NEW t PROVE t \in Outside(B, p, s) \ X <=> t \in U \ {p}
    BY <1>1, <1>2, <1>5, <2>2, <2>3
  <2> QED BY <2>4
<1>16. PrevAlloc(f, p) = PrevAlloc(h, p)
  <2>1. PICK t \in B : Following(h, t) = p
    BY <1>2, Predecessor
  <2>2. t # n
    BY <1>3, <1>6, <2>1 DEF s
  <2>3. Alloc(h, t) = (IF t \in D THEN 0 ELSE 1) /\ PrevAlloc(h, Following(h, t)) = Alloc(h, t)
    BY <1>2 DEF Tagged
  <2>4. Alloc(f, t) = (IF t \in X THEN 0 ELSE 1) /\ PrevAlloc(f, Following(f, t)) = Alloc(f, t)
    BY <1>8 DEF Loose, Tagged
  <2> QED BY <1>9, <2>1, <2>2, <2>3, <2>4
<1>17. Spanned(h, f, U, B, X, p, s)
  BY <1>2, <1>8, <1>10, <1>11, <1>14, <1>15, <1>16 DEF Spanned
<1>18. Size(h, p) + Size(h, n) = s - p
  BY <1>3, <1>6
<1> QED BY <1>6, <1>17, <1>18 DEF f, s, n

(* The whole span for the block.                                           *)
LEMMA WholeSound ==
    ASSUME NEW h, NEW U, Sound(h, U), NEW p \in U, p # 1,
           NEW f, NEW B, NEW X, NEW s \in Nat, Spanned(h, f, U, B, X, p, s),
           Size(h, p) < s - p
    PROVE  /\ Carried(h, [h |-> PlaceAlloc(f, p, s - p, PrevAlloc(h, p)), p |-> p], U, p, s - p)
           /\ Len(PlaceAlloc(f, p, s - p, PrevAlloc(h, p)).mem) = Len(h.mem)
<1> DEFINE prev == PrevAlloc(h, p)
           g == PlaceAlloc(f, p, s - p, prev)
<1>1. /\ Good(f, B, X) /\ Spans(f, B, p, s) /\ (\A t \in X : t < p \/ s <= t)
      /\ Outside(B, p, s) \ X = U \ {p}
      /\ Keeps(h, f, U) /\ Len(f.mem) = Len(h.mem)
      /\ PrevAlloc(f, p) = prev /\ Size(f, p) = Size(h, p)
  BY DEF Spanned
<1>2. Loose(f, B, X, X) /\ Tagged(f, B, X) /\ f \in Heaps /\ X \subseteq B
      /\ \A q \in X : Following(f, q) \notin X
  BY <1>1 DEF Good, Loose, Tagged
<1>3. /\ p \in Nat /\ s \in Int /\ p \in 1 .. Len(f.mem) /\ s \in 1 .. Len(f.mem) /\ p < s
      /\ Len(f.mem) \in Nat /\ s <= Len(f.mem) /\ p \in Int
  <2>1. p \in Nat
    BY SoundBlocks
  <2> QED BY <1>1, <1>2, <2>1, SpanFacts DEF Spans
<1>4. /\ p + 3 <= Following(h, p) /\ Following(h, p) \in Nat /\ Size(h, p) = Following(h, p) - p
      /\ h \in Heaps
  BY SoundBlocks
<1>5. s - p \in Nat /\ s - p > 0 /\ p + (s - p) = s /\ p + 3 <= s /\ Following(h, p) < s
      /\ {p, s} \subseteq p .. s
  BY <1>3, <1>4
<1>6. prev \in {0, 1}
  BY <1>4, TagsType
<1> HIDE DEF prev
<1>7. PlacedAlloc(f, g, p, s - p, prev)
  <2>1. p + (s - p) \in 1 .. Len(f.mem)
    BY <1>3, <1>5
  <2> QED BY <1>2, <1>3, <1>5, <1>6, <2>1, PlaceAllocIs
<1> HIDE DEF g
<1>8. /\ Changes(f, g, {p, s}) /\ g.roots = f.roots
      /\ g.mem[p] = Header(s - p, prev, 1)
      /\ g.mem[s] = Header(Size(f, s), 1, Alloc(f, s))
  BY <1>5, <1>7 DEF PlacedAlloc
<1>9. Changes(f, g, p .. s) /\ g \in Heaps /\ Len(g.mem) = Len(f.mem)
  BY <1>5, <1>8 DEF Changes
<1>10. Size(g, p) = s - p /\ PrevAlloc(g, p) = prev /\ Alloc(g, p) = 1
  BY <1>3, <1>8, <1>9, HeaderReads
<1>11. Retiles(f, g, p, s, {p}, {})
  <2>1. Retiles(f, g, p, s, {p}, IF 1 = 0 THEN {p} ELSE {})
    <3>1. 1 \in {0, 1} /\ PrevAlloc(g, p) = PrevAlloc(f, p)
      BY <1>1, <1>10
    <3> QED BY <1>1, <1>2, <1>5, <1>8, <1>9, <1>10, <3>1, OneTile
  <2> QED BY <2>1
<1>12. Outside(X, p, s) = X
  BY <1>1 DEF Outside
<1>13. Retiled(f, g, B, X, X, p, s, {p}, {})
  BY <1>1, <1>2, <1>11, <1>12, RetileLoose
<1> DEFINE C == Outside(B, p, s) \cup {p}
<1>14. /\ Loose(g, C, X, X) /\ Keeps(f, g, Outside(B, p, s))
       /\ \A q \in Outside(B, p, s) : Size(g, q) = Size(f, q)
  BY <1>12, <1>13 DEF Retiled
<1>15. \A q \in X : Following(g, q) = Following(f, q)
  BY <1>1, <1>2, <1>14 DEF Following, Outside
<1>16. Good(g, C, X)
  BY <1>2, <1>14, <1>15 DEF Good
<1>17. Sound(g, (U \ {p}) \cup {p})
  <2>1. p \notin X
    BY <1>1, <1>3
  <2>2. (U \ {p}) \cup {p} = C \ X
    BY <1>1, <2>1
  <2> QED BY <1>16, <2>2 DEF Sound
<1>18. Keeps(h, g, U \ {p})
  <2>1. Keeps(f, g, U \ {p}) /\ Keeps(h, f, U \ {p})
    BY <1>1, <1>14, KeepsLess
  <2> QED BY <2>1, KeepsThen
<1>19. ASSUME NEW j \in 1 .. Size(h, p) - 1 PROVE g.mem[p + j] = h.mem[p + j]
  <2>1. p + j \in p + 1 .. Following(h, p) - 1 /\ p + j \in 1 .. Len(f.mem) /\ p + j \notin {p, s}
    BY <1>3, <1>4, <1>5
  <2>2. f.mem[p + j] = h.mem[p + j]
    BY <1>1, <2>1 DEF Keeps
  <2> QED BY <1>8, <2>1, <2>2 DEF Changes
<1> DEFINE o == [h |-> g, p |-> p]
<1>20. o.h = g /\ o.p = p /\ p # NULL /\ Size(g, p) >= s - p
  <2>1. p # 0
    BY SoundBlocks
  <2> QED BY <1>5, <1>10, <2>1 DEF NULL
<1> HIDE DEF o
<1>21. Carried(h, o, U, p, s - p)
  BY <1>3, <1>17, <1>18, <1>19, <1>20 DEF Carried
<1> QED BY <1>1, <1>9, <1>21 DEF o, g, prev

(* The end of the span for it...                                           *)
TailTaken(f, p, m, s, c, prev) ==
    PlaceFree(PlaceAlloc(Move(f, m + 1, p + 1, c), m, s - m, 0), p, m - p, prev)

(* mm_realloc, 529-565: the block moves to the end of the span with its    *)
(* contents and the beginning is released.                                 *)
LEMMA TailSound ==
    ASSUME NEW h, NEW U, Sound(h, U), NEW p \in U, p # 1,
           NEW f, NEW B, NEW X, NEW s \in Nat, Spanned(h, f, U, B, X, p, s),
           NEW m \in Nat, p + 3 <= m, Size(h, p) < s - m
    PROVE  /\ Carried(h, [h |-> Coalesce(TailTaken(f, p, m, s, Size(h, p) - 1, PrevAlloc(h, p)), p),
                          p |-> m], U, p, s - m)
           /\ Len(Coalesce(TailTaken(f, p, m, s, Size(h, p) - 1, PrevAlloc(h, p)), p).mem)
                = Len(h.mem)
<1> DEFINE prev == PrevAlloc(h, p)
           c == Size(h, p) - 1
           k == Move(f, m + 1, p + 1, c)
           g == TailTaken(f, p, m, s, c, prev)
           r == Coalesce(g, p)
<1>1. /\ Good(f, B, X) /\ Spans(f, B, p, s) /\ (\A t \in X : t < p \/ s <= t)
      /\ Outside(B, p, s) \ X = U \ {p}
      /\ Keeps(h, f, U) /\ Len(f.mem) = Len(h.mem)
      /\ PrevAlloc(f, p) = prev /\ Size(f, p) = Size(h, p)
  BY DEF Spanned
<1>2. Tagged(f, B, X) /\ f \in Heaps
  BY <1>1 DEF Good, Loose, Tagged
<1>3. /\ p \in Nat /\ s \in Int /\ p < s /\ Len(f.mem) \in Nat /\ s <= Len(f.mem)
  <2>1. p \in Nat
    BY SoundBlocks
  <2> QED BY <1>1, <1>2, <2>1, SpanFacts DEF Spans
<1>4. p + 3 <= Following(h, p) /\ Following(h, p) \in Nat /\ Size(h, p) = Following(h, p) - p
  BY SoundBlocks
<1>5. /\ c \in Nat /\ m + c < s /\ p + c <= Len(f.mem) /\ m + c <= Len(f.mem) /\ m + 3 <= s
      /\ m + 1 .. m + c \subseteq p .. s - 1 /\ m \in Int /\ s - m \in Nat
      /\ p + c = Following(h, p) - 1
  BY <1>3, <1>4
<1> HIDE DEF c, prev
<1>6. Copied(f, k, m, p, c)
  BY <1>2, <1>3, <1>5, MoveIs
<1>7. g = PlaceFree(PlaceAlloc(k, m, s - m, 0), p, m - p, PrevAlloc(f, p))
  BY <1>1 DEF TailTaken
<1> HIDE DEF k, g, r
<1>8. Changes(f, k, p .. s - 1) /\ k.roots = f.roots
  BY <1>5, <1>6 DEF Copied, Changes
<1>9. CutTail(f, k, g, B, X, p, s, m)
  <2>1. CutTail(f, k, PlaceFree(PlaceAlloc(k, m, s - m, 0), p, m - p, PrevAlloc(f, p)),
                B, X, p, s, m)
    BY <1>1, <1>2, <1>5, <1>8, TailCut
  <2> QED BY <1>7, <2>1
<1>10. Settled(f, g, r, B, X, p, s, {p, m}, p)
  BY <1>1, <1>9, ReleaseSound DEF CutTail, r
<1>11. m # p /\ m \in p .. s - 1 /\ Size(g, m) = s - m /\ Following(g, m) = s
       /\ \A a \in m + 1 .. s - 1 : g.mem[a] = k.mem[a]
  BY <1>9 DEF CutTail
<1>12. {p, m} \ {p} = {m}
  BY <1>11
<1>13. Sound(r, (U \ {p}) \cup {m}) /\ Keeps(f, r, U \ {p}) /\ Keeps(g, r, {m})
       /\ Len(r.mem) = Len(f.mem)
  BY <1>1, <1>10, <1>12 DEF Settled
<1>14. Size(r, m) = s - m /\ \A a \in m + 1 .. s - 1 : r.mem[a] = g.mem[a]
  BY <1>11, <1>13 DEF Keeps
<1>15. Keeps(h, r, U \ {p})
  <2>1. Keeps(h, f, U \ {p})
    BY <1>1, KeepsLess
  <2> QED BY <1>13, <2>1, KeepsThen
<1>16. ASSUME NEW j \in 1 .. c PROVE r.mem[m + j] = h.mem[p + j]
  <2>1. m + j \in m + 1 .. s - 1 /\ p + j \in p + 1 .. Following(h, p) - 1
    BY <1>3, <1>5
  <2>2. r.mem[m + j] = k.mem[m + j]
    BY <1>11, <1>14, <2>1
  <2>3. k.mem[m + j] = f.mem[p + j]
    BY <1>6 DEF Copied
  <2>4. f.mem[p + j] = h.mem[p + j]
    BY <1>1, <2>1 DEF Keeps
  <2> QED BY <2>2, <2>3, <2>4
<1>17. m \notin U \ {p}
  <2>1. \A t \in Outside(B, p, s) : t < p \/ s <= t
    BY DEF Outside
  <2>2. ~(m < p) /\ ~(s <= m)
    BY <1>3, <1>5
  <2> QED BY <1>1, <2>1, <2>2
<1> DEFINE o == [h |-> r, p |-> m]
<1>18. o.h = r /\ o.p = m /\ m # NULL /\ Size(r, m) >= s - m
  BY <1>3, <1>5, <1>14 DEF NULL
<1> HIDE DEF o
<1>19. Carried(h, o, U, p, s - m)
  BY <1>13, <1>15, <1>16, <1>17, <1>18 DEF Carried, c
<1> QED BY <1>1, <1>13, <1>19 DEF o, r, g, c, prev

(* ... or its beginning.                                                   *)
FrontTaken(f, p, m, s, prev) == PlaceFree(PlaceAlloc(f, p, m - p, prev), m, s - m, 1)

(* mm_realloc: the block stays at the beginning of the span and the end is *)
(* released.                                                               *)
LEMMA FrontSound ==
    ASSUME NEW h, NEW U, Sound(h, U), NEW p \in U, p # 1,
           NEW f, NEW B, NEW X, NEW s \in Nat, Spanned(h, f, U, B, X, p, s),
           NEW m \in Nat, m + 3 <= s, Size(h, p) < m - p
    PROVE  /\ Carried(h, [h |-> Coalesce(FrontTaken(f, p, m, s, PrevAlloc(h, p)), m),
                          p |-> p], U, p, m - p)
           /\ Len(Coalesce(FrontTaken(f, p, m, s, PrevAlloc(h, p)), m).mem) = Len(h.mem)
<1> DEFINE prev == PrevAlloc(h, p)
           k == PlaceAlloc(f, p, m - p, prev)
           g == PlaceFree(k, m, s - m, 1)
           r == Coalesce(g, m)
<1>1. /\ Good(f, B, X) /\ Spans(f, B, p, s) /\ (\A t \in X : t < p \/ s <= t)
      /\ Outside(B, p, s) \ X = U \ {p}
      /\ Keeps(h, f, U) /\ Len(f.mem) = Len(h.mem)
      /\ PrevAlloc(f, p) = prev /\ Size(f, p) = Size(h, p)
  BY DEF Spanned
<1>2. Tagged(f, B, X) /\ f \in Heaps
  BY <1>1 DEF Good, Loose, Tagged
<1>3. /\ p \in Nat /\ s \in Int /\ p < s /\ Len(f.mem) \in Nat /\ s <= Len(f.mem)
      /\ p \in 1 .. Len(f.mem)
  <2>1. p \in Nat
    BY SoundBlocks
  <2> QED BY <1>1, <1>2, <2>1, SpanFacts DEF Spans
<1>4. p + 3 <= Following(h, p) /\ Following(h, p) \in Nat /\ Size(h, p) = Following(h, p) - p
      /\ h \in Heaps /\ p # 0
  BY SoundBlocks
<1>5. /\ p + 3 <= m /\ m \in Int /\ m - p \in Nat /\ m - p > 0 /\ p + (m - p) = m
      /\ m \in 1 .. Len(f.mem) /\ Following(h, p) < m
  BY <1>3, <1>4
<1>6. prev \in {0, 1}
  BY <1>4, TagsType
<1> HIDE DEF prev
<1>7. PlacedAlloc(f, k, p, m - p, prev)
  <2>1. p + (m - p) \in 1 .. Len(f.mem)
    BY <1>5
  <2> QED BY <1>2, <1>3, <1>5, <1>6, <2>1, PlaceAllocIs
<1> HIDE DEF k
<1>8. Changes(f, k, {p, m}) /\ k.roots = f.roots /\ k.mem[p] = Header(m - p, PrevAlloc(f, p), 1)
  BY <1>1, <1>5, <1>7 DEF PlacedAlloc
<1>9. CutFront(f, g, B, X, p, s, m)
  BY <1>1, <1>2, <1>5, <1>8, FrontCut
<1> HIDE DEF g, r
<1>10. Settled(f, g, r, B, X, p, s, {p, m}, m)
  BY <1>1, <1>9, ReleaseSound DEF CutFront, r
<1>11. m # p /\ Size(g, p) = m - p /\ Following(g, p) = m
       /\ \A a \in p + 1 .. m - 1 : g.mem[a] = f.mem[a]
  BY <1>9 DEF CutFront
<1>12. {p, m} \ {m} = {p}
  BY <1>11
<1>13. Sound(r, (U \ {p}) \cup {p}) /\ Keeps(f, r, U \ {p}) /\ Keeps(g, r, {p})
       /\ Len(r.mem) = Len(f.mem)
  BY <1>1, <1>10, <1>12 DEF Settled
<1>14. Size(r, p) = m - p /\ \A a \in p + 1 .. m - 1 : r.mem[a] = g.mem[a]
  BY <1>11, <1>13 DEF Keeps
<1>15. Keeps(h, r, U \ {p})
  <2>1. Keeps(h, f, U \ {p})
    BY <1>1, KeepsLess
  <2> QED BY <1>13, <2>1, KeepsThen
<1>16. ASSUME NEW j \in 1 .. Size(h, p) - 1 PROVE r.mem[p + j] = h.mem[p + j]
  <2>1. p + j \in p + 1 .. m - 1 /\ p + j \in p + 1 .. Following(h, p) - 1
    BY <1>3, <1>4, <1>5
  <2>2. r.mem[p + j] = f.mem[p + j]
    BY <1>11, <1>14, <2>1
  <2>3. f.mem[p + j] = h.mem[p + j]
    BY <1>1, <2>1 DEF Keeps
  <2> QED BY <2>2, <2>3
<1> DEFINE o == [h |-> r, p |-> p]
<1>17. o.h = r /\ o.p = p /\ p # NULL /\ Size(r, p) >= m - p /\ p \notin U \ {p}
  BY <1>4, <1>5, <1>14 DEF NULL
<1> HIDE DEF o
<1>18. Carried(h, o, U, p, m - p)
  BY <1>3, <1>13, <1>15, <1>16, <1>17 DEF Carried
<1> QED BY <1>1, <1>13, <1>18 DEF o, r, g, k, prev, FrontTaken

-----------------------------------------------------------------------------
(* The client's blocks.  In a heap in order the allocated blocks are the    *)
(* prologue and the client's, one for each name.                           *)

(* What the client knows of its blocks: Live names those it has; Held are  *)
(* the headers of the allocated blocks, the prologue's among them, and     *)
(* Others those but of id.                                                 *)
BlockRecords == [first : Nat, words : Nat \ {0}]
BlockMaps == [Ids -> {None} \cup BlockRecords]

Live(bs) == {id \in Ids : bs[id] # None}
Others(bs, id) == {1} \cup {bs[o].first - 1 : o \in Live(bs) \ {id}}
Held(bs) == {1} \cup {bs[id].first - 1 : id \in Live(bs)}

(* A block is large enough and holds what the client wrote in it.           *)
Holds(h, id, b) ==
    /\ b \in BlockRecords /\ b.first - 1 # 1 /\ b.words < Size(h, b.first - 1)
    /\ \A k \in 1 .. b.words : h.mem[b.first + k - 1] = Data(id, k)

(* The heap is in order, and the allocated blocks are the client's.        *)
InOrder(h, bs) ==
    /\ Sound(h, Held(bs)) /\ bs \in BlockMaps
    /\ \A id \in Live(bs) : Holds(h, id, bs[id])
    /\ \A id, o \in Live(bs) : bs[id].first = bs[o].first => id = o

(* The client reads back what it wrote.                                    *)
Intact(h, bs) ==
    \A id \in Live(bs) : \A k \in 1 .. bs[id].words :
        /\ bs[id].first + k - 1 \in 1 .. Len(h.mem)
        /\ h.mem[bs[id].first + k - 1] = Data(id, k)

(* What holds in a heap whose tags are lost, too.                           *)
Safe(h, bs) ==
    /\ h \in Heaps /\ Len(h.mem) <= HeapWords
    /\ h.roots \in [0 .. Levels - 1 -> 0 .. HeapWords]
    /\ bs \in BlockMaps /\ Intact(h, bs)

(* The client's record of a block.                                         *)
LEMMA LiveBlocks ==
    ASSUME NEW bs \in BlockMaps, NEW id \in Live(bs)
    PROVE  /\ id \in Ids /\ bs[id] \in BlockRecords
           /\ bs[id].first \in Nat /\ bs[id].words \in Nat /\ bs[id].words > 0
<1>1. id \in Ids /\ bs[id] # None
  BY DEF Live
<1>2. bs[id] \in BlockRecords
  BY <1>1 DEF BlockMaps
<1> QED BY <1>1, <1>2 DEF BlockRecords

(* The first block of a list, if there is one, is in the heap.             *)
LEMMA RootsBounded ==
    ASSUME NEW h, NEW U, Sound(h, U)
    PROVE  h.roots \in [0 .. Levels - 1 -> 0 .. Len(h.mem)]
<1>1. PICK B, D : Good(h, B, D)
  BY DEF Sound
<1>2. Tagged(h, B, D) /\ Linked(h, ListsOf(h, D)) /\ D \subseteq B
  BY <1>1 DEF Good, Loose, Tagged
<1>3. h \in Heaps /\ Len(h.mem) \in Nat /\ h.roots \in [0 .. Levels - 1 -> Nat]
  BY HeapType, SoundBlocks
<1>4. ASSUME NEW l \in 0 .. Levels - 1 PROVE h.roots[l] \in 0 .. Len(h.mem)
  <2>1. Chain(h, ListsOf(h, D)[l], h.roots[l])
    BY <1>2 DEF Linked
  <2>2. h.roots[l] = NULL \/ h.roots[l] \in ListsOf(h, D)[l]
    BY <2>1 DEF Chain, Starts
  <2>3. ListsOf(h, D)[l] \subseteq D
    BY DEF ListsOf
  <2>4. ASSUME h.roots[l] \in D PROVE h.roots[l] \in 0 .. Len(h.mem)
    <3>1. h.roots[l] \in 1 .. Len(h.mem)
      BY <1>2, <2>4, BlockFacts
    <3> QED BY <3>1
  <2> QED BY <1>3, <2>2, <2>3, <2>4 DEF NULL
<1> QED BY <1>3, <1>4

(* A heap in order is safe.                                                *)
LEMMA OrderSafe ==
    ASSUME NEW h, NEW bs, InOrder(h, bs), Len(h.mem) <= HeapWords
    PROVE  Safe(h, bs)
<1>1. Sound(h, Held(bs)) /\ bs \in BlockMaps
  BY DEF InOrder
<1>2. h \in Heaps /\ Len(h.mem) \in Nat
  BY <1>1, SoundBlocks
<1>3. h.roots \in [0 .. Levels - 1 -> 0 .. Len(h.mem)]
  BY <1>1, RootsBounded
<1>4. HeapWords \in Nat
  BY SizesAssumption, Zenon
<1>5. h.roots \in [0 .. Levels - 1 -> 0 .. HeapWords]
  <2>1. \A i \in 0 .. Len(h.mem) : i \in 0 .. HeapWords
    BY <1>2, <1>4
  <2> QED BY <1>3, <2>1
<1>6. Intact(h, bs)
  <2> SUFFICES ASSUME NEW id \in Live(bs), NEW k \in 1 .. bs[id].words
               PROVE  /\ bs[id].first + k - 1 \in 1 .. Len(h.mem)
                      /\ h.mem[bs[id].first + k - 1] = Data(id, k)
    BY DEF Intact
  <2> DEFINE p == bs[id].first - 1
  <2>1. Holds(h, id, bs[id])
    BY DEF InOrder
  <2>2. p \in Held(bs)
    BY DEF Held
  <2>3. p \in Nat /\ p # 0 /\ Following(h, p) <= Len(h.mem) /\ Following(h, p) \in Nat
        /\ Size(h, p) = Following(h, p) - p
    BY <1>1, <2>2, SoundBlocks
  <2>4. bs[id].first \in Nat /\ bs[id].words \in Nat
    BY <1>1, LiveBlocks
  <2>5. bs[id].words < Size(h, p)
    BY <2>1 DEF Holds
  <2>6. bs[id].first + k - 1 = p + k
    BY <2>4
  <2> HIDE DEF p
  <2>7. p + k \in 1 .. Len(h.mem)
    BY <1>2, <2>3, <2>4, <2>5
  <2> QED BY <2>1, <2>6, <2>7 DEF Holds
<1> QED BY <1>1, <1>2, <1>5, <1>6 DEF Safe

-----------------------------------------------------------------------------
(* What is left of a heap when all but some words are junk.                *)
Left(h, read) ==
    [mem |-> [a \in DOMAIN h.mem |-> IF a \in read THEN h.mem[a] ELSE Junk],
     roots |-> h.roots]

(* Making words junk keeps the others.                                     *)
LEMMA LeftIs ==
    ASSUME NEW h \in Heaps, NEW read
    PROVE  /\ Left(h, read) \in Heaps /\ Len(Left(h, read).mem) = Len(h.mem)
           /\ Left(h, read).roots = h.roots
           /\ \A a \in 1 .. Len(h.mem) : a \in read => Left(h, read).mem[a] = h.mem[a]
<1> DEFINE f == [a \in DOMAIN h.mem |-> IF a \in read THEN h.mem[a] ELSE Junk]
<1>1. DOMAIN h.mem = 1 .. Len(h.mem) /\ Len(h.mem) \in Nat
      /\ \A a \in 1 .. Len(h.mem) : h.mem[a] \in Cells
  BY HeapType
<1>2. f \in [1 .. Len(h.mem) -> Cells]
  <2>1. Junk \in Cells
    BY DEF Cells
  <2> QED BY <1>1, <2>1
<1>3. \A a \in 1 .. Len(h.mem) : a \in read => f[a] = h.mem[a]
  BY <1>1
<1>4. Left(h, read) = [mem |-> f, roots |-> h.roots]
  BY DEF Left
<1> HIDE DEF f
<1>5. f \in Seq(Cells) /\ Len(f) = Len(h.mem)
  BY <1>1, <1>2
<1> QED BY <1>3, <1>4, <1>5, HeapType DEF Heaps

(* The words of the client's blocks are not made junk.                     *)
LEMMA ReadWords ==
    ASSUME NEW h, NEW bs \in BlockMaps
    PROVE  \A id \in Live(bs) : \A k \in 1 .. bs[id].words :
              bs[id].first + k - 1 \in DOMAIN h.mem => bs[id].first + k - 1 \in Read(h, bs)
<1> SUFFICES ASSUME NEW id \in Live(bs), NEW k \in 1 .. bs[id].words,
                    bs[id].first + k - 1 \in DOMAIN h.mem
             PROVE  bs[id].first + k - 1 \in Read(h, bs)
  OBVIOUS
<1>1. bs[id].first \in Nat /\ bs[id].words \in Nat
  BY LiveBlocks
<1>2. bs[id].first + k - 1 \in bs[id].first .. bs[id].first + bs[id].words - 1
  BY <1>1
<1>3. id \in {i \in Ids : bs[i] # None}
  BY DEF Live
<1> QED BY <1>2, <1>3 DEF Read

(* A safe heap stays safe without the words that nobody reads.             *)
LEMMA LeftSafe ==
    ASSUME NEW h, NEW bs, Safe(h, bs)
    PROVE  Safe(Left(h, Read(h, bs)), bs)
<1> DEFINE g == Left(h, Read(h, bs))
<1>1. h \in Heaps /\ bs \in BlockMaps /\ DOMAIN h.mem = 1 .. Len(h.mem)
  BY HeapType DEF Safe
<1>2. /\ g \in Heaps /\ Len(g.mem) = Len(h.mem) /\ g.roots = h.roots
      /\ \A a \in 1 .. Len(h.mem) : a \in Read(h, bs) => g.mem[a] = h.mem[a]
  BY <1>1, LeftIs
<1> HIDE DEF g
<1>3. Intact(g, bs)
  BY <1>1, <1>2, ReadWords DEF Intact, Safe
<1> QED BY <1>2, <1>3 DEF Safe, g

(* What the code reads, and the client, is not junk.                        *)
LEMMA LeftOrder ==
    ASSUME NEW h, NEW bs, InOrder(h, bs), Len(h.mem) <= HeapWords
    PROVE  InOrder(Left(h, Read(h, bs)), bs)
<1> DEFINE R == Read(h, bs)
           g == Left(h, R)
<1>1. Sound(h, Held(bs)) /\ bs \in BlockMaps /\ h \in Heaps /\ Intact(h, bs)
  BY OrderSafe DEF Safe, InOrder
<1>2. DOMAIN h.mem = 1 .. Len(h.mem)
  BY <1>1, HeapType
<1>3. PICK B, D : Good(h, B, D) /\ Held(bs) = B \ D
  BY <1>1 DEF Sound
<1>4. Tagged(h, B, D) /\ D \subseteq B
  BY <1>3 DEF Good, Loose, Tagged
<1>5. {BlocksOf(h)[i] : i \in DOMAIN BlocksOf(h)} = B
  BY <1>4, BlocksEnumerate, Enumerated
<1>6. {p \in B : Alloc(h, p) = 0} = D
  <2>1. \A p \in B : Alloc(h, p) = IF p \in D THEN 0 ELSE 1
    BY <1>4 DEF Tagged
  <2>2. \A p \in B : Alloc(h, p) = 0 <=> p \in D
    BY <2>1
  <2> QED BY <1>4, <2>2
<1>7. B \subseteq R /\ Len(h.mem) \in R
      /\ \A p \in D : p + 1 \in R /\ Following(h, p) - 1 \in R
  BY <1>5, <1>6 DEF Read
<1>8. /\ g \in Heaps /\ Len(g.mem) = Len(h.mem) /\ g.roots = h.roots
      /\ \A a \in 1 .. Len(h.mem) : a \in R => g.mem[a] = h.mem[a]
  BY <1>1, LeftIs
<1> HIDE DEF g, R
<1>9. Rewrites(h, g, B, D)
  <2>1. Len(h.mem) \in 1 .. Len(h.mem) /\ \A p \in B : p \in 1 .. Len(h.mem)
    BY <1>4, LastTags, BlockFacts
  <2>2. ASSUME NEW p \in D
        PROVE  p + 1 \in 1 .. Len(h.mem) /\ Following(h, p) - 1 \in 1 .. Len(h.mem)
    <3>1. p \in Nat /\ Following(h, p) \in Nat /\ Following(h, p) <= Len(h.mem)
          /\ Len(h.mem) \in Nat /\ 1 <= p
      BY <1>4, BlockFacts
    <3>2. p + 3 <= Following(h, p)
      BY <1>4, FreeWords
    <3> QED BY <3>1, <3>2
  <2> QED BY <1>7, <1>8, <2>1, <2>2 DEF Rewrites
<1>10. Good(g, B, D) /\ \A p \in B : Size(g, p) = Size(h, p)
  BY <1>3, <1>9, RewritesGood
<1>11. Sound(g, Held(bs))
  BY <1>3, <1>10 DEF Sound
<1>12. ASSUME NEW id \in Live(bs) PROVE Holds(g, id, bs[id])
  <2>1. Holds(h, id, bs[id])
    BY DEF InOrder
  <2>2. bs[id].first - 1 \in B
    <3>1. bs[id].first - 1 \in Held(bs)
      BY DEF Held
    <3> QED BY <1>3, <3>1
  <2>3. Size(g, bs[id].first - 1) = Size(h, bs[id].first - 1)
    BY <1>10, <2>2
  <2>4. ASSUME NEW k \in 1 .. bs[id].words
        PROVE  g.mem[bs[id].first + k - 1] = Data(id, k)
    <3>1. bs[id].first + k - 1 \in 1 .. Len(h.mem) /\ h.mem[bs[id].first + k - 1] = Data(id, k)
      BY <1>1 DEF Intact
    <3>2. bs[id].first + k - 1 \in R
      BY <1>1, <1>2, <3>1, ReadWords DEF R
    <3> QED BY <1>8, <3>1, <3>2
  <2> QED BY <2>1, <2>3, <2>4 DEF Holds
<1> QED BY <1>11, <1>12 DEF InOrder, g, R

(* What a call leaves in the variables: the heap without the words that no *)
(* code reads before it writes them.                                       *)
LEMMA BecomesIs ==
    ASSUME NEW h, NEW bs, Becomes(h, bs)
    PROVE  heap' = Left(h, Read(h, bs)) /\ block' = bs
BY DEF Becomes, heap, Left

(* A call that leaves a safe heap leaves one without those words, too.     *)
LEMMA BecomesSafe ==
    ASSUME NEW h, NEW bs, Becomes(h, bs), Safe(h, bs)
    PROVE  Safe(heap', block') /\ Len(heap'.mem) = Len(h.mem)
BY BecomesIs, LeftSafe, LeftIs DEF Safe

(* A heap in order stays in order without the words that nobody reads: they*)
(* are the inside of free blocks and the slack of allocated ones.          *)
LEMMA BecomesOrder ==
    ASSUME NEW h, NEW bs, Becomes(h, bs), InOrder(h, bs), Len(h.mem) <= HeapWords
    PROVE  /\ Safe(heap', block') /\ InOrder(heap', block')
           /\ Len(heap'.mem) = Len(h.mem)
<1>1. Safe(h, bs)
  BY OrderSafe
<1>2. InOrder(Left(h, Read(h, bs)), bs)
  BY LeftOrder
<1> QED BY <1>1, <1>2, BecomesIs, BecomesSafe

-----------------------------------------------------------------------------
(* One block of the client changes.                                        *)

(* The blocks that the client holds are that of id and the others.         *)
LEMMA OthersHeld ==
    ASSUME NEW bs, NEW id \in Ids
    PROVE  /\ Others(bs, id) \subseteq Held(bs)
           /\ \A o \in Live(bs) : o # id => bs[o].first - 1 \in Others(bs, id)
           /\ id \notin Live(bs) => Others(bs, id) = Held(bs)
           /\ id \in Live(bs) => Held(bs) = Others(bs, id) \cup {bs[id].first - 1}
BY DEF Others, Held

(* The other blocks of a client are not at the address of one of its.       *)
LEMMA OthersApart ==
    ASSUME NEW h, NEW bs, InOrder(h, bs), NEW id \in Live(bs)
    PROVE  /\ Held(bs) \ {bs[id].first - 1} = Others(bs, id)
           /\ bs[id].first - 1 \in Held(bs) /\ bs[id].first - 1 # 1
           /\ bs[id].first - 1 \notin Others(bs, id)
<1>1. bs \in BlockMaps /\ id \in Ids
  BY DEF InOrder, Live
<1>2. bs[id].first - 1 # 1
  BY DEF InOrder, Holds
<1>3. ASSUME NEW o \in Live(bs), o # id PROVE bs[o].first - 1 # bs[id].first - 1
  <2>1. bs[o].first # bs[id].first
    BY <1>3 DEF InOrder
  <2>2. bs[o].first \in Nat /\ bs[id].first \in Nat
    BY <1>1, LiveBlocks
  <2> QED BY <2>1, <2>2
<1>4. bs[id].first - 1 \notin Others(bs, id)
  BY <1>2, <1>3 DEF Others
<1> QED BY <1>1, <1>2, <1>4, OthersHeld

(* What holds of a block holds in another heap that has it as it was.       *)
LEMMA HoldsStill ==
    ASSUME NEW h, NEW U, Sound(h, U), NEW g, NEW T, Keeps(h, g, T), T \subseteq U,
           NEW id, NEW b, Holds(h, id, b), b.first - 1 \in T
    PROVE  Holds(g, id, b)
<1> DEFINE p == b.first - 1
<1>1. p \in Nat /\ Following(h, p) \in Nat /\ Size(h, p) = Following(h, p) - p
  BY SoundBlocks
<1>2. b.first \in Nat /\ b.words \in Nat /\ b.words < Size(h, p)
  BY DEF Holds, BlockRecords
<1>3. Size(g, p) = Size(h, p) /\ \A a \in p + 1 .. Following(h, p) - 1 : g.mem[a] = h.mem[a]
  BY DEF Keeps
<1>4. ASSUME NEW k \in 1 .. b.words PROVE g.mem[b.first + k - 1] = Data(id, k)
  <2>1. b.first + k - 1 \in p + 1 .. Following(h, p) - 1
    BY <1>1, <1>2
  <2> QED BY <1>3, <2>1 DEF Holds
<1> QED BY <1>3, <1>4 DEF Holds

(* A block for id in the place of what it had.                              *)
Placed(h, g, bs, id, p, w) ==
    /\ Sound(g, Others(bs, id) \cup {p}) /\ p \notin Others(bs, id)
    /\ p \in Nat /\ Keeps(h, g, Others(bs, id))
    /\ w \in Nat \ {0} /\ w < Size(g, p)
    /\ \A j \in 1 .. w : g.mem[p + j] = Data(id, j)

(* The client's blocks with another one for id.                            *)
LEMMA PlacedOrder ==
    ASSUME NEW h, NEW bs, InOrder(h, bs), NEW id \in Ids,
           NEW g, NEW p, NEW w, Placed(h, g, bs, id, p, w)
    PROVE  InOrder(g, [bs EXCEPT ![id] = [first |-> p + 1, words |-> w]])
<1> DEFINE b == [first |-> p + 1, words |-> w]
           cs == [bs EXCEPT ![id] = b]
<1>1. bs \in BlockMaps /\ Sound(h, Held(bs))
  BY DEF InOrder
<1>2. p \in Nat /\ w \in Nat \ {0}
  BY DEF Placed
<1>3. b.first = p + 1 /\ b.words = w /\ b \in BlockRecords /\ b.first - 1 = p
  BY <1>2 DEF BlockRecords
<1>4. b # None
  <2>1. None \notin [first : Nat, words : Nat]
    BY SizesAssumption, Zenon
  <2>2. b \in [first : Nat, words : Nat]
    BY <1>2
  <2> QED BY <2>1, <2>2
<1> HIDE DEF b
<1>5. cs[id] = b /\ \A o \in Ids : o # id => cs[o] = bs[o]
  BY <1>1 DEF BlockMaps
<1>6. cs \in BlockMaps
  BY <1>1, <1>3 DEF BlockMaps
<1> HIDE DEF cs
<1>7. id \in Live(cs) /\ Live(cs) \ {id} = Live(bs) \ {id}
  BY <1>4, <1>5 DEF Live
<1>8. \A o \in Live(cs) \ {id} : cs[o] = bs[o] /\ o \in Live(bs)
  BY <1>5, <1>7 DEF Live
<1>9. Others(cs, id) = Others(bs, id)
  BY <1>7, <1>8 DEF Others
<1>10. Held(cs) = Others(bs, id) \cup {p}
  BY <1>3, <1>5, <1>7, <1>9, OthersHeld
<1>11. Sound(g, Held(cs))
  BY <1>10 DEF Placed
<1>12. ASSUME NEW o \in Live(cs), o # id
       PROVE  Holds(g, o, cs[o]) /\ cs[o].first # b.first
  <2>1. cs[o] = bs[o] /\ o \in Live(bs)
    BY <1>8, <1>12
  <2>2. Holds(h, o, bs[o])
    BY <2>1 DEF InOrder
  <2>3. bs[o].first - 1 \in Others(bs, id)
    BY <1>12, <2>1, OthersHeld
  <2>4. Keeps(h, g, Others(bs, id)) /\ Others(bs, id) \subseteq Held(bs)
    BY OthersHeld DEF Placed
  <2>5. Holds(g, o, bs[o])
    BY <1>1, <2>2, <2>3, <2>4, HoldsStill
  <2>6. bs[o].first - 1 # p
    BY <2>3 DEF Placed
  <2> QED BY <1>3, <2>1, <2>5, <2>6
<1>13. Holds(g, id, cs[id])
  <2>1. p # 1
    BY DEF Placed, Others
  <2>2. ASSUME NEW k \in 1 .. b.words PROVE g.mem[b.first + k - 1] = Data(id, k)
    <3>1. b.first + k - 1 = p + k /\ k \in 1 .. w
      BY <1>2, <1>3
    <3> QED BY <3>1 DEF Placed
  <2>3. w < Size(g, p)
    BY DEF Placed
  <2> QED BY <1>3, <1>5, <2>1, <2>2, <2>3 DEF Holds
<1>14. \A o \in Live(cs) : Holds(g, o, cs[o])
  BY <1>12, <1>13
<1>15. ASSUME NEW i \in Live(cs), NEW o \in Live(cs), cs[i].first = cs[o].first
       PROVE  i = o
  <2>1. ASSUME i # id, o # id PROVE i = o
    BY <1>8, <1>15, <2>1 DEF InOrder
  <2>2. ASSUME i = id, o # id PROVE FALSE
    BY <1>5, <1>12, <1>15, <2>2
  <2>3. ASSUME o = id, i # id PROVE FALSE
    BY <1>5, <1>12, <1>15, <2>3
  <2> QED BY <2>1, <2>2, <2>3
<1> QED BY <1>6, <1>11, <1>14, <1>15 DEF InOrder, cs, b

(* The block of id is given back.                                           *)
LEMMA DroppedOrder ==
    ASSUME NEW h, NEW bs, InOrder(h, bs), NEW id \in Live(bs),
           NEW g, Sound(g, Others(bs, id)), Keeps(h, g, Others(bs, id))
    PROVE  InOrder(g, [bs EXCEPT ![id] = None])
<1> DEFINE cs == [bs EXCEPT ![id] = None]
<1>1. bs \in BlockMaps /\ Sound(h, Held(bs)) /\ id \in Ids
  BY DEF InOrder, Live
<1>2. cs[id] = None /\ \A o \in Ids : o # id => cs[o] = bs[o]
  BY <1>1 DEF BlockMaps
<1>3. cs \in BlockMaps
  BY <1>1 DEF BlockMaps
<1> HIDE DEF cs
<1>4. Live(cs) = Live(bs) \ {id} /\ id \notin Live(cs)
  BY <1>2 DEF Live
<1>5. \A o \in Live(cs) : cs[o] = bs[o] /\ o \in Live(bs) /\ o # id
  BY <1>2, <1>4 DEF Live
<1>6. Held(cs) = Others(bs, id)
  BY <1>4, <1>5 DEF Held, Others
<1>7. ASSUME NEW o \in Live(cs) PROVE Holds(g, o, cs[o])
  <2>1. cs[o] = bs[o] /\ o \in Live(bs) /\ o # id
    BY <1>5
  <2>2. Holds(h, o, bs[o])
    BY <2>1 DEF InOrder
  <2>3. bs[o].first - 1 \in Others(bs, id) /\ Others(bs, id) \subseteq Held(bs)
    BY <1>1, <2>1, OthersHeld
  <2>4. Holds(g, o, bs[o])
    BY <1>1, <2>2, <2>3, HoldsStill
  <2> QED BY <2>1, <2>4
<1>8. \A i, o \in Live(cs) : cs[i].first = cs[o].first => i = o
  BY <1>5 DEF InOrder
<1> QED BY <1>3, <1>6, <1>7, <1>8 DEF InOrder, cs

-----------------------------------------------------------------------------
(* A block that mm_malloc gave, and one that mm_realloc resized.            *)

(* The client has a block at p, of w words, which it has filled.           *)
Full(h, g, bs, id, p, w) ==
    InOrder(g, [bs EXCEPT ![id] = [first |-> p + 1, words |-> w]])
        /\ Len(g.mem) = Len(h.mem)

(* A block that mm_malloc gave, filled by the client, is one of its blocks.*)
LEMMA GivenOrder ==
    ASSUME NEW h, NEW bs, InOrder(h, bs), NEW id \in Ids, id \notin Live(bs),
           NEW w \in Nat, w > 0, NEW r, Handed(h, r, Held(bs), w + 1)
    PROVE  Full(r.h, Fill(r.h, id, [first |-> r.p + 1, words |-> w], 1), bs, id, r.p, w)
<1> DEFINE g == Fill(r.h, id, [first |-> r.p + 1, words |-> w], 1)
           U == Held(bs) \cup {r.p}
<1>1. Others(bs, id) = Held(bs)
  BY OthersHeld
<1>2. /\ Sound(r.h, U) /\ Keeps(h, r.h, Held(bs))
      /\ r.p \notin Held(bs) /\ r.p \in Nat /\ Size(r.h, r.p) >= w + 1
  BY DEF Handed
<1>3. r.h \in Heaps
  BY <1>2, SoundBlocks
<1>4. w < Size(r.h, r.p)
  <2>1. Size(r.h, r.p) \in Int
    BY <1>3, TagsType
  <2> QED BY <1>2, <2>1
<1>5. Filled(r.h, g, U, r.p, id, w, 1)
  BY <1>2, <1>4, FillSound
<1> HIDE DEF g
<1>6. /\ Sound(g, U) /\ Keeps(r.h, g, U \ {r.p}) /\ Size(g, r.p) = Size(r.h, r.p)
      /\ Len(g.mem) = Len(r.h.mem)
  BY <1>5 DEF Filled
<1>7. U \ {r.p} = Held(bs)
  BY <1>2
<1>8. Keeps(h, g, Held(bs))
  BY <1>2, <1>6, <1>7, KeepsThen
<1>9. \A j \in 1 .. w : g.mem[r.p + j] = Data(id, j)
  BY <1>5 DEF Filled
<1>10. Placed(h, g, bs, id, r.p, w)
  BY <1>1, <1>2, <1>4, <1>6, <1>8, <1>9 DEF Placed
<1>11. InOrder(g, [bs EXCEPT ![id] = [first |-> r.p + 1, words |-> w]])
  BY <1>10, PlacedOrder
<1> QED BY <1>6, <1>11 DEF Full, g

(* A block that mm_realloc resized, filled where it grew, is one of the    *)
(* client's blocks, and the words it had are those the client wrote.       *)
LEMMA ResizedOrder ==
    ASSUME NEW h, NEW bs, InOrder(h, bs), NEW id \in Live(bs),
           NEW w \in Nat, w > 0, NEW r,
           Carried(h, r, Held(bs), bs[id].first - 1, w + 1)
    PROVE  Full(r.h, Fill(r.h, id, [first |-> r.p + 1, words |-> w], bs[id].words + 1),
                bs, id, r.p, w)
<1> DEFINE k == bs[id].words + 1
           g == Fill(r.h, id, [first |-> r.p + 1, words |-> w], k)
           T == Others(bs, id)
           U == T \cup {r.p}
           p == bs[id].first - 1
<1>1. id \in Ids /\ bs \in BlockMaps /\ Held(bs) \ {p} = T
  BY OthersApart DEF InOrder, Live
<1>2. bs[id].words \in Nat /\ bs[id].first \in Nat /\ k \in Nat /\ k >= 1
  <2>1. bs[id].words \in Nat /\ bs[id].first \in Nat
    BY <1>1, LiveBlocks
  <2>2. k \in Nat /\ k >= 1
    BY <2>1
  <2> QED BY <2>1, <2>2
<1>3. /\ Sound(r.h, U) /\ Keeps(h, r.h, T)
      /\ r.p \notin T /\ r.p \in Nat /\ Size(r.h, r.p) >= w + 1
      /\ \A j \in 1 .. Size(h, p) - 1 : r.h.mem[r.p + j] = h.mem[p + j]
  BY <1>1 DEF Carried
<1>4. r.h \in Heaps
  BY <1>3, SoundBlocks
<1>5. w < Size(r.h, r.p)
  <2>1. Size(r.h, r.p) \in Int
    BY <1>4, TagsType
  <2> QED BY <1>3, <2>1
<1> HIDE DEF k
<1>6. Filled(r.h, g, U, r.p, id, w, k)
  BY <1>1, <1>2, <1>3, <1>5, FillSound
<1> HIDE DEF g
<1>7. /\ Sound(g, U) /\ Keeps(r.h, g, U \ {r.p}) /\ Size(g, r.p) = Size(r.h, r.p)
      /\ Len(g.mem) = Len(r.h.mem)
      /\ \A j \in 1 .. w : g.mem[r.p + j] = IF j < k THEN r.h.mem[r.p + j] ELSE Data(id, j)
  BY <1>6 DEF Filled
<1>8. U \ {r.p} = T
  BY <1>3
<1>9. Keeps(h, g, T)
  <2>1. Keeps(r.h, g, T)
    BY <1>7, <1>8
  <2>2. Keeps(h, r.h, T)
    BY <1>3
  <2> HIDE DEF T
  <2> QED BY <2>1, <2>2, KeepsThen
<1>10. Holds(h, id, bs[id])
  BY DEF InOrder
<1>11. ASSUME NEW j \in 1 .. w PROVE g.mem[r.p + j] = Data(id, j)
  <2>1. CASE j < k
    <3>1. j \in 1 .. bs[id].words /\ bs[id].first + j - 1 = p + j
      BY <1>2, <2>1 DEF k
    <3>2. h.mem[p + j] = Data(id, j)
      BY <1>10, <3>1 DEF Holds
    <3>3. Size(h, p) \in Nat /\ bs[id].words < Size(h, p)
      <4>1. p \in Held(bs) /\ Sound(h, Held(bs))
        BY OthersApart DEF InOrder
      <4>2. h \in Heaps
        BY <4>1, SoundBlocks
      <4>3. Size(h, p) \in Int
        BY <4>2, TagsType
      <4>4. bs[id].words < Size(h, p)
        BY <1>10 DEF Holds
      <4> QED BY <1>2, <4>3, <4>4
    <3>4. j \in 1 .. Size(h, p) - 1
      BY <1>2, <3>1, <3>3
    <3> QED BY <1>3, <1>7, <2>1, <3>2, <3>4
  <2>2. CASE ~(j < k)
    BY <1>7, <2>2
  <2> QED BY <2>1, <2>2
<1>12. Placed(h, g, bs, id, r.p, w)
  BY <1>3, <1>5, <1>7, <1>9, <1>11 DEF Placed
<1>13. InOrder(g, [bs EXCEPT ![id] = [first |-> r.p + 1, words |-> w]])
  BY <1>1, <1>12, PlacedOrder
<1> QED BY <1>7, <1>13 DEF Full, g, k
-----------------------------------------------------------------------------
(* The invariant of the allocator: whatever happens, the client's blocks   *)
(* hold what it wrote; and until a fault the heap is in order.             *)
Faults == {"none", "data coalesced", "null written"}

IInv ==
    /\ Safe(heap, block) /\ fault \in Faults
    /\ fault = "none" => InOrder(heap, block)

(* A step that makes the heap longer gives id a block that no free one      *)
(* would have done for.                                                    *)
Needed(id) ==
    /\ block'[id] \notin {None, block[id]}
    /\ \A B, D : Good(heap, B, D) => \A p \in D : Size(heap, p) <= block'[id].words

(* The heap is the words and the roots.                                    *)
LEMMA HeapIs == heap.mem = mem /\ heap.roots = roots
BY DEF heap

(* A request is a natural number.                                          *)
LEMMA RequestType ==
    ASSUME NEW size \in Sizes
    PROVE  size \in Nat
<1>1. Sizes \subseteq 0 .. 2 ^ 29
  BY SizesAssumption, Zenon
<1>2. \A n : \A i \in 0 .. n : i \in Nat
  OBVIOUS
<1>3. size \in 0 .. 2 ^ 29
  BY <1>1, Zenon
<1> QED BY <1>2, <1>3, Zenon

(* ALIGN of a request that is not 0 is not 0.                              *)
LEMMA Aligned ==
    ASSUME NEW size \in Nat, size > 0
    PROVE  Align(size) \in Nat /\ Align(size) > 0
BY PayloadFacts

(* A block's record is not None.                                           *)
LEMMA NoBlock ==
    ASSUME NEW first \in Nat, NEW words \in Nat
    PROVE  [first |-> first, words |-> words] # None
<1>1. None \notin [first : Nat, words : Nat]
  BY SizesAssumption, Zenon
<1> QED BY <1>1

(* mm_malloc called by the client keeps the invariant, and the heap grows  *)
(* only for need.                                                          *)
LEMMA MallocStep ==
    ASSUME IInv, NEW id \in Ids, NEW size \in Sizes, Malloc(id, size)
    PROVE  IInv' /\ (Len(heap'.mem) # Len(heap.mem) => Needed(id))
<1>1. fault = "none" /\ fault' = "none" /\ id \notin Live(block)
  BY DEF Malloc, Live
<1>2. InOrder(heap, block) /\ Safe(heap, block)
  BY <1>1 DEF IInv
<1> DEFINE r == MmMalloc(heap, size)
           w == Align(size)
           g == Fill(r.h, id, Words(r.p, size), 1)
           bs == [block EXCEPT ![id] = Words(r.p, size)]
<1>3. CASE size = 0 \/ r.p = NULL
  <2>1. UNCHANGED <<mem, roots, block>>
    BY <1>3 DEF Malloc
  <2>2. heap' = heap
    BY <2>1 DEF heap
  <2> QED BY <1>1, <1>2, <2>1, <2>2 DEF IInv, Faults
<1>4. CASE size # 0 /\ r.p # NULL
  <2>1. Becomes(g, bs)
    BY <1>4 DEF Malloc
  <2>2. size \in Nat /\ size > 0
    BY <1>4, RequestType
  <2>3. w \in Nat /\ w > 0
    BY <2>2, Aligned
  <2>4. Sound(heap, Held(block))
    BY <1>2 DEF InOrder
  <2>5. /\ Handed(heap, r, Held(block), w + 1)
        /\ Len(r.h.mem) = Len(heap.mem) \/ Len(r.h.mem) \in Len(heap.mem) .. HeapWords
    BY <1>4, <2>2, <2>4, MmMallocSound
  <2>6. Words(r.p, size) = [first |-> r.p + 1, words |-> w]
    BY DEF Words
  <2> HIDE DEF r, w
  <2>7. Full(r.h, g, block, id, r.p, w)
    BY <1>1, <1>2, <2>3, <2>5, <2>6, GivenOrder
  <2>8. Len(r.h.mem) <= HeapWords
    <3>1. Len(heap.mem) \in Nat
      BY <2>4, SoundBlocks
    <3>2. HeapWords \in Nat
      BY SizesAssumption, Zenon
    <3>3. Len(heap.mem) <= HeapWords
      BY <1>2 DEF Safe
    <3> QED BY <2>5, <3>1, <3>2, <3>3
  <2>9. InOrder(g, bs) /\ Len(g.mem) <= HeapWords
    BY <2>6, <2>7, <2>8 DEF Full
  <2> HIDE DEF g, bs
  <2>10. Safe(heap', block') /\ InOrder(heap', block') /\ Len(heap'.mem) = Len(g.mem)
    BY <2>1, <2>9, BecomesOrder
  <2>11. ASSUME Len(heap'.mem) # Len(heap.mem) PROVE Needed(id)
    <3>1. Len(r.h.mem) # Len(heap.mem)
      BY <2>7, <2>10, <2>11 DEF Full
    <3>2. block'[id] = [first |-> r.p + 1, words |-> w]
      <4>1. block' = bs /\ block \in BlockMaps
        BY <1>2, <2>1 DEF Becomes, Safe
      <4> QED BY <2>6, <4>1 DEF bs, BlockMaps
    <3>3. block'[id] # None /\ block[id] = None /\ block'[id].words = w
      <4>1. r.p \in Nat
        BY <2>5 DEF Handed
      <4> QED BY <1>1, <2>3, <3>2, <4>1, NoBlock DEF Live
    <3>4. ASSUME NEW B, NEW D, Good(heap, B, D), NEW p \in D
          PROVE  Size(heap, p) <= w
      BY <1>4, <2>2, <3>1, <3>4, MmMallocGrows DEF r, w
    <3> QED BY <3>3, <3>4 DEF Needed
  <2> QED BY <1>1, <2>10, <2>11 DEF IInv, Faults
<1> QED BY <1>3, <1>4

(* mm_free, or mm_realloc to 0, keeps the invariant and the length of the  *)
(* heap.                                                                   *)
LEMMA FreeStep ==
    ASSUME IInv, NEW id \in Ids, Free(id)
    PROVE  IInv' /\ Len(heap'.mem) = Len(heap.mem)
<1>1. fault = "none" /\ fault' = "none" /\ id \in Live(block)
  BY DEF Free, Live
<1>2. InOrder(heap, block) /\ Safe(heap, block)
  BY <1>1 DEF IInv
<1> DEFINE p == block[id].first - 1
           g == MmFree(heap, p)
           bs == [block EXCEPT ![id] = None]
<1>3. Becomes(g, bs)
  BY DEF Free
<1>4. Held(block) \ {p} = Others(block, id) /\ p \in Held(block) /\ p # 1
  BY <1>1, <1>2, OthersApart
<1>5. Sound(heap, Held(block)) /\ Len(heap.mem) <= HeapWords
  BY <1>2 DEF InOrder, Safe
<1> HIDE DEF p
<1>6. Stays(heap, g, Others(block, id))
  BY <1>4, <1>5, MmFreeSound
<1> HIDE DEF g
<1>7. InOrder(g, bs) /\ Len(g.mem) <= HeapWords
  BY <1>1, <1>2, <1>5, <1>6, DroppedOrder DEF Stays
<1> HIDE DEF bs
<1>8. Safe(heap', block') /\ InOrder(heap', block') /\ Len(heap'.mem) = Len(g.mem)
  BY <1>3, <1>7, BecomesOrder
<1> QED BY <1>1, <1>6, <1>8 DEF IInv, Faults, Stays

-----------------------------------------------------------------------------
(* A call of mm_realloc that leaves the client a resized block in a heap in*)
(* order.                                                                  *)
LEMMA ResizedStep ==
    ASSUME IInv, fault = "none", NEW id \in Live(block), NEW size \in Nat, size > 0,
           NEW h, NEW q, Resized(id, h, q, size), Len(h.mem) <= HeapWords,
           Carried(heap, [h |-> h, p |-> q], Held(block), block[id].first - 1, Align(size) + 1)
    PROVE  Safe(heap', block') /\ InOrder(heap', block') /\ Len(heap'.mem) = Len(h.mem)
<1>1. InOrder(heap, block)
  BY DEF IInv
<1> DEFINE w == Align(size)
           r == [h |-> h, p |-> q]
           g == Fill(h, id, Words(q, size), block[id].words + 1)
           bs == [block EXCEPT ![id] = Words(q, size)]
<1>2. Becomes(g, bs)
  BY DEF Resized
<1>3. w \in Nat /\ w > 0 /\ Words(q, size) = [first |-> q + 1, words |-> w]
  BY Aligned DEF Words
<1>4. r.h = h /\ r.p = q /\ Carried(heap, r, Held(block), block[id].first - 1, w + 1)
  OBVIOUS
<1> HIDE DEF r, w
<1>5. Full(h, g, block, id, q, w)
  <2>1. Full(r.h, Fill(r.h, id, [first |-> r.p + 1, words |-> w], block[id].words + 1),
             block, id, r.p, w)
    BY <1>1, <1>3, <1>4, ResizedOrder
  <2> QED BY <1>3, <1>4, <2>1
<1>6. InOrder(g, bs) /\ Len(g.mem) <= HeapWords /\ Len(g.mem) = Len(h.mem)
  BY <1>3, <1>5 DEF Full
<1> HIDE DEF g, bs
<1> QED BY <1>2, <1>6, BecomesOrder

(* A block that is large enough stays where it is.                          *)
LEMMA CarriedInPlace ==
    ASSUME NEW h, NEW U, Sound(h, U), NEW p \in U, NEW n, n <= Size(h, p)
    PROVE  Carried(h, [h |-> h, p |-> p], U, p, n)
<1>1. p \in Nat /\ p # 0 /\ h \in Heaps
  BY SoundBlocks
<1>2. Size(h, p) \in Int /\ (U \ {p}) \cup {p} = U
  BY <1>1, TagsType
<1>3. Keeps(h, h, U \ {p})
  BY DEF Keeps
<1> DEFINE r == [h |-> h, p |-> p]
<1>4. r.h = h /\ r.p = p
  OBVIOUS
<1> HIDE DEF r
<1>5. Carried(h, r, U, p, n)
  BY <1>1, <1>2, <1>3, <1>4 DEF Carried, NULL
<1> QED BY <1>5 DEF r

(* g is h with the words of a block from the k-th on as the client has them. *)
Written(h, g, id, p, w, k) ==
    /\ g \in Heaps /\ Len(g.mem) = Len(h.mem) /\ g.roots = h.roots
    /\ \A a \in 1 .. Len(h.mem) :
         g.mem[a] = IF a \in p + k .. p + w THEN Data(id, a - p) ELSE h.mem[a]

(* Which words the client writes.                                          *)
LEMMA FillIs ==
    ASSUME NEW h \in Heaps, NEW id \in Ids, NEW p \in Nat, NEW w \in Nat, NEW k \in Nat
    PROVE  Written(h, Fill(h, id, [first |-> p + 1, words |-> w], k), id, p, w, k)
<1> DEFINE b == [first |-> p + 1, words |-> w]
           f == [a \in DOMAIN h.mem |-> IF a \in b.first + k - 1 .. b.first + b.words - 1
                                        THEN Data(id, a - b.first + 1) ELSE h.mem[a]]
           g == Fill(h, id, b, k)
<1>1. g = [h EXCEPT !.mem = f]
  BY DEF Fill
<1>2. DOMAIN h.mem = 1 .. Len(h.mem) /\ \A a \in 1 .. Len(h.mem) : h.mem[a] \in Cells
  BY HeapType
<1>3. b.first = p + 1 /\ b.words = w
  OBVIOUS
<1> HIDE DEF b
<1>4. \A a \in 1 .. Len(h.mem) :
        f[a] = IF a \in p + k .. p + w THEN Data(id, a - p) ELSE h.mem[a]
  <2> TAKE a \in 1 .. Len(h.mem)
  <2>1. p + 1 + k - 1 = p + k /\ p + 1 + w - 1 = p + w /\ a - (p + 1) + 1 = a - p
    OBVIOUS
  <2> QED BY <1>2, <1>3, <2>1
<1>5. f \in [1 .. Len(h.mem) -> Cells]
  <2>1. \A i \in Int : Data(id, i) \in Cells
    BY DEF Cells, DataCells, Data
  <2>2. \A a \in 1 .. Len(h.mem) : f[a] \in Cells
    <3> TAKE a \in 1 .. Len(h.mem)
    <3>1. a - p \in Int
      OBVIOUS
    <3> HIDE DEF f
    <3> QED BY <1>2, <1>4, <2>1, <3>1
  <2> QED BY <1>2, <2>2
<1> HIDE DEF f, g
<1>6. g \in Heaps /\ g.mem = f /\ Len(g.mem) = Len(h.mem) /\ g.roots = h.roots
  BY <1>1, <1>5, MapIs
<1> QED BY <1>4, <1>6 DEF g, b, Written

(* What the shrinking that loses the tags changes: words of the block, and *)
(* the tags of the next.                                                   *)
Torn(h, g, p, s, m) ==
    /\ g \in Heaps /\ Len(g.mem) = Len(h.mem) /\ g.roots = h.roots
    /\ \A a \in 1 .. Len(h.mem) : a \in {p, m, s - 1, s} \/ g.mem[a] = h.mem[a]

(* mm_realloc, 517-528, when it shrinks a block: which words it writes.    *)
LEMMA TornIs ==
    ASSUME NEW h, NEW U, Sound(h, U), NEW p \in U,
           NEW m \in Nat, NEW n \in Nat, p + n = m, m + 3 <= Following(h, p), n > 0
    PROVE  Torn(h, PlaceFree(ChangeSize(h, p, n), m, Size(h, p) - n, 1),
                p, Following(h, p), m)
<1> DEFINE s == Following(h, p)
           k == ChangeSize(h, p, n)
           rest == Size(h, p) - n
           g == PlaceFree(k, m, rest, 1)
<1>1. /\ h \in Heaps /\ p \in Nat /\ p # 0 /\ s \in Nat /\ s <= Len(h.mem)
      /\ Size(h, p) = s - p /\ Len(h.mem) \in Nat
  BY SoundBlocks
<1>2. rest \in Nat /\ rest > 1 /\ m + rest = s /\ s \in 1 .. Len(h.mem)
      /\ p \in 1 .. Len(h.mem) /\ m \in 1 .. Len(h.mem) /\ m + rest - 1 = s - 1
  <2>1. rest = s - m /\ m + 3 <= s /\ p <= m
    BY <1>1
  <2> HIDE DEF rest, s
  <2>2. rest \in Nat /\ rest > 1 /\ m + rest = s /\ m + rest - 1 = s - 1
    BY <1>1, <2>1
  <2>3. s \in 1 .. Len(h.mem)
    BY <1>1, <2>1
  <2>4. p \in 1 .. Len(h.mem) /\ m \in 1 .. Len(h.mem)
    BY <1>1, <2>1
  <2> QED BY <2>2, <2>3, <2>4
<1>3. PrevAlloc(h, p) \in {0, 1} /\ Alloc(h, p) \in {0, 1}
  BY <1>1, TagsType
<1> HIDE DEF rest, s
<1>4. HeaderChange(h, k, p, n, PrevAlloc(h, p), Alloc(h, p))
  BY <1>1, <1>2, <1>3, WriteHeaderIs DEF ChangeSize
<1>5. Changes(h, k, {p}) /\ k.roots = h.roots /\ k \in Heaps /\ Len(k.mem) = Len(h.mem)
  BY <1>4 DEF HeaderChange, Changes
<1> HIDE DEF k
<1>6. PlacedFree(k, g, m, rest, 1)
  BY <1>2, <1>5, PlaceFreeIs
<1>7. Changes(k, g, {m, m + rest - 1, m + rest}) /\ g.roots = k.roots
  BY <1>6 DEF PlacedFree
<1> HIDE DEF g
<1>8. Torn(h, g, p, s, m)
  BY <1>2, <1>5, <1>7 DEF Changes, Torn
<1> QED BY <1>8 DEF g, s, k, rest

(* The words of the client outside the part that is given up stay.          *)
SafeToo(h, g, bs) == Safe(g, bs) /\ Len(g.mem) = Len(h.mem)

(* Even when that leaves two free blocks side by side or a free block in no*)
(* list, the client reads back what it wrote.                              *)
LEMMA TornSafe ==
    ASSUME NEW h, NEW bs, InOrder(h, bs), Len(h.mem) <= HeapWords, NEW id \in Live(bs),
           NEW w \in Nat, w > 0, NEW g,
           Torn(h, g, bs[id].first - 1, Following(h, bs[id].first - 1), bs[id].first + w),
           bs[id].first + w + 3 <= Following(h, bs[id].first - 1)
    PROVE  LET b == [first |-> bs[id].first, words |-> w]
           IN  SafeToo(h, Fill(g, id, b, bs[id].words + 1), [bs EXCEPT ![id] = b])
<1> DEFINE p == bs[id].first - 1
           b == [first |-> p + 1, words |-> w]
           cs == [bs EXCEPT ![id] = b]
           k == bs[id].words + 1
           f == Fill(g, id, b, k)
           s == Following(h, p)
           m == bs[id].first + w
<1>1. bs \in BlockMaps /\ id \in Ids /\ Sound(h, Held(bs)) /\ Safe(h, bs)
  BY OrderSafe DEF InOrder, Live
<1>2. bs[id].first \in Nat /\ bs[id].words \in Nat /\ p + 1 = bs[id].first
  BY <1>1, LiveBlocks
<1>3. p \in Held(bs) /\ p # 1 /\ p \notin Others(bs, id)
  BY OthersApart
<1>4. /\ h \in Heaps /\ p \in Nat /\ p # 0 /\ s \in Nat /\ s <= Len(h.mem)
      /\ Size(h, p) = s - p /\ Len(h.mem) \in Nat
  BY <1>1, <1>3, SoundBlocks
<1>5. g \in Heaps /\ Len(g.mem) = Len(h.mem) /\ g.roots = h.roots
      /\ \A a \in 1 .. Len(h.mem) : a \in {p, m, s - 1, s} \/ g.mem[a] = h.mem[a]
  BY DEF Torn
<1>6. b.first = p + 1 /\ b.words = w /\ b \in BlockRecords
  BY <1>4 DEF BlockRecords
<1>8. m = p + 1 + w /\ m + 3 <= s /\ k \in Nat /\ k = bs[id].words + 1
  BY <1>2
<1> HIDE DEF p, s, m, k
<1>7. /\ f \in Heaps /\ Len(f.mem) = Len(h.mem) /\ f.roots = h.roots
      /\ \A a \in 1 .. Len(h.mem) :
            f.mem[a] = IF a \in p + k .. p + w THEN Data(id, a - p) ELSE g.mem[a]
  <2>1. Written(g, f, id, p, w, k)
    BY <1>1, <1>4, <1>5, <1>8, FillIs
  <2> QED BY <1>5, <2>1 DEF Written
<1> HIDE DEF f, b
<1>9. Intact(h, bs)
  BY <1>1 DEF Safe
<1>10. cs[id] = b /\ cs \in BlockMaps /\ \A o \in Ids : o # id => cs[o] = bs[o]
  BY <1>1, <1>6 DEF BlockMaps
<1> HIDE DEF cs
<1>11. ASSUME NEW j \in 1 .. w
       PROVE  p + j \in 1 .. Len(h.mem) /\ f.mem[p + j] = Data(id, j)
  <2>1. p + j \in 1 .. Len(h.mem) /\ p + j \notin {p, m, s - 1, s} /\ (p + j) - p = j
        /\ (p + j \in p + k .. p + w <=> k <= j)
    <3>1. j \in Int /\ 1 <= j /\ j <= w
      OBVIOUS
    <3>2. p + j \in 1 .. Len(h.mem)
      BY <1>4, <1>8, <3>1
    <3>3. p + j # p /\ p + j # m /\ p + j # s - 1 /\ p + j # s
      BY <1>4, <1>8, <3>1
    <3>4. p + j \in p + k .. p + w <=> k <= j
      BY <1>4, <1>8, <3>1
    <3>5. (p + j) - p = j
      BY <1>4, <3>1
    <3> QED BY <3>2, <3>3, <3>4, <3>5
  <2>2. CASE k <= j
    BY <1>7, <2>1, <2>2
  <2>3. CASE ~(k <= j)
    <3>1. f.mem[p + j] = h.mem[p + j]
      BY <1>5, <1>7, <2>1, <2>3
    <3>2. j \in 1 .. bs[id].words /\ bs[id].first + j - 1 = p + j
      <4>1. j \in Int /\ 1 <= j /\ p \in Int
        BY <1>4
      <4>2. j < k
        BY <1>8, <2>3, <4>1
      <4>3. j <= bs[id].words
        BY <1>2, <1>8, <4>1, <4>2
      <4>4. j \in 1 .. bs[id].words
        BY <1>2, <4>1, <4>3
      <4>5. bs[id].first + j - 1 = p + j
        BY <1>2, <4>1
      <4> QED BY <4>4, <4>5
    <3>3. h.mem[p + j] = Data(id, j)
      BY <1>9, <3>2 DEF Intact
    <3> QED BY <2>1, <3>1, <3>3
  <2> QED BY <2>2, <2>3
<1>12. ASSUME NEW o \in Live(bs), o # id, NEW j \in 1 .. bs[o].words
       PROVE  /\ bs[o].first + j - 1 \in 1 .. Len(h.mem)
              /\ f.mem[bs[o].first + j - 1] = Data(o, j)
  <2> DEFINE q == bs[o].first - 1
             a == bs[o].first + j - 1
  <2>1. a \in 1 .. Len(h.mem) /\ h.mem[a] = Data(o, j)
    BY <1>9 DEF Intact
  <2>2. bs[o].first \in Nat /\ bs[o].words \in Nat
    BY <1>1, LiveBlocks
  <2>3. PICK B, D : Good(h, B, D) /\ Held(bs) = B \ D
    BY <1>1 DEF Sound
  <2>4. Tagged(h, B, D)
    BY <2>3 DEF Good, Loose
  <2>5. q \in Others(bs, id) /\ q \in Held(bs)
    BY <1>1, <1>12, OthersHeld
  <2>6. q \in B /\ p \in B /\ q # p
    BY <1>3, <2>3, <2>5
  <2>7. q \in Nat /\ Following(h, q) \in Nat /\ Size(h, q) = Following(h, q) - q
    BY <2>4, <2>6, BlockFacts
  <2>8. bs[o].words < Size(h, q)
    BY DEF InOrder, Holds
  <2>9. a = q + j /\ j \in Int /\ 1 <= j /\ j <= bs[o].words
    BY <2>2
  <2> HIDE DEF a, q
  <2>14. a \in q + 1 .. Following(h, q) - 1
    BY <2>2, <2>7, <2>8, <2>9
  <2>10. a \notin p .. s - 1 /\ a \notin B /\ a # Len(h.mem)
    BY <2>4, <2>6, <2>14, BodyWords DEF s
  <2>11. a # s
    BY <2>4, <2>6, <2>10, BlockFacts DEF s
  <2>12. a \notin {p, m, s - 1, s} /\ a \notin p + k .. p + w
    <3>1. a < p \/ a >= s
      BY <1>4, <2>1, <2>10
    <3>2. \A i \in {p, m, s - 1} \cup p + k .. p + w : i \in Int /\ p <= i /\ i < s
      <4>1. bs[id].words \in Nat
        BY <1>2
      <4>2. p <= m /\ m < s /\ s - 1 >= p /\ p < s
        BY <1>4, <1>8
      <4>3. \A i \in p + k .. p + w : i \in Int /\ p <= i /\ i < s
        BY <1>4, <1>8, <4>1
      <4> QED BY <1>4, <1>8, <4>2, <4>3
    <3> QED BY <1>4, <2>1, <2>11, <3>1, <3>2
  <2>13. f.mem[a] = h.mem[a]
    BY <1>5, <1>7, <2>1, <2>12
  <2> QED BY <2>1, <2>13 DEF a
<1>13. Intact(f, cs)
  <2> SUFFICES ASSUME NEW o \in Live(cs), NEW j \in 1 .. cs[o].words
               PROVE  /\ cs[o].first + j - 1 \in 1 .. Len(f.mem)
                      /\ f.mem[cs[o].first + j - 1] = Data(o, j)
    BY DEF Intact
  <2>1. CASE o = id
    <3>1. j \in 1 .. w /\ cs[o].first + j - 1 = p + j
      BY <1>4, <1>6, <1>10, <2>1
    <3> QED BY <1>7, <1>11, <2>1, <3>1
  <2>2. CASE o # id
    <3>1. cs[o] = bs[o] /\ o \in Live(bs)
      BY <1>10, <2>2 DEF Live
    <3> QED BY <1>7, <1>12, <2>2, <3>1
  <2> QED BY <2>1, <2>2
<1>14. Safe(f, cs)
  BY <1>1, <1>7, <1>10, <1>13 DEF Safe
<1> QED BY <1>2, <1>7, <1>14 DEF f, cs, b, p, k, SafeToo

-----------------------------------------------------------------------------
(* mm_realloc that shrinks a block in place keeps the invariant. What it   *)
(* releases is not coalesced: that is a fault, after which only the part of*)
(* the invariant that needs no tags is claimed.                            *)
LEMMA ReallocShrinkStep ==
    ASSUME IInv, NEW id \in Ids, NEW size \in Sizes, ReallocShrink(id, size)
    PROVE  IInv' /\ Len(heap'.mem) = Len(heap.mem)
<1> DEFINE p == block[id].first - 1
           w == Align(size)
           n == Need(size)
           rest == Size(heap, p) - n
<1>1. fault = "none" /\ id \in Live(block) /\ size > 0 /\ rest >= 0
  BY DEF ReallocShrink, Reallocs, Live
<1>2. InOrder(heap, block) /\ Safe(heap, block) /\ Len(heap.mem) <= HeapWords
  BY <1>1 DEF IInv, Safe
<1>3. size \in Nat /\ w \in Nat /\ w > 0 /\ n = w + 1
  BY <1>1, RequestType, Aligned DEF Need
<1>4. p \in Held(block) /\ Sound(heap, Held(block))
  BY <1>1, <1>2, OthersApart DEF InOrder
<1>5. /\ heap \in Heaps /\ p \in Nat /\ p # 0 /\ Following(heap, p) \in Nat
      /\ Size(heap, p) = Following(heap, p) - p
  BY <1>4, SoundBlocks
<1>6. block[id].first \in Nat /\ p + 1 = block[id].first
  BY <1>1, <1>2, LiveBlocks DEF Safe
<1>7. CASE rest >= MinBlock
  <2>1. /\ Resized(id, PlaceFree(ChangeSize(heap, p, n), p + n, rest, 1), p, size)
        /\ fault' = "data coalesced"
    BY <1>7 DEF ReallocShrink
  <2> DEFINE m == block[id].first + w
             g == PlaceFree(ChangeSize(heap, p, n), m, rest, 1)
             b == [first |-> block[id].first, words |-> w]
             f == Fill(g, id, b, block[id].words + 1)
             bs == [block EXCEPT ![id] = b]
  <2>2. p + n = m /\ Words(p, size) = b
    BY <1>3, <1>5, <1>6 DEF Words
  <2>3. Becomes(f, bs)
    BY <2>1, <2>2 DEF Resized
  <2>4. m + 3 <= Following(heap, p) /\ m \in Nat /\ n \in Nat /\ n > 0
    BY <1>3, <1>5, <1>6, <1>7 DEF MinBlock
  <2> HIDE DEF n
  <2>5. Torn(heap, g, p, Following(heap, p), m)
    BY <1>4, <1>5, <2>2, <2>4, TornIs
  <2> HIDE DEF g
  <2>6. Safe(f, bs) /\ Len(f.mem) = Len(heap.mem)
    <3>1. SafeToo(heap, f, bs)
      BY <1>1, <1>2, <1>3, <2>4, <2>5, TornSafe
    <3> QED BY <3>1 DEF SafeToo
  <2> HIDE DEF f, bs
  <2>7. Safe(heap', block') /\ Len(heap'.mem) = Len(f.mem)
    BY <2>3, <2>6, BecomesSafe
  <2> QED BY <2>1, <2>6, <2>7 DEF IInv, Faults
<1>8. CASE ~(rest >= MinBlock)
  <2>1. Resized(id, heap, p, size) /\ fault' = fault
    BY <1>8 DEF ReallocShrink
  <2>2. w + 1 <= Size(heap, p)
    BY <1>1, <1>3, <1>5
  <2>3. Carried(heap, [h |-> heap, p |-> p], Held(block), p, w + 1)
    BY <1>4, <2>2, CarriedInPlace
  <2>4. Safe(heap', block') /\ InOrder(heap', block') /\ Len(heap'.mem) = Len(heap.mem)
    BY <1>1, <1>2, <1>3, <2>1, <2>3, ResizedStep
  <2> QED BY <1>1, <2>1, <2>4 DEF IInv, Faults
<1> QED BY <1>7, <1>8

(* mm_realloc that takes the next free block keeps the invariant.          *)
LEMMA ReallocExtendStep ==
    ASSUME IInv, NEW id \in Ids, NEW size \in Sizes, ReallocExtend(id, size)
    PROVE  IInv' /\ Len(heap'.mem) = Len(heap.mem)
<1> DEFINE p == block[id].first - 1
           w == Align(size)
           need == Need(size)
           n == Following(heap, p)
           s == Following(heap, n)
           h == Remove(heap, n, Level(Size(heap, n) - 1))
           total == Size(heap, p) + Size(heap, n)
           rest == total - need
           prev == PrevAlloc(heap, p)
           U == Held(block)
<1>1. /\ fault = "none" /\ id \in Live(block) /\ size > 0
      /\ Size(heap, p) < need /\ Extensible(p, size) /\ fault' = fault
  BY DEF ReallocExtend, Reallocs, Live
<1>2. InOrder(heap, block) /\ Safe(heap, block) /\ Len(heap.mem) <= HeapWords
  BY <1>1 DEF IInv, Safe
<1>3. size \in Nat /\ w \in Nat /\ w > 0 /\ need = w + 1
  BY <1>1, RequestType, Aligned DEF Need
<1>4. p \in U /\ p # 1 /\ Sound(heap, U)
  BY <1>1, <1>2, OthersApart DEF InOrder
<1>5. /\ heap \in Heaps /\ p \in Nat /\ p # 0 /\ n \in Nat /\ p + 3 <= n
      /\ Size(heap, p) = n - p
  BY <1>4, SoundBlocks
<1>6. Alloc(heap, n) = 0 /\ total >= need
  BY <1>1 DEF Extensible
<1>7. /\ \E B, X : Spanned(heap, h, U, B, X, p, s)
      /\ total = s - p /\ s \in Nat /\ n < s
  <2> HIDE DEF p, U
  <2> QED BY <1>4, <1>6, Absorb
<1>8. PICK B, X : Spanned(heap, h, U, B, X, p, s)
  BY <1>7
<1>9. CopyWords(p, size) = Size(heap, p) - 1
  BY <1>1, <1>3, <1>5 DEF CopyWords, Smaller
<1>10. rest = (s - p) - need /\ rest \in Nat
  BY <1>3, <1>5, <1>6, <1>7
<1> DEFINE tail == PlaceFree(
                      PlaceAlloc(Move(h, p + rest + 1, p + 1, CopyWords(p, size)),
                                 p + rest, need, 0),
                      p, rest, prev)
           front == PlaceFree(PlaceAlloc(h, p, need, prev), p + need, rest, 1)
<1>11. CASE rest < MinBlock
  <2> DEFINE g == PlaceAlloc(h, p, total, prev)
  <2>1. Resized(id, g, p, size)
    BY <1>11 DEF ReallocExtend
  <2>2. g = PlaceAlloc(h, p, s - p, prev)
    BY <1>7
  <2>3. Size(heap, p) < s - p
    BY <1>5, <1>7
  <2> HIDE DEF p, U, h, s, w, need, total, rest
  <2>4. Carried(heap, [h |-> PlaceAlloc(h, p, s - p, prev), p |-> p], U, p, s - p)
        /\ Len(PlaceAlloc(h, p, s - p, prev).mem) = Len(heap.mem)
    BY <1>4, <1>7, <1>8, <2>3, WholeSound
  <2>5. Carried(heap, [h |-> g, p |-> p], U, p, s - p) /\ Len(g.mem) = Len(heap.mem)
    BY <2>2, <2>4
  <2> HIDE DEF g
  <2>6. Carried(heap, [h |-> g, p |-> p], U, p, w + 1)
    <3> DEFINE r == [h |-> g, p |-> p]
    <3>1. r.h = g /\ r.p = p /\ Carried(heap, r, U, p, s - p)
      BY <2>5
    <3> HIDE DEF r
    <3>2. w + 1 <= s - p
      BY <1>3, <1>5, <1>7, <1>10
    <3>3. Size(g, p) \in Int
      <4>1. g \in Heaps
        BY <3>1, SoundBlocks DEF Carried
      <4> QED BY <4>1, TagsType
    <3>4. Size(g, p) >= w + 1
      <4>1. Size(g, p) >= s - p
        BY <3>1 DEF Carried
      <4> QED BY <1>3, <1>5, <1>7, <3>2, <3>3, <4>1
    <3>5. Carried(heap, r, U, p, w + 1)
      BY <3>1, <3>4 DEF Carried
    <3> QED BY <3>5 DEF r
  <2>7. Safe(heap', block') /\ InOrder(heap', block') /\ Len(heap'.mem) = Len(heap.mem)
    BY <1>1, <1>2, <1>3, <2>1, <2>5, <2>6, ResizedStep DEF p, U, w
  <2> QED BY <1>1, <2>7 DEF IInv, Faults
<1>12. CASE ~(rest < MinBlock) /\ size > 8 * TailWords
  <2> DEFINE m == p + rest
             g == Coalesce(tail, p)
  <2>1. Resized(id, g, m, size)
    BY <1>12 DEF ReallocExtend
  <2>2. m \in Nat /\ p + 3 <= m /\ s - m = need /\ m - p = rest
    BY <1>3, <1>5, <1>7, <1>10, <1>12 DEF MinBlock
  <2>3. tail = TailTaken(h, p, m, s, Size(heap, p) - 1, prev)
    BY <1>9, <2>2 DEF TailTaken
  <2>4. Size(heap, p) < s - m
    BY <1>1, <2>2
  <2> HIDE DEF p, U, h, s, w, need, total, rest, m, tail
  <2>5. /\ Carried(heap, [h |-> Coalesce(TailTaken(h, p, m, s, Size(heap, p) - 1, prev), p),
                          p |-> m], U, p, s - m)
        /\ Len(Coalesce(TailTaken(h, p, m, s, Size(heap, p) - 1, prev), p).mem) = Len(heap.mem)
    BY <1>4, <1>7, <1>8, <2>2, <2>4, TailSound
  <2>6. Carried(heap, [h |-> g, p |-> m], U, p, w + 1) /\ Len(g.mem) = Len(heap.mem)
    BY <1>3, <2>2, <2>3, <2>5
  <2> HIDE DEF g
  <2>7. Safe(heap', block') /\ InOrder(heap', block') /\ Len(heap'.mem) = Len(heap.mem)
    BY <1>1, <1>2, <1>3, <2>1, <2>6, ResizedStep DEF p, U, w
  <2> QED BY <1>1, <2>7 DEF IInv, Faults
<1>13. CASE ~(rest < MinBlock) /\ ~(size > 8 * TailWords)
  <2> DEFINE m == p + need
             g == Coalesce(front, m)
  <2>1. Resized(id, g, p, size)
    BY <1>13 DEF ReallocExtend
  <2>2. m \in Nat /\ m + 3 <= s /\ m - p = need /\ s - m = rest
    BY <1>3, <1>5, <1>7, <1>10, <1>13 DEF MinBlock
  <2>3. front = FrontTaken(h, p, m, s, prev)
    BY <2>2 DEF FrontTaken
  <2>4. Size(heap, p) < m - p
    BY <1>1, <2>2
  <2> HIDE DEF p, U, h, s, w, need, total, rest, m, front
  <2>5. /\ Carried(heap, [h |-> Coalesce(FrontTaken(h, p, m, s, prev), m), p |-> p],
                   U, p, m - p)
        /\ Len(Coalesce(FrontTaken(h, p, m, s, prev), m).mem) = Len(heap.mem)
    BY <1>4, <1>7, <1>8, <2>2, <2>4, FrontSound
  <2>6. Carried(heap, [h |-> g, p |-> p], U, p, w + 1) /\ Len(g.mem) = Len(heap.mem)
    BY <1>3, <2>2, <2>3, <2>5
  <2> HIDE DEF g
  <2>7. Safe(heap', block') /\ InOrder(heap', block') /\ Len(heap'.mem) = Len(heap.mem)
    BY <1>1, <1>2, <1>3, <2>1, <2>6, ResizedStep DEF p, U, w
  <2> QED BY <1>1, <2>7 DEF IInv, Faults
<1> QED BY <1>11, <1>12, <1>13

(* mm_realloc that copies to a new block and frees the old one keeps the   *)
(* invariant; the heap grows only for need. When mm_malloc returns NULL,   *)
(* line 568 writes through it: the client has lost nothing yet.            *)
LEMMA ReallocMoveStep ==
    ASSUME IInv, NEW id \in Ids, NEW size \in Sizes, ReallocMove(id, size)
    PROVE  IInv' /\ (Len(heap'.mem) # Len(heap.mem) => Needed(id))
<1> DEFINE p == block[id].first - 1
           w == Align(size)
           r == MmMalloc(heap, size)
           U == Held(block)
<1>1. /\ fault = "none" /\ id \in Live(block) /\ size > 0
      /\ Size(heap, p) < Need(size)
  BY DEF ReallocMove, Reallocs, Live
<1>2. InOrder(heap, block) /\ Safe(heap, block) /\ Len(heap.mem) <= HeapWords
  BY <1>1 DEF IInv, Safe
<1>3. size \in Nat /\ w \in Nat /\ w > 0 /\ Need(size) = w + 1
  BY <1>1, RequestType, Aligned DEF Need
<1>4. p \in U /\ p # 1 /\ Sound(heap, U)
  BY <1>1, <1>2, OthersApart DEF InOrder
<1>5. CASE r.p = NULL
  <2>1. fault' = "null written" /\ UNCHANGED <<mem, roots, block>>
    BY <1>5 DEF ReallocMove
  <2>2. heap' = heap
    BY <2>1 DEF heap
  <2> QED BY <1>2, <2>1, <2>2 DEF IInv, Faults
<1>6. CASE r.p # NULL
  <2> DEFINE c == CopyWords(p, size)
             g == MmFree(Move(r.h, r.p + 1, p + 1, c), p)
  <2>1. Resized(id, g, r.p, size) /\ fault' = fault
    BY <1>6 DEF ReallocMove, FreeOld
  <2>2. c = Size(heap, p) - 1
    <3>1. heap \in Heaps
      BY <1>4, SoundBlocks
    <3>2. Size(heap, p) \in Int
      BY <3>1, TagsType
    <3> QED BY <1>1, <1>3, <3>2 DEF CopyWords, Smaller
  <2>3. /\ Handed(heap, r, U, w + 1)
        /\ Len(r.h.mem) = Len(heap.mem) \/ Len(r.h.mem) \in Len(heap.mem) .. HeapWords
    BY <1>1, <1>3, <1>4, <1>6, MmMallocSound
  <2>4. w + 1 > Size(heap, p) /\ w + 1 \in Nat
    BY <1>1, <1>3, <1>4, SoundBlocks
  <2> HIDE DEF r, w, p, U, c
  <2>5. /\ Carried(heap, [h |-> MmFree(Move(r.h, r.p + 1, p + 1, Size(heap, p) - 1), p),
                          p |-> r.p], U, p, w + 1)
        /\ Len(MmFree(Move(r.h, r.p + 1, p + 1, Size(heap, p) - 1), p).mem) = Len(r.h.mem)
    BY <1>4, <2>3, <2>4, MoveSound
  <2>6. Carried(heap, [h |-> g, p |-> r.p], U, p, w + 1) /\ Len(g.mem) = Len(r.h.mem)
    BY <2>2, <2>5
  <2>7. Len(g.mem) <= HeapWords
    <3>1. Len(heap.mem) \in Nat /\ HeapWords \in Nat
      BY <1>4, SoundBlocks, SizesAssumption, Zenon
    <3> QED BY <1>2, <2>3, <2>6, <3>1
  <2> HIDE DEF g
  <2>8. Safe(heap', block') /\ InOrder(heap', block') /\ Len(heap'.mem) = Len(g.mem)
    BY <1>1, <1>3, <2>1, <2>6, <2>7, ResizedStep DEF p, U, w
  <2>9. ASSUME Len(heap'.mem) # Len(heap.mem) PROVE Needed(id)
    <3>1. Len(r.h.mem) # Len(heap.mem)
      BY <2>6, <2>8, <2>9
    <3>2. block'[id] = [first |-> r.p + 1, words |-> w]
      <4>1. block' = [block EXCEPT ![id] = Words(r.p, size)] /\ block \in BlockMaps
        BY <1>2, <2>1 DEF Resized, Becomes, Safe
      <4> QED BY <4>1 DEF BlockMaps, Words, w
    <3>3. r.p \in Nat /\ r.p # p
      BY <1>4, <2>3 DEF Handed
    <3>4. block[id].first = p + 1 /\ p \in Nat
      <4>1. block[id].first \in Nat
        BY <1>1, <1>2, LiveBlocks DEF Safe
      <4> QED BY <1>4, <4>1, SoundBlocks DEF p
    <3>5. block'[id].first = r.p + 1 /\ block'[id].words = w
      BY <3>2
    <3>6. block'[id] # None /\ block'[id] # block[id]
      BY <1>3, <3>2, <3>3, <3>4, <3>5, NoBlock
    <3>7. ASSUME NEW B, NEW D, Good(heap, B, D), NEW q \in D
          PROVE  Size(heap, q) <= w
      BY <1>1, <1>3, <1>6, <3>1, <3>7, MmMallocGrows DEF r, w
    <3> QED BY <3>5, <3>6, <3>7 DEF Needed
  <2> QED BY <1>1, <2>1, <2>8, <2>9 DEF IInv, Faults
<1> QED BY <1>5, <1>6

-----------------------------------------------------------------------------
(* mm_init leaves a heap in order: a prologue, an epilogue, empty lists.   *)
LEMMA InitIInv == Init => IInv
<1> SUFFICES ASSUME Init PROVE IInv
  OBVIOUS
<1> DEFINE a == Header(2, 1, 1)
           e == Header(0, 1, 1)
<1>1. /\ mem = <<a, a, e>> /\ roots = [l \in 0 .. Levels - 1 |-> NULL]
      /\ block = [id \in Ids |-> None] /\ fault = "none"
  BY DEF Init
<1>2. a \in Cells /\ e \in Cells
  BY HeaderType
<1> HIDE DEF a, e
<1>3. mem \in Seq(Cells) /\ Len(mem) = 3 /\ mem[1] = a /\ mem[2] = a /\ mem[3] = e
  BY <1>1, <1>2
<1>4. heap \in Heaps /\ heap.mem = mem /\ heap.roots = roots
  BY <1>1, <1>3 DEF heap, Heaps, NULL
<1>5. Size(heap, 1) = 2 /\ PrevAlloc(heap, 1) = 1 /\ Alloc(heap, 1) = 1
  <2>1. 1 \in 1 .. Len(heap.mem) /\ heap.mem[1] = Header(2, 1, 1)
    BY <1>3, <1>4 DEF a
  <2> QED BY <1>4, <2>1, HeaderReads
<1>6. Size(heap, 3) = 0 /\ PrevAlloc(heap, 3) = 1 /\ Alloc(heap, 3) = 1
  <2>1. 3 \in 1 .. Len(heap.mem)
    <3>1. Len(heap.mem) = 3
      BY <1>3, <1>4
    <3> QED BY <3>1
  <2>2. heap.mem[3] = Header(0, 1, 1)
    BY <1>3, <1>4 DEF e
  <2> QED BY <1>4, <2>1, <2>2, HeaderReads
<1>7. Following(heap, 1) = 3
  BY <1>5 DEF Following
<1>8. Tagged(heap, {1}, {})
  <2>1. {1} \in SUBSET (1 .. Len(heap.mem) - 1)
    <3>1. Len(heap.mem) - 1 = 2 /\ 1 \in 1 .. 2
      BY <1>3, <1>4
    <3> QED BY <3>1
  <2>2. heap.mem[Len(heap.mem)] = Header(0, PrevAlloc(heap, Len(heap.mem)), 1)
    BY <1>3, <1>4, <1>6 DEF e
  <2> QED BY <1>3, <1>4, <1>5, <1>6, <1>7, <2>1, <2>2 DEF Tagged
<1>9. Linked(heap, ListsOf(heap, {}))
  <2>1. ListsOf(heap, {}) = [l \in 0 .. Levels - 1 |-> {}]
    BY DEF ListsOf
  <2>2. \A l \in 0 .. Levels - 1 : heap.roots[l] = NULL
    BY <1>1, <1>4
  <2> QED BY <2>1, <2>2 DEF Linked, Chain, Starts
<1>10. Good(heap, {1}, {})
  BY <1>8, <1>9 DEF Good, Loose
<1>11. Live(block) = {}
  BY <1>1 DEF Live
<1>12. Held(block) = {1} \ {}
  BY <1>11 DEF Held
<1>13. InOrder(heap, block)
  BY <1>1, <1>10, <1>11, <1>12 DEF InOrder, Sound, BlockMaps
<1>14. Len(heap.mem) <= HeapWords
  <2>1. HeapWords >= 3
    BY SizesAssumption, Zenon
  <2>2. HeapWords \in Nat
    BY SizesAssumption, Zenon
  <2> QED BY <1>3, <1>4, <2>1, <2>2
<1> QED BY <1>1, <1>13, <1>14, OrderSafe DEF IInv, Faults

(* A step that changes nothing.                                            *)
LEMMA StutterStep == ASSUME IInv, UNCHANGED vars PROVE IInv' /\ heap' = heap
<1>1. heap' = heap
  BY DEF vars, heap
<1> QED BY <1>1 DEF vars, IInv

(* One case per action of the allocator and its client.                    *)
LEMMA NextStep ==
    ASSUME IInv, [Next]_vars
    PROVE  IInv' /\ (Len(heap'.mem) # Len(heap.mem) => \E id \in Ids : Needed(id))
<1>1. CASE UNCHANGED vars
  BY <1>1, StutterStep
<1>2. ASSUME NEW id \in Ids, Free(id)
      PROVE  IInv' /\ Len(heap'.mem) = Len(heap.mem)
  BY <1>2, FreeStep
<1>3. ASSUME NEW id \in Ids, NEW size \in Sizes, Malloc(id, size)
      PROVE  IInv' /\ (Len(heap'.mem) # Len(heap.mem) => Needed(id))
  BY <1>3, MallocStep
<1>4. ASSUME NEW id \in Ids, NEW size \in Sizes, ReallocShrink(id, size)
      PROVE  IInv' /\ Len(heap'.mem) = Len(heap.mem)
  BY <1>4, ReallocShrinkStep
<1>5. ASSUME NEW id \in Ids, NEW size \in Sizes, ReallocExtend(id, size)
      PROVE  IInv' /\ Len(heap'.mem) = Len(heap.mem)
  BY <1>5, ReallocExtendStep
<1>6. ASSUME NEW id \in Ids, NEW size \in Sizes, ReallocMove(id, size)
      PROVE  IInv' /\ (Len(heap'.mem) # Len(heap.mem) => Needed(id))
  BY <1>6, ReallocMoveStep
<1>7. CASE Stopped
  BY <1>1, <1>7 DEF Stopped
<1> QED BY <1>1, <1>2, <1>3, <1>4, <1>5, <1>6, <1>7 DEF Next

(* Whatever the client asks for, the heap is in order until a fault, and   *)
(* every block of the client holds what it wrote, after one too.           *)
THEOREM Invariance == Spec => []IInv
<1>1. IInv /\ [Next]_vars => IInv'
  BY NextStep
<1> QED BY <1>1, InitIInv, PTL DEF Spec

(* mm.c:452-575: the heap stays within its limit, its words are of the four *)
(* kinds, and the client's blocks are not empty.                           *)
THEOREM TypeCorrect == Spec => []TypeOK
<1>1. IInv => TypeOK
  <2> SUFFICES ASSUME IInv PROVE TypeOK
    OBVIOUS
  <2>1. Safe(heap, block) /\ fault \in Faults
    BY DEF IInv
  <2>2. /\ heap \in Heaps /\ Len(mem) <= HeapWords
        /\ roots \in [0 .. Levels - 1 -> 0 .. HeapWords] /\ block \in BlockMaps
    BY <2>1, HeapIs DEF Safe
  <2>3. \A a \in DOMAIN mem : mem[a].kind \in {"header", "links", "data", "junk"}
    BY <2>2, HeapIs, HeapType, CellKinds
  <2>4. \A id \in Ids : block[id] # None => block[id].words > 0
    BY <2>2, LiveBlocks DEF Live
  <2> QED BY <2>1, <2>2, <2>3, <2>4 DEF TypeOK, Faults
<1> QED BY <1>1, Invariance, PTL

(* mdriver.c:648-661: the client reads back what it wrote.                  *)
THEOREM PayloadsKept == Spec => []PayloadsIntact
<1>1. IInv => PayloadsIntact
  BY HeapIs DEF IInv, Safe, Intact, PayloadsIntact, Live
<1> QED BY <1>1, Invariance, PTL

-----------------------------------------------------------------------------
(* The heap between calls, block by block.                                 *)
Heaped(B, D) ==
    /\ Good(heap, B, D) /\ Held(block) = B \ D
    /\ Enumerates(Blocks, B) /\ FreeBlocks = D

(* Between calls the blocks of the checker's walk tile the heap, and those *)
(* the client does not hold are the free ones.                             *)
LEMMA Tiling ==
    ASSUME IInv, fault = "none"
    PROVE  \E B, D : Heaped(B, D)
<1>1. PICK B, D : Good(heap, B, D) /\ Held(block) = B \ D
  BY DEF IInv, InOrder, Sound
<1>2. Tagged(heap, B, D) /\ D \subseteq B
  BY <1>1 DEF Good, Loose, Tagged
<1>3. Enumerates(Blocks, B)
  BY <1>2, BlocksEnumerate DEF Blocks
<1>4. {Blocks[i] : i \in DOMAIN Blocks} = B
  BY <1>3, Enumerated
<1>5. \A p \in B : Alloc(heap, p) = 0 <=> p \in D
  <2>1. \A p \in B : Alloc(heap, p) = IF p \in D THEN 0 ELSE 1
    BY <1>2 DEF Tagged
  <2> QED BY <2>1
<1>6. FreeBlocks = D
  BY <1>2, <1>4, <1>5 DEF FreeBlocks
<1> QED BY <1>1, <1>3, <1>6 DEF Heaped

(* find_fit, mm.c:355-374, before extend_heap: the heap grows only when no  *)
(* free block is large enough.                                             *)
THEOREM GrowsForNeed == Spec => GrowsOnlyWhenNeeded
<1>1. ASSUME IInv, [Next]_vars, Len(mem') > Len(mem)
      PROVE  \E id \in Ids :
                /\ block'[id] \notin {None, block[id]}
                /\ \A p \in FreeBlocks : Size(heap, p) <= block'[id].words
  <2>1. IInv' /\ (Len(heap'.mem) # Len(heap.mem) => \E id \in Ids : Needed(id))
    BY <1>1, NextStep
  <2>2. heap'.mem = mem' /\ heap.mem = mem
    BY DEF heap
  <2>3. Len(mem) \in Nat /\ Len(mem') \in Nat
    <3>1. heap \in Heaps /\ heap' \in Heaps
      BY <1>1, <2>1 DEF IInv, Safe
    <3> QED BY <2>2, <3>1, HeapType
  <2>4. PICK id \in Ids : Needed(id)
    BY <1>1, <2>1, <2>2, <2>3
  <2>5. fault = "none"
    <3>1. CASE UNCHANGED vars
      BY <1>1, <2>3, <3>1 DEF vars
    <3>2. CASE Stopped
      BY <1>1, <2>3, <3>2 DEF Stopped, vars
    <3>3. CASE \E i \in Ids : Free(i) \/ \E size \in Sizes :
                  Malloc(i, size) \/ ReallocShrink(i, size)
                  \/ ReallocExtend(i, size) \/ ReallocMove(i, size)
      <4>1. PICK i \in Ids : Free(i) \/ \E size \in Sizes :
                  Malloc(i, size) \/ ReallocShrink(i, size)
                  \/ ReallocExtend(i, size) \/ ReallocMove(i, size)
        BY <3>3
      <4>2. CASE Free(i)
        BY <4>2 DEF Free
      <4>3. CASE \E size \in Sizes : Malloc(i, size)
        BY <4>3 DEF Malloc
      <4>4. CASE \E size \in Sizes : ReallocShrink(i, size)
        BY <4>4 DEF ReallocShrink, Reallocs
      <4>5. CASE \E size \in Sizes : ReallocExtend(i, size)
        BY <4>5 DEF ReallocExtend, Reallocs
      <4>6. CASE \E size \in Sizes : ReallocMove(i, size)
        BY <4>6 DEF ReallocMove, Reallocs
      <4> QED BY <4>1, <4>2, <4>3, <4>4, <4>5, <4>6
    <3> QED BY <1>1, <3>1, <3>2, <3>3 DEF Next
  <2>6. PICK B, D : Heaped(B, D)
    BY <1>1, <2>5, Tiling
  <2>7. \A p \in FreeBlocks : Size(heap, p) <= block'[id].words
    BY <2>4, <2>6 DEF Heaped, Needed
  <2> QED BY <2>4, <2>7 DEF Needed
<1> QED BY <1>1, Invariance, PTL DEF Spec, GrowsOnlyWhenNeeded

-----------------------------------------------------------------------------
(* What is known of the blocks and of the lists between calls.             *)
LEMMA HeapedBlocks ==
    ASSUME NEW B, NEW D, Heaped(B, D)
    PROVE  /\ Tagged(heap, B, D) /\ D \subseteq B /\ heap \in Heaps
           /\ Len(heap.mem) \in Nat /\ DOMAIN Blocks = 1 .. Len(Blocks) /\ Len(Blocks) \in Nat
           /\ \A i \in DOMAIN Blocks : Blocks[i] \in B
           /\ \A q \in B : \E i \in DOMAIN Blocks : Blocks[i] = q
           /\ \A i, j \in DOMAIN Blocks : i < j => Blocks[i] < Blocks[j]
           /\ \A p \in B : Alloc(heap, p) = 0 <=> p \in D
<1>1. Tagged(heap, B, D) /\ D \subseteq B /\ heap \in Heaps
  BY DEF Heaped, Good, Loose, Tagged
<1>2. \A p \in B : Alloc(heap, p) = IF p \in D THEN 0 ELSE 1
  BY <1>1 DEF Tagged
<1>3. \A p \in B : Alloc(heap, p) = 0 <=> p \in D
  BY <1>2
<1>4. Enumerates(Blocks, B)
  BY DEF Heaped
<1> QED BY <1>1, <1>3, <1>4, HeapType, Enumerated

(* The loop along list l visits the free blocks of its sizes, in order.    *)
LEMMA HeapedLists ==
    ASSUME NEW B, NEW D, Heaped(B, D), NEW l \in 0 .. Levels - 1
    PROVE  /\ DOMAIN Nodes(heap, l) = 1 .. Len(Nodes(heap, l)) /\ Len(Nodes(heap, l)) \in Nat
           /\ \A i \in DOMAIN Nodes(heap, l) :
                Nodes(heap, l)[i] \in D /\ Level(Size(heap, Nodes(heap, l)[i]) - 1) = l
           /\ \A q \in D : Level(Size(heap, q) - 1) = l =>
                \E i \in DOMAIN Nodes(heap, l) : Nodes(heap, l)[i] = q
           /\ \A i, j \in DOMAIN Nodes(heap, l) :
                i < j => Nodes(heap, l)[i] < Nodes(heap, l)[j]
<1>1. Enumerates(Nodes(heap, l), {p \in D : Level(Size(heap, p) - 1) = l})
  BY ListOf DEF Heaped
<1> QED BY <1>1, Enumerated

(* There is a root for every list.                                         *)
LEMMA HeapedRoots == ASSUME IInv PROVE DOMAIN roots = 0 .. Levels - 1
BY HeapIs DEF IInv, Safe

(* A free block and its neighbours.                                        *)
LEMMA HeapedFree ==
    ASSUME NEW B, NEW D, Heaped(B, D), NEW p \in D
    PROVE  /\ Alloc(heap, Following(heap, p)) = 1 /\ Size(heap, p) >= MinBlock
           /\ mem[Following(heap, p) - 1] = mem[p]
<1>1. Tagged(heap, B, D) /\ D \subseteq B /\ heap \in Heaps /\ p \in B /\ Alloc(heap, p) = 0
  BY HeapedBlocks
<1>2. Good(heap, B, D)
  BY DEF Heaped
<1>3. Alloc(heap, Following(heap, p)) = 1
  <2>1. Following(heap, p) \notin D
    BY <1>2 DEF Good
  <2>2. CASE Following(heap, p) \in B
    BY <1>1, <2>1, <2>2 DEF Tagged
  <2>3. CASE Following(heap, p) = Len(heap.mem)
    BY <1>1, <2>3, LastTags
  <2> QED BY <1>1, <2>2, <2>3, BlockFacts
<1>4. p # 1 /\ p + 3 <= Following(heap, p)
  BY <1>1, FreeWords
<1>5. /\ p \in 1 .. Len(heap.mem) /\ Following(heap, p) \in Nat /\ p \in Nat
      /\ Size(heap, p) = Following(heap, p) - p
  BY <1>1, BlockFacts
<1>6. Size(heap, p) >= 3
  BY <1>4, <1>5
<1>7. PrevAlloc(heap, p) = 1
  <2>1. PICK q \in B : Following(heap, q) = p
    BY <1>1, <1>4, Predecessor
  <2>2. q \notin D
    BY <1>2, <2>1 DEF Good
  <2>3. Alloc(heap, q) = 1 /\ PrevAlloc(heap, Following(heap, q)) = Alloc(heap, q)
    BY <1>1, <2>2 DEF Tagged
  <2> QED BY <2>1, <2>3
<1>8. heap.mem[p] = Header(Size(heap, p), 1, 0)
  <2>1. heap.mem[p] \in HeaderCells /\ HeaderAt(heap, p) = heap.mem[p]
    <3>1. Header(0, 1, 1).size = 0
      BY DEF Header
    <3>2. p \in DOMAIN heap.mem /\ heap.mem[p].kind = "header"
      BY <1>6, <3>1 DEF Size, HeaderAt
    <3>3. HeaderAt(heap, p) = heap.mem[p]
      BY <3>2 DEF HeaderAt
    <3> QED BY <1>1, <3>3, TagsType
  <2>2. /\ heap.mem[p].size = Size(heap, p) /\ heap.mem[p].prev = 1
        /\ heap.mem[p].alloc = 0 /\ heap.mem[p].kind = "header"
    BY <1>1, <1>7, <2>1 DEF Size, PrevAlloc, Alloc, HeaderCells
  <2> DEFINE c == heap.mem[p]
  <2>3. c = [kind |-> c.kind, size |-> c.size, prev |-> c.prev, alloc |-> c.alloc]
    BY <2>1 DEF HeaderCells
  <2> QED BY <2>2, <2>3 DEF Header
<1>9. heap.mem[Following(heap, p) - 1] = Header(Size(heap, p), 1, 0)
  BY <1>2 DEF Good, Loose, Footed
<1> QED BY <1>3, <1>6, <1>8, <1>9, HeapIs DEF MinBlock

(* mm.c:577-701: the program's own checkers find nothing.                  *)
LEMMA CheckersQuiet ==
    ASSUME IInv, fault = "none"
    PROVE  ~MmCheck(heap) /\ ~CheckEveryFreeBlockInList(heap)
<1>1. PICK B, D : Heaped(B, D)
  BY Tiling
<1>2. ~CheckTraverseFreeLists(heap)
  <2> SUFFICES ASSUME NEW l \in 0 .. Levels - 1, NEW i \in DOMAIN Nodes(heap, l)
               PROVE  Alloc(heap, Nodes(heap, l)[i]) # 1 /\ ~(Nodes(heap, l)[i] > Len(heap.mem))
    BY HeapedRoots, HeapIs DEF CheckTraverseFreeLists
  <2> DEFINE p == Nodes(heap, l)[i]
  <2>1. p \in D
    BY <1>1, HeapedLists
  <2> HIDE DEF p
  <2>2. p \in B /\ Alloc(heap, p) = 0 /\ Tagged(heap, B, D)
    BY <1>1, <2>1, HeapedBlocks
  <2>3. p < Len(heap.mem) /\ p \in Nat /\ Len(heap.mem) \in Nat
    BY <2>2, BlockFacts
  <2> QED BY <2>2, <2>3 DEF p
<1>3. ~CheckTraverseMemHeap(heap)
  <2> SUFFICES ASSUME NEW i \in DOMAIN Blocks
               PROVE  /\ ~(Alloc(heap, Blocks[i]) = 0 /\ Alloc(heap, Following(heap, Blocks[i])) = 0)
                      /\ ~(Size(heap, Blocks[i]) > Len(heap.mem))
    BY DEF CheckTraverseMemHeap, Blocks
  <2> DEFINE p == Blocks[i]
  <2>1. p \in B /\ Tagged(heap, B, D) /\ (Alloc(heap, p) = 0 <=> p \in D)
    BY <1>1, HeapedBlocks
  <2> HIDE DEF p
  <2>2. /\ Size(heap, p) = Following(heap, p) - p /\ p \in Nat /\ Following(heap, p) \in Nat
        /\ Following(heap, p) <= Len(heap.mem) /\ Len(heap.mem) \in Nat
    BY <2>1, BlockFacts
  <2>3. ~(Alloc(heap, p) = 0 /\ Alloc(heap, Following(heap, p)) = 0)
    BY <1>1, <2>1, HeapedFree
  <2>4. ~(Size(heap, p) > Len(heap.mem))
    BY <2>2
  <2> QED BY <2>3, <2>4 DEF p
<1>4. ~CheckEveryFreeBlockInList(heap)
  <2> SUFFICES ASSUME NEW i \in DOMAIN Blocks, Alloc(heap, Blocks[i]) = 0
               PROVE  LET list == Nodes(heap, Level(Size(heap, Blocks[i]) - 1))
                      IN  \E k \in DOMAIN list : list[k] = Blocks[i]
    BY DEF CheckEveryFreeBlockInList, Blocks
  <2> DEFINE p == Blocks[i]
             l == Level(Size(heap, p) - 1)
  <2>1. p \in D
    BY <1>1, HeapedBlocks
  <2>2. l \in 0 .. Levels - 1
    BY LevelType
  <2> HIDE DEF p
  <2>3. \A m \in 0 .. Levels - 1 : Level(Size(heap, p) - 1) = m =>
            \E k \in DOMAIN Nodes(heap, m) : Nodes(heap, m)[k] = p
    BY <1>1, <2>1, HeapedLists
  <2> QED BY <2>2, <2>3 DEF p
<1> QED BY <1>2, <1>3, <1>4 DEF MmCheck

(* The tags of the blocks, mm.c:230-320: what coalesce, split_block and     *)
(* find_fit rely on holds after every call.                                *)
THEOREM TagsRight == Spec => []WellFormed
<1>1. ASSUME IInv PROVE WellFormed
  <2> SUFFICES ASSUME fault = "none"
               PROVE  /\ ~MmCheck(heap)
                      /\ Blocks # << >> /\ Following(heap, Blocks[Len(Blocks)]) = Len(mem)
                      /\ mem[Len(mem)].kind = "header" /\ Alloc(heap, Len(mem)) = 1
                      /\ \A i \in DOMAIN Blocks :
                          LET p == Blocks[i] n == Following(heap, p) IN
                          /\ PrevAlloc(heap, n) = Alloc(heap, p)
                          /\ Alloc(heap, p) = 0 =>
                              /\ Alloc(heap, n) = 1 /\ Size(heap, p) >= MinBlock
                              /\ mem[n - 1] = mem[p]
    BY DEF WellFormed
  <2>1. PICK B, D : Heaped(B, D)
    BY <1>1, Tiling
  <2>2. ~MmCheck(heap)
    BY <1>1, CheckersQuiet
  <2>3. /\ Tagged(heap, B, D) /\ D \subseteq B
        /\ DOMAIN Blocks = 1 .. Len(Blocks) /\ Len(Blocks) \in Nat
        /\ \A i \in DOMAIN Blocks : Blocks[i] \in B
        /\ \A q \in B : \E i \in DOMAIN Blocks : Blocks[i] = q
        /\ \A i, j \in DOMAIN Blocks : i < j => Blocks[i] < Blocks[j]
        /\ \A p \in B : Alloc(heap, p) = 0 <=> p \in D
    BY <2>1, HeapedBlocks
  <2> DEFINE last == Len(Blocks)
  <2>4. last \in DOMAIN Blocks /\ Blocks # << >>
    <3>1. PICK i \in 1 .. Len(Blocks) : Blocks[i] = 1
      BY <2>3 DEF Tagged
    <3>2. Len(Blocks) > 0
      BY <2>3, <3>1
    <3> QED BY <2>3, <3>2
  <2>5. Following(heap, Blocks[last]) = Len(mem)
    <3>1. Blocks[last] \in B
      BY <2>3, <2>4
    <3>2. /\ Following(heap, Blocks[last]) \in B \/ Following(heap, Blocks[last]) = Len(heap.mem)
          /\ Blocks[last] < Following(heap, Blocks[last])
          /\ Blocks[last] \in Nat /\ Following(heap, Blocks[last]) \in Nat
      BY <2>3, <3>1, BlockFacts
    <3>3. ASSUME NEW i \in DOMAIN Blocks, Blocks[i] = Following(heap, Blocks[last]) PROVE FALSE
      <4>1. i < last \/ i = last
        BY <2>3
      <4>2. CASE i < last
        <5>1. Blocks[i] < Blocks[last]
          BY <2>3, <2>4, <4>2
        <5> QED BY <3>2, <3>3, <5>1
      <4>3. CASE i = last
        BY <3>2, <3>3, <4>3
      <4> QED BY <4>1, <4>2, <4>3
    <3> QED BY <2>3, <3>2, <3>3, HeapIs
  <2>6. mem[Len(mem)].kind = "header" /\ Alloc(heap, Len(mem)) = 1
    <3>1. heap.mem[Len(heap.mem)] = Header(0, PrevAlloc(heap, Len(heap.mem)), 1)
      BY <2>3 DEF Tagged
    <3>2. Alloc(heap, Len(heap.mem)) = 1
      BY <2>3, LastTags
    <3> QED BY <3>1, <3>2, HeapIs DEF Header
  <2>7. ASSUME NEW p \in B
        PROVE  /\ PrevAlloc(heap, Following(heap, p)) = Alloc(heap, p)
               /\ Alloc(heap, p) = 0 =>
                    /\ Alloc(heap, Following(heap, p)) = 1 /\ Size(heap, p) >= MinBlock
                    /\ mem[Following(heap, p) - 1] = mem[p]
    <3>1. PrevAlloc(heap, Following(heap, p)) = Alloc(heap, p)
      BY <2>3 DEF Tagged
    <3> QED BY <2>1, <2>3, <3>1, HeapedFree
  <2> QED BY <2>2, <2>3, <2>4, <2>5, <2>6, <2>7
<1> QED BY <1>1, Invariance, PTL

(* insert_block_to_segrelist and remove_block_from_segrelist, mm.c:376-450: *)
(* after every call each list holds the free blocks of its sizes, in the   *)
(* order of addresses, linked both ways.                                   *)
THEOREM ListsRight == Spec => []ListsExact
<1>1. ASSUME IInv PROVE ListsExact
  <2> SUFFICES ASSUME fault = "none"
               PROVE  /\ ~CheckEveryFreeBlockInList(heap)
                      /\ \A l \in DOMAIN roots :
                          {Nodes(heap, l)[i] : i \in DOMAIN Nodes(heap, l)} =
                              {p \in FreeBlocks : Level(Size(heap, p) - 1) = l}
                      /\ \A l \in DOMAIN roots :
                          \A i \in DOMAIN Nodes(heap, l) :
                              /\ LinksAt(heap, Nodes(heap, l)[i]).prev =
                                    IF i = 1 THEN NULL ELSE Nodes(heap, l)[i - 1]
                              /\ i > 1 => Nodes(heap, l)[i - 1] < Nodes(heap, l)[i]
    BY DEF ListsExact
  <2>1. PICK B, D : Heaped(B, D)
    BY <1>1, Tiling
  <2>2. FreeBlocks = D /\ DOMAIN roots = 0 .. Levels - 1
    BY <1>1, <2>1, HeapedRoots DEF Heaped
  <2>3. ~CheckEveryFreeBlockInList(heap)
    BY <1>1, CheckersQuiet
  <2>4. ASSUME NEW l \in 0 .. Levels - 1
        PROVE  {Nodes(heap, l)[i] : i \in DOMAIN Nodes(heap, l)} =
                    {p \in D : Level(Size(heap, p) - 1) = l}
    BY <2>1, HeapedLists
  <2>5. ASSUME NEW l \in 0 .. Levels - 1, NEW i \in DOMAIN Nodes(heap, l)
        PROVE  /\ LinksAt(heap, Nodes(heap, l)[i]).prev =
                      IF i = 1 THEN NULL ELSE Nodes(heap, l)[i - 1]
               /\ i > 1 => Nodes(heap, l)[i - 1] < Nodes(heap, l)[i]
    <3> DEFINE t == Nodes(heap, l)
               S == {q \in D : Level(Size(heap, q) - 1) = l}
    <3>1. Enumerates(t, S)
      BY <2>1, ListOf DEF Heaped
    <3>2. Tagged(heap, B, D) /\ D \subseteq B
      BY <2>1, HeapedBlocks
    <3>3. Precedes(S, t[i], PrevOf(heap, t[i]))
      <4>1. Linked(heap, ListsOf(heap, D))
        BY <2>1 DEF Heaped, Good, Loose
      <4>2. Chain(heap, ListsOf(heap, D)[l], heap.roots[l]) /\ ListsOf(heap, D)[l] = S
        BY <4>1 DEF Linked, ListsOf
      <4>3. t[i] \in S
        BY <3>1, Enumerated
      <4> HIDE DEF S, t
      <4> QED BY <4>2, <4>3 DEF Chain
    <3> HIDE DEF t
    <3>4. /\ DOMAIN t = 1 .. Len(t) /\ Len(t) \in Nat
          /\ \A k \in DOMAIN t : t[k] \in S
          /\ \A q \in S : \E k \in DOMAIN t : t[k] = q
          /\ \A k, j \in DOMAIN t : k < j => t[k] < t[j]
      BY <3>1, Enumerated
    <3>5. \A q \in S : q \in Nat
      BY <3>2, BlockFacts
    <3> HIDE DEF S
    <3> DEFINE b == PrevOf(heap, t[i])
    <3>6. i \in 1 .. Len(t) /\ t[i] \in S
      BY <3>4 DEF t
    <3>7. CASE i = 1
      <4>1. ASSUME b \in S, b < t[i] PROVE FALSE
        <5>1. PICK k \in DOMAIN t : t[k] = b
          BY <3>4, <4>1
        <5>2. k = 1 \/ 1 < k
          BY <3>4
        <5>3. t[1] <= t[k]
          BY <3>4, <3>5, <3>6, <3>7, <5>2
        <5> QED BY <3>5, <3>6, <3>7, <4>1, <5>1, <5>3
      <4> QED BY <3>3, <3>7, <4>1 DEF Precedes, PrevOf, t
    <3>8. CASE i # 1
      <4> DEFINE m == i - 1
      <4>1. m \in DOMAIN t /\ m < i /\ m \in Nat /\ i > 1
        BY <3>4, <3>6, <3>8
      <4>2. t[m] < t[i] /\ t[m] \in S
        BY <3>4, <3>6, <4>1
      <4>3. b # NULL /\ b \in S /\ b < t[i] /\ (t[m] <= b \/ t[i] <= t[m])
        <5>1. ~ \A q \in S : t[i] <= q
          BY <3>5, <3>6, <4>2
        <5>2. b \in S /\ b < t[i] /\ \A q \in S : q <= b \/ t[i] <= q
          BY <3>3, <5>1 DEF Precedes
        <5>3. b # NULL
          <6>1. b \in B
            BY <3>2, <5>2 DEF S
          <6> QED BY <3>2, <6>1, BlockFacts DEF NULL
        <5> QED BY <4>2, <5>2, <5>3
      <4>4. PICK k \in DOMAIN t : t[k] = b
        BY <3>4, <4>3
      <4>5. k \in Nat /\ m \in Nat
        BY <3>4, <4>1
      <4>6. ASSUME k < m PROVE FALSE
        <5>1. t[k] < t[m]
          BY <3>4, <4>1, <4>6
        <5> QED BY <3>5, <3>6, <4>2, <4>3, <4>4, <5>1
      <4>7. ASSUME m < k PROVE FALSE
        <5>1. i <= k
          BY <3>4, <3>6, <4>1, <4>7
        <5>2. t[i] <= t[k]
          BY <3>4, <3>5, <3>6, <5>1
        <5> QED BY <3>5, <3>6, <4>3, <4>4, <5>2
      <4>8. b = t[m]
        BY <4>4, <4>5, <4>6, <4>7
      <4> QED BY <3>8, <4>1, <4>2, <4>8 DEF PrevOf, t
    <3> QED BY <3>7, <3>8
  <2> QED BY <2>2, <2>3, <2>4, <2>5
<1> QED BY <1>1, Invariance, PTL

(* mm_free and mm_realloc lose no block, and mm_malloc hands none out       *)
(* twice, until a fault.                                                   *)
THEOREM NothingLost == Spec => []NoLeak
<1>1. ASSUME IInv PROVE NoLeak
  <2> DEFINE live == {id \in Ids : block[id] # None}
  <2> SUFFICES ASSUME fault = "none"
               PROVE  /\ {Blocks[i] : i \in 2 .. Len(Blocks)} \ FreeBlocks =
                            {block[id].first - 1 : id \in live}
                      /\ \A id, other \in live : block[id].first = block[other].first => id = other
                      /\ \A id \in live : Size(heap, block[id].first - 1) > block[id].words
    BY DEF NoLeak
  <2>1. PICK B, D : Heaped(B, D)
    BY <1>1, Tiling
  <2>2. live = Live(block) /\ InOrder(heap, block)
    BY <1>1 DEF IInv, Live
  <2> HIDE DEF live
  <2>3. \A id, other \in live : block[id].first = block[other].first => id = other
    BY <2>2 DEF InOrder
  <2>4. ASSUME NEW id \in live
        PROVE  /\ Size(heap, block[id].first - 1) > block[id].words
               /\ block[id].first - 1 # 1
    <3>1. Holds(heap, id, block[id])
      BY <2>2 DEF InOrder
    <3> QED BY <3>1 DEF Holds
  <2>5. /\ Tagged(heap, B, D) /\ D \subseteq B
        /\ DOMAIN Blocks = 1 .. Len(Blocks) /\ Len(Blocks) \in Nat
        /\ \A i \in DOMAIN Blocks : Blocks[i] \in B
        /\ \A q \in B : \E i \in DOMAIN Blocks : Blocks[i] = q
        /\ \A i, j \in DOMAIN Blocks : i < j => Blocks[i] < Blocks[j]
    BY <2>1, HeapedBlocks
  <2>6. Held(block) = B \ D /\ FreeBlocks = D
    BY <2>1 DEF Heaped
  <2>7. \A q \in B : q \in Nat /\ 1 <= q
    BY <2>5, BlockFacts
  <2>8. 1 \in B
    BY <2>5 DEF Tagged
  <2>9. ASSUME NEW i \in DOMAIN Blocks PROVE Blocks[i] = 1 <=> i = 1
    <3>1. PICK k \in DOMAIN Blocks : Blocks[k] = 1
      BY <2>5, <2>8
    <3>2. k = 1
      <4>1. ASSUME 1 < k PROVE FALSE
        <5>1. 1 \in DOMAIN Blocks /\ Blocks[1] < Blocks[k] /\ Blocks[1] \in B
          BY <2>5, <4>1
        <5> QED BY <2>7, <3>1, <5>1
      <4> QED BY <2>5, <4>1
    <3>3. ASSUME 1 < i PROVE Blocks[i] # 1
      <4>1. Blocks[k] < Blocks[i]
        BY <2>5, <3>2, <3>3
      <4> QED BY <3>1, <4>1
    <3> QED BY <2>5, <3>1, <3>2, <3>3
  <2>10. {Blocks[i] : i \in 2 .. Len(Blocks)} = B \ {1}
    <3>1. \A i \in 2 .. Len(Blocks) : i \in DOMAIN Blocks /\ i # 1
      BY <2>5
    <3>2. \A i \in DOMAIN Blocks : i # 1 => i \in 2 .. Len(Blocks)
      BY <2>5
    <3>3. \A i \in 2 .. Len(Blocks) : Blocks[i] \in B \ {1}
      BY <2>5, <2>9, <3>1
    <3>4. \A q \in B \ {1} : \E i \in 2 .. Len(Blocks) : Blocks[i] = q
      BY <2>5, <2>9, <3>2
    <3> QED BY <3>3, <3>4
  <2>11. {Blocks[i] : i \in 2 .. Len(Blocks)} \ FreeBlocks = {block[id].first - 1 : id \in live}
    <3>1. (B \ {1}) \ D = Held(block) \ {1}
      BY <2>6
    <3>2. Held(block) \ {1} = {block[id].first - 1 : id \in live}
      BY <2>2, <2>4 DEF Held
    <3> QED BY <2>6, <2>10, <3>1, <3>2
  <2> QED BY <2>3, <2>4, <2>11
<1> QED BY <1>1, Invariance, PTL

-----------------------------------------------------------------------------
(* The allocator of Allocator.  What a block holds is what the client wrote *)
(* in it, so that the contents follow from the blocks alone.               *)
Contents(m, bs) ==
    [id \in Ids |-> IF bs[id] = None THEN << >>
                    ELSE SubSeq(m, bs[id].first, bs[id].first + bs[id].words - 1)]

Told(bs) ==
    [id \in Ids |-> IF bs[id] = None THEN << >>
                    ELSE [k \in 1 .. bs[id].words |-> Data(id, k)]]

(* The contents of the client's blocks are what it wrote.                  *)
LEMMA ContentsTold ==
    ASSUME NEW h, NEW bs, Safe(h, bs)
    PROVE  Contents(h.mem, bs) = Told(bs)
<1> SUFFICES ASSUME NEW id \in Live(bs)
             PROVE  SubSeq(h.mem, bs[id].first, bs[id].first + bs[id].words - 1) =
                        [k \in 1 .. bs[id].words |-> Data(id, k)]
  BY DEF Contents, Told, Live
<1> DEFINE m == bs[id].first
           w == bs[id].words
           t == SubSeq(h.mem, m, m + w - 1)
<1>1. bs \in BlockMaps /\ Intact(h, bs)
  BY DEF Safe
<1>2. m \in Nat /\ w \in Nat /\ w > 0
  BY <1>1, LiveBlocks
<1>3. \A k \in 1 .. w : m + k - 1 \in 1 .. Len(h.mem) /\ h.mem[m + k - 1] = Data(id, k)
  BY <1>1 DEF Intact
<1> HIDE DEF m, w
<1>4. t = [k \in 1 .. w |-> h.mem[m + k - 1]]
  <2> DEFINE n == m + w - 1
  <2>1. n \in Int /\ n - m + 1 = w /\ m <= n /\ m \in Int
    BY <1>2
  <2>2. \A i \in m .. n : h.mem[i] \in Cells
    <3> TAKE i \in m .. n
    <3>1. i - m + 1 \in 1 .. w /\ m + (i - m + 1) - 1 = i
      BY <1>2, <2>1
    <3>2. i \in 1 .. Len(h.mem)
      BY <1>3, <3>1
    <3> QED BY <3>2, HeapType DEF Safe
  <2> HIDE DEF n
  <2>3. /\ SubSeq(h.mem, m, n) \in Seq(Cells)
        /\ Len(SubSeq(h.mem, m, n)) = IF m <= n THEN n - m + 1 ELSE 0
        /\ \A i \in 1 .. n - m + 1 : SubSeq(h.mem, m, n)[i] = h.mem[m + i - 1]
    BY <2>1, <2>2, SubSeqProperties
  <2>4. t = SubSeq(h.mem, m, n)
    BY DEF n
  <2> HIDE DEF t
  <2>5. t \in Seq(Cells) /\ Len(t) = w /\ \A k \in 1 .. w : t[k] = h.mem[m + k - 1]
    BY <2>1, <2>3, <2>4
  <2>6. t = [k \in 1 .. Len(t) |-> t[k]]
    BY <2>5
  <2> QED BY <2>5, <2>6
<1>5. t = [k \in 1 .. w |-> Data(id, k)]
  BY <1>3, <1>4
<1> QED BY <1>5 DEF m, w

(* The words of a block.                                                   *)
RangeOf(first, words) == first .. first + words - 1

(* Two blocks have no word in common, as far as they reach.                 *)
LEMMA RangesApart ==
    ASSUME NEW h, NEW bs, InOrder(h, bs), NEW id \in Live(bs), NEW o \in Live(bs), id # o,
           NEW w \in Nat, w < Size(h, bs[id].first - 1)
    PROVE  RangeOf(bs[id].first, w) \cap RangeOf(bs[o].first, bs[o].words) = {}
<1> DEFINE p == bs[id].first - 1
           q == bs[o].first - 1
           v == bs[o].words
<1>1. PICK B, D : Good(h, B, D) /\ Held(bs) = B \ D
  BY DEF InOrder, Sound
<1>2. p \in B /\ q \in B /\ q # p /\ Sound(h, Held(bs))
  <2>1. p \in Held(bs) /\ p \notin Others(bs, id)
    BY OthersApart
  <2>2. q \in Held(bs) /\ id \in Ids
    BY OthersApart DEF Live
  <2>3. q \in Others(bs, id)
    BY <2>2, OthersHeld
  <2> QED BY <1>1, <2>1, <2>2, <2>3 DEF InOrder
<1>3. Tagged(h, B, D)
  BY <1>1 DEF Good, Loose
<1>4. bs[id].first \in Nat /\ bs[o].first \in Nat /\ v \in Nat
  BY LiveBlocks DEF InOrder
<1>5. v < Size(h, q)
  BY DEF InOrder, Holds
<1>6. bs[id].first = p + 1 /\ bs[o].first = q + 1 /\ w < Size(h, p)
  BY <1>4
<1> HIDE DEF p, q, v
<1>7. /\ p \in Nat /\ Following(h, p) \in Nat /\ Size(h, p) = Following(h, p) - p
      /\ q \in Nat /\ Following(h, q) \in Nat /\ Size(h, q) = Following(h, q) - q
  BY <1>2, <1>3, BlockFacts
<1>8. (q <= p \/ Following(h, p) <= q) /\ (p <= q \/ Following(h, q) <= p)
  BY <1>2, <1>3, Apart
<1>9. ASSUME NEW a \in RangeOf(p + 1, w), a \in RangeOf(q + 1, v) PROVE FALSE
  <2>1. a \in Int /\ p + 1 <= a /\ a <= p + w
    BY <1>7 DEF RangeOf
  <2>2. q + 1 <= a /\ a <= q + v
    BY <1>4, <1>7, <1>9, <2>1 DEF RangeOf
  <2> QED BY <1>2, <1>4, <1>5, <1>6, <1>7, <1>8, <2>1, <2>2
<1> QED BY <1>6, <1>9 DEF v

(* Only the block of id is another one, apart from all others.             *)
Provided(id) ==
    /\ block' = [block EXCEPT ![id] = block'[id]] /\ block'[id] # None
    /\ \A o \in Live(block) \ {id} :
        RangeOf(block'[id].first, block'[id].words)
            \cap RangeOf(block[o].first, block[o].words) = {}

(* The contents before and after a step.                                   *)
LEMMA AbstractContents ==
    ASSUME Safe(heap, block), Safe(heap', block')
    PROVE  Contents(mem, block) = Told(block) /\ Contents(mem', block') = Told(block')
<1>1. Contents(heap.mem, block) = Told(block)
  BY ContentsTold
<1>2. Contents(heap'.mem, block') = Told(block')
  BY ContentsTold
<1> QED BY <1>1, <1>2 DEF heap

(* A call that gives id a block apart from the others is the abstract one. *)
LEMMA AbstractProvide ==
    ASSUME Safe(heap, block), Safe(heap', block'), NEW id \in Ids, Provided(id)
    PROVE  A!Provide(id)
<1> DEFINE new == block'[id]
           old == Contents(mem, block)
           now == Contents(mem', block')
<1>1. old = Told(block) /\ now = Told(block')
  BY AbstractContents
<1>2. block \in BlockMaps /\ block' \in BlockMaps /\ id \in Live(block')
  BY DEF Safe, Provided, Live
<1>3. new.first \in Nat /\ new.words \in Nat /\ new.words > 0
  BY <1>2, LiveBlocks
<1>4. new.first > 0
  <2>1. 1 \in 1 .. new.words
    BY <1>3
  <2>2. new.first + 1 - 1 \in 1 .. Len(heap'.mem)
    BY <1>2, <2>1 DEF Safe, Intact
  <2>3. heap' \in Heaps
    BY DEF Safe
  <2>4. Len(heap'.mem) \in Nat
    BY <2>3, HeapType
  <2> QED BY <1>3, <2>2, <2>4
<1>5. block' = [block EXCEPT ![id] = new]
  BY DEF Provided
<1>6. now = [old EXCEPT ![id] = now[id]]
  <2>1. \A o \in Ids : o # id => block'[o] = block[o]
    BY <1>2, <1>5 DEF BlockMaps
  <2>2. \A o \in Ids : o # id => now[o] = old[o]
    <3> HIDE DEF now, old
    <3> SUFFICES ASSUME NEW o \in Ids, o # id PROVE now[o] = old[o]
      OBVIOUS
    <3>1. block'[o] = block[o]
      BY <2>1
    <3>2. Told(block')[o] = Told(block)[o]
      BY <3>1 DEF Told
    <3> QED BY <1>1, <3>2
  <2>3. DOMAIN now = Ids /\ DOMAIN old = Ids
        /\ now = [o \in Ids |-> now[o]] /\ old = [o \in Ids |-> old[o]]
    BY DEF Contents
  <2> HIDE DEF now, old
  <2> QED BY <2>2, <2>3
<1>7. now[id] = [k \in 1 .. new.words |-> Data(id, k)]
  BY <1>1, <1>2 DEF Told, Live
<1>8. Len(now[id]) = new.words
  BY <1>3, <1>7
<1>9. \A other \in Ids \ {id} : A!Range(new) \cap A!Range(block[other]) = {}
  <2> TAKE other \in Ids \ {id}
  <2>1. CASE block[other] = None
    BY <2>1 DEF A!Range
  <2>2. CASE block[other] # None
    BY <1>2, <2>2 DEF A!Range, Provided, Live, RangeOf
  <2> QED BY <2>1, <2>2
<1>10. \A k \in 1 .. new.words : k <= Len(old[id]) => now[id][k] = old[id][k]
  <2> TAKE k \in 1 .. new.words
  <2>1. now[id][k] = Data(id, k)
    BY <1>7
  <2>2. CASE block[id] = None
    <3>1. old[id] = << >>
      BY <1>1, <2>2 DEF Told
    <3> HIDE DEF old
    <3>2. Len(old[id]) = 0
      BY <3>1
    <3> QED BY <3>2
  <2>3. CASE block[id] # None
    <3>1. block[id].words \in Nat
      BY <1>2, <2>3, LiveBlocks DEF Live
    <3>2. old[id] = [i \in 1 .. block[id].words |-> Data(id, i)]
      BY <1>1, <2>3 DEF Told
    <3> HIDE DEF old, now, new
    <3>3. Len(old[id]) = block[id].words
      BY <3>1, <3>2
    <3>4. k \in Nat /\ 1 <= k
      BY <1>3
    <3> QED BY <2>1, <3>1, <3>2, <3>3, <3>4
  <2> QED BY <2>2, <2>3
<1> QED BY <1>3, <1>4, <1>5, <1>6, <1>8, <1>9, <1>10 DEF A!Provide, Contents

(* A call that takes the block of id back is the abstract one.             *)
LEMMA AbstractRelease ==
    ASSUME Safe(heap, block), Safe(heap', block'), NEW id \in Ids,
           block' = [block EXCEPT ![id] = None]
    PROVE  A!Release(id)
<1> DEFINE old == Contents(mem, block)
           now == Contents(mem', block')
<1>1. old = Told(block) /\ now = Told(block')
  BY AbstractContents
<1>2. block'[id] = None /\ \A o \in Ids : o # id => block'[o] = block[o]
  BY DEF Safe, BlockMaps
<1>3. now = [old EXCEPT ![id] = << >>]
  <2>1. \A o \in Ids : now[o] = IF o = id THEN << >> ELSE old[o]
    <3> HIDE DEF now, old
    <3> SUFFICES ASSUME NEW o \in Ids PROVE now[o] = IF o = id THEN << >> ELSE old[o]
      OBVIOUS
    <3>1. CASE o = id
      <4>1. Told(block')[o] = << >>
        BY <1>2, <3>1 DEF Told
      <4> QED BY <1>1, <3>1, <4>1
    <3>2. CASE o # id
      <4>1. block'[o] = block[o]
        BY <1>2, <3>2
      <4>2. Told(block')[o] = Told(block)[o]
        BY <4>1 DEF Told
      <4> QED BY <1>1, <3>2, <4>2
    <3> QED BY <3>1, <3>2
  <2>2. DOMAIN now = Ids /\ DOMAIN old = Ids
        /\ now = [o \in Ids |-> now[o]] /\ old = [o \in Ids |-> old[o]]
    BY DEF Contents
  <2> HIDE DEF now, old
  <2> QED BY <2>1, <2>2
<1> QED BY <1>3 DEF A!Release, Contents

-----------------------------------------------------------------------------
(* Every action provides a block, releases one, or leaves them alone.       *)
LEMMA ProvidedInOrder ==
    ASSUME NEW id \in Ids, InOrder(heap', block'), block \in BlockMaps,
           NEW b, b # None, block' = [block EXCEPT ![id] = b]
    PROVE  Provided(id)
<1>1. block'[id] = b /\ \A o \in Ids : o # id => block'[o] = block[o]
  BY DEF BlockMaps
<1>2. id \in Live(block')
  BY <1>1 DEF Live
<1>3. Holds(heap', id, block'[id]) /\ block' \in BlockMaps
  BY <1>2 DEF InOrder
<1>4. block'[id].words \in Nat /\ block'[id].words < Size(heap', block'[id].first - 1)
  BY <1>2, <1>3, LiveBlocks DEF Holds
<1>5. ASSUME NEW o \in Live(block) \ {id}
      PROVE  RangeOf(block'[id].first, block'[id].words)
                \cap RangeOf(block[o].first, block[o].words) = {}
  <2>1. o \in Live(block') /\ block'[o] = block[o] /\ id # o
    BY <1>1 DEF Live
  <2>2. RangeOf(block'[id].first, block'[id].words)
            \cap RangeOf(block'[o].first, block'[o].words) = {}
    BY <1>2, <1>4, <2>1, RangesApart
  <2> QED BY <2>1, <2>2
<1> QED BY <1>1, <1>5 DEF Provided

(* A resized block is apart from the client's others.                      *)
LEMMA ResizedProvides ==
    ASSUME IInv, IInv', fault' = "none", NEW id \in Live(block), NEW h, NEW q, NEW size,
           size \in Nat, size > 0, Resized(id, h, q, size), q \in Nat
    PROVE  A!Provide(id)
<1>1. Safe(heap, block) /\ Safe(heap', block') /\ InOrder(heap', block') /\ id \in Ids
  BY DEF IInv, Live
<1>2. block' = [block EXCEPT ![id] = Words(q, size)] /\ block \in BlockMaps
  BY <1>1 DEF Resized, Becomes, Safe
<1>3. Words(q, size) # None
  <2>1. q + 1 \in Nat /\ Align(size) \in Nat
    BY Aligned
  <2> QED BY <2>1, NoBlock DEF Words
<1>4. Provided(id)
  BY <1>1, <1>2, <1>3, ProvidedInOrder
<1> QED BY <1>1, <1>4, AbstractProvide

(* A block that shrinks is apart from the client's others.                 *)
LEMMA ShrinkProvides ==
    ASSUME IInv, IInv', NEW id \in Ids, NEW size \in Sizes, ReallocShrink(id, size)
    PROVE  A!Provide(id)
<1> DEFINE p == block[id].first - 1
           w == Align(size)
<1>1. fault = "none" /\ id \in Live(block) /\ size > 0 /\ Size(heap, p) - Need(size) >= 0
  BY DEF ReallocShrink, Reallocs, Live
<1>2. InOrder(heap, block) /\ Safe(heap, block) /\ Safe(heap', block') /\ block \in BlockMaps
  BY <1>1 DEF IInv, Safe
<1>3. w \in Nat /\ w > 0 /\ Need(size) = w + 1
  BY <1>1, RequestType, Aligned DEF Need
<1>4. p \in Held(block) /\ heap \in Heaps /\ p \in Nat
  <2>1. p \in Held(block) /\ Sound(heap, Held(block))
    BY <1>1, <1>2, OthersApart DEF InOrder
  <2> QED BY <2>1, SoundBlocks
<1>5. block[id].first \in Nat /\ p + 1 = block[id].first
  BY <1>1, <1>2, LiveBlocks
<1>6. w < Size(heap, p)
  <2>1. Size(heap, p) \in Int
    BY <1>4, TagsType
  <2> QED BY <1>1, <1>3, <2>1
<1>7. block' = [block EXCEPT ![id] = Words(p, size)]
  BY DEF ReallocShrink, Resized, Becomes
<1>8. Words(p, size) = [first |-> block[id].first, words |-> w]
  BY <1>5 DEF Words
<1>9. block'[id] = [first |-> block[id].first, words |-> w]
  BY <1>2, <1>7, <1>8 DEF BlockMaps
<1>10. block'[id] # None
  BY <1>3, <1>5, <1>9, NoBlock
<1>11. ASSUME NEW o \in Live(block) \ {id}
       PROVE  RangeOf(block[id].first, w) \cap RangeOf(block[o].first, block[o].words) = {}
  <2> HIDE DEF w
  <2> QED BY <1>1, <1>2, <1>3, <1>6, RangesApart
<1>12. block' = [block EXCEPT ![id] = block'[id]]
  BY <1>7, <1>8, <1>9
<1>13. Provided(id)
  BY <1>9, <1>10, <1>11, <1>12 DEF Provided
<1> QED BY <1>2, <1>13, AbstractProvide

(* Every step is one of the abstract allocator, or leaves the client's     *)
(* blocks and their contents alone.                                        *)
LEMMA StepAllocates ==
    ASSUME IInv, IInv', [Next]_vars
    PROVE  [A!AllocatorNext]_<<block, Contents(mem, block)>>
<1> DEFINE Same == block' = block /\ Contents(mem', block') = Contents(mem, block)
<1> SUFFICES A!AllocatorNext \/ Same
  OBVIOUS
<1>1. Safe(heap, block) /\ Safe(heap', block') /\ block \in BlockMaps
  BY DEF IInv, Safe
<1>2. CASE UNCHANGED vars
  BY <1>2 DEF vars
<1>3. ASSUME NEW id \in Ids, Free(id) PROVE A!Release(id)
  <2>1. block' = [block EXCEPT ![id] = None]
    BY <1>3 DEF Free, Becomes
  <2> QED BY <1>1, <2>1, AbstractRelease
<1>4. ASSUME NEW id \in Ids, NEW size \in Sizes, Malloc(id, size)
      PROVE  A!Provide(id) \/ Same
  <2> DEFINE r == MmMalloc(heap, size)
  <2>1. CASE size = 0 \/ r.p = NULL
    <3>1. UNCHANGED <<mem, roots, block>>
      BY <1>4, <2>1 DEF Malloc
    <3> QED BY <3>1
  <2>2. CASE size # 0 /\ r.p # NULL
    <3>1. block' = [block EXCEPT ![id] = Words(r.p, size)] /\ fault = "none" /\ fault' = fault
      BY <1>4, <2>2 DEF Malloc, Becomes
    <3>2. size \in Nat /\ size > 0
      BY <2>2, RequestType
    <3>3. Sound(heap, Held(block)) /\ InOrder(heap', block')
      BY <3>1 DEF IInv, InOrder
    <3>4. r.p \in Nat
      <4>1. Handed(heap, r, Held(block), Align(size) + 1)
        BY <2>2, <3>2, <3>3, MmMallocSound
      <4> QED BY <4>1 DEF Handed
    <3> HIDE DEF r
    <3>5. Words(r.p, size) # None
      <4>1. r.p + 1 \in Nat /\ Align(size) \in Nat
        BY <3>2, <3>4, Aligned
      <4> QED BY <4>1, NoBlock DEF Words
    <3>6. Provided(id)
      BY <1>1, <3>1, <3>3, <3>5, ProvidedInOrder
    <3> QED BY <1>1, <3>6, AbstractProvide
  <2> QED BY <2>1, <2>2
<1>5. ASSUME NEW id \in Ids, NEW size \in Sizes, ReallocShrink(id, size)
      PROVE  A!Provide(id)
  BY <1>5, ShrinkProvides
<1>6. ASSUME NEW id \in Ids, NEW size \in Sizes, ReallocExtend(id, size)
      PROVE  A!Provide(id)
  <2> DEFINE p == block[id].first - 1
             n == Following(heap, p)
             rest == (Size(heap, p) + Size(heap, n)) - Need(size)
  <2>1. fault = "none" /\ fault' = fault /\ id \in Live(block) /\ size > 0 /\ Extensible(p, size)
    BY <1>6 DEF ReallocExtend, Reallocs, Live
  <2>2. size \in Nat
    BY RequestType
  <2>3. InOrder(heap, block)
    BY <2>1 DEF IInv
  <2>4. p \in Held(block) /\ Sound(heap, Held(block))
    BY <2>1, <2>3, OthersApart DEF InOrder
  <2>5. p \in Nat /\ heap \in Heaps
    BY <2>4, SoundBlocks
  <2>6. \/ \E h : Resized(id, h, p, size)
        \/ ~(rest < MinBlock) /\ \E h : Resized(id, h, p + rest, size)
    BY <1>6 DEF ReallocExtend
  <2>7. ~(rest < MinBlock) => rest \in Nat
    <3>1. Size(heap, p) \in Int /\ Size(heap, n) \in Int
      BY <2>5, TagsType
    <3>2. Need(size) \in Int
      BY <2>1, <2>2, Aligned DEF Need
    <3> QED BY <3>1, <3>2 DEF MinBlock
  <2> HIDE DEF p, rest
  <2>8. \E h, q : q \in Nat /\ Resized(id, h, q, size)
    <3>1. ~(rest < MinBlock) => p + rest \in Nat
      BY <2>5, <2>7
    <3> QED BY <2>5, <2>6, <3>1
  <2> QED BY <2>1, <2>2, <2>8, ResizedProvides
<1>7. ASSUME NEW id \in Ids, NEW size \in Sizes, ReallocMove(id, size)
      PROVE  A!Provide(id) \/ Same
  <2> DEFINE r == MmMalloc(heap, size)
  <2>1. fault = "none" /\ id \in Live(block) /\ size > 0
    BY <1>7 DEF ReallocMove, Reallocs, Live
  <2>2. CASE r.p = NULL
    <3>1. UNCHANGED <<mem, roots, block>>
      BY <1>7, <2>2 DEF ReallocMove
    <3> QED BY <3>1
  <2>3. CASE r.p # NULL
    <3>1. fault' = fault /\ \E h : Resized(id, h, r.p, size)
      BY <1>7, <2>3 DEF ReallocMove
    <3>2. size \in Nat /\ Sound(heap, Held(block))
      BY <2>1, RequestType DEF IInv, InOrder
    <3>3. r.p \in Nat
      <4>1. Handed(heap, r, Held(block), Align(size) + 1)
        BY <2>1, <2>3, <3>2, MmMallocSound
      <4> QED BY <4>1 DEF Handed
    <3> HIDE DEF r
    <3> QED BY <2>1, <3>1, <3>2, <3>3, ResizedProvides
  <2> QED BY <2>2, <2>3
<1>8. CASE Stopped
  BY <1>2, <1>8 DEF Stopped
<1> HIDE DEF Same
<1> QED BY <1>2, <1>3, <1>4, <1>5, <1>6, <1>7, <1>8 DEF Next, A!AllocatorNext

(* mm.c is an allocator, mdriver.c:640-661: every call gives the client a   *)
(* block of its own, takes one back, or does nothing, and realloc keeps    *)
(* what the block held.                                                    *)
THEOREM Allocates == Spec => AllocatorSpec
<1>1. Init => A!AllocatorInit
  <2> SUFFICES ASSUME Init PROVE A!AllocatorInit
    OBVIOUS
  <2>1. block = [id \in Ids |-> None]
    BY DEF Init
  <2> QED BY <2>1 DEF A!AllocatorInit
<1>2. IInv /\ IInv' /\ [Next]_vars => [A!AllocatorNext]_<<block, Contents(mem, block)>>
  BY StepAllocates
<1>3. IInv /\ IInv' /\ [Next]_vars =>
        [A!AllocatorNext]_<<block, [id \in Ids |->
            IF block[id] = None THEN << >>
            ELSE SubSeq(mem, block[id].first, block[id].first + block[id].words - 1)]>>
  BY <1>2 DEF Contents
<1> QED BY <1>1, <1>3, Invariance, PTL DEF Spec, AllocatorSpec, A!AllocatorSpec
=============================================================================
