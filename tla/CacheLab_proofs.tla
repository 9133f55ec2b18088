--------------------------- MODULE CacheLab_proofs ---------------------------
(***************************************************************************)
(* Theorems about the two parts of the cache lab.  The simulator implements*)
(* LRU, for every geometry and every trace.  The transpose functions leave *)
(* transposed blocks behind them, for every set of shapes, and transpose   *)
(* each matrix they support.                                               *)
(***************************************************************************)
EXTENDS Csim, Trans, Counting, SequenceTheorems

(* The simulator.                                                          *)

Line == [tag : 0 .. TagMod - 1, valid : BOOLEAN]
Indices == 0 .. geometry.setNum - 1
Ways == 1 .. geometry.associativity

(* The last position of x in a trace, 0 if there is none.                  *)
LastIn(h, x) == Max({m \in 1 .. Len(h) : h[m] = x} \cup {0})

(* The block a line holds.  Valid lines come last, in the order of their    *)
(* last use, and a block that was accessed and is in no line has made       *)
(* room for a full set of later ones.                                       *)
Held(k, i) == sets[k][i].tag * geometry.setNum + k
LastUse(x) == LastIn(history, x)

Types ==
    /\ geometry \in Geometries
    /\ sets \in [Indices -> Seq(Line)]
    /\ \A k \in Indices : Len(sets[k]) = geometry.associativity
    /\ hits \in Nat /\ misses \in Nat /\ evictions \in Nat
    /\ history \in Seq(Nat)

InOrder ==
    \A k \in Indices : \A i \in Ways : sets[k][i].valid =>
        /\ LastUse(Held(k, i)) # 0
        /\ \A j \in Ways : i < j =>
            sets[k][j].valid /\ LastUse(Held(k, i)) < LastUse(Held(k, j))

Listed(k, x) == \E i \in Ways : sets[k][i].valid /\ Held(k, i) = x
Outlived(k, x) ==
    \A i \in Ways : sets[k][i].valid /\ LastUse(x) < LastUse(Held(k, i))

Kept ==
    \A m \in 1 .. Len(history) :
        LET x == history[m]
            k == x % geometry.setNum
        IN  Listed(k, x) \/ Outlived(k, x)

IInv == Types /\ InOrder /\ Kept

(* The last use of a block, in LRU and in terms of LastIn.                 *)
LEMMA LastUseIs == \A x : LRUCache!LastUse(x) = LastIn(history, x)
BY DEF LRUCache!LastUse, LRUCache!Max, Max, LastIn

(* The instance counts as this module does.                                *)
LEMMA SameCardinality == \A T : LRUCache!Cardinality(T) = Cardinality(T)
BY DEF LRUCache!Cardinality, Cardinality

(* Arithmetic of blocks: a block is its tag and its set.                   *)
LEMMA BlockParts ==
    ASSUME NEW g \in Geometries, NEW a \in Addresses
    PROVE  /\ g.setNum \in Nat /\ g.setNum > 1
           /\ SetIndex(g, a) \in 0 .. g.setNum - 1
           /\ TagIndex(g, a) \in 0 .. TagMod - 1
           /\ BlockOf(g, a) \in Nat
           /\ BlockOf(g, a) = TagIndex(g, a) * g.setNum + SetIndex(g, a)
<1> DEFINE S == g.setNum
           size == g.blockSize
           x == BlockOf(g, a)
<1>1. /\ S \in Nat /\ S > 1 /\ size \in Nat /\ size > 0 /\ a \in Nat
      /\ TagMod \in Nat /\ TagMod > 0 /\ a < S * size * TagMod
  BY GeometryAssumption
<1>2. x = a \div size /\ SetIndex(g, a) = x % S /\ TagIndex(g, a) = (a \div (S * size)) % TagMod
  BY DEF SetIndex, BlockOf, TagIndex
<1> HIDE DEF S, size, x
<1>3. x \in Nat /\ a = size * x + (a % size) /\ a % size \in 0 .. size - 1
  BY <1>1, <1>2
<1> DEFINE q == x \div S
<1>4. q \in Nat /\ x = S * q + (x % S) /\ x % S \in 0 .. S - 1
  BY <1>1, <1>3
<1>5. a \div (S * size) = q
  <2>1. a \div (S * size) = (a \div size) \div S
    BY <1>1
  <2> QED BY <1>2, <2>1
<1>6. q < TagMod
  <2>1. SUFFICES ASSUME q >= TagMod PROVE FALSE
    BY <1>1, <1>4
  <2> HIDE DEF q
  <2>2. S * q >= S * TagMod
    BY <1>1, <1>4, <2>1
  <2>3. x >= S * TagMod /\ S * TagMod \in Nat
    BY <1>1, <1>3, <1>4, <2>2
  <2>4. size * x >= size * (S * TagMod)
    BY <1>1, <1>3, <2>3
  <2>5. size * (S * TagMod) = S * size * TagMod
    BY <1>1
  <2> QED BY <1>1, <1>3, <2>4, <2>5
<1> HIDE DEF q
<1>7. q % TagMod = q
  BY <1>1, <1>4, <1>6
<1>8. x = q * S + (x % S) /\ q \in 0 .. TagMod - 1
  BY <1>1, <1>4, <1>6
<1>9. SetIndex(g, a) = x % S /\ TagIndex(g, a) = q
  BY <1>2, <1>5, <1>7
<1>10. x = TagIndex(g, a) * S + SetIndex(g, a)
  BY <1>8, <1>9
<1> QED BY <1>1, <1>3, <1>4, <1>8, <1>9, <1>10 DEF S, x

(* A block number has one set index and one tag.                           *)
LEMMA PartsUnique ==
    ASSUME NEW S \in Nat, S > 0, NEW t \in Nat, NEW u \in Nat,
           NEW k \in 0 .. S - 1, NEW l \in 0 .. S - 1
    PROVE  /\ (t * S + k) % S = k /\ t * S + k \in Nat
           /\ t * S + k = u * S + l => t = u /\ k = l
<1>1. (t * S + k) % S = k /\ t * S + k \in Nat
  OBVIOUS
<1>2. (u * S + l) % S = l
  OBVIOUS
<1>3. ASSUME t * S = u * S PROVE t = u
  BY <1>3
<1> QED BY <1>1, <1>2, <1>3

-----------------------------------------------------------------------------
(* Maxima of finite sets of numbers, and how many things there are.        *)
LEMMA MaxOf ==
    ASSUME NEW n \in Nat, NEW T, T \subseteq 0 .. n, T # {}
    PROVE  Max(T) \in T /\ \A y \in T : y <= Max(T)
<1> DEFINE D == {n - y : y \in T}
<1>1. D \subseteq Nat /\ D # {}
  <2>1. \A y \in T : n - y \in Nat
    OBVIOUS
  <2> QED BY <2>1
<1>2. PICK d \in D : \A e \in D : d <= e
  BY <1>1, LeastMember
<1>3. PICK x \in T : d = n - x
  BY <1>2
<1>4. \A y \in T : n - x <= n - y
  BY <1>2, <1>3
<1>5. \A y \in T : x >= y
  BY <1>4
<1>6. \E z \in T : \A y \in T : z >= y
  BY <1>5
<1>7. Max(T) \in T /\ \A y \in T : Max(T) >= y
  BY <1>6 DEF Max
<1> QED BY <1>7

(* What LastIn returns.                                                    *)
LEMMA LastInIs ==
    ASSUME NEW h, Len(h) \in Nat, NEW x
    PROVE  /\ LastIn(h, x) \in 0 .. Len(h)
           /\ LastIn(h, x) # 0 => h[LastIn(h, x)] = x
           /\ \A m \in 1 .. Len(h) : h[m] = x => m <= LastIn(h, x)
<1> DEFINE T == {m \in 1 .. Len(h) : h[m] = x} \cup {0}
<1>1. T \subseteq 0 .. Len(h) /\ T # {}
  OBVIOUS
<1>2. LastIn(h, x) \in T /\ \A m \in T : m <= LastIn(h, x)
  BY <1>1, MaxOf DEF LastIn
<1> QED BY <1>2

(* An access is the last use of its block, and of no other.                *)
LEMMA LastInAppended ==
    ASSUME NEW S, NEW h \in Seq(S), NEW x \in S
    PROVE  /\ LastIn(Append(h, x), x) = Len(h) + 1
           /\ \A y : y # x => LastIn(Append(h, x), y) = LastIn(h, y)
<1> DEFINE e == Append(h, x)
           n == Len(h)
<1>1. /\ n \in Nat /\ Len(e) = n + 1 /\ e[n + 1] = x
      /\ \A m \in 1 .. n : e[m] = h[m]
  BY LenProperties, AppendProperties
<1> HIDE DEF e, n
<1>2. LastIn(e, x) = n + 1
  <2>1. /\ LastIn(e, x) \in 0 .. n + 1
        /\ \A m \in 1 .. n + 1 : e[m] = x => m <= LastIn(e, x)
    BY <1>1, LastInIs
  <2>2. n + 1 \in 1 .. n + 1
    BY <1>1
  <2> QED BY <1>1, <2>1, <2>2
<1>3. ASSUME NEW y, y # x PROVE LastIn(e, y) = LastIn(h, y)
  <2>1. {m \in 1 .. Len(e) : e[m] = y} = {m \in 1 .. Len(h) : h[m] = y}
    BY <1>1, <1>3 DEF n
  <2> QED BY <2>1 DEF LastIn
<1> QED BY <1>2, <1>3 DEF e, n

(* f from a to z takes every value in T.                                   *)
Covers(f, a, z, T) == \A y \in T : \E i \in a .. z : y = f[i]

(* A set that f covers has no more members than f has places.              *)
LEMMA AtMost ==
    ASSUME NEW a \in Nat, NEW z \in Nat, a <= z + 1, NEW f, NEW T,
           Covers(f, a, z, T)
    PROVE  IsFiniteSet(T) /\ Cardinality(T) \in Nat /\ Cardinality(T) <= z - a + 1
<1> DEFINE R == {f[i] : i \in a .. z}
           g == [i \in a .. z |-> f[i]]
<1>1. IsFiniteSet(a .. z) /\ Cardinality(a .. z) = z - a + 1
  <2>1. /\ IsFiniteSet(a .. z)
        /\ Cardinality(a .. z) = IF a > z THEN 0 ELSE z - a + 1
    BY FS_Interval
  <2> QED BY <2>1
<1>2. g \in Surjection(a .. z, R)
  BY DEF Surjection
<1>3. IsFiniteSet(R) /\ Cardinality(R) <= z - a + 1 /\ T \subseteq R
  BY <1>1, <1>2, FS_Surjection DEF Covers
<1>4. IsFiniteSet(T) /\ Cardinality(T) <= Cardinality(R)
  BY <1>3, FS_Subset
<1>5. Cardinality(T) \in Nat /\ Cardinality(R) \in Nat
  BY <1>3, <1>4, FS_CardinalityType
<1> QED BY <1>3, <1>4, <1>5

(* A set that n different values are in has at least n members.            *)
LEMMA AtLeast ==
    ASSUME NEW n \in Nat, NEW f, NEW T, IsFiniteSet(T),
           \A i \in 1 .. n : f[i] \in T,
           \A i, j \in 1 .. n : f[i] = f[j] => i = j
    PROVE  Cardinality(T) \in Nat /\ Cardinality(T) >= n
<1> DEFINE g == [i \in 1 .. n |-> f[i]]
<1>1. Cardinality(1 .. n) = n
  BY FS_Interval
<1>2. g \in Injection(1 .. n, T)
  BY DEF Injection, IsInjective
<1>3. Cardinality(1 .. n) <= Cardinality(T)
  BY <1>2, FS_Injection
<1>4. Cardinality(T) \in Nat
  BY FS_CardinalityType
<1> QED BY <1>1, <1>3, <1>4

(* A line is taken out of the list and a new one put at its end.           *)
LEMMA Requeued ==
    ASSUME NEW S, NEW s \in Seq(S), NEW p \in 1 .. Len(s), NEW x \in S
    PROVE  LET r == Append(RemoveAt(s, p), x) IN
           /\ r \in Seq(S) /\ Len(r) = Len(s)
           /\ \A i \in 1 .. Len(s) :
                r[i] = IF i = Len(s) THEN x ELSE IF i < p THEN s[i] ELSE s[i + 1]
<1> DEFINE n == Len(s)
           u == SubSeq(s, 1, p - 1)
           v == SubSeq(s, p + 1, n)
           r == Append(RemoveAt(s, p), x)
<1>1. n \in Nat /\ \A i \in 1 .. n : s[i] \in S
  BY LenProperties, ElementOfSeq
<1>2. /\ u \in Seq(S) /\ Len(u) = p - 1
      /\ \A i \in 1 .. p - 1 : u[i] = s[i]
  <2>1. \A i \in 1 .. p - 1 : s[i] \in S
    BY <1>1
  <2>2. /\ u \in Seq(S)
        /\ Len(u) = IF 1 <= p - 1 THEN p - 1 - 1 + 1 ELSE 0
        /\ \A i \in 1 .. p - 1 - 1 + 1 : u[i] = s[1 + i - 1]
    BY <1>1, <2>1, SubSeqProperties
  <2> QED BY <1>1, <2>2
<1>3. /\ v \in Seq(S) /\ Len(v) = n - p
      /\ \A i \in 1 .. n - p : v[i] = s[p + i]
  <2>1. \A i \in p + 1 .. n : s[i] \in S
    BY <1>1
  <2>2. /\ v \in Seq(S)
        /\ Len(v) = IF p + 1 <= n THEN n - (p + 1) + 1 ELSE 0
        /\ \A i \in 1 .. n - (p + 1) + 1 : v[i] = s[p + 1 + i - 1]
    BY <1>1, <2>1, SubSeqProperties
  <2> QED BY <1>1, <2>2
<1>4. r = Append(u \o v, x)
  BY DEF RemoveAt
<1> HIDE DEF n, u, v, r
<1>5. p \in 1 .. n
  BY DEF n
<1>6. /\ u \o v \in Seq(S) /\ Len(u \o v) = n - 1
      /\ \A i \in 1 .. n - 1 : (u \o v)[i] = IF i < p THEN s[i] ELSE s[i + 1]
  <2>1. /\ u \o v \in Seq(S) /\ Len(u \o v) = Len(u) + Len(v)
        /\ \A i \in 1 .. Len(u) + Len(v) :
             (u \o v)[i] = IF i <= Len(u) THEN u[i] ELSE v[i - Len(u)]
    BY <1>2, <1>3, ConcatProperties
  <2>2. ASSUME NEW i \in 1 .. n - 1
        PROVE  (u \o v)[i] = IF i < p THEN s[i] ELSE s[i + 1]
    <3>1. i \in 1 .. Len(u) + Len(v) /\ (i <= Len(u) <=> i < p)
      BY <1>1, <1>2, <1>3, <1>5
    <3>2. i < p => u[i] = s[i]
      BY <1>2, <1>5
    <3>3. ~(i < p) => v[i - Len(u)] = s[i + 1]
      <4>1. ASSUME ~(i < p) PROVE i - Len(u) \in 1 .. n - p /\ p + (i - Len(u)) = i + 1
        BY <1>1, <1>2, <1>5, <4>1
      <4> QED BY <1>3, <4>1
    <3> QED BY <2>1, <3>1, <3>2, <3>3
  <2> QED BY <1>1, <1>2, <1>3, <1>5, <2>1, <2>2
<1>7. /\ r \in Seq(S) /\ Len(r) = n /\ r[n] = x
      /\ \A i \in 1 .. n - 1 : r[i] = (u \o v)[i]
  <2> DEFINE w == u \o v
  <2>1. w \in Seq(S) /\ Len(w) = n - 1
    BY <1>6
  <2>2. r = Append(w, x)
    BY <1>4
  <2> HIDE DEF w
  <2>3. /\ r \in Seq(S) /\ Len(r) = n - 1 + 1 /\ r[n - 1 + 1] = x
        /\ \A i \in 1 .. n - 1 : r[i] = w[i]
    BY <2>1, <2>2, AppendProperties
  <2>4. n - 1 + 1 = n
    BY <1>1
  <2> QED BY <2>3, <2>4 DEF w
<1> SUFFICES /\ r \in Seq(S) /\ Len(r) = n
             /\ \A i \in 1 .. n :
                  r[i] = IF i = n THEN x ELSE IF i < p THEN s[i] ELSE s[i + 1]
  BY DEF r, n
<1>8. ASSUME NEW i \in 1 .. n, i # n PROVE i \in 1 .. n - 1
  BY <1>1, <1>8
<1> QED BY <1>6, <1>7, <1>8

-----------------------------------------------------------------------------
(* Which line is filled.                                                   *)
LEMMA TargetIs ==
    ASSUME NEW s \in Seq(Line), Len(s) # 0, NEW t
    PROVE  /\ Target(s, t) \in 1 .. Len(s)
           /\ WithTag(s, t) # {} =>
                /\ s[Target(s, t)].tag = t
                /\ \A i \in 1 .. Len(s) : s[i].tag = t => i <= Target(s, t)
           /\ WithTag(s, t) = {} =>
                IF Invalid(s) # {} THEN ~s[Target(s, t)].valid ELSE Target(s, t) = 1
<1>1. Len(s) \in Nat /\ DOMAIN s = 1 .. Len(s)
  BY LenProperties
<1>2. CASE WithTag(s, t) # {}
  <2>1. WithTag(s, t) \subseteq 0 .. Len(s)
    BY <1>1 DEF WithTag
  <2>2. Target(s, t) = Max(WithTag(s, t))
    BY <1>2 DEF Target
  <2>3. Target(s, t) \in WithTag(s, t) /\ \A i \in WithTag(s, t) : i <= Target(s, t)
    BY <1>1, <1>2, <2>1, <2>2, MaxOf
  <2> QED BY <1>1, <1>2, <2>3 DEF WithTag
<1>3. CASE WithTag(s, t) = {} /\ Invalid(s) # {}
  <2>1. Invalid(s) \subseteq Nat
    BY <1>1 DEF Invalid
  <2>2. \E x \in Invalid(s) : \A y \in Invalid(s) : x <= y
    BY <1>3, <2>1, LeastMember
  <2>3. Target(s, t) = Min(Invalid(s))
    BY <1>3 DEF Target
  <2>4. Target(s, t) \in Invalid(s)
    BY <2>2, <2>3 DEF Min
  <2> QED BY <1>1, <1>3, <2>4 DEF Invalid
<1>4. CASE WithTag(s, t) = {} /\ Invalid(s) = {}
  BY <1>1, <1>4 DEF Target
<1> QED BY <1>2, <1>3, <1>4

(* The types of IInv without records, as the arithmetic needs them.        *)
LEMMA Basics ==
    ASSUME Types
    PROVE  /\ geometry.setNum \in Nat /\ geometry.setNum > 1
           /\ geometry.associativity \in Nat /\ geometry.associativity > 0
           /\ Len(history) \in Nat
           /\ \A m \in 1 .. Len(history) :
                history[m] \in Nat /\ history[m] % geometry.setNum \in Indices
           /\ \A k \in Indices :
                /\ sets[k] \in Seq(Line) /\ Len(sets[k]) = geometry.associativity
                /\ DOMAIN sets[k] = Ways
                /\ \A i \in Ways :
                     /\ sets[k][i] \in Line /\ sets[k][i].tag \in Nat
                     /\ Held(k, i) \in Nat /\ Held(k, i) % geometry.setNum = k
                     /\ \A t \in Nat : Held(k, i) = t * geometry.setNum + k
                                         <=> sets[k][i].tag = t
<1> DEFINE S == geometry.setNum
<1>1. /\ S \in Nat /\ S > 1
      /\ geometry.associativity \in Nat /\ geometry.associativity > 0
      /\ TagMod \in Nat
  BY GeometryAssumption DEF Types
<1> HIDE DEF S
<1>2. Len(history) \in Nat /\ \A m \in 1 .. Len(history) : history[m] \in Nat
  BY LenProperties, ElementOfSeq DEF Types
<1>3. \A m \in 1 .. Len(history) : history[m] % S \in 0 .. S - 1
  BY <1>1, <1>2
<1>4. ASSUME NEW k \in Indices
      PROVE  /\ sets[k] \in Seq(Line) /\ Len(sets[k]) = geometry.associativity
             /\ DOMAIN sets[k] = Ways /\ \A i \in Ways : sets[k][i] \in Line
  <2>1. sets[k] \in Seq(Line) /\ Len(sets[k]) = geometry.associativity
    BY DEF Types
  <2> QED BY <2>1, LenProperties, ElementOfSeq DEF Ways
<1>5. ASSUME NEW k \in Indices, NEW i \in Ways
      PROVE  /\ sets[k][i].tag \in Nat
             /\ Held(k, i) \in Nat /\ Held(k, i) % S = k
             /\ \A t \in Nat : Held(k, i) = t * S + k <=> sets[k][i].tag = t
  <2>1. sets[k][i].tag \in Nat
    BY <1>1, <1>4 DEF Line
  <2>2. k \in 0 .. S - 1 /\ Held(k, i) = sets[k][i].tag * S + k
    BY DEF Indices, Held, S
  <2> DEFINE u == sets[k][i].tag
  <2>3. S > 0 /\ u \in Nat /\ Held(k, i) = u * S + k
    BY <1>1, <2>1, <2>2
  <2> HIDE DEF u
  <2>4. (u * S + k) % S = k /\ u * S + k \in Nat
    BY <1>1, <2>2, <2>3, PartsUnique
  <2>5. ASSUME NEW t \in Nat, u * S + k = t * S + k PROVE u = t
    BY <1>1, <2>2, <2>3, <2>5, PartsUnique
  <2> QED BY <2>3, <2>4, <2>5 DEF u
<1> QED BY <1>1, <1>2, <1>3, <1>4, <1>5 DEF S, Indices

(* The same, of one set and one tag.                                       *)
LEMMA SetFacts ==
    ASSUME IInv, NEW k \in Indices, NEW t \in Nat
    PROVE  /\ Len(history) \in Nat
           /\ \A m \in 1 .. Len(history) : history[m] \in Nat
           /\ geometry.associativity \in Nat /\ geometry.associativity > 0
           /\ Ways = 1 .. geometry.associativity
           /\ sets[k] \in Seq(Line) /\ Len(sets[k]) = geometry.associativity
           /\ DOMAIN sets[k] = Ways
           /\ \A i \in Ways : sets[k][i] \in Line
           /\ \A i \in Ways : Held(k, i) % geometry.setNum = k
           /\ \A i \in Ways : sets[k][i].tag = t <=> Held(k, i) = t * geometry.setNum + k
<1>1. Types
  BY DEF IInv
<1>2. /\ Len(history) \in Nat
      /\ \A m \in 1 .. Len(history) : history[m] \in Nat
      /\ geometry.associativity \in Nat /\ geometry.associativity > 0
  BY <1>1, Basics
<1>3. Ways = 1 .. geometry.associativity
  BY DEF Ways
<1>4. /\ sets[k] \in Seq(Line) /\ Len(sets[k]) = geometry.associativity
      /\ DOMAIN sets[k] = Ways
  BY <1>1, Basics
<1>5. ASSUME NEW i \in Ways
      PROVE  /\ sets[k][i] \in Line /\ Held(k, i) % geometry.setNum = k
             /\ Held(k, i) = t * geometry.setNum + k <=> sets[k][i].tag = t
  BY <1>1, Basics
<1> QED BY <1>2, <1>3, <1>4, <1>5

(* The block of tag t and index k belongs to set k.                        *)
LEMMA SetOfParts ==
    ASSUME Types, NEW k \in Indices, NEW t \in Nat
    PROVE  (t * geometry.setNum + k) % geometry.setNum = k
<1> DEFINE S == geometry.setNum
<1>1. S \in Nat /\ S > 1
  BY Basics
<1>2. k \in 0 .. S - 1
  BY DEF Indices
<1> HIDE DEF S
<1>3. (t * S + k) % S = k
  BY <1>1, <1>2, PartsUnique
<1> QED BY <1>3 DEF S

(* What LRU says of the blocks of one set since a line of the trace...     *)
LEMMA SinceIs ==
    \A x, y, first :
        y \in LRUCache!Since(x, first) <=>
            \E m \in first .. Len(history) :
                y = history[m] /\ x % geometry.setNum = y % geometry.setNum
BY DEF LRUCache!Since, LRUCache!SameSet, SetOfBlock

(* ... when it has a hit...                                                *)
LEMMA HitIs ==
    \A x : LRUCache!Hit(x) <=>
        /\ LastUse(x) # 0
        /\ Cardinality(LRUCache!Since(x, LastUse(x)) \ {x}) < geometry.associativity
BY LastUseIs, SameCardinality DEF LRUCache!Hit, LinesOf, LastUse

(* ... and when it evicts.                                                 *)
LEMMA FullIs ==
    \A x : LRUCache!Full(x) <=>
        Cardinality(LRUCache!Since(x, 1)) >= geometry.associativity
BY SameCardinality DEF LRUCache!Full, LinesOf

(* A lookup hits, and a miss evicts, as the history says.                  *)
LEMMA HitFound ==
    ASSUME IInv, NEW k \in Indices, NEW t \in Nat, IsCacheHit(sets[k], t)
    PROVE  LRUCache!Hit(t * geometry.setNum + k)
<1> DEFINE x == t * geometry.setNum + k
           u == LastUse(x)
           n == Len(history)
           E == geometry.associativity
           T == LRUCache!Since(x, u) \ {x}
           f == [j \in Ways |-> Held(k, j)]
<1>1. /\ n \in Nat /\ E \in Nat /\ Ways = 1 .. E /\ DOMAIN sets[k] = Ways
      /\ \A m \in 1 .. n : history[m] \in Nat
      /\ \A i \in Ways : sets[k][i].tag = t <=> Held(k, i) = x
  BY SetFacts
<1>2. PICK i \in Ways : sets[k][i].valid /\ Held(k, i) = x
  BY <1>1 DEF IsCacheHit
<1>3. /\ u # 0 /\ u \in 1 .. n /\ history[u] = x
  <2>1. u # 0
    BY <1>2 DEF IInv, InOrder
  <2> QED BY <1>1, <2>1, LastInIs DEF LastUse
<1>4. x % geometry.setNum = k
  BY <1>2, Basics DEF IInv
<1> HIDE DEF x, u, n, E
<1>5. Covers(f, i + 1, E, T)
  <2> SUFFICES ASSUME NEW y \in T PROVE \E j \in i + 1 .. E : y = f[j]
    BY DEF Covers
  <2>1. PICK m \in u .. n : y = history[m] /\ x % geometry.setNum = y % geometry.setNum
    BY SinceIs DEF n
  <2>2. y # x /\ m \in 1 .. n /\ m > u
    BY <1>1, <1>3, <2>1
  <2>3. LastUse(y) \in Nat /\ LastUse(y) > u
    <3>1. LastUse(y) \in 0 .. n /\ m <= LastUse(y)
      BY <1>1, <2>1, <2>2, LastInIs DEF LastUse, n
    <3> QED BY <1>1, <1>3, <2>2, <3>1
  <2>4. Listed(k, y) \/ Outlived(k, y)
    BY <1>4, <2>1, <2>2 DEF IInv, Kept, n
  <2>5. ~Outlived(k, y)
    BY <1>2, <1>3, <2>3 DEF Outlived, u
  <2>6. PICK j \in Ways : sets[k][j].valid /\ Held(k, j) = y
    BY <2>4, <2>5 DEF Listed
  <2>7. ~(j < i)
    <3>1. j < i => LastUse(y) < u
      BY <1>2, <2>6 DEF IInv, InOrder, u
    <3> QED BY <1>1, <1>3, <2>3, <3>1
  <2>8. j \in i + 1 .. E
    BY <1>1, <1>2, <2>2, <2>6, <2>7
  <2> QED BY <2>6, <2>8
<1>6. i \in Nat /\ i <= E /\ i + 1 \in Nat /\ i + 1 <= E + 1
  BY <1>1
<1>7. Cardinality(T) \in Nat /\ Cardinality(T) <= E - (i + 1) + 1
  <2> HIDE DEF T, f
  <2> QED BY <1>1, <1>5, <1>6, AtMost
<1>8. Cardinality(T) < E
  <2> HIDE DEF T
  <2>1. i >= 1
    BY <1>1
  <2> QED BY <1>1, <1>6, <1>7, <2>1
<1> QED BY <1>3, <1>8, HitIs DEF x, u, E

(* A lookup that finds nothing is of a block that LRU does not have...     *)
LEMMA MissFound ==
    ASSUME IInv, NEW k \in Indices, NEW t \in Nat, ~IsCacheHit(sets[k], t)
    PROVE  ~LRUCache!Hit(t * geometry.setNum + k)
<1> DEFINE x == t * geometry.setNum + k
           u == LastUse(x)
           n == Len(history)
           E == geometry.associativity
           T == LRUCache!Since(x, u) \ {x}
           f == [j \in Ways |-> Held(k, j)]
<1>1. /\ n \in Nat /\ E \in Nat /\ Ways = 1 .. E /\ DOMAIN sets[k] = Ways
      /\ \A i \in Ways : /\ sets[k][i].tag = t <=> Held(k, i) = x
                         /\ Held(k, i) % geometry.setNum = k
  BY SetFacts
<1>2. \A i \in Ways : sets[k][i].valid => Held(k, i) # x
  BY <1>1 DEF IsCacheHit
<1>3. x % geometry.setNum = k
  BY SetOfParts DEF IInv
<1> SUFFICES ASSUME u # 0 PROVE ~(Cardinality(T) < E)
  BY HitIs
<1> HIDE DEF x, u, n, E
<1>4. u \in 1 .. n /\ history[u] = x
  <2>1. u \in 0 .. n /\ history[u] = x
    BY <1>1, LastInIs DEF LastUse, n, u
  <2> QED BY <1>1, <2>1
<1>5. Outlived(k, x)
  <2>1. Listed(k, x) \/ Outlived(k, x)
    BY <1>3, <1>4 DEF IInv, Kept, n
  <2> QED BY <1>2, <2>1 DEF Listed
<1>6. \A j \in 1 .. E : /\ sets[k][j].valid
                        /\ LastUse(f[j]) \in u + 1 .. n
                        /\ history[LastUse(f[j])] = f[j]
  <2> SUFFICES ASSUME NEW j \in 1 .. E
               PROVE  /\ sets[k][j].valid
                      /\ LastUse(f[j]) \in u + 1 .. n
                      /\ history[LastUse(f[j])] = f[j]
    OBVIOUS
  <2>1. sets[k][j].valid /\ u < LastUse(f[j])
    BY <1>1, <1>5 DEF Outlived, u
  <2>2. /\ LastUse(f[j]) \in 0 .. n
        /\ LastUse(f[j]) # 0 => history[LastUse(f[j])] = f[j]
    BY <1>1, LastInIs DEF LastUse, n
  <2> HIDE DEF f
  <2> QED BY <1>1, <1>4, <2>1, <2>2
<1>7. \A j \in 1 .. E : f[j] \in T
  <2> SUFFICES ASSUME NEW j \in 1 .. E PROVE f[j] \in T
    OBVIOUS
  <2>1. f[j] = Held(k, j) /\ f[j] # x
    BY <1>1, <1>2, <1>6
  <2>2. LastUse(f[j]) \in u .. n
    BY <1>1, <1>4, <1>6
  <2>3. f[j] \in LRUCache!Since(x, u)
    BY <1>1, <1>3, <1>6, <2>1, <2>2, SinceIs DEF n
  <2> QED BY <2>1, <2>3
<1>8. \A i, j \in 1 .. E : f[i] = f[j] => i = j
  <2> SUFFICES ASSUME NEW i \in 1 .. E, NEW j \in 1 .. E, i < j PROVE f[i] # f[j]
    BY <1>1
  <2>1. LastUse(f[i]) < LastUse(f[j])
    BY <1>1, <1>6 DEF IInv, InOrder
  <2>2. LastUse(f[i]) \in Int
    BY <1>1, <1>4, <1>6
  <2> HIDE DEF f
  <2> QED BY <2>1, <2>2
<1>9. Covers(history, u, n, T)
  BY SinceIs DEF n, Covers
<1> HIDE DEF T, f
<1>10. IsFiniteSet(T)
  <2>1. u \in Nat /\ u <= n + 1
    BY <1>1, <1>4
  <2> QED BY <1>1, <1>9, <2>1, AtMost
<1>11. Cardinality(T) \in Nat /\ Cardinality(T) >= E
  BY <1>1, <1>7, <1>8, <1>10, AtLeast
<1> QED BY <1>1, <1>11

(* ... and it evicts when LRU has a full set.                              *)
LEMMA EvictsWhenFull ==
    ASSUME IInv, NEW k \in Indices, NEW t \in Nat, ~IsCacheHit(sets[k], t)
    PROVE  Evicts(sets[k], t) <=> LRUCache!Full(t * geometry.setNum + k)
<1> DEFINE x == t * geometry.setNum + k
           n == Len(history)
           E == geometry.associativity
           T == LRUCache!Since(x, 1)
           f == [j \in Ways |-> Held(k, j)]
<1>1. /\ n \in Nat /\ E \in Nat /\ E > 0 /\ Ways = 1 .. E /\ DOMAIN sets[k] = Ways
      /\ \A m \in 1 .. n : history[m] \in Nat
      /\ \A i \in Ways : /\ sets[k][i] \in Line
                         /\ sets[k][i].tag = t <=> Held(k, i) = x
                         /\ Held(k, i) % geometry.setNum = k
  BY SetFacts
<1>2. Evicts(sets[k], t) <=> \A i \in Ways : sets[k][i].valid
  BY <1>1 DEF Evicts, WithTag, Invalid, IsCacheHit, Line
<1>3. x % geometry.setNum = k
  BY SetOfParts DEF IInv
<1> SUFFICES (\A i \in Ways : sets[k][i].valid) <=> Cardinality(T) >= E
  BY <1>2, FullIs
<1> HIDE DEF x, n, E
<1>4. ASSUME \A i \in Ways : sets[k][i].valid PROVE Cardinality(T) >= E
  <2>1. \A j \in 1 .. E : /\ f[j] = Held(k, j) /\ LastUse(f[j]) \in 1 .. n
                          /\ history[LastUse(f[j])] = f[j]
    <3> SUFFICES ASSUME NEW j \in 1 .. E
                 PROVE  /\ f[j] = Held(k, j) /\ LastUse(f[j]) \in 1 .. n
                        /\ history[LastUse(f[j])] = f[j]
      OBVIOUS
    <3>1. f[j] = Held(k, j) /\ LastUse(f[j]) # 0
      BY <1>1, <1>4 DEF IInv, InOrder
    <3>2. /\ LastUse(f[j]) \in 0 .. n
          /\ LastUse(f[j]) # 0 => history[LastUse(f[j])] = f[j]
      BY <1>1, LastInIs DEF LastUse, n
    <3> HIDE DEF f
    <3> QED BY <1>1, <3>1, <3>2
  <2>2. \A j \in 1 .. E : f[j] \in T
    <3> HIDE DEF f
    <3> QED BY <1>1, <1>3, <2>1, SinceIs DEF n
  <2>3. \A i, j \in 1 .. E : f[i] = f[j] => i = j
    <3> SUFFICES ASSUME NEW i \in 1 .. E, NEW j \in 1 .. E, i < j PROVE f[i] # f[j]
      BY <1>1
    <3>1. LastUse(f[i]) < LastUse(f[j])
      BY <1>1, <1>4, <2>1 DEF IInv, InOrder
    <3>2. LastUse(f[i]) \in Int
      BY <1>1, <2>1
    <3> HIDE DEF f
    <3> QED BY <3>1, <3>2
  <2>4. Covers(history, 1, n, T)
    BY SinceIs DEF n, Covers
  <2> HIDE DEF T, f
  <2>5. IsFiniteSet(T)
    <3>1. 1 <= n + 1
      BY <1>1
    <3> QED BY <1>1, <2>4, <3>1, AtMost
  <2> QED BY <1>1, <2>2, <2>3, <2>5, AtLeast
<1>5. ASSUME NEW i \in Ways, ~sets[k][i].valid PROVE ~(Cardinality(T) >= E)
  <2>1. ~sets[k][1].valid
    BY <1>1, <1>5 DEF IInv, InOrder
  <2>2. Covers(f, 2, E, T)
    <3> SUFFICES ASSUME NEW y \in T PROVE \E j \in 2 .. E : y = f[j]
      BY DEF Covers
    <3>1. PICK m \in 1 .. n : y = history[m] /\ x % geometry.setNum = y % geometry.setNum
      BY SinceIs DEF n
    <3>2. Listed(k, y) \/ Outlived(k, y)
      BY <1>3, <3>1 DEF IInv, Kept, n
    <3>3. PICK j \in Ways : sets[k][j].valid /\ Held(k, j) = y
      BY <1>5, <3>2 DEF Listed, Outlived
    <3>4. j \in 2 .. E
      BY <1>1, <2>1, <3>3
    <3> QED BY <3>3, <3>4
  <2> HIDE DEF T, f
  <2>3. 2 <= E + 1
    BY <1>1
  <2>4. Cardinality(T) \in Nat /\ Cardinality(T) <= E - 2 + 1
    BY <1>1, <2>2, <2>3, AtMost
  <2> QED BY <1>1, <2>4
<1> QED BY <1>4, <1>5

-----------------------------------------------------------------------------
(* A line of the trace.                                                    *)
LEMMA Accessed ==
    ASSUME IInv, NEW addr \in Addresses, NEW op \in {"L", "M"}, ReadLine(op, addr)
    PROVE  \E k \in Indices, t \in 0 .. TagMod - 1 :
             LET x == t * geometry.setNum + k
                 hit == IsCacheHit(sets[k], t)
             IN  /\ x = BlockOf(geometry, addr) /\ x \in Nat
                 /\ x % geometry.setNum = k /\ t \in Nat
                 /\ geometry' = geometry /\ history' = Append(history, x)
                 /\ sets' = [sets EXCEPT ![k] = UpdateCacheBlock(sets[k], t)]
                 /\ hits' = hits + One(hit) + One(op = "M")
                 /\ misses' = misses + One(~hit)
                 /\ evictions' = evictions + One(~hit /\ Evicts(sets[k], t))
<1> DEFINE g == geometry
           k == SetIndex(g, addr)
           t == TagIndex(g, addr)
<1>1. g \in Geometries /\ TagMod \in Nat
  BY GeometryAssumption DEF IInv, Types
<1>2. /\ g.setNum \in Nat /\ g.setNum > 1 /\ k \in 0 .. g.setNum - 1
      /\ t \in 0 .. TagMod - 1 /\ BlockOf(g, addr) \in Nat
      /\ BlockOf(g, addr) = t * g.setNum + k
  BY <1>1, BlockParts
<1>3. k \in Indices
  BY <1>2 DEF Indices
<1>4. /\ sets' = [sets EXCEPT ![k] = UpdateCacheBlock(sets[k], t)]
      /\ hits' = hits + One(IsCacheHit(sets[k], t)) + One(op = "M")
      /\ misses' = misses + One(~IsCacheHit(sets[k], t))
      /\ evictions' = evictions + One(~IsCacheHit(sets[k], t) /\ Evicts(sets[k], t))
      /\ geometry' = g /\ history' = Append(history, BlockOf(g, addr))
  BY DEF ReadLine, Fill, Simulate, Cache
<1> HIDE DEF g, k, t
<1>5. t \in Nat
  BY <1>1, <1>2
<1>6. (t * g.setNum + k) % g.setNum = k
  BY <1>3, <1>5, SetOfParts DEF IInv, g
<1> QED BY <1>2, <1>3, <1>4, <1>5, <1>6 DEF g

(* The lines of the set that was accessed, before and after.               *)
LEMMA Refilled ==
    ASSUME IInv, NEW k \in Indices, NEW t \in 0 .. TagMod - 1
    PROVE  LET s == sets[k]
               p == Target(s, t)
               r == UpdateCacheBlock(s, t)
               E == geometry.associativity
               x == t * geometry.setNum + k
           IN  /\ p \in 1 .. E /\ r \in Seq(Line) /\ Len(r) = E
               /\ r[E] = [tag |-> t, valid |-> TRUE]
               /\ \A i \in 1 .. E - 1 : r[i] = IF i < p THEN s[i] ELSE s[i + 1]
               /\ \A i \in Ways : s[i].valid /\ Held(k, i) = x => i = p
               /\ s[p].valid /\ Held(k, p) # x => p = 1 /\ \A i \in Ways : s[i].valid
<1> DEFINE s == sets[k]
           p == Target(s, t)
           l == [tag |-> t, valid |-> TRUE]
           r == UpdateCacheBlock(s, t)
           E == geometry.associativity
           x == t * geometry.setNum + k
<1>1. /\ t \in Nat /\ E \in Nat /\ E > 0 /\ Ways = 1 .. E /\ DOMAIN s = Ways
      /\ s \in Seq(Line) /\ Len(s) = E
      /\ \A i \in Ways : s[i].tag = t <=> Held(k, i) = x
  <2>1. t \in Nat
    BY GeometryAssumption
  <2> QED BY <2>1, SetFacts
<1>2. l \in Line /\ r = Append(RemoveAt(s, p), l)
  BY DEF Line, UpdateCacheBlock
<1>3. /\ p \in 1 .. E
      /\ WithTag(s, t) # {} =>
           s[p].tag = t /\ \A i \in 1 .. E : s[i].tag = t => i <= p
      /\ WithTag(s, t) = {} =>
           IF Invalid(s) # {} THEN ~s[p].valid ELSE p = 1
  BY <1>1, TargetIs
<1> HIDE DEF s, p, r, l
<1>4. /\ r \in Seq(Line) /\ Len(r) = E
      /\ \A i \in 1 .. E :
           r[i] = IF i = E THEN l ELSE IF i < p THEN s[i] ELSE s[i + 1]
  BY <1>1, <1>2, <1>3, Requeued
<1>5. r[E] = l /\ \A i \in 1 .. E - 1 : r[i] = IF i < p THEN s[i] ELSE s[i + 1]
  <2>1. E \in 1 .. E /\ \A i \in 1 .. E - 1 : i \in 1 .. E /\ i # E
    BY <1>1
  <2> QED BY <1>4, <2>1
<1>6. ASSUME NEW i \in Ways, s[i].valid, Held(k, i) = x PROVE i = p
  <2>1. s[i].tag = t /\ i \in WithTag(s, t)
    BY <1>1, <1>6 DEF WithTag
  <2>2. s[p].tag = t /\ i <= p /\ Held(k, p) = x
    BY <1>1, <1>3, <2>1
  <2>3. ~(i < p)
    <3>1. i < p => LastUse(x) < LastUse(x)
      BY <1>1, <1>3, <1>6, <2>2 DEF IInv, InOrder, s
    <3>2. LastUse(x) \in Int
      BY LastInIs, Basics DEF LastUse, IInv
    <3> HIDE DEF x
    <3> QED BY <3>1, <3>2
  <2> QED BY <1>1, <1>3, <2>2, <2>3
<1>7. ASSUME s[p].valid, Held(k, p) # x
      PROVE  p = 1 /\ \A i \in Ways : s[i].valid
  <2>1. WithTag(s, t) = {}
    BY <1>1, <1>3, <1>7
  <2>2. Invalid(s) = {} /\ p = 1
    BY <1>3, <1>7, <2>1
  <2> QED BY <1>1, <2>2 DEF Invalid
<1> QED BY <1>3, <1>4, <1>5, <1>6, <1>7 DEF s, p, r, l

(* Moving the accessed line to the end of its set keeps the order of the   *)
(* lines and the blocks that LRU keeps.                                    *)
LEMMA AccessKeeps ==
    ASSUME IInv, NEW k \in Indices, NEW t \in 0 .. TagMod - 1,
           NEW x, x = t * geometry.setNum + k,
           geometry' = geometry, history' = Append(history, x),
           sets' = [sets EXCEPT ![k] = UpdateCacheBlock(sets[k], t)]
    PROVE  /\ sets' \in [Indices' -> Seq(Line)]
           /\ \A j \in Indices' : Len(sets'[j]) = geometry'.associativity
           /\ history' \in Seq(Nat)
           /\ InOrder' /\ Kept'
<1> DEFINE s == sets[k]
           p == Target(s, t)
           r == UpdateCacheBlock(s, t)
           E == geometry.associativity
           S == geometry.setNum
           n == Len(history)
           From(i) == IF i < p THEN i ELSE i + 1
<1>1. /\ E \in Nat /\ E > 0 /\ n \in Nat /\ S \in Nat /\ S > 0 /\ t \in Nat
      /\ Ways = 1 .. E /\ Ways' = Ways /\ Indices' = Indices
      /\ \A m \in 1 .. n : history[m] \in Nat /\ history[m] % S \in Indices
      /\ \A j \in Indices : \A i \in Ways :
           Held(j, i) \in Nat /\ Held(j, i) % S = j
  <2>1. t \in Nat
    BY GeometryAssumption
  <2>2. Ways = 1 .. E /\ Ways' = Ways /\ Indices' = Indices
    BY DEF Ways, Indices
  <2>3. /\ E \in Nat /\ E > 0 /\ n \in Nat /\ S \in Nat /\ S > 0
        /\ \A m \in 1 .. n : history[m] \in Nat /\ history[m] % S \in Indices
    BY Basics DEF IInv
  <2>4. \A j \in Indices : \A i \in Ways : Held(j, i) \in Nat /\ Held(j, i) % S = j
    BY Basics DEF IInv
  <2> QED BY <2>1, <2>2, <2>3, <2>4
<1>2. x % S = k /\ x \in Nat
  <2>1. k \in Nat
    BY <1>1 DEF Indices
  <2>2. x \in Nat
    <3>1. t * S \in Nat /\ x = t * S + k
      BY <1>1
    <3> HIDE DEF S
    <3> QED BY <2>1, <3>1
  <2> QED BY <1>1, <2>2, SetOfParts DEF IInv
<1>3. /\ p \in 1 .. E /\ r \in Seq(Line) /\ Len(r) = E
      /\ r[E] = [tag |-> t, valid |-> TRUE]
      /\ \A i \in 1 .. E - 1 : r[i] = IF i < p THEN s[i] ELSE s[i + 1]
      /\ \A i \in Ways : s[i].valid /\ Held(k, i) = x => i = p
      /\ s[p].valid /\ Held(k, p) # x => p = 1 /\ \A i \in Ways : s[i].valid
  <2> DEFINE y == t * geometry.setNum + k
  <2>1. /\ p \in 1 .. E /\ r \in Seq(Line) /\ Len(r) = E
        /\ r[E] = [tag |-> t, valid |-> TRUE]
        /\ \A i \in 1 .. E - 1 : r[i] = IF i < p THEN s[i] ELSE s[i + 1]
        /\ \A i \in Ways : s[i].valid /\ Held(k, i) = y => i = p
        /\ s[p].valid /\ Held(k, p) # y => p = 1 /\ \A i \in Ways : s[i].valid
    BY Refilled, Zenon
  <2>2. x = y
    OBVIOUS
  <2> HIDE DEF s, p, r, E, y
  <2> QED BY <2>1, <2>2
<1>4. /\ sets \in [Indices -> Seq(Line)] /\ sets' \in [Indices -> Seq(Line)]
      /\ sets'[k] = r
      /\ \A j \in Indices : j # k => sets'[j] = sets[j]
      /\ \A j \in Indices : Len(sets[j]) = E
  BY <1>3 DEF IInv, Types
<1>5. /\ history' \in Seq(Nat) /\ Len(history') = n + 1 /\ history'[n + 1] = x
      /\ \A m \in 1 .. n : history'[m] = history[m]
  BY <1>2, AppendProperties DEF IInv, Types
<1>6. /\ LastIn(history', x) = n + 1
      /\ \A y : y # x => LastIn(history', y) = LastUse(y)
      /\ \A y : LastUse(y) \in 0 .. n
  <2>1. history \in Seq(Nat) /\ history' = Append(history, x)
    BY DEF IInv, Types
  <2>2. \A y : LastUse(y) \in 0 .. n
    BY <1>1, LastInIs DEF LastUse
  <2> QED BY <1>2, <2>1, <2>2, LastInAppended DEF LastUse
<1>7. /\ \A j \in Indices : \A i \in Ways :
           j # k => Held(j, i)' = Held(j, i) /\ Held(j, i) # x
      /\ Held(k, E)' = x
      /\ \A i \in 1 .. E - 1 : Held(k, i)' = Held(k, From(i))
  <2>1. \A j \in Indices : \A i \in Ways :
           j # k => Held(j, i)' = Held(j, i) /\ Held(j, i) # x
    BY <1>1, <1>2, <1>4 DEF Held
  <2>2. Held(k, E)' = x
    BY <1>3, <1>4 DEF Held
  <2>3. \A i \in 1 .. E - 1 : Held(k, i)' = Held(k, From(i))
    <3> SUFFICES ASSUME NEW i \in 1 .. E - 1
                 PROVE  Held(k, i)' = Held(k, From(i))
      OBVIOUS
    <3>1. r[i] = s[From(i)]
      BY <1>3
    <3>2. sets'[k][i] = s[From(i)]
      BY <1>4, <3>1
    <3> HIDE DEF From, r, p
    <3> QED BY <3>2 DEF Held
  <2> QED BY <2>1, <2>2, <2>3
<1> HIDE DEF s, p, r, n, S
<1>8. \A i \in 1 .. E - 1 :
         /\ From(i) \in 1 .. E /\ From(i) # p /\ r[i] = s[From(i)]
         /\ \A j \in 1 .. E - 1 : i < j => From(i) < From(j)
  <2> SUFFICES ASSUME NEW i \in 1 .. E - 1
               PROVE  /\ From(i) \in 1 .. E /\ From(i) # p /\ r[i] = s[From(i)]
                      /\ \A j \in 1 .. E - 1 : i < j => From(i) < From(j)
    OBVIOUS
  <2>1. From(i) \in 1 .. E /\ From(i) # p
    BY <1>1, <1>3
  <2>2. r[i] = s[From(i)]
    BY <1>3
  <2>3. \A j \in 1 .. E - 1 : i < j => From(i) < From(j)
    BY <1>1, <1>3
  <2> QED BY <2>1, <2>2, <2>3
<1> HIDE DEF From
<1>9. InOrder'
  <2> SUFFICES ASSUME NEW j \in Indices, NEW i \in Ways, sets'[j][i].valid
               PROVE  /\ LastUse(Held(j, i))' # 0
                      /\ \A h \in Ways : i < h =>
                           /\ sets'[j][h].valid
                           /\ LastUse(Held(j, i))' < LastUse(Held(j, h))'
    BY <1>1 DEF InOrder
  <2>1. CASE j # k
    <3>1. \A h \in Ways : LastUse(Held(j, h))' = LastUse(Held(j, h))
      BY <1>6, <1>7, <2>1 DEF LastUse
    <3> QED BY <1>4, <2>1, <3>1 DEF IInv, InOrder
  <2>2. CASE j = k /\ i = E
    <3>1. LastUse(Held(j, i))' = n + 1
      BY <1>6, <1>7, <2>2 DEF LastUse
    <3> QED BY <1>1, <2>2, <3>1
  <2>3. CASE j = k /\ i # E
    <3>1. i \in 1 .. E - 1
      BY <1>1, <2>3
    <3>2. \A h \in 1 .. E - 1 : s[From(h)].valid =>
             LastUse(Held(k, h))' = LastUse(Held(k, From(h)))
      BY <1>1, <1>3, <1>6, <1>7, <1>8 DEF LastUse
    <3>3. /\ s[From(i)].valid
          /\ LastUse(Held(k, i))' = LastUse(Held(k, From(i)))
      BY <1>4, <1>8, <2>3, <3>1, <3>2
    <3>4. LastUse(Held(k, i))' # 0
      BY <1>1, <1>8, <3>1, <3>3 DEF IInv, InOrder, s
    <3>5. ASSUME NEW h \in Ways, i < h
          PROVE  /\ sets'[k][h].valid
                 /\ LastUse(Held(k, i))' < LastUse(Held(k, h))'
      <4>1. CASE h = E
        <5>1. LastUse(Held(k, h))' = n + 1
          BY <1>6, <1>7, <4>1 DEF LastUse
        <5>2. sets'[k][h].valid
          BY <1>3, <1>4, <4>1
        <5>3. LastUse(Held(k, From(i))) < n + 1
          <6>1. LastUse(Held(k, From(i))) \in 0 .. n
            BY <1>6
          <6> QED BY <1>1, <6>1
        <5> QED BY <3>3, <5>1, <5>2, <5>3
      <4>2. CASE h # E
        <5>0. h \in 1 .. E - 1
          BY <1>1, <4>2
        <5>1. h \in 1 .. E - 1 /\ From(i) < From(h)
          BY <1>8, <3>1, <3>5, <5>0
        <5>2. /\ s[From(h)].valid
              /\ LastUse(Held(k, From(i))) < LastUse(Held(k, From(h)))
          BY <1>1, <1>8, <3>1, <3>3, <5>1 DEF IInv, InOrder, s
        <5>3. LastUse(Held(k, h))' = LastUse(Held(k, From(h)))
          BY <3>2, <5>1, <5>2
        <5> QED BY <1>4, <1>8, <3>3, <5>1, <5>2, <5>3
      <4> QED BY <4>1, <4>2
    <3> QED BY <2>3, <3>4, <3>5
  <2> QED BY <2>1, <2>2, <2>3
<1>10. Listed(k, x)'
  <2>1. E \in Ways
    BY <1>1
  <2> QED BY <1>1, <1>3, <1>4, <1>7, <2>1 DEF Listed
<1>11. ASSUME NEW m \in 1 .. n, NEW y, y = history[m], y # x, NEW j, j = y % S
       PROVE  Listed(j, y)' \/ Outlived(j, y)'
  <2>1. /\ j \in Indices /\ y # x /\ LastIn(history', y) = LastUse(y)
        /\ LastUse(y) \in 0 .. n
        /\ Listed(j, y) \/ Outlived(j, y)
    BY <1>1, <1>6, <1>11 DEF IInv, Kept, n, S
  <2>2. CASE j # k
    <3>1. \A h \in Ways : LastUse(Held(j, h))' = LastUse(Held(j, h))
      BY <1>6, <1>7, <2>1, <2>2 DEF LastUse
    <3> QED BY <1>1, <1>4, <1>7, <2>1, <2>2, <3>1 DEF Listed, Outlived, LastUse
  <2>3. ASSUME j = k, NEW i \in Ways, s[i].valid, Held(k, i) = y, i # p
        PROVE  Listed(k, y)'
    <3>1. PICK h \in 1 .. E - 1 : From(h) = i
      <4>1. CASE i < p
        <5>1. i \in 1 .. E - 1 /\ From(i) = i
          BY <1>1, <1>3, <4>1 DEF From
        <5> QED BY <5>1
      <4>2. CASE i > p
        <5>1. i - 1 \in 1 .. E - 1 /\ From(i - 1) = i
          BY <1>1, <1>3, <4>2 DEF From
        <5> QED BY <5>1
      <4> QED BY <1>1, <1>3, <2>3, <4>1, <4>2
    <3>2. h \in Ways /\ sets'[k][h].valid /\ Held(k, h)' = y
      <4>1. h \in Ways
        BY <1>1, <3>1 DEF Ways
      <4>2. Held(k, h)' = y
        BY <1>7, <2>3, <3>1
      <4> QED BY <1>4, <1>8, <2>3, <3>1, <4>1, <4>2
    <3> QED BY <1>1, <3>2 DEF Listed
  <2>4. ASSUME j = k, \A i \in Ways : s[i].valid,
               \A i \in Ways : i # p => LastUse(y) < LastUse(Held(k, i))
        PROVE  Outlived(k, y)'
    <3> SUFFICES ASSUME NEW h \in Ways
                 PROVE  sets'[k][h].valid /\ LastUse(y) < LastUse(Held(k, h))'
      BY <1>1, <2>1 DEF Outlived, LastUse
    <3>1. CASE h = E
      <4>1. LastUse(Held(k, h))' = n + 1
        BY <1>6, <1>7, <3>1 DEF LastUse
      <4>2. LastUse(y) < n + 1
        BY <1>1, <2>1
      <4> QED BY <1>3, <1>4, <3>1, <4>1, <4>2
    <3>2. CASE h # E
      <4>1. h \in 1 .. E - 1
        BY <1>1, <3>2
      <4>2. /\ From(h) \in Ways /\ From(h) # p /\ s[From(h)].valid
            /\ sets'[k][h].valid
        BY <1>1, <1>4, <1>8, <2>4, <4>1
      <4>3. LastUse(Held(k, h))' = LastUse(Held(k, From(h)))
        BY <1>3, <1>6, <1>7, <4>1, <4>2 DEF LastUse
      <4> QED BY <2>4, <4>2, <4>3
    <3> QED BY <3>1, <3>2
  <2>5. CASE j = k /\ Listed(k, y)
    <3>1. PICK i \in Ways : s[i].valid /\ Held(k, i) = y
      BY <2>5 DEF Listed, s
    <3>2. CASE i # p
      BY <2>3, <2>5, <3>1, <3>2
    <3>3. CASE i = p
      <4>1. p = 1 /\ \A h \in Ways : s[h].valid
        BY <1>3, <2>1, <3>1, <3>3
      <4>2. ASSUME NEW h \in Ways, h # p PROVE LastUse(y) < LastUse(Held(k, h))
        <5>1. p < h /\ p \in Ways
          BY <1>1, <4>1, <4>2
        <5> QED BY <3>1, <3>3, <5>1 DEF IInv, InOrder, s
      <4> QED BY <2>4, <2>5, <4>1, <4>2
    <3> QED BY <3>2, <3>3
  <2>6. CASE j = k /\ Outlived(k, y)
    BY <2>4, <2>6 DEF Outlived, s
  <2> QED BY <2>1, <2>2, <2>5, <2>6
<1>12. Kept'
  <2> SUFFICES ASSUME NEW m \in 1 .. n + 1, NEW y, y = history'[m],
                      NEW j, j = y % S
               PROVE  Listed(j, y)' \/ Outlived(j, y)'
    BY <1>5 DEF Kept, S
  <2>1. CASE y = x
    BY <1>2, <1>10, <2>1
  <2>2. CASE y # x
    <3>1. m \in 1 .. n /\ y = history[m]
      BY <1>1, <1>5, <2>2
    <3> QED BY <1>11, <2>2, <3>1
  <2> QED BY <2>1, <2>2
<1> QED BY <1>1, <1>3, <1>4, <1>5, <1>9, <1>12

-----------------------------------------------------------------------------
(* The cache starts empty.                                                 *)
LEMMA InvInit == CsimInit => IInv
<1> SUFFICES ASSUME CsimInit PROVE IInv
  OBVIOUS
<1> DEFINE E == geometry.associativity
           e == [i \in 1 .. E |-> EmptyLine]
<1>1. /\ geometry \in Geometries /\ E \in Nat /\ Ways = 1 .. E /\ history = << >>
      /\ hits = 0 /\ misses = 0 /\ evictions = 0
      /\ TagMod \in Nat /\ TagMod > 0
  BY GeometryAssumption DEF CsimInit, Ways
<1>2. EmptyLine \in Line /\ ~EmptyLine.valid
  BY <1>1 DEF EmptyLine, Line
<1>3. sets = [k \in Indices |-> e]
  BY DEF CsimInit, EmptyCache, Indices
<1>4. e \in Seq(Line) /\ Len(e) = E
  <2> HIDE DEF E
  <2> QED BY <1>1, <1>2
<1>5. Types
  <2> HIDE DEF e
  <2>1. history \in Seq(Nat)
    BY <1>1
  <2> QED BY <1>1, <1>3, <1>4, <2>1 DEF Types
<1>6. InOrder
  BY <1>1, <1>2, <1>3 DEF InOrder
<1>7. Kept
  <2>1. Len(history) = 0
    BY <1>1
  <2> QED BY <2>1 DEF Kept
<1> QED BY <1>5, <1>6, <1>7 DEF IInv

(* A modify finds what its first half loaded; an instruction does nothing. *)
LEMMA InvStep == IInv /\ [CsimNext]_cvars => IInv'
<1> SUFFICES ASSUME IInv, [CsimNext]_cvars PROVE IInv'
  OBVIOUS
<1>1. ASSUME UNCHANGED cvars PROVE IInv'
  BY <1>1 DEF IInv, Types, InOrder, Kept, Listed, Outlived, Held, LastUse,
              Indices, Ways, cvars
<1>2. ASSUME NEW addr \in Addresses, ReadLine("I", addr) PROVE IInv'
  BY <1>1, <1>2 DEF ReadLine, Fill, Simulate, Cache, cvars
<1>3. ASSUME NEW op \in {"L", "M"}, NEW addr \in Addresses, ReadLine(op, addr)
      PROVE  IInv'
  <2>1. PICK k \in Indices, t \in 0 .. TagMod - 1 :
          LET x == t * geometry.setNum + k
              hit == IsCacheHit(sets[k], t)
          IN  /\ geometry' = geometry /\ history' = Append(history, x)
              /\ sets' = [sets EXCEPT ![k] = UpdateCacheBlock(sets[k], t)]
              /\ hits' = hits + One(hit) + One(op = "M")
              /\ misses' = misses + One(~hit)
              /\ evictions' = evictions + One(~hit /\ Evicts(sets[k], t))
    BY <1>3, Accessed
  <2>2. hits' \in Nat /\ misses' \in Nat /\ evictions' \in Nat
    BY <2>1 DEF IInv, Types, One
  <2>3. /\ sets' \in [Indices' -> Seq(Line)]
        /\ \A j \in Indices' : Len(sets'[j]) = geometry'.associativity
        /\ history' \in Seq(Nat)
        /\ InOrder' /\ Kept'
    BY <2>1, AccessKeeps
  <2>4. geometry' \in Geometries
    BY <2>1 DEF IInv, Types
  <2> QED BY <2>2, <2>3, <2>4 DEF IInv, Types
<1> QED BY <1>1, <1>2, <1>3 DEF CsimNext

(* The lines of every set are in the order of their last use, and whatever *)
(* is in none has been used before all of them: for every geometry, trace  *)
(* and width of a tag.                                                     *)
THEOREM Invariance == CsimSpec => []IInv
BY InvInit, InvStep, PTL DEF CsimSpec

(* A load or a store is a step of LRU.                                     *)
LEMMA AccessIsLRU ==
    ASSUME IInv, NEW op \in {"L", "M"}, NEW addr \in Addresses, ReadLine(op, addr)
    PROVE  LRUCache!Next
<1>1. PICK k \in Indices, t \in 0 .. TagMod - 1 :
        LET x == t * geometry.setNum + k
            hit == IsCacheHit(sets[k], t)
        IN  /\ x = BlockOf(geometry, addr) /\ t \in Nat
            /\ geometry' = geometry /\ history' = Append(history, x)
            /\ hits' = hits + One(hit) + One(op = "M")
            /\ misses' = misses + One(~hit)
            /\ evictions' = evictions + One(~hit /\ Evicts(sets[k], t))
  BY Accessed
<1> DEFINE x == t * geometry.setNum + k
           hit == IsCacheHit(sets[k], t)
<1>2. LRUCache!Hit(x) <=> hit
  BY <1>1, HitFound, MissFound
<1>3. ~hit => (LRUCache!Full(x) <=> Evicts(sets[k], t))
  BY <1>1, EvictsWhenFull
<1>4. x \in BlocksUsed
  BY <1>1 DEF BlocksUsed, IInv, Types
<1> HIDE DEF x, hit
<1>5. /\ hits' = hits + One(op = "M") + (IF LRUCache!Hit(x) THEN 1 ELSE 0)
      /\ misses' = misses + (IF LRUCache!Hit(x) THEN 0 ELSE 1)
      /\ evictions' = evictions + (IF ~LRUCache!Hit(x) /\ LRUCache!Full(x) THEN 1 ELSE 0)
      /\ geometry' = geometry /\ history' = Append(history, x)
  <2>1. hits \in Nat /\ One(op = "M") \in {0, 1}
    BY DEF IInv, Types, One
  <2> QED BY <1>1, <1>2, <1>3, <2>1 DEF One, x, hit
<1>6. One(op = "M") \in {0, 1}
  BY DEF One
<1>7. LRUCache!Access(x)
  BY <1>5, <1>6 DEF LRUCache!Access
<1> QED BY <1>4, <1>7 DEF LRUCache!Next

(* csim.c counts as an LRU cache does: its hits, misses and evictions are   *)
(* those that the history of accesses alone determines, though its lookup  *)
(* takes lines that hold nothing for lines of tag 0.                       *)
THEOREM ImplementsLRU == CsimSpec => LRUSpec
<1>1. CsimInit => LRUCache!LRUInit
  BY DEF CsimInit, LRUCache!LRUInit
<1>2. ASSUME IInv, [CsimNext]_cvars PROVE [LRUCache!Next]_(LRUCache!vars)
  <2>1. CASE UNCHANGED cvars
    BY <2>1 DEF cvars, LRUCache!vars
  <2>2. CASE \E addr \in Addresses : ReadLine("I", addr)
    BY <2>2 DEF ReadLine, Fill, Simulate, Cache, LRUCache!vars
  <2>3. CASE \E op \in {"L", "M"}, addr \in Addresses : ReadLine(op, addr)
    BY <1>2, <2>3, AccessIsLRU
  <2> QED BY <1>2, <2>1, <2>2, <2>3 DEF CsimNext
<1> QED BY <1>1, <1>2, Invariance, PTL DEF CsimSpec, LRUSpec, LRUCache!LRUSpec

(* The transpose functions.                                                *)

(* Cells.  A matrix cell is in its matrix, and no two places of B share one. *)
Rows == 0 .. M - 1
Cols == 0 .. N - 1
BCells == BBase .. BBase + M * Larger(M, N) - 1

(* Matrices have at least one row and column and at most MaxN.             *)
LEMMA SizesAre ==
    ASSUME shape \in Shapes
    PROVE  M \in 1 .. MaxN /\ N \in 1 .. MaxN
BY ShapesAssumption DEF M, N

(* A number is one row and one column of a matrix with n columns.          *)
LEMMA Apart ==
    ASSUME NEW n \in Nat, NEW r \in Nat, NEW s \in Nat,
           NEW c \in 0 .. n - 1, NEW d \in 0 .. n - 1, r * n + c = s * n + d
    PROVE  r = s /\ c = d
<1>1. ~ r < s
  <2>1. SUFFICES ASSUME r < s PROVE FALSE
    OBVIOUS
  <2>2. PICK e \in Nat : s = r + 1 + e
    <3>1. s - r - 1 \in Nat /\ s = r + 1 + (s - r - 1)
      BY <2>1
    <3> QED BY <3>1
  <2>3. s * n = r * n + n + e * n
    BY <2>2
  <2>4. e * n \in Nat /\ r * n \in Nat
    BY <2>2
  <2> QED BY <2>3, <2>4
<1>2. ~ s < r
  <2>1. SUFFICES ASSUME s < r PROVE FALSE
    OBVIOUS
  <2>2. PICK e \in Nat : r = s + 1 + e
    <3>1. r - s - 1 \in Nat /\ r = s + 1 + (r - s - 1)
      BY <2>1
    <3> QED BY <3>1
  <2>3. r * n = s * n + n + e * n
    BY <2>2
  <2>4. e * n \in Nat /\ s * n \in Nat
    BY <2>2
  <2> QED BY <2>3, <2>4
<1>3. r = s
  BY <1>1, <1>2
<1> QED BY <1>3

(* Row r is inside a matrix of m rows of n.                                *)
LEMMA Inside ==
    ASSUME NEW n \in Nat, NEW m \in Nat, NEW r \in 0 .. m - 1, NEW c \in 0 .. n - 1
    PROVE  r * n + c \in 0 .. m * n - 1
<1>1. PICK e \in Nat : m = r + 1 + e
  <2>1. m - r - 1 \in Nat /\ m = r + 1 + (m - r - 1)
    OBVIOUS
  <2> QED BY <2>1
<1>2. m * n = r * n + n + e * n
  BY <1>1
<1>3. e * n \in Nat /\ r * n \in Nat
  BY <1>1
<1> QED BY <1>2, <1>3

(* What is in a range is in a larger one.                                  *)
LEMMA WithinSize ==
    ASSUME NEW u \in Nat, NEW w \in Nat, NEW v \in 0 .. u - 1, u <= w
    PROVE  v \in 0 .. w - 1
OBVIOUS

(* A cell of B is inside it and belongs to one place, and cells of A come  *)
(* before all of B's.                                                      *)
LEMMA Cells ==
    ASSUME shape \in Shapes
    PROVE  /\ \A r \in Rows, c \in Cols : B(r, c) \in BCells
           /\ \A r, s \in Rows : \A c, d \in Cols :
                B(r, c) = B(s, d) => r = s /\ c = d
           /\ \A r \in Rows, c \in Cols : A(c, r) \in 0 .. BBase - 1
<1>1. /\ M \in Nat /\ N \in Nat /\ M > 0 /\ N > 0
      /\ MaxN \in Nat /\ M <= MaxN /\ N <= MaxN
  <2>1. MaxN \in Nat
    BY DEF MaxN
  <2> QED BY <2>1, SizesAre
<1>2. ASSUME NEW r \in Rows, NEW c \in Cols PROVE B(r, c) \in BCells
  <2>1. r * N + c \in 0 .. M * N - 1
    BY <1>1, Inside DEF Rows, Cols
  <2>2. M * N <= M * Larger(M, N)
    <3>1. CASE M > N
      <4>1. PICK e \in Nat : M = N + e
        <5>1. M - N \in Nat /\ M = N + (M - N)
          BY <1>1, <3>1
        <5> QED BY <5>1
      <4>2. M * M = M * N + M * e
        BY <1>1, <4>1
      <4>3. M * e \in Nat /\ M * N \in Nat
        BY <1>1, <4>1
      <4>4. Larger(M, N) = M
        BY <3>1 DEF Larger
      <4> QED BY <4>2, <4>3, <4>4
    <3>2. CASE ~ M > N
      BY <1>1, <3>2 DEF Larger
    <3> QED BY <3>1, <3>2
  <2>3. M * N \in Int /\ M * Larger(M, N) \in Int
    <3>1. Larger(M, N) \in Nat
      BY <1>1 DEF Larger
    <3> QED BY <1>1, <3>1
  <2>4. r * N \in Int /\ c \in Int
    BY <1>1 DEF Rows, Cols
  <2> DEFINE u == r * N
             v == M * N
             w == M * Larger(M, N)
  <2>5. u \in Int /\ v \in Int /\ w \in Int /\ v <= w /\ u + c \in 0 .. v - 1
    BY <2>1, <2>2, <2>3, <2>4
  <2>6. B(r, c) = BBase + u + c /\ BCells = BBase .. BBase + w - 1
    BY DEF B, BCells
  <2>7. BBase \in Nat
    BY <1>1 DEF BBase
  <2> HIDE DEF u, v, w
  <2> QED BY <2>4, <2>5, <2>6, <2>7
<1>3. ASSUME NEW r \in Rows, NEW s \in Rows, NEW c \in Cols, NEW d \in Cols,
             B(r, c) = B(s, d)
      PROVE  r = s /\ c = d
  <2>1. r \in Nat /\ s \in Nat /\ c \in 0 .. N - 1 /\ d \in 0 .. N - 1
    BY <1>1 DEF Rows, Cols
  <2>2. r * N + c = s * N + d
    <3>1. r * N \in Nat /\ s * N \in Nat
      BY <1>1, <2>1
    <3>2. BBase \in Nat
      BY <1>1 DEF BBase
    <3> QED BY <1>1, <1>3, <2>1, <3>1, <3>2 DEF B
  <2> QED BY <1>1, <2>1, <2>2, Apart
<1>4. ASSUME NEW r \in Rows, NEW c \in Cols PROVE A(c, r) \in 0 .. BBase - 1
  <2>1. c * M + r \in 0 .. N * M - 1
    BY <1>1, Inside DEF Rows, Cols
  <2>2. N * M <= BBase
    <3>1. PICK d \in Nat : MaxN = N + d
      <4>1. MaxN - N \in Nat /\ MaxN = N + (MaxN - N)
        BY <1>1
      <4> QED BY <4>1
    <3>2. PICK e \in Nat : MaxN = M + e
      <4>1. MaxN - M \in Nat /\ MaxN = M + (MaxN - M)
        BY <1>1
      <4> QED BY <4>1
    <3>3. MaxN * MaxN = N * M + N * e + d * MaxN
      BY <1>1, <3>1, <3>2
    <3>4. N * M \in Nat /\ N * e \in Nat /\ d * MaxN \in Nat
      BY <1>1, <3>1, <3>2
    <3> QED BY <3>3, <3>4 DEF BBase
  <2>3. N * M \in Nat /\ BBase \in Nat
    BY <1>1 DEF BBase
  <2>4. A(c, r) = c * M + r
    BY DEF A
  <2> QED BY <2>1, <2>2, <2>3, <2>4, WithinSize
<1> QED BY <1>2, <1>3, <1>4

(* Loading a cell of A gives its value, and a cell of B what is in it.     *)
LEMMA ContentsAre ==
    ASSUME shape \in Shapes
    PROVE  /\ \A r \in Rows, c \in Cols : Contents(A(c, r)) = Correct(c, r)
           /\ \A r \in Rows, c \in Cols : Contents(B(r, c)) = b[B(r, c)]
<1>1. ASSUME NEW r \in Rows, NEW c \in Cols
      PROVE  Contents(A(c, r)) = Correct(c, r)
  <2>1. A(c, r) \in 0 .. BBase - 1
    BY Cells, Zenon
  <2>2. BBase \in Int
    BY DEF BBase, MaxN
  <2>3. A(c, r) < BBase
    BY <2>1, <2>2
  <2> QED BY <2>3 DEF Contents, Correct
<1>2. ASSUME NEW r \in Rows, NEW c \in Cols
      PROVE  Contents(B(r, c)) = b[B(r, c)]
  <2>1. B(r, c) \in BCells
    BY Cells, Zenon
  <2>2. ~ B(r, c) < BBase
    <3>1. M \in Nat /\ N \in Nat
      BY SizesAre DEF MaxN
    <3>2. BBase \in Int /\ Larger(M, N) \in Nat
      BY <3>1 DEF BBase, MaxN, Larger
    <3>3. M * Larger(M, N) \in Int
      BY <3>1, <3>2
    <3> QED BY <2>1, <3>2, <3>3 DEF BCells
  <2> QED BY <2>2 DEF Contents
<1> QED BY <1>1, <1>2

(* The stores among a sequence of accesses: cells and what is stored there. *)
Access == [op : {"L", "S"}, cell : Int, from : Int]
Stored(s) == {<<s[q].cell, s[q].from>> : q \in {h \in DOMAIN s : s[h].op = "S"}}

(* A sequence stores what its two parts store.                             *)
LEMMA StoredJoined ==
    ASSUME NEW s \in Seq(Access), NEW t \in Seq(Access)
    PROVE  s \o t \in Seq(Access) /\ Stored(s \o t) = Stored(s) \cup Stored(t)
<1>1. /\ s \o t \in Seq(Access) /\ Len(s) \in Nat /\ Len(t) \in Nat
      /\ DOMAIN s = 1 .. Len(s) /\ DOMAIN t = 1 .. Len(t)
      /\ DOMAIN (s \o t) = 1 .. Len(s) + Len(t)
      /\ \A q \in 1 .. Len(s) : (s \o t)[q] = s[q]
      /\ \A q \in Len(s) + 1 .. Len(s) + Len(t) : (s \o t)[q] = t[q - Len(s)]
  OBVIOUS
<1> DEFINE u == s \o t
<1> HIDE DEF u
<1>2. Stored(u) \subseteq Stored(s) \cup Stored(t)
  <2> SUFFICES ASSUME NEW q \in DOMAIN u, u[q].op = "S"
               PROVE  <<u[q].cell, u[q].from>> \in Stored(s) \cup Stored(t)
    BY DEF Stored
  <2>1. CASE q \in DOMAIN s
    <3>1. u[q] = s[q]
      BY <1>1, <2>1 DEF u
    <3> QED BY <2>1, <3>1 DEF Stored
  <2>2. CASE q \notin DOMAIN s
    <3>1. q - Len(s) \in DOMAIN t /\ u[q] = t[q - Len(s)]
      BY <1>1, <2>2 DEF u
    <3> QED BY <3>1 DEF Stored
  <2> QED BY <2>1, <2>2
<1>3. Stored(s) \subseteq Stored(u)
  <2> SUFFICES ASSUME NEW q \in DOMAIN s, s[q].op = "S"
               PROVE  <<s[q].cell, s[q].from>> \in Stored(u)
    BY DEF Stored
  <2>1. q \in DOMAIN u /\ u[q] = s[q]
    BY <1>1 DEF u
  <2> QED BY <2>1 DEF Stored
<1>4. Stored(t) \subseteq Stored(u)
  <2> SUFFICES ASSUME NEW q \in DOMAIN t, t[q].op = "S"
               PROVE  <<t[q].cell, t[q].from>> \in Stored(u)
    BY DEF Stored
  <2>1. q + Len(s) \in DOMAIN u /\ u[q + Len(s)] = t[q]
    BY <1>1 DEF u
  <2> QED BY <2>1 DEF Stored
<1> QED BY <1>1, <1>2, <1>3, <1>4 DEF u

(* FlattenSeq of a sequence of n sequences.                                *)
Joined(f, ss, n) == [q \in 1 .. n |-> IF q = 1 THEN ss[q] ELSE f[q - 1] \o ss[q]]

(* The partial joins of a sequence of sequences, which FlattenSeq chooses. *)
LEMMA JoinedExists ==
    ASSUME NEW n \in Nat, NEW ss
    PROVE  \E f : f = Joined(f, ss, n)
<1> DEFINE Bad == {m \in Nat : ~ \E f : f = Joined(f, ss, m)}
<1>1. Bad = {}
  <2>1. SUFFICES ASSUME Bad # {} PROVE FALSE
    OBVIOUS
  <2>2. PICK m \in Bad : \A h \in Bad : m <= h
    BY <2>1, LeastMember
  <2>3. m \in Nat
    BY <2>2
  <2>4. CASE m = 0
    <3> DEFINE f == [q \in 1 .. 0 |-> 0]
    <3>1. f = Joined(f, ss, 0)
      BY DEF Joined
    <3> QED BY <2>2, <2>4, <3>1
  <2>5. CASE m # 0
    <3>1. m - 1 \in Nat /\ m - 1 \notin Bad
      BY <2>2, <2>3, <2>5
    <3>2. PICK g : g = Joined(g, ss, m - 1)
      BY <3>1
    <3> DEFINE f == [q \in 1 .. m |->
                        IF q = m THEN IF q = 1 THEN ss[q] ELSE g[q - 1] \o ss[q]
                        ELSE g[q]]
    <3>3. \A q \in 1 .. m :
             f[q] = IF q = 1 THEN ss[q] ELSE f[q - 1] \o ss[q]
      <4> HIDE DEF Bad
      <4> SUFFICES ASSUME NEW q \in 1 .. m
                   PROVE  f[q] = IF q = 1 THEN ss[q] ELSE f[q - 1] \o ss[q]
        OBVIOUS
      <4>1. CASE q = 1
        <5>1. CASE m = 1
          BY <4>1, <5>1
        <5>2. CASE m # 1
          <6>1. 1 \in 1 .. m - 1 /\ g[1] = ss[1]
            BY <2>3, <2>5, <3>2, <5>2 DEF Joined
          <6> QED BY <4>1, <5>2, <6>1
        <5> QED BY <5>1, <5>2
      <4>2. CASE q # 1
        <5>1. q - 1 \in 1 .. m /\ q - 1 # m /\ f[q - 1] = g[q - 1]
          BY <2>3, <4>2
        <5>2. CASE q = m
          BY <4>2, <5>1, <5>2
        <5>3. CASE q # m
          <6>1. q \in 1 .. m - 1
            BY <2>3, <5>3
          <6>2. g[q] = g[q - 1] \o ss[q]
            BY <3>2, <4>2, <6>1 DEF Joined
          <6> QED BY <4>2, <5>1, <5>3, <6>2
        <5> QED BY <5>2, <5>3
      <4> QED BY <4>1, <4>2
    <3>4. f = Joined(f, ss, m)
      <4> HIDE DEF Bad
      <4>1. DOMAIN f = 1 .. m /\ f = [q \in 1 .. m |-> f[q]]
        OBVIOUS
      <4> HIDE DEF f
      <4> QED BY <3>3, <4>1 DEF Joined
    <3> HIDE DEF f
    <3> QED BY <2>2, <3>4
  <2> QED BY <2>4, <2>5
<1> QED BY <1>1

Pieces(ss, n) == ss \in [1 .. n -> Seq(Access)]

(* What a sequence of accesses in n pieces stores is what the pieces store.*)
LEMMA FlattenStored ==
    ASSUME NEW n \in Nat, NEW ss, Pieces(ss, n)
    PROVE  /\ FlattenSeq(ss) \in Seq(Access)
           /\ Stored(FlattenSeq(ss)) = UNION {Stored(ss[q]) : q \in 1 .. n}
<1>1. /\ ss \in Seq(Seq(Access)) /\ Len(ss) = n
      /\ \A q \in 1 .. n : ss[q] \in Seq(Access)
  BY DEF Pieces
<1>2. CASE n = 0
  <2>1. FlattenSeq(ss) = ss
    BY <1>1, <1>2 DEF FlattenSeq
  <2>2. ss = << >>
    BY <1>1, <1>2
  <2>3. Stored(<< >>) = {} /\ 1 .. 0 = {} /\ << >> \in Seq(Access)
    BY DEF Stored
  <2> QED BY <1>2, <2>1, <2>2, <2>3
<1>3. CASE n # 0
  <2> DEFINE F == CHOOSE f : f = Joined(f, ss, n)
  <2>1. F = Joined(F, ss, n)
    BY JoinedExists
  <2>2. FlattenSeq(ss) = F[n]
    BY <1>1, <1>3 DEF FlattenSeq, Joined
  <2> HIDE DEF F
  <2>3. \A q \in 1 .. n : F[q] = IF q = 1 THEN ss[q] ELSE F[q - 1] \o ss[q]
    BY <2>1 DEF Joined
  <2> DEFINE Right(q) == /\ F[q] \in Seq(Access)
                         /\ Stored(F[q]) = UNION {Stored(ss[h]) : h \in 1 .. q}
             Bad == {q \in 1 .. n : ~ Right(q)}
  <2>4. Bad = {}
    <3>1. SUFFICES ASSUME Bad # {} PROVE FALSE
      OBVIOUS
    <3>2. PICK m \in Bad : \A h \in Bad : m <= h
      <4>1. Bad \subseteq Nat
        OBVIOUS
      <4> HIDE DEF Bad
      <4> QED BY <3>1, <4>1, LeastMember
    <3>3. m \in 1 .. n /\ ~ Right(m)
      BY <3>2
    <3>4. CASE m = 1
      <4>1. F[1] = ss[1] /\ 1 .. 1 = {1}
        BY <2>3, <3>3, <3>4
      <4>2. UNION {Stored(ss[h]) : h \in {1}} = Stored(ss[1])
        OBVIOUS
      <4>3. ss[1] \in Seq(Access)
        BY <1>1, <3>3, <3>4
      <4> QED BY <3>3, <3>4, <4>1, <4>2, <4>3
    <3>5. CASE m # 1
      <4>1. m - 1 \in 1 .. n /\ ~ m <= m - 1
        BY <3>3, <3>5
      <4>2. Right(m - 1)
        <5>1. m - 1 \notin Bad
          <6> HIDE DEF Bad
          <6> QED BY <3>2, <4>1
        <5> HIDE DEF Right
        <5> QED BY <4>1, <5>1
      <4>3. F[m] = F[m - 1] \o ss[m]
        BY <2>3, <3>3, <3>5
      <4>4. F[m] \in Seq(Access) /\ Stored(F[m]) = Stored(F[m - 1]) \cup Stored(ss[m])
        BY <1>1, <3>3, <4>2, <4>3, StoredJoined
      <4>5. 1 .. m = (1 .. m - 1) \cup {m}
        BY <3>3
      <4> QED BY <3>3, <4>2, <4>4, <4>5
    <3> QED BY <3>4, <3>5
  <2>5. Right(n)
    <3>1. n \in 1 .. n /\ n \notin Bad
      BY <1>3, <2>4
    <3> HIDE DEF Right
    <3> QED BY <3>1
  <2> QED BY <2>2, <2>5
<1> QED BY <1>2, <1>3

(* Where each cell is stored once, B gets what the stores had loaded.      *)
Single(P) == \A x, y, z : <<x, y>> \in P /\ <<x, z>> \in P => y = z
PutIn(d, P) ==
    /\ DOMAIN d = DOMAIN b
    /\ \A x, y : <<x, y>> \in P /\ x \in DOMAIN b => d[x] = Contents(y)
    /\ \A x \in DOMAIN b : (\A y : <<x, y>> \notin P) => d[x] = b[x]

(* Written puts into each stored cell what was loaded for it, where no cell*)
(* is stored twice.                                                        *)
LEMMA WrittenIs ==
    ASSUME NEW s \in Seq(Access), Single(Stored(s))
    PROVE  PutIn(Written(s), Stored(s))
<1> DEFINE stores == {q \in DOMAIN s : s[q].op = "S"}
           For(c) == {q \in stores : s[q].cell = c}
           d == Written(s)
<1>1. DOMAIN s = 1 .. Len(s) /\ Len(s) \in Nat
  OBVIOUS
<1>2. DOMAIN d = DOMAIN b
  BY DEF Written
<1>3. ASSUME NEW c \in DOMAIN b, For(c) # {}
      PROVE  d[c] = Contents(s[Max(For(c))].from) /\ Max(For(c)) \in For(c)
  <2>1. For(c) \in SUBSET (1 .. Len(s))
    BY <1>1
  <2>2. c \in {s[q].cell : q \in stores}
    BY <1>3
  <2>3. d[c] = Contents(s[Max(For(c))].from)
    BY <2>2 DEF Written
  <2>4. Max(For(c)) \in For(c)
    <3>1. For(c) \subseteq 0 .. Len(s)
      BY <2>1
    <3> HIDE DEF For
    <3> QED BY <1>1, <1>3, <3>1, MaxOf
  <2> QED BY <2>3, <2>4
<1>4. ASSUME NEW c \in DOMAIN b, For(c) = {}
      PROVE  d[c] = b[c]
  <2>1. c \notin {s[q].cell : q \in stores}
    BY <1>4
  <2> QED BY <2>1 DEF Written
<1>5. \A c, y : <<c, y>> \in Stored(s) <=> \E q \in For(c) : y = s[q].from
  <2> SUFFICES ASSUME NEW c, NEW y
               PROVE  <<c, y>> \in Stored(s) <=> \E q \in For(c) : y = s[q].from
    OBVIOUS
  <2> QED BY DEF Stored
<1>6. ASSUME NEW x, NEW y, <<x, y>> \in Stored(s), x \in DOMAIN b
      PROVE  d[x] = Contents(y)
  <2>1. For(x) # {}
    BY <1>5, <1>6
  <2> DEFINE m == Max(For(x))
  <2>2. d[x] = Contents(s[m].from) /\ m \in For(x)
    BY <1>3, <1>6, <2>1
  <2> HIDE DEF m, For
  <2>3. <<x, s[m].from>> \in Stored(s)
    BY <1>5, <2>2
  <2>4. s[m].from = y
    BY <1>6, <2>3 DEF Single
  <2> QED BY <2>2, <2>4
<1>7. ASSUME NEW x \in DOMAIN b, \A y : <<x, y>> \notin Stored(s)
      PROVE  d[x] = b[x]
  <2>1. For(x) = {}
    <3>1. \A q \in For(x) : <<x, s[q].from>> \in Stored(s)
      BY <1>5
    <3> HIDE DEF For
    <3> QED BY <1>7, <3>1
  <2> QED BY <1>4, <2>1
<1> HIDE DEF d
<1>8. PutIn(d, Stored(s))
  BY <1>2, <1>6, <1>7 DEF PutIn
<1> QED BY <1>8 DEF d

(* The same by places of B: F says for each row and column that is stored  *)
(* to what was loaded for it.                                              *)
Puts(s, F) ==
    /\ s \in Seq(Access)
    /\ DOMAIN F \subseteq Rows \X Cols
    /\ Stored(s) = {<<B(w[1], w[2]), F[w]>> : w \in DOMAIN F}
Has(d, F) ==
    /\ DOMAIN d = DOMAIN b
    /\ \A r \in Rows, c \in Cols :
         d[B(r, c)] = IF <<r, c>> \in DOMAIN F THEN Contents(F[<<r, c>>])
                      ELSE b[B(r, c)]

(* The same by rows and columns.                                           *)
LEMMA PlacesWritten ==
    ASSUME shape \in Shapes, DOMAIN b = BCells, NEW s, NEW F, Puts(s, F)
    PROVE  Has(Written(s), F)
<1>1. \A r, t \in Rows : \A c, e \in Cols : B(r, c) = B(t, e) => r = t /\ c = e
  BY Cells
<1>2. \A w \in DOMAIN F : w[1] \in Rows /\ w[2] \in Cols /\ w = <<w[1], w[2]>>
  BY DEF Puts
<1>3. \A w, v \in DOMAIN F : B(w[1], w[2]) = B(v[1], v[2]) => w = v
  <2> SUFFICES ASSUME NEW w \in DOMAIN F, NEW v \in DOMAIN F,
                      B(w[1], w[2]) = B(v[1], v[2])
               PROVE  w = v
    OBVIOUS
  <2>1. w[1] = v[1] /\ w[2] = v[2]
    BY <1>1, <1>2
  <2> QED BY <1>2, <2>1
<1>4. \A x, y : <<x, y>> \in Stored(s) <=>
                   \E w \in DOMAIN F : x = B(w[1], w[2]) /\ y = F[w]
  <2> SUFFICES ASSUME NEW x, NEW y
               PROVE  <<x, y>> \in Stored(s) <=>
                        \E w \in DOMAIN F : x = B(w[1], w[2]) /\ y = F[w]
    OBVIOUS
  <2> QED BY DEF Puts
<1>5. Single(Stored(s))
  <2> SUFFICES ASSUME NEW x, NEW y, NEW z,
                      <<x, y>> \in Stored(s), <<x, z>> \in Stored(s)
               PROVE  y = z
    BY DEF Single
  <2>1. PICK w \in DOMAIN F : x = B(w[1], w[2]) /\ y = F[w]
    BY <1>4
  <2>2. PICK v \in DOMAIN F : x = B(v[1], v[2]) /\ z = F[v]
    BY <1>4
  <2>3. w = v
    BY <1>3, <2>1, <2>2
  <2> QED BY <2>1, <2>2, <2>3
<1>6. PutIn(Written(s), Stored(s))
  BY <1>5, WrittenIs DEF Puts
<1> DEFINE d == Written(s)
<1> HIDE DEF d
<1>7. /\ DOMAIN d = DOMAIN b
      /\ \A x, y : <<x, y>> \in Stored(s) /\ x \in DOMAIN b => d[x] = Contents(y)
      /\ \A x \in DOMAIN b : (\A y : <<x, y>> \notin Stored(s)) => d[x] = b[x]
  BY <1>6 DEF PutIn, d
<1>8. ASSUME NEW r \in Rows, NEW c \in Cols
      PROVE  d[B(r, c)] = IF <<r, c>> \in DOMAIN F THEN Contents(F[<<r, c>>])
                          ELSE b[B(r, c)]
  <2>1. B(r, c) \in DOMAIN b
    BY Cells
  <2>2. CASE <<r, c>> \in DOMAIN F
    <3> DEFINE w == <<r, c>>
    <3>1. w[1] = r /\ w[2] = c
      OBVIOUS
    <3>2. <<B(r, c), F[w]>> \in Stored(s)
      BY <1>4, <2>2, <3>1
    <3> QED BY <1>7, <2>1, <2>2, <3>2
  <2>3. CASE <<r, c>> \notin DOMAIN F
    <3>1. ASSUME NEW y, <<B(r, c), y>> \in Stored(s) PROVE FALSE
      <4>1. PICK w \in DOMAIN F : B(r, c) = B(w[1], w[2])
        BY <1>4, <3>1
      <4>2. r = w[1] /\ c = w[2]
        BY <1>1, <1>2, <4>1
      <4> QED BY <1>2, <2>3, <4>2
    <3> QED BY <1>7, <2>1, <2>3, <3>1
  <2> QED BY <2>2, <2>3
<1> QED BY <1>7, <1>8 DEF Has, d

(* What single accesses, and pairs and exchanges of them, store.           *)
LEMMA Pairs ==
    ASSUME NEW x \in Int, NEW y \in Int
    PROVE  /\ <<Load(x), Store(y, x)>> \in Seq(Access)
           /\ Stored(<<Load(x), Store(y, x)>>) = {<<y, x>>}
           /\ <<Load(x), Load(y)>> \in Seq(Access)
           /\ Stored(<<Load(x), Load(y)>>) = {}
           /\ Exchange(x, y) \in Seq(Access)
           /\ Stored(Exchange(x, y)) = {<<x, y>>, <<y, x>>}
<1>1. Load(x) \in Access /\ Load(y) \in Access /\ Store(x, y) \in Access /\ Store(y, x) \in Access
  BY DEF Load, Store, Access
<1>2. /\ Load(x).op # "S" /\ Load(y).op # "S"
      /\ Store(y, x).op = "S" /\ Store(y, x).cell = y /\ Store(y, x).from = x
      /\ Store(x, y).op = "S" /\ Store(x, y).cell = x /\ Store(x, y).from = y
  BY DEF Load, Store
<1> HIDE DEF Load, Store
<1>3. Stored(<<Load(x), Store(y, x)>>) = {<<y, x>>}
  <2> DEFINE s == <<Load(x), Store(y, x)>>
  <2>1. DOMAIN s = 1 .. 2 /\ s[1] = Load(x) /\ s[2] = Store(y, x)
    OBVIOUS
  <2> HIDE DEF s
  <2>2. {h \in DOMAIN s : s[h].op = "S"} = {2}
    BY <1>2, <2>1
  <2>3. Stored(s) = {<<s[q].cell, s[q].from>> : q \in {2}}
    BY <2>2 DEF Stored
  <2>4. Stored(s) = {<<y, x>>}
    BY <1>2, <2>1, <2>3
  <2> QED BY <2>4 DEF s
<1>4. Stored(<<Load(x), Load(y)>>) = {}
  <2> DEFINE s == <<Load(x), Load(y)>>
  <2>1. DOMAIN s = 1 .. 2 /\ s[1] = Load(x) /\ s[2] = Load(y)
    OBVIOUS
  <2> HIDE DEF s
  <2>2. {h \in DOMAIN s : s[h].op = "S"} = {}
    BY <1>2, <2>1
  <2>3. Stored(s) = {}
    BY <2>2 DEF Stored
  <2> QED BY <2>3 DEF s
<1>5. Stored(Exchange(x, y)) = {<<x, y>>, <<y, x>>}
  <2> DEFINE s == Exchange(x, y)
  <2>1. DOMAIN s = 1 .. 4 /\ s[1] = Load(x) /\ s[2] = Load(y)
        /\ s[3] = Store(x, y) /\ s[4] = Store(y, x)
    BY DEF Exchange
  <2> HIDE DEF s
  <2>2. {h \in DOMAIN s : s[h].op = "S"} = {3, 4}
    BY <1>2, <2>1
  <2>3. Stored(s) = {<<s[q].cell, s[q].from>> : q \in {3, 4}}
    BY <2>2 DEF Stored
  <2>4. Stored(s) = {<<x, y>>, <<y, x>>}
    BY <1>2, <2>1, <2>3
  <2> QED BY <2>4 DEF s
<1>6. /\ <<Load(x), Store(y, x)>> \in Seq(Access) /\ <<Load(x), Load(y)>> \in Seq(Access)
      /\ Exchange(x, y) \in Seq(Access)
  BY <1>1 DEF Exchange
<1> QED BY <1>3, <1>4, <1>5, <1>6

(* Cells are numbers.                                                      *)
LEMMA CellInts ==
    ASSUME shape \in Shapes
    PROVE  \A r, c \in Int : A(r, c) \in Int /\ B(r, c) \in Int
<1>1. M \in Int /\ N \in Int /\ BBase \in Int
  BY SizesAre DEF BBase, MaxN
<1> SUFFICES ASSUME NEW r \in Int, NEW c \in Int
             PROVE  A(r, c) \in Int /\ B(r, c) \in Int
  OBVIOUS
<1>2. r * M \in Int /\ r * N \in Int
  BY <1>1
<1> QED BY <1>1, <1>2 DEF A, B

(* Eight accesses of one kind.                                             *)
LEMMA EachStored ==
    ASSUME NEW n \in Nat, NEW c \in [1 .. n -> Int], NEW f \in [1 .. n -> Int]
    PROVE  /\ [q \in 1 .. n |-> Load(c[q])] \in Seq(Access)
           /\ Stored([q \in 1 .. n |-> Load(c[q])]) = {}
           /\ [q \in 1 .. n |-> Store(c[q], f[q])] \in Seq(Access)
           /\ Stored([q \in 1 .. n |-> Store(c[q], f[q])]) =
                {<<c[q], f[q]>> : q \in 1 .. n}
<1> DEFINE s == [q \in 1 .. n |-> Load(c[q])]
           t == [q \in 1 .. n |-> Store(c[q], f[q])]
<1>1. s \in Seq(Access) /\ t \in Seq(Access)
  <2>1. \A q \in 1 .. n : Load(c[q]) \in Access /\ Store(c[q], f[q]) \in Access
    BY DEF Load, Store, Access
  <2>2. s \in [1 .. n -> Access] /\ t \in [1 .. n -> Access]
    BY <2>1
  <2> QED BY <2>2
<1>2. Stored(s) = {}
  <2>1. DOMAIN s = 1 .. n /\ \A q \in 1 .. n : s[q].op # "S"
    BY DEF Load
  <2> HIDE DEF s
  <2> QED BY <2>1 DEF Stored
<1>3. Stored(t) = {<<c[q], f[q]>> : q \in 1 .. n}
  <2>1. /\ DOMAIN t = 1 .. n
        /\ \A q \in 1 .. n : t[q].op = "S" /\ t[q].cell = c[q] /\ t[q].from = f[q]
    BY DEF Store
  <2> HIDE DEF t
  <2>2. {h \in DOMAIN t : t[h].op = "S"} = 1 .. n
    BY <2>1
  <2>3. Stored(t) = {<<t[q].cell, t[q].from>> : q \in 1 .. n}
    BY <2>2 DEF Stored
  <2> QED BY <2>1, <2>3
<1> QED BY <1>1, <1>2, <1>3

(* Row k of a block of A goes to row k of the block of B...                *)
RowOf(i, j, k) == [w \in {<<j + k, i + q>> : q \in 0 .. 7} |-> A(i + k, j + (w[2] - i))]

(* Copying a row stores what RowOf says.                                   *)
LEMMA CopyRowPuts ==
    ASSUME shape \in Shapes, NEW i \in Nat, NEW j \in Nat, NEW k \in 0 .. 7,
           i + 8 <= N, j + 8 <= M
    PROVE  Puts(CopyRow(i, j, k), RowOf(i, j, k))
<1> DEFINE c == [q \in 1 .. 8 |-> A(i + k, j + (q - 1))]
           e == [q \in 1 .. 8 |-> B(j + k, i + (q - 1))]
           loads == [q \in 1 .. 8 |-> Load(c[q])]
           stores == [q \in 1 .. 8 |-> Store(e[q], c[q])]
           F == RowOf(i, j, k)
<1>0. M \in Nat /\ N \in Nat
  BY SizesAre DEF MaxN
<1>1. c \in [1 .. 8 -> Int] /\ e \in [1 .. 8 -> Int]
  <2>1. ASSUME NEW q \in 1 .. 8
        PROVE  A(i + k, j + (q - 1)) \in Int /\ B(j + k, i + (q - 1)) \in Int
    <3>1. i + k \in Int /\ j + k \in Int /\ j + (q - 1) \in Int /\ i + (q - 1) \in Int
      OBVIOUS
    <3> QED BY <3>1, CellInts
  <2> QED BY <2>1
<1>2. CopyRow(i, j, k) = loads \o stores
  BY DEF CopyRow, Each
<1>3. /\ loads \in Seq(Access) /\ stores \in Seq(Access) /\ Stored(loads) = {}
      /\ Stored(stores) = {<<e[q], c[q]>> : q \in 1 .. 8}
  <2>1. 8 \in Nat
    OBVIOUS
  <2> HIDE DEF c, e
  <2> QED BY <1>1, <2>1, EachStored, Zenon
<1>4. /\ CopyRow(i, j, k) \in Seq(Access)
      /\ Stored(CopyRow(i, j, k)) = {<<e[q], c[q]>> : q \in 1 .. 8}
  <2> HIDE DEF c, e, loads, stores
  <2> QED BY <1>2, <1>3, StoredJoined
<1>5. DOMAIN F = {<<j + k, i + q>> : q \in 0 .. 7}
  BY DEF RowOf
<1>6. DOMAIN F \subseteq Rows \X Cols
  BY <1>0, <1>5 DEF Rows, Cols
<1>7. {<<e[q], c[q]>> : q \in 1 .. 8} = {<<B(w[1], w[2]), F[w]>> : w \in DOMAIN F}
  <2>1. ASSUME NEW q \in 1 .. 8
        PROVE  \E w \in DOMAIN F : <<e[q], c[q]>> = <<B(w[1], w[2]), F[w]>>
    <3> DEFINE w == <<j + k, i + (q - 1)>>
    <3>1. w \in DOMAIN F /\ w[1] = j + k /\ w[2] = i + (q - 1) /\ w[2] - i = q - 1
      BY <1>5
    <3>2. F[w] = A(i + k, j + (q - 1))
      BY <1>5, <3>1 DEF RowOf
    <3> HIDE DEF w
    <3> QED BY <3>1, <3>2
  <2>2. ASSUME NEW w \in DOMAIN F
        PROVE  \E q \in 1 .. 8 : <<e[q], c[q]>> = <<B(w[1], w[2]), F[w]>>
    <3>1. PICK p \in 0 .. 7 : w = <<j + k, i + p>>
      BY <1>5
    <3>2. p + 1 \in 1 .. 8 /\ w[1] = j + k /\ w[2] = i + p /\ w[2] - i = p /\ (p + 1) - 1 = p
      BY <3>1
    <3>3. F[w] = A(i + k, j + p)
      BY <1>5, <3>2 DEF RowOf
    <3>4. e[p + 1] = B(j + k, i + p) /\ c[p + 1] = A(i + k, j + p)
      BY <3>2
    <3> QED BY <3>2, <3>3, <3>4
  <2> HIDE DEF e, c, F
  <2> QED BY <2>1, <2>2
<1> HIDE DEF e, c
<1> QED BY <1>4, <1>6, <1>7 DEF Puts

(* How to show that accesses store what F says.                            *)
LEMMA PutsFrom ==
    ASSUME NEW s \in Seq(Access), NEW F, DOMAIN F \subseteq Rows \X Cols,
           \A p \in Stored(s) : \E w \in DOMAIN F : p = <<B(w[1], w[2]), F[w]>>,
           \A w \in DOMAIN F : <<B(w[1], w[2]), F[w]>> \in Stored(s)
    PROVE  Puts(s, F)
<1>1. Stored(s) = {<<B(w[1], w[2]), F[w]>> : w \in DOMAIN F}
  OBVIOUS
<1> QED BY <1>1 DEF Puts

(* ... or to its place in the transpose, a column at a time...             *)
ColumnOf(i, s) == [w \in {<<s, i + q>> : q \in 0 .. 7} |-> A(w[2], s)]

(* Transposing a column of eight stores what ColumnOf says.                *)
LEMMA ColumnPuts ==
    ASSUME shape \in Shapes, NEW i \in Nat, NEW s \in Nat, i + 8 <= N, s < M
    PROVE  Puts(Column(i, s), ColumnOf(i, s))
<1> DEFINE c == [q \in 1 .. 8 |-> A(i + (q - 1), s)]
           e == [q \in 1 .. 8 |-> B(s, i + (q - 1))]
           loads == [q \in 1 .. 8 |-> Load(c[q])]
           stores == [q \in 1 .. 8 |-> Store(e[q], c[q])]
           F == ColumnOf(i, s)
<1>0. M \in Nat /\ N \in Nat
  BY SizesAre DEF MaxN
<1>1. c \in [1 .. 8 -> Int] /\ e \in [1 .. 8 -> Int]
  <2>1. ASSUME NEW q \in 1 .. 8
        PROVE  A(i + (q - 1), s) \in Int /\ B(s, i + (q - 1)) \in Int
    <3>1. s \in Int /\ i + (q - 1) \in Int
      OBVIOUS
    <3> QED BY <3>1, CellInts
  <2> QED BY <2>1
<1>2. Column(i, s) = loads \o stores
  BY DEF Column, Each
<1>3. /\ loads \in Seq(Access) /\ stores \in Seq(Access) /\ Stored(loads) = {}
      /\ Stored(stores) = {<<e[q], c[q]>> : q \in 1 .. 8}
  <2>1. 8 \in Nat
    OBVIOUS
  <2> HIDE DEF c, e
  <2> QED BY <1>1, <2>1, EachStored, Zenon
<1>4. /\ Column(i, s) \in Seq(Access)
      /\ Stored(Column(i, s)) = {<<e[q], c[q]>> : q \in 1 .. 8}
  <2> HIDE DEF c, e, loads, stores
  <2> QED BY <1>2, <1>3, StoredJoined
<1>5. DOMAIN F = {<<s, i + q>> : q \in 0 .. 7}
  BY DEF ColumnOf
<1>6. DOMAIN F \subseteq Rows \X Cols
  BY <1>0, <1>5 DEF Rows, Cols
<1>7. ASSUME NEW q \in 1 .. 8
      PROVE  \E w \in DOMAIN F : <<e[q], c[q]>> = <<B(w[1], w[2]), F[w]>>
  <2> DEFINE w == <<s, i + (q - 1)>>
  <2>1. w \in DOMAIN F /\ w[1] = s /\ w[2] = i + (q - 1)
    BY <1>5
  <2>2. F[w] = A(i + (q - 1), s)
    BY <1>5, <2>1 DEF ColumnOf
  <2> HIDE DEF w
  <2> QED BY <2>1, <2>2
<1>8. ASSUME NEW w \in DOMAIN F
      PROVE  \E q \in 1 .. 8 : <<e[q], c[q]>> = <<B(w[1], w[2]), F[w]>>
  <2>1. PICK p \in 0 .. 7 : w = <<s, i + p>>
    BY <1>5
  <2>2. p + 1 \in 1 .. 8 /\ w[1] = s /\ w[2] = i + p /\ (p + 1) - 1 = p
    BY <2>1
  <2>3. F[w] = A(i + p, s)
    BY <1>5, <2>2 DEF ColumnOf
  <2>4. e[p + 1] = B(s, i + p) /\ c[p + 1] = A(i + p, s)
    BY <2>2
  <2> QED BY <2>2, <2>3, <2>4
<1> HIDE DEF e, c, F
<1>9. \A p \in Stored(Column(i, s)) : \E w \in DOMAIN F : p = <<B(w[1], w[2]), F[w]>>
  BY <1>4, <1>7
<1>10. \A w \in DOMAIN F : <<B(w[1], w[2]), F[w]>> \in Stored(Column(i, s))
  BY <1>4, <1>8
<1>11. Puts(Column(i, s), F)
  BY <1>4, <1>6, <1>9, <1>10, PutsFrom
<1> QED BY <1>11 DEF F

(* ... a row at a time...                                                  *)
PlacesOf(k, j, e) == [w \in {<<r, k>> : r \in j .. e - 1} |-> A(k, w[1])]

(* Transposing a part of a row stores what PlacesOf says.                  *)
LEMMA RowPuts ==
    ASSUME shape \in Shapes, NEW k \in Nat, NEW j \in Nat, NEW e \in Nat,
           k < N, j <= e, e <= M
    PROVE  Puts(Row(k, j, e), PlacesOf(k, j, e))
<1> DEFINE n == e - j
           x(q) == A(k, j + (q - 1))
           y(q) == B(j + (q - 1), k)
           ss == [q \in 1 .. n |-> <<Load(x(q)), Store(y(q), x(q))>>]
           F == PlacesOf(k, j, e)
<1>0. M \in Nat /\ N \in Nat /\ n \in Nat
  BY SizesAre DEF MaxN
<1>1. \A q \in 1 .. n : x(q) \in Int /\ y(q) \in Int
  <2> SUFFICES ASSUME NEW q \in 1 .. n PROVE x(q) \in Int /\ y(q) \in Int
    OBVIOUS
  <2>1. k \in Int /\ j + (q - 1) \in Int
    OBVIOUS
  <2> QED BY <2>1, CellInts
<1>2. Row(k, j, e) = FlattenSeq(ss)
  BY DEF Row, Every
<1> HIDE DEF x, y
<1>3. \A q \in 1 .. n : ss[q] \in Seq(Access) /\ Stored(ss[q]) = {<<y(q), x(q)>>}
  BY <1>1, Pairs
<1>4. Pieces(ss, n)
  BY <1>3 DEF Pieces
<1> HIDE DEF ss, n
<1>5. /\ Row(k, j, e) \in Seq(Access)
      /\ Stored(Row(k, j, e)) = UNION {Stored(ss[q]) : q \in 1 .. n}
  BY <1>0, <1>2, <1>4, FlattenStored
<1>6. Stored(Row(k, j, e)) = {<<y(q), x(q)>> : q \in 1 .. n}
  BY <1>3, <1>5
<1>7. DOMAIN F = {<<r, k>> : r \in j .. e - 1}
  BY DEF PlacesOf
<1>8. DOMAIN F \subseteq Rows \X Cols
  BY <1>0, <1>7 DEF Rows, Cols
<1>9. ASSUME NEW q \in 1 .. n
      PROVE  \E w \in DOMAIN F : <<y(q), x(q)>> = <<B(w[1], w[2]), F[w]>>
  <2> DEFINE w == <<j + (q - 1), k>>
  <2>1. w \in DOMAIN F /\ w[1] = j + (q - 1) /\ w[2] = k
    BY <1>7 DEF n
  <2>2. F[w] = A(k, j + (q - 1))
    BY <1>7, <2>1 DEF PlacesOf
  <2> HIDE DEF w
  <2> QED BY <2>1, <2>2 DEF x, y
<1>10. ASSUME NEW w \in DOMAIN F
       PROVE  \E q \in 1 .. n : <<y(q), x(q)>> = <<B(w[1], w[2]), F[w]>>
  <2>1. PICK r \in j .. e - 1 : w = <<r, k>>
    BY <1>7
  <2>2. r - j + 1 \in 1 .. n /\ w[1] = r /\ w[2] = k /\ j + ((r - j + 1) - 1) = r
    BY <2>1 DEF n
  <2>3. F[w] = A(k, r)
    BY <1>7, <2>2 DEF PlacesOf
  <2>4. y(r - j + 1) = B(r, k) /\ x(r - j + 1) = A(k, r)
    BY <2>2 DEF x, y
  <2> QED BY <2>2, <2>3, <2>4
<1> HIDE DEF F
<1>11. \A p \in Stored(Row(k, j, e)) : \E w \in DOMAIN F : p = <<B(w[1], w[2]), F[w]>>
  BY <1>6, <1>9
<1>12. \A w \in DOMAIN F : <<B(w[1], w[2]), F[w]>> \in Stored(Row(k, j, e))
  BY <1>6, <1>10
<1>13. Puts(Row(k, j, e), F)
  BY <1>5, <1>8, <1>11, <1>12, PutsFrom
<1> QED BY <1>13 DEF F

(* ... and B is transposed in place: the places of row k and column k of a *)
(* block of 8 change with those on the other side of the diagonal.         *)
SwapOf(i, j, k) ==
    [w \in {<<j + k, i + s>> : s \in k + 1 .. 7} \cup {<<j + s, i + k>> : s \in k + 1 .. 7}
        |-> B(j + (w[2] - i), i + (w[1] - j))]

(* A row of exchanges stores what SwapOf says.                             *)
LEMMA SwapRowPuts ==
    ASSUME shape \in Shapes, NEW i \in Nat, NEW j \in Nat, NEW k \in 0 .. 7,
           i + 8 <= N, j + 8 <= M
    PROVE  Puts(SwapRow(i, j, k), SwapOf(i, j, k))
<1> DEFINE n == 7 - k
           x(q) == B(j + k, i + k + 1 + (q - 1))
           y(q) == B(j + k + 1 + (q - 1), i + k)
           ss == [q \in 1 .. n |-> Exchange(x(q), y(q))]
           F == SwapOf(i, j, k)
           s == SwapRow(i, j, k)
<1>0. M \in Nat /\ N \in Nat /\ n \in Nat
  BY SizesAre DEF MaxN
<1>1. \A q \in 1 .. n : x(q) \in Int /\ y(q) \in Int
  <2> SUFFICES ASSUME NEW q \in 1 .. n PROVE x(q) \in Int /\ y(q) \in Int
    OBVIOUS
  <2>1. /\ j + k \in Int /\ i + k + 1 + (q - 1) \in Int
        /\ i + k \in Int /\ j + k + 1 + (q - 1) \in Int
    OBVIOUS
  <2> QED BY <2>1, CellInts
<1>2. s = FlattenSeq(ss)
  BY DEF SwapRow, Every
<1> HIDE DEF x, y, s
<1>3. \A q \in 1 .. n : /\ ss[q] \in Seq(Access)
                        /\ Stored(ss[q]) = {<<x(q), y(q)>>, <<y(q), x(q)>>}
  BY <1>1, Pairs
<1>4. Pieces(ss, n)
  BY <1>3 DEF Pieces
<1> HIDE DEF ss, n
<1>5. s \in Seq(Access) /\ Stored(s) = UNION {Stored(ss[q]) : q \in 1 .. n}
  BY <1>0, <1>2, <1>4, FlattenStored
<1>6. DOMAIN F = {<<j + k, i + t>> : t \in k + 1 .. 7} \cup {<<j + t, i + k>> : t \in k + 1 .. 7}
  BY DEF SwapOf
<1>7. DOMAIN F \subseteq Rows \X Cols
  BY <1>0, <1>6 DEF Rows, Cols
<1>8. ASSUME NEW t \in k + 1 .. 7
      PROVE  LET v == <<j + k, i + t>> w == <<j + t, i + k>> q == t - k IN
             /\ v \in DOMAIN F /\ B(v[1], v[2]) = x(q) /\ F[v] = y(q)
             /\ w \in DOMAIN F /\ B(w[1], w[2]) = y(q) /\ F[w] = x(q)
             /\ q \in 1 .. n
  <2> DEFINE v == <<j + k, i + t>>
             w == <<j + t, i + k>>
             q == t - k
  <2>1. /\ v[1] = j + k /\ v[2] = i + t /\ w[1] = j + t /\ w[2] = i + k
        /\ v \in DOMAIN F /\ w \in DOMAIN F
    BY <1>6
  <2>2. /\ q \in 1 .. n /\ i + k + 1 + (q - 1) = i + t /\ j + k + 1 + (q - 1) = j + t
        /\ j + (v[2] - i) = j + t /\ i + (v[1] - j) = i + k
        /\ j + (w[2] - i) = j + k /\ i + (w[1] - j) = i + t
    BY <2>1 DEF n
  <2>3. x(q) = B(j + k, i + t) /\ y(q) = B(j + t, i + k)
    BY <2>2 DEF x, y
  <2>4. F[v] = B(j + t, i + k) /\ F[w] = B(j + k, i + t)
    BY <1>6, <2>1, <2>2 DEF SwapOf
  <2> HIDE DEF F
  <2> QED BY <2>1, <2>2, <2>3, <2>4
<1>9. \A q \in 1 .. n : q + k \in k + 1 .. 7 /\ (q + k) - k = q
  BY DEF n
<1> HIDE DEF F
<1>10. ASSUME NEW p \in Stored(s)
       PROVE  \E w \in DOMAIN F : p = <<B(w[1], w[2]), F[w]>>
  <2>1. PICK q \in 1 .. n : p = <<x(q), y(q)>> \/ p = <<y(q), x(q)>>
    BY <1>3, <1>5
  <2>2. q + k \in k + 1 .. 7 /\ (q + k) - k = q
    BY <1>9
  <2> DEFINE v == <<j + k, i + (q + k)>>
             w == <<j + (q + k), i + k>>
  <2>3. /\ v \in DOMAIN F /\ B(v[1], v[2]) = x(q) /\ F[v] = y(q)
        /\ w \in DOMAIN F /\ B(w[1], w[2]) = y(q) /\ F[w] = x(q)
    BY <1>8, <2>2
  <2> HIDE DEF v, w
  <2> QED BY <2>1, <2>3
<1>11. ASSUME NEW w \in DOMAIN F
       PROVE  <<B(w[1], w[2]), F[w]>> \in Stored(s)
  <2>1. PICK t \in k + 1 .. 7 : w = <<j + k, i + t>> \/ w = <<j + t, i + k>>
    BY <1>6
  <2>2. <<B(w[1], w[2]), F[w]>> \in Stored(ss[t - k]) /\ t - k \in 1 .. n
    BY <1>3, <1>8, <2>1
  <2> QED BY <1>5, <2>2
<1>12. Puts(s, F)
  BY <1>5, <1>7, <1>10, <1>11, PutsFrom
<1> QED BY <1>12 DEF F, s

(* The same in each half of the upper four rows.                           *)
HalvesOf(i, j, k) ==
    [w \in {<<j + k, i + h + s>> : s \in k + 1 .. 3, h \in {0, 4}} \cup
           {<<j + s, i + h + k>> : s \in k + 1 .. 3, h \in {0, 4}}
        |-> IF w[2] < i + 4 THEN B(j + (w[2] - i), i + (w[1] - j))
            ELSE B(j + (w[2] - i - 4), i + 4 + (w[1] - j))]

(* A row of exchanges in both halves stores what HalvesOf says.            *)
LEMMA SwapHalvesPuts ==
    ASSUME shape \in Shapes, NEW i \in Nat, NEW j \in Nat, NEW k \in 0 .. 3,
           i + 8 <= N, j + 8 <= M
    PROVE  Puts(SwapHalves(i, j, k), HalvesOf(i, j, k))
<1> DEFINE n == 3 - k
           x(q) == B(j + k, i + k + 1 + (q - 1))
           y(q) == B(j + k + 1 + (q - 1), i + k)
           xx(q) == B(j + k, i + k + 1 + (q - 1) + 4)
           yy(q) == B(j + k + 1 + (q - 1), i + k + 4)
           ss == [q \in 1 .. n |-> Exchange(x(q), y(q)) \o Exchange(xx(q), yy(q))]
           F == HalvesOf(i, j, k)
           s == SwapHalves(i, j, k)
<1>0. M \in Nat /\ N \in Nat /\ n \in Nat
  BY SizesAre DEF MaxN
<1>1. \A q \in 1 .. n : x(q) \in Int /\ y(q) \in Int /\ xx(q) \in Int /\ yy(q) \in Int
  <2> SUFFICES ASSUME NEW q \in 1 .. n
               PROVE  x(q) \in Int /\ y(q) \in Int /\ xx(q) \in Int /\ yy(q) \in Int
    OBVIOUS
  <2>1. /\ j + k \in Int /\ i + k + 1 + (q - 1) \in Int
        /\ i + k \in Int /\ j + k + 1 + (q - 1) \in Int
        /\ i + k + 1 + (q - 1) + 4 \in Int /\ i + k + 4 \in Int
    OBVIOUS
  <2> QED BY <2>1, CellInts
<1>2. s = FlattenSeq(ss)
  BY DEF SwapHalves, Every
<1> HIDE DEF x, y, xx, yy, s
<1>3. \A q \in 1 .. n :
         /\ ss[q] \in Seq(Access)
         /\ Stored(ss[q]) = {<<x(q), y(q)>>, <<y(q), x(q)>>,
                             <<xx(q), yy(q)>>, <<yy(q), xx(q)>>}
  <2> TAKE q \in 1 .. n
  <2> DEFINE u == Exchange(x(q), y(q))
             v == Exchange(xx(q), yy(q))
  <2>1. ss[q] = u \o v
    OBVIOUS
  <2>2. /\ u \in Seq(Access) /\ Stored(u) = {<<x(q), y(q)>>, <<y(q), x(q)>>}
        /\ v \in Seq(Access) /\ Stored(v) = {<<xx(q), yy(q)>>, <<yy(q), xx(q)>>}
    BY <1>1, Pairs
  <2> HIDE DEF u, v, ss
  <2>3. ss[q] \in Seq(Access) /\ Stored(ss[q]) = Stored(u) \cup Stored(v)
    BY <2>1, <2>2, StoredJoined
  <2> QED BY <2>2, <2>3
<1>4. Pieces(ss, n)
  BY <1>3 DEF Pieces
<1> HIDE DEF ss, n
<1>5. s \in Seq(Access) /\ Stored(s) = UNION {Stored(ss[q]) : q \in 1 .. n}
  BY <1>0, <1>2, <1>4, FlattenStored
<1>6. DOMAIN F = {<<j + k, i + h + t>> : t \in k + 1 .. 3, h \in {0, 4}} \cup
                 {<<j + t, i + h + k>> : t \in k + 1 .. 3, h \in {0, 4}}
  BY DEF HalvesOf
<1>7. DOMAIN F \subseteq Rows \X Cols
  BY <1>0, <1>6 DEF Rows, Cols
<1> DEFINE X(h, q) == IF h = 0 THEN x(q) ELSE xx(q)
           Y(h, q) == IF h = 0 THEN y(q) ELSE yy(q)
<1>8. ASSUME NEW t \in k + 1 .. 3, NEW h \in {0, 4}
      PROVE  LET v == <<j + k, i + h + t>> w == <<j + t, i + h + k>> q == t - k IN
             /\ v \in DOMAIN F /\ B(v[1], v[2]) = X(h, q) /\ F[v] = Y(h, q)
             /\ w \in DOMAIN F /\ B(w[1], w[2]) = Y(h, q) /\ F[w] = X(h, q)
             /\ q \in 1 .. n
  <2> DEFINE v == <<j + k, i + h + t>>
             w == <<j + t, i + h + k>>
             q == t - k
  <2>1. /\ v[1] = j + k /\ v[2] = i + h + t /\ w[1] = j + t /\ w[2] = i + h + k
        /\ v \in DOMAIN F /\ w \in DOMAIN F
    BY <1>6
  <2>2. /\ q \in 1 .. n /\ i + k + 1 + (q - 1) = i + t /\ j + k + 1 + (q - 1) = j + t
        /\ h = 0 => /\ v[2] < i + 4 /\ w[2] < i + 4
                    /\ i + h + t = i + t /\ i + h + k = i + k
                    /\ j + (v[2] - i) = j + t /\ i + (v[1] - j) = i + k
                    /\ j + (w[2] - i) = j + k /\ i + (w[1] - j) = i + t
        /\ h = 4 => /\ ~ v[2] < i + 4 /\ ~ w[2] < i + 4
                    /\ i + h + t = i + k + 1 + (q - 1) + 4 /\ i + h + k = i + k + 4
                    /\ j + (v[2] - i - 4) = j + t /\ i + 4 + (v[1] - j) = i + k + 4
                    /\ j + (w[2] - i - 4) = j + k
                    /\ i + 4 + (w[1] - j) = i + k + 1 + (q - 1) + 4
    BY <2>1 DEF n
  <2>3. CASE h = 0
    <3>1. x(q) = B(j + k, i + t) /\ y(q) = B(j + t, i + k)
      BY <2>2 DEF x, y
    <3>2. F[v] = B(j + t, i + k) /\ F[w] = B(j + k, i + t)
      BY <1>6, <2>1, <2>2, <2>3 DEF HalvesOf
    <3> HIDE DEF F
    <3> QED BY <2>1, <2>2, <2>3, <3>1, <3>2
  <2>4. CASE h = 4
    <3>1. /\ xx(q) = B(j + k, i + k + 1 + (q - 1) + 4)
          /\ yy(q) = B(j + t, i + k + 4)
      BY <2>2 DEF xx, yy
    <3>2. F[v] = B(j + t, i + k + 4) /\ F[w] = B(j + k, i + k + 1 + (q - 1) + 4)
      BY <1>6, <2>1, <2>2, <2>4 DEF HalvesOf
    <3> HIDE DEF F
    <3> QED BY <2>1, <2>2, <2>4, <3>1, <3>2
  <2> QED BY <2>3, <2>4
<1>9. \A q \in 1 .. n : q + k \in k + 1 .. 3 /\ (q + k) - k = q
  BY DEF n
<1> HIDE DEF F
<1>10. ASSUME NEW p \in Stored(s)
       PROVE  \E w \in DOMAIN F : p = <<B(w[1], w[2]), F[w]>>
  <2>1. PICK q \in 1 .. n : p \in {<<x(q), y(q)>>, <<y(q), x(q)>>,
                                   <<xx(q), yy(q)>>, <<yy(q), xx(q)>>}
    BY <1>3, <1>5
  <2>2. PICK h \in {0, 4} : p = <<X(h, q), Y(h, q)>> \/ p = <<Y(h, q), X(h, q)>>
    BY <2>1
  <2>3. q + k \in k + 1 .. 3 /\ (q + k) - k = q
    BY <1>9
  <2> DEFINE v == <<j + k, i + h + (q + k)>>
             w == <<j + (q + k), i + h + k>>
  <2> HIDE DEF X, Y
  <2>4. /\ v \in DOMAIN F /\ B(v[1], v[2]) = X(h, q) /\ F[v] = Y(h, q)
        /\ w \in DOMAIN F /\ B(w[1], w[2]) = Y(h, q) /\ F[w] = X(h, q)
    BY <1>8, <2>3
  <2> HIDE DEF v, w
  <2> QED BY <2>2, <2>4
<1>11. ASSUME NEW w \in DOMAIN F
       PROVE  <<B(w[1], w[2]), F[w]>> \in Stored(s)
  <2>1. PICK t \in k + 1 .. 3, h \in {0, 4} :
           w = <<j + k, i + h + t>> \/ w = <<j + t, i + h + k>>
    <3>1. CASE w \in {<<j + k, i + h + t>> : t \in k + 1 .. 3, h \in {0, 4}}
      <4>1. \E t \in k + 1 .. 3, h \in {0, 4} : w = <<j + k, i + h + t>>
        BY <3>1
      <4> QED BY <4>1
    <3>2. CASE w \in {<<j + t, i + h + k>> : t \in k + 1 .. 3, h \in {0, 4}}
      <4>1. \E t \in k + 1 .. 3, h \in {0, 4} : w = <<j + t, i + h + k>>
        BY <3>2
      <4> QED BY <4>1
    <3>3. \/ w \in {<<j + k, i + h + t>> : t \in k + 1 .. 3, h \in {0, 4}}
          \/ w \in {<<j + t, i + h + k>> : t \in k + 1 .. 3, h \in {0, 4}}
      BY <1>6
    <3> QED BY <3>1, <3>2, <3>3
  <2> DEFINE q == t - k
  <2>2. \/ <<B(w[1], w[2]), F[w]>> = <<X(h, q), Y(h, q)>>
        \/ <<B(w[1], w[2]), F[w]>> = <<Y(h, q), X(h, q)>>
    <3> HIDE DEF X, Y
    <3> QED BY <1>8, <2>1
  <2>3. q \in 1 .. n
    <3> HIDE DEF X, Y
    <3> QED BY <1>8
  <2> HIDE DEF q
  <2>4. <<B(w[1], w[2]), F[w]>> \in Stored(ss[q])
    BY <1>3, <2>2, <2>3
  <2> QED BY <1>5, <2>3, <2>4
<1> HIDE DEF X, Y
<1>12. Puts(s, F)
  BY <1>5, <1>7, <1>10, <1>11, PutsFrom
<1> QED BY <1>12 DEF F, s

(* Row k of the top right quarter of B moves to the bottom left, and what  *)
(* belongs there and below comes from two columns of A.                    *)
MoveOf(i, j, k) ==
    [w \in {<<j + k, i + 4 + q>> : q \in 0 .. 3} \cup
           {<<j + k + 4, i + q>> : q \in 0 .. 7}
        |-> IF w[1] = j + k THEN A(w[2], j + k)
            ELSE IF w[2] < i + 4 THEN B(j + k, w[2] + 4) ELSE A(w[2], j + 4 + k)]

(* A load and a store into its cell.                                       *)
LEMMA TwoStored ==
    ASSUME NEW x \in Int, NEW y \in Int
    PROVE  /\ <<Load(x), Store(x, y)>> \in Seq(Access)
           /\ Stored(<<Load(x), Store(x, y)>>) = {<<x, y>>}
<1>1. Load(x) \in Access /\ Store(x, y) \in Access
  BY DEF Load, Store, Access
<1>2. Load(x).op # "S" /\ Store(x, y).op = "S" /\ Store(x, y).cell = x /\ Store(x, y).from = y
  BY DEF Load, Store
<1> HIDE DEF Load, Store
<1> DEFINE s == <<Load(x), Store(x, y)>>
<1>3. DOMAIN s = 1 .. 2 /\ s[1] = Load(x) /\ s[2] = Store(x, y) /\ s \in Seq(Access)
  BY <1>1
<1> HIDE DEF s
<1>4. {h \in DOMAIN s : s[h].op = "S"} = {2}
  BY <1>2, <1>3
<1>5. Stored(s) = {<<s[q].cell, s[q].from>> : q \in {2}}
  BY <1>4 DEF Stored
<1>6. Stored(s) = {<<x, y>>}
  BY <1>2, <1>3, <1>5
<1> QED BY <1>3, <1>6 DEF s

(* Two stores.                                                             *)
LEMMA StoresStored ==
    ASSUME NEW x \in Int, NEW y \in Int, NEW z \in Int, NEW u \in Int
    PROVE  /\ <<Store(x, y), Store(z, u)>> \in Seq(Access)
           /\ Stored(<<Store(x, y), Store(z, u)>>) = {<<x, y>>, <<z, u>>}
<1>1. Store(x, y) \in Access /\ Store(z, u) \in Access
  BY DEF Store, Access
<1>2. /\ Store(x, y).op = "S" /\ Store(x, y).cell = x /\ Store(x, y).from = y
      /\ Store(z, u).op = "S" /\ Store(z, u).cell = z /\ Store(z, u).from = u
  BY DEF Store
<1> HIDE DEF Store
<1> DEFINE s == <<Store(x, y), Store(z, u)>>
<1>3. DOMAIN s = 1 .. 2 /\ s[1] = Store(x, y) /\ s[2] = Store(z, u) /\ s \in Seq(Access)
  BY <1>1
<1> HIDE DEF s
<1>4. {h \in DOMAIN s : s[h].op = "S"} = {1, 2}
  BY <1>2, <1>3
<1>5. Stored(s) = {<<s[q].cell, s[q].from>> : q \in {1, 2}}
  BY <1>4 DEF Stored
<1>6. Stored(s) = {<<x, y>>, <<z, u>>}
  BY <1>2, <1>3, <1>5
<1> QED BY <1>3, <1>6 DEF s

(* Moving a row of the top right stores what MoveOf says.                  *)
LEMMA MoveRowPuts ==
    ASSUME shape \in Shapes, NEW i \in Nat, NEW j \in Nat, NEW k \in 0 .. 3,
           i + 8 <= N, j + 8 <= M
    PROVE  Puts(MoveRow(i, j, k), MoveOf(i, j, k))
<1> DEFINE a1(q) == A(i + 4 + (q - 1), j + k)
           a2(q) == A(i + 4 + (q - 1), j + 4 + k)
           b1(q) == B(j + k, i + 4 + (q - 1))
           b2(q) == B(j + k + 4, i + (q - 1))
           b3(q) == B(j + k + 4, i + 4 + (q - 1))
           ss == [q \in 1 .. 4 |-> <<Load(a1(q)), Load(a2(q))>>]
           tt == [q \in 1 .. 4 |-> <<Load(b1(q)), Store(b1(q), a1(q))>>]
           uu == [q \in 1 .. 4 |-> <<Store(b2(q), b1(q)), Store(b3(q), a2(q))>>]
           F == MoveOf(i, j, k)
           s == MoveRow(i, j, k)
<1>0. M \in Nat /\ N \in Nat /\ 4 \in Nat
  BY SizesAre DEF MaxN
<1>1. \A q \in 1 .. 4 : /\ a1(q) \in Int /\ a2(q) \in Int
                        /\ b1(q) \in Int /\ b2(q) \in Int /\ b3(q) \in Int
  <2> SUFFICES ASSUME NEW q \in 1 .. 4
               PROVE  /\ a1(q) \in Int /\ a2(q) \in Int
                      /\ b1(q) \in Int /\ b2(q) \in Int /\ b3(q) \in Int
    OBVIOUS
  <2>1. /\ j + k \in Int /\ j + 4 + k \in Int /\ j + k + 4 \in Int
        /\ i + 4 + (q - 1) \in Int /\ i + (q - 1) \in Int
    OBVIOUS
  <2> QED BY <2>1, CellInts
<1>2. s = (FlattenSeq(ss) \o FlattenSeq(tt)) \o FlattenSeq(uu)
  BY DEF MoveRow, Every
<1> HIDE DEF a1, a2, b1, b2, b3, s
<1>3. \A q \in 1 .. 4 :
         /\ ss[q] \in Seq(Access) /\ Stored(ss[q]) = {}
         /\ tt[q] \in Seq(Access) /\ Stored(tt[q]) = {<<b1(q), a1(q)>>}
         /\ uu[q] \in Seq(Access) /\ Stored(uu[q]) = {<<b2(q), b1(q)>>, <<b3(q), a2(q)>>}
  <2> TAKE q \in 1 .. 4
  <2>1. ss[q] \in Seq(Access) /\ Stored(ss[q]) = {}
    BY <1>1, Pairs
  <2>2. tt[q] \in Seq(Access) /\ Stored(tt[q]) = {<<b1(q), a1(q)>>}
    BY <1>1, TwoStored
  <2>3. uu[q] \in Seq(Access) /\ Stored(uu[q]) = {<<b2(q), b1(q)>>, <<b3(q), a2(q)>>}
    <3>1. b2(q) \in Int /\ b1(q) \in Int /\ b3(q) \in Int /\ a2(q) \in Int
      BY <1>1
    <3> QED BY <3>1, StoresStored
  <2> QED BY <2>1, <2>2, <2>3
<1>4. Pieces(ss, 4) /\ Pieces(tt, 4) /\ Pieces(uu, 4)
  BY <1>3 DEF Pieces
<1> HIDE DEF ss, tt, uu
<1>5. /\ FlattenSeq(ss) \in Seq(Access) /\ FlattenSeq(tt) \in Seq(Access)
      /\ FlattenSeq(uu) \in Seq(Access)
      /\ Stored(FlattenSeq(ss)) = UNION {Stored(ss[q]) : q \in 1 .. 4}
      /\ Stored(FlattenSeq(tt)) = UNION {Stored(tt[q]) : q \in 1 .. 4}
      /\ Stored(FlattenSeq(uu)) = UNION {Stored(uu[q]) : q \in 1 .. 4}
  BY <1>0, <1>4, FlattenStored
<1>6. /\ s \in Seq(Access)
      /\ Stored(s) = (Stored(FlattenSeq(ss)) \cup Stored(FlattenSeq(tt)))
                        \cup Stored(FlattenSeq(uu))
  <2> DEFINE v == FlattenSeq(ss)
             w == FlattenSeq(tt)
             x == FlattenSeq(uu)
  <2>1. s = (v \o w) \o x /\ v \in Seq(Access) /\ w \in Seq(Access) /\ x \in Seq(Access)
    BY <1>2, <1>5
  <2> HIDE DEF v, w, x
  <2>2. v \o w \in Seq(Access) /\ Stored(v \o w) = Stored(v) \cup Stored(w)
    BY <2>1, StoredJoined
  <2>3. s \in Seq(Access) /\ Stored(s) = Stored(v \o w) \cup Stored(x)
    BY <2>1, <2>2, StoredJoined
  <2> QED BY <2>2, <2>3 DEF v, w, x
<1>7. \A p : p \in Stored(s) <=>
          \E q \in 1 .. 4 : p \in {<<b1(q), a1(q)>>, <<b2(q), b1(q)>>, <<b3(q), a2(q)>>}
  <2> SUFFICES ASSUME NEW p
               PROVE  p \in Stored(s) <=>
                        \E q \in 1 .. 4 : p \in {<<b1(q), a1(q)>>, <<b2(q), b1(q)>>, <<b3(q), a2(q)>>}
    OBVIOUS
  <2>1. p \in Stored(s) <=> \E q \in 1 .. 4 : \/ p \in Stored(ss[q])
                                              \/ p \in Stored(tt[q])
                                              \/ p \in Stored(uu[q])
    BY <1>5, <1>6
  <2> QED BY <1>3, <2>1
<1>8. DOMAIN F = {<<j + k, i + 4 + q>> : q \in 0 .. 3} \cup
                 {<<j + k + 4, i + q>> : q \in 0 .. 7}
  BY DEF MoveOf
<1>9. DOMAIN F \subseteq Rows \X Cols
  BY <1>0, <1>8 DEF Rows, Cols
<1>10. ASSUME NEW q \in 1 .. 4
       PROVE  LET u == <<j + k, i + 4 + (q - 1)>>
                  v == <<j + k + 4, i + (q - 1)>>
                  w == <<j + k + 4, i + 4 + (q - 1)>>
              IN  /\ u \in DOMAIN F /\ B(u[1], u[2]) = b1(q) /\ F[u] = a1(q)
                  /\ v \in DOMAIN F /\ B(v[1], v[2]) = b2(q) /\ F[v] = b1(q)
                  /\ w \in DOMAIN F /\ B(w[1], w[2]) = b3(q) /\ F[w] = a2(q)
  <2> DEFINE u == <<j + k, i + 4 + (q - 1)>>
             v == <<j + k + 4, i + (q - 1)>>
             w == <<j + k + 4, i + 4 + (q - 1)>>
  <2>1. /\ u[1] = j + k /\ u[2] = i + 4 + (q - 1)
        /\ v[1] = j + k + 4 /\ v[2] = i + (q - 1)
        /\ w[1] = j + k + 4 /\ w[2] = i + 4 + (q - 1)
    OBVIOUS
  <2>2. /\ q - 1 \in 0 .. 3 /\ q - 1 \in 0 .. 7 /\ q + 3 \in 0 .. 7
        /\ i + 4 + (q - 1) = i + (q + 3)
        /\ v[1] # j + k /\ w[1] # j + k /\ v[2] < i + 4 /\ ~ w[2] < i + 4
        /\ v[2] + 4 = i + 4 + (q - 1)
    BY <2>1
  <2>3. u \in DOMAIN F /\ v \in DOMAIN F /\ w \in DOMAIN F
    BY <1>8, <2>2
  <2>4. F[u] = A(u[2], j + k) /\ F[v] = B(j + k, v[2] + 4) /\ F[w] = A(w[2], j + 4 + k)
    BY <1>8, <2>1, <2>2, <2>3 DEF MoveOf
  <2> HIDE DEF F
  <2> QED BY <2>1, <2>2, <2>3, <2>4 DEF a1, a2, b1, b2, b3
<1> HIDE DEF F
<1>11. ASSUME NEW p \in Stored(s)
       PROVE  \E w \in DOMAIN F : p = <<B(w[1], w[2]), F[w]>>
  <2>1. PICK q \in 1 .. 4 : p \in {<<b1(q), a1(q)>>, <<b2(q), b1(q)>>, <<b3(q), a2(q)>>}
    BY <1>7
  <2> DEFINE u == <<j + k, i + 4 + (q - 1)>>
             v == <<j + k + 4, i + (q - 1)>>
             w == <<j + k + 4, i + 4 + (q - 1)>>
  <2>2. /\ u \in DOMAIN F /\ B(u[1], u[2]) = b1(q) /\ F[u] = a1(q)
        /\ v \in DOMAIN F /\ B(v[1], v[2]) = b2(q) /\ F[v] = b1(q)
        /\ w \in DOMAIN F /\ B(w[1], w[2]) = b3(q) /\ F[w] = a2(q)
    BY <1>10
  <2> HIDE DEF u, v, w
  <2> QED BY <2>1, <2>2
<1>12. ASSUME NEW w \in DOMAIN F
       PROVE  <<B(w[1], w[2]), F[w]>> \in Stored(s)
  <2>1. PICK q \in 1 .. 4 : \/ w = <<j + k, i + 4 + (q - 1)>>
                            \/ w = <<j + k + 4, i + (q - 1)>>
                            \/ w = <<j + k + 4, i + 4 + (q - 1)>>
    <3>1. CASE w \in {<<j + k, i + 4 + q>> : q \in 0 .. 3}
      <4>1. PICK q \in 0 .. 3 : w = <<j + k, i + 4 + q>>
        BY <3>1
      <4>2. q + 1 \in 1 .. 4 /\ (q + 1) - 1 = q
        OBVIOUS
      <4> QED BY <4>1, <4>2
    <3>2. CASE w \in {<<j + k + 4, i + q>> : q \in 0 .. 7}
      <4>1. PICK q \in 0 .. 7 : w = <<j + k + 4, i + q>>
        BY <3>2
      <4>2. CASE q < 4
        <5>1. q + 1 \in 1 .. 4 /\ (q + 1) - 1 = q
          BY <4>2
        <5> QED BY <4>1, <5>1
      <4>3. CASE ~ q < 4
        <5>1. q - 3 \in 1 .. 4 /\ i + 4 + ((q - 3) - 1) = i + q
          BY <4>3
        <5> QED BY <4>1, <5>1
      <4> QED BY <4>2, <4>3
    <3> QED BY <1>8, <3>1, <3>2
  <2>2. <<B(w[1], w[2]), F[w]>> \in {<<b1(q), a1(q)>>, <<b2(q), b1(q)>>, <<b3(q), a2(q)>>}
    BY <1>10, <2>1
  <2> QED BY <1>7, <2>2
<1>13. Puts(s, F)
  BY <1>6, <1>9, <1>11, <1>12, PutsFrom
<1> QED BY <1>13 DEF F, s

(* What the parts of a block have done after k iterations, in an array g   *)
(* with the cells of B: rows of A have been copied to rows of B...         *)
Copied(g, i, j, k) ==
    \A p \in 0 .. k - 1, q \in 0 .. 7 : g[B(j + p, i + q)] = Correct(i + p, j + q)

(* ... places on both sides of the diagonal exchanged, in a block of 8...  *)
Swapped(g, i, j, k) ==
    \A p \in 0 .. 7, q \in 0 .. 7 :
        g[B(j + p, i + q)] = IF p < k \/ q < k THEN Correct(i + q, j + p)
                             ELSE Correct(i + p, j + q)

(* ... or in each half of four rows...                                     *)
HalvesSwapped(g, i, j, k) ==
    \A p \in 0 .. 3, q \in 0 .. 3 :
        /\ g[B(j + p, i + q)] = IF p < k \/ q < k THEN Correct(i + q, j + p)
                                ELSE Correct(i + p, j + q)
        /\ g[B(j + p, i + 4 + q)] = IF p < k \/ q < k THEN Correct(i + q, j + 4 + p)
                                    ELSE Correct(i + p, j + 4 + q)

(* ... the top right moved to the bottom left, with the rest filled...     *)
Moved(g, i, j, k) ==
    \A p \in 0 .. 3, q \in 0 .. 3 :
        /\ g[B(j + p, i + q)] = Correct(i + q, j + p)
        /\ p < k => /\ g[B(j + p, i + 4 + q)] = Correct(i + 4 + q, j + p)
                    /\ g[B(j + 4 + p, i + q)] = Correct(i + q, j + 4 + p)
                    /\ g[B(j + 4 + p, i + 4 + q)] = Correct(i + 4 + q, j + 4 + p)
        /\ p >= k => g[B(j + p, i + 4 + q)] = Correct(i + q, j + 4 + p)

(* ... or columns or rows of the block put in their place one by one.      *)
ColumnsDone(g, i, j, k) ==
    \A p \in 0 .. k - 1, q \in 0 .. 7 : g[B(j + p, i + q)] = Correct(i + q, j + p)
CornerDone(g, i, j, k) ==
    \A r \in j .. Smaller(j + 23, M) - 1, q \in 0 .. k - 1 :
        g[B(r, i + q)] = Correct(i + q, r)

(* Only the block of h columns of B from i on and l rows from j on changed. *)
OnlyIn(g, i, j, h, l) ==
    \A r \in Rows, c \in Cols :
        ~ (r \in j .. j + l - 1 /\ c \in i .. i + h - 1) => g[B(r, c)] = b[B(r, c)]
(* All of it is transposed.                                                *)
Transposed(g, i, j, h, l) ==
    \A r \in Rows, c \in Cols :
        r \in j .. j + l - 1 /\ c \in i .. i + h - 1 => g[B(r, c)] = Correct(c, r)

(* A block of 8 by 8 inside both matrices.                                 *)
Block(i, j) == i \in Nat /\ j \in Nat /\ i + 8 <= N /\ j + 8 <= M

(* The 64 places of a block are places of the matrix.                      *)
LEMMA BlockPlaces ==
    ASSUME shape \in Shapes, NEW i, NEW j, Block(i, j)
    PROVE  \A p, q \in 0 .. 7 : j + p \in Rows /\ i + q \in Cols
<1>1. M \in Nat /\ N \in Nat
  BY SizesAre DEF MaxN
<1> QED BY <1>1 DEF Rows, Cols, Block

(* An iteration of "copy" does one row more.                               *)
LEMMA CopyStep ==
    ASSUME shape \in Shapes, DOMAIN b = BCells, NEW i, NEW j, Block(i, j),
           NEW k \in 0 .. 7, Copied(b, i, j, k)
    PROVE  LET d == Written(CopyRow(i, j, k))
           IN  DOMAIN d = BCells /\ Copied(d, i, j, k + 1) /\ OnlyIn(d, i, j, 8, 8)
<1> DEFINE d == Written(CopyRow(i, j, k))
           F == RowOf(i, j, k)
<1>1. Has(d, F)
  BY CopyRowPuts, PlacesWritten DEF Block
<1> HIDE DEF d
<1>2. i \in Nat /\ j \in Nat /\ \A p, q \in 0 .. 7 : j + p \in Rows /\ i + q \in Cols
  BY BlockPlaces DEF Block
<1>3. DOMAIN F = {<<j + k, i + q>> : q \in 0 .. 7}
  BY DEF RowOf
<1>4. ASSUME NEW p \in 0 .. (k + 1) - 1, NEW q \in 0 .. 7
      PROVE  d[B(j + p, i + q)] = Correct(i + p, j + q)
  <2> DEFINE w == <<j + p, i + q>>
  <2>1. d[B(j + p, i + q)] = IF w \in DOMAIN F THEN Contents(F[w]) ELSE b[B(j + p, i + q)]
    BY <1>1, <1>2 DEF Has
  <2>2. CASE p = k
    <3>1. w \in DOMAIN F /\ w[2] = i + q /\ j + (w[2] - i) = j + q
      BY <1>2, <1>3, <2>2
    <3>2. F[w] = A(i + p, j + q)
      BY <1>3, <2>2, <3>1 DEF RowOf
    <3>3. Contents(A(i + p, j + q)) = Correct(i + p, j + q)
      BY <1>2, ContentsAre DEF Rows, Cols, Block
    <3> QED BY <2>1, <3>1, <3>2, <3>3
  <2>3. CASE p # k
    <3>1. w \notin DOMAIN F
      BY <1>2, <1>3, <2>3
    <3>2. b[B(j + p, i + q)] = Correct(i + p, j + q)
      BY <2>3 DEF Copied
    <3> HIDE DEF w, F
    <3> QED BY <2>1, <3>1, <3>2
  <2> QED BY <2>2, <2>3
<1>5. OnlyIn(d, i, j, 8, 8)
  <2> SUFFICES ASSUME NEW r \in Rows, NEW c \in Cols,
                      ~ (r \in j .. j + 8 - 1 /\ c \in i .. i + 8 - 1)
               PROVE  d[B(r, c)] = b[B(r, c)]
    BY DEF OnlyIn
  <2>1. <<r, c>> \notin DOMAIN F
    BY <1>2, <1>3
  <2> QED BY <1>1, <2>1 DEF Has
<1>6. DOMAIN d = BCells
  BY <1>1 DEF Has
<1> QED BY <1>4, <1>5, <1>6 DEF Copied, d

(* An iteration of "swap" does one row and column more.                    *)
LEMMA SwapStep ==
    ASSUME shape \in Shapes, DOMAIN b = BCells, NEW i, NEW j, Block(i, j),
           NEW k \in 0 .. 7, Swapped(b, i, j, k)
    PROVE  LET d == Written(SwapRow(i, j, k))
           IN  DOMAIN d = BCells /\ Swapped(d, i, j, k + 1) /\ OnlyIn(d, i, j, 8, 8)
<1> DEFINE d == Written(SwapRow(i, j, k))
           F == SwapOf(i, j, k)
<1>1. Has(d, F)
  BY SwapRowPuts, PlacesWritten DEF Block
<1> HIDE DEF d
<1>2. i \in Nat /\ j \in Nat /\ \A p, q \in 0 .. 7 : j + p \in Rows /\ i + q \in Cols
  BY BlockPlaces DEF Block
<1>3. DOMAIN F = {<<j + k, i + s>> : s \in k + 1 .. 7} \cup {<<j + s, i + k>> : s \in k + 1 .. 7}
  BY DEF SwapOf
<1>4. ASSUME NEW p \in 0 .. 7, NEW q \in 0 .. 7
      PROVE  d[B(j + p, i + q)] = IF p < k + 1 \/ q < k + 1 THEN Correct(i + q, j + p)
                                  ELSE Correct(i + p, j + q)
  <2> DEFINE w == <<j + p, i + q>>
  <2>1. d[B(j + p, i + q)] = IF w \in DOMAIN F THEN Contents(F[w]) ELSE b[B(j + p, i + q)]
    BY <1>1, <1>2 DEF Has
  <2>2. /\ b[B(j + p, i + q)] = IF p < k \/ q < k THEN Correct(i + q, j + p)
                                ELSE Correct(i + p, j + q)
        /\ b[B(j + q, i + p)] = IF q < k \/ p < k THEN Correct(i + p, j + q)
                                ELSE Correct(i + q, j + p)
    BY DEF Swapped
  <2>3. CASE (p = k /\ q > k) \/ (q = k /\ p > k)
    <3>1. w \in DOMAIN F /\ w[1] = j + p /\ w[2] = i + q
      BY <1>2, <1>3, <2>3
    <3>2. j + (w[2] - i) = j + q /\ i + (w[1] - j) = i + p
      BY <1>2, <3>1
    <3>3. F[w] = B(j + q, i + p)
      BY <1>3, <3>1, <3>2 DEF SwapOf
    <3>4. Contents(B(j + q, i + p)) = b[B(j + q, i + p)]
      BY <1>2, ContentsAre
    <3>5. d[B(j + p, i + q)] = b[B(j + q, i + p)]
      BY <2>1, <3>1, <3>3, <3>4
    <3> HIDE DEF w, F
    <3> QED BY <2>2, <2>3, <3>5
  <2>4. CASE ~ ((p = k /\ q > k) \/ (q = k /\ p > k))
    <3>1. w \notin DOMAIN F
      <4>1. ASSUME NEW s \in k + 1 .. 7, w = <<j + k, i + s>> PROVE FALSE
        <5>1. j + p = j + k /\ i + q = i + s
          BY <4>1
        <5>2. p = k /\ q > k
          BY <1>2, <5>1
        <5> QED BY <2>4, <5>2
      <4>2. ASSUME NEW s \in k + 1 .. 7, w = <<j + s, i + k>> PROVE FALSE
        <5>1. j + p = j + s /\ i + q = i + k
          BY <4>2
        <5>2. q = k /\ p > k
          BY <1>2, <5>1
        <5> QED BY <2>4, <5>2
      <4> HIDE DEF w, F
      <4> QED BY <1>3, <4>1, <4>2
    <3>2. d[B(j + p, i + q)] = b[B(j + p, i + q)]
      BY <2>1, <3>1
    <3>3. CASE p = k /\ q = k
      BY <2>2, <3>2, <3>3
    <3>4. CASE ~ (p = k /\ q = k)
      <4>1. (p < k + 1 \/ q < k + 1) <=> (p < k \/ q < k)
        <5>1. p \in Int /\ q \in Int /\ k \in Int
          OBVIOUS
        <5> HIDE DEF w, F
        <5> QED BY <2>4, <3>4, <5>1
      <4> QED BY <2>2, <3>2, <4>1
    <3> QED BY <3>3, <3>4
  <2> QED BY <2>3, <2>4
<1>5. OnlyIn(d, i, j, 8, 8)
  <2> SUFFICES ASSUME NEW r \in Rows, NEW c \in Cols,
                      ~ (r \in j .. j + 8 - 1 /\ c \in i .. i + 8 - 1)
               PROVE  d[B(r, c)] = b[B(r, c)]
    BY DEF OnlyIn
  <2>1. <<r, c>> \notin DOMAIN F
    BY <1>2, <1>3
  <2> QED BY <1>1, <2>1 DEF Has
<1>6. DOMAIN d = BCells
  BY <1>1 DEF Has
<1> QED BY <1>4, <1>5, <1>6 DEF Swapped, d

(* An iteration of "halves" does one row and column more of both.          *)
LEMMA HalvesStep ==
    ASSUME shape \in Shapes, DOMAIN b = BCells, NEW i, NEW j, Block(i, j),
           NEW k \in 0 .. 3, HalvesSwapped(b, i, j, k)
    PROVE  LET d == Written(SwapHalves(i, j, k))
           IN  DOMAIN d = BCells /\ HalvesSwapped(d, i, j, k + 1) /\ OnlyIn(d, i, j, 8, 8)
<1> DEFINE d == Written(SwapHalves(i, j, k))
           F == HalvesOf(i, j, k)
<1>1. Has(d, F)
  BY SwapHalvesPuts, PlacesWritten DEF Block
<1> HIDE DEF d
<1>2. i \in Nat /\ j \in Nat /\ \A p, q \in 0 .. 7 : j + p \in Rows /\ i + q \in Cols
  BY BlockPlaces DEF Block
<1>3. DOMAIN F = {<<j + k, i + h + s>> : s \in k + 1 .. 3, h \in {0, 4}} \cup
                 {<<j + s, i + h + k>> : s \in k + 1 .. 3, h \in {0, 4}}
  BY DEF HalvesOf
<1>4. ASSUME NEW p \in 0 .. 3, NEW q \in 0 .. 3, NEW h \in {0, 4}
      PROVE  LET u == i + h + q
                 v == i + h + p
             IN  d[B(j + p, u)] =
                    IF (p = k /\ q > k) \/ (q = k /\ p > k) THEN b[B(j + q, v)]
                    ELSE b[B(j + p, u)]
  <2> DEFINE u == i + h + q
             v == i + h + p
             w == <<j + p, u>>
  <2>1. j + p \in Rows /\ j + q \in Rows /\ u \in Cols /\ v \in Cols
    <3>1. /\ p \in 0 .. 7 /\ q \in 0 .. 7 /\ h + q \in 0 .. 7 /\ h + p \in 0 .. 7
          /\ u = i + (h + q) /\ v = i + (h + p)
      BY <1>2
    <3> QED BY <1>2, <3>1
  <2>2. d[B(j + p, u)] = IF w \in DOMAIN F THEN Contents(F[w]) ELSE b[B(j + p, u)]
    BY <1>1, <2>1 DEF Has
  <2>3. CASE (p = k /\ q > k) \/ (q = k /\ p > k)
    <3>1. w \in DOMAIN F /\ w[1] = j + p /\ w[2] = u
      <4>1. CASE p = k /\ q > k
        <5>1. q \in k + 1 .. 3 /\ w = <<j + k, i + h + q>>
          BY <4>1
        <5> QED BY <1>3, <5>1
      <4>2. CASE q = k /\ p > k
        <5>1. p \in k + 1 .. 3 /\ w = <<j + p, i + h + k>>
          BY <4>2
        <5> QED BY <1>3, <5>1
      <4> QED BY <2>3, <4>1, <4>2
    <3>2. F[w] = B(j + q, v)
      <4>1. CASE h = 0
        <5>1. w[2] < i + 4 /\ j + (w[2] - i) = j + q /\ i + (w[1] - j) = v
          BY <1>2, <3>1, <4>1
        <5> QED BY <1>3, <3>1, <5>1 DEF HalvesOf
      <4>2. CASE h = 4
        <5>1. ~ w[2] < i + 4 /\ j + (w[2] - i - 4) = j + q /\ i + 4 + (w[1] - j) = v
          BY <1>2, <3>1, <4>2
        <5> QED BY <1>3, <3>1, <5>1 DEF HalvesOf
      <4> QED BY <4>1, <4>2
    <3>3. Contents(B(j + q, v)) = b[B(j + q, v)]
      BY <2>1, ContentsAre
    <3>4. d[B(j + p, u)] = b[B(j + q, v)]
      BY <2>2, <3>1, <3>2, <3>3
    <3> QED BY <2>3, <3>4
  <2>4. CASE ~ ((p = k /\ q > k) \/ (q = k /\ p > k))
    <3>1. w \notin DOMAIN F
      <4>1. ASSUME NEW s \in k + 1 .. 3, NEW e \in {0, 4}, w = <<j + k, i + e + s>>
            PROVE  FALSE
        <5>1. j + p = j + k /\ i + h + q = i + e + s
          BY <4>1
        <5>2. p = k /\ q > k
          BY <1>2, <5>1
        <5> QED BY <2>4, <5>2
      <4>2. ASSUME NEW s \in k + 1 .. 3, NEW e \in {0, 4}, w = <<j + s, i + e + k>>
            PROVE  FALSE
        <5>1. j + p = j + s /\ i + h + q = i + e + k
          BY <4>2
        <5>2. q = k /\ p > k
          BY <1>2, <5>1
        <5> QED BY <2>4, <5>2
      <4> HIDE DEF w, F
      <4>3. w \notin {<<j + k, i + e + s>> : s \in k + 1 .. 3, e \in {0, 4}}
        BY <4>1
      <4>4. w \notin {<<j + s, i + e + k>> : s \in k + 1 .. 3, e \in {0, 4}}
        BY <4>2
      <4> QED BY <1>3, <4>3, <4>4
    <3> QED BY <2>2, <2>4, <3>1
  <2> QED BY <2>3, <2>4
<1>5. ASSUME NEW p \in 0 .. 3, NEW q \in 0 .. 3
      PROVE  /\ d[B(j + p, i + q)] = IF p < k + 1 \/ q < k + 1 THEN Correct(i + q, j + p)
                                     ELSE Correct(i + p, j + q)
             /\ d[B(j + p, i + 4 + q)] =
                    IF p < k + 1 \/ q < k + 1 THEN Correct(i + q, j + 4 + p)
                    ELSE Correct(i + p, j + 4 + q)
  <2>1. /\ b[B(j + p, i + q)] = IF p < k \/ q < k THEN Correct(i + q, j + p)
                                ELSE Correct(i + p, j + q)
        /\ b[B(j + q, i + p)] = IF q < k \/ p < k THEN Correct(i + p, j + q)
                                ELSE Correct(i + q, j + p)
        /\ b[B(j + p, i + 4 + q)] = IF p < k \/ q < k THEN Correct(i + q, j + 4 + p)
                                    ELSE Correct(i + p, j + 4 + q)
        /\ b[B(j + q, i + 4 + p)] = IF q < k \/ p < k THEN Correct(i + p, j + 4 + q)
                                    ELSE Correct(i + q, j + 4 + p)
    BY DEF HalvesSwapped
  <2>2. /\ d[B(j + p, i + q)] =
              IF (p = k /\ q > k) \/ (q = k /\ p > k) THEN b[B(j + q, i + p)]
              ELSE b[B(j + p, i + q)]
        /\ d[B(j + p, i + 4 + q)] =
              IF (p = k /\ q > k) \/ (q = k /\ p > k) THEN b[B(j + q, i + 4 + p)]
              ELSE b[B(j + p, i + 4 + q)]
    <3>1. i + 0 + q = i + q /\ i + 0 + p = i + p
      BY <1>2
    <3>2. 0 \in {0, 4} /\ 4 \in {0, 4}
      OBVIOUS
    <3>3. d[B(j + p, i + 0 + q)] =
              IF (p = k /\ q > k) \/ (q = k /\ p > k) THEN b[B(j + q, i + 0 + p)]
              ELSE b[B(j + p, i + 0 + q)]
      BY <1>4, <3>2
    <3>4. d[B(j + p, i + 4 + q)] =
              IF (p = k /\ q > k) \/ (q = k /\ p > k) THEN b[B(j + q, i + 4 + p)]
              ELSE b[B(j + p, i + 4 + q)]
      BY <1>4, <3>2
    <3> QED BY <3>1, <3>3, <3>4
  <2>3. p \in Int /\ q \in Int /\ k \in Int
    OBVIOUS
  <2>4. CASE (p = k /\ q > k) \/ (q = k /\ p > k)
    BY <2>1, <2>2, <2>3, <2>4
  <2>5. CASE p = k /\ q = k
    BY <2>1, <2>2, <2>3, <2>5
  <2>6. CASE ~ ((p = k /\ q > k) \/ (q = k /\ p > k)) /\ ~ (p = k /\ q = k)
    <3>1. (p < k + 1 \/ q < k + 1) <=> (p < k \/ q < k)
      BY <2>3, <2>6
    <3> QED BY <2>1, <2>2, <2>6, <3>1
  <2> QED BY <2>4, <2>5, <2>6
<1>6. OnlyIn(d, i, j, 8, 8)
  <2> SUFFICES ASSUME NEW r \in Rows, NEW c \in Cols,
                      ~ (r \in j .. j + 8 - 1 /\ c \in i .. i + 8 - 1)
               PROVE  d[B(r, c)] = b[B(r, c)]
    BY DEF OnlyIn
  <2>1. <<r, c>> \notin DOMAIN F
    <3>1. ASSUME NEW s \in k + 1 .. 3, NEW e \in {0, 4},
                 <<r, c>> = <<j + k, i + e + s>> \/ <<r, c>> = <<j + s, i + e + k>>
          PROVE  FALSE
      BY <1>2, <3>1
    <3> HIDE DEF F
    <3>2. <<r, c>> \notin {<<j + k, i + e + s>> : s \in k + 1 .. 3, e \in {0, 4}}
      BY <3>1
    <3>3. <<r, c>> \notin {<<j + s, i + e + k>> : s \in k + 1 .. 3, e \in {0, 4}}
      BY <3>1
    <3> QED BY <1>3, <3>2, <3>3
  <2> QED BY <1>1, <2>1 DEF Has
<1>7. DOMAIN d = BCells
  BY <1>1 DEF Has
<1>8. HalvesSwapped(d, i, j, k + 1)
  BY <1>5 DEF HalvesSwapped
<1> QED BY <1>6, <1>7, <1>8 DEF d

(* An iteration of "move" does two rows more.                              *)
LEMMA MoveStep ==
    ASSUME shape \in Shapes, DOMAIN b = BCells, NEW i, NEW j, Block(i, j),
           NEW k \in 0 .. 3, Moved(b, i, j, k)
    PROVE  LET d == Written(MoveRow(i, j, k))
           IN  DOMAIN d = BCells /\ Moved(d, i, j, k + 1) /\ OnlyIn(d, i, j, 8, 8)
<1> DEFINE d == Written(MoveRow(i, j, k))
           F == MoveOf(i, j, k)
<1>1. Has(d, F)
  BY MoveRowPuts, PlacesWritten DEF Block
<1> HIDE DEF d
<1>2. i \in Nat /\ j \in Nat /\ \A p, q \in 0 .. 7 : j + p \in Rows /\ i + q \in Cols
  BY BlockPlaces DEF Block
<1>3. DOMAIN F = {<<j + k, i + 4 + q>> : q \in 0 .. 3} \cup {<<j + k + 4, i + q>> : q \in 0 .. 7}
  BY DEF MoveOf
<1>4. ASSUME NEW p \in 0 .. 7, NEW q \in 0 .. 7, p # k \/ q < 4, p # k + 4
      PROVE  d[B(j + p, i + q)] = b[B(j + p, i + q)]
  <2>1. <<j + p, i + q>> \notin DOMAIN F
    <3>1. ASSUME NEW s \in 0 .. 3, <<j + p, i + q>> = <<j + k, i + 4 + s>> PROVE FALSE
      BY <1>2, <1>4, <3>1
    <3>2. ASSUME NEW s \in 0 .. 7, <<j + p, i + q>> = <<j + k + 4, i + s>> PROVE FALSE
      BY <1>2, <1>4, <3>2
    <3> HIDE DEF F
    <3> QED BY <1>3, <3>1, <3>2
  <2> QED BY <1>1, <1>2, <2>1 DEF Has
<1>5. ASSUME NEW q \in 0 .. 3
      PROVE  /\ d[B(j + k, i + 4 + q)] = Correct(i + 4 + q, j + k)
             /\ d[B(j + 4 + k, i + q)] = b[B(j + k, i + 4 + q)]
             /\ d[B(j + 4 + k, i + 4 + q)] = Correct(i + 4 + q, j + 4 + k)
  <2> DEFINE u == <<j + k, i + 4 + q>>
             v == <<j + k + 4, i + q>>
             w == <<j + k + 4, i + 4 + q>>
  <2>1. /\ u[1] = j + k /\ u[2] = i + 4 + q
        /\ v[1] = j + k + 4 /\ v[2] = i + q
        /\ w[1] = j + k + 4 /\ w[2] = i + 4 + q
    OBVIOUS
  <2>2. /\ q + 4 \in 0 .. 7 /\ q \in 0 .. 7 /\ k \in 0 .. 7 /\ k + 4 \in 0 .. 7
        /\ i + 4 + q = i + (q + 4) /\ j + k + 4 = j + (k + 4) /\ j + 4 + k = j + (k + 4)
        /\ v[1] # j + k /\ w[1] # j + k /\ v[2] < i + 4 /\ ~ w[2] < i + 4
        /\ v[2] + 4 = i + 4 + q
    BY <1>2, <2>1
  <2>3. /\ j + k \in Rows /\ j + k + 4 \in Rows /\ i + q \in Cols /\ i + 4 + q \in Cols
        /\ j + 4 + k = j + k + 4
    BY <1>2, <2>2
  <2>4. u \in DOMAIN F /\ v \in DOMAIN F /\ w \in DOMAIN F
    BY <1>3, <2>2
  <2>5. F[u] = A(i + 4 + q, j + k) /\ F[v] = B(j + k, i + 4 + q)
        /\ F[w] = A(i + 4 + q, j + 4 + k)
    BY <1>3, <2>1, <2>2, <2>4 DEF MoveOf
  <2> HIDE DEF F
  <2>6. /\ d[B(j + k, i + 4 + q)] = Contents(F[u])
        /\ d[B(j + k + 4, i + q)] = Contents(F[v])
        /\ d[B(j + k + 4, i + 4 + q)] = Contents(F[w])
    BY <1>1, <2>3, <2>4 DEF Has
  <2>7. /\ Contents(A(i + 4 + q, j + k)) = Correct(i + 4 + q, j + k)
        /\ Contents(B(j + k, i + 4 + q)) = b[B(j + k, i + 4 + q)]
        /\ Contents(A(i + 4 + q, j + k + 4)) = Correct(i + 4 + q, j + k + 4)
    BY <2>3, ContentsAre
  <2> QED BY <2>3, <2>5, <2>6, <2>7
<1>6. ASSUME NEW p \in 0 .. 3, NEW q \in 0 .. 3
      PROVE  /\ d[B(j + p, i + q)] = Correct(i + q, j + p)
             /\ p < k + 1 => /\ d[B(j + p, i + 4 + q)] = Correct(i + 4 + q, j + p)
                             /\ d[B(j + 4 + p, i + q)] = Correct(i + q, j + 4 + p)
                             /\ d[B(j + 4 + p, i + 4 + q)] = Correct(i + 4 + q, j + 4 + p)
             /\ p >= k + 1 => d[B(j + p, i + 4 + q)] = Correct(i + q, j + 4 + p)
  <2>1. /\ b[B(j + p, i + q)] = Correct(i + q, j + p)
        /\ p < k => /\ b[B(j + p, i + 4 + q)] = Correct(i + 4 + q, j + p)
                    /\ b[B(j + 4 + p, i + q)] = Correct(i + q, j + 4 + p)
                    /\ b[B(j + 4 + p, i + 4 + q)] = Correct(i + 4 + q, j + 4 + p)
        /\ p >= k => b[B(j + p, i + 4 + q)] = Correct(i + q, j + 4 + p)
    BY DEF Moved
  <2>2. /\ p \in 0 .. 7 /\ q \in 0 .. 7 /\ p + 4 \in 0 .. 7 /\ q + 4 \in 0 .. 7
        /\ q < 4 /\ p # k + 4 /\ j + (p + 4) = j + 4 + p /\ i + (q + 4) = i + 4 + q
    BY <1>2
  <2>3. d[B(j + p, i + q)] = b[B(j + p, i + q)]
    BY <1>4, <2>2
  <2>4. CASE p = k
    BY <1>5, <2>1, <2>3, <2>4
  <2>5. CASE p # k
    <3>1. d[B(j + p, i + (q + 4))] = b[B(j + p, i + (q + 4))]
      BY <1>4, <2>2, <2>5
    <3>2. /\ d[B(j + (p + 4), i + q)] = b[B(j + (p + 4), i + q)]
          /\ d[B(j + (p + 4), i + (q + 4))] = b[B(j + (p + 4), i + (q + 4))]
      <4>1. p + 4 # k /\ p + 4 # k + 4
        BY <2>5
      <4> QED BY <1>4, <2>2, <4>1
    <3>3. (p < k + 1 <=> p < k) /\ (p >= k + 1 <=> p >= k)
      BY <2>5
    <3> QED BY <2>1, <2>2, <2>3, <3>1, <3>2, <3>3
  <2> QED BY <2>4, <2>5
<1>7. OnlyIn(d, i, j, 8, 8)
  <2> SUFFICES ASSUME NEW r \in Rows, NEW c \in Cols,
                      ~ (r \in j .. j + 8 - 1 /\ c \in i .. i + 8 - 1)
               PROVE  d[B(r, c)] = b[B(r, c)]
    BY DEF OnlyIn
  <2>1. <<r, c>> \notin DOMAIN F
    BY <1>2, <1>3
  <2> QED BY <1>1, <2>1 DEF Has
<1>8. DOMAIN d = BCells
  BY <1>1 DEF Has
<1>9. Moved(d, i, j, k + 1)
  BY <1>6 DEF Moved
<1> QED BY <1>7, <1>8, <1>9 DEF d

(* An iteration of "column" does one row of B more.                        *)
LEMMA ColumnStep ==
    ASSUME shape \in Shapes, DOMAIN b = BCells, NEW i \in Nat, NEW j \in Nat,
           NEW k \in 0 .. 22, i + 8 <= N, j + 23 <= M, ColumnsDone(b, i, j, k)
    PROVE  LET d == Written(Column(i, j + k))
           IN  DOMAIN d = BCells /\ ColumnsDone(d, i, j, k + 1) /\ OnlyIn(d, i, j, 8, 23)
<1> DEFINE d == Written(Column(i, j + k))
           F == ColumnOf(i, j + k)
<1>1. M \in Nat /\ N \in Nat
  BY SizesAre DEF MaxN
<1>2. j + k \in Nat /\ j + k < M
  BY <1>1
<1>3. Has(d, F)
  <2>1. Puts(Column(i, j + k), F)
    BY <1>2, ColumnPuts
  <2> QED BY <2>1, PlacesWritten
<1> HIDE DEF d
<1>4. \A p \in 0 .. 22, q \in 0 .. 7 : j + p \in Rows /\ i + q \in Cols
  BY <1>1 DEF Rows, Cols
<1>5. DOMAIN F = {<<j + k, i + q>> : q \in 0 .. 7}
  BY DEF ColumnOf
<1>6. ASSUME NEW p \in 0 .. (k + 1) - 1, NEW q \in 0 .. 7
      PROVE  d[B(j + p, i + q)] = Correct(i + q, j + p)
  <2> DEFINE w == <<j + p, i + q>>
  <2>0. p \in 0 .. 22
    OBVIOUS
  <2>1. d[B(j + p, i + q)] = IF w \in DOMAIN F THEN Contents(F[w]) ELSE b[B(j + p, i + q)]
    BY <1>3, <1>4, <2>0 DEF Has
  <2>2. CASE p = k
    <3>1. w \in DOMAIN F /\ w[2] = i + q
      BY <1>5, <2>2
    <3>2. F[w] = A(i + q, j + p)
      BY <1>5, <2>2, <3>1 DEF ColumnOf
    <3>3. Contents(A(i + q, j + p)) = Correct(i + q, j + p)
      BY <1>4, <2>0, ContentsAre
    <3> QED BY <2>1, <3>1, <3>2, <3>3
  <2>3. CASE p # k
    <3>1. w \notin DOMAIN F
      BY <1>5, <2>3
    <3>2. b[B(j + p, i + q)] = Correct(i + q, j + p)
      BY <2>3 DEF ColumnsDone
    <3> HIDE DEF w, F
    <3> QED BY <2>1, <3>1, <3>2
  <2> QED BY <2>2, <2>3
<1>7. OnlyIn(d, i, j, 8, 23)
  <2> SUFFICES ASSUME NEW r \in Rows, NEW c \in Cols,
                      ~ (r \in j .. j + 23 - 1 /\ c \in i .. i + 8 - 1)
               PROVE  d[B(r, c)] = b[B(r, c)]
    BY DEF OnlyIn
  <2>1. <<r, c>> \notin DOMAIN F
    BY <1>5
  <2> QED BY <1>3, <2>1 DEF Has
<1>8. DOMAIN d = BCells
  BY <1>3 DEF Has
<1> QED BY <1>6, <1>7, <1>8 DEF ColumnsDone, d

(* A row of A from column j to e, put in its place.                        *)
LEMMA RowWritten ==
    ASSUME shape \in Shapes, DOMAIN b = BCells, NEW k \in Nat, NEW j \in Nat,
           NEW e \in Nat, k < N, j <= e, e <= M
    PROVE  LET d == Written(Row(k, j, e))
           IN  /\ DOMAIN d = BCells
               /\ \A r \in Rows, c \in Cols :
                    d[B(r, c)] = IF c = k /\ r \in j .. e - 1 THEN Correct(c, r)
                                 ELSE b[B(r, c)]
<1> DEFINE d == Written(Row(k, j, e))
           F == PlacesOf(k, j, e)
<1>1. Has(d, F)
  BY RowPuts, PlacesWritten
<1> HIDE DEF d
<1>2. DOMAIN F = {<<r, k>> : r \in j .. e - 1}
  BY DEF PlacesOf
<1>3. ASSUME NEW r \in Rows, NEW c \in Cols
      PROVE  d[B(r, c)] = IF c = k /\ r \in j .. e - 1 THEN Correct(c, r)
                          ELSE b[B(r, c)]
  <2> DEFINE w == <<r, c>>
  <2>1. d[B(r, c)] = IF w \in DOMAIN F THEN Contents(F[w]) ELSE b[B(r, c)]
    BY <1>1 DEF Has
  <2>2. CASE c = k /\ r \in j .. e - 1
    <3>1. w \in DOMAIN F /\ w[1] = r
      BY <1>2, <2>2
    <3>2. F[w] = A(c, r)
      BY <1>2, <2>2, <3>1 DEF PlacesOf
    <3>3. Contents(A(c, r)) = Correct(c, r)
      BY ContentsAre
    <3> QED BY <2>1, <2>2, <3>1, <3>2, <3>3
  <2>3. CASE ~ (c = k /\ r \in j .. e - 1)
    <3>1. w \notin DOMAIN F
      BY <1>2, <2>3
    <3> QED BY <2>1, <2>3, <3>1
  <2> QED BY <2>2, <2>3
<1>4. DOMAIN d = BCells
  BY <1>1 DEF Has
<1> QED BY <1>3, <1>4 DEF d

(* An iteration of "corner" does one column of B more, cut at the edges.   *)
LEMMA CornerStep ==
    ASSUME shape \in Shapes, DOMAIN b = BCells, NEW i \in Nat, NEW j \in Nat,
           NEW k \in 0 .. 7, i + k < N, j < M, CornerDone(b, i, j, k)
    PROVE  LET d == Written(Row(i + k, j, Smaller(j + 23, M)))
           IN  DOMAIN d = BCells /\ CornerDone(d, i, j, k + 1) /\ OnlyIn(d, i, j, 8, 23)
<1> DEFINE e == Smaller(j + 23, M)
           d == Written(Row(i + k, j, e))
<1>1. M \in Nat /\ N \in Nat
  BY SizesAre DEF MaxN
<1>2. i + k \in Nat /\ e \in Nat /\ j <= e /\ e <= M /\ e <= j + 23
  BY <1>1 DEF Smaller
<1>3. /\ DOMAIN d = BCells
      /\ \A r \in Rows, c \in Cols :
            d[B(r, c)] = IF c = i + k /\ r \in j .. e - 1 THEN Correct(c, r)
                         ELSE b[B(r, c)]
  <2> HIDE DEF e
  <2> QED BY <1>2, RowWritten
<1> HIDE DEF d
<1>4. ASSUME NEW r \in j .. e - 1, NEW q \in 0 .. (k + 1) - 1
      PROVE  d[B(r, i + q)] = Correct(i + q, r)
  <2>1. r \in Rows /\ i + q \in Cols
    BY <1>1, <1>2 DEF Rows, Cols
  <2>2. CASE q = k
    BY <1>3, <2>1, <2>2
  <2>3. CASE q # k
    <3>1. i + q # i + k /\ q \in 0 .. k - 1
      BY <2>3
    <3>2. b[B(r, i + q)] = Correct(i + q, r)
      BY <3>1 DEF CornerDone
    <3> QED BY <1>3, <2>1, <3>1, <3>2
  <2> QED BY <2>2, <2>3
<1>5. OnlyIn(d, i, j, 8, 23)
  <2> SUFFICES ASSUME NEW r \in Rows, NEW c \in Cols,
                      ~ (r \in j .. j + 23 - 1 /\ c \in i .. i + 8 - 1)
               PROVE  d[B(r, c)] = b[B(r, c)]
    BY DEF OnlyIn
  <2>1. ~ (c = i + k /\ r \in j .. e - 1)
    <3> HIDE DEF e
    <3> QED BY <1>2
  <2> QED BY <1>3, <2>1
<1> QED BY <1>3, <1>4, <1>5 DEF CornerDone, d

(* An iteration of the row-wise scan does a column of B.                   *)
LEMMA RowStep ==
    ASSUME shape \in Shapes, DOMAIN b = BCells, NEW i \in Nat, i < N
    PROVE  LET d == Written(RowWise(i))
           IN  DOMAIN d = BCells /\ Transposed(d, i, 0, 1, M) /\ OnlyIn(d, i, 0, 1, M)
<1> DEFINE d == Written(RowWise(i))
<1>1. M \in Nat /\ N \in Nat /\ 0 \in Nat /\ 0 <= M /\ M <= M
  BY SizesAre DEF MaxN
<1>2. /\ DOMAIN d = BCells
      /\ \A r \in Rows, c \in Cols :
            d[B(r, c)] = IF c = i /\ r \in 0 .. M - 1 THEN Correct(c, r)
                         ELSE b[B(r, c)]
  BY <1>1, RowWritten DEF RowWise
<1> HIDE DEF d
<1>3. \A c \in Cols : c \in i .. i + 1 - 1 <=> c = i
  BY <1>1 DEF Cols
<1>4. \A r \in Rows : r \in 0 .. M - 1 /\ r \in 0 .. 0 + M - 1
  BY <1>1 DEF Rows
<1>5. Transposed(d, i, 0, 1, M)
  BY <1>2, <1>3, <1>4 DEF Transposed
<1>6. OnlyIn(d, i, 0, 1, M)
  BY <1>2, <1>3, <1>4 DEF OnlyIn
<1> QED BY <1>2, <1>5, <1>6 DEF d

(* A part ends where the next begins, and the last leaves the block         *)
(* transposed.                                                             *)
LEMMA CopiedThenSwapped ==
    ASSUME NEW g, NEW i, NEW j, Copied(g, i, j, 8)
    PROVE  Swapped(g, i, j, 0)
<1>1. 0 .. 8 - 1 = 0 .. 7
  OBVIOUS
<1> QED BY <1>1 DEF Copied, Swapped

(* Four rows copied are where "halves" begins.                             *)
LEMMA CopiedThenHalves ==
    ASSUME NEW g, NEW i \in Nat, NEW j \in Nat, Copied(g, i, j, 4)
    PROVE  HalvesSwapped(g, i, j, 0)
<1> SUFFICES ASSUME NEW p \in 0 .. 3, NEW q \in 0 .. 3
             PROVE  /\ g[B(j + p, i + q)] = Correct(i + p, j + q)
                    /\ g[B(j + p, i + 4 + q)] = Correct(i + p, j + 4 + q)
  BY DEF HalvesSwapped
<1>1. p \in 0 .. 4 - 1 /\ q \in 0 .. 7 /\ q + 4 \in 0 .. 7
      /\ i + (q + 4) = i + 4 + q /\ j + (q + 4) = j + 4 + q
  OBVIOUS
<1>2. /\ g[B(j + p, i + q)] = Correct(i + p, j + q)
      /\ g[B(j + p, i + (q + 4))] = Correct(i + p, j + (q + 4))
  BY <1>1 DEF Copied
<1> QED BY <1>1, <1>2

(* Both halves exchanged are where "move" begins.                          *)
LEMMA HalvesThenMoved ==
    ASSUME NEW g, NEW i \in Nat, NEW j \in Nat, HalvesSwapped(g, i, j, 4)
    PROVE  Moved(g, i, j, 0)
<1> SUFFICES ASSUME NEW p \in 0 .. 3, NEW q \in 0 .. 3
             PROVE  /\ g[B(j + p, i + q)] = Correct(i + q, j + p)
                    /\ g[B(j + p, i + 4 + q)] = Correct(i + q, j + 4 + p)
  BY DEF Moved
<1> QED BY DEF HalvesSwapped

(* A block is transposed when each of its places is.                       *)
LEMMA Placed ==
    ASSUME NEW g, NEW i \in Nat, NEW j \in Nat, NEW h \in Nat, NEW l \in Nat,
           shape \in Shapes,
           \A p \in 0 .. l - 1, q \in 0 .. h - 1 :
                j + p \in Rows /\ i + q \in Cols => g[B(j + p, i + q)] = Correct(i + q, j + p)
    PROVE  Transposed(g, i, j, h, l)
<1> SUFFICES ASSUME NEW r \in Rows, NEW c \in Cols, r \in j .. j + l - 1, c \in i .. i + h - 1
             PROVE  g[B(r, c)] = Correct(c, r)
  BY DEF Transposed
<1>1. r - j \in 0 .. l - 1 /\ c - i \in 0 .. h - 1 /\ j + (r - j) = r /\ i + (c - i) = c
  OBVIOUS
<1> DEFINE p == r - j
           q == c - i
<1>2. p \in 0 .. l - 1 /\ q \in 0 .. h - 1 /\ j + p = r /\ i + q = c
  BY <1>1
<1> HIDE DEF p, q
<1> QED BY <1>2

(* After "swap" the block is transposed...                                 *)
LEMMA SwappedThenDone ==
    ASSUME NEW g, NEW i \in Nat, NEW j \in Nat, shape \in Shapes, Swapped(g, i, j, 8)
    PROVE  Transposed(g, i, j, 8, 8)
<1>1. 0 .. 8 - 1 = 0 .. 7 /\ 8 \in Nat /\ \A p \in 0 .. 7 : p < 8
  OBVIOUS
<1>2. \A p \in 0 .. 7, q \in 0 .. 7 : g[B(j + p, i + q)] = Correct(i + q, j + p)
  BY <1>1 DEF Swapped
<1> QED BY <1>1, <1>2, Placed

(* ... and after "move"...                                                 *)
LEMMA MovedThenDone ==
    ASSUME NEW g, NEW i \in Nat, NEW j \in Nat, shape \in Shapes, Moved(g, i, j, 4)
    PROVE  Transposed(g, i, j, 8, 8)
<1>1. ASSUME NEW p \in 0 .. 7, NEW q \in 0 .. 7
      PROVE  g[B(j + p, i + q)] = Correct(i + q, j + p)
  <2>1. PICK x \in 0 .. 3 : p = x \/ p = 4 + x
    <3>1. CASE p < 4
      <4>1. p \in 0 .. 3
        BY <3>1
      <4> QED BY <4>1
    <3>2. CASE ~ p < 4
      <4>1. p - 4 \in 0 .. 3 /\ p = 4 + (p - 4)
        BY <3>2
      <4> QED BY <4>1
    <3> QED BY <3>1, <3>2
  <2>2. PICK y \in 0 .. 3 : q = y \/ q = 4 + y
    <3>1. CASE q < 4
      <4>1. q \in 0 .. 3
        BY <3>1
      <4> QED BY <4>1
    <3>2. CASE ~ q < 4
      <4>1. q - 4 \in 0 .. 3 /\ q = 4 + (q - 4)
        BY <3>2
      <4> QED BY <4>1
    <3> QED BY <3>1, <3>2
  <2>3. /\ j + (4 + x) = j + 4 + x /\ i + (4 + y) = i + 4 + y /\ x < 4
    OBVIOUS
  <2>4. /\ g[B(j + x, i + y)] = Correct(i + y, j + x)
        /\ g[B(j + x, i + 4 + y)] = Correct(i + 4 + y, j + x)
        /\ g[B(j + 4 + x, i + y)] = Correct(i + y, j + 4 + x)
        /\ g[B(j + 4 + x, i + 4 + y)] = Correct(i + 4 + y, j + 4 + x)
    BY <2>3 DEF Moved
  <2> QED BY <2>1, <2>2, <2>3, <2>4
<1>2. 0 .. 8 - 1 = 0 .. 7 /\ 8 \in Nat
  OBVIOUS
<1> QED BY <1>1, <1>2, Placed

(* ... and after "column"...                                               *)
LEMMA ColumnsThenDone ==
    ASSUME NEW g, NEW i \in Nat, NEW j \in Nat, shape \in Shapes, ColumnsDone(g, i, j, 23)
    PROVE  Transposed(g, i, j, 8, 23)
<1>1. 0 .. 8 - 1 = 0 .. 7 /\ 8 \in Nat /\ 23 \in Nat
  OBVIOUS
<1> QED BY <1>1, Placed DEF ColumnsDone

(* ... and after "corner".                                                 *)
LEMMA CornerThenDone ==
    ASSUME NEW g, NEW i \in Nat, NEW j \in Nat, shape \in Shapes, i < N,
           CornerDone(g, i, j, Smaller(i + 8, N) - i)
    PROVE  Transposed(g, i, j, 8, 23)
<1>1. M \in Nat /\ N \in Nat
  BY SizesAre DEF MaxN
<1> SUFFICES ASSUME NEW r \in Rows, NEW c \in Cols, r \in j .. j + 23 - 1, c \in i .. i + 8 - 1
             PROVE  g[B(r, c)] = Correct(c, r)
  BY DEF Transposed
<1>2. r \in j .. Smaller(j + 23, M) - 1
  BY <1>1 DEF Smaller, Rows
<1>3. c - i \in 0 .. (Smaller(i + 8, N) - i) - 1 /\ i + (c - i) = c
  BY <1>1 DEF Smaller, Cols
<1> DEFINE q == c - i
<1>4. q \in 0 .. (Smaller(i + 8, N) - i) - 1 /\ i + q = c
  BY <1>3
<1> HIDE DEF q
<1> QED BY <1>2, <1>4 DEF CornerDone

(* The nests of loops: sizes of a block, which do not depend on where it is. *)
Height == IF func = 2 THEN 1 ELSE 8
Width == IF func = 2 THEN M ELSE IF M = 32 \/ M = 64 THEN 8 ELSE 23
LastRow == IF func # 2 /\ M = 32 THEN 32 ELSE N

(* Each nest has blocks of one size.                                       *)
LEMMA NestSizes ==
    ASSUME NEW i, NEW j
    PROVE  Nest(i, j).rows = Height /\ Nest(i, j).cols = Width /\ Nest(i, j).last = LastRow
<1>1. CASE func = 2
  BY <1>1 DEF Nest, Height, Width, LastRow
<1>2. CASE func # 2 /\ M = 32
  BY <1>2 DEF Nest, Height, Width, LastRow
<1>3. CASE func # 2 /\ M # 32 /\ M = 64
  BY <1>3 DEF Nest, Height, Width, LastRow
<1>4. CASE func # 2 /\ M # 32 /\ M # 64
  BY <1>4 DEF Nest, Height, Width, LastRow
<1> QED BY <1>1, <1>2, <1>3, <1>4

(* The sizes are numbers.                                                  *)
LEMMA Sizes ==
    ASSUME shape \in Shapes
    PROVE  /\ M \in Nat /\ N \in Nat /\ M > 0 /\ N > 0
           /\ Height \in Nat /\ Height > 0 /\ Width \in Nat /\ Width > 0 /\ LastRow \in Nat
<1>1. M \in Nat /\ N \in Nat /\ M > 0 /\ N > 0
  BY SizesAre DEF MaxN
<1> QED BY <1>1 DEF Height, Width, LastRow

(* The parts of a block: what they do, and how often.                      *)
LEMMA PartsAre ==
    ASSUME NEW i, NEW j
    PROVE  LET P == Nest(i, j).parts IN
           /\ func = 2 => P = <<[does |-> "row", times |-> 1]>>
           /\ func # 2 /\ M = 32 =>
                P = <<[does |-> "copy", times |-> 8], [does |-> "swap", times |-> 8]>>
           /\ func # 2 /\ M = 64 =>
                P = <<[does |-> "copy", times |-> 4], [does |-> "halves", times |-> 4],
                      [does |-> "move", times |-> 4]>>
           /\ func # 2 /\ M # 32 /\ M # 64 /\ i + 8 <= N /\ j + 23 <= M =>
                P = <<[does |-> "column", times |-> 23]>>
           /\ func # 2 /\ M # 32 /\ M # 64 /\ ~ (i + 8 <= N /\ j + 23 <= M) =>
                P = <<[does |-> "corner", times |-> Smaller(i + 8, N) - i]>>
<1>1. CASE func = 2
  BY <1>1 DEF Nest
<1>2. CASE func # 2 /\ M = 32
  BY <1>2 DEF Nest
<1>3. CASE func # 2 /\ M # 32 /\ M = 64
  BY <1>3 DEF Nest
<1>4. CASE func # 2 /\ M # 32 /\ M # 64
  BY <1>4 DEF Nest
<1> QED BY <1>1, <1>2, <1>3, <1>4

(* What part does has done after k iterations in the block at i and j.     *)
Doing(does, g, i, j, k) ==
    /\ does = "copy" => Copied(g, i, j, k)
    /\ does = "swap" => Swapped(g, i, j, k)
    /\ does = "halves" => HalvesSwapped(g, i, j, k)
    /\ does = "move" => Moved(g, i, j, k)
    /\ does = "column" => ColumnsDone(g, i, j, k)
    /\ does = "corner" => CornerDone(g, i, j, k)

(* The blocks before the one at i and j.                                   *)
Done(g, i, j) ==
    \A r \in Rows, c \in Cols :
        c < i \/ (c < i + Height /\ r < j) => g[B(r, c)] = Correct(c, r)

(* Where the loops can be: blocks of 8 are not cut, and a row is one block. *)
Aligned(i, j) ==
    /\ func = 2 => j = 0
    /\ func # 2 /\ (M = 32 \/ M = 64) => i % 8 = 0 /\ j % 8 = 0

(* The loops at t, with g in B.                                            *)
Progress(t, g) ==
    /\ t \in [i : Nat, j : Nat, part : Nat, k : Nat]
    /\ DOMAIN g = BCells
    /\ Aligned(t.i, t.j)
    /\ Done(g, t.i, t.j)
    /\ t.i < LastRow =>
        LET P == Nest(t.i, t.j).parts IN
        /\ t.j < M /\ t.part \in 1 .. Len(P) /\ t.k < P[t.part].times
        /\ Doing(P[t.part].does, g, t.i, t.j, t.k)
    /\ ~ t.i < LastRow => t.j = 0

(* A block begins with a part that has done nothing yet.                   *)
LEMMA FirstPart ==
    ASSUME shape \in Shapes, NEW i \in Nat, NEW j \in Nat, NEW g, i < LastRow, Supported,
           func \in {1, 2}
    PROVE  LET P == Nest(i, j).parts
           IN  1 \in 1 .. Len(P) /\ 0 < P[1].times /\ Doing(P[1].does, g, i, j, 0)
<1>1. Copied(g, i, j, 0)
  BY DEF Copied
<1>2. ColumnsDone(g, i, j, 0)
  BY DEF ColumnsDone
<1>3. CornerDone(g, i, j, 0)
  BY DEF CornerDone
<1> DEFINE P == Nest(i, j).parts
<1>4. \A does \in {"row", "copy", "column", "corner"} : Doing(does, g, i, j, 0)
  BY <1>1, <1>2, <1>3 DEF Doing
<1>5. Len(P) \in Nat /\ 1 <= Len(P) /\ P[1].does \in {"row", "copy", "column", "corner"}
      /\ 0 < P[1].times
  <2>1. CASE func = 2
    <3>1. P = <<[does |-> "row", times |-> 1]>>
      BY <2>1, PartsAre
    <3> QED BY <3>1
  <2>2. CASE func # 2 /\ M = 32
    <3>1. P = <<[does |-> "copy", times |-> 8], [does |-> "swap", times |-> 8]>>
      BY <2>2, PartsAre
    <3> QED BY <3>1
  <2>3. CASE func # 2 /\ M = 64
    <3>1. P = <<[does |-> "copy", times |-> 4], [does |-> "halves", times |-> 4],
                [does |-> "move", times |-> 4]>>
      BY <2>3, PartsAre
    <3> QED BY <3>1
  <2>4. CASE func # 2 /\ M # 32 /\ M # 64 /\ i + 8 <= N /\ j + 23 <= M
    <3>1. P = <<[does |-> "column", times |-> 23]>>
      BY <2>4, PartsAre
    <3> QED BY <3>1
  <2>5. CASE func # 2 /\ M # 32 /\ M # 64 /\ ~ (i + 8 <= N /\ j + 23 <= M)
    <3>1. P = <<[does |-> "corner", times |-> Smaller(i + 8, N) - i]>>
      BY <2>5, PartsAre
    <3>2. i < N /\ N \in Nat
      BY <2>5, Sizes DEF LastRow
    <3>3. 0 < Smaller(i + 8, N) - i
      BY <3>2 DEF Smaller
    <3> QED BY <3>1, <3>3
  <2> QED BY <2>1, <2>2, <2>3, <2>4, <2>5
<1> HIDE DEF P
<1>6. 1 \in 1 .. Len(P)
  BY <1>5
<1>7. Doing(P[1].does, g, i, j, 0)
  BY <1>4, <1>5
<1>8. 1 \in 1 .. Len(P) /\ 0 < P[1].times /\ Doing(P[1].does, g, i, j, 0)
  BY <1>5, <1>6, <1>7
<1> QED BY <1>8 DEF P

(* Storing in a block leaves the blocks before it, and with the block done  *)
(* they are the blocks before the next.                                    *)
LEMMA StillDone ==
    ASSUME shape \in Shapes, NEW g, NEW i \in Nat, NEW j \in Nat, Done(b, i, j),
           OnlyIn(g, i, j, Height, Width)
    PROVE  Done(g, i, j)
<1> SUFFICES ASSUME NEW r \in Rows, NEW c \in Cols, c < i \/ (c < i + Height /\ r < j)
             PROVE  g[B(r, c)] = Correct(c, r)
  BY DEF Done
<1>1. b[B(r, c)] = Correct(c, r)
  BY DEF Done
<1>2. ~ (r \in j .. j + Width - 1 /\ c \in i .. i + Height - 1)
  <2>1. r \in Int /\ c \in Int
    BY DEF Rows, Cols
  <2> QED BY <2>1
<1> QED BY <1>1, <1>2 DEF OnlyIn

(* A transposed block moves the border of what is done to the next one.    *)
LEMMA NextBlock ==
    ASSUME shape \in Shapes, NEW g, NEW i \in Nat, NEW j \in Nat, Done(b, i, j),
           OnlyIn(g, i, j, Height, Width), Transposed(g, i, j, Height, Width)
    PROVE  /\ Done(g, i, j + Width)
           /\ ~ j + Width < M => Done(g, i + Height, 0)
<1>1. Done(g, i, j)
  BY StillDone
<1>2. /\ M \in Nat /\ Height \in Nat /\ Width \in Nat
      /\ \A r \in Rows : r \in Int /\ 0 <= r /\ r < M
      /\ \A c \in Cols : c \in Int /\ 0 <= c
  BY Sizes DEF Rows, Cols
<1>3. ASSUME NEW r \in Rows, NEW c \in Cols, c < i + Height, r < j + Width
      PROVE  g[B(r, c)] = Correct(c, r)
  <2>1. CASE c < i \/ r < j
    BY <1>1, <1>3, <2>1 DEF Done
  <2>2. CASE ~ (c < i \/ r < j)
    <3>1. r \in j .. j + Width - 1 /\ c \in i .. i + Height - 1
      BY <1>2, <1>3, <2>2
    <3> QED BY <3>1 DEF Transposed
  <2> QED BY <2>1, <2>2
<1>4. Done(g, i, j + Width)
  <2> SUFFICES ASSUME NEW r \in Rows, NEW c \in Cols,
                      c < i \/ (c < i + Height /\ r < j + Width)
               PROVE  g[B(r, c)] = Correct(c, r)
    BY DEF Done
  <2>1. CASE c < i
    BY <1>1, <2>1 DEF Done
  <2>2. CASE ~ c < i
    BY <1>3, <2>2
  <2> QED BY <2>1, <2>2
<1>5. ASSUME ~ j + Width < M PROVE Done(g, i + Height, 0)
  <2> SUFFICES ASSUME NEW r \in Rows, NEW c \in Cols,
                      c < i + Height \/ (c < i + Height + Height /\ r < 0)
               PROVE  g[B(r, c)] = Correct(c, r)
    BY DEF Done
  <2>1. c < i + Height /\ r < j + Width
    BY <1>2, <1>5
  <2> QED BY <1>3, <2>1
<1> QED BY <1>4, <1>5

(* The loops go on with the part, with the next one, or with the next block. *)
LEMMA Advance ==
    ASSUME shape \in Shapes, func \in {1, 2}, Supported, Progress(at, b), at.i < Here.last,
           NEW g, DOMAIN g = BCells, OnlyIn(g, at.i, at.j, Height, Width),
           at.k + 1 < Part.times => Doing(Part.does, g, at.i, at.j, at.k + 1),
           ~ at.k + 1 < Part.times /\ at.part < Len(Here.parts) =>
                LET x == Here.parts[at.part + 1]
                IN  0 < x.times /\ Doing(x.does, g, at.i, at.j, 0),
           ~ at.k + 1 < Part.times /\ ~ at.part < Len(Here.parts) =>
                Transposed(g, at.i, at.j, Height, Width)
    PROVE  Progress(After, g)
<1> DEFINE i == at.i
           j == at.j
           part == at.part
           k == at.k
           P == Nest(i, j).parts
<1>1. /\ at = [i |-> i, j |-> j, part |-> part, k |-> k]
      /\ i \in Nat /\ j \in Nat /\ part \in Nat /\ k \in Nat
      /\ Aligned(i, j) /\ Done(b, i, j)
  BY DEF Progress
<1>2. /\ Here.rows = Height /\ Here.cols = Width /\ Here.last = LastRow
      /\ Here.parts = P /\ Part = P[part]
  BY NestSizes DEF Here, Part
<1>3. i < LastRow /\ j < M /\ part \in 1 .. Len(P) /\ k < P[part].times
  BY <1>2 DEF Progress
<1>4. Done(g, i, j)
  BY <1>1, StillDone
<1>5. /\ M \in Nat /\ N \in Nat /\ Height \in Nat /\ Height > 0
      /\ Width \in Nat /\ Width > 0 /\ LastRow \in Nat
  BY Sizes
<1>6. CASE at.k + 1 < Part.times
  <2> DEFINE t == [i |-> i, j |-> j, part |-> part, k |-> k + 1]
  <2>1. After = t
    BY <1>1, <1>6 DEF After
  <2>2. t \in [i : Nat, j : Nat, part : Nat, k : Nat] /\ t.i = i /\ t.j = j
        /\ t.part = part /\ t.k = k + 1
    BY <1>1
  <2> HIDE DEF t
  <2>3. k + 1 < P[part].times /\ Doing(P[part].does, g, i, j, k + 1)
    BY <1>2, <1>6
  <2> HIDE DEF P, i, j, part, k
  <2>4. Progress(t, g)
    BY <1>1, <1>3, <1>4, <2>2, <2>3 DEF Progress, P
  <2> QED BY <2>1, <2>4
<1>7. CASE ~ at.k + 1 < Part.times /\ at.part < Len(Here.parts)
  <2> DEFINE t == [i |-> i, j |-> j, part |-> part + 1, k |-> 0]
  <2>1. After = t
    BY <1>1, <1>7 DEF After
  <2>2. t \in [i : Nat, j : Nat, part : Nat, k : Nat] /\ t.i = i /\ t.j = j
        /\ t.part = part + 1 /\ t.k = 0
    BY <1>1
  <2> HIDE DEF t
  <2>3. 0 < P[part + 1].times /\ Doing(P[part + 1].does, g, i, j, 0)
    BY <1>2, <1>7
  <2>4. part + 1 \in 1 .. Len(P)
    BY <1>2, <1>3, <1>7
  <2> HIDE DEF P, i, j, part, k
  <2>5. Progress(t, g)
    BY <1>1, <1>3, <1>4, <2>2, <2>3, <2>4 DEF Progress, P
  <2> QED BY <2>1, <2>5
<1>8. CASE ~ at.k + 1 < Part.times /\ ~ at.part < Len(Here.parts)
  <2>1. Done(g, i, j + Width) /\ (~ j + Width < M => Done(g, i + Height, 0))
    BY <1>1, <1>8, NextBlock
  <2>2. CASE j + Width < M
    <3> DEFINE t == [i |-> i, j |-> j + Width, part |-> 1, k |-> 0]
    <3>1. After = t
      BY <1>1, <1>2, <1>8, <2>2 DEF After
    <3>2. t \in [i : Nat, j : Nat, part : Nat, k : Nat] /\ t.i = i /\ t.j = j + Width
          /\ t.part = 1 /\ t.k = 0
      BY <1>1, <1>5
    <3> HIDE DEF t
    <3>3. Aligned(i, j + Width)
      <4>1. func # 2
        <5>1. SUFFICES ASSUME func = 2 PROVE FALSE
          OBVIOUS
        <5>2. Width = M
          BY <5>1 DEF Width
        <5> QED BY <1>1, <1>5, <2>2, <5>2
      <4>2. ASSUME M = 32 \/ M = 64 PROVE i % 8 = 0 /\ (j + Width) % 8 = 0
        <5>1. Width = 8 /\ i % 8 = 0 /\ j % 8 = 0
          BY <1>1, <4>1, <4>2 DEF Width, Aligned
        <5> HIDE DEF i, j
        <5>2. (j + 8) % 8 = 0
          BY <1>1, <5>1
        <5> QED BY <5>1, <5>2
      <4> QED BY <4>1, <4>2 DEF Aligned
    <3> DEFINE Q == Nest(i, j + Width).parts
    <3>4. 1 \in 1 .. Len(Q) /\ 0 < Q[1].times /\ Doing(Q[1].does, g, i, j + Width, 0)
      <4>1. j + Width \in Nat
        BY <1>1, <1>5
      <4> QED BY <1>1, <1>3, <4>1, FirstPart
    <3> HIDE DEF i, j, part, k
    <3>5. Progress(t, g)
      BY <1>3, <2>1, <2>2, <3>2, <3>3, <3>4 DEF Progress
    <3> QED BY <3>1, <3>5
  <2>3. CASE ~ j + Width < M
    <3> DEFINE t == [i |-> i + Height, j |-> 0, part |-> 1, k |-> 0]
    <3>1. After = t
      BY <1>1, <1>2, <1>8, <2>3 DEF After
    <3>2. t \in [i : Nat, j : Nat, part : Nat, k : Nat] /\ t.i = i + Height /\ t.j = 0
          /\ t.part = 1 /\ t.k = 0
      BY <1>1, <1>5
    <3> HIDE DEF t
    <3>3. Aligned(i + Height, 0)
      <4>1. ASSUME func # 2, M = 32 \/ M = 64 PROVE (i + Height) % 8 = 0 /\ 0 % 8 = 0
        <5>1. Height = 8 /\ i % 8 = 0
          BY <1>1, <4>1 DEF Height, Aligned
        <5> HIDE DEF i, j
        <5>2. (i + 8) % 8 = 0
          BY <1>1, <5>1
        <5> QED BY <5>1, <5>2
      <4> QED BY <4>1 DEF Aligned
    <3> DEFINE Q == Nest(i + Height, 0).parts
    <3>4. i + Height < LastRow =>
            1 \in 1 .. Len(Q) /\ 0 < Q[1].times /\ Doing(Q[1].does, g, i + Height, 0, 0)
      <4>1. i + Height \in Nat /\ 0 \in Nat
        BY <1>1, <1>5
      <4> QED BY <4>1, FirstPart
    <3> HIDE DEF i, j, part, k
    <3>5. 0 < M
      BY Sizes
    <3>6. Progress(t, g)
      BY <2>1, <2>3, <3>2, <3>3, <3>4, <3>5 DEF Progress
    <3> QED BY <3>1, <3>6
  <2> QED BY <2>2, <2>3
<1> QED BY <1>6, <1>7, <1>8

(* Where an iteration is, and what it finds.                               *)
LEMMA Within ==
    ASSUME shape \in Shapes, func \in {1, 2}, Supported, Progress(at, b), at.i < Here.last
    PROVE  /\ at.i \in Nat /\ at.j \in Nat /\ at.k \in Nat /\ at.part \in Nat
           /\ at.i < N /\ at.j < M /\ M \in Nat /\ N \in Nat
           /\ DOMAIN b = BCells
           /\ Here.parts = Nest(at.i, at.j).parts
           /\ at.part \in 1 .. Len(Here.parts) /\ Part = Here.parts[at.part]
           /\ at.k < Part.times /\ Doing(Part.does, b, at.i, at.j, at.k)
           /\ Aligned(at.i, at.j)
           /\ func # 2 /\ (M = 32 \/ M = 64) => Block(at.i, at.j)
<1>1. Here.last = LastRow
  BY NestSizes DEF Here
<1>2. /\ at.i \in Nat /\ at.j \in Nat /\ at.k \in Nat /\ at.part \in Nat
      /\ DOMAIN b = BCells /\ Aligned(at.i, at.j)
  BY DEF Progress
<1>3. /\ at.i < LastRow /\ at.j < M
      /\ Here.parts = Nest(at.i, at.j).parts
      /\ at.part \in 1 .. Len(Here.parts) /\ Part = Here.parts[at.part]
      /\ at.k < Part.times /\ Doing(Part.does, b, at.i, at.j, at.k)
  BY <1>1 DEF Progress, Here, Part
<1>4. M \in Nat /\ N \in Nat
  BY Sizes
<1>5. at.i < N
  <2>1. CASE func # 2 /\ M = 32
    <3>1. N = 32 /\ LastRow = 32
      BY <2>1 DEF Supported, LastRow
    <3> QED BY <1>3, <3>1
  <2>2. CASE ~ (func # 2 /\ M = 32)
    <3>1. LastRow = N
      BY <2>2 DEF LastRow
    <3> QED BY <1>3, <3>1
  <2> QED BY <2>1, <2>2
<1>6. ASSUME func # 2, M = 32 \/ M = 64 PROVE Block(at.i, at.j)
  <2>1. at.i % 8 = 0 /\ at.j % 8 = 0
    BY <1>2, <1>6 DEF Aligned
  <2>2. N % 8 = 0 /\ M % 8 = 0
    <3>1. CASE M = 32
      <4>1. N = 32
        BY <1>6, <3>1 DEF Supported
      <4> QED BY <3>1, <4>1
    <3>2. CASE M = 64
      <4>1. N % 8 = 0
        BY <1>6, <3>2 DEF Supported
      <4> QED BY <3>2, <4>1
    <3> QED BY <1>6, <3>1, <3>2
  <2> DEFINE x == at.i
             y == at.j
  <2>3. x \in Nat /\ y \in Nat /\ x < N /\ y < M /\ x % 8 = 0 /\ y % 8 = 0
    BY <1>2, <1>3, <1>5, <2>1
  <2> HIDE DEF x, y
  <2>4. x + 8 <= N
    BY <1>4, <2>2, <2>3
  <2>5. y + 8 <= M
    BY <1>4, <2>2, <2>3
  <2> QED BY <2>3, <2>4, <2>5 DEF Block, x, y
<1> QED BY <1>2, <1>3, <1>4, <1>5, <1>6

(* One iteration of each nest keeps the progress: of the row-wise scan...  *)
LEMMA IterateRow ==
    ASSUME shape \in Shapes, func = 2, Supported, Progress(at, b), at.i < Here.last
    PROVE  Progress(After, Written(Iteration(Part.does, at.i, at.j, at.k)))
<1>0. func \in {1, 2}
  OBVIOUS
<1> DEFINE i == at.i
           j == at.j
           k == at.k
           d == Written(Iteration(Part.does, i, j, k))
<1>1. /\ i \in Nat /\ i < N /\ DOMAIN b = BCells /\ k \in Nat /\ k < Part.times
      /\ at.part \in 1 .. Len(Here.parts) /\ Part = Here.parts[at.part]
      /\ j = 0
  BY <1>0, Within DEF Aligned
<1>2. Here.parts = <<[does |-> "row", times |-> 1]>>
  BY PartsAre DEF Here
<1>3. at.part = 1 /\ Part.does = "row" /\ Part.times = 1 /\ Len(Here.parts) = 1
  BY <1>1, <1>2
<1>4. d = Written(RowWise(i))
  BY <1>3 DEF Iteration
<1>5. Height = 1 /\ Width = M
  BY DEF Height, Width
<1>6. DOMAIN d = BCells /\ Transposed(d, i, j, Height, Width) /\ OnlyIn(d, i, j, Height, Width)
  BY <1>1, <1>4, <1>5, RowStep
<1>7. ~ k + 1 < Part.times /\ ~ at.part < Len(Here.parts)
  BY <1>1, <1>3
<1> HIDE DEF d
<1>8. Progress(After, d)
  BY <1>0, <1>6, <1>7, Advance
<1> QED BY <1>8 DEF d

(* ... of the nest for M = 32...                                           *)
LEMMA Iterate32 ==
    ASSUME shape \in Shapes, func = 1, M = 32, Supported, Progress(at, b), at.i < Here.last
    PROVE  Progress(After, Written(Iteration(Part.does, at.i, at.j, at.k)))
<1>0. func \in {1, 2} /\ func # 2
  OBVIOUS
<1> DEFINE i == at.i
           j == at.j
           k == at.k
           d == Written(Iteration(Part.does, i, j, k))
<1>1. /\ i \in Nat /\ j \in Nat /\ k \in Nat /\ k < Part.times
      /\ DOMAIN b = BCells
      /\ at.part \in 1 .. Len(Here.parts) /\ Part = Here.parts[at.part]
      /\ Doing(Part.does, b, i, j, k) /\ Block(i, j)
  BY <1>0, Within
<1>2. Here.parts = <<[does |-> "copy", times |-> 8], [does |-> "swap", times |-> 8]>>
  BY <1>0, PartsAre DEF Here
<1>3. Len(Here.parts) = 2 /\ (at.part = 1 \/ at.part = 2)
  BY <1>1, <1>2
<1>4. Height = 8 /\ Width = 8
  BY <1>0 DEF Height, Width
<1>5. CASE at.part = 1
  <2>1. Part.does = "copy" /\ Part.times = 8
        /\ Here.parts[at.part + 1] = [does |-> "swap", times |-> 8]
    BY <1>1, <1>2, <1>5
  <2>2. d = Written(CopyRow(i, j, k)) /\ k \in 0 .. 7 /\ Copied(b, i, j, k)
    <3>1. k \in 0 .. 7
      <4>1. k \in Nat /\ k < 8
        BY <1>1, <2>1
      <4> HIDE DEF k
      <4> QED BY <4>1
    <3>2. Copied(b, i, j, k)
      BY <1>1, <2>1 DEF Doing
    <3> QED BY <2>1, <3>1, <3>2 DEF Iteration
  <2>3. DOMAIN d = BCells /\ Copied(d, i, j, k + 1) /\ OnlyIn(d, i, j, 8, 8)
    BY <1>1, <2>2, CopyStep
  <2> HIDE DEF d
  <2>4. Doing(Part.does, d, i, j, k + 1)
    BY <2>1, <2>3 DEF Doing
  <2>5. ASSUME ~ k + 1 < Part.times
        PROVE  LET x == Here.parts[at.part + 1] IN 0 < x.times /\ Doing(x.does, d, i, j, 0)
    <3>1. k + 1 = 8
      BY <2>1, <2>2, <2>5
    <3>2. Swapped(d, i, j, 0)
      BY <2>3, <3>1, CopiedThenSwapped
    <3>3. Doing("swap", d, i, j, 0)
      BY <3>2 DEF Doing
    <3> QED BY <2>1, <3>3
  <2>6. at.part < Len(Here.parts)
    BY <1>3, <1>5
  <2>7. Progress(After, d)
    BY <1>0, <1>4, <2>3, <2>4, <2>5, <2>6, Advance
  <2> QED BY <2>7 DEF d
<1>6. CASE at.part = 2
  <2>1. Part.does = "swap" /\ Part.times = 8
    BY <1>1, <1>2, <1>6
  <2>2. d = Written(SwapRow(i, j, k)) /\ k \in 0 .. 7 /\ Swapped(b, i, j, k)
    <3>1. k \in 0 .. 7
      <4>1. k \in Nat /\ k < 8
        BY <1>1, <2>1
      <4> HIDE DEF k
      <4> QED BY <4>1
    <3>2. Swapped(b, i, j, k)
      BY <1>1, <2>1 DEF Doing
    <3> QED BY <2>1, <3>1, <3>2 DEF Iteration
  <2>3. DOMAIN d = BCells /\ Swapped(d, i, j, k + 1) /\ OnlyIn(d, i, j, 8, 8)
    BY <1>1, <2>2, SwapStep
  <2> HIDE DEF d
  <2>4. Doing(Part.does, d, i, j, k + 1)
    BY <2>1, <2>3 DEF Doing
  <2>5. ~ k + 1 < Part.times => Transposed(d, i, j, Height, Width)
    <3> SUFFICES ASSUME ~ k + 1 < Part.times PROVE Transposed(d, i, j, 8, 8)
      BY <1>4
    <3>1. k + 1 = 8
      BY <2>1, <2>2
    <3> QED BY <1>1, <2>3, <3>1, SwappedThenDone
  <2>6. ~ at.part < Len(Here.parts)
    BY <1>3, <1>6
  <2>7. Progress(After, d)
    BY <1>0, <1>4, <2>3, <2>4, <2>5, <2>6, Advance
  <2> QED BY <2>7 DEF d
<1> QED BY <1>3, <1>5, <1>6

(* ... of the nest for M = 64...                                           *)
LEMMA Iterate64 ==
    ASSUME shape \in Shapes, func = 1, M = 64, Supported, Progress(at, b), at.i < Here.last
    PROVE  Progress(After, Written(Iteration(Part.does, at.i, at.j, at.k)))
<1>0. func \in {1, 2} /\ func # 2
  OBVIOUS
<1> DEFINE i == at.i
           j == at.j
           k == at.k
           d == Written(Iteration(Part.does, i, j, k))
<1>1. /\ i \in Nat /\ j \in Nat /\ k \in Nat /\ k < Part.times
      /\ DOMAIN b = BCells
      /\ at.part \in 1 .. Len(Here.parts) /\ Part = Here.parts[at.part]
      /\ Doing(Part.does, b, i, j, k) /\ Block(i, j)
  BY <1>0, Within
<1>2. Here.parts = <<[does |-> "copy", times |-> 4], [does |-> "halves", times |-> 4],
                     [does |-> "move", times |-> 4]>>
  BY <1>0, PartsAre DEF Here
<1>3. Len(Here.parts) = 3 /\ (at.part = 1 \/ at.part = 2 \/ at.part = 3)
  BY <1>1, <1>2
<1>4. Height = 8 /\ Width = 8
  BY <1>0 DEF Height, Width
<1>5. CASE at.part = 1
  <2>1. Part.does = "copy" /\ Part.times = 4
        /\ Here.parts[at.part + 1] = [does |-> "halves", times |-> 4]
    BY <1>1, <1>2, <1>5
  <2>2. d = Written(CopyRow(i, j, k)) /\ k \in 0 .. 3 /\ k \in 0 .. 7 /\ Copied(b, i, j, k)
    <3>1. k \in 0 .. 3 /\ k \in 0 .. 7
      <4>1. k \in Nat /\ k < 4
        BY <1>1, <2>1
      <4> HIDE DEF k
      <4> QED BY <4>1
    <3>2. Copied(b, i, j, k)
      BY <1>1, <2>1 DEF Doing
    <3> QED BY <2>1, <3>1, <3>2 DEF Iteration
  <2>3. DOMAIN d = BCells /\ Copied(d, i, j, k + 1) /\ OnlyIn(d, i, j, 8, 8)
    BY <1>1, <2>2, CopyStep
  <2> HIDE DEF d
  <2>4. Doing(Part.does, d, i, j, k + 1)
    BY <2>1, <2>3 DEF Doing
  <2>5. ASSUME ~ k + 1 < Part.times
        PROVE  LET x == Here.parts[at.part + 1] IN 0 < x.times /\ Doing(x.does, d, i, j, 0)
    <3>1. k + 1 = 4
      BY <2>1, <2>2, <2>5
    <3>2. HalvesSwapped(d, i, j, 0)
      BY <1>1, <2>3, <3>1, CopiedThenHalves
    <3>3. Doing("halves", d, i, j, 0)
      BY <3>2 DEF Doing
    <3> QED BY <2>1, <3>3
  <2>6. at.part < Len(Here.parts)
    BY <1>3, <1>5
  <2>7. Progress(After, d)
    BY <1>0, <1>4, <2>3, <2>4, <2>5, <2>6, Advance
  <2> QED BY <2>7 DEF d
<1>6. CASE at.part = 2
  <2>1. Part.does = "halves" /\ Part.times = 4
        /\ Here.parts[at.part + 1] = [does |-> "move", times |-> 4]
    BY <1>1, <1>2, <1>6
  <2>2. d = Written(SwapHalves(i, j, k)) /\ k \in 0 .. 3 /\ HalvesSwapped(b, i, j, k)
    <3>1. k \in 0 .. 3
      <4>1. k \in Nat /\ k < 4
        BY <1>1, <2>1
      <4> HIDE DEF k
      <4> QED BY <4>1
    <3>2. HalvesSwapped(b, i, j, k)
      BY <1>1, <2>1 DEF Doing
    <3> QED BY <2>1, <3>1, <3>2 DEF Iteration
  <2>3. DOMAIN d = BCells /\ HalvesSwapped(d, i, j, k + 1) /\ OnlyIn(d, i, j, 8, 8)
    BY <1>1, <2>2, HalvesStep
  <2> HIDE DEF d
  <2>4. Doing(Part.does, d, i, j, k + 1)
    BY <2>1, <2>3 DEF Doing
  <2>5. ASSUME ~ k + 1 < Part.times
        PROVE  LET x == Here.parts[at.part + 1] IN 0 < x.times /\ Doing(x.does, d, i, j, 0)
    <3>1. k + 1 = 4
      BY <2>1, <2>2, <2>5
    <3>2. Moved(d, i, j, 0)
      BY <1>1, <2>3, <3>1, HalvesThenMoved
    <3>3. Doing("move", d, i, j, 0)
      BY <3>2 DEF Doing
    <3> QED BY <2>1, <3>3
  <2>6. at.part < Len(Here.parts)
    BY <1>3, <1>6
  <2>7. Progress(After, d)
    BY <1>0, <1>4, <2>3, <2>4, <2>5, <2>6, Advance
  <2> QED BY <2>7 DEF d
<1>7. CASE at.part = 3
  <2>1. Part.does = "move" /\ Part.times = 4
    BY <1>1, <1>2, <1>7
  <2>2. d = Written(MoveRow(i, j, k)) /\ k \in 0 .. 3 /\ Moved(b, i, j, k)
    <3>1. k \in 0 .. 3
      <4>1. k \in Nat /\ k < 4
        BY <1>1, <2>1
      <4> HIDE DEF k
      <4> QED BY <4>1
    <3>2. Moved(b, i, j, k)
      BY <1>1, <2>1 DEF Doing
    <3> QED BY <2>1, <3>1, <3>2 DEF Iteration
  <2>3. DOMAIN d = BCells /\ Moved(d, i, j, k + 1) /\ OnlyIn(d, i, j, 8, 8)
    BY <1>1, <2>2, MoveStep
  <2> HIDE DEF d
  <2>4. Doing(Part.does, d, i, j, k + 1)
    BY <2>1, <2>3 DEF Doing
  <2>5. ~ k + 1 < Part.times => Transposed(d, i, j, Height, Width)
    <3> SUFFICES ASSUME ~ k + 1 < Part.times PROVE Transposed(d, i, j, 8, 8)
      BY <1>4
    <3>1. k + 1 = 4
      BY <2>1, <2>2
    <3> QED BY <1>1, <2>3, <3>1, MovedThenDone
  <2>6. ~ at.part < Len(Here.parts)
    BY <1>3, <1>7
  <2>7. Progress(After, d)
    BY <1>0, <1>4, <2>3, <2>4, <2>5, <2>6, Advance
  <2> QED BY <2>7 DEF d
<1> QED BY <1>3, <1>5, <1>6, <1>7

(* ... and of the nest for other shapes.                                   *)
LEMMA IterateOther ==
    ASSUME shape \in Shapes, func = 1, M # 32, M # 64, Supported, Progress(at, b),
           at.i < Here.last
    PROVE  Progress(After, Written(Iteration(Part.does, at.i, at.j, at.k)))
<1>0. func \in {1, 2} /\ func # 2
  OBVIOUS
<1> DEFINE i == at.i
           j == at.j
           k == at.k
           d == Written(Iteration(Part.does, i, j, k))
<1>1. /\ i \in Nat /\ j \in Nat /\ k \in Nat /\ k < Part.times /\ i < N /\ j < M
      /\ M \in Nat /\ N \in Nat /\ DOMAIN b = BCells
      /\ at.part \in 1 .. Len(Here.parts) /\ Part = Here.parts[at.part]
      /\ Doing(Part.does, b, i, j, k)
  BY <1>0, Within
<1>2. Height = 8 /\ Width = 23
  BY <1>0 DEF Height, Width
<1>3. CASE i + 8 <= N /\ j + 23 <= M
  <2>1. Here.parts = <<[does |-> "column", times |-> 23]>>
    BY <1>0, <1>3, PartsAre DEF Here
  <2>2. at.part = 1 /\ Part.does = "column" /\ Part.times = 23 /\ Len(Here.parts) = 1
    BY <1>1, <2>1
  <2>3. d = Written(Column(i, j + k)) /\ k \in 0 .. 22 /\ ColumnsDone(b, i, j, k)
    BY <1>1, <2>2 DEF Iteration, Doing
  <2>4. DOMAIN d = BCells /\ ColumnsDone(d, i, j, k + 1) /\ OnlyIn(d, i, j, 8, 23)
    <3> HIDE DEF d, i, j, k
    <3>1. LET e == Written(Column(i, j + k))
          IN  DOMAIN e = BCells /\ ColumnsDone(e, i, j, k + 1) /\ OnlyIn(e, i, j, 8, 23)
      BY <1>1, <1>3, <2>3, ColumnStep
    <3> QED BY <2>3, <3>1
  <2> HIDE DEF d
  <2>5. Doing(Part.does, d, i, j, k + 1)
    BY <2>2, <2>4 DEF Doing
  <2>6. ~ k + 1 < Part.times => Transposed(d, i, j, Height, Width)
    <3> SUFFICES ASSUME ~ k + 1 < Part.times PROVE Transposed(d, i, j, 8, 23)
      BY <1>2
    <3>1. k + 1 = 23
      BY <2>2, <2>3
    <3> QED BY <1>1, <2>4, <3>1, ColumnsThenDone
  <2>7. ~ at.part < Len(Here.parts)
    BY <2>2
  <2>8. Progress(After, d)
    BY <1>0, <1>2, <2>4, <2>5, <2>6, <2>7, Advance
  <2> QED BY <2>8 DEF d
<1>4. CASE ~ (i + 8 <= N /\ j + 23 <= M)
  <2> DEFINE n == Smaller(i + 8, N) - i
  <2>1. Here.parts = <<[does |-> "corner", times |-> n]>>
    BY <1>0, <1>4, PartsAre DEF Here
  <2>2. at.part = 1 /\ Part.does = "corner" /\ Part.times = n /\ Len(Here.parts) = 1
    BY <1>1, <2>1
  <2>3. n \in Nat /\ n <= 8 /\ i + n <= N
    BY <1>1 DEF Smaller
  <2>4. k \in 0 .. 7 /\ i + k < N
    <3> HIDE DEF i, k, n
    <3> QED BY <1>1, <2>2, <2>3
  <2>5. d = Written(Row(i + k, j, Smaller(j + 23, M))) /\ CornerDone(b, i, j, k)
    BY <1>1, <2>2 DEF Iteration, Doing
  <2>6. DOMAIN d = BCells /\ CornerDone(d, i, j, k + 1) /\ OnlyIn(d, i, j, 8, 23)
    <3> HIDE DEF d, i, j, k
    <3>1. LET e == Written(Row(i + k, j, Smaller(j + 23, M)))
          IN  DOMAIN e = BCells /\ CornerDone(e, i, j, k + 1) /\ OnlyIn(e, i, j, 8, 23)
      BY <1>1, <2>4, <2>5, CornerStep
    <3> QED BY <2>5, <3>1
  <2> HIDE DEF d
  <2>7. Doing(Part.does, d, i, j, k + 1)
    BY <2>2, <2>6 DEF Doing
  <2>8. ~ k + 1 < Part.times => Transposed(d, i, j, Height, Width)
    <3> SUFFICES ASSUME ~ k + 1 < Part.times PROVE Transposed(d, i, j, 8, 23)
      BY <1>2
    <3>1. k + 1 = n
      <4> HIDE DEF i, k, n
      <4> QED BY <1>1, <2>2, <2>3
    <3> QED BY <1>1, <2>6, <3>1, CornerThenDone
  <2>9. ~ at.part < Len(Here.parts)
    BY <2>2
  <2>10. Progress(After, d)
    BY <1>0, <1>2, <2>6, <2>7, <2>8, <2>9, Advance
  <2> QED BY <2>10 DEF d
<1> QED BY <1>3, <1>4

(* One iteration of any nest keeps the progress.                           *)
LEMMA IterationKeeps ==
    ASSUME shape \in Shapes, func \in {1, 2}, Supported, Progress(at, b), at.i < Here.last
    PROVE  Progress(After, Written(Iteration(Part.does, at.i, at.j, at.k)))
BY IterateRow, Iterate32, Iterate64, IterateOther

(* An iteration leaves the options and the function as they are, and what   *)
(* they say.                                                               *)
LEMMA SameSizes ==
    ASSUME shape' = shape, func' = func
    PROVE  /\ M' = M /\ N' = N /\ Height' = Height /\ LastRow' = LastRow
           /\ BCells' = BCells /\ Rows' = Rows /\ Cols' = Cols
BY DEF M, N, Height, LastRow, BCells, Rows, Cols, Larger

(* Places and nests of loops stay what they are.                           *)
LEMMA SamePlaces ==
    ASSUME shape' = shape, func' = func, NEW i, NEW j
    PROVE  B(i, j)' = B(i, j) /\ Correct(i, j)' = Correct(i, j) /\ Nest(i, j)' = Nest(i, j)
<1>1. M' = M /\ N' = N
  BY SameSizes
<1>2. B(i, j)' = B(i, j)
  BY <1>1 DEF B
<1>3. Correct(i, j)' = Correct(i, j)
  BY <1>1 DEF Correct, InA, A
<1>4. Nest(i, j)' = Nest(i, j)
  BY <1>1 DEF Nest, Smaller
<1> QED BY <1>2, <1>3, <1>4

(* So does what a part has done...                                         *)
LEMMA SameDoing ==
    ASSUME shape' = shape, func' = func, NEW does, NEW g, NEW i, NEW j, NEW k
    PROVE  Doing(does, g, i, j, k)' <=> Doing(does, g, i, j, k)
<1>1. M' = M
  BY SameSizes
<1>2. \A x, y : B(x, y)' = B(x, y) /\ Correct(x, y)' = Correct(x, y)
  BY SamePlaces
<1>3. Copied(g, i, j, k)' <=> Copied(g, i, j, k)
  BY <1>2 DEF Copied
<1>4. Swapped(g, i, j, k)' <=> Swapped(g, i, j, k)
  BY <1>2 DEF Swapped
<1>5. HalvesSwapped(g, i, j, k)' <=> HalvesSwapped(g, i, j, k)
  BY <1>2 DEF HalvesSwapped
<1>6. Moved(g, i, j, k)' <=> Moved(g, i, j, k)
  BY <1>2 DEF Moved
<1>7. ColumnsDone(g, i, j, k)' <=> ColumnsDone(g, i, j, k)
  BY <1>2 DEF ColumnsDone
<1>8. CornerDone(g, i, j, k)' <=> CornerDone(g, i, j, k)
  BY <1>1, <1>2 DEF CornerDone
<1> QED BY <1>3, <1>4, <1>5, <1>6, <1>7, <1>8 DEF Doing

(* ... and the progress as a whole.                                        *)
LEMMA SameProgress ==
    ASSUME shape' = shape, func' = func, NEW t, NEW g
    PROVE  Progress(t, g)' <=> Progress(t, g)
<1>1. /\ M' = M /\ N' = N /\ Height' = Height /\ LastRow' = LastRow
      /\ BCells' = BCells /\ Rows' = Rows /\ Cols' = Cols
  BY SameSizes
<1>2. \A x, y : B(x, y)' = B(x, y) /\ Correct(x, y)' = Correct(x, y) /\ Nest(x, y)' = Nest(x, y)
  BY SamePlaces
<1>3. \A does, x, y, k : Doing(does, g, x, y, k)' <=> Doing(does, g, x, y, k)
  BY SameDoing
<1>4. \A x, y : Done(g, x, y)' <=> Done(g, x, y)
  BY <1>1, <1>2 DEF Done
<1>5. \A x, y : Aligned(x, y)' <=> Aligned(x, y)
  BY <1>1 DEF Aligned
<1> QED BY <1>1, <1>2, <1>3, <1>4, <1>5 DEF Progress

(* What holds of the loops: while a function runs that handles the shape,   *)
(* they have done what their place says.                                   *)
TransInv ==
    /\ shape \in Shapes
    /\ func \in 0 .. 2
    /\ phase \in {"next", "loops"}
    /\ phase = "loops" => func \in {1, 2}
    /\ phase = "loops" /\ Supported => Progress(at, b)

(* A call begins with all of B to do...                                    *)
LEMMA FreshProgress ==
    shape \in Shapes /\ func \in {1, 2} /\ Supported => Progress(Start, FreshB)
<1> SUFFICES ASSUME shape \in Shapes, func \in {1, 2}, Supported
             PROVE  Progress(Start, FreshB)
  OBVIOUS
<1>1. /\ Start \in [i : Nat, j : Nat, part : Nat, k : Nat]
      /\ Start.i = 0 /\ Start.j = 0 /\ Start.part = 1 /\ Start.k = 0
  BY DEF Start
<1>2. DOMAIN FreshB = BCells
  BY DEF FreshB, BCells
<1>3. Aligned(0, 0)
  BY DEF Aligned
<1>4. /\ M \in Nat /\ M > 0 /\ \A r \in Rows : 0 <= r /\ r \in Int
      /\ \A c \in Cols : 0 <= c /\ c \in Int
  BY Sizes DEF Rows, Cols
<1>5. Done(FreshB, 0, 0)
  <2>1. \A r \in Rows, c \in Cols : ~ (c < 0 \/ (c < 0 + Height /\ r < 0))
    BY <1>4
  <2> QED BY <2>1 DEF Done
<1>6. 0 < LastRow =>
        LET P == Nest(0, 0).parts
        IN  1 \in 1 .. Len(P) /\ 0 < P[1].times /\ Doing(P[1].does, FreshB, 0, 0, 0)
  <2>1. 0 \in Nat
    OBVIOUS
  <2> QED BY <2>1, FirstPart
<1> QED BY <1>1, <1>2, <1>3, <1>4, <1>5, <1>6 DEF Progress

(* ... and so in the state that StartFunction leaves.                      *)
LEMMA FreshLater ==
    (shape \in Shapes)' /\ (func \in {1, 2})' /\ Supported' => Progress(Start, FreshB)'
BY FreshProgress, PTL

(* Every step keeps the invariant.                                         *)
LEMMA TransInvKept == TransInv /\ [TransNext]_tvars => TransInv'
<1> SUFFICES ASSUME TransInv, [TransNext]_tvars PROVE TransInv'
  OBVIOUS
<1>1. CASE StartFunction
  <2>1. shape' = shape /\ func' = func + 1 /\ phase' = "loops"
        /\ at' = Start /\ b' = FreshB' /\ func < 2
    BY <1>1 DEF StartFunction, FuncList, FreshB, M, N, Larger
  <2>2. (shape \in Shapes)' /\ func' \in {1, 2} /\ func' \in 0 .. 2
    BY <2>1 DEF TransInv
  <2>3. ASSUME Supported' PROVE Progress(at, b)'
    <3>1. Progress(Start, FreshB)'
      BY <2>2, <2>3, FreshLater
    <3>2. at' = Start' /\ b' = FreshB'
      BY <2>1 DEF Start
    <3> QED BY <3>1, <3>2
  <2> QED BY <2>1, <2>2, <2>3 DEF TransInv
<1>2. CASE Iterate
  <2>1. /\ shape' = shape /\ func' = func /\ phase' = "loops" /\ phase = "loops"
        /\ at.i < Here.last /\ at' = After
        /\ b' = Written(Iteration(Part.does, at.i, at.j, at.k))
    BY <1>2 DEF Iterate
  <2>2. ASSUME Supported' PROVE Progress(at, b)'
    <3>1. Supported
      BY <2>1, <2>2 DEF Supported, M, N
    <3>2. Progress(After, Written(Iteration(Part.does, at.i, at.j, at.k)))
      BY <2>1, <3>1, IterationKeeps DEF TransInv
    <3>3. Progress(at', b')
      BY <2>1, <3>2
    <3> QED BY <2>1, <3>3, SameProgress
  <2> QED BY <2>1, <2>2 DEF TransInv
<1>3. CASE Validate
  BY <1>3 DEF Validate, TransInv
<1>4. CASE UNCHANGED tvars
  <2>1. /\ shape' = shape /\ func' = func /\ phase' = phase /\ at' = at /\ b' = b
    BY <1>4 DEF tvars
  <2>2. ASSUME phase = "loops", Supported' PROVE Progress(at, b)'
    <3>1. Supported
      BY <2>1, <2>2 DEF Supported, M, N
    <3>2. Progress(at, b)
      BY <2>2, <3>1 DEF TransInv
    <3>3. Progress(at', b')
      BY <2>1, <3>2
    <3> QED BY <2>1, <3>3, SameProgress
  <2> QED BY <2>1, <2>2 DEF TransInv
<1> QED BY <1>1, <1>2, <1>3, <1>4 DEF TransNext

(* The invariant of the loops holds for every set of shapes.               *)
THEOREM LoopsRight == TransSpec => []TransInv
<1>1. TransInit => TransInv
  BY DEF TransInit, TransInv
<1>2. TransInv /\ [TransNext]_tvars => TransInv'
  BY TransInvKept
<1> QED BY <1>1, <1>2, PTL DEF TransSpec

(* Blocks that were left are transposed, in every shape the submission      *)
(* handles and in every shape with the row-wise scan (trans.c:20-199).     *)
THEOREM TransposedBehind == TransSpec => []BlocksLeftTransposed
<1>1. TransInv => BlocksLeftTransposed
  <2> SUFFICES ASSUME TransInv, phase = "loops", Supported,
                      NEW c \in 0 .. N - 1, NEW r \in 0 .. M - 1,
                      c < at.i \/ (c < at.i + Here.rows /\ r < at.j)
               PROVE  b[B(r, c)] = Correct(c, r)
    BY DEF BlocksLeftTransposed
  <2>1. Done(b, at.i, at.j)
    BY DEF TransInv, Progress
  <2>2. Here.rows = Height
    BY NestSizes DEF Here
  <2> QED BY <2>1, <2>2 DEF Done, Rows, Cols
<1> QED BY <1>1, LoopsRight, PTL

(* When validate compares B with correctTrans, they are the same: both      *)
(* functions transpose every matrix whose shape they handle                *)
(* (tracegen.c:54-83).                                                     *)
THEOREM EachValid == TransSpec => [][Validate /\ Supported => Validates]_tvars
<1>1. TransInv /\ [TransNext]_tvars => [Validate /\ Supported => Validates]_tvars
  <2> SUFFICES ASSUME TransInv, Validate, Supported PROVE Validates
    OBVIOUS
  <2>1. phase = "loops" /\ ~ at.i < Here.last
    <3>1. phase = "loops" /\ at.i >= Here.last
      BY DEF Validate
    <3>2. Here.last = LastRow
      BY NestSizes DEF Here
    <3>3. at.i \in Nat /\ LastRow \in Nat
      BY <3>1, Sizes DEF TransInv, Progress
    <3> QED BY <3>1, <3>2, <3>3
  <2>2. /\ Progress(at, b) /\ at.i \in Nat /\ Done(b, at.i, at.j)
        /\ func \in {1, 2} /\ shape \in Shapes
    BY <2>1 DEF TransInv, Progress
  <2>3. N <= at.i
    <3>1. Here.last = LastRow
      BY NestSizes DEF Here
    <3>2. LastRow = N
      BY <2>2 DEF LastRow, Supported
    <3>3. N \in Nat
      BY <2>2, Sizes
    <3> QED BY <2>1, <2>2, <3>1, <3>2, <3>3
  <2>4. ASSUME NEW c \in 0 .. N - 1, NEW r \in 0 .. M - 1
        PROVE  b[B(r, c)] = Correct(c, r)
    <3>1. c < at.i
      <4>1. N \in Nat
        BY <2>2, Sizes
      <4> QED BY <2>2, <2>3, <4>1
    <3> QED BY <2>2, <3>1 DEF Done, Rows, Cols
  <2> QED BY <2>4 DEF Validates
<1> QED BY <1>1, LoopsRight, PTL DEF TransSpec

=============================================================================
