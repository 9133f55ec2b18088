---------------------------- MODULE Proxy_proofs ----------------------------
(***************************************************************************)
(* Theorems about Proxy, for any number of workers, descriptors, files and *)
(* nodes.                                                                  *)
(***************************************************************************)
EXTENDS Proxy, Counting, SequenceTheorems

(* The threads inside an editor are the holders of w, one at most.         *)
Editing(w) == pc[w] \in {"moving", "moved", "evicting", "adding"}
OneEditor ==
    /\ writing = {w \in Workers : Editing(w)}
    /\ \A v, w \in Workers : Editing(v) /\ Editing(w) => v = w

(* From the request on a worker knows a file; it replies at the end.       *)
Replying(w) == pc[w] \in {"serveBody", "writeBody", "close"}
Requested ==
    \A w \in Workers :
        /\ pc[w] \notin {"idle", "request", "close"} => file[w] \in Files
        /\ ~Replying(w) => reply[w] = None

(* Only what fits in the cache is made room for.                           *)
FitsCache ==
    \A w \in Workers :
        Private(w) \/ pc[w] \in {"find2", "search2", "alloc"} => len[w] <= MaxObject

(* The private node of a worker holds the file it was asked for, and a     *)
(* node on its way to the front some file.                                 *)
Filled ==
    \A w \in Workers :
        /\ Private(w) => node[ptr[w]] = [file |-> file[w], len |-> len[w]]
        /\ pc[w] = "moved" => node[ptr[w]].file # None

(* Before the first eviction, a node a worker has found, or has linked, is *)
(* still there and holds that file as well.                                *)
Found(w) == pc[w] \in {"serve", "serveBody", "move", "moving", "moved",
                       "write", "writeBody"}
FoundUntilEviction ==
    ~evicted => \A w \in Workers :
        Found(w) => ptr[w] \in live /\ node[ptr[w]].file = file[w]

(* ... the budget is right as a size_t, wrapped or not...                  *)
ExactUntilEviction == ~evicted => BudgetExact

(* ... and whoever lacks room has seen a node in the list, which another   *)
(* may be moving.                                                          *)
RoomUntilEviction ==
    ~evicted => \A w \in Workers :
        pc[w] \in {"evict", "evicting"} =>
            list # << >> \/ \E v \in Workers : pc[v] = "moved"

(* Until two workers take the same room, whoever has found room has it     *)
(* alone, and has it still when the nodes being moved are back.            *)
Adding(w) == pc[w] \in {"add", "adding"}
RoomUntilRace ==
    ~raced =>
        /\ \A v \in Workers : pc[v] = "moved" => node[ptr[v]].len <= remain
        /\ \A w \in Workers : Adding(w) =>
            /\ len[w] <= remain
            /\ \A v \in Workers \ {w} : ~Adding(v)
            /\ \A v \in Workers :
                  pc[v] = "moved" => len[w] + node[ptr[v]].len <= remain

IInv ==
    /\ TypeOK /\ OneOwner /\ OneEditor
    /\ Requested /\ FitsCache
    /\ ListInv /\ Filled
    /\ ExactUntilEviction /\ RoomUntilEviction
    /\ ServedUntilEviction /\ FoundUntilEviction
    /\ BudgetUntilRace /\ RoomUntilRace

-----------------------------------------------------------------------------
(* Sequences: the members of a sequence, and a sequence without its last.  *)
LEMMA Members ==
    ASSUME NEW S, NEW s \in Seq(S)
    PROVE  /\ Len(s) \in Nat /\ DOMAIN s = 1 .. Len(s)
           /\ \A i \in 1 .. Len(s) : s[i] \in S
           /\ \A x : x \in Range(s) <=> \E i \in 1 .. Len(s) : x = s[i]
<1>1. Len(s) \in Nat /\ DOMAIN s = 1 .. Len(s)
  BY LenProperties
<1> QED BY <1>1, ElementOfSeq DEF Range

LEMMA Injective ==
    ASSUME NEW S, NEW s \in Seq(S)
    PROVE  IsInjective(s) <=>
             \A i, j \in 1 .. Len(s) : s[i] = s[j] => i = j
BY LenProperties DEF IsInjective

LEMMA WithoutLast ==
    ASSUME NEW S, NEW s \in Seq(S), s # << >>
    PROVE  /\ Front(s) \in Seq(S)
           /\ Len(Front(s)) = Len(s) - 1
           /\ \A i \in 1 .. Len(s) - 1 : Front(s)[i] = s[i]
           /\ Len(s) \in 1 .. Len(s) /\ Last(s) = s[Len(s)]
<1> DEFINE t == SubSeq(s, 1, Len(s) - 1)
           n == Len(s)
<1>1. n \in Nat /\ n # 0 /\ \A i \in 1 .. n : s[i] \in S
  BY LenProperties, EmptySeq, ElementOfSeq
<1>2. /\ t \in Seq(S)
      /\ Len(t) = IF 1 <= n - 1 THEN n - 1 - 1 + 1 ELSE 0
      /\ \A i \in 1 .. n - 1 - 1 + 1 : t[i] = s[1 + i - 1]
  BY <1>1, SubSeqProperties
<1>3. Front(s) = t /\ Last(s) = s[n]
  BY DEF Front, Last
<1> HIDE DEF t, n
<1>4. Len(t) = n - 1
  BY <1>1, <1>2
<1>5. \A i \in 1 .. n - 1 : t[i] = s[i]
  BY <1>1, <1>2
<1> QED BY <1>1, <1>2, <1>3, <1>4, <1>5 DEF n

(* A sequence with an element appended, and without its first.             *)
LEMMA Appended ==
    ASSUME NEW S, NEW s \in Seq(S), NEW x \in S, IsInjective(s), x \notin Range(s)
    PROVE  IsInjective(Append(s, x)) /\ Range(Append(s, x)) = Range(s) \cup {x}
<1> DEFINE n == Len(s)
           r == Append(s, x)
<1>1. /\ n \in Nat /\ \A i, j \in 1 .. n : s[i] = s[j] => i = j
      /\ \A y : y \in Range(s) <=> \E i \in 1 .. n : y = s[i]
  BY Members, Injective
<1>2. /\ r \in Seq(S) /\ Len(r) = n + 1 /\ r[n + 1] = x
      /\ \A i \in 1 .. n : r[i] = s[i]
  BY AppendProperties
<1> HIDE DEF n, r
<1>3. \A y : y \in Range(r) <=> \E i \in 1 .. n + 1 : y = r[i]
  BY <1>2, Members
<1>4. IsInjective(r) <=> \A i, j \in 1 .. n + 1 : r[i] = r[j] => i = j
  BY <1>2, Injective
<1>5. \A i \in 1 .. n + 1 : i \in 1 .. n \/ i = n + 1
  BY <1>1
<1>6. n + 1 \in 1 .. n + 1 /\ \A i \in 1 .. n : i \in 1 .. n + 1
  BY <1>1
<1>7. \A i, j \in 1 .. n + 1 : r[i] = r[j] => i = j
  BY <1>1, <1>2, <1>5
<1>8. Range(r) = Range(s) \cup {x}
  BY <1>1, <1>2, <1>3, <1>5, <1>6
<1> QED BY <1>4, <1>7, <1>8 DEF r

LEMMA WithoutFirst ==
    ASSUME NEW S, NEW s \in Seq(S), s # << >>, IsInjective(s)
    PROVE  /\ IsInjective(Tail(s)) /\ Range(Tail(s)) \subseteq Range(s)
           /\ Head(s) \in Range(s) /\ Head(s) \notin Range(Tail(s))
<1> DEFINE n == Len(s)
           r == Tail(s)
<1>1. /\ n \in Nat /\ \A i, j \in 1 .. n : s[i] = s[j] => i = j
      /\ \A y : y \in Range(s) <=> \E i \in 1 .. n : y = s[i]
  BY Members, Injective
<1>2. /\ Head(s) = s[1] /\ r \in Seq(S) /\ Len(r) = n - 1
      /\ \A i \in 1 .. n - 1 : r[i] = s[i + 1]
  BY HeadTailProperties
<1>3. n # 0
  BY EmptySeq
<1> HIDE DEF n, r
<1>4. \A y : y \in Range(r) <=> \E i \in 1 .. n - 1 : y = r[i]
  BY <1>2, Members
<1>5. IsInjective(r) <=> \A i, j \in 1 .. n - 1 : r[i] = r[j] => i = j
  BY <1>2, Injective
<1>6. \A i \in 1 .. n - 1 : i + 1 \in 1 .. n /\ i + 1 # 1
  BY <1>1
<1>7. 1 \in 1 .. n
  BY <1>1, <1>3
<1>8. \A i, j \in 1 .. n - 1 : r[i] = r[j] => i = j
  <2> SUFFICES ASSUME NEW i \in 1 .. n - 1, NEW j \in 1 .. n - 1, r[i] = r[j] PROVE i = j
    OBVIOUS
  <2>1. i + 1 = j + 1
    BY <1>1, <1>2, <1>6
  <2> QED BY <1>1, <2>1
<1>9. Range(r) \subseteq Range(s) /\ s[1] \in Range(s) /\ s[1] \notin Range(r)
  BY <1>1, <1>2, <1>4, <1>6, <1>7
<1> QED BY <1>2, <1>5, <1>8, <1>9 DEF r

LEMMA FrontOf ==
    ASSUME NEW S, NEW s \in Seq(S), s # << >>, IsInjective(s)
    PROVE  /\ IsInjective(Front(s)) /\ Range(Front(s)) \subseteq Range(s)
           /\ Last(s) \in Range(s) /\ Last(s) \notin Range(Front(s))
<1> DEFINE n == Len(s)
           r == Front(s)
<1>1. /\ n \in Nat /\ \A i, j \in 1 .. n : s[i] = s[j] => i = j
      /\ \A y : y \in Range(s) <=> \E i \in 1 .. n : y = s[i]
  BY Members, Injective
<1>2. /\ r \in Seq(S) /\ Len(r) = n - 1 /\ n \in 1 .. n /\ Last(s) = s[n]
      /\ \A i \in 1 .. n - 1 : r[i] = s[i]
  BY WithoutLast
<1> HIDE DEF n, r
<1>3. \A y : y \in Range(r) <=> \E i \in 1 .. n - 1 : y = r[i]
  BY <1>2, Members
<1>4. IsInjective(r) <=> \A i, j \in 1 .. n - 1 : r[i] = r[j] => i = j
  BY <1>2, Injective
<1>5. \A i \in 1 .. n - 1 : i \in 1 .. n /\ i # n
  BY <1>1
<1> QED BY <1>1, <1>2, <1>3, <1>4, <1>5 DEF r

(* A sequence with an element put before it.                               *)
LEMMA Prepended ==
    ASSUME NEW S, NEW s \in Seq(S), NEW x \in S
    PROVE  /\ <<x>> \o s \in Seq(S)
           /\ Len(<<x>> \o s) = Len(s) + 1
           /\ \A i \in 1 .. Len(s) + 1 :
                  (<<x>> \o s)[i] = IF i = 1 THEN x ELSE s[i - 1]
<1>1. <<x>> \in Seq(S) /\ Len(<<x>>) = 1 /\ <<x>>[1] = x
  OBVIOUS
<1>2. Len(s) \in Nat
  BY LenProperties
<1>3. /\ <<x>> \o s \in Seq(S)
      /\ Len(<<x>> \o s) = Len(<<x>>) + Len(s)
      /\ \A i \in 1 .. Len(<<x>>) + Len(s) : (<<x>> \o s)[i] =
             IF i <= Len(<<x>>) THEN <<x>>[i] ELSE s[i - Len(<<x>>)]
  BY <1>1, ConcatProperties
<1>4. \A i \in 1 .. Len(s) + 1 : (<<x>> \o s)[i] = IF i <= 1 THEN <<x>>[i] ELSE s[i - 1]
  BY <1>1, <1>2, <1>3
<1>5. \A i \in 1 .. Len(s) + 1 : i <= 1 <=> i = 1
  BY <1>2
<1> QED BY <1>1, <1>2, <1>3, <1>4, <1>5

LEMMA PrependedRange ==
    ASSUME NEW S, NEW s \in Seq(S), NEW x \in S, IsInjective(s), x \notin Range(s)
    PROVE  IsInjective(<<x>> \o s) /\ Range(<<x>> \o s) = Range(s) \cup {x}
<1> DEFINE n == Len(s)
           r == <<x>> \o s
<1>1. /\ n \in Nat /\ \A i, j \in 1 .. n : s[i] = s[j] => i = j
      /\ \A y : y \in Range(s) <=> \E i \in 1 .. n : y = s[i]
  BY Members, Injective
<1>2. /\ r \in Seq(S) /\ Len(r) = n + 1
      /\ \A i \in 1 .. n + 1 : r[i] = IF i = 1 THEN x ELSE s[i - 1]
  BY Prepended
<1> HIDE DEF n, r
<1>3. \A y : y \in Range(r) <=> \E i \in 1 .. n + 1 : y = r[i]
  BY <1>2, Members
<1>4. IsInjective(r) <=> \A i, j \in 1 .. n + 1 : r[i] = r[j] => i = j
  BY <1>2, Injective
<1>5. \A i \in 1 .. n + 1 : i # 1 => i - 1 \in 1 .. n /\ r[i] = s[i - 1] /\ r[i] # x
  BY <1>1, <1>2
<1>6. 1 \in 1 .. n + 1 /\ r[1] = x
  BY <1>1, <1>2
<1>7. \A i \in 1 .. n : i + 1 \in 1 .. n + 1 /\ r[i + 1] = s[i]
  BY <1>1, <1>2
<1>8. Range(r) = Range(s) \cup {x}
  BY <1>1, <1>3, <1>5, <1>6, <1>7
<1>9. ASSUME NEW i \in 1 .. n + 1, NEW j \in 1 .. n + 1, r[i] = r[j] PROVE i = j
  <2>1. CASE i = 1 \/ j = 1
    BY <1>5, <1>6, <1>9, <2>1
  <2>2. CASE i # 1 /\ j # 1
    <3>1. i - 1 = j - 1
      BY <1>1, <1>5, <1>9, <2>2
    <3> QED BY <1>1, <3>1
  <2> QED BY <2>1, <2>2
<1> QED BY <1>4, <1>8, <1>9 DEF r

(* A sequence with one element removed.                                    *)
LEMMA Removed ==
    ASSUME NEW S, NEW s \in Seq(S), NEW p \in 1 .. Len(s)
    PROVE  /\ RemoveAt(s, p) \in Seq(S) /\ Len(RemoveAt(s, p)) = Len(s) - 1
           /\ \A i \in 1 .. Len(s) - 1 :
                  RemoveAt(s, p)[i] = IF i < p THEN s[i] ELSE s[i + 1]
<1> DEFINE n == Len(s)
           a == SubSeq(s, 1, p - 1)
           b == SubSeq(s, p + 1, Len(s))
           c == a \o b
<1>1. n \in Nat /\ p \in 1 .. n /\ \A i \in 1 .. n : s[i] \in S
  BY Members
<1>2. p - 1 \in Int /\ p + 1 \in Int /\ n \in Int
  BY <1>1
<1>3. \A i \in 1 .. p - 1 : s[i] \in S
  BY <1>1
<1>4. \A i \in p + 1 .. n : s[i] \in S
  BY <1>1
<1>5. /\ a \in Seq(S)
      /\ Len(a) = IF 1 <= p - 1 THEN p - 1 - 1 + 1 ELSE 0
      /\ \A i \in 1 .. p - 1 - 1 + 1 : a[i] = s[1 + i - 1]
  BY <1>2, <1>3, SubSeqProperties
<1>6. /\ b \in Seq(S)
      /\ Len(b) = IF p + 1 <= n THEN n - (p + 1) + 1 ELSE 0
      /\ \A i \in 1 .. n - (p + 1) + 1 : b[i] = s[p + 1 + i - 1]
  BY <1>2, <1>4, SubSeqProperties
<1>7. RemoveAt(s, p) = c
  BY DEF RemoveAt
<1> HIDE DEF a, b, n
<1>8. Len(a) = p - 1 /\ \A i \in 1 .. p - 1 : a[i] = s[i]
  BY <1>1, <1>5
<1>9. Len(b) = n - p /\ \A i \in 1 .. n - p : b[i] = s[p + i]
  BY <1>1, <1>6
<1>10. /\ c \in Seq(S) /\ Len(c) = Len(a) + Len(b)
       /\ \A i \in 1 .. Len(a) + Len(b) :
              c[i] = IF i <= Len(a) THEN a[i] ELSE b[i - Len(a)]
  BY <1>5, <1>6, ConcatProperties
<1> HIDE DEF c
<1>11. Len(c) = n - 1
  BY <1>1, <1>8, <1>9, <1>10
<1>12. ASSUME NEW i \in 1 .. n - 1, i < p PROVE c[i] = s[i]
  <2>1. i \in 1 .. Len(a) + Len(b) /\ i <= Len(a) /\ i \in 1 .. p - 1
    BY <1>1, <1>8, <1>9, <1>12
  <2> QED BY <2>1, <1>8, <1>10
<1>13. ASSUME NEW i \in 1 .. n - 1, ~(i < p) PROVE c[i] = s[i + 1]
  <2>1. /\ i \in 1 .. Len(a) + Len(b) /\ ~(i <= Len(a))
        /\ i - Len(a) \in 1 .. n - p /\ p + (i - Len(a)) = i + 1
    BY <1>1, <1>8, <1>9, <1>13
  <2> QED BY <2>1, <1>9, <1>10
<1> QED BY <1>7, <1>10, <1>11, <1>12, <1>13 DEF n

(* remove_node takes one node out of the list and no other.                *)
LEMMA RemovedNode ==
    ASSUME list \in Seq(Nodes), IsInjective(list), NEW n \in Range(list)
    PROVE  LET r == RemoveAt(list, Position(n)) IN
           /\ Position(n) \in 1 .. Len(list) /\ list[Position(n)] = n
           /\ r \in Seq(Nodes) /\ IsInjective(r)
           /\ Range(r) = Range(list) \ {n}
<1> DEFINE p == Position(n)
           m == Len(list)
           r == RemoveAt(list, p)
<1>1. /\ m \in Nat /\ DOMAIN list = 1 .. m
      /\ \A i, j \in 1 .. m : list[i] = list[j] => i = j
      /\ \A x : x \in Range(list) <=> \E i \in 1 .. m : x = list[i]
  BY Members, Injective
<1>2. p \in 1 .. m /\ list[p] = n
  BY <1>1 DEF Position
<1> HIDE DEF p
<1>3. /\ r \in Seq(Nodes) /\ Len(r) = m - 1
      /\ \A i \in 1 .. m - 1 : r[i] = IF i < p THEN list[i] ELSE list[i + 1]
  BY <1>2, Removed
<1> HIDE DEF r, m
<1>4. \A i \in 1 .. m - 1 : \E k \in 1 .. m : k # p /\ r[i] = list[k]
  <2> TAKE i \in 1 .. m - 1
  <2>1. i \in 1 .. m /\ i + 1 \in 1 .. m
    BY <1>1
  <2>2. CASE i < p
    BY <1>2, <1>3, <2>1, <2>2
  <2>3. CASE ~(i < p)
    <3>1. i + 1 # p /\ r[i] = list[i + 1]
      BY <1>1, <1>2, <1>3, <2>3
    <3> QED BY <2>1, <3>1
  <2> QED BY <2>2, <2>3
<1>5. \A k \in 1 .. m : k # p => \E i \in 1 .. m - 1 : r[i] = list[k]
  <2> TAKE k \in 1 .. m
  <2> HAVE k # p
  <2>1. CASE k < p
    <3>1. k \in 1 .. m - 1 /\ r[k] = list[k]
      BY <1>1, <1>2, <1>3, <2>1
    <3> QED BY <3>1
  <2>2. CASE k > p
    <3>1. k - 1 \in 1 .. m - 1 /\ ~(k - 1 < p) /\ k - 1 + 1 = k
      BY <1>1, <1>2, <2>2
    <3>2. r[k - 1] = list[k]
      BY <1>3, <3>1
    <3> QED BY <3>1, <3>2
  <2> QED BY <1>1, <1>2, <2>1, <2>2
<1>6. ASSUME NEW i \in 1 .. m - 1, NEW j \in 1 .. m - 1, r[i] = r[j] PROVE i = j
  <2>1. /\ i \in 1 .. m /\ i + 1 \in 1 .. m /\ j \in 1 .. m /\ j + 1 \in 1 .. m
    BY <1>1
  <2>2. CASE i < p /\ j < p
    BY <1>1, <1>3, <1>6, <2>1, <2>2
  <2>3. CASE ~(i < p) /\ ~(j < p)
    <3>1. i + 1 = j + 1
      BY <1>1, <1>3, <1>6, <2>1, <2>3
    <3> QED BY <1>1, <3>1
  <2>4. CASE i < p /\ ~(j < p)
    <3>1. i = j + 1
      BY <1>1, <1>3, <1>6, <2>1, <2>4
    <3> QED BY <1>1, <1>2, <2>4, <3>1
  <2>5. CASE ~(i < p) /\ j < p
    <3>1. i + 1 = j
      BY <1>1, <1>3, <1>6, <2>1, <2>5
    <3> QED BY <1>1, <1>2, <2>5, <3>1
  <2> QED BY <2>2, <2>3, <2>4, <2>5
<1>7. IsInjective(r)
  BY <1>3, <1>6, Injective
<1>8. \A x : x \in Range(r) <=> \E i \in 1 .. m - 1 : x = r[i]
  BY <1>3, Members
<1>9. ASSUME NEW x PROVE x \in Range(r) <=> x \in Range(list) /\ x # n
  <2>1. ASSUME x \in Range(r) PROVE x \in Range(list) /\ x # n
    <3>1. PICK i \in 1 .. m - 1 : x = r[i]
      BY <1>8, <2>1
    <3>2. PICK k \in 1 .. m : k # p /\ r[i] = list[k]
      BY <1>4
    <3> QED BY <1>1, <1>2, <3>1, <3>2
  <2>2. ASSUME x \in Range(list), x # n PROVE x \in Range(r)
    <3>1. PICK k \in 1 .. m : x = list[k]
      BY <1>1, <2>2
    <3>2. k # p
      BY <1>2, <2>2, <3>1
    <3> QED BY <1>5, <1>8, <3>1, <3>2
  <2> QED BY <2>1, <2>2
<1>10. Range(r) = Range(list) \ {n}
  BY <1>9
<1> QED BY <1>2, <1>3, <1>7, <1>10 DEF p, m, r

-----------------------------------------------------------------------------
(* The partial sums of a sequence: they exist, and Total is the last.      *)
Sums(f, s) ==
    /\ f \in [0 .. Len(s) -> Int] /\ f[0] = 0
    /\ \A i \in 1 .. Len(s) : f[i] = f[i - 1] + s[i]

LEMMA SumsExist ==
    ASSUME NEW s \in Seq(Int)
    PROVE  \E f : Sums(f, s)
<1> DEFINE n == Len(s)
           Upto(k) == {f \in [0 .. k -> Int] :
                          f[0] = 0 /\ \A i \in 1 .. k : f[i] = f[i - 1] + s[i]}
           T == {k \in 0 .. n : Upto(k) = {}}
<1>1. n \in Nat /\ \A i \in 1 .. n : s[i] \in Int
  BY Members
<1> SUFFICES Upto(n) # {}
  BY DEF Sums
<1> HIDE DEF n
<1>2. T = {}
  <2> SUFFICES ASSUME T # {} PROVE FALSE
    OBVIOUS
  <2>0. T \subseteq Nat
    BY <1>1
  <2> HIDE DEF T
  <2>1. PICK k \in T : \A m \in T : k <= m
    BY <2>0, LeastMember, Zenon
  <2> USE DEF T
  <2>2. CASE k = 0
    <3>1. [i \in 0 .. 0 |-> 0] \in Upto(0)
      OBVIOUS
    <3> QED BY <2>2, <3>1
  <2>3. CASE k # 0
    <3>1. k \in 1 .. n /\ k - 1 \in 0 .. n /\ ~(k <= k - 1)
      BY <1>1, <2>3
    <3>2. k - 1 \notin T
      BY <2>1, <3>1
    <3>3. PICK f : f \in Upto(k - 1)
      BY <3>1, <3>2
    <3>4. f \in [0 .. k - 1 -> Int] /\ f[0] = 0
          /\ \A i \in 1 .. k - 1 : f[i] = f[i - 1] + s[i]
      BY <3>3
    <3> DEFINE g == [i \in 0 .. k |-> IF i = k THEN f[k - 1] + s[k] ELSE f[i]]
    <3>5. g \in [0 .. k -> Int] /\ g[0] = 0
      BY <1>1, <3>1, <3>4
    <3>6. ASSUME NEW i \in 1 .. k PROVE g[i] = g[i - 1] + s[i]
      <4>1. CASE i = k
        BY <1>1, <3>1, <3>4, <4>1
      <4>2. CASE i # k
        <5>1. i \in 1 .. k - 1 /\ i \in 0 .. k /\ i - 1 \in 0 .. k /\ i - 1 # k
          BY <1>1, <3>1, <4>2
        <5> QED BY <3>4, <4>2, <5>1
      <4> QED BY <4>1, <4>2
    <3>7. g \in Upto(k)
      BY <3>5, <3>6
    <3> QED BY <2>1, <3>7
  <2> QED BY <2>2, <2>3
<1>3. n \in 0 .. n
  BY <1>1
<1> QED BY <1>2, <1>3

LEMMA TotalIs ==
    ASSUME NEW s \in Seq(Int), NEW f, Sums(f, s)
    PROVE  Total(s) = f[Len(s)] /\ Total(s) \in Int
<1> DEFINE n == Len(s)
           G(g) == g = [i \in 0 .. n |-> IF i = 0 THEN 0 ELSE g[i - 1] + s[i]]
           sum == CHOOSE g : G(g)
<1>1. n \in Nat /\ \A i \in 1 .. n : s[i] \in Int
  BY Members
<1>2. /\ f \in [0 .. n -> Int] /\ f[0] = 0
      /\ \A i \in 1 .. n : f[i] = f[i - 1] + s[i]
  BY DEF Sums
<1>3. Total(s) = sum[n]
  BY DEF Total
<1> HIDE DEF n
<1>4. G(f)
  <2> DEFINE h == [i \in 0 .. n |-> IF i = 0 THEN 0 ELSE f[i - 1] + s[i]]
  <2>1. \A i \in 0 .. n : h[i] = f[i]
    BY <1>1, <1>2
  <2> QED BY <1>2, <2>1
<1>5. G(sum)
  BY <1>4
<1> HIDE DEF sum
<1> DEFINE T == {i \in 0 .. n : sum[i] # f[i]}
<1>6. T = {}
  <2> SUFFICES ASSUME T # {} PROVE FALSE
    OBVIOUS
  <2>0. T \subseteq Nat
    BY <1>1
  <2> HIDE DEF T
  <2>1. PICK k \in T : \A m \in T : k <= m
    BY <2>0, LeastMember, Zenon
  <2> USE DEF T
  <2>2. CASE k = 0
    <3>1. sum[0] = 0
      BY <1>1, <1>5
    <3> QED BY <1>2, <2>1, <2>2, <3>1
  <2>3. CASE k # 0
    <3>1. k \in 1 .. n /\ k - 1 \in 0 .. n /\ ~(k <= k - 1)
      BY <1>1, <2>3
    <3>2. sum[k - 1] = f[k - 1]
      BY <2>1, <3>1
    <3>3. sum[k] = sum[k - 1] + s[k]
      BY <1>5, <3>1
    <3>4. f[k] = f[k - 1] + s[k]
      BY <1>2, <3>1
    <3> QED BY <2>1, <3>2, <3>3, <3>4
  <2> QED BY <2>2, <2>3
<1>7. n \in 0 .. n /\ f[n] \in Int
  BY <1>1, <1>2
<1> QED BY <1>3, <1>6, <1>7 DEF n

(* The total with a term put before, and with one moved to the front.      *)
LEMMA TotalPrepended ==
    ASSUME NEW s \in Seq(Int), NEW t \in Seq(Int), NEW x \in Int,
           Len(t) = Len(s) + 1, t[1] = x, \A i \in 1 .. Len(s) : t[i + 1] = s[i]
    PROVE  Total(t) = x + Total(s) /\ Total(s) \in Int
<1> DEFINE n == Len(s)
<1>1. n \in Nat /\ \A i \in 1 .. n : s[i] \in Int
  BY Members
<1>2. PICK f : Sums(f, s)
  BY SumsExist
<1>3. Total(s) = f[n] /\ Total(s) \in Int
  BY <1>2, TotalIs
<1>4. /\ f \in [0 .. n -> Int] /\ f[0] = 0
      /\ \A i \in 1 .. n : f[i] = f[i - 1] + s[i]
  BY <1>2 DEF Sums
<1> DEFINE g == [i \in 0 .. n + 1 |-> IF i = 0 THEN 0 ELSE x + f[i - 1]]
<1> HIDE DEF n
<1>5. g \in [0 .. n + 1 -> Int] /\ g[0] = 0 /\ g[n + 1] = x + f[n]
  BY <1>1, <1>4
<1>6. ASSUME NEW i \in 1 .. n + 1 PROVE g[i] = g[i - 1] + t[i]
  <2>1. CASE i = 1
    <3>1. g[1] = x + f[0] /\ g[0] = 0
      BY <1>1
    <3> QED BY <1>4, <2>1, <3>1
  <2>2. CASE i # 1
    <3>1. /\ i - 1 \in 1 .. n /\ i - 1 - 1 \in 0 .. n /\ i - 1 # 0
          /\ i - 1 \in 0 .. n + 1 /\ i \in 0 .. n + 1 /\ i # 0 /\ i - 1 + 1 = i
      BY <1>1, <2>2
    <3>2. f[i - 1] = f[i - 1 - 1] + s[i - 1] /\ t[i] = s[i - 1]
      BY <1>4, <3>1 DEF n
    <3>3. g[i] = x + f[i - 1] /\ g[i - 1] = x + f[i - 1 - 1]
      BY <3>1
    <3>4. f[i - 1 - 1] \in Int /\ s[i - 1] \in Int
      BY <1>1, <1>4, <3>1
    <3> QED BY <3>2, <3>3, <3>4
  <2> QED BY <2>1, <2>2
<1>7. Sums(g, t)
  BY <1>5, <1>6 DEF Sums, n
<1>8. Total(t) = g[n + 1]
  BY <1>7, TotalIs DEF n
<1> QED BY <1>3, <1>5, <1>8

LEMMA TotalMoved ==
    ASSUME NEW s \in Seq(Int), NEW t \in Seq(Int), NEW p \in 1 .. Len(s),
           Len(t) = Len(s),
           \A i \in 1 .. Len(s) :
               t[i] = IF i = 1 THEN s[p] ELSE IF i <= p THEN s[i - 1] ELSE s[i]
    PROVE  Total(t) = Total(s)
<1> DEFINE n == Len(s)
<1>1. n \in Nat /\ \A i \in 1 .. n : s[i] \in Int
  BY Members
<1>2. PICK f : Sums(f, s)
  BY SumsExist
<1>3. Total(s) = f[n]
  BY <1>2, TotalIs
<1>4. /\ f \in [0 .. n -> Int] /\ f[0] = 0
      /\ \A i \in 1 .. n : f[i] = f[i - 1] + s[i]
  BY <1>2 DEF Sums
<1> DEFINE g == [i \in 0 .. n |->
                    IF i = 0 THEN 0 ELSE IF i <= p THEN s[p] + f[i - 1] ELSE f[i]]
<1> HIDE DEF n
<1>5. p \in 1 .. n
  BY DEF n
<1>6. f[p] = f[p - 1] + s[p] /\ f[p - 1] \in Int /\ s[p] \in Int
  BY <1>1, <1>4, <1>5
<1>7. g \in [0 .. n -> Int] /\ g[0] = 0
  <2>1. ASSUME NEW i \in 0 .. n, i # 0 PROVE f[i] \in Int /\ s[p] + f[i - 1] \in Int
    <3>1. i - 1 \in 0 .. n
      BY <1>1, <2>1
    <3>2. f[i] \in Int /\ f[i - 1] \in Int
      BY <1>4, <3>1
    <3> HIDE DEF g
    <3> QED BY <1>6, <3>2
  <2>2. \A i \in 0 .. n : g[i] \in Int
    BY <2>1
  <2>3. 0 \in 0 .. n
    BY <1>1
  <2> QED BY <2>2, <2>3
<1>8. g[n] = f[n]
  BY <1>1, <1>5, <1>6
<1>9. ASSUME NEW i \in 1 .. n PROVE g[i] = g[i - 1] + t[i]
  <2>1. i \in 0 .. n /\ i - 1 \in 0 .. n /\ i # 0
    BY <1>1
  <2>2. CASE i = 1
    <3>1. t[i] = s[p] /\ g[1] = s[p] + f[0] /\ g[0] = 0
      BY <1>1, <1>5, <2>2 DEF n
    <3> QED BY <1>4, <1>6, <2>2, <3>1
  <2>3. CASE i # 1 /\ i <= p
    <3>1. /\ i - 1 \in 1 .. n /\ i - 1 - 1 \in 0 .. n /\ i - 1 # 0 /\ i - 1 <= p
      BY <1>1, <2>3
    <3>2. t[i] = s[i - 1]
      BY <2>3 DEF n
    <3>3. g[i] = s[p] + f[i - 1] /\ g[i - 1] = s[p] + f[i - 1 - 1]
      BY <2>1, <2>3, <3>1
    <3>4. f[i - 1] = f[i - 1 - 1] + s[i - 1] /\ f[i - 1 - 1] \in Int /\ s[i - 1] \in Int
      BY <1>1, <1>4, <3>1
    <3> QED BY <1>6, <3>2, <3>3, <3>4
  <2>4. CASE i = p + 1
    <3>1. t[i] = s[i]
      BY <1>5, <2>4 DEF n
    <3>2. g[i] = f[i] /\ g[i - 1] = s[p] + f[p - 1]
      BY <1>1, <1>5, <2>1, <2>4
    <3>3. f[i] = f[i - 1] + s[i] /\ f[i - 1] = f[p]
      BY <1>4, <1>5, <2>4
    <3> QED BY <1>6, <3>1, <3>2, <3>3
  <2>5. CASE i > p + 1
    <3>1. t[i] = s[i]
      BY <1>5, <2>5 DEF n
    <3>2. i - 1 # 0 /\ ~(i - 1 <= p) /\ ~(i <= p)
      BY <1>5, <2>5
    <3>3. g[i] = f[i] /\ g[i - 1] = f[i - 1]
      BY <2>1, <3>2
    <3> QED BY <1>4, <3>1, <3>3
  <2> QED BY <1>5, <2>2, <2>3, <2>4, <2>5
<1>10. Sums(g, t)
  BY <1>7, <1>9 DEF Sums, n
<1>11. Total(t) = g[n]
  BY <1>10, TotalIs DEF n
<1> QED BY <1>3, <1>8, <1>11

(* A total with one term removed.                                          *)
LEMMA TotalRemoved ==
    ASSUME NEW s \in Seq(Int), NEW r \in Seq(Int), NEW p \in 1 .. Len(s),
           Len(r) = Len(s) - 1,
           \A i \in 1 .. Len(s) - 1 : r[i] = IF i < p THEN s[i] ELSE s[i + 1]
    PROVE  Total(s) = s[p] + Total(r) /\ Total(r) \in Int
<1> DEFINE n == Len(s)
           t == [i \in 1 .. n |-> IF i = 1 THEN s[p] ELSE IF i <= p THEN s[i - 1] ELSE s[i]]
<1>1. n \in Nat /\ \A i \in 1 .. n : s[i] \in Int
  BY Members
<1> HIDE DEF n
<1>2. p \in 1 .. n /\ s[p] \in Int
  BY <1>1 DEF n
<1>3. \A i \in 1 .. n : i # 1 => i - 1 \in 1 .. n
  BY <1>1
<1>4. t \in [1 .. n -> Int]
  BY <1>1, <1>2, <1>3
<1>5. /\ t \in Seq(Int) /\ Len(t) = n
      /\ \A i \in 1 .. n :
             t[i] = IF i = 1 THEN s[p] ELSE IF i <= p THEN s[i - 1] ELSE s[i]
  BY <1>1, <1>4, IsASeq, LenProperties
<1> HIDE DEF t
<1>6. Total(t) = Total(s)
  BY <1>2, <1>5, TotalMoved DEF n
<1>7. t[1] = s[p]
  BY <1>1, <1>2, <1>5
<1>8. ASSUME NEW i \in 1 .. n - 1 PROVE t[i + 1] = r[i]
  <2>1. i + 1 \in 1 .. n /\ i + 1 # 1 /\ i + 1 - 1 = i /\ (i + 1 <= p <=> i < p)
    BY <1>1, <1>2
  <2>2. t[i + 1] = IF i < p THEN s[i] ELSE s[i + 1]
    BY <1>5, <2>1
  <2> QED BY <2>2 DEF n
<1>9. Len(t) = Len(r) + 1 /\ \A i \in 1 .. Len(r) : t[i + 1] = r[i]
  BY <1>1, <1>5, <1>8 DEF n
<1> QED BY <1>2, <1>5, <1>6, <1>7, <1>9, TotalPrepended

(* A total of lengths is not negative.                                     *)
LEMMA TotalNat ==
    ASSUME NEW s \in Seq(Int), \A i \in 1 .. Len(s) : s[i] >= 0
    PROVE  Total(s) \in Nat
<1> DEFINE n == Len(s)
<1>1. n \in Nat /\ \A i \in 1 .. n : s[i] \in Int
  BY Members
<1>2. PICK f : Sums(f, s)
  BY SumsExist
<1>3. Total(s) = f[n]
  BY <1>2, TotalIs
<1>4. /\ f \in [0 .. n -> Int] /\ f[0] = 0
      /\ \A i \in 1 .. n : f[i] = f[i - 1] + s[i]
  BY <1>2 DEF Sums
<1> DEFINE T == {i \in 0 .. n : f[i] < 0}
<1>5. \A i \in 1 .. n : s[i] >= 0
  OBVIOUS
<1> HIDE DEF n
<1>6. T = {}
  <2> SUFFICES ASSUME T # {} PROVE FALSE
    OBVIOUS
  <2>0. T \subseteq Nat
    BY <1>1
  <2> HIDE DEF T
  <2>1. PICK k \in T : \A m \in T : k <= m
    BY <2>0, LeastMember, Zenon
  <2> USE DEF T
  <2>2. k # 0
    BY <1>4, <2>1
  <2>3. k \in 1 .. n /\ k - 1 \in 0 .. n /\ ~(k <= k - 1)
    BY <1>1, <2>2
  <2>4. f[k - 1] \in Int /\ ~(f[k - 1] < 0)
    BY <1>4, <2>1, <2>3
  <2>5. f[k] = f[k - 1] + s[k] /\ s[k] \in Int /\ s[k] >= 0 /\ f[k] < 0
    BY <1>1, <1>4, <1>5, <2>1, <2>3
  <2> QED BY <2>4, <2>5
<1>7. n \in 0 .. n /\ f[n] \in Int
  BY <1>1, <1>4
<1> QED BY <1>3, <1>6, <1>7

(* Subtraction modulo m, from a difference already taken modulo m.         *)
LEMMA ModMinus ==
    ASSUME NEW a \in Int, NEW b \in Int, NEW m \in Nat, m > 0
    PROVE  ((a % m) - b) % m = (a - b) % m
<1> DEFINE r == a % m
           q == a \div m
           x == r - b
           y == a - b
           u == x \div m
           v == y \div m
<1>1. r \in 0 .. m - 1 /\ q \in Int /\ a = m * q + r
  OBVIOUS
<1>2. x \in Int /\ y \in Int
  BY <1>1
<1> HIDE DEF r, q
<1>3. y = m * q + x
  BY <1>1
<1> HIDE DEF x, y
<1>4. x % m \in 0 .. m - 1 /\ u \in Int /\ x = m * u + (x % m)
  BY <1>2
<1>5. y % m \in 0 .. m - 1 /\ v \in Int /\ y = m * v + (y % m)
  BY <1>2
<1> DEFINE c == x % m
           d == y % m
           k == v - u - q
<1> HIDE DEF u, v, c, d
<1>6. m * k = c - d
  BY <1>1, <1>3, <1>4, <1>5 DEF c, d
<1>7. k \in Int /\ c - d < m /\ c - d > -m /\ c - d \in Int
  BY <1>1, <1>4, <1>5 DEF c, d
<1> HIDE DEF k
<1>8. CASE k >= 1
  <2>1. m * k >= m
    BY <1>7, <1>8
  <2> QED BY <1>6, <1>7, <2>1
<1>9. CASE k <= -1
  <2>1. m * k <= -m
    BY <1>7, <1>9
  <2> QED BY <1>6, <1>7, <2>1
<1>10. CASE k = 0
  <2>1. c - d = 0
    BY <1>6, <1>10
  <2> QED BY <2>1, <1>4, <1>5 DEF c, d, x, y, r
<1> QED BY <1>7, <1>8, <1>9, <1>10

-----------------------------------------------------------------------------
(* What find_cache_node returns.                                           *)
LEMMA LookupFinds ==
    ASSUME list \in Seq(Nodes), NEW f
    PROVE  \/ Lookup(f) = NoNode
           \/ Lookup(f) \in Range(list) /\ node[Lookup(f)].file = f
<1> DEFINE hits == {i \in DOMAIN list : node[list[i]].file = f}
           m == Min(hits)
<1>1. CASE hits = {}
  BY <1>1 DEF Lookup
<1>2. CASE hits # {}
  <2>1. hits \subseteq Nat
    BY Members
  <2>2. \E x \in hits : \A y \in hits : x <= y
    <3> HIDE DEF hits
    <3> QED BY <1>2, <2>1, LeastMember, Zenon
  <2>3. m \in hits
    BY <2>2 DEF Min
  <2>4. Lookup(f) = list[m]
    BY <1>2 DEF Lookup
  <2>5. list[m] \in Range(list) /\ node[list[m]].file = f
    BY <2>3 DEF Range
  <2> QED BY <2>4, <2>5
<1> QED BY <1>1, <1>2

LEMMA TypeInit == Init => TypeOK
<1> SUFFICES ASSUME Init PROVE TypeOK
  OBVIOUS
<1>1. << >> \in Seq(Fds) /\ Len(<< >>) = 0 /\ << >> \in Seq(Nodes)
  OBVIOUS
<1>2. /\ queue = << >> /\ offered \in [{Main} -> Fds \cup {None}]
      /\ taken \in [Workers -> Fds \cup {None}]
      /\ reading = {} /\ writing = {}
  BY DEF Init, Fifo!FifoInit, RW!RWInit
<1>3. remain \in 0 .. SizeMod - 1 /\ 0 <= SbufSize
  BY ConstAssumption DEF Init
<1>4. node \in [Nodes -> [file : Files \cup {None}, len : Lens \cup {0}]]
  BY DEF Init
<1>5. pc \in [Workers -> PC]
  BY DEF Init, PC
<1>6. /\ list = << >> /\ live = {} /\ fault = "none" /\ evicted = FALSE /\ raced = FALSE
      /\ file \in [Workers -> Files \cup {None}]
      /\ ptr \in [Workers -> Nodes \cup {NoNode}]
      /\ len \in [Workers -> Lens \cup {0}]
      /\ reply \in [Workers -> Files \cup {None}]
  BY DEF Init
<1> QED BY <1>1, <1>2, <1>3, <1>4, <1>5, <1>6 DEF TypeOK

(* What add_first and remove_node make of the budget is a size_t.          *)
LEMMA ChargedType ==
    ASSUME TypeOK, NEW n \in Nodes
    PROVE  /\ remain \in Int /\ node[n].len \in Nat /\ Charged(n) \in 0 .. SizeMod - 1
           /\ (remain + node[n].len) % SizeMod \in 0 .. SizeMod - 1
<1>1. node[n] \in [file : Files \cup {None}, len : Lens \cup {0}]
      /\ remain \in 0 .. SizeMod - 1
  BY DEF TypeOK
<1>2. SizeMod \in Nat /\ SizeMod > 0 /\ Lens \subseteq Nat
  BY ConstAssumption
<1>3. node[n].len \in Lens \cup {0}
  BY <1>1
<1>4. node[n].len \in Nat
  <2>1. \A x : x \in Lens \cup {0} => x \in Nat
    BY <1>2
  <2> QED BY <1>3, <2>1
<1>5. remain \in Int
  BY <1>1, <1>2
<1> QED BY <1>2, <1>4, <1>5 DEF Charged

LEMMA TypeNext == IInv /\ Next => TypeOK'
<1> SUFFICES ASSUME IInv, Next PROVE TypeOK'
  OBVIOUS
<1> USE ConstAssumption DEF TypeOK, fifo, lock, cache, local
<1>0. TypeOK
  BY DEF IInv
<1>1. CASE \E fd \in Fds : Accept(fd)
  BY <1>0, <1>1 DEF Accept, Fifo!Offer
<1>2. CASE Enqueue
  <2>1. offered[Main] \in Fds /\ queue \in Seq(Fds)
    BY <1>0, <1>2 DEF Enqueue, Fifo!Put
  <2>2. /\ Append(queue, offered[Main]) \in Seq(Fds)
        /\ Len(Append(queue, offered[Main])) = Len(queue) + 1
    BY <2>1, AppendProperties
  <2>3. Len(queue) \in Nat
    BY <2>1, LenProperties
  <2> QED BY <1>0, <1>2, <2>2, <2>3 DEF Enqueue, Fifo!Put
<1>3. ASSUME NEW w \in Workers, Work(w) PROVE TypeOK'
  <2> USE DEF Step, PC
  <2>1. CASE Dequeue(w)
    <3>1. /\ Head(queue) \in Fds /\ Tail(queue) \in Seq(Fds)
          /\ Len(Tail(queue)) = Len(queue) - 1 /\ Len(queue) \in Nat
      BY <1>0, <2>1, HeadTailProperties, LenProperties DEF Dequeue, Fifo!Take
    <3>2. queue' \in Seq(Fds) /\ Len(queue') <= SbufSize
      BY <1>0, <2>1, <3>1 DEF Dequeue, Fifo!Take
    <3>3. taken' \in [Workers -> Fds \cup {None}] /\ offered' = offered
      BY <1>0, <2>1, <3>1 DEF Dequeue, Fifo!Take
    <3>4. pc' \in [Workers -> PC]
      BY <1>0, <2>1 DEF Dequeue
    <3>5. /\ reading' = reading /\ writing' = writing /\ list' = list
          /\ remain' = remain /\ live' = live /\ node' = node /\ file' = file
          /\ ptr' = ptr /\ len' = len /\ reply' = reply
          /\ fault' = fault /\ evicted' = evicted /\ raced' = raced
      BY <2>1 DEF Dequeue
    <3> HIDE DEF PC
    <3> QED BY <1>0, <3>2, <3>3, <3>4, <3>5
  <2>2. CASE EnterFind(w)
    BY <1>0, <2>2 DEF EnterFind, RW!StartRead
  <2>3. CASE LeaveFind(w)
    <3>1. Lookup(file[w]) \in Nodes \cup {NoNode}
      <4>1. Range(list) \subseteq Nodes
        BY <1>0, RangeOfSeq
      <4> QED BY <1>0, <4>1, LookupFinds
    <3> QED BY <1>0, <2>3, <3>1 DEF LeaveFind, RW!EndRead
  <2>4. CASE Allocate(w)
    BY <1>0, <2>4 DEF Allocate
  <2>16. CASE AllocateNone(w)
    BY <1>0, <2>16 DEF AllocateNone
  <2>5. CASE EnterMove(w)
    BY <1>0, <2>5 DEF EnterMove, RW!StartWrite
  <2>6. CASE Unlink(w)
    <3>1. ptr[w] \in Nodes
      BY <1>0, <2>6, RangeOfSeq DEF Unlink
    <3>2. RemoveAt(list, Position(ptr[w])) \in Seq(Nodes)
      BY <1>0, <2>6, RemovedNode DEF Unlink, IInv, ListInv
    <3>3. (remain + node[ptr[w]].len) % SizeMod \in 0 .. SizeMod - 1
      BY <1>0, <3>1, ChargedType
    <3> QED BY <1>0, <2>6, <3>2, <3>3 DEF Unlink
  <2>14. CASE MoveNothing(w)
    BY <1>0, <2>14 DEF MoveNothing, ReleaseW, RW!EndWrite
  <2>15. CASE Relink(w)
    <3>1. ptr[w] \in Nodes
      BY <1>0, <2>15 DEF Relink, IInv, ListInv, Unlinked
    <3>2. <<ptr[w]>> \o list \in Seq(Nodes)
      BY <1>0, <3>1, Prepended
    <3>3. Charged(ptr[w]) \in 0 .. SizeMod - 1
      BY <1>0, <3>1, ChargedType
    <3> QED BY <1>0, <2>15, <3>2, <3>3 DEF Relink, ReleaseW, RW!EndWrite
  <2>7. CASE CheckRoom(w)
    BY <1>0, <2>7 DEF CheckRoom
  <2>8. CASE EnterEvict(w)
    BY <1>0, <2>8 DEF EnterEvict, RW!StartWrite
  <2>9. CASE LeaveEvict(w)
    <3>1. Front(list) \in Seq(Nodes)
      BY <1>0, <2>9, WithoutLast DEF LeaveEvict
    <3>2. node' \in [Nodes -> [file : Files \cup {None}, len : Lens \cup {0}]]
      BY <1>0, <2>9 DEF LeaveEvict
    <3> QED BY <1>0, <2>9, <3>1, <3>2 DEF LeaveEvict, ReleaseW, RW!EndWrite
  <2>10. CASE EvictFromEmpty(w)
    BY <1>0, <2>10 DEF EvictFromEmpty
  <2>11. CASE EnterAdd(w)
    BY <1>0, <2>11 DEF EnterAdd, RW!StartWrite
  <2>12. CASE LeaveAdd(w)
    <3>1. ptr[w] \in Nodes
      BY <1>0, <2>12 DEF LeaveAdd, IInv, ListInv, Unlinked, Private
    <3>2. <<ptr[w]>> \o list \in Seq(Nodes)
      BY <1>0, <3>1, Prepended
    <3>3. Charged(ptr[w]) \in 0 .. SizeMod - 1
      BY <1>0, <3>1, ChargedType
    <3> QED BY <1>0, <2>12, <3>2, <3>3 DEF LeaveAdd, ReleaseW, RW!EndWrite
  <2>13. CASE Close(w)
    BY <1>0, <2>13 DEF Close, Fifo!Finish
  <2> QED BY <1>3, <2>1, <2>2, <2>3, <2>4, <2>5, <2>6, <2>7, <2>8, <2>9, <2>10,
             <2>11, <2>12, <2>13, <2>14, <2>15, <2>16 DEF Work
<1>4. ASSUME NEW w \in Workers, Peer(w) PROVE TypeOK'
  <2> USE DEF Step, PC
  <2>1. CASE RefuseRequest(w)
    BY <1>0, <2>1 DEF RefuseRequest
  <2>2. CASE ReadOk(w)
    BY <1>0, <2>2 DEF ReadOk
  <2>3. CASE ReadError(w)
    BY <1>0, <2>3 DEF ReadError
  <2>4. CASE Bypass(w)
    BY <1>0, <2>4 DEF Bypass
  <2>5. CASE ReadBody(w)
    BY <1>0, <2>5 DEF ReadBody
  <2>6. CASE \E f \in Files : ReadRequest(w, f)
    BY <1>0, <2>6 DEF ReadRequest
  <2>7. CASE WriteHeader(w) \/ WriteBody(w)
    <3>1. ptr[w] \in live => node[ptr[w]].file \in Files \cup {None}
      BY <1>0
    <3>2. CASE SendNode(w)
      BY <1>0, <2>7, <3>1, <3>2 DEF WriteHeader, WriteBody, SendNode
    <3>3. CASE WriteBody(w) /\ Overread(w) /\ fault' = "body overread" /\ UNCHANGED reply
      BY <1>0, <3>3 DEF WriteBody
    <3> QED BY <2>7, <3>2, <3>3 DEF WriteHeader, WriteBody
  <2> QED BY <1>4, <2>1, <2>2, <2>3, <2>4, <2>5, <2>6, <2>7 DEF Peer
<1>5. CASE Stopped
  BY <1>0, <1>5 DEF Stopped, vars
<1> QED BY <1>1, <1>2, <1>3, <1>4, <1>5 DEF Next
-----------------------------------------------------------------------------
(* What the steps leave alone.  The main thread changes the buffer only... *)
LEMMA MainOrWorker ==
    ASSUME Next
    PROVE  \/ UNCHANGED <<cache, local, pc, fault>>
           \/ \E w \in Workers : Work(w) \/ Peer(w)
<1>1. CASE \E fd \in Fds : Accept(fd)
  BY <1>1 DEF Accept
<1>2. CASE Enqueue
  BY <1>2 DEF Enqueue
<1>3. CASE Stopped
  BY <1>3 DEF Stopped, vars
<1> QED BY <1>1, <1>2, <1>3 DEF Next

(* ... a worker its own locals only...                                     *)
LEMMA OthersUntouched ==
    ASSUME TypeOK, NEW w \in Workers, Work(w) \/ Peer(w),
           NEW v \in Workers, v # w
    PROVE  /\ pc'[v] = pc[v] /\ file'[v] = file[v] /\ ptr'[v] = ptr[v]
           /\ len'[v] = len[v] /\ reply'[v] = reply[v]
<1>1. /\ pc \in [Workers -> PC]
      /\ file \in [Workers -> Files \cup {None}]
      /\ ptr \in [Workers -> Nodes \cup {NoNode}]
      /\ len \in [Workers -> Lens \cup {0}]
      /\ reply \in [Workers -> Files \cup {None}]
  BY DEF TypeOK
<1> USE DEF Step, local, cache, lock, fifo
<1>2. CASE Dequeue(w)
  BY <1>1, <1>2 DEF Dequeue
<1>3. CASE EnterFind(w)
  BY <1>1, <1>3 DEF EnterFind
<1>4. CASE LeaveFind(w)
  BY <1>1, <1>4 DEF LeaveFind
<1>5. CASE WriteHeader(w) \/ WriteBody(w)
  BY <1>1, <1>5 DEF WriteHeader, WriteBody, SendNode
<1>6. CASE EnterMove(w) \/ Unlink(w) \/ MoveNothing(w) \/ Relink(w)
  BY <1>1, <1>6 DEF EnterMove, Unlink, MoveNothing, Relink
<1>7. CASE CheckRoom(w) \/ EnterEvict(w) \/ LeaveEvict(w) \/ EvictFromEmpty(w)
  BY <1>1, <1>7 DEF CheckRoom, EnterEvict, LeaveEvict, EvictFromEmpty
<1>8. CASE EnterAdd(w) \/ LeaveAdd(w)
  BY <1>1, <1>8 DEF EnterAdd, LeaveAdd
<1>9. CASE Close(w)
  BY <1>1, <1>9 DEF Close
<1>10. CASE RefuseRequest(w) \/ ReadOk(w) \/ ReadError(w)
  BY <1>1, <1>10 DEF RefuseRequest, ReadOk, ReadError
<1>11. CASE Bypass(w) \/ ReadBody(w)
  BY <1>1, <1>11 DEF Bypass, ReadBody
<1>12. CASE Allocate(w) \/ AllocateNone(w)
  BY <1>1, <1>12 DEF Allocate, AllocateNone
<1>13. CASE \E f \in Files : ReadRequest(w, f)
  BY <1>1, <1>13 DEF ReadRequest
<1> QED BY <1>2, <1>3, <1>4, <1>5, <1>6, <1>7, <1>8, <1>9, <1>10, <1>11, <1>12,
           <1>13 DEF Work, Peer

(* ... and the cache in seven of its steps only.                           *)
LEMMA CacheUntouched ==
    ASSUME NEW w \in Workers, Work(w) \/ Peer(w), ~CheckRoom(w),
           ~Unlink(w), ~Relink(w), ~LeaveEvict(w), ~LeaveAdd(w), ~Allocate(w)
    PROVE  UNCHANGED cache
<1>1. CASE Dequeue(w) \/ EnterFind(w) \/ LeaveFind(w) \/ Close(w)
  BY <1>1 DEF Dequeue, EnterFind, LeaveFind, Close
<1>2. CASE EnterMove(w) \/ MoveNothing(w) \/ EnterEvict(w) \/ EvictFromEmpty(w)
             \/ EnterAdd(w) \/ AllocateNone(w)
  BY <1>2 DEF EnterMove, MoveNothing, EnterEvict, EvictFromEmpty, EnterAdd, AllocateNone
<1>3. CASE Peer(w)
  BY <1>3 DEF Peer, RefuseRequest, ReadOk, ReadError, Bypass, ReadBody, WriteHeader,
              WriteBody, ReadRequest
<1> QED BY <1>1, <1>2, <1>3 DEF Work

(* ... of which the check of the room only notes a race.                   *)
LEMMA CheckRoomChanges ==
    ASSUME NEW w \in Workers, CheckRoom(w)
    PROVE  UNCHANGED <<list, remain, live, node, evicted>>
BY DEF CheckRoom

(* A node becomes some worker's private node when that worker allocates it *)
(* and at no other time, and it stays the same node, for the same request. *)
LEMMA PrivateFromAllocate ==
    ASSUME TypeOK, NEW w \in Workers, Work(w) \/ Peer(w), ~Allocate(w),
           NEW v \in Workers, Private(v)'
    PROVE  Private(v) /\ ptr'[v] = ptr[v] /\ file'[v] = file[v] /\ len'[v] = len[v]
<1>1. CASE v # w
  BY <1>1, OthersUntouched DEF Private
<1>2. CASE v = w
  <2>1. /\ pc \in [Workers -> PC]
        /\ pc'[w] \in {"body", "room", "evict", "evicting", "add", "adding"}
    BY <1>2 DEF TypeOK, Private
  <2> USE DEF Step, local, cache
  <2>2. CASE Dequeue(w)
    BY <2>1, <2>2 DEF Dequeue
  <2>3. CASE EnterFind(w)
    BY <2>1, <2>3 DEF EnterFind
  <2>4. CASE LeaveFind(w)
    BY <2>1, <2>4 DEF LeaveFind
  <2>5. CASE WriteHeader(w) \/ WriteBody(w)
    BY <2>1, <2>5 DEF WriteHeader, WriteBody, SendNode
  <2>6. CASE EnterMove(w) \/ Unlink(w) \/ MoveNothing(w) \/ Relink(w)
    BY <2>1, <2>6 DEF EnterMove, Unlink, MoveNothing, Relink
  <2>7. CASE CheckRoom(w) \/ EnterEvict(w) \/ LeaveEvict(w) \/ EvictFromEmpty(w)
    BY <1>2, <2>1, <2>7 DEF CheckRoom, EnterEvict, LeaveEvict, EvictFromEmpty, Private
  <2>8. CASE EnterAdd(w) \/ LeaveAdd(w)
    BY <1>2, <2>1, <2>8 DEF EnterAdd, LeaveAdd, Private
  <2>9. CASE Close(w)
    BY <2>1, <2>9 DEF Close
  <2>10. CASE RefuseRequest(w) \/ ReadOk(w) \/ ReadError(w) \/ Bypass(w)
    BY <2>1, <2>10 DEF RefuseRequest, ReadOk, ReadError, Bypass
  <2>12. CASE ReadBody(w) \/ AllocateNone(w)
    BY <1>2, <2>1, <2>12 DEF ReadBody, AllocateNone, Private
  <2>11. CASE \E f \in Files : ReadRequest(w, f)
    BY <2>1, <2>11 DEF ReadRequest
  <2> QED BY <2>2, <2>3, <2>4, <2>5, <2>6, <2>7, <2>8, <2>9, <2>10, <2>11, <2>12
          DEF Work, Peer
<1> QED BY <1>1, <1>2

(* A node is out of the list from its allocation, or from remove_node.     *)
LEMMA UnlinkedFrom ==
    ASSUME TypeOK, NEW w \in Workers, Work(w) \/ Peer(w), ~Allocate(w), ~Unlink(w),
           NEW v \in Workers, Unlinked(v)'
    PROVE  Unlinked(v) /\ ptr'[v] = ptr[v]
<1>1. CASE Private(v)'
  BY <1>1, PrivateFromAllocate DEF Unlinked
<1>2. CASE pc'[v] = "moved" /\ v # w
  BY <1>2, OthersUntouched DEF Unlinked
<1>3. CASE pc'[v] = "moved" /\ v = w
  <2>1. pc \in [Workers -> PC] /\ pc'[w] = "moved"
    BY <1>3 DEF TypeOK
  <2> USE DEF Step, local
  <2>2. CASE Dequeue(w) \/ EnterFind(w) \/ LeaveFind(w)
    BY <2>1, <2>2 DEF Dequeue, EnterFind, LeaveFind
  <2>3. CASE WriteHeader(w) \/ WriteBody(w) \/ ReadBody(w)
    BY <2>1, <2>3 DEF WriteHeader, WriteBody, ReadBody
  <2>4. CASE EnterMove(w) \/ MoveNothing(w) \/ Relink(w)
    BY <2>1, <2>4 DEF EnterMove, MoveNothing, Relink
  <2>5. CASE CheckRoom(w) \/ EnterEvict(w) \/ LeaveEvict(w)
    BY <2>1, <2>5 DEF CheckRoom, EnterEvict, LeaveEvict
  <2>6. CASE EvictFromEmpty(w) \/ AllocateNone(w)
    BY <1>3, <2>6 DEF EvictFromEmpty, AllocateNone, Unlinked
  <2>7. CASE EnterAdd(w) \/ LeaveAdd(w) \/ Close(w)
    BY <2>1, <2>7 DEF EnterAdd, LeaveAdd, Close
  <2>8. CASE RefuseRequest(w) \/ ReadOk(w) \/ ReadError(w) \/ Bypass(w)
    BY <2>1, <2>8 DEF RefuseRequest, ReadOk, ReadError, Bypass
  <2>9. CASE \E f \in Files : ReadRequest(w, f)
    BY <2>1, <2>9 DEF ReadRequest
  <2> QED BY <2>2, <2>3, <2>4, <2>5, <2>6, <2>7, <2>8, <2>9 DEF Work, Peer
<1> QED BY <1>1, <1>2, <1>3 DEF Unlinked

(* The steps that take w, or give it back, begin or end an editor...       *)
EntersEdit(w) == EnterMove(w) \/ EnterEvict(w) \/ EnterAdd(w)
LeavesEdit(w) == MoveNothing(w) \/ Relink(w) \/ LeaveEvict(w) \/ LeaveAdd(w)

LEMMA EditorUntouched ==
    ASSUME TypeOK, NEW w \in Workers, Work(w) \/ Peer(w),
           ~EntersEdit(w), ~LeavesEdit(w)
    PROVE  writing' = writing /\ (Editing(w)' <=> Editing(w))
<1>1. pc \in [Workers -> PC]
  BY DEF TypeOK
<1> USE DEF Step, lock, Editing
<1>2. CASE Dequeue(w) \/ EnterFind(w) \/ LeaveFind(w) \/ Close(w)
  BY <1>1, <1>2 DEF Dequeue, EnterFind, LeaveFind, Close, RW!StartRead, RW!EndRead
<1>3. CASE Unlink(w)
  BY <1>1, <1>3 DEF Unlink
<1>4. CASE CheckRoom(w) \/ EvictFromEmpty(w)
  BY <1>1, <1>4 DEF CheckRoom, EvictFromEmpty
<1>5. CASE Allocate(w) \/ AllocateNone(w) \/ ReadBody(w)
  BY <1>1, <1>5 DEF Allocate, AllocateNone, ReadBody
<1>6. CASE WriteHeader(w) \/ WriteBody(w)
  BY <1>1, <1>6 DEF WriteHeader, WriteBody
<1>7. CASE RefuseRequest(w) \/ ReadOk(w) \/ ReadError(w) \/ Bypass(w)
  BY <1>1, <1>7 DEF RefuseRequest, ReadOk, ReadError, Bypass
<1>8. CASE \E f \in Files : ReadRequest(w, f)
  BY <1>1, <1>8 DEF ReadRequest
<1> QED BY <1>2, <1>3, <1>4, <1>5, <1>6, <1>7, <1>8
        DEF Work, Peer, EntersEdit, LeavesEdit

(* ... so that the cache's lock has the editors for its writers, and one   *)
(* of them at most.                                                        *)
LEMMA OneEditorNext == IInv /\ Next => OneEditor'
<1> SUFFICES ASSUME IInv, Next PROVE OneEditor'
  OBVIOUS
<1>1. /\ TypeOK /\ pc \in [Workers -> PC]
      /\ writing = {w \in Workers : Editing(w)}
      /\ \A v, w \in Workers : Editing(v) /\ Editing(w) => v = w
  BY DEF IInv, TypeOK, OneEditor
<1>2. CASE ~\E w \in Workers : Work(w) \/ Peer(w)
  <2>1. pc' = pc /\ writing' = writing
    BY <1>2 DEF Next, Accept, Enqueue, Stopped, vars, lock
  <2> QED BY <1>1, <2>1 DEF OneEditor, Editing
<1>3. ASSUME NEW w \in Workers, Work(w) \/ Peer(w) PROVE OneEditor'
  <2>1. \A v \in Workers : v # w => (Editing(v)' <=> Editing(v))
    BY <1>1, <1>3, OthersUntouched DEF Editing
  <2>2. CASE EntersEdit(w)
    <3>1. writing = {} /\ writing' = {w}
      BY <2>2 DEF EntersEdit, EnterMove, EnterEvict, EnterAdd, RW!StartWrite
    <3>2. Editing(w)'
      BY <1>1, <2>2 DEF EntersEdit, EnterMove, EnterEvict, EnterAdd, Step, Editing
    <3> QED BY <1>1, <2>1, <3>1, <3>2 DEF OneEditor
  <2>3. CASE LeavesEdit(w)
    <3>1. writing' = writing \ {w}
      BY <2>3 DEF LeavesEdit, MoveNothing, Relink, LeaveEvict, LeaveAdd, ReleaseW,
                  RW!EndWrite
    <3>2. ~Editing(w)'
      BY <1>1, <2>3 DEF LeavesEdit, MoveNothing, Relink, LeaveEvict, LeaveAdd, Step,
                        Editing
    <3> QED BY <1>1, <2>1, <3>1, <3>2 DEF OneEditor
  <2>4. CASE ~EntersEdit(w) /\ ~LeavesEdit(w)
    <3>1. writing' = writing /\ (Editing(w)' <=> Editing(w))
      BY <1>1, <1>3, <2>4, EditorUntouched
    <3> QED BY <1>1, <2>1, <3>1 DEF OneEditor
  <2> QED BY <2>2, <2>3, <2>4
<1> QED BY <1>2, <1>3
-----------------------------------------------------------------------------
(* Only its removal from the buffer and its close change a worker's hold   *)
(* on a descriptor, and only they take it from and to idle.                *)
LEMMA FifoUntouched ==
    ASSUME TypeOK, NEW w \in Workers, Work(w) \/ Peer(w), ~Dequeue(w), ~Close(w)
    PROVE  UNCHANGED fifo /\ (pc'[w] = "idle") = (pc[w] = "idle")
<1>1. pc \in [Workers -> PC]
  BY DEF TypeOK
<1> USE DEF Step
<1>2. CASE EnterFind(w) \/ LeaveFind(w)
  BY <1>1, <1>2 DEF EnterFind, LeaveFind
<1>3. CASE WriteHeader(w) \/ WriteBody(w) \/ ReadBody(w)
  BY <1>1, <1>3 DEF WriteHeader, WriteBody, ReadBody
<1>4. CASE EnterMove(w) \/ Unlink(w) \/ MoveNothing(w) \/ Relink(w)
  BY <1>1, <1>4 DEF EnterMove, Unlink, MoveNothing, Relink
<1>5. CASE CheckRoom(w) \/ EnterEvict(w) \/ LeaveEvict(w) \/ EvictFromEmpty(w)
  BY <1>1, <1>5 DEF CheckRoom, EnterEvict, LeaveEvict, EvictFromEmpty
<1>6. CASE EnterAdd(w) \/ LeaveAdd(w)
  BY <1>1, <1>6 DEF EnterAdd, LeaveAdd
<1>7. CASE RefuseRequest(w) \/ ReadOk(w) \/ ReadError(w) \/ Bypass(w)
  BY <1>1, <1>7 DEF RefuseRequest, ReadOk, ReadError, Bypass
<1>8. CASE Allocate(w) \/ AllocateNone(w) \/ \E f \in Files : ReadRequest(w, f)
  BY <1>1, <1>8 DEF Allocate, AllocateNone, ReadRequest
<1> QED BY <1>2, <1>3, <1>4, <1>5, <1>6, <1>7, <1>8 DEF Work, Peer

(* Every connection stays in one place.                                    *)
LEMMA OneOwnerNext == IInv /\ Next => OneOwner'
<1> SUFFICES ASSUME IInv, Next PROVE OneOwner'
  OBVIOUS
<1>1. /\ queue \in Seq(Fds) /\ offered \in [{Main} -> Fds \cup {None}]
      /\ taken \in [Workers -> Fds \cup {None}] /\ pc \in [Workers -> PC]
      /\ TypeOK /\ OneOwner /\ None \notin Fds
  BY ConstAssumption DEF IInv, TypeOK
<1>2. CASE \E fd \in Fds : Accept(fd)
  BY <1>1, <1>2 DEF Accept, Fifo!Offer, OpenFds, OneOwner, local
<1>3. CASE Enqueue
  <2>1. /\ offered[Main] \in Fds /\ offered[Main] \notin Range(queue)
        /\ IsInjective(queue)
    BY <1>1, <1>3 DEF Enqueue, Fifo!Put, OneOwner
  <2>2. IsInjective(queue') /\ Range(queue') = Range(queue) \cup {offered[Main]}
    BY <1>1, <1>3, <2>1, Appended DEF Enqueue, Fifo!Put
  <2>3. offered'[Main] = None /\ taken' = taken /\ pc' = pc
    BY <1>1, <1>3 DEF Enqueue, Fifo!Put
  <2> QED BY <1>1, <2>1, <2>2, <2>3 DEF OneOwner
<1>4. ASSUME NEW w \in Workers, Work(w) \/ Peer(w) PROVE OneOwner'
  <2>1. CASE Dequeue(w)
    <3>1. queue # << >> /\ IsInjective(queue)
      BY <1>1, <2>1 DEF Dequeue, Fifo!Take, OneOwner
    <3>2. /\ IsInjective(queue') /\ Range(queue') \subseteq Range(queue)
          /\ Head(queue) \in Range(queue) /\ Head(queue) \notin Range(queue')
      BY <1>1, <2>1, <3>1, WithoutFirst DEF Dequeue, Fifo!Take
    <3>3. Head(queue) # None
      BY <1>1, <3>1, HeadTailProperties
    <3>4. /\ offered' = offered
          /\ \A v \in Workers :
                /\ taken'[v] = IF v = w THEN Head(queue) ELSE taken[v]
                /\ pc'[v] = IF v = w THEN "request" ELSE pc[v]
      BY <1>1, <2>1 DEF Dequeue, Fifo!Take, Step
    <3> QED BY <1>1, <3>2, <3>3, <3>4 DEF OneOwner
  <2>2. CASE Close(w)
    <3>1. /\ offered' = offered /\ queue' = queue
          /\ \A v \in Workers :
                /\ taken'[v] = IF v = w THEN None ELSE taken[v]
                /\ pc'[v] = IF v = w THEN "idle" ELSE pc[v]
      BY <1>1, <2>2 DEF Close, Fifo!Finish, Step
    <3> QED BY <1>1, <3>1 DEF OneOwner
  <2>3. CASE ~Dequeue(w) /\ ~Close(w)
    <3>1. queue' = queue /\ offered' = offered /\ taken' = taken
      BY <1>1, <1>4, <2>3, FifoUntouched DEF fifo
    <3>2. \A v \in Workers : (pc'[v] = "idle") = (pc[v] = "idle")
      <4> TAKE v \in Workers
      <4>1. CASE v = w
        BY <1>1, <1>4, <2>3, <4>1, FifoUntouched
      <4>2. CASE v # w
        BY <1>1, <1>4, <4>2, OthersUntouched
      <4> QED BY <4>1, <4>2
    <3> QED BY <1>1, <3>1, <3>2 DEF OneOwner
  <2> QED BY <2>1, <2>2, <2>3
<1>5. CASE Stopped
  BY <1>1, <1>5 DEF Stopped, vars, fifo, OneOwner
<1> QED BY <1>2, <1>3, <1>4, <1>5 DEF Next
-----------------------------------------------------------------------------
(* A request's file is kept until the connection is closed, and answered   *)
(* by the steps that end doit.                                             *)
LEMMA RequestedNext == IInv /\ Next => Requested'
<1> SUFFICES ASSUME IInv, Next PROVE Requested'
  OBVIOUS
<1>1. /\ pc \in [Workers -> PC] /\ file \in [Workers -> Files \cup {None}]
      /\ reply \in [Workers -> Files \cup {None}] /\ TypeOK /\ Requested
  BY DEF IInv, TypeOK
<1>2. CASE UNCHANGED <<cache, local, pc, fault>>
  BY <1>1, <1>2 DEF Requested, Replying, local
<1>3. ASSUME NEW w \in Workers, Work(w) \/ Peer(w) PROVE Requested'
  <2> SUFFICES ASSUME NEW v \in Workers
               PROVE  /\ pc'[v] \notin {"idle", "request", "close"} => file'[v] \in Files
                      /\ ~Replying(v)' => reply'[v] = None
    BY DEF Requested
  <2>1. CASE v # w
    BY <1>1, <1>3, <2>1, OthersUntouched DEF Requested, Replying
  <2>2. CASE v = w
    <3>1. /\ pc[w] \notin {"idle", "request", "close"} => file[w] \in Files
          /\ ~Replying(w) => reply[w] = None
      BY <1>1 DEF Requested
    <3> USE DEF Step, local, Replying
    <3>2. CASE Dequeue(w) \/ EnterFind(w)
      BY <1>1, <2>2, <3>1, <3>2 DEF Dequeue, EnterFind
    <3>3. CASE LeaveFind(w)
      BY <1>1, <2>2, <3>1, <3>3 DEF LeaveFind
    <3>4. CASE WriteHeader(w) \/ WriteBody(w)
      BY <1>1, <2>2, <3>1, <3>4 DEF WriteHeader, WriteBody
    <3>5. CASE EnterMove(w) \/ Unlink(w) \/ MoveNothing(w) \/ Relink(w)
      BY <1>1, <2>2, <3>1, <3>5 DEF EnterMove, Unlink, MoveNothing, Relink
    <3>6. CASE CheckRoom(w) \/ EnterEvict(w) \/ LeaveEvict(w) \/ EvictFromEmpty(w)
      BY <1>1, <2>2, <3>1, <3>6 DEF CheckRoom, EnterEvict, LeaveEvict, EvictFromEmpty
    <3>7. CASE EnterAdd(w) \/ LeaveAdd(w)
      BY <1>1, <2>2, <3>1, <3>7 DEF EnterAdd, LeaveAdd
    <3>8. CASE Close(w)
      BY <1>1, <2>2, <3>8 DEF Close
    <3>9. CASE RefuseRequest(w) \/ ReadOk(w) \/ ReadError(w)
      BY <1>1, <2>2, <3>1, <3>9 DEF RefuseRequest, ReadOk, ReadError
    <3>10. CASE Bypass(w) \/ Allocate(w) \/ AllocateNone(w) \/ ReadBody(w)
      BY <1>1, <2>2, <3>1, <3>10 DEF Bypass, Allocate, AllocateNone, ReadBody
    <3>11. CASE \E f \in Files : ReadRequest(w, f)
      BY <1>1, <2>2, <3>1, <3>11 DEF ReadRequest
    <3> QED BY <1>3, <3>2, <3>3, <3>4, <3>5, <3>6, <3>7, <3>8, <3>9, <3>10, <3>11
            DEF Work, Peer
  <2> QED BY <2>1, <2>2
<1> QED BY <1>2, <1>3, MainOrWorker

(* Objects over MAX_OBJECT_SIZE never reach the cache.                     *)
LEMMA FitsCacheNext == IInv /\ Next => FitsCache'
<1> SUFFICES ASSUME IInv, Next PROVE FitsCache'
  OBVIOUS
<1>1. /\ pc \in [Workers -> PC] /\ len \in [Workers -> Lens \cup {0}]
      /\ TypeOK /\ FitsCache
  BY DEF IInv, TypeOK
<1> DEFINE Fitting == {"body", "room", "evict", "evicting", "add", "adding",
                       "find2", "search2", "alloc"}
<1>2. \A v \in Workers : pc[v] \in Fitting => len[v] <= MaxObject
  BY <1>1 DEF FitsCache, Private
<1>3. CASE UNCHANGED <<cache, local, pc, fault>>
  BY <1>1, <1>3 DEF FitsCache, Private, local
<1>4. ASSUME NEW w \in Workers, Work(w) \/ Peer(w) PROVE FitsCache'
  <2> SUFFICES ASSUME NEW v \in Workers, pc'[v] \in Fitting PROVE len'[v] <= MaxObject
    BY DEF FitsCache, Private
  <2>1. CASE v # w
    BY <1>1, <1>2, <1>4, <2>1, OthersUntouched
  <2>2. CASE v = w
    <3> USE DEF Step, local
    <3>1. CASE EnterFind(w) \/ LeaveFind(w)
      BY <1>1, <1>2, <2>2, <3>1 DEF EnterFind, LeaveFind
    <3>2. CASE WriteHeader(w) \/ WriteBody(w)
      BY <1>1, <2>2, <3>2 DEF WriteHeader, WriteBody
    <3>3. CASE EnterMove(w) \/ Unlink(w) \/ MoveNothing(w) \/ Relink(w)
      BY <1>1, <2>2, <3>3 DEF EnterMove, Unlink, MoveNothing, Relink
    <3>4. CASE CheckRoom(w) \/ EnterEvict(w) \/ LeaveEvict(w) \/ EvictFromEmpty(w)
      BY <1>1, <1>2, <2>2, <3>4 DEF CheckRoom, EnterEvict, LeaveEvict, EvictFromEmpty
    <3>5. CASE EnterAdd(w) \/ LeaveAdd(w)
      BY <1>1, <1>2, <2>2, <3>5 DEF EnterAdd, LeaveAdd
    <3>6. CASE Dequeue(w) \/ Close(w)
      BY <1>1, <2>2, <3>6 DEF Dequeue, Close
    <3>7. CASE ReadOk(w)
      BY <1>1, <2>2, <3>7 DEF ReadOk
    <3>8. CASE RefuseRequest(w) \/ ReadError(w) \/ Bypass(w)
      BY <1>1, <2>2, <3>8 DEF RefuseRequest, ReadError, Bypass
    <3>9. CASE Allocate(w) \/ AllocateNone(w) \/ ReadBody(w)
      BY <1>1, <1>2, <2>2, <3>9 DEF Allocate, AllocateNone, ReadBody
    <3>10. CASE \E f \in Files : ReadRequest(w, f)
      BY <1>1, <2>2, <3>10 DEF ReadRequest
    <3> QED BY <1>4, <3>1, <3>2, <3>3, <3>4, <3>5, <3>6, <3>7, <3>8, <3>9, <3>10
            DEF Work, Peer
  <2> QED BY <2>1, <2>2
<1> QED BY <1>3, <1>4, MainOrWorker

-----------------------------------------------------------------------------
(* The new node of Allocate was nowhere.                                   *)
LEMMA AllocatedIsNew ==
    ASSUME IInv, NEW w \in Workers, Allocate(w)
    PROVE  /\ ptr'[w] \in Nodes \ live /\ ptr'[w] \notin Range(list)
           /\ live' = live \cup {ptr'[w]}
           /\ node' = [node EXCEPT ![ptr'[w]] = [file |-> file[w], len |-> len[w]]]
           /\ UNCHANGED <<list, remain, evicted, raced, file, len>>
           /\ file[w] \in Files
<1>1. PICK n \in Nodes \ live :
        /\ live' = live \cup {n}
        /\ node' = [node EXCEPT ![n] = [file |-> file[w], len |-> len[w]]]
        /\ ptr' = [ptr EXCEPT ![w] = n]
  BY DEF Allocate
<1>2. ptr'[w] = n
  BY <1>1 DEF IInv, TypeOK
<1>3. n \notin Range(list)
  BY DEF IInv, ListInv
<1>4. file[w] \in Files
  BY DEF IInv, Requested, Allocate, Step
<1> QED BY <1>1, <1>2, <1>3, <1>4 DEF Allocate

(* The steps that write to a node are its allocation and its release.      *)
LEMMA NodeUntouched ==
    ASSUME NEW w \in Workers, Work(w) \/ Peer(w), ~Allocate(w), ~LeaveEvict(w)
    PROVE  live' = live /\ node' = node /\ evicted' = evicted
BY CacheUntouched, CheckRoomChanges DEF cache, Unlink, Relink, LeaveAdd

(* The last node leaves the list for good; whoever holds an unlinked node  *)
(* holds another.                                                          *)
LEMMA Evicted ==
    ASSUME IInv, NEW w \in Workers, LeaveEvict(w)
    PROVE  /\ list # << >> /\ list' = Front(list) /\ live' = live \ {Last(list)}
           /\ node' = [node EXCEPT ![Last(list)] = [file |-> None, len |-> 0]]
           /\ remain' = remain /\ evicted'
           /\ IsInjective(list') /\ Range(list') \subseteq Range(list)
           /\ Last(list) \in Range(list) /\ Last(list) \notin Range(list')
           /\ \A v \in Workers : Unlinked(v) => ptr[v] # Last(list)
           /\ \A n \in Nodes : n # Last(list) => node'[n] = node[n]
<1>1. list \in Seq(Nodes) /\ IsInjective(list) /\ ListInv
      /\ node \in [Nodes -> [file : Files \cup {None}, len : Lens \cup {0}]]
  BY DEF IInv, TypeOK, ListInv
<1>2. /\ list # << >> /\ list' = Front(list) /\ live' = live \ {Last(list)}
      /\ node' = [node EXCEPT ![Last(list)] = [file |-> None, len |-> 0]]
      /\ remain' = remain /\ evicted'
  BY DEF LeaveEvict
<1>3. /\ IsInjective(list') /\ Range(list') \subseteq Range(list)
      /\ Last(list) \in Range(list) /\ Last(list) \notin Range(list')
  BY <1>1, <1>2, FrontOf
<1>4. \A v \in Workers : Unlinked(v) => ptr[v] # Last(list)
  BY <1>1, <1>3 DEF ListInv
<1>5. \A n \in Nodes : n # Last(list) => node'[n] = node[n]
  BY <1>1, <1>2
<1> QED BY <1>2, <1>3, <1>4, <1>5

(* The unlinked nodes keep what they hold.                                 *)
LEMMA FilledNext == IInv /\ Next => Filled'
<1> SUFFICES ASSUME IInv, Next PROVE Filled'
  OBVIOUS
<1>1. /\ TypeOK /\ ListInv /\ Filled /\ pc \in [Workers -> PC]
      /\ live \subseteq Nodes /\ list \in Seq(Nodes) /\ IsInjective(list)
  BY DEF IInv, TypeOK, ListInv
<1>2. CASE UNCHANGED <<cache, local, pc, fault>>
  BY <1>1, <1>2 DEF Filled, Private, local, cache
<1>3. ASSUME NEW w \in Workers, Work(w) \/ Peer(w) PROVE Filled'
  <2> SUFFICES ASSUME NEW v \in Workers
               PROVE  /\ Private(v)' => node'[ptr'[v]] = [file |-> file'[v], len |-> len'[v]]
                      /\ pc'[v] = "moved" => node'[ptr'[v]].file # None
    BY DEF Filled
  <2>1. CASE Allocate(w)
    <3>1. CASE v = w
      <4>1. /\ ptr'[w] \in Nodes /\ file' = file /\ len' = len
            /\ node' = [node EXCEPT ![ptr'[w]] = [file |-> file[w], len |-> len[w]]]
        BY <2>1, AllocatedIsNew
      <4>2. node'[ptr'[w]] = [file |-> file[w], len |-> len[w]]
        BY <1>1, <4>1 DEF TypeOK
      <4>3. pc'[w] = "body"
        BY <1>1, <2>1 DEF Allocate, Step
      <4> QED BY <3>1, <4>1, <4>2, <4>3
    <3>2. CASE v # w
      <4>1. /\ Private(v)' <=> Private(v)
            /\ pc'[v] = pc[v] /\ ptr'[v] = ptr[v] /\ file'[v] = file[v] /\ len'[v] = len[v]
        BY <1>1, <1>3, <3>2, OthersUntouched DEF Private
      <4>2. Unlinked(v) => ptr[v] \in live
        BY <1>1 DEF ListInv
      <4>3. Unlinked(v) => node'[ptr[v]] = node[ptr[v]]
        BY <1>1, <2>1, <4>2, AllocatedIsNew DEF TypeOK
      <4> QED BY <1>1, <4>1, <4>3 DEF Filled, Unlinked
    <3> QED BY <3>1, <3>2
  <2>2. CASE Unlink(w)
    <3>1. ptr' = ptr /\ file' = file /\ len' = len /\ node' = node /\ ~Allocate(w)
      BY <2>2 DEF Unlink, local, Allocate, Step
    <3>2. Private(v)' => Private(v)
      BY <1>1, <1>3, <3>1, PrivateFromAllocate
    <3>3. CASE v = w
      <4>1. node[ptr[w]].file # None
        BY <1>1, <2>2 DEF Unlink, ListInv
      <4> QED BY <1>1, <3>1, <3>2, <3>3, <4>1 DEF Filled
    <3>4. CASE v # w
      <4>1. pc'[v] = pc[v]
        BY <1>1, <1>3, <3>4, OthersUntouched
      <4> QED BY <1>1, <3>1, <3>2, <4>1 DEF Filled
    <3> QED BY <3>3, <3>4
  <2>3. CASE ~Allocate(w) /\ ~Unlink(w)
    <3>1. Private(v)' => /\ Private(v) /\ ptr'[v] = ptr[v]
                         /\ file'[v] = file[v] /\ len'[v] = len[v]
      BY <1>1, <1>3, <2>3, PrivateFromAllocate
    <3>2. Unlinked(v)' => Unlinked(v) /\ ptr'[v] = ptr[v]
      BY <1>1, <1>3, <2>3, UnlinkedFrom
    <3>3. Unlinked(v) => node'[ptr[v]] = node[ptr[v]]
      <4>1. Unlinked(v) => ptr[v] \in Nodes
        BY <1>1 DEF ListInv
      <4>2. CASE LeaveEvict(w)
        BY <4>1, <4>2, Evicted
      <4>3. CASE ~LeaveEvict(w)
        BY <1>3, <2>3, <4>3, NodeUntouched
      <4> QED BY <4>2, <4>3
    <3>4. pc'[v] = "moved" => pc[v] = "moved"
      <4>1. pc'[v] = "moved" => Unlinked(v)'
        BY DEF Unlinked
      <4>2. CASE pc'[v] = pc[v]
        BY <4>2
      <4>3. CASE pc'[v] # pc[v] /\ pc'[v] = "moved"
        <5>1. v = w
          BY <1>1, <1>3, <4>3, OthersUntouched
        <5>2. Private(w)
          BY <3>2, <4>1, <4>3, <5>1 DEF Unlinked
        <5>3. pc'[w] = "moved" /\ pc[w] \in {"body", "room", "evict", "evicting", "add", "adding"}
          BY <4>3, <5>1, <5>2 DEF Private
        <5> USE DEF Step
        <5>4. CASE ReadBody(w) \/ CheckRoom(w) \/ EnterEvict(w) \/ LeaveEvict(w)
          BY <1>1, <5>3, <5>4 DEF ReadBody, CheckRoom, EnterEvict, LeaveEvict
        <5>5. CASE EvictFromEmpty(w) \/ EnterAdd(w) \/ LeaveAdd(w) \/ AllocateNone(w)
          BY <1>1, <5>3, <5>5 DEF EvictFromEmpty, EnterAdd, LeaveAdd, AllocateNone
        <5>6. CASE Dequeue(w) \/ EnterFind(w) \/ LeaveFind(w) \/ Close(w)
          BY <1>1, <5>3, <5>6 DEF Dequeue, EnterFind, LeaveFind, Close
        <5>7. CASE EnterMove(w) \/ MoveNothing(w) \/ Relink(w)
          BY <1>1, <5>3, <5>7 DEF EnterMove, MoveNothing, Relink
        <5>8. CASE RefuseRequest(w) \/ ReadOk(w) \/ ReadError(w) \/ Bypass(w)
          BY <1>1, <5>3, <5>8 DEF RefuseRequest, ReadOk, ReadError, Bypass
        <5>9. CASE WriteHeader(w) \/ WriteBody(w) \/ \E f \in Files : ReadRequest(w, f)
          BY <1>1, <5>3, <5>9 DEF WriteHeader, WriteBody, ReadRequest
        <5> QED BY <1>3, <2>3, <5>4, <5>5, <5>6, <5>7, <5>8, <5>9 DEF Work, Peer
      <4> QED BY <4>2, <4>3
    <3> QED BY <1>1, <3>1, <3>2, <3>3, <3>4 DEF Filled, Unlinked
  <2> QED BY <2>1, <2>2, <2>3
<1> QED BY <1>2, <1>3, MainOrWorker

-----------------------------------------------------------------------------
(* The list stays a list of distinct, allocated and filled nodes, and the  *)
(* unlinked nodes stay out of it: a node is allocated outside of it, or    *)
(* taken out of it, by one worker, which alone links it; it is freed only  *)
(* by the eviction that takes it out.                                      *)
LEMMA ListInvNext == IInv /\ Next => ListInv'
<1> SUFFICES ASSUME IInv, Next PROVE ListInv'
  OBVIOUS
<1>1. /\ TypeOK /\ ListInv /\ Filled /\ IsInjective(list) /\ list \in Seq(Nodes)
      /\ node \in [Nodes -> [file : Files \cup {None}, len : Lens \cup {0}]]
      /\ Range(list) \subseteq live /\ live \subseteq Nodes
      /\ pc \in [Workers -> PC]
  BY DEF IInv, ListInv, TypeOK
<1>2. CASE UNCHANGED <<cache, local, pc, fault>>
  BY <1>1, <1>2 DEF ListInv, Unlinked, Private, local, cache
<1>3. ASSUME NEW w \in Workers, Work(w) \/ Peer(w), ~Allocate(w), ~Unlink(w),
             IsInjective(list'), Range(list') \subseteq live',
             \A n \in Range(list') : node'[n].file # None,
             \A v \in Workers : Unlinked(v)' => ptr[v] \in live' \ Range(list')
      PROVE  ListInv'
  <2>1. \A v \in Workers : Unlinked(v)' => Unlinked(v) /\ ptr'[v] = ptr[v]
    BY <1>1, <1>3, UnlinkedFrom
  <2>2. \A v \in Workers : Unlinked(v)' => ptr'[v] \in live' \ Range(list')
    BY <1>3, <2>1
  <2>3. \A u, v \in Workers : Unlinked(u)' /\ Unlinked(v)' /\ u # v => ptr'[u] # ptr'[v]
    BY <1>1, <2>1 DEF ListInv
  <2> QED BY <1>3, <2>2, <2>3 DEF ListInv
<1>4. ASSUME NEW w \in Workers, Work(w) \/ Peer(w) PROVE ListInv'
  <2>1. CASE Allocate(w)
    <3> DEFINE n == ptr'[w]
    <3>1. /\ n \in Nodes \ live /\ n \notin Range(list) /\ live' = live \cup {n}
          /\ node' = [node EXCEPT ![n] = [file |-> file[w], len |-> len[w]]]
          /\ list' = list
      BY <2>1, AllocatedIsNew
    <3>2. ASSUME NEW v \in Workers, v # w, Unlinked(v)'
          PROVE  /\ Unlinked(v) /\ ptr'[v] = ptr[v]
                 /\ ptr[v] \in live \ Range(list)
      BY <1>1, <1>4, <3>2, OthersUntouched DEF Unlinked, Private, ListInv
    <3> HIDE DEF n
    <3>3. \A m \in Range(list) : m \in live' /\ node'[m].file # None
      BY <1>1, <3>1 DEF ListInv
    <3>4. \A v \in Workers : Unlinked(v)' => ptr'[v] \in live' \ Range(list')
      BY <3>1, <3>2 DEF n
    <3>5. \A u, v \in Workers : Unlinked(u)' /\ Unlinked(v)' /\ u # v => ptr'[u] # ptr'[v]
      BY <1>1, <3>1, <3>2 DEF n, ListInv
    <3> QED BY <1>1, <3>1, <3>3, <3>4, <3>5 DEF ListInv
  <2>2. CASE Unlink(w)
    <3> DEFINE n == ptr[w]
    <3>1. /\ n \in Range(list) /\ list' = RemoveAt(list, Position(n))
          /\ live' = live /\ node' = node /\ ptr' = ptr
      BY <2>2 DEF Unlink, local
    <3>2. IsInjective(list') /\ Range(list') = Range(list) \ {n}
      BY <1>1, <3>1, RemovedNode
    <3>3. \A v \in Workers : v # w /\ Unlinked(v)' => Unlinked(v)
      BY <1>1, <1>4, OthersUntouched DEF Unlinked, Private
    <3>4. \A v \in Workers : v # w /\ Unlinked(v)' => ptr[v] \in live \ Range(list)
      BY <1>1, <3>3 DEF ListInv
    <3>5. \A v \in Workers : Unlinked(v)' => ptr'[v] \in live' \ Range(list')
      BY <1>1, <3>1, <3>2, <3>4
    <3>6. \A u, v \in Workers : Unlinked(u)' /\ Unlinked(v)' /\ u # v => ptr'[u] # ptr'[v]
      BY <1>1, <3>1, <3>3, <3>4 DEF ListInv
    <3>7. \A m \in Range(list') : m \in live' /\ node'[m].file # None
      BY <1>1, <3>1, <3>2 DEF ListInv
    <3> QED BY <3>2, <3>5, <3>6, <3>7 DEF ListInv
  <2>3. CASE LeaveEvict(w)
    <3>1. ~Allocate(w) /\ ~Unlink(w)
      BY <2>3 DEF LeaveEvict, Allocate, Unlink, Step
    <3>2. \A v \in Workers : Unlinked(v)' => Unlinked(v)
      BY <1>1, <1>4, <3>1, UnlinkedFrom
    <3>3. /\ live' = live \ {Last(list)}
          /\ IsInjective(list') /\ Range(list') \subseteq Range(list)
          /\ Last(list) \notin Range(list')
          /\ \A v \in Workers : Unlinked(v) => ptr[v] # Last(list)
          /\ \A m \in Nodes : m # Last(list) => node'[m] = node[m]
      BY <2>3, Evicted
    <3>4. \A m \in Range(list') : m \in live' /\ node'[m].file # None
      BY <1>1, <3>3 DEF ListInv
    <3>5. \A v \in Workers : Unlinked(v)' => ptr[v] \in live' \ Range(list')
      BY <1>1, <3>2, <3>3 DEF ListInv
    <3> QED BY <1>3, <1>4, <3>1, <3>3, <3>4, <3>5
  <2>4. CASE LeaveAdd(w) \/ Relink(w)
    <3>1. /\ list' = <<ptr[w]>> \o list /\ live' = live /\ node' = node
          /\ ~Allocate(w) /\ ~Unlink(w) /\ Unlinked(w) /\ ~Unlinked(w)'
      BY <1>1, <2>4 DEF LeaveAdd, Relink, Allocate, Unlink, Step, Unlinked, Private
    <3>2. ptr[w] \in live \ Range(list) /\ ptr[w] \in Nodes
      BY <1>1, <3>1 DEF ListInv
    <3>3. node[ptr[w]].file # None
      <4>1. CASE LeaveAdd(w)
        <5>1. Private(w) /\ file[w] # None
          BY <4>1, ConstAssumption DEF IInv, Requested, LeaveAdd, Step, Private
        <5>2. node[ptr[w]] = [file |-> file[w], len |-> len[w]]
          BY <1>1, <5>1 DEF Filled
        <5> QED BY <5>1, <5>2
      <4>2. CASE Relink(w)
        BY <1>1, <4>2 DEF Filled, Relink, Step
      <4> QED BY <2>4, <4>1, <4>2
    <3>4. IsInjective(list') /\ Range(list') = Range(list) \cup {ptr[w]}
      BY <1>1, <3>1, <3>2, PrependedRange
    <3>5. \A v \in Workers : Unlinked(v)' => Unlinked(v) /\ v # w
      BY <1>1, <1>4, <3>1, UnlinkedFrom
    <3>6. \A v \in Workers : Unlinked(v)' => ptr[v] \in live' \ Range(list')
      BY <1>1, <3>1, <3>4, <3>5 DEF ListInv
    <3>7. \A m \in Range(list') : m \in live' /\ node'[m].file # None
      BY <1>1, <3>1, <3>2, <3>3, <3>4 DEF ListInv
    <3> QED BY <1>3, <1>4, <3>1, <3>4, <3>6, <3>7
  <2>5. CASE ~Unlink(w) /\ ~Relink(w) /\ ~LeaveEvict(w) /\ ~LeaveAdd(w) /\ ~Allocate(w)
    <3>1. list' = list /\ live' = live /\ node' = node
      BY <1>4, <2>5, CacheUntouched, CheckRoomChanges DEF cache
    <3>2. \A v \in Workers : Unlinked(v)' => Unlinked(v)
      BY <1>1, <1>4, <2>5, UnlinkedFrom
    <3> QED BY <1>1, <1>3, <1>4, <2>5, <3>1, <3>2 DEF ListInv
  <2> QED BY <2>1, <2>2, <2>3, <2>4, <2>5
<1> QED BY <1>2, <1>4, MainOrWorker
-----------------------------------------------------------------------------
(* Without an eviction no node is freed: what a worker found stays there.  *)
LEMMA FoundNext == IInv /\ Next => FoundUntilEviction'
<1> SUFFICES ASSUME IInv, Next, ~evicted' PROVE FoundUntilEviction'
  BY DEF FoundUntilEviction
<1>1. /\ TypeOK /\ ListInv /\ Filled /\ FoundUntilEviction
      /\ list \in Seq(Nodes) /\ live \subseteq Nodes /\ pc \in [Workers -> PC]
      /\ ptr \in [Workers -> Nodes \cup {NoNode}]
      /\ node \in [Nodes -> [file : Files \cup {None}, len : Lens \cup {0}]]
  BY DEF IInv, TypeOK
<1>2. CASE UNCHANGED <<cache, local, pc, fault>>
  BY <1>1, <1>2 DEF FoundUntilEviction, Found, local, cache
<1>3. ASSUME NEW w \in Workers, Work(w) \/ Peer(w) PROVE FoundUntilEviction'
  <2> SUFFICES ASSUME NEW v \in Workers, Found(v)'
               PROVE  ptr'[v] \in live' /\ node'[ptr'[v]].file = file'[v]
    BY DEF FoundUntilEviction
  <2>1. CASE Allocate(w)
    <3>1. v # w
      BY <1>1, <2>1 DEF Found, Allocate, Step
    <3>2. Found(v) /\ ptr'[v] = ptr[v] /\ file'[v] = file[v]
      BY <1>1, <1>3, <3>1, OthersUntouched DEF Found
    <3>3. /\ ptr'[w] \in Nodes \ live /\ live' = live \cup {ptr'[w]} /\ evicted' = evicted
          /\ node' = [node EXCEPT ![ptr'[w]] = [file |-> file[w], len |-> len[w]]]
      BY <2>1, AllocatedIsNew
    <3>4. ptr[v] \in live /\ node[ptr[v]].file = file[v]
      BY <1>1, <3>2, <3>3 DEF FoundUntilEviction
    <3> QED BY <1>1, <3>2, <3>3, <3>4
  <2>2. CASE LeaveEvict(w)
    BY <2>2 DEF LeaveEvict
  <2>3. CASE ~Allocate(w) /\ ~LeaveEvict(w)
    <3>1. live' = live /\ node' = node /\ evicted' = evicted
      BY <1>3, <2>3, NodeUntouched
    <3>2. CASE v # w
      BY <1>1, <1>3, <3>1, <3>2, OthersUntouched DEF Found, FoundUntilEviction
    <3>3. CASE v = w
      <4>1. pc'[w] \in {"serve", "serveBody", "move", "moving", "moved",
                       "write", "writeBody"}
        BY <3>3 DEF Found
      <4> USE DEF Step, local
      <4>2. CASE LeaveFind(w)
        <5>1. ptr'[w] = Lookup(file[w]) /\ Lookup(file[w]) # NoNode /\ file' = file
          BY <1>1, <4>1, <4>2 DEF LeaveFind
        <5>2. Lookup(file[w]) \in Range(list) /\ node[Lookup(file[w])].file = file[w]
          BY <1>1, <5>1, LookupFinds
        <5> QED BY <1>1, <3>1, <3>3, <5>1, <5>2 DEF ListInv
      <4>3. CASE EnterMove(w) \/ Unlink(w) \/ MoveNothing(w) \/ Relink(w)
        <5>1. Found(w) /\ ptr' = ptr /\ file' = file
          BY <4>3 DEF EnterMove, Unlink, MoveNothing, Relink, Found
        <5> QED BY <1>1, <3>1, <3>3, <5>1 DEF FoundUntilEviction
      <4>4. CASE LeaveAdd(w)
        <5>1. Private(w) /\ ptr' = ptr /\ file' = file
          BY <4>4 DEF LeaveAdd, Private
        <5>2. node[ptr[w]] = [file |-> file[w], len |-> len[w]]
          BY <1>1, <5>1 DEF Filled
        <5>3. node[ptr[w]].file = file[w] /\ ptr[w] \in live
          BY <1>1, <5>1, <5>2 DEF ListInv, Unlinked
        <5> QED BY <3>1, <3>3, <5>1, <5>3
      <4>5. CASE Dequeue(w) \/ EnterFind(w) \/ Close(w)
        BY <1>1, <4>1, <4>5 DEF Dequeue, EnterFind, Close
      <4>6. CASE WriteHeader(w) \/ WriteBody(w)
        <5>1. Found(w) /\ ptr' = ptr /\ file' = file
          BY <4>6 DEF WriteHeader, WriteBody, Found
        <5> QED BY <1>1, <3>1, <3>3, <5>1 DEF FoundUntilEviction
      <4>7. CASE CheckRoom(w) \/ EnterEvict(w) \/ EvictFromEmpty(w) \/ EnterAdd(w)
        BY <1>1, <4>1, <4>7 DEF CheckRoom, EnterEvict, EvictFromEmpty, EnterAdd
      <4>8. CASE RefuseRequest(w) \/ ReadOk(w) \/ ReadError(w) \/ Bypass(w)
        BY <1>1, <4>1, <4>8 DEF RefuseRequest, ReadOk, ReadError, Bypass
      <4>10. CASE ReadBody(w)
        BY <1>1, <4>1, <4>10 DEF ReadBody
      <4>11. CASE AllocateNone(w)
        <5>1. pc' = pc /\ pc[w] = "alloc"
          BY <4>11 DEF AllocateNone
        <5> QED BY <4>1, <5>1
      <4>9. CASE \E f \in Files : ReadRequest(w, f)
        BY <1>1, <4>1, <4>9 DEF ReadRequest
      <4> QED BY <1>3, <2>3, <4>2, <4>3, <4>4, <4>5, <4>6, <4>7, <4>8, <4>9,
                 <4>10, <4>11
              DEF Work, Peer
    <3> QED BY <3>2, <3>3
  <2> QED BY <2>1, <2>2, <2>3
<1> QED BY <1>2, <1>3, MainOrWorker

(* ... and is what its client asked for; whoever evicts finds a node.      *)
LEMMA ServedNext == IInv /\ Next => ServedUntilEviction'
<1> SUFFICES ASSUME IInv, Next, ~evicted' PROVE ServedUntilEviction'
  BY DEF ServedUntilEviction
<1>1. /\ TypeOK /\ FoundUntilEviction /\ RoomUntilEviction /\ ServedUntilEviction
      /\ pc \in [Workers -> PC] /\ file \in [Workers -> Files \cup {None}]
      /\ reply \in [Workers -> Files \cup {None}]
  BY DEF IInv, TypeOK
<1>2. CASE UNCHANGED <<cache, local, pc, fault>>
  BY <1>1, <1>2 DEF ServedUntilEviction, local, cache
<1>3. ASSUME NEW w \in Workers, Work(w) \/ Peer(w) PROVE ServedUntilEviction'
  <2>1. ~evicted
    BY <1>3, NodeUntouched DEF LeaveEvict, Allocate
  <2>2. /\ fault \in {"none", "body overread", "out of memory"}
        /\ \A v \in Workers : reply[v] \in {None, file[v]}
    BY <1>1, <2>1 DEF ServedUntilEviction
  <2>3. \A v \in Workers : v # w => reply'[v] \in {None, file'[v]}
    BY <1>1, <1>3, <2>2, OthersUntouched
  <2>4. /\ fault' \in {"none", "body overread", "out of memory"}
        /\ reply'[w] \in {None, file'[w]}
    <3> USE DEF Step, local
    <3>1. CASE WriteHeader(w) \/ WriteBody(w)
      <4>1. ptr[w] \in live /\ node[ptr[w]].file = file[w] /\ file' = file
        BY <1>1, <2>1, <3>1 DEF WriteHeader, WriteBody, Found, FoundUntilEviction
      <4>2. CASE SendNode(w)
        BY <1>1, <2>2, <4>1, <4>2 DEF SendNode
      <4>3. CASE fault' = "body overread" /\ UNCHANGED reply
        BY <2>2, <4>1, <4>3
      <4> QED BY <3>1, <4>2, <4>3 DEF WriteHeader, WriteBody
    <3>2. CASE EvictFromEmpty(w)
      <4>1. list = << >> /\ pc[w] = "evicting"
        BY <3>2 DEF EvictFromEmpty
      <4>2. PICK v \in Workers : pc[v] = "moved"
        BY <1>1, <2>1, <4>1 DEF RoomUntilEviction
      <4>3. v = w
        BY <4>1, <4>2 DEF IInv, OneEditor, Editing
      <4> QED BY <4>1, <4>2, <4>3
    <3>3. CASE LeaveEvict(w)
      BY <3>3 DEF LeaveEvict
    <3>4. CASE Dequeue(w) \/ EnterFind(w) \/ LeaveFind(w)
      BY <1>1, <2>2, <3>4 DEF Dequeue, EnterFind, LeaveFind
    <3>10. CASE EnterMove(w) \/ Unlink(w) \/ MoveNothing(w) \/ Relink(w)
      BY <1>1, <2>2, <3>10 DEF EnterMove, Unlink, MoveNothing, Relink
    <3>11. CASE AllocateNone(w) \/ ReadBody(w)
      BY <1>1, <2>2, <3>11 DEF AllocateNone, ReadBody
    <3>5. CASE CheckRoom(w) \/ EnterEvict(w) \/ EnterAdd(w) \/ LeaveAdd(w)
      BY <1>1, <2>2, <3>5 DEF CheckRoom, EnterEvict, EnterAdd, LeaveAdd
    <3>6. CASE Close(w)
      BY <1>1, <2>2, <3>6 DEF Close
    <3>7. CASE RefuseRequest(w) \/ ReadOk(w) \/ ReadError(w) \/ Allocate(w)
      BY <1>1, <2>2, <3>7 DEF RefuseRequest, ReadOk, ReadError, Allocate
    <3>8. CASE Bypass(w)
      BY <1>1, <2>2, <3>8 DEF Bypass
    <3>9. CASE \E f \in Files : ReadRequest(w, f)
      <4>1. reply[w] = None
        BY <3>9 DEF ReadRequest, IInv, Requested, Replying
      <4> QED BY <1>1, <2>2, <3>9, <4>1 DEF ReadRequest
    <3> QED BY <1>3, <3>1, <3>2, <3>3, <3>4, <3>5, <3>6, <3>7, <3>8, <3>9,
               <3>10, <3>11
            DEF Work, Peer
  <2> QED BY <2>3, <2>4 DEF ServedUntilEviction
<1> QED BY <1>2, <1>3, MainOrWorker
-----------------------------------------------------------------------------
(* What each node of a list is charged.                                    *)
Terms(l, nd) == [i \in DOMAIN l |-> nd[l[i]].len]

LEMMA ChargeIsTotal ==
    /\ Charge = Total(Terms(list, node))
    /\ Charge' = Total(Terms(list', node'))
BY DEF Charge, Terms

LEMMA TermsType ==
    ASSUME NEW l \in Seq(Nodes),
           NEW nd \in [Nodes -> [file : Files \cup {None}, len : Lens \cup {0}]]
    PROVE  /\ Terms(l, nd) \in Seq(Int) /\ Len(Terms(l, nd)) = Len(l)
           /\ \A i \in 1 .. Len(l) : Terms(l, nd)[i] = nd[l[i]].len
<1>1. /\ Len(l) \in Nat /\ DOMAIN l = 1 .. Len(l)
      /\ \A i \in 1 .. Len(l) : l[i] \in Nodes
  BY Members
<1>2. \A x : x \in Lens \cup {0} => x \in Int
  BY ConstAssumption
<1>3. \A i \in 1 .. Len(l) : nd[l[i]].len \in Int
  <2> TAKE i \in 1 .. Len(l)
  <2>1. nd[l[i]] \in [file : Files \cup {None}, len : Lens \cup {0}]
    BY <1>1
  <2>2. nd[l[i]].len \in Lens \cup {0}
    BY <2>1
  <2> QED BY <1>2, <2>2
<1>4. Terms(l, nd) = [i \in 1 .. Len(l) |-> nd[l[i]].len]
  BY <1>1 DEF Terms
<1>5. Terms(l, nd) \in [1 .. Len(l) -> Int]
  BY <1>3, <1>4
<1>6. Terms(l, nd) \in Seq(Int) /\ Len(Terms(l, nd)) = Len(l)
  BY <1>1, <1>4, <1>5, IsASeq, LenProperties
<1> QED BY <1>4, <1>6

LEMMA EmptyTotal == Total(Terms(<< >>, node)) = 0
<1> DEFINE s == Terms(<< >>, node)
<1>1. s = << >>
  BY DEF Terms
<1>2. << >> \in Seq(Int) /\ Len(<< >>) = 0
  OBVIOUS
<1>3. PICK f : Sums(f, << >>)
  BY <1>2, SumsExist
<1>4. Total(<< >>) = f[0] /\ f[0] = 0
  BY <1>2, <1>3, TotalIs DEF Sums
<1> QED BY <1>1, <1>4

(* What a node is charged when it is linked it is given when it is         *)
(* unlinked...                                                             *)
LEMMA ChargeRemoved ==
    ASSUME TypeOK, IsInjective(list), NEW n \in Range(list),
           list' = RemoveAt(list, Position(n)), node' = node
    PROVE  Charge = node[n].len + Charge' /\ Charge' \in Int
<1> DEFINE p == Position(n)
           r == RemoveAt(list, p)
           m == Len(list)
           s == Terms(list, node)
           t == Terms(r, node)
<1>1. /\ list \in Seq(Nodes)
      /\ node \in [Nodes -> [file : Files \cup {None}, len : Lens \cup {0}]]
  BY DEF TypeOK
<1>2. p \in 1 .. m /\ list[p] = n
  BY <1>1, RemovedNode
<1>3. list' = r
  OBVIOUS
<1> HIDE DEF p
<1>4. /\ r \in Seq(Nodes) /\ Len(r) = m - 1
      /\ \A i \in 1 .. m - 1 : r[i] = IF i < p THEN list[i] ELSE list[i + 1]
  BY <1>1, <1>2, Removed
<1> HIDE DEF r, m
<1>5. /\ s \in Seq(Int) /\ Len(s) = m
      /\ \A i \in 1 .. m : s[i] = node[list[i]].len
  BY <1>1, TermsType DEF m
<1>6. /\ t \in Seq(Int) /\ Len(t) = m - 1
      /\ \A i \in 1 .. m - 1 : t[i] = node[r[i]].len
  BY <1>1, <1>4, TermsType
<1> HIDE DEF s, t
<1>7. m \in Nat
  BY <1>5, LenProperties
<1>8. \A i \in 1 .. m - 1 : t[i] = IF i < p THEN s[i] ELSE s[i + 1]
  <2> TAKE i \in 1 .. m - 1
  <2>1. i \in 1 .. m /\ i + 1 \in 1 .. m
    BY <1>7
  <2>2. s[i] = node[list[i]].len /\ s[i + 1] = node[list[i + 1]].len
    BY <1>5, <2>1
  <2>3. t[i] = node[r[i]].len /\ r[i] = IF i < p THEN list[i] ELSE list[i + 1]
    BY <1>4, <1>6
  <2> QED BY <2>2, <2>3
<1>9. Total(s) = s[p] + Total(t) /\ Total(t) \in Int
  BY <1>2, <1>5, <1>6, <1>8, TotalRemoved
<1>10. s[p] = node[n].len
  BY <1>2, <1>5
<1> QED BY <1>3, <1>9, <1>10, ChargeIsTotal DEF s, t

(* ... the last one takes its charge with it...                            *)
LEMMA ChargeEvicted ==
    ASSUME TypeOK, IsInjective(list), list # << >>, list' = Front(list),
           \A n \in Range(list') : node'[n] = node[n]
    PROVE  Charge' \in Int /\ Charge' <= Charge
<1> DEFINE r == Front(list)
           m == Len(list)
           s == Terms(list, node)
           t == Terms(r, node)
<1>1. /\ list \in Seq(Nodes)
      /\ node \in [Nodes -> [file : Files \cup {None}, len : Lens \cup {0}]]
  BY DEF TypeOK
<1>2. /\ r \in Seq(Nodes) /\ Len(r) = m - 1 /\ m \in 1 .. m
      /\ \A i \in 1 .. m - 1 : r[i] = list[i]
  BY <1>1, WithoutLast
<1>3. Terms(list', node') = t
  BY DEF Terms, Range
<1>4. list[m] \in Nodes
  BY <1>1, <1>2, Members
<1> HIDE DEF r, m
<1>5. /\ s \in Seq(Int) /\ Len(s) = m
      /\ \A i \in 1 .. m : s[i] = node[list[i]].len
  BY <1>1, TermsType DEF m
<1>6. /\ t \in Seq(Int) /\ Len(t) = m - 1
      /\ \A i \in 1 .. m - 1 : t[i] = node[r[i]].len
  BY <1>1, <1>2, TermsType
<1> HIDE DEF s, t
<1>7. m \in Nat
  BY <1>5, LenProperties
<1>8. \A i \in 1 .. m - 1 : i < m /\ i \in 1 .. m /\ t[i] = s[i]
  <2> TAKE i \in 1 .. m - 1
  <2>1. i \in 1 .. m /\ i < m
    BY <1>7
  <2>2. s[i] = node[list[i]].len
    BY <1>5, <2>1
  <2>3. t[i] = node[r[i]].len /\ r[i] = list[i]
    BY <1>2, <1>6
  <2> QED BY <2>1, <2>2, <2>3
<1>9. Total(s) = s[m] + Total(t) /\ Total(t) \in Int
  BY <1>2, <1>5, <1>6, <1>8, TotalRemoved
<1>10. s[m] = node[list[m]].len /\ node[list[m]].len \in Nat
  BY <1>2, <1>4, <1>5, ChargedType
<1>11. Charge = Total(s) /\ Charge' = Total(t)
  BY <1>3, ChargeIsTotal DEF s
<1> QED BY <1>9, <1>10, <1>11

(* ... a node that is linked is charged...                                 *)
LEMMA ChargeAdded ==
    ASSUME TypeOK, NEW n \in Nodes, list' = <<n>> \o list, node' = node
    PROVE  Charge' = node[n].len + Charge /\ Charge \in Int
<1> DEFINE r == <<n>> \o list
           m == Len(list)
           s == Terms(list, node)
           t == Terms(r, node)
<1>1. /\ list \in Seq(Nodes)
      /\ node \in [Nodes -> [file : Files \cup {None}, len : Lens \cup {0}]]
  BY DEF TypeOK
<1>2. /\ r \in Seq(Nodes) /\ Len(r) = m + 1
      /\ \A i \in 1 .. m + 1 : r[i] = IF i = 1 THEN n ELSE list[i - 1]
  BY <1>1, Prepended
<1> HIDE DEF r
<1>3. /\ s \in Seq(Int) /\ Len(s) = m
      /\ \A i \in 1 .. m : s[i] = node[list[i]].len
  BY <1>1, TermsType
<1> HIDE DEF m
<1>4. /\ t \in Seq(Int) /\ Len(t) = m + 1
      /\ \A i \in 1 .. m + 1 : t[i] = node[r[i]].len
  BY <1>1, <1>2, TermsType
<1> HIDE DEF s, t
<1>5. m \in Nat /\ node[n].len \in Int
  BY <1>3, LenProperties, ChargedType
<1>6. t[1] = node[n].len
  BY <1>2, <1>4, <1>5
<1>7. \A i \in 1 .. m : t[i + 1] = s[i]
  <2> TAKE i \in 1 .. m
  <2>1. i + 1 \in 1 .. m + 1 /\ i + 1 # 1 /\ i + 1 - 1 = i
    BY <1>5
  <2>2. t[i + 1] = node[r[i + 1]].len /\ r[i + 1] = list[i + 1 - 1]
    BY <1>2, <1>4, <2>1 DEF m
  <2>3. t[i + 1] = node[list[i]].len
    BY <2>1, <2>2
  <2> QED BY <1>3, <2>3
<1>8. Total(t) = node[n].len + Total(s) /\ Total(s) \in Int
  BY <1>3, <1>4, <1>5, <1>6, <1>7, TotalPrepended
<1> QED BY <1>8, ChargeIsTotal DEF s, t, r

(* ... and one that is allocated is not in the list yet.                   *)
LEMMA ChargeKept ==
    ASSUME TypeOK, NEW n, n \notin Range(list), NEW x,
           list' = list, node' = [node EXCEPT ![n] = x]
    PROVE  Charge' = Charge
<1>1. /\ list \in Seq(Nodes)
      /\ node \in [Nodes -> [file : Files \cup {None}, len : Lens \cup {0}]]
  BY DEF TypeOK
<1>2. \A i \in DOMAIN list : list[i] \in Range(list) /\ list[i] \in Nodes
  BY <1>1, Members DEF Range
<1>3. \A i \in DOMAIN list : node'[list[i]] = node[list[i]]
  BY <1>1, <1>2
<1>4. Terms(list', node') = Terms(list, node)
  BY <1>3 DEF Terms
<1> QED BY <1>4, ChargeIsTotal

(* A charge is a natural number, in size_t's or in no arithmetic.          *)
LEMMA ChargeType == TypeOK => Charge \in Nat
<1> SUFFICES ASSUME TypeOK PROVE Charge \in Nat
  OBVIOUS
<1> DEFINE s == Terms(list, node)
<1>1. /\ list \in Seq(Nodes)
      /\ node \in [Nodes -> [file : Files \cup {None}, len : Lens \cup {0}]]
  BY DEF TypeOK
<1>2. /\ s \in Seq(Int) /\ Len(s) = Len(list)
      /\ \A i \in 1 .. Len(list) : s[i] = node[list[i]].len
  BY <1>1, TermsType
<1>3. \A i \in 1 .. Len(list) : list[i] \in Nodes
  BY <1>1, Members
<1> HIDE DEF s
<1>4. \A i \in 1 .. Len(s) : s[i] >= 0
  <2> TAKE i \in 1 .. Len(s)
  <2>1. s[i] = node[list[i]].len /\ list[i] \in Nodes
    BY <1>2, <1>3
  <2>2. node[list[i]].len \in Nat
    BY <2>1, ChargedType
  <2> QED BY <2>1, <2>2
<1>5. Total(s) \in Nat
  BY <1>2, <1>4, TotalNat
<1> QED BY <1>5, ChargeIsTotal DEF s

(* The steps that change the budget or the list: remain_cache_size and the *)
(* list's charge move by the length of one node, one against the other, or *)
(* the charge alone shrinks.                                               *)
Unlinks(w, l) ==
    /\ remain' = (remain + l) % SizeMod /\ Charge' = Charge - l
    /\ evicted' = evicted /\ raced' = raced
Links(w, l) ==
    /\ remain' = (remain - l) % SizeMod /\ Charge' = Charge + l
    /\ evicted' = evicted /\ raced' = raced

LEMMA Parts ==
    ASSUME NEW a \in Nat, NEW b \in Nat, NEW l \in Nat, a = l + b
    PROVE  l <= a /\ b = a - l
OBVIOUS

LEMMA BudgetSteps ==
    ASSUME IInv, NEW w \in Workers, Work(w) \/ Peer(w)
    PROVE  /\ remain \in Nat /\ remain < SizeMod /\ Charge \in Nat
           /\ Unlink(w) => /\ node[ptr[w]].len \in Nat /\ node[ptr[w]].len <= Charge
                           /\ Unlinks(w, node[ptr[w]].len)
           /\ LeaveAdd(w) \/ Relink(w) =>
                 node[ptr[w]].len \in Nat /\ Links(w, node[ptr[w]].len)
           /\ LeaveEvict(w) => /\ remain' = remain /\ raced' = raced /\ evicted'
                               /\ Charge' \in Int /\ Charge' <= Charge
           /\ ~Unlink(w) /\ ~Relink(w) /\ ~LeaveAdd(w) /\ ~LeaveEvict(w) =>
                 remain' = remain /\ Charge' = Charge /\ evicted' = evicted
           /\ raced => raced'
<1>1. /\ TypeOK /\ ListInv /\ IsInjective(list) /\ list \in Seq(Nodes)
      /\ remain \in 0 .. SizeMod - 1 /\ SizeMod \in Nat /\ pc \in [Workers -> PC]
  BY ConstAssumption DEF IInv, ListInv, TypeOK
<1>2. remain \in Nat /\ remain < SizeMod /\ Charge \in Nat
  BY <1>1, ChargeType
<1>3. ASSUME Unlink(w)
      PROVE  /\ node[ptr[w]].len \in Nat /\ node[ptr[w]].len <= Charge
             /\ Unlinks(w, node[ptr[w]].len) /\ raced' = raced
  <2> DEFINE l == node[ptr[w]].len
  <2>1. ptr[w] \in Range(list) /\ ptr[w] \in Nodes
    BY <1>1, <1>3, RangeOfSeq DEF Unlink
  <2>2. Charge = l + Charge' /\ Charge' \in Int
    BY <1>1, <1>3, <2>1, ChargeRemoved DEF Unlink
  <2>3. l \in Nat
    BY <1>1, <2>1, ChargedType
  <2>4. remain' = (remain + l) % SizeMod /\ evicted' = evicted /\ raced' = raced
    BY <1>3 DEF Unlink
  <2>5. TypeOK'
    BY <1>3, TypeNext DEF Next, Work
  <2>6. Charge' \in Nat
    <3>1. (TypeOK => Charge \in Nat)'
      BY ChargeType, PTL
    <3> QED BY <2>5, <3>1
  <2> HIDE DEF l
  <2>7. l <= Charge /\ Charge' = Charge - l
    BY <1>2, <2>2, <2>3, <2>6, Parts
  <2> QED BY <2>3, <2>4, <2>7 DEF l, Unlinks
<1>4. ASSUME LeaveAdd(w) \/ Relink(w)
      PROVE  /\ node[ptr[w]].len \in Nat
             /\ Links(w, node[ptr[w]].len) /\ raced' = raced
  <2> DEFINE l == node[ptr[w]].len
  <2>1. ptr[w] \in Nodes
    BY <1>1, <1>4 DEF LeaveAdd, Relink, Step, Unlinked, Private, ListInv, TypeOK
  <2>2. Charge' = l + Charge /\ Charge \in Int
    BY <1>1, <1>4, <2>1, ChargeAdded DEF LeaveAdd, Relink
  <2>3. l \in Nat
    BY <1>1, <2>1, ChargedType
  <2>4. remain' = (remain - l) % SizeMod /\ evicted' = evicted /\ raced' = raced
    BY <1>4 DEF LeaveAdd, Relink, Charged
  <2> HIDE DEF l
  <2>5. Charge' = Charge + l
    BY <1>2, <2>2, <2>3
  <2> QED BY <2>3, <2>4, <2>5 DEF l, Links
<1>5. ASSUME LeaveEvict(w)
      PROVE  /\ remain' = remain /\ raced' = raced /\ evicted'
             /\ Charge' \in Int /\ Charge' <= Charge
  <2>1. /\ list # << >> /\ list' = Front(list) /\ remain' = remain /\ evicted'
        /\ Range(list') \subseteq Range(list) /\ Last(list) \notin Range(list')
        /\ \A n \in Nodes : n # Last(list) => node'[n] = node[n]
    BY <1>5, Evicted
  <2>2. Range(list) \subseteq Nodes
    BY <1>1, RangeOfSeq
  <2>3. \A n \in Range(list') : node'[n] = node[n]
    BY <2>1, <2>2
  <2>4. Charge' \in Int /\ Charge' <= Charge
    BY <1>1, <2>1, <2>3, ChargeEvicted
  <2>5. raced' = raced
    BY <1>5 DEF LeaveEvict
  <2> QED BY <2>1, <2>4, <2>5
<1>6. ASSUME ~Unlink(w), ~Relink(w), ~LeaveAdd(w), ~LeaveEvict(w)
      PROVE  remain' = remain /\ Charge' = Charge /\ evicted' = evicted
             /\ (raced => raced')
  <2>1. CASE Allocate(w)
    BY <1>1, <2>1, AllocatedIsNew, ChargeKept
  <2>2. CASE CheckRoom(w)
    <3>1. UNCHANGED <<list, remain, node, evicted>> /\ (raced => raced')
      BY <2>2 DEF CheckRoom
    <3> QED BY <3>1, ChargeIsTotal
  <2>3. CASE ~Allocate(w) /\ ~CheckRoom(w)
    <3>1. UNCHANGED cache
      BY <1>6, <2>3, CacheUntouched
    <3> QED BY <3>1, ChargeIsTotal DEF cache
  <2> QED BY <2>1, <2>2, <2>3
<1> QED BY <1>2, <1>3, <1>4, <1>5, <1>6

LEMMA MainKeeps ==
    ASSUME UNCHANGED <<cache, local, pc, fault>>
    PROVE  /\ UNCHANGED <<list, remain, node, evicted, raced, pc, ptr, len>>
           /\ Charge' = Charge
BY ChargeIsTotal DEF cache, local

-----------------------------------------------------------------------------
(* The budget follows the list: in size_t arithmetic, so that it may wrap  *)
(* and still agree.                                                        *)
LEMMA ExactNext == IInv /\ Next => ExactUntilEviction'
<1> SUFFICES ASSUME IInv, Next, ~evicted' PROVE remain' = (MaxCache - Charge') % SizeMod
  BY DEF ExactUntilEviction, BudgetExact
<1>1. ExactUntilEviction /\ SizeMod \in Nat /\ SizeMod > 0 /\ MaxCache \in Int
  BY ConstAssumption DEF IInv
<1>2. ~evicted => remain = (MaxCache - Charge) % SizeMod
  BY <1>1 DEF ExactUntilEviction, BudgetExact
<1>3. CASE UNCHANGED <<cache, local, pc, fault>>
  BY <1>2, <1>3, MainKeeps
<1>4. ASSUME NEW w \in Workers, Work(w) \/ Peer(w)
      PROVE  remain' = (MaxCache - Charge') % SizeMod
  <2> DEFINE l == node[ptr[w]].len
             a == MaxCache - Charge
  <2>1. Charge \in Int
    BY <1>4, BudgetSteps
  <2>2. CASE Unlink(w)
    <3>1. /\ l \in Int /\ remain' = (remain + l) % SizeMod
          /\ Charge' = Charge - l /\ evicted' = evicted
      BY <1>4, <2>2, BudgetSteps DEF Unlinks
    <3>2. remain = a % SizeMod
      BY <1>2, <3>1
    <3> HIDE DEF l
    <3>3. a \in Int /\ a - (-l) = MaxCache - Charge' /\ -l \in Int
      BY <1>1, <2>1, <3>1
    <3> HIDE DEF a
    <3>4. ((a % SizeMod) - (-l)) % SizeMod = (a - (-l)) % SizeMod
      BY <1>1, <3>3, ModMinus
    <3>5. (a % SizeMod) + l = (a % SizeMod) - (-l)
      BY <1>1, <3>1, <3>3
    <3> QED BY <3>1, <3>2, <3>3, <3>4, <3>5
  <2>3. CASE LeaveAdd(w) \/ Relink(w)
    <3>1. /\ l \in Int /\ remain' = (remain - l) % SizeMod
          /\ Charge' = Charge + l /\ evicted' = evicted
      BY <1>4, <2>3, BudgetSteps DEF Links
    <3>2. remain = a % SizeMod
      BY <1>2, <3>1
    <3> HIDE DEF l
    <3>3. a \in Int /\ a - l = MaxCache - Charge'
      BY <1>1, <2>1, <3>1
    <3> HIDE DEF a
    <3>4. ((a % SizeMod) - l) % SizeMod = (a - l) % SizeMod
      BY <1>1, <3>1, <3>3, ModMinus
    <3> QED BY <3>1, <3>2, <3>3, <3>4
  <2>4. CASE LeaveEvict(w)
    BY <1>4, <2>4, BudgetSteps
  <2>5. CASE ~Unlink(w) /\ ~Relink(w) /\ ~LeaveAdd(w) /\ ~LeaveEvict(w)
    BY <1>2, <1>4, <2>5, BudgetSteps
  <2> QED BY <2>2, <2>3, <2>4, <2>5
<1> QED BY <1>3, <1>4, MainOrWorker

-----------------------------------------------------------------------------
(* An editor's step finds no other worker in an editor.                    *)
LEMMA AloneInEdit ==
    ASSUME IInv, NEW w \in Workers, Editing(w), NEW v \in Workers, v # w
    PROVE  pc[v] \notin {"moving", "moved", "evicting", "adding"}
BY DEF IInv, OneEditor, Editing

(* Who comes to add, and who to move a node, by which steps.               *)
LEMMA AddingFrom ==
    ASSUME TypeOK, NEW w \in Workers, Work(w) \/ Peer(w), NEW v \in Workers, Adding(v)'
    PROVE  /\ ptr'[v] = ptr[v] /\ len'[v] = len[v]
           /\ Adding(v) \/ (v = w /\ CheckRoom(w) /\ remain >= len[w])
           /\ v = w => ~LeaveAdd(w) /\ ~Relink(w) /\ ~Unlink(w)
<1>1. pc \in [Workers -> PC] /\ pc'[v] \in {"add", "adding"} /\ Private(v)'
  BY DEF TypeOK, Adding, Private
<1>2. ~Allocate(w) \/ v # w
  BY <1>1 DEF Allocate, Step
<1>3. CASE v # w
  BY <1>1, <1>3, OthersUntouched DEF Adding
<1>4. CASE v = w
  <2>1. /\ Private(w) /\ ptr'[w] = ptr[w] /\ len'[w] = len[w]
    BY <1>1, <1>2, <1>4, PrivateFromAllocate
  <2> USE DEF Step, Private, Adding
  <2>2. CASE CheckRoom(w)
    <3>1. remain \in Int /\ len[w] \in Int
      <4>1. \A x : x \in Lens \cup {0} => x \in Int
        BY ConstAssumption
      <4>2. remain \in 0 .. SizeMod - 1 /\ len[w] \in Lens \cup {0}
        BY DEF TypeOK
      <4>3. SizeMod - 1 \in Int
        BY ConstAssumption
      <4> QED BY <4>1, <4>2, <4>3
    <3>2. ~(remain < len[w])
      BY <1>1, <1>4, <2>2 DEF CheckRoom
    <3> QED BY <1>4, <2>1, <2>2, <3>1, <3>2 DEF CheckRoom, LeaveAdd, Relink, Unlink
  <2>3. CASE EnterAdd(w)
    BY <1>4, <2>1, <2>3 DEF EnterAdd, LeaveAdd, Relink, Unlink
  <2>4. CASE ReadBody(w) \/ EnterEvict(w) \/ LeaveEvict(w) \/ LeaveAdd(w)
    BY <1>1, <1>4, <2>4 DEF ReadBody, EnterEvict, LeaveEvict, LeaveAdd
  <2>5. CASE EvictFromEmpty(w) \/ AllocateNone(w)
    BY <1>1, <1>4, <2>5 DEF EvictFromEmpty, AllocateNone
  <2>6. CASE Dequeue(w) \/ EnterFind(w) \/ LeaveFind(w) \/ Close(w)
    BY <2>1, <2>6 DEF Dequeue, EnterFind, LeaveFind, Close
  <2>7. CASE EnterMove(w) \/ Unlink(w) \/ MoveNothing(w) \/ Relink(w)
    BY <2>1, <2>7 DEF EnterMove, Unlink, MoveNothing, Relink
  <2>8. CASE RefuseRequest(w) \/ ReadOk(w) \/ ReadError(w) \/ Bypass(w)
    BY <2>1, <2>8 DEF RefuseRequest, ReadOk, ReadError, Bypass
  <2>9. CASE WriteHeader(w) \/ WriteBody(w) \/ \E f \in Files : ReadRequest(w, f)
    BY <2>1, <2>9 DEF WriteHeader, WriteBody, ReadRequest
  <2> QED BY <1>2, <1>4, <2>2, <2>3, <2>4, <2>5, <2>6, <2>7, <2>8, <2>9 DEF Work, Peer
<1> QED BY <1>3, <1>4

LEMMA MovedFrom ==
    ASSUME TypeOK, NEW w \in Workers, Work(w) \/ Peer(w), NEW v \in Workers,
           pc'[v] = "moved"
    PROVE  /\ ptr'[v] = ptr[v]
           /\ pc[v] = "moved" \/ (v = w /\ Unlink(w))
           /\ v = w /\ pc[w] = "moved" => ~LeaveAdd(w) /\ ~Relink(w) /\ ~CheckRoom(w)
<1>1. pc \in [Workers -> PC]
  BY DEF TypeOK
<1>2. CASE v # w
  BY <1>2, OthersUntouched
<1>3. CASE v = w /\ Unlink(w)
  BY <1>3 DEF Unlink, local, Step
<1>4. CASE v = w /\ ~Unlink(w)
  <2>1. ~Allocate(w) /\ Unlinked(w)'
    BY <1>1, <1>4 DEF Allocate, Step, Unlinked
  <2>2. Unlinked(w) /\ ptr'[w] = ptr[w]
    BY <1>4, <2>1, UnlinkedFrom
  <2>3. CASE pc[w] = "moved"
    BY <1>1, <1>4, <2>2, <2>3 DEF LeaveAdd, Relink, CheckRoom, Step
  <2>4. CASE Private(w)
    <3>1. pc'[w] = "moved" /\ pc[w] \in {"body", "room", "evict", "evicting", "add", "adding"}
      BY <1>4, <2>4 DEF Private
    <3> USE DEF Step
    <3>2. CASE ReadBody(w) \/ CheckRoom(w) \/ EnterEvict(w) \/ LeaveEvict(w)
      BY <1>1, <3>1, <3>2 DEF ReadBody, CheckRoom, EnterEvict, LeaveEvict
    <3>3. CASE EvictFromEmpty(w) \/ EnterAdd(w) \/ LeaveAdd(w) \/ AllocateNone(w)
      BY <1>1, <3>1, <3>3 DEF EvictFromEmpty, EnterAdd, LeaveAdd, AllocateNone
    <3>4. CASE Dequeue(w) \/ EnterFind(w) \/ LeaveFind(w) \/ Close(w)
      BY <1>1, <3>1, <3>4 DEF Dequeue, EnterFind, LeaveFind, Close
    <3>5. CASE EnterMove(w) \/ MoveNothing(w) \/ Relink(w)
      BY <1>1, <3>1, <3>5 DEF EnterMove, MoveNothing, Relink
    <3>6. CASE RefuseRequest(w) \/ ReadOk(w) \/ ReadError(w) \/ Bypass(w)
      BY <1>1, <3>1, <3>6 DEF RefuseRequest, ReadOk, ReadError, Bypass
    <3>7. CASE WriteHeader(w) \/ WriteBody(w) \/ \E f \in Files : ReadRequest(w, f)
      BY <1>1, <3>1, <3>7 DEF WriteHeader, WriteBody, ReadRequest
    <3> QED BY <1>4, <2>1, <3>2, <3>3, <3>4, <3>5, <3>6, <3>7 DEF Work, Peer
  <2> QED BY <2>2, <2>3, <2>4 DEF Unlinked
<1> QED BY <1>2, <1>3, <1>4

(* Only relinking it ends the move of a node.                              *)
LEMMA MovedStays ==
    ASSUME NEW w \in Workers, Work(w) \/ Peer(w), pc[w] = "moved"
    PROVE  Relink(w)
<1> USE DEF Step
<1>1. CASE Dequeue(w) \/ EnterFind(w) \/ LeaveFind(w) \/ Close(w)
  BY <1>1 DEF Dequeue, EnterFind, LeaveFind, Close
<1>2. CASE EnterMove(w) \/ Unlink(w) \/ MoveNothing(w) \/ Allocate(w) \/ AllocateNone(w)
  BY <1>2 DEF EnterMove, Unlink, MoveNothing, Allocate, AllocateNone
<1>3. CASE CheckRoom(w) \/ EnterEvict(w) \/ LeaveEvict(w) \/ EvictFromEmpty(w)
  BY <1>3 DEF CheckRoom, EnterEvict, LeaveEvict, EvictFromEmpty
<1>4. CASE EnterAdd(w) \/ LeaveAdd(w)
  BY <1>4 DEF EnterAdd, LeaveAdd
<1>5. CASE Peer(w)
  BY <1>5 DEF Peer, RefuseRequest, ReadOk, ReadError, Bypass, ReadBody, WriteHeader,
              WriteBody, ReadRequest
<1> QED BY <1>1, <1>2, <1>3, <1>4, <1>5 DEF Work

(* Only the check of the room sends a worker to evict.                     *)
LEMMA EvictFrom ==
    ASSUME TypeOK, NEW w \in Workers, Work(w) \/ Peer(w), NEW v \in Workers,
           pc'[v] \in {"evict", "evicting"}
    PROVE  pc[v] \in {"evict", "evicting"} \/ (v = w /\ CheckRoom(w))
<1>1. pc \in [Workers -> PC]
  BY DEF TypeOK
<1>2. CASE v # w
  BY <1>2, OthersUntouched
<1>3. CASE v = w
  <2> USE DEF Step
  <2>1. CASE Dequeue(w) \/ EnterFind(w) \/ LeaveFind(w) \/ Close(w)
    BY <1>1, <1>3, <2>1 DEF Dequeue, EnterFind, LeaveFind, Close
  <2>2. CASE EnterMove(w) \/ Unlink(w) \/ MoveNothing(w) \/ Relink(w)
    BY <1>1, <1>3, <2>2 DEF EnterMove, Unlink, MoveNothing, Relink
  <2>3. CASE EnterEvict(w) \/ LeaveEvict(w) \/ EvictFromEmpty(w)
    BY <1>1, <1>3, <2>3 DEF EnterEvict, LeaveEvict, EvictFromEmpty
  <2>4. CASE EnterAdd(w) \/ LeaveAdd(w) \/ Allocate(w) \/ AllocateNone(w)
    BY <1>1, <1>3, <2>4 DEF EnterAdd, LeaveAdd, Allocate, AllocateNone
  <2>5. CASE RefuseRequest(w) \/ ReadOk(w) \/ ReadError(w) \/ Bypass(w) \/ ReadBody(w)
    BY <1>1, <1>3, <2>5 DEF RefuseRequest, ReadOk, ReadError, Bypass, ReadBody
  <2>6. CASE WriteHeader(w) \/ WriteBody(w) \/ \E f \in Files : ReadRequest(w, f)
    BY <1>1, <1>3, <2>6 DEF WriteHeader, WriteBody, ReadRequest
  <2> QED BY <1>3, <2>1, <2>2, <2>3, <2>4, <2>5, <2>6 DEF Work, Peer
<1> QED BY <1>2, <1>3

(* Lengths are natural numbers, and sums that fit do not wrap.             *)
LEMMA Lengths == TypeOK => \A w \in Workers : len[w] \in Nat
<1> SUFFICES ASSUME TypeOK, NEW w \in Workers PROVE len[w] \in Nat
  OBVIOUS
<1>1. \A x : x \in Lens \cup {0} => x \in Nat
  BY ConstAssumption
<1>2. len[w] \in Lens \cup {0}
  BY DEF TypeOK
<1> QED BY <1>1, <1>2

LEMMA Shrunk ==
    ASSUME NEW r \in Nat, NEW a \in Nat, NEW b \in Int, b <= a, r + a <= MaxCache
    PROVE  r + b <= MaxCache
BY ConstAssumption

LEMMA NoWrap ==
    ASSUME NEW a \in Int, a >= 0, a <= MaxCache
    PROVE  a % SizeMod = a
BY ConstAssumption

-----------------------------------------------------------------------------
(* The whole of the cache is charged once, until two workers take the same *)
(* room: what is unlinked was charged, and what is linked had its room.    *)
LEMMA BudgetNext == IInv /\ Next => BudgetUntilRace'
<1> SUFFICES ASSUME IInv, Next, ~raced'
             PROVE  /\ remain' + Charge' <= MaxCache
                    /\ ~evicted' => remain' + Charge' = MaxCache
  BY DEF BudgetUntilRace
<1>1. /\ TypeOK /\ Filled /\ BudgetUntilRace /\ RoomUntilRace
      /\ MaxCache \in Nat /\ pc \in [Workers -> PC]
  BY ConstAssumption DEF IInv, TypeOK
<1>2. CASE UNCHANGED <<cache, local, pc, fault>>
  BY <1>1, <1>2, MainKeeps DEF BudgetUntilRace
<1>3. ASSUME NEW w \in Workers, Work(w) \/ Peer(w)
      PROVE  /\ remain' + Charge' <= MaxCache
             /\ ~evicted' => remain' + Charge' = MaxCache
  <2> DEFINE l == node[ptr[w]].len
  <2>1. remain \in Nat /\ Charge \in Nat /\ (raced => raced')
    BY <1>3, BudgetSteps
  <2>2. ~raced /\ remain + Charge <= MaxCache /\ (~evicted => remain + Charge = MaxCache)
    BY <1>1, <2>1 DEF BudgetUntilRace
  <2>3. CASE Unlink(w)
    <3>1. /\ l \in Nat /\ l <= Charge /\ remain' = (remain + l) % SizeMod
          /\ Charge' = Charge - l /\ evicted' = evicted
      BY <1>3, <2>3, BudgetSteps DEF Unlinks
    <3> HIDE DEF l
    <3>2. remain + l \in Int /\ remain + l >= 0 /\ remain + l <= MaxCache
      BY <1>1, <2>1, <2>2, <3>1
    <3>3. remain' = remain + l
      BY <3>1, <3>2, NoWrap
    <3> QED BY <2>1, <2>2, <3>1, <3>3
  <2>4. CASE LeaveAdd(w) \/ Relink(w)
    <3>1. /\ l \in Nat /\ remain' = (remain - l) % SizeMod
          /\ Charge' = Charge + l /\ evicted' = evicted
      BY <1>3, <2>4, BudgetSteps DEF Links
    <3>2. l <= remain
      <4>1. CASE Relink(w)
        BY <1>1, <2>2, <4>1 DEF Relink, Step, RoomUntilRace
      <4>2. CASE LeaveAdd(w)
        <5>1. pc[w] = "adding" /\ node[ptr[w]] = [file |-> file[w], len |-> len[w]]
          BY <1>1, <4>2 DEF LeaveAdd, Step, Filled, Private
        <5>2. l = len[w]
          BY <5>1
        <5>3. len[w] <= remain
          BY <1>1, <2>2, <5>1 DEF RoomUntilRace, Adding
        <5> QED BY <5>2, <5>3
      <4> QED BY <2>4, <4>1, <4>2
    <3> HIDE DEF l
    <3>3. remain - l \in Int /\ remain - l >= 0 /\ remain - l <= MaxCache
      BY <1>1, <2>1, <2>2, <3>1, <3>2
    <3>4. remain' = remain - l
      BY <3>1, <3>3, NoWrap
    <3> QED BY <2>1, <2>2, <3>1, <3>4
  <2>5. CASE LeaveEvict(w)
    <3>1. remain' = remain /\ evicted' /\ Charge' \in Int /\ Charge' <= Charge
      BY <1>3, <2>5, BudgetSteps
    <3>3. remain + Charge' <= MaxCache
      BY <2>1, <2>2, <3>1, Shrunk
    <3> QED BY <3>1, <3>3
  <2>6. CASE ~Unlink(w) /\ ~Relink(w) /\ ~LeaveAdd(w) /\ ~LeaveEvict(w)
    <3>1. remain' = remain /\ Charge' = Charge /\ evicted' = evicted
      BY <1>3, <2>6, BudgetSteps
    <3> QED BY <2>2, <3>1
  <2> QED BY <2>3, <2>4, <2>5, <2>6
<1> QED BY <1>2, <1>3, MainOrWorker

(* A node on its way to the front is neither changed nor passed by another *)
(* editor...                                                               *)
LEMMA MovedAlone ==
    ASSUME IInv, NEW w \in Workers, Work(w) \/ Peer(w),
           NEW v \in Workers, pc[v] = "moved", pc'[v] = "moved"
    PROVE  /\ remain' = remain /\ ptr'[v] = ptr[v] /\ node'[ptr[v]] = node[ptr[v]]
           /\ ~Unlink(w) /\ ~Relink(w) /\ ~LeaveAdd(w) /\ ~LeaveEvict(w)
<1>1. /\ TypeOK /\ ListInv /\ pc \in [Workers -> PC]
      /\ node \in [Nodes -> [file : Files \cup {None}, len : Lens \cup {0}]]
  BY DEF IInv, TypeOK
<1>2. ptr'[v] = ptr[v] /\ (v = w => ~Relink(w))
  BY <1>1, MovedFrom
<1>3. v # w
  BY <1>2, MovedStays
<1>4. ~Editing(w)
  BY <1>3, AloneInEdit
<1>5. ~Unlink(w) /\ ~Relink(w) /\ ~LeaveAdd(w) /\ ~LeaveEvict(w)
  BY <1>4 DEF Editing, Unlink, Relink, LeaveAdd, LeaveEvict, Step
<1>6. remain' = remain
  BY <1>5, BudgetSteps
<1>7. node'[ptr[v]] = node[ptr[v]]
  <2>1. CASE Allocate(w)
    <3>1. ptr[v] \in live /\ ptr[v] \in Nodes
      BY <1>1 DEF ListInv, Unlinked, TypeOK
    <3>2. ptr'[w] \in Nodes \ live
          /\ node' = [node EXCEPT ![ptr'[w]] = [file |-> file[w], len |-> len[w]]]
      BY <2>1, AllocatedIsNew
    <3> QED BY <1>1, <3>1, <3>2
  <2>2. CASE ~Allocate(w)
    BY <1>5, <2>2, NodeUntouched
  <2> QED BY <2>1, <2>2
<1> QED BY <1>2, <1>5, <1>6, <1>7

(* ... so the room that has been found stays, until a second worker finds  *)
(* it.                                                                     *)
LEMMA RoomRaceNext == IInv /\ Next => RoomUntilRace'
<1> SUFFICES ASSUME IInv, Next, ~raced' PROVE RoomUntilRace'
  BY DEF RoomUntilRace
<1>1. TypeOK /\ RoomUntilRace /\ BudgetUntilRace /\ pc \in [Workers -> PC]
  BY DEF IInv, TypeOK
<1>2. CASE UNCHANGED <<cache, local, pc, fault>>
  BY <1>1, <1>2, MainKeeps DEF RoomUntilRace, Adding
<1>3. ASSUME NEW w \in Workers, Work(w) \/ Peer(w) PROVE RoomUntilRace'
  <2> DEFINE l == node[ptr[w]].len
  <2>1. remain \in Nat /\ Charge \in Nat /\ ~raced
    BY <1>3, BudgetSteps
  <2>2. \A v \in Workers : pc[v] = "moved" => node[ptr[v]].len <= remain
    BY <1>1, <2>1 DEF RoomUntilRace
  <2>3. \A u \in Workers : Adding(u) =>
          /\ len[u] <= remain
          /\ \A v \in Workers \ {u} : ~Adding(v)
          /\ \A v \in Workers :
                pc[v] = "moved" => len[u] + node[ptr[v]].len <= remain
    BY <1>1, <2>1 DEF RoomUntilRace
  <2>4. ASSUME Unlink(w)
        PROVE  l \in Nat /\ remain' = remain + l /\ node' = node
    <3>1. l \in Nat /\ l <= Charge /\ remain' = (remain + l) % SizeMod
      BY <1>3, <2>4, BudgetSteps DEF Unlinks
    <3> HIDE DEF l
    <3>2. remain + Charge <= MaxCache /\ MaxCache \in Nat
      BY <1>1, <2>1, ConstAssumption DEF BudgetUntilRace
    <3>3. remain + l \in Int /\ remain + l >= 0 /\ remain + l <= MaxCache
      BY <2>1, <3>1, <3>2
    <3>4. remain' = remain + l
      BY <3>1, <3>3, NoWrap
    <3> QED BY <2>4, <3>1, <3>4 DEF Unlink
  <2>5. ASSUME NEW v \in Workers, pc'[v] = "moved"
        PROVE  /\ ptr'[v] = ptr[v]
               /\ pc[v] = "moved" \/ (v = w /\ Unlink(w))
    BY <1>1, <1>3, <2>5, MovedFrom
  <2>6. ASSUME NEW u \in Workers, Adding(u)'
        PROVE  /\ ptr'[u] = ptr[u] /\ len'[u] = len[u]
               /\ Adding(u) \/ (u = w /\ CheckRoom(w) /\ remain >= len[w])
               /\ u = w => ~LeaveAdd(w) /\ ~Relink(w) /\ ~Unlink(w)
    BY <1>1, <1>3, <2>6, AddingFrom
  <2>7. ASSUME CheckRoom(w), remain >= len[w], NEW v \in Workers, v # w,
               Adding(v) \/ pc[v] = "moved"
        PROVE  FALSE
    BY <2>7 DEF CheckRoom, Unsettled, Adding
  <2>8. ASSUME NEW v \in Workers, pc'[v] = "moved"
        PROVE  node'[ptr'[v]].len <= remain'
    <3>1. CASE pc[v] = "moved"
      <4>1. remain' = remain /\ ptr'[v] = ptr[v] /\ node'[ptr[v]] = node[ptr[v]]
        BY <1>3, <2>8, <3>1, MovedAlone
      <4> QED BY <2>2, <3>1, <4>1
    <3>2. CASE v = w /\ Unlink(w)
      <4>1. l \in Nat /\ remain' = remain + l /\ node'[ptr'[v]].len = l
        BY <2>4, <2>5, <2>8, <3>2
      <4> HIDE DEF l
      <4> QED BY <2>1, <4>1
    <3> QED BY <2>5, <2>8, <3>1, <3>2
  <2>9. ASSUME NEW u \in Workers, Adding(u)'
        PROVE  len'[u] <= remain'
    <3>1. len'[u] = len[u] /\ len[u] \in Nat
      BY <1>1, <2>6, <2>9, Lengths
    <3>2. len[u] <= remain
      BY <2>1, <2>3, <2>6, <2>9, <3>1
    <3>3. CASE Unlink(w)
      <4>1. l \in Nat /\ remain' = remain + l
        BY <2>4, <3>3
      <4> HIDE DEF l
      <4> QED BY <2>1, <3>1, <3>2, <4>1
    <3>4. CASE Relink(w)
      <4>1. pc[w] = "moved" /\ Adding(u)
        BY <2>6, <2>9, <3>4 DEF Relink, CheckRoom, Step
      <4>2. len[u] + l <= remain
        BY <2>3, <4>1
      <4>3. l \in Nat /\ remain' = (remain - l) % SizeMod
        BY <1>3, <3>4, BudgetSteps DEF Links
      <4> HIDE DEF l
      <4>4. remain <= MaxCache
        BY <1>1, <2>1, ConstAssumption DEF BudgetUntilRace
      <4>5. remain - l \in Int /\ remain - l >= 0 /\ remain - l <= MaxCache
        BY <2>1, <3>1, <4>2, <4>3, <4>4, ConstAssumption
      <4>6. remain' = remain - l
        BY <4>3, <4>5, NoWrap
      <4> QED BY <2>1, <3>1, <4>2, <4>3, <4>6
    <3>5. ~LeaveAdd(w)
      <4> SUFFICES ASSUME LeaveAdd(w) PROVE FALSE
        OBVIOUS
      <4>1. Adding(w) /\ ~CheckRoom(w)
        BY DEF LeaveAdd, CheckRoom, Adding, Step
      <4>2. u # w /\ Adding(u)
        BY <2>6, <2>9, <4>1
      <4> QED BY <2>3, <4>1, <4>2
    <3>6. CASE ~Unlink(w) /\ ~Relink(w)
      <4>1. remain' = remain
        BY <1>3, <3>5, <3>6, BudgetSteps
      <4> QED BY <3>1, <3>2, <4>1
    <3> QED BY <3>3, <3>4, <3>6
  <2>10. ASSUME NEW u \in Workers, Adding(u)', NEW v \in Workers \ {u}, Adding(v)'
         PROVE  FALSE
    <3>1. Adding(u) \/ (u = w /\ CheckRoom(w) /\ remain >= len[w])
      BY <2>6, <2>10
    <3>2. Adding(v) \/ (v = w /\ CheckRoom(w) /\ remain >= len[w])
      BY <2>6, <2>10
    <3>3. CASE Adding(u) /\ Adding(v)
      BY <2>3, <3>3
    <3>4. CASE u = w /\ CheckRoom(w) /\ remain >= len[w] /\ Adding(v)
      BY <2>7, <3>4
    <3>5. CASE v = w /\ CheckRoom(w) /\ remain >= len[w] /\ Adding(u)
      BY <2>7, <3>5
    <3> QED BY <3>1, <3>2, <3>3, <3>4, <3>5
  <2>11. ASSUME NEW u \in Workers, Adding(u)', NEW v \in Workers, pc'[v] = "moved"
         PROVE  len'[u] + node'[ptr'[v]].len <= remain'
    <3>1. len'[u] = len[u] /\ len[u] \in Nat /\ ptr'[v] = ptr[v]
      BY <1>1, <2>5, <2>6, <2>11, Lengths
    <3>2. CASE pc[v] = "moved"
      <4>1. remain' = remain /\ node'[ptr[v]] = node[ptr[v]]
        BY <1>3, <2>11, <3>2, MovedAlone
      <4>2. ~(u = w /\ CheckRoom(w) /\ remain >= len[w])
        <5>1. CheckRoom(w) => v # w
          BY <3>2 DEF CheckRoom, Step
        <5> QED BY <2>7, <3>2, <5>1
      <4>3. Adding(u)
        BY <2>6, <2>11, <4>2
      <4> QED BY <2>3, <3>1, <3>2, <4>1, <4>3
    <3>3. CASE v = w /\ Unlink(w)
      <4>1. l \in Nat /\ remain' = remain + l /\ node'[ptr'[v]].len = l
        BY <2>4, <3>1, <3>3
      <4>2. Adding(u)
        BY <2>6, <2>11, <3>3 DEF Unlink, CheckRoom, Step
      <4>3. len[u] <= remain
        BY <2>3, <4>2
      <4> HIDE DEF l
      <4> QED BY <2>1, <3>1, <4>1, <4>3
    <3> QED BY <2>5, <2>11, <3>2, <3>3
  <2> QED BY <2>8, <2>9, <2>10, <2>11 DEF RoomUntilRace
<1> QED BY <1>2, <1>3, MainOrWorker

-----------------------------------------------------------------------------
(* Before the first eviction the list is empty only when the whole cache   *)
(* is free, or when its one node is on its way to the front.               *)
LEMMA RoomNext == IInv /\ Next => RoomUntilEviction'
<1> SUFFICES ASSUME IInv, Next, ~evicted',
                    NEW v \in Workers, pc'[v] \in {"evict", "evicting"}
             PROVE  list' # << >> \/ \E u \in Workers : pc'[u] = "moved"
  BY DEF RoomUntilEviction
<1>1. /\ TypeOK /\ FitsCache /\ ExactUntilEviction /\ RoomUntilEviction
      /\ list \in Seq(Nodes) /\ pc \in [Workers -> PC]
  BY DEF IInv, TypeOK
<1>2. CASE UNCHANGED <<cache, local, pc, fault>>
  BY <1>1, <1>2 DEF cache, RoomUntilEviction
<1>3. ASSUME NEW w \in Workers, Work(w) \/ Peer(w)
      PROVE  list' # << >> \/ \E u \in Workers : pc'[u] = "moved"
  <2>1. CASE Unlink(w)
    BY <1>1, <2>1 DEF Unlink, Step
  <2>2. CASE Relink(w) \/ LeaveAdd(w)
    <3>1. list' = <<ptr[w]>> \o list /\ ptr[w] \in Nodes
      BY <1>1, <2>2
         DEF IInv, ListInv, Unlinked, Private, Relink, LeaveAdd, Step, TypeOK
    <3>2. Len(list') = Len(list) + 1 /\ Len(list) \in Nat
      BY <1>1, <3>1, Prepended, LenProperties
    <3> QED BY <3>2
  <2>3. ~LeaveEvict(w)
    BY <1>3, BudgetSteps
  <2>4. CASE ~Unlink(w) /\ ~Relink(w) /\ ~LeaveAdd(w)
    <3>1. list' = list /\ evicted' = evicted
      <4>1. CASE Allocate(w)
        BY <4>1, AllocatedIsNew
      <4>2. CASE CheckRoom(w)
        BY <4>2 DEF CheckRoom
      <4>3. CASE ~Allocate(w) /\ ~CheckRoom(w)
        BY <1>3, <2>3, <2>4, <4>3, CacheUntouched DEF cache
      <4> QED BY <4>1, <4>2, <4>3
    <3>2. ASSUME NEW u \in Workers, pc[u] = "moved" PROVE pc'[u] = "moved"
      <4>1. u # w
        BY <1>3, <2>4, <3>2, MovedStays
      <4> QED BY <1>1, <1>3, <3>2, <4>1, OthersUntouched
    <3>3. CASE pc[v] \in {"evict", "evicting"}
      <4>1. list # << >> \/ \E u \in Workers : pc[u] = "moved"
        BY <1>1, <3>1, <3>3 DEF RoomUntilEviction
      <4> QED BY <3>1, <3>2, <4>1
    <3>4. CASE v = w /\ CheckRoom(w)
      <4>1. pc[w] = "room" /\ remain < len[w]
        BY <1>1, <3>4 DEF CheckRoom, Step
      <4>2. len[w] <= MaxObject /\ len[w] \in Nat
        BY <1>1, <4>1, Lengths DEF FitsCache, Private
      <4>3. remain < MaxCache
        <5>1. remain \in Nat
          BY <1>3, BudgetSteps
        <5> QED BY <4>1, <4>2, <5>1, ConstAssumption
      <4>4. remain = (MaxCache - Charge) % SizeMod
        BY <1>1, <3>1 DEF ExactUntilEviction, BudgetExact
      <4>5. list # << >>
        <5> SUFFICES ASSUME list = << >> PROVE FALSE
          OBVIOUS
        <5>1. Charge = 0
          BY EmptyTotal, ChargeIsTotal
        <5>2. (MaxCache - 0) % SizeMod = MaxCache
          BY ConstAssumption
        <5> QED BY <4>3, <4>4, <5>1, <5>2, ConstAssumption
      <4> QED BY <3>1, <4>5
    <3>5. pc[v] \in {"evict", "evicting"} \/ (v = w /\ CheckRoom(w))
      BY <1>1, <1>3, EvictFrom
    <3> QED BY <3>3, <3>4, <3>5
  <2> QED BY <2>1, <2>2, <2>4
<1> QED BY <1>2, <1>3, MainOrWorker

-----------------------------------------------------------------------------
LEMMA IInvInit == Init => IInv
<1> SUFFICES ASSUME Init PROVE IInv
  OBVIOUS
<1>1. TypeOK
  BY TypeInit
<1>2. /\ queue = << >> /\ list = << >> /\ live = {} /\ fault = "none" /\ ~evicted
      /\ offered[Main] = None /\ remain = MaxCache /\ writing = {}
      /\ \A w \in Workers : pc[w] = "idle" /\ taken[w] = None /\ reply[w] = None
  BY DEF Init, Fifo!FifoInit, RW!RWInit
<1>3. /\ IsInjective(<< >>) /\ Range(<< >>) = {}
  <2>1. << >> \in Seq({}) /\ Len(<< >>) = 0
    OBVIOUS
  <2>2. IsInjective(<< >>)
    <3>1. \A i, j \in 1 .. Len(<< >>) : << >>[i] = << >>[j] => i = j
      BY <2>1
    <3> QED BY <2>1, <3>1, Injective
  <2> QED BY <2>2 DEF Range
<1>4. OneOwner
  BY <1>2, <1>3 DEF OneOwner
<1>5. OneEditor
  BY <1>2 DEF OneEditor, Editing
<1>6. Requested /\ FitsCache /\ Filled
  BY <1>2 DEF Requested, FitsCache, Filled, Private
<1>7. ListInv
  BY <1>2, <1>3 DEF ListInv, Unlinked, Private
<1>8. ExactUntilEviction /\ BudgetUntilRace
  <2>1. Charge = 0
    BY <1>2, EmptyTotal, ChargeIsTotal
  <2>2. MaxCache = (MaxCache - 0) % SizeMod /\ MaxCache \in Nat
    BY ConstAssumption
  <2> QED BY <1>2, <2>1, <2>2 DEF ExactUntilEviction, BudgetExact, BudgetUntilRace
<1>9. RoomUntilEviction /\ RoomUntilRace
  BY <1>2 DEF RoomUntilEviction, RoomUntilRace, Adding
<1>10. ServedUntilEviction /\ FoundUntilEviction
  BY <1>2 DEF ServedUntilEviction, FoundUntilEviction, Found
<1> QED BY <1>1, <1>4, <1>5, <1>6, <1>7, <1>8, <1>9, <1>10 DEF IInv

LEMMA IInvStutter == IInv /\ UNCHANGED vars => IInv'
<1> SUFFICES ASSUME IInv, UNCHANGED vars PROVE IInv'
  OBVIOUS
<1> USE DEF vars, fifo, lock, cache, local
<1>1. TypeOK' /\ OneOwner'
  BY DEF IInv, TypeOK, OneOwner
<1>2. Requested' /\ FitsCache'
  BY DEF IInv, Requested, Replying, FitsCache, Private
<1>8. Filled'
  BY DEF IInv, Filled, Private
<1>3. OneEditor' /\ ListInv'
  BY DEF IInv, OneEditor, Editing, ListInv, Unlinked, Private
<1>4. Charge' = Charge
  BY ChargeIsTotal
<1>5. ExactUntilEviction' /\ BudgetUntilRace'
  BY <1>4 DEF IInv, ExactUntilEviction, BudgetExact, BudgetUntilRace
<1>6. RoomUntilEviction' /\ RoomUntilRace'
  BY DEF IInv, RoomUntilEviction, RoomUntilRace, Adding
<1>7. ServedUntilEviction' /\ FoundUntilEviction'
  BY DEF IInv, ServedUntilEviction, FoundUntilEviction, Found
<1> QED BY <1>1, <1>2, <1>3, <1>5, <1>6, <1>7, <1>8 DEF IInv

(* The inductive invariant, for any number of threads, connections, files  *)
(* and nodes.                                                              *)
THEOREM Invariance == Spec => []IInv
<1>1. IInv /\ Next => IInv'
  BY TypeNext, OneOwnerNext, OneEditorNext, RequestedNext, FitsCacheNext, ListInvNext,
     FilledNext, ExactNext, RoomNext, ServedNext, FoundNext, BudgetNext, RoomRaceNext
     DEF IInv
<1>2. IInv /\ [Next]_vars => IInv'
  BY <1>1, IInvStutter
<1> QED BY IInvInit, <1>2, PTL DEF Spec

(* remain_cache_size stays a size_t, the buffer within SBUFSIZE, and every *)
(* pointer a worker holds is NULL or what malloc once returned.            *)
THEOREM TypeCorrect == Spec => []TypeOK
<1>1. IInv => TypeOK
  BY DEF IInv
<1> QED BY <1>1, Invariance, PTL

(* From accept to Close a connection has one owner: main, the buffer or    *)
(* one worker, so that no descriptor is served or closed twice.            *)
THEOREM OwnedOnce == Spec => []OneOwner
<1>1. IInv => OneOwner
  BY DEF IInv
<1> QED BY <1>1, Invariance, PTL

(* Whatever insertions, moves and evictions interleave, the list of        *)
(* webcache.c has distinct, allocated, filled nodes, and no worker's       *)
(* unlinked node is in it or another worker's.                             *)
THEOREM ListSound == Spec => []ListInv
<1>1. IInv => ListInv
  BY DEF IInv
<1> QED BY <1>1, Invariance, PTL

(* Until two workers take the same room, what the list holds and what is   *)
(* left do not exceed MAX_CACHE_SIZE, and are equal to it until            *)
(* remove_last_ts first runs, in integers: remain_cache_size does not      *)
(* wrap, although do_client reads it without the lock.                     *)
THEOREM BudgetKept == Spec => []BudgetUntilRace
<1>1. IInv => BudgetUntilRace
  BY DEF IInv
<1> QED BY <1>1, Invariance, PTL

(* Until a node is evicted a client gets the file it asked for, or         *)
(* nothing, and no worker reads a freed node or evicts from the empty      *)
(* list.                                                                   *)
THEOREM ServedRight == Spec => []ServedUntilEviction
<1>1. IInv => ServedUntilEviction
  BY DEF IInv
<1> QED BY <1>1, Invariance, PTL
=============================================================================
