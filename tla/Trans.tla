------------------------------- MODULE Trans -------------------------------
(***************************************************************************)
(* trans.c run by test-trans.c: for each registered function, tracegen     *)
(* transposes a fresh matrix and validates the result, and the trace of    *)
(* its memory accesses is given to the cache simulator.                    *)
(*                                                                         *)
(* Matrices are the arrays of tracegen.c by their cells: A[i][j] is cell   *)
(* i * M + j and B[i][j] cell BBase + i * N + j, whatever M and N, so that *)
(* an index out of its row falls where it does in C.  One step is one      *)
(* iteration of the loop above the innermost: a sequence of loads, and of  *)
(* stores of values loaded before, simulated in their order.  Registers    *)
(* and loop counters are on the stack, which the trace leaves out.         *)
(***************************************************************************)
EXTENDS CacheSim

CONSTANTS
    Shapes,         \* the options -M and -N: records [M, N]
    MarkerCell,     \* the cell of MARKER_START and MARKER_END, and the cells
    CallCells,      \* loaded to call a function: func_list, M and N
    Missing         \* a random number that is in no cell of A

VARIABLES
    shape,      \* the options given
    func,       \* i of eval_perf, counted from 1: the function under test
    phase,      \* "next" function, or its "loops"
    at,         \* loop variables: block at row i and column j, its part, its row k
    b,          \* the contents of B
    cache,      \* the simulated cache and its counters
    results     \* results of test-trans.c

tvars == <<shape, func, phase, at, b, cache, results>>

NoMisses == 2147483647   \* INT_MAX

(* eval_perf(5, 1, 5): 32 sets of one line of 8 ints.                       *)
Direct == GetOptsFromInput(5, 1, 5)
MaxN == 256
BBase == MaxN * MaxN
IntSize == 4

(* test-trans.c:219-229 refuses 0, and more than MAXN.                      *)
ASSUME ShapesAssumption == Shapes \subseteq [M : 1 .. MaxN, N : 1 .. MaxN]

(* registerFunctions                                                        *)
FuncList == <<"transpose_submit", "trans">>

M == shape.M
N == shape.N
A(i, j) == i * M + j
B(i, j) == BBase + i * N + j

(* A cell of A holds a value of its own inside the matrix and 0 beyond it,  *)
(* where tracegen's static array was not filled.                            *)
InA(c) == IF c < M * N THEN c + 1 ELSE 0
Correct(i, j) == InA(A(i, j))   \* C[j][i] of correctTrans
Contents(c) == IF c < BBase THEN InA(c) ELSE b[c]

Load(c) == [op |-> "L", cell |-> c, from |-> c]
Store(c, from) == [op |-> "S", cell |-> c, from |-> from]
Each(n, Access(_)) == [q \in 1 .. n |-> Access(q - 1)]
Every(n, Accesses(_)) == FlattenSeq([q \in 1 .. n |-> Accesses(q - 1)])

(* Stores between the loads: the rows of A and B with one set in the cache  *)
(* throw each other out.                                                    *)
CopyRowInTurn(i, j, k) ==
    Every(8, LAMBDA q : <<Load(A(i + k, j + q)), Store(B(j + k, i + q), A(i + k, j + q))>>)

(* Lines 37-55 and 77-99: row k of a block of A into row k of the block of  *)
(* B, not transposed.                                                       *)
CopyRow(i, j, k) ==
    Each(8, LAMBDA q : Load(A(i + k, j + q)))
        \o Each(8, LAMBDA q : Store(B(j + k, i + q), A(i + k, j + q)))

Exchange(x, y) == <<Load(x), Load(y), Store(x, y), Store(y, x)>>

(* Lines 57-65: row k of the block of B and its column k.                   *)
SwapRow(i, j, k) ==
    Every(7 - k, LAMBDA q : Exchange(B(j + k, i + k + 1 + q), B(j + k + 1 + q, i + k)))

(* The right half forgotten.                                                *)
SwapLeftHalf(i, j, k) ==
    Every(3 - k, LAMBDA q : Exchange(B(j + k, i + k + 1 + q), B(j + k + 1 + q, i + k)))

(* Lines 102-112: the same in the two halves of 4 columns.                  *)
SwapHalves(i, j, k) ==
    Every(3 - k, LAMBDA q :
        Exchange(B(j + k, i + k + 1 + q), B(j + k + 1 + q, i + k)) \o
        Exchange(B(j + k, i + k + 1 + q + 4), B(j + k + 1 + q, i + k + 4)))

(* Lines 114-132: the top right of B moves to its bottom left, and two      *)
(* columns of A take its place and fill the bottom right.                   *)
MoveRow(i, j, k) ==
    Every(4, LAMBDA q : <<Load(A(i + 4 + q, j + k)), Load(A(i + 4 + q, j + 4 + k))>>)
        \o Every(4, LAMBDA q : <<Load(B(j + k, i + 4 + q)),
                                 Store(B(j + k, i + 4 + q), A(i + 4 + q, j + k))>>)
        \o Every(4, LAMBDA q : <<Store(B(j + k + 4, i + q), B(j + k, i + 4 + q)),
                                 Store(B(j + k + 4, i + 4 + q), A(i + 4 + q, j + 4 + k))>>)

(* Lines 145-163: column s of a block of A into row s of B.                 *)
Column(i, s) ==
    Each(8, LAMBDA q : Load(A(i + q, s))) \o
    Each(8, LAMBDA q : Store(B(s, i + q), A(i + q, s)))

(* Lines 169-172: from column j to column end of row k of A.    *)
Row(k, j, end) ==
    Every(end - j, LAMBDA q : <<Load(A(k, j + q)), Store(B(j + q, k), A(k, j + q))>>)

(* Lines 193-198, one row.                                                  *)
RowWise(i) == Row(i, 0, M)

Smaller(x, y) == IF x > y THEN y ELSE x

(* The nests of loops: the last row, the step of i and j, and the parts of  *)
(* the block at i and j with their number of iterations.  The nest for      *)
(* M = 32 takes N for 32 as well (line 31).                                 *)
Nest(i, j) ==
    IF func = 2 THEN
        [last |-> N, rows |-> 1, cols |-> M, parts |-> <<[does |-> "row", times |-> 1]>>]
    ELSE IF M = 32 THEN
        [last |-> 32, rows |-> 8, cols |-> 8,
         parts |-> <<[does |-> "copy", times |-> 8], [does |-> "swap", times |-> 8]>>]
    ELSE IF M = 64 THEN
        [last |-> N, rows |-> 8, cols |-> 8,
         parts |-> <<[does |-> "copy", times |-> 4], [does |-> "halves", times |-> 4],
                     [does |-> "move", times |-> 4]>>]
    ELSE
        [last |-> N, rows |-> 8, cols |-> 23,
         parts |-> IF i + 8 <= N /\ j + 23 <= M
                   THEN <<[does |-> "column", times |-> 23]>>
                   ELSE <<[does |-> "corner", times |-> Smaller(i + 8, N) - i]>>]

Here == Nest(at.i, at.j)
Part == Here.parts[at.part]

Iteration(does, i, j, k) ==
    CASE does = "row" -> RowWise(i)
      [] does = "copy" -> CopyRow(i, j, k)
      [] does = "swap" -> SwapRow(i, j, k)
      [] does = "halves" -> SwapHalves(i, j, k)
      [] does = "move" -> MoveRow(i, j, k)
      [] does = "column" -> Column(i, j + k)
      [] does = "corner" -> Row(i + k, j, Smaller(j + 23, M))

After ==
    IF at.k + 1 < Part.times THEN [at EXCEPT !.k = @ + 1]
    ELSE IF at.part < Len(Here.parts) THEN [at EXCEPT !.part = @ + 1, !.k = 0]
    ELSE IF at.j + Here.cols < M
         THEN [at EXCEPT !.j = @ + Here.cols, !.part = 1, !.k = 0]
    ELSE [at EXCEPT !.i = @ + Here.rows, !.j = 0, !.part = 1, !.k = 0]

Simulated(c, accesses) ==
    FoldLeft(LAMBDA x, y : Simulate(Direct, x, y.op, IntSize * y.cell), c, accesses)

(* B after the accesses: each cell has what its last store had loaded.     *)
Written(accesses) ==
    LET stores == {q \in DOMAIN accesses : accesses[q].op = "S"}
        last == [c \in {accesses[q].cell : q \in stores} |->
                    Max({q \in stores : accesses[q].cell = c})]
    IN  [c \in DOMAIN b |->
            IF c \in DOMAIN last THEN Contents(accesses[last[c]].from) ELSE b[c]]

Start == [i |-> 0, j |-> 0, part |-> 1, k |-> 0]
Larger(x, y) == IF x > y THEN x ELSE y
FreshB == [c \in BBase .. BBase + M * Larger(M, N) - 1 |-> Missing]

TransInit ==
    /\ shape \in Shapes
    /\ func = 0 /\ phase = "next"
    /\ at = Start /\ b = <<>> /\ cache = NewCache(Direct)
    /\ results = [funcid |-> 0, correct |-> 0, misses |-> NoMisses]

(* tracegen -F func: the matrices are filled anew, and the call begins.     *)
StartFunction ==
    /\ phase = "next" /\ func < Len(FuncList)
    /\ func' = func + 1 /\ phase' = "loops"
    /\ at' = Start /\ b' = FreshB
    /\ cache' = Simulated(NewCache(Direct),
                  <<Store(MarkerCell, MarkerCell)>> \o
                  [q \in DOMAIN CallCells |-> Load(CallCells[q])])
    /\ results' = IF FuncList[func'] = "transpose_submit"
                  THEN [results EXCEPT !.funcid = func'] ELSE results
    /\ UNCHANGED shape

Iterate ==
    /\ phase = "loops" /\ at.i < Here.last
    /\ LET accesses == Iteration(Part.does, at.i, at.j, at.k) IN
        /\ b' = Written(accesses)
        /\ cache' = Simulated(cache, accesses)
    /\ at' = After
    /\ UNCHANGED <<shape, func, phase, results>>

Validates ==
    \A i \in 0 .. N - 1, j \in 0 .. M - 1 : b[B(j, i)] = Correct(i, j)

(* validate compares B with correctTrans; test-trans skips the evaluation   *)
(* of a function it rejects (lines 73-76).                                  *)
Validate ==
    /\ phase = "loops" /\ at.i >= Here.last
    /\ phase' = "next"
    /\ cache' = Simulated(cache, <<Store(MarkerCell, MarkerCell)>>)
    /\ results' = IF Validates /\ results.funcid = func
                  THEN [results EXCEPT !.correct = 1, !.misses = cache'.misses]
                  ELSE results
    /\ UNCHANGED <<shape, func, at, b>>

TransNext == StartFunction \/ Iterate \/ Validate
TransSpec == TransInit /\ [][TransNext]_tvars

(* The shapes the lab grades, with the misses that still score in full      *)
(* (driver.py:94-96).                                                       *)
FullScore == <<[M |-> 32, N |-> 32, misses |-> 300],
               [M |-> 64, N |-> 64, misses |-> 1300],
               [M |-> 61, N |-> 67, misses |-> 2000]>>
Supported == func = 1 => (M = 32 => N = 32) /\ (M = 64 => N % 8 = 0)

(* Blocks that were left are transposed and stay so: the loops write only   *)
(* where the block at i and j belongs, though two parts of the three write  *)
(* values that are not in their place yet.                                  *)
BlocksLeftTransposed ==
    phase = "loops" /\ Supported =>
        \A i \in 0 .. N - 1, j \in 0 .. M - 1 :
            \/ i < at.i
            \/ i < at.i + Here.rows /\ j < at.j
            => b[B(j, i)] = Correct(i, j)

(* The submission is correct and scores in full on each graded shape.       *)
ScoresInFull ==
    func = Len(FuncList) /\ phase = "next" =>
        \A x \in DOMAIN FullScore :
            FullScore[x].M = M /\ FullScore[x].N = N =>
                results.correct = 1 /\ results.misses <= FullScore[x].misses
=============================================================================
