------------------------------ MODULE MCLabs -------------------------------
(***************************************************************************)
(* Instances for TLC of the programs of the cache lab and the data lab, of *)
(* the shell's parser and of the proxy's cache lock, which know nothing of *)
(* each other: a behaviour runs one of them, and the others stay at one of *)
(* their initial states.                                                   *)
(***************************************************************************)
EXTENDS Csim, Trans, Btest, Parseline, CacheLock

CONSTANTS worker1, worker2, worker3

VARIABLE program

lvars == vars
all == <<program, cvars, tvars, bvars, pvars, lvars>>

(* The smallest number of workers with a reader in, a reader on its way in  *)
(* or out, and an editor waiting.                                           *)
MCThreads == {worker1, worker2, worker3}

(* Two lines a set with room for five blocks, three, and a direct mapping.  *)
MCGeometries ==
    {GetOptsFromInput(1, 2, 1), GetOptsFromInput(1, 3, 0), GetOptsFromInput(2, 1, 1)}
MCAddresses == {0, 2, 4, 8, 12}

(* The three graded shapes, and one that the nest for M = 32 overruns.      *)
MCShapes == {[M |-> 32, N |-> 32], [M |-> 64, N |-> 64], [M |-> 61, N |-> 67],
             [M |-> 32, N |-> 16]}
MCCallCells == <<131200, 131074, 131073>>

MCRoot == <<4, 2, 1>>
MCRandomWords == {Hex(4660, 22136), Hex(51966, 47806)}

(* Words a user may give with -1: runs of ones and their complements, all   *)
(* exponents with fractions at their ends, and small integers.              *)
Ends == {0, 1, 2, 3, 4, 7, 8, 15, 16, 23, 24, 29, 30, 31}
Runs == {low .. high : low \in Ends, high \in Ends}
Floats == {Shl(Digits(e), 23) \cup f \cup t :
               e \in 0 .. 255, f \in {{}, {0}, 0 .. 22}, t \in {{}, {31}}}
Small == {WordOf(n) : n \in -160 .. 160}
Interesting == {WordOf(n) : n \in {-2, -1, 0, 1, 2}} \cup {{31}, 0 .. 30, {31, 0}, 1 .. 30}
Given(puzzle) ==
    CASE puzzle.args = 0 -> {<<>>}
      [] puzzle.args = 1 ->
            {<<x>> : x \in Small \cup (IF puzzle.float THEN Floats
                                       ELSE Runs \cup {Not(y) : y \in Runs})}
      [] puzzle.args = 2 -> Interesting \X Interesting
      [] puzzle.args = 3 -> {<<x, y, z>> : x \in Interesting, y, z \in {{31}, 0 .. 30}}
Default == [fname |-> NoName, given |-> <<>>]
MCOptions ==
    {Default} \cup UNION {{[fname |-> TestSet[n].name, given |-> g] :
                              g \in Given(TestSet[n])} : n \in DOMAIN TestSet}

(* Up to three words, with one or two spaces between them.                  *)
MCWords ==
    {[text |-> x, quoted |-> FALSE] : x \in {<<"a">>, <<"&">>, <<"&", "a">>, <<"a", "'">>}}
        \cup {[text |-> x, quoted |-> TRUE] : x \in {<<>>, <<"&">>, <<" ", "a", " ">>}}
Gaps(n) == {g \in [1 .. n + 1 -> 0 .. 2] :
               g[1] # 1 /\ g[n + 1] # 1 /\ \A m \in 2 .. n : g[m] > 0}
TypedLines(n) == {[words |-> t, gaps |-> g] : t \in [1 .. n -> MCWords], g \in Gaps(n)}
MCTyped == UNION {TypedLines(n) : n \in 0 .. 3}
NothingTyped == [words |-> <<>>, gaps |-> <<0>>]

Initially == CsimInit /\ TransInit /\ BtestInit
IdleCsim == geometry = GetOptsFromInput(1, 2, 1)
IdleTrans == shape = [M |-> 32, N |-> 32]
IdleBtest == options = Default
IdleParser == typed = NothingTyped /\ Copied
LabsInit ==
    /\ Initially /\ Init
    /\ \/ program = "csim" /\ IdleTrans /\ IdleBtest /\ IdleParser
       \/ program = "test-trans" /\ IdleCsim /\ IdleBtest /\ IdleParser
       \/ program = "btest" /\ IdleCsim /\ IdleTrans /\ IdleParser
       \/ program = "tsh" /\ IdleCsim /\ IdleTrans /\ IdleBtest /\ ParseInit
       \/ program = "proxy" /\ IdleCsim /\ IdleTrans /\ IdleBtest /\ IdleParser

LabsNext ==
    /\ UNCHANGED program
    /\ \/ program = "csim" /\ CsimNext /\ UNCHANGED <<tvars, bvars, pvars, lvars>>
       \/ program = "test-trans" /\ TransNext /\ UNCHANGED <<cvars, bvars, pvars, lvars>>
       \/ program = "btest" /\ BtestNext /\ UNCHANGED <<cvars, tvars, pvars, lvars>>
       \/ program = "tsh" /\ ParseNext /\ UNCHANGED <<cvars, tvars, bvars, lvars>>
       \/ program = "proxy" /\ Next /\ UNCHANGED <<cvars, tvars, bvars, pvars>>

(* The threads of the lock are scheduled; the other programs may stop.      *)
LabsSpec == LabsInit /\ [][LabsNext]_all /\ Fairness
=============================================================================
