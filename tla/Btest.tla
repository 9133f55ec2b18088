------------------------------- MODULE Btest -------------------------------
(***************************************************************************)
(* btest.c: run_tests goes through test_set; test_function generates the   *)
(* values of each argument, sets an alarm, and compares the solution with  *)
(* the reference on every combination, up to the first error.  SIGALRM     *)
(* jumps back into test_function with siglongjmp, also when that call has  *)
(* returned: nothing cancels the alarm of a function whose test is over,   *)
(* and the next alarm is set only after the values of the next function    *)
(* were generated.                                                         *)
(***************************************************************************)
EXTENDS Bits, SequencesExt

CONSTANTS
    Options,        \* -f and -1, -2, -3: records [fname, given]
    TestRange,      \* TEST_RANGE
    Root,           \* Root[n], the n-th root of TestRange
    RandomWords,    \* what random_val may return
    MaxTimeouts     \* bound: alarms that go off before a test is over

(* 12 * range + 4 values must fit in 13 * range.                            *)
ASSUME RangeAssumption ==
    /\ TestRange \in Nat /\ TestRange >= 4
    /\ RandomWords \subseteq Word
    /\ \A n \in 1 .. 3 : Root[n] \in 0 .. TestRange

MaxTestVals == 13 * TestRange
NoName == ""

Puzzle(name, args, rating, float) ==
    [name |-> name, args |-> args, rating |-> rating, float |-> float]
TestSet == <<
    Puzzle("bitXor", 2, 1, FALSE), Puzzle("tmin", 0, 1, FALSE),
    Puzzle("isTmax", 1, 1, FALSE), Puzzle("allOddBits", 1, 2, FALSE),
    Puzzle("negate", 1, 2, FALSE), Puzzle("isAsciiDigit", 1, 3, FALSE),
    Puzzle("conditional", 3, 3, FALSE), Puzzle("isLessOrEqual", 2, 3, FALSE),
    Puzzle("logicalNeg", 1, 4, FALSE), Puzzle("howManyBits", 1, 4, FALSE),
    Puzzle("floatScale2", 1, 4, TRUE), Puzzle("floatFloat2Int", 1, 4, TRUE),
    Puzzle("floatPower2", 1, 4, TRUE)>>

VARIABLES
    options,    \* test_fname, and has_arg with argval
    i,          \* the index in test_set
    stage,      \* where the run is
    vals,       \* arg_test_vals, up to each argument's count
    pos,        \* a1, a2, a3
    terrors,    \* errors of test_function
    errors, points,     \* of run_tests
    alarm,      \* whether an alarm is pending
    timeouts    \* alarms so far

bvars == <<options, i, stage, vals, pos, terrors, errors, points, alarm, timeouts>>

This == TestSet[i]

BothSigns(x) == <<x, x \cup {Sign}>>

(* Two regions more than the 12 values a round that MAX_TEST_VALS allows.   *)
FloatValsMore(range) ==
    FlattenSeq([n \in 1 .. range |->
        FlattenSeq([q \in 1 .. 7 |-> BothSigns(Add(Hex(128 * q, 0), WordOf(n - 1)))])])

(* The values for floats: around zero, the norm to denorm transition and    *)
(* one, below the largest norm, each with both signs; then inf and nan.     *)
FloatVals(range) ==
    LET around(n) ==
            BothSigns(WordOf(n)) \o
            BothSigns(Add(Hex(128, 0), WordOf(n))) \o
            BothSigns(Add(Hex(128, 0), WordOf(-n))) \o
            BothSigns(Add(Hex(16256, 0), WordOf(n))) \o
            BothSigns(Add(Hex(16256, 0), WordOf(-n))) \o
            BothSigns(Add(Hex(32512, 0), WordOf(-n)))
    IN  FlattenSeq([n \in 1 .. range |-> around(n - 1)])
            \o BothSigns(Hex(32640, 0)) \o BothSigns(Hex(32704, 0))

(* The values for ints, from TMin to TMax: the ends of the range, around    *)
(* zero, and a random one.                                                  *)
IntVals(range, random) ==
    FlattenSeq([n \in 1 .. range |->
        <<Add(Hex(32768, 0), WordOf(n - 1)), Add(Hex(32767, 65535), WordOf(1 - n)),
          WordOf(n - 1), WordOf(1 - n), random[n]>>])

ArgRange(args) == Max({Root[args], 1})

BtestInit ==
    /\ options \in Options
    /\ i = 1 /\ stage = "select"
    /\ vals = <<>> /\ pos = <<>>
    /\ terrors = 0 /\ errors = 0 /\ points = 0
    /\ alarm = FALSE /\ timeouts = 0

Selected(n) == options.fname \in {NoName, TestSet[n].name}
FirstFrom(n) == Min({m \in n .. Len(TestSet) : Selected(m)} \cup {Len(TestSet) + 1})

Select ==
    /\ stage = "select" /\ i <= Len(TestSet)
    /\ i' = FirstFrom(i)
    /\ stage' = IF i' <= Len(TestSet) THEN "values" ELSE stage
    /\ UNCHANGED <<options, vals, pos, terrors, errors, points, alarm, timeouts>>

(* One call of gen_vals, for the next argument.                             *)
GenVals ==
    /\ stage = "values" /\ Len(vals) < This.args
    /\ LET arg == Len(vals) + 1
           range == ArgRange(This.args) IN
        \/ /\ arg <= Len(options.given)
           /\ vals' = Append(vals, <<options.given[arg]>>)
        \/ /\ arg > Len(options.given) /\ This.float
           /\ vals' = Append(vals, FloatVals(range))
        \/ /\ arg > Len(options.given) /\ ~This.float
           /\ \E random \in [1 .. range -> RandomWords] :
                  vals' = Append(vals, IntVals(range, random))
    /\ UNCHANGED <<options, i, stage, pos, terrors, errors, points, alarm, timeouts>>

(* sigsetjmp and alarm.                                                     *)
SetAlarm ==
    /\ stage = "values" /\ Len(vals) = This.args
    /\ alarm' = TRUE
    /\ stage' = "tests" /\ pos' = [a \in 1 .. This.args |-> 1]
    /\ UNCHANGED <<options, i, vals, terrors, errors, points, timeouts>>

Arguments == [a \in 1 .. This.args |-> vals[a][pos[a]]]
Errors(name, a) == IF Solution(name, a) # Reference(name, a) THEN 1 ELSE 0

(* The innermost index that can still move, 0 when the loops are over.      *)
Innermost == Max({a \in 1 .. This.args : pos[a] < Len(vals[a])} \cup {0})
NextPos == [a \in 1 .. This.args |->
               IF a < Innermost THEN pos[a] ELSE IF a = Innermost THEN pos[a] + 1 ELSE 1]

Test ==
    /\ stage = "tests"
    /\ terrors' = terrors + Errors(This.name, Arguments)
    /\ IF terrors' > 0 \/ Innermost = 0
       THEN stage' = "score" /\ pos' = pos
       ELSE pos' = NextPos /\ stage' = stage
    /\ UNCHANGED <<options, i, vals, errors, points, alarm, timeouts>>

Score ==
    /\ stage = "score"
    /\ errors' = errors + terrors
    /\ points' = points + (IF terrors = 0 THEN This.rating ELSE 0)
    /\ i' = i + 1 /\ stage' = "select"
    /\ vals' = <<>> /\ pos' = <<>> /\ terrors' = 0
    /\ UNCHANGED <<options, alarm, timeouts>>

(* timeout_handler: during the tests the jump ends them with an error;      *)
(* elsewhere it returns into a call that is over, and the behaviour is      *)
(* undefined.                                                               *)
TimeOut ==
    /\ alarm /\ timeouts < MaxTimeouts
    /\ alarm' = FALSE /\ timeouts' = timeouts + 1
    /\ IF stage = "tests"
       THEN terrors' = 1 /\ stage' = "score"
       ELSE stage' = "undefined" /\ terrors' = terrors
    /\ UNCHANGED <<options, i, vals, pos, errors, points>>

BtestNext ==
    \/ Select \/ GenVals \/ SetAlarm \/ Test \/ Score
    \/ i <= Len(TestSet) /\ TimeOut

(* Every solution agrees with its reference on whatever btest tests: the    *)
(* only errors are time-outs, and arguments the solutions are known to get  *)
(* wrong, which have to be given with -1: none of those btest generates.    *)
OnlyKnownErrors ==
    errors + terrors > timeouts =>
        /\ options.fname # NoName
        /\ Wrong(options.fname, options.given)

(* gen_vals stays inside arg_test_vals.                                     *)
ValuesFit == \A a \in DOMAIN vals : Len(vals[a]) <= MaxTestVals
=============================================================================
