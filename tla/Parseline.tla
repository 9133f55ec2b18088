----------------------------- MODULE Parseline -----------------------------
(***************************************************************************)
(* parseline of tsh.c: the command line is cut into arguments in place,    *)
(* in a static array whose characters are overwritten with the ends of     *)
(* strings; argv points into it.  One step is one round of the loop.       *)
(***************************************************************************)
EXTENDS SequencesExt

CONSTANTS
    Typed       \* what a user may mean: [words, gaps]; a word is [text, quoted]

VARIABLES
    typed,      \* what the user meant
    array,      \* the characters of the local copy
    buf,        \* the position in it
    delim,      \* the end of the argument at buf; 0 for NULL
    argv,       \* the positions where arguments start
    bg          \* the result, "none" until there is one

pvars == <<typed, array, buf, delim, argv, bg>>

Nul == "0"
Quote == "'"

Spaces(n) == [m \in 1 .. n |-> " "]
Shown(word) == IF word.quoted THEN <<Quote>> \o word.text \o <<Quote>> ELSE word.text

(* The line: spaces of the given lengths around and between the words.      *)
CommandLine(t) ==
    Spaces(t.gaps[1]) \o
        FlattenSeq([n \in DOMAIN t.words |-> Shown(t.words[n]) \o Spaces(t.gaps[n + 1])])

(* strchr: the first of a character in the string at a position, or 0.      *)
StrEnd(a, from) == CHOOSE n \in from .. Len(a) :
                      a[n] = Nul /\ \A m \in from .. n - 1 : a[m] # Nul
StrChr(a, from, ch) ==
    LET found == {n \in from .. StrEnd(a, from) : a[n] = ch} IN
    IF found = {} THEN 0 ELSE CHOOSE n \in found : \A m \in found : n <= m
String(a, from) == SubSeq(a, from, StrEnd(a, from) - 1)

SkipSpaces(a, from) == CHOOSE n \in from .. Len(a) :
                          a[n] # " " /\ \A m \in from .. n - 1 : a[m] = " "

(* Quotes are characters like any other.                                    *)
ArgumentSpaced(a, from) ==
    LET start == SkipSpaces(a, from) IN [buf |-> start, delim |-> StrChr(a, start, " ")]

(* Where the next argument starts, and the character behind it.             *)
Argument(a, from) ==
    LET start == SkipSpaces(a, from) IN
    IF a[start] = Quote
    THEN [buf |-> start + 1, delim |-> StrChr(a, start + 1, Quote)]
    ELSE [buf |-> start, delim |-> StrChr(a, start, " ")]

Advance(a, from) == buf' = Argument(a, from).buf /\ delim' = Argument(a, from).delim

(* The local copy, with a space for the newline, and the first argument.    *)
Copied ==
    /\ array = CommandLine(typed) \o <<" ", Nul>>
    /\ buf = Argument(array, 1).buf
    /\ delim = Argument(array, 1).delim
    /\ argv = <<>> /\ bg = "none"

ParseInit == typed \in Typed /\ Copied

NextArgument ==
    /\ bg = "none" /\ delim # 0
    /\ argv' = Append(argv, buf)
    /\ array' = [array EXCEPT ![delim] = Nul]
    /\ Advance(array', delim + 1)
    /\ UNCHANGED <<typed, bg>>

(* A last argument that begins with & is dropped and means background; so   *)
(* does a line without arguments.                                           *)
Return ==
    /\ bg = "none" /\ delim = 0
    /\ bg' = IF argv = <<>> \/ array[Last(argv)] = "&" THEN "yes" ELSE "no"
    /\ argv' = IF argv # <<>> /\ bg' = "yes" THEN Front(argv) ELSE argv
    /\ UNCHANGED <<typed, array, buf, delim>>

ParseNext == NextArgument \/ Return

-----------------------------------------------------------------------------
Ampersand == [text |-> <<"&">>, quoted |-> FALSE]
Meant(t) == IF t.words # <<>> /\ Last(t.words) = Ampersand THEN Front(t.words) ELSE t.words

(* Where the code does not do what the handout asks: a last word that only  *)
(* begins with an ampersand, or is quoted, is taken for one (tsh.c:318).    *)
Misread(t) ==
    t.words # <<>> /\ Last(t.words) # Ampersand
        /\ Last(t.words).text # <<>> /\ Last(t.words).text[1] = "&"

(* Every command line gives the arguments that were typed, a quoted one     *)
(* with its spaces and an empty one as such, and runs in the background     *)
(* when it ends in an ampersand; and argv[0], which builtin_cmd compares    *)
(* without a test, is NULL only for a line without a command.               *)
ArgsAsTyped ==
    (bg # "none" /\ ~Misread(typed)) =>
        /\ [n \in DOMAIN argv |-> String(array, argv[n])]
              = [n \in DOMAIN Meant(typed) |-> Meant(typed)[n].text]
        /\ bg = "yes" <=> typed.words = <<>> \/ Last(typed.words) = Ampersand
=============================================================================
