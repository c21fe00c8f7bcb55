----------------------------- MODULE SoundMain -----------------------------
(***************************************************************************)
(* sound-match as a program: its arguments, the two files, the search      *)
(* (module SoundMatch), and the times that are printed.                    *)
(***************************************************************************)
EXTENDS SoundMatch

CONSTANTS
    Rate,    \* sample rate of the haystack
    Sixty    \* 60: seconds of a minute, minutes of an hour

ASSUME RateAssumption == Rate \in Nat \ {0} /\ Sixty \in Nat \ {0}

VARIABLES
    arguments,   \* [version, count]: is "--version" there, argc - 1
    needle,      \* what the first file is: "stereo", "mono", "empty", "missing"
    stage,       \* "init", "open", "match", then how the program ends
    shown        \* the times printed

mainVars == <<arguments, needle, stage, shown>>

\* The samples of the needle are taken four bytes apart: of a mono file every
\* second one, so that what is searched for is not in the haystack.
SoundInit ==
    /\ Init
    /\ arguments \in [version : BOOLEAN, count : 1..3]
    /\ needle \in {"stereo", "mono", "empty", "missing"}
    /\ needle = "mono" => place = Nowhere
    /\ arguments # [version |-> FALSE, count |-> 2] \/ needle \notin {"stereo", "mono"} => hayLen = N
    /\ stage = "init" /\ shown = << >>

Options ==
    /\ stage = "init"
    /\ stage' = IF arguments.version THEN "exit 0" ELSE IF arguments.count # 2 THEN "exit 1" ELSE "open"
    /\ UNCHANGED <<vars, arguments, needle, shown>>

\* A file that cannot be opened is read nevertheless, and the length of the
\* haystack is divided by that of the needle.
Open ==
    /\ stage = "open"
    /\ stage' = IF needle \in {"empty", "missing"} THEN "crash" ELSE "match"
    /\ UNCHANGED <<vars, arguments, needle, shown>>

Match ==
    /\ stage = "match"
    /\ Next
    /\ UNCHANGED mainVars

TimeOf(position) ==
    LET second == position \div Rate
    IN  [hours   |-> second \div (Sixty * Sixty), minutes |-> (second \div Sixty) % Sixty,
         seconds |-> second % Sixty]

PrintResults ==
    /\ stage = "match" /\ pc = "done"
    /\ shown' = [k \in DOMAIN results |-> TimeOf(results[k])]
    /\ stage' = "exit 0"
    /\ UNCHANGED <<vars, arguments, needle>>

\* A vector was left; with what follows is not said.
Overrun ==
    /\ stage = "match" /\ pc = "overrun"
    /\ stage' = "crash"
    /\ UNCHANGED <<vars, arguments, needle, shown>>

SoundNext == Options \/ Open \/ Match \/ PrintResults \/ Overrun

SoundSpec == SoundInit /\ [][SoundNext]_<<vars, mainVars>>

SoundFairSpec == SoundSpec /\ WF_<<vars, mainVars>>(SoundNext)

-----------------------------------------------------------------------------
(* Properties.                                                             *)

Seconds(t) == Sixty * Sixty * t.hours + Sixty * t.minutes + t.seconds

\* When the program has searched and ends with 0: a needle that lies in two
\* neighbouring whole parts of the haystack, and begins within the first of
\* them, is printed with the time at which it begins, also when the two parts
\* were read with different pieces.
PrintedAcross ==
    stage = "exit 0" /\ ~arguments.version
        /\ place # Nowhere /\ place % N # 0 /\ place + N <= N * Records =>
            \E k \in DOMAIN shown : Seconds(shown[k]) = place \div Rate

\* The program ends: the search is over at some time, and so is the printing.
SoundEnds == <>(stage \in {"exit 0", "exit 1", "crash"})
=============================================================================
