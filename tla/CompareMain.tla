----------------------------- MODULE CompareMain -----------------------------
(***************************************************************************)
(* waveform-compare as a program: its options, the test of the channel,    *)
(* and then the main loop (module WaveformCompare).                        *)
(***************************************************************************)
EXTENDS WaveformCompare

CONSTANTS
    MaxChannels   \* bound: channels of a file

VARIABLES
    args,      \* the options given; files is the number of input files
    has,       \* channels of the two files, 0 for a file that AudioFile refuses
    stage      \* "init", "open", "main", then the exit code

mainVars == <<args, has, stage>>

Flags == {"help", "version", "info"}

\* Files of all lengths are compared with these arguments only.
Usual == [flags |-> {}, files |-> 2, channel |-> 1, blockSize |-> 1]

MainInit ==
    /\ Init
    /\ args \in [flags : SUBSET Flags, files : 0..3, channel : 0..MaxChannels, blockSize : {0, 1}]
    /\ has \in [1..2 -> 0..MaxChannels]
    /\ args # Usual \/ has # <<2, 2>> => lenA \in {0, 6} /\ lenB = 7
    /\ stage = "init"

\* init: what is asked for about the program comes first; then there must be
\* two files.
Options ==
    /\ stage = "init"
    /\ stage' = IF args.flags # {} THEN "exit 0"
                ELSE IF args.files = 2 THEN "open" ELSE "exit 1"
    /\ UNCHANGED <<vars, args, has>>

\* The channel must be in both files.
Open ==
    /\ stage = "open"
    /\ stage' = IF args.channel >= has[1] \/ args.channel >= has[2] THEN "exit 1" ELSE "main"
    /\ UNCHANGED <<vars, args, has>>

Keep == UNCHANGED mainVars

\* Blocks of no samples: the first ones look like the end of both files.
EmptyBlock ==
    /\ stage = "main" /\ args.blockSize = 0 /\ pc = "loop"
    /\ pc' = "report"
    /\ block' = block + 1
    /\ UNCHANGED <<padShortBlock, lenA, lenB, readA, readB, first, success, firstOffset,
                   minimumVal, failure, compared, looked>>
    /\ Keep

Loop ==
    /\ stage = "main"
    /\ args.blockSize > 0 \/ pc = "report"
    /\ Next
    /\ Keep

\* main returns what the report does.
Return ==
    /\ stage = "main" /\ Finished
    /\ stage' = IF pc = "return 0" THEN "exit 0" ELSE "exit 1"
    /\ UNCHANGED <<vars, args, has>>

MainNext == Options \/ Open \/ EmptyBlock \/ Loop \/ Return

MainSpec == MainInit /\ [][MainNext]_<<vars, mainVars>>

MainFairSpec == MainSpec /\ WF_<<vars, mainVars>>(MainNext)

-----------------------------------------------------------------------------
(* Properties.                                                             *)

\* A program that was to compare two files and ends with 0 found the channel in
\* both and every block it compared acceptable.  It has looked at all of files whose
\* short blocks are padded, and of others if they have the same length at all but a
\* last piece of less than half a block; of files of different lengths that are not
\* padded perhaps at little, and for a block size of 0 at nothing.
SuccessLooked ==
    stage = "exit 0" /\ args.flags = {} =>
        /\ \A k \in DOMAIN compared : Accepted(k)
        /\ args.channel < has[1] /\ args.channel < has[2]
        /\ IF args.blockSize = 0 THEN minimumVal = Two ELSE AllLookedAt

\* The program ends.
MainEnds == <>(stage \in {"exit 0", "exit 1"})
=============================================================================
