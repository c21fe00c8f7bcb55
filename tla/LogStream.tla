----------------------------- MODULE LogStream -----------------------------
(***************************************************************************)
(* logstream: a stream whose text has a level, and which writes to the log *)
(* file what has no greater level than the print level.  A character is    *)
(* the number of characters put before it; what the program puts into the  *)
(* stream is queued in todo and taken from there one character or          *)
(* manipulator at a time.                                                  *)
(***************************************************************************)
EXTENDS Integers, Sequences, SequencesExt

CONSTANTS
    BufSize,   \* buf_sz: characters in the stream's buffer
    FileBuf    \* characters the C library keeps before it writes to the file

ASSUME LogAssumption == BufSize \in Nat \ {0} /\ FileBuf \in Nat \ {0}

VARIABLES
    todo,        \* operations on the stream still to be done
    buf,         \* the characters before pptr()
    level, printLevel,
    pending,     \* written, but still with the C library
    disk,        \* in the file
    count,       \* characters put so far
    due          \* history: the characters put while their level was printed

logVars == <<todo, buf, level, printLevel, pending, disk, count, due>>

Char == <<"char", 0>>
Sync == <<"sync", 0>>

Fatal == 1
Information == 3
Debug == 5

\* The stream is a global: its level is 0 before the constructor, which does
\* not set it.
LogInit ==
    /\ todo = << >> /\ buf = << >> /\ pending = << >> /\ disk = << >> /\ due = << >>
    /\ level = 0
    /\ printLevel = Information
    /\ count = 0

Printed == printLevel >= level

\* fwrite: external
Written(text) ==
    IF Len(pending \o text) < FileBuf
    THEN pending' = pending \o text /\ disk' = disk
    ELSE pending' = << >> /\ disk' = disk \o pending \o text

\* flush() and sync(), but for the buffer's new content
Flush == IF Printed THEN Written(buf) ELSE UNCHANGED <<pending, disk>>

\* Mutant: the character that did not fit is dropped.
OverflowDropping ==
    IF Len(buf) = BufSize
    THEN Flush /\ buf' = << >>
    ELSE buf' = Append(buf, count) /\ UNCHANGED <<pending, disk>>

\* sputc and overflow
PutIntoBuffer ==
    IF Len(buf) = BufSize
    THEN Flush /\ buf' = <<count>>
    ELSE buf' = Append(buf, count) /\ UNCHANGED <<pending, disk>>

PutCharacter ==
    /\ todo # << >> /\ Head(todo) = Char
    /\ PutIntoBuffer
    /\ count' = count + 1
    /\ due' = IF Printed THEN Append(due, count) ELSE due
    /\ todo' = Tail(todo)
    /\ UNCHANGED <<level, printLevel>>

Synchronise ==
    /\ todo # << >> /\ Head(todo) = Sync
    /\ Flush
    /\ buf' = << >>
    /\ todo' = Tail(todo)
    /\ UNCHANGED <<level, printLevel, count, due>>

SetLevel ==
    /\ todo # << >> /\ Head(todo)[1] = "level"
    /\ IF level = Head(todo)[2] THEN UNCHANGED <<buf, pending, disk>> ELSE Flush /\ buf' = << >>
    /\ level' = Head(todo)[2]
    /\ todo' = Tail(todo)
    /\ UNCHANGED <<printLevel, count, due>>

LogStep == PutCharacter \/ Synchronise \/ SetLevel

\* << text << endl
Line(length) == [k \in 1 .. length + 1 |-> Char] \o <<Sync>>

\* operator<<(logstream &, log_level): the level, and two lines about it
Manipulator(n) == <<<<"level", n>>>> \o Line(0) \o Line(1)

Say(operations) ==
    /\ todo' = operations
    /\ UNCHANGED <<buf, level, printLevel, pending, disk, count, due>>

\* It does not flush what is in the buffer.
SetPrintLevel(n) ==
    /\ printLevel' = n
    /\ UNCHANGED <<todo, buf, level, pending, disk, count, due>>

\* The destructor flushes the buffer and closes the file.
CloseLog ==
    /\ disk' = disk \o pending \o (IF Printed THEN buf ELSE << >>)
    /\ buf' = << >> /\ pending' = << >>
    /\ UNCHANGED <<todo, level, printLevel, count, due>>

\* The process is killed: only the file is left.
LoseLog ==
    /\ buf' = << >> /\ pending' = << >> /\ todo' = << >>
    /\ UNCHANGED <<level, printLevel, disk, count, due>>

\* Nothing that is due is missing, doubled or out of order, and nothing else
\* is written, whatever the level was changed to meanwhile.
NothingLostYet == disk \o pending \o (IF Printed THEN buf ELSE << >>) = due
=============================================================================
