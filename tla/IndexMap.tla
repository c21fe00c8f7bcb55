------------------------------ MODULE IndexMap ------------------------------
(***************************************************************************)
(* The catalogue of a fingerprint database: the text file "map_<db>" and   *)
(* the std::map that open() builds from it.                                *)
(*                                                                         *)
(* A line of the file is a record [end, name]: fingerprints up to and      *)
(* including position `end' (counted from 1) belong to the track `name'.   *)
(***************************************************************************)
EXTENDS Naturals, SequencesExt

CONSTANTS
    Spaced,   \* names with white space in them
    NoName,   \* the empty name: `-i -' without `-n'
    Cut       \* a word of a name with white space in it

\* A word begins with a digit only if it is a number, and that only as a whole name.
ASSUME NamesAssumption == NoName \notin Spaced /\ Cut \notin Spaced \union {NoName} \union Nat

\* How far `while (fin >> id >> file)' is: at a number, at a name with the id
\* that is read, or at its end, as what stood in the place of a number is none.
Begin == [at |-> "id", id |-> 0, read |-> << >>]

\* The next word of the file
ReadWord(a, word) ==
    CASE a.at = "id" /\ word \in Nat    -> [a EXCEPT !.at = "name", !.id = word]
      [] a.at = "id" /\ word \notin Nat -> [a EXCEPT !.at = "failed"]
      [] a.at = "name"   -> [a EXCEPT !.at = "id", !.read = Append(@, [end |-> a.id, name |-> word])]
      [] a.at = "failed" -> a

\* A line is its number and the words of its name.
ReadLine(a, line) ==
    LET number == ReadWord(a, line.end) IN
    CASE line.name = NoName    -> number
      [] line.name \in Spaced  -> ReadWord(ReadWord(number, Cut), Cut)
      [] OTHER                 -> ReadWord(number, line.name)

\* The ids and names that the loop delivers.  The loop does not know of lines:
\* in the place of an empty name it reads the number of the next line, and the
\* name of that line, unless it is empty too, in the place of a number.
ReadMap(lines) == FoldLeft(ReadLine, Begin, lines).read

\* idToFile[id] = file for every line in turn: a later line with the same
\* end replaces an earlier one.
ToIds(lines) ==
    [e \in {lines[i].end : i \in DOMAIN lines} |->
        lines[Max({i \in DOMAIN lines : lines[i].end = e})].name]

\* idToFile.lower_bound(pos) is not end()
HasLowerBound(ids, pos) == \E e \in DOMAIN ids : e >= pos

\* Mutant: upper_bound in the place of lower_bound.
NameAtUpper(ids, pos) ==
    LET later == {e \in DOMAIN ids : e > pos}
    IN  ids[IF later = {} THEN Max(DOMAIN ids) ELSE Min(later)]

\* idToFile.lower_bound(pos)->second
NameAt(ids, pos) == ids[Min({e \in DOMAIN ids : e >= pos})]

\* iter->first of the entry before lower_bound(pos), 0 when there is none
StartOf(ids, pos) == Max({0} \union {e \in DOMAIN ids : e < pos})
=============================================================================
