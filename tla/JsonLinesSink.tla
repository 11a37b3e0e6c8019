---------------------------- MODULE JsonLinesSink -----------------------------
(***************************************************************************)
(* FileCrawlResultSink (src/aa_crawler/persistence/file_sink.py): saving   *)
(* an item appends its JSON text and a newline to a file that is opened,   *)
(* buffered and closed for each save.                                      *)
(*                                                                         *)
(* What reaches the file are the writes the buffering issues: one for a    *)
(* record smaller than the 8192-character chunk of the text layer, and two *)
(* for a larger one, its text when it is written and its newline when the  *)
(* file is closed.  A write may fail or be cut short, the process may be   *)
(* killed or interrupted between or within writes, and several processes   *)
(* may be given the same --output.                                         *)
(***************************************************************************)
EXTENDS Naturals, Sequences, FiniteSets

CONSTANTS
    Writers,        \* the processes that save to the file
    Sizes,          \* the sizes of records, from {"small", "large"}
    MaxSaves,       \* bound: calls of save()
    MaxMishaps      \* bound: failed or interrupted writes

ASSUME BoundAssumption == MaxSaves \in Nat /\ MaxMishaps \in Nat

VARIABLES
    file,           \* the pieces appended so far
    todo,           \* per writer: the writes its current save() still has to do
    record,         \* per writer: the record it is saving
    \* history, for the properties only
    size,           \* the size of each record, by its number
    done,           \* the records whose save() returned, in order
    mishaps,        \* writes that failed or were interrupted
    overlaps        \* records written behind another process's unfinished line

vars == <<file, todo, record, size, done, mishaps, overlaps>>

Newline == [piece |-> "newline", of |-> 0]
Body(n) == [piece |-> "body", of |-> n]
Torn(n) == [piece |-> "torn", of |-> n]

\* Forgetting the newline, and writing a blank line after each record.
WritesFor_NoNewline(n, s) == << <<Body(n)>> >>
WritesFor_BlankLine(n, s) == << <<Body(n)>>, <<Newline>>, <<Newline>> >>

\* The writes of one save().
WritesFor(n, s) ==
    IF s = "small" THEN << <<Body(n), Newline>> >> ELSE << <<Body(n)>>, <<Newline>> >>

\* What a save() that ends within a write, or right behind it, leaves of that write.
Remains(write) ==
    {<<>>, write} \cup (IF write[1] = Newline THEN {}
                        ELSE {<<write[1]>>, <<Torn(write[1].of)>>})

Busy(w) == todo[w] # <<>>

\* The text of w's record is in the file and its newline is not.
LineIsOpen(w) == todo[w] = << <<Newline>> >>

\* w is about to write a record's text while another process's line is open.
Overlaps(w) == Head(todo[w])[1] # Newline /\ \E v \in Writers \ {w} : LineIsOpen(v)

Init ==
    /\ file = <<>>
    /\ todo = [w \in Writers |-> <<>>]
    /\ record = [w \in Writers |-> 0]
    /\ size = <<>>
    /\ done = <<>>
    /\ mishaps = 0
    /\ overlaps = 0

\* save() serializes the item and opens the file.
Save(w, s) ==
    /\ ~Busy(w)
    /\ Len(size) < MaxSaves
    /\ size' = Append(size, s)
    /\ record' = [record EXCEPT ![w] = Len(size) + 1]
    /\ todo' = [todo EXCEPT ![w] = WritesFor(Len(size) + 1, s)]
    /\ UNCHANGED <<file, done, mishaps, overlaps>>

\* Opening the file for writing, and not for appending.
Write_Truncating(w) ==
    /\ Busy(w)
    /\ file' = Head(todo[w])
    /\ todo' = [todo EXCEPT ![w] = Tail(@)]
    /\ done' = IF Len(todo[w]) = 1 THEN Append(done, record[w]) ELSE done
    /\ overlaps' = IF Overlaps(w) THEN overlaps + 1 ELSE overlaps
    /\ UNCHANGED <<record, size, mishaps>>

\* One write goes through; the last one lets save() return.
Write(w) ==
    /\ Busy(w)
    /\ file' = file \o Head(todo[w])
    /\ todo' = [todo EXCEPT ![w] = Tail(@)]
    /\ done' = IF Len(todo[w]) = 1 THEN Append(done, record[w]) ELSE done
    /\ overlaps' = IF Overlaps(w) THEN overlaps + 1 ELSE overlaps
    /\ UNCHANGED <<record, size, mishaps>>

\* Trying again after an OSError.
Mishap_Retried(w) ==
    /\ Busy(w)
    /\ mishaps < MaxMishaps
    /\ mishaps' = mishaps + 1
    /\ \E left \in Remains(Head(todo[w])) : file' = file \o left
    /\ UNCHANGED <<todo, record, size, done, overlaps>>

\* A write fails (save() raises PersistenceWriteError), or the process is killed
\* or interrupted: what was written stays, the rest is never written.
Mishap(w) ==
    /\ Busy(w)
    /\ mishaps < MaxMishaps
    /\ mishaps' = mishaps + 1
    /\ \E left \in Remains(Head(todo[w])) : file' = file \o left
    /\ todo' = [todo EXCEPT ![w] = <<>>]
    /\ UNCHANGED <<record, size, done, overlaps>>

Next == \E w \in Writers : (\E s \in Sizes : Save(w, s)) \/ Write(w) \/ Mishap(w)

Spec == Init /\ [][Next]_vars

-------------------------------------------------------------------------------

Pieces == {Newline} \cup {Body(n) : n \in 1..MaxSaves} \cup {Torn(n) : n \in 1..MaxSaves}

TypeOK ==
    /\ \A i \in 1..Len(file) : file[i] \in Pieces
    /\ \A w \in Writers : Len(todo[w]) \in 0..2 /\ record[w] \in 0..Len(size)
    /\ \A i \in 1..Len(size) : size[i] \in Sizes
    /\ \A i \in 1..Len(done) : done[i] \in 1..Len(size)
    /\ mishaps \in 0..MaxMishaps /\ overlaps \in 0..Len(size)

Saved == {done[i] : i \in 1..Len(done)}

\* A reader of the file finds record n at piece i, on a line of its own.
LineAt(n, i) ==
    /\ file[i] = Body(n)
    /\ i = 1 \/ file[i - 1] = Newline
    /\ i < Len(file) /\ file[i + 1] = Newline

Readable(n) == \E i \in 1..Len(file) : LineAt(n, i)

(***************************************************************************)
(* ADR-024, ADR-027: a saved item is a line of its own, and the damage of  *)
(* what goes wrong is bounded: a failed or interrupted save costs at most  *)
(* the one item saved right after it, and two processes that write behind  *)
(* each other's text spoil no record but those two.  Whatever was damaged, *)
(* the lines that can be read are in the order of the saves, unless        *)
(* records were written behind each other's text.                          *)
(***************************************************************************)
DamageIsBounded ==
    /\ Cardinality({n \in Saved : ~Readable(n)}) <= mishaps + 2 * overlaps
    /\ overlaps = 0 =>
          \A j, k \in 1..Len(done), a, b \in 1..Len(file) :
              j < k /\ LineAt(done[j], a) /\ LineAt(done[k], b) => a < b

(***************************************************************************)
(* ADR-024: nothing is written twice and nothing is lost from the file,    *)
(* whatever fails and whoever else writes: the text of a record occurs at  *)
(* most once, and once and whole if its save() returned.                   *)
(***************************************************************************)
WrittenOnce ==
    \A n \in 1..Len(size) :
        LET copies == {i \in 1..Len(file) : file[i].of = n} IN
        /\ Cardinality(copies) <= 1
        /\ n \in Saved => copies # {} /\ \A i \in copies : file[i] = Body(n)

(***************************************************************************)
(* file_sink.py: "Each save() call appends exactly one line": an item      *)
(* whose save() returned can be read back as a line of its own.            *)
(***************************************************************************)
EverySaveIsALine == \A n \in Saved : Readable(n)
===============================================================================
