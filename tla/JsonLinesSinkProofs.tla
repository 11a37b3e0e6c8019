-------------------------- MODULE JsonLinesSinkProofs --------------------------
(***************************************************************************)
(* Theorems about JsonLinesSink for every set of processes and any number  *)
(* of saves, failed writes and unfinished lines.                           *)
(***************************************************************************)
EXTENDS JsonLinesSink, FiniteSetTheorems, TLAPS

\* The writes of a small record and of a large one.
Whole(n) == << <<Body(n), Newline>> >>
Halves(n) == << <<Body(n)>>, <<Newline>> >>
LastWrite == << <<Newline>> >>

\* No text of w's record is in the file yet.
TextWaits(w) == todo[w] \in {Whole(record[w]), Halves(record[w])}

\* The records no text of which is written, those that lack their newline, and all.
Waiting == {record[w] : w \in {v \in Writers : TextWaits(v)}}
Open == {record[w] : w \in {v \in Writers : LineIsOpen(v)}}
Records == 1..Len(size)

Todos ==
    {<<>>, LastWrite} \cup {Whole(n) : n \in Records} \cup {Halves(n) : n \in Records}

(***************************************************************************)
(* The variables' shapes: what a process still has to write is the whole   *)
(* of its own record or its newline, and no two processes have the same.   *)
(***************************************************************************)
ShapeInv ==
    /\ file \in Seq(Pieces) /\ size \in Seq(Sizes) /\ done \in Seq(Records)
    /\ Len(size) <= MaxSaves
    /\ todo \in [Writers -> Todos] /\ record \in [Writers -> 0..Len(size)]
    /\ mishaps \in 0..MaxMishaps /\ overlaps \in Nat
    /\ \A w \in Writers : Busy(w) => record[w] # 0 /\ (TextWaits(w) \/ LineIsOpen(w))
    /\ \A v, w \in Writers : v # w /\ Busy(v) /\ Busy(w) => record[v] # record[w]

\* The pieces and the writes made of them are told apart.
LEMMA PieceFacts ==
    /\ \A n : /\ Body(n) # Newline /\ Torn(n) # Newline
              /\ Body(n).of = n /\ Torn(n).of = n
    /\ Newline.of = 0
    /\ \A m, n : /\ Body(m) # Torn(n)
                 /\ Body(m) = Body(n) => m = n
  BY DEF Body, Torn, Newline

LEMMA WriteFacts ==
    ASSUME NEW n
    PROVE  /\ Len(Whole(n)) = 1 /\ Len(Halves(n)) = 2 /\ Len(LastWrite) = 1
           /\ Head(Whole(n)) = <<Body(n), Newline>> /\ Tail(Whole(n)) = <<>>
           /\ Head(Halves(n)) = <<Body(n)>> /\ Tail(Halves(n)) = LastWrite
           /\ Head(LastWrite) = <<Newline>> /\ Tail(LastWrite) = <<>>
           /\ Head(Whole(n))[1] = Body(n) /\ Head(Halves(n))[1] = Body(n)
           /\ Head(LastWrite)[1] = Newline
           /\ Whole(n) # <<>> /\ Halves(n) # <<>> /\ LastWrite # <<>>
           /\ Whole(n) # LastWrite /\ Halves(n) # LastWrite
  <1>1. Len(Whole(n)) = 1 /\ Len(Halves(n)) = 2 /\ Len(LastWrite) = 1
    BY DEF Whole, Halves, LastWrite
  <1>2. Head(Whole(n)) = <<Body(n), Newline>> /\ Tail(Whole(n)) = <<>>
    BY DEF Whole
  <1>3. Head(Halves(n)) = <<Body(n)>> /\ Tail(Halves(n)) = LastWrite
    BY DEF Halves, LastWrite
  <1>4. Head(LastWrite) = <<Newline>> /\ Tail(LastWrite) = <<>>
    BY DEF LastWrite
  <1>5. Whole(n) # LastWrite
    <2>1. Body(n) # Newline
      BY PieceFacts
    <2>2. Head(Whole(n))[1] = Body(n) /\ Head(LastWrite)[1] = Newline
      BY <1>2, <1>4
    <2>3. QED
      BY <2>1, <2>2
  <1>6. Whole(n) # <<>> /\ Halves(n) # <<>> /\ LastWrite # <<>>
    BY DEF Whole, Halves, LastWrite
  <1>7. Halves(n) # LastWrite
    BY <1>1
  <1>8. /\ Head(Whole(n))[1] = Body(n) /\ Head(Halves(n))[1] = Body(n)
        /\ Head(LastWrite)[1] = Newline
    BY <1>2, <1>3, <1>4
  <1>9. QED
    BY <1>1, <1>2, <1>3, <1>4, <1>5, <1>6, <1>7, <1>8

(***************************************************************************)
(* A step as the reader of the file sees it.  Each form says what a step   *)
(* adds to the file and which record waits, is open or is done after it.   *)
(***************************************************************************)
Starts ==
    /\ Len(size') = Len(size) + 1
    /\ Waiting' = Waiting \cup {Len(size) + 1} /\ Open' = Open
    /\ UNCHANGED <<file, done, mishaps, overlaps>>

PutsWhole(n) ==
    /\ n \in Waiting
    /\ file' = file \o <<Body(n), Newline>>
    /\ Waiting' = Waiting \ {n} /\ Open' = Open
    /\ done' = Append(done, n)
    /\ overlaps' = IF Open = {} THEN overlaps ELSE overlaps + 1
    /\ UNCHANGED <<size, mishaps>>

PutsText(n) ==
    /\ n \in Waiting
    /\ file' = Append(file, Body(n))
    /\ Waiting' = Waiting \ {n} /\ Open' = Open \cup {n}
    /\ overlaps' = IF Open = {} THEN overlaps ELSE overlaps + 1
    /\ UNCHANGED <<size, done, mishaps>>

PutsNewline(n) ==
    /\ n \in Open
    /\ file' = Append(file, Newline)
    /\ Waiting' = Waiting /\ Open' = Open \ {n}
    /\ done' = Append(done, n)
    /\ UNCHANGED <<size, mishaps, overlaps>>

Loses(n) ==
    /\ n \in Waiting \cup Open
    /\ \/ file' = file
       \/ n \in Waiting /\ file' = Append(file, Body(n))
       \/ n \in Waiting /\ file' = Append(file, Torn(n))
       \/ n \in Waiting /\ file' = file \o <<Body(n), Newline>>
       \/ n \in Open /\ file' = Append(file, Newline)
    /\ Waiting' = Waiting \ {n} /\ Open' = Open \ {n}
    /\ mishaps' = mishaps + 1
    /\ UNCHANGED <<size, done, overlaps>>

\* The records of the other processes.
WaitingBut(w) == {record[v] : v \in {x \in Writers \ {w} : TextWaits(x)}}
OpenBut(w) == {record[v] : v \in {x \in Writers \ {w} : LineIsOpen(x)}}

LEMMA SplitFacts ==
    ASSUME NEW w \in Writers
    PROVE  /\ TextWaits(w) => Waiting = WaitingBut(w) \cup {record[w]}
           /\ ~TextWaits(w) => Waiting = WaitingBut(w)
           /\ LineIsOpen(w) => Open = OpenBut(w) \cup {record[w]}
           /\ ~LineIsOpen(w) => Open = OpenBut(w)
  BY Zenon DEF Waiting, WaitingBut, Open, OpenBut

\* The same of the next state.
LEMMA SplitFactsNext ==
    ASSUME NEW w \in Writers
    PROVE  /\ TextWaits(w)' => Waiting' = WaitingBut(w)' \cup {record'[w]}
           /\ ~TextWaits(w)' => Waiting' = WaitingBut(w)'
           /\ LineIsOpen(w)' => Open' = OpenBut(w)' \cup {record'[w]}
           /\ ~LineIsOpen(w)' => Open' = OpenBut(w)'
  BY Zenon DEF Waiting, WaitingBut, Open, OpenBut

LEMMA PhaseFacts ==
    ASSUME NEW w
    PROVE  /\ TextWaits(w) => Busy(w) /\ ~LineIsOpen(w)
           /\ LineIsOpen(w) => Busy(w) /\ ~TextWaits(w)
  <1>1. todo[w] = LastWrite <=> LineIsOpen(w)
    BY DEF LineIsOpen, LastWrite
  <1>2. QED
    BY <1>1, WriteFacts, Zenon DEF TextWaits, Busy

LEMMA OwnFacts ==
    ASSUME ShapeInv, NEW w \in Writers, Busy(w)
    PROVE  /\ record[w] \in Records
           /\ record[w] \notin WaitingBut(w) /\ record[w] \notin OpenBut(w)
  <1>1. record[w] \in Records
    BY DEF ShapeInv, Records
  <1>2. \A v \in Writers \ {w} : TextWaits(v) \/ LineIsOpen(v) => record[v] # record[w]
    BY PhaseFacts DEF ShapeInv
  <1>3. QED
    BY <1>1, <1>2 DEF WaitingBut, OpenBut

\* A step of w leaves the others' records as they are.
LEMMA OtherFacts ==
    ASSUME NEW w \in Writers,
           \A v \in Writers \ {w} : todo'[v] = todo[v] /\ record'[v] = record[v]
    PROVE  /\ \A v \in Writers \ {w} : /\ TextWaits(v)' = TextWaits(v)
                                        /\ LineIsOpen(v)' = LineIsOpen(v)
                                        /\ Busy(v)' = Busy(v)
           /\ WaitingBut(w)' = WaitingBut(w) /\ OpenBut(w)' = OpenBut(w)
  <1>1. \A v \in Writers \ {w} : /\ TextWaits(v)' = TextWaits(v)
                                /\ LineIsOpen(v)' = LineIsOpen(v)
                                /\ Busy(v)' = Busy(v)
    BY DEF TextWaits, LineIsOpen, Busy, Whole, Halves, Body, Newline
  <1>2. WaitingBut(w)' = WaitingBut(w)
    BY <1>1 DEF WaitingBut
  <1>3. OpenBut(w)' = OpenBut(w)
    BY <1>1 DEF OpenBut
  <1>4. QED
    BY <1>1, <1>2, <1>3

\* save() begins: one more record waits.
LEMMA SaveStep ==
    ASSUME ShapeInv, NEW w \in Writers, NEW s \in Sizes, Save(w, s)
    PROVE  ShapeInv' /\ Starts
  <1> DEFINE n == Len(size) + 1
  <1> USE BoundAssumption
  <1>1. /\ size' \in Seq(Sizes) /\ Len(size') = n /\ n \in Nat \ {0} /\ n <= MaxSaves
        /\ Records' = Records \cup {n} /\ n \notin Records
    BY DEF Save, ShapeInv, Records
  <1>2. record' = [record EXCEPT ![w] = n] /\ record' \in [Writers -> 0..Len(size')]
    BY <1>1 DEF Save, ShapeInv
  <1>3. /\ todo' = [todo EXCEPT ![w] = WritesFor(n, s)]
        /\ WritesFor(n, s) \in {Whole(n), Halves(n)}
    BY DEF Save, WritesFor, Whole, Halves
  <1>4. todo' \in [Writers -> Todos']
    <2>1. Todos' = Todos \cup {Whole(n), Halves(n)}
      BY <1>1, Zenon DEF Todos, LastWrite, Whole, Halves, Newline, Body
    <2>2. QED
      BY <1>3, <2>1 DEF ShapeInv
  <1>5. \A v \in Writers \ {w} : todo'[v] = todo[v] /\ record'[v] = record[v]
    BY <1>2, <1>3 DEF ShapeInv
  <1>6. record'[w] = n /\ TextWaits(w)'
    <2>1. record'[w] = n /\ todo'[w] \in {Whole(n), Halves(n)}
      BY <1>2, <1>3 DEF ShapeInv
    <2>2. QED
      BY <2>1 DEF TextWaits, Whole, Halves, Body, Newline
  <1>7. ~LineIsOpen(w)'
    BY <1>6, PhaseFacts, PTL
  <1>8. ~TextWaits(w) /\ ~LineIsOpen(w)
    BY PhaseFacts DEF Save
  <1>9. /\ \A v \in Writers \ {w} : /\ TextWaits(v)' = TextWaits(v)
                                  /\ LineIsOpen(v)' = LineIsOpen(v)
                                  /\ Busy(v)' = Busy(v)
        /\ WaitingBut(w)' = WaitingBut(w) /\ OpenBut(w)' = OpenBut(w)
    BY <1>5, OtherFacts
  <1>10. Waiting' = Waiting \cup {n} /\ Open' = Open
    <2>1. Waiting = WaitingBut(w) /\ Open = OpenBut(w)
      BY <1>8, SplitFacts
    <2>2. Waiting' = WaitingBut(w)' \cup {record'[w]} /\ Open' = OpenBut(w)'
      BY <1>6, <1>7, SplitFactsNext
    <2>3. QED
      BY <1>6, <1>9, <2>1, <2>2
  <1>11. ShapeInv'
    <2>1. UNCHANGED <<file, done, mishaps, overlaps>> /\ done \in Seq(Records')
      BY <1>1 DEF Save, ShapeInv
    <2>2. \A v \in Writers : Busy(v)' => record'[v] # 0 /\ (TextWaits(v)' \/ LineIsOpen(v)')
      BY <1>1, <1>5, <1>6, <1>9 DEF ShapeInv
    <2>3. ASSUME NEW v \in Writers, NEW x \in Writers, v # x, Busy(v)', Busy(x)'
          PROVE  record'[v] # record'[x]
      <3>1. \A y \in Writers \ {w} : record[y] # n
        BY DEF ShapeInv
      <3>2. QED
        BY <1>5, <1>6, <1>9, <2>3, <3>1 DEF ShapeInv
    <2>4. file' \in Seq(Pieces') /\ mishaps' \in 0..MaxMishaps /\ overlaps' \in Nat
      BY <2>1 DEF ShapeInv, Pieces, Newline, Body, Torn
    <2>5. QED
      BY <1>1, <1>2, <1>4, <2>1, <2>2, <2>3, <2>4 DEF ShapeInv
  <1>12. QED
    BY <1>1, <1>10, <1>11 DEF Starts, Save

\* What a step does to the records that wait and are open, when w has only its
\* newline or nothing left to write after it.
LEMMA LeftFacts ==
    ASSUME ShapeInv, NEW w \in Writers, Busy(w), NEW t \in {<<>>, LastWrite},
           todo' = [todo EXCEPT ![w] = t], UNCHANGED <<record, size>>
    PROVE  /\ Waiting' = Waiting \ {record[w]}
           /\ Open' = IF t = <<>> THEN Open \ {record[w]} ELSE Open \cup {record[w]}
           /\ todo' \in [Writers -> Todos']
           /\ \A v \in Writers : Busy(v)' => record'[v] # 0 /\ (TextWaits(v)' \/ LineIsOpen(v)')
           /\ \A v, x \in Writers : v # x /\ Busy(v)' /\ Busy(x)' => record'[v] # record'[x]
  <1>1. todo'[w] = t /\ \A v \in Writers \ {w} : todo'[v] = todo[v] /\ record'[v] = record[v]
    BY DEF ShapeInv
  <1>2. /\ \A v \in Writers \ {w} : /\ TextWaits(v)' = TextWaits(v)
                                  /\ LineIsOpen(v)' = LineIsOpen(v)
                                  /\ Busy(v)' = Busy(v)
        /\ WaitingBut(w)' = WaitingBut(w) /\ OpenBut(w)' = OpenBut(w)
    BY <1>1, OtherFacts
  <1>3. ~TextWaits(w)'
    <2>1. t \notin {Whole(record[w]), Halves(record[w])}
      BY WriteFacts
    <2>2. QED
      BY <1>1, <2>1 DEF TextWaits, Whole, Halves, Body, Newline
  <1>4. LineIsOpen(w)' <=> t # <<>>
    <2>1. LineIsOpen(w)' <=> t = LastWrite
      BY <1>1, Zenon DEF LineIsOpen, LastWrite, Newline
    <2>2. QED
      BY <2>1, WriteFacts
  <1>5. /\ Waiting' = WaitingBut(w)
        /\ Open' = IF t = <<>> THEN OpenBut(w) ELSE OpenBut(w) \cup {record[w]}
    BY <1>2, <1>3, <1>4, SplitFactsNext
  <1>6. WaitingBut(w) = Waiting \ {record[w]} /\ OpenBut(w) = Open \ {record[w]}
    BY SplitFacts, OwnFacts
  <1>7. todo' \in [Writers -> Todos']
    <2>1. Todos' = Todos /\ t \in Todos
      BY DEF Todos, LastWrite, Whole, Halves, Newline, Body, Records
    <2>2. QED
      BY <2>1 DEF ShapeInv
  <1>8. Busy(w)' => LineIsOpen(w)'
    BY <1>1, <1>4 DEF Busy
  <1>9. \A v \in Writers : Busy(v)' => record'[v] # 0 /\ (TextWaits(v)' \/ LineIsOpen(v)')
    BY <1>2, <1>8 DEF ShapeInv
  <1>10. \A v, x \in Writers : v # x /\ Busy(v)' /\ Busy(x)' => record'[v] # record'[x]
    BY <1>2 DEF ShapeInv
  <1>11. QED
    BY <1>5, <1>6, <1>7, <1>9, <1>10

\* Another process's line is open exactly if some line is, while w's text waits.
LEMMA OverlapFacts ==
    ASSUME ShapeInv, NEW w \in Writers, Busy(w)
    PROVE  /\ TextWaits(w) => (Overlaps(w) <=> Open # {})
           /\ LineIsOpen(w) => ~Overlaps(w)
  <1>1. TextWaits(w) => Head(todo[w])[1] # Newline
    BY WriteFacts, PieceFacts DEF TextWaits
  <1>2. TextWaits(w) => (Open # {} <=> \E v \in Writers \ {w} : LineIsOpen(v))
    BY PhaseFacts DEF Open
  <1>3. LineIsOpen(w) => Head(todo[w])[1] = Newline
    BY DEF LineIsOpen
  <1>4. QED
    BY <1>1, <1>2, <1>3 DEF Overlaps

\* The pieces a record's writes are made of are pieces of a file.
LEMMA PieceTypes ==
    ASSUME ShapeInv, NEW n \in Records
    PROVE  /\ Body(n) \in Pieces /\ Torn(n) \in Pieces /\ Newline \in Pieces
           /\ n \in 1..MaxSaves
  BY BoundAssumption DEF ShapeInv, Records, Pieces

\* One write of save(): the whole record, its text, or its newline.
LEMMA WriteStep ==
    ASSUME ShapeInv, NEW w \in Writers, Write(w)
    PROVE  ShapeInv' /\ \E n \in Records : PutsWhole(n) \/ PutsText(n) \/ PutsNewline(n)
  <1> DEFINE n == record[w]
  <1>1. Busy(w) /\ UNCHANGED <<record, size, mishaps>> /\ todo' = [todo EXCEPT ![w] = Tail(todo[w])]
    BY DEF Write, ShapeInv
  <1>2. n \in Records
    BY <1>1, OwnFacts
  <1>3. /\ overlaps' = IF Overlaps(w) THEN overlaps + 1 ELSE overlaps
        /\ overlaps \in Nat /\ overlaps' \in Nat
    BY DEF Write, ShapeInv
  <1>4. Records' = Records /\ Pieces' = Pieces
    BY <1>1 DEF Records, Pieces, Newline, Body, Torn
  <1>5. ASSUME Tail(todo[w]) \in {<<>>, LastWrite}, file' \in Seq(Pieces), done' \in Seq(Records)
        PROVE  ShapeInv'
    BY <1>1, <1>3, <1>4, <1>5, LeftFacts DEF ShapeInv
  <1>6. CASE todo[w] = Whole(n)
    <2>1. TextWaits(w) /\ n \in Waiting
      BY <1>6 DEF TextWaits, Waiting
    <2>2. Tail(todo[w]) = <<>> /\ Head(todo[w]) = <<Body(n), Newline>> /\ Len(todo[w]) = 1
      BY <1>6, WriteFacts
    <2>3. file' = file \o <<Body(n), Newline>> /\ done' = Append(done, n)
      BY <2>2 DEF Write
    <2>4. Waiting' = Waiting \ {n} /\ Open' = Open \ {n} /\ n \notin Open
      <3>1. n \notin Open
        BY <1>1, <2>1, SplitFacts, PhaseFacts, OwnFacts
      <3>2. QED
        BY <1>1, <2>2, <3>1, LeftFacts
    <2>5. overlaps' = IF Open = {} THEN overlaps ELSE overlaps + 1
      BY <1>1, <1>3, <2>1, OverlapFacts
    <2>6. PutsWhole(n)
      BY <1>1, <2>1, <2>3, <2>4, <2>5 DEF PutsWhole
    <2>7. file' \in Seq(Pieces) /\ done' \in Seq(Records)
      <3>1. <<Body(n), Newline>> \in Seq(Pieces)
        BY <1>2, PieceTypes
      <3>2. QED
        BY <1>2, <2>3, <3>1 DEF ShapeInv
    <2>8. QED
      BY <1>2, <1>5, <2>2, <2>6, <2>7
  <1>7. CASE todo[w] = Halves(n)
    <2>1. TextWaits(w) /\ n \in Waiting
      BY <1>7 DEF TextWaits, Waiting
    <2>2. Tail(todo[w]) = LastWrite /\ Head(todo[w]) = <<Body(n)>> /\ Len(todo[w]) = 2
      BY <1>7, WriteFacts
    <2>3. file' = Append(file, Body(n)) /\ done' = done
      <3>1. file' = file \o Head(todo[w]) /\ (Len(todo[w]) # 1 => done' = done)
        BY DEF Write
      <3>2. Len(todo[w]) # 1
        BY <2>2
      <3>3. file' = file \o <<Body(n)>> /\ done' = done
        BY <2>2, <3>1, <3>2, Zenon
      <3>4. QED
        BY <1>2, <3>3, PieceTypes DEF ShapeInv
    <2>4. Waiting' = Waiting \ {n} /\ Open' = Open \cup {n}
      BY <1>1, <2>2, LeftFacts, WriteFacts
    <2>5. overlaps' = IF Open = {} THEN overlaps ELSE overlaps + 1
      BY <1>1, <1>3, <2>1, OverlapFacts
    <2>6. PutsText(n)
      BY <1>1, <2>1, <2>3, <2>4, <2>5 DEF PutsText
    <2>7. file' \in Seq(Pieces) /\ done' \in Seq(Records)
      BY <1>2, <2>3, PieceTypes DEF ShapeInv
    <2>8. QED
      BY <1>2, <1>5, <2>2, <2>6, <2>7
  <1>8. CASE LineIsOpen(w)
    <2>1. n \in Open
      BY <1>8 DEF Open
    <2>2. Tail(todo[w]) = <<>> /\ Head(todo[w]) = <<Newline>> /\ Len(todo[w]) = 1
      BY <1>8 DEF LineIsOpen
    <2>3. file' = Append(file, Newline) /\ done' = Append(done, n)
      <3>1. file' = file \o <<Newline>> /\ done' = Append(done, n)
        BY <2>2 DEF Write
      <3>2. QED
        BY <1>2, <3>1, PieceTypes DEF ShapeInv
    <2>4. Waiting' = Waiting /\ Open' = Open \ {n}
      <3>1. n \notin Waiting
        BY <1>1, <1>8, SplitFacts, PhaseFacts, OwnFacts
      <3>2. Waiting' = Waiting \ {n} /\ Open' = Open \ {n}
        BY <1>1, <2>2, LeftFacts
      <3>3. QED
        BY <3>1, <3>2
    <2>5. overlaps' = overlaps
      BY <1>1, <1>3, <1>8, OverlapFacts
    <2>6. PutsNewline(n)
      BY <1>1, <2>1, <2>3, <2>4, <2>5 DEF PutsNewline
    <2>7. file' \in Seq(Pieces) /\ done' \in Seq(Records)
      BY <1>2, <2>3, PieceTypes DEF ShapeInv
    <2>8. QED
      BY <1>2, <1>5, <2>2, <2>6, <2>7
  <1>9. QED
    BY <1>1, <1>6, <1>7, <1>8 DEF ShapeInv, TextWaits

\* A write fails or is interrupted: what is not written yet is lost.
LEMMA MishapStep ==
    ASSUME ShapeInv, NEW w \in Writers, Mishap(w)
    PROVE  ShapeInv' /\ \E n \in Records : Loses(n)
  <1> DEFINE n == record[w]
  <1> USE BoundAssumption
  <1>1. /\ Busy(w) /\ UNCHANGED <<record, size, done, overlaps>>
        /\ todo' = [todo EXCEPT ![w] = <<>>] /\ mishaps' = mishaps + 1
        /\ mishaps' \in 0..MaxMishaps
    BY DEF Mishap, ShapeInv
  <1>2. n \in Records
    BY <1>1, OwnFacts
  <1>3. Records' = Records /\ Pieces' = Pieces
    BY <1>1 DEF Records, Pieces, Newline, Body, Torn
  <1>4. PICK left \in Remains(Head(todo[w])) : file' = file \o left
    BY DEF Mishap
  <1>5. TextWaits(w) \/ LineIsOpen(w)
    BY <1>1 DEF ShapeInv
  <1>6. TextWaits(w) => left \in {<<>>, <<Body(n)>>, <<Torn(n)>>, <<Body(n), Newline>>}
    <2>1. TextWaits(w) => /\ Head(todo[w])[1] = Body(n)
                          /\ Head(todo[w]) \in {<<Body(n)>>, <<Body(n), Newline>>}
      BY WriteFacts DEF TextWaits
    <2>2. QED
      BY <1>4, <2>1, PieceFacts, Zenon DEF Remains
  <1>7. LineIsOpen(w) => left \in {<<>>, <<Newline>>}
    <2>1. LineIsOpen(w) => Head(todo[w])[1] = Newline /\ Head(todo[w]) = <<Newline>>
      BY DEF LineIsOpen
    <2>2. QED
      BY <1>4, <2>1, Zenon DEF Remains
  <1>8. \/ file' = file
        \/ TextWaits(w) /\ file' = Append(file, Body(n))
        \/ TextWaits(w) /\ file' = Append(file, Torn(n))
        \/ TextWaits(w) /\ file' = file \o <<Body(n), Newline>>
        \/ LineIsOpen(w) /\ file' = Append(file, Newline)
    <2>1. file \in Seq(Pieces) /\ Body(n) \in Pieces /\ Torn(n) \in Pieces /\ Newline \in Pieces
      BY <1>2, PieceTypes DEF ShapeInv
    <2>2. \A p \in Pieces : file \o <<p>> = Append(file, p)
      BY <2>1
    <2>3. file \o <<>> = file
      BY <2>1
    <2>4. QED
      BY <1>4, <1>5, <1>6, <1>7, <2>1, <2>2, <2>3, Zenon
  <1>9. file' \in Seq(Pieces)
    <2>1. file \in Seq(Pieces) /\ Body(n) \in Pieces /\ Torn(n) \in Pieces /\ Newline \in Pieces
      BY <1>2, PieceTypes DEF ShapeInv
    <2>2. \A p, q \in Pieces : Append(file, p) \in Seq(Pieces) /\ file \o <<p, q>> \in Seq(Pieces)
      BY <2>1
    <2>3. QED
      BY <1>8, <2>1, <2>2, Zenon
  <1>10. Waiting' = Waiting \ {n} /\ Open' = Open \ {n}
    BY <1>1, LeftFacts
  <1>11. (TextWaits(w) => n \in Waiting) /\ (LineIsOpen(w) => n \in Open)
    BY DEF Waiting, Open
  <1>12. Loses(n)
    BY <1>1, <1>5, <1>8, <1>10, <1>11 DEF Loses
  <1>13. ShapeInv'
    BY <1>1, <1>3, <1>9, LeftFacts DEF ShapeInv
  <1>14. QED
    BY <1>2, <1>12, <1>13

\* Every step keeps the shapes and has one of the five forms, or changes nothing.
LEMMA StepForms ==
    ASSUME ShapeInv, [Next]_vars
    PROVE  /\ ShapeInv'
           /\ \/ Starts
              \/ \E n \in Records : PutsWhole(n) \/ PutsText(n) \/ PutsNewline(n) \/ Loses(n)
              \/ UNCHANGED <<file, size, done, mishaps, overlaps, Waiting, Open>>
  <1>1. CASE UNCHANGED vars
    <2>1. UNCHANGED <<file, size, done, mishaps, overlaps, Waiting, Open>>
      BY <1>1 DEF vars, Waiting, Open, TextWaits, LineIsOpen, Whole, Halves, Body, Newline
    <2>2. ShapeInv'
      BY <1>1 DEF vars, ShapeInv, TextWaits, LineIsOpen, Busy, Todos, LastWrite, Whole, Halves,
                  Body, Torn, Newline, Pieces, Records
    <2>3. QED
      BY <2>1, <2>2
  <1>2. CASE Next
    <2>1. ASSUME NEW w \in Writers, NEW s \in Sizes, Save(w, s)
          PROVE  ShapeInv' /\ Starts
      BY <2>1, SaveStep
    <2>2. ASSUME NEW w \in Writers, Write(w)
          PROVE  ShapeInv' /\ \E n \in Records : PutsWhole(n) \/ PutsText(n) \/ PutsNewline(n)
      BY <2>2, WriteStep
    <2>3. ASSUME NEW w \in Writers, Mishap(w)
          PROVE  ShapeInv' /\ \E n \in Records : Loses(n)
      BY <2>3, MishapStep
    <2>4. QED
      BY <1>2, <2>1, <2>2, <2>3 DEF Next
  <1>3. QED
    BY <1>1, <1>2

LEMMA ShapeInit == Init => ShapeInv /\ Waiting = {} /\ Open = {}
  <1> SUFFICES ASSUME Init
               PROVE  ShapeInv /\ Waiting = {} /\ Open = {}
    OBVIOUS
  <1>1. \A w \in Writers : todo[w] = <<>> /\ ~Busy(w)
    BY DEF Init, Busy
  <1>2. \A w \in Writers : ~TextWaits(w) /\ ~LineIsOpen(w)
    BY <1>1, PhaseFacts
  <1>3. QED
    BY <1>1, <1>2, BoundAssumption DEF Init, ShapeInv, Todos, Waiting, Open, Records

-------------------------------------------------------------------------------

(***************************************************************************)
(* Where the text of each record is: nowhere while it waits, in one piece  *)
(* of the file when its line is open or saved, in at most one otherwise.   *)
(***************************************************************************)
Places == 1..Len(file)

CopyInv ==
    /\ \A i \in Places : file[i].of \in (0..Len(size)) \ Waiting
    /\ \A i, j \in Places : file[i].of = file[j].of /\ file[i] # Newline => i = j
    /\ \A n \in Saved \cup Open : \E i \in Places : file[i] = Body(n)
    /\ Saved \cap Open = {}

LEMMA Bounds ==
    ASSUME ShapeInv
    PROVE  /\ Waiting \subseteq Records /\ Open \subseteq Records /\ Saved \subseteq Records
           /\ Waiting \cap Open = {}
           /\ Len(size) \in Nat /\ Len(file) \in Nat /\ Len(done) \in Nat
  <1>1. Waiting \subseteq Records /\ Open \subseteq Records
    BY OwnFacts, PhaseFacts DEF Waiting, Open
  <1>2. Waiting \cap Open = {}
    BY PhaseFacts DEF Waiting, Open, ShapeInv
  <1>3. Saved \subseteq Records
    BY DEF Saved, ShapeInv
  <1>4. QED
    BY <1>1, <1>2, <1>3 DEF ShapeInv

\* A step only appends to the file, and text of a record only if it waited.
LEMMA GrowFacts ==
    ASSUME ShapeInv, NEW n \in Records,
           PutsWhole(n) \/ PutsText(n) \/ PutsNewline(n) \/ Loses(n)
    PROVE  /\ Len(file') \in Nat /\ Len(file) <= Len(file')
           /\ \A i \in Places : file'[i] = file[i]
           /\ \A i \in Places' \ Places :
                 /\ file'[i] \in {Body(n), Torn(n), Newline}
                 /\ file'[i] # Newline => i = Len(file) + 1 /\ n \in Waiting
  <1>1. /\ file \in Seq(Pieces) /\ Body(n) \in Pieces /\ Torn(n) \in Pieces
        /\ Newline \in Pieces /\ Len(file) \in Nat
    BY PieceTypes DEF ShapeInv
  <1>2. ASSUME NEW p \in {Body(n), Torn(n), Newline}, file' = Append(file, p),
               p = Newline \/ n \in Waiting
        PROVE  /\ Len(file') \in Nat /\ Len(file) <= Len(file')
               /\ \A i \in Places : file'[i] = file[i]
               /\ \A i \in Places' \ Places :
                     /\ file'[i] \in {Body(n), Torn(n), Newline}
                     /\ file'[i] # Newline => i = Len(file) + 1 /\ n \in Waiting
    <2>1. Len(file') = Len(file) + 1 /\ file'[Len(file) + 1] = p
      BY <1>1, <1>2
    <2>2. \A i \in Places : file'[i] = file[i]
      BY <1>1, <1>2 DEF Places
    <2>3. \A i \in Places' \ Places : i = Len(file) + 1
      BY <1>1, <2>1 DEF Places
    <2>4. Len(file') \in Nat /\ Len(file) <= Len(file')
      BY <1>1, <2>1
    <2>5. QED
      BY <1>2, <2>1, <2>2, <2>3, <2>4, Zenon
  <1>3. CASE n \in Waiting /\ file' = file \o <<Body(n), Newline>>
    <2>1. file' = file \o <<Body(n), Newline>> /\ n \in Waiting
      BY <1>3
    <2>2. /\ Len(file') = Len(file) + 2
          /\ file'[Len(file) + 1] = Body(n) /\ file'[Len(file) + 2] = Newline
      BY <1>1, <2>1
    <2>3. \A i \in Places : file'[i] = file[i]
      BY <1>1, <2>1 DEF Places
    <2>4. \A i \in Places' \ Places : i = Len(file) + 1 \/ i = Len(file) + 2
      BY <1>1, <2>2 DEF Places
    <2>5. Len(file') \in Nat /\ Len(file) <= Len(file')
      BY <1>1, <2>2
    <2>6. QED
      BY <2>1, <2>2, <2>3, <2>4, <2>5, Zenon
  <1>4. CASE PutsText(n)
    BY <1>2, <1>4 DEF PutsText
  <1>5. CASE PutsNewline(n)
    BY <1>2, <1>5 DEF PutsNewline
  <1>6. CASE Loses(n)
    <2>1. CASE file' = file
      BY <1>1, <2>1 DEF Places
    <2>2. CASE file' # file
      BY <1>2, <1>3, <1>6, <2>2 DEF Loses
    <2>3. QED
      BY <2>1, <2>2
  <1>7. CASE PutsWhole(n)
    BY <1>3, <1>7 DEF PutsWhole
  <1>8. QED
    BY <1>4, <1>5, <1>6, <1>7

LEMMA SavedFacts ==
    ASSUME ShapeInv, NEW n \in Records, done' = Append(done, n)
    PROVE  /\ Saved' = Saved \cup {n} /\ Len(done') = Len(done) + 1
           /\ done'[Len(done) + 1] = n
           /\ \A j \in 1..Len(done) : done'[j] = done[j]
  <1>1. /\ Len(done') = Len(done) + 1 /\ done'[Len(done) + 1] = n
        /\ \A j \in 1..Len(done) : done'[j] = done[j]
        /\ Len(done) \in Nat
    BY DEF ShapeInv
  <1>2. 1..Len(done') = 1..Len(done) \cup {Len(done) + 1}
    BY <1>1
  <1>3. QED
    BY <1>1, <1>2 DEF Saved

\* Which piece of the file a record's new state rests on.
LEMMA NewCopy ==
    ASSUME ShapeInv, CopyInv, NEW n \in Records,
           PutsWhole(n) \/ PutsText(n) \/ PutsNewline(n) \/ Loses(n)
    PROVE  /\ Saved' \cup Open' \subseteq Saved \cup Open \cup {n}
           /\ Saved' \cap Open' = {}
           /\ n \in Saved' \cup Open' =>
                 \/ n \in Open
                 \/ n \in Waiting /\ Len(file) + 1 \in Places' /\ file'[Len(file) + 1] = Body(n)
  <1>0. /\ file \in Seq(Pieces) /\ Body(n) \in Pieces /\ Newline \in Pieces /\ Len(file) \in Nat
    BY PieceTypes DEF ShapeInv
  <1>a. n \in Waiting \cup Open => n \notin Saved
    <2>1. \A m \in Waiting : m \notin Saved
      <3>1. \A m \in Saved : \E i \in Places : file[i].of = m
        BY PieceFacts DEF CopyInv
      <3>2. QED
        BY <3>1 DEF CopyInv
    <2>2. QED
      BY <2>1 DEF CopyInv
  <1>1. CASE PutsWhole(n)
    <2>1. n \in Waiting /\ n \notin Open /\ Open' = Open /\ Saved' = Saved \cup {n}
      BY <1>1, Bounds, SavedFacts DEF PutsWhole
    <2>2. file' = file \o <<Body(n), Newline>>
      BY <1>1 DEF PutsWhole
    <2>3. Len(file) + 1 \in Places' /\ file'[Len(file) + 1] = Body(n)
      BY <1>0, <2>2 DEF Places
    <2>4. QED
      BY <2>1, <2>3 DEF CopyInv
  <1>2. CASE PutsText(n)
    <2>1. n \in Waiting /\ n \notin Saved /\ Open' = Open \cup {n} /\ Saved' = Saved
      BY <1>2, <1>a DEF PutsText, Saved
    <2>2. file' = Append(file, Body(n))
      BY <1>2 DEF PutsText
    <2>3. Len(file) + 1 \in Places' /\ file'[Len(file) + 1] = Body(n)
      BY <1>0, <2>2 DEF Places
    <2>4. QED
      BY <2>1, <2>3 DEF CopyInv
  <1>3. CASE PutsNewline(n)
    <2>1. n \in Open /\ Open' = Open \ {n} /\ Saved' = Saved \cup {n}
      BY <1>3, SavedFacts DEF PutsNewline
    <2>2. QED
      BY <2>1 DEF CopyInv
  <1>4. CASE Loses(n)
    <2>1. n \notin Saved /\ Open' = Open \ {n} /\ Saved' = Saved
      BY <1>4, <1>a DEF Loses, Saved
    <2>2. QED
      BY <2>1 DEF CopyInv
  <1>5. QED
    BY <1>1, <1>2, <1>3, <1>4

\* Nothing more waits than before, but for the record whose save() begins.
LEMMA WaitingFacts ==
    ASSUME ShapeInv, NEW n \in Records,
           PutsWhole(n) \/ PutsText(n) \/ PutsNewline(n) \/ Loses(n)
    PROVE  /\ size' = size
           /\ Waiting' = Waiting \ {n}
  BY Bounds DEF PutsWhole, PutsText, PutsNewline, Loses

LEMMA CopyStep ==
    ASSUME ShapeInv, CopyInv, [Next]_vars
    PROVE  CopyInv'
  <1>1. CASE Starts
    <2>1. /\ file' = file /\ Saved' = Saved /\ Open' = Open /\ Len(size') = Len(size) + 1
          /\ Waiting' = Waiting \cup {Len(size) + 1} /\ Places' = Places
      BY <1>1 DEF Starts, Saved, Places
    <2>2. \A i \in Places : file'[i].of \in (0..Len(size')) \ Waiting'
      BY <2>1, Bounds DEF CopyInv
    <2>3. /\ \A i, j \in Places : file'[i].of = file'[j].of /\ file'[i] # Newline => i = j
          /\ \A n \in Saved \cup Open : \E i \in Places : file'[i] = Body(n)
          /\ Saved \cap Open = {}
      BY <2>1 DEF CopyInv
    <2>4. QED
      BY <2>1, <2>2, <2>3, Zenon DEF CopyInv, Newline, Body
  <1>2. CASE UNCHANGED <<file, size, done, mishaps, overlaps, Waiting, Open>>
    BY <1>2 DEF CopyInv, Saved, Places, Newline, Body
  <1>3. ASSUME NEW n \in Records, PutsWhole(n) \/ PutsText(n) \/ PutsNewline(n) \/ Loses(n)
        PROVE  CopyInv'
    <2>1. /\ \A i \in Places : file'[i] = file[i]
          /\ \A i \in Places' \ Places :
                /\ file'[i] \in {Body(n), Torn(n), Newline}
                /\ file'[i] # Newline => i = Len(file) + 1 /\ n \in Waiting
          /\ Places \subseteq Places'
      <3>1. Places \subseteq Places'
        BY <1>3, GrowFacts, Bounds DEF Places
      <3>2. QED
        BY <1>3, <3>1, GrowFacts
    <2>2. size' = size /\ Waiting' = Waiting \ {n}
      BY <1>3, WaitingFacts
    <2>3. ASSUME NEW i \in Places'
          PROVE  file'[i].of \in (0..Len(size')) \ Waiting'
      <3>1. CASE i \in Places
        BY <2>1, <2>2, <3>1 DEF CopyInv
      <3>2. CASE i \notin Places
        <4>1. file'[i].of \in {0, n}
          BY <2>1, <2>3, <3>2, PieceFacts
        <4>2. n \in 0..Len(size) /\ 0 \in 0..Len(size) /\ 0 \notin Waiting
          BY Bounds DEF Records
        <4>3. QED
          BY <2>2, <4>1, <4>2
      <3>3. QED
        BY <3>1, <3>2
    <2>4. ASSUME NEW i \in Places', NEW j \in Places', file'[i].of = file'[j].of, file'[i] # Newline
          PROVE  i = j
      <3>1. ASSUME NEW k \in Places', NEW l \in Places, k \notin Places, file'[k] # Newline
            PROVE  file'[k].of # file'[l].of
        <4>1. file'[k].of = n /\ n \in Waiting
          BY <2>1, <3>1, PieceFacts
        <4>2. file'[l].of \notin Waiting
          BY <2>1, <3>1 DEF CopyInv
        <4>3. QED
          BY <4>1, <4>2
      <3>2. file'[j] # Newline
        <4>1. file'[i].of # 0
          <5>1. CASE i \in Places
            <6>1. file[i] \in Pieces /\ file[i] # Newline
              BY <2>1, <2>4, <5>1 DEF ShapeInv, Places
            <6>2. file[i].of \in 1..MaxSaves
              BY <6>1, PieceFacts DEF Pieces
            <6>3. QED
              BY <2>1, <5>1, <6>2, BoundAssumption
          <5>2. CASE i \notin Places
            BY <2>1, <2>4, <5>2, PieceFacts DEF Records
          <5>3. QED
            BY <5>1, <5>2
        <4>2. QED
          BY <2>4, <4>1, PieceFacts
      <3>3. CASE i \in Places /\ j \in Places
        BY <2>1, <2>4, <3>3 DEF CopyInv
      <3>4. CASE i \notin Places /\ j \notin Places
        BY <2>1, <2>4, <3>2, <3>4
      <3>5. QED
        BY <2>4, <3>1, <3>2, <3>3, <3>4
    <2>5. \A m \in Saved' \cup Open' : \E i \in Places' : file'[i] = Body(m)
      BY <1>3, <2>1, NewCopy DEF CopyInv
    <2>6. Saved' \cap Open' = {}
      BY <1>3, NewCopy
    <2>7. QED
      BY <2>3, <2>4, <2>5, <2>6, Zenon DEF CopyInv, Newline, Body
  <1>4. QED
    BY <1>1, <1>2, <1>3, StepForms

LEMMA CopyInit == Init => ShapeInv /\ CopyInv
  <1> SUFFICES ASSUME Init
               PROVE  ShapeInv /\ CopyInv
    OBVIOUS
  <1>1. ShapeInv /\ Waiting = {} /\ Open = {}
    BY ShapeInit
  <1>2. Places = {} /\ Saved = {}
    BY DEF Init, Places, Saved
  <1>3. QED
    BY <1>1, <1>2 DEF CopyInv

LEMMA CopyAlways == Spec => [](ShapeInv /\ CopyInv)
  <1>1. ShapeInv /\ CopyInv /\ [Next]_vars => (ShapeInv /\ CopyInv)'
    BY CopyStep, StepForms
  <1>2. QED
    BY <1>1, CopyInit, PTL DEF Spec

(***************************************************************************)
(* Nothing is written twice and nothing that was saved is lost: the text   *)
(* of a record occurs in at most one piece of the file, and whole if its   *)
(* save() returned, whatever fails and whoever else writes.                *)
(***************************************************************************)
THEOREM EachRecordIsWrittenOnce == Spec => []WrittenOnce
  <1>1. ASSUME ShapeInv, CopyInv
        PROVE  WrittenOnce
    <2>1. ASSUME NEW n \in 1..Len(size), NEW copies, copies = {i \in 1..Len(file) : file[i].of = n}
          PROVE  /\ Cardinality(copies) <= 1
                 /\ n \in Saved => copies # {} /\ \A i \in copies : file[i] = Body(n)
      <3>1. \A i, j \in copies : i = j
        <4>1. \A i \in copies : file[i] # Newline
          BY <2>1, PieceFacts
        <4>2. QED
          BY <1>1, <2>1, <4>1 DEF CopyInv, Places
      <3>2. Cardinality(copies) <= 1
        <4>1. CASE copies = {}
          BY <4>1, FS_EmptySet
        <4>2. CASE copies # {}
          <5>1. PICK i \in copies : TRUE
            BY <4>2
          <5>2. copies = {i}
            BY <3>1, <5>1
          <5>3. Cardinality({i}) = 1
            BY FS_Singleton, Zenon
          <5>4. QED
            BY <5>2, <5>3
        <4>3. QED
          BY <4>1, <4>2
      <3>3. ASSUME n \in Saved
            PROVE  copies # {} /\ \A i \in copies : file[i] = Body(n)
        <4>1. PICK i \in Places : file[i] = Body(n)
          BY <1>1, <3>3 DEF CopyInv
        <4>2. i \in copies
          BY <2>1, <4>1, PieceFacts DEF Places
        <4>3. QED
          BY <3>1, <4>1, <4>2
      <3>4. QED
        BY <3>2, <3>3
    <2>2. QED
      BY <2>1, Zenon DEF WrittenOnce
  <1>2. QED
    BY <1>1, CopyAlways, PTL

-------------------------------------------------------------------------------

\* What a write of a record's text does to the count of overlaps.
OverInv == overlaps <= Cardinality(Records \ Waiting)

LEMMA OverStep ==
    ASSUME ShapeInv, OverInv, [Next]_vars
    PROVE  OverInv'
  <1> DEFINE begun == Records \ Waiting
  <1>1. /\ Len(size) \in Nat /\ overlaps \in Nat /\ overlaps' \in Nat
        /\ IsFiniteSet(begun) /\ Cardinality(begun) \in Nat
    <2>1. Len(size) \in Nat /\ overlaps \in Nat /\ overlaps' \in Nat
      BY StepForms DEF ShapeInv
    <2>2. IsFiniteSet(begun)
      <3>1. IsFiniteSet(Records)
        BY <2>1, FS_Interval DEF Records
      <3>2. begun \in SUBSET Records
        OBVIOUS
      <3>3. QED
        BY <3>1, <3>2, FS_Subset, Zenon
    <2>3. QED
      BY <2>1, <2>2, FS_CardinalityType
  <1>2. CASE Starts
    <2>1. Records' = Records \cup {Len(size) + 1}
      BY <1>1, <1>2 DEF Starts, Records
    <2>2. begun' = begun /\ overlaps' = overlaps
      BY <1>1, <1>2, <2>1 DEF Starts, Records
    <2>3. QED
      BY <2>2 DEF OverInv
  <1>3. ASSUME NEW n \in Records, PutsWhole(n) \/ PutsText(n) \/ PutsNewline(n) \/ Loses(n)
        PROVE  OverInv'
    <2>1. begun' = begun \cup {n}
      BY <1>3, WaitingFacts DEF Records
    <2>2. /\ n \in begun => Cardinality(begun') = Cardinality(begun)
          /\ n \notin begun => Cardinality(begun') = Cardinality(begun) + 1
      <3> HIDE DEF begun
      <3>1. /\ n \in begun => Cardinality(begun \cup {n}) = Cardinality(begun)
            /\ n \notin begun => Cardinality(begun \cup {n}) = Cardinality(begun) + 1
        BY <1>1, FS_AddElement, Zenon
      <3>2. QED
        BY <2>1, <3>1
    <2>3. overlaps' = overlaps \/ (n \in Waiting /\ overlaps' = overlaps + 1)
      BY <1>3 DEF PutsWhole, PutsText, PutsNewline, Loses
    <2>4. QED
      BY <1>1, <2>2, <2>3 DEF OverInv
  <1>4. CASE UNCHANGED <<file, size, done, mishaps, overlaps, Waiting, Open>>
    BY <1>4 DEF OverInv, Records
  <1>5. QED
    BY <1>2, <1>3, <1>4, StepForms

(***************************************************************************)
(* Type correctness of every reachable state: a process has at most two    *)
(* writes left, the file holds pieces of records saved or being saved, and *)
(* there are no more overlaps than records.                                *)
(***************************************************************************)
THEOREM TypeCorrect == Spec => []TypeOK
  <1>1. Init => ShapeInv /\ OverInv
    <2> SUFFICES ASSUME Init
                 PROVE  ShapeInv /\ OverInv
      OBVIOUS
    <2>1. ShapeInv /\ Records = {} /\ overlaps = 0
      BY ShapeInit DEF Init, Records
    <2>2. QED
      BY <2>1, FS_EmptySet DEF OverInv
  <1>2. ShapeInv /\ OverInv /\ [Next]_vars => (ShapeInv /\ OverInv)'
    BY OverStep, StepForms
  <1>3. ASSUME ShapeInv, OverInv
        PROVE  TypeOK
    <2>1. \A w \in Writers : Len(todo[w]) \in 0..2 /\ record[w] \in 0..Len(size)
      <3>1. \A t \in Todos : Len(t) \in 0..2
        BY WriteFacts DEF Todos
      <3>2. QED
        BY <1>3, <3>1 DEF ShapeInv
    <2>2. overlaps \in 0..Len(size)
      <3>1. Len(size) \in Nat /\ overlaps \in Nat
        BY <1>3 DEF ShapeInv
      <3>2. IsFiniteSet(Records) /\ Cardinality(Records) = Len(size)
        <4>1. /\ IsFiniteSet(1..Len(size))
              /\ Cardinality(1..Len(size)) = IF 1 > Len(size) THEN 0 ELSE Len(size) - 1 + 1
          <5>1. 1 \in Int /\ Len(size) \in Int
            BY <3>1
          <5>2. QED
            BY <5>1, FS_Interval, Zenon
        <4>2. QED
          BY <3>1, <4>1 DEF Records
      <3>3. Cardinality(Records \ Waiting) <= Len(size) /\ Cardinality(Records \ Waiting) \in Nat
        <4>1. Records \ Waiting \in SUBSET Records
          OBVIOUS
        <4>2. /\ IsFiniteSet(Records \ Waiting)
              /\ Cardinality(Records \ Waiting) <= Cardinality(Records)
          BY <3>2, <4>1, FS_Subset, Zenon
        <4>3. Cardinality(Records \ Waiting) \in Nat
          BY <4>2, FS_CardinalityType, Zenon
        <4>4. QED
          BY <3>2, <4>2, <4>3
      <3>4. QED
        BY <1>3, <3>1, <3>3 DEF OverInv
    <2>3. \A i \in 1..Len(done) : done[i] \in 1..Len(size)
      BY <1>3 DEF ShapeInv, Records
    <2>4. QED
      BY <1>3, <2>1, <2>2, <2>3 DEF TypeOK, ShapeInv
  <1>4. QED
    BY <1>1, <1>2, <1>3, PTL DEF Spec

-------------------------------------------------------------------------------

\* A set that gains at most one or two elements grows by at most one or two.
LEMMA FewMore ==
    ASSUME NEW S, IsFiniteSet(S), NEW T, NEW x, NEW y
    PROVE  /\ Cardinality(S) \in Nat
           /\ T \subseteq S \cup {x, y} => Cardinality(T) \in Nat /\ Cardinality(T) <= Cardinality(S) + 2
           /\ T \subseteq S \cup {x} => Cardinality(T) \in Nat /\ Cardinality(T) <= Cardinality(S) + 1
           /\ T \subseteq S => Cardinality(T) \in Nat /\ Cardinality(T) <= Cardinality(S)
  <1>1. ASSUME NEW U, IsFiniteSet(U), NEW z
        PROVE  /\ IsFiniteSet(U \cup {z}) /\ Cardinality(U) \in Nat
               /\ Cardinality(U \cup {z}) <= Cardinality(U) + 1
    <2>1. /\ IsFiniteSet(U \cup {z})
          /\ Cardinality(U \cup {z}) = Cardinality(U) \/ Cardinality(U \cup {z}) = Cardinality(U) + 1
      BY <1>1, FS_AddElement, Zenon
    <2>2. Cardinality(U) \in Nat
      BY <1>1, FS_CardinalityType, Zenon
    <2>3. QED
      BY <2>1, <2>2
  <1>2. ASSUME NEW U, IsFiniteSet(U), NEW V, V \subseteq U
        PROVE  Cardinality(V) \in Nat /\ Cardinality(V) <= Cardinality(U)
    <2>1. IsFiniteSet(V) /\ Cardinality(V) <= Cardinality(U)
      BY <1>2, FS_Subset, Zenon
    <2>2. QED
      BY <2>1, FS_CardinalityType, Zenon
  <1> DEFINE one == S \cup {x}
             two == one \cup {y}
  <1>3. IsFiniteSet(one) /\ Cardinality(S) \in Nat /\ Cardinality(one) <= Cardinality(S) + 1
    BY <1>1
  <1>4. IsFiniteSet(two) /\ Cardinality(one) \in Nat /\ Cardinality(two) <= Cardinality(one) + 1
    <2> HIDE DEF one
    <2>1. QED
      BY <1>1, <1>3
  <1>5. Cardinality(two) \in Nat
    <2> HIDE DEF two
    <2>1. QED
      BY <1>4, <1>1
  <1>6. ASSUME T \subseteq S \cup {x, y}
        PROVE  Cardinality(T) \in Nat /\ Cardinality(T) <= Cardinality(S) + 2
    <2>1. T \subseteq two
      BY <1>6
    <2>2. Cardinality(T) \in Nat /\ Cardinality(T) <= Cardinality(two)
      <3> HIDE DEF two
      <3>1. QED
        BY <1>2, <1>4, <2>1
    <2>3. QED
      BY <1>3, <1>4, <1>5, <2>2
  <1>7. ASSUME T \subseteq S \cup {x}
        PROVE  Cardinality(T) \in Nat /\ Cardinality(T) <= Cardinality(S) + 1
    <2>1. Cardinality(T) \in Nat /\ Cardinality(T) <= Cardinality(one)
      <3>1. T \subseteq one
        BY <1>7
      <3> HIDE DEF one
      <3>2. QED
        BY <1>2, <1>3, <3>1
    <2>2. QED
      BY <1>3, <1>4, <2>1
  <1>8. QED
    BY <1>2, <1>3, <1>6, <1>7

(***************************************************************************)
(* What the damage is counted by: a record saved or open is doomed when    *)
(* another piece than a newline stands next to its text, and the next      *)
(* record will be when the last line has no end and nobody will end it.    *)
(***************************************************************************)
Spoilt(i) ==
    \/ i > 1 /\ file[i - 1] # Newline
    \/ i < Len(file) /\ file[i + 1] # Newline

Doomed == {n \in Saved \cup Open : \E i \in Places : file[i] = Body(n) /\ Spoilt(i)}

Unended == Len(file) > 0 /\ file[Len(file)] # Newline

Dangling == Open = {} /\ Unended

LastOf == file[Len(file)].of

EndsInv == \A n \in Saved, i \in Places : file[i] = Body(n) => i < Len(file)

DamageInv ==
    Cardinality(Doomed) + (IF Dangling THEN 1 ELSE 0) <= mishaps + 2 * overlaps

\* The pieces each form appends.
LEMMA AppendedFacts ==
    ASSUME ShapeInv, NEW n \in Records
    PROVE  /\ PutsWhole(n) => /\ Len(file') = Len(file) + 2 /\ file'[Len(file) + 1] = Body(n)
                              /\ file'[Len(file) + 2] = Newline
           /\ PutsText(n) => Len(file') = Len(file) + 1 /\ file'[Len(file) + 1] = Body(n)
           /\ PutsNewline(n) => Len(file') = Len(file) + 1 /\ file'[Len(file) + 1] = Newline
           /\ Loses(n) => \/ file' = file
                          \/ n \in Waiting
                          \/ n \in Open /\ file'[Len(file) + 1] = Newline
  <1>1. /\ file \in Seq(Pieces) /\ Body(n) \in Pieces /\ Torn(n) \in Pieces
        /\ Newline \in Pieces /\ Len(file) \in Nat
    BY PieceTypes DEF ShapeInv
  <1>2. \A p \in Pieces : /\ Len(Append(file, p)) = Len(file) + 1
                          /\ Append(file, p)[Len(file) + 1] = p
    BY <1>1
  <1>3. /\ Len(file \o <<Body(n), Newline>>) = Len(file) + 2
        /\ (file \o <<Body(n), Newline>>)[Len(file) + 1] = Body(n)
        /\ (file \o <<Body(n), Newline>>)[Len(file) + 2] = Newline
    BY <1>1
  <1>4. PutsWhole(n) => /\ Len(file') = Len(file) + 2 /\ file'[Len(file) + 1] = Body(n)
                        /\ file'[Len(file) + 2] = Newline
    BY <1>3, Zenon DEF PutsWhole
  <1>5. PutsText(n) => Len(file') = Len(file) + 1 /\ file'[Len(file) + 1] = Body(n)
    BY <1>1, <1>2, Zenon DEF PutsText
  <1>6. PutsNewline(n) => Len(file') = Len(file) + 1 /\ file'[Len(file) + 1] = Newline
    BY <1>1, <1>2, Zenon DEF PutsNewline
  <1>7. Loses(n) => \/ file' = file
                    \/ n \in Waiting
                    \/ n \in Open /\ file'[Len(file) + 1] = Newline
    BY <1>1, <1>2, Zenon DEF Loses
  <1>8. QED
    BY <1>4, <1>5, <1>6, <1>7

\* A record begun in this step has no text in the file before it.
LEMMA OldCopies ==
    ASSUME ShapeInv, CopyInv, [Next]_vars, NEW n \in Records,
           PutsWhole(n) \/ PutsText(n) \/ PutsNewline(n) \/ Loses(n),
           NEW i \in Places', NEW x \in Saved' \cup Open', file'[i] = Body(x)
    PROVE  \/ i \in Places /\ file[i] = Body(x) /\ x \in Saved \cup Open
           \/ /\ i = Len(file) + 1 /\ x = n /\ n \in Waiting
              /\ PutsWhole(n) \/ PutsText(n)
  <1>1. /\ \A k \in Places : file'[k] = file[k]
        /\ \A k \in Places' \ Places :
              /\ file'[k] \in {Body(n), Torn(n), Newline}
              /\ file'[k] # Newline => k = Len(file) + 1 /\ n \in Waiting
    BY GrowFacts
  <1>2. Saved' \cup Open' \subseteq Saved \cup Open \cup {n}
    BY NewCopy
  <1>3. CASE i \in Places
    <2>1. file[i] = Body(x)
      BY <1>1, <1>3
    <2>2. x \notin Waiting
      BY <1>3, <2>1, PieceFacts DEF CopyInv
    <2>3. x \in Saved \cup Open
      <3>1. x = n => n \in Open
        BY <2>2, NewCopy
      <3>2. QED
        BY <1>2, <3>1
    <2>4. QED
      BY <1>3, <2>1, <2>3
  <1>4. CASE i \notin Places
    <2>1. file'[i] # Newline /\ file'[i] \in {Body(n), Torn(n)}
      BY <1>1, <1>4, PieceFacts
    <2>2. x = n
      BY <2>1, PieceFacts
    <2>3. i = Len(file) + 1 /\ n \in Waiting
      BY <1>1, <1>4, <2>1
    <2>4. PutsWhole(n) \/ PutsText(n)
      <3>1. ~PutsNewline(n)
        BY <2>3, Bounds DEF PutsNewline
      <3>2. ~Loses(n)
        <4>1. n \notin Saved
          <5>1. \A m \in Saved : \E k \in Places : file[k].of = m
            BY PieceFacts DEF CopyInv
          <5>2. QED
            BY <2>3, <5>1 DEF CopyInv
        <4>2. Loses(n) => Saved' = Saved /\ Open' = Open \ {n}
          BY DEF Loses, Saved
        <4>3. QED
          BY <2>2, <4>1, <4>2
      <3>3. QED
        BY <3>1, <3>2
    <2>5. QED
      BY <2>2, <2>3, <2>4
  <1>5. QED
    BY <1>3, <1>4

LEMMA EndsStep ==
    ASSUME ShapeInv, CopyInv, EndsInv, [Next]_vars
    PROVE  EndsInv'
  <1>1. CASE Starts
    BY <1>1 DEF Starts, EndsInv, Saved, Places, Body
  <1>2. CASE UNCHANGED <<file, size, done, mishaps, overlaps, Waiting, Open>>
    BY <1>2 DEF EndsInv, Saved, Places, Body
  <1>3. ASSUME NEW n \in Records, PutsWhole(n) \/ PutsText(n) \/ PutsNewline(n) \/ Loses(n)
        PROVE  EndsInv'
    <2>1. Len(file) \in Nat /\ Len(file') \in Nat /\ Len(file) <= Len(file')
      BY <1>3, GrowFacts, Bounds
    <2>2. ASSUME NEW m \in Saved', NEW i \in Places', file'[i] = Body(m)
          PROVE  i < Len(file')
      <3>1. CASE i \in Places /\ file[i] = Body(m) /\ m \in Saved
        <4>1. i < Len(file) /\ i \in Nat
          BY <3>1 DEF EndsInv, Places
        <4>2. QED
          BY <2>1, <4>1
      <3>2. CASE i \in Places /\ m \notin Saved
        <4>1. PutsWhole(n) \/ PutsNewline(n)
          BY <1>3, <3>2 DEF PutsText, Loses, Saved
        <4>2. Len(file') = Len(file) + 1 \/ Len(file') = Len(file) + 2
          BY <4>1, AppendedFacts
        <4>3. QED
          BY <2>1, <3>2, <4>2 DEF Places
      <3>3. CASE i \notin Places
        <4>1. i = Len(file) + 1 /\ m = n /\ n \in Waiting /\ (PutsWhole(n) \/ PutsText(n))
          BY <1>3, <2>2, <3>3, OldCopies
        <4>2. ~PutsText(n)
          <5>1. PutsText(n) => Saved' = Saved
            BY DEF PutsText, Saved
          <5>2. n \notin Saved
            <6>1. \A k \in Saved : \E l \in Places : file[l].of = k
              BY PieceFacts DEF CopyInv
            <6>2. QED
              BY <4>1, <6>1 DEF CopyInv
          <5>3. QED
            BY <2>2, <4>1, <5>1, <5>2
        <4>3. Len(file') = Len(file) + 2
          BY <4>1, <4>2, AppendedFacts
        <4>4. QED
          BY <2>1, <4>1, <4>3
      <3>4. i \in Places => file[i] = Body(m)
        BY <1>3, <2>2, GrowFacts
      <3>5. QED
        BY <3>1, <3>2, <3>3, <3>4
    <2>3. QED
      BY <2>2, Zenon DEF EndsInv, Body
  <1>4. QED
    BY <1>1, <1>2, <1>3, StepForms

(***************************************************************************)
(* Who is newly doomed: the record whose line was the last and open when   *)
(* text is appended, and the record whose text is written behind a line    *)
(* without an end.                                                         *)
(***************************************************************************)
LEMMA NewlyDoomed ==
    ASSUME ShapeInv, CopyInv, EndsInv, [Next]_vars, NEW n \in Records,
           PutsWhole(n) \/ PutsText(n) \/ PutsNewline(n) \/ Loses(n),
           NEW x \in Doomed'
    PROVE  \/ x \in Doomed
           \/ x = LastOf /\ x \in Open /\ file'[Len(file) + 1] # Newline /\ file' # file
           \/ x = n /\ Unended /\ (PutsWhole(n) \/ PutsText(n))
  <1>1. PICK i \in Places' : file'[i] = Body(x) /\ Spoilt(i)' /\ x \in Saved' \cup Open'
    BY Zenon DEF Doomed, Body
  <1>2. /\ Len(file) \in Nat /\ Len(file') \in Nat /\ Len(file) <= Len(file')
        /\ \A k \in Places : file'[k] = file[k]
    BY GrowFacts, Bounds
  <1>3. \/ i > 1 /\ file'[i - 1] # Newline
        \/ i < Len(file') /\ file'[i + 1] # Newline
    BY <1>1 DEF Spoilt, Newline
  <1>4. CASE i \in Places /\ file[i] = Body(x) /\ x \in Saved \cup Open
    <2>1. CASE i > 1 /\ file'[i - 1] # Newline
      <3>1. i - 1 \in Places
        BY <1>2, <1>4, <2>1 DEF Places
      <3>2. Spoilt(i)
        BY <1>2, <2>1, <3>1 DEF Spoilt
      <3>3. QED
        BY <1>4, <3>2 DEF Doomed
    <2>2. CASE i < Len(file) /\ file'[i + 1] # Newline
      <3>1. i + 1 \in Places
        BY <1>2, <1>4, <2>2 DEF Places
      <3>2. Spoilt(i)
        BY <1>2, <2>2, <3>1 DEF Spoilt
      <3>3. QED
        BY <1>4, <3>2 DEF Doomed
    <2>3. CASE i = Len(file) /\ i < Len(file') /\ file'[i + 1] # Newline
      <3>1. x = LastOf
        BY <1>4, <2>3, PieceFacts DEF LastOf
      <3>2. x \in Open
        BY <1>2, <1>4, <2>3 DEF EndsInv
      <3>3. file'[Len(file) + 1] # Newline
        BY <2>3
      <3>4. file' # file
        BY <1>2, <2>3
      <3>5. QED
        BY <3>1, <3>2, <3>3, <3>4
    <2>4. QED
      BY <1>2, <1>3, <1>4, <2>1, <2>2, <2>3 DEF Places
  <1>5. CASE i = Len(file) + 1 /\ x = n /\ n \in Waiting /\ (PutsWhole(n) \/ PutsText(n))
    <2>1. i > 1 /\ file'[i - 1] # Newline
      <3>1. ~(i < Len(file') /\ file'[i + 1] # Newline)
        <4>1. PutsText(n) => ~(i < Len(file'))
          BY <1>2, <1>5, AppendedFacts
        <4>2. PutsWhole(n) => file'[i + 1] = Newline
          BY <1>2, <1>5, AppendedFacts
        <4>3. QED
          BY <1>5, <4>1, <4>2
      <3>2. QED
        BY <1>3, <3>1
    <2>2. Len(file) \in Places /\ i - 1 = Len(file)
      BY <1>2, <1>5, <2>1 DEF Places
    <2>3. Unended
      BY <1>2, <2>1, <2>2 DEF Unended, Places
    <2>4. QED
      BY <1>5, <2>3
  <1>6. QED
    BY <1>1, <1>4, <1>5, OldCopies

LEMMA DamageStep ==
    ASSUME ShapeInv, CopyInv, EndsInv, DamageInv, [Next]_vars
    PROVE  DamageInv'
  <1> DEFINE before == IF Dangling THEN 1 ELSE 0
             after == IF Dangling' THEN 1 ELSE 0
  <1>1. IsFiniteSet(Doomed)
    <2>1. IsFiniteSet(Records)
      <3>1. 1 \in Int /\ Len(size) \in Int
        BY Bounds
      <3>2. QED
        BY <3>1, FS_Interval, Zenon DEF Records
    <2>2. Doomed \in SUBSET Records
      BY Bounds DEF Doomed
    <2>3. QED
      BY <2>1, <2>2, FS_Subset, Zenon
  <1>2. /\ Cardinality(Doomed) \in Nat /\ mishaps \in Nat /\ overlaps \in Nat
        /\ Cardinality(Doomed) + before <= mishaps + 2 * overlaps
        /\ before \in {0, 1} /\ after \in {0, 1}
    BY <1>1, FewMore DEF DamageInv, ShapeInv
  <1>3. ASSUME Cardinality(Doomed') + after <= mishaps' + 2 * overlaps'
        PROVE  DamageInv'
    BY <1>3 DEF DamageInv
  <1>4. CASE Starts
    <2>1. Doomed' = Doomed
      BY <1>4 DEF Starts, Doomed, Saved, Places, Spoilt, Body, Newline
    <2>2. Dangling' = Dangling
      BY <1>4 DEF Starts, Dangling, Unended, Newline
    <2>3. UNCHANGED <<mishaps, overlaps>>
      BY <1>4 DEF Starts
    <2>4. QED
      BY <2>1, <2>2, <2>3 DEF DamageInv
  <1>5. CASE UNCHANGED <<file, size, done, mishaps, overlaps, Waiting, Open>>
    <2>1. Doomed' = Doomed
      BY <1>5 DEF Doomed, Saved, Places, Spoilt, Body, Newline
    <2>2. Dangling' = Dangling
      BY <1>5 DEF Dangling, Unended, Newline
    <2>3. QED
      BY <1>5, <2>1, <2>2 DEF DamageInv
  <1>6. ASSUME NEW n \in Records, PutsWhole(n) \/ PutsText(n)
        PROVE  DamageInv'
    <2>1. ~Dangling'
      <3>1. PutsWhole(n) => ~Unended'
        BY Bounds, AppendedFacts DEF Unended, Newline
      <3>2. PutsText(n) => Open' # {}
        BY DEF PutsText
      <3>3. QED
        BY <1>6, <3>1, <3>2 DEF Dangling
    <2>2. mishaps' = mishaps /\ overlaps' = IF Open = {} THEN overlaps ELSE overlaps + 1
      BY <1>6 DEF PutsWhole, PutsText
    <2>3. CASE Open # {}
      <3>1. Doomed' \subseteq Doomed \cup {LastOf, n}
        BY <1>6, NewlyDoomed
      <3>2. Cardinality(Doomed') \in Nat /\ Cardinality(Doomed') <= Cardinality(Doomed) + 2
        BY <1>1, <3>1, FewMore
      <3>3. QED
        BY <1>2, <1>3, <2>1, <2>2, <2>3, <3>2
    <2>4. CASE Open = {} /\ Unended
      <3>1. Doomed' \subseteq Doomed \cup {n}
        BY <1>6, <2>4, NewlyDoomed
      <3>2. Cardinality(Doomed') \in Nat /\ Cardinality(Doomed') <= Cardinality(Doomed) + 1
        BY <1>1, <3>1, FewMore
      <3>3. before = 1
        BY <2>4 DEF Dangling
      <3>4. QED
        BY <1>2, <1>3, <2>1, <2>2, <2>4, <3>2, <3>3
    <2>5. CASE Open = {} /\ ~Unended
      <3>1. Doomed' \subseteq Doomed
        BY <1>6, <2>5, NewlyDoomed
      <3>2. Cardinality(Doomed') \in Nat /\ Cardinality(Doomed') <= Cardinality(Doomed)
        BY <1>1, <3>1, FewMore
      <3>3. QED
        BY <1>2, <1>3, <2>1, <2>2, <2>5, <3>2
    <2>6. QED
      BY <2>3, <2>4, <2>5
  <1>7. ASSUME NEW n \in Records, PutsNewline(n)
        PROVE  DamageInv'
    <2>1. ~Dangling'
      BY <1>7, Bounds, AppendedFacts DEF Dangling, Unended, Newline
    <2>2. UNCHANGED <<mishaps, overlaps>>
      BY <1>7 DEF PutsNewline
    <2>3. ~PutsWhole(n) /\ ~PutsText(n)
      BY <1>7, Bounds DEF PutsNewline, PutsWhole, PutsText
    <2>4. Doomed' \subseteq Doomed
      BY <1>7, <2>3, NewlyDoomed, AppendedFacts
    <2>5. Cardinality(Doomed') \in Nat /\ Cardinality(Doomed') <= Cardinality(Doomed)
      BY <1>1, <2>4, FewMore
    <2>6. QED
      BY <1>2, <1>3, <2>1, <2>2, <2>5
  <1>8. ASSUME NEW n \in Records, Loses(n)
        PROVE  DamageInv'
    <2>1. mishaps' = mishaps + 1 /\ overlaps' = overlaps
      BY <1>8 DEF Loses
    <2>2. \A x \in Doomed' : x # n
      <3>1. n \notin Saved
        <4>1. \A m \in Saved : \E k \in Places : file[k].of = m
          BY PieceFacts DEF CopyInv
        <4>2. QED
          BY <1>8, <4>1 DEF CopyInv, Loses
      <3>2. n \notin Saved' \cup Open'
        BY <1>8, <3>1 DEF Loses, Saved
      <3>3. QED
        BY <3>2 DEF Doomed
    <2>3. CASE n \in Waiting /\ Open # {}
      <3>1. Open' = Open
        BY <1>8, <2>3, Bounds DEF Loses
      <3>2. ~Dangling' /\ ~Dangling
        BY <2>3, <3>1 DEF Dangling
      <3>3. Doomed' \subseteq Doomed \cup {LastOf}
        BY <1>8, <2>2, NewlyDoomed
      <3>4. Cardinality(Doomed') \in Nat /\ Cardinality(Doomed') <= Cardinality(Doomed) + 1
        BY <1>1, <3>3, FewMore
      <3>5. QED
        BY <1>2, <1>3, <2>1, <3>2, <3>4
    <2>4. CASE file' = file \/ Open = {} \/ file'[Len(file) + 1] = Newline
      <3>1. Doomed' \subseteq Doomed
        BY <1>8, <2>2, <2>4, NewlyDoomed
      <3>2. Cardinality(Doomed') \in Nat /\ Cardinality(Doomed') <= Cardinality(Doomed)
        BY <1>1, <3>1, FewMore
      <3>3. QED
        BY <1>2, <1>3, <2>1, <3>2
    <2>5. QED
      BY <1>8, <2>3, <2>4, AppendedFacts
  <1>9. QED
    BY <1>4, <1>5, <1>6, <1>7, <1>8, StepForms

-------------------------------------------------------------------------------

(***************************************************************************)
(* The order of the file while no record was written behind another        *)
(* process's text: at most one line is open, and its text stands behind    *)
(* that of everything saved.                                               *)
(***************************************************************************)
Before(m, n) == \A a, b \in Places : file[a] = Body(m) /\ file[b] = Body(n) => a < b

OrderInv ==
    overlaps = 0 =>
        /\ \A m, n \in Open : m = n
        /\ \A j, k \in 1..Len(done) : j < k => Before(done[j], done[k])
        /\ \A m \in Saved, n \in Open : Before(m, n)

LEMMA NotWaiting ==
    ASSUME CopyInv, NEW x \in Saved \cup Open
    PROVE  x \notin Waiting
  <1>1. \E k \in Places : file[k].of = x
    BY PieceFacts DEF CopyInv
  <1>2. QED
    BY <1>1 DEF CopyInv

\* Two records keep their order, and a record whose text is written is the last.
LEMMA BeforeStep ==
    ASSUME ShapeInv, CopyInv, [Next]_vars, NEW n \in Records,
           PutsWhole(n) \/ PutsText(n) \/ PutsNewline(n) \/ Loses(n),
           NEW m \in Saved \cup Open, m \in Saved' \cup Open'
    PROVE  /\ \A x \in Saved \cup Open : x \in Saved' \cup Open' /\ Before(m, x) => Before(m, x)'
           /\ n \in Waiting /\ n \in Saved' \cup Open' => Before(m, n)'
  <1>1. ASSUME NEW x \in Saved \cup Open, x \in Saved' \cup Open',
               NEW i \in Places', file'[i] = Body(x)
        PROVE  i \in Places /\ file[i] = Body(x)
    BY <1>1, OldCopies, NotWaiting
  <1>2. ASSUME NEW x \in Saved \cup Open, x \in Saved' \cup Open', Before(m, x)
        PROVE  Before(m, x)'
    <2>1. \A a, b \in Places' : file'[a] = Body(m) /\ file'[b] = Body(x) => a < b
      BY <1>1, <1>2 DEF Before
    <2>2. QED
      BY <2>1, Zenon DEF Before, Body
  <1>3. ASSUME n \in Waiting, n \in Saved' \cup Open'
        PROVE  Before(m, n)'
    <2>1. ASSUME NEW a \in Places', NEW b \in Places', file'[a] = Body(m), file'[b] = Body(n)
          PROVE  a < b
      <3>1. a \in Places
        BY <1>1, <2>1
      <3>2. b = Len(file) + 1
        BY <1>3, <2>1, OldCopies, NotWaiting
      <3>3. QED
        BY <3>1, <3>2, Bounds DEF Places
    <2>2. QED
      BY <2>1, Zenon DEF Before, Body
  <1>4. QED
    BY <1>2, <1>3

LEMMA SameOrder ==
    ASSUME OrderInv, UNCHANGED <<file, done, overlaps, Open, Saved, Places>>, overlaps' = 0
    PROVE  /\ \A m, n \in Open' : m = n
           /\ \A j, k \in 1..Len(done') : j < k => Before(done[j], done[k])'
           /\ \A m \in Saved', n \in Open' : Before(m, n)'
  <1>1. \A m, n : Before(m, n) => Before(m, n)'
    BY Zenon DEF Before, Body
  <1>2. /\ done' = done /\ Open' = Open /\ Saved' = Saved
        /\ \A j, k : Before(done[j], done[k]) => Before(done[j], done[k])'
    BY <1>1, Zenon DEF Before, Body
  <1>3. /\ \A m, n \in Open : m = n
        /\ \A j, k \in 1..Len(done) : j < k => Before(done[j], done[k])
        /\ \A m \in Saved, n \in Open : Before(m, n)
    BY Zenon DEF OrderInv
  <1>4. QED
    BY <1>1, <1>2, <1>3, Zenon

LEMMA OrderStep ==
    ASSUME ShapeInv, CopyInv, OrderInv, [Next]_vars
    PROVE  OrderInv'
  <1> SUFFICES ASSUME overlaps' = 0
               PROVE  /\ \A m, n \in Open' : m = n
                      /\ \A j, k \in 1..Len(done') : j < k => Before(done[j], done[k])'
                      /\ \A m \in Saved', n \in Open' : Before(m, n)'
    BY Zenon DEF OrderInv
  <1>1. CASE Starts
    <2>1. UNCHANGED <<file, done, overlaps, Open, Saved, Places>>
      BY <1>1 DEF Starts, Saved, Places
    <2>2. QED
      BY <2>1, SameOrder
  <1>2. CASE UNCHANGED <<file, size, done, mishaps, overlaps, Waiting, Open>>
    <2>1. UNCHANGED <<file, done, overlaps, Open, Saved, Places>>
      BY <1>2 DEF Saved, Places
    <2>2. QED
      BY <2>1, SameOrder
  <1>3. ASSUME NEW n \in Records, PutsWhole(n) \/ PutsText(n) \/ PutsNewline(n) \/ Loses(n)
        PROVE  /\ \A x, y \in Open' : x = y
               /\ \A j, k \in 1..Len(done') : j < k => Before(done[j], done[k])'
               /\ \A x \in Saved', y \in Open' : Before(x, y)'
    <2>1. /\ overlaps = 0
          /\ n \in Waiting /\ n \in Saved' \cup Open' => Open = {}
      <3>1. PutsWhole(n) \/ PutsText(n) => overlaps' = IF Open = {} THEN overlaps ELSE overlaps + 1
        BY DEF PutsWhole, PutsText
      <3>2. PutsNewline(n) \/ Loses(n) => overlaps' = overlaps
        BY DEF PutsNewline, Loses
      <3>3. overlaps \in Nat
        BY DEF ShapeInv
      <3>4. n \in Waiting /\ n \in Saved' \cup Open' => PutsWhole(n) \/ PutsText(n)
        <4>1. PutsNewline(n) => n \notin Waiting
          BY Bounds DEF PutsNewline
        <4>2. Loses(n) /\ n \in Waiting => n \notin Saved' \cup Open'
          BY NotWaiting DEF Loses, Saved
        <4>3. QED
          BY <1>3, <4>1, <4>2
      <3>5. QED
        BY <1>3, <3>1, <3>2, <3>3, <3>4
    <2>2. /\ \A x, y \in Open : x = y
          /\ \A j, k \in 1..Len(done) : j < k => Before(done[j], done[k])
          /\ \A x \in Saved, y \in Open : Before(x, y)
      BY <2>1 DEF OrderInv
    <2>3. ASSUME NEW x \in Saved, NEW y \in Open', x \in Saved'
          PROVE  Before(x, y)'
      <3>1. y \in Open \/ (y = n /\ n \in Waiting)
        BY <1>3 DEF PutsWhole, PutsText, PutsNewline, Loses
      <3>2. QED
        BY <1>3, <2>2, <2>3, <3>1, BeforeStep
    <2>4. CASE done' = done
      <3>1. Saved' = Saved
        BY <2>4 DEF Saved
      <3>2. \A x, y \in Open' : x = y
        <4>1. Open' \subseteq Open \/ (n \in Waiting /\ n \in Open' /\ Open' \subseteq Open \cup {n})
          BY <1>3 DEF PutsWhole, PutsText, PutsNewline, Loses
        <4>2. QED
          BY <2>1, <2>2, <4>1
      <3>3. ASSUME NEW j \in 1..Len(done'), NEW k \in 1..Len(done'), j < k
            PROVE  Before(done[j], done[k])'
        <4>1. Before(done[j], done[k]) /\ done[j] \in Saved /\ done[k] \in Saved
          BY <2>2, <2>4, <3>3 DEF Saved
        <4>2. \A x, y \in Saved : Before(x, y) =>
                 \A a, b \in Places' : file'[a] = Body(x) /\ file'[b] = Body(y) => a < b
          <5>1. ASSUME NEW x \in Saved, NEW y \in Saved, Before(x, y)
                PROVE  Before(x, y)'
            BY <1>3, <3>1, <5>1, BeforeStep
          <5>2. QED
            BY <5>1, Zenon DEF Before, Body
        <4>3. QED
          BY <2>4, <4>1, <4>2 DEF Before, Body
      <3>4. QED
        BY <2>3, <3>1, <3>2, <3>3
    <2>5. CASE done' # done
      <3>1. PutsWhole(n) \/ PutsNewline(n)
        BY <1>3, <2>5 DEF PutsText, Loses
      <3>2. /\ Saved' = Saved \cup {n} /\ Open' \subseteq Open /\ n \notin Open'
            /\ Len(done') = Len(done) + 1 /\ done'[Len(done) + 1] = n
            /\ \A j \in 1..Len(done) : done'[j] = done[j]
        BY <3>1, SavedFacts, Bounds DEF PutsWhole, PutsNewline
      <3>3. ASSUME NEW x \in Saved
            PROVE  Before(x, n)'
        <4>1. n \in Open \/ n \in Waiting
          BY <3>1 DEF PutsWhole, PutsNewline
        <4>2. QED
          BY <1>3, <2>2, <3>2, <4>1, BeforeStep
      <3>4. \A x, y \in Open' : x = y
        BY <2>2, <3>2
      <3>5. ASSUME NEW j \in 1..Len(done'), NEW k \in 1..Len(done'), j < k
            PROVE  Before(done[j], done[k])'
        <4>1. /\ j \in 1..Len(done) /\ done'[j] = done[j] /\ done[j] \in Saved
              /\ k \in 1..Len(done) \/ done'[k] = n
          <5>1. Len(done) \in Nat
            BY Bounds
          <5>2. j \in 1..Len(done) /\ (k \in 1..Len(done) \/ k = Len(done) + 1)
            BY <3>2, <3>5, <5>1
          <5>3. QED
            BY <3>2, <5>2 DEF Saved
        <4>2. CASE k \in 1..Len(done)
          <5>1. done'[k] = done[k] /\ done[k] \in Saved /\ Before(done[j], done[k])
            BY <2>2, <3>2, <3>5, <4>1, <4>2 DEF Saved
          <5>2. \A x, y \in Saved : Before(x, y) =>
                   \A a, b \in Places' : file'[a] = Body(x) /\ file'[b] = Body(y) => a < b
            <6>1. ASSUME NEW x \in Saved, NEW y \in Saved, Before(x, y)
                  PROVE  Before(x, y)'
              BY <1>3, <3>2, <6>1, BeforeStep
            <6>2. QED
              BY <6>1, Zenon DEF Before, Body
          <5>3. QED
            BY <4>1, <5>1, <5>2 DEF Before, Body
        <4>3. CASE done'[k] = n
          <5>1. \A x \in Saved :
                   \A a, b \in Places' : file'[a] = Body(x) /\ file'[b] = Body(n) => a < b
            BY <3>3, Zenon DEF Before, Body
          <5>2. QED
            BY <4>1, <4>3, <5>1 DEF Before, Body
        <4>4. QED
          BY <4>1, <4>2, <4>3
      <3>6. ASSUME NEW x \in Saved', NEW y \in Open'
            PROVE  Before(x, y)'
        <4>1. y \in Open /\ y # n
          BY <3>2, <3>6
        <4>2. CASE x \in Saved
          BY <2>3, <3>6, <4>2
        <4>3. CASE x = n
          <5>1. n \in Waiting
            BY <2>2, <3>1, <4>1 DEF PutsWhole, PutsNewline
          <5>2. QED
            BY <2>1, <3>2, <4>1, <5>1
        <4>4. QED
          BY <3>2, <4>2, <4>3
      <3>7. QED
        BY <3>4, <3>5, <3>6
    <2>6. QED
      BY <2>4, <2>5
  <1>4. QED
    BY <1>1, <1>2, <1>3, StepForms

DamageIInv == ShapeInv /\ CopyInv /\ EndsInv /\ DamageInv /\ OrderInv

LEMMA DamageInit == Init => DamageIInv
  <1> SUFFICES ASSUME Init
               PROVE  DamageIInv
    OBVIOUS
  <1>1. ShapeInv /\ CopyInv /\ Open = {}
    BY CopyInit, ShapeInit
  <1>2. Places = {} /\ Saved = {} /\ Len(done) = 0 /\ Len(file) = 0 /\ mishaps = 0 /\ overlaps = 0
    BY DEF Init, Places, Saved
  <1>3. Cardinality(Doomed) = 0
    <2>1. Doomed = {}
      BY <1>1, <1>2 DEF Doomed
    <2>2. QED
      BY <2>1, FS_EmptySet
  <1>4. ~Dangling
    BY <1>2 DEF Dangling, Unended
  <1>5. OrderInv
    BY <1>1, <1>2 DEF OrderInv
  <1>6. QED
    BY <1>1, <1>2, <1>3, <1>4, <1>5 DEF DamageIInv, EndsInv, DamageInv

\* A saved record that cannot be read is doomed.
LEMMA UnreadableIsDoomed ==
    ASSUME ShapeInv, CopyInv, EndsInv, NEW n \in Saved, ~Readable(n)
    PROVE  n \in Doomed
  <1>1. PICK i \in Places : file[i] = Body(n)
    BY DEF CopyInv
  <1>2. i < Len(file)
    BY <1>1 DEF EndsInv
  <1>3. ~LineAt(n, i)
    BY <1>1 DEF Readable, Places
  <1>4. (i # 1 /\ file[i - 1] # Newline) \/ file[i + 1] # Newline
    BY <1>1, <1>2, <1>3 DEF LineAt
  <1>5. Spoilt(i)
    BY <1>1, <1>2, <1>4 DEF Spoilt, Places
  <1>6. QED
    BY <1>1, <1>5 DEF Doomed

(***************************************************************************)
(* A failed or interrupted save costs at most the one item saved right     *)
(* after it, two processes that write behind each other's text spoil no    *)
(* record but those two, and without such writing the lines that can be    *)
(* read are in the order of the saves: whatever the number of processes,   *)
(* records and failures.                                                   *)
(***************************************************************************)
THEOREM TheDamageIsBounded == Spec => []DamageIsBounded
  <1>1. DamageIInv /\ [Next]_vars => DamageIInv'
    BY CopyStep, EndsStep, DamageStep, OrderStep, StepForms DEF DamageIInv
  <1>2. ASSUME DamageIInv
        PROVE  DamageIsBounded
    <2> DEFINE lost == {n \in Saved : ~Readable(n)}
    <2>1. Cardinality(lost) <= mishaps + 2 * overlaps
      <3>1. IsFiniteSet(Doomed)
        <4>1. IsFiniteSet(Records)
          <5>1. 1 \in Int /\ Len(size) \in Int
            BY <1>2, Bounds DEF DamageIInv
          <5>2. QED
            BY <5>1, FS_Interval, Zenon DEF Records
        <4>2. Doomed \in SUBSET Records
          BY <1>2, Bounds DEF Doomed, DamageIInv
        <4>3. QED
          BY <4>1, <4>2, FS_Subset, Zenon
      <3>2. lost \subseteq Doomed
        BY <1>2, UnreadableIsDoomed DEF DamageIInv
      <3>3. /\ Cardinality(lost) \in Nat /\ Cardinality(lost) <= Cardinality(Doomed)
            /\ Cardinality(Doomed) \in Nat
        BY <3>1, <3>2, FewMore
      <3>4. /\ Cardinality(Doomed) + (IF Dangling THEN 1 ELSE 0) <= mishaps + 2 * overlaps
            /\ mishaps \in Nat /\ overlaps \in Nat
        BY <1>2 DEF DamageIInv, DamageInv, ShapeInv
      <3>5. QED
        BY <3>3, <3>4
    <2>2. ASSUME overlaps = 0, NEW j \in 1..Len(done), NEW k \in 1..Len(done),
                 NEW a \in 1..Len(file), NEW b \in 1..Len(file),
                 j < k, LineAt(done[j], a), LineAt(done[k], b)
          PROVE  a < b
      <3>1. file[a] = Body(done[j]) /\ file[b] = Body(done[k])
        BY <2>2 DEF LineAt
      <3>2. Before(done[j], done[k])
        BY <1>2, <2>2 DEF DamageIInv, OrderInv
      <3>3. QED
        BY <3>1, <3>2 DEF Before, Places
    <2>3. QED
      BY <2>1, <2>2 DEF DamageIsBounded
  <1>3. QED
    BY <1>1, <1>2, DamageInit, PTL DEF Spec
===============================================================================
