--------------------------- MODULE EventRingProofs ---------------------------
(***************************************************************************)
(* What the reader prints, for any number of threads, any capacity and any *)
(* limit.  All of it rests on one fact of arithmetic: two events of one    *)
(* record are a capacity apart (SameRecord), and no stub is that late.     *)
(***************************************************************************)
EXTENDS EventRing, TLAPS

Done(s) == s \in 0..(index - 1) /\ \A t \in Threads : Writing(t) => seq[t] # s

\* A record holds an event of its own; a stub in flight is less than a lap late.
RecordInv == /\ \A i \in Records, p \in Parts : record[i][p] # Blank =>
                   record[i][p] < index /\ record[i][p] % Capacity = i
             /\ \A t \in Threads : Writing(t) => /\ seq[t] < index
                                                 /\ index - seq[t] <= Capacity

\* What was filled stays, or makes way for a later event.
FilledInv == /\ \A s \in Seqs : Done(s) =>
                   \A p \in Parts : record[s % Capacity][p] >= s
             /\ \A t \in Threads : pc[t] = "last" =>
                   record[seq[t] % Capacity]["first"] >= seq[t]

ReaderInv == /\ total <= index /\ pos <= total /\ First <= pos
             /\ \A s \in complete : Done(s) /\ s < total

Copied(s, p) == s >= First /\ s < total /\ (s < pos \/ (s = pos /\ p \notin parts))

PrintedInv == \A s \in complete, p \in Parts : Copied(s, p) => output[s][p] >= s

Still == complete = 0..(total - 1) /\ index <= First + Capacity

StillInv == Still => \A s \in Seqs, p \in Parts :
                        output[s][p] = IF Copied(s, p) THEN s ELSE Blank

\* The clock is as far ahead of an entry timestamp as it has run since, if it
\* was not set back.
ClockInv == \A t \in timed : clock - entry[t] = ran[t]

RingInv == /\ TypeOK /\ RecordInv /\ FilledInv /\ ReaderInv
           /\ PrintedInv /\ StillInv /\ ClockInv
-----------------------------------------------------------------------------
LEMMA Bounds ==
    /\ Capacity \in Nat \ {0} /\ Limit \in 1..Capacity /\ MaxEvents \in Nat \ {0}
    /\ MaxClock \in Nat /\ 2^Width \in Nat \ {0} /\ MaxClock < 2^Width
<1>1. 2^Width \in Int /\ 2^Width > 0
  BY RingAssumption
<1> QED
  BY <1>1, RingAssumption

LEMMA RecordOf ==
    ASSUME NEW s \in Seqs
    PROVE  s % Capacity \in Records
  BY Bounds DEF Seqs, Records

LEMMA Sizes == /\ Capacity \in Nat /\ Capacity >= 1
               /\ TypeOK => /\ index \in Nat /\ total \in Nat /\ pos \in Nat
                            /\ \A t \in Threads : seq[t] \in Seqs /\ seq[t] \in Nat
  BY Bounds DEF TypeOK, Seqs

LEMMA SameResidue ==
    ASSUME NEW n \in Nat \ {0}, NEW a \in Nat, NEW b \in Nat, a % n = b % n, a < b
    PROVE  b - a >= n
  OBVIOUS

LEMMA SameRecord ==
    ASSUME NEW a \in Nat, NEW b \in Nat, a % Capacity = b % Capacity, a < b
    PROVE  b - a >= Capacity
  BY Bounds, SameResidue

LEMMA FillEffect ==
    ASSUME TypeOK, NEW t \in Threads, NEW p \in Parts, Fill(t, p)
    PROVE  /\ record' \in [Records -> [Parts -> Values]]
           /\ record'[seq[t] % Capacity][p] = seq[t]
           /\ \A i \in Records, q \in Parts :
                 i # seq[t] % Capacity \/ q # p => record'[i][q] = record[i][q]
<1>1. seq[t] \in Seqs /\ seq[t] % Capacity \in Records /\ seq[t] \in Values
  BY RecordOf DEF TypeOK, Values
<1>2. record' = [record EXCEPT ![seq[t] % Capacity][p] = seq[t]]
  BY DEF Fill
<1> QED
  BY <1>1, <1>2 DEF TypeOK

LEMMA InitRing == Init => RingInv
<1> SUFFICES ASSUME Init PROVE RingInv
  OBVIOUS
<1>1. \A i \in Records, p \in Parts : record[i][p] = Blank
  BY DEF Init, Nothing
<1>2. \A s \in Seqs, p \in Parts : output[s][p] = Blank
  BY DEF Init, Nothing
<1>3. TypeOK
  <2>1. 0 \in Times /\ 0 \in Seqs /\ 0 \in 0..MaxEvents /\ 0 \in 0..(2^Width - 1)
    BY Bounds DEF Times, Seqs
  <2>2. Nothing \in [Parts -> Values]
    BY DEF Nothing, Values
  <2> QED
    BY <2>1, <2>2 DEF Init, TypeOK
<1>4. ~Done(0) /\ \A s \in Seqs : ~Done(s)
  BY DEF Init, Done
<1>5. RecordInv /\ FilledInv
  BY <1>1, <1>4 DEF Init, RecordInv, FilledInv, Writing
<1>6. First = 0 /\ \A s \in Seqs, p \in Parts : ~Copied(s, p)
  BY Bounds DEF Init, First, Copied, Seqs
<1>7. ReaderInv /\ PrintedInv /\ StillInv
  BY <1>2, <1>6 DEF Init, ReaderInv, PrintedInv, StillInv
<1>8. ClockInv
  BY DEF Init, ClockInv
<1> QED
  BY <1>3, <1>5, <1>7, <1>8 DEF RingInv

LEMMA StepTypes == TypeOK /\ [Next]_vars => TypeOK'
<1> SUFFICES ASSUME TypeOK, [Next]_vars PROVE TypeOK'
  OBVIOUS
<1> USE DEF writerVars, readerVars
<1>1. ASSUME NEW t \in Threads, Claim(t)
      PROVE  TypeOK'
  <2>1. index \in Seqs /\ index + 1 \in 0..MaxEvents
    BY <1>1, Bounds DEF Claim, TypeOK, Seqs
  <2>2. index' = index + 1 /\ seq' = [seq EXCEPT ![t] = index]
    BY <1>1 DEF Claim
  <2>3. /\ pc' = [pc EXCEPT ![t] = "first"] /\ isReturn' = [isReturn EXCEPT ![t] = ~@]
        /\ UNCHANGED <<record, clock, entry, duration, timed, ran, readerVars>>
    BY <1>1 DEF Claim
  <2> QED
    BY <2>1, <2>2, <2>3 DEF TypeOK
<1>2. ASSUME NEW t \in Threads, FillFirst(t)
      PROVE  TypeOK'
  <2>1. record' \in [Records -> [Parts -> Values]]
    BY <1>2, FillEffect DEF FillFirst, Parts
  <2> QED
    BY <1>2, <2>1 DEF FillFirst, TypeOK
<1>3. ASSUME NEW t \in Threads, FillLast(t)
      PROVE  TypeOK'
  <2>1. record' \in [Records -> [Parts -> Values]]
    BY <1>3, FillEffect DEF FillLast, Parts
  <2>2. clock \in Int /\ entry[t] \in Int
    BY Bounds DEF TypeOK, Times
  <2>3. Minus(clock, entry[t]) \in 0..(2^Width - 1)
    BY <2>2, Bounds DEF Minus
  <2>4. duration' \in [Seqs -> 0..(2^Width - 1)]
    BY <1>3, <2>3 DEF FillLast, TypeOK
  <2>5. entry' \in [Threads -> Times] /\ timed' \subseteq Threads
    BY <1>3 DEF FillLast, TypeOK
  <2>6. /\ pc' = [pc EXCEPT ![t] = "out"] /\ ran' = [ran EXCEPT ![t] = 0]
        /\ UNCHANGED <<index, seq, isReturn, clock, total, pos, parts, output, complete>>
    BY <1>3 DEF FillLast
  <2> QED
    BY <2>1, <2>4, <2>5, <2>6 DEF TypeOK
<1>4. CASE Tick
  BY <1>4, Bounds DEF Tick, TypeOK, Times
<1>5. CASE SetTime
  BY <1>5, Bounds DEF SetTime, TypeOK, Times
<1>6. CASE ReadHeader
  <2>1. Nothing \in [Parts -> Values] /\ Finished \subseteq Seqs
    BY Bounds DEF Nothing, Values, Finished, Seqs, TypeOK
  <2>2. index - Count \in 0..MaxEvents
    BY Bounds DEF Count, TypeOK
  <2> QED
    BY <1>6, <2>1, <2>2 DEF ReadHeader, TypeOK
<1>7. ASSUME NEW p \in Parts, ReadPart(p)
      PROVE  TypeOK'
  <2>1. pos \in Seqs /\ pos + 1 \in 0..MaxEvents
    BY <1>7, Bounds DEF ReadPart, Reading, TypeOK, Seqs
  <2>2. record[pos % Capacity][p] \in Values
    BY <2>1, RecordOf DEF TypeOK
  <2>3. output' \in [Seqs -> [Parts -> Values]]
    BY <1>7, <2>1, <2>2 DEF ReadPart, TypeOK
  <2> QED
    BY <1>7, <2>1, <2>3 DEF ReadPart, TypeOK
<1>8. CASE UNCHANGED vars
  BY <1>8 DEF vars, TypeOK
<1> QED
  BY <1>1, <1>2, <1>3, <1>4, <1>5, <1>6, <1>7, <1>8 DEF Next

\* The steps that claim or fill nothing.
Idle == UNCHANGED <<index, record, pc, seq>>

LEMMA IdleSteps ==
    ASSUME [Next]_vars
    PROVE  Idle \/ \E t \in Threads : Claim(t) \/ FillFirst(t) \/ FillLast(t)
  BY DEF Next, vars, writerVars, Idle, Tick, SetTime, ReadHeader, ReadPart

LEMMA StepRecord ==
    ASSUME TypeOK, RecordInv, [Next]_vars
    PROVE  RecordInv'
<1> USE DEF Writing
<1>1. CASE Idle
  BY <1>1 DEF Idle, RecordInv
<1>2. ASSUME NEW t \in Threads, Claim(t)
      PROVE  RecordInv'
  <2>1. /\ index' = index + 1 /\ record' = record /\ seq'[t] = index
        /\ \A u \in Threads : u # t => seq'[u] = seq[u] /\ pc'[u] = pc[u]
    BY <1>2 DEF Claim, TypeOK
  <2>2. ASSUME NEW u \in Threads, Writing(u) PROVE index - seq[u] < Capacity
    BY <1>2, <2>2 DEF Claim, Unfinished
  <2>3. ASSUME NEW u \in Threads, Writing(u)'
        PROVE  seq'[u] < index' /\ index' - seq'[u] <= Capacity
    <3>1. CASE u = t
      BY <2>1, <3>1, Sizes
    <3>2. CASE u # t
      <4>1. Writing(u) /\ seq[u] < index /\ index - seq[u] < Capacity
        BY <2>1, <2>2, <2>3, <3>2 DEF RecordInv
      <4> QED
        BY <2>1, <3>2, <4>1, Sizes
    <3> QED
      BY <3>1, <3>2
  <2>4. \A i \in Records, p \in Parts : record[i][p] # Blank =>
           record[i][p] < index + 1 /\ record[i][p] % Capacity = i
    BY DEF RecordInv, TypeOK, Values, Seqs, Blank
  <2> QED
    BY <2>1, <2>3, <2>4 DEF RecordInv
<1>3. ASSUME NEW t \in Threads, NEW p \in Parts, Fill(t, p), UNCHANGED <<index, seq>>,
             Writing(t), \A u \in Threads : u # t => pc'[u] = pc[u]
      PROVE  RecordInv'
  <2>1. seq[t] < index /\ \A u \in Threads : Writing(u)' => Writing(u)
    BY <1>3 DEF RecordInv
  <2>2. ASSUME NEW i \in Records, NEW q \in Parts, record'[i][q] # Blank
        PROVE  record'[i][q] < index /\ record'[i][q] % Capacity = i
    <3>1. CASE i = seq[t] % Capacity /\ q = p
      BY <1>3, <2>1, <3>1, FillEffect
    <3>2. CASE i # seq[t] % Capacity \/ q # p
      BY <1>3, <2>2, <3>2, FillEffect DEF RecordInv
    <3> QED
      BY <3>1, <3>2
  <2> QED
    BY <1>3, <2>1, <2>2 DEF RecordInv
<1>4. ASSUME NEW t \in Threads, FillFirst(t) \/ FillLast(t)
      PROVE  RecordInv'
  BY <1>3, <1>4 DEF FillFirst, FillLast, Parts, TypeOK
<1> QED
  BY <1>1, <1>2, <1>4, IdleSteps

\* Filling a record never replaces an event by an older one.
LEMMA FillsForward ==
    ASSUME TypeOK, RecordInv, NEW t \in Threads, Writing(t), NEW p \in Parts, Fill(t, p),
           NEW s \in Seqs, s < index, NEW q \in Parts,
           record[s % Capacity][q] >= s
    PROVE  record'[s % Capacity][q] >= s
<1>1. CASE s % Capacity = seq[t] % Capacity /\ q = p
  <2>1. seq[t] \in Seqs /\ index - seq[t] <= Capacity
    BY DEF TypeOK, RecordInv
  <2>2. seq[t] >= s
    <3> SUFFICES ASSUME seq[t] < s PROVE FALSE
      BY <2>1, Bounds DEF Seqs
    <3>1. s - seq[t] >= Capacity
      BY <1>1, <2>1, SameRecord DEF Seqs
    <3> QED
      BY <2>1, <3>1, Bounds DEF Seqs, TypeOK
  <2> QED
    BY <1>1, <2>2, FillEffect
<1>2. CASE s % Capacity # seq[t] % Capacity \/ q # p
  BY <1>2, FillEffect, RecordOf
<1> QED
  BY <1>1, <1>2

LEMMA StepFilled ==
    ASSUME TypeOK, RecordInv, FilledInv, [Next]_vars
    PROVE  FilledInv'
<1> USE DEF Writing
<1>1. CASE Idle
  BY <1>1 DEF Idle, FilledInv, Done
<1>2. ASSUME NEW t \in Threads, Claim(t)
      PROVE  FilledInv'
  <2>1. /\ index' = index + 1 /\ record' = record /\ seq'[t] = index
        /\ pc[t] = "out" /\ pc'[t] = "first"
        /\ \A u \in Threads : u # t => seq'[u] = seq[u] /\ pc'[u] = pc[u]
    BY <1>2 DEF Claim, TypeOK
  <2>2. ASSUME NEW s \in Seqs, Done(s)' PROVE Done(s)
    <3>1. s \in 0..index /\ s # index
      BY <2>1, <2>2, Sizes DEF Done
    <3>2. \A u \in Threads : Writing(u) => seq[u] # s
      BY <2>1, <2>2 DEF Done
    <3> QED
      BY <3>1, <3>2, Sizes DEF Done
  <2> QED
    BY <2>1, <2>2 DEF FilledInv
<1>3. ASSUME NEW t \in Threads, NEW p \in Parts, Fill(t, p), UNCHANGED <<index, seq>>,
             Writing(t), \A u \in Threads : u # t => pc'[u] = pc[u],
             NEW s \in Seqs, Done(s)
      PROVE  \A q \in Parts : record'[s % Capacity][q] >= s
  <2>1. s < index /\ \A q \in Parts : record[s % Capacity][q] >= s
    BY <1>3, Sizes DEF FilledInv, Done
  <2> QED
    BY <1>3, <2>1, FillsForward
<1>4. ASSUME NEW t \in Threads, NEW p \in Parts, Fill(t, p), UNCHANGED <<index, seq>>,
             Writing(t), NEW u \in Threads, pc[u] = "last"
      PROVE  record'[seq[u] % Capacity]["first"] >= seq[u]
  <2>1. /\ seq[u] \in Seqs /\ seq[u] < index /\ "first" \in Parts
        /\ record[seq[u] % Capacity]["first"] >= seq[u]
    BY <1>4, Sizes DEF FilledInv, RecordInv, Parts
  <2> QED
    BY <1>4, <2>1, FillsForward
<1>5. ASSUME NEW t \in Threads, FillFirst(t)
      PROVE  FilledInv'
  <2>1. /\ Fill(t, "first") /\ UNCHANGED <<index, seq>>
        /\ pc[t] = "first" /\ pc'[t] = "last"
        /\ \A u \in Threads : u # t => pc'[u] = pc[u]
    BY <1>5 DEF FillFirst, TypeOK
  <2>2. \A s \in Seqs : Done(s)' => Done(s)
    BY <2>1 DEF Done
  <2>3. record'[seq[t] % Capacity]["first"] = seq[t] /\ seq[t] \in Int
    BY <2>1, FillEffect DEF Parts, TypeOK, Seqs
  <2> QED
    BY <1>3, <1>4, <2>1, <2>2, <2>3 DEF FilledInv, Parts
<1>6. ASSUME NEW t \in Threads, FillLast(t)
      PROVE  FilledInv'
  <2>1. /\ Fill(t, "last") /\ UNCHANGED <<index, seq>> /\ pc[t] = "last" /\ pc'[t] = "out"
        /\ \A u \in Threads : u # t => pc'[u] = pc[u]
    BY <1>6 DEF FillLast, TypeOK
  <2>2. \A s \in Seqs : Done(s)' => Done(s) \/ s = seq[t]
    BY <2>1 DEF Done
  <2>3. /\ record'[seq[t] % Capacity]["last"] = seq[t] /\ seq[t] \in Int
        /\ record'[seq[t] % Capacity]["first"] >= seq[t]
    <3>1. record'[seq[t] % Capacity]["last"] = seq[t] /\ seq[t] \in Int
      BY <2>1, FillEffect, Sizes DEF Parts
    <3>2. record'[seq[t] % Capacity]["first"] >= seq[t]
      BY <1>4, <2>1 DEF Parts
    <3> QED
      BY <3>1, <3>2
  <2>4. ASSUME NEW s \in Seqs, Done(s)', NEW q \in Parts
        PROVE  record'[s % Capacity][q] >= s
    <3>1. CASE Done(s)
      BY <1>3, <2>1, <3>1 DEF Parts
    <3>2. CASE s = seq[t]
      BY <2>3, <3>2 DEF Parts
    <3> QED
      BY <2>2, <2>4, <3>1, <3>2
  <2>5. \A u \in Threads : pc'[u] = "last" => record'[seq[u] % Capacity]["first"] >= seq[u]
    BY <1>4, <2>1 DEF Parts
  <2> QED
    BY <2>1, <2>4, <2>5 DEF FilledInv
<1> QED
  BY <1>1, <1>2, <1>5, <1>6, IdleSteps

LEMMA DoneStays ==
    ASSUME TypeOK, [Next]_vars, NEW s, Done(s)
    PROVE  Done(s)' /\ index' >= index
<1> USE DEF Writing
<1>1. CASE Idle
  BY <1>1, Sizes DEF Idle, Done
<1>2. ASSUME NEW t \in Threads, Claim(t)
      PROVE  Done(s)' /\ index' >= index
  <2>1. /\ index' = index + 1 /\ seq'[t] = index
        /\ \A u \in Threads : u # t => seq'[u] = seq[u] /\ pc'[u] = pc[u]
    BY <1>2 DEF Claim, TypeOK
  <2>2. s \in 0..(index' - 1) /\ s # index /\ index' >= index
    BY <2>1, Sizes DEF Done
  <2> QED
    BY <2>1, <2>2 DEF Done
<1>3. ASSUME NEW t \in Threads, FillFirst(t) \/ FillLast(t)
      PROVE  Done(s)' /\ index' >= index
  <2>1. UNCHANGED <<index, seq>> /\ Writing(t) /\ \A u \in Threads : u # t => pc'[u] = pc[u]
    BY <1>3 DEF FillFirst, FillLast, TypeOK
  <2> QED
    BY <2>1, Sizes DEF Done
<1> QED
  BY <1>1, <1>2, <1>3, IdleSteps

LEMMA IndexGrows ==
    ASSUME TypeOK, [Next]_vars
    PROVE  index' >= index
<1>1. CASE Idle
  BY <1>1, Sizes DEF Idle
<1>2. ASSUME NEW t \in Threads, Claim(t) \/ FillFirst(t) \/ FillLast(t)
      PROVE  index' >= index
  BY <1>2, Sizes DEF Claim, FillFirst, FillLast
<1> QED
  BY <1>1, <1>2, IdleSteps

\* The reader stands still, takes the index, or copies a part of a record.
LEMMA ReaderSteps ==
    ASSUME [Next]_vars
    PROVE  \/ UNCHANGED readerVars
           \/ ReadHeader
           \/ \E p \in Parts : ReadPart(p)
  BY DEF Next, vars, Claim, FillFirst, FillLast, Tick, SetTime

LEMMA HeaderEffect ==
    ASSUME TypeOK, ReadHeader
    PROVE  /\ total' = index /\ index' = index /\ pos' = First' /\ First' \in 0..index
           /\ \A s \in complete' : Done(s) /\ s < index
<1>1. index \in Nat /\ Limit \in Nat
  BY Sizes, Bounds
<1>2. pos' = First' /\ First' \in 0..index
  BY <1>1 DEF ReadHeader, Count, First
<1>3. \A s \in complete' : Done(s) /\ s < index
  BY <1>1 DEF ReadHeader, Finished, Unfinished, Done
<1> QED
  BY <1>2, <1>3 DEF ReadHeader, writerVars

LEMMA StepReader ==
    ASSUME TypeOK, ReaderInv, [Next]_vars
    PROVE  ReaderInv'
<1>1. CASE UNCHANGED readerVars
  <2>1. \A s \in complete : Done(s)'
    BY DoneStays DEF ReaderInv
  <2>2. UNCHANGED <<total, pos, complete>> /\ First' = First
    BY <1>1 DEF readerVars, First
  <2>3. index' \in Int
    BY StepTypes DEF TypeOK
  <2> QED
    BY <2>1, <2>2, <2>3, IndexGrows, Sizes DEF ReaderInv
<1>2. CASE ReadHeader
  <2>1. \A s \in complete' : Done(s)'
    BY <1>2, HeaderEffect, DoneStays
  <2>2. First' \in Int /\ First' <= index
    BY <1>2, HeaderEffect, Sizes
  <2> QED
    BY <1>2, <2>1, <2>2, HeaderEffect, Sizes DEF ReaderInv
<1>3. ASSUME NEW p \in Parts, ReadPart(p)
      PROVE  ReaderInv'
  <2>1. \A s \in complete : Done(s)'
    BY DoneStays DEF ReaderInv
  <2>2. /\ UNCHANGED <<index, total, complete>> /\ First' = First
        /\ pos' \in {pos, pos + 1} /\ pos < total
    BY <1>3 DEF ReadPart, writerVars, First, Reading
  <2>3. First \in Int
    BY Sizes, Bounds DEF First
  <2> QED
    BY <2>1, <2>2, <2>3, Sizes DEF ReaderInv
<1> QED
  BY <1>1, <1>2, <1>3, ReaderSteps

LEMMA PartEffect ==
    ASSUME TypeOK, NEW p \in Parts, ReadPart(p)
    PROVE  /\ pos \in Seqs /\ pos < total /\ total' = total /\ complete' = complete
           /\ index' = index /\ First' = First /\ First \in Int
           /\ output'[pos][p] = record[pos % Capacity][p]
           /\ \A s \in Seqs, q \in Parts : s # pos \/ q # p => output'[s][q] = output[s][q]
           /\ \A s \in Seqs, q \in Parts : Copied(s, q)' <=>
                 Copied(s, q) \/ (s = pos /\ q = p /\ s >= First)
<1>1. pos \in Seqs /\ pos < total
  BY Bounds DEF ReadPart, Reading, TypeOK, Seqs
<1>2. /\ UNCHANGED <<total, complete, index>> /\ First' = First /\ First \in Int
  BY Sizes, Bounds DEF ReadPart, writerVars, First
<1>3. /\ output'[pos][p] = record[pos % Capacity][p]
      /\ \A s \in Seqs, q \in Parts : s # pos \/ q # p => output'[s][q] = output[s][q]
  BY <1>1 DEF ReadPart, TypeOK
<1>4. ASSUME NEW s \in Seqs, NEW q \in Parts
      PROVE  Copied(s, q)' <=> Copied(s, q) \/ (s = pos /\ q = p /\ s >= First)
  <2>1. s \in Int /\ pos \in Int /\ p \in parts /\ parts \subseteq Parts
    BY <1>1 DEF Seqs, ReadPart, TypeOK
  <2>2. CASE parts = {p}
    <3>1. pos' = pos + 1 /\ parts' = Parts
      BY <2>2 DEF ReadPart
    <3>2. q \notin parts <=> q # p
      BY <2>2
    <3> QED
      BY <1>1, <1>2, <2>1, <3>1, <3>2 DEF Copied
  <2>3. CASE parts # {p}
    <3>1. pos' = pos /\ parts' = parts \ {p}
      BY <2>3 DEF ReadPart
    <3> QED
      BY <1>1, <1>2, <2>1, <3>1 DEF Copied
  <2> QED
    BY <2>2, <2>3
<1> QED
  BY <1>1, <1>2, <1>3, <1>4

LEMMA StepPrinted ==
    ASSUME TypeOK, FilledInv, ReaderInv, PrintedInv, [Next]_vars
    PROVE  PrintedInv'
<1>1. CASE UNCHANGED readerVars
  BY <1>1 DEF readerVars, PrintedInv, Copied, First
<1>2. CASE ReadHeader
  <2>1. \A s \in complete', p \in Parts : ~Copied(s, p)'
    <3>1. \A s \in complete' : s \in Int
      BY <1>2, HeaderEffect, Sizes DEF Done
    <3>2. parts' = Parts /\ pos' = First' /\ First' \in Int
      BY <1>2, HeaderEffect, Sizes DEF ReadHeader
    <3> QED
      BY <3>1, <3>2 DEF Copied
  <2> QED
    BY <2>1 DEF PrintedInv
<1>3. ASSUME NEW p \in Parts, ReadPart(p)
      PROVE  PrintedInv'
  <2>1. ASSUME NEW s \in complete, NEW q \in Parts, Copied(s, q)'
        PROVE  output'[s][q] >= s
    <3>1. s \in Seqs /\ Done(s)
      BY DEF TypeOK, ReaderInv
    <3>2. CASE s = pos /\ q = p
      BY <1>3, <3>1, <3>2, PartEffect DEF FilledInv
    <3>3. CASE s # pos \/ q # p
      BY <1>3, <2>1, <3>1, <3>3, PartEffect DEF PrintedInv
    <3> QED
      BY <3>2, <3>3
  <2> QED
    BY <1>3, <2>1, PartEffect DEF PrintedInv
<1> QED
  BY <1>1, <1>2, <1>3, ReaderSteps

LEMMA StepStill ==
    ASSUME TypeOK, RecordInv, FilledInv, ReaderInv, StillInv, [Next]_vars
    PROVE  StillInv'
<1>1. CASE UNCHANGED readerVars
  <2>1. First' = First /\ First \in Int /\ index' \in Int
    BY <1>1, Sizes, Bounds, StepTypes DEF readerVars, First, TypeOK
  <2>2. Still' => Still
    BY <1>1, <2>1, IndexGrows, Sizes DEF readerVars, Still
  <2> QED
    BY <1>1, <2>1, <2>2 DEF readerVars, StillInv, Copied
<1>2. CASE ReadHeader
  <2>1. ASSUME NEW s \in Seqs, NEW p \in Parts
        PROVE  ~Copied(s, p)' /\ output'[s][p] = Blank
    <3>1. parts' = Parts /\ pos' = First' /\ First' \in Int /\ s \in Int
      BY <1>2, HeaderEffect, Sizes DEF ReadHeader, Seqs
    <3>2. output'[s][p] = Blank
      BY <1>2 DEF ReadHeader, Nothing
    <3> QED
      BY <3>1, <3>2 DEF Copied
  <2> QED
    BY <2>1 DEF StillInv
<1>3. ASSUME NEW p \in Parts, ReadPart(p), Still'
      PROVE  \A s \in Seqs, q \in Parts :
                output'[s][q] = IF Copied(s, q)' THEN s ELSE Blank
  <2>1. Still
    BY <1>3, PartEffect DEF Still
  <2>2. /\ pos \in Seqs /\ pos \in Nat /\ pos >= First /\ First \in Int /\ pos \in complete
    BY <1>3, <2>1, PartEffect, Sizes DEF ReaderInv, Still
  <2>3. record[pos % Capacity][p] = pos
    <3> DEFINE v == record[pos % Capacity][p]
    <3>1. v >= pos
      BY <2>2 DEF FilledInv, ReaderInv
    <3>2. v \in Values /\ pos % Capacity \in Records
      BY <2>2, RecordOf DEF TypeOK
    <3>3. v # Blank /\ v \in Nat
      BY <2>2, <3>1, <3>2 DEF Values, Seqs, Blank
    <3>4. v < index /\ v % Capacity = pos % Capacity
      BY <3>2, <3>3 DEF RecordInv
    <3>5. index <= pos + Capacity
      BY <2>1, <2>2, Sizes DEF Still
    <3> HIDE DEF v
    <3>6. ~(pos < v)
      <4> SUFFICES ASSUME pos < v PROVE FALSE
        OBVIOUS
      <4>1. v - pos >= Capacity
        BY <2>2, <3>3, <3>4, SameRecord
      <4> QED
        BY <2>2, <3>3, <3>4, <3>5, <4>1, Sizes
    <3>7. v = pos
      BY <2>2, <3>1, <3>3, <3>6
    <3> QED
      BY <3>7 DEF v
  <2>4. ASSUME NEW s \in Seqs, NEW q \in Parts
        PROVE  output'[s][q] = IF Copied(s, q)' THEN s ELSE Blank
    <3>1. CASE s = pos /\ q = p
      BY <1>3, <2>2, <2>3, <3>1, PartEffect
    <3>2. CASE s # pos \/ q # p
      BY <1>3, <2>1, <3>2, PartEffect DEF StillInv
    <3> QED
      BY <3>1, <3>2
  <2> QED
    BY <2>4
<1> QED
  BY <1>1, <1>2, <1>3, ReaderSteps DEF StillInv

LEMMA StepClock ==
    ASSUME TypeOK, ClockInv, [Next]_vars
    PROVE  ClockInv'
<1>1. /\ clock \in Int /\ entry \in [Threads -> Times] /\ \A t \in Threads : entry[t] \in Int
      /\ ran \in [Threads -> Nat] /\ timed \subseteq Threads
  BY Bounds DEF TypeOK, Times
<1>2. ASSUME NEW t \in Threads, FillLast(t)
      PROVE  ClockInv'
  <2>1. CASE ~isReturn[t]
    BY <1>1, <1>2, <2>1 DEF FillLast, ClockInv
  <2>2. CASE isReturn[t]
    BY <1>1, <1>2, <2>2 DEF FillLast, ClockInv
  <2> QED
    BY <2>1, <2>2
<1>3. CASE Tick
  BY <1>1, <1>3 DEF Tick, ClockInv
<1>4. CASE SetTime
  BY <1>4 DEF SetTime, ClockInv
<1>5. CASE UNCHANGED <<clock, entry, timed, ran>>
  BY <1>5 DEF ClockInv
<1> QED
  BY <1>2, <1>3, <1>4, <1>5
     DEF Next, Claim, FillFirst, ReadHeader, ReadPart, vars, writerVars

LEMMA StepRing == RingInv /\ [Next]_vars => RingInv'
  BY StepTypes, StepRecord, StepFilled, StepReader, StepPrinted, StepStill, StepClock
     DEF RingInv

LEMMA RingSafe == RingInv => TypeOK /\ NeverStale /\ ExactWhenStill
<1> SUFFICES ASSUME RingInv PROVE NeverStale /\ ExactWhenStill
  BY DEF RingInv
<1>1. TypeOK /\ First \in Int /\ (First = 0 \/ First = total - Limit)
  BY Sizes, Bounds DEF RingInv, First
<1>2. ASSUME NEW s \in complete, s >= total - Limit, s < pos, NEW p \in Parts
      PROVE  output[s][p] >= s
  <2>1. s \in Nat /\ s < total
    BY <1>1 DEF RingInv, ReaderInv, TypeOK, Seqs
  <2>2. s >= First
    BY <1>1, <1>2, <2>1
  <2>3. Copied(s, p)
    BY <1>2, <2>1, <2>2 DEF Copied
  <2> QED
    BY <2>3 DEF RingInv, PrintedInv
<1>3. ASSUME Still, NEW s \in Seqs \ {pos}
      PROVE  output[s] = IF s >= First /\ s < pos THEN [p \in Parts |-> s] ELSE Nothing
  <2>1. s \in Nat /\ pos \in Nat /\ total \in Nat /\ pos <= total
    BY <1>1, Sizes DEF Seqs, RingInv, ReaderInv
  <2>2. \A p \in Parts : Copied(s, p) <=> s >= First /\ s < pos
    BY <1>3, <2>1 DEF Copied
  <2>3. \A p \in Parts : output[s][p] = IF s >= First /\ s < pos THEN s ELSE Blank
    BY <1>3, <2>2 DEF RingInv, StillInv
  <2>4. output[s] = [p \in Parts |-> output[s][p]]
    BY <1>1 DEF TypeOK
  <2> QED
    BY <2>3, <2>4 DEF Nothing
<1> QED
  BY <1>2, <1>3 DEF NeverStale, ExactWhenStill, Still

\* The ring's and the reader's state is well typed.
THEOREM RingTypes == Spec => []TypeOK
  BY InitRing, StepRing, RingSafe, PTL DEF Spec

\* A line printed for an event that was complete when the reader took the index
\* is that event's or a later one's, in each of its parts.
THEOREM LinesNeverStale == Spec => []NeverStale
  BY InitRing, StepRing, RingSafe, PTL DEF Spec

\* With no stub in flight at that moment and no lap since, what is printed is
\* the last events, in order and whole, and nothing else.
THEOREM OutputExact == Spec => []ExactWhenStill
  BY InitRing, StepRing, RingSafe, PTL DEF Spec

\* A return is recorded with the time that passed since its own call's entry, if
\* the clock was not set back during the call.
THEOREM DurationsElapsed == Spec => Elapsed
<1>1. ASSUME RingInv, [Next]_vars, NEW t \in Threads, pc[t] = "last", pc'[t] = "out",
             isReturn[t], t \in timed
      PROVE  duration'[seq[t]] = ran[t]
  <2>1. FillLast(t)
    <3>1. \A u \in Threads \ {t} : ~(Claim(u) \/ FillFirst(u) \/ FillLast(u))
      BY <1>1 DEF Claim, FillFirst, FillLast, RingInv, TypeOK
    <3> QED
      BY <1>1, <3>1 DEF Next, vars, writerVars, Claim, FillFirst, Tick, SetTime, ReadHeader,
                        ReadPart
  <2>2. duration'[seq[t]] = Minus(clock, entry[t])
    BY <1>1, <2>1 DEF FillLast, RingInv, TypeOK
  <2>3. clock - entry[t] = ran[t] /\ ran[t] \in 0..(2^Width - 1)
    <3>1. /\ ClockInv /\ clock \in 0..MaxClock /\ entry[t] \in 0..MaxClock
          /\ ran[t] \in Nat
      BY <1>1 DEF RingInv, TypeOK, Times
    <3>2. clock - entry[t] = ran[t]
      BY <1>1, <3>1 DEF ClockInv
    <3> DEFINE M == 2^Width
    <3>3. M \in Nat /\ MaxClock \in Nat /\ MaxClock < M
      BY Bounds
    <3> HIDE DEF M
    <3>4. ran[t] \in 0..(M - 1)
      BY <3>1, <3>2, <3>3
    <3> QED
      BY <3>2, <3>4 DEF M
  <2>4. (clock - entry[t]) % 2^Width = ran[t]
    BY <2>3, Bounds
  <2> QED
    BY <2>2, <2>4 DEF Minus
<1>2. RingInv /\ [Next]_vars =>
         [\A t \in Threads : pc[t] = "last" /\ pc'[t] = "out" /\ isReturn[t] /\ t \in timed
             => duration'[seq[t]] = ran[t]]_vars
  BY <1>1
<1> QED
  BY <1>2, InitRing, StepRing, PTL DEF Spec, Elapsed
=============================================================================
