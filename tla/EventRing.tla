------------------------------ MODULE EventRing ------------------------------
(***************************************************************************)
(* The event ring between the stubs that fill it and `lightprobe events`   *)
(* that prints it.  A stub claims a sequence number with lock xadd and     *)
(* fills the record at that number modulo the capacity, field by field;    *)
(* nothing marks a record as complete.  The reader takes the write index   *)
(* once, then copies one record after the other out of the running target. *)
(*                                                                         *)
(* An event is its sequence number.  A record is filled and copied in two  *)
(* parts that a reader can tell apart: what the stub knows from the start  *)
(* (pid, probe, type, arguments) and what it computes last (timestamp,     *)
(* retval, duration).  Each thread alternates the entry and the return of  *)
(* calls; nested calls are ProbeRuntime's subject.                         *)
(***************************************************************************)
EXTENDS Integers, FiniteSets

CONSTANTS
    Threads,
    Capacity,   \* EVENT_BUFFER_CAPACITY, a power of two: the stubs mask with
                \* Capacity - 1, the reader divides by the header's capacity
    Limit,      \* --limit, at most Capacity
    MaxEvents,  \* bound: events claimed
    MaxClock,   \* bound: readings of the clock
    Width       \* bits of a duration

ASSUME RingAssumption == /\ Capacity \in Nat \ {0}
                         /\ Limit \in 1..Capacity
                         /\ MaxEvents \in Nat \ {0}
                         /\ MaxClock \in Nat
                         /\ Width \in Nat
                         /\ MaxClock < 2^Width

VARIABLES
    index,      \* write_index
    record,     \* record[i][p]: the event whose part p the record i holds
    pc,         \* pc[t]: "out", "first" or "last": the part t fills next
    seq,        \* seq[t]: the event t fills
    isReturn,   \* isReturn[t]: it is the return of a call
    clock,
    entry,      \* entry[t]: entry timestamp of t's call
    duration,   \* duration[s]: duration_ns of event s
    timed,      \* threads in a call, the clock not set back during it (history)
    ran,        \* ran[t]: how far the clock has run since t's entry (history)
    total,      \* the reader's copy of write_index
    pos,        \* the event it prints next
    parts,      \* the parts of it not copied yet
    output,     \* output[s][p]: what was printed for event s
    complete    \* history: events complete when the reader took the index

writerVars == <<index, record, pc, seq, isReturn, clock, entry, duration,
                timed, ran>>
readerVars == <<total, pos, parts, output, complete>>
vars == <<writerVars, readerVars>>
-----------------------------------------------------------------------------
Seqs    == 0..(MaxEvents - 1)
Blank   == -1             \* the zeroed record, and nothing printed
Values  == Seqs \cup {Blank}
Records == 0..(Capacity - 1)
Parts   == {"first", "last"}
Nothing == [p \in Parts |-> Blank]
Times   == 0..MaxClock
Reading == pos < total

Writing(t)  == pc[t] # "out"
Unfinished  == {seq[t] : t \in {u \in Threads : Writing(u)}}
Finished    == 0..(index - 1) \ Unfinished

\* Mutant: nothing is subtracted.
MinusNothing(a, b) == a % 2^Width

\* uint64 subtraction
Minus(a, b) == (a - b) % 2^Width

Init == /\ index = 0
        /\ record = [i \in Records |-> Nothing]
        /\ pc = [t \in Threads |-> "out"]
        /\ seq = [t \in Threads |-> 0]
        /\ isReturn = [t \in Threads |-> TRUE]
        /\ clock = 0
        /\ entry = [t \in Threads |-> 0]
        /\ duration = [s \in Seqs |-> 0]
        /\ timed = {}
        /\ ran = [t \in Threads |-> 0]
        /\ total = 0
        /\ pos = 0
        /\ parts = {}
        /\ output = [s \in Seqs |-> Nothing]
        /\ complete = {}

(***************************************************************************)
(* The stubs.                                                              *)
(***************************************************************************)
\* No stub is delayed while Capacity events are claimed.
Claim(t) ==
    /\ pc[t] = "out"
    /\ index < MaxEvents
    /\ \A s \in Unfinished : index - s < Capacity
    /\ index' = index + 1
    /\ seq' = [seq EXCEPT ![t] = index]
    /\ isReturn' = [isReturn EXCEPT ![t] = ~@]
    /\ pc' = [pc EXCEPT ![t] = "first"]
    /\ UNCHANGED <<record, clock, entry, duration, timed, ran, readerVars>>

\* Mutant: the index is not masked.
FillUnmasked(t, p) ==
    record' = [i \in Records |-> IF i = seq[t] THEN [record[i] EXCEPT ![p] = i]
                                              ELSE record[i]]
Fill(t, p) == record' = [record EXCEPT ![seq[t] % Capacity][p] = seq[t]]

FillFirst(t) ==
    /\ pc[t] = "first"
    /\ Fill(t, "first")
    /\ pc' = [pc EXCEPT ![t] = "last"]
    /\ UNCHANGED <<index, seq, isReturn, clock, entry, duration, timed, ran, readerVars>>

\* clock_gettime, then the entry timestamp is kept or subtracted.
FillLast(t) ==
    /\ pc[t] = "last"
    /\ Fill(t, "last")
    /\ \/ /\ ~isReturn[t]
          /\ entry' = [entry EXCEPT ![t] = clock]
          /\ timed' = timed \cup {t}
          /\ UNCHANGED duration
       \/ /\ isReturn[t]
          /\ duration' = [duration EXCEPT ![seq[t]] = Minus(clock, entry[t])]
          /\ timed' = timed \ {t}
          /\ UNCHANGED entry
    /\ ran' = [ran EXCEPT ![t] = 0]
    /\ pc' = [pc EXCEPT ![t] = "out"]
    /\ UNCHANGED <<index, seq, isReturn, clock, readerVars>>

\* CLOCK_REALTIME advances, and can be set back.
Tick    == /\ clock < MaxClock
           /\ clock' = clock + 1
           /\ ran' = [t \in Threads |-> IF t \in timed THEN ran[t] + 1 ELSE 0]
           /\ UNCHANGED <<index, record, pc, seq, isReturn, entry, duration, timed, readerVars>>
SetTime == /\ clock' \in 0..(clock - 1)
           /\ timed' = {}
           /\ ran' = [t \in Threads |-> 0]
           /\ UNCHANGED <<index, record, pc, seq, isReturn, entry, duration, readerVars>>

(***************************************************************************)
(* lightprobe events: the last events claimed, at most Limit of them.      *)
(***************************************************************************)
\* Mutants: the limit is not clamped to the events there are, or ignored.
CountUnclamped == Limit
CountAll       == index

Count == IF index < Limit THEN index ELSE Limit

ReadHeader ==
    /\ ~Reading
    /\ total' = index
    /\ pos' = index - Count
    /\ parts' = Parts
    /\ output' = [s \in Seqs |-> Nothing]
    /\ complete' = Finished
    /\ UNCHANGED writerVars

\* The copy of a record is not atomic: its parts are copied in either order.
ReadPart(p) ==
    /\ Reading
    /\ p \in parts
    /\ output' = [output EXCEPT ![pos][p] = record[pos % Capacity][p]]
    /\ parts' = IF parts = {p} THEN Parts ELSE parts \ {p}
    /\ pos' = IF parts = {p} THEN pos + 1 ELSE pos
    /\ UNCHANGED <<total, complete, writerVars>>

Next == \/ \E t \in Threads : Claim(t) \/ FillFirst(t) \/ FillLast(t)
        \/ Tick \/ SetTime
        \/ ReadHeader
        \/ \E p \in Parts : ReadPart(p)

Spec == Init /\ [][Next]_vars
-----------------------------------------------------------------------------
TypeOK == /\ index \in 0..MaxEvents
          /\ record \in [Records -> [Parts -> Values]]
          /\ pc \in [Threads -> {"out", "first", "last"}]
          /\ seq \in [Threads -> Seqs]
          /\ isReturn \in [Threads -> BOOLEAN]
          /\ clock \in Times
          /\ entry \in [Threads -> Times]
          /\ duration \in [Seqs -> 0..(2^Width - 1)]
          /\ timed \subseteq Threads
          /\ ran \in [Threads -> Nat]
          /\ total \in 0..MaxEvents
          /\ pos \in 0..MaxEvents
          /\ parts \subseteq Parts
          /\ output \in [Seqs -> [Parts -> Values]]
          /\ complete \subseteq Seqs

\* A line for an event that was complete when the reader took the index is
\* the event's own, or that of events which took the record over since: a
\* line is never older than its event, nor blank.
NeverStale == \A s \in complete : s >= total - Limit /\ s < pos =>
                 \A p \in Parts : output[s][p] >= s

\* If no stub was filling a record when the reader took the index, and none
\* of the records it prints was claimed again since, the output is exact: the
\* last Limit events, in order, each whole, and nothing else (the line at pos
\* is being copied).
First == IF total < Limit THEN 0 ELSE total - Limit
ExactWhenStill ==
    complete = 0..(total - 1) /\ index <= First + Capacity =>
       \A s \in Seqs \ {pos} :
          output[s] = IF s >= First /\ s < pos THEN [p \in Parts |-> s] ELSE Nothing

\* A return is recorded with the time that passed since the entry of its own
\* call, whatever the other threads did and however often the clock was read,
\* unless it was set back during that call.
Elapsed ==
    [][\A t \in Threads : pc[t] = "last" /\ pc'[t] = "out" /\ isReturn[t] /\ t \in timed
          => duration'[seq[t]] = ran[t]]_vars
=============================================================================
