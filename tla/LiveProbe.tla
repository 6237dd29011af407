----------------------------- MODULE LiveProbe -----------------------------
(***************************************************************************)
(* The commands of ProbeManager on a target whose threads are at work:     *)
(* they call the probed functions, run through the stubs and the           *)
(* trampoline of a runtime, and may be stopped at any of these places when *)
(* a command patches the entry under them or unmaps the runtime they run   *)
(* in or have to return to.  Nothing in attach or detach looks where the   *)
(* threads are.                                                            *)
(*                                                                         *)
(* A thread is in at most one call.  Shadow stacks, records and registers  *)
(* are ProbeRuntime's subject; here a runtime has the threads with a frame *)
(* on its shadow stack.  Instructions of the function's own are taken to   *)
(* work in the trampoline; EntryPatch says which do not.                   *)
(***************************************************************************)
EXTENDS ProbeManager

CONSTANTS
    Threads,
    Caller      \* the return address of a call as the call instruction left it

ASSUME LiveAssumption == Caller \notin Bases /\ Addrs # {} /\ Bases # {}

VARIABLES
    place,      \* place[t]: where thread t is
    entered,    \* entered[t]: the entry of the function it called last
    within,     \* within[t]: the runtime whose stub or trampoline it is in
    return,     \* return[t]: Caller, or the runtime whose ret stub it returns to
    framed,     \* framed[b]: threads with a frame on the shadow stack at b
    struck      \* threads a command found in what it changed or took away (history)

threadVars == <<place, entered, within, return>>
liveVars   == <<threadVars, framed, struck, vars>>
-----------------------------------------------------------------------------
\* "entry": about to execute the first byte of the function; "torn": behind
\* its first instruction, but inside the five bytes a jmp takes; "body": behind
\* them; "lost": executing what is not an instruction written for it.
InRuntime == {"entryStub", "trampoline", "retStub"}
Places    == InRuntime \cup {"out", "entry", "torn", "body", "lost"}

LiveInit == /\ Init
            /\ place = [t \in Threads |-> "out"]
            /\ entered = [t \in Threads |-> CHOOSE a \in Addrs : TRUE]
            /\ within = [t \in Threads |-> CHOOSE b \in Bases : TRUE]
            /\ return = [t \in Threads |-> Caller]
            /\ framed = [b \in Bases |-> {}]
            /\ struck = {}

\* The thread runs: no command holds it.
Runs(t, p) == alive /\ tracer = NoCommand /\ place[t] = p
Moves(t, p) == place' = [place EXCEPT ![t] = p]

Call(t, a) ==
    /\ Runs(t, "out")
    /\ Moves(t, "entry")
    /\ entered' = [entered EXCEPT ![t] = a]
    /\ struck' = struck \ {t}
    /\ UNCHANGED <<within, return, framed, vars>>

\* The first byte of the function: its own instructions, or the jmp.
Enter(t) ==
    /\ Runs(t, "entry")
    /\ IF code[entered[t]] = Orig
       THEN (Moves(t, "torn") \/ Moves(t, "body")) /\ UNCHANGED within
       ELSE Moves(t, "entryStub") /\ within' = [within EXCEPT ![t] = code[entered[t]]]
    /\ UNCHANGED <<entered, return, framed, struck, vars>>

\* What is left of the first five bytes, if they are the function's own.
Proceed(t) ==
    /\ Runs(t, "torn")
    /\ Moves(t, IF code[entered[t]] = Orig THEN "body" ELSE "lost")
    /\ UNCHANGED <<entered, within, return, framed, struck, vars>>

Ready(t) == runtime[within[t]].state = "ready"

\* Mutant: the return address is replaced but the frame is not pushed.
HookBare(t) == /\ return' = [return EXCEPT ![t] = within[t]]
               /\ UNCHANGED framed

\* The frame is pushed, then the return address replaced.
Hook(t) == /\ return' = [return EXCEPT ![t] = within[t]]
           /\ framed' = [framed EXCEPT ![within[t]] = @ \cup {t}]

\* Without --ret, disabled, or without a free frame the return is left alone.
EntryStub(t) ==
    /\ Runs(t, "entryStub")
    /\ \/ Ready(t) /\ runtime[within[t]].enabled /\ Hook(t) /\ Moves(t, "trampoline")
       \/ Ready(t) /\ Moves(t, "trampoline") /\ UNCHANGED <<return, framed>>
       \/ ~Ready(t) /\ Moves(t, "lost") /\ UNCHANGED <<return, framed>>
    /\ UNCHANGED <<entered, within, struck, vars>>

\* Mutant: the trampoline resumes at the entry instead of behind it.
TrampolineToEntry(t) ==
    /\ Runs(t, "trampoline")
    /\ Moves(t, "entry")
    /\ UNCHANGED <<entered, within, return, framed, struck, vars>>

\* The trampoline executes its copy and resumes behind the entry it was built
\* for.  A copied jmp is relative to where it was: it leads nowhere from here.
Trampoline(t) ==
    /\ Runs(t, "trampoline")
    /\ LET r == runtime[within[t]]
       IN  Moves(t, IF Ready(t) /\ r.trampoline = Orig /\ r.entry = entered[t]
                    THEN "body" ELSE "lost")
    /\ UNCHANGED <<entered, within, return, framed, struck, vars>>

\* Mutant: every return is taken for a hooked one.
ReturnHooked(t) ==
    /\ Runs(t, "body")
    /\ Moves(t, "retStub")
    /\ within' = [within EXCEPT ![t] = return[t]]
    /\ UNCHANGED <<entered, return, framed, struck, vars>>

Return(t) ==
    /\ Runs(t, "body")
    /\ IF return[t] = Caller
       THEN Moves(t, "out") /\ UNCHANGED within
       ELSE Moves(t, "retStub") /\ within' = [within EXCEPT ![t] = return[t]]
    /\ UNCHANGED <<entered, return, framed, struck, vars>>

\* The ret stub finds the thread's frame and pops it, or traps (ud2).
RetStub(t) ==
    /\ Runs(t, "retStub")
    /\ IF Ready(t) /\ t \in framed[within[t]]
       THEN /\ Moves(t, "out")
            /\ return' = [return EXCEPT ![t] = Caller]
            /\ framed' = [framed EXCEPT ![within[t]] = @ \ {t}]
       ELSE /\ Moves(t, "lost")
            /\ UNCHANGED <<return, framed>>
    /\ UNCHANGED <<entered, within, struck, vars>>

ThreadStep(t) == \/ Enter(t) \/ Proceed(t) \/ EntryStub(t) \/ Trampoline(t)
                 \/ Return(t) \/ RetStub(t)

\* The threads in the first bytes of an entry that a step patches, and those in
\* a runtime it unmaps or with a return address leading there.
Torn    == {t \in Threads : /\ place[t] = "torn"
                            /\ code[entered[t]] = Orig
                            /\ code'[entered[t]] # Orig}
Gone    == {b \in Bases : runtime[b].state # "free" /\ runtime'[b].state = "free"}
Evicted == {t \in Threads : \/ place[t] \in InRuntime /\ within[t] \in Gone
                            \/ return[t] \in Gone}
\* A new runtime has an empty shadow stack.
Built   == {b \in Bases : runtime[b].state = "mapped" /\ runtime'[b].state = "ready"}

\* What a step of the commands does to threads that stand still.
Underfoot == /\ struck' = struck \cup Torn \cup Evicted
             /\ framed' = [b \in Bases |-> IF b \in Built THEN {} ELSE framed[b]]
             /\ UNCHANGED threadVars

LiveNext == \/ \E t \in Threads : ThreadStep(t) \/ \E a \in Addrs : Call(t, a)
            \/ Next /\ Underfoot

LiveSpec == LiveInit /\ [][LiveNext]_liveVars

\* The commands' fairness is ProbeManager's.  A thread in a call is scheduled
\* again and again between commands, if need be.
FairLiveSpec == /\ LiveSpec
                /\ \A c \in Commands : WF_liveVars(Command(c) /\ Underfoot)
                /\ \A t \in Threads : SF_liveVars(ThreadStep(t))
-----------------------------------------------------------------------------
LiveTypeOK == /\ place \in [Threads -> Places]
              /\ entered \in [Threads -> Addrs]
              /\ within \in [Threads -> Bases]
              /\ return \in [Threads -> Bases \cup {Caller}]
              /\ framed \in [Bases -> SUBSET Threads]
              /\ struck \subseteq Threads

\* Attach, detach, enable and disable at any point of a call, and calls at any
\* point of a command, lose no thread but those that stood in the five bytes of
\* the entry when it was patched, or in the runtime, or with a hooked return,
\* when it was unmapped.
LostOnlyIfStruck == \A t \in Threads : place[t] = "lost" => t \in struck

\* A hooked return leads to the thread's own frame in a runtime that is there,
\* unless that was unmapped under the thread.
HookLeads == \A t \in Threads : return[t] # Caller /\ t \notin struck =>
                /\ runtime[return[t]].state = "ready"
                /\ t \in framed[return[t]]

\* Every call comes to its end, whatever commands run meanwhile.
CallEnds == \A t \in Threads :
               place[t] # "out" ~> place[t] \in {"out", "lost"} \/ ~alive

\* Detach is a clean unload: the memory it frees is not the one that a thread is
\* executing in, or that its return address leads to.
CleanUnload ==
    \A t \in Threads : alive =>
       /\ place[t] \in InRuntime => runtime[within[t]].state # "free"
       /\ return[t] # Caller => runtime[return[t]].state # "free"
=============================================================================
