--------------------------- MODULE LiveProbeProofs ---------------------------
(***************************************************************************)
(* What the commands do to the threads of the target, for any number of    *)
(* threads, functions and runtimes: commands that are run one at a time    *)
(* and to their ends lose no thread but those they strike (LiveProbe).     *)
(***************************************************************************)
EXTENDS LiveProbe, ProbeManagerProofs

\* Where a thread that was not struck can be, and what it finds there.
Standing(t) ==
    /\ place[t] # "lost"
    /\ place[t] = "torn" => code[entered[t]] = Orig
    /\ place[t] \in {"entryStub", "trampoline"} => Serves(within[t], entered[t])
    /\ place[t] = "retStub" => return[t] = within[t]
    /\ return[t] # Caller => /\ runtime[return[t]].state = "ready"
                             /\ t \in framed[return[t]]

\* A thread outside a call has no hooked return left.
Outside(t) == place[t] = "out" => return[t] = Caller

LiveInv == /\ ExactInv /\ LiveTypeOK
           /\ \A t \in Threads : Outside(t) /\ (t \notin struck => Standing(t))
-----------------------------------------------------------------------------
Fine(t) == Outside(t) /\ (t \notin struck => Standing(t))

LEMMA InitLive == LiveInit => LiveInv
<1> SUFFICES ASSUME LiveInit PROVE LiveInv
  OBVIOUS
<1>1. ExactInv
  BY InitExact DEF LiveInit
<1>2. (CHOOSE a \in Addrs : TRUE) \in Addrs /\ (CHOOSE b \in Bases : TRUE) \in Bases
  BY LiveAssumption
<1>3. LiveTypeOK
  BY <1>2 DEF LiveInit, LiveTypeOK, Places, InRuntime
<1>4. \A t \in Threads : Outside(t) /\ Standing(t)
  BY DEF LiveInit, Outside, Standing
<1> QED
  BY <1>1, <1>3, <1>4 DEF LiveInv

\* A thread's own step leaves the commands' state and the other threads alone.
LEMMA OthersFine ==
    ASSUME LiveInv, NEW t \in Threads, ThreadStep(t) \/ \E a \in Addrs : Call(t, a),
           NEW d \in Threads, d # t
    PROVE  Fine(d)'
<1>1. UNCHANGED <<code, runtime>>
  BY DEF ThreadStep, Enter, Proceed, EntryStub, Trampoline, Return, RetStub, Call, vars,
         targetVars
<1>2. /\ place'[d] = place[d] /\ entered'[d] = entered[d] /\ within'[d] = within[d]
      /\ return'[d] = return[d]
  <2>1. /\ place \in [Threads -> Places] /\ entered \in [Threads -> Addrs]
        /\ within \in [Threads -> Bases] /\ return \in [Threads -> Bases \cup {Caller}]
    BY DEF LiveInv, LiveTypeOK
  <2> QED
    BY <2>1 DEF ThreadStep, Enter, Proceed, EntryStub, Trampoline, Return, RetStub, Call,
                Moves, Hook
<1>3. d \in struck' <=> d \in struck
  BY DEF ThreadStep, Enter, Proceed, EntryStub, Trampoline, Return, RetStub, Call
<1>4. \A b \in Bases : d \in framed[b] => d \in framed'[b]
  BY DEF ThreadStep, Enter, Proceed, EntryStub, Trampoline, Return, RetStub, Call, Hook,
         LiveInv, LiveTypeOK
<1>5. return[d] \in Bases \cup {Caller} /\ Fine(d)
  BY DEF LiveInv, LiveTypeOK, Fine
<1> QED
  BY <1>1, <1>2, <1>3, <1>4, <1>5 DEF Fine, Outside, Standing, Serves

LEMMA ThreadFine ==
    ASSUME LiveInv, NEW t \in Threads, ThreadStep(t) \/ \E a \in Addrs : Call(t, a)
    PROVE  Fine(t)' /\ LiveTypeOK'
<1>1. /\ place \in [Threads -> Places] /\ entered \in [Threads -> Addrs]
      /\ within \in [Threads -> Bases] /\ return \in [Threads -> Bases \cup {Caller}]
      /\ framed \in [Bases -> SUBSET Threads] /\ struck \subseteq Threads
      /\ Outside(t) /\ (t \notin struck => Standing(t))
  BY DEF LiveInv, LiveTypeOK
<1> USE DEF Runs, Moves, vars, targetVars
<1>2. ASSUME NEW a \in Addrs, Call(t, a)
      PROVE  Fine(t)' /\ LiveTypeOK'
  BY <1>1, <1>2 DEF Call, Fine, Outside, Standing, LiveTypeOK, Places, InRuntime
<1>3. CASE Enter(t)
  <2>1. CASE code[entered[t]] = Orig
    BY <1>1, <1>3, <2>1 DEF Enter, Fine, Outside, Standing, LiveTypeOK, Places, InRuntime
  <2>2. CASE code[entered[t]] # Orig
    <3>1. code[entered[t]] \in Bases /\ Serves(code[entered[t]], entered[t])
      BY <1>1, <2>2, ExactServes DEF LiveInv
    <3>2. /\ place'[t] = "entryStub" /\ within'[t] = code[entered[t]]
          /\ UNCHANGED <<entered, return, framed, struck, code, runtime>>
      BY <1>1, <1>3, <2>2 DEF Enter
    <3>3. Fine(t)'
      BY <1>1, <3>1, <3>2 DEF Fine, Outside, Standing, Serves
    <3>4. LiveTypeOK'
      BY <1>1, <1>3, <2>2, <3>1 DEF Enter, LiveTypeOK, Places, InRuntime
    <3> QED
      BY <3>3, <3>4
  <2> QED
    BY <2>1, <2>2
<1>4. CASE Proceed(t)
  BY <1>1, <1>4 DEF Proceed, Fine, Outside, Standing, LiveTypeOK, Places, InRuntime
<1>5. CASE EntryStub(t)
  <2>1. CASE Ready(t) /\ Hook(t) /\ place' = [place EXCEPT ![t] = "trampoline"]
    <3>1. /\ place[t] = "entryStub" /\ place'[t] = "trampoline"
          /\ return'[t] = within[t] /\ t \in framed'[within[t]]
          /\ UNCHANGED <<entered, within, struck, runtime>>
      BY <1>1, <1>5, <2>1 DEF EntryStub, Hook
    <3>2. Fine(t)'
      BY <1>1, <2>1, <3>1 DEF Ready, Fine, Outside, Standing, Serves
    <3>3. LiveTypeOK'
      BY <1>1, <1>5, <2>1 DEF EntryStub, Hook, LiveTypeOK, Places, InRuntime
    <3> QED
      BY <3>2, <3>3
  <2>2. CASE /\ Ready(t) /\ UNCHANGED <<return, framed>>
             /\ place' = [place EXCEPT ![t] = "trampoline"]
    <3>1. /\ place[t] = "entryStub" /\ place'[t] = "trampoline"
          /\ UNCHANGED <<entered, within, struck, return, framed, runtime>>
      BY <1>1, <1>5, <2>2 DEF EntryStub
    <3>2. Fine(t)'
      BY <1>1, <3>1 DEF Fine, Outside, Standing, Serves
    <3>3. LiveTypeOK'
      BY <1>1, <1>5, <2>2 DEF EntryStub, LiveTypeOK, Places, InRuntime
    <3> QED
      BY <3>2, <3>3
  <2>3. CASE /\ ~Ready(t) /\ UNCHANGED <<return, framed>>
             /\ place' = [place EXCEPT ![t] = "lost"]
    BY <1>1, <1>5, <2>3
       DEF EntryStub, Ready, Fine, Outside, Standing, Serves, LiveTypeOK, Places, InRuntime
  <2> QED
    BY <1>5, <2>1, <2>2, <2>3 DEF EntryStub
<1>6. CASE Trampoline(t)
  <2>1. PICK p \in {"body", "lost"} :
           /\ place' = [place EXCEPT ![t] = p]
           /\ ~Serves(within[t], entered[t]) \/ p = "body"
    BY <1>6 DEF Trampoline, Ready, Serves
  <2>2. /\ place[t] = "trampoline" /\ place'[t] = p
        /\ UNCHANGED <<entered, within, struck, return, framed, code, runtime>>
    BY <1>1, <1>6, <2>1 DEF Trampoline
  <2>3. Fine(t)'
    BY <1>1, <2>1, <2>2 DEF Fine, Outside, Standing, Serves
  <2>4. LiveTypeOK'
    BY <1>1, <2>1, <2>2 DEF LiveTypeOK, Places, InRuntime
  <2> QED
    BY <2>3, <2>4
<1>7. CASE Return(t)
  BY <1>1, <1>7 DEF Return, Fine, Outside, Standing, LiveTypeOK, Places, InRuntime
<1>8. CASE RetStub(t)
  BY <1>1, <1>8, LiveAssumption
     DEF RetStub, Ready, Fine, Outside, Standing, LiveTypeOK, Places, InRuntime
<1> QED
  BY <1>2, <1>3, <1>4, <1>5, <1>6, <1>7, <1>8 DEF ThreadStep

\* A step of the commands: who loses what it stands on is struck.
LEMMA UnderfootFine ==
    ASSUME LiveInv, Next, Underfoot, NEW t \in Threads
    PROVE  Fine(t)'
<1>1. /\ entered[t] \in Addrs /\ within[t] \in Bases /\ return[t] \in Bases \cup {Caller}
      /\ Outside(t) /\ (t \notin struck => Standing(t))
      /\ framed \in [Bases -> SUBSET Threads]
  BY DEF LiveInv, LiveTypeOK
<1>2. UNCHANGED <<place, entered, within, return>> /\ struck' = struck \cup Torn \cup Evicted
  BY DEF Underfoot, threadVars
<1>3. Outside(t)'
  BY <1>1, <1>2 DEF Outside
<1>4. ASSUME t \notin struck'
      PROVE  Standing(t)'
  <2>1. Standing(t) /\ t \notin Torn /\ t \notin Evicted
    BY <1>1, <1>2, <1>4
  <2>2. ASSUME NEW b \in Bases, runtime[b].state = "ready", b \notin Gone
        PROVE  /\ runtime'[b].state = "ready" /\ b \notin Built
               /\ runtime'[b].trampoline = runtime[b].trampoline
               /\ runtime'[b].entry = runtime[b].entry
    BY <2>2, ReadyStays DEF LiveInv, Gone, Built
  <2>3. place[t] = "torn" => code'[entered[t]] = Orig
    BY <2>1 DEF Torn, Standing
  <2>4. place[t] \in InRuntime => within[t] \notin Gone
    BY <2>1 DEF Evicted
  <2>5. return[t] # Caller => return[t] \in Bases /\ return[t] \notin Gone
    BY <1>1, <2>1 DEF Evicted
  <2>6. place[t] \in {"entryStub", "trampoline"} => Serves(within[t], entered[t])'
    BY <1>1, <1>2, <2>1, <2>2, <2>4 DEF Standing, Serves, InRuntime
  <2>7. return[t] # Caller => /\ runtime'[return[t]].state = "ready"
                              /\ t \in framed'[return[t]]
    BY <1>1, <2>1, <2>2, <2>5 DEF Standing, Underfoot
  <2> QED
    BY <1>2, <2>1, <2>3, <2>6, <2>7 DEF Standing
<1> QED
  BY <1>3, <1>4 DEF Fine

LEMMA StepLive ==
    ASSUME Orderly, LiveInv, [LiveNext]_liveVars
    PROVE  LiveInv'
<1>1. ExactInv'
  <2>1. [Next]_vars
    BY DEF LiveNext, liveVars, ThreadStep, Enter, Proceed, EntryStub, Trampoline, Return,
           RetStub, Call
  <2> QED
    BY <2>1, StepExact DEF LiveInv
<1>2. LiveTypeOK' /\ \A t \in Threads : Fine(t)'
  <2>1. CASE UNCHANGED liveVars
    <3>1. UNCHANGED <<place, entered, within, return, framed, struck, code, runtime>>
      BY <2>1 DEF liveVars, threadVars, vars, targetVars
    <3> QED
      BY <3>1 DEF LiveInv, LiveTypeOK, Fine, Outside, Standing, Serves
  <2>2. ASSUME NEW t \in Threads, ThreadStep(t) \/ \E a \in Addrs : Call(t, a)
        PROVE  LiveTypeOK' /\ \A d \in Threads : Fine(d)'
    BY <2>2, ThreadFine, OthersFine
  <2>3. CASE Next /\ Underfoot
    <3>1. LiveTypeOK'
      BY <2>3 DEF LiveInv, LiveTypeOK, Underfoot, threadVars, Torn, Evicted
    <3> QED
      BY <2>3, <3>1, UnderfootFine
  <2> QED
    BY <2>1, <2>2, <2>3 DEF LiveNext
<1> QED
  BY <1>1, <1>2 DEF LiveInv, Fine

LEMMA LiveSafe == LiveInv => LiveTypeOK /\ LostOnlyIfStruck /\ HookLeads
  BY DEF LiveInv, Standing, LostOnlyIfStruck, HookLeads

\* Attach, detach, enable and disable, run one at a time and to their ends, at
\* any point of any thread's call, lose only threads in the five bytes of an
\* entry being patched or with business in a runtime being unmapped.
THEOREM OnlyStruckAreLost == ASSUME Orderly PROVE LiveSpec => []LostOnlyIfStruck
<1>1. ASSUME LiveInv, [LiveNext]_liveVars PROVE LiveInv'
  BY <1>1, StepLive
<1> QED
  BY <1>1, InitLive, LiveSafe, PTL DEF LiveSpec

\* And a hooked return finds the thread's own frame in a runtime that is there.
THEOREM HooksLead == ASSUME Orderly PROVE LiveSpec => []HookLeads
<1>1. ASSUME LiveInv, [LiveNext]_liveVars PROVE LiveInv'
  BY <1>1, StepLive
<1> QED
  BY <1>1, InitLive, LiveSafe, PTL DEF LiveSpec

\* The threads' state is well typed.
THEOREM ThreadTypes == ASSUME Orderly PROVE LiveSpec => []LiveTypeOK
<1>1. ASSUME LiveInv, [LiveNext]_liveVars PROVE LiveInv'
  BY <1>1, StepLive
<1> QED
  BY <1>1, InitLive, LiveSafe, PTL DEF LiveSpec
=============================================================================
