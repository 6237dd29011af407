------------------------- MODULE ProbeManagerProofs -------------------------
(***************************************************************************)
(* Types and the release of the target, for any faults and any overlap of  *)
(* commands; for commands run one at a time and to their ends, that the    *)
(* state file agrees with the target; and for one probe, that a patched    *)
(* jmp leads to a complete runtime whenever a command is killed.  All for  *)
(* any number of functions, runtimes and table entries.                    *)
(***************************************************************************)
EXTENDS ProbeManager, TLAPS

\* Where a command looks at its table entry, there is one.
DescOK(c) ==
    /\ ~At(c, "idle") => slot[c] \in Slots
    /\ pc[c] \in {"install", "patch", "restore", "unmap", "flag"} => Desc(c) \in Entries
    /\ At(c, "stop") /\ op[c] # "attach" => Desc(c) \in Entries

TypeInv == TypeOK /\ \A c \in Commands : DescOK(c)
-----------------------------------------------------------------------------
LEMMA NoProbesType == NoProbes \in Tables /\ Empty \notin Entries
  BY DEF NoProbes, Tables, Empty, Entries

LEMMA FreeType == Free \in Runtimes
  BY DEF Free, Runtimes, Code

\* A step of command c leaves the others' entries alone.
LEMMA OthersDesc ==
    ASSUME NEW c \in Commands, NEW d \in Commands, d # c, TypeInv,
           NEW p, NEW o, NEW s, NEW T,
           pc' = [pc EXCEPT ![c] = p], op' = [op EXCEPT ![c] = o],
           slot' = [slot EXCEPT ![c] = s], table' = [table EXCEPT ![c] = T]
    PROVE  DescOK(d)'
  BY DEF TypeInv, TypeOK, DescOK, Desc, At

LEMMA ExitTypes ==
    ASSUME TypeInv, NEW c \in Commands, Exit(c), UNCHANGED <<op>>
    PROVE  /\ pc' \in [Commands -> Pcs] /\ table' \in [Commands -> Tables]
           /\ slot' \in [Commands -> Slots \cup {0}]
           /\ \A d \in Commands : DescOK(d)'
<1>1. /\ pc' = [pc EXCEPT ![c] = "idle"]
      /\ table' = [table EXCEPT ![c] = NoProbes]
      /\ slot' = [slot EXCEPT ![c] = 0]
  BY DEF Exit, Goto, Forget
<1>2. /\ pc' \in [Commands -> Pcs] /\ table' \in [Commands -> Tables]
      /\ slot' \in [Commands -> Slots \cup {0}]
  BY <1>1, NoProbesType DEF TypeInv, TypeOK, Pcs
<1>3. DescOK(c)'
  BY <1>1 DEF DescOK, At, TypeInv, TypeOK
<1>4. \A d \in Commands : d # c => DescOK(d)'
  BY <1>1 DEF TypeInv, TypeOK, DescOK, Desc, At
<1> QED
  BY <1>2, <1>3, <1>4

\* A step of c that goes on to p and may write its entry.
LEMMA GoesTypes ==
    ASSUME TypeInv, NEW c \in Commands, NEW p \in Pcs, Goto(c, p),
           UNCHANGED <<op, slot>>, ~At(c, "idle"),
           \/ UNCHANGED table
           \/ \E e \in Entries \cup {Empty} : SetDesc(c, e),
           p \in {"install", "patch", "restore", "unmap", "flag", "stop"}
              => Desc(c)' \in Entries
    PROVE  /\ pc' \in [Commands -> Pcs] /\ table' \in [Commands -> Tables]
           /\ \A d \in Commands : DescOK(d)'
<1>1. pc' = [pc EXCEPT ![c] = p]
  BY DEF Goto
<1>2. PICK T \in Tables : table' = [table EXCEPT ![c] = T]
  <2>1. CASE UNCHANGED table
    BY <2>1 DEF TypeInv, TypeOK
  <2>2. ASSUME NEW e \in Entries \cup {Empty}, SetDesc(c, e)
        PROVE  \E T \in Tables : table' = [table EXCEPT ![c] = T]
    <3>1. table[c] \in Tables
      BY DEF TypeInv, TypeOK
    <3>2. [table[c] EXCEPT ![slot[c]] = e] \in Tables
      BY <3>1 DEF Tables
    <3> QED
      BY <2>2, <3>2 DEF SetDesc
  <2> QED
    BY <2>1, <2>2
<1>3. pc' \in [Commands -> Pcs] /\ table' \in [Commands -> Tables]
  BY <1>1, <1>2 DEF TypeInv, TypeOK
<1>4. DescOK(c)'
  BY <1>1 DEF DescOK, At, TypeInv, TypeOK
<1>5. \A d \in Commands : d # c => DescOK(d)'
  BY <1>1, <1>2 DEF TypeInv, TypeOK, DescOK, Desc, At
<1> QED
  BY <1>3, <1>4, <1>5

LEMMA EntryFields ==
    ASSUME NEW e \in Entries \cup {Empty}, e.used
    PROVE  e \in Entries
<1>1. Empty.used = FALSE
  BY DEF Empty
<1>2. e # Empty
  BY <1>1
<1> QED
  BY <1>2

LEMMA InitTypes == Init => TypeInv
<1> SUFFICES ASSUME Init PROVE TypeInv
  OBVIOUS
<1>1. TypeOK
  BY NoProbesType, FreeType, ManagerAssumption
     DEF Init, TypeOK, Pcs, Ops, Code
<1>2. \A c \in Commands : DescOK(c)
  BY DEF Init, DescOK, At
<1> QED
  BY <1>1, <1>2 DEF TypeInv

LEMMA StartTypes ==
    ASSUME TypeInv, NEW c \in Commands, NEW o \in Ops, NEW f \in Funcs, Start(c, o, f)
    PROVE  TypeInv'
<1>1. Loaded \in Tables
  BY NoProbesType DEF Loaded, TypeInv, TypeOK
<1>2. /\ op' = [op EXCEPT ![c] = o] /\ func' = [func EXCEPT ![c] = f]
      /\ table' = [table EXCEPT ![c] = Loaded]
      /\ UNCHANGED <<file, stored, alive, tracer, code, runtime, undone>>
  BY DEF Start, fileVars, targetVars
<1>3. PICK i \in Slots :
         /\ slot' = [slot EXCEPT ![c] = i]
         /\ o # "attach" => Loaded[i] \in Entries
         /\ \/ o = "attach" /\ pc' = [pc EXCEPT ![c] = "stop"]
            \/ o # "attach" /\ (\/ pc' = [pc EXCEPT ![c] = "stop"]
                                \/ pc' = [pc EXCEPT ![c] = "flag"])
  <2>1. CASE o = "attach"
    BY <2>1 DEF Start, Goto, Lowest
  <2>2. CASE o # "attach"
    <3>1. PICK i \in Slots : /\ slot' = [slot EXCEPT ![c] = i]
                             /\ Loaded[i].used
                             /\ Goto(c, IF o = "detach" THEN "stop" ELSE "flag")
      BY <2>2 DEF Start, Lowest
    <3>2. Loaded[i] \in Entries
      BY <1>1, <3>1, EntryFields DEF Tables
    <3> QED
      BY <2>2, <3>1, <3>2 DEF Goto
  <2> QED
    BY <2>1, <2>2
<1>4. TypeOK'
  BY <1>1, <1>2, <1>3 DEF TypeInv, TypeOK, Pcs, Holding
<1>5. DescOK(c)'
  BY <1>2, <1>3 DEF TypeInv, TypeOK, DescOK, Desc, At
<1>6. \A d \in Commands : d # c => DescOK(d)'
  BY <1>2, <1>3 DEF TypeInv, TypeOK, DescOK, Desc, At
<1> QED
  BY <1>4, <1>5, <1>6 DEF TypeInv

LEMMA LetGoType ==
    ASSUME TypeInv, NEW c \in Commands, LetGo(c)
    PROVE  tracer' \in Commands \cup {NoCommand}
  BY DEF LetGo, TypeInv, TypeOK

LEMMA CommandTypes ==
    ASSUME TypeInv, NEW c \in Commands, Command(c)
    PROVE  TypeInv'
<1> USE DEF fileVars, targetVars
<1>1. CASE Stop(c)
  <2>1. CASE Exit(c)
    BY <1>1, <2>1, ExitTypes DEF Stop, TypeInv, TypeOK
  <2>2. CASE tracer' = c /\ Goto(c, IF op[c] = "attach" THEN "map" ELSE "restore")
             /\ UNCHANGED <<table, slot>>
    <3>1. (op[c] # "attach" => Desc(c) \in Entries) /\ ~At(c, "idle")
      BY <1>1 DEF Stop, TypeInv, DescOK, At
    <3>2. Desc(c)' = Desc(c)
      BY <2>2 DEF Desc
    <3>3. /\ pc' \in [Commands -> Pcs] /\ table' \in [Commands -> Tables]
          /\ \A d \in Commands : DescOK(d)'
      <4>1. CASE op[c] = "attach"
        BY <1>1, <2>2, <3>1, <4>1, GoesTypes DEF Stop, Pcs, Holding
      <4>2. CASE op[c] # "attach"
        <5>1. Goto(c, "restore")
          BY <2>2, <4>2
        <5> QED
          BY <1>1, <2>2, <3>1, <3>2, <4>2, <5>1, GoesTypes DEF Stop, Pcs, Holding
      <4> QED
        BY <4>1, <4>2
    <3> QED
      BY <1>1, <2>2, <3>3 DEF Stop, TypeInv, TypeOK
  <2> QED
    BY <1>1, <2>1, <2>2 DEF Stop
<1>2. CASE ReadAndMap(c)
  <2>0. ~At(c, "idle") /\ slot[c] \in Slots
    BY <1>2 DEF ReadAndMap, At, TypeInv, DescOK
  <2>1. CASE Goto(c, "giveUp") /\ UNCHANGED <<table, runtime>>
    <3>1. /\ pc' \in [Commands -> Pcs] /\ table' \in [Commands -> Tables]
          /\ \A d \in Commands : DescOK(d)'
      BY <1>2, <2>0, <2>1, GoesTypes DEF ReadAndMap, Pcs, Holding
    <3> QED
      BY <1>2, <2>1, <3>1 DEF ReadAndMap, TypeInv, TypeOK
  <2>2. ASSUME NEW b \in Bases, Goto(c, "install"),
               runtime' = [runtime EXCEPT ![b] = [Free EXCEPT !.state = "mapped"]],
               SetDesc(c, [used |-> TRUE, func |-> func[c], base |-> b,
                           saved |-> code[Address(c)], enabled |-> TRUE])
        PROVE  TypeInv'
    <3> DEFINE E == [used |-> TRUE, func |-> func[c], base |-> b,
                     saved |-> code[Address(c)], enabled |-> TRUE]
    <3>1. E \in Entries
      BY ManagerAssumption DEF Entries, TypeInv, TypeOK, Address
    <3>2. SetDesc(c, E)
      BY <2>2
    <3>3. Desc(c)' = E
      BY <1>2, <2>0, <3>2 DEF SetDesc, Desc, TypeInv, TypeOK, Tables, ReadAndMap
    <3> HIDE DEF E
    <3>4. /\ pc' \in [Commands -> Pcs] /\ table' \in [Commands -> Tables]
          /\ \A d \in Commands : DescOK(d)'
      BY <1>2, <2>0, <2>2, <3>1, <3>2, <3>3, GoesTypes DEF ReadAndMap, Pcs, Holding
    <3>5. [Free EXCEPT !.state = "mapped"] \in Runtimes
      BY FreeType DEF Runtimes
    <3>6. runtime' \in [Bases -> Runtimes]
      BY <2>2, <3>5 DEF TypeInv, TypeOK
    <3> QED
      BY <1>2, <3>4, <3>6 DEF ReadAndMap, TypeInv, TypeOK
  <2> QED
    BY <1>2, <2>1, <2>2 DEF ReadAndMap
<1>3. CASE Install(c)
  <2>0. ~At(c, "idle") /\ Desc(c) \in Entries
    BY <1>3 DEF Install, At, TypeInv, DescOK
  <2>1. UNCHANGED table /\ UNCHANGED slot /\ Desc(c)' = Desc(c)
    BY <1>3 DEF Install, Desc
  <2>2. /\ pc' \in [Commands -> Pcs] /\ table' \in [Commands -> Tables]
        /\ \A d \in Commands : DescOK(d)'
    <3>1. CASE Goto(c, "patch")
      BY <1>3, <2>0, <2>1, <3>1, GoesTypes DEF Install, Pcs, Holding
    <3>2. CASE Goto(c, "giveUp")
      BY <1>3, <2>0, <2>1, <3>2, GoesTypes DEF Install, Pcs, Holding
    <3> QED
      BY <1>3, <3>1, <3>2 DEF Install
  <2>3. [state |-> "ready", enabled |-> TRUE, trampoline |-> Desc(c).saved,
         entry |-> Address(c)] \in Runtimes
    BY <2>0, ManagerAssumption DEF Runtimes, Entries, Address, TypeInv, TypeOK
  <2>4. runtime' \in [Bases -> Runtimes]
    BY <1>3, <2>0, <2>3 DEF Install, TypeInv, TypeOK, Entries
  <2> QED
    BY <1>3, <2>2, <2>4 DEF Install, TypeInv, TypeOK
<1>4. CASE PatchEntry(c)
  <2>0. ~At(c, "idle") /\ Desc(c) \in Entries
    BY <1>4 DEF PatchEntry, At, TypeInv, DescOK
  <2>1. /\ pc' \in [Commands -> Pcs] /\ table' \in [Commands -> Tables]
        /\ \A d \in Commands : DescOK(d)'
    <3>1. CASE Goto(c, "resume")
      BY <1>4, <2>0, <3>1, GoesTypes DEF PatchEntry, Pcs, Holding
    <3>2. CASE Goto(c, "giveUp")
      BY <1>4, <2>0, <3>2, GoesTypes DEF PatchEntry, Pcs, Holding
    <3> QED
      BY <1>4, <3>1, <3>2 DEF PatchEntry
  <2>2. code' \in [Addrs -> Code] /\ undone' \subseteq Funcs
    BY <1>4, <2>0 DEF PatchEntry, TypeInv, TypeOK, Entries, Code
  <2> QED
    BY <1>4, <2>1, <2>2 DEF PatchEntry, TypeInv, TypeOK
<1>5. CASE RestoreEntry(c)
  <2>0. ~At(c, "idle") /\ Desc(c) \in Entries
    BY <1>5 DEF RestoreEntry, At, TypeInv, DescOK
  <2>1. UNCHANGED table /\ UNCHANGED slot /\ Desc(c)' = Desc(c)
    BY <1>5 DEF RestoreEntry, Desc
  <2>2. /\ pc' \in [Commands -> Pcs] /\ table' \in [Commands -> Tables]
        /\ \A d \in Commands : DescOK(d)'
    <3>1. CASE Goto(c, "unmap")
      BY <1>5, <2>0, <2>1, <3>1, GoesTypes DEF RestoreEntry, Pcs, Holding
    <3>2. CASE Goto(c, "giveUp")
      BY <1>5, <2>0, <2>1, <3>2, GoesTypes DEF RestoreEntry, Pcs, Holding
    <3> QED
      BY <1>5, <3>1, <3>2 DEF RestoreEntry
  <2>3. code' \in [Addrs -> Code] /\ undone' \subseteq Funcs
    BY <1>5, <2>0 DEF RestoreEntry, PutBack, TypeInv, TypeOK, Entries
  <2> QED
    BY <1>5, <2>2, <2>3 DEF RestoreEntry, TypeInv, TypeOK
<1>6. CASE Unmap(c)
  <2>0. ~At(c, "idle") /\ Desc(c) \in Entries
    BY <1>6 DEF Unmap, At, TypeInv, DescOK
  <2>1. /\ pc' \in [Commands -> Pcs] /\ table' \in [Commands -> Tables]
        /\ \A d \in Commands : DescOK(d)'
    BY <1>6, <2>0, GoesTypes DEF Unmap, Pcs, Holding
  <2>2. runtime' \in [Bases -> Runtimes]
    BY <1>6, FreeType DEF Unmap, TypeInv, TypeOK
  <2> QED
    BY <1>6, <2>1, <2>2 DEF Unmap, TypeInv, TypeOK
<1>7. CASE SetEnabled(c)
  <2>0. ~At(c, "idle") /\ Desc(c) \in Entries
    BY <1>7 DEF SetEnabled, At, TypeInv, DescOK
  <2>1. CASE Exit(c) /\ UNCHANGED runtime
    BY <1>7, <2>1, ExitTypes DEF SetEnabled, TypeInv, TypeOK
  <2>2. ASSUME NEW v \in BOOLEAN,
               runtime' = [runtime EXCEPT ![Desc(c).base].enabled = v],
               SetDesc(c, [Desc(c) EXCEPT !.enabled = v]),
               Goto(c, "open"), UNCHANGED slot
        PROVE  TypeInv'
    <3>1. [Desc(c) EXCEPT !.enabled = v] \in Entries
      BY <2>0 DEF Entries
    <3>2. /\ pc' \in [Commands -> Pcs] /\ table' \in [Commands -> Tables]
          /\ \A d \in Commands : DescOK(d)'
      BY <1>7, <2>0, <2>2, <3>1, GoesTypes DEF SetEnabled, Pcs, Holding
    <3>3. runtime' \in [Bases -> Runtimes]
      BY <2>0, <2>2 DEF TypeInv, TypeOK, Entries, Runtimes
    <3> QED
      BY <1>7, <2>2, <3>2, <3>3 DEF SetEnabled, TypeInv, TypeOK
  <2> QED
    BY <1>7, <2>1, <2>2 DEF SetEnabled
<1>8. CASE Resume(c)
  <2>0. ~At(c, "idle")
    BY <1>8 DEF Resume, At
  <2>1. /\ pc' \in [Commands -> Pcs] /\ table' \in [Commands -> Tables]
        /\ \A d \in Commands : DescOK(d)'
    BY <1>8, <2>0, GoesTypes DEF Resume, Pcs, Holding
  <2> QED
    BY <1>8, <2>1, LetGoType DEF Resume, TypeInv, TypeOK
<1>9. CASE GiveUp(c)
  BY <1>9, ExitTypes, LetGoType DEF GiveUp, TypeInv, TypeOK
<1>10. CASE OpenState(c)
  <2>0. ~At(c, "idle")
    BY <1>10 DEF OpenState, At
  <2>1. CASE Exit(c) /\ UNCHANGED <<file, stored>>
    BY <1>10, <2>1, ExitTypes DEF OpenState, TypeInv, TypeOK
  <2>2. CASE /\ file' = "short" /\ stored' = NoProbes
             /\ Goto(c, "write") /\ UNCHANGED <<table, slot>>
    <3>1. /\ pc' \in [Commands -> Pcs] /\ table' \in [Commands -> Tables]
          /\ \A d \in Commands : DescOK(d)'
      BY <1>10, <2>0, <2>2, GoesTypes DEF OpenState, Pcs, Holding
    <3> QED
      BY <1>10, <2>2, <3>1, NoProbesType DEF OpenState, TypeInv, TypeOK
  <2> QED
    BY <1>10, <2>1, <2>2 DEF OpenState
<1>11. CASE WriteState(c)
  <2>1. Exit(c) /\ UNCHANGED <<op, func, alive, tracer, code, runtime, undone>>
    BY <1>11 DEF WriteState
  <2>2. file' \in {"missing", "short", "full"} /\ stored' \in Tables
    BY <1>11 DEF WriteState, TypeInv, TypeOK
  <2> QED
    BY <2>1, <2>2, ExitTypes DEF TypeInv, TypeOK
<1> QED
  BY <1>1, <1>2, <1>3, <1>4, <1>5, <1>6, <1>7, <1>8, <1>9, <1>10, <1>11 DEF Command

LEMMA CrashTypes ==
    ASSUME TypeInv, NEW c \in Commands, Crash(c)
    PROVE  TypeInv'
  BY ExitTypes, LetGoType DEF Crash, fileVars, TypeInv, TypeOK

LEMMA OutsideTypes ==
    ASSUME TypeInv, TargetExit \/ RemoveState
    PROVE  TypeInv'
<1>1. UNCHANGED <<pc, op, func, table, slot>>
  BY DEF TargetExit, RemoveState
<1>2. \A c \in Commands : DescOK(c)'
  BY <1>1 DEF TypeInv, DescOK, Desc, At
<1>3. CASE TargetExit
  BY <1>1, <1>2, <1>3, FreeType DEF TargetExit, fileVars, TypeInv, TypeOK, Code
<1>4. CASE RemoveState
  BY <1>1, <1>2, <1>4, NoProbesType DEF RemoveState, targetVars, TypeInv, TypeOK
<1> QED
  BY <1>3, <1>4

LEMMA StepTypes == TypeInv /\ [Next]_vars => TypeInv'
<1> SUFFICES ASSUME TypeInv, [Next]_vars PROVE TypeInv'
  OBVIOUS
<1>1. CASE UNCHANGED vars
  BY <1>1 DEF vars, fileVars, targetVars, TypeInv, TypeOK, DescOK, Desc, At
<1>2. CASE Next
  BY <1>2, StartTypes, CommandTypes, CrashTypes, OutsideTypes DEF Next
<1> QED
  BY <1>1, <1>2

\* The types hold in every reachable state: no command reads a table entry that
\* is not there, whatever fails and however commands overlap.
THEOREM ManagerTypes == Spec => []TypeOK
<1>1. TypeInv => TypeOK
  BY DEF TypeInv
<1> QED
  BY <1>1, InitTypes, StepTypes, PTL DEF Spec
-----------------------------------------------------------------------------
LEMMA Released ==
    ASSUME NotLeftStopped, NEW c \in Commands, LetGo(c),
           \A d \in Commands : d # c => pc'[d] = pc[d],
           tracer \in Commands \cup {NoCommand}
    PROVE  NotLeftStopped'
  BY ManagerAssumption DEF NotLeftStopped, LetGo

\* A command that does not hold the target and comes to p, or holds it there.
LEMMA KeepsHolding ==
    ASSUME TypeInv, NotLeftStopped, NEW c \in Commands, NEW p \in Pcs, Goto(c, p),
           pc[c] \notin Holding \/ p \in Holding, tracer' \in {tracer, c},
           tracer' = c => p \in Holding \/ tracer = c
    PROVE  NotLeftStopped'
  BY ManagerAssumption DEF NotLeftStopped, Goto, TypeInv, TypeOK

LEMMA CommandReleases ==
    ASSUME TypeInv, NotLeftStopped, NEW c \in Commands, Command(c)
    PROVE  NotLeftStopped'
<1> USE DEF fileVars, targetVars
<1>1. CASE Stop(c)
  <2>1. CASE Exit(c) /\ UNCHANGED tracer
    BY <1>1, <2>1, KeepsHolding DEF Exit, Stop, At, Pcs, Holding
  <2>2. CASE tracer' = c /\ Goto(c, IF op[c] = "attach" THEN "map" ELSE "restore")
    BY <1>1, <2>2, KeepsHolding DEF Pcs, Holding
  <2> QED
    BY <1>1, <2>1, <2>2 DEF Stop
<1>2. CASE ReadAndMap(c)
  <2>1. \E p \in Holding : Goto(c, p)
    BY <1>2 DEF ReadAndMap, Holding
  <2> QED
    BY <1>2, <2>1, KeepsHolding DEF ReadAndMap, Pcs
<1>3. CASE Install(c)
  <2>1. \E p \in Holding : Goto(c, p)
    BY <1>3 DEF Install, Holding
  <2> QED
    BY <1>3, <2>1, KeepsHolding DEF Install, Pcs
<1>4. CASE PatchEntry(c)
  <2>1. \E p \in Holding : Goto(c, p)
    BY <1>4 DEF PatchEntry, Holding
  <2> QED
    BY <1>4, <2>1, KeepsHolding DEF PatchEntry, Pcs
<1>5. CASE RestoreEntry(c)
  <2>1. \E p \in Holding : Goto(c, p)
    BY <1>5 DEF RestoreEntry, Holding
  <2> QED
    BY <1>5, <2>1, KeepsHolding DEF RestoreEntry, Pcs
<1>6. CASE Unmap(c)
  BY <1>6, KeepsHolding DEF Unmap, Pcs, Holding
<1>7. CASE SetEnabled(c)
  <2>1. \E p \in {"open", "idle"} : Goto(c, p)
    BY <1>7 DEF SetEnabled, Exit
  <2> QED
    BY <1>7, <2>1, KeepsHolding DEF SetEnabled, At, Pcs, Holding
<1>8. CASE Resume(c) \/ GiveUp(c)
  <2>1. LetGo(c) /\ \E p \in Pcs : Goto(c, p)
    BY <1>8 DEF Resume, GiveUp, Exit, Pcs
  <2>2. /\ tracer \in Commands \cup {NoCommand}
        /\ \A d \in Commands : d # c => pc'[d] = pc[d]
    BY <2>1 DEF Goto, TypeInv, TypeOK
  <2> QED
    BY <2>1, <2>2, Released
<1>9. CASE OpenState(c)
  <2>1. \E p \in {"write", "idle"} : Goto(c, p)
    BY <1>9 DEF OpenState, Exit
  <2> QED
    BY <1>9, <2>1, KeepsHolding DEF OpenState, At, Pcs, Holding
<1>10. CASE WriteState(c)
  BY <1>10, KeepsHolding DEF WriteState, Exit, At, Pcs, Holding
<1> QED
  BY <1>1, <1>2, <1>3, <1>4, <1>5, <1>6, <1>7, <1>8, <1>9, <1>10 DEF Command

LEMMA StepReleases == TypeInv /\ NotLeftStopped /\ [Next]_vars => NotLeftStopped'
<1> SUFFICES ASSUME TypeInv, NotLeftStopped, [Next]_vars PROVE NotLeftStopped'
  OBVIOUS
<1> USE DEF fileVars, targetVars
<1>1. CASE UNCHANGED vars
  BY <1>1 DEF vars, NotLeftStopped
<1>2. ASSUME NEW c \in Commands, NEW o \in Ops, NEW f \in Funcs, Start(c, o, f)
      PROVE  NotLeftStopped'
  <2>1. \E p \in {"stop", "flag"} : Goto(c, p)
    BY <1>2 DEF Start
  <2> QED
    BY <1>2, <2>1, KeepsHolding DEF Start, At, Pcs, Holding
<1>3. ASSUME NEW c \in Commands, Crash(c)
      PROVE  NotLeftStopped'
  <2>1. LetGo(c) /\ Goto(c, "idle")
    BY <1>3 DEF Crash, Exit
  <2>2. /\ tracer \in Commands \cup {NoCommand}
        /\ \A d \in Commands : d # c => pc'[d] = pc[d]
    BY <2>1 DEF Goto, TypeInv, TypeOK
  <2> QED
    BY <2>1, <2>2, Released
<1>4. CASE TargetExit \/ RemoveState
  BY <1>4 DEF TargetExit, RemoveState, NotLeftStopped
<1> QED
  BY <1>1, <1>2, <1>3, <1>4, CommandReleases DEF Next

\* Whatever call fails, whoever is killed and however commands overlap, the
\* target is held only by a command whose remaining steps let it go.
THEOREM TargetReleased == Spec => []NotLeftStopped
<1>1. Init => NotLeftStopped
  BY DEF Init, NotLeftStopped
<1> QED
  BY <1>1, InitTypes, StepTypes, StepReleases, PTL DEF Spec
-----------------------------------------------------------------------------
\* Commands are run one at a time and to their ends, the state file can be
\* written, and functions have addresses of their own.
Orderly == /\ Serial
           /\ Faults \cap {"open", "write", "crash", "remove"} = {}
           /\ \A f, g \in Funcs : AddrOf[f] = AddrOf[g] => f = g

\* What the runtime of entry e must be, and the table T being the truth about
\* the code cd, the runtimes rt and the functions un undone by failed detaches.
RuntimeOf(e) == [state |-> "ready", enabled |-> e.enabled, trampoline |-> Orig,
                 entry |-> AddrOf[e.func]]

CodeOf(e, un) == IF e.func \in un THEN Orig ELSE e.base

Matches(T, cd, rt, un) ==
    /\ \A i \in Slots : T[i] # Empty => /\ cd[AddrOf[T[i].func]] = CodeOf(T[i], un)
                                        /\ rt[T[i].base] = RuntimeOf(T[i])
                                        /\ T[i].saved = Orig
    /\ \A a \in Addrs : cd[a] # Orig => \E i \in Slots : T[i] # Empty /\ AddrOf[T[i].func] = a
    /\ \A i, j \in Slots : i # j /\ T[i] # Empty /\ T[j] # Empty => T[i].func # T[j].func

Agree(T)   == Matches(T, code, runtime, undone)
New(T, f)  == \A j \in Slots : T[j] # Empty => T[j].func # f
Fresh(T, b) == \A j \in Slots : T[j] # Empty => T[j].base # b
Without(c) == [table[c] EXCEPT ![slot[c]] = Empty]

FileInv == /\ file # "full" => stored = NoProbes
           /\ file = "short" => \E c \in Commands : At(c, "write")

OneBusy == \A c, d \in Commands : At(c, "idle") \/ At(d, "idle") \/ c = d

OpInv(c) == /\ At(c, "stop") => op[c] \in {"attach", "detach"}
            /\ pc[c] \in {"map", "install", "patch"} => op[c] = "attach"
            /\ pc[c] \in {"restore", "unmap"} => op[c] = "detach"

\* The table before its entry was added, and what was added.
Adding(c) == /\ stored[slot[c]] = Empty /\ New(stored, func[c])
             /\ Fresh(stored, Desc(c).base)
             /\ table[c] = [stored EXCEPT ![slot[c]] = Desc(c)]
             /\ Desc(c).func = func[c] /\ Desc(c).saved = Orig /\ Desc(c).enabled = TRUE

\* Which table is the truth about the target at each call of a command.
TruthInv(c) ==
    /\ At(c, "map") \/ (At(c, "stop") /\ op[c] = "attach") =>
          table[c] = stored /\ stored[slot[c]] = Empty /\ New(stored, func[c])
    /\ pc[c] \in {"install", "patch"} => Adding(c)
    /\ At(c, "install") => runtime[Desc(c).base].state = "mapped"
    /\ At(c, "patch") => runtime[Desc(c).base] = RuntimeOf(Desc(c))
    /\ pc[c] \in {"restore", "flag"} \/ (At(c, "stop") /\ op[c] = "detach") =>
          table[c] = stored /\ Desc(c) # Empty /\ Desc(c).func = func[c]
    /\ pc[c] \in {"stop", "map", "install", "patch", "restore", "flag", "giveUp"}
          => Agree(stored)
    /\ At(c, "unmap") => Fresh(Without(c), Desc(c).base)
    /\ At(c, "unmap") \/ (At(c, "resume") /\ op[c] = "detach") => Agree(Without(c))
    /\ pc[c] \in {"open", "write"} \/ (At(c, "resume") /\ op[c] # "detach") => Agree(table[c])

Agreement == /\ alive /\ Quiet => Agree(stored)
             /\ \A c \in Commands : alive /\ ~At(c, "idle") => TruthInv(c)
             /\ ~alive => \A a \in Addrs : code[a] = Orig

ExactInv == /\ TypeInv /\ FileInv /\ OneBusy
            /\ \A c \in Commands : OpInv(c)
            /\ Agreement
-----------------------------------------------------------------------------
\* What a change of one entry, of one function's code or of one runtime does to
\* a table that is the truth.
LEMMA UsedIff ==
    ASSUME NEW T \in Tables, NEW i \in Slots
    PROVE  /\ T[i].used <=> T[i] # Empty
           /\ T[i] # Empty => T[i] \in Entries
<1>1. Empty.used = FALSE
  BY DEF Empty
<1>2. T[i] \in Entries \cup {Empty}
  BY DEF Tables
<1>3. \A e \in Entries : e.used = TRUE
  BY DEF Entries
<1>4. CASE T[i] = Empty
  BY <1>1, <1>4
<1>5. CASE T[i] \in Entries
  <2>1. T[i].used = TRUE
    BY <1>3, <1>5
  <2> QED
    BY <1>1, <1>5, <2>1
<1> QED
  BY <1>2, <1>4, <1>5

LEMMA RuntimeFields ==
    \A e : /\ RuntimeOf(e).entry = AddrOf[e.func] /\ RuntimeOf(e).state = "ready"
           /\ RuntimeOf(e).trampoline = Orig
  BY DEF RuntimeOf

LEMMA DistinctBases ==
    ASSUME Orderly, NEW T \in Tables, NEW cd, NEW rt, NEW un, Matches(T, cd, rt, un),
           NEW i \in Slots, NEW j \in Slots, i # j, T[i] # Empty, T[j] # Empty
    PROVE  T[i].base # T[j].base
<1>1. T[i] \in Entries /\ T[j] \in Entries
  BY UsedIff
<1>2. T[i].func # T[j].func
  BY DEF Matches
<1>3. rt[T[i].base].entry = AddrOf[T[i].func] /\ rt[T[j].base].entry = AddrOf[T[j].func]
  BY RuntimeFields DEF Matches
<1>4. AddrOf[T[i].func] # AddrOf[T[j].func]
  BY <1>1, <1>2 DEF Orderly, Entries
<1> QED
  BY <1>3, <1>4

LEMMA UnprobedCode ==
    ASSUME Orderly, NEW T \in Tables, NEW cd, NEW rt, NEW un, Matches(T, cd, rt, un),
           NEW f \in Funcs, New(T, f)
    PROVE  cd[AddrOf[f]] = Orig
<1>1. SUFFICES ASSUME cd[AddrOf[f]] # Orig PROVE FALSE
  OBVIOUS
<1>2. AddrOf[f] \in Addrs
  BY ManagerAssumption
<1>3. PICK i \in Slots : T[i] # Empty /\ AddrOf[T[i].func] = AddrOf[f]
  BY <1>1, <1>2 DEF Matches
<1>4. T[i].func = f
  BY <1>3, UsedIff DEF Orderly, Entries
<1> QED
  BY <1>3, <1>4 DEF New

LEMMA UnusedBase ==
    ASSUME NEW T \in Tables, NEW cd, NEW rt, NEW un, Matches(T, cd, rt, un),
           NEW b \in Bases, rt[b].state # "ready"
    PROVE  Fresh(T, b)
<1>1. \A i \in Slots : T[i] # Empty => rt[T[i].base].state = "ready"
  BY RuntimeFields DEF Matches
<1> QED
  BY <1>1 DEF Fresh

LEMMA OtherRuntime ==
    ASSUME NEW T \in Tables, NEW cd, NEW rt \in [Bases -> Runtimes], NEW un,
           Matches(T, cd, rt, un),
           NEW b, NEW r, Fresh(T, b)
    PROVE  Matches(T, cd, [rt EXCEPT ![b] = r], un)
<1>1. ASSUME NEW i \in Slots, T[i] # Empty
      PROVE  [rt EXCEPT ![b] = r][T[i].base] = RuntimeOf(T[i])
  <2>1. T[i].base # b /\ T[i].base \in Bases
    BY <1>1, UsedIff DEF Fresh, Entries
  <2> QED
    BY <1>1, <2>1 DEF Matches
<1> QED
  BY <1>1 DEF Matches

LEMMA Added ==
    ASSUME Orderly, NEW T \in Tables, NEW cd \in [Addrs -> Code], NEW rt, NEW un,
           Matches(T, cd, rt, un),
           NEW k \in Slots, T[k] = Empty, NEW e \in Entries, New(T, e.func),
           e.saved = Orig, rt[e.base] = RuntimeOf(e)
    PROVE  Matches([T EXCEPT ![k] = e], [cd EXCEPT ![AddrOf[e.func]] = e.base], rt,
                   un \ {e.func})
<1> DEFINE U == [T EXCEPT ![k] = e]
           new == [cd EXCEPT ![AddrOf[e.func]] = e.base]
           left == un \ {e.func}
<1>1. /\ U[k] = e /\ e # Empty /\ \A i \in Slots : i # k => U[i] = T[i]
      /\ AddrOf[e.func] \in Addrs /\ e.func \in Funcs
  BY NoProbesType, ManagerAssumption DEF Tables, Entries
<1>2. /\ new[AddrOf[e.func]] = e.base
      /\ \A a \in Addrs : a # AddrOf[e.func] => new[a] = cd[a]
  BY <1>1
<1>3. ASSUME NEW i \in Slots, i # k, T[i] # Empty
      PROVE  /\ T[i].func # e.func
             /\ AddrOf[T[i].func] # AddrOf[e.func] /\ AddrOf[T[i].func] \in Addrs
  BY <1>1, <1>3, UsedIff, ManagerAssumption DEF New, Orderly, Entries
<1> HIDE DEF U, new
<1>4. ASSUME NEW i \in Slots, U[i] # Empty
      PROVE  /\ new[AddrOf[U[i].func]] = CodeOf(U[i], left)
             /\ rt[U[i].base] = RuntimeOf(U[i]) /\ U[i].saved = Orig
  <2>1. CASE i = k
    BY <1>1, <1>2, <2>1 DEF CodeOf
  <2>2. CASE i # k
    <3>1. U[i] = T[i] /\ CodeOf(T[i], left) = CodeOf(T[i], un)
      BY <1>1, <1>3, <1>4, <2>2 DEF CodeOf
    <3> QED
      BY <1>1, <1>2, <1>3, <1>4, <2>2, <3>1 DEF Matches
  <2> QED
    BY <2>1, <2>2
<1>5. ASSUME NEW a \in Addrs, new[a] # Orig
      PROVE  \E i \in Slots : U[i] # Empty /\ AddrOf[U[i].func] = a
  <2>1. CASE a = AddrOf[e.func]
    BY <1>1, <2>1
  <2>2. CASE a # AddrOf[e.func]
    <3>1. PICK i \in Slots : T[i] # Empty /\ AddrOf[T[i].func] = a
      BY <1>2, <1>5, <2>2 DEF Matches
    <3> QED
      BY <1>1, <3>1
  <2> QED
    BY <2>1, <2>2
<1>6. \A i, j \in Slots : i # j /\ U[i] # Empty /\ U[j] # Empty => U[i].func # U[j].func
  BY <1>1, <1>3 DEF Matches
<1>7. Matches(U, new, rt, left)
  BY <1>4, <1>5, <1>6 DEF Matches
<1> QED
  BY <1>7 DEF U, new, left

LEMMA Removed ==
    ASSUME Orderly, NEW T \in Tables, NEW cd \in [Addrs -> Code], NEW rt, NEW un,
           Matches(T, cd, rt, un),
           NEW k \in Slots, T[k] # Empty
    PROVE  Matches([T EXCEPT ![k] = Empty], [cd EXCEPT ![AddrOf[T[k].func]] = Orig], rt,
                   un \ {T[k].func})
<1> DEFINE U == [T EXCEPT ![k] = Empty]
           new == [cd EXCEPT ![AddrOf[T[k].func]] = Orig]
           left == un \ {T[k].func}
<1>1. /\ U[k] = Empty /\ \A i \in Slots : i # k => U[i] = T[i]
      /\ AddrOf[T[k].func] \in Addrs
  BY UsedIff, ManagerAssumption DEF Tables, Entries
<1>2. /\ new[AddrOf[T[k].func]] = Orig
      /\ \A a \in Addrs : a # AddrOf[T[k].func] => new[a] = cd[a]
  BY <1>1
<1>3. ASSUME NEW i \in Slots, i # k, T[i] # Empty
      PROVE  /\ AddrOf[T[i].func] # AddrOf[T[k].func] /\ AddrOf[T[i].func] \in Addrs
             /\ CodeOf(T[i], left) = CodeOf(T[i], un)
  <2>1. T[i].func # T[k].func
    BY <1>3 DEF Matches
  <2>2. T[i] \in Entries /\ T[k] \in Entries
    BY <1>3, UsedIff
  <2> QED
    BY <2>1, <2>2, ManagerAssumption DEF Orderly, Entries, CodeOf
<1> HIDE DEF U, new
<1>4. ASSUME NEW i \in Slots, U[i] # Empty
      PROVE  /\ new[AddrOf[U[i].func]] = CodeOf(U[i], left)
             /\ rt[U[i].base] = RuntimeOf(U[i]) /\ U[i].saved = Orig
  <2>1. i # k /\ U[i] = T[i]
    BY <1>1, <1>4
  <2> QED
    BY <1>2, <1>3, <1>4, <2>1 DEF Matches
<1>5. ASSUME NEW a \in Addrs, new[a] # Orig
      PROVE  \E i \in Slots : U[i] # Empty /\ AddrOf[U[i].func] = a
  <2>1. a # AddrOf[T[k].func] /\ cd[a] # Orig
    BY <1>2, <1>5
  <2>2. PICK i \in Slots : T[i] # Empty /\ AddrOf[T[i].func] = a
    BY <2>1 DEF Matches
  <2> QED
    BY <1>1, <2>1, <2>2
<1>6. \A i, j \in Slots : i # j /\ U[i] # Empty /\ U[j] # Empty => U[i].func # U[j].func
  BY <1>1 DEF Matches
<1>7. Matches(U, new, rt, left)
  BY <1>4, <1>5, <1>6 DEF Matches
<1> QED
  BY <1>7 DEF U, new, left

LEMMA HalfUndone ==
    ASSUME Orderly, NEW T \in Tables, NEW cd \in [Addrs -> Code], NEW rt, NEW un,
           Matches(T, cd, rt, un), NEW k \in Slots, T[k] # Empty
    PROVE  Matches(T, [cd EXCEPT ![AddrOf[T[k].func]] = Orig], rt, un \cup {T[k].func})
<1> DEFINE new == [cd EXCEPT ![AddrOf[T[k].func]] = Orig]
           more == un \cup {T[k].func}
<1>1. ASSUME NEW i \in Slots, T[i] # Empty
      PROVE  AddrOf[T[i].func] \in Addrs /\ new[AddrOf[T[i].func]] = CodeOf(T[i], more)
  <2>1. T[i] \in Entries /\ T[k] \in Entries /\ AddrOf[T[i].func] \in Addrs
    BY <1>1, UsedIff, ManagerAssumption DEF Entries
  <2>2. CASE T[i].func = T[k].func
    BY <2>1, <2>2 DEF CodeOf
  <2>3. CASE T[i].func # T[k].func
    <3>1. AddrOf[T[i].func] # AddrOf[T[k].func]
      BY <2>1, <2>3 DEF Orderly, Entries
    <3>2. CodeOf(T[i], more) = CodeOf(T[i], un)
      BY <2>3 DEF CodeOf
    <3> QED
      BY <1>1, <2>1, <3>1, <3>2 DEF Matches
  <2> QED
    BY <2>1, <2>2, <2>3
<1>2. \A a \in Addrs : new[a] # Orig => cd[a] # Orig
  OBVIOUS
<1> HIDE DEF new, more
<1>3. Matches(T, new, rt, more)
  BY <1>1, <1>2 DEF Matches
<1> QED
  BY <1>3 DEF new, more

LEMMA Flagged ==
    ASSUME Orderly, NEW T \in Tables, NEW cd, NEW rt \in [Bases -> Runtimes], NEW un,
           Matches(T, cd, rt, un),
           NEW k \in Slots, T[k] # Empty, NEW v \in BOOLEAN
    PROVE  Matches([T EXCEPT ![k] = [T[k] EXCEPT !.enabled = v]], cd,
                   [rt EXCEPT ![T[k].base].enabled = v], un)
<1> DEFINE e == [T[k] EXCEPT !.enabled = v]
           U == [T EXCEPT ![k] = e]
           new == [rt EXCEPT ![T[k].base].enabled = v]
<1>1. T[k] \in Entries
  BY UsedIff
<1>2. /\ e \in Entries /\ e.func = T[k].func /\ e.base = T[k].base /\ e.saved = T[k].saved
      /\ e.enabled = v
  BY <1>1 DEF Entries
<1>3. U[k] = e /\ e # Empty /\ \A i \in Slots : i # k => U[i] = T[i]
  BY <1>2, NoProbesType DEF Tables
<1>4. new[T[k].base] = RuntimeOf(e)
  <2>1. rt[T[k].base] = RuntimeOf(T[k]) /\ T[k].base \in Bases
    BY <1>1 DEF Matches, Entries
  <2>2. new[T[k].base] = [RuntimeOf(T[k]) EXCEPT !.enabled = v]
    BY <2>1
  <2>3. [RuntimeOf(T[k]) EXCEPT !.enabled = v] = RuntimeOf(e)
    BY <1>2 DEF RuntimeOf
  <2> QED
    BY <2>2, <2>3
<1>5. ASSUME NEW i \in Slots, i # k, T[i] # Empty
      PROVE  new[T[i].base] = rt[T[i].base]
  <2>1. T[i].base # T[k].base /\ T[i].base \in Bases
    BY <1>5, UsedIff, DistinctBases DEF Entries
  <2> QED
    BY <2>1
<1> HIDE DEF e, U, new
<1>6. ASSUME NEW i \in Slots, U[i] # Empty
      PROVE  /\ cd[AddrOf[U[i].func]] = CodeOf(U[i], un)
             /\ new[U[i].base] = RuntimeOf(U[i]) /\ U[i].saved = Orig
  <2>1. CASE i = k
    BY <1>2, <1>3, <1>4, <2>1 DEF Matches, CodeOf
  <2>2. CASE i # k
    BY <1>3, <1>5, <1>6, <2>2 DEF Matches
  <2> QED
    BY <2>1, <2>2
<1>7. ASSUME NEW a \in Addrs, cd[a] # Orig
      PROVE  \E i \in Slots : U[i] # Empty /\ AddrOf[U[i].func] = a
  <2>1. PICK i \in Slots : T[i] # Empty /\ AddrOf[T[i].func] = a
    BY <1>7 DEF Matches
  <2> QED
    BY <1>2, <1>3, <2>1
<1>8. \A i, j \in Slots : i # j /\ U[i] # Empty /\ U[j] # Empty => U[i].func # U[j].func
  BY <1>2, <1>3 DEF Matches
<1>9. Matches(U, cd, new, un)
  BY <1>6, <1>7, <1>8 DEF Matches
<1> QED
  BY <1>9 DEF e, U, new
-----------------------------------------------------------------------------
\* What holds of command c after its step.
Settled(c) == IF At(c, "idle") THEN Agree(stored) ELSE TruthInv(c)

LEMMA Kinds ==
    ASSUME TypeInv, NEW c \in Commands
    PROVE  /\ stored \in Tables /\ table[c] \in Tables /\ func[c] \in Funcs
           /\ code \in [Addrs -> Code] /\ runtime \in [Bases -> Runtimes]
           /\ ~At(c, "idle") => slot[c] \in Slots
           /\ Without(c) \in Tables
  BY DEF TypeInv, TypeOK, DescOK, Without, Tables

LEMMA StartSettles ==
    ASSUME ExactInv, alive, Orderly, NEW c \in Commands, NEW o \in Ops, NEW f \in Funcs,
           Start(c, o, f)
    PROVE  Settled(c)'
<1>1. Loaded = stored
  BY DEF Start, ExactInv, FileInv, Loaded
<1>2. Agree(stored)
  BY DEF Start, Orderly, ExactInv, Agreement, Quiet
<1>3. stored \in Tables /\ c \in DOMAIN pc /\ c \in DOMAIN slot /\ c \in DOMAIN table
      /\ c \in DOMAIN op /\ c \in DOMAIN func
  BY DEF ExactInv, TypeInv, TypeOK
<1>4. /\ table'[c] = stored /\ op'[c] = o /\ func'[c] = f
      /\ UNCHANGED <<stored, code, runtime, undone>>
  BY <1>1, <1>3 DEF Start, fileVars, targetVars
<1>5. Agree(stored)'
  BY <1>2, <1>4 DEF Agree
<1>6. CASE o = "attach"
  <2>1. PICK i \in Slots : slot'[c] = i /\ ~stored[i].used /\ pc'[c] = "stop"
    BY <1>1, <1>3, <1>6 DEF Start, Lowest, Goto
  <2>2. \A j \in Slots : ~(stored[j].used /\ stored[j].func = f)
    BY <1>1, <1>6 DEF Start
  <2>3. stored[i] = Empty /\ New(stored, f)
    BY <1>3, <2>1, <2>2, UsedIff DEF New
  <2> QED
    BY <1>4, <1>5, <1>6, <2>1, <2>3 DEF Settled, TruthInv, At, New
<1>7. CASE o # "attach"
  <2>1. PICK i \in Slots : /\ slot'[c] = i /\ stored[i].used /\ stored[i].func = f
                           /\ pc'[c] = IF o = "detach" THEN "stop" ELSE "flag"
    BY <1>1, <1>3, <1>7 DEF Start, Lowest, Goto
  <2>2. stored[i] # Empty
    BY <1>3, <2>1, UsedIff
  <2> QED
    BY <1>4, <1>5, <1>7, <2>1, <2>2 DEF Settled, TruthInv, At, Desc
<1> QED
  BY <1>6, <1>7

LEMMA AttachSettles ==
    ASSUME ExactInv, alive, Orderly, NEW c \in Commands,
           ReadAndMap(c) \/ Install(c) \/ PatchEntry(c)
    PROVE  Settled(c)'
<1> USE DEF fileVars, targetVars
<1>1. TruthInv(c) /\ ~At(c, "idle") /\ Agree(stored) /\ op[c] = "attach"
  BY DEF ReadAndMap, Install, PatchEntry, At, ExactInv, Agreement, OpInv, TruthInv
<1>2. /\ stored \in Tables /\ table[c] \in Tables /\ func[c] \in Funcs /\ slot[c] \in Slots
      /\ code \in [Addrs -> Code] /\ runtime \in [Bases -> Runtimes]
      /\ c \in DOMAIN pc /\ c \in DOMAIN table /\ Address(c) \in Addrs
  BY <1>1, Kinds, ManagerAssumption DEF ExactInv, TypeInv, TypeOK, Address
<1>3. UNCHANGED <<stored, op, func, slot>>
  BY DEF ReadAndMap, Install, PatchEntry
<1>4. ASSUME Goto(c, "giveUp"), UNCHANGED <<code, runtime, undone>>
      PROVE  Settled(c)'
  <2>1. pc'[c] = "giveUp" /\ Agree(stored)'
    BY <1>1, <1>2, <1>3, <1>4 DEF Goto, Agree
  <2> QED
    BY <2>1 DEF Settled, TruthInv, At
<1>5. ASSUME At(c, "map"), NEW b \in Bases, runtime[b].state = "free",
             runtime' = [runtime EXCEPT ![b] = [Free EXCEPT !.state = "mapped"]],
             SetDesc(c, [used |-> TRUE, func |-> func[c], base |-> b,
                         saved |-> code[Address(c)], enabled |-> TRUE]),
             Goto(c, "install"), UNCHANGED <<code, undone>>
      PROVE  Settled(c)'
  <2> DEFINE E == [used |-> TRUE, func |-> func[c], base |-> b,
                   saved |-> code[Address(c)], enabled |-> TRUE]
  <2>1. table[c] = stored /\ stored[slot[c]] = Empty /\ New(stored, func[c])
    BY <1>1, <1>5 DEF TruthInv
  <2>2. table'[c] = [stored EXCEPT ![slot[c]] = E]
    BY <1>2, <1>5, <2>1 DEF SetDesc
  <2>3. Desc(c)' = E
    BY <1>2, <1>3, <2>2 DEF Desc, Tables
  <2>4. code[Address(c)] = Orig
    BY <1>1, <1>2, <2>1, UnprobedCode DEF Agree, Address
  <2>5. E.base = b /\ E.func = func[c] /\ E.saved = Orig /\ E.enabled = TRUE
    BY <2>4
  <2> HIDE DEF E
  <2>6. Fresh(stored, b)
    BY <1>1, <1>2, <1>5, UnusedBase DEF Agree
  <2>7. Agree(stored)'
    BY <1>1, <1>2, <1>3, <1>5, <2>6, OtherRuntime DEF Agree
  <2>8. Adding(c)'
    BY <1>3, <2>1, <2>2, <2>3, <2>5, <2>6 DEF Adding, New, Fresh
  <2>9. pc'[c] = "install"
    BY <1>2, <1>5 DEF Goto
  <2>10. (runtime[Desc(c).base].state = "mapped")'
    BY <1>2, <1>5, <2>3, <2>5 DEF Free
  <2> QED
    BY <2>7, <2>8, <2>9, <2>10 DEF Settled, TruthInv, At
<1>6. CASE ReadAndMap(c)
  BY <1>4, <1>5, <1>6 DEF ReadAndMap
<1>7. CASE Install(c)
  <2>1. Adding(c) /\ Desc(c) \in Entries
    BY <1>1, <1>7 DEF Install, TruthInv, At, ExactInv, TypeInv, DescOK
  <2>2. CASE /\ runtime' = [runtime EXCEPT ![Desc(c).base] =
                               [state |-> "ready", enabled |-> TRUE,
                                trampoline |-> Desc(c).saved, entry |-> Address(c)]]
             /\ Goto(c, "patch")
    <3>1. [state |-> "ready", enabled |-> TRUE,
           trampoline |-> Desc(c).saved, entry |-> Address(c)] = RuntimeOf(Desc(c))
      BY <2>1 DEF Adding, RuntimeOf, Address
    <3>2. runtime' = [runtime EXCEPT ![Desc(c).base] = RuntimeOf(Desc(c))]
      BY <2>2, <3>1
    <3>3. UNCHANGED <<table, code, undone>> /\ Desc(c)' = Desc(c)
      BY <1>7 DEF Install, Desc
    <3>4. Agree(stored)'
      BY <1>1, <1>2, <1>3, <2>1, <3>2, <3>3, OtherRuntime DEF Agree, Adding
    <3>5. Adding(c)'
      BY <1>3, <2>1, <3>3 DEF Adding, New, Fresh
    <3>6. runtime'[Desc(c).base] = RuntimeOf(Desc(c))
      BY <1>2, <2>1, <3>2 DEF Entries
    <3>7. (runtime[Desc(c).base] = RuntimeOf(Desc(c)))'
      BY <3>3, <3>6 DEF RuntimeOf
    <3>8. pc'[c] = "patch"
      BY <1>2, <2>2 DEF Goto
    <3> QED
      BY <3>4, <3>5, <3>7, <3>8 DEF Settled, TruthInv, At
  <2> QED
    BY <1>4, <1>7, <2>2 DEF Install
<1>8. CASE PatchEntry(c)
  <2>1. Adding(c) /\ Desc(c) \in Entries /\ runtime[Desc(c).base] = RuntimeOf(Desc(c))
    BY <1>1, <1>8 DEF PatchEntry, TruthInv, At, ExactInv, TypeInv, DescOK
  <2>2. CASE /\ code' = [code EXCEPT ![Address(c)] = Desc(c).base]
             /\ undone' = undone \ {func[c]} /\ Goto(c, "resume")
    <3>1. Matches([stored EXCEPT ![slot[c]] = Desc(c)],
                  [code EXCEPT ![AddrOf[Desc(c).func]] = Desc(c).base], runtime,
                  undone \ {Desc(c).func})
      BY <1>1, <1>2, <2>1, Added DEF Agree, Adding
    <3>2. Agree(table[c])'
      BY <1>8, <2>1, <2>2, <3>1 DEF PatchEntry, Agree, Adding, Address
    <3>3. pc'[c] = "resume" /\ op'[c] = "attach"
      BY <1>1, <1>2, <1>3, <2>2 DEF Goto
    <3> QED
      BY <3>2, <3>3 DEF Settled, TruthInv, At
  <2> QED
    BY <1>4, <1>8, <2>2 DEF PatchEntry
<1> QED
  BY <1>6, <1>7, <1>8

LEMMA StopSettles ==
    ASSUME ExactInv, alive, NEW c \in Commands, Stop(c)
    PROVE  Settled(c)'
<1>1. TruthInv(c) /\ Agree(stored) /\ op[c] \in {"attach", "detach"}
  BY DEF Stop, At, ExactInv, Agreement, OpInv, TruthInv
<1>2. c \in DOMAIN pc /\ UNCHANGED <<stored, op, func, code, runtime, undone>>
  BY DEF Stop, fileVars, ExactInv, TypeInv, TypeOK
<1>3. Agree(stored)'
  BY <1>1, <1>2 DEF Agree
<1>4. CASE Exit(c)
  <2>1. pc'[c] = "idle"
    BY <1>2, <1>4 DEF Exit, Goto
  <2> QED
    BY <1>3, <2>1 DEF Settled, At
<1>5. CASE Goto(c, IF op[c] = "attach" THEN "map" ELSE "restore") /\ UNCHANGED <<table, slot>>
  <2>1. CASE op[c] = "attach"
    <3>1. pc'[c] = "map"
      BY <1>2, <1>5, <2>1 DEF Goto
    <3>2. table[c] = stored /\ stored[slot[c]] = Empty /\ New(stored, func[c])
      BY <1>1, <2>1 DEF Stop, TruthInv
    <3> QED
      BY <1>2, <1>3, <1>5, <3>1, <3>2 DEF Settled, TruthInv, At, New
  <2>2. CASE op[c] = "detach"
    <3>1. pc'[c] = "restore"
      BY <1>2, <1>5, <2>2 DEF Goto
    <3>2. table[c] = stored /\ Desc(c) # Empty /\ Desc(c).func = func[c]
      BY <1>1, <2>2 DEF Stop, TruthInv
    <3> QED
      BY <1>2, <1>3, <1>5, <3>1, <3>2 DEF Settled, TruthInv, At, Desc
  <2> QED
    BY <1>1, <2>1, <2>2
<1> QED
  BY <1>4, <1>5 DEF Stop

LEMMA DetachSettles ==
    ASSUME ExactInv, alive, Orderly, NEW c \in Commands, RestoreEntry(c) \/ Unmap(c)
    PROVE  Settled(c)'
<1> USE DEF fileVars, targetVars
<1>1. TruthInv(c) /\ ~At(c, "idle") /\ op[c] = "detach"
  BY DEF RestoreEntry, Unmap, At, ExactInv, Agreement, OpInv, TruthInv
<1>2. /\ stored \in Tables /\ table[c] \in Tables /\ func[c] \in Funcs /\ slot[c] \in Slots
      /\ code \in [Addrs -> Code] /\ runtime \in [Bases -> Runtimes]
      /\ c \in DOMAIN pc /\ Without(c) \in Tables
  BY <1>1, Kinds DEF ExactInv, TypeInv, TypeOK
<1>3. /\ UNCHANGED <<stored, op, func, slot, table>>
      /\ Desc(c)' = Desc(c) /\ Without(c)' = Without(c)
  BY DEF RestoreEntry, Unmap, Desc, Without
<1>4. CASE RestoreEntry(c)
  <2>1. Agree(stored) /\ table[c] = stored /\ Desc(c) # Empty /\ Desc(c).func = func[c]
    BY <1>1, <1>4 DEF RestoreEntry, TruthInv, At
  <2>2. CASE Goto(c, "giveUp") /\ UNCHANGED <<code, undone>>
    <3>1. pc'[c] = "giveUp" /\ Agree(stored)'
      BY <1>2, <1>3, <1>4, <2>1, <2>2 DEF RestoreEntry, Goto, Agree
    <3> QED
      BY <3>1 DEF Settled, TruthInv, At
  <2>3. Desc(c).saved = Orig /\ Desc(c) = stored[slot[c]]
    BY <1>2, <2>1 DEF Desc, Agree, Matches
  <2>4. CASE PutBack(c) /\ undone' = undone \cup {func[c]} /\ Goto(c, "giveUp")
    <3>1. Matches(stored, [code EXCEPT ![AddrOf[stored[slot[c]].func]] = Orig], runtime,
                  undone \cup {stored[slot[c]].func})
      BY <1>2, <2>1, <2>3, HalfUndone DEF Agree
    <3>2. pc'[c] = "giveUp" /\ Agree(stored)'
      BY <1>2, <1>3, <1>4, <2>1, <2>3, <2>4, <3>1
         DEF RestoreEntry, PutBack, Goto, Agree, Address
    <3> QED
      BY <3>2 DEF Settled, TruthInv, At
  <2>5. CASE PutBack(c) /\ undone' = undone \ {func[c]} /\ Goto(c, "unmap")
    <3>1. Matches([stored EXCEPT ![slot[c]] = Empty],
                  [code EXCEPT ![AddrOf[stored[slot[c]].func]] = Orig], runtime,
                  undone \ {stored[slot[c]].func})
      BY <1>2, <2>1, <2>3, Removed DEF Agree
    <3>2. Agree(Without(c))'
      BY <1>3, <1>4, <2>1, <2>3, <2>5, <3>1 DEF RestoreEntry, PutBack, Agree, Without, Address
    <3>3. \A j \in Slots : j # slot[c] /\ stored[j] # Empty => stored[j].base # Desc(c).base
      BY <1>2, <2>1, <2>3, DistinctBases DEF Agree
    <3>4. /\ Without(c)[slot[c]] = Empty
          /\ \A j \in Slots : j # slot[c] => Without(c)[j] = stored[j]
      BY <1>2, <2>1 DEF Without, Tables
    <3>5. Fresh(Without(c), Desc(c).base)
      BY <3>3, <3>4 DEF Fresh
    <3>6. Fresh(Without(c), Desc(c).base)'
      BY <1>3, <3>5 DEF Fresh
    <3>7. pc'[c] = "unmap"
      BY <1>2, <2>5 DEF Goto
    <3> QED
      BY <3>2, <3>6, <3>7 DEF Settled, TruthInv, At
  <2> QED
    BY <1>4, <2>2, <2>4, <2>5 DEF RestoreEntry
<1>5. CASE Unmap(c)
  <2>1. Agree(Without(c)) /\ Fresh(Without(c), Desc(c).base)
    BY <1>1, <1>5 DEF Unmap, TruthInv, At
  <2>2. Agree(Without(c))'
    <3>1. CASE UNCHANGED runtime
      BY <1>3, <1>5, <2>1, <3>1 DEF Unmap, Agree
    <3>2. CASE runtime' = [runtime EXCEPT ![Desc(c).base] = Free]
      BY <1>2, <1>3, <1>5, <2>1, <3>2, OtherRuntime DEF Unmap, Agree
    <3> QED
      BY <1>5, <3>1, <3>2 DEF Unmap
  <2>3. pc'[c] = "resume" /\ op'[c] = "detach"
    BY <1>1, <1>2, <1>3, <1>5 DEF Unmap, Goto
  <2> QED
    BY <2>2, <2>3 DEF Settled, TruthInv, At
<1> QED
  BY <1>4, <1>5

LEMMA FlagSettles ==
    ASSUME ExactInv, alive, Orderly, NEW c \in Commands, SetEnabled(c)
    PROVE  Settled(c)'
<1>1. TruthInv(c) /\ ~At(c, "idle")
  BY DEF SetEnabled, At, ExactInv, Agreement
<1>2. Agree(stored) /\ table[c] = stored /\ Desc(c) # Empty
  BY <1>1 DEF SetEnabled, TruthInv, At
<1>3. /\ stored \in Tables /\ slot[c] \in Slots /\ runtime \in [Bases -> Runtimes]
      /\ c \in DOMAIN pc /\ c \in DOMAIN table
  BY <1>1, Kinds DEF ExactInv, TypeInv, TypeOK
<1>4. UNCHANGED <<stored, code, undone>>
  BY DEF SetEnabled, fileVars
<1>5. CASE Exit(c) /\ UNCHANGED runtime
  <2>1. pc'[c] = "idle" /\ Agree(stored)'
    BY <1>2, <1>3, <1>4, <1>5 DEF Exit, Goto, Agree
  <2> QED
    BY <2>1 DEF Settled, At
<1>6. ASSUME NEW v \in BOOLEAN,
             runtime' = [runtime EXCEPT ![Desc(c).base].enabled = v],
             SetDesc(c, [Desc(c) EXCEPT !.enabled = v]), Goto(c, "open")
      PROVE  Settled(c)'
  <2>1. Desc(c) = stored[slot[c]]
    BY <1>2 DEF Desc
  <2>2. Matches([stored EXCEPT ![slot[c]] = [stored[slot[c]] EXCEPT !.enabled = v]], code,
                [runtime EXCEPT ![stored[slot[c]].base].enabled = v], undone)
    BY <1>2, <1>3, <2>1, Flagged DEF Agree
  <2>3. table'[c] = [stored EXCEPT ![slot[c]] = [stored[slot[c]] EXCEPT !.enabled = v]]
    BY <1>2, <1>3, <1>6, <2>1 DEF SetDesc
  <2>4. runtime' = [runtime EXCEPT ![stored[slot[c]].base].enabled = v]
    BY <1>6, <2>1
  <2>5. Agree(table[c])'
    BY <1>4, <2>2, <2>3, <2>4 DEF Agree
  <2>6. pc'[c] = "open"
    BY <1>3, <1>6 DEF Goto
  <2> QED
    BY <2>5, <2>6 DEF Settled, TruthInv, At
<1> QED
  BY <1>5, <1>6 DEF SetEnabled

LEMMA EndSettles ==
    ASSUME ExactInv, alive, Orderly, NEW c \in Commands,
           Resume(c) \/ GiveUp(c) \/ OpenState(c) \/ WriteState(c)
    PROVE  Settled(c)'
<1> USE DEF fileVars, targetVars
<1>1. TruthInv(c)
  BY DEF Resume, GiveUp, OpenState, WriteState, At, ExactInv, Agreement
<1>2. c \in DOMAIN pc /\ c \in DOMAIN table /\ UNCHANGED <<code, runtime, undone>>
  BY DEF Resume, GiveUp, OpenState, WriteState, ExactInv, TypeInv, TypeOK
<1>3. CASE Resume(c)
  <2>1. pc'[c] = "open"
    BY <1>2, <1>3 DEF Resume, Goto
  <2>2. CASE op[c] = "detach"
    <3>1. Agree(Without(c)) /\ table'[c] = Without(c)
      BY <1>1, <1>2, <1>3, <2>2 DEF Resume, TruthInv, SetDesc, Without
    <3> QED
      BY <1>2, <2>1, <3>1 DEF Settled, TruthInv, At, Agree
  <2>3. CASE op[c] # "detach"
    <3>1. Agree(table[c]) /\ table' = table
      BY <1>1, <1>3, <2>3 DEF Resume, TruthInv
    <3> QED
      BY <1>2, <2>1, <3>1 DEF Settled, TruthInv, At, Agree
  <2> QED
    BY <2>2, <2>3
<1>4. CASE GiveUp(c)
  <2>1. pc'[c] = "idle" /\ Agree(stored)'
    BY <1>1, <1>2, <1>4 DEF GiveUp, TruthInv, At, Exit, Goto, Agree
  <2> QED
    BY <2>1 DEF Settled, At
<1>5. CASE OpenState(c)
  <2>1. pc'[c] = "write" /\ table' = table
    BY <1>2, <1>5 DEF OpenState, Goto, Orderly, Fails
  <2>2. Agree(table[c])
    BY <1>1, <1>5 DEF OpenState, TruthInv, At
  <2> QED
    BY <1>2, <2>1, <2>2 DEF Settled, TruthInv, At, Agree
<1>6. CASE WriteState(c)
  <2>1. pc'[c] = "idle" /\ stored' = table[c]
    BY <1>2, <1>6 DEF WriteState, Exit, Goto, Orderly, Fails
  <2>2. Agree(table[c])
    BY <1>1, <1>6 DEF WriteState, TruthInv, At
  <2> QED
    BY <1>2, <2>1, <2>2 DEF Settled, At, Agree
<1> QED
  BY <1>3, <1>4, <1>5, <1>6
-----------------------------------------------------------------------------
\* The steps of a command once the target is gone, and what no step touches.
LEMMA Afterwards ==
    ASSUME TypeInv, NEW c \in Commands, Command(c) \/ \E o \in Ops, f \in Funcs : Start(c, o, f)
    PROVE  /\ alive' <=> alive
           /\ ~alive => code' = code
           /\ \E p \in Pcs : pc' = [pc EXCEPT ![c] = p]
  BY DEF Start, Command, Stop, ReadAndMap, Install, PatchEntry, RestoreEntry, Unmap,
         SetEnabled, Resume, GiveUp, OpenState, WriteState, Held, Exit, Goto, Holding, Pcs,
         targetVars

LEMMA StepFile ==
    ASSUME ExactInv, Orderly, [Next]_vars
    PROVE  FileInv'
<1> USE DEF fileVars, targetVars
<1>1. CASE UNCHANGED <<file, stored, pc>>
  BY <1>1 DEF ExactInv, FileInv, At
<1>2. ASSUME NEW c \in Commands, UNCHANGED <<file, stored>>, ~At(c, "write"),
             NEW p, pc' = [pc EXCEPT ![c] = p]
      PROVE  FileInv'
  <2>1. \A d \in Commands : At(d, "write") => At(d, "write")'
    BY <1>2 DEF At, ExactInv, TypeInv, TypeOK
  <2> QED
    BY <1>2, <2>1 DEF ExactInv, FileInv
<1>3. ASSUME NEW c \in Commands, NEW o \in Ops, NEW f \in Funcs, Start(c, o, f)
      PROVE  FileInv'
  BY <1>3, <1>2 DEF Start, Goto, At
<1>4. ASSUME NEW c \in Commands, OpenState(c)
      PROVE  FileInv'
  <2>1. file' = "short" /\ stored' = NoProbes /\ pc' = [pc EXCEPT ![c] = "write"]
    BY <1>4 DEF OpenState, Goto, Orderly, Fails
  <2> QED
    BY <2>1 DEF FileInv, At, ExactInv, TypeInv, TypeOK
<1>5. ASSUME NEW c \in Commands, WriteState(c)
      PROVE  FileInv'
  BY <1>5 DEF WriteState, Orderly, Fails, FileInv
<1>6. ASSUME NEW c \in Commands,
             \/ Stop(c) \/ ReadAndMap(c) \/ Install(c) \/ PatchEntry(c) \/ RestoreEntry(c)
             \/ Unmap(c) \/ SetEnabled(c) \/ Resume(c) \/ GiveUp(c)
      PROVE  FileInv'
  <2>1. UNCHANGED <<file, stored>> /\ ~At(c, "write")
    BY <1>6 DEF Stop, ReadAndMap, Install, PatchEntry, RestoreEntry, Unmap, SetEnabled,
                Resume, GiveUp, At
  <2>2. \E p : pc' = [pc EXCEPT ![c] = p]
    BY <1>6, Afterwards DEF Command, ExactInv
  <2> QED
    BY <1>2, <2>1, <2>2
<1>7. CASE TargetExit
  BY <1>1, <1>7 DEF TargetExit
<1>8. ASSUME NEW c \in Commands, Crash(c) PROVE FALSE
  BY <1>8 DEF Crash, Orderly, Fails
<1>9. ASSUME RemoveState PROVE FALSE
  BY <1>9 DEF RemoveState, Orderly, Fails
<1>10. CASE UNCHANGED vars
  BY <1>1, <1>10 DEF vars
<1> QED
  BY <1>3, <1>4, <1>5, <1>6, <1>7, <1>8, <1>9, <1>10 DEF Next, Command

LEMMA StepOps ==
    ASSUME ExactInv, [Next]_vars, NEW d \in Commands
    PROVE  OpInv(d)'
<1> USE DEF fileVars, targetVars, At
<1>1. OpInv(d) /\ pc \in [Commands -> Pcs] /\ op \in [Commands -> Ops]
  BY DEF ExactInv, TypeInv, TypeOK
<1>2. CASE UNCHANGED <<pc, op>>
  BY <1>1, <1>2 DEF OpInv
<1>3. ASSUME NEW c \in Commands, NEW o \in Ops, NEW f \in Funcs, Start(c, o, f)
      PROVE  OpInv(d)'
  <2>1. CASE o = "attach"
    BY <1>1, <1>3, <2>1 DEF Start, Goto, OpInv
  <2>2. CASE o = "detach"
    BY <1>1, <1>3, <2>2 DEF Start, Goto, OpInv
  <2>3. CASE o \notin {"attach", "detach"}
    BY <1>1, <1>3, <2>3 DEF Start, Goto, OpInv
  <2> QED
    BY <2>1, <2>2, <2>3
<1>4. ASSUME NEW c \in Commands, NEW p, pc' = [pc EXCEPT ![c] = p], UNCHANGED op,
             p = "map" => op[c] = "attach",
             p \in {"install", "patch"} => pc[c] \in {"map", "install"},
             p = "restore" => pc[c] = "stop" /\ op[c] # "attach",
             p = "unmap" => pc[c] = "restore",
             p # "stop"
      PROVE  OpInv(d)'
  <2>1. OpInv(c)
    BY DEF ExactInv
  <2> QED
    BY <1>1, <1>4, <2>1 DEF OpInv
<1>5. ASSUME NEW c \in Commands, Command(c)
      PROVE  OpInv(d)'
  <2>1. CASE Stop(c)
    <3>1. CASE Exit(c)
      BY <1>4, <2>1, <3>1 DEF Stop, Exit, Goto
    <3>2. CASE Goto(c, IF op[c] = "attach" THEN "map" ELSE "restore")
      <4>1. CASE op[c] = "attach"
        BY <1>4, <2>1, <3>2, <4>1 DEF Stop, Goto
      <4>2. CASE op[c] # "attach"
        BY <1>4, <2>1, <3>2, <4>2 DEF Stop, Goto
      <4> QED
        BY <4>1, <4>2
    <3> QED
      BY <2>1, <3>1, <3>2 DEF Stop
  <2>2. CASE ReadAndMap(c)
    BY <1>4, <2>2 DEF ReadAndMap, Goto
  <2>3. CASE Install(c)
    BY <1>4, <2>3 DEF Install, Goto
  <2>4. CASE PatchEntry(c)
    BY <1>4, <2>4 DEF PatchEntry, Goto
  <2>5. CASE RestoreEntry(c)
    BY <1>4, <2>5 DEF RestoreEntry, Goto
  <2>6. CASE Unmap(c)
    BY <1>4, <2>6 DEF Unmap, Goto
  <2>7. CASE SetEnabled(c)
    BY <1>4, <2>7 DEF SetEnabled, Exit, Goto
  <2>8. CASE Resume(c) \/ GiveUp(c)
    BY <1>4, <2>8 DEF Resume, GiveUp, Exit, Goto
  <2>9. CASE OpenState(c) \/ WriteState(c)
    BY <1>4, <2>9 DEF OpenState, WriteState, Exit, Goto
  <2> QED
    BY <1>5, <2>1, <2>2, <2>3, <2>4, <2>5, <2>6, <2>7, <2>8, <2>9 DEF Command
<1>6. ASSUME NEW c \in Commands, Crash(c)
      PROVE  OpInv(d)'
  BY <1>4, <1>6 DEF Crash, Exit, Goto
<1>7. CASE TargetExit \/ RemoveState
  BY <1>2, <1>7 DEF TargetExit, RemoveState
<1>8. CASE UNCHANGED vars
  BY <1>2, <1>8 DEF vars
<1> QED
  BY <1>3, <1>5, <1>6, <1>7, <1>8 DEF Next

LEMMA CommandSettles ==
    ASSUME ExactInv, alive, Orderly, NEW c \in Commands, Command(c)
    PROVE  Settled(c)'
  BY StopSettles, AttachSettles, DetachSettles, FlagSettles, EndSettles DEF Command

\* A step of a command whose fellows are idle.
LEMMA StepOfOne ==
    ASSUME ExactInv, Orderly, NEW c \in Commands,
           \A d \in Commands : d # c => At(d, "idle"),
           \/ Command(c)
           \/ \E o \in Ops, f \in Funcs : Start(c, o, f)
    PROVE  OneBusy' /\ Agreement'
<1>1. /\ alive' <=> alive
      /\ ~alive => code' = code
      /\ \E p \in Pcs : pc' = [pc EXCEPT ![c] = p]
  BY Afterwards DEF ExactInv
<1>2. \A d \in Commands : d # c => At(d, "idle")'
  BY <1>1 DEF At, ExactInv, TypeInv, TypeOK
<1>3. OneBusy'
  BY <1>2 DEF OneBusy
<1>4. CASE alive
  <2>1. Settled(c)'
    BY <1>4, CommandSettles, StartSettles
  <2>2. CASE At(c, "idle")'
    BY <1>1, <1>2, <1>3, <1>4, <2>1, <2>2 DEF Agreement, Settled
  <2>3. CASE ~At(c, "idle")'
    BY <1>1, <1>2, <1>3, <1>4, <2>1, <2>3 DEF Agreement, Settled, Quiet
  <2> QED
    BY <2>2, <2>3
<1>5. CASE ~alive
  BY <1>1, <1>3, <1>5 DEF ExactInv, Agreement
<1> QED
  BY <1>4, <1>5

LEMMA InitExact == Init => ExactInv
<1> SUFFICES ASSUME Init PROVE ExactInv
  OBVIOUS
<1>1. FileInv /\ OneBusy /\ \A c \in Commands : OpInv(c) /\ At(c, "idle")
  BY DEF Init, FileInv, OneBusy, OpInv, At
<1>2. Agree(stored)
  BY DEF Init, Agree, Matches, NoProbes
<1>3. Agreement
  BY <1>1, <1>2 DEF Init, Agreement
<1> QED
  BY <1>1, <1>3, InitTypes DEF ExactInv

LEMMA StepExact ==
    ASSUME ExactInv, Orderly, [Next]_vars
    PROVE  ExactInv'
<1>1. TypeInv' /\ FileInv' /\ \A c \in Commands : OpInv(c)'
  BY StepTypes, StepFile, StepOps DEF ExactInv
<1>2. OneBusy' /\ Agreement'
  <2>1. CASE UNCHANGED vars
    <3>1. /\ UNCHANGED <<stored, pc, op, func, table, slot, alive, code, runtime, undone>>
          /\ OneBusy /\ Agreement
      BY <2>1 DEF vars, fileVars, targetVars, ExactInv
    <3>2. OneBusy'
      BY <3>1 DEF OneBusy, At
    <3>3. (Quiet' => Quiet) /\ (Agree(stored) => Agree(stored)')
      BY <3>1 DEF Agree, Quiet, At
    <3>4. ASSUME NEW c \in Commands, ~At(c, "idle")'
          PROVE  alive => TruthInv(c)'
      <4>1. alive => TruthInv(c)
        BY <3>1, <3>4 DEF Agreement, At
      <4>2. /\ Without(c)' = Without(c) /\ Desc(c)' = Desc(c)
            /\ Adding(c) => Adding(c)'
        BY <3>1 DEF Adding, New, Fresh, Without, Desc
      <4> QED
        BY <3>1, <4>1, <4>2 DEF TruthInv, Agree, New, Fresh, At, RuntimeOf
    <3> QED
      BY <3>1, <3>2, <3>3, <3>4 DEF Agreement
  <2>2. ASSUME NEW c \in Commands, Command(c)
        PROVE  OneBusy' /\ Agreement'
    <3>1. ~At(c, "idle")
      BY <2>2 DEF Command, Stop, ReadAndMap, Install, PatchEntry, RestoreEntry, Unmap,
                  SetEnabled, Resume, GiveUp, OpenState, WriteState, At
    <3>2. \A d \in Commands : d # c => At(d, "idle")
      BY <3>1 DEF ExactInv, OneBusy
    <3> QED
      BY <2>2, <3>2, StepOfOne
  <2>3. ASSUME NEW c \in Commands, NEW o \in Ops, NEW f \in Funcs, Start(c, o, f)
        PROVE  OneBusy' /\ Agreement'
    <3>1. \A d \in Commands : d # c => At(d, "idle")
      BY <2>3 DEF Start, Orderly
    <3> QED
      BY <2>3, <3>1, StepOfOne
  <2>4. CASE TargetExit
    BY <2>4 DEF TargetExit, ExactInv, OneBusy, Agreement, At
  <2>5. ASSUME RemoveState \/ \E c \in Commands : Crash(c) PROVE FALSE
    BY <2>5 DEF RemoveState, Crash, Orderly, Fails
  <2> QED
    BY <2>1, <2>2, <2>3, <2>4, <2>5 DEF Next
<1> QED
  BY <1>1, <1>2 DEF ExactInv

LEMMA ExactConsistent ==
    ASSUME ExactInv, Orderly
    PROVE  Consistent
<1> SUFFICES ASSUME Quiet, alive PROVE Consistent
  BY DEF Consistent
<1>1. Agree(stored) /\ stored \in Tables
  BY DEF ExactInv, Agreement, TypeInv, TypeOK
<1>2. file # "short"
  BY DEF ExactInv, FileInv, Quiet, At
<1>3. ASSUME NEW e \in Recorded
      PROVE  /\ code[AddrOf[e.func]] = IF e.func \in undone THEN e.saved ELSE e.base
             /\ runtime[e.base] = [state |-> "ready", enabled |-> e.enabled,
                                   trampoline |-> Orig, entry |-> AddrOf[e.func]]
             /\ e.saved = Orig
  <2>1. PICK i \in Slots : e = stored[i] /\ stored[i] # Empty
    BY <1>1, <1>3, UsedIff DEF Recorded
  <2>2. /\ code[AddrOf[e.func]] = CodeOf(e, undone)
        /\ runtime[e.base] = RuntimeOf(e) /\ e.saved = Orig
    BY <1>1, <2>1 DEF Agree, Matches
  <2> QED
    BY <2>2 DEF RuntimeOf, CodeOf
<1>4. ASSUME NEW a \in Addrs, code[a] # Orig
      PROVE  \E e \in Recorded : AddrOf[e.func] = a
  <2>1. PICK i \in Slots : stored[i] # Empty /\ AddrOf[stored[i].func] = a
    BY <1>1, <1>4 DEF Agree, Matches
  <2> QED
    BY <1>1, <2>1, UsedIff DEF Recorded
<1>5. ASSUME NEW i \in Slots, NEW j \in Slots, i # j, stored[i].used, stored[j].used
      PROVE  stored[i].func # stored[j].func
  BY <1>1, <1>5, UsedIff DEF Agree, Matches
<1> QED
  BY <1>2, <1>3, <1>4, <1>5 DEF Consistent

\* Whatever a running command is at, some table is the truth.
LEMMA SomeTruth ==
    ASSUME ExactInv, alive
    PROVE  \E T \in Tables : Agree(T)
<1>1. CASE Quiet
  BY <1>1 DEF ExactInv, Agreement, TypeInv, TypeOK
<1>2. CASE ~Quiet
  <2>1. PICK c \in Commands : ~At(c, "idle")
    BY <1>2 DEF Quiet
  <2>2. TruthInv(c) /\ pc[c] \in Pcs
    BY <2>1 DEF ExactInv, Agreement, TypeInv, TypeOK
  <2>3. Agree(stored) \/ Agree(table[c]) \/ Agree(Without(c))
    BY <2>1, <2>2 DEF TruthInv, At, Pcs, Holding
  <2> QED
    BY <2>3, Kinds DEF ExactInv
<1> QED
  BY <1>1, <1>2

\* A jmp leads to the runtime that was built for the entry it stands at.
Serves(b, a) == /\ runtime[b].state = "ready" /\ runtime[b].trampoline = Orig
                /\ runtime[b].entry = a

LEMMA ExactServes ==
    ASSUME ExactInv, NEW a \in Addrs, code[a] # Orig
    PROVE  code[a] \in Bases /\ Serves(code[a], a)
<1>1. alive
  BY DEF ExactInv, Agreement
<1>2. PICK T \in Tables : Agree(T)
  BY <1>1, SomeTruth
<1>3. PICK i \in Slots : T[i] # Empty /\ AddrOf[T[i].func] = a
  BY <1>2 DEF Agree, Matches
<1>4. code[a] = T[i].base /\ runtime[T[i].base] = RuntimeOf(T[i]) /\ T[i] \in Entries
  BY <1>2, <1>3, UsedIff DEF Agree, Matches, CodeOf
<1>5. T[i].base \in Bases
  BY <1>4 DEF Entries
<1>6. Serves(T[i].base, a)
  BY <1>3, <1>4, RuntimeFields DEF Serves
<1> QED
  BY <1>4, <1>5, <1>6

LEMMA ExactLeads ==
    ASSUME ExactInv
    PROVE  CodeLeadsSomewhere
  BY ExactServes DEF CodeLeadsSomewhere, Serves

\* A command touches a complete runtime only to flag it or to take it away.
LEMMA ReadyStays ==
    ASSUME ExactInv, [Next]_vars, NEW b \in Bases, runtime[b].state = "ready"
    PROVE  \/ runtime'[b].state = "free"
           \/ /\ runtime'[b].state = "ready"
              /\ runtime'[b].trampoline = runtime[b].trampoline
              /\ runtime'[b].entry = runtime[b].entry
<1> DEFINE Stays == /\ runtime'[b].state = "ready"
                    /\ runtime'[b].trampoline = runtime[b].trampoline
                    /\ runtime'[b].entry = runtime[b].entry
<1>1. runtime \in [Bases -> Runtimes]
  BY DEF ExactInv, TypeInv, TypeOK
<1>2. CASE UNCHANGED runtime
  BY <1>2
<1>3. ASSUME NEW c \in Commands, ReadAndMap(c)
      PROVE  Stays
  BY <1>1, <1>3 DEF ReadAndMap
<1>4. ASSUME NEW c \in Commands, Install(c)
      PROVE  Stays
  <2>1. CASE Held(c)
    <3>1. runtime[Desc(c).base].state = "mapped"
      BY <1>4, <2>1 DEF Install, Held, At, ExactInv, Agreement, TruthInv
    <3> QED
      BY <1>1, <1>4, <3>1 DEF Install
  <2>2. CASE UNCHANGED runtime
    BY <2>2
  <2> QED
    BY <1>4, <2>1, <2>2 DEF Install
<1>5. ASSUME NEW c \in Commands, Unmap(c)
      PROVE  Stays \/ runtime'[b].state = "free"
  BY <1>1, <1>5 DEF Unmap, Free
<1>6. ASSUME NEW c \in Commands, SetEnabled(c)
      PROVE  Stays
  <2>1. CASE UNCHANGED runtime
    BY <2>1
  <2>2. ASSUME NEW v \in BOOLEAN, runtime' = [runtime EXCEPT ![Desc(c).base].enabled = v]
        PROVE  Stays
    BY <1>1, <2>2 DEF Runtimes
  <2> QED
    BY <1>6, <2>1, <2>2 DEF SetEnabled
<1>7. CASE TargetExit
  BY <1>7 DEF TargetExit, Free
<1>8. CASE UNCHANGED vars
  BY <1>2, <1>8 DEF vars, targetVars
<1>9. ASSUME NEW c \in Commands, NEW o \in Ops, NEW f \in Funcs, Start(c, o, f)
      PROVE  UNCHANGED runtime
  BY <1>9 DEF Start, targetVars
<1>10. CASE RemoveState
  BY <1>2, <1>10 DEF RemoveState, targetVars
<1>11. ASSUME NEW c \in Commands, Crash(c) \/ Command(c)
       PROVE  Stays \/ runtime'[b].state = "free"
  <2>1. CASE /\ ~ReadAndMap(c) /\ ~Install(c) /\ ~Unmap(c) /\ ~SetEnabled(c)
    <3>1. UNCHANGED runtime
      BY <1>11, <2>1 DEF Command, Stop, PatchEntry, RestoreEntry, Resume, GiveUp, OpenState,
                         WriteState, Crash, targetVars
    <3> QED
      BY <1>2, <3>1
  <2> QED
    BY <1>3, <1>4, <1>5, <1>6, <2>1
<1> QED
  BY <1>2, <1>7, <1>8, <1>9, <1>10, <1>11 DEF Next

\* With commands run one at a time and to their ends, and a state file that can
\* be written, every failure of a call on the target, and the target's exit at
\* any point, leaves file and target in agreement, down to the jmp that a restore
\* has taken away before it failed.
THEOREM FileIsExact == ASSUME Orderly PROVE Spec => []Consistent
<1>1. Init => ExactInv
  BY InitExact
<1>2. ExactInv /\ [Next]_vars => ExactInv'
  BY StepExact
<1>3. ExactInv => Consistent
  BY ExactConsistent
<1> QED
  BY <1>1, <1>2, <1>3, PTL DEF Spec

\* Under the same assumptions a jmp in the target leads to a complete runtime,
\* at every step of every command.
THEOREM JumpsLead == ASSUME Orderly PROVE Spec => []CodeLeadsSomewhere
<1>1. Init => ExactInv
  BY InitExact
<1>2. ExactInv /\ [Next]_vars => ExactInv'
  BY StepExact
<1>3. ExactInv => CodeLeadsSomewhere
  BY ExactLeads
<1> QED
  BY <1>1, <1>2, <1>3, PTL DEF Spec
-----------------------------------------------------------------------------
(* Killed commands and lost or short state files: what holds as long as one    *)
(* probe is recorded at a time.                                                *)

\* Commands are run one at a time, though any may be killed, and the table has
\* room for one probe or there is one name to ask for.
OneProbe == Serial /\ (MaxProbes <= 1 \/ \A f, g \in Funcs : f = g)

\* Two entries of one probe: they differ at most in the flag.
Same(e, g) == e.func = g.func /\ e.base = g.base /\ e.saved = g.saved

InTable(T) == {T[i] : i \in {j \in Slots : T[j] # Empty}}
Known      == InTable(stored) \cup UNION {InTable(table[c]) : c \in Commands}

\* What detaching e puts back leads to a runtime that detaching e leaves there,
\* and no jmp but its own leads to the one it takes away.
Removable(e) ==
    alive => /\ e.saved # Orig => runtime[e.saved].state = "ready"
             /\ e.saved # e.base
             /\ \A a \in Addrs : code[a] = e.base => a = AddrOf[e.func]

\* What a command has made sure of.
StageInv(c) ==
    /\ At(c, "idle") => table[c] = NoProbes
    /\ At(c, "map") \/ (At(c, "stop") /\ op[c] = "attach") => Known = {}
    /\ pc[c] \in {"install", "patch", "restore", "unmap"} => Desc(c).func = func[c]
    /\ At(c, "stop") /\ op[c] # "attach" => Desc(c).func = func[c]
    /\ alive /\ At(c, "patch") => runtime[Desc(c).base].state = "ready"
    /\ alive /\ At(c, "unmap") => \A a \in Addrs : code[a] # Desc(c).base

SoleInv == /\ TypeInv /\ OneBusy
           /\ file # "full" => stored = NoProbes
           /\ \A c \in Commands : StageInv(c)
           /\ \A e, g \in Known : Same(e, g)
           /\ \A e \in Known : Removable(e)
           /\ CodeLeadsSomewhere

LEMMA EmptyTable == InTable(NoProbes) = {}
  BY DEF InTable, NoProbes

LEMMA KnownTypes == ASSUME TypeInv PROVE Known \subseteq Entries
<1>1. \A T \in Tables : InTable(T) \subseteq Entries
  BY UsedIff DEF InTable
<1>2. stored \in Tables /\ \A c \in Commands : table[c] \in Tables
  BY DEF TypeInv, TypeOK
<1> QED
  BY <1>1, <1>2 DEF Known

LEMMA DescKnown ==
    ASSUME TypeInv, NEW c \in Commands, ~At(c, "idle"), Desc(c) \in Entries
    PROVE  Desc(c) \in Known
<1>1. slot[c] \in Slots /\ Desc(c) # Empty
  BY NoProbesType DEF TypeInv, DescOK
<1> QED
  BY <1>1 DEF Known, InTable, Desc

\* What is known after a step that changes the file and one command's table.
LEMMA KnownComes ==
    ASSUME TypeInv, NEW c \in Commands, NEW T, NEW S,
           table' = [table EXCEPT ![c] = T], stored' = S
    PROVE  \A e \in Known' : e \in Known \/ e \in InTable(T) \/ e \in InTable(S)
<1>1. table'[c] = T /\ \A d \in Commands : d # c => table'[d] = table[d]
  BY DEF TypeInv, TypeOK
<1> QED
  BY <1>1 DEF Known

LEMMA TableSet ==
    ASSUME NEW T \in Tables, NEW k \in Slots, NEW e
    PROVE  \A g \in InTable([T EXCEPT ![k] = e]) : g \in InTable(T) \/ (g = e /\ e # Empty)
<1> SUFFICES ASSUME NEW j \in Slots, [T EXCEPT ![k] = e][j] # Empty
             PROVE  \/ [T EXCEPT ![k] = e][j] \in InTable(T)
                    \/ [T EXCEPT ![k] = e][j] = e /\ e # Empty
  BY DEF InTable
<1> QED
  BY DEF Tables, InTable

\* A command's step leaves the others idle, and itself the only one at work.
LEMMA OthersIdle ==
    ASSUME TypeInv, NEW c \in Commands, \A d \in Commands : StageInv(d),
           \A d \in Commands : d # c => At(d, "idle"),
           NEW p, pc' = [pc EXCEPT ![c] = p],
           \/ UNCHANGED table
           \/ \E T : table' = [table EXCEPT ![c] = T]
    PROVE  OneBusy' /\ \A d \in Commands : d # c => StageInv(d)'
<1>1. \A d \in Commands : d # c => pc'[d] = "idle" /\ table'[d] = NoProbes
  BY DEF TypeInv, TypeOK, StageInv, At
<1>2. OneBusy'
  BY <1>1 DEF OneBusy, At
<1>3. \A d \in Commands : d # c => StageInv(d)'
  BY <1>1 DEF StageInv, At
<1> QED
  BY <1>2, <1>3

\* The part of SoleInv about the target.
SoleKnown == /\ \A e, g \in Known : Same(e, g)
             /\ \A e \in Known : Removable(e)
             /\ CodeLeadsSomewhere

\* A step that puts no other probe on record, changes no code and takes no
\* runtime away.
LEMMA KeepsKnown ==
    ASSUME TypeInv, SoleKnown,
           \A e \in Known' : \E g \in Known : Same(e, g),
           UNCHANGED <<alive, code>>,
           \A b \in Bases : runtime[b].state = "ready" => runtime'[b].state = "ready"
    PROVE  SoleKnown'
<1>1. code \in [Addrs -> Code] /\ Known \subseteq Entries
  BY KnownTypes DEF TypeInv, TypeOK
<1>2. CodeLeadsSomewhere'
  BY <1>1 DEF SoleKnown, CodeLeadsSomewhere, Code
<1>3. ASSUME NEW e \in Known', NEW g \in Known' PROVE Same(e, g)
  <2>1. PICK e1 \in Known, g1 \in Known : Same(e, e1) /\ Same(g, g1)
    OBVIOUS
  <2> QED
    BY <2>1 DEF SoleKnown, Same
<1>4. ASSUME NEW e \in Known' PROVE Removable(e)'
  <2>1. PICK g \in Known : Same(e, g)
    OBVIOUS
  <2>2. Removable(g) /\ g \in Entries
    BY <1>1 DEF SoleKnown
  <2> QED
    BY <2>1, <2>2 DEF Removable, Same, Entries, Code
<1> QED
  BY <1>2, <1>3, <1>4 DEF SoleKnown

\* A command that ends, whatever becomes of the file, forgets its table.
LEMMA ExitSole ==
    ASSUME TypeInv, SoleKnown, NEW c \in Commands, Exit(c), UNCHANGED <<alive, code, runtime>>,
           NEW S, stored' = S, \A e \in InTable(S) : \E g \in Known : Same(e, g)
    PROVE  StageInv(c)' /\ SoleKnown'
<1>1. pc'[c] = "idle" /\ table'[c] = NoProbes /\ table' = [table EXCEPT ![c] = NoProbes]
  BY DEF Exit, Goto, Forget, TypeInv, TypeOK
<1>2. \A e \in Known' : \E g \in Known : Same(e, g)
  BY <1>1, KnownComes, EmptyTable DEF Same
<1>3. SoleKnown'
  BY <1>2, KeepsKnown
<1>4. StageInv(c)'
  BY <1>1 DEF StageInv, At
<1> QED
  BY <1>3, <1>4

\* A command that goes on with the same table.
LEMMA SameTables ==
    ASSUME UNCHANGED <<table, stored>>
    PROVE  Known' = Known
  BY DEF Known

LEMMA StartSole ==
    ASSUME OneProbe, SoleInv, NEW c \in Commands, NEW o \in Ops, NEW f \in Funcs, Start(c, o, f)
    PROVE  StageInv(c)' /\ SoleKnown'
<1>1. /\ TypeInv /\ SoleKnown
      /\ \A d \in Commands : At(d, "idle") /\ table[d] = NoProbes
      /\ Loaded = stored /\ stored \in Tables
  BY DEF OneProbe, SoleInv, SoleKnown, StageInv, Start, Loaded, TypeInv, TypeOK
<1>2. /\ op'[c] = o /\ func'[c] = f /\ table' = [table EXCEPT ![c] = stored]
      /\ table'[c] = stored /\ UNCHANGED <<stored, alive, code, runtime>>
  BY <1>1 DEF Start, fileVars, targetVars, TypeInv, TypeOK
<1>3. \A e \in Known' : e \in Known
  <2>1. \A e \in Known' : e \in Known \/ e \in InTable(stored)
    BY <1>1, <1>2, KnownComes
  <2> QED
    BY <2>1 DEF Known
<1>4. SoleKnown'
  <2>1. \A e \in Known' : \E g \in Known : Same(e, g)
    BY <1>3 DEF Same
  <2> QED
    BY <1>1, <1>2, <2>1, KeepsKnown
<1>5. CASE o = "attach"
  <2>1. pc'[c] = "stop"
    BY <1>1, <1>5 DEF Start, Goto, TypeInv, TypeOK
  <2>2. InTable(stored) = {}
    <3> SUFFICES ASSUME NEW j \in Slots, stored[j] # Empty PROVE FALSE
      BY DEF InTable
    <3>1. stored[j].used /\ stored[j] \in Entries
      BY <1>1, UsedIff
    <3>2. stored[j].func # f
      BY <1>1, <1>5, <3>1 DEF Start
    <3>3. \E i \in Slots : ~stored[i].used
      BY <1>1, <1>5 DEF Start, Lowest
    <3>4. CASE MaxProbes <= 1
      <4>1. \A i \in Slots : i = j
        BY <3>4, ManagerAssumption DEF Slots
      <4> QED
        BY <3>1, <3>3, <4>1
    <3>5. CASE \A g, h \in Funcs : g = h
      BY <3>1, <3>2, <3>5 DEF Entries
    <3> QED
      BY <3>4, <3>5 DEF OneProbe
  <2>3. Known = {}
    BY <1>1, <2>2, EmptyTable DEF Known
  <2>4. StageInv(c)'
    BY <1>2, <1>3, <1>5, <2>1, <2>3 DEF StageInv, At
  <2> QED
    BY <1>4, <2>4
<1>6. CASE o # "attach"
  <2>1. PICK i \in Slots : /\ slot' = [slot EXCEPT ![c] = i]
                           /\ stored[i].func = f
                           /\ pc'[c] \in {"stop", "flag"}
    BY <1>1, <1>6 DEF Start, Lowest, Goto, TypeInv, TypeOK
  <2>2. Desc(c)' = stored[i]
    BY <1>1, <1>2, <2>1 DEF Desc, TypeInv, TypeOK
  <2>3. StageInv(c)'
    BY <1>2, <1>6, <2>1, <2>2 DEF StageInv, At
  <2> QED
    BY <1>4, <2>3
<1> QED
  BY <1>5, <1>6

LEMMA StopSole ==
    ASSUME SoleInv, NEW c \in Commands, Stop(c)
    PROVE  StageInv(c)' /\ SoleKnown'
<1>1. TypeInv /\ SoleKnown /\ StageInv(c) /\ At(c, "stop")
  BY DEF SoleInv, SoleKnown, Stop
<1>2. UNCHANGED <<stored, op, func, alive, code, runtime>>
  BY DEF Stop, fileVars
<1>3. CASE Exit(c)
  <2>1. \A e \in InTable(stored) : \E g \in Known : Same(e, g)
    BY DEF Known, Same
  <2> QED
    BY <1>1, <1>2, <1>3, <2>1, ExitSole
<1>4. CASE Goto(c, IF op[c] = "attach" THEN "map" ELSE "restore") /\ UNCHANGED <<table, slot>>
  <2>1. Known' = Known /\ Desc(c)' = Desc(c)
    BY <1>2, <1>4, SameTables DEF Desc
  <2>2. SoleKnown'
    <3>1. \A e \in Known' : \E g \in Known : Same(e, g)
      BY <2>1 DEF Same
    <3> QED
      BY <1>1, <1>2, <3>1, KeepsKnown
  <2>3. pc'[c] = (IF op[c] = "attach" THEN "map" ELSE "restore")
    BY <1>1, <1>4 DEF Goto, TypeInv, TypeOK
  <2>4. StageInv(c)'
    <3>1. CASE op[c] = "attach"
      BY <1>1, <1>2, <2>1, <2>3, <3>1 DEF StageInv, At
    <3>2. CASE op[c] # "attach"
      BY <1>1, <1>2, <2>1, <2>3, <3>2 DEF StageInv, At
    <3> QED
      BY <3>1, <3>2
  <2> QED
    BY <2>2, <2>4
<1> QED
  BY <1>3, <1>4 DEF Stop

LEMMA MapSole ==
    ASSUME SoleInv, NEW c \in Commands, ReadAndMap(c)
    PROVE  StageInv(c)' /\ SoleKnown'
<1>1. TypeInv /\ SoleKnown /\ StageInv(c) /\ At(c, "map") /\ Known = {}
  BY DEF SoleInv, SoleKnown, StageInv, ReadAndMap
<1>2. UNCHANGED <<stored, op, func, slot, alive, code>>
  BY DEF ReadAndMap, fileVars
<1>3. CASE Goto(c, "giveUp") /\ UNCHANGED <<table, runtime>>
  <2>1. Known' = {}
    BY <1>1, <1>2, <1>3, SameTables
  <2>2. SoleKnown'
    BY <1>1, <1>2, <1>3, <2>1, KeepsKnown
  <2>3. pc'[c] = "giveUp"
    BY <1>1, <1>3 DEF Goto, TypeInv, TypeOK
  <2> QED
    BY <2>2, <2>3 DEF StageInv, At
<1>4. ASSUME NEW b \in Bases, Goto(c, "install"), runtime[b].state = "free",
             runtime' = [runtime EXCEPT ![b] = [Free EXCEPT !.state = "mapped"]],
             NEW E, SetDesc(c, E),
             E.func = func[c], E.base = b, E.saved = code[Address(c)]
      PROVE  StageInv(c)' /\ SoleKnown'
  <2>0. /\ table[c] \in Tables /\ slot[c] \in Slots
        /\ code \in [Addrs -> Code] /\ runtime \in [Bases -> Runtimes]
        /\ Address(c) \in Addrs /\ pc'[c] = "install"
    BY <1>1, <1>4, ManagerAssumption DEF TypeInv, TypeOK, DescOK, At, Address, Goto
  <2>2. Desc(c)' = E
    BY <1>1, <1>2, <1>4, <2>0 DEF SetDesc, Desc, Tables, TypeInv, TypeOK
  <2>3. \A e \in Known' : e = E
    <3>1. InTable(table[c]) = {} /\ InTable(stored) = {}
      BY <1>1 DEF Known
    <3>2. table' = [table EXCEPT ![c] = [table[c] EXCEPT ![slot[c]] = E]]
      BY <1>4 DEF SetDesc
    <3> DEFINE T == [table[c] EXCEPT ![slot[c]] = E]
    <3>3. \A e \in InTable(T) : e = E
      BY <2>0, <3>1, TableSet
    <3> HIDE DEF T
    <3>4. \A e \in Known' : e \in Known \/ e \in InTable(T) \/ e \in InTable(stored)
      BY <1>1, <1>2, <3>2, KnownComes DEF T
    <3> QED
      BY <1>1, <3>1, <3>3, <3>4
  <2>4. \A a \in Addrs : code[a] # Orig => /\ code[a] # b /\ code[a] \in Bases
                                           /\ runtime[code[a]].state = "ready"
                                           /\ runtime'[code[a]] = runtime[code[a]]
    <3>1. "free" # "ready"
      OBVIOUS
    <3> QED
      BY <1>1, <1>4, <2>0, <3>1 DEF SoleKnown, CodeLeadsSomewhere, Code
  <2>5. CodeLeadsSomewhere'
    BY <1>2, <2>4 DEF CodeLeadsSomewhere
  <2>6. Removable(E)'
    <3>1. \A a \in Addrs : code[a] # b
      BY <1>4, <2>4, ManagerAssumption
    <3> QED
      BY <1>2, <1>4, <2>0, <2>4, <3>1 DEF Removable
  <2>7. SoleKnown'
    BY <2>3, <2>5, <2>6 DEF SoleKnown, Same
  <2>8. StageInv(c)'
    BY <1>2, <1>4, <2>0, <2>2 DEF StageInv, At
  <2> QED
    BY <2>7, <2>8
<1> QED
  BY <1>3, <1>4 DEF ReadAndMap

\* A failed call: the command gives up with its table as it is.
LEMMA FailsSole ==
    ASSUME TypeInv, SoleKnown, NEW c \in Commands, Goto(c, "giveUp"),
           UNCHANGED <<stored, table, alive, code, runtime>>
    PROVE  StageInv(c)' /\ SoleKnown'
<1>1. pc'[c] = "giveUp"
  BY DEF Goto, TypeInv, TypeOK
<1>2. SoleKnown'
  <2>1. \A e \in Known' : \E g \in Known : Same(e, g)
    BY SameTables DEF Same
  <2> QED
    BY <2>1, KeepsKnown
<1> QED
  BY <1>1, <1>2 DEF StageInv, At

\* What is known of the entry a command is working on.
LEMMA EntryAtStage ==
    ASSUME SoleInv, NEW c \in Commands, pc[c] \in {"install", "patch", "restore", "unmap"}
    PROVE  /\ TypeInv /\ SoleKnown /\ StageInv(c)
           /\ Desc(c) \in Entries /\ Desc(c) \in Known /\ Desc(c).func = func[c]
<1>1. TypeInv /\ SoleKnown /\ StageInv(c) /\ ~At(c, "idle")
  BY DEF SoleInv, SoleKnown, At
<1>2. Desc(c) \in Entries
  BY <1>1 DEF TypeInv, DescOK
<1>3. Desc(c).func = func[c]
  BY <1>1 DEF StageInv
<1>4. Desc(c) \in Known
  BY <1>1, <1>2, DescKnown
<1> QED
  BY <1>1, <1>2, <1>3, <1>4

LEMMA InstallSole ==
    ASSUME SoleInv, NEW c \in Commands, Install(c)
    PROVE  StageInv(c)' /\ SoleKnown'
<1>1. /\ TypeInv /\ SoleKnown /\ StageInv(c) /\ At(c, "install")
      /\ Desc(c) \in Entries /\ Desc(c).func = func[c]
      /\ UNCHANGED <<stored, func, table, slot, alive, code>>
  BY EntryAtStage DEF Install, At, fileVars
<1>2. CASE Goto(c, "giveUp") /\ UNCHANGED runtime
  BY <1>1, <1>2, FailsSole
<1>3. ASSUME NEW r, r.state = "ready", Goto(c, "patch"),
             runtime' = [runtime EXCEPT ![Desc(c).base] = r]
      PROVE  StageInv(c)' /\ SoleKnown'
  <2>1. /\ runtime'[Desc(c).base].state = "ready"
        /\ \A b \in Bases : runtime[b].state = "ready" => runtime'[b].state = "ready"
    BY <1>1, <1>3 DEF TypeInv, TypeOK, Entries
  <2>2. SoleKnown'
    <3>1. \A e \in Known' : \E g \in Known : Same(e, g)
      BY <1>1, SameTables DEF Same
    <3> QED
      BY <1>1, <2>1, <3>1, KeepsKnown
  <2>3. pc'[c] = "patch" /\ Desc(c)' = Desc(c)
    BY <1>1, <1>3 DEF Goto, TypeInv, TypeOK, Desc
  <2>4. StageInv(c)'
    BY <1>1, <2>1, <2>3 DEF StageInv, At
  <2> QED
    BY <2>2, <2>4
<1> QED
  BY <1>2, <1>3 DEF Install

LEMMA PatchSole ==
    ASSUME SoleInv, NEW c \in Commands, PatchEntry(c)
    PROVE  StageInv(c)' /\ SoleKnown'
<1>1. /\ TypeInv /\ SoleKnown /\ StageInv(c) /\ At(c, "patch")
      /\ Desc(c) \in Entries /\ Desc(c) \in Known /\ Desc(c).func = func[c]
      /\ UNCHANGED <<stored, func, table, slot, alive, runtime>>
  BY EntryAtStage DEF PatchEntry, At, fileVars
<1>2. CASE Goto(c, "giveUp") /\ UNCHANGED code
  BY <1>1, <1>2, FailsSole
<1>3. CASE Held(c) /\ Goto(c, "resume") /\ code' = [code EXCEPT ![Address(c)] = Desc(c).base]
  <2>1. /\ alive /\ runtime[Desc(c).base].state = "ready"
        /\ code \in [Addrs -> Code] /\ Address(c) = AddrOf[Desc(c).func]
        /\ Address(c) \in Addrs /\ pc'[c] = "resume" /\ Known' = Known
    BY <1>1, <1>3, SameTables, ManagerAssumption
       DEF Held, StageInv, At, TypeInv, TypeOK, Address, Goto, Entries
  <2>2. \A a \in Addrs : code'[a] = code[a] \/ (a = Address(c) /\ code'[a] = Desc(c).base)
    BY <1>3, <2>1
  <2>3. CodeLeadsSomewhere'
    BY <1>1, <2>1, <2>2 DEF SoleKnown, CodeLeadsSomewhere
  <2>4. ASSUME NEW e \in Known PROVE Removable(e)'
    <3>1. Same(e, Desc(c)) /\ Removable(e)
      BY <1>1 DEF SoleKnown
    <3> QED
      BY <1>1, <2>1, <2>2, <3>1 DEF Removable, Same
  <2>5. SoleKnown'
    BY <1>1, <2>1, <2>3, <2>4 DEF SoleKnown
  <2>6. StageInv(c)'
    BY <2>1 DEF StageInv, At
  <2> QED
    BY <2>5, <2>6
<1> QED
  BY <1>2, <1>3 DEF PatchEntry

LEMMA RestoreSole ==
    ASSUME SoleInv, NEW c \in Commands, RestoreEntry(c)
    PROVE  StageInv(c)' /\ SoleKnown'
<1>1. /\ TypeInv /\ SoleKnown /\ StageInv(c) /\ At(c, "restore")
      /\ Desc(c) \in Entries /\ Desc(c) \in Known /\ Desc(c).func = func[c]
      /\ UNCHANGED <<stored, func, table, slot, alive, runtime>>
  BY EntryAtStage DEF RestoreEntry, At, fileVars
<1>2. CASE Goto(c, "giveUp") /\ UNCHANGED code
  BY <1>1, <1>2, FailsSole
<1>3. ASSUME Held(c), NEW p \in {"unmap", "giveUp"}, Goto(c, p), PutBack(c)
      PROVE  StageInv(c)' /\ SoleKnown'
  <2>1. /\ alive /\ code \in [Addrs -> Code] /\ Address(c) = AddrOf[Desc(c).func]
        /\ Address(c) \in Addrs /\ pc'[c] = p /\ Known' = Known /\ Desc(c)' = Desc(c)
    BY <1>1, <1>3, SameTables, ManagerAssumption
       DEF Held, TypeInv, TypeOK, Address, Goto, Entries, Desc
  <2>2. \A a \in Addrs : \/ a # Address(c) /\ code'[a] = code[a]
                         \/ a = Address(c) /\ code'[a] = Desc(c).saved
    BY <1>3, <2>1 DEF PutBack
  <2>3. Removable(Desc(c))
    BY <1>1 DEF SoleKnown
  <2>4. CodeLeadsSomewhere'
    BY <1>1, <2>1, <2>2, <2>3 DEF SoleKnown, CodeLeadsSomewhere, Removable
  <2>5. ASSUME NEW e \in Known PROVE Removable(e)'
    <3>1. Same(e, Desc(c)) /\ Removable(e)
      BY <1>1 DEF SoleKnown
    <3> QED
      BY <1>1, <2>1, <2>2, <3>1 DEF Removable, Same
  <2>6. SoleKnown'
    BY <1>1, <2>1, <2>4, <2>5 DEF SoleKnown
  <2>7. \A a \in Addrs : code'[a] # Desc(c).base
    BY <2>1, <2>2, <2>3 DEF Removable
  <2>8. StageInv(c)'
    BY <1>1, <2>1, <2>7 DEF StageInv, At
  <2> QED
    BY <2>6, <2>8
<1> QED
  BY <1>2, <1>3 DEF RestoreEntry

LEMMA UnmapSole ==
    ASSUME SoleInv, NEW c \in Commands, Unmap(c)
    PROVE  StageInv(c)' /\ SoleKnown'
<1>1. /\ TypeInv /\ SoleKnown /\ StageInv(c) /\ At(c, "unmap")
      /\ Desc(c) \in Entries /\ Desc(c) \in Known
      /\ UNCHANGED <<stored, table, alive, code>> /\ Goto(c, "resume")
  BY EntryAtStage DEF Unmap, At, fileVars
<1>2. pc'[c] = "resume" /\ Known' = Known
  BY <1>1, SameTables DEF Goto, TypeInv, TypeOK
<1>3. StageInv(c)'
  BY <1>2 DEF StageInv, At
<1>4. CASE UNCHANGED runtime
  <2>1. \A e \in Known' : \E g \in Known : Same(e, g)
    BY <1>2 DEF Same
  <2> QED
    BY <1>1, <1>3, <1>4, <2>1, KeepsKnown
<1>5. CASE Held(c) /\ runtime' = [runtime EXCEPT ![Desc(c).base] = Free]
  <2>1. /\ runtime \in [Bases -> Runtimes] /\ code \in [Addrs -> Code]
        /\ \A a \in Addrs : code[a] # Desc(c).base
    BY <1>1, <1>5 DEF StageInv, At, TypeInv, TypeOK, Held
  <2>2. \A b \in Bases : b # Desc(c).base => runtime'[b] = runtime[b]
    BY <1>5, <2>1
  <2>3. CodeLeadsSomewhere'
    BY <1>1, <2>1, <2>2 DEF SoleKnown, CodeLeadsSomewhere, Code
  <2>4. ASSUME NEW e \in Known PROVE Removable(e)'
    <3>1. Same(e, Desc(c)) /\ Removable(e) /\ e \in Entries
      BY <1>1, KnownTypes DEF SoleKnown
    <3> QED
      BY <1>1, <2>2, <3>1 DEF Removable, Same, Entries, Code
  <2>5. SoleKnown'
    BY <1>1, <1>2, <2>3, <2>4 DEF SoleKnown
  <2> QED
    BY <1>3, <2>5
<1> QED
  BY <1>4, <1>5 DEF Unmap

LEMMA FlagSole ==
    ASSUME SoleInv, NEW c \in Commands, SetEnabled(c)
    PROVE  StageInv(c)' /\ SoleKnown'
<1>1. /\ TypeInv /\ SoleKnown /\ At(c, "flag") /\ slot[c] \in Slots
      /\ Desc(c) \in Entries /\ Desc(c) \in Known /\ table[c] \in Tables
      /\ UNCHANGED <<stored, alive, code>>
  BY DescKnown DEF SoleInv, SoleKnown, SetEnabled, TypeInv, TypeOK, DescOK, At, fileVars
<1>2. CASE Exit(c) /\ UNCHANGED runtime
  <2>1. \A e \in InTable(stored) : \E g \in Known : Same(e, g)
    BY DEF Known, Same
  <2> QED
    BY <1>1, <1>2, <2>1, ExitSole
<1>3. ASSUME NEW v \in BOOLEAN,
             runtime' = [runtime EXCEPT ![Desc(c).base].enabled = v],
             SetDesc(c, [Desc(c) EXCEPT !.enabled = v]), Goto(c, "open")
      PROVE  StageInv(c)' /\ SoleKnown'
  <2> DEFINE E == [Desc(c) EXCEPT !.enabled = v]
             T == [table[c] EXCEPT ![slot[c]] = E]
  <2>1. Same(E, Desc(c))
    BY <1>1 DEF Same, Entries
  <2>2. \A e \in InTable(T) : e \in InTable(table[c]) \/ e = E
    BY <1>1, TableSet
  <2>3. table' = [table EXCEPT ![c] = T]
    BY <1>3 DEF SetDesc
  <2> HIDE DEF T, E
  <2>4. \A e \in Known' : e \in Known \/ e \in InTable(T) \/ e \in InTable(stored)
    BY <1>1, <2>3, KnownComes
  <2>5. \A e \in Known' : \E g \in Known : Same(e, g)
    <3>1. \A e \in Known' : e \in Known \/ e = E
      BY <2>2, <2>4 DEF Known
    <3> QED
      BY <1>1, <2>1, <3>1 DEF Same
  <2>6. \A b \in Bases : runtime'[b].state = runtime[b].state
    BY <1>1, <1>3 DEF TypeInv, TypeOK, Runtimes
  <2>7. SoleKnown'
    BY <1>1, <2>5, <2>6, KeepsKnown
  <2>8. pc'[c] = "open"
    BY <1>1, <1>3 DEF Goto, TypeInv, TypeOK
  <2> QED
    BY <2>7, <2>8 DEF StageInv, At
<1> QED
  BY <1>2, <1>3 DEF SetEnabled

LEMMA EndSole ==
    ASSUME SoleInv, NEW c \in Commands,
           Resume(c) \/ GiveUp(c) \/ OpenState(c) \/ WriteState(c) \/ Crash(c)
    PROVE  StageInv(c)' /\ SoleKnown'
<1>1. /\ TypeInv /\ SoleKnown /\ table[c] \in Tables
      /\ UNCHANGED <<alive, code, runtime>>
  BY DEF SoleInv, SoleKnown, TypeInv, TypeOK, Resume, GiveUp, OpenState, WriteState, Crash,
     targetVars
<1>2. /\ \A e \in InTable(stored) : \E g \in Known : Same(e, g)
      /\ \A e \in InTable(table[c]) : \E g \in Known : Same(e, g)
  BY DEF Known, Same
<1>3. CASE Exit(c)
  <2>1. stored' = stored \/ stored' = table[c] \/ stored' = NoProbes
    BY DEF Resume, GiveUp, OpenState, WriteState, Crash, fileVars
  <2>2. \A S : stored' = S => \A e \in InTable(S) : \E g \in Known : Same(e, g)
    BY <1>2, <2>1, EmptyTable
  <2> QED
    BY <1>1, <1>3, <2>2, ExitSole
<1>4. CASE Resume(c)
  <2>1. pc'[c] = "open" /\ slot[c] \in Slots /\ stored' = stored
    BY <1>1, <1>4 DEF Resume, Goto, TypeInv, TypeOK, DescOK, At, fileVars
  <2>2. \A e \in Known' : e \in Known
    <3>1. CASE UNCHANGED table
      BY <2>1, <3>1, SameTables
    <3>2. CASE SetDesc(c, Empty)
      <4> DEFINE T == [table[c] EXCEPT ![slot[c]] = Empty]
      <4>1. \A e \in InTable(T) : e \in InTable(table[c])
        BY <1>1, <2>1, TableSet
      <4>2. table' = [table EXCEPT ![c] = T]
        BY <3>2 DEF SetDesc
      <4> HIDE DEF T
      <4>3. \A e \in Known' : e \in Known \/ e \in InTable(T) \/ e \in InTable(stored)
        BY <1>1, <2>1, <4>2, KnownComes
      <4> QED
        BY <4>1, <4>3 DEF Known
    <3> QED
      BY <1>4, <3>1, <3>2 DEF Resume
  <2>3. SoleKnown'
    <3>1. \A e \in Known' : \E g \in Known : Same(e, g)
      BY <2>2 DEF Same
    <3> QED
      BY <1>1, <3>1, KeepsKnown
  <2> QED
    BY <2>1, <2>3 DEF StageInv, At
<1>5. CASE OpenState(c) /\ stored' = NoProbes /\ Goto(c, "write") /\ UNCHANGED table
  <2>1. \A e \in Known' : e \in Known
    <3>1. \A e \in Known' : e \in Known \/ e \in InTable(NoProbes)
      BY <1>5 DEF Known
    <3> QED
      BY <3>1, EmptyTable
  <2>2. SoleKnown'
    <3>1. \A e \in Known' : \E g \in Known : Same(e, g)
      BY <2>1 DEF Same
    <3> QED
      BY <1>1, <3>1, KeepsKnown
  <2>3. pc'[c] = "write"
    BY <1>1, <1>5 DEF Goto, TypeInv, TypeOK
  <2> QED
    BY <2>2, <2>3 DEF StageInv, At
<1> QED
  BY <1>3, <1>4, <1>5 DEF GiveUp, OpenState, WriteState, Crash

\* One step of one command.
LEMMA CommandSole ==
    ASSUME OneProbe, SoleInv, NEW c \in Commands,
           \/ \E o \in Ops, f \in Funcs : Start(c, o, f)
           \/ Command(c)
           \/ Crash(c)
    PROVE  (\A d \in Commands : StageInv(d))' /\ SoleKnown' /\ OneBusy'
<1>1. TypeInv /\ \A d \in Commands : StageInv(d)
  BY DEF SoleInv
<1>2. StageInv(c)' /\ SoleKnown'
  BY StartSole, StopSole, MapSole, InstallSole, PatchSole, RestoreSole, UnmapSole, FlagSole,
     EndSole DEF Command
<1>3. \A d \in Commands : d # c => At(d, "idle")
  <2>1. CASE \E o \in Ops, f \in Funcs : Start(c, o, f)
    BY <2>1 DEF Start, OneProbe
  <2>2. CASE Command(c) \/ Crash(c)
    <3>1. ~At(c, "idle")
      BY <2>2 DEF Command, Crash, Stop, ReadAndMap, Install, PatchEntry, RestoreEntry, Unmap,
         SetEnabled, Resume, GiveUp, OpenState, WriteState, At
    <3> QED
      BY <3>1 DEF SoleInv, OneBusy
  <2> QED
    BY <2>1, <2>2
<1>4. /\ \E p : pc' = [pc EXCEPT ![c] = p]
      /\ \/ UNCHANGED table
         \/ \E T : table' = [table EXCEPT ![c] = T]
  BY DEF Start, Command, Crash, Stop, ReadAndMap, Install, PatchEntry, RestoreEntry, Unmap,
     SetEnabled, Resume, GiveUp, OpenState, WriteState, Goto, Exit, Forget, SetDesc
<1>5. OneBusy' /\ \A d \in Commands : d # c => StageInv(d)'
  BY <1>1, <1>3, <1>4, OthersIdle
<1> QED
  BY <1>2, <1>5

LEMMA OutsideSole ==
    ASSUME SoleInv, TargetExit \/ RemoveState
    PROVE  (\A d \in Commands : StageInv(d))' /\ SoleKnown' /\ OneBusy'
<1>1. /\ TypeInv /\ SoleKnown /\ OneBusy /\ \A d \in Commands : StageInv(d)
      /\ UNCHANGED <<pc, op, func, table, slot>>
  BY DEF SoleInv, SoleKnown, TargetExit, RemoveState
<1>2. OneBusy'
  BY <1>1 DEF OneBusy, At
<1>3. CASE TargetExit
  <2>1. Known' = Known /\ alive' = FALSE /\ \A a \in Addrs : code'[a] = Orig
    BY <1>1, <1>3, SameTables DEF TargetExit, fileVars
  <2>2. SoleKnown'
    BY <1>1, <2>1 DEF SoleKnown, Removable, CodeLeadsSomewhere
  <2>3. \A d \in Commands : StageInv(d)'
    BY <1>1, <2>1 DEF StageInv, At, Desc
  <2> QED
    BY <1>2, <2>2, <2>3
<1>4. CASE RemoveState
  <2>1. /\ \A d \in Commands : At(d, "idle") /\ table'[d] = NoProbes /\ pc'[d] = "idle"
        /\ UNCHANGED <<alive, code, runtime>> /\ stored' = NoProbes
    BY <1>1, <1>4 DEF RemoveState, targetVars, StageInv, At
  <2>2. \A d \in Commands : StageInv(d)'
    BY <2>1 DEF StageInv, At
  <2>3. Known' = {}
    BY <2>1, EmptyTable DEF Known
  <2>4. SoleKnown'
    BY <1>1, <2>1, <2>3, KeepsKnown
  <2> QED
    BY <1>2, <2>2, <2>4
<1> QED
  BY <1>3, <1>4

LEMMA StepSole ==
    ASSUME OneProbe, SoleInv, [Next]_vars
    PROVE  SoleInv'
<1>1. TypeInv'
  BY StepTypes DEF SoleInv
<1>2. (file # "full" => stored = NoProbes)'
  <2>1. file # "full" => stored = NoProbes
    BY DEF SoleInv
  <2>2. CASE UNCHANGED <<file, stored>>
    BY <2>1, <2>2
  <2>3. CASE stored' = NoProbes \/ file' = "full"
    BY <2>3
  <2> QED
    BY <2>2, <2>3 DEF Next, Start, Command, Crash, Stop, ReadAndMap, Install, PatchEntry,
       RestoreEntry, Unmap, SetEnabled, Resume, GiveUp, OpenState, WriteState, TargetExit,
       RemoveState, vars, fileVars
<1>3. (\A d \in Commands : StageInv(d))' /\ SoleKnown' /\ OneBusy'
  <2>1. CASE UNCHANGED vars
    <3>1. UNCHANGED <<stored, pc, op, func, table, slot, alive, code, runtime>>
      BY <2>1 DEF vars, targetVars
    <3>2. Known' = Known
      BY <3>1, SameTables
    <3>3. \A d \in Commands : StageInv(d)'
      BY <3>1, <3>2 DEF SoleInv, StageInv, At, Desc
    <3>4. SoleKnown'
      BY <3>1, <3>2 DEF SoleInv, SoleKnown, Removable, CodeLeadsSomewhere
    <3> QED
      BY <3>1, <3>3, <3>4 DEF SoleInv, OneBusy, At
  <2> QED
    BY <2>1, CommandSole, OutsideSole DEF Next
<1> QED
  BY <1>1, <1>2, <1>3 DEF SoleInv, SoleKnown

\* lp_probe_attach and lp_probe_detach: whatever call fails, whenever a command
\* is killed, the target exits or the state file is lost, the jmp of the one
\* probe leads to a complete runtime.
THEOREM OneProbeSurvives ==
    ASSUME OneProbe
    PROVE  Spec => []CodeLeadsSomewhere
<1>1. Init => SoleInv
  <2> SUFFICES ASSUME Init PROVE SoleInv
    OBVIOUS
  <2>1. Known = {}
    BY EmptyTable DEF Init, Known
  <2>2. TypeInv
    BY InitTypes
  <2>3. OneBusy /\ CodeLeadsSomewhere /\ \A c \in Commands : StageInv(c)
    BY DEF Init, OneBusy, CodeLeadsSomewhere, StageInv, At
  <2> QED
    BY <2>1, <2>2, <2>3 DEF Init, SoleInv
<1>2. SoleInv /\ [Next]_vars => SoleInv'
  BY StepSole
<1>3. SoleInv => CodeLeadsSomewhere
  BY DEF SoleInv
<1> QED
  BY <1>1, <1>2, <1>3, PTL DEF Spec
=============================================================================
