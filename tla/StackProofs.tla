----------------------------- MODULE StackProofs -----------------------------
(***************************************************************************)
(* What the shadow stack guarantees for every number of threads, slots,    *)
(* frames and ring records, as long as no stub is overtaken by a lap of    *)
(* the ring: whatever signal handlers and longjmp do, no return finds the  *)
(* stack empty (CoverInv); and with neither, every return finds its own    *)
(* frame (StackInv), so that the stubs implement CallReturn.               *)
(***************************************************************************)
EXTENDS ProbeRuntimeProofs, FiniteSetTheorems

USE SizeAssumption, ZeroAssumption, ModeAssumption
-----------------------------------------------------------------------------
(* The activation on top moves, and no other. *)

LEMMA TopMoves ==
  ASSUME TypeInv, NEW t \in Threads, top[t] > 0, NEW f, SetCur(t, f), top' = top
  PROVE  /\ top[t] \in 1..MaxNest /\ top[t] \in 1..top[t]
         /\ Cur(t) = frame[t][top[t]]
         /\ frame'[t][top[t]] = f
         /\ \A u \in Threads : top'[u] = top[u] /\ top[u] \in 0..MaxNest
         /\ \A u \in Threads : \A k \in 1..top[u] :
               <<u, k>> # <<t, top[t]>> => frame'[u][k] = frame[u][k]
  <1>1. \A u \in Threads : top[u] \in 0..MaxNest
    BY DEF TypeInv, TypeOK
  <1>2. \A u \in Threads : \A k \in 1..top[u] : k \in 1..MaxNest
    BY <1>1
  <1>3. /\ frame'[t][top[t]] = f
        /\ \A u \in Threads, k \in 1..MaxNest :
              <<u, k>> # <<t, top[t]>> => frame'[u][k] = frame[u][k]
    BY SetCurEffect
  <1>4. QED
    BY <1>1, <1>2, <1>3 DEF Cur

LEMMA PendingFinite ==
  ASSUME TypeInv, NEW t \in Threads, NEW k \in Int
  PROVE  /\ IsFiniteSet(Pending(t)) /\ Cardinality(Pending(t)) \in Nat
         /\ IsFiniteSet(Below(t, k)) /\ Cardinality(Below(t, k)) \in Nat
         /\ Cardinality(Below(t, k)) <= Cardinality(Pending(t))
  <1>1. top[t] \in Int
    BY DEF TypeInv, TypeOK
  <1>2. IsFiniteSet(1..top[t])
    BY <1>1, FS_Interval
  <1>3. /\ Pending(t) \in SUBSET (1..top[t])
        /\ Below(t, k) \in SUBSET Pending(t)
    BY DEF Pending, Below
  <1>4. IsFiniteSet(Pending(t))
    BY <1>2, <1>3, FS_Subset
  <1>5. QED
    BY <1>3, <1>4, FS_Subset, FS_CardinalityType

\* A step that neither makes nor ends a pending return.
LEMMA PendingKept ==
  ASSUME TypeInv, NEW t \in Threads, top[t] > 0, NEW f, SetCur(t, f), top' = top,
         Counted(f) <=> Counted(Cur(t))
  PROVE  /\ \A u \in Threads : Pending(u)' = Pending(u)
         /\ \A u \in Threads : \A k : Below(u, k)' = Below(u, k)
  <1>1. ASSUME NEW u \in Threads PROVE Pending(u)' = Pending(u)
    <2>1. \A k \in 1..top[u] : Counted(frame'[u][k]) <=> Counted(frame[u][k])
      BY TopMoves
    <2>2. top'[u] = top[u]
      BY TopMoves
    <2>3. QED
      BY <2>1, <2>2 DEF Pending
  <1>2. QED
    BY <1>1 DEF Below

\* The store of the incremented depth, and that of the decremented one.
LEMMA PendingTop ==
  ASSUME TypeInv, NEW t \in Threads, top[t] > 0, NEW f, SetCur(t, f), top' = top,
         Counted(f) <=> ~Counted(Cur(t))
  PROVE  /\ \A u \in Threads : u # t => Pending(u)' = Pending(u)
         /\ Pending(t)' = IF Counted(f) THEN Pending(t) \cup {top[t]}
                                        ELSE Below(t, top[t])
         /\ top[t] \in Pending(t) <=> ~Counted(f)
         /\ \A u \in Threads : \A k \in 1..top[u] : Below(u, k)' = Below(u, k)
         /\ Pending(t) = IF Counted(f) THEN Below(t, top[t])
                                       ELSE Below(t, top[t]) \cup {top[t]}
  <1>1. /\ \A u \in Threads : \A k \in 1..top[u] :
              <<u, k>> # <<t, top[t]>>
                 => (Counted(frame'[u][k]) <=> Counted(frame[u][k]))
        /\ Counted(frame'[t][top[t]]) <=> Counted(f)
        /\ Counted(frame[t][top[t]]) <=> ~Counted(f)
        /\ \A u \in Threads : top'[u] = top[u] /\ top[u] \in 0..MaxNest
        /\ top[t] \in 1..top[t]
    BY TopMoves
  <1>2. \A u \in Threads : u # t => Pending(u)' = Pending(u)
    BY <1>1 DEF Pending
  <1>3. \A k \in 1..top[t] : k < top[t] => (k \in Pending(t)' <=> k \in Pending(t))
    BY <1>1 DEF Pending
  <1>4. /\ top[t] \in Pending(t)' <=> Counted(f)
        /\ top[t] \in Pending(t) <=> ~Counted(f)
        /\ Pending(t) \subseteq 1..top[t]
        /\ Pending(t)' \subseteq 1..top[t]
    BY <1>1 DEF Pending
  <1>5. \A k \in 1..top[t] : k < top[t] \/ k = top[t]
    BY <1>1
  <1>6. Pending(t)' = IF Counted(f) THEN Pending(t) \cup {top[t]} ELSE Below(t, top[t])
    BY <1>1, <1>3, <1>4, <1>5 DEF Below
  <1>7. Pending(t) = IF Counted(f) THEN Below(t, top[t]) ELSE Below(t, top[t]) \cup {top[t]}
    BY <1>1, <1>3, <1>4, <1>5 DEF Below
  <1>8. ASSUME NEW u \in Threads, NEW k \in 1..top[u] PROVE Below(u, k)' = Below(u, k)
    <2>1. CASE u # t
      BY <1>2, <2>1 DEF Below
    <2>2. CASE u = t
      <3>1. \A l \in 1..top[t] : l < k => l < top[t]
        BY <1>1, <2>2
      <3>2. QED
        BY <1>3, <1>4, <2>2, <3>1 DEF Below
    <2>3. QED
      BY <2>1, <2>2
  <1>9. QED
    BY <1>2, <1>4, <1>6, <1>7, <1>8
-----------------------------------------------------------------------------
(* Every depth covers what is pending: no lap of the ring. *)

LEMMA CoverInit == Init => CoverInv
  <1> SUFFICES ASSUME Init PROVE CoverInv
    OBVIOUS
  <1>1. SearchInv
    BY SearchInit
  <1>2. Hooks /\ NoTrap
    BY DEF Init, Hooks, NoTrap
  <1>3. Covers
    BY DEF Init, Covers
  <1>4. QED
    BY <1>1, <1>2, <1>3 DEF CoverInv

\* Slots are only taken, and by threads with nothing pending.
Taking == \A i \in SlotIds :
             slotTid'[i] = slotTid[i] \/ (slotTid[i] = Zero /\ Pending(slotTid'[i]) = {})

\* A step within a stub that stores no depth.
LEMMA CoverMove ==
  ASSUME CoverInv, SearchInv', NEW t \in Threads, top[t] > 0, NEW f, SetCur(t, f),
         UNCHANGED <<top, slotDepth>>, Taking,
         HookOK(t, frame[t][top[t]])', f.pc # "trap",
         Counted(f) <=> Counted(Cur(t)),
         f.pc \in {"saveRet", "saveTs", "push", "decr"}
            => Cardinality(Below(t, top[t])) <= f.dep
  PROVE  CoverInv'
  <1>1. TypeInv /\ TypeInv'
    BY DEF CoverInv, SearchInv
  <1>2. /\ top[t] \in 1..MaxNest /\ top[t] \in 1..top[t]
        /\ frame'[t][top[t]] = f
        /\ \A u \in Threads : \A k \in 1..top[u] :
              <<u, k>> # <<t, top[t]>> => frame'[u][k] = frame[u][k]
    BY <1>1, TopMoves
  <1>3. /\ \A u \in Threads : Pending(u)' = Pending(u)
        /\ \A u \in Threads : \A k : Below(u, k)' = Below(u, k)
    BY <1>1, PendingKept
  <1>4. Hooks'
    <2> SUFFICES ASSUME NEW u \in Threads, NEW k \in 1..top[u],
                        <<u, k>> # <<t, top[t]>>
                 PROVE  HookOK(u, frame[u][k])'
      BY <1>2 DEF Hooks
    <2>1. frame'[u][k] = frame[u][k] /\ HookOK(u, frame[u][k])
      BY <1>2 DEF CoverInv, Hooks
    <2>2. \A i \in SlotIds : slotTid[i] = u => slotTid'[i] = u
      BY DEF Taking
    <2>3. QED
      BY <2>1, <2>2 DEF HookOK
  <1>5. Covers'
    <2>1. ASSUME NEW u \in Threads, NEW i \in SlotIds, slotTid'[i] = u
          PROVE  Cardinality(Pending(u)') <= slotDepth'[i]
      <3>1. CASE slotTid'[i] = slotTid[i]
        BY <1>3, <2>1, <3>1 DEF CoverInv, Covers
      <3>2. CASE Pending(slotTid'[i]) = {}
        <4>1. slotDepth[i] \in Nat
          BY <1>1 DEF TypeInv, TypeOK
        <4>2. QED
          BY <1>3, <2>1, <3>2, <4>1, FS_EmptySet
      <3>3. QED
        BY <3>1, <3>2 DEF Taking
    <2>2. ASSUME NEW u \in Threads, NEW k \in 1..top'[u],
                 frame'[u][k].pc \in {"saveRet", "saveTs", "push", "decr"}
          PROVE  Cardinality(Below(u, k)') <= frame'[u][k].dep
      <3>1. CASE <<u, k>> = <<t, top[t]>>
        BY <1>2, <1>3, <2>2, <3>1
      <3>2. CASE <<u, k>> # <<t, top[t]>>
        BY <1>2, <1>3, <2>2, <3>2 DEF CoverInv, Covers
      <3>3. QED
        BY <3>1, <3>2
    <2>3. QED
      BY <2>1, <2>2 DEF Covers
  <1>6. NoTrap'
    BY <1>2 DEF CoverInv, NoTrap
  <1>7. QED
    BY <1>4, <1>5, <1>6 DEF CoverInv

\* The stores of the depth: one more pending, or one less.
LEMMA CoverStore ==
  ASSUME CoverInv, SearchInv', NEW t \in Threads, top[t] > 0, NEW f, SetCur(t, f),
         UNCHANGED <<top, slotTid>>,
         f.hooked = Cur(t).hooked, f.idx = Cur(t).idx, f.dep = Cur(t).dep,
         f.idx \in SlotIds,
         \/ /\ Cur(t).pc = "push" /\ f.pc = "swap"
            /\ slotDepth' = [slotDepth EXCEPT ![f.idx] = f.dep + 1]
         \/ /\ Cur(t).pc = "decr" /\ f.pc = "load"
            /\ slotDepth' = [slotDepth EXCEPT ![f.idx] = f.dep]
  PROVE  CoverInv'
  <1> DEFINE c == Cur(t)
  <1>1. TypeInv /\ TypeInv'
    BY DEF CoverInv, SearchInv
  <1>2. /\ top[t] \in 1..MaxNest /\ top[t] \in 1..top[t]
        /\ c = frame[t][top[t]]
        /\ frame'[t][top[t]] = f
        /\ \A u \in Threads : \A k \in 1..top[u] :
              <<u, k>> # <<t, top[t]>> => frame'[u][k] = frame[u][k]
    BY <1>1, TopMoves
  <1>3. HookOK(t, c) /\ HookOK(t, f)
    BY <1>2 DEF CoverInv, Hooks, HookOK, EntryPcs, RetPcs, Pushing
  <1>4. slotTid[f.idx] = t /\ f.dep \in Nat
    BY <1>3 DEF HookOK, Pushing, RetPcs, FrameIds
  <1>5. Counted(f) <=> ~Counted(c)
    BY <1>3 DEF Counted, HookOK, EntryPcs, RetPcs
  <1>6. /\ \A u \in Threads : u # t => Pending(u)' = Pending(u)
        /\ Pending(t)' = IF Counted(f) THEN Below(t, top[t]) \cup {top[t]}
                                       ELSE Below(t, top[t])
        /\ \A u \in Threads : \A k \in 1..top[u] : Below(u, k)' = Below(u, k)
    BY <1>1, <1>5, PendingTop
  <1>7. Hooks'
    <2> SUFFICES ASSUME NEW u \in Threads, NEW k \in 1..top[u]
                 PROVE  HookOK(u, frame[u][k])'
      BY DEF Hooks
    <2>1. HookOK(u, frame'[u][k])
      BY <1>2, <1>3 DEF CoverInv, Hooks
    <2>2. QED
      BY <2>1 DEF HookOK
  <1>8. Cardinality(Below(t, top[t])) <= f.dep
    BY <1>2 DEF CoverInv, Covers
  <1>9. Cardinality(Pending(t)') <= slotDepth'[f.idx]
    <2>1. slotDepth \in [SlotIds -> 0..Depth]
      BY <1>1 DEF TypeInv, TypeOK
    <2>2. /\ IsFiniteSet(Below(t, top[t])) /\ Cardinality(Below(t, top[t])) \in Nat
          /\ top[t] \notin Below(t, top[t])
      BY <1>1, <1>2, PendingFinite DEF Below
    <2>3. Cardinality(Below(t, top[t]) \cup {top[t]}) = Cardinality(Below(t, top[t])) + 1
      BY <2>2, FS_AddElement
    <2>4. CASE f.pc = "swap"
      <3>1. Counted(f) /\ slotDepth'[f.idx] = f.dep + 1
        BY <2>1, <2>4 DEF Counted
      <3>2. QED
        BY <1>4, <1>6, <1>8, <2>2, <2>3, <3>1
    <2>5. CASE f.pc = "load"
      <3>1. ~Counted(f) /\ slotDepth'[f.idx] = f.dep
        BY <2>1, <2>5 DEF Counted
      <3>2. QED
        BY <1>6, <1>8, <3>1
    <2>6. QED
      BY <2>4, <2>5
  <1>10. Covers'
    <2>1. ASSUME NEW u \in Threads, NEW i \in SlotIds, slotTid'[i] = u
          PROVE  Cardinality(Pending(u)') <= slotDepth'[i]
      <3>1. CASE i = f.idx
        BY <1>4, <1>9, <2>1, <3>1
      <3>2. CASE i # f.idx
        <4>1. u # t
          BY <1>4, <2>1, <3>2 DEF CoverInv, SearchInv, SlotsUnique
        <4>2. slotDepth'[i] = slotDepth[i]
          BY <1>1, <3>2 DEF TypeInv, TypeOK
        <4>3. QED
          BY <1>6, <2>1, <4>1, <4>2 DEF CoverInv, Covers
      <3>3. QED
        BY <3>1, <3>2
    <2>2. ASSUME NEW u \in Threads, NEW k \in 1..top'[u],
                 frame'[u][k].pc \in {"saveRet", "saveTs", "push", "decr"}
          PROVE  Cardinality(Below(u, k)') <= frame'[u][k].dep
      <3>1. <<u, k>> # <<t, top[t]>>
        BY <1>2, <2>2
      <3>2. QED
        BY <1>2, <1>6, <2>2, <3>1 DEF CoverInv, Covers
    <2>3. QED
      BY <2>1, <2>2 DEF Covers
  <1>11. NoTrap'
    BY <1>2 DEF CoverInv, NoTrap
  <1>12. QED
    BY <1>7, <1>10, <1>11 DEF CoverInv

\* A new activation, or handler, has nothing pending yet.
LEMMA CoverPush ==
  ASSUME CoverInv, SearchInv', NEW t \in Threads, NEW f \in Frames, Push(t, f),
         f.pc \in {"check", "body"}, ~f.hooked, UNCHANGED <<slotTid, slotDepth>>
  PROVE  CoverInv'
  <1>1. /\ top[t] + 1 \in 1..MaxNest
        /\ top' = [top EXCEPT ![t] = top[t] + 1]
        /\ frame'[t][top[t] + 1] = f
        /\ \A u \in Threads, k \in 1..MaxNest :
              <<u, k>> # <<t, top[t] + 1>> => frame'[u][k] = frame[u][k]
    BY PushEffect DEF CoverInv, SearchInv
  <1>2. top \in [Threads -> 0..MaxNest]
    BY DEF CoverInv, SearchInv, TypeInv, TypeOK
  <1>3. ASSUME NEW u \in Threads, NEW k \in 1..top'[u]
        PROVE  \/ <<u, k>> = <<t, top[t] + 1>>
               \/ k \in 1..top[u] /\ frame'[u][k] = frame[u][k]
    BY <1>1, <1>2
  <1>4. ASSUME NEW u \in Threads, NEW k \in 1..top[u]
        PROVE  k \in 1..top'[u] /\ frame'[u][k] = frame[u][k]
    BY <1>1, <1>2
  <1>5. ~Counted(f)
    BY DEF Counted
  <1>6. ASSUME NEW u \in Threads PROVE Pending(u)' = Pending(u)
    <2>1. \A k : k \in Pending(u)' => k \in Pending(u)
      BY <1>1, <1>3, <1>5 DEF Pending
    <2>2. \A k : k \in Pending(u) => k \in Pending(u)'
      BY <1>4 DEF Pending
    <2>3. QED
      BY <2>1, <2>2
  <1>7. \A u \in Threads : \A k : Below(u, k)' = Below(u, k)
    BY <1>6 DEF Below
  <1>8. Hooks'
    BY <1>1, <1>3 DEF CoverInv, Hooks, HookOK, RetPcs, EntryPcs, Pushing
  <1>9. Covers'
    BY <1>1, <1>3, <1>6, <1>7 DEF CoverInv, Covers
  <1>10. NoTrap'
    BY <1>1, <1>3 DEF CoverInv, NoTrap
  <1>11. QED
    BY <1>8, <1>9, <1>10 DEF CoverInv

\* Activations that leave a stack leave their frames behind.
LEMMA CoverDrop ==
  ASSUME CoverInv, SearchInv', UNCHANGED <<slotTid, slotDepth>>,
         \A u \in Threads : /\ top'[u] \in 0..top[u]
                            /\ \A k \in 1..top'[u] : frame'[u][k] = frame[u][k]
  PROVE  CoverInv'
  <1>1. ASSUME NEW u \in Threads, NEW k \in 1..top'[u]
        PROVE  k \in 1..top[u] /\ frame'[u][k] = frame[u][k]
    BY DEF CoverInv, SearchInv, TypeInv, TypeOK
  <1>2. ASSUME NEW u \in Threads
        PROVE  /\ Cardinality(Pending(u)') <= Cardinality(Pending(u))
               /\ Cardinality(Pending(u)') \in Nat
    <2>1. Pending(u)' \in SUBSET Pending(u)
      BY <1>1 DEF Pending
    <2>2. IsFiniteSet(Pending(u))
      BY PendingFinite DEF CoverInv, SearchInv
    <2>3. QED
      BY <2>1, <2>2, FS_Subset, FS_CardinalityType
  <1>3. ASSUME NEW u \in Threads, NEW k \in 1..top'[u]
        PROVE  Below(u, k)' = Below(u, k)
    <2>1. top'[u] \in Int /\ top[u] \in Int
      BY DEF CoverInv, SearchInv, TypeInv, TypeOK
    <2>2. \A l \in 1..top[u] : l < k => l \in 1..top'[u] /\ frame'[u][l] = frame[u][l]
      BY <2>1, <1>1
    <2>3. \A l \in 1..top'[u] : l \in 1..top[u] /\ frame'[u][l] = frame[u][l]
      BY <1>1
    <2>4. \A l : l \in Below(u, k)' <=> l \in Below(u, k)
      BY <2>2, <2>3 DEF Below, Pending
    <2>5. QED
      BY <2>4 DEF Below
  <1>4. Hooks'
    BY <1>1 DEF CoverInv, Hooks, HookOK
  <1>5. Covers'
    <2>1. ASSUME NEW u \in Threads, NEW i \in SlotIds, slotTid'[i] = u
          PROVE  Cardinality(Pending(u)') <= slotDepth'[i]
      <3>1. /\ Cardinality(Pending(u)) <= slotDepth[i]
            /\ Cardinality(Pending(u)) \in Nat
            /\ slotDepth[i] \in Nat
        BY <2>1, PendingFinite DEF CoverInv, Covers, SearchInv, TypeInv, TypeOK
      <3>2. QED
        BY <1>2, <3>1
    <2>2. QED
      BY <1>1, <1>3, <2>1 DEF CoverInv, Covers
  <1>6. NoTrap'
    BY <1>1 DEF CoverInv, NoTrap
  <1>7. QED
    BY <1>4, <1>5, <1>6 DEF CoverInv

LEMMA CoverPop ==
  ASSUME CoverInv, SearchInv', UNCHANGED <<slotTid, slotDepth>>,
         NEW t \in Threads, top[t] > 0, Pop(t)
  PROVE  CoverInv'
  <1>1. top[t] \in 1..MaxNest /\ top \in [Threads -> 0..MaxNest]
    BY DEF CoverInv, SearchInv, TypeInv, TypeOK
  <1>2. \A u \in Threads : /\ top'[u] \in 0..top[u]
                            /\ top[u] \in 0..MaxNest
                            /\ top'[u] = IF u = t THEN top[u] - 1 ELSE top[u]
    BY <1>1 DEF Pop
  <1>3. \A u \in Threads, k \in 1..MaxNest :
           <<u, k>> # <<t, top[t]>> => frame'[u][k] = frame[u][k]
    BY SetCurEffect DEF Pop, CoverInv, SearchInv
  <1>4. \A u \in Threads : \A k \in 1..top'[u] : frame'[u][k] = frame[u][k]
    BY <1>1, <1>2, <1>3
  <1>5. QED
    BY <1>2, <1>4, CoverDrop

\* The form in which most steps use CoverMove: no slot changes hands.
LEMMA CoverQuiet ==
  ASSUME CoverInv, SearchInv', NEW t \in Threads, top[t] > 0, NEW f, SetCur(t, f),
         UNCHANGED <<top, slotTid, slotDepth>>,
         HookOK(t, f), f.pc # "trap",
         Counted(f) <=> Counted(Cur(t)),
         f.pc \in {"saveRet", "saveTs", "push", "decr"}
            => Cardinality(Below(t, top[t])) <= f.dep
  PROVE  CoverInv'
  <1>1. frame'[t][top'[t]] = f
    BY TopMoves DEF CoverInv, SearchInv
  <1>2. HookOK(t, frame[t][top[t]])'
    BY <1>1 DEF HookOK
  <1>3. QED
    BY <1>2, CoverMove DEF Taking

\* A stub's step but for the two stores of the depth.
LEMMA CoverEntry ==
  ASSUME CoverInv, SearchInv', NEW t \in Threads,
         \/ CheckEnabled(t) \/ ClaimEvent(t) \/ EntryTid(t) \/ EntryTime(t) \/ Scan(t)
         \/ ReadDepth(t) \/ SaveRet(t) \/ SaveTs(t) \/ SwapReturn(t)
  PROVE  CoverInv'
  <1> DEFINE c == Cur(t)
             Low(d) == Cardinality(Below(t, top[t])) <= d
  <1>1. top[t] > 0 /\ TypeInv
    BY DEF CheckEnabled, ClaimEvent, EntryTid, EntryTime, Scan, ReadDepth, SaveRet,
           SaveTs, SwapReturn, At, CoverInv, SearchInv
  <1>2. /\ top[t] \in 1..top[t] /\ c = frame[t][top[t]] /\ c \in Frames
        /\ Indexed(c)
        /\ HookOK(t, c)
        /\ c.pc \in {"saveRet", "saveTs", "push", "decr"} => Low(c.dep)
    <2>1. /\ top[t] \in 1..MaxNest /\ top[t] \in 1..top[t]
          /\ c = frame[t][top[t]] /\ c \in Frames
      BY <1>1, CurFrame
    <2>2. QED
      BY <2>1 DEF CoverInv, Hooks, Covers, SearchInv, TypeInv, RegsOK
  <1>3. UNCHANGED <<top, slotDepth, slotTid>>
    BY DEF CheckEnabled, ClaimEvent, EntryTid, EntryTime, Scan, ReadDepth, SaveRet,
           SaveTs, SwapReturn, runtimeVars
  <1>4. ASSUME c.pc \in EntryPcs \ {"swap"}, SetCur(t, ToTrampoline(c)) PROVE CoverInv'
    <2>1. /\ ToTrampoline(c).pc = "body" /\ ~ToTrampoline(c).hooked
      BY <1>2, <1>4, TrampolineFrame DEF HookOK
    <2>2. HookOK(t, ToTrampoline(c)) /\ ~Counted(ToTrampoline(c)) /\ ~Counted(c)
      BY <1>2, <1>4, <2>1 DEF HookOK, Counted, RetPcs, EntryPcs, Pushing
    <2>3. QED
      BY <1>1, <1>3, <1>4, <2>1, <2>2, CoverQuiet
  \* Up to the load of the depth nothing of the shadow stack is held.
  <1>5. ASSUME c.pc \in EntryPcs \ {"swap"}, NEW p \in {"claim", "tid", "time", "scan", "cas"},
               NEW f, SetCur(t, f), f.pc = p, f.hooked = c.hooked
        PROVE  CoverInv'
    <2>1. HookOK(t, f) /\ ~Counted(f) /\ ~Counted(c)
      BY <1>2, <1>5 DEF HookOK, Counted, RetPcs, EntryPcs, Pushing
    <2>2. QED
      BY <1>1, <1>3, <1>5, <2>1, CoverQuiet
  <1>6. CASE CheckEnabled(t)
    <2>1. [c EXCEPT !.pc = "claim"].pc = "claim" /\ [c EXCEPT !.pc = "claim"].hooked = c.hooked
      BY <1>2 DEF Frames
    <2>2. c.pc \in EntryPcs \ {"swap"}
      BY <1>6 DEF CheckEnabled, At, EntryPcs
    <2>3. SetCur(t, ToTrampoline(c)) \/ SetCur(t, [c EXCEPT !.pc = "claim"])
      BY <1>6 DEF CheckEnabled, Goto
    <2>4. QED
      BY <1>4, <1>5, <2>1, <2>2, <2>3
  <1>7. CASE ClaimEvent(t)
    <2> DEFINE f == [c EXCEPT !.pc = "tid", !.ev = next]
    <2>1. f.pc = "tid" /\ f.hooked = c.hooked
      BY <1>2 DEF Frames
    <2>2. c.pc \in EntryPcs \ {"swap"} /\ SetCur(t, f)
      BY <1>7 DEF ClaimEvent, At, EntryPcs
    <2> HIDE DEF f
    <2>3. QED
      BY <1>5, <2>1, <2>2
  <1>8. CASE EntryTid(t)
    <2> DEFINE f == [c EXCEPT !.pc = "time"]
    <2>1. f.pc = "time" /\ f.hooked = c.hooked
      BY <1>2 DEF Frames
    <2>2. c.pc \in EntryPcs \ {"swap"} /\ SetCur(t, f)
      BY <1>8 DEF EntryTid, At, EntryPcs, Goto
    <2> HIDE DEF f
    <2>3. QED
      BY <1>5, <2>1, <2>2
  <1>9. CASE EntryTime(t)
    <2> DEFINE f == [c EXCEPT !.pc = "scan", !.idx = 0]
    <2>1. f.pc = "scan" /\ f.hooked = c.hooked
      BY <1>2 DEF Frames
    <2>2. c.pc \in EntryPcs \ {"swap"} /\ (SetCur(t, f) \/ SetCur(t, ToTrampoline(c)))
      BY <1>9 DEF EntryTime, At, EntryPcs
    <2> HIDE DEF f
    <2>3. QED
      BY <1>4, <1>5, <2>1, <2>2
  <1>10. CASE Scan(t)
    <2> DEFINE g(p) == [c EXCEPT !.pc = p]
               h == [c EXCEPT !.pc = "scan", !.idx = c.idx + 1]
    <2>1. /\ \A p : g(p).pc = p /\ g(p).hooked = c.hooked /\ g(p).idx = c.idx
          /\ h.pc = "scan" /\ h.hooked = c.hooked
      BY <1>2 DEF Frames
    <2>2. c.pc = "scan" /\ c.pc \in EntryPcs \ {"swap"}
      BY <1>10 DEF Scan, At, EntryPcs
    <2>3. ring[c.ev].tid = t
      BY <1>2, <2>2 DEF CoverInv, SearchInv, RecordTid, Reading
    <2>4. \/ SetCur(t, ToTrampoline(c)) \/ SetCur(t, g("cas")) \/ SetCur(t, h)
          \/ SetCur(t, g("depth")) /\ c.idx # Slots /\ slotTid[c.idx] = t
      <3>1. c.idx \in 0..Slots
        BY <1>2 DEF Frames
      <3>2. QED
        BY <1>10, <2>3, <3>1 DEF Scan, Goto, NextSlot
    <2> HIDE DEF g, h
    <2>5. CASE SetCur(t, g("depth")) /\ c.idx # Slots /\ slotTid[c.idx] = t
      <3>1. HookOK(t, g("depth")) /\ ~Counted(g("depth")) /\ ~Counted(c)
        BY <1>2, <2>1, <2>2, <2>5 DEF HookOK, Counted, RetPcs, EntryPcs, Pushing,
                                      Frames, SlotIds
      <3>2. QED
        BY <1>1, <1>3, <2>1, <2>5, <3>1, CoverQuiet
    <2>6. QED
      BY <1>4, <1>5, <2>1, <2>2, <2>4, <2>5
  <1>11. CASE ReadDepth(t)
    <2> DEFINE d == slotDepth[c.idx]
               f == [c EXCEPT !.pc = "saveRet", !.dep = d]
    <2>1. f.pc = "saveRet" /\ f.hooked = c.hooked /\ f.idx = c.idx /\ f.dep = d
      BY <1>2 DEF Frames
    <2>2. c.pc = "depth" /\ (SetCur(t, ToTrampoline(c)) \/ (d < Depth /\ SetCur(t, f)))
      BY <1>11 DEF ReadDepth, At
    <2>3. /\ c.idx \in SlotIds /\ slotTid[c.idx] = t
          /\ d \in 0..Depth
      BY <1>1, <1>2, <2>2 DEF HookOK, TypeInv, TypeOK
    <2>4. Low(d)
      <3>1. Cardinality(Pending(t)) <= d
        BY <2>3 DEF CoverInv, Covers
      <3>2. QED
        BY <1>1, <1>2, <2>3, <3>1, PendingFinite
    <2> HIDE DEF f
    <2>5. CASE SetCur(t, ToTrampoline(c))
      BY <1>4, <2>2, <2>5 DEF EntryPcs
    <2>6. CASE d < Depth /\ SetCur(t, f)
      <3>1. HookOK(t, f) /\ ~Counted(f) /\ ~Counted(c)
        BY <1>2, <2>1, <2>2, <2>3, <2>6 DEF HookOK, Counted, RetPcs, EntryPcs, Pushing, FrameIds
      <3>2. QED
        BY <1>1, <1>3, <2>1, <2>4, <2>6, <3>1, CoverQuiet
    <2>7. QED
      BY <2>2, <2>5, <2>6
  <1>12. CASE SaveRet(t) \/ SaveTs(t)
    <2>1. PICK p \in {"saveTs", "push"} : SetCur(t, [c EXCEPT !.pc = p])
      BY <1>12 DEF SaveRet, SaveTs, Goto
    <2> DEFINE f == [c EXCEPT !.pc = p]
    <2>2. f.pc = p /\ f.hooked = c.hooked /\ f.idx = c.idx /\ f.dep = c.dep
      BY <1>2 DEF Frames
    <2>3. c.pc \in {"saveRet", "saveTs"} /\ SetCur(t, f)
      BY <1>12, <2>1 DEF SaveRet, SaveTs, At
    <2> HIDE DEF f
    <2>4. HookOK(t, f) /\ ~Counted(f) /\ ~Counted(c)
      BY <1>2, <2>2, <2>3 DEF HookOK, Counted, RetPcs, EntryPcs, Pushing
    <2>5. QED
      BY <1>1, <1>2, <1>3, <2>2, <2>3, <2>4, CoverQuiet
  <1>13. CASE SwapReturn(t)
    <2> DEFINE f == [c EXCEPT !.pc = "body", !.ev = 0, !.hooked = TRUE]
    <2>1. f.pc = "body" /\ f.hooked /\ f.idx = c.idx /\ f.dep = c.dep
      BY <1>2 DEF Frames
    <2>2. c.pc = "swap" /\ SetCur(t, f)
      BY <1>13 DEF SwapReturn, At
    <2> HIDE DEF f
    <2>3. HookOK(t, f) /\ Counted(f) /\ Counted(c)
      BY <1>2, <2>1, <2>2 DEF HookOK, Counted, RetPcs, EntryPcs, Pushing
    <2>4. QED
      BY <1>1, <1>3, <2>1, <2>2, <2>3, CoverQuiet
  <1>14. QED
    BY <1>6, <1>7, <1>8, <1>9, <1>10, <1>11, <1>12, <1>13

LEMMA CoverCas ==
  ASSUME CoverInv, SearchInv', NEW t \in Threads, Cas(t)
  PROVE  CoverInv'
  <1> DEFINE c == Cur(t)
             g == [c EXCEPT !.pc = "depth"]
             h == [c EXCEPT !.pc = "scan", !.idx = c.idx + 1]
  <1>1. /\ top[t] > 0 /\ TypeInv /\ c.pc = "cas"
        /\ UNCHANGED <<top, slotDepth>>
    BY DEF Cas, At, CoverInv, SearchInv
  <1>2. /\ top[t] \in 1..top[t] /\ c = frame[t][top[t]] /\ c \in Frames
        /\ c.idx \in SlotIds
        /\ HookOK(t, c)
    <2>1. /\ top[t] \in 1..MaxNest /\ top[t] \in 1..top[t]
          /\ c = frame[t][top[t]] /\ c \in Frames
      BY <1>1, CurFrame
    <2>2. QED
      BY <1>1, <2>1 DEF CoverInv, Hooks, SearchInv, TypeInv, RegsOK, Indexed
  <1>3. /\ ring[c.ev].tid = t
        /\ \A j \in SlotIds : j < c.idx => slotTid[j] \notin {Zero, t}
    BY <1>1, <1>2 DEF CoverInv, SearchInv, RecordTid, Reading, Searched
  <1>4. /\ g.pc = "depth" /\ g.hooked = c.hooked /\ g.idx = c.idx
        /\ h.pc = "scan" /\ h.hooked = c.hooked
    BY <1>2 DEF Frames
  <1>5. \/ SetCur(t, h) /\ UNCHANGED slotTid
        \/ SetCur(t, g) /\ UNCHANGED slotTid /\ slotTid[c.idx] = t
        \/ /\ SetCur(t, g) /\ slotTid[c.idx] = Zero
           /\ slotTid' = [slotTid EXCEPT ![c.idx] = t]
    BY <1>3 DEF Cas, Goto, NextSlot
  <1> HIDE DEF g, h
  <1>6. ~Counted(g) /\ ~Counted(h) /\ ~Counted(c)
    BY <1>1, <1>2, <1>4 DEF Counted, HookOK, EntryPcs
  <1>7. CASE SetCur(t, h) /\ UNCHANGED slotTid
    <2>1. HookOK(t, h)
      BY <1>1, <1>2, <1>4 DEF HookOK, EntryPcs, RetPcs, Pushing
    <2>2. QED
      BY <1>1, <1>4, <1>6, <1>7, <2>1, CoverQuiet
  <1>8. CASE SetCur(t, g) /\ UNCHANGED slotTid /\ slotTid[c.idx] = t
    <2>1. HookOK(t, g)
      BY <1>1, <1>2, <1>4, <1>8 DEF HookOK, EntryPcs, RetPcs, Pushing
    <2>2. QED
      BY <1>1, <1>4, <1>6, <1>8, <2>1, CoverQuiet
  <1>9. CASE /\ SetCur(t, g) /\ slotTid[c.idx] = Zero
             /\ slotTid' = [slotTid EXCEPT ![c.idx] = t]
    <2>1. \A j \in SlotIds : slotTid[j] # t
      <3>1. \A j \in SlotIds : j < c.idx \/ j = c.idx \/ c.idx < j
        BY <1>2 DEF SlotIds
      <3>2. \A j \in SlotIds : c.idx < j => slotTid[j] = Zero
        BY <1>2, <1>9 DEF CoverInv, SearchInv, SlotsPrefix
      <3>3. QED
        BY <1>3, <1>9, <3>1, <3>2
    <2>2. Pending(t) = {}
      BY <2>1 DEF Pending, Counted, CoverInv, Hooks, HookOK, Pushing
    <2>3. /\ slotTid'[c.idx] = t
          /\ \A j \in SlotIds : j # c.idx => slotTid'[j] = slotTid[j]
      BY <1>1, <1>2, <1>9 DEF TypeInv, TypeOK
    <2>4. Taking
      BY <1>9, <2>2, <2>3 DEF Taking
    <2>5. frame'[t][top'[t]] = g
      BY <1>1, <1>9, TopMoves
    <2>6. HookOK(t, frame[t][top[t]])'
      BY <1>1, <1>2, <1>4, <2>3, <2>5 DEF HookOK, EntryPcs, RetPcs, Pushing
    <2>7. QED
      BY <1>1, <1>4, <1>6, <1>9, <2>4, <2>6, CoverMove
  <1>10. QED
    BY <1>5, <1>7, <1>8, <1>9

\* The return stub up to the load of the depth: it finds its thread's slot,
\* and the slot is not empty.
LEMMA CoverFind ==
  ASSUME CoverInv, SearchInv', NEW t \in Threads,
         ReturnHooked(t) \/ FindSlot(t) \/ RetDepth(t)
  PROVE  CoverInv'
  <1> DEFINE c == Cur(t)
  <1>1. /\ top[t] > 0 /\ TypeInv /\ UNCHANGED <<top, slotTid, slotDepth>>
    BY DEF ReturnHooked, FindSlot, RetDepth, At, CoverInv, SearchInv, runtimeVars
  <1>2. /\ top[t] \in 1..top[t] /\ c = frame[t][top[t]] /\ c \in Frames
        /\ HookOK(t, c)
    <2>1. /\ top[t] \in 1..top[t] /\ c = frame[t][top[t]] /\ c \in Frames
      BY <1>1, CurFrame
    <2>2. QED
      BY <2>1 DEF CoverInv, Hooks
  <1>3. /\ c.hooked /\ c.pc \in {"body", "find", "rdepth"} /\ Counted(c)
        /\ c.idx \in SlotIds /\ slotTid[c.idx] = t /\ c.dep \in FrameIds
    <2>1. c.hooked /\ c.pc \in {"body", "find", "rdepth"}
      BY <1>2 DEF ReturnHooked, FindSlot, RetDepth, At, HookOK, RetPcs
    <2>2. QED
      BY <1>2, <2>1 DEF HookOK, Counted
  <1>4. CASE ReturnHooked(t)
    <2> DEFINE f == [c EXCEPT !.pc = "find"]
    <2>1. f.pc = "find" /\ f.hooked = c.hooked /\ f.idx = c.idx /\ f.dep = c.dep
      BY <1>2 DEF Frames
    <2>2. SetCur(t, f)
      BY <1>4 DEF ReturnHooked, Goto
    <2> HIDE DEF f
    <2>3. HookOK(t, f) /\ Counted(f)
      BY <1>3, <2>1 DEF HookOK, Counted, EntryPcs
    <2>4. QED
      BY <1>1, <1>3, <2>1, <2>2, <2>3, CoverQuiet
  <1>5. CASE FindSlot(t)
    <2>1. PICK i \in SlotIds : slotTid[i] = t /\ SetCur(t, [c EXCEPT !.pc = "rdepth", !.idx = i])
      BY <1>3, <1>5 DEF FindSlot
    <2> DEFINE f == [c EXCEPT !.pc = "rdepth", !.idx = i]
    <2>2. f.pc = "rdepth" /\ f.hooked = c.hooked /\ f.idx = i /\ f.dep = c.dep
      BY <1>2 DEF Frames
    <2>3. SetCur(t, f)
      BY <2>1
    <2> HIDE DEF f
    <2>4. HookOK(t, f) /\ Counted(f)
      BY <1>3, <2>1, <2>2 DEF HookOK, Counted, EntryPcs
    <2>5. QED
      BY <1>1, <1>3, <2>2, <2>3, <2>4, CoverQuiet
  <1>6. CASE RetDepth(t)
    <2> DEFINE d == slotDepth[c.idx]
               f == [c EXCEPT !.pc = "decr", !.dep = d - 1]
    <2>1. d \in 0..Depth
      BY <1>1, <1>3 DEF TypeInv, TypeOK
    <2>2. Cardinality(Below(t, top[t])) <= d - 1 /\ d > 0
      <3>1. /\ IsFiniteSet(Below(t, top[t])) /\ Cardinality(Below(t, top[t])) \in Nat
            /\ top[t] \in Int
        BY <1>1, <1>2, PendingFinite
      <3>2. top[t] \notin Below(t, top[t])
        BY <3>1 DEF Below
      <3>3. Pending(t) = Below(t, top[t]) \cup {top[t]}
        <4>1. top[t] \in Pending(t)
          BY <1>2, <1>3 DEF Pending
        <4>2. \A k \in Pending(t) : k < top[t] \/ k = top[t]
          BY <3>1 DEF Pending
        <4>3. QED
          BY <4>1, <4>2 DEF Below
      <3>4. Cardinality(Pending(t)) = Cardinality(Below(t, top[t])) + 1
        BY <3>1, <3>2, <3>3, FS_AddElement
      <3>5. Cardinality(Pending(t)) <= d
        BY <1>3 DEF CoverInv, Covers
      <3>6. QED
        BY <2>1, <3>1, <3>4, <3>5
    <2>3. f.pc = "decr" /\ f.hooked = c.hooked /\ f.idx = c.idx /\ f.dep = d - 1
      BY <1>2 DEF Frames
    <2>4. SetCur(t, f)
      BY <1>6, <2>2 DEF RetDepth
    <2> HIDE DEF f
    <2>5. HookOK(t, f) /\ Counted(f)
      BY <1>3, <2>1, <2>2, <2>3 DEF HookOK, Counted, EntryPcs, FrameIds
    <2>6. QED
      BY <1>1, <1>3, <2>2, <2>3, <2>4, <2>5, CoverQuiet
  <1>7. QED
    BY <1>4, <1>5, <1>6

\* The return stub from the store of the depth on, with nothing pending.
LEMMA CoverLeave ==
  ASSUME CoverInv, SearchInv', NEW t \in Threads,
         LoadReturn(t) \/ RetClaim(t) \/ RetFill(t) \/ RetDuration(t) \/ JumpBack(t)
  PROVE  CoverInv'
  <1> DEFINE c == Cur(t)
  <1>1. /\ top[t] > 0 /\ TypeInv /\ UNCHANGED <<slotTid, slotDepth>>
    BY DEF LoadReturn, RetClaim, RetFill, RetDuration, JumpBack, At, CoverInv, SearchInv,
           runtimeVars
  <1>2. /\ top[t] \in 1..top[t] /\ c = frame[t][top[t]] /\ c \in Frames
        /\ HookOK(t, c)
    <2>1. /\ top[t] \in 1..top[t] /\ c = frame[t][top[t]] /\ c \in Frames
      BY <1>1, CurFrame
    <2>2. QED
      BY <2>1 DEF CoverInv, Hooks
  <1>3. /\ c.hooked /\ c.pc \in {"load", "rclaim", "rfill", "rdur", "jump"} /\ ~Counted(c)
        /\ c.idx \in SlotIds /\ slotTid[c.idx] = t /\ c.dep \in FrameIds
    <2>1. c.hooked /\ c.pc \in {"load", "rclaim", "rfill", "rdur", "jump"}
      BY <1>2 DEF LoadReturn, RetClaim, RetFill, RetDuration, JumpBack, At, HookOK, RetPcs
    <2>2. QED
      BY <1>2, <2>1 DEF HookOK, Counted
  <1>4. ASSUME NEW f, SetCur(t, f), UNCHANGED top, f.hooked = c.hooked,
               f.idx = c.idx, f.dep = c.dep,
               f.pc \in {"rclaim", "rfill", "rdur", "jump", "astray"}
        PROVE  CoverInv'
    <2>1. HookOK(t, f) /\ ~Counted(f)
      BY <1>3, <1>4 DEF HookOK, Counted, EntryPcs
    <2>2. QED
      BY <1>1, <1>3, <1>4, <2>1, CoverQuiet
  <1>5. CASE JumpBack(t)
    <2> DEFINE f == [c EXCEPT !.pc = "astray"]
    <2>1. f.hooked = c.hooked /\ f.idx = c.idx /\ f.dep = c.dep /\ f.pc = "astray"
      BY <1>2 DEF Frames
    <2>2. Pop(t) \/ (SetCur(t, f) /\ UNCHANGED top)
      BY <1>5 DEF JumpBack, Goto
    <2> HIDE DEF f
    <2>3. QED
      BY <1>1, <1>4, <2>1, <2>2, CoverPop
  <1>6. CASE LoadReturn(t)
    <2> DEFINE f == [c EXCEPT !.pc = "rclaim", !.addr = retAddr[c.idx][c.dep]]
    <2>1. f.hooked = c.hooked /\ f.idx = c.idx /\ f.dep = c.dep /\ f.pc = "rclaim"
      BY <1>2 DEF Frames
    <2>2. SetCur(t, f) /\ UNCHANGED top
      BY <1>6 DEF LoadReturn
    <2> HIDE DEF f
    <2>3. QED
      BY <1>4, <2>1, <2>2
  <1>7. CASE RetClaim(t)
    <2> DEFINE f == [c EXCEPT !.pc = "rfill", !.ev = next]
    <2>1. f.hooked = c.hooked /\ f.idx = c.idx /\ f.dep = c.dep /\ f.pc = "rfill"
      BY <1>2 DEF Frames
    <2>2. SetCur(t, f) /\ UNCHANGED top
      BY <1>7 DEF RetClaim
    <2> HIDE DEF f
    <2>3. QED
      BY <1>4, <2>1, <2>2
  <1>8. CASE RetFill(t)
    <2> DEFINE f == [c EXCEPT !.pc = "rdur"]
    <2>1. f.hooked = c.hooked /\ f.idx = c.idx /\ f.dep = c.dep /\ f.pc = "rdur"
      BY <1>2 DEF Frames
    <2>2. SetCur(t, f) /\ UNCHANGED top
      BY <1>8 DEF RetFill, Goto
    <2> HIDE DEF f
    <2>3. QED
      BY <1>4, <2>1, <2>2
  <1>9. CASE RetDuration(t)
    <2> DEFINE f == [c EXCEPT !.pc = "jump", !.dur = entryTs[c.idx][c.dep]]
    <2>1. f.hooked = c.hooked /\ f.idx = c.idx /\ f.dep = c.dep /\ f.pc = "jump"
      BY <1>2 DEF Frames
    <2>2. SetCur(t, f) /\ UNCHANGED top
      BY <1>9 DEF RetDuration
    <2> HIDE DEF f
    <2>3. QED
      BY <1>4, <2>1, <2>2
  <1>10. QED
    BY <1>5, <1>6, <1>7, <1>8, <1>9

LEMMA CoverStep ==
  ASSUME "lap" \notin Env
  PROVE  CoverInv /\ [Next]_vars => CoverInv'
  <1> SUFFICES ASSUME CoverInv, [Next]_vars PROVE CoverInv'
    OBVIOUS
  <1>1. SearchInv'
    BY SearchStep DEF CoverInv
  <1>2. CASE Toggle \/ UNCHANGED vars
    <2>1. UNCHANGED <<slotTid, slotDepth, top, frame>>
      BY <1>2 DEF Toggle, vars, runtimeVars
    <2>2. \A u \in Threads : top[u] \in 0..top[u]
      BY DEF CoverInv, SearchInv, TypeInv, TypeOK
    <2>3. QED
      BY <1>1, <2>1, <2>2, CoverDrop
  <1>3. ASSUME NEW t \in Threads, StubStep(t) PROVE CoverInv'
    <2>1. CASE PushDepth(t) \/ Decrement(t)
      <3> DEFINE c == Cur(t)
      <3>1. /\ top[t] > 0 /\ TypeInv /\ c \in Frames /\ Indexed(c)
            /\ c.pc \in {"push", "decr"}
        <4>1. top[t] > 0 /\ TypeInv /\ c.pc \in {"push", "decr"}
          BY <2>1 DEF PushDepth, Decrement, At, CoverInv, SearchInv
        <4>2. top[t] \in 1..MaxNest /\ c = frame[t][top[t]] /\ c \in Frames
          BY <4>1, CurFrame
        <4>3. QED
          BY <4>1, <4>2 DEF TypeInv, RegsOK
      <3>2. PICK p \in {"swap", "load"} :
               /\ SetCur(t, [c EXCEPT !.pc = p])
               /\ \/ p = "swap" /\ c.pc = "push"
                     /\ slotDepth' = [slotDepth EXCEPT ![c.idx] = c.dep + 1]
                  \/ p = "load" /\ c.pc = "decr"
                     /\ slotDepth' = [slotDepth EXCEPT ![c.idx] = c.dep]
        BY <2>1 DEF PushDepth, Decrement, Goto, At
      <3> DEFINE f == [c EXCEPT !.pc = p]
      <3>3. f.pc = p /\ f.hooked = c.hooked /\ f.idx = c.idx /\ f.dep = c.dep
        BY <3>1 DEF Frames
      <3>4. f.idx \in SlotIds
        BY <3>1, <3>3 DEF Indexed
      <3>5. SetCur(t, f) /\ UNCHANGED <<top, slotTid>>
        BY <2>1, <3>2 DEF PushDepth, Decrement
      <3> HIDE DEF f
      <3>6. QED
        BY <1>1, <3>1, <3>2, <3>3, <3>4, <3>5, CoverStore
    <2>2. QED
      BY <1>1, <1>3, <2>1, CoverEntry, CoverCas, CoverFind, CoverLeave
         DEF StubStep, EntryStub, RetStub
  <1>4. ASSUME NEW t \in Threads, Target(t) PROVE CoverInv'
    <2>1. CASE (\E s \in Sites : Call(t, s)) \/ Signal(t)
      <3>1. PICK f \in Frames : /\ Push(t, f) /\ f.pc \in {"check", "body"}
                                /\ ~f.hooked
        BY <2>1, FreshFrame DEF Call, Signal
      <3>2. UNCHANGED <<slotTid, slotDepth>>
        BY <2>1 DEF Call, Signal, runtimeVars
      <3>3. QED
        BY <1>1, <3>1, <3>2, CoverPush
    <2>2. CASE ReturnPlain(t) \/ HandlerReturn(t)
      BY <1>1, <2>2, CoverPop DEF ReturnPlain, HandlerReturn, At, runtimeVars
    <2>3. CASE ReturnHooked(t)
      BY <1>1, <2>3, CoverFind
    <2>4. CASE Longjmp(t)
      <3>1. PICK n \in 0..(top[t] - 1) :
               /\ top' = [top EXCEPT ![t] = n]
               /\ frame' = [frame EXCEPT ![t] =
                     [k \in 1..MaxNest |-> IF k > n THEN Idle ELSE frame[t][k]]]
        BY <2>4 DEF Longjmp
      <3>2. \A u \in Threads : /\ top'[u] \in 0..top[u]
                                /\ \A k \in 1..top'[u] : frame'[u][k] = frame[u][k]
        BY <3>1 DEF CoverInv, SearchInv, TypeInv, TypeOK
      <3>3. QED
        BY <1>1, <2>4, <3>2, CoverDrop DEF Longjmp, runtimeVars
    <2>5. QED
      BY <1>4, <2>1, <2>2, <2>3, <2>4 DEF Target
  <1>5. QED
    BY <1>2, <1>3, <1>4 DEF Next

\* lp_stub_event_enter and lp_stub_event_exit: while a thread is in a hook, its
\* slot is neither freed nor given away, and no handler of its own changes what
\* the hook is about to write.
THEOREM Covered ==
  ASSUME "lap" \notin Env
  PROVE  Spec => []CoverInv
  <1>1. CoverInv /\ [Next]_vars => CoverInv'
    BY CoverStep
  <1>2. QED
    BY <1>1, CoverInit, PTL DEF Spec

\* The probe never kills the target: whatever handlers and longjmp do to the
\* stacks of its threads, a return stub finds its slot and the slot not empty,
\* as long as the ring is not lapped within one run of a stub.
THEOREM ProbeNeverTraps ==
  ASSUME "lap" \notin Env
  PROVE  Spec => []NeverTraps
  <1>1. CoverInv => NeverTraps
    <2> SUFFICES ASSUME CoverInv, NEW t \in Threads, top[t] > 0
                 PROVE  Cur(t).pc # "trap"
      BY DEF NeverTraps, Trapped
    <2>1. top[t] \in 1..top[t]
      BY DEF CoverInv, SearchInv, TypeInv, TypeOK
    <2>2. QED
      BY <2>1 DEF CoverInv, NoTrap, Cur
  <1>2. QED
    BY <1>1, Covered, PTL

\* Whatever activations longjmp drops, each that will return through the
\* return stub has a frame in a slot of its thread.
THEOREM EveryReturnCovered ==
  ASSUME "lap" \notin Env
  PROVE  Spec => []DepthCovers
  <1>1. CoverInv => DepthCovers
    <2> SUFFICES ASSUME CoverInv, NEW t \in Threads, NEW k \in Pending(t)
                 PROVE  \E i \in SlotIds :
                           slotTid[i] = t /\ slotDepth[i] >= Cardinality(Pending(t))
      BY DEF DepthCovers
    <2>1. k \in 1..top[t] /\ Counted(frame[t][k])
      BY DEF Pending
    <2>2. frame[t][k].idx \in SlotIds /\ slotTid[frame[t][k].idx] = t
      BY <2>1 DEF CoverInv, Hooks, HookOK, Counted, Pushing
    <2>3. Cardinality(Pending(t)) <= slotDepth[frame[t][k].idx]
      BY <2>2 DEF CoverInv, Covers
    <2>4. Cardinality(Pending(t)) \in Nat /\ slotDepth[frame[t][k].idx] \in Nat
      <3>1. TypeInv
        BY DEF CoverInv, SearchInv
      <3>2. Cardinality(Pending(t)) \in Nat
        BY <2>1, <3>1, PendingFinite
      <3>3. QED
        BY <2>2, <3>1, <3>2 DEF TypeInv, TypeOK
    <2>5. QED
      BY <2>2, <2>3, <2>4
  <1>2. QED
    BY <1>1, Covered, PTL
-----------------------------------------------------------------------------
(* Slots are never given back. *)

\* A slot that is taken stays its thread's, and the slots before it are taken.
THEOREM SlotsNeverChangeHands ==
  ASSUME "lap" \notin Env
  PROVE  Spec => SlotsGrow
  <1> DEFINE Grow == \A i \in SlotIds : /\ slotTid[i] # Zero => slotTid'[i] = slotTid[i]
                                        /\ SlotsPrefix'
  <1>1. SearchInv /\ [Next]_vars => SearchInv'
    BY SearchStep
  <1>2. ASSUME SearchInv, SearchInv', [Next]_vars PROVE Grow
    <2>1. SlotsPrefix'
      BY <1>2 DEF SearchInv
    <2>2. slotTid' = slotTid \/ \E t \in Threads : Cas(t)
      BY <1>2 DEF Next, Toggle, StubStep, EntryStub, RetStub, Target, Call, CheckEnabled,
         ClaimEvent, EntryTid, EntryTime, Scan, ReadDepth, SaveRet, SaveTs, PushDepth,
         SwapReturn, ReturnPlain, ReturnHooked, FindSlot, RetDepth, Decrement, LoadReturn,
         RetClaim, RetFill, RetDuration, JumpBack, Signal, HandlerReturn, Longjmp,
         vars, runtimeVars
    <2>3. ASSUME NEW t \in Threads, Cas(t), NEW i \in SlotIds, slotTid[i] # Zero
          PROVE  slotTid'[i] = slotTid[i]
      BY <1>2, <2>3 DEF Cas, SearchInv, TypeInv, TypeOK
    <2>4. QED
      BY <2>1, <2>2, <2>3
  <1>3. QED
    BY <1>1, <1>2, SearchInit, PTL DEF Spec, SlotsGrow
-----------------------------------------------------------------------------
(* Without signals only the activation on top of a stack is in a stub. *)

\* A stub moves the activation on top, or ends it.
LEMMA StubMoves ==
  ASSUME TypeInv, NEW t \in Threads, StubStep(t) \/ ReturnHooked(t)
  PROVE  /\ top[t] > 0
         /\ \/ Pop(t)
            \/ /\ UNCHANGED top
               /\ \E f : SetCur(t, f) /\ f.site = Cur(t).site /\ f.handler = Cur(t).handler
  <1> DEFINE c == Cur(t)
             Like(f) == f.site = c.site /\ f.handler = c.handler
             Moves == UNCHANGED top /\ \E f : SetCur(t, f) /\ Like(f)
  <1>1. top[t] > 0
    BY DEF StubStep, EntryStub, RetStub, CheckEnabled, ClaimEvent, EntryTid, EntryTime,
       Scan, Cas, ReadDepth, SaveRet, SaveTs, PushDepth, SwapReturn, ReturnHooked,
       FindSlot, RetDepth, Decrement, LoadReturn, RetClaim, RetFill, RetDuration,
       JumpBack, At
  <1>2. c \in Frames
    BY <1>1, CurFrame
  <1>3. /\ Like(ToTrampoline(c)) /\ \A p : Like([c EXCEPT !.pc = p])
        /\ Like([c EXCEPT !.pc = "tid", !.ev = next])
        /\ Like([c EXCEPT !.pc = "rfill", !.ev = next])
        /\ Like([c EXCEPT !.pc = "scan", !.idx = 0])
        /\ Like([c EXCEPT !.pc = "scan", !.idx = c.idx + 1])
        /\ \A d : Like([c EXCEPT !.pc = "saveRet", !.dep = d])
        /\ Like([c EXCEPT !.pc = "body", !.ev = 0, !.hooked = TRUE])
        /\ \A i : Like([c EXCEPT !.pc = "rdepth", !.idx = i])
        /\ \A d : Like([c EXCEPT !.pc = "decr", !.dep = d])
        /\ \A a : Like([c EXCEPT !.pc = "rclaim", !.addr = a])
        /\ \A a : Like([c EXCEPT !.pc = "jump", !.dur = a])
    BY <1>2, TrampolineFrame DEF Frames
  <1> HIDE DEF Like
  <1>4. ASSUME CheckEnabled(t) \/ EntryTid(t) \/ SaveRet(t) \/ SaveTs(t) \/ PushDepth(t)
               \/ ReturnHooked(t) \/ Decrement(t) \/ RetFill(t)
        PROVE  Moves
    BY <1>3, <1>4 DEF CheckEnabled, EntryTid, SaveRet, SaveTs, PushDepth, ReturnHooked,
                      Decrement, RetFill, Goto
  <1>5. ASSUME ClaimEvent(t) \/ EntryTime(t) \/ Scan(t) \/ Cas(t) \/ ReadDepth(t)
               \/ SwapReturn(t)
        PROVE  Moves
    BY <1>3, <1>5 DEF ClaimEvent, EntryTime, Scan, Cas, ReadDepth, SwapReturn, Goto,
                      NextSlot
  <1>6. ASSUME FindSlot(t) \/ RetDepth(t) \/ LoadReturn(t) \/ RetClaim(t)
               \/ RetDuration(t) \/ JumpBack(t)
        PROVE  Moves \/ Pop(t)
    BY <1>3, <1>6 DEF FindSlot, RetDepth, LoadReturn, RetClaim, RetDuration, JumpBack,
                      Goto
  <1>7. Moves \/ Pop(t)
    BY <1>4, <1>5, <1>6 DEF StubStep, EntryStub, RetStub
  <1>8. QED
    BY <1>1, <1>7 DEF Like

LEMMA OnlyTopStep ==
  ASSUME "signal" \notin Env, TypeInv, OnlyTopRuns, [Next]_vars
  PROVE  OnlyTopRuns'
  <1>1. top \in [Threads -> 0..MaxNest]
    BY DEF TypeInv, TypeOK
  <1>2. CASE Toggle \/ UNCHANGED vars
    BY <1>2 DEF Toggle, vars, OnlyTopRuns
  <1>3. ASSUME NEW t \in Threads, Pop(t), top[t] > 0 PROVE OnlyTopRuns'
    <2>1. \A u \in Threads : top'[u] = IF u = t THEN top[u] - 1 ELSE top[u]
      BY <1>1, <1>3 DEF Pop
    <2>2. \A u \in Threads, k \in 1..MaxNest :
             <<u, k>> # <<t, top[t]>> => frame'[u][k] = frame[u][k]
      BY <1>3, SetCurEffect DEF Pop
    <2>3. \A u \in Threads : \A k \in 1..top'[u] :
             /\ k \in 1..top[u] /\ frame'[u][k] = frame[u][k]
             /\ k < top'[u] => k < top[u]
      BY <1>1, <1>3, <2>1, <2>2
    <2>4. QED
      BY <2>3 DEF OnlyTopRuns
  <1>4. ASSUME NEW t \in Threads, StubStep(t) \/ ReturnHooked(t) PROVE OnlyTopRuns'
    <2>1. CASE Pop(t)
      BY <1>3, <1>4, <2>1, StubMoves
    <2>2. ASSUME NEW f, SetCur(t, f), f.handler = Cur(t).handler, UNCHANGED top
          PROVE  OnlyTopRuns'
      BY <1>4, <2>2, StubMoves, TopMoves DEF OnlyTopRuns
    <2>3. QED
      BY <1>4, <2>1, <2>2, StubMoves
  <1>5. ASSUME NEW t \in Threads, NEW s \in Sites, Call(t, s) PROVE OnlyTopRuns'
    <2>1. /\ top[t] > 0 => Cur(t).pc = "body"
          /\ Push(t, Fresh(s, "check", FALSE))
          /\ Fresh(s, "check", FALSE) \in Frames /\ ~Fresh(s, "check", FALSE).handler
      BY <1>5, FreshFrame DEF Call
    <2>2. /\ top[t] + 1 \in 1..MaxNest
          /\ top' = [top EXCEPT ![t] = top[t] + 1]
          /\ ~frame'[t][top[t] + 1].handler
          /\ \A u \in Threads, k \in 1..MaxNest :
                <<u, k>> # <<t, top[t] + 1>> => frame'[u][k] = frame[u][k]
      BY <2>1, PushEffect
    <2>3. ASSUME NEW u \in Threads, NEW k \in 1..top'[u]
          PROVE  ~frame'[u][k].handler /\ (k < top'[u] => frame'[u][k].pc = "body")
      <3>1. CASE u = t /\ k = top[t] + 1
        BY <1>1, <2>2, <3>1
      <3>2. CASE ~(u = t /\ k = top[t] + 1)
        <4>1. k \in 1..top[u] /\ frame'[u][k] = frame[u][k]
          BY <1>1, <2>2, <3>2
        <4>2. CASE u = t /\ k = top[t]
          BY <1>1, <2>1, <4>1, <4>2 DEF OnlyTopRuns, Cur
        <4>3. CASE ~(u = t /\ k = top[t])
          BY <1>1, <2>2, <4>1, <4>3 DEF OnlyTopRuns
        <4>4. QED
          BY <4>2, <4>3
      <3>3. QED
        BY <3>1, <3>2
    <2>4. QED
      BY <2>3 DEF OnlyTopRuns
  <1>6. ASSUME NEW t \in Threads, Longjmp(t) PROVE OnlyTopRuns'
    <2>1. PICK n \in 0..(top[t] - 1) :
             /\ top' = [top EXCEPT ![t] = n]
             /\ frame' = [frame EXCEPT ![t] =
                   [k \in 1..MaxNest |-> IF k > n THEN Idle ELSE frame[t][k]]]
      BY <1>6 DEF Longjmp
    <2>2. \A u \in Threads : \A k \in 1..top'[u] :
             /\ k \in 1..top[u] /\ frame'[u][k] = frame[u][k]
             /\ k < top'[u] => k < top[u]
      BY <1>1, <2>1 DEF TypeInv, TypeOK
    <2>3. QED
      BY <2>2 DEF OnlyTopRuns
  <1>7. ASSUME NEW t \in Threads, Target(t) PROVE OnlyTopRuns'
    BY <1>3, <1>4, <1>5, <1>6, <1>7
       DEF Target, Signal, ReturnPlain, HandlerReturn, At
  <1>8. QED
    BY <1>2, <1>4, <1>7 DEF Next
-----------------------------------------------------------------------------
(* A record out of the stubs' hands is the record of one call. *)

WholeInv == /\ SearchInv
            /\ RecordWhole
            /\ "signal" \notin Env => OnlyTopRuns

\* The record e is that of one call.
OneCall(e) == ring[e].ts # Zero => ring[e].ts[1] = ring[e].tid

\* A step of a stub writes its own record only, and keeps it or leaves it whole.
LEMMA WholeMove ==
  ASSUME SearchInv, RecordWhole, NEW t \in Threads, top[t] > 0, NEW f, SetCur(t, f),
         UNCHANGED top,
         \A e \in Records : ~InFlight(Cur(t)) \/ e # Cur(t).ev => ring'[e] = ring[e],
         InFlight(Cur(t)) => \/ InFlight(f) /\ f.ev = Cur(t).ev
                             \/ \A e \in Records : e = Cur(t).ev => OneCall(e)'
  PROVE  RecordWhole'
  <1>1. /\ top[t] \in 1..top[t] /\ Cur(t) = frame[t][top[t]] /\ frame'[t][top[t]] = f
        /\ \A u \in Threads : top'[u] = top[u]
        /\ \A u \in Threads : \A k \in 1..top[u] :
              <<u, k>> # <<t, top[t]>> => frame'[u][k] = frame[u][k]
    BY TopMoves DEF SearchInv
  <1>2. ASSUME NEW e \in Records, Unlapped(e)' PROVE OneCall(e)'
    <2>1. CASE InFlight(Cur(t)) /\ e = Cur(t).ev
      BY <1>1, <1>2, <2>1 DEF Unlapped
    <2>2. CASE ~InFlight(Cur(t)) \/ e # Cur(t).ev
      <3>1. ring'[e] = ring[e]
        BY <2>2
      <3>2. Unlapped(e)
        BY <1>1, <1>2, <2>2 DEF Unlapped
      <3>3. QED
        BY <3>1, <3>2 DEF RecordWhole, OneCall
    <2>3. QED
      BY <2>1, <2>2
  <1>3. QED
    BY <1>2 DEF RecordWhole, OneCall

\* Activations come and go outside the stubs' use of their records.
LEMMA WholeRest ==
  ASSUME RecordWhole, UNCHANGED ring,
         \A u \in Threads : \A k \in 1..top[u] :
            \/ ~InFlight(frame[u][k])
            \/ k \in 1..top'[u] /\ frame'[u][k] = frame[u][k]
  PROVE  RecordWhole'
  <1>1. \A e \in Records : Unlapped(e)' => Unlapped(e)
    BY DEF Unlapped
  <1>2. QED
    BY <1>1 DEF RecordWhole

LEMMA WholeStub ==
  ASSUME WholeInv, SearchInv', NEW t \in Threads, EntryStub(t) \/ RetStub(t)
  PROVE  RecordWhole'
  <1> DEFINE c == Cur(t)
  <1>1. /\ top[t] > 0 /\ TypeInv /\ SearchInv /\ RecordWhole
    <2>1. top[t] > 0
      BY StubMoves DEF StubStep, WholeInv, SearchInv
    <2>2. QED
      BY <2>1 DEF WholeInv, SearchInv
  <1>2. top[t] \in 1..top[t] /\ c = frame[t][top[t]] /\ c \in Frames /\ c.ev \in Records
    <2>1. top[t] \in 1..top[t] /\ c = frame[t][top[t]] /\ c \in Frames
      BY <1>1, CurFrame
    <2>2. QED
      BY <2>1 DEF Frames
  <1>3. c.pc \in Reading =>
           ring[c.ev].ts[1] = ring[c.ev].tid
    <2>1. c.pc \in Reading => ring[c.ev] = [tid |-> t, ts |-> CallId(t, top[t])]
      BY <1>2 DEF WholeInv, SearchInv, RecordOwn
    <2>2. CallId(t, top[t])[1] = t
      BY DEF CallId
    <2>3. QED
      BY <2>1, <2>2
  <1>4. /\ \A p : [c EXCEPT !.pc = p].pc = p /\ [c EXCEPT !.pc = p].ev = c.ev
        /\ [c EXCEPT !.pc = "scan", !.idx = 0].pc = "scan"
        /\ [c EXCEPT !.pc = "scan", !.idx = 0].ev = c.ev
        /\ [c EXCEPT !.pc = "scan", !.idx = c.idx + 1].pc = "scan"
        /\ [c EXCEPT !.pc = "scan", !.idx = c.idx + 1].ev = c.ev
        /\ \A d : /\ [c EXCEPT !.pc = "saveRet", !.dep = d].pc = "saveRet"
                  /\ [c EXCEPT !.pc = "saveRet", !.dep = d].ev = c.ev
    BY <1>2 DEF Frames
  <1>5. ASSUME UNCHANGED <<ring, top>>, c.pc \in Reading,
               NEW f, SetCur(t, f)
        PROVE  RecordWhole'
    BY <1>1, <1>2, <1>3, <1>5, WholeMove DEF OneCall
  <1>6. ASSUME UNCHANGED <<ring, top>>, ~InFlight(c), NEW f, SetCur(t, f)
        PROVE  RecordWhole'
    BY <1>1, <1>6, WholeMove
  <1>7. CASE CheckEnabled(t) \/ ClaimEvent(t) \/ PushDepth(t) \/ SwapReturn(t) \/ FindSlot(t)
             \/ RetDepth(t) \/ Decrement(t) \/ LoadReturn(t) \/ RetClaim(t)
    <2>1. UNCHANGED <<ring, top>> /\ ~InFlight(c)
      BY <1>7 DEF CheckEnabled, ClaimEvent, PushDepth, SwapReturn, FindSlot, RetDepth,
                  Decrement, LoadReturn, RetClaim, At, InFlight
    <2>2. \E f : SetCur(t, f)
      BY <1>7 DEF CheckEnabled, ClaimEvent, PushDepth, SwapReturn, FindSlot, RetDepth,
                  Decrement, LoadReturn, RetClaim, Goto
    <2>3. QED
      BY <1>6, <2>1, <2>2
  <1>8. CASE Scan(t) \/ Cas(t) \/ ReadDepth(t) \/ SaveRet(t) \/ SaveTs(t)
    <2>1. UNCHANGED <<ring, top>> /\ c.pc \in Reading
      BY <1>8 DEF Scan, Cas, ReadDepth, SaveRet, SaveTs, At, Reading
    <2>2. \E f : SetCur(t, f)
      BY <1>8 DEF Scan, Cas, ReadDepth, SaveRet, SaveTs, Goto
    <2>3. QED
      BY <1>5, <2>1, <2>2
  <1>9. CASE EntryTid(t) \/ RetFill(t)
    <2>1. PICK p \in {"time", "rdur"} : SetCur(t, [c EXCEPT !.pc = p])
      BY <1>9 DEF EntryTid, RetFill, Goto
    <2>2. \A e \in Records : ~InFlight(c) \/ e # c.ev => ring'[e] = ring[e]
      BY <1>1, <1>2, <1>9 DEF EntryTid, RetFill, At, InFlight, TypeInv, TypeOK
    <2>3. UNCHANGED top
      BY <1>9 DEF EntryTid, RetFill
    <2> DEFINE f == [c EXCEPT !.pc = p]
    <2>4. InFlight(f) /\ f.ev = c.ev /\ SetCur(t, f)
      BY <1>4, <2>1 DEF InFlight
    <2> HIDE DEF f
    <2>5. QED
      BY <1>1, <2>2, <2>3, <2>4, WholeMove
  <1>10. CASE EntryTime(t)
    <2>1. /\ ring' = [ring EXCEPT ![c.ev].ts = CallId(t, top[t])] /\ UNCHANGED top
          /\ c.pc = "time" /\ \E f : SetCur(t, f)
      BY <1>10 DEF EntryTime, At
    <2>2. ring[c.ev].tid = t
      BY <1>2, <2>1 DEF WholeInv, SearchInv, RecordTid
    <2>3. /\ ring'[c.ev].tid = t /\ ring'[c.ev].ts = CallId(t, top[t])
          /\ \A e \in Records : e # c.ev => ring'[e] = ring[e]
      BY <1>1, <1>2, <2>1, <2>2 DEF TypeInv, TypeOK
    <2>4. CallId(t, top[t])[1] = t
      BY DEF CallId
    <2>5. InFlight(c)
      BY <2>1 DEF InFlight
    <2>6. \A e \in Records : e = c.ev => OneCall(e)'
      BY <2>3, <2>4 DEF OneCall
    <2>7. QED
      BY <1>1, <2>1, <2>3, <2>5, <2>6, WholeMove
  <1>11. CASE RetDuration(t)
    <2>1. /\ ring' = [ring EXCEPT ![c.ev].ts = Zero] /\ UNCHANGED top
          /\ c.pc = "rdur" /\ \E f : SetCur(t, f)
      BY <1>11 DEF RetDuration, At
    <2>2. /\ ring'[c.ev].ts = Zero
          /\ \A e \in Records : e # c.ev => ring'[e] = ring[e]
      BY <1>1, <1>2, <2>1 DEF TypeInv, TypeOK
    <2>3. \A e \in Records : e = c.ev => OneCall(e)'
      BY <2>2 DEF OneCall
    <2>4. InFlight(c)
      BY <2>1 DEF InFlight
    <2>5. QED
      BY <1>1, <2>1, <2>2, <2>3, <2>4, WholeMove
  <1>12. CASE JumpBack(t)
    <2>1. c.pc = "jump" /\ UNCHANGED ring /\ ~InFlight(c)
      BY <1>12 DEF JumpBack, At, InFlight
    <2>2. CASE SetCur(t, [c EXCEPT !.pc = "astray"]) /\ UNCHANGED top
      BY <1>6, <2>1, <2>2
    <2>3. CASE Pop(t)
      <3>1. /\ \A u \in Threads : top'[u] = IF u = t THEN top[u] - 1 ELSE top[u]
            /\ \A u \in Threads, k \in 1..MaxNest :
                  <<u, k>> # <<t, top[t]>> => frame'[u][k] = frame[u][k]
            /\ top \in [Threads -> 0..MaxNest]
        BY <1>1, <2>3, SetCurEffect DEF Pop, TypeInv, TypeOK
      <3>2. \A u \in Threads : \A k \in 1..top[u] :
               \/ u = t /\ k = top[t]
               \/ k \in 1..top'[u] /\ frame'[u][k] = frame[u][k]
        BY <3>1
      <3>3. QED
        BY <1>1, <1>2, <2>1, <3>2, WholeRest
    <2>4. QED
      BY <1>12, <2>2, <2>3 DEF JumpBack, Goto
  <1>13. QED
    BY <1>7, <1>8, <1>9, <1>10, <1>11, <1>12 DEF EntryStub, RetStub

LEMMA WholeStep ==
  ASSUME "lap" \notin Env, ~({"signal", "longjmp"} \subseteq Env)
  PROVE  WholeInv /\ [Next]_vars => WholeInv'
  <1> SUFFICES ASSUME WholeInv, [Next]_vars PROVE WholeInv'
    OBVIOUS
  <1>1. /\ SearchInv' /\ TypeInv
        /\ "signal" \notin Env => OnlyTopRuns'
    BY SearchStep, OnlyTopStep DEF WholeInv, SearchInv
  <1>2. top \in [Threads -> 0..MaxNest]
    BY <1>1 DEF TypeInv, TypeOK
  <1>3. CASE Toggle \/ UNCHANGED vars
    <2>1. UNCHANGED <<ring, top, frame>>
      BY <1>3 DEF Toggle, vars
    <2>2. RecordWhole'
      BY <2>1 DEF WholeInv, RecordWhole, Unlapped
    <2>3. QED
      BY <1>1, <2>2 DEF WholeInv
  <1>4. ASSUME NEW t \in Threads, StubStep(t) PROVE WholeInv'
    BY <1>1, <1>4, WholeStub DEF StubStep, WholeInv
  <1>5. ASSUME NEW t \in Threads, Target(t) PROVE RecordWhole'
    <2>1. CASE (\E s \in Sites : Call(t, s)) \/ Signal(t)
      <3>1. PICK f \in Frames : Push(t, f)
        BY <2>1, FreshFrame DEF Call, Signal
      <3>2. /\ top' = [top EXCEPT ![t] = top[t] + 1]
            /\ \A u \in Threads, k \in 1..MaxNest :
                  <<u, k>> # <<t, top[t] + 1>> => frame'[u][k] = frame[u][k]
        BY <1>1, <3>1, PushEffect
      <3>3. \A u \in Threads : \A k \in 1..top[u] :
               k \in 1..top'[u] /\ frame'[u][k] = frame[u][k]
        BY <1>2, <3>2
      <3>4. QED
        BY <2>1, <3>3, WholeRest DEF Call, Signal, WholeInv
    <2>2. CASE ReturnHooked(t)
      <3>1. /\ top[t] > 0 /\ ~InFlight(Cur(t)) /\ UNCHANGED <<ring, top>>
            /\ \E f : SetCur(t, f)
        BY <2>2 DEF ReturnHooked, At, Goto, InFlight
      <3>2. QED
        BY <3>1, WholeMove DEF WholeInv
    <2>3. CASE ReturnPlain(t) \/ HandlerReturn(t)
      <3>1. top[t] > 0 /\ Cur(t).pc = "body" /\ Pop(t) /\ UNCHANGED ring
        BY <2>3 DEF ReturnPlain, HandlerReturn, At
      <3>2. /\ \A u \in Threads : top'[u] = IF u = t THEN top[u] - 1 ELSE top[u]
            /\ \A u \in Threads, k \in 1..MaxNest :
                  <<u, k>> # <<t, top[t]>> => frame'[u][k] = frame[u][k]
        BY <1>1, <1>2, <3>1, SetCurEffect DEF Pop
      <3>3. \A u \in Threads : \A k \in 1..top[u] :
               \/ u = t /\ k = top[t]
               \/ k \in 1..top'[u] /\ frame'[u][k] = frame[u][k]
        BY <1>2, <3>2
      <3>4. ~InFlight(frame[t][top[t]])
        BY <3>1 DEF InFlight, Cur
      <3>5. QED
        BY <3>1, <3>3, <3>4, WholeRest DEF WholeInv
    <2>4. CASE Longjmp(t)
      <3>1. PICK n \in 0..(top[t] - 1) :
               /\ top' = [top EXCEPT ![t] = n]
               /\ frame' = [frame EXCEPT ![t] =
                     [k \in 1..MaxNest |-> IF k > n THEN Idle ELSE frame[t][k]]]
        BY <2>4 DEF Longjmp
      <3>2. \A k \in 1..top[t] : ~InFlight(frame[t][k])
        <4>1. OnlyTopRuns /\ Cur(t).pc = "body"
          BY <2>4 DEF Longjmp, At, WholeInv
        <4>2. \A k \in 1..top[t] : k < top[t] \/ k = top[t]
          BY <1>2
        <4>3. QED
          BY <4>1, <4>2 DEF OnlyTopRuns, Cur, InFlight
      <3>3. \A u \in Threads : u # t =>
               \A k \in 1..top[u] : k \in 1..top'[u] /\ frame'[u][k] = frame[u][k]
        BY <1>1, <1>2, <3>1 DEF TypeInv, TypeOK
      <3>4. QED
        BY <2>4, <3>2, <3>3, WholeRest DEF Longjmp, WholeInv
    <2>5. QED
      BY <1>5, <2>1, <2>2, <2>3, <2>4 DEF Target
  <1>6. QED
    BY <1>1, <1>3, <1>4, <1>5 DEF Next, WholeInv

\* A record that no stub is filling names the thread whose call it timestamps:
\* no two stubs' stores mix in it.  A handler that longjmps out of a stub would
\* leave one half filled, so targets that do both are excepted.
THEOREM RecordsWhole ==
  ASSUME "lap" \notin Env, ~({"signal", "longjmp"} \subseteq Env)
  PROVE  Spec => []RecordWhole
  <1>1. Init => WholeInv
    <2>1. Init => RecordWhole /\ OnlyTopRuns
      BY DEF Init, RecordWhole, OnlyTopRuns
    <2>2. QED
      BY <2>1, SearchInit DEF WholeInv
  <1>2. WholeInv /\ [Next]_vars => WholeInv'
    BY WholeStep
  <1>3. WholeInv => RecordWhole
    BY DEF WholeInv
  <1>4. QED
    BY <1>1, <1>2, <1>3, PTL DEF Spec
-----------------------------------------------------------------------------
(* The shadow stack mirrors the thread's own: no laps, handlers or longjmp. *)

LEMMA StackInit == Init => StackInv
  <1> SUFFICES ASSUME Init PROVE StackInv
    OBVIOUS
  <1>1. CoverInv
    BY CoverInit
  <1>2. \A t \in Threads : \A k : k \notin 1..top[t]
    BY DEF Init
  <1>3. OnlyTopRuns /\ Saved /\ ReturnsToCaller
    BY <1>2 DEF OnlyTopRuns, Saved, ReturnsToCaller
  <1>4. slotTid = [i \in SlotIds |-> Zero] /\ slotDepth = [i \in SlotIds |-> 0]
    BY DEF Init
  <1>5. Mirror /\ FreeEmpty
    BY <1>2, <1>4 DEF Mirror, FreeEmpty
  <1>6. QED
    BY <1>1, <1>3, <1>5 DEF StackInv

\* What the invariant says of the activation that executes.
LEMMA StackTop ==
  ASSUME StackInv, NEW t \in Threads, top[t] > 0
  PROVE  /\ TypeInv /\ SearchInv /\ CoverInv
         /\ top[t] \in 1..MaxNest /\ top[t] \in 1..top[t]
         /\ Cur(t) = frame[t][top[t]] /\ Cur(t) \in Frames
         /\ Indexed(Cur(t)) /\ HookOK(t, Cur(t)) /\ SavedAt(t, top[t])
  <1>1. TypeInv /\ SearchInv /\ CoverInv
    BY DEF StackInv, CoverInv, SearchInv
  <1>2. /\ top[t] \in 1..MaxNest /\ top[t] \in 1..top[t]
        /\ Cur(t) = frame[t][top[t]] /\ Cur(t) \in Frames
    BY <1>1, CurFrame
  <1>3. QED
    BY <1>1, <1>2 DEF TypeInv, RegsOK, CoverInv, Hooks, StackInv, Saved

\* A hooked activation below the top has its frame below the depth.
LEMMA LowerFrames ==
  ASSUME StackInv, NEW t \in Threads, NEW k \in 1..top[t], k < top[t]
  PROVE  /\ frame[t][k].pc = "body"
         /\ frame[t][k].hooked => /\ frame[t][k].idx \in SlotIds
                                  /\ slotTid[frame[t][k].idx] = t
                                  /\ frame[t][k].dep \in FrameIds
                                  /\ frame[t][k].dep < slotDepth[frame[t][k].idx]
  <1>1. frame[t][k].pc = "body"
    BY DEF StackInv, OnlyTopRuns
  <1>2. frame[t][k].hooked => Counted(frame[t][k])
    BY <1>1 DEF Counted
  <1>3. HookOK(t, frame[t][k])
    BY DEF StackInv, CoverInv, Hooks
  <1>4. QED
    BY <1>1, <1>2, <1>3 DEF StackInv, Mirror, HookOK

\* A step that writes at or above its own thread's depth alters no other frame.
LEMMA SavedMove ==
  ASSUME StackInv, NEW t \in Threads, top[t] > 0, NEW f, SetCur(t, f), top' = top,
         \A i \in SlotIds : slotTid[i] # t => slotDepth'[i] = slotDepth[i],
         \A i \in SlotIds, d \in FrameIds :
            \/ retAddr'[i][d] = retAddr[i][d] /\ entryTs'[i][d] = entryTs[i][d]
            \/ slotTid[i] = t /\ d >= slotDepth[i],
         SavedAt(t, top[t])', f.pc # "astray"
  PROVE  Saved' /\ ReturnsToCaller'
  <1>1. TypeInv
    BY StackTop
  <1>2. /\ top[t] \in 1..MaxNest /\ top[t] \in 1..top[t]
        /\ frame'[t][top[t]] = f
        /\ \A u \in Threads : top'[u] = top[u] /\ top[u] \in 0..MaxNest
        /\ \A u \in Threads : \A k \in 1..top[u] :
              <<u, k>> # <<t, top[t]>> => frame'[u][k] = frame[u][k]
    BY <1>1, TopMoves
  <1>3. ASSUME NEW u \in Threads, NEW k \in 1..top'[u], <<u, k>> # <<t, top[t]>>
        PROVE  SavedAt(u, k)'
    <2> DEFINE g == frame[u][k]
    <2>1. k \in 1..top[u] /\ frame'[u][k] = g /\ CallId(u, k)' = CallId(u, k)
      BY <1>2, <1>3 DEF CallId
    <2>2. SavedAt(u, k) /\ HookOK(u, g)
      BY <2>1 DEF StackInv, Saved, CoverInv, Hooks
    <2>3. CASE u = t
      <3>1. k < top[t]
        BY <1>2, <1>3, <2>1, <2>3
      <3>2. /\ g.pc = "body"
            /\ g.hooked => /\ g.idx \in SlotIds /\ g.dep \in FrameIds
                           /\ slotTid[g.idx] = t /\ g.dep < slotDepth[g.idx]
        BY <2>1, <2>3, <3>1, LowerFrames
      <3>3. slotDepth \in [SlotIds -> 0..Depth]
        BY <1>1 DEF TypeInv, TypeOK
      <3>4. g.hooked => /\ retAddr'[g.idx][g.dep] = retAddr[g.idx][g.dep]
                        /\ entryTs'[g.idx][g.dep] = entryTs[g.idx][g.dep]
        BY <3>2, <3>3 DEF FrameIds
      <3>5. g.hooked => /\ retAddr[g.idx][g.dep] = CallId(u, k)
                        /\ entryTs[g.idx][g.dep] = CallId(u, k)
        BY <2>2, <3>2 DEF SavedAt
      <3>6. QED
        BY <2>1, <3>2, <3>4, <3>5 DEF SavedAt
    <2>4. CASE u # t
      <3>1. g.hooked \/ g.pc \in Pushing =>
               g.idx \in SlotIds /\ slotTid[g.idx] = u /\ g.dep \in FrameIds
        BY <2>2 DEF HookOK
      <3>2. g.hooked \/ g.pc \in Pushing =>
               /\ retAddr'[g.idx][g.dep] = retAddr[g.idx][g.dep]
               /\ entryTs'[g.idx][g.dep] = entryTs[g.idx][g.dep]
               /\ slotDepth'[g.idx] = slotDepth[g.idx]
        BY <2>4, <3>1
      <3>3. g.pc = "load" => g.hooked
        BY <2>2 DEF HookOK, RetPcs
      <3>4. QED
        BY <2>1, <2>2, <3>2, <3>3 DEF SavedAt, Pushing
    <2>5. QED
      BY <2>3, <2>4
  <1>4. Saved'
    <2>1. ASSUME NEW u \in Threads, NEW k \in 1..top'[u] PROVE SavedAt(u, k)'
      <3>1. CASE <<u, k>> # <<t, top[t]>>
        BY <1>3, <3>1
      <3>2. CASE <<u, k>> = <<t, top[t]>>
        BY <1>2, <3>2 DEF SavedAt, CallId
      <3>3. QED
        BY <3>1, <3>2
    <2>2. QED
      BY <2>1 DEF Saved
  <1>5. ReturnsToCaller'
    <2>1. \A u \in Threads : \A k \in 1..top'[u] : frame'[u][k].pc # "astray"
      BY <1>2 DEF StackInv, ReturnsToCaller
    <2>2. \A u \in Threads : \A k \in 1..top'[u] :
             frame'[u][k].pc = "jump" => frame'[u][k].addr = CallId(u, k)'
      BY <1>4 DEF Saved, SavedAt
    <2>3. QED
      BY <2>1, <2>2 DEF ReturnsToCaller
  <1>6. QED
    BY <1>4, <1>5

\* A step that stores no depth leaves the mirror as it is.
LEMMA MirrorMove ==
  ASSUME StackInv, NEW t \in Threads, top[t] > 0, NEW f, SetCur(t, f),
         UNCHANGED <<top, slotDepth>>,
         \A i \in SlotIds : slotTid'[i] = slotTid[i] \/ slotTid[i] = Zero,
         Counted(f) <=> Counted(Cur(t)),
         Counted(f) => f.idx = Cur(t).idx /\ f.dep = Cur(t).dep
  PROVE  Mirror' /\ FreeEmpty'
  <1>1. TypeInv
    BY StackTop
  <1>2. /\ top[t] \in 1..top[t] /\ Cur(t) = frame[t][top[t]]
        /\ frame'[t][top[t]] = f
        /\ \A u \in Threads : top'[u] = top[u]
        /\ \A u \in Threads : \A k \in 1..top[u] :
              <<u, k>> # <<t, top[t]>> => frame'[u][k] = frame[u][k]
    BY <1>1, TopMoves
  <1>3. \A u \in Threads : \A k \in 1..top[u] :
           /\ Counted(frame'[u][k]) <=> Counted(frame[u][k])
           /\ Counted(frame[u][k]) => /\ frame'[u][k].idx = frame[u][k].idx
                                      /\ frame'[u][k].dep = frame[u][k].dep
    BY <1>2
  <1>4. \A i \in SlotIds : slotTid'[i] # slotTid[i] => slotDepth'[i] = 0
    BY DEF StackInv, FreeEmpty
  <1>5. Mirror'
    <2>1. ASSUME NEW u \in Threads, NEW k \in 1..top'[u], Counted(frame'[u][k])
          PROVE  frame'[u][k].dep < slotDepth'[frame'[u][k].idx]
      BY <1>2, <1>3, <2>1 DEF StackInv, Mirror
    <2>2. ASSUME NEW u \in Threads, NEW k \in 1..top'[u], NEW l \in 1..top'[u],
                 k < l, Counted(frame'[u][k]), Counted(frame'[u][l])
          PROVE  frame'[u][k].dep < frame'[u][l].dep
      BY <1>2, <1>3, <2>2 DEF StackInv, Mirror
    <2>3. ASSUME NEW u \in Threads, NEW i \in SlotIds, slotTid'[i] = u,
                 NEW d \in 0..(slotDepth'[i] - 1)
          PROVE  \E k \in 1..top'[u] : Counted(frame'[u][k]) /\ frame'[u][k].dep = d
      <3>1. slotTid[i] = u /\ d \in 0..(slotDepth[i] - 1)
        BY <1>4, <2>3
      <3>2. QED
        BY <1>2, <1>3, <3>1 DEF StackInv, Mirror
    <2>4. QED
      BY <2>1, <2>2, <2>3 DEF Mirror
  <1>6. FreeEmpty'
    BY DEF StackInv, FreeEmpty
  <1>7. QED
    BY <1>5, <1>6

LEMMA StackMove ==
  ASSUME StackInv, CoverInv', OnlyTopRuns', NEW t \in Threads, top[t] > 0,
         NEW f, SetCur(t, f), UNCHANGED <<top, slotDepth>>,
         \A i \in SlotIds : slotTid'[i] = slotTid[i] \/ slotTid[i] = Zero,
         \A i \in SlotIds, d \in FrameIds :
            \/ retAddr'[i][d] = retAddr[i][d] /\ entryTs'[i][d] = entryTs[i][d]
            \/ slotTid[i] = t /\ d >= slotDepth[i],
         Counted(f) <=> Counted(Cur(t)),
         Counted(f) => f.idx = Cur(t).idx /\ f.dep = Cur(t).dep,
         SavedAt(t, top[t])', f.pc # "astray"
  PROVE  StackInv'
  BY SavedMove, MirrorMove DEF StackInv

\* Up to the load of the depth the entry stub has nothing in the shadow stack,
\* nor has one that gives up.
LEMMA StackEarly ==
  ASSUME StackInv, CoverInv', OnlyTopRuns', NEW t \in Threads,
         \/ CheckEnabled(t) \/ ClaimEvent(t) \/ EntryTid(t) \/ EntryTime(t) \/ Scan(t)
         \/ Cas(t)
         \/ /\ ReadDepth(t)
            /\ slotDepth[Cur(t).idx] >= Depth
  PROVE  StackInv'
  <1> DEFINE c == Cur(t)
             Early == {"claim", "tid", "time", "scan", "cas", "depth", "body"}
  <1>1. /\ top[t] > 0 /\ c.pc \in EntryPcs \ {"swap"}
        /\ UNCHANGED <<top, slotDepth, retAddr, entryTs>>
    BY DEF CheckEnabled, ClaimEvent, EntryTid, EntryTime, Scan, Cas, ReadDepth, At,
           EntryPcs, runtimeVars
  <1>2. TypeInv /\ c \in Frames /\ ~c.hooked /\ top[t] \in 1..top[t]
    BY <1>1, StackTop DEF HookOK
  <1>3. \A i \in SlotIds : slotTid'[i] = slotTid[i] \/ slotTid[i] = Zero
    <2>1. CASE Cas(t)
      BY <1>2, <2>1 DEF Cas, TypeInv, TypeOK
    <2>2. CASE ~Cas(t)
      BY <2>2 DEF CheckEnabled, ClaimEvent, EntryTid, EntryTime, Scan, ReadDepth, runtimeVars
    <2>3. QED
      BY <2>1, <2>2
  <1>4. ASSUME NEW f, SetCur(t, f), f.pc \in Early, ~f.hooked
        PROVE  StackInv'
    <2>1. frame'[t][top'[t]] = f
      BY <1>1, <1>2, <1>4, TopMoves
    <2>2. SavedAt(t, top[t])'
      BY <1>4, <2>1 DEF SavedAt
    <2>3. ~Counted(f) /\ ~Counted(c)
      BY <1>1, <1>2, <1>4 DEF Counted
    <2>4. QED
      BY <1>1, <1>3, <1>4, <2>2, <2>3, StackMove
  <1>5. ASSUME SetCur(t, ToTrampoline(c)) PROVE StackInv'
    BY <1>2, <1>4, <1>5, TrampolineFrame
  <1>6. ASSUME NEW p \in Early, Goto(t, p) PROVE StackInv'
    <2>1. [c EXCEPT !.pc = p].pc = p /\ ~[c EXCEPT !.pc = p].hooked
      BY <1>2 DEF Frames
    <2>2. QED
      BY <1>4, <1>6, <2>1 DEF Goto
  <1>7. ASSUME NEW n, SetCur(t, [c EXCEPT !.pc = "scan", !.idx = n]) PROVE StackInv'
    <2>1. /\ [c EXCEPT !.pc = "scan", !.idx = n].pc = "scan"
          /\ ~[c EXCEPT !.pc = "scan", !.idx = n].hooked
      BY <1>2 DEF Frames
    <2>2. QED
      BY <1>4, <1>7, <2>1
  <1>8. CASE ClaimEvent(t)
    <2>1. /\ [c EXCEPT !.pc = "tid", !.ev = next].pc = "tid"
          /\ ~[c EXCEPT !.pc = "tid", !.ev = next].hooked
      BY <1>2 DEF Frames
    <2>2. QED
      BY <1>4, <1>8, <2>1 DEF ClaimEvent
  <1>9. CASE CheckEnabled(t) \/ EntryTid(t)
    BY <1>5, <1>6, <1>9 DEF CheckEnabled, EntryTid
  <1>10. CASE EntryTime(t) \/ (ReadDepth(t) /\ slotDepth[c.idx] >= Depth)
    <2>1. ReadDepth(t) => slotDepth[c.idx] \in 0..Depth
      BY <1>1, <1>2, StackTop DEF ReadDepth, At, Indexed, TypeInv, TypeOK
    <2>2. SetCur(t, ToTrampoline(c)) \/ SetCur(t, [c EXCEPT !.pc = "scan", !.idx = 0])
      BY <1>10, <2>1 DEF EntryTime, ReadDepth
    <2>3. QED
      BY <1>5, <1>7, <2>2
  <1>11. CASE Scan(t) \/ Cas(t)
    <2>1. \/ SetCur(t, ToTrampoline(c)) \/ Goto(t, "cas") \/ Goto(t, "depth")
          \/ SetCur(t, [c EXCEPT !.pc = "scan", !.idx = c.idx + 1])
      BY <1>11 DEF Scan, Cas, NextSlot
    <2>2. QED
      BY <1>5, <1>6, <1>7, <2>1
  <1>12. QED
    BY <1>8, <1>9, <1>10, <1>11

\* The entry stub fills a frame at its slot's depth.
LEMMA StackFill ==
  ASSUME StackInv, CoverInv', OnlyTopRuns', NEW t \in Threads,
         \/ ReadDepth(t) /\ slotDepth[Cur(t).idx] < Depth
         \/ SaveRet(t) \/ SaveTs(t) \/ SwapReturn(t)
  PROVE  StackInv'
  <1> DEFINE c == Cur(t)
             id == CallId(t, top[t])
  <1>1. /\ top[t] > 0 /\ c.pc \in {"depth", "saveRet", "saveTs", "swap"}
        /\ UNCHANGED <<top, slotDepth, slotTid>>
    BY DEF ReadDepth, SaveRet, SaveTs, SwapReturn, At, runtimeVars
  <1>2. /\ TypeInv /\ c \in Frames /\ ~c.hooked /\ top[t] \in 1..top[t]
        /\ c = frame[t][top[t]] /\ Indexed(c) /\ SavedAt(t, top[t])
        /\ c.idx \in SlotIds /\ slotTid[c.idx] = t
        /\ c.pc # "depth" => c.dep \in FrameIds
    BY <1>1, StackTop DEF HookOK, EntryPcs, Pushing
  <1>3. ASSUME NEW f, SetCur(t, f), f.site = c.site
        PROVE  frame'[t][top'[t]] = f /\ CallId(t, top[t])' = id
    BY <1>1, <1>2, <1>3, TopMoves DEF CallId
  <1>4. /\ retAddr \in [SlotIds -> [FrameIds -> Words]]
        /\ entryTs \in [SlotIds -> [FrameIds -> Words]]
        /\ slotDepth \in [SlotIds -> 0..Depth]
    BY <1>2 DEF TypeInv, TypeOK
  <1>5. CASE ReadDepth(t) /\ slotDepth[c.idx] < Depth
    <2> DEFINE f == [c EXCEPT !.pc = "saveRet", !.dep = slotDepth[c.idx]]
    <2>1. /\ f.pc = "saveRet" /\ f.hooked = c.hooked /\ f.idx = c.idx
          /\ f.dep = slotDepth[c.idx] /\ f.site = c.site
      BY <1>2 DEF Frames
    <2>2. SetCur(t, f) /\ UNCHANGED <<retAddr, entryTs>> /\ c.pc = "depth"
      BY <1>2, <1>4, <1>5 DEF ReadDepth, At, runtimeVars
    <2> HIDE DEF f
    <2>3. SavedAt(t, top[t])'
      BY <1>1, <1>2, <1>3, <2>1, <2>2 DEF SavedAt
    <2>4. ~Counted(f) /\ ~Counted(c)
      BY <1>2, <2>1, <2>2 DEF Counted
    <2>5. QED
      BY <1>1, <2>1, <2>2, <2>3, <2>4, StackMove
  <1>6. CASE SaveRet(t)
    <2> DEFINE f == [c EXCEPT !.pc = "saveTs"]
    <2>1. /\ f.pc = "saveTs" /\ f.hooked = c.hooked /\ f.idx = c.idx
          /\ f.dep = c.dep /\ f.site = c.site
      BY <1>2 DEF Frames
    <2>2. SetCur(t, f) /\ UNCHANGED entryTs /\ c.pc = "saveRet"
      BY <1>6 DEF SaveRet, At, Goto
    <2> HIDE DEF f
    <2>3. retAddr' = [retAddr EXCEPT ![c.idx] = [@ EXCEPT ![c.dep] = id]]
      BY <1>6 DEF SaveRet
    <2>4. /\ retAddr'[c.idx][c.dep] = id
          /\ \A i \in SlotIds, d \in FrameIds :
                i # c.idx \/ d # c.dep => retAddr'[i][d] = retAddr[i][d]
      BY <1>2, <1>4, <2>2, <2>3
    <2>5. c.dep = slotDepth[c.idx]
      BY <1>2, <2>2 DEF SavedAt
    <2>6. SavedAt(t, top[t])'
      <3>1. /\ frame'[t][top'[t]] = f /\ CallId(t, top[t])' = id
            /\ ~f.hooked
        BY <1>2, <1>3, <2>1, <2>2
      <3>2. QED
        BY <1>1, <2>1, <2>4, <2>5, <3>1 DEF SavedAt
    <2>7. ~Counted(f) /\ ~Counted(c)
      BY <1>2, <2>1, <2>2 DEF Counted
    <2>8. \A i \in SlotIds, d \in FrameIds :
             \/ retAddr'[i][d] = retAddr[i][d] /\ entryTs'[i][d] = entryTs[i][d]
             \/ slotTid[i] = t /\ d >= slotDepth[i]
      <3>1. slotTid[c.idx] = t /\ c.dep \in Nat
        BY <1>2, <2>2 DEF FrameIds
      <3>2. QED
        BY <2>2, <2>4, <2>5, <3>1
    <2>9. QED
      BY <1>1, <2>1, <2>2, <2>6, <2>7, <2>8, StackMove
  <1>7. CASE SaveTs(t)
    <2> DEFINE f == [c EXCEPT !.pc = "push"]
    <2>1. /\ f.pc = "push" /\ f.hooked = c.hooked /\ f.idx = c.idx
          /\ f.dep = c.dep /\ f.site = c.site
      BY <1>2 DEF Frames
    <2>2. SetCur(t, f) /\ UNCHANGED retAddr /\ c.pc = "saveTs"
      BY <1>7 DEF SaveTs, At, Goto
    <2> HIDE DEF f
    <2>3. ring[c.ev].ts = id
      <3>1. SearchInv
        BY <1>1, StackTop
      <3>2. ring[c.ev] = [tid |-> t, ts |-> id]
        BY <1>2, <2>2, <3>1 DEF SearchInv, RecordOwn, Reading
      <3>3. QED
        BY <3>2
    <2>4. entryTs' = [entryTs EXCEPT ![c.idx] = [@ EXCEPT ![c.dep] = id]]
      BY <1>7, <2>3 DEF SaveTs
    <2>5. /\ entryTs'[c.idx][c.dep] = id
          /\ \A i \in SlotIds, d \in FrameIds :
                i # c.idx \/ d # c.dep => entryTs'[i][d] = entryTs[i][d]
      BY <1>2, <1>4, <2>2, <2>4
    <2>6. c.dep = slotDepth[c.idx] /\ retAddr[c.idx][c.dep] = id
      BY <1>2, <2>2 DEF SavedAt
    <2>7. SavedAt(t, top[t])'
      <3>1. /\ frame'[t][top'[t]] = f /\ CallId(t, top[t])' = id
            /\ ~f.hooked
        BY <1>2, <1>3, <2>1, <2>2
      <3>2. QED
        BY <1>1, <2>1, <2>2, <2>5, <2>6, <3>1 DEF SavedAt
    <2>8. ~Counted(f) /\ ~Counted(c)
      BY <1>2, <2>1, <2>2 DEF Counted
    <2>9. \A i \in SlotIds, d \in FrameIds :
             \/ retAddr'[i][d] = retAddr[i][d] /\ entryTs'[i][d] = entryTs[i][d]
             \/ slotTid[i] = t /\ d >= slotDepth[i]
      <3>1. slotTid[c.idx] = t /\ c.dep \in Nat
        BY <1>2, <2>2 DEF FrameIds
      <3>2. QED
        BY <2>2, <2>5, <2>6, <3>1
    <2>10. QED
      BY <1>1, <2>1, <2>2, <2>7, <2>8, <2>9, StackMove
  <1>8. CASE SwapReturn(t)
    <2> DEFINE f == [c EXCEPT !.pc = "body", !.ev = 0, !.hooked = TRUE]
    <2>1. /\ f.pc = "body" /\ f.hooked /\ f.idx = c.idx
          /\ f.dep = c.dep /\ f.site = c.site
      BY <1>2 DEF Frames
    <2>2. SetCur(t, f) /\ UNCHANGED <<retAddr, entryTs>> /\ c.pc = "swap"
      BY <1>8 DEF SwapReturn, At, runtimeVars
    <2> HIDE DEF f
    <2>3. retAddr[c.idx][c.dep] = id /\ entryTs[c.idx][c.dep] = id
      BY <1>2, <2>2 DEF SavedAt
    <2>4. SavedAt(t, top[t])'
      BY <1>1, <1>3, <2>1, <2>2, <2>3 DEF SavedAt
    <2>5. Counted(f) /\ Counted(c)
      BY <2>1, <2>2 DEF Counted
    <2>6. QED
      BY <1>1, <2>1, <2>2, <2>4, <2>5, StackMove
  <1>9. QED
    BY <1>5, <1>6, <1>7, <1>8

\* The frame of an activation that returns is the last one of its slot.
LEMMA LastFrame ==
  ASSUME StackInv, NEW t \in Threads, top[t] > 0, Counted(Cur(t))
  PROVE  /\ Cur(t).idx \in SlotIds /\ slotTid[Cur(t).idx] = t
         /\ Cur(t).dep \in FrameIds
         /\ slotDepth[Cur(t).idx] = Cur(t).dep + 1
  <1> DEFINE c == Cur(t)
             n == slotDepth[c.idx]
  <1>1. /\ TypeInv /\ top[t] \in 1..top[t] /\ c = frame[t][top[t]] /\ HookOK(t, c)
        /\ \A k \in 1..top[t] : k < top[t] \/ k = top[t]
    BY StackTop
  <1>2. c.idx \in SlotIds /\ slotTid[c.idx] = t /\ c.dep \in FrameIds
    BY <1>1 DEF HookOK, Counted, Pushing
  <1>3. n \in 0..Depth /\ c.dep \in Int
    BY <1>1, <1>2 DEF TypeInv, TypeOK, FrameIds
  <1>4. c.dep < n
    BY <1>1 DEF StackInv, Mirror
  <1>5. n - 1 \in 0..(n - 1)
    BY <1>2, <1>3, <1>4 DEF FrameIds
  <1>6. PICK k \in 1..top[t] : Counted(frame[t][k]) /\ frame[t][k].dep = n - 1
    BY <1>2, <1>5 DEF StackInv, Mirror
  <1>7. k < top[t] => frame[t][k].dep < c.dep
    BY <1>1, <1>6 DEF StackInv, Mirror
  <1>8. k = top[t]
    BY <1>1, <1>3, <1>4, <1>6, <1>7
  <1>9. QED
    BY <1>1, <1>2, <1>3, <1>6, <1>8

\* The return stub up to the load of the depth.
LEMMA StackFind ==
  ASSUME StackInv, CoverInv', OnlyTopRuns', NEW t \in Threads,
         ReturnHooked(t) \/ FindSlot(t) \/ RetDepth(t)
  PROVE  StackInv'
  <1> DEFINE c == Cur(t)
             id == CallId(t, top[t])
  <1>1. /\ top[t] > 0 /\ UNCHANGED <<top, slotDepth, slotTid, retAddr, entryTs>>
        /\ \/ c.pc = "body" /\ c.hooked
           \/ c.pc \in {"find", "rdepth"}
    BY DEF ReturnHooked, FindSlot, RetDepth, At, runtimeVars
  <1>2. /\ TypeInv /\ SearchInv /\ c \in Frames /\ top[t] \in 1..top[t]
        /\ c = frame[t][top[t]] /\ SavedAt(t, top[t]) /\ c.hooked /\ Counted(c)
    BY <1>1, StackTop DEF HookOK, RetPcs, Counted
  <1>3. /\ c.idx \in SlotIds /\ slotTid[c.idx] = t /\ c.dep \in FrameIds
        /\ slotDepth[c.idx] = c.dep + 1
        /\ retAddr[c.idx][c.dep] = id /\ entryTs[c.idx][c.dep] = id
    BY <1>1, <1>2, LastFrame DEF SavedAt
  <1>4. ASSUME NEW f, SetCur(t, f), f.pc \in {"find", "rdepth", "decr"},
               f.hooked = c.hooked, f.idx = c.idx, f.dep = c.dep, f.site = c.site
        PROVE  StackInv'
    <2>1. frame'[t][top'[t]] = f /\ CallId(t, top[t])' = id
      BY <1>1, <1>2, <1>4, TopMoves DEF CallId
    <2>2. SavedAt(t, top[t])'
      BY <1>1, <1>2, <1>3, <1>4, <2>1 DEF SavedAt
    <2>3. Counted(f)
      BY <1>2, <1>4 DEF Counted
    <2>4. QED
      BY <1>1, <1>2, <1>4, <2>2, <2>3, StackMove
  <1>5. CASE ReturnHooked(t)
    <2> DEFINE f == [c EXCEPT !.pc = "find"]
    <2>1. /\ f.pc = "find" /\ f.hooked = c.hooked /\ f.idx = c.idx /\ f.dep = c.dep
          /\ f.site = c.site
      BY <1>2 DEF Frames
    <2>2. SetCur(t, f)
      BY <1>5 DEF ReturnHooked, Goto
    <2> HIDE DEF f
    <2>3. QED
      BY <1>4, <2>1, <2>2
  <1>6. CASE FindSlot(t)
    <2>1. PICK i \in SlotIds : slotTid[i] = t /\ SetCur(t, [c EXCEPT !.pc = "rdepth", !.idx = i])
      BY <1>3, <1>6 DEF FindSlot
    <2>2. i = c.idx
      BY <1>2, <1>3, <2>1 DEF SearchInv, SlotsUnique
    <2> DEFINE f == [c EXCEPT !.pc = "rdepth", !.idx = i]
    <2>3. /\ f.pc = "rdepth" /\ f.hooked = c.hooked /\ f.idx = c.idx /\ f.dep = c.dep
          /\ f.site = c.site
      BY <1>2, <2>2 DEF Frames
    <2>4. SetCur(t, f)
      BY <2>1
    <2> HIDE DEF f
    <2>5. QED
      BY <1>4, <2>3, <2>4
  <1>7. CASE RetDepth(t)
    <2> DEFINE f == [c EXCEPT !.pc = "decr", !.dep = slotDepth[c.idx] - 1]
    <2>1. c.dep \in Nat
      BY <1>3 DEF FrameIds
    <2>2. /\ f.pc = "decr" /\ f.hooked = c.hooked /\ f.idx = c.idx
          /\ f.dep = slotDepth[c.idx] - 1 /\ f.site = c.site
      BY <1>2 DEF Frames
    <2>3. SetCur(t, f)
      BY <1>3, <1>7, <2>1 DEF RetDepth
    <2> HIDE DEF f
    <2>4. f.dep = c.dep
      BY <1>3, <2>1, <2>2
    <2>5. QED
      BY <1>4, <2>2, <2>3, <2>4
  <1>8. QED
    BY <1>5, <1>6, <1>7

\* The return stub from the load of its frame on.
LEMMA StackLeave ==
  ASSUME StackInv, CoverInv', OnlyTopRuns', NEW t \in Threads,
         LoadReturn(t) \/ RetClaim(t) \/ RetFill(t) \/ RetDuration(t)
  PROVE  StackInv'
  <1> DEFINE c == Cur(t)
             id == CallId(t, top[t])
  <1>1. /\ top[t] > 0 /\ UNCHANGED <<top, slotDepth, slotTid, retAddr, entryTs>>
        /\ c.pc \in {"load", "rclaim", "rfill", "rdur"}
    BY DEF LoadReturn, RetClaim, RetFill, RetDuration, At, runtimeVars
  <1>2. /\ TypeInv /\ c \in Frames /\ top[t] \in 1..top[t]
        /\ c = frame[t][top[t]] /\ SavedAt(t, top[t]) /\ c.hooked /\ ~Counted(c)
    BY <1>1, StackTop DEF HookOK, RetPcs, Counted
  <1>3. /\ c.pc = "load" => retAddr[c.idx][c.dep] = id
        /\ c.pc # "load" => c.addr = id
        /\ entryTs[c.idx][c.dep] = id
    BY <1>1, <1>2 DEF SavedAt
  <1>4. ASSUME NEW f, SetCur(t, f), f.pc \in {"rclaim", "rfill", "rdur", "jump"},
               f.hooked = c.hooked, f.idx = c.idx, f.dep = c.dep, f.site = c.site,
               f.addr = id, f.pc = "jump" => f.dur = id
        PROVE  StackInv'
    <2>1. frame'[t][top'[t]] = f /\ CallId(t, top[t])' = id
      BY <1>1, <1>2, <1>4, TopMoves DEF CallId
    <2>2. SavedAt(t, top[t])'
      BY <1>1, <1>2, <1>3, <1>4, <2>1 DEF SavedAt
    <2>3. ~Counted(f)
      BY <1>4 DEF Counted
    <2>4. QED
      BY <1>1, <1>2, <1>4, <2>2, <2>3, StackMove
  <1>5. CASE LoadReturn(t)
    <2> DEFINE f == [c EXCEPT !.pc = "rclaim", !.addr = retAddr[c.idx][c.dep]]
    <2>1. /\ f.pc = "rclaim" /\ f.hooked = c.hooked /\ f.idx = c.idx /\ f.dep = c.dep
          /\ f.site = c.site /\ f.addr = retAddr[c.idx][c.dep]
      BY <1>2 DEF Frames
    <2>2. SetCur(t, f) /\ c.pc = "load"
      BY <1>5 DEF LoadReturn, At
    <2> HIDE DEF f
    <2>3. QED
      BY <1>3, <1>4, <2>1, <2>2
  <1>6. CASE RetClaim(t)
    <2> DEFINE f == [c EXCEPT !.pc = "rfill", !.ev = next]
    <2>1. /\ f.pc = "rfill" /\ f.hooked = c.hooked /\ f.idx = c.idx /\ f.dep = c.dep
          /\ f.site = c.site /\ f.addr = c.addr
      BY <1>2 DEF Frames
    <2>2. SetCur(t, f) /\ c.pc = "rclaim"
      BY <1>6 DEF RetClaim, At
    <2> HIDE DEF f
    <2>3. QED
      BY <1>3, <1>4, <2>1, <2>2
  <1>7. CASE RetFill(t)
    <2> DEFINE f == [c EXCEPT !.pc = "rdur"]
    <2>1. /\ f.pc = "rdur" /\ f.hooked = c.hooked /\ f.idx = c.idx /\ f.dep = c.dep
          /\ f.site = c.site /\ f.addr = c.addr
      BY <1>2 DEF Frames
    <2>2. SetCur(t, f) /\ c.pc = "rfill"
      BY <1>7 DEF RetFill, At, Goto
    <2> HIDE DEF f
    <2>3. QED
      BY <1>3, <1>4, <2>1, <2>2
  <1>8. CASE RetDuration(t)
    <2> DEFINE f == [c EXCEPT !.pc = "jump", !.dur = entryTs[c.idx][c.dep]]
    <2>1. /\ f.pc = "jump" /\ f.hooked = c.hooked /\ f.idx = c.idx /\ f.dep = c.dep
          /\ f.site = c.site /\ f.addr = c.addr /\ f.dur = entryTs[c.idx][c.dep]
      BY <1>2 DEF Frames
    <2>2. SetCur(t, f) /\ c.pc = "rdur"
      BY <1>8 DEF RetDuration, At
    <2> HIDE DEF f
    <2>3. QED
      BY <1>3, <1>4, <2>1, <2>2
  <1>9. QED
    BY <1>5, <1>6, <1>7, <1>8

\* The two stores of the depth: a frame joins the mirror, the last one leaves it.
LEMMA StackStore ==
  ASSUME StackInv, CoverInv', OnlyTopRuns', NEW t \in Threads,
         PushDepth(t) \/ Decrement(t)
  PROVE  StackInv'
  <1> DEFINE c == Cur(t)
             id == CallId(t, top[t])
             n == IF c.pc = "push" THEN c.dep + 1 ELSE c.dep
             f == [c EXCEPT !.pc = IF c.pc = "push" THEN "swap" ELSE "load"]
  <1>1. /\ top[t] > 0 /\ UNCHANGED <<top, slotTid, retAddr, entryTs>>
        /\ c.pc \in {"push", "decr"}
        /\ slotDepth' = [slotDepth EXCEPT ![c.idx] = n]
        /\ SetCur(t, f)
    BY DEF PushDepth, Decrement, At, Goto
  <1>2. /\ TypeInv /\ SearchInv /\ c \in Frames /\ top[t] \in 1..top[t] /\ top[t] \in Nat
        /\ c = frame[t][top[t]] /\ SavedAt(t, top[t]) /\ HookOK(t, c)
    BY <1>1, StackTop
  <1>3. /\ c.pc = "push" => ~c.hooked /\ ~Counted(c)
        /\ c.pc = "decr" => c.hooked /\ Counted(c)
        /\ c.idx \in SlotIds /\ slotTid[c.idx] = t /\ c.dep \in Nat
    BY <1>1, <1>2 DEF HookOK, RetPcs, EntryPcs, Counted, Pushing, FrameIds
  <1>4. /\ c.pc = "push" => slotDepth[c.idx] = c.dep
        /\ c.pc = "decr" => slotDepth[c.idx] = c.dep + 1
        /\ retAddr[c.idx][c.dep] = id /\ entryTs[c.idx][c.dep] = id
    BY <1>1, <1>2, <1>3, LastFrame DEF SavedAt
  <1>5. /\ slotDepth'[c.idx] = n
        /\ \A i \in SlotIds : i # c.idx => slotDepth'[i] = slotDepth[i]
    BY <1>1, <1>2, <1>3 DEF TypeInv, TypeOK
  <1>6. /\ f.pc = IF c.pc = "push" THEN "swap" ELSE "load"
        /\ f.hooked = c.hooked /\ f.idx = c.idx /\ f.dep = c.dep /\ f.site = c.site
    BY <1>2 DEF Frames
  <1> HIDE DEF f
  <1>7. /\ frame'[t][top'[t]] = f /\ CallId(t, top[t])' = id
        /\ \A u \in Threads : top'[u] = top[u]
        /\ \A u \in Threads : \A k \in 1..top[u] :
              <<u, k>> # <<t, top[t]>> => frame'[u][k] = frame[u][k]
    BY <1>1, <1>2, <1>6, TopMoves DEF CallId
  <1>8. SavedAt(t, top[t])'
    BY <1>1, <1>3, <1>4, <1>5, <1>6, <1>7 DEF SavedAt
  <1>9. Saved' /\ ReturnsToCaller'
    <2>1. \A i \in SlotIds : slotTid[i] # t => slotDepth'[i] = slotDepth[i]
      BY <1>3, <1>5
    <2>2. f.pc # "astray"
      BY <1>6
    <2>3. QED
      BY <1>1, <1>8, <2>1, <2>2, SavedMove
  <1>10. Counted(f) <=> c.pc = "push"
    BY <1>1, <1>6 DEF Counted
  \* The counted activations below the one that executes.
  <1>11. ASSUME NEW k \in 1..top[t], k # top[t]
         PROVE  /\ k < top[t] /\ frame'[t][k] = frame[t][k]
                /\ Counted(frame[t][k]) => /\ frame[t][k].idx = c.idx
                                           /\ frame[t][k].dep < c.dep
                                           /\ frame[t][k].dep \in Nat
    <2>1. k < top[t] /\ frame'[t][k] = frame[t][k]
      BY <1>2, <1>7, <1>11
    <2>2. ASSUME Counted(frame[t][k])
          PROVE  /\ frame[t][k].idx = c.idx
                 /\ frame[t][k].dep < c.dep
                 /\ frame[t][k].dep \in Nat
      <3>1. /\ frame[t][k].idx \in SlotIds /\ slotTid[frame[t][k].idx] = t
            /\ frame[t][k].dep \in Nat
            /\ frame[t][k].dep < slotDepth[frame[t][k].idx]
        BY <2>1, <2>2, LowerFrames DEF Counted, FrameIds
      <3>2. frame[t][k].idx = c.idx
        BY <1>2, <1>3, <3>1 DEF SearchInv, SlotsUnique
      <3>3. CASE c.pc = "push"
        BY <1>4, <3>1, <3>2, <3>3
      <3>4. CASE c.pc = "decr"
        BY <1>2, <1>3, <2>1, <2>2, <3>1, <3>2, <3>4 DEF StackInv, Mirror
      <3>5. QED
        BY <1>1, <3>3, <3>4
    <2>3. QED
      BY <2>1, <2>2
  <1>12. ASSUME NEW u \in Threads, u # t
         PROVE  /\ top'[u] = top[u] /\ \A k \in 1..top[u] : frame'[u][k] = frame[u][k]
                /\ \A i \in SlotIds : slotTid[i] = u => slotDepth'[i] = slotDepth[i]
    BY <1>3, <1>5, <1>7, <1>12
  <1>13. ASSUME NEW u \in Threads, NEW k \in 1..top'[u], Counted(frame'[u][k])
         PROVE  frame'[u][k].dep < slotDepth'[frame'[u][k].idx]
    <2>1. CASE u = t /\ k = top[t]
      BY <1>3, <1>5, <1>6, <1>7, <1>10, <1>13, <2>1
    <2>2. CASE u = t /\ k # top[t]
      BY <1>3, <1>5, <1>7, <1>11, <1>13, <2>2
    <2>3. CASE u # t
      <3>1. k \in 1..top[u] /\ frame'[u][k] = frame[u][k] /\ HookOK(u, frame[u][k])
        BY <1>12, <2>3 DEF StackInv, CoverInv, Hooks
      <3>2. /\ frame[u][k].idx \in SlotIds /\ slotTid[frame[u][k].idx] = u
            /\ frame[u][k].dep < slotDepth[frame[u][k].idx]
        BY <1>13, <3>1 DEF HookOK, Counted, Pushing, StackInv, Mirror
      <3>3. QED
        BY <1>12, <2>3, <3>1, <3>2
    <2>4. QED
      BY <2>1, <2>2, <2>3
  <1>14. ASSUME NEW u \in Threads, NEW k \in 1..top'[u], NEW l \in 1..top'[u],
                k < l, Counted(frame'[u][k]), Counted(frame'[u][l])
         PROVE  frame'[u][k].dep < frame'[u][l].dep
    <2>1. CASE u # t
      BY <1>12, <1>14, <2>1 DEF StackInv, Mirror
    <2>2. CASE u = t
      <3>1. k # top[t] /\ k \in 1..top[t] /\ l \in 1..top[t]
        BY <1>2, <1>7, <1>14, <2>2
      <3>2. CASE l = top[t]
        BY <1>6, <1>7, <1>11, <1>14, <2>2, <3>1, <3>2
      <3>3. CASE l # top[t]
        BY <1>11, <1>14, <2>2, <3>1, <3>3 DEF StackInv, Mirror
      <3>4. QED
        BY <3>2, <3>3
    <2>3. QED
      BY <2>1, <2>2
  <1>15. ASSUME NEW u \in Threads, NEW i \in SlotIds, slotTid'[i] = u,
                NEW d \in 0..(slotDepth'[i] - 1)
         PROVE  \E k \in 1..top'[u] : Counted(frame'[u][k]) /\ frame'[u][k].dep = d
    <2>1. CASE u # t
      BY <1>1, <1>12, <1>15, <2>1 DEF StackInv, Mirror
    <2>2. CASE u = t /\ c.pc = "push" /\ d = c.dep
      BY <1>6, <1>7, <1>10, <1>2, <2>2
    <2>3. CASE u = t /\ ~(c.pc = "push" /\ d = c.dep)
      <3>1. i = c.idx
        BY <1>1, <1>2, <1>3, <1>15, <2>3 DEF SearchInv, SlotsUnique
      <3>2. d \in 0..(slotDepth[i] - 1) /\ d # c.dep
        BY <1>1, <1>3, <1>4, <1>5, <1>15, <2>3, <3>1
      <3>3. PICK k \in 1..top[t] : Counted(frame[t][k]) /\ frame[t][k].dep = d
        BY <1>3, <3>1, <3>2 DEF StackInv, Mirror
      <3>4. k # top[t]
        BY <1>2, <3>2, <3>3
      <3>5. QED
        BY <1>7, <1>11, <2>3, <3>3, <3>4
    <2>4. QED
      BY <2>1, <2>2, <2>3
  <1>16. Mirror'
    BY <1>13, <1>14, <1>15 DEF Mirror
  <1>17. FreeEmpty'
    BY <1>1, <1>3, <1>5 DEF StackInv, FreeEmpty
  <1>18. QED
    BY <1>9, <1>16, <1>17 DEF StackInv

\* Activations begin and end with nothing in the shadow stack.
LEMMA StackKept ==
  ASSUME StackInv, CoverInv', OnlyTopRuns', UNCHANGED runtimeVars,
         NEW t \in Threads, NEW m \in 1..MaxNest,
         \A u \in Threads, k \in 1..MaxNest : <<u, k>> # <<t, m>> => frame'[u][k] = frame[u][k],
         \A u \in Threads : u # t => top'[u] = top[u],
         \/ top'[t] = m /\ m = top[t] + 1
            /\ frame'[t][m].pc = "check" /\ ~frame'[t][m].hooked
         \/ top[t] = m /\ top'[t] = m - 1 /\ ~Counted(frame[t][m])
  PROVE  StackInv'
  <1>1. top \in [Threads -> 0..MaxNest] /\ UNCHANGED <<slotTid, slotDepth, retAddr, entryTs>>
    BY DEF StackInv, CoverInv, SearchInv, TypeInv, TypeOK, runtimeVars
  \* An activation is there before and after the step, or it is the new one.
  <1>2. ASSUME NEW u \in Threads, NEW k \in 1..top'[u]
        PROVE  \/ /\ k \in 1..top[u] /\ frame'[u][k] = frame[u][k]
                  /\ CallId(u, k)' = CallId(u, k)
               \/ /\ u = t /\ k = m /\ frame'[u][k].pc = "check"
                  /\ ~frame'[u][k].hooked
    <2>1. CASE <<u, k>> = <<t, m>>
      BY <1>1, <1>2, <2>1
    <2>2. CASE <<u, k>> # <<t, m>>
      <3>1. k \in 1..top[u] /\ k \in 1..MaxNest
        BY <1>1, <1>2, <2>2
      <3>2. frame'[u][k] = frame[u][k]
        BY <2>2, <3>1
      <3>3. QED
        BY <3>1, <3>2 DEF CallId
    <2>3. QED
      BY <2>1, <2>2
  <1>3. \A u \in Threads : \A k \in 1..top'[u] :
           Counted(frame'[u][k]) => k \in 1..top[u] /\ frame'[u][k] = frame[u][k]
    BY <1>2 DEF Counted
  <1>4. ASSUME NEW u \in Threads, NEW k \in 1..top[u], Counted(frame[u][k])
        PROVE  k \in 1..top'[u] /\ frame'[u][k] = frame[u][k]
    <2>1. k \in 1..MaxNest
      BY <1>1
    <2>2. <<u, k>> # <<t, m>>
      BY <1>1, <1>4
    <2>3. QED
      BY <1>1, <2>1, <2>2
  <1>5. Saved'
    <2>1. ASSUME NEW u \in Threads, NEW k \in 1..top'[u] PROVE SavedAt(u, k)'
      <3>1. CASE frame'[u][k].pc = "check" /\ ~frame'[u][k].hooked
        BY <3>1 DEF SavedAt
      <3>2. CASE /\ k \in 1..top[u] /\ frame'[u][k] = frame[u][k]
                 /\ CallId(u, k)' = CallId(u, k)
        BY <1>1, <3>2 DEF StackInv, Saved, SavedAt
      <3>3. QED
        BY <1>2, <3>1, <3>2
    <2>2. QED
      BY <2>1 DEF Saved
  <1>6. ReturnsToCaller'
    BY <1>2 DEF StackInv, ReturnsToCaller
  <1>7. Mirror'
    BY <1>1, <1>3, <1>4 DEF StackInv, Mirror
  <1>8. FreeEmpty'
    BY <1>1 DEF StackInv, FreeEmpty
  <1>9. QED
    BY <1>5, <1>6, <1>7, <1>8 DEF StackInv

LEMMA StackPop ==
  ASSUME StackInv, CoverInv', OnlyTopRuns', UNCHANGED runtimeVars,
         NEW t \in Threads, top[t] > 0, Pop(t), ~Counted(Cur(t))
  PROVE  StackInv'
  <1>1. /\ TypeInv /\ top[t] \in 1..MaxNest /\ Cur(t) = frame[t][top[t]]
        /\ top \in [Threads -> 0..MaxNest]
    BY StackTop DEF TypeInv, TypeOK
  <1>2. /\ \A u \in Threads, k \in 1..MaxNest :
              <<u, k>> # <<t, top[t]>> => frame'[u][k] = frame[u][k]
    BY <1>1, SetCurEffect DEF Pop
  <1>3. /\ top'[t] = top[t] - 1
        /\ \A u \in Threads : u # t => top'[u] = top[u]
    BY <1>1 DEF Pop
  <1>4. QED
    BY <1>1, <1>2, <1>3, StackKept

\* Every return of the stub goes to its own caller.
LEMMA ReturnsHome ==
  ASSUME StackInv, NEW t \in Threads, JumpBack(t)
  PROVE  top[t] > 0 /\ Pop(t) /\ ~Counted(Cur(t))
  <1>1. top[t] > 0 /\ Cur(t).pc = "jump"
    BY DEF JumpBack, At
  <1>2. Cur(t).addr = CallId(t, top[t])
    BY <1>1, StackTop DEF StackInv, ReturnsToCaller
  <1>3. QED
    BY <1>1, <1>2 DEF JumpBack, Counted

LEMMA StackStep ==
  ASSUME Env = {}
  PROVE  StackInv /\ [Next]_vars => StackInv'
  <1> SUFFICES ASSUME StackInv, [Next]_vars PROVE StackInv'
    OBVIOUS
  <1>1. /\ CoverInv' /\ TypeInv
        /\ OnlyTopRuns'
    BY CoverStep, OnlyTopStep DEF StackInv, CoverInv, SearchInv
  <1>2. CASE Toggle \/ UNCHANGED vars
    <2>1. UNCHANGED <<slotTid, slotDepth, retAddr, entryTs, top, frame>>
      BY <1>2 DEF Toggle, vars, runtimeVars
    <2>2. \A u \in Threads : \A k : CallId(u, k)' = CallId(u, k)
      BY <2>1 DEF CallId
    <2>3. Saved' /\ ReturnsToCaller'
      BY <2>1, <2>2 DEF StackInv, Saved, SavedAt, ReturnsToCaller
    <2>4. Mirror' /\ FreeEmpty'
      BY <2>1 DEF StackInv, Mirror, FreeEmpty
    <2>5. QED
      BY <1>1, <2>3, <2>4 DEF StackInv
  <1>3. ASSUME NEW t \in Threads, StubStep(t) PROVE StackInv'
    <2>1. CASE JumpBack(t)
      BY <1>1, <2>1, ReturnsHome, StackPop DEF JumpBack
    <2>2. CASE ReadDepth(t)
      <3>1. slotDepth[Cur(t).idx] >= Depth \/ slotDepth[Cur(t).idx] < Depth
        BY <2>2 DEF ReadDepth
      <3>2. QED
        BY <1>1, <2>2, <3>1, StackEarly, StackFill
    <2>3. QED
      BY <1>1, <1>3, <2>1, <2>2, StackEarly, StackFill, StackStore, StackFind, StackLeave
         DEF StubStep, EntryStub, RetStub
  <1>4. ASSUME NEW t \in Threads, Target(t) PROVE StackInv'
    <2>1. CASE \E s \in Sites : Call(t, s)
      <3>1. PICK s \in Sites : Call(t, s)
        BY <2>1
      <3> DEFINE f == Fresh(s, "check", FALSE)
      <3>2. Push(t, f) /\ f \in Frames /\ f.pc = "check" /\ ~f.hooked
        BY <3>1, FreshFrame DEF Call
      <3> HIDE DEF f
      <3>3. /\ top[t] + 1 \in 1..MaxNest
            /\ top' = [top EXCEPT ![t] = top[t] + 1]
            /\ frame'[t][top[t] + 1] = f
            /\ \A u \in Threads, k \in 1..MaxNest :
                  <<u, k>> # <<t, top[t] + 1>> => frame'[u][k] = frame[u][k]
        BY <1>1, <3>2, PushEffect
      <3>4. /\ top'[t] = top[t] + 1
            /\ \A u \in Threads : u # t => top'[u] = top[u]
        BY <1>1, <3>3 DEF TypeInv, TypeOK
      <3>5. UNCHANGED runtimeVars
        BY <3>1 DEF Call
      <3>6. QED
        BY <1>1, <3>2, <3>3, <3>4, <3>5, StackKept
    <2>2. CASE ReturnPlain(t) \/ HandlerReturn(t)
      <3>1. top[t] > 0 /\ Cur(t).pc = "body" /\ Pop(t) /\ UNCHANGED runtimeVars
        BY <2>2 DEF ReturnPlain, HandlerReturn, At
      <3>2. ~Cur(t).handler
        BY <3>1, StackTop DEF StackInv, OnlyTopRuns
      <3>3. ~Counted(Cur(t))
        BY <2>2, <3>1, <3>2 DEF ReturnPlain, HandlerReturn, Counted
      <3>4. QED
        BY <1>1, <3>1, <3>3, StackPop
    <2>3. CASE ReturnHooked(t)
      BY <1>1, <2>3, StackFind
    <2>4. QED
      BY <1>4, <2>1, <2>2, <2>3 DEF Target, Signal, Longjmp
  <1>5. QED
    BY <1>2, <1>3, <1>4 DEF Next

\* Without laps, handlers and longjmp the shadow stack holds, in order, the
\* return address and the entry time of every activation that is to come back.
THEOREM StackMirrored ==
  ASSUME Env = {}
  PROVE  Spec => []StackInv
  <1>1. StackInv /\ [Next]_vars => StackInv'
    BY StackStep
  <1>2. QED
    BY <1>1, StackInit, PTL DEF Spec

\* A return that went through the return stub continues after its own call.
THEOREM EveryReturnHome ==
  ASSUME Env = {}
  PROVE  Spec => []ReturnsToCaller
  <1>1. StackInv => ReturnsToCaller
    BY DEF StackInv
  <1>2. QED
    BY <1>1, StackMirrored, PTL

\* The duration of a return event is measured from the entry of its own call.
THEOREM DurationIsOwn ==
  ASSUME Env = {}
  PROVE  Spec => []OwnDuration
  <1>1. StackInv => OwnDuration
    BY DEF StackInv, Saved, SavedAt, OwnDuration
  <1>2. QED
    BY <1>1, StackMirrored, PTL

\* The depth of a thread's slot is the number of its activations that will
\* return through the return stub, at every instruction of the stubs.
THEOREM DepthIsBalanced ==
  ASSUME Env = {}
  PROVE  Spec => []DepthBalanced
  <1>1. ASSUME StackInv, NEW t \in Threads, NEW i \in SlotIds, slotTid[i] = t
        PROVE  slotDepth[i] = Cardinality(Pending(t))
    <2> DEFINE P == Pending(t)
               D == 0..(slotDepth[i] - 1)
               F == [k \in P |-> frame[t][k].dep]
    <2>1. TypeInv /\ SearchInv
      BY <1>1 DEF StackInv, CoverInv, SearchInv
    <2>2. slotDepth[i] \in Nat
      BY <2>1 DEF TypeInv, TypeOK
    <2>3. \A k \in P : /\ k \in 1..top[t] /\ Counted(frame[t][k])
                       /\ frame[t][k].dep \in D
      <3> SUFFICES ASSUME NEW k \in P PROVE frame[t][k].dep \in D
        BY DEF Pending
      <3>1. k \in 1..top[t] /\ Counted(frame[t][k])
        BY DEF Pending
      <3>2. /\ frame[t][k].idx \in SlotIds /\ slotTid[frame[t][k].idx] = t
            /\ frame[t][k].dep \in Nat
        BY <1>1, <3>1 DEF StackInv, CoverInv, Hooks, HookOK, Counted, Pushing, FrameIds
      <3>3. frame[t][k].idx = i
        BY <1>1, <2>1, <3>2 DEF SearchInv, SlotsUnique
      <3>4. frame[t][k].dep < slotDepth[i]
        BY <1>1, <3>1, <3>3 DEF StackInv, Mirror
      <3>5. QED
        BY <2>2, <3>2, <3>4
    <2>4. \A k, l \in P : frame[t][k].dep = frame[t][l].dep => k = l
      <3> SUFFICES ASSUME NEW k \in P, NEW l \in P, k < l
                   PROVE  frame[t][k].dep # frame[t][l].dep
        BY <2>3
      <3>1. frame[t][k].dep < frame[t][l].dep
        BY <1>1, <2>3 DEF StackInv, Mirror
      <3>2. QED
        BY <2>3, <3>1
    <2>5. \A d \in D : \E k \in P : frame[t][k].dep = d
      BY <1>1 DEF StackInv, Mirror, Pending
    <2>6. F \in Bijection(P, D)
      BY <2>3, <2>4, <2>5 DEF Bijection, Injection, Surjection, IsInjective
    <2>7. IsFiniteSet(P)
      BY <2>1, PendingFinite
    <2>8. Cardinality(D) = Cardinality(P)
      BY <2>6, <2>7, FS_Bijection DEF ExistsBijection
    <2>9. Cardinality(D) = slotDepth[i]
      BY <2>2, FS_Interval
    <2>10. QED
      BY <2>8, <2>9
  <1>2. StackInv => DepthBalanced
    BY <1>1 DEF DepthBalanced
  <1>3. QED
    BY <1>2, StackMirrored, PTL
-----------------------------------------------------------------------------
(* The stubs implement the plain call and return of CallReturn. *)

\* No thread is astray: the levels of CallReturn are those of the stacks.
LEMMA LevelIsTop ==
  ASSUME StackInv
  PROVE  [t \in Threads |-> IF Astray(t) THEN -1 ELSE top[t]] = top
  <1>1. top \in [Threads -> 0..MaxNest]
    BY DEF StackInv, CoverInv, SearchInv, TypeInv, TypeOK
  <1>2. \A t \in Threads : ~Astray(t)
    <2> SUFFICES ASSUME NEW t \in Threads, top[t] > 0 PROVE Cur(t).pc # "astray"
      BY DEF Astray
    <2>1. top[t] \in 1..top[t] /\ Cur(t) = frame[t][top[t]]
      BY StackTop
    <2>2. QED
      BY <2>1 DEF StackInv, ReturnsToCaller
  <1>3. QED
    BY <1>1, <1>2

\* A step of the target or of a stub calls, returns, or moves no stack.
LEMMA CallReturnStep ==
  ASSUME Env = {}, StackInv, [Next]_vars
  PROVE  \/ UNCHANGED top
         \/ \E t \in Threads :
               \/ top[t] \in 0..(MaxNest - 1) /\ top' = [top EXCEPT ![t] = @ + 1]
               \/ top[t] \in 1..MaxNest /\ top' = [top EXCEPT ![t] = @ - 1]
  <1>1. TypeInv /\ top \in [Threads -> 0..MaxNest]
    BY DEF StackInv, CoverInv, SearchInv, TypeInv, TypeOK
  <1>2. CASE Toggle \/ UNCHANGED vars
    BY <1>2 DEF Toggle, vars
  <1>3. ASSUME NEW t \in Threads, top[t] > 0, Pop(t)
        PROVE  top[t] \in 1..MaxNest /\ top' = [top EXCEPT ![t] = @ - 1]
    BY <1>1, <1>3 DEF Pop
  <1>4. ASSUME NEW t \in Threads, StubStep(t) \/ Target(t), top' # top
        PROVE  \/ top[t] \in 0..(MaxNest - 1) /\ top' = [top EXCEPT ![t] = @ + 1]
               \/ top[t] > 0 /\ Pop(t)
    <2>1. CASE StubStep(t) \/ ReturnHooked(t)
      BY <1>1, <1>4, <2>1, StubMoves
    <2>2. CASE \E s \in Sites : Call(t, s)
      BY <1>1, <2>2 DEF Call, Push
    <2>3. CASE ReturnPlain(t) \/ HandlerReturn(t)
      BY <2>3 DEF ReturnPlain, HandlerReturn, At
    <2>4. QED
      BY <1>4, <2>1, <2>2, <2>3 DEF Target, Signal, Longjmp
  <1>5. QED
    BY <1>2, <1>3, <1>4 DEF Next

\* A probed program that no signal or longjmp interrupts calls and returns as
\* it does without the probe.
THEOREM ProbeTransparent ==
  ASSUME Env = {}
  PROVE  Spec => Transparent
  <1> DEFINE level == [t \in Threads |-> IF Astray(t) THEN -1 ELSE top[t]]
  <1>1. Init => CR!Init
    <2> SUFFICES ASSUME Init PROVE level = [t \in Threads |-> 0]
      BY DEF CR!Init
    <2>1. level = top
      BY StackInit, LevelIsTop
    <2>2. QED
      BY <2>1 DEF Init
  <1>2. StackInv => level = top
    BY LevelIsTop
  <1>3. StackInv' => (level = top)'
    BY <1>2, PTL
  <1>4. ASSUME StackInv, StackInv', [Next]_vars PROVE [CR!Next]_level
    <2>1. level = top /\ level' = top'
      BY <1>2, <1>3, <1>4
    <2> HIDE DEF level
    <2>2. \/ UNCHANGED level
          \/ \E t \in Threads :
                \/ level[t] \in 0..(MaxNest - 1) /\ level' = [level EXCEPT ![t] = @ + 1]
                \/ level[t] \in 1..MaxNest /\ level' = [level EXCEPT ![t] = @ - 1]
      BY <1>4, <2>1, CallReturnStep
    <2> USE DEF level
    <2>3. UNCHANGED level \/ \E t \in Threads : CR!Call(t) \/ CR!Return(t)
      BY <2>2 DEF CR!Call, CR!Return
    <2>4. QED
      BY <2>3 DEF CR!Next
  <1>5. QED
    BY <1>1, <1>4, StackMirrored, PTL DEF Spec, Transparent, CR!Spec
=============================================================================
