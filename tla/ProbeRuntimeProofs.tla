-------------------------- MODULE ProbeRuntimeProofs --------------------------
(***************************************************************************)
(* What holds of the stubs for every number of threads, slots, frames and  *)
(* ring records.                                                           *)
(***************************************************************************)
EXTENDS ProbeRuntimeInv, TLAPS

USE SizeAssumption, ZeroAssumption, ModeAssumption
-----------------------------------------------------------------------------
(* Frames and stacks. *)

\* The activation an action at pc p works on.
LEMMA CurFrame ==
  ASSUME TypeInv, NEW t \in Threads, top[t] > 0
  PROVE  /\ top[t] \in 1..MaxNest
         /\ Cur(t) \in Frames
         /\ Cur(t) = frame[t][top[t]]
         /\ CallId(t, top[t]) \in Words
  BY DEF TypeInv, TypeOK, Cur, CallId, Words, Calls, Frames

LEMMA SetCurEffect ==
  ASSUME TypeInv, NEW t \in Threads, top[t] > 0, NEW f, SetCur(t, f)
  PROVE  /\ f \in Frames => frame' \in [Threads -> [1..MaxNest -> Frames]]
         /\ frame'[t][top[t]] = f
         /\ \A u \in Threads, k \in 1..MaxNest :
               <<u, k>> # <<t, top[t]>> => frame'[u][k] = frame[u][k]
  <1>1. top[t] \in 1..MaxNest
    BY DEF TypeInv, TypeOK
  <1>2. QED
    BY <1>1 DEF TypeInv, TypeOK, SetCur

LEMMA PushEffect ==
  ASSUME TypeInv, NEW t \in Threads, NEW f \in Frames, Push(t, f)
  PROVE  /\ frame' \in [Threads -> [1..MaxNest -> Frames]]
         /\ top' \in [Threads -> 0..MaxNest]
         /\ top[t] + 1 \in 1..MaxNest
         /\ top' = [top EXCEPT ![t] = top[t] + 1]
         /\ frame'[t][top[t] + 1] = f
         /\ \A u \in Threads, k \in 1..MaxNest :
               <<u, k>> # <<t, top[t] + 1>> => frame'[u][k] = frame[u][k]
  <1>1. top[t] + 1 \in 1..MaxNest
    BY DEF TypeInv, TypeOK, Push
  <1>2. QED
    BY <1>1 DEF TypeInv, TypeOK, Push

LEMMA IdleFrame == Idle \in Frames /\ Idle.pc = "body" /\ ~Idle.hooked
  BY DEF Idle, Fresh, Frames, Pcs, StubPcs, EntryPcs, RetPcs, Words, Records

LEMMA FreshFrame ==
  ASSUME NEW s \in Sites \cup {Zero}, NEW h \in BOOLEAN, NEW p \in {"check", "body"}
  PROVE  /\ Fresh(s, p, h) \in Frames
         /\ Fresh(s, p, h).pc = p
         /\ Fresh(s, p, h).handler = h
         /\ Fresh(s, p, h).hooked = FALSE
  BY DEF Fresh, Frames, Pcs, StubPcs, EntryPcs, RetPcs, Words, Records

LEMMA TrampolineFrame ==
  ASSUME NEW f \in Frames
  PROVE  /\ ToTrampoline(f) \in Frames
         /\ ToTrampoline(f).pc = "body"
         /\ ToTrampoline(f).hooked = f.hooked
         /\ ToTrampoline(f).handler = f.handler
         /\ ToTrampoline(f).site = f.site
  <1>1. "body" \in Pcs /\ 0 \in 0..Slots /\ 0 \in Records /\ 0 \in 0..Depth
    BY DEF Pcs, Records
  <1>2. QED
    BY <1>1 DEF ToTrampoline, Frames
-----------------------------------------------------------------------------
(* The types of the state and of the stubs' registers. *)

LEMMA TypeInit == Init => TypeInv
  BY IdleFrame DEF Init, TypeInv, TypeOK, RegsOK, Indexed, Records, SlotIds,
                   FrameIds, Words

\* A step on the activation on top keeps the types if the frame it leaves is
\* typed.
LEMMA SetCurType ==
  ASSUME TypeInv, NEW t \in Threads, top[t] > 0, NEW f \in Frames,
         Indexed(f), SetCur(t, f)
  PROVE  frame' \in [Threads -> [1..MaxNest -> Frames]] /\ RegsOK'
  <1>1. /\ frame' \in [Threads -> [1..MaxNest -> Frames]]
        /\ \A u \in Threads, k \in 1..MaxNest :
              frame'[u][k] = f \/ frame'[u][k] = frame[u][k]
    BY SetCurEffect
  <1>2. ASSUME NEW u \in Threads, NEW k \in 1..MaxNest
        PROVE  Indexed(frame'[u][k])
    BY <1>1, <1>2 DEF TypeInv, RegsOK
  <1>3. QED
    BY <1>1, <1>2 DEF RegsOK

LEMMA TypeStep == TypeInv /\ [Next]_vars => TypeInv'
  <1> SUFFICES ASSUME TypeInv, [Next]_vars PROVE TypeInv'
    OBVIOUS
  <1>1. CASE Toggle
    BY <1>1 DEF Toggle, TypeInv, TypeOK, RegsOK, runtimeVars
  <1>2. ASSUME NEW t \in Threads, StubStep(t) PROVE TypeInv'
    <2> DEFINE c == Cur(t)
               Typed(f) == f \in Frames /\ Indexed(f)
               Moved == \E f : Typed(f) /\ SetCur(t, f)
    <2>0. /\ top[t] > 0
          /\ top[t] \in 1..MaxNest
          /\ c \in Frames
          /\ Indexed(c)
          /\ CallId(t, top[t]) \in Words
      <3>1. top[t] > 0
        BY <1>2 DEF StubStep, EntryStub, RetStub, CheckEnabled, ClaimEvent, EntryTid,
             EntryTime, Scan, Cas, ReadDepth, SaveRet, SaveTs, PushDepth, SwapReturn,
             FindSlot, RetDepth, Decrement, LoadReturn, RetClaim, RetFill,
             RetDuration, JumpBack, At
      <3>2. QED
        BY <3>1, CurFrame DEF TypeInv, RegsOK
    <2>1. Moved => frame' \in [Threads -> [1..MaxNest -> Frames]] /\ RegsOK'
      BY <2>0, SetCurType
    <2>2. ASSUME NEW p \in {"claim", "tid", "time", "scan", "check", "body", "find", "trap", "astray"},
                 Goto(t, p)
          PROVE  Moved
      <3>1. Typed([c EXCEPT !.pc = p])
        BY <2>0 DEF Frames, Pcs, StubPcs, EntryPcs, RetPcs, Indexed
      <3>2. QED
        BY <2>2, <3>1 DEF Goto
    <2>3. SetCur(t, ToTrampoline(c)) => Moved
      <3>1. Typed(ToTrampoline(c))
        BY <2>0, TrampolineFrame DEF Indexed
      <3>2. QED
        BY <3>1
    <2>4. CASE CheckEnabled(t)
      BY <2>1, <2>2, <2>3, <2>4 DEF CheckEnabled, TypeInv, TypeOK, runtimeVars
    <2>5. CASE ClaimEvent(t)
      <3>1. Typed([c EXCEPT !.pc = "tid", !.ev = next])
        BY <2>0 DEF Frames, Pcs, StubPcs, EntryPcs, TypeInv, TypeOK, Indexed
      <3>2. Moved
        BY <2>5, <3>1 DEF ClaimEvent
      <3>3. QED
        BY <2>1, <2>5, <3>2 DEF ClaimEvent, Claim, TypeInv, TypeOK, runtimeVars, Records
    <2>6. CASE EntryTid(t)
      <3>1. ring' \in [Records -> [tid : Threads \cup {Zero}, ts : Words]]
        BY <2>0, <2>6 DEF EntryTid, TypeInv, TypeOK, Frames
      <3>2. QED
        BY <2>1, <2>2, <2>6, <3>1 DEF EntryTid, TypeInv, TypeOK, runtimeVars
    <2>7. CASE EntryTime(t)
      <3>1. ring' \in [Records -> [tid : Threads \cup {Zero}, ts : Words]]
        BY <2>0, <2>7 DEF EntryTime, TypeInv, TypeOK, Frames
      <3>2. Typed([c EXCEPT !.pc = "scan", !.idx = 0])
        <4>1. 0 \in 0..Slots /\ "scan" \in Pcs
          BY DEF Pcs, StubPcs, EntryPcs
        <4>2. QED
          BY <2>0, <4>1 DEF Frames, Indexed
      <3>3. Moved
        BY <2>3, <2>7, <3>2 DEF EntryTime
      <3>4. QED
        BY <2>1, <2>7, <3>1, <3>3 DEF EntryTime, TypeInv, TypeOK, runtimeVars
    <2>8. CASE Scan(t)
      <3>1. c.pc = "scan"
        BY <2>8 DEF Scan, At
      <3>2. ASSUME c.idx # Slots
            PROVE  /\ Typed([c EXCEPT !.pc = "cas"])
                   /\ Typed([c EXCEPT !.pc = "depth"])
                   /\ Typed([c EXCEPT !.pc = "scan", !.idx = c.idx + 1])
        <4>1. c.idx \in SlotIds /\ c.idx + 1 \in 0..Slots
          BY <2>0, <3>2 DEF Frames, SlotIds
        <4>2. QED
          BY <2>0, <3>1, <4>1 DEF Frames, Pcs, StubPcs, EntryPcs, Indexed
      <3>3. CASE c.idx = Slots
        BY <2>1, <2>3, <2>8, <3>3 DEF Scan, TypeInv, TypeOK, runtimeVars
      <3>4. CASE c.idx # Slots
        <4>1. Moved
          BY <2>8, <3>2, <3>4 DEF NextSlot, Scan, Goto
        <4>2. QED
          BY <2>1, <2>8, <4>1 DEF Scan, TypeInv, TypeOK, runtimeVars
      <3>5. QED
        BY <3>3, <3>4
    <2>9. CASE Cas(t)
      <3>1. c.pc = "cas" /\ c.idx \in SlotIds /\ c.ev \in Records
        BY <2>0, <2>9 DEF Cas, At, Indexed, Frames
      <3>2. /\ Typed([c EXCEPT !.pc = "depth"])
            /\ Typed([c EXCEPT !.pc = "scan", !.idx = c.idx + 1])
        <4>1. c.idx + 1 \in 0..Slots
          BY <3>1 DEF SlotIds
        <4>2. QED
          BY <2>0, <3>1, <4>1 DEF Frames, Pcs, StubPcs, EntryPcs, Indexed
      <3>3. Moved
        BY <2>9, <3>2 DEF NextSlot, Cas, Goto
      <3>4. slotTid' \in [SlotIds -> Threads \cup {Zero}]
        BY <2>9, <3>1 DEF Cas, TypeInv, TypeOK
      <3>5. QED
        BY <2>1, <2>9, <3>3, <3>4 DEF Cas, TypeInv, TypeOK
    <2>10. CASE ReadDepth(t)
      <3>1. /\ c.pc = "depth" /\ c.idx \in SlotIds /\ slotDepth[c.idx] \in 0..Depth
            /\ slotDepth[c.idx] < Depth => slotDepth[c.idx] \in FrameIds
        BY <2>0, <2>10 DEF ReadDepth, At, Indexed, TypeInv, TypeOK, FrameIds
      <3>2. slotDepth[c.idx] < Depth
               => Typed([c EXCEPT !.pc = "saveRet", !.dep = slotDepth[c.idx]])
        BY <2>0, <3>1 DEF Frames, Pcs, StubPcs, EntryPcs, Indexed
      <3>3. Moved
        BY <2>3, <2>10, <3>2 DEF ReadDepth
      <3>4. QED
        BY <2>1, <2>10, <3>3 DEF ReadDepth, TypeInv, TypeOK, runtimeVars
    <2>11. CASE SaveRet(t)
      <3>1. c.pc = "saveRet" /\ c.idx \in SlotIds /\ c.dep \in FrameIds
        BY <2>0, <2>11 DEF SaveRet, At, Indexed
      <3>2. Typed([c EXCEPT !.pc = "saveTs"])
        BY <2>0, <3>1 DEF Frames, Pcs, StubPcs, EntryPcs, Indexed
      <3>3. Moved
        BY <2>11, <3>2 DEF SaveRet, Goto
      <3>4. retAddr' \in [SlotIds -> [FrameIds -> Words]]
        BY <2>0, <2>11, <3>1 DEF SaveRet, TypeInv, TypeOK
      <3>5. QED
        BY <2>1, <2>11, <3>3, <3>4 DEF SaveRet, TypeInv, TypeOK
    <2>12. CASE SaveTs(t)
      <3>1. /\ c.pc = "saveTs" /\ c.idx \in SlotIds /\ c.dep \in FrameIds
            /\ ring[c.ev].ts \in Words
        BY <2>0, <2>12 DEF SaveTs, At, Indexed, TypeInv, TypeOK, Frames
      <3>2. Typed([c EXCEPT !.pc = "push"])
        BY <2>0, <3>1 DEF Frames, Pcs, StubPcs, EntryPcs, Indexed
      <3>3. Moved
        BY <2>12, <3>2 DEF SaveTs, Goto
      <3>4. entryTs' \in [SlotIds -> [FrameIds -> Words]]
        BY <2>12, <3>1 DEF SaveTs, TypeInv, TypeOK
      <3>5. QED
        BY <2>1, <2>12, <3>3, <3>4 DEF SaveTs, TypeInv, TypeOK
    <2>13. CASE PushDepth(t)
      <3>1. c.pc = "push" /\ c.idx \in SlotIds /\ c.dep + 1 \in 0..Depth
        BY <2>0, <2>13 DEF PushDepth, At, Indexed, FrameIds
      <3>2. Typed([c EXCEPT !.pc = "swap"])
        BY <2>0, <3>1 DEF Frames, Pcs, StubPcs, EntryPcs, Indexed
      <3>3. Moved
        BY <2>13, <3>2 DEF PushDepth, Goto
      <3>4. slotDepth' \in [SlotIds -> 0..Depth]
        BY <2>13, <3>1 DEF PushDepth, TypeInv, TypeOK
      <3>5. QED
        BY <2>1, <2>13, <3>3, <3>4 DEF PushDepth, TypeInv, TypeOK
    <2>14. CASE SwapReturn(t)
      <3>1. Typed([c EXCEPT !.pc = "body", !.ev = 0, !.hooked = TRUE])
        <4>1. "body" \in Pcs /\ 0 \in Records
          BY DEF Pcs, Records
        <4>2. QED
          BY <2>0, <4>1 DEF Frames, Indexed
      <3>2. Moved
        BY <2>14, <3>1 DEF SwapReturn
      <3>3. QED
        BY <2>1, <2>14, <3>2 DEF SwapReturn, TypeInv, TypeOK, runtimeVars
    <2>15. CASE FindSlot(t)
      <3>1. ASSUME NEW i \in SlotIds
            PROVE  Typed([c EXCEPT !.pc = "rdepth", !.idx = i])
        <4>1. i \in 0..Slots
          BY DEF SlotIds
        <4>2. QED
          BY <2>0, <4>1 DEF Frames, Pcs, StubPcs, RetPcs, Indexed
      <3>2. Moved
        BY <2>2, <2>15, <3>1 DEF FindSlot
      <3>3. QED
        BY <2>1, <2>15, <3>2 DEF FindSlot, TypeInv, TypeOK, runtimeVars
    <2>16. CASE RetDepth(t)
      <3>1. c.pc = "rdepth" /\ c.idx \in SlotIds /\ slotDepth[c.idx] \in 0..Depth
        BY <2>0, <2>16 DEF RetDepth, At, Indexed, TypeInv, TypeOK
      <3>2. slotDepth[c.idx] > 0 => /\ slotDepth[c.idx] - 1 \in FrameIds
                                    /\ slotDepth[c.idx] - 1 \in 0..Depth
        BY <3>1 DEF FrameIds
      <3>3. slotDepth[c.idx] > 0
               => Typed([c EXCEPT !.pc = "decr", !.dep = slotDepth[c.idx] - 1])
        BY <2>0, <3>1, <3>2 DEF Frames, Pcs, StubPcs, RetPcs, Indexed
      <3>4. Moved
        BY <2>2, <2>16, <3>3 DEF RetDepth
      <3>5. QED
        BY <2>1, <2>16, <3>4 DEF RetDepth, TypeInv, TypeOK, runtimeVars
    <2>17. CASE Decrement(t)
      <3>1. c.pc = "decr" /\ c.idx \in SlotIds /\ c.dep \in FrameIds
        BY <2>0, <2>17 DEF Decrement, At, Indexed
      <3>2. Typed([c EXCEPT !.pc = "load"])
        BY <2>0, <3>1 DEF Frames, Pcs, StubPcs, RetPcs, Indexed
      <3>3. Moved
        BY <2>17, <3>2 DEF Decrement, Goto
      <3>4. slotDepth' \in [SlotIds -> 0..Depth]
        BY <2>17, <3>1 DEF Decrement, TypeInv, TypeOK, FrameIds
      <3>5. QED
        BY <2>1, <2>17, <3>3, <3>4 DEF Decrement, TypeInv, TypeOK
    <2>18. CASE LoadReturn(t)
      <3>1. /\ c.pc = "load" /\ c.idx \in SlotIds /\ c.dep \in FrameIds
            /\ retAddr[c.idx][c.dep] \in Words
        BY <2>0, <2>18 DEF LoadReturn, At, Indexed, TypeInv, TypeOK
      <3>2. Typed([c EXCEPT !.pc = "rclaim", !.addr = retAddr[c.idx][c.dep]])
        BY <2>0, <3>1 DEF Frames, Pcs, StubPcs, RetPcs, Indexed
      <3>3. Moved
        BY <2>18, <3>2 DEF LoadReturn
      <3>4. QED
        BY <2>1, <2>18, <3>3 DEF LoadReturn, TypeInv, TypeOK, runtimeVars
    <2>19. CASE RetClaim(t)
      <3>1. c.pc = "rclaim" /\ next \in Records
        BY <2>19 DEF RetClaim, At, TypeInv, TypeOK
      <3>2. Typed([c EXCEPT !.pc = "rfill", !.ev = next])
        BY <2>0, <3>1 DEF Frames, Pcs, StubPcs, RetPcs, Indexed
      <3>3. Moved
        BY <2>19, <3>2 DEF RetClaim
      <3>4. QED
        BY <2>1, <2>19, <3>3 DEF RetClaim, Claim, TypeInv, TypeOK, runtimeVars, Records
    <2>20. CASE RetFill(t)
      <3>1. c.pc = "rfill" /\ c.idx \in SlotIds /\ c.ev \in Records
        BY <2>0, <2>20 DEF RetFill, At, Indexed, Frames
      <3>2. Typed([c EXCEPT !.pc = "rdur"])
        BY <2>0, <3>1 DEF Frames, Pcs, StubPcs, RetPcs, Indexed
      <3>3. Moved
        BY <2>20, <3>2 DEF RetFill, Goto
      <3>4. ring' \in [Records -> [tid : Threads \cup {Zero}, ts : Words]]
        BY <2>20, <3>1 DEF RetFill, TypeInv, TypeOK
      <3>5. QED
        BY <2>1, <2>20, <3>3, <3>4 DEF RetFill, TypeInv, TypeOK, runtimeVars
    <2>21. CASE RetDuration(t)
      <3>1. /\ c.pc = "rdur" /\ c.idx \in SlotIds /\ c.dep \in FrameIds
            /\ entryTs[c.idx][c.dep] \in Words
            /\ c.ev \in Records
        BY <2>0, <2>21 DEF RetDuration, At, Indexed, Frames, TypeInv, TypeOK
      <3>2. Typed([c EXCEPT !.pc = "jump", !.dur = entryTs[c.idx][c.dep]])
        BY <2>0, <3>1 DEF Frames, Pcs, StubPcs, RetPcs, Indexed
      <3>3. Moved
        BY <2>21, <3>2 DEF RetDuration
      <3>4. ring' \in [Records -> [tid : Threads \cup {Zero}, ts : Words]]
        <4>1. /\ ring \in [Records -> [tid : Threads \cup {Zero}, ts : Words]]
              /\ Zero \in Words
          BY DEF TypeInv, TypeOK, Words
        <4>2. ring' = [ring EXCEPT ![c.ev].ts = Zero]
          BY <2>21 DEF RetDuration
        <4>3. QED
          BY <3>1, <4>1, <4>2
      <3>5. QED
        BY <2>1, <2>21, <3>3, <3>4 DEF RetDuration, TypeInv, TypeOK, runtimeVars
    <2>22. CASE JumpBack(t)
      <3>1. Moved
        BY <2>2, <2>22, IdleFrame DEF JumpBack, Pop, Indexed
      <3>2. top' \in [Threads -> 0..MaxNest]
        <4>1. top[t] - 1 \in 0..MaxNest
          BY <2>0
        <4>2. QED
          BY <4>1, <2>22 DEF JumpBack, Pop, TypeInv, TypeOK
      <3>3. QED
        BY <2>1, <2>22, <3>1, <3>2 DEF JumpBack, TypeInv, TypeOK, runtimeVars
    <2> QED
      BY <1>2, <2>4, <2>5, <2>6, <2>7, <2>8, <2>9, <2>10, <2>11, <2>12, <2>13,
         <2>14, <2>15, <2>16, <2>17, <2>18, <2>19, <2>20, <2>21, <2>22
         DEF StubStep, EntryStub, RetStub
  <1>3. ASSUME NEW t \in Threads, Target(t) PROVE TypeInv'
    <2>1. ASSUME NEW f \in Frames, Indexed(f), Push(t, f),
                 UNCHANGED <<enabled, next, ring, runtimeVars>>
          PROVE  TypeInv'
      <3>1. RegsOK'
        BY <2>1, PushEffect DEF TypeInv, RegsOK
      <3>2. QED
        BY <2>1, <3>1, PushEffect DEF TypeInv, TypeOK, runtimeVars
    <2>2. ASSUME top[t] > 0, Pop(t), UNCHANGED <<enabled, next, ring, runtimeVars>>
          PROVE  TypeInv'
      <3>1. frame' \in [Threads -> [1..MaxNest -> Frames]] /\ RegsOK'
        BY <2>2, IdleFrame, SetCurType DEF Pop, Indexed
      <3>2. top[t] - 1 \in 0..MaxNest
        BY <2>2 DEF TypeInv, TypeOK
      <3>3. QED
        BY <2>2, <3>1, <3>2 DEF Pop, TypeInv, TypeOK, runtimeVars
    <2>3. CASE \E s \in Sites : Call(t, s)
      BY <2>1, <2>3, FreshFrame DEF Call, Indexed
    <2>4. CASE ReturnPlain(t)
      BY <2>2, <2>4 DEF ReturnPlain, At
    <2>5. CASE ReturnHooked(t)
      <3>1. top[t] > 0 /\ Cur(t).pc = "body"
        BY <2>5 DEF ReturnHooked, At
      <3>2. [Cur(t) EXCEPT !.pc = "find"] \in Frames /\ Indexed([Cur(t) EXCEPT !.pc = "find"])
        BY <3>1, CurFrame DEF Frames, Pcs, StubPcs, RetPcs, Indexed
      <3>3. frame' \in [Threads -> [1..MaxNest -> Frames]] /\ RegsOK'
        BY <2>5, <3>1, <3>2, SetCurType DEF ReturnHooked, Goto
      <3>4. QED
        BY <2>5, <3>3 DEF ReturnHooked, TypeInv, TypeOK, runtimeVars
    <2>6. CASE Signal(t)
      BY <2>1, <2>6, FreshFrame DEF Signal, Indexed
    <2>7. CASE HandlerReturn(t)
      BY <2>2, <2>7 DEF HandlerReturn, At
    <2>8. CASE Longjmp(t)
      <3>1. PICK n \in 0..(top[t] - 1) :
               /\ top' = [top EXCEPT ![t] = n]
               /\ frame' = [frame EXCEPT ![t] =
                     [k \in 1..MaxNest |-> IF k > n THEN Idle ELSE frame[t][k]]]
        BY <2>8 DEF Longjmp
      <3>2. top' \in [Threads -> 0..MaxNest]
        BY <3>1 DEF TypeInv, TypeOK
      <3>3. frame' \in [Threads -> [1..MaxNest -> Frames]]
        BY <3>1, IdleFrame DEF TypeInv, TypeOK
      <3>4. RegsOK'
        BY <3>1, IdleFrame DEF TypeInv, TypeOK, RegsOK, Indexed
      <3>5. QED
        BY <2>8, <3>2, <3>3, <3>4 DEF Longjmp, TypeInv, TypeOK, runtimeVars
    <2>9. QED
      BY <1>3, <2>3, <2>4, <2>5, <2>6, <2>7, <2>8 DEF Target
  <1>4. CASE UNCHANGED vars
    BY <1>4 DEF vars, TypeInv, TypeOK, RegsOK, runtimeVars
  <1>5. QED
    BY <1>1, <1>2, <1>3, <1>4 DEF Next

\* The state of the stubs stays in the ranges their code relies on.
THEOREM TypeCorrect == Spec => []TypeOK
  <1>1. TypeInv => TypeOK
    BY DEF TypeInv
  <1>2. QED
    BY <1>1, TypeInit, TypeStep, PTL DEF Spec
-----------------------------------------------------------------------------
(* Slots of the shadow stack: no ring is lapped. *)

LEMMA SearchInit == Init => SearchInv
  BY TypeInit DEF Init, SearchInv, Exclusive, RecordTid, RecordOwn, Searched,
                  SlotsPrefix, SlotsUnique, SlotIds

\* What a frame f may become, as g, without disturbing the search: it holds
\* no record it did not hold, and has searched no slot it did not search.
Quiet(u, f, g) ==
    /\ InFlight(g) => InFlight(f) /\ g.ev = f.ev
    /\ g.pc = "time" => f.pc = "time"
    /\ g.pc \in Reading => f.pc \in Reading /\ g.site = f.site
    /\ g.pc \in {"scan", "cas"} =>
          \A j \in SlotIds : j < g.idx => slotTid[j] \notin {Zero, u}

LEMMA QuietStep ==
  ASSUME SearchInv, TypeInv', UNCHANGED <<ring, slotTid>>,
         \A u \in Threads : \A k \in 1..top'[u] :
            \/ k <= top[u] /\ Quiet(u, frame[u][k], frame'[u][k])
            \/ frame'[u][k].pc \in {"check", "body"}
  PROVE  SearchInv'
  <1> DEFINE Old(u, k) == k \in 1..top[u] /\ Quiet(u, frame[u][k], frame'[u][k])
  <1>1. ASSUME NEW u \in Threads, NEW k \in 1..top'[u]
        PROVE  Old(u, k) \/ frame'[u][k].pc \in {"check", "body"}
    BY <1>1 DEF SearchInv, TypeInv, TypeOK
  <1>2. Exclusive'
    BY <1>1 DEF SearchInv, Exclusive, Quiet, InFlight
  <1>3. RecordTid'
    BY <1>1 DEF SearchInv, RecordTid, Quiet, InFlight, Reading
  <1>4. RecordOwn'
    BY <1>1 DEF SearchInv, RecordOwn, Quiet, InFlight, Reading, CallId
  <1>5. Searched'
    BY <1>1 DEF SearchInv, Searched, Quiet
  <1>6. SlotsPrefix' /\ SlotsUnique'
    BY DEF SearchInv, SlotsPrefix, SlotsUnique
  <1>7. QED
    BY <1>2, <1>3, <1>4, <1>5, <1>6 DEF SearchInv

\* The form in which most steps use it: only the frame on top moves.
LEMMA QuietMove ==
  ASSUME SearchInv, TypeInv', UNCHANGED <<ring, slotTid, top>>,
         NEW t \in Threads, top[t] > 0, NEW f, SetCur(t, f),
         Quiet(t, Cur(t), f) \/ f.pc = "body"
  PROVE  SearchInv'
  <1>1. /\ frame'[t][top[t]] = f
        /\ \A u \in Threads, k \in 1..MaxNest :
              <<u, k>> # <<t, top[t]>> => frame'[u][k] = frame[u][k]
    BY SetCurEffect DEF SearchInv
  <1>2. ASSUME NEW u \in Threads, NEW k \in 1..top'[u]
        PROVE  \/ k <= top[u] /\ Quiet(u, frame[u][k], frame'[u][k])
               \/ frame'[u][k].pc \in {"check", "body"}
    <2>1. CASE <<u, k>> = <<t, top[t]>>
      BY <1>1, <2>1 DEF Cur
    <2>2. CASE <<u, k>> # <<t, top[t]>>
      <3>1. k \in 1..top[u] /\ k \in 1..MaxNest
        BY DEF SearchInv, TypeInv, TypeOK
      <3>2. frame'[u][k] = frame[u][k]
        BY <1>1, <2>2, <3>1
      <3>3. QED
        BY <3>1, <3>2 DEF Quiet, SearchInv, Searched
    <2>3. QED
      BY <2>1, <2>2
  <1>3. QED
    BY <1>2, QuietStep

\* A claim hands out a record no stub in flight holds.
LEMMA ClaimStep ==
  ASSUME SearchInv, TypeInv', UNCHANGED <<ring, slotTid, top>>, Unlapped(next),
         NEW t \in Threads, top[t] > 0, NEW f, SetCur(t, f),
         f.ev = next, f.pc \in {"tid", "rfill"}
  PROVE  SearchInv'
  <1>1. /\ frame'[t][top[t]] = f
        /\ \A u \in Threads, k \in 1..MaxNest :
              <<u, k>> # <<t, top[t]>> => frame'[u][k] = frame[u][k]
        /\ \A u \in Threads : top'[u] = top[u] /\ 1..top[u] \subseteq 1..MaxNest
    BY SetCurEffect DEF SearchInv, TypeInv, TypeOK
  <1>2. Exclusive'
    <2> SUFFICES ASSUME NEW u \in Threads, NEW v \in Threads,
                        NEW k \in 1..top[u], NEW l \in 1..top[v],
                        InFlight(frame'[u][k]), InFlight(frame'[v][l]),
                        <<u, k>> # <<v, l>>
                 PROVE  frame'[u][k].ev # frame'[v][l].ev
      BY <1>1 DEF Exclusive
    <2>1. CASE <<u, k>> = <<t, top[t]>>
      BY <1>1, <2>1 DEF Unlapped
    <2>2. CASE <<v, l>> = <<t, top[t]>>
      BY <1>1, <2>2 DEF Unlapped
    <2>3. CASE <<u, k>> # <<t, top[t]>> /\ <<v, l>> # <<t, top[t]>>
      BY <1>1, <2>3 DEF SearchInv, Exclusive
    <2>4. QED
      BY <2>1, <2>2, <2>3
  <1>3. RecordTid' /\ RecordOwn' /\ Searched'
    BY <1>1 DEF SearchInv, RecordTid, RecordOwn, Searched, Reading, CallId
  <1>4. SlotsPrefix' /\ SlotsUnique'
    BY DEF SearchInv, SlotsPrefix, SlotsUnique
  <1>5. QED
    BY <1>2, <1>3, <1>4 DEF SearchInv

\* A stub writes into its own record only, which no other stub in flight reads.
LEMMA WriteStep ==
  ASSUME SearchInv, TypeInv', UNCHANGED <<slotTid, top>>,
         NEW t \in Threads, top[t] > 0, NEW f, SetCur(t, f),
         InFlight(Cur(t)),
         \A e \in Records : e # Cur(t).ev => ring'[e] = ring[e],
         \/ /\ f.ev = Cur(t).ev /\ f.site = Cur(t).site
            /\ \/ f.pc = "time" /\ ring'[f.ev].tid = t
               \/ /\ f.pc = "scan" /\ f.idx = 0
                  /\ ring'[f.ev] = [tid |-> t, ts |-> CallId(t, top[t])]
               \/ f.pc = "rdur"
         \/ f.pc \in {"body", "jump"}
  PROVE  SearchInv'
  <1>1. /\ frame'[t][top[t]] = f
        /\ \A u \in Threads, k \in 1..MaxNest :
              <<u, k>> # <<t, top[t]>> => frame'[u][k] = frame[u][k]
        /\ \A u \in Threads : top'[u] = top[u] /\ 1..top[u] \subseteq 1..MaxNest
        /\ Cur(t) = frame[t][top[t]] /\ top[t] \in 1..top[t]
    BY SetCurEffect DEF SearchInv, TypeInv, TypeOK, Cur
  <1>2. ASSUME NEW u \in Threads, NEW k \in 1..top[u], <<u, k>> # <<t, top[t]>>,
               InFlight(frame[u][k])
        PROVE  ring'[frame[u][k].ev] = ring[frame[u][k].ev]
    <2>1. frame[u][k].ev # Cur(t).ev
      BY <1>1, <1>2 DEF SearchInv, Exclusive
    <2>2. frame[u][k].ev \in Records
      <3>1. k \in 1..MaxNest
        BY <1>1
      <3>2. frame[u][k] \in Frames
        BY <3>1 DEF SearchInv, TypeInv, TypeOK
      <3>3. QED
        BY <3>2 DEF Frames
    <2>3. QED
      BY <2>1, <2>2
  <1>3. Exclusive'
    <2>1. \A u \in Threads : \A k \in 1..top[u] :
             InFlight(frame'[u][k]) => /\ InFlight(frame[u][k])
                                       /\ frame'[u][k].ev = frame[u][k].ev
      BY <1>1 DEF InFlight
    <2>2. QED
      BY <1>1, <2>1 DEF SearchInv, Exclusive
  <1>4. RecordTid'
    BY <1>1, <1>2 DEF SearchInv, RecordTid, InFlight, Reading
  <1>5. RecordOwn'
    BY <1>1, <1>2 DEF SearchInv, RecordOwn, InFlight, Reading, CallId
  <1>6. Searched'
    BY <1>1 DEF SearchInv, Searched, SlotIds
  <1>7. SlotsPrefix' /\ SlotsUnique'
    BY DEF SearchInv, SlotsPrefix, SlotsUnique
  <1>8. QED
    BY <1>3, <1>4, <1>5, <1>6, <1>7 DEF SearchInv

\* A thread takes the first free slot, and owned none before.
LEMMA TakeSlot ==
  ASSUME SearchInv, TypeInv', NEW t \in Threads, At(t, "cas"), Goto(t, "depth"),
         slotTid[Cur(t).idx] = Zero,
         slotTid' = [slotTid EXCEPT ![Cur(t).idx] = ring[Cur(t).ev].tid],
         UNCHANGED <<ring, top>>
  PROVE  SearchInv'
  <1> DEFINE c == Cur(t)
             i == c.idx
  <1>1. /\ top[t] > 0 /\ top[t] \in 1..top[t]
        /\ c = frame[t][top[t]] /\ c \in Frames
        /\ c.pc = "cas"
        /\ i \in SlotIds
        /\ ring[c.ev].tid = t
        /\ \A j \in SlotIds : j < i => slotTid[j] \notin {Zero, t}
        /\ slotTid \in [SlotIds -> Threads \cup {Zero}]
    BY CurFrame DEF SearchInv, At, TypeInv, TypeOK, RegsOK, Indexed, RecordTid,
                    Searched, Cur, Reading
  <1>2. /\ frame'[t][top[t]] = [c EXCEPT !.pc = "depth"]
        /\ \A u \in Threads, k \in 1..MaxNest :
              <<u, k>> # <<t, top[t]>> => frame'[u][k] = frame[u][k]
        /\ \A u \in Threads : top'[u] = top[u] /\ 1..top[u] \subseteq 1..MaxNest
    BY <1>1, SetCurEffect DEF SearchInv, TypeInv, TypeOK, Goto
  <1>3. \A j \in SlotIds : j > i => slotTid[j] = Zero
    BY <1>1 DEF SearchInv, SlotsPrefix, SlotIds
  <1>4. /\ slotTid'[i] = t
        /\ \A j \in SlotIds : j # i => slotTid'[j] = slotTid[j] /\ slotTid'[j] # t
    BY <1>1, <1>3 DEF SlotIds
  <1>5. SlotsPrefix' /\ SlotsUnique'
    BY <1>1, <1>4 DEF SearchInv, SlotsPrefix, SlotsUnique, SlotIds
  <1>6. Searched'
    <2> SUFFICES ASSUME NEW u \in Threads, NEW k \in 1..top[u],
                        frame'[u][k].pc \in {"scan", "cas"},
                        NEW j \in SlotIds, j < frame'[u][k].idx
                 PROVE  slotTid'[j] \notin {Zero, u}
      BY <1>2 DEF Searched
    <2>1. /\ frame[u][k].pc \in {"scan", "cas"} /\ j < frame[u][k].idx
      BY <1>1, <1>2 DEF Frames
    <2>2. slotTid[j] \notin {Zero, u}
      BY <2>1 DEF SearchInv, Searched
    <2>3. QED
      BY <2>2, <1>1, <1>4
  <1>7. Exclusive' /\ RecordTid' /\ RecordOwn'
    <2>1. \A u \in Threads : \A k \in 1..top[u] :
             /\ frame'[u][k].ev = frame[u][k].ev
             /\ frame'[u][k].site = frame[u][k].site
             /\ InFlight(frame'[u][k]) => InFlight(frame[u][k])
             /\ frame'[u][k].pc \in Reading => frame[u][k].pc \in Reading
             /\ frame'[u][k].pc = "time" => frame[u][k].pc = "time"
      BY <1>1, <1>2 DEF Frames, InFlight, Reading
    <2>2. QED
      BY <1>2, <2>1 DEF SearchInv, Exclusive, RecordTid, RecordOwn, CallId
  <1>8. QED
    BY <1>5, <1>6, <1>7 DEF SearchInv

\* Activations that leave a stack leave nothing behind in the search.
LEMMA DropStep ==
  ASSUME SearchInv, TypeInv', UNCHANGED <<ring, slotTid>>,
         \A u \in Threads : /\ top'[u] \in 0..top[u]
                            /\ \A k \in 1..top'[u] : frame'[u][k] = frame[u][k]
  PROVE  SearchInv'
  <1>1. ASSUME NEW u \in Threads, NEW k \in 1..top'[u]
        PROVE  k <= top[u] /\ Quiet(u, frame[u][k], frame'[u][k])
    <2>1. k \in 1..top[u]
      BY DEF SearchInv, TypeInv, TypeOK
    <2>2. QED
      BY <2>1 DEF Quiet, SearchInv, Searched
  <1>2. QED
    BY <1>1, QuietStep

LEMMA PopStep ==
  ASSUME SearchInv, TypeInv', UNCHANGED <<ring, slotTid>>,
         NEW t \in Threads, top[t] > 0, Pop(t)
  PROVE  SearchInv'
  <1>1. top[t] \in 1..MaxNest
    BY DEF SearchInv, TypeInv, TypeOK
  <1>2. \A u \in Threads : /\ top'[u] \in 0..top[u]
                            /\ top[u] \in 0..MaxNest
                            /\ top'[u] = IF u = t THEN top[u] - 1 ELSE top[u]
    BY <1>1 DEF Pop, SearchInv, TypeInv, TypeOK
  <1>3. \A u \in Threads, k \in 1..MaxNest :
           <<u, k>> # <<t, top[t]>> => frame'[u][k] = frame[u][k]
    BY SetCurEffect DEF Pop, SearchInv
  <1>4. ASSUME NEW u \in Threads, NEW k \in 1..top'[u]
        PROVE  frame'[u][k] = frame[u][k]
    BY <1>1, <1>2, <1>3
  <1>5. QED
    BY <1>2, <1>4, DropStep

\* Every step of the stubs and of the target keeps the search's invariant.
LEMMA SearchStep ==
  ASSUME "lap" \notin Env
  PROVE  SearchInv /\ [Next]_vars => SearchInv'
  <1> SUFFICES ASSUME SearchInv, [Next]_vars PROVE SearchInv'
    OBVIOUS
  <1>1. TypeInv'
    BY TypeStep DEF SearchInv
  <1>2. CASE Toggle \/ UNCHANGED vars
    <2>1. UNCHANGED <<ring, slotTid, top, frame>>
      BY <1>2 DEF Toggle, vars, runtimeVars
    <2>2. QED
      BY <2>1, <1>1 DEF SearchInv, Exclusive, RecordTid, RecordOwn, Searched,
                        SlotsPrefix, SlotsUnique, CallId
  <1>3. ASSUME NEW t \in Threads, StubStep(t) PROVE SearchInv'
    <2> DEFINE c == Cur(t)
    <2> USE <1>1
    <2>0. /\ top[t] > 0 /\ top[t] \in 1..top[t]
          /\ c \in Frames /\ c = frame[t][top[t]]
      <3>1. top[t] > 0
        BY <1>3 DEF StubStep, EntryStub, RetStub, CheckEnabled, ClaimEvent, EntryTid,
             EntryTime, Scan, Cas, ReadDepth, SaveRet, SaveTs, PushDepth, SwapReturn,
             FindSlot, RetDepth, Decrement, LoadReturn, RetClaim, RetFill,
             RetDuration, JumpBack, At
      <3>2. QED
        BY <3>1, CurFrame DEF SearchInv, TypeInv, TypeOK
    <2>1. CASE CheckEnabled(t)
      <3>1. Quiet(t, c, [c EXCEPT !.pc = "claim"])
        BY <2>0 DEF Quiet, InFlight, Reading, Frames
      <3>2. QED
        BY <2>0, <2>1, <3>1, QuietMove, TrampolineFrame DEF CheckEnabled, Goto, runtimeVars
    <2>2. CASE ClaimEvent(t) \/ RetClaim(t)
      <3>1. PICK p \in {"tid", "rfill"} : SetCur(t, [c EXCEPT !.pc = p, !.ev = next])
        BY <2>2 DEF ClaimEvent, RetClaim
      <3>2. /\ [c EXCEPT !.pc = p, !.ev = next].ev = next
            /\ [c EXCEPT !.pc = p, !.ev = next].pc = p
        BY <2>0 DEF Frames
      <3>3. QED
        BY <2>0, <2>2, <3>1, <3>2, ClaimStep DEF ClaimEvent, RetClaim, Claim, runtimeVars
    <2>3. CASE EntryTid(t)
      <3>1. /\ c.pc = "tid" /\ c.ev \in Records
            /\ ring \in [Records -> [tid : Threads \cup {Zero}, ts : Words]]
        BY <2>0, <2>3 DEF EntryTid, At, Frames, SearchInv, TypeInv, TypeOK, RegsOK
      <3>2. /\ ring'[c.ev].tid = t
            /\ \A e \in Records : e # c.ev => ring'[e] = ring[e]
        BY <2>3, <3>1 DEF EntryTid
      <3>3. QED
        BY <2>0, <2>3, <3>1, <3>2, WriteStep DEF EntryTid, Goto, InFlight, Frames, runtimeVars
    <2>4. CASE EntryTime(t)
      <3>1. /\ c.pc = "time" /\ c.ev \in Records
            /\ ring \in [Records -> [tid : Threads \cup {Zero}, ts : Words]]
            /\ ring[c.ev].tid = t
        BY <2>0, <2>4 DEF EntryTime, At, Frames, SearchInv, TypeInv, TypeOK, RecordTid
      <3>2. /\ ring'[c.ev] = [tid |-> t, ts |-> CallId(t, top[t])]
            /\ \A e \in Records : e # c.ev => ring'[e] = ring[e]
        <4>1. ring' = [ring EXCEPT ![c.ev].ts = CallId(t, top[t])]
          BY <2>4 DEF EntryTime
        <4>2. ring[c.ev] \in [tid : Threads \cup {Zero}, ts : Words]
          BY <3>1
        <4>3. [ring[c.ev] EXCEPT !.ts = CallId(t, top[t])]
                 = [tid |-> t, ts |-> CallId(t, top[t])]
          BY <3>1, <4>2
        <4>4. QED
          BY <3>1, <4>1, <4>3
      <3>3. CASE HasRetprobe
        <4>1. SetCur(t, [c EXCEPT !.pc = "scan", !.idx = 0])
          BY <2>4, <3>3 DEF EntryTime
        <4>2. QED
          BY <2>0, <2>4, <3>1, <3>2, <4>1, WriteStep
             DEF EntryTime, InFlight, Frames, runtimeVars
      <3>4. CASE ~HasRetprobe
        BY <2>0, <2>4, <3>1, <3>2, <3>4, WriteStep, TrampolineFrame
           DEF EntryTime, InFlight, runtimeVars
      <3>5. QED
        BY <3>3, <3>4
    <2>5. CASE Scan(t)
      <3>1. /\ c.pc = "scan" /\ c.idx \in 0..Slots
            /\ ring[c.ev].tid = t
            /\ \A j \in SlotIds : j < c.idx => slotTid[j] \notin {Zero, t}
        <4>1. c.pc = "scan"
          BY <2>5 DEF Scan, At
        <4>2. c.idx \in 0..Slots
          BY <2>0 DEF Frames
        <4>3. ring[c.ev].tid = t
          BY <2>0, <4>1 DEF SearchInv, RecordTid, Reading
        <4>4. \A j \in SlotIds : j < c.idx => slotTid[j] \notin {Zero, t}
          BY <2>0, <4>1 DEF SearchInv, Searched
        <4>5. QED
          BY <4>1, <4>2, <4>3, <4>4
      <3>2. /\ Quiet(t, c, [c EXCEPT !.pc = "cas"])
            /\ Quiet(t, c, [c EXCEPT !.pc = "depth"])
        BY <2>0, <3>1 DEF Quiet, InFlight, Reading, Frames
      <3>3. slotTid[c.idx] # Zero /\ slotTid[c.idx] # t
               => Quiet(t, c, [c EXCEPT !.pc = "scan", !.idx = c.idx + 1])
        <4>1. \A j \in SlotIds : j < c.idx + 1 => j < c.idx \/ j = c.idx
          BY <3>1 DEF SlotIds
        <4>2. QED
          BY <2>0, <3>1, <4>1 DEF Quiet, InFlight, Reading, Frames
      <3>4. /\ UNCHANGED <<ring, slotTid, top>>
            /\ \/ SetCur(t, ToTrampoline(c))
               \/ SetCur(t, [c EXCEPT !.pc = "cas"])
               \/ SetCur(t, [c EXCEPT !.pc = "depth"])
               \/ /\ slotTid[c.idx] # Zero /\ slotTid[c.idx] # t
                  /\ SetCur(t, [c EXCEPT !.pc = "scan", !.idx = c.idx + 1])
        BY <2>5, <3>1 DEF NextSlot, Scan, Goto, runtimeVars
      <3>5. CASE SetCur(t, ToTrampoline(c))
        BY <2>0, <3>4, <3>5, QuietMove, TrampolineFrame
      <3>6. CASE SetCur(t, [c EXCEPT !.pc = "cas"]) \/ SetCur(t, [c EXCEPT !.pc = "depth"])
        BY <2>0, <3>2, <3>4, <3>6, QuietMove
      <3>7. CASE /\ slotTid[c.idx] # Zero /\ slotTid[c.idx] # t
                 /\ SetCur(t, [c EXCEPT !.pc = "scan", !.idx = c.idx + 1])
        BY <2>0, <3>3, <3>4, <3>7, QuietMove
      <3>8. QED
        BY <3>4, <3>5, <3>6, <3>7
    <2>6. CASE Cas(t)
      <3>1. /\ c.pc = "cas" /\ c.idx \in SlotIds
            /\ ring[c.ev].tid = t
            /\ \A j \in SlotIds : j < c.idx => slotTid[j] \notin {Zero, t}
        <4>1. c.pc = "cas"
          BY <2>6 DEF Cas, At
        <4>2. c.idx \in SlotIds
          <5>1. top[t] \in 1..MaxNest
            BY <2>0 DEF SearchInv, TypeInv, TypeOK
          <5>2. Indexed(c)
            BY <2>0, <5>1 DEF SearchInv, TypeInv, RegsOK
          <5>3. QED
            BY <4>1, <5>2 DEF Indexed
        <4>3. ring[c.ev].tid = t
          BY <2>0, <4>1 DEF SearchInv, RecordTid, Reading
        <4>4. \A j \in SlotIds : j < c.idx => slotTid[j] \notin {Zero, t}
          BY <2>0, <4>1 DEF SearchInv, Searched
        <4>5. QED
          BY <4>1, <4>2, <4>3, <4>4
      <3>2. Quiet(t, c, [c EXCEPT !.pc = "depth"])
        BY <2>0, <3>1 DEF Quiet, InFlight, Reading, Frames
      <3>3. slotTid[c.idx] # Zero /\ slotTid[c.idx] # t
               => Quiet(t, c, [c EXCEPT !.pc = "scan", !.idx = c.idx + 1])
        <4>1. \A j \in SlotIds : j < c.idx + 1 => j < c.idx \/ j = c.idx
          BY <3>1 DEF SlotIds
        <4>2. QED
          BY <2>0, <3>1, <4>1 DEF Quiet, InFlight, Reading, Frames
      <3>4. CASE slotTid[c.idx] = Zero
        BY <2>6, <3>4, TakeSlot DEF Cas
      <3>5. CASE slotTid[c.idx] # Zero
        <4>1. /\ UNCHANGED <<ring, slotTid, top>>
              /\ \/ SetCur(t, [c EXCEPT !.pc = "depth"])
                 \/ /\ slotTid[c.idx] # Zero /\ slotTid[c.idx] # t
                    /\ SetCur(t, [c EXCEPT !.pc = "scan", !.idx = c.idx + 1])
          BY <2>6, <3>1, <3>5 DEF NextSlot, Cas, Goto
        <4>2. CASE SetCur(t, [c EXCEPT !.pc = "depth"])
          BY <2>0, <3>2, <4>1, <4>2, QuietMove
        <4>3. CASE /\ slotTid[c.idx] # Zero /\ slotTid[c.idx] # t
                   /\ SetCur(t, [c EXCEPT !.pc = "scan", !.idx = c.idx + 1])
          BY <2>0, <3>3, <4>1, <4>3, QuietMove
        <4>4. QED
          BY <4>1, <4>2, <4>3
      <3>6. QED
        BY <3>4, <3>5
    <2>7. CASE ReadDepth(t) \/ SaveRet(t) \/ SaveTs(t) \/ PushDepth(t) \/ SwapReturn(t)
      <3>1. c.pc \in {"depth", "saveRet", "saveTs", "push", "swap"}
        BY <2>7 DEF ReadDepth, SaveRet, SaveTs, PushDepth, SwapReturn, At
      <3>2. /\ \A d : Quiet(t, c, [c EXCEPT !.pc = "saveRet", !.dep = d]) \/ c.pc # "depth"
            /\ Quiet(t, c, [c EXCEPT !.pc = "saveTs"]) \/ c.pc # "saveRet"
            /\ Quiet(t, c, [c EXCEPT !.pc = "push"])
            /\ Quiet(t, c, [c EXCEPT !.pc = "swap"])
            /\ [c EXCEPT !.pc = "body", !.ev = 0, !.hooked = TRUE].pc = "body"
        BY <2>0, <3>1 DEF Quiet, InFlight, Reading, Frames
      <3>3. QED
        BY <2>0, <2>7, <3>2, QuietMove, TrampolineFrame
           DEF ReadDepth, SaveRet, SaveTs, PushDepth, SwapReturn, Goto, At, runtimeVars
    <2>8. CASE FindSlot(t) \/ RetDepth(t) \/ Decrement(t) \/ LoadReturn(t)
      <3>1. /\ \A i : Quiet(t, c, [c EXCEPT !.pc = "rdepth", !.idx = i])
            /\ \A d : Quiet(t, c, [c EXCEPT !.pc = "decr", !.dep = d])
            /\ Quiet(t, c, [c EXCEPT !.pc = "load"])
            /\ Quiet(t, c, [c EXCEPT !.pc = "trap"])
            /\ \A a : Quiet(t, c, [c EXCEPT !.pc = "rclaim", !.addr = a])
        BY <2>0 DEF Quiet, InFlight, Reading, Frames
      <3>2. QED
        BY <2>0, <2>8, <3>1, QuietMove
           DEF FindSlot, RetDepth, Decrement, LoadReturn, Goto, runtimeVars
    <2>9. CASE RetFill(t) \/ RetDuration(t)
      <3>1. /\ c.pc \in {"rfill", "rdur"} /\ c.ev \in Records
            /\ ring \in [Records -> [tid : Threads \cup {Zero}, ts : Words]]
        BY <2>0, <2>9 DEF RetFill, RetDuration, At, Frames, SearchInv, TypeInv, TypeOK
      <3>2. \A e \in Records : e # c.ev => ring'[e] = ring[e]
        BY <2>9, <3>1 DEF RetFill, RetDuration
      <3>3. QED
        BY <2>0, <2>9, <3>1, <3>2, WriteStep
           DEF RetFill, RetDuration, Goto, InFlight, Frames, runtimeVars
    <2>10. CASE JumpBack(t)
      <3>1. CASE Goto(t, "astray") /\ UNCHANGED top
        <4>1. Quiet(t, c, [c EXCEPT !.pc = "astray"])
          BY <2>0 DEF Quiet, InFlight, Reading, Frames
        <4>2. QED
          BY <2>0, <2>10, <3>1, <4>1, QuietMove DEF JumpBack, Goto, runtimeVars
      <3>2. CASE Pop(t)
        BY <2>0, <2>10, <3>2, PopStep DEF JumpBack, runtimeVars
      <3>3. QED
        BY <2>10, <3>1, <3>2 DEF JumpBack
    <2>11. QED
      BY <1>3, <2>1, <2>2, <2>3, <2>4, <2>5, <2>6, <2>7, <2>8, <2>9, <2>10
         DEF StubStep, EntryStub, RetStub
  <1>4. ASSUME NEW t \in Threads, Target(t) PROVE SearchInv'
    <2> USE <1>1
    <2>1. ASSUME NEW f \in Frames, f.pc \in {"check", "body"}, Push(t, f),
                 UNCHANGED <<ring, slotTid>>
          PROVE  SearchInv'
      <3>1. ASSUME NEW u \in Threads, NEW k \in 1..top'[u]
            PROVE  \/ k <= top[u] /\ Quiet(u, frame[u][k], frame'[u][k])
                   \/ frame'[u][k].pc \in {"check", "body"}
        <4>1. CASE <<u, k>> = <<t, top[t] + 1>>
          BY <2>1, <4>1, PushEffect DEF SearchInv
        <4>2. CASE <<u, k>> # <<t, top[t] + 1>>
          <5>1. k \in 1..top[u] /\ k \in 1..MaxNest
            BY <2>1, <4>2, PushEffect DEF SearchInv, TypeInv, TypeOK
          <5>2. frame'[u][k] = frame[u][k]
            BY <2>1, <4>2, <5>1, PushEffect DEF SearchInv
          <5>3. QED
            BY <5>1, <5>2 DEF Quiet, SearchInv, Searched
        <4>3. QED
          BY <4>1, <4>2
      <3>2. QED
        BY <2>1, <3>1, QuietStep
    <2>2. CASE \E s \in Sites : Call(t, s)
      BY <2>1, <2>2, FreshFrame DEF Call, runtimeVars
    <2>3. CASE ReturnPlain(t)
      BY <2>3, PopStep DEF ReturnPlain, At, runtimeVars
    <2>4. CASE ReturnHooked(t)
      <3>1. top[t] > 0 /\ Cur(t) \in Frames
        BY <2>4, CurFrame DEF ReturnHooked, At, SearchInv
      <3>2. Quiet(t, Cur(t), [Cur(t) EXCEPT !.pc = "find"])
        BY <3>1 DEF Quiet, InFlight, Reading, Frames
      <3>3. QED
        BY <2>4, <3>1, <3>2, QuietMove DEF ReturnHooked, Goto, runtimeVars
    <2>5. CASE Signal(t)
      BY <2>1, <2>5, FreshFrame DEF Signal, runtimeVars
    <2>6. CASE HandlerReturn(t)
      BY <2>6, PopStep DEF HandlerReturn, At, runtimeVars
    <2>7. CASE Longjmp(t)
      <3>1. PICK n \in 0..(top[t] - 1) :
               /\ top' = [top EXCEPT ![t] = n]
               /\ frame' = [frame EXCEPT ![t] =
                     [k \in 1..MaxNest |-> IF k > n THEN Idle ELSE frame[t][k]]]
        BY <2>7 DEF Longjmp
      <3>2. \A u \in Threads : /\ top'[u] \in 0..top[u]
                                /\ top[u] \in 0..MaxNest
                                /\ \A k \in 1..top'[u] : frame'[u][k] = frame[u][k]
        BY <3>1 DEF SearchInv, TypeInv, TypeOK
      <3>3. QED
        BY <2>7, <3>2, DropStep DEF Longjmp, runtimeVars
    <2>8. QED
      BY <1>4, <2>2, <2>3, <2>4, <2>5, <2>6, <2>7 DEF Target
  <1>5. QED
    BY <1>2, <1>3, <1>4 DEF Next

LEMMA SearchHolds ==
  ASSUME "lap" \notin Env
  PROVE  Spec => []SearchInv
  <1>1. SearchInv /\ [Next]_vars => SearchInv'
    BY SearchStep
  <1>2. QED
    BY <1>1, SearchInit, PTL DEF Spec

\* However many threads race for free slots, interrupted by handlers that call
\* the probed function and abandoned by longjmp: one thread, one slot, as long
\* as the ring is not lapped within one run of the stub.
THEOREM OneSlotPerThread ==
  ASSUME "lap" \notin Env
  PROVE  Spec => [](SlotsUnique /\ SlotsPrefix)
  <1>1. SearchInv => SlotsUnique /\ SlotsPrefix
    BY DEF SearchInv
  <1>2. QED
    BY <1>1, SearchHolds, PTL

\* lp_stub_event_enter: the record that a stub writes again is its own.
THEOREM RecordIsOwn ==
  ASSUME "lap" \notin Env
  PROVE  Spec => []RecordOwn
  <1>1. SearchInv => RecordOwn
    BY DEF SearchInv
  <1>2. QED
    BY <1>1, SearchHolds, PTL
===============================================================================
