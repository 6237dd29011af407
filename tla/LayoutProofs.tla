---------------------------- MODULE LayoutProofs ----------------------------
(* No two parts of a runtime overlap, whatever their sizes.                  *)
EXTENDS Layout, TLAPS

LEMMA AlignUpBounds ==
    ASSUME NEW v \in Nat
    PROVE  AlignUp(v) \in Nat /\ AlignUp(v) >= v
<1>1. PICK q \in Nat : q = (v + 15) \div 16
  OBVIOUS
<1>2. 16 * q <= v + 15 /\ v + 15 < 16 * q + 16
  BY <1>1
<1> QED
  BY <1>1, <1>2 DEF AlignUp, Align

\* The offsets ascend, each at least the size of the part before it apart.
LEMMA OffsetsAscend ==
    /\ ConfigOffset \in Nat /\ EventsOffset \in Nat /\ ShadowStackOffset \in Nat
    /\ TrampolineOffset \in Nat /\ EntryStubOffset \in Nat /\ RetStubOffset \in Nat
    /\ RuntimeSize \in Nat
    /\ ConfigOffset + Size["config"] <= EventsOffset
    /\ EventsOffset + Size["events"] <= ShadowStackOffset
    /\ ShadowStackOffset + Size["shadowStack"] <= TrampolineOffset
    /\ TrampolineOffset + Size["trampoline"] <= EntryStubOffset
    /\ EntryStubOffset + Size["entryStub"] <= RetStubOffset
    /\ RetStubOffset + Size["retStub"] <= RuntimeSize
<1>0. \A p \in Areas : Size[p] \in Nat
  BY LayoutAssumption
<1>1. ConfigOffset \in Nat
  BY DEF ConfigOffset
<1>2. EventsOffset \in Nat /\ ConfigOffset + Size["config"] <= EventsOffset
  BY <1>0, <1>1, AlignUpBounds DEF EventsOffset, Areas
<1>3. ShadowStackOffset \in Nat /\ EventsOffset + Size["events"] <= ShadowStackOffset
  BY <1>0, <1>2, AlignUpBounds DEF ShadowStackOffset, Areas
<1>4. TrampolineOffset \in Nat /\ ShadowStackOffset + Size["shadowStack"] <= TrampolineOffset
  BY <1>0, <1>3, AlignUpBounds DEF TrampolineOffset, Areas
<1>5. EntryStubOffset \in Nat /\ TrampolineOffset + Size["trampoline"] <= EntryStubOffset
  BY <1>0, <1>4, AlignUpBounds DEF EntryStubOffset, Areas
<1>6. RetStubOffset \in Nat /\ EntryStubOffset + Size["entryStub"] <= RetStubOffset
  BY <1>0, <1>5, AlignUpBounds DEF RetStubOffset, Areas
<1>7. RuntimeSize \in Nat /\ RetStubOffset + Size["retStub"] <= RuntimeSize
  BY <1>0, <1>6, AlignUpBounds DEF RuntimeSize, Areas
<1> QED
  BY <1>1, <1>2, <1>3, <1>4, <1>5, <1>6, <1>7

\* lp_remote_runtime_layout_init: every part has its bytes inside the mapping,
\* and no two parts share one.
THEOREM AreasApart ==
    /\ \A p \in Areas : Offset[p] \in Nat /\ Offset[p] + Size[p] <= RuntimeSize
    /\ \A p, q \in Areas : p # q => Offset[p] + Size[p] <= Offset[q]
                                     \/ Offset[q] + Size[q] <= Offset[p]
<1>0. \A p \in Areas : Size[p] \in Nat
  BY LayoutAssumption
<1>1. /\ Offset["config"] = ConfigOffset
      /\ Offset["events"] = EventsOffset
      /\ Offset["shadowStack"] = ShadowStackOffset
      /\ Offset["trampoline"] = TrampolineOffset
      /\ Offset["entryStub"] = EntryStubOffset
      /\ Offset["retStub"] = RetStubOffset
  BY DEF Offset, Areas
<1>2. \A p \in Areas : Offset[p] \in Nat /\ Offset[p] + Size[p] <= RuntimeSize
  BY <1>0, <1>1, OffsetsAscend DEF Areas
<1>3. \A p, q \in Areas : p # q => Offset[p] + Size[p] <= Offset[q]
                                   \/ Offset[q] + Size[q] <= Offset[p]
  BY <1>0, <1>1, OffsetsAscend DEF Areas
<1> QED
  BY <1>2, <1>3
=============================================================================
