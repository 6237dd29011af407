------------------------------- MODULE Layout -------------------------------
(***************************************************************************)
(* Where the parts of a runtime are in its mapping (remote_layout.c).      *)
(***************************************************************************)
EXTENDS Integers

CONSTANT Size       \* Size[p]: the bytes reserved for part p

Areas == {"config", "events", "shadowStack", "trampoline", "entryStub", "retStub"}

ASSUME LayoutAssumption == Size \in [Areas -> Nat]

Align == 16         \* LP_REMOTE_RUNTIME_ALIGN

\* Mutant: rounded down.
AlignDown(v) == (v \div Align) * Align

AlignUp(v) == ((v + Align - 1) \div Align) * Align

ConfigOffset      == 0
EventsOffset      == AlignUp(ConfigOffset + Size["config"])
ShadowStackOffset == AlignUp(EventsOffset + Size["events"])
TrampolineOffset  == AlignUp(ShadowStackOffset + Size["shadowStack"])
EntryStubOffset   == AlignUp(TrampolineOffset + Size["trampoline"])
RetStubOffset     == AlignUp(EntryStubOffset + Size["entryStub"])
RuntimeSize       == AlignUp(RetStubOffset + Size["retStub"])

Offset == [p \in Areas |-> CASE p = "config"      -> ConfigOffset
                             [] p = "events"      -> EventsOffset
                             [] p = "shadowStack" -> ShadowStackOffset
                             [] p = "trampoline"  -> TrampolineOffset
                             [] p = "entryStub"   -> EntryStubOffset
                             [] p = "retStub"     -> RetStubOffset]
=============================================================================
