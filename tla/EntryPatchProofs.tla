-------------------------- MODULE EntryPatchProofs --------------------------
(***************************************************************************)
(* What attach and detach do to the code of the target, and to the runtime,*)
(* for every library, every function in it and every failure of a call.    *)
(*                                                                         *)
(* CodeInv says in which state the code is before each call, and that what *)
(* was saved is what was there; LengthInv that it is as long as the decoder*)
(* says of the code there; Values that this covers the jmp and fits the    *)
(* trampoline; RuntimeInv which parts are written; and TargetInv where the *)
(* address came from.  Of the decoder it is shown that it looks at no byte *)
(* behind the instruction it measures, so that its loop goes from one      *)
(* instruction to the next.  That its tables are right is not shown: it is *)
(* the hypothesis Measured of the theorem that depends on it.              *)
(***************************************************************************)
EXTENDS EntryPatch, LayoutProofs, SequenceTheorems, WellFoundedInduction

Jmp == Store(Fresh, target, RelJmp)

\* The n bytes from the target's address on, and no other.
SavedFrom(n) == /\ Len(saved) >= n
                /\ saved = Read(Fresh, target, Len(saved))
                /\ target..(target + Len(saved) - 1) \subseteq Space

Types ==
    /\ pc \in Pcs
    /\ step \in Nat
    /\ target \in Int
    /\ Len(saved) \in Nat
    /\ home \in Places /\ lib \in Files /\ other \in Others /\ disk \in Files
    /\ pc \in {"restore", "unmap"} => probed
    /\ pc \in {"read", "map", "install", "patch"} => ~probed

CodeInv ==
    "unloaded" \notin stale =>
      /\ mem = Fresh \/ mem = Jmp
      /\ ~probed /\ pc \notin {"resume", "dead"} => mem = Fresh
      /\ pc \in {"map", "install", "patch"} => SavedFrom(1)
      /\ probed \/ pc = "resume" => SavedFrom(JmpLen)
      /\ pc = "unmap" \/ (pc = "resume" /\ probed) \/ (pc = "restore" /\ step > 0)
           => mem = Fresh

RuntimeInv ==
    /\ pc = "install" => /\ step \in 0..5
                         /\ DOMAIN runtime = 0..(RuntimeSize - 1)
                         /\ \A i \in 1..step : /\ Installed(Parts[i])
                                              /\ Written(Parts[i]) <= Size[Parts[i]]
    /\ pc \in {"patch", "resume"} \/ probed
         => runtime = NoRuntime \/ \A p \in Areas : Installed(p)

\* The parts installed, and the words restored, before the next one.
StepInv ==
    /\ pc = "install" => step \in 0..5
    /\ pc = "restore" => step = 0 \/ Word * step < Len(saved)
    /\ pc \notin {"install", "restore"} => step = 0

\* The values of what Types leaves open: above all, that what is saved fits the
\* trampoline.
Values ==
    /\ target \in Nat
    /\ saved \in Seq(Byte)
    /\ saved = <<>> \/ Len(saved) \in JmpLen..MaxOriginal
    /\ Len(saved) <= JmpLen + 14
    /\ mem \in [Space -> Byte \cup {Unmapped}]
    /\ runtime = NoRuntime \/ runtime \in [0..(RuntimeSize - 1) -> Areas \cup {"zero"}]
    /\ stale \subseteq {"moved", "replaced", "unloaded"}

\* The first match, of the maps and of the symbol tables, is the right one.
Found == Exports(lib) /\ (Library \in other.names => home = Low)

TargetInv ==
    stale = {} /\ Found /\ (pc # "idle" \/ probed) => target = home + lib.entry

\* What was saved is as long as the decoder says of the code there.
SavedMeasured ==
    /\ SavedFrom(1)
    /\ Mapped(Fresh, target, MaxOriginal)
    /\ Len(saved) = PatchLen(Read(Fresh, target, MaxOriginal), JmpLen)

LengthInv ==
    /\ "unloaded" \notin stale
    /\ mem # Fresh \/ probed \/ pc \in {"map", "install", "patch", "resume"}
    => SavedMeasured

\* The decoder measures each instruction right, on its own, but those of which
\* it is said that it does not.
Measured ==
    \A f \in Files : \A i \in DOMAIN f.text :
       f.text[i].kind # "misread" =>
          InsnLen(SubSeq(f.image, Begin(f, i) + 1, f.text[i].end)) = f.text[i].end - Begin(f, i)

PatchInv == Types /\ StepInv /\ Values /\ CodeInv /\ RuntimeInv /\ TargetInv /\ LengthInv
-----------------------------------------------------------------------------
LEMMA ReadLen ==
    ASSUME NEW m, NEW a \in Int, NEW n \in Nat
    PROVE  /\ Len(Read(m, a, n)) = n
           /\ \A i \in 1..n : Read(m, a, n)[i] = m[a + i - 1]
  BY DEF Read

LEMMA RelJmpLen == Len(RelJmp) = 5
  BY DEF RelJmp

LEMMA FreshIs == Fresh = [x \in Space |-> Fresh[x]]
  BY DEF Fresh

\* Fresh depends on the mappings only.
LEMMA FreshStays ==
    ASSUME UNCHANGED targetVars
    PROVE  Fresh' = Fresh
  BY DEF Fresh, FileAt, PlaceOf, targetVars

\* The jmp is one word.
LEMMA PokeJmp ==
    ASSUME NEW m, NEW a \in Int
    PROVE  Poke(m, a, RelJmp, 0) = Store(m, a, RelJmp)
  BY RelJmpLen DEF Poke, Store, Word

\* Bytes of the code written where they were read change nothing.
LEMMA PokeBack ==
    ASSUME NEW i \in Nat, target \in Int, Len(saved) \in Nat, SavedFrom(1)
    PROVE  Poke(Fresh, target, saved, i) = Fresh
<1>1. \A x \in target..(target + Len(saved) - 1) : saved[x - target + 1] = Fresh[x]
  BY ReadLen DEF SavedFrom
<1>2. DOMAIN Fresh = Space
  BY DEF Fresh
<1>3. \A x \in Space : x \in (target + i)..(target + i + Word - 1) /\ x - target < Len(saved)
                          => saved[x - target + 1] = Fresh[x]
  BY <1>1 DEF Word
<1> QED
  BY <1>2, <1>3, FreshIs DEF Poke

\* The word that is restored first covers the jmp.
LEMMA PokeOver ==
    ASSUME target \in Int, Len(saved) \in Nat, SavedFrom(JmpLen)
    PROVE  Poke(Jmp, target, saved, 0) = Fresh
<1>1. \A x \in target..(target + Len(saved) - 1) : saved[x - target + 1] = Fresh[x]
  BY ReadLen DEF SavedFrom
<1>2. DOMAIN Jmp = Space
  BY DEF Fresh, Jmp, Store
<1>3. ASSUME NEW x \in Space
      PROVE  (IF x \in target..(target + Word - 1) /\ x - target < Len(saved)
              THEN saved[x - target + 1] ELSE Jmp[x]) = Fresh[x]
  <2>1. CASE x \in target..(target + 4)
    BY <1>1, <2>1 DEF Word, SavedFrom, JmpLen
  <2>2. CASE x \notin target..(target + 4)
    <3>1. Jmp[x] = Fresh[x]
      BY <2>2, RelJmpLen DEF Jmp, Store, Fresh
    <3>2. x \in target..(target + Word - 1) /\ x - target < Len(saved)
            => saved[x - target + 1] = Fresh[x]
      BY <1>1 DEF Word
    <3> QED
      BY <3>1, <3>2
  <2> QED
    BY <2>1, <2>2
<1>4. target + 0 = target
  OBVIOUS
<1>5. Poke(Jmp, target, saved, 0) = [x \in Space |-> Fresh[x]]
  BY <1>2, <1>3, <1>4 DEF Poke
<1> QED
  BY <1>5, FreshIs

\* So does all that was saved, written in one.
LEMMA StoreOver ==
    ASSUME target \in Int, Len(saved) \in Nat, SavedFrom(JmpLen), NEW m, m \in {Fresh, Jmp}
    PROVE  Store(m, target, saved) = Fresh
<1>1. \A x \in target..(target + Len(saved) - 1) : saved[x - target + 1] = Fresh[x]
  BY ReadLen DEF SavedFrom
<1>2. DOMAIN m = Space
  BY DEF Fresh, Jmp, Store
<1>3. ASSUME NEW x \in Space
      PROVE  (IF x \in target..(target + Len(saved) - 1)
              THEN saved[x - target + 1] ELSE m[x]) = Fresh[x]
  <2>1. CASE x \in target..(target + Len(saved) - 1)
    BY <1>1, <2>1
  <2>2. CASE x \notin target..(target + Len(saved) - 1)
    <3>1. x \notin target..(target + Len(RelJmp) - 1)
      BY <2>2, RelJmpLen DEF SavedFrom, JmpLen
    <3>2. m[x] = Fresh[x]
      BY <3>1 DEF Jmp, Store, Fresh
    <3> QED
      BY <2>2, <3>2
  <2> QED
    BY <2>1, <2>2
<1>4. Store(m, target, saved) = [x \in Space |-> Fresh[x]]
  BY <1>2, <1>3 DEF Store
<1> QED
  BY <1>4, FreshIs
-----------------------------------------------------------------------------
LEMMA Below ==
    ASSUME NEW i \in Nat, NEW j \in Nat, j < i
    PROVE  <<j, i>> \in OpToRel(<, Nat)
  BY SMT DEF OpToRel

LEMMA LeastIn ==
    ASSUME NEW S \in SUBSET Nat, S # {}
    PROVE  \E i \in S : \A j \in S : i <= j
<1>1. PICK i \in S : \A j \in S : ~(<<j, i>> \in OpToRel(<, Nat))
  BY NatLessThanWellFounded, WFMin, Zenon
<1>2. ASSUME NEW j \in S PROVE i <= j
  <2>1. i \in Nat /\ j \in Nat
    OBVIOUS
  <2>2. ~(j < i)
    BY <1>1, <2>1, Below, Zenon
  <2> QED
    BY <2>1, <2>2
<1> QED
  BY <1>2, Zenon

LEMMA FirstIn ==
    ASSUME NEW S \in SUBSET Nat, S # {}
    PROVE  First(S) \in S
  BY LeastIn, Zenon DEF First

LEMMA FirstOf ==
    ASSUME NEW S \in SUBSET Nat, First(S) # None
    PROVE  First(S) \in S
<1>1. CASE S = {}
  BY <1>1 DEF First
<1> QED
  BY <1>1, FirstIn

-----------------------------------------------------------------------------
(* The length decoder: a length is what the bytes at hand can bear, and the *)
(* length to save is that of whole instructions, a jmp's or more.           *)

LEMMA ModRMLenIs ==
    ASSUME NEW code, NEW i
    PROVE  ModRMLen(code, i) \in 1..6
  BY DEF ModRMLen

LEMMA ImmIs ==
    ASSUME NEW op, NEW wide, NEW reg
    PROVE  OneByteImm(op, wide, reg) \in 0..8 /\ TwoByteImm(op) \in 0..8
<1>1. OneByteImm(op, wide, reg) \in {0, 1, 2, 3, 4, 8}
  BY DEF OneByteImm
<1>2. TwoByteImm(op) \in {0, 1, 4}
  BY DEF TwoByteImm
<1> QED
  BY <1>1, <1>2

-----------------------------------------------------------------------------
\* The pieces of InsnLen.
Prefix(c, i) == ByteAt(c, i) \in Legacy \cup Rex
PastPrefix(c) == CHOOSE i \in 1..(Len(c) + 1) : ~Prefix(c, i) /\ \A j \in 1..(i - 1) : Prefix(c, j)
Wide(c)  == \E i \in 1..(PastPrefix(c) - 1) :
               /\ c[i] \in Rex /\ (c[i] \div 8) % 2 = 1
               /\ \A j \in (i + 1)..(PastPrefix(c) - 1) : c[j] \notin Rex
Two(c)   == ByteAt(c, PastPrefix(c)) = \h0F
Last(c)  == IF Two(c) THEN PastPrefix(c) + 1 ELSE PastPrefix(c)
Op(c)    == ByteAt(c, Last(c))
Modrm(c) == Op(c) \in IF Two(c) THEN TwoByteModRM ELSE OneByteModRM
Reg(c)   == IF Modrm(c) THEN (ByteAt(c, Last(c) + 1) \div 8) % 8 ELSE 0
Modes(c) == IF Modrm(c) THEN ModRMLen(c, Last(c) + 1) ELSE 0
Imm(c)   == IF Two(c) THEN TwoByteImm(Op(c)) ELSE OneByteImm(Op(c), Wide(c), Reg(c))
End(c)   == Last(c) + Modes(c) + Imm(c)

LEMMA InsnLenOf ==
    ASSUME NEW c
    PROVE  InsnLen(c) = IF End(c) <= Len(c) /\ End(c) <= 15 THEN End(c) ELSE Failed
  BY Zenon DEF InsnLen, End, Imm, Modes, Reg, Modrm, Op, Last, Two, Wide, PastPrefix, Prefix

\* The first byte that is no prefix is where one finds it.
LEMMA FirstIs ==
    ASSUME NEW c, Len(c) \in Nat,
           NEW i \in 1..(Len(c) + 1), ~Prefix(c, i), \A j \in 1..(i - 1) : Prefix(c, j)
    PROVE  PastPrefix(c) = i
<1> DEFINE P(k) == ~Prefix(c, k) /\ \A j \in 1..(k - 1) : Prefix(c, j)
<1>1. ASSUME NEW k \in 1..(Len(c) + 1), P(k) PROVE k = i
  <2>1. ~(k < i)
    <3>1. k < i => k \in 1..(i - 1)
      OBVIOUS
    <3> QED
      BY <1>1, <3>1
  <2>2. ~(i < k)
    <3>1. i < k => i \in 1..(k - 1)
      OBVIOUS
    <3> QED
      BY <1>1, <3>1
  <2> QED
    BY <2>1, <2>2
<1>2. PastPrefix(c) = CHOOSE k \in 1..(Len(c) + 1) : P(k)
  BY DEF PastPrefix
<1>3. P(i)
  OBVIOUS
<1> HIDE DEF P
<1> QED
  BY <1>1, <1>2, <1>3

\* There is one.
LEMMA FirstExists ==
    ASSUME NEW c, Len(c) \in Nat
    PROVE  /\ PastPrefix(c) \in 1..(Len(c) + 1)
           /\ ~Prefix(c, PastPrefix(c))
           /\ \A j \in 1..(PastPrefix(c) - 1) : Prefix(c, j)
<1> DEFINE S == {i \in 1..(Len(c) + 1) : ~Prefix(c, i)}
<1>1. S \in SUBSET Nat /\ S # {}
  <2>1. Len(c) + 1 \in S
    BY DEF Prefix, ByteAt, Legacy, Rex
  <2> QED
    BY <2>1
<1>2. PICK i \in S : \A j \in S : i <= j
  BY <1>1, LeastIn, Zenon
<1>3. \A j \in 1..(i - 1) : Prefix(c, j)
  <2> SUFFICES ASSUME NEW j \in 1..(i - 1) PROVE j \notin S /\ j \in 1..(Len(c) + 1)
    OBVIOUS
  <2> QED
    BY <1>2
<1>4. PastPrefix(c) = i
  BY <1>2, <1>3, FirstIs
<1> QED
  BY <1>2, <1>3, <1>4

LEMMA EndIs ==
    ASSUME NEW c, Len(c) \in Nat
    PROVE  /\ PastPrefix(c) \in Nat \ {0} /\ Last(c) \in Nat /\ PastPrefix(c) <= Last(c)
           /\ Modes(c) \in Nat /\ Imm(c) \in Nat /\ End(c) \in Nat
           /\ Last(c) + Modes(c) <= End(c)
<1>1. PastPrefix(c) \in Nat \ {0}
  BY FirstExists
<1>2. Last(c) \in Nat /\ PastPrefix(c) <= Last(c)
  BY <1>1 DEF Last
<1>3. Modes(c) \in Nat
  BY ModRMLenIs DEF Modes
<1>4. Imm(c) \in Nat
  <2>1. OneByteImm(Op(c), Wide(c), Reg(c)) \in Nat /\ TwoByteImm(Op(c)) \in Nat
    BY ImmIs
  <2> QED
    BY <2>1, Zenon DEF Imm
<1> QED
  BY <1>1, <1>2, <1>3, <1>4 DEF End

LEMMA InsnLenIs ==
    ASSUME NEW code, Len(code) \in Nat
    PROVE  InsnLen(code) \in 0..15 /\ InsnLen(code) <= Len(code)
<1>1. End(code) \in Nat
  BY EndIs
<1>2. InsnLen(code) = IF End(code) <= Len(code) /\ End(code) <= 15 THEN End(code) ELSE Failed
  BY InsnLenOf, Zenon
<1> QED
  BY <1>1, <1>2 DEF Failed

\* The displacement is told by the ModRM byte, and the SIB byte if there is one.
LEMMA ModRMSame ==
    ASSUME NEW a, NEW b, NEW i \in Nat, NEW m \in Nat, i - 1 + ModRMLen(a, i) <= m,
           \A j \in 1..m : ByteAt(a, j) = ByteAt(b, j), i > 0
    PROVE  ModRMLen(a, i) = ModRMLen(b, i)
<1>1. ByteAt(a, i) = ByteAt(b, i)
  <2>1. ModRMLen(a, i) >= 1
    BY DEF ModRMLen
  <2>2. i \in 1..m
    BY <2>1, ModRMLenIs
  <2> QED
    BY <2>2
<1> DEFINE mod == ByteAt(a, i) \div 64
           rm  == ByteAt(a, i) % 8
           sib == mod # 3 /\ rm = 4
<1>2. CASE sib
  <2>1. ModRMLen(a, i) >= 2
    BY <1>2 DEF ModRMLen
  <2>2. i + 1 \in 1..m
    BY <2>1, ModRMLenIs
  <2>3. ByteAt(a, i + 1) = ByteAt(b, i + 1)
    BY <2>2
  <2> QED
    BY <1>1, <2>3, Zenon DEF ModRMLen
<1>3. CASE ~sib
  BY <1>1, <1>3 DEF ModRMLen
<1> QED
  BY <1>2, <1>3

\* The decoder looks at no byte behind the instruction: the same bytes have the
\* same length, whatever comes after.
THEOREM InsnPrefix ==
    ASSUME NEW a, NEW b, Len(a) \in Nat, Len(b) \in Nat, InsnLen(a) # Failed,
           InsnLen(a) <= Len(b), \A i \in 1..InsnLen(a) : a[i] = b[i]
    PROVE  InsnLen(b) = InsnLen(a)
<1> DEFINE m == InsnLen(a)
<1>1. m = End(a) /\ m \in 1..15 /\ m <= Len(a) /\ m <= Len(b)
  BY InsnLenOf, InsnLenIs DEF Failed
<1> HIDE DEF m
<1>2. \A i \in 1..m : ByteAt(a, i) = ByteAt(b, i) /\ a[i] = b[i]
  BY <1>1 DEF ByteAt, m
<1>3. \A i \in 1..m : Prefix(a, i) <=> Prefix(b, i)
  BY <1>2 DEF Prefix
<1>4. PastPrefix(a) \in 1..m /\ Last(a) \in 1..m /\ Last(a) + Modes(a) <= m
  BY <1>1, EndIs
<1>5. PastPrefix(b) = PastPrefix(a)
  <2>1. PastPrefix(a) \in 1..(Len(b) + 1) /\ ~Prefix(b, PastPrefix(a))
    BY <1>1, <1>3, <1>4, FirstExists
  <2>2. \A j \in 1..(PastPrefix(a) - 1) : j \in 1..m
    BY <1>1, <1>4
  <2>3. \A j \in 1..(PastPrefix(a) - 1) : Prefix(b, j)
    BY <1>3, <2>2, FirstExists
  <2> QED
    BY <2>1, <2>3, FirstIs
<1>6. Two(b) = Two(a) /\ Last(b) = Last(a)
  BY <1>2, <1>4, <1>5 DEF Two, Last
<1>7. Op(b) = Op(a) /\ Modrm(b) = Modrm(a)
  BY <1>2, <1>4, <1>6 DEF Op, Modrm
<1>8. Modes(b) = Modes(a) /\ Reg(b) = Reg(a)
  <2>1. CASE Modrm(a)
    <3>1. Modes(a) = ModRMLen(a, Last(a) + 1) /\ Modes(b) = ModRMLen(b, Last(a) + 1)
      BY <1>6, <1>7, <2>1 DEF Modes
    <3>2. ModRMLen(b, Last(a) + 1) = ModRMLen(a, Last(a) + 1)
      <4> DEFINE i == Last(a) + 1
      <4>1. i \in Nat /\ i > 0 /\ m \in Nat /\ i - 1 = Last(a)
        BY <1>1, <1>4
      <4>2. i - 1 + ModRMLen(a, i) <= m
        BY <1>4, <3>1, <4>1
      <4> HIDE DEF i
      <4>3. ModRMLen(a, i) = ModRMLen(b, i)
        BY <1>2, <4>1, <4>2, ModRMSame
      <4> QED
        BY <4>3 DEF i
    <3>3. Last(a) + 1 \in 1..m
      <4>1. ModRMLen(a, Last(a) + 1) >= 1
        BY DEF ModRMLen
      <4> QED
        BY <1>1, <1>4, <3>1, <4>1, ModRMLenIs
    <3>4. Reg(b) = Reg(a)
      BY <1>2, <1>6, <1>7, <3>3 DEF Reg
    <3> QED
      BY <3>1, <3>2, <3>4
  <2>2. CASE ~Modrm(a)
    BY <1>7, <2>2 DEF Modes, Reg
  <2> QED
    BY <2>1, <2>2
<1>9. Wide(b) = Wide(a)
  <2>1. \A i \in 1..(PastPrefix(a) - 1) : a[i] = b[i]
    BY <1>1, <1>2, <1>4
  <2>2. \A i \in 1..(PastPrefix(a) - 1) : \A j \in (i + 1)..(PastPrefix(a) - 1) : a[j] = b[j]
    BY <1>1, <1>2, <1>4
  <2> QED
    BY <1>5, <2>1, <2>2 DEF Wide
<1>10. Imm(b) = Imm(a) /\ End(b) = m
  BY <1>1, <1>6, <1>7, <1>8, <1>9 DEF Imm, End
<1> QED
  BY <1>1, <1>10, InsnLenOf DEF m

\* The length of the instruction behind the first t bytes.
LenAt(code, t) == InsnLen(SubSeq(code, t + 1, Len(code)))

LEMMA LenAtIs ==
    ASSUME NEW B, NEW code \in Seq(B), NEW t \in 0..Len(code)
    PROVE  LenAt(code, t) \in 0..15 /\ t + LenAt(code, t) <= Len(code)
<1>1. Len(code) \in Nat
  BY LenProperties
<1>2. Len(SubSeq(code, t + 1, Len(code))) = Len(code) - t
  <2> DEFINE L == Len(code)
             m == t + 1
  <2>1. m \in Int /\ L \in Int /\ L - m + 1 = L - t /\ (m <= L \/ L - t = 0)
    BY <1>1
  <2>2. \A i \in m..L : i \in 1..L
    BY <1>1
  <2>3. \A i \in m..L : code[i] \in B
    BY <2>2, ElementOfSeq
  <2> HIDE DEF m, L
  <2>4. Len(SubSeq(code, m, L)) = IF m <= L THEN L - m + 1 ELSE 0
    BY <2>1, <2>3, SubSeqProperties
  <2> QED
    BY <2>1, <2>4 DEF m, L
<1>3. Len(code) - t \in Nat
  BY <1>1
<1> DEFINE rest == SubSeq(code, t + 1, Len(code))
<1>4. Len(rest) \in Nat
  BY <1>2, <1>3
<1>5. InsnLen(rest) \in 0..15 /\ InsnLen(rest) <= Len(rest)
  BY <1>4, InsnLenIs, Zenon
<1>6. Len(rest) = Len(code) - t /\ LenAt(code, t) = InsnLen(rest)
  BY <1>2 DEF LenAt
<1> DEFINE n == InsnLen(rest)
           L == Len(code)
<1>7. n \in 0..15 /\ n <= L - t /\ L \in Nat /\ t \in Int
  BY <1>1, <1>5, <1>6
<1>8. LenAt(code, t) = n
  BY <1>6
<1> HIDE DEF n, L, rest
<1>9. n \in 0..15 /\ t + n <= L
  BY <1>7
<1> QED
  BY <1>8, <1>9 DEF L

\* The loop of PatchLen, from each number of bytes on, of lo bytes or more.
Measure(f, code, min, t) ==
    IF t >= min THEN t ELSE IF LenAt(code, t) = Failed THEN Failed ELSE f[t + LenAt(code, t)]
Measures(f, code, min, lo) ==
    f = [t \in lo..Len(code) |-> Measure(f, code, min, t)]

\* PatchLen is such a loop: each turn is further on than the one before.
LEMMA PatchLenLoops ==
    ASSUME NEW B, NEW code \in Seq(B), NEW min \in Nat
    PROVE  \E f : Measures(f, code, min, 0) /\ PatchLen(code, min) = f[0]
<1> DEFINE L == Len(code)
           S == {k \in 0..L : \E f : Measures(f, code, min, k)}
<1>1. L \in Nat
  BY LenProperties
<1>2. L \in S
  <2> DEFINE f == [t \in L..L |-> IF t >= min THEN t ELSE Failed]
  <2>1. LenAt(code, L) = Failed
    <3>1. L \in 0..L
      BY <1>1
    <3>2. LenAt(code, L) \in 0..15 /\ L + LenAt(code, L) <= L
      BY <3>1, LenAtIs
    <3> QED
      BY <1>1, <3>2 DEF Failed
  <2>2. L..L = {L}
    BY <1>1
  <2>3. f = [t \in L..L |-> Measure(f, code, min, t)]
    BY <2>1, <2>2 DEF Measure
  <2>4. Measures(f, code, min, L)
    BY <2>3 DEF Measures
  <2> HIDE DEF f
  <2>5. \E h : Measures(h, code, min, L)
    BY <2>4
  <2>6. L \in 0..L
    BY <1>1
  <2> QED
    BY <2>5, <2>6
<1>3. S \in SUBSET Nat /\ S # {}
  BY <1>1, <1>2
<1>4. PICK k \in S : \A j \in S : k <= j
  BY <1>3, LeastIn, Zenon
<1>5. k = 0
  <2> SUFFICES ASSUME k # 0 PROVE k - 1 \in S
    BY <1>1, <1>4
  <2>1. PICK f : Measures(f, code, min, k)
    BY <1>4
  <2> DEFINE j == k - 1
             g == [t \in j..L |-> IF t = j THEN Measure(f, code, min, t) ELSE f[t]]
  <2>2. k \in 1..L /\ j \in 0..L /\ j < k
    BY <1>1, <1>4
  <2>3. \A t \in k..L : g[t] = f[t] /\ f[t] = Measure(f, code, min, t)
    <3>1. \A t \in k..L : f[t] = Measure(f, code, min, t)
      BY <2>1 DEF Measures
    <3>2. \A t \in k..L : t \in j..L /\ t # j
      BY <1>1, <2>2
    <3> QED
      BY <3>1, <3>2
  <2>4. ASSUME NEW t \in j..L PROVE Measure(g, code, min, t) = Measure(f, code, min, t)
    <3>1. LenAt(code, t) \in 0..15 /\ t + LenAt(code, t) <= L /\ t \in Int
      BY <1>1, <2>2, LenAtIs
    <3> DEFINE n == LenAt(code, t)
               u == t + n
    <3>2. n # Failed => u \in k..L
      <4>1. n \in 0..15 /\ t + n <= L /\ t \in Int
        BY <3>1
      <4>2. t >= k - 1 /\ k \in Int /\ L \in Int
        BY <1>1, <2>2
      <4> HIDE DEF n, L
      <4>3. n # Failed => n >= 1
        BY <4>1 DEF Failed
      <4> QED
        BY <4>1, <4>2, <4>3
    <3>3. n # Failed => g[u] = f[u]
      <4> HIDE DEF g, u, n
      <4> QED
        BY <2>3, <3>2 DEF u, n
    <3> HIDE DEF g
    <3> QED
      BY <3>3 DEF Measure
  <2>5. \A t \in j..L : g[t] = Measure(f, code, min, t)
    <3>1. \A t \in j..L : t # j => t \in k..L
      BY <1>1, <2>2
    <3> QED
      BY <2>3, <3>1
  <2> HIDE DEF g
  <2>6. g = [t \in j..L |-> Measure(g, code, min, t)]
    <3>1. g = [t \in j..L |-> g[t]]
      BY DEF g
    <3> QED
      BY <2>4, <2>5, <3>1
  <2> QED
    BY <2>2, <2>6 DEF Measures
<1>6. \E f : Measures(f, code, min, 0)
  BY <1>4, <1>5
<1> DEFINE from == CHOOSE f : f = [t \in 0..L |->
               IF t >= min THEN t
               ELSE LET n == InsnLen(SubSeq(code, t + 1, Len(code)))
                    IN  IF n = Failed THEN Failed ELSE f[t + n]]
<1>7. PatchLen(code, min) = from[0]
  BY DEF PatchLen
<1>8. Measures(from, code, min, 0)
  BY <1>6 DEF Measures, Measure, LenAt
<1> QED
  BY <1>7, <1>8

\* What the loop returns covers a jmp, ends within the code, and is no more
\* than the jmp and the rest of one instruction.
THEOREM PatchLenIs ==
    ASSUME NEW B, NEW code \in Seq(B), NEW min \in Nat \ {0}
    PROVE  \/ PatchLen(code, min) = Failed
           \/ /\ PatchLen(code, min) \in min..(min + 14)
              /\ PatchLen(code, min) <= Len(code)
<1> DEFINE L == Len(code)
<1>1. L \in Nat
  BY LenProperties
<1>2. PICK f : Measures(f, code, min, 0) /\ PatchLen(code, min) = f[0]
  BY PatchLenLoops
<1> DEFINE Good(t) == \/ f[t] = Failed
                      \/ f[t] \in min..L /\ (t < min => f[t] <= min + 14)
           S == {d \in 0..L : ~Good(L - d)}
<1>3. ASSUME NEW d \in 0..L, \A e \in 0..L : e < d => Good(L - e) PROVE Good(L - d)
  <2> DEFINE t == L - d
             n == LenAt(code, t)
  <2>1. t \in 0..L /\ d = L - t
    BY <1>1
  <2>2. n \in 0..15 /\ t + n <= L
    BY <2>1, LenAtIs
  <2>3. f[t] = IF t >= min THEN t ELSE IF n = Failed THEN Failed ELSE f[t + n]
    BY <1>2, <2>1 DEF Measures, Measure
  <2> DEFINE u == t + n
             e == d - n
  <2>4. n # Failed => u \in 0..L /\ e \in 0..L /\ e < d /\ L - e = u
    <3>1. n # Failed => n \in 1..15
      BY <2>2 DEF Failed
    <3> HIDE DEF t, n
    <3> QED
      BY <1>1, <2>1, <2>2, <3>1
  <2>5. n # Failed => Good(u)
    <3> HIDE DEF u, e, n
    <3> QED
      BY <1>3, <2>4
  <2>6. n # Failed /\ u >= min => f[u] = u
    <3> HIDE DEF n
    <3> QED
      BY <1>2, <2>4 DEF Measures, Measure
  <2>7. t < min => u <= min + 14
    <3>1. n \in 0..15 /\ t \in Int
      BY <1>1, <2>1, <2>2
    <3> HIDE DEF n, t
    <3> QED
      BY <3>1
  <2>8. CASE t >= min
    BY <1>1, <2>1, <2>3, <2>8
  <2>9. CASE t < min /\ n = Failed
    BY <1>1, <2>1, <2>3, <2>9
  <2>10. CASE t < min /\ n # Failed
    <3>1. f[t] = f[u] /\ t < min
      <4> HIDE DEF t, n, u
      <4>1. t \in Int
        BY <1>1, <2>1
      <4>2. ~(t >= min) /\ t < min
        BY <2>10, <4>1
      <4> QED
        BY <2>3, <2>10, <4>2 DEF u
    <3>2. u \in Int /\ u <= L /\ (u < min \/ u >= min)
      <4>1. t \in Int /\ n \in Int
        BY <1>1, <2>1, <2>2
      <4> HIDE DEF t, n
      <4> QED
        BY <2>2, <4>1
    <3>3. u <= min + 14 /\ (u >= min => f[u] = u) /\ Good(u)
      <4> HIDE DEF Good, u, n, t
      <4> QED
        BY <2>5, <2>6, <2>7, <2>10, <3>1
    <3> HIDE DEF u, n, t
    <3>4. f[t] = Failed \/ (f[t] \in min..L /\ f[t] <= min + 14)
      BY <1>1, <3>1, <3>2, <3>3
    <3>5. Good(t)
      BY <3>4
    <3> QED
      BY <3>5 DEF t
  <2>11. t >= min \/ t < min
    BY <1>1, <2>1
  <2> QED
    BY <2>8, <2>9, <2>10, <2>11, Zenon
<1>4. S = {}
  <2> SUFFICES ASSUME S # {} PROVE FALSE
    OBVIOUS
  <2>1. S \in SUBSET Nat
    BY <1>1
  <2>2. PICK d \in S : \A e \in S : d <= e
    BY <2>1, LeastIn, Zenon
  <2>3. d \in 0..L /\ ~Good(L - d)
    BY <2>2
  <2>4. \A e \in 0..L : e < d => Good(L - e)
    <3> SUFFICES ASSUME NEW e \in 0..L, e < d, ~Good(L - e) PROVE FALSE
      OBVIOUS
    <3> HIDE DEF Good
    <3>1. e \in S
      OBVIOUS
    <3>2. d <= e
      BY <2>2, <3>1
    <3> QED
      BY <1>1, <2>3, <3>2
  <2> HIDE DEF Good
  <2> QED
    BY <1>3, <2>3, <2>4, Zenon
<1>5. Good(0)
  <2>1. L \in 0..L /\ L - L = 0
    BY <1>1
  <2> HIDE DEF Good
  <2>2. Good(L - L)
    BY <1>4, <2>1
  <2> QED
    BY <2>1, <2>2
<1> QED
  BY <1>2, <1>5

\* An instruction that is measured right on its own is measured right where it
\* stands in the code, or not at all.
LEMMA OneMeasured ==
    ASSUME NEW code \in Seq(Byte), NEW image \in Seq(Byte),
           NEW t \in 0..Len(code), NEW p \in Nat, NEW q \in (p + 1)..Len(image),
           InsnLen(SubSeq(image, p + 1, q)) = q - p,
           \A j \in 1..(Len(code) - t) : p + j <= q => code[t + j] = image[p + j],
           LenAt(code, t) # Failed
    PROVE  LenAt(code, t) = q - p
<1> DEFINE a == SubSeq(code, t + 1, Len(code))
           b == SubSeq(image, p + 1, q)
           m == LenAt(code, t)
           L == Len(code)
<1>1. L \in Nat /\ Len(image) \in Nat /\ t \in 0..L
  BY LenProperties
<1>2. m \in 1..15 /\ t + m <= L /\ m = InsnLen(a)
  BY <1>1, LenAtIs DEF LenAt, Failed
<1>3. Len(a) = L - t /\ \A j \in 1..(L - t) : a[j] = code[t + j]
  <2> DEFINE g == t + 1
  <2>1. g \in Int /\ L \in Int /\ g <= L /\ L - g + 1 = L - t
    <3> HIDE DEF a, b, m, L
    <3>1. t \in Int /\ L \in Int
      BY <1>1
    <3>2. m \in 1..15
      BY <1>2
    <3>3. m \in Int /\ m >= 1
      BY <3>2
    <3>4. t + m <= L
      BY <1>2
    <3>5. t + 1 <= L /\ L - (t + 1) + 1 = L - t
      BY <3>1, <3>3, <3>4
    <3> QED
      BY <3>1, <3>5
  <2>2. \A j \in g..L : j \in 1..L
    BY <1>1
  <2>3. \A j \in g..L : code[j] \in Byte
    BY <2>2, ElementOfSeq
  <2>4. \A j \in 1..(L - t) : g + j - 1 = t + j
    BY <1>1
  <2> HIDE DEF g, L
  <2>5. /\ Len(SubSeq(code, g, L)) = IF g <= L THEN L - g + 1 ELSE 0
        /\ \A j \in 1..(L - g + 1) : SubSeq(code, g, L)[j] = code[g + j - 1]
    BY <2>1, <2>3, SubSeqProperties
  <2> QED
    BY <2>1, <2>4, <2>5 DEF g, L
<1>4. Len(b) = q - p /\ \A j \in 1..(q - p) : b[j] = image[p + j]
  <2> DEFINE g == p + 1
  <2>1. g \in Int /\ q \in Int /\ g <= q /\ q - g + 1 = q - p
    BY <1>1
  <2>2. \A j \in g..q : j \in 1..Len(image)
    BY <1>1
  <2>3. \A j \in g..q : image[j] \in Byte
    BY <2>2, ElementOfSeq
  <2>4. \A j \in 1..(q - p) : g + j - 1 = p + j
    BY <1>1
  <2> HIDE DEF g
  <2>5. /\ Len(SubSeq(image, g, q)) = IF g <= q THEN q - g + 1 ELSE 0
        /\ \A j \in 1..(q - g + 1) : SubSeq(image, g, q)[j] = image[g + j - 1]
    BY <2>1, <2>3, SubSeqProperties
  <2> QED
    BY <2>1, <2>4, <2>5 DEF g
<1> DEFINE d == q - p
<1>5. d \in Nat \ {0} /\ Len(a) \in Nat /\ Len(b) \in Nat /\ Len(b) = d /\ m <= Len(a)
  <2> HIDE DEF a, b, m, L
  <2>1. t \in Int /\ L \in Nat /\ L - t \in Nat
    BY <1>1, <1>2
  <2> QED
    BY <1>2, <1>3, <1>4, <2>1
<1>6. \A j \in 1..d : j <= Len(a) => a[j] = b[j]
  <2> SUFFICES ASSUME NEW j \in 1..d, j <= Len(a) PROVE a[j] = b[j]
    OBVIOUS
  <2>1. j \in 1..(L - t) /\ j \in 1..(q - p) /\ p + j <= q
    BY <1>1, <1>3
  <2> QED
    BY <1>3, <1>4, <2>1
<1>7. InsnLen(b) = d
  OBVIOUS
<1> HIDE DEF a, b, m, d, L
<1>8. CASE m <= d
  <2>1. \A j \in 1..m : a[j] = b[j]
    BY <1>2, <1>5, <1>6, <1>8
  <2>2. InsnLen(a) # Failed /\ InsnLen(a) = m /\ InsnLen(a) <= Len(b)
    <3>1. InsnLen(a) = m
      BY <1>2
    <3>2. m # Failed
      <4>1. m \in 1..15
        BY <1>2
      <4> QED
        BY <4>1 DEF Failed
    <3>3. m <= Len(b)
      BY <1>5, <1>8, Zenon
    <3> QED
      BY <3>1, <3>2, <3>3
  <2>3. InsnLen(b) = InsnLen(a)
    BY <1>5, <2>1, <2>2, InsnPrefix
  <2> QED
    BY <1>7, <2>2, <2>3 DEF d, m
<1>9. CASE ~(m <= d)
  <2>1. \A j \in 1..d : b[j] = a[j]
    BY <1>2, <1>5, <1>6, <1>9
  <2>2. InsnLen(b) # Failed /\ InsnLen(b) = d /\ d <= Len(a)
    BY <1>2, <1>5, <1>7, <1>9 DEF Failed
  <2>3. InsnLen(a) = InsnLen(b)
    BY <1>5, <2>1, <2>2, InsnPrefix
  <2> QED
    BY <1>2, <1>5, <1>7, <1>9, <2>3
<1> QED
  BY <1>8, <1>9

\* The lines of the mapping at p.
LinesAt(p) == {[start |-> p, offset |-> 0, names |-> FileAt(p).names],
               [start |-> p + 1, offset |-> 1, names |-> FileAt(p).names]}

\* A line that FindLibrary returns is the first of a mapping whose path has
\* the name.
LEMMA LineOf ==
    ASSUME FindLibrary(Maps, Library) # None
    PROVE  \E p \in Places : /\ Maps[FindLibrary(Maps, Library)].start = p
                             /\ Library \in FileAt(p).names
<1> DEFINE R == LinesAt(Low) \cup LinesAt(High)
           i == FindLibrary(Maps, Library)
<1>1. ASSUME NEW p \in Places PROVE Lines(p) \in Seq(LinesAt(p))
  <2> DEFINE a == [start |-> p, offset |-> 0, names |-> FileAt(p).names]
             b == [start |-> p + 1, offset |-> 1, names |-> FileAt(p).names]
  <2>1. a \in LinesAt(p) /\ b \in LinesAt(p)
    BY DEF LinesAt
  <2> HIDE DEF a, b
  <2>2. <<a, b>> \in Seq(LinesAt(p)) /\ <<>> \in Seq(LinesAt(p))
    BY <2>1
  <2>3. Lines(p) \in {<<>>, <<a, b>>}
    BY DEF Lines, a, b
  <2> QED
    BY <2>2, <2>3
<1>2. Lines(Low) \in Seq(R) /\ Lines(High) \in Seq(R)
  BY <1>1, SeqMonotonic DEF Places
<1>3. Maps \in Seq(R)
  BY <1>2, ConcatProperties DEF Maps
<1>4. {k \in DOMAIN Maps : Maps[k].offset = 0 /\ Library \in Maps[k].names} \in SUBSET Nat
  <2>1. DOMAIN Maps = 1..Len(Maps) /\ Len(Maps) \in Nat
    BY <1>3, LenProperties
  <2> QED
    BY <2>1
<1>5. i \in DOMAIN Maps /\ Maps[i].offset = 0 /\ Library \in Maps[i].names
  BY <1>4, FirstOf DEF FindLibrary
<1>6. Maps[i] \in R
  BY <1>3, <1>5, ElementOfSeq, LenProperties
<1>7. PICK p \in Places : Maps[i] \in LinesAt(p)
  BY <1>6 DEF Places
<1>8. Maps[i].start = p /\ Maps[i].names = FileAt(p).names
  BY <1>5, <1>7 DEF LinesAt
<1> QED
  BY <1>5, <1>8

\* The tables of a file of which those in U cannot be read.
Tables(f, U) == [i \in DOMAIN f.tables |-> IF i \in U THEN <<>> ELSE f.tables[i]]

\* ResolveSymbol returns the first symbol with the name of one of the tables.
LEMMA SymbolOf ==
    ASSUME NEW f \in Files \cup Others, NEW U, NEW base,
           ResolveSymbol(Tables(f, U), Name, base) # None
    PROVE  \E i \in DOMAIN f.tables :
              /\ Named(f, i) # {}
              /\ f.tables[i][First(Named(f, i))].value \in Nat
              /\ ResolveSymbol(Tables(f, U), Name, base)
                    = base + f.tables[i][First(Named(f, i))].value
<1> DEFINE Entry == [name : STRING, value : Nat]
           T == Tables(f, U)
           S == {k \in DOMAIN T : \E m \in DOMAIN T[k] : T[k][m].name = Name}
           i == First(S)
           J == {k \in DOMAIN T[i] : T[i][k].name = Name}
           j == First(J)
<1>1. f.tables \in Seq(Seq(Entry))
  BY FilesAssumption
<1>2. DOMAIN f.tables \in SUBSET Nat /\ \A k \in DOMAIN f.tables : f.tables[k] \in Seq(Entry)
  <2>1. DOMAIN f.tables = 1..Len(f.tables) /\ Len(f.tables) \in Nat
    BY <1>1, LenProperties
  <2>2. \A k \in 1..Len(f.tables) : f.tables[k] \in Seq(Entry)
    BY <1>1, ElementOfSeq
  <2> QED
    BY <2>1, <2>2
<1>3. ResolveSymbol(T, Name, base) = IF i = None THEN None ELSE base + T[i][j].value
  BY DEF ResolveSymbol
<1>4. DOMAIN T = DOMAIN f.tables /\ \A k \in DOMAIN T : T[k] = IF k \in U THEN <<>> ELSE f.tables[k]
  BY DEF Tables
<1>5. i \in S
  <2>1. i # None
    BY <1>3
  <2>2. S \in SUBSET Nat
    BY <1>2, <1>4
  <2> QED
    BY <2>1, <2>2, FirstOf
<1>6. T[i] = f.tables[i] /\ i \in DOMAIN f.tables /\ J # {}
  <2>1. i \notin U
    <3>1. SUFFICES ASSUME i \in U PROVE FALSE
      OBVIOUS
    <3>2. T[i] = <<>>
      BY <1>4, <1>5, <3>1
    <3>3. DOMAIN T[i] = {}
      BY <3>2
    <3> QED
      BY <1>5, <3>3
  <2> QED
    BY <1>4, <1>5, <2>1
<1>7. J \in SUBSET Nat /\ \A k \in DOMAIN T[i] : T[i][k] \in Entry
  <2>1. DOMAIN T[i] = 1..Len(T[i]) /\ Len(T[i]) \in Nat
    BY <1>2, <1>6, LenProperties
  <2>2. \A k \in 1..Len(T[i]) : T[i][k] \in Entry
    BY <1>2, <1>6, ElementOfSeq
  <2>3. J \subseteq DOMAIN T[i]
    OBVIOUS
  <2>4. 1..Len(T[i]) \subseteq Nat
    BY <2>1
  <2> HIDE DEF J, i, T, Entry
  <2> QED
    BY <2>1, <2>2, <2>3, <2>4
<1>8. j \in J
  BY <1>6, <1>7, FirstIn
<1>9. j \in DOMAIN f.tables[i] /\ f.tables[i][j].name = Name /\ f.tables[i][j].value \in Nat
  BY <1>6, <1>7, <1>8
<1>10. ResolveSymbol(T, Name, base) = base + f.tables[i][j].value
  BY <1>3, <1>6
<1>11. J = Named(f, i)
  BY <1>6 DEF Named
<1>12. j = First(Named(f, i)) /\ Named(f, i) # {}
  BY <1>6, <1>11
<1>13. ResolveSymbol(Tables(f, U), Name, base) = base + f.tables[i][j].value
  BY <1>10
<1> HIDE DEF T, i, J, j
<1> QED
  BY <1>6, <1>9, <1>12, <1>13

\* The instructions of a file follow one another.
LEMMA TextIs ==
    ASSUME NEW f \in Files
    PROVE  /\ f.entry \in Nat /\ f.image \in Seq(Byte) /\ Len(f.image) \in Nat
           /\ Len(f.image) <= Span
           /\ Len(f.text) \in Nat /\ Len(f.text) >= JmpLen
           /\ \A i \in 1..Len(f.text) : /\ Begin(f, i) \in Nat
                                        /\ f.text[i].end \in Nat
                                        /\ f.text[i].end > Begin(f, i)
                                        /\ f.text[i].end <= Len(f.image)
<1>1. /\ f.entry \in Nat /\ f.image \in Seq(Byte) /\ Len(f.image) <= Span
      /\ f.text \in Seq([end : Nat, kind : STRING]) /\ Len(f.text) >= JmpLen
      /\ \A i \in DOMAIN f.text : f.text[i].end \in (Begin(f, i) + 1)..Len(f.image)
  BY FilesAssumption
<1>2. Len(f.image) \in Nat /\ Len(f.text) \in Nat /\ DOMAIN f.text = 1..Len(f.text)
  BY <1>1, LenProperties
<1>3. \A i \in 1..Len(f.text) : f.text[i].end \in Nat
  <2> SUFFICES ASSUME NEW i \in 1..Len(f.text) PROVE f.text[i].end \in Nat
    OBVIOUS
  <2>1. f.text[i] \in [end : Nat, kind : STRING]
    BY <1>1, ElementOfSeq
  <2> QED
    BY <2>1
<1>4. ASSUME NEW i \in 1..Len(f.text)
      PROVE  /\ Begin(f, i) \in Nat
             /\ f.text[i].end > Begin(f, i) /\ f.text[i].end <= Len(f.image)
  <2>1. Begin(f, i) \in Nat
    <3>1. i # 1 => i - 1 \in 1..Len(f.text)
      BY <1>2
    <3> QED
      BY <1>1, <1>3, <3>1 DEF Begin
  <2>2. f.text[i].end \in (Begin(f, i) + 1)..Len(f.image) /\ f.text[i].end \in Nat
    BY <1>1, <1>2, <1>3
  <2> QED
    BY <1>2, <2>1, <2>2
<1> QED
  BY <1>1, <1>2, <1>3, <1>4

\* A library that is mapped first is the one found.
LEMMA FirstLine ==
    ASSUME Types, home = Low
    PROVE  FindLibrary(Maps, Library) = 1 /\ Maps[1].start = home
<1> DEFINE S == {k \in DOMAIN Maps : Maps[k].offset = 0 /\ Library \in Maps[k].names}
           a == [start |-> home, offset |-> 0, names |-> lib.names]
           b == [start |-> home + 1, offset |-> 1, names |-> lib.names]
<1>1. lib \in Files /\ Library \in lib.names /\ lib.image # <<>>
  <2>1. lib \in Files /\ Library \in lib.names
    BY FilesAssumption DEF Types
  <2>2. /\ lib.text[1].end \in Nat /\ lib.text[1].end > 0
        /\ lib.text[1].end <= Len(lib.image)
    <3>1. Len(lib.text) \in Nat /\ Len(lib.text) >= 5
      BY <2>1, TextIs DEF JmpLen
    <3>2. 1 \in 1..Len(lib.text)
      BY <3>1
    <3> QED
      BY <2>1, <3>1, <3>2, TextIs
  <2>3. lib.image = <<>> => Len(lib.image) = 0
    OBVIOUS
  <2>4. lib.image # <<>>
    <3> DEFINE n == Len(lib.image)
               e == lib.text[1].end
    <3>1. n # 0
      <4>1. e \in Nat /\ n \in Nat /\ e > 0 /\ e <= n
        BY <2>1, <2>2, TextIs
      <4> HIDE DEF n, e
      <4> QED
        BY <4>1
    <3> QED
      BY <2>3, <3>1
  <2> QED
    BY <2>1, <2>4
<1>2. Lines(Low) = <<a, b>>
  BY <1>1 DEF Lines, FileAt
<1>3. \E R : <<a, b>> \in Seq(R) /\ Lines(High) \in Seq(R)
  <2> DEFINE c == [start |-> High, offset |-> 0, names |-> FileAt(High).names]
             d == [start |-> High + 1, offset |-> 1, names |-> FileAt(High).names]
             R == {a, b, c, d}
  <2> HIDE DEF a, b, c, d
  <2>1. <<a, b>> \in Seq(R) /\ <<c, d>> \in Seq(R) /\ <<>> \in Seq(R)
    OBVIOUS
  <2>2. Lines(High) \in {<<>>, <<c, d>>}
    BY DEF Lines, c, d
  <2> QED
    BY <2>1, <2>2
<1>4. PICK R : <<a, b>> \in Seq(R) /\ Lines(High) \in Seq(R)
  BY <1>3
<1>5. Maps \in Seq(R) /\ Len(Maps) \in Nat /\ Len(Maps) >= 2 /\ Maps[1] = a
  <2> HIDE DEF a, b
  <2>1. Len(<<a, b>>) = 2 /\ <<a, b>>[1] = a /\ 1 \in 1..2
    OBVIOUS
  <2>2. Maps = <<a, b>> \o Lines(High)
    BY <1>2 DEF Maps
  <2>3. Len(Lines(High)) \in Nat
    BY <1>4, LenProperties
  <2> QED
    BY <1>4, <2>1, <2>2, <2>3, ConcatProperties
<1>6. DOMAIN Maps = 1..Len(Maps)
  BY <1>5, LenProperties
<1>7. 1 \in S /\ \A k \in S : 1 <= k /\ k \in Nat
  BY <1>1, <1>5, <1>6
<1>8. First(S) = 1
  <2>1. S # {} /\ S \in SUBSET Nat
    BY <1>7
  <2>2. First(S) = CHOOSE k \in S : \A j \in S : k <= j
    BY <2>1 DEF First
  <2>3. \A k \in S : (\A j \in S : k <= j) => k = 1
    BY <1>7
  <2> HIDE DEF S
  <2> QED
    BY <1>7, <2>2, <2>3
<1> QED
  BY <1>5, <1>8 DEF FindLibrary

\* Where Resolve takes the address from.
LEMMA ResolvedAt ==
    ASSUME Types, Resolve
    PROVE  /\ target' \in Nat
           /\ stale' = {} /\ Found => target' = home + lib.entry
<1> DEFINE line == FindLibrary(Maps, Library)
           base == Maps[line].start
           file == OnDisk(base)
<1>1. PICK U \in SUBSET {1, 2} :
         /\ line # None
         /\ ResolveSymbol(Tables(file, U), Name, base) # None
         /\ target' = ResolveSymbol(Tables(file, U), Name, base)
         /\ stale' = (stale \ {"moved", "replaced"})
                        \cup (IF file = FileAt(base) THEN {} ELSE {"replaced"})
  BY DEF Resolve, Tables
<1>2. PICK p \in Places : base = p /\ Library \in FileAt(p).names
  BY <1>1, LineOf
<1> HIDE DEF line, base
<1>3. file \in Files \cup Others /\ base \in Nat /\ home \in Nat
  BY <1>2, PatchAssumption DEF OnDisk, Types, Places
<1>4. PICK i \in DOMAIN file.tables :
         /\ Named(file, i) # {}
         /\ file.tables[i][First(Named(file, i))].value \in Nat
         /\ target' = base + file.tables[i][First(Named(file, i))].value
  BY <1>1, <1>3, SymbolOf
<1>5. target' \in Nat
  BY <1>3, <1>4
<1>6. ASSUME stale' = {}, Found
      PROVE  target' = home + lib.entry
  <2>1. base = home /\ FileAt(base) = lib
    <3>1. CASE Library \notin other.names
      BY <1>2, <3>1 DEF FileAt
    <3>2. CASE home = Low
      BY <3>2, FirstLine DEF base, line, FileAt
    <3> QED
      BY <1>6, <3>1, <3>2 DEF Found
  <2>2. file = lib
    BY <1>1, <1>6, <2>1
  <2>3. lib.tables[i][First(Named(lib, i))].value = lib.entry
    BY <1>4, <1>6, <2>2 DEF Found, Exports
  <2> QED
    BY <1>4, <2>1, <2>2, <2>3
<1> QED
  BY <1>5, <1>6
-----------------------------------------------------------------------------
LEMMA Removed == Remove => target' = 0 /\ Len(saved') = 0 /\ ~probed'
<1>1. Len(<<>>) = 0
  OBVIOUS
<1> QED
  BY <1>1, Zenon DEF Remove

\* A memory stays one, whichever bytes are written where.
LEMMA MemoryStays ==
    ASSUME NEW S, NEW m \in [Space -> S], NEW a \in Int, NEW bytes \in Seq(S), NEW i \in Nat
    PROVE  Store(m, a, bytes) \in [Space -> S] /\ Poke(m, a, bytes, i) \in [Space -> S]
<1>1. ASSUME NEW x \in Space, x \in a..(a + Len(bytes) - 1) \/ (x >= a /\ x - a < Len(bytes))
      PROVE  bytes[x - a + 1] \in S
  <2>1. x \in Int /\ Len(bytes) \in Nat
    BY LenProperties, PatchAssumption DEF Space, Places
  <2>2. x >= a /\ x - a < Len(bytes)
    <3> DEFINE n == Len(bytes)
    <3> HIDE DEF n
    <3> QED
      BY <1>1, <2>1 DEF n
  <2>3. x - a + 1 \in 1..Len(bytes)
    BY <2>1, <2>2
  <2> QED
    BY <2>3, ElementOfSeq
<1>2. DOMAIN m = Space /\ \A x \in Space : m[x] \in S
  OBVIOUS
<1>3. \A x \in (a + i)..(a + i + Word - 1) : x >= a
  BY DEF Word
<1>4. Store(m, a, bytes) \in [Space -> S]
  BY <1>1, <1>2 DEF Store
<1>5. Poke(m, a, bytes, i) \in [Space -> S]
  BY <1>1, <1>2, <1>3 DEF Poke
<1> QED
  BY <1>4, <1>5

\* What the loader makes of mappings of l at h and of o elsewhere.
Loaded(h, l, o) ==
    [x \in Space |-> LET p == PlaceOf(x)
                         f == IF p = h THEN l ELSE o
                     IN  IF x - p < Len(f.image) THEN f.image[x - p + 1] ELSE Unmapped]

LEMMA FreshLoaded == Fresh = Loaded(home, lib, other) /\ Fresh' = Loaded(home', lib', other')
  BY DEF Fresh, FileAt, Loaded, PlaceOf

\* These are the bytes of files.
LEMMA LoadedValues ==
    ASSUME NEW h, NEW l \in Files, NEW o \in Others
    PROVE  Loaded(h, l, o) \in [Space -> Byte \cup {Unmapped}]
<1> DEFINE p(x) == PlaceOf(x)
           f(x) == IF p(x) = h THEN l ELSE o
           at(x) == IF x - p(x) < Len(f(x).image) THEN f(x).image[x - p(x) + 1] ELSE Unmapped
<1>1. ASSUME NEW x \in Space PROVE at(x) \in Byte \cup {Unmapped}
  <2>1. f(x).image \in Seq(Byte)
    BY FilesAssumption
  <2>2. x - p(x) \in Nat
    BY PatchAssumption DEF PlaceOf, Space, Places
  <2>3. Len(f(x).image) \in Nat
    BY <2>1, LenProperties
  <2> HIDE DEF p, f
  <2>4. x - p(x) < Len(f(x).image) => x - p(x) + 1 \in 1..Len(f(x).image)
    BY <2>2, <2>3
  <2>5. x - p(x) < Len(f(x).image) => f(x).image[x - p(x) + 1] \in Byte
    BY <2>1, <2>4, ElementOfSeq
  <2> QED
    BY <2>5
<1>2. Loaded(h, l, o) = [x \in Space |-> at(x)]
  BY DEF Loaded
<1> HIDE DEF at
<1> QED
  BY <1>1, <1>2

\* Bytes that are read are bytes.
LEMMA ReadBytes ==
    ASSUME NEW m \in [Space -> Byte \cup {Unmapped}], NEW a \in Int, NEW n \in Nat,
           Mapped(m, a, n)
    PROVE  \A k \in 0..n : Read(m, a, k) \in Seq(Byte) /\ Len(Read(m, a, k)) = k
<1> SUFFICES ASSUME NEW k \in 0..n
             PROVE  Read(m, a, k) \in Seq(Byte) /\ Len(Read(m, a, k)) = k
  OBVIOUS
<1>1. \A i \in 1..k : a + i - 1 \in a..(a + n - 1)
  OBVIOUS
<1>2. \A x \in a..(a + n - 1) : m[x] \in Byte
  BY DEF Mapped
<1>3. \A i \in 1..k : m[a + i - 1] \in Byte
  BY <1>1, <1>2
<1>4. k \in Nat
  OBVIOUS
<1> QED
  BY <1>3, <1>4 DEF Read

\* What is saved covers the jmp, and no more than one instruction more than it
\* has to.
LEMMA SavedValues ==
    ASSUME Types, Values, ReadOriginal, pc' = "map"
    PROVE  /\ saved' \in Seq(Byte)
           /\ Len(saved') \in JmpLen..MaxOriginal
           /\ Len(saved') <= JmpLen + 14
           /\ Len(saved') = PatchLen(Read(mem, target, MaxOriginal), JmpLen)
<1> DEFINE code == Read(mem, target, MaxOriginal)
           n    == PatchLen(code, JmpLen)
<1>1. Mapped(mem, target, MaxOriginal) /\ n \in 1..MaxOriginal /\ saved' = Read(mem, target, n)
  BY DEF ReadOriginal, Goto
<1>2. code \in Seq(Byte) /\ Len(code) = MaxOriginal
  BY <1>1, ReadBytes, PatchAssumption DEF Values
<1> HIDE DEF code
<1>3. n = Failed \/ (n \in JmpLen..(JmpLen + 14) /\ n <= Len(code))
  BY <1>2, PatchLenIs DEF JmpLen
<1> HIDE DEF n
<1>4. n \in JmpLen..MaxOriginal /\ n <= JmpLen + 14 /\ n \in 0..MaxOriginal
  BY <1>1, <1>2, <1>3, PatchAssumption DEF Failed, JmpLen
<1>5. saved' \in Seq(Byte) /\ Len(saved') = n
  BY <1>1, <1>4, ReadBytes, PatchAssumption DEF Values
<1> QED
  BY <1>4, <1>5 DEF n, code

LEMMA InitInv == Init => PatchInv
<1> SUFFICES ASSUME Init PROVE PatchInv
  OBVIOUS
<1>1. Types
  <2>1. Len(saved) = 0 /\ ~probed
    BY DEF Init
  <2> QED
    BY <2>1 DEF Init, Types, Pcs, Files
<1>2. Values
  <2>1. mem \in [Space -> Byte \cup {Unmapped}]
    BY FreshLoaded, LoadedValues DEF Init, Files
  <2>2. saved = <<>> /\ Len(saved) = 0 /\ saved \in Seq(Byte)
    BY DEF Init
  <2> QED
    BY <2>1, <2>2 DEF Init, Values, JmpLen
<1>3. CodeInv
  BY DEF Init, CodeInv
<1>4. RuntimeInv
  BY DEF Init, RuntimeInv
<1>5. TargetInv
  BY DEF Init, TargetInv
<1>6. LengthInv
  BY DEF Init, LengthInv
<1>7. StepInv
  BY DEF Init, StepInv
<1> QED
  BY <1>1, <1>2, <1>3, <1>4, <1>5, <1>6, <1>7 DEF PatchInv

\* Every step but Resolve, Remove and ReadOriginal leaves target and saved.
LEMMA TypesStep ==
    ASSUME Types, [Next]_vars
    PROVE  Types'
<1> USE DEF Types, Pcs, Holding, Goto
<1>1. CASE Resolve
  <2>1. target' \in Nat
    BY <1>1, ResolvedAt
  <2>2. pc' = "stop" /\ step' = 0 /\ UNCHANGED <<saved, probed, targetVars>>
    BY <1>1 DEF Resolve
  <2> QED
    BY <2>1, <2>2 DEF targetVars
<1>2. CASE Detach
  BY <1>2 DEF Detach, probeVars, targetVars
<1>3. CASE Stop
  <2>1. CASE probed
    <3>1. /\ pc' \in {"restore", "idle"} /\ step' = 0
          /\ UNCHANGED <<target, saved, probed, home, lib, other, disk>>
      BY <1>3, <2>1 DEF Stop, probeVars, targetVars
    <3> QED
      BY <2>1, <3>1
  <2>2. CASE ~probed
    BY <1>3, Removed, <2>2 DEF Stop, probeVars, targetVars
  <2> QED
    BY <2>1, <2>2
<1>4. CASE ReadOriginal
  <2>1. Len(saved') \in Nat
    <3> DEFINE n == PatchLen(Read(mem, target, MaxOriginal), JmpLen)
    <3> HIDE DEF n
    <3>1. CASE n \in 1..MaxOriginal /\ saved' = Read(mem, target, n)
      BY <3>1, ReadLen, PatchAssumption
    <3>2. CASE saved' = saved
      BY <3>2
    <3> QED
      BY <1>4, <3>1, <3>2 DEF ReadOriginal, n
  <2> QED
    BY <1>4, <2>1 DEF ReadOriginal, targetVars
<1>5. CASE Map
  BY <1>5 DEF Map, probeVars, targetVars
<1>6. CASE Install
  BY <1>6 DEF Install, probeVars, targetVars
<1>7. CASE Patch
  BY <1>7 DEF Patch, probeVars, targetVars
<1>8. CASE Restore
  BY <1>8 DEF Restore, probeVars, targetVars
<1>9. CASE Unmap
  BY <1>9 DEF Unmap, probeVars, targetVars
<1>10. CASE Resume
  <2>1. CASE probed
    BY <1>10, Removed, <2>1 DEF Resume, probeVars, targetVars
  <2>2. CASE ~probed
    BY <1>10, Removed, <2>2 DEF Resume, probeVars, targetVars
  <2> QED
    BY <2>1, <2>2
<1>11. CASE GiveUp
  <2>1. CASE probed
    BY <1>11, Removed, <2>1 DEF GiveUp, probeVars, targetVars
  <2>2. CASE ~probed
    BY <1>11, Removed, <2>2 DEF GiveUp, probeVars, targetVars
  <2> QED
    BY <2>1, <2>2
<1>12. CASE Kill
  BY <1>12 DEF Kill, probeVars, targetVars
<1>13. CASE Reload
  BY <1>13 DEF Reload, Places, probeVars
<1>14. CASE Replace
  BY <1>14 DEF Replace, Files, probeVars
<1>15. CASE UNCHANGED vars
  BY <1>15 DEF vars, probeVars, targetVars
<1> QED
  BY <1>1, <1>2, <1>3, <1>4, <1>5, <1>6, <1>7, <1>8, <1>9, <1>10, <1>11, <1>12,
     <1>13, <1>14, <1>15 DEF Next, Command

\* The six parts are installed once each.
LEMMA PartsAll ==
    /\ Len(Parts) = 6
    /\ \A i \in 1..6 : Parts[i] \in Areas
    /\ \A i, j \in 1..6 : i # j => Parts[i] # Parts[j]
    /\ \A p \in Areas : \E i \in 1..6 : Parts[i] = p
  BY DEF Parts, Areas

\* Install and Restore count; whatever goes on to another call starts at none.
LEMMA StepStep ==
    ASSUME Types, StepInv, [Next]_vars
    PROVE  StepInv'
<1> USE DEF StepInv
<1>1. ASSUME NEW p, Goto(p) PROVE StepInv'
  BY <1>1 DEF Goto
<1>2. CASE Install
  <2>1. CASE pc' = pc /\ step' = step + 1 /\ step + 1 < Len(Parts)
    BY <1>2, <2>1, PartsAll DEF Install, Types
  <2>2. CASE Goto("patch") \/ Goto("giveUp")
    BY <1>1, <2>2
  <2> QED
    BY <1>2, <2>1, <2>2 DEF Install
<1>3. CASE Restore
  <2>1. CASE pc' = pc /\ step' = step + 1 /\ Word * (step + 1) < Len(saved)
    BY <1>3, <2>1 DEF Restore, probeVars
  <2>2. CASE Goto("unmap") \/ Goto("giveUp")
    BY <1>1, <2>2
  <2> QED
    BY <1>3, <2>1, <2>2 DEF Restore
<1>4. CASE Resolve \/ Detach \/ ReadOriginal \/ Map \/ Patch \/ Unmap \/ Resume \/ GiveUp \/ Kill
  BY <1>1, <1>4 DEF Resolve, Detach, ReadOriginal, Map, Patch, Unmap, Resume, GiveUp, Kill
<1>5. CASE Stop
  BY <1>1, <1>5 DEF Stop
<1>6. CASE Reload \/ Replace \/ UNCHANGED vars
  <2>1. pc' = pc /\ step' = step /\ saved' = saved
    BY <1>6 DEF Reload, Replace, vars, probeVars
  <2> QED
    BY <2>1
<1> QED
  BY <1>2, <1>3, <1>4, <1>5, <1>6 DEF Next, Command

LEMMA ValuesStep ==
    ASSUME Types, Values, RuntimeInv, [Next]_vars
    PROVE  Values'
<1> USE DEF Values, Goto, JmpLen
<1>1. ASSUME UNCHANGED <<target, saved, mem, runtime, stale>>
      PROVE  Values'
  BY <1>1 DEF Types
<1>2. ASSUME Remove, UNCHANGED <<mem, stale>>
      PROVE  Values'
  <2>1. saved' = <<>> /\ Len(saved') = 0 /\ saved' \in Seq(Byte) /\ target' = 0
        /\ runtime' = NoRuntime
    BY <1>2 DEF Remove
  <2> QED
    BY <1>2, <2>1
<1>3. CASE Resolve
  <2>1. stale' \subseteq {"moved", "replaced", "unloaded"}
    BY <1>3 DEF Resolve
  <2>2. target' \in Nat /\ UNCHANGED <<saved, mem, runtime>>
    BY <1>3, ResolvedAt DEF Resolve
  <2> QED
    BY <2>1, <2>2
<1>4. CASE Detach
  BY <1>1, <1>4 DEF Detach, probeVars
<1>5. CASE Stop
  BY <1>1, <1>2, <1>5 DEF Stop, probeVars
<1>6. CASE ReadOriginal
  <2>1. CASE pc' = "map"
    BY <1>6, <2>1, SavedValues DEF ReadOriginal
  <2>2. CASE pc' # "map"
    BY <1>1, <1>6, <2>2 DEF ReadOriginal
  <2> QED
    BY <2>1, <2>2
<1>7. CASE Map
  <2>1. runtime' = [o \in 0..(RuntimeSize - 1) |-> "zero"] \/ runtime' = runtime
    BY <1>7 DEF Map
  <2>2. UNCHANGED <<target, saved, mem, stale>>
    BY <1>7 DEF Map, probeVars
  <2> QED
    BY <2>1, <2>2
<1>8. CASE Install
  <2> DEFINE p == Parts[step + 1]
  <2>1. UNCHANGED <<target, saved, mem, stale>> /\ step \in 0..5
    BY <1>8, PartsAll DEF Install, probeVars, RuntimeInv
  <2>2. CASE runtime' = runtime
    BY <2>1, <2>2
  <2>3. CASE runtime' = [o \in DOMAIN runtime |->
                IF o \in Offset[p]..(Offset[p] + Written(p) - 1) THEN p ELSE runtime[o]]
    <3>1. DOMAIN runtime = 0..(RuntimeSize - 1)
      BY <1>8 DEF Install, RuntimeInv
    <3>2. p \in Areas
      BY <2>1, PartsAll
    <3>3. \A o \in DOMAIN runtime : runtime[o] \in Areas \cup {"zero"}
      <4>1. CASE runtime = NoRuntime
        <5>1. DOMAIN runtime = {}
          BY <4>1 DEF NoRuntime
        <5> QED
          BY <5>1
      <4>2. CASE runtime \in [0..(RuntimeSize - 1) -> Areas \cup {"zero"}]
        BY <4>2
      <4> QED
        BY <4>1, <4>2
    <3> HIDE DEF p
    <3>4. runtime' \in [0..(RuntimeSize - 1) -> Areas \cup {"zero"}]
      BY <2>3, <3>1, <3>2, <3>3
    <3> QED
      BY <2>1, <3>4
  <2> QED
    BY <1>8, <2>2, <2>3 DEF Install
<1>9. CASE Patch
  <2> DEFINE B == Byte \cup {Unmapped}
  <2>1. RelJmp \in Seq(B)
    BY PatchAssumption DEF RelJmp, Byte
  <2>2. mem \in [Space -> B] /\ target \in Int /\ 0 \in Nat
    OBVIOUS
  <2> HIDE DEF B
  <2>3. Poke(mem, target, RelJmp, 0) \in [Space -> B]
    BY <2>1, <2>2, MemoryStays
  <2> QED
    BY <1>9, <2>3 DEF Patch, probeVars, B
<1>10. CASE Restore
  <2> DEFINE B == Byte \cup {Unmapped}
  <2>1. saved \in Seq(B) /\ mem \in [Space -> B] /\ target \in Int
    OBVIOUS
  <2>2. Word * step \in Nat
    BY DEF Word, Types
  <2>3. /\ Poke(mem, target, saved, Word * step) \in [Space -> B]
        /\ Store(mem, target, saved) \in [Space -> B]
    <3> HIDE DEF B
    <3> QED
      BY <2>1, <2>2, MemoryStays
  <2>4. UNCHANGED <<target, saved, runtime, stale>> /\ mem' \in [Space -> Byte \cup {Unmapped}]
    BY <1>10, <2>3 DEF Restore, probeVars
  <2> QED
    BY <2>4
<1>11. CASE Unmap
  <2>1. runtime' = NoRuntime \/ runtime' = runtime
    BY <1>11 DEF Unmap
  <2> QED
    BY <1>11, <2>1 DEF Unmap, probeVars
<1>12. CASE Resume
  BY <1>1, <1>2, <1>12 DEF Resume
<1>13. CASE GiveUp
  BY <1>1, <1>2, <1>13 DEF GiveUp, probeVars
<1>14. CASE Kill
  BY <1>1, <1>14 DEF Kill, probeVars
<1>15. CASE Reload
  <2>1. lib' \in Files /\ other' \in Others
    BY <1>15 DEF Reload, Types
  <2>2. mem' \in [Space -> Byte \cup {Unmapped}]
    <3>1. Fresh' \in [Space -> Byte \cup {Unmapped}]
      BY <2>1, FreshLoaded, LoadedValues, Zenon
    <3> QED
      BY <1>15, <3>1 DEF Reload
  <2>3. stale' \subseteq {"moved", "replaced", "unloaded"}
    BY <1>15 DEF Reload
  <2> QED
    BY <1>15, <2>2, <2>3 DEF Reload, probeVars
<1>16. CASE Replace
  BY <1>1, <1>16 DEF Replace, probeVars
<1>17. CASE UNCHANGED vars
  BY <1>1, <1>17 DEF vars, probeVars
<1> QED
  BY <1>3, <1>4, <1>5, <1>6, <1>7, <1>8, <1>9, <1>10, <1>11, <1>12, <1>13, <1>14,
     <1>15, <1>16, <1>17 DEF Next, Command

LEMMA TargetStep ==
    ASSUME Types, TargetInv, [Next]_vars
    PROVE  TargetInv'
<1> USE DEF TargetInv, Goto
<1>0. UNCHANGED <<home, lib, other>> => (Found' <=> Found)
  BY DEF Found, Exports
<1>1. CASE Resolve
  BY <1>0, <1>1, ResolvedAt DEF Resolve, targetVars
<1>2. CASE Detach
  BY <1>0, <1>2 DEF Detach, probeVars, targetVars
<1>3. CASE Stop
  BY <1>0, <1>3 DEF Stop, Remove, probeVars, targetVars
<1>4. CASE ReadOriginal
  BY <1>0, <1>4 DEF ReadOriginal, targetVars
<1>5. CASE Map \/ Install \/ Patch \/ Restore \/ Unmap
  BY <1>0, <1>5 DEF Map, Install, Patch, Restore, Unmap, probeVars, targetVars
<1>6. CASE Resume \/ GiveUp
  BY <1>0, <1>6 DEF Resume, GiveUp, Remove, probeVars, targetVars
<1>7. CASE Kill
  BY <1>0, <1>7 DEF Kill, probeVars, targetVars
<1>8. CASE Reload
  BY <1>0, <1>8 DEF Reload, probeVars
<1>9. CASE Replace
  BY <1>0, <1>9 DEF Replace, probeVars
<1>10. CASE UNCHANGED vars
  BY <1>0, <1>10 DEF vars, probeVars, targetVars
<1> QED
  BY <1>1, <1>2, <1>3, <1>4, <1>5, <1>6, <1>7, <1>8, <1>9, <1>10 DEF Next, Command

\* A part that is not longer than its size covers no byte of another.
LEMMA PartFits ==
    ASSUME NEW p \in Areas, Written(p) <= Size[p], Len(saved) \in Nat
    PROVE  /\ Offset[p]..(Offset[p] + Written(p) - 1) \subseteq 0..(RuntimeSize - 1)
           /\ \A q \in Areas : p # q /\ Written(q) <= Size[q] =>
                 (Offset[p]..(Offset[p] + Written(p) - 1))
                    \cap (Offset[q]..(Offset[q] + Written(q) - 1)) = {}
<1>1. \A q \in Areas : Size[q] \in Nat /\ Written(q) \in Nat /\ Offset[q] \in Nat
  BY LayoutAssumption, AreasApart DEF Written
<1>2. RuntimeSize \in Nat /\ Offset[p] + Size[p] <= RuntimeSize
  BY OffsetsAscend, AreasApart
<1>3. Offset[p]..(Offset[p] + Written(p) - 1) \subseteq 0..(RuntimeSize - 1)
  BY <1>1, <1>2
<1>4. ASSUME NEW q \in Areas, p # q, Written(q) <= Size[q]
      PROVE  (Offset[p]..(Offset[p] + Written(p) - 1))
                \cap (Offset[q]..(Offset[q] + Written(q) - 1)) = {}
  <2>1. Offset[p] + Size[p] <= Offset[q] \/ Offset[q] + Size[q] <= Offset[p]
    BY <1>4, AreasApart
  <2>2. /\ Size[p] \in Nat /\ Written(p) \in Nat /\ Offset[p] \in Nat
        /\ Size[q] \in Nat /\ Written(q) \in Nat /\ Offset[q] \in Nat
    BY <1>1
  <2>3. Offset[p] + Written(p) <= Offset[q] \/ Offset[q] + Written(q) <= Offset[p]
    BY <1>4, <2>1, <2>2
  <2> QED
    BY <2>2, <2>3
<1> QED
  BY <1>3, <1>4

LEMMA RuntimeStep ==
    ASSUME Types, RuntimeInv, [Next]_vars
    PROVE  RuntimeInv'
<1> USE DEF RuntimeInv, Goto
<1>1. CASE UNCHANGED <<saved, runtime>> /\ (pc' = pc \/ pc' \in {"idle", "dead"})
        /\ step' \in {0, step} /\ probed' = probed
  BY <1>1 DEF Installed, Written
<1>2. CASE Remove /\ pc' = "idle"
  BY <1>2, Removed DEF Remove
<1>3. CASE Resolve \/ Detach \/ Stop
  BY <1>2, <1>3 DEF Resolve, Detach, Stop, probeVars, Installed, Written
<1>4. CASE ReadOriginal
  BY <1>4 DEF ReadOriginal, Types
<1>5. CASE Map
  <2>1. CASE pc' = "install"
    <3>1. runtime' = [o \in 0..(RuntimeSize - 1) |-> "zero"] /\ step' = 0 /\ ~probed'
      BY <1>5, <2>1 DEF Map, probeVars, Types
    <3> QED
      BY <2>1, <3>1
  <2>2. CASE pc' = "giveUp"
    BY <1>5, <2>2 DEF Map, probeVars, Types
  <2> QED
    BY <1>5, <2>1, <2>2 DEF Map
<1>6. CASE Install
  <2>1. ~probed' /\ saved' = saved
    BY <1>6 DEF Install, probeVars, Types
  <2>2. CASE pc' = "giveUp"
    BY <2>1, <2>2
  <2>3. CASE pc' # "giveUp"
    <3>0. PICK k : k = step + 1
      OBVIOUS
    <3>. DEFINE p == Parts[k]
    <3>1. /\ Written(p) <= Size[p]
          /\ runtime' = [o \in DOMAIN runtime |->
                IF o \in Offset[p]..(Offset[p] + Written(p) - 1) THEN p ELSE runtime[o]]
          /\ IF step + 1 < 6 THEN step' = step + 1 /\ pc' = pc
                             ELSE step' = 0 /\ pc' = "patch"
      BY <1>6, <2>3, <3>0, PartsAll DEF Install
    <3>2. /\ pc = "install"
          /\ step \in 0..5
          /\ DOMAIN runtime = 0..(RuntimeSize - 1)
          /\ \A i \in 1..step : Installed(Parts[i]) /\ Written(Parts[i]) <= Size[Parts[i]]
      BY <1>6 DEF Install
    <3>3. p \in Areas /\ \A i \in 1..step : Parts[i] \in Areas /\ Parts[i] # p
      BY <3>0, <3>2, PartsAll
    <3>4. \A q : Written(q)' = Written(q)
      BY <2>1 DEF Written
    <3> HIDE DEF p
    <3>5. Installed(p)'
      BY <3>1, <3>2, <3>3, <3>4, PartFits DEF Installed, Types
    <3>6. ASSUME NEW i \in 1..step
          PROVE  Installed(Parts[i])'
      BY <3>1, <3>2, <3>3, <3>4, PartFits DEF Installed, Types
    <3>7. ASSUME NEW i \in 1..(step + 1)
          PROVE  Installed(Parts[i])' /\ (Written(Parts[i]) <= Size[Parts[i]])'
      <4>1. CASE i = step + 1
        BY <3>0, <3>1, <3>4, <3>5, <4>1 DEF p
      <4>2. CASE i # step + 1
        <5>1. i \in 1..step
          BY <3>2, <4>2
        <5> QED
          BY <3>2, <3>4, <3>6, <5>1
      <4> QED
        BY <4>1, <4>2
    <3>8. DOMAIN runtime' = 0..(RuntimeSize - 1)
      BY <3>1, <3>2
    <3>9. CASE step + 1 < 6
      BY <2>1, <3>1, <3>2, <3>7, <3>8, <3>9
    <3>10. CASE ~(step + 1 < 6)
      <4>1. \A q \in Areas : Installed(q)'
        BY <3>2, <3>7, <3>10, PartsAll
      <4>2. pc' = "patch"
        BY <3>1, <3>10
      <4> QED
        BY <4>1, <4>2
    <3> QED
      BY <3>9, <3>10
  <2> QED
    BY <2>2, <2>3
<1>7. CASE Patch
  BY <1>7 DEF Patch, probeVars, Installed, Written, Types
<1>8. CASE Restore
  BY <1>8 DEF Restore, probeVars, Installed, Written, Types
<1>9. CASE Unmap
  BY <1>9 DEF Unmap, probeVars, Installed, Written, Types
<1>10. CASE Resume
  BY <1>2, <1>10 DEF Resume, Installed, Written
<1>11. CASE GiveUp
  BY <1>2, <1>11 DEF GiveUp, probeVars, Installed, Written
<1>12. CASE Kill \/ Reload \/ Replace \/ UNCHANGED vars
  BY <1>1, <1>12 DEF Kill, Reload, Replace, vars, probeVars
<1> QED
  BY <1>3, <1>4, <1>5, <1>6, <1>7, <1>8, <1>9, <1>10, <1>11, <1>12 DEF Next, Command

\* A step that leaves target, saved and the mappings leaves what CodeInv says
\* they are.
LEMMA Same ==
    ASSUME UNCHANGED <<target, saved, targetVars>>
    PROVE  /\ Fresh' = Fresh /\ Jmp' = Jmp
           /\ \A n : SavedFrom(n)' <=> SavedFrom(n)
<1>1. Fresh' = Fresh
  BY FreshStays
<1> QED
  BY <1>1 DEF Jmp, SavedFrom

LEMMA CodeStep ==
    ASSUME Types, CodeInv, [Next]_vars
    PROVE  CodeInv'
<1> SUFFICES ASSUME "unloaded" \notin stale' PROVE CodeInv'
  BY DEF CodeInv
<1> USE DEF Goto
<1>1. CASE Remove /\ mem = Fresh /\ pc' = "idle" /\ UNCHANGED <<targetVars, mem, stale>>
  <2>1. ~probed' /\ mem' = Fresh'
    BY <1>1, Removed, FreshStays
  <2> QED
    BY <1>1, <2>1 DEF CodeInv
<1>2. CASE Resolve
  <2>1. "unloaded" \notin stale
    BY <1>2 DEF Resolve
  <2>2. ~probed' /\ mem' = Fresh' /\ pc' = "stop"
    BY <1>2, <2>1, FreshStays DEF Resolve, CodeInv
  <2> QED
    BY <2>2 DEF CodeInv
<1>3. CASE Detach
  BY <1>3, Same DEF Detach, probeVars, CodeInv
<1>4. CASE Stop
  <2>1. CASE probed
    <3>1. pc' \in {"restore", "idle"} /\ UNCHANGED <<target, saved, targetVars, mem, probed, stale>>
          /\ step' = 0
      BY <1>4, <2>1 DEF Stop, probeVars
    <3> QED
      BY <2>1, <3>1, Same DEF CodeInv
  <2>2. CASE ~probed /\ pc' = "read"
    <3>1. UNCHANGED <<target, saved, targetVars, mem, probed, stale>> /\ pc = "stop"
      BY <1>4, <2>2 DEF Stop, probeVars
    <3> QED
      BY <2>2, <3>1, Same DEF CodeInv
  <2>3. CASE ~probed /\ pc' # "read"
    <3>1. Remove /\ pc = "stop" /\ pc' = "idle" /\ UNCHANGED <<targetVars, mem, stale>>
      BY <1>4, <2>3 DEF Stop
    <3> QED
      BY <1>1, <2>3, <3>1 DEF CodeInv
  <2> QED
    BY <2>1, <2>2, <2>3
<1>5. CASE ReadOriginal
  <2> DEFINE n == PatchLen(Read(mem, target, MaxOriginal), JmpLen)
  <2> HIDE DEF n
  <2>1. ~probed' /\ mem = Fresh /\ mem' = Fresh' /\ Fresh' = Fresh
    BY <1>5, FreshStays DEF ReadOriginal, CodeInv, Types
  <2>2. CASE pc' = "giveUp"
    BY <2>1, <2>2 DEF CodeInv
  <2>3. CASE pc' # "giveUp"
    <3>1. /\ Mapped(mem, target, MaxOriginal) /\ n \in 1..MaxOriginal
          /\ saved' = Read(mem, target, n) /\ pc' = "map" /\ target' = target
      BY <1>5, <2>3 DEF ReadOriginal, n
    <3>2. Len(saved') = n
      BY <3>1, ReadLen, PatchAssumption DEF Types
    <3>3. target..(target + n - 1) \subseteq Space
      <4>1. DOMAIN mem = Space /\ target \in Int /\ n \in Nat /\ n <= MaxOriginal
        BY <2>1, <3>1, PatchAssumption DEF Fresh, Types
      <4>2. \A x \in target..(target + MaxOriginal - 1) : x \in Space
        BY <3>1, <4>1 DEF Mapped
      <4>3. target..(target + n - 1) \subseteq target..(target + MaxOriginal - 1)
        BY <4>1, PatchAssumption
      <4> QED
        BY <4>2, <4>3
    <3>4. SavedFrom(1)'
      BY <2>1, <3>1, <3>2, <3>3 DEF SavedFrom
    <3> QED
      BY <2>1, <3>1, <3>4 DEF CodeInv
  <2> QED
    BY <2>2, <2>3
<1>6. CASE Map
  BY <1>6, Same DEF Map, probeVars, CodeInv, Types
<1>7. CASE Install
  BY <1>7, Same DEF Install, probeVars, CodeInv, Types
<1>8. CASE Patch
  <2>1. ~probed' /\ UNCHANGED <<target, saved, targetVars>> /\ mem = Fresh /\ SavedFrom(1)
    BY <1>8 DEF Patch, probeVars, CodeInv, Types
  <2>2. CASE pc' = "giveUp"
    BY <1>8, <2>1, <2>2, Same DEF Patch, CodeInv
  <2>3. CASE pc' # "giveUp"
    <3>1. Len(saved) >= JmpLen /\ mem' = Poke(mem, target, RelJmp, 0) /\ pc' = "resume"
      BY <1>8, <2>3 DEF Patch
    <3>2. mem' = Jmp
      BY <2>1, <3>1, PokeJmp DEF Jmp, Types
    <3>3. SavedFrom(JmpLen)
      BY <2>1, <3>1 DEF SavedFrom
    <3> QED
      BY <2>1, <3>1, <3>2, <3>3, Same DEF CodeInv
  <2> QED
    BY <2>2, <2>3
<1>9. CASE Restore
  <2>1. /\ probed /\ probed' /\ UNCHANGED <<target, saved, targetVars>>
        /\ mem \in {Fresh, Jmp} /\ SavedFrom(JmpLen) /\ SavedFrom(1)
        /\ step > 0 => mem = Fresh
    BY <1>9 DEF Restore, probeVars, CodeInv, Types, SavedFrom, JmpLen
  <2>2. CASE mem' = Fresh
    BY <1>9, <2>1, <2>2, Same DEF Restore, CodeInv
  <2>3. CASE mem' = Poke(mem, target, saved, Word * step)
    <3>1. CASE step > 0
      <4>1. Word * step \in Nat
        BY DEF Types, Word
      <4>2. mem' = Fresh
        BY <2>1, <2>3, <3>1, <4>1, PokeBack DEF Types
      <4> QED
        BY <2>2, <4>2
    <3>2. CASE step = 0
      <4>1. Word * step = 0
        BY <3>2 DEF Word
      <4>2. mem' = Fresh
        BY <2>1, <2>3, <4>1, PokeOver, PokeBack DEF Types
      <4> QED
        BY <2>2, <4>2
    <3> QED
      BY <3>1, <3>2 DEF Types
  <2>4. CASE mem' = Store(mem, target, saved)
    <3>1. mem' = Fresh
      BY <2>1, <2>4, StoreOver DEF Types
    <3> QED
      BY <2>2, <3>1
  <2>5. CASE mem' = mem /\ pc' = "giveUp"
    BY <1>9, <2>1, <2>5, Same DEF Restore, CodeInv
  <2> QED
    BY <1>9, <2>3, <2>4, <2>5 DEF Restore
<1>10. CASE Unmap
  BY <1>10, Same DEF Unmap, probeVars, CodeInv, Types
<1>11. CASE Resume
  <2>1. CASE probed
    BY <1>1, <1>11, <2>1 DEF Resume, CodeInv
  <2>2. CASE ~probed
    BY <1>11, <2>2, Same DEF Resume, CodeInv
  <2> QED
    BY <2>1, <2>2
<1>12. CASE GiveUp
  <2>1. CASE probed
    BY <1>12, <2>1, Same DEF GiveUp, probeVars, CodeInv
  <2>2. CASE ~probed
    BY <1>1, <1>12, <2>2 DEF GiveUp, CodeInv
  <2> QED
    BY <2>1, <2>2
<1>13. CASE Kill
  BY <1>13, Same DEF Kill, probeVars, CodeInv
<1>14. CASE Reload
  <2>1. ~probed /\ ~probed' /\ mem' = Fresh' /\ pc' = pc /\ pc \in {"idle", "stop"}
    BY <1>14 DEF Reload, probeVars, Types, Pcs
  <2> QED
    BY <2>1 DEF CodeInv
<1>15. CASE Replace
  <2>1. Fresh' = Fresh /\ Jmp' = Jmp /\ \A k : SavedFrom(k)' <=> SavedFrom(k)
    BY <1>15 DEF Replace, Fresh, FileAt, Jmp, SavedFrom, probeVars
  <2> QED
    BY <1>15, <2>1 DEF Replace, probeVars, CodeInv
<1>16. CASE UNCHANGED vars
  BY <1>16, Same DEF vars, probeVars, targetVars, CodeInv
<1> QED
  BY <1>2, <1>3, <1>4, <1>5, <1>6, <1>7, <1>8, <1>9, <1>10, <1>11, <1>12, <1>13,
     <1>14, <1>15, <1>16 DEF Next, Command

\* Where the library is mapped, its bytes are those of the file.
LEMMA ImageAt ==
    ASSUME Types, NEW x \in Nat, x < Len(lib.image)
    PROVE  home + x \in Space /\ Fresh[home + x] = lib.image[x + 1]
<1>1. Len(lib.image) \in Nat /\ Len(lib.image) <= Span /\ home \in Places
  BY TextIs DEF Types
<1>2. home + x \in home..(home + Span - 1) /\ home \in Nat
  BY <1>1, PatchAssumption DEF Places
<1>3. home + x \in Space
  BY <1>1, <1>2 DEF Space
<1>4. PlaceOf(home + x) = home /\ (home + x) - home = x
  BY <1>1, <1>2, PatchAssumption DEF PlaceOf, Places
<1>5. Fresh[home + x] = IF x < Len(lib.image) THEN lib.image[x + 1] ELSE Unmapped
  <2> DEFINE y == home + x
  <2>1. Fresh[y] = LET p == PlaceOf(y)
                       f == FileAt(p)
                   IN  IF y - p < Len(f.image) THEN f.image[y - p + 1] ELSE Unmapped
    BY <1>3 DEF Fresh
  <2>2. y - PlaceOf(y) = x /\ FileAt(PlaceOf(y)) = lib
    <3>1. PlaceOf(y) = home /\ y - home = x
      BY <1>4
    <3> HIDE DEF y
    <3> QED
      BY <3>1 DEF FileAt
  <2> HIDE DEF y
  <2>3. Fresh[y] = IF x < Len(lib.image) THEN lib.image[x + 1] ELSE Unmapped
    BY <2>1, <2>2, Zenon
  <2> QED
    BY <2>3 DEF y
<1> QED
  BY <1>3, <1>5

\* None begins before the function.
LEMMA TextAscends ==
    ASSUME NEW f \in Files, NEW i \in 1..Len(f.text)
    PROVE  Begin(f, i) - f.entry \in Nat
<1> DEFINE S == {k \in 1..Len(f.text) : Begin(f, k) < f.entry}
<1>1. /\ Len(f.text) \in Nat /\ f.entry \in Nat
      /\ \A k \in 1..Len(f.text) : /\ Begin(f, k) \in Nat /\ f.text[k].end \in Nat
                                   /\ f.text[k].end > Begin(f, k)
  BY TextIs
<1>2. S = {}
  <2> SUFFICES ASSUME S # {} PROVE FALSE
    OBVIOUS
  <2>1. S \in SUBSET Nat
    BY <1>1
  <2>2. PICK k \in S : \A j \in S : k <= j
    BY <2>1, LeastIn, Zenon
  <2>3. k \in 1..Len(f.text) /\ Begin(f, k) < f.entry
    BY <2>2
  <2>4. k # 1
    BY <1>1, <2>3 DEF Begin
  <2>5. k - 1 \in 1..Len(f.text) /\ k - 1 \notin S
    BY <1>1, <2>2, <2>3, <2>4
  <2>6. ~(Begin(f, k - 1) < f.entry) /\ Begin(f, k) = f.text[k - 1].end
    BY <2>4, <2>5 DEF Begin
  <2>7. f.text[k - 1].end > Begin(f, k - 1) /\ f.text[k - 1].end \in Nat /\ Begin(f, k - 1) \in Nat
    BY <1>1, <2>5
  <2> QED
    BY <1>1, <2>3, <2>6, <2>7
<1>3. ~(Begin(f, i) < f.entry)
  BY <1>2
<1>4. Begin(f, i) \in Nat
  BY <1>1
<1> QED
  BY <1>1, <1>3, <1>4

\* The first instruction that ends behind a jmp is one of the first five.
LEMMA EnoughText ==
    ASSUME NEW f \in Files
    PROVE  \E k \in 1..JmpLen :
              /\ f.text[k].end - f.entry >= JmpLen
              /\ \A i \in 1..(k - 1) : f.text[i].end - f.entry < JmpLen
<1> DEFINE S == {i \in 1..JmpLen : f.text[i].end - f.entry >= JmpLen}
<1>1. /\ f.entry \in Nat /\ Len(f.text) \in Nat /\ Len(f.text) >= 5
      /\ \A i \in 1..Len(f.text) : f.text[i].end \in Nat /\ f.text[i].end > Begin(f, i)
  BY TextIs DEF JmpLen
<1>2. /\ f.text[1].end > f.entry
      /\ f.text[2].end > f.text[1].end /\ f.text[3].end > f.text[2].end
      /\ f.text[4].end > f.text[3].end /\ f.text[5].end > f.text[4].end
  <2>1. 1 \in 1..Len(f.text) /\ 2 \in 1..Len(f.text) /\ 3 \in 1..Len(f.text)
        /\ 4 \in 1..Len(f.text) /\ 5 \in 1..Len(f.text)
    BY <1>1
  <2>2. /\ Begin(f, 1) = f.entry /\ Begin(f, 2) = f.text[1].end
        /\ Begin(f, 3) = f.text[2].end /\ Begin(f, 4) = f.text[3].end
        /\ Begin(f, 5) = f.text[4].end
    BY DEF Begin
  <2> QED
    BY <1>1, <2>1, <2>2
<1>3. \A i \in 1..5 : f.text[i].end \in Nat
  BY <1>1
<1>4. f.text[5].end - f.entry >= 5
  <2> DEFINE e(i) == f.text[i].end
  <2>1. \A i \in {1, 2, 3, 4, 5} : e(i) \in Int
    BY <1>3
  <2>2. e(1) > f.entry /\ e(2) > e(1) /\ e(3) > e(2) /\ e(4) > e(3) /\ e(5) > e(4)
    BY <1>2
  <2>3. f.entry \in Int
    BY <1>1
  <2> HIDE DEF e
  <2>4. e(5) - f.entry >= 5
    BY <2>1, <2>2, <2>3
  <2> QED
    BY <2>4 DEF e
<1>5. S \in SUBSET Nat /\ S # {}
  <2>1. 5 \in S
    BY <1>4 DEF JmpLen
  <2> QED
    BY <2>1 DEF JmpLen
<1>6. PICK k \in S : \A j \in S : k <= j
  BY <1>5, LeastIn, Zenon
<1>7. ASSUME NEW i \in 1..(k - 1) PROVE f.text[i].end - f.entry < JmpLen
  <2>1. i \in 1..5 /\ i < k
    BY <1>6 DEF JmpLen
  <2>2. i \notin S
    <3> HIDE DEF S
    <3> QED
      BY <1>5, <1>6, <2>1
  <2>3. ~(f.text[i].end - f.entry >= JmpLen)
    BY <2>1, <2>2 DEF JmpLen
  <2> DEFINE d == f.text[i].end - f.entry
  <2>4. d \in Int
    <3>1. f.text[i].end \in Nat /\ f.entry \in Nat
      BY <1>1, <1>3, <2>1
    <3> QED
      BY <3>1
  <2> HIDE DEF d
  <2>5. d < JmpLen
    BY <2>3, <2>4 DEF JmpLen, d
  <2> QED
    BY <2>5 DEF d
<1>8. k \in 1..JmpLen /\ f.text[k].end - f.entry >= JmpLen
  BY <1>6
<1> QED
  BY <1>7, <1>8

\* One turn of the decoder's loop: from the begin of an instruction that it
\* measures right to its end.
LEMMA OneTurn ==
    ASSUME Measured, NEW f \in Files, NEW code \in Seq(Byte),
           \A j \in 1..Len(code) : f.entry + j <= Len(f.image) => code[j] = f.image[f.entry + j],
           NEW from, Measures(from, code, JmpLen, 0),
           NEW i \in 1..Len(f.text), f.text[i].kind # "misread",
           Begin(f, i) - f.entry \in 0..(JmpLen - 1), Len(code) >= JmpLen,
           from[Begin(f, i) - f.entry] # Failed
    PROVE  /\ f.text[i].end - f.entry \in 0..Len(code)
           /\ from[f.text[i].end - f.entry] = from[Begin(f, i) - f.entry]
<1> DEFINE e == f.entry
           p == Begin(f, i)
           q == f.text[i].end
           t == p - e
           L == Len(code)
<1>1. /\ e \in Nat /\ p \in Nat /\ q \in Nat /\ q > p /\ q <= Len(f.image)
      /\ f.image \in Seq(Byte) /\ Len(f.image) \in Nat /\ L \in Nat
  BY TextIs, LenProperties
<1>2. t \in 0..L /\ t < JmpLen /\ t \in 0..Len(code) /\ p = e + t
  <2> HIDE DEF p, e, L
  <2>1. t \in 0..(JmpLen - 1) /\ L >= JmpLen
    BY DEF p, e, L
  <2>2. t \in 0..L /\ t < JmpLen /\ p = e + t
    BY <1>1, <2>1 DEF JmpLen
  <2> QED
    BY <2>2 DEF L
<1>3. from[t] = IF LenAt(code, t) = Failed THEN Failed ELSE from[t + LenAt(code, t)]
  <2> HIDE DEF t, p, e
  <2>1. from[t] = Measure(from, code, JmpLen, t)
    BY <1>2 DEF Measures
  <2>2. ~(t >= JmpLen)
    BY <1>2 DEF JmpLen
  <2> QED
    BY <2>1, <2>2, Zenon DEF Measure
<1>4. LenAt(code, t) # Failed /\ from[t + LenAt(code, t)] = from[t]
  BY <1>3
<1>5. LenAt(code, t) = q - p
  <2>1. InsnLen(SubSeq(f.image, p + 1, q)) = q - p
    <3>1. DOMAIN f.text = 1..Len(f.text)
      BY FilesAssumption, LenProperties
    <3> QED
      BY <3>1 DEF Measured
  <2>2. \A j \in 1..(L - t) : p + j <= q => code[t + j] = f.image[p + j]
    <3> SUFFICES ASSUME NEW j \in 1..(L - t), p + j <= q PROVE code[t + j] = f.image[p + j]
      OBVIOUS
    <3> HIDE DEF t, p, q, e, L
    <3>1. t + j \in 1..L /\ e + (t + j) = p + j /\ p + j <= Len(f.image)
      BY <1>1, <1>2
    <3> QED
      BY <3>1 DEF e, L
  <2>3. q \in (p + 1)..Len(f.image)
    BY <1>1
  <2> HIDE DEF p, q, e, t
  <2> QED
    BY <1>1, <1>2, <1>4, <2>1, <2>2, <2>3, OneMeasured
<1>6. t + (q - p) = q - e
  <2>1. e \in Nat /\ p \in Nat /\ q \in Nat
    BY <1>1
  <2> HIDE DEF p, q, e
  <2> QED
    BY <2>1
<1>7. q - e \in 0..L
  <2>1. t + LenAt(code, t) <= L /\ LenAt(code, t) \in 0..15
    <3> HIDE DEF t
    <3> QED
      BY <1>2, LenAtIs
  <2>2. q - e <= L
    BY <1>5, <1>6, <2>1
  <2> QED
    BY <1>1, <1>2, <2>2
<1> QED
  BY <1>4, <1>5, <1>6, <1>7

\* What the decoder's loop returns are whole instructions of the function.
LEMMA WholeInstructions ==
    ASSUME Measured, Types, Values, SavedMeasured, saved # <<>>,
           target = home + lib.entry, \A i \in 1..JmpLen : Kind(i) # "misread"
    PROVE  \E k \in 1..Len(lib.text) : Whole(k)
<1> DEFINE code == Read(Fresh, target, MaxOriginal)
           n    == Len(saved)
           e    == lib.entry
           L    == Len(code)
<1>1. /\ lib \in Files /\ e \in Nat /\ home \in Nat /\ target \in Nat
      /\ Len(lib.text) \in Nat /\ Len(lib.text) >= JmpLen
      /\ lib.image \in Seq(Byte) /\ Len(lib.image) \in Nat
  BY TextIs, PatchAssumption DEF Types, Values, Places
<1>2. code \in Seq(Byte) /\ L = MaxOriginal
  <2>1. Fresh \in [Space -> Byte \cup {Unmapped}]
    BY FreshLoaded, LoadedValues DEF Types
  <2>2. MaxOriginal \in 0..MaxOriginal /\ MaxOriginal \in Nat
    BY PatchAssumption
  <2> QED
    BY <1>1, <2>1, <2>2, ReadBytes DEF SavedMeasured
<1>3. n \in Nat /\ n # Failed /\ n = PatchLen(code, JmpLen)
  BY PatchAssumption DEF SavedMeasured, Values, JmpLen, Failed
<1>4. \A j \in Nat : e + j < Len(lib.image) => Fresh[target + j] = lib.image[e + j + 1]
  <2> SUFFICES ASSUME NEW j \in Nat, e + j < Len(lib.image)
               PROVE  Fresh[target + j] = lib.image[e + j + 1]
    OBVIOUS
  <2> DEFINE x == e + j
  <2>1. x \in Nat /\ x < Len(lib.image) /\ home + x = target + j
    BY <1>1
  <2> HIDE DEF x
  <2>2. Fresh[home + x] = lib.image[x + 1]
    BY <2>1, ImageAt
  <2> QED
    BY <2>1, <2>2 DEF x
<1>5. ASSUME NEW s, NEW m \in Nat, s = Read(Fresh, target, m), NEW j \in 1..m,
             e + j <= Len(lib.image)
      PROVE  s[j] = lib.image[e + j]
  <2>1. s[j] = Fresh[target + j - 1]
    BY <1>5 DEF Read
  <2>2. j - 1 \in Nat /\ e + (j - 1) < Len(lib.image) /\ target + (j - 1) = target + j - 1
        /\ e + (j - 1) + 1 = e + j
    BY <1>1, <1>5
  <2> QED
    BY <1>4, <2>1, <2>2
<1>6. PICK from : Measures(from, code, JmpLen, 0) /\ n = from[0]
  BY <1>2, <1>3, PatchLenLoops DEF JmpLen
<1>7. PICK k \in 1..JmpLen : /\ lib.text[k].end - e >= JmpLen
                             /\ \A i \in 1..(k - 1) : lib.text[i].end - e < JmpLen
  BY <1>1, EnoughText
<1>8. k \in 1..Len(lib.text)
  BY <1>1, <1>7 DEF JmpLen
<1> DEFINE at(i)  == Begin(lib, i) - e
           end(i) == lib.text[i].end - e
<1>9. ASSUME NEW i \in 1..k, from[at(i)] = n
      PROVE  end(i) \in 0..L /\ from[end(i)] = n
  <2>1. i \in 1..Len(lib.text) /\ i \in 1..JmpLen
    BY <1>1, <1>7 DEF JmpLen
  <2>2. at(i) \in 0..(JmpLen - 1)
    <3>1. CASE i = 1
      BY <1>1, <3>1 DEF Begin, JmpLen
    <3>2. CASE i # 1
      <4>1. i - 1 \in 1..(k - 1) /\ i - 1 \in 1..Len(lib.text)
        BY <1>1, <1>7, <2>1, <3>2 DEF JmpLen
      <4>2. Begin(lib, i) = lib.text[i - 1].end
        BY <3>2 DEF Begin
      <4>3. lib.text[i - 1].end - e < JmpLen
        BY <1>7, <4>1
      <4>4. Begin(lib, i) \in Nat /\ Begin(lib, i) - e \in Nat
        BY <1>1, <2>1, TextIs, TextAscends
      <4> QED
        BY <4>2, <4>3, <4>4 DEF JmpLen
    <3> QED
      BY <3>1, <3>2
  <2>3. lib.text[i].kind # "misread"
    BY <2>1 DEF Kind
  <2>4. \A j \in 1..L : e + j <= Len(lib.image) => code[j] = lib.image[e + j]
    BY <1>2, <1>5, PatchAssumption
  <2>5. L >= JmpLen
    BY <1>2, PatchAssumption DEF JmpLen
  <2> HIDE DEF code
  <2> QED
    BY <1>1, <1>2, <1>3, <1>6, <1>9, <2>1, <2>2, <2>3, <2>4, <2>5, OneTurn
<1>10. \A i \in 1..k : from[at(i)] = n
  <2> DEFINE S == {i \in 1..k : from[at(i)] # n}
  <2> SUFFICES ASSUME S # {} PROVE FALSE
    OBVIOUS
  <2>1. S \in SUBSET Nat
    BY <1>7
  <2>2. PICK i \in S : \A j \in S : i <= j
    BY <2>1, LeastIn, Zenon
  <2>3. i # 1
    <3>1. at(1) = 0
      BY <1>1 DEF Begin
    <3> QED
      BY <1>6, <2>2, <3>1
  <2>4. i - 1 \in 1..k /\ i - 1 \notin S
    BY <1>7, <2>2, <2>3
  <2>5. from[end(i - 1)] = n
    BY <1>9, <2>4
  <2>6. at(i) = end(i - 1)
    BY <2>3 DEF Begin
  <2> QED
    BY <2>2, <2>5, <2>6
<1>11. end(k) = n
  <2>1. k \in 1..k
    BY <1>7
  <2>2. end(k) \in 0..L /\ from[end(k)] = n
    BY <1>9, <1>10, <2>1
  <2>3. from[end(k)] = Measure(from, code, JmpLen, end(k))
    BY <1>6, <2>2 DEF Measures
  <2> QED
    BY <1>7, <2>2, <2>3 DEF Measure
<1>12. Whole(k)
  <2> DEFINE q == lib.text[k].end
             w == SubSeq(lib.image, e + 1, q)
  <2>1. q \in Nat /\ q = e + n /\ q <= Len(lib.image)
    BY <1>1, <1>3, <1>8, <1>11, TextIs
  <2> DEFINE g == e + 1
  <2>2. \A j \in g..q : lib.image[j] \in Byte
    <3>1. \A j \in g..q : j \in 1..Len(lib.image)
      BY <1>1, <2>1
    <3> QED
      BY <1>1, <3>1, ElementOfSeq
  <2>3. g \in Int /\ q \in Int /\ q - g + 1 = n /\ (g <= q \/ n = 0)
        /\ \A j \in 1..n : g + j - 1 = e + j
    <3> HIDE DEF n, e, q
    <3>1. n \in Nat /\ e \in Nat /\ q \in Nat /\ q = e + n
      BY <1>1, <1>3, <2>1
    <3> QED
      BY <3>1
  <2>4. w \in Seq(Byte) /\ Len(w) = n /\ \A j \in 1..n : w[j] = lib.image[e + j]
    <3> HIDE DEF g, q
    <3>1. /\ SubSeq(lib.image, g, q) \in Seq(Byte)
          /\ Len(SubSeq(lib.image, g, q)) = IF g <= q THEN q - g + 1 ELSE 0
          /\ \A j \in 1..(q - g + 1) : SubSeq(lib.image, g, q)[j] = lib.image[g + j - 1]
      BY <2>2, <2>3, SubSeqProperties
    <3>2. w = SubSeq(lib.image, g, q)
      BY DEF g
    <3> HIDE DEF w
    <3> QED
      BY <2>3, <3>1, <3>2
  <2>5. \A j \in 1..n : saved[j] = lib.image[e + j]
    <3>1. \A j \in 1..n : e + j <= Len(lib.image)
      BY <1>1, <1>3, <2>1
    <3> QED
      BY <1>3, <1>5, <3>1 DEF SavedMeasured, SavedFrom
  <2>6. saved \in Seq(Byte)
    BY DEF Values
  <2> HIDE DEF w
  <2>7. saved = w
    BY <2>4, <2>5, <2>6, SeqEqual
  <2> QED
    BY <2>7 DEF w, q, Whole
<1> QED
  BY <1>8, <1>12

LEMMA LengthStep ==
    ASSUME Types, Values, CodeInv, LengthInv, [Next]_vars
    PROVE  LengthInv'
<1> SUFFICES ASSUME "unloaded" \notin stale',
                    (mem # Fresh \/ probed \/ pc \in {"map", "install", "patch", "resume"})'
             PROVE  SavedMeasured'
  BY DEF LengthInv
<1> USE DEF Goto
<1>1. ASSUME UNCHANGED <<target, saved, targetVars>>
      PROVE  Fresh' = Fresh /\ (SavedMeasured' <=> SavedMeasured)
  BY <1>1, Same DEF SavedMeasured
<1>2. CASE Resolve
  BY <1>2, FreshStays DEF Resolve, CodeInv
<1>3. CASE Detach
  BY <1>1, <1>3 DEF Detach, probeVars, LengthInv
<1>4. CASE Stop
  <2>1. CASE probed
    BY <1>1, <1>4, <2>1 DEF Stop, probeVars, LengthInv
  <2>2. CASE ~probed
    <3>1. mem' = Fresh' /\ pc' \in {"read", "idle"} /\ ~probed'
      BY <1>4, <2>2, FreshStays, Removed DEF Stop, CodeInv, probeVars
    <3> QED
      BY <3>1
  <2> QED
    BY <2>1, <2>2
<1>5. CASE ReadOriginal
  <2>1. mem = Fresh /\ mem' = Fresh' /\ Fresh' = Fresh /\ ~probed' /\ target' = target
    BY <1>5, FreshStays DEF ReadOriginal, CodeInv, Types
  <2>2. pc' = "map"
    BY <1>5, <2>1 DEF ReadOriginal
  <2>3. SavedFrom(1)'
    BY <1>5, <2>2, CodeStep DEF CodeInv
  <2>4. Mapped(Fresh, target, MaxOriginal)
    BY <1>5, <2>1, <2>2 DEF ReadOriginal
  <2>5. Len(saved') = PatchLen(Read(Fresh, target, MaxOriginal), JmpLen)
    BY <1>5, <2>1, <2>2, SavedValues
  <2> QED
    BY <2>1, <2>3, <2>4, <2>5 DEF SavedMeasured
<1>6. CASE Map \/ Install \/ Patch
  <2>1. /\ pc \in {"map", "install", "patch"} /\ "unloaded" \notin stale
        /\ UNCHANGED <<target, saved, targetVars>>
    BY <1>6 DEF Map, Install, Patch, probeVars
  <2> QED
    BY <1>1, <2>1 DEF LengthInv
<1>7. CASE Restore \/ Unmap
  <2>1. probed /\ "unloaded" \notin stale /\ UNCHANGED <<target, saved, targetVars>>
    BY <1>7 DEF Restore, Unmap, probeVars, Types
  <2> QED
    BY <1>1, <2>1 DEF LengthInv
<1>8. CASE Resume
  <2>1. CASE probed
    BY <1>8, <2>1, Removed, FreshStays DEF Resume, CodeInv
  <2>2. CASE ~probed
    BY <1>1, <1>8, <2>2 DEF Resume, LengthInv
  <2> QED
    BY <2>1, <2>2
<1>9. CASE GiveUp
  <2>1. CASE probed
    BY <1>1, <1>9, <2>1 DEF GiveUp, probeVars, LengthInv
  <2>2. CASE ~probed
    BY <1>9, <2>2, Removed, FreshStays DEF GiveUp, CodeInv
  <2> QED
    BY <2>1, <2>2
<1>10. CASE Kill
  BY <1>1, <1>10 DEF Kill, probeVars, LengthInv
<1>11. CASE Reload
  BY <1>11 DEF Reload, probeVars, Holding
<1>12. CASE Replace
  <2>1. Fresh' = Fresh /\ (SavedMeasured' <=> SavedMeasured)
    BY <1>12 DEF Replace, Fresh, FileAt, SavedMeasured, SavedFrom, probeVars
  <2> QED
    BY <1>12, <2>1 DEF Replace, probeVars, LengthInv
<1>13. CASE UNCHANGED vars
  BY <1>1, <1>13 DEF vars, probeVars, LengthInv
<1> QED
  BY <1>2, <1>3, <1>4, <1>5, <1>6, <1>7, <1>8, <1>9, <1>10, <1>11, <1>12, <1>13
     DEF Next, Command
-----------------------------------------------------------------------------
LEMMA PatchInvHolds == Spec => []PatchInv
<1>1. PatchInv /\ [Next]_vars => PatchInv'
  BY TypesStep, StepStep, ValuesStep, CodeStep, RuntimeStep, TargetStep, LengthStep DEF PatchInv
<1> QED
  BY <1>1, InitInv, PTL DEF Spec

\* Every variable has its type: above all, what lp_probe_attach saves covers the
\* jmp and has at most fourteen bytes more, so that lp_restore_function is never
\* at a fourth word.
THEOREM PatchTypes == Spec => []TypeOK
<1>1. PatchInv /\ probed \in BOOLEAN => TypeOK
  <2> SUFFICES ASSUME PatchInv, probed \in BOOLEAN PROVE TypeOK
    OBVIOUS
  <2>1. pc = "restore" => step \in 0..2
    <3>1. step \in Nat /\ Len(saved) \in Nat /\ Len(saved) <= 19
      BY DEF PatchInv, Types, Values, JmpLen
    <3>2. pc = "restore" => step = 0 \/ 8 * step < Len(saved)
      BY DEF PatchInv, StepInv, Word
    <3> QED
      BY <3>1, <3>2
  <2>2. pc = "install" => step \in 0..(Len(Parts) - 1)
    BY PartsAll DEF PatchInv, StepInv
  <2>3. pc \notin {"install", "restore"} => step = 0
    BY DEF PatchInv, StepInv
  <2>4. step \in CASE pc = "install" -> 0..(Len(Parts) - 1)
                   [] pc = "restore" -> 0..2
                   [] OTHER          -> {0}
    BY <2>1, <2>2, <2>3, Zenon
  <2> QED
    BY <2>4 DEF PatchInv, Types, Values, TypeOK
<1>2. Init => probed \in BOOLEAN
  BY DEF Init
<1>3. probed \in BOOLEAN /\ [Next]_vars => (probed \in BOOLEAN)'
  BY Zenon DEF Next, Command, Resolve, Detach, Stop, ReadOriginal, Map, Install, Patch, Restore,
     Unmap, Resume, GiveUp, Kill, Reload, Replace, Remove, vars, probeVars
<1>4. Spec => [](probed \in BOOLEAN)
  BY <1>2, <1>3, PTL DEF Spec
<1> QED
  BY <1>1, <1>4, PatchInvHolds, PTL

\* lp_patch_function and lp_restore_function: the code is the program's own, or
\* that with one whole jmp, at every step, whatever fails or is killed.
THEOREM EntryStaysWhole == Spec => []EntryWhole
<1>1. PatchInv => EntryWhole
  BY DEF PatchInv, CodeInv, EntryWhole, Jmp
<1> QED
  BY <1>1, PatchInvHolds, PTL

\* lp_probe_detach and a failed lp_probe_attach leave no trace in the code.
THEOREM RestoreIsClean == Spec => []CleanRestore
<1>1. PatchInv => CleanRestore
  BY DEF PatchInv, CodeInv, CleanRestore
<1> QED
  BY <1>1, PatchInvHolds, PTL

\* lp_probe_attach: every part of the runtime is as it was written.
THEOREM RuntimeIsWhole == Spec => []InstalledWhole
<1>1. PatchInv => InstalledWhole
  BY DEF PatchInv, RuntimeInv, InstalledWhole
<1> QED
  BY <1>1, PatchInvHolds, PTL

\* lp_resolve_symbol: what is patched is the function that was asked for, if the
\* library is the first with its name and the function the first entry of its
\* name in each table, whichever tables cannot be read.
THEOREM PatchesTheRightFunction == Spec => []RightFunction
<1>1. PatchInv => RightFunction
  <2> SUFFICES ASSUME PatchInv, Patched, stale = {}, Found
               PROVE  target = home + lib.entry
    BY DEF RightFunction, Found
  <2>1. probed \/ pc \in {"resume", "dead"}
    BY DEF PatchInv, CodeInv, Patched
  <2> QED
    BY <2>1 DEF PatchInv, TargetInv
<1> QED
  BY <1>1, PatchInvHolds, PTL

\* lp_calc_patch_len: the instructions copied to the trampoline are whole, if the
\* decoder measures each of the first ones right on its own.
THEOREM NoneCutInTwo ==
    ASSUME Measured
    PROVE  Spec => []NothingTruncated
<1>1. PatchInv => NothingTruncated
  <2> SUFFICES ASSUME PatchInv, InPlace, \A i \in 1..JmpLen : Kind(i) # "misread"
               PROVE  \E k \in 1..Len(lib.text) : Whole(k)
    BY DEF NothingTruncated
  <2>1. SavedMeasured /\ target = home + lib.entry
    BY DEF PatchInv, LengthInv, InPlace, Patched
  <2>2. saved # <<>>
    BY <2>1 DEF SavedMeasured, SavedFrom
  <2> QED
    BY <2>1, <2>2, WholeInstructions DEF PatchInv
<1> QED
  BY <1>1, PatchInvHolds, PTL
=============================================================================
