-------------------------------- MODULE Insn --------------------------------
(***************************************************************************)
(* The length decoder (instruction_x86_64.c): how many bytes an x86_64     *)
(* instruction takes, and how many bytes the whole instructions take that  *)
(* a jmp over a function's entry overwrites.  Code is a sequence of bytes; *)
(* a length of 0 is a failure.                                             *)
(***************************************************************************)
EXTENDS Integers, Sequences

Byte   == 0..255
Failed == 0

Legacy == {\h66, \h67, \hF0, \hF2, \hF3, \h2E, \h36, \h3E, \h26, \h64, \h65}
Rex    == \h40..\h4F

OneByteModRM == UNION {\h00..\h03, \h08..\h0B, \h10..\h13, \h18..\h1B, \h20..\h23,
                       \h28..\h2B, \h30..\h33, \h38..\h3B, \h62..\h63, {\h69, \h6B},
                       \h80..\h8F, \hC0..\hC1, \hC4..\hC7, \hD0..\hD3, \hF6..\hF7,
                       \hFE..\hFF}
TwoByteModRM == UNION {\h10..\h1F, \h28..\h2F, \h40..\h4F, \h90..\h9F, \hA3..\hA5,
                       \hAB..\hAF, \hB0..\hB7, \hBA..\hBF}

OneByteImm(opcode, wide, reg) ==
    CASE \/ opcode \in \h70..\h7F
         \/ opcode \in {\hEB, \hCD, \h6A, \hC6, \h80, \h82, \h83, \hC0, \hC1, \h6B} -> 1
      [] opcode = \hF6 /\ reg = 0                  -> 1
      [] opcode \in {\hC2, \hCA}                   -> 2
      [] opcode = \hC8                             -> 3
      [] \/ opcode \in \hA0..\hA3
         \/ opcode \in {\hE8, \hE9, \h68, \hC7, \h81, \h69}  -> 4
      [] opcode = \hF7 /\ reg = 0                  -> 4
      [] opcode \in \hB8..\hBF                     -> IF wide THEN 8 ELSE 4
      [] OTHER                                     -> 0

TwoByteImm(opcode) == CASE opcode \in \h80..\h8F -> 4
                        [] opcode = \hBA         -> 1
                        [] OTHER                 -> 0

\* The byte at i.  What is taken for a byte behind the end does not matter:
\* an instruction that looks at it ends behind the end as well.
ByteAt(code, i) == IF i \in 1..Len(code) THEN code[i] ELSE 0

\* Mutant: the SIB byte is forgotten.
ModRMLenNoSib(code, i) ==
    LET mod == ByteAt(code, i) \div 64
        rm  == ByteAt(code, i) % 8
    IN  1 + (IF mod = 2 \/ (mod = 0 /\ rm = 5) THEN 4 ELSE IF mod = 1 THEN 1 ELSE 0)

\* The ModRM byte at i, a SIB byte, and their displacement.
ModRMLen(code, i) ==
    LET mod  == ByteAt(code, i) \div 64
        rm   == ByteAt(code, i) % 8
        sib  == mod # 3 /\ rm = 4
        base == ByteAt(code, i + 1) % 8
    IN  1 + (IF sib THEN 1 ELSE 0)
          + (CASE mod = 0 /\ (rm = 5 \/ (sib /\ base = 5)) -> 4
               [] mod = 1                                -> 1
               [] mod = 2                                -> 4
               [] OTHER                                  -> 0)

\* Prefixes in any order, the last REX counts; opcode; ModRM; immediate.
InsnLen(code) ==
    LET prefix(i) == ByteAt(code, i) \in Legacy \cup Rex
        first == CHOOSE i \in 1..(Len(code) + 1) :
                    ~prefix(i) /\ \A j \in 1..(i - 1) : prefix(j)
        wide  == \E i \in 1..(first - 1) :
                    /\ code[i] \in Rex /\ (code[i] \div 8) % 2 = 1
                    /\ \A j \in (i + 1)..(first - 1) : code[j] \notin Rex
        two   == ByteAt(code, first) = \h0F
        last  == IF two THEN first + 1 ELSE first
        op    == ByteAt(code, last)
        modrm == op \in IF two THEN TwoByteModRM ELSE OneByteModRM
        reg   == IF modrm THEN (ByteAt(code, last + 1) \div 8) % 8 ELSE 0
        end   == last + (IF modrm THEN ModRMLen(code, last + 1) ELSE 0)
                      + (IF two THEN TwoByteImm(op) ELSE OneByteImm(op, wide, reg))
    IN  IF end <= Len(code) /\ end <= 15 THEN end ELSE Failed

\* Mutant: one byte too few counts as enough.
PatchLenShort(code, min) ==
    LET from[t \in 0..Len(code)] ==
          IF t + 1 >= min THEN t
          ELSE LET n == InsnLen(SubSeq(code, t + 1, Len(code)))
               IN  IF n = Failed THEN Failed ELSE from[t + n]
    IN  from[0]

\* The length of the first instructions that take at least min bytes.
PatchLen(code, min) ==
    LET from[t \in 0..Len(code)] ==
          IF t >= min THEN t
          ELSE LET n == InsnLen(SubSeq(code, t + 1, Len(code)))
               IN  IF n = Failed THEN Failed ELSE from[t + n]
    IN  from[0]
=============================================================================
