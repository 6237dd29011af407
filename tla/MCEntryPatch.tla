----------------------------- MODULE MCEntryPatch -----------------------------
(* EntryPatch on functions that begin with real instructions.                 *)
EXTENDS EntryPatch

I(bytes, kind) == [bytes |-> bytes, kind |-> kind]

Plain == {I(<<\h90>>, "plain"), I(<<\hC3>>, "plain"),               \* nop; ret
          I(<<\h31, \hC0>>, "plain"),                               \* xor eax, eax
          I(<<\h48, \h89, \hE5>>, "plain"),                         \* mov rbp, rsp
          I(<<\hF3, \h0F, \h1E, \hFA>>, "plain"),                   \* endbr64
          I(<<\h0F, \hB6, \hC7>>, "plain"),                         \* movzx eax, dil
          I(<<\h48, \h83, \hE4, \hF0>>, "plain"),                   \* and rsp, -16
          I(<<\h48, \h8D, \h04, \hC5, 1, 2, 3, 4>>, "plain"),       \* lea rax, [rax*8 + d]
          I(<<\h49, \hBA, 1, 2, 3, 4, 5, 6, 7, 8>>, "plain"),       \* movabs r10, imm
          I(<<\hC7, \h87, 1, 2, 3, 4, 5, 6, 7, 8>>, "plain"),       \* mov [rdi + d], imm
          I(<<\hF6, \hC1, 1>>, "plain"),                            \* test cl, 1
          I(<<\h66, \h0F, \h1F, \h44, 0, 0>>, "plain")}             \* nop [rax + rax]
Stack == {I(<<\h55>>, "stack"), I(<<\h41, \h57>>, "stack"),         \* push rbp; r15
          I(<<\h48, \h83, \hEC, 32>>, "stack"),                     \* sub rsp, 32
          I(<<\h48, \h81, \hEC, 0, 1, 0, 0>>, "stack")}             \* sub rsp, 256
Red   == {I(<<\h89, \h7D, \hFC>>, "red"),                           \* mov [rbp - 4], edi
          I(<<\h48, \h89, \h7C, \h24, \hF8>>, "red")}               \* mov [rsp - 8], rdi
Rel   == {I(<<\hE8, 1, 2, 3, 4>>, "relative"),                      \* call
          I(<<\h74, 5>>, "relative"),                               \* je
          I(<<\h0F, \h84, 1, 2, 3, 4>>, "relative"),                \* je
          I(<<\h48, \h8B, \h05, 1, 2, 3, 4>>, "relative")}          \* mov rax, [rip + d]
Mis   == {I(<<\h3C, 1>>, "misread"),                                \* cmp al, 1
          I(<<\hB0, 1>>, "misread"),                                \* mov al, 1
          I(<<\h66, \hB8, 1, 2>>, "misread"),                       \* mov ax, 513
          I(<<\h66, \h0F, \h6F, \hC1>>, "misread"),                 \* movdqa xmm0, xmm1
          I(<<\hD9, \hE8>>, "misread")}                             \* fld1

Joined(s) == LET cat[i \in 0..Len(s)] == IF i = 0 THEN <<>> ELSE cat[i - 1] \o s[i].bytes
             IN  cat[Len(s)]

AndRsp  == I(<<\h48, \h83, \hE4, \hF0>>, "plain")
Endbr   == I(<<\hF3, \h0F, \h1E, \hFA>>, "plain")
Push    == I(<<\h55>>, "stack")
MovRbp  == I(<<\h48, \h89, \hE5>>, "plain")
MovArg  == I(<<\h89, \h7D, \hFC>>, "red")

\* Functions that begin with each of the instructions, and the prologues of
\* unoptimised leaf functions, with endbr64 and without.
Openings  == {IF Len(x.bytes) < 5 THEN <<x, AndRsp>> ELSE <<x>> :
                 x \in Plain \cup Stack \cup Red \cup Rel \cup Mis}
Prologues == {<<Push, MovRbp, MovArg>>, <<Endbr, Push, MovRbp, MovArg>>}

Nops(n) == [i \in 1..n |-> I(<<\h90>>, "plain")]
Header  == <<\h7F, \h45>>
Gadget  == <<\h89, \hD0, \h0F, \h05, \hC3, \hCC>>

\* .dynsym and .symtab; the latter has a local symbol of the name, too.
Symbol(n, v) == [name |-> n, value |-> v]
Made(text, image, entry, names) ==
    [image |-> image, entry |-> entry, names |-> names,
     text  |-> [i \in DOMAIN text |-> [end  |-> entry + Len(Joined(SubSeq(text, 1, i))),
                                       kind |-> text[i].kind]],
     tables |-> <<<<Symbol("g", 1), Symbol("f", entry)>>,
                  <<Symbol("f", entry), Symbol("f", entry + 3)>>>>]

\* The name is imported there: an undefined symbol, of value 0.
Importing(f) == [f EXCEPT !.tables = <<<<Symbol("f", 0)>>, @[2]>>]

\* The function and the gadget behind it, and the other way round.
Version1(s, n, names) ==
    Made(s \o Nops(n), Header \o Joined(s \o Nops(n)) \o Gadget, 2, names)
Version2(s, n, names) ==
    Made(s \o Nops(n), Header \o Gadget \o Joined(s \o Nops(n)), 8, names)

MCNewer   == Version2(<<Endbr>>, 29, {"libc.so"})
Nothing   == Made(<<>>, <<>>, 0, {})
MCOthers  == {Nothing, Version1(<<Endbr>>, 31, {}), Version2(<<Endbr>>, 30, {"libc.so"})}

\* The function of the last but one is too close to the end of the mapping.
MCLibraries == {Version1(s, 27, {"libc.so"}) : s \in Openings \cup Prologues}
               \cup {Version1(<<Endbr>>, 10, {"libc.so"}),
                     Importing(Version1(<<Endbr>>, 27, {"libc.so"}))}
MCUnoptimised == {Version1(s, 27, {"libc.so"}) : s \in Prologues}

MCSize  == [p \in Areas |-> CASE p = "config" -> 3 [] p = "events" -> 17 [] p = "trampoline" -> 50
                              [] OTHER -> 16]
MCRel32 == <<1, 2, 3, 4>>
===============================================================================
