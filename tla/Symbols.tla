------------------------------ MODULE Symbols ------------------------------
(***************************************************************************)
(* Where the code to work on is: the base of a library in the target's     *)
(* maps (maps_parser.c), the address of a symbol (elf_resolver.c) and that *)
(* of the syscall gadget (gadget_finder.c).  All take the first match and  *)
(* all add an offset in the file on disk to the base in the target.        *)
(*                                                                         *)
(* A line of the maps is [start, offset, names]: names are the --lib       *)
(* arguments its path contains, none if it has no path.                    *)
(***************************************************************************)
EXTENDS Integers, Sequences

None == -1

First(S) == IF S = {} THEN None ELSE CHOOSE i \in S : \A j \in S : i <= j

\* Mutant: the path is not compared.
FindLibraryAny(maps, name) == First({i \in DOMAIN maps : maps[i].offset = 0})

\* The line of the maps whose start is the library's base.
FindLibrary(maps, name) ==
    First({i \in DOMAIN maps : maps[i].offset = 0 /\ name \in maps[i].names})

\* The first entry called name, in the order of the symbol tables; a table
\* that cannot be read is empty.
ResolveSymbol(sections, name, base) ==
    LET has(i) == \E j \in DOMAIN sections[i] : sections[i][j].name = name
        i      == First({k \in DOMAIN sections : has(k)})
        j      == First({k \in DOMAIN sections[i] : sections[i][k].name = name})
    IN  IF i = None THEN None ELSE base + sections[i][j].value

Pattern == <<\h0F, \h05, \hC3>>     \* syscall; ret

\* The first occurrence of the pattern in the bytes of the file.
ResolveGadget(bytes, base) ==
    LET at == First({i \in 1..(Len(bytes) - 2) : SubSeq(bytes, i, i + 2) = Pattern})
    IN  IF at = None THEN None ELSE base + at - 1
=============================================================================
