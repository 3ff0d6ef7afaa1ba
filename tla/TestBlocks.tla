----------------------------- MODULE TestBlocks ------------------------------
(***************************************************************************)
(* The programs that test mappings and code in them: smc.cpp, smc-2.cpp,   *)
(* smc-shared.cpp, smc-shared-2.cpp, smc-shmatdt.cpp, smc-fd.cpp,          *)
(* mremap.cpp, prot-growsdown.cpp, segfault.cpp, mmaptest() of memfd.cpp   *)
(* and the two of copyable-functions/.  Each is a set of blocks, straight- *)
(* line code that does not depend on the blocks before it; a behaviour is  *)
(* that of one block, with the child it forks, on a machine that may       *)
(* execute something else than what was stored last: an emulator with a    *)
(* stale translation.                                                      *)
(*                                                                         *)
(* Where the kernel chooses an address the blocks name one, far from the   *)
(* others.                                                                 *)
(***************************************************************************)
EXTENDS SmcScript, AddressSpace, FiniteSets, FiniteSetsExt

R == {"read"}
None == {}

\* The steps besides SmcScript's, each with the page it begins at.
Mmap(p, n, m) == [op |-> "mmap", page |-> p, n |-> n, m |-> m]
Munmap(p, n) == [op |-> "munmap", page |-> p, n |-> n]
MprotectAt(p, prot) == [op |-> "mprotect", page |-> p, prot |-> prot]
Growsdown(p, prot) == [op |-> "growsdown", page |-> p, prot |-> prot]
Mremap(p, n, newn, to, want) ==
  [op |-> "mremap", page |-> p, n |-> n, newn |-> newn, to |-> to, want |-> want]
Shmdt(p) == [op |-> "shmdt", page |-> p]
StoreAt(p, byte) == [op |-> "store", page |-> p, last |-> p, byte |-> byte]
Straddle(p, byte) == [op |-> "store", page |-> p, last |-> p + 1, byte |-> byte]
CallAt(p, k) == [op |-> "call", page |-> p, want |-> Expected[k]]
Load(p, want) == [op |-> "load", page |-> p, want |-> want]
Write(byte) == [op |-> "write", byte |-> byte]
Fork == [op |-> "fork"]
Wait == [op |-> "wait"]

\* A shared object of size pages (mmap, shmget or a file), and private memory.
Shared(size, prot) == Mapping("shared", size, prot, FALSE)
Private(prot) == Mapping("private", 1, prot, FALSE)
Stack(prot) == Mapping("private", 3, prot, TRUE)

Block(script) == [script |-> script, child |-> <<>>, handler |-> FALSE, ends |-> "exit"]

\* test() of smc.cpp, smc-2.cpp and smc-shmatdt.cpp on page p.
Routine(p) == [i \in DOMAIN Script |->
                 CASE Script[i].op = "store" -> StoreAt(p, Script[i].byte)
                   [] Script[i].op = "call" -> CallAt(p, Script[i].k)
                   [] Script[i].op = "mprotect" -> MprotectAt(p, Script[i].prot)]

\* test() of smc-shared.cpp: stored through p, executed through q.
Aliased(p, q) == <<StoreAt(p, "CC"), CallAt(q, 1), StoreAt(p, "FE"), CallAt(q, 2)>>
-----------------------------------------------------------------------------
\* smc.cpp: a page that is executable from the start (mmap; the stack with
\* EXECSTACK; the text with OMAGIC), else a page of the stack, data or text.
Smc == {Block(<<Mmap(1, 1, Private(RWX))>> \o Routine(1))}
       \cup {Block(<<Mmap(1, 1, Private(prot)), MprotectAt(1, RWX)>> \o Routine(1)) :
               prot \in {RW, RX}}

\* smc-2.cpp: a mirror, a segment, and a mirror of the segment.
Smc2 == {Block(<<Mmap(1, 1, Shared(1, RWX)), Mremap(1, 0, 1, 11, "ok")>> \o Routine(11)),
         Block(<<Mmap(1, 1, Shared(1, RWX))>> \o Routine(1))}

\* smc-shared.cpp: a mirror of the first or of the second page of a mapping or
\* a segment; a segment attached twice; a file mapped twice, from one
\* descriptor or from two.
SmcShared ==
  {Block(<<Mmap(1, n, Shared(n, RWX)), Mremap(n, 0, 1, 11, "ok")>> \o Aliased(n, 11)) :
     n \in {1, 2}}
  \cup {Block(<<Mmap(1, 1, Shared(1, RW)), Mmap(11, 1, Shared(1, prot))>> \o Aliased(1, 11)) :
          prot \in {RWX, RX}}

\* smc-shared-2.cpp: the child stores and the parent executes, or the child
\* attaches the segment a second time and runs test().
Forked ==
  {[Block(<<Mmap(1, 1, Shared(1, RWX)), StoreAt(1, "CC"), CallAt(1, 1), Fork, Wait, CallAt(1, 2)>>)
      EXCEPT !.child = <<StoreAt(1, "FE")>>],
   [Block(<<Mmap(1, 1, Shared(1, RW)), Fork, Wait>>)
      EXCEPT !.child = <<Mmap(11, 1, Shared(1, RWX))>> \o Aliased(1, 11)]}

\* smc-shmatdt.cpp: a private page in the middle of a detached segment.
SmcShmatdt == {Block(<<Mmap(1, 3, Shared(3, RW)), Mmap(2, 1, Private(RWX)), Shmdt(1)>> \o Routine(2))}

\* smc-fd.cpp: written through the descriptor.  A private mapping shows the
\* file as long as nothing is stored through it.
SmcFd == {Block(<<Mmap(1, 1, Shared(1, RX)), Write("CC"), CallAt(1, 1), Write("FE"), CallAt(1, 2)>>)}

\* mremap.cpp.
MremapTests ==
  LET two == Mmap(1, 2, Shared(2, RWX))
      other(prot) == <<two, Munmap(2, 1), Mmap(2, 1, Private(prot))>>
  IN  {Block(other(None) \o <<Mremap(1, 2, 4, 11, "failed")>>),
       Block(<<two, MprotectAt(2, R), Mremap(1, 2, 4, 11, "failed")>>),
       Block(<<two, MprotectAt(2, R), MprotectAt(2, RWX), Mremap(1, 2, 4, 11, "ok")>>),
       Block(<<two, Mremap(2, 1, 4, 11, "ok")>>),
       Block(other(R) \o <<Mremap(1, 0, 4, 11, "ok"), StoreAt(1, "CC"), StoreAt(12, "FE"),
                           Load(11, "CC"), Load(2, "none")>>)}

\* prot-growsdown.cpp: three pages that are given a protection from the last
\* page down; the middle one has been set apart, or set apart and merged again.
\* (The first three blocks of the program are prefixes of these.)
GrowsdownTests ==
  {Block(<<Mmap(1, 3, Stack(R))>> \o merge \o <<Growsdown(3, RWX)>> \o Aliased(1, 1)) :
     merge \in {<<>>, <<MprotectAt(2, None), MprotectAt(2, R)>>}}
  \cup {Block(<<Mmap(1, 3, Stack(RWX)), MprotectAt(2, None), Growsdown(3, R)>> \o Aliased(1, 1))}

\* mmaptest() of memfd.cpp: a mirror and a moved mapping of two pages of an
\* object of one page.  "Expecting bus error".
Mmaptest == {[Block(<<Mmap(1, 1, Shared(1, RW)), Mremap(1, 0, 2, 11, "ok"), Mremap(1, 1, 2, 21, "ok"),
                      StoreAt(21, "CC"), StoreAt(11, "FE"), StoreAt(12, "CC"), StoreAt(22, "CC")>>)
                EXCEPT !.ends = "SIGBUS"]}

\* segfault.cpp: a store across the end of a page, with a handler.
Segfault == {[Block(<<Mmap(1, 2, Mapping("private", 2, RWX, FALSE)), MprotectAt(2, None),
                      Straddle(1, "CC")>>)
                EXCEPT !.handler = TRUE]}

\* copyable-functions/: two instances of a section, each of code that calls what
\* the info behind it is bound to.  Code and info count as a page each.
CodeAt == <<1, 11>>
Address == <<"info1", "info2">>
InfoAt == [info1 |-> 2, info2 |-> 12]

\* The section is copied, the address in the code patched, the info bound to the
\* k-th function.
Copied(k, code) ==
  <<Mmap(CodeAt[k], 2, Mapping(Expected[k], 2, RWX, FALSE)), StoreAt(CodeAt[k], code)>>
Patched(k) == <<StoreAt(CodeAt[k], Address[k])>>
Bound(k) == <<StoreAt(InfoAt[Address[k]], Expected[k])>>

CallBoth == <<CallAt(CodeAt[1], 1), CallAt(CodeAt[2], 2)>>

\* In section-test.cpp the copied code holds an address that leads nowhere.
SectionTest == {Block(Copied(1, "unpatched") \o Patched(1) \o Bound(1)
                      \o Copied(2, "unpatched") \o Patched(2) \o Bound(2) \o CallBoth)}

\* In template-test.cpp the address is relative to the code and needs no patch.  (The
\* program prints for the other two instances what these have returned.)
TemplateTest == {Block(Copied(1, Address[1]) \o Bound(1) \o Copied(2, Address[2]) \o Bound(2)
                       \o CallBoth)}

Blocks == Smc \cup Smc2 \cup SmcShared \cup Forked \cup SmcShmatdt \cup SmcFd
          \cup SectionTest \cup TemplateTest \cup MremapTests \cup GrowsdownTests \cup Mmaptest \cup Segfault
=============================================================================
