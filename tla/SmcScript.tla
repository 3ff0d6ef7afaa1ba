------------------------------ MODULE SmcScript ------------------------------
(***************************************************************************)
(* The self-modifying routine that smc.cpp, smc-2.cpp, smc-mt.cpp,         *)
(* smc-shmatdt.cpp and smc-signals.cpp share: write a function that        *)
(* returns a constant into a page, call it, change byte 3 of it, call it   *)
(* again, with the page's protection switched in between.                  *)
(* A page's content is named by that byte 3.                               *)
(***************************************************************************)
EXTENDS Naturals, Sequences

Bytes == {"CC", "FE", "F3", "F1"}

\* The three kinds of steps.
Store(byte) == [op |-> "store", byte |-> byte]
Call(k) == [op |-> "call", k |-> k]
Mprotect(prot) == [op |-> "mprotect", prot |-> prot]

RWX == {"read", "write", "exec"}
RX == {"read", "exec"}
RW == {"read", "write"}

\* Bug: the page is not made writable again before the third change.
ScriptWithoutWrite ==
  <<Store("CC"), Call(1), Store("FE"), Call(2),
    Mprotect(RX), Store("F3"), Mprotect(RX), Call(3),
    Mprotect(RWX), Store("F1"), Call(4)>>

Script ==
  <<Store("CC"), Call(1), Store("FE"), Call(2),
    Mprotect(RX), Mprotect(RWX), Store("F3"), Mprotect(RX), Call(3),
    Mprotect(RWX), Store("F1"), Call(4)>>

\* What e1 .. e4 are compared with.
Expected == <<"CC", "FE", "F3", "F1">>

\* Whether the page's protection lets a step through.
Allowed(step, prot) == CASE step.op = "store" -> "write" \in prot
                         [] step.op = "call" -> "exec" \in prot
                         [] OTHER -> TRUE
=============================================================================
