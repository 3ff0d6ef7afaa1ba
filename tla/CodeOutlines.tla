----------------------------- MODULE CodeOutlines -----------------------------
(***************************************************************************)
(* The blocks of TestBlocks, read from top to bottom: what each step finds *)
(* when no step of another process comes in between.  Sound says when such *)
(* a reading shows a block to be right; that the interleavings of          *)
(* CodePages then stay on it is proved in CodePagesProofs.                 *)
(***************************************************************************)
EXTENDS CodePages

\* A state of a reading: the mappings, the contents, and how many results there
\* are.
Start == [space |-> <<>>, mem |-> <<>>, logged |-> 0]

PageIn(s, p) == <<s.space[p].obj, s.space[p].idx>>
RefusingIn(s, op) == {p \in Pages(op) : Access(s.space, p, Need(op)) # "ok"}

Reads(op) == op.op \in {"call", "load", "mremap"}

ContentIn(s, p) == IF PageIn(s, p) \in DOMAIN s.mem THEN s.mem[PageIn(s, p)] ELSE "none"
TargetIn(s, p) == LET code == ContentIn(s, p)
                  IN  IF code \in DOMAIN InfoAt THEN ContentIn(s, InfoAt[code]) ELSE code

\* What a step that reads should get, if the machine is right.
Held(s, op) ==
  CASE op.op = "call" -> TargetIn(s, op.page)
    [] op.op = "load" -> ContentIn(s, op.page)
    [] op.op = "mremap" -> IF CanMremap(s.space, op.page, op.n) THEN "ok" ELSE "failed"

SpaceAfter(s, op) ==
  CASE op.op = "mmap" -> Map(s.space, op.page, op.n, op.m)
    [] op.op = "munmap" -> Unmap(s.space, op.page, op.n)
    [] op.op = "mprotect" -> Protect(s.space, {op.page}, op.prot)
    [] op.op = "growsdown" -> Protect(s.space, Grown(s.space, op.page, 1), op.prot)
    [] op.op = "shmdt" -> Detach(s.space, op.page)
    [] op.op = "mremap" /\ Held(s, op) = "ok" ->
         Mremapped(s.space, op.page, op.n, op.newn, op.to)
    [] OTHER -> s.space

MemAfter(s, op) ==
  CASE op.op = "store" -> [page \in {PageIn(s, p) : p \in Pages(op)} |-> op.byte] @@ s.mem
    [] op.op = "write" -> (<<"shared", 0>> :> op.byte) @@ s.mem
    [] OTHER -> s.mem

After(s, op) == [space |-> SpaceAfter(s, op), mem |-> MemAfter(s, op),
                 logged |-> IF Reads(op) THEN s.logged + 1 ELSE s.logged]

\* The states before each step of code from the first one on, and the last.
Reading(code, first, s) ==
  LET at[n \in first .. Len(code) + 1] ==
        IF n = first THEN s ELSE After(at[n - 1], code[n - 1])
  IN  at

IsReading(at, code, first, s) ==
  /\ at[first] = s
  /\ \A n \in first .. Len(code) : at[n + 1] = After(at[n], code[n])
-----------------------------------------------------------------------------
\* The step that forks; past the end if there is none.
ForkAt(b) == Min({Len(b.script) + 1} \cup {n \in DOMAIN b.script : b.script[n].op = "fork"})

\* Three readings: without a child, whose fork may have failed; of the child,
\* which begins with what the parent had; and of the parent that goes on, from
\* its wait, with what the child has stored.
Alone(b) == Reading(b.script, 1, Start)
AtFork(b) == Alone(b)[ForkAt(b) + 1]
OfChild(b) == Reading(b.child, 1, AtFork(b))
ChildGone(b) == [OfChild(b)[Len(b.child) + 1] EXCEPT !.space = AtFork(b).space]
Resumed(b) == Reading(b.script, ForkAt(b) + 1, ChildGone(b))

\* A step gets at its pages, and wants what it should get.
Passes(at, code, n) == RefusingIn(at[n], code[n]) = {}
Exact(at, code, n) == Reads(code[n]) => code[n].want = Held(at[n], code[n])

\* A step at which a block that is to end by a signal gets it.
EndsByFault(b, n) ==
  LET refusing == RefusingIn(Alone(b)[n], b.script[n])
  IN  /\ b.ends \in {"SIGSEGV", "SIGBUS"} /\ refusing # {}
      /\ b.ends = Access(Alone(b)[n].space, Min(refusing), Need(b.script[n]))

AloneIsSound(b) ==
  /\ IsReading(Alone(b), b.script, 1, Start)
  /\ \A n \in DOMAIN b.script : Passes(Alone(b), b.script, n) \/ EndsByFault(b, n)
  /\ \A n \in DOMAIN b.script : n < ForkAt(b) => Exact(Alone(b), b.script, n)
  /\ b.ends = "exit" \/ \E n \in DOMAIN b.script : EndsByFault(b, n)

\* A block that forks waits at once.  If there is no child the parent reads
\* something once, as the second result, and not what it wants.
ForkIsSound(b) ==
  LET fork == ForkAt(b)
  IN  /\ fork < Len(b.script) /\ b.script[fork + 1].op = "wait" /\ b.ends = "exit"
      /\ Alone(b)[fork].logged <= 1
      /\ \A n \in fork + 1 .. Len(b.script) : Reads(b.script[n]) =>
           Alone(b)[n].logged = 1 /\ b.script[n].want # Held(Alone(b)[n], b.script[n])
      /\ IsReading(OfChild(b), b.child, 1, AtFork(b))
      /\ \A n \in DOMAIN b.child : Passes(OfChild(b), b.child, n) /\ Exact(OfChild(b), b.child, n)
      /\ IsReading(Resumed(b), b.script, fork + 1, ChildGone(b))
      /\ \A n \in fork + 1 .. Len(b.script) :
           Passes(Resumed(b), b.script, n) /\ Exact(Resumed(b), b.script, n)

IsCode(code) == Len(code) \in Nat /\ DOMAIN code = 1 .. Len(code)

\* What is asked of a block.  One with a handler has no verdict and no child.
Sound(b) ==
  /\ IsCode(b.script) /\ IsCode(b.child)
  /\ ForkAt(b) \in 1 .. Len(b.script) + 1
  /\ \A n \in DOMAIN b.script : b.script[n].op = "fork" <=> n = ForkAt(b)
  /\ IF b.handler THEN /\ ForkAt(b) > Len(b.script) /\ b.ends = "exit"
                       /\ \A n \in DOMAIN b.script : ~Reads(b.script[n])
     ELSE AloneIsSound(b) /\ (ForkAt(b) <= Len(b.script) => ForkIsSound(b))

\* Every block of the test programs is sound.
ASSUME BlocksAreSound == \A b \in Blocks : Sound(b)
=============================================================================
