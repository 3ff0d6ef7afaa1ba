------------------------------ MODULE CodePages ------------------------------
(***************************************************************************)
(* The blocks of TestBlocks, executed: a behaviour is one block, run by a  *)
(* parent and the child that it may fork.  A store goes through a mapping  *)
(* to a page of an object; a call executes what its own mapping leads to,  *)
(* or something else.                                                      *)
(***************************************************************************)
EXTENDS TestBlocks

VARIABLES block,
          space,   \* of each process
          mem,     \* the contents of the objects' pages
          step,    \* of each process, into its code
          status,  \* of each process: "none", "running", "exit" or a signal
          results  \* of the calls, loads and mremaps: wanted, got, and held

vars == <<block, space, mem, step, status, results>>

Processes == {"parent", "child"}

Code(pr) == IF pr = "parent" THEN block.script ELSE block.child

\* Before the first step of a block.
Begins == /\ space = [pr \in Processes |-> <<>>]
          /\ mem = <<>>
          /\ step = [pr \in Processes |-> 1]
          /\ status = [parent |-> "running", child |-> "none"]
          /\ results = <<>>

Init == block \in Blocks /\ Begins

Page(pr, p) == <<space[pr][p].obj, space[pr][p].idx>>
Content(page) == IF page \in DOMAIN mem THEN mem[page] ELSE "none"

\* What a call of p should run: the code there or, if that holds the address of an
\* info, what the info is bound to.
Target(pr, p) == LET code == Content(Page(pr, p))
                 IN  IF code \in DOMAIN InfoAt THEN Content(Page(pr, InfoAt[code])) ELSE code

Ready(pr) == status[pr] = "running" /\ step[pr] <= Len(Code(pr))
Op(pr) == Code(pr)[step[pr]]
Step(pr, op) == Ready(pr) /\ Op(pr).op = op /\ step' = [step EXCEPT ![pr] = @ + 1]

\* What a step needs of its pages, and the first of them that refuses.
Need(op) == CASE op.op = "store" -> "write" [] op.op = "call" -> "exec" [] OTHER -> "read"
Pages(op) == IF op.op = "store" THEN op.page .. op.last
             ELSE IF op.op \in {"call", "load"} THEN {op.page} ELSE {}
Refusing(pr) == {p \in Pages(Op(pr)) : Access(space[pr], p, Need(Op(pr))) # "ok"}
-----------------------------------------------------------------------------
\* A change of the mappings; its result is not looked at.
Remap(pr, op, new) == /\ Step(pr, op)
                      /\ space' = [space EXCEPT ![pr] = new]
                      /\ UNCHANGED <<block, mem, status, results>>

DoMmap(pr) == Remap(pr, "mmap", Map(space[pr], Op(pr).page, Op(pr).n, Op(pr).m))
DoMunmap(pr) == Remap(pr, "munmap", Unmap(space[pr], Op(pr).page, Op(pr).n))
DoMprotect(pr) == Remap(pr, "mprotect", Protect(space[pr], {Op(pr).page}, Op(pr).prot))

\* Bug: PROT_GROWSDOWN is left out.
DoGrowsdownOnePage(pr) == Remap(pr, "growsdown", Protect(space[pr], {Op(pr).page}, Op(pr).prot))

DoGrowsdown(pr) ==
  Remap(pr, "growsdown", Protect(space[pr], Grown(space[pr], Op(pr).page, 1), Op(pr).prot))

\* Bug: all that lies where the segment was goes with it.
DoShmdtAll(pr) == Remap(pr, "shmdt", Unmap(space[pr], Op(pr).page, space[pr][Op(pr).page].size))

DoShmdt(pr) == Remap(pr, "shmdt", Detach(space[pr], Op(pr).page))

Log(want, got, held) ==
  results' = Append(results, [want |-> want, got |-> got, held |-> held])

DoMremap(pr) ==
  /\ Step(pr, "mremap")
  /\ LET op == Op(pr)
         result == IF CanMremap(space[pr], op.page, op.n) THEN "ok" ELSE "failed"
     IN  /\ space' = IF result = "ok"
                     THEN [space EXCEPT ![pr] = Mremapped(@, op.page, op.n, op.newn, op.to)]
                     ELSE space
         /\ Log(op.want, result, result)
  /\ UNCHANGED <<block, mem, status>>

DoStore(pr) ==
  /\ Step(pr, "store") /\ Refusing(pr) = {}
  /\ mem' = [page \in {Page(pr, p) : p \in Pages(Op(pr))} |-> Op(pr).byte] @@ mem
  /\ UNCHANGED <<block, space, status, results>>

\* write() changes the file itself.
DoWrite(pr) ==
  /\ Step(pr, "write")
  /\ mem' = (<<"shared", 0>> :> Op(pr).byte) @@ mem
  /\ UNCHANGED <<block, space, status, results>>

DoCall(pr) ==
  /\ Step(pr, "call") /\ Refusing(pr) = {}
  /\ \E executed \in Bytes : Log(Op(pr).want, executed, Target(pr, Op(pr).page))
  /\ UNCHANGED <<block, space, mem, status>>

DoLoad(pr) ==
  /\ Step(pr, "load") /\ Refusing(pr) = {}
  /\ LET byte == Content(Page(pr, Op(pr).page)) IN Log(Op(pr).want, byte, byte)
  /\ UNCHANGED <<block, space, mem, status>>
-----------------------------------------------------------------------------
Kill(pr) == /\ ~block.handler
            /\ status' = [status EXCEPT ![pr] = Access(space[pr], Min(Refusing(pr)), Need(Op(pr)))]
            /\ UNCHANGED space

\* Bug: the handler makes the page readable only.
HandleReadOnly(pr) == /\ block.handler
                      /\ space' = [space EXCEPT ![pr] = Protect(@, {Min(Refusing(pr))}, R)]
                      /\ UNCHANGED status

\* sighandler() of segfault.cpp: mprotect at si_addr, the beginning of the page
\* that refused, and retry.
Handle(pr) == /\ block.handler
              /\ space' = [space EXCEPT ![pr] = Protect(@, {Min(Refusing(pr))}, RW)]
              /\ UNCHANGED status

Fault(pr) == /\ Ready(pr) /\ Refusing(pr) # {}
             /\ Kill(pr) \/ Handle(pr)
             /\ UNCHANGED <<block, mem, step, results>>

DoFork == /\ Step("parent", "fork")
          /\ status' = [status EXCEPT !.child = "running"]
          /\ space' = [space EXCEPT !.child = space["parent"]]
          /\ UNCHANGED <<block, mem, results>>

\* A fork() of -1 is taken for the parent's; the wait then returns at once.
ForkFails == /\ Step("parent", "fork")
             /\ UNCHANGED <<block, space, mem, status, results>>

\* Bug: the child is not waited for.
DoWaitReturns == /\ Step("parent", "wait")
                 /\ UNCHANGED <<block, space, mem, status, results>>

DoWait == /\ Step("parent", "wait") /\ status["child"] # "running"
          /\ UNCHANGED <<block, space, mem, status, results>>

Exit(pr) == /\ status[pr] = "running" /\ step[pr] > Len(Code(pr))
            /\ status' = [status EXCEPT ![pr] = "exit"]
            /\ UNCHANGED <<block, space, mem, step, results>>

Process(pr) == \/ DoMmap(pr) \/ DoMunmap(pr) \/ DoMprotect(pr) \/ DoGrowsdown(pr) \/ DoShmdt(pr)
               \/ DoMremap(pr) \/ DoStore(pr) \/ DoWrite(pr) \/ DoCall(pr) \/ DoLoad(pr)
               \/ Fault(pr) \/ Exit(pr)

Next == (\E pr \in Processes : Process(pr)) \/ DoFork \/ ForkFails \/ DoWait

Spec == Init /\ [][Next]_vars

\* Both processes are scheduled.
FairSpec == /\ Spec /\ WF_vars(Process("parent") \/ DoFork \/ DoWait)
            /\ WF_vars(Process("child"))
-----------------------------------------------------------------------------
\* The printed verdict, FAIL or not.
Fails(r) == r.got # r.want

\* The child was not there to store anything.
ForkFailed == /\ \E i \in 1 .. step["parent"] - 1 : block.script[i].op = "fork"
              /\ status["child"] = "none"

\* Every verdict is exact: it says PASS exactly when the machine executed (or
\* loaded) what the page held at that moment, as it was stored through another
\* alias, through a descriptor or by the child; and every mremap ends as the
\* test wants it.  With one exception: the verdict after a fork that failed
\* blames the machine that is right, and passes the one that is wrong.
VerdictsTellStaleness ==
  \A i \in DOMAIN results :
    LET stale == results[i].got # results[i].held
    IN  IF ForkFailed /\ i = 2 THEN Fails(results[i]) \/ stale
        ELSE Fails(results[i]) <=> stale

\* A test that needs a page to be writable, executable or still mapped has seen
\* to it: no process dies of a signal, except by the bus error that memfd.cpp
\* expects.
EndsAsExpected == /\ status["parent"] \in {"running", block.ends}
                  /\ status["child"] \in {"none", "running", "exit"}

\* Every block gets to its end, the one with the handler and the ones that wait
\* for a child too.
Terminates == <>(status["parent"] # "running")

\* failure_set of smc.cpp: the bits of e1 .. e4, all taken from e1.
failure_set == {k \in 1 .. 4 : results[1].got # Expected[k]}

\* The set that test() returns has the calls whose printed verdict is FAIL.
FailureSetIsVerdicts ==
  block \in Smc /\ Len(results) = 4 => failure_set = {k \in 1 .. 4 : Fails(results[k])}
=============================================================================
