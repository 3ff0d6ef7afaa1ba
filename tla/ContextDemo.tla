----------------------------- MODULE ContextDemo -----------------------------
(***************************************************************************)
(* src/signals/context-demo.c: NUMCONTEXTS user contexts, each on a stack  *)
(* of its own, are scheduled round robin by the SIGALRM handler.  The      *)
(* handler saves the interrupted context and swaps to a scheduler context  *)
(* on signal_stack, which resumes the next one.                            *)
(*                                                                         *)
(* One thread runs.  What interleaves is the timer: an alarm may be raised *)
(* between any two steps; it is delivered at once unless SIGALRM is masked *)
(* and is otherwise pending.  setcontext and swapcontext install the new   *)
(* signal mask before they leave the old stack, so a pending alarm is then *)
(* delivered on the old one.                                               *)
(***************************************************************************)
EXTENDS Naturals, Sequences

CONSTANTS NUMCONTEXTS,
          MainStack, SignalStack, \* the two stacks that are no context's own
          NULL

ASSUME ContextsAssumption == NUMCONTEXTS \in Nat \ {0}

Contexts == 0 .. NUMCONTEXTS - 1

ASSUME StacksAssumption == MainStack # SignalStack /\ MainStack # NULL /\ SignalStack # NULL
                           /\ {MainStack, SignalStack, NULL} \cap Contexts = {}

VARIABLES contexts,     \* what each ucontext_t holds
          curcontext,
          cur_context,  \* a context, or NULL
          contextstack, \* the stack a body found itself on, NULL before
          insig,
          pc, stack, masked, frames, \* the running code, see Running
          pending,      \* SIGALRM is pending
          armed,        \* the interval timer runs
          status,       \* "running", or how the process ended
          BUGGYSETUP,   \* the build's switch of that name
          calm          \* alarms are raised only while a body runs

machine == <<pc, stack, masked, frames>>
demo == <<contexts, curcontext, cur_context, contextstack, insig>>
switches == <<BUGGYSETUP, calm>>
vars == <<demo, machine, pending, armed, status, switches>>

\* A processor context: where the code is, on which stack, whether SIGALRM is
\* masked, and what the handlers on this stack return to.
Running == [pc |-> pc, stack |-> stack, masked |-> masked, frames |-> frames]

Init == /\ contexts = [c \in Contexts |-> NULL]
        /\ curcontext = 0 /\ cur_context = NULL
        /\ contextstack = [c \in Contexts |-> NULL]
        /\ insig = [c \in Contexts |-> 0]
        /\ pc = "mkcontext" /\ stack = MainStack /\ masked = FALSE /\ frames = <<>>
        /\ pending = FALSE /\ armed = FALSE /\ status = "running"
        /\ BUGGYSETUP \in BOOLEAN /\ calm \in BOOLEAN

\* A pending alarm goes first.
At(label) == status = "running" /\ pc = label /\ ~(pending /\ ~masked)

Exit(how) == status' = how /\ UNCHANGED <<demo, machine, pending, armed, switches>>
-----------------------------------------------------------------------------
\* main(): the stacks and contexts; each starts its body with an empty mask.
MakeContexts ==
  /\ At("mkcontext")
  /\ contexts' = [c \in Contexts |->
                    [pc |-> "body", stack |-> c, masked |-> FALSE, frames |-> <<>>]]
  /\ pc' = "setup"
  /\ UNCHANGED <<curcontext, cur_context, contextstack, insig,
                 stack, masked, frames, pending, armed, status, switches>>

\* A malloc in main() or mkcontext() fails.
MallocFails == At("mkcontext") /\ Exit("nomem")

\* Bug: SIGALRM is never blocked.
SetupSignalsUnmasked ==
  /\ At("setup")
  /\ armed' = TRUE
  /\ pc' = "select"
  /\ UNCHANGED <<demo, stack, masked, frames, pending, status, switches>>

\* setup_signals(), which blocks SIGALRM unless the setup is the buggy one,
\* and setitimer().
SetupSignals ==
  /\ At("setup")
  /\ masked' = ~BUGGYSETUP
  /\ armed' = TRUE
  /\ pc' = "select"
  /\ UNCHANGED <<demo, stack, frames, pending, status, switches>>

SelectFirst ==
  /\ At("select")
  /\ cur_context' = 0
  /\ pc' = "setcontext"
  /\ UNCHANGED <<contexts, curcontext, contextstack, insig,
                 stack, masked, frames, pending, armed, status, switches>>

\* setcontext(cur_context), in main() and in scheduler(): first the mask, ...
InstallMask ==
  /\ At("setcontext")
  /\ masked' = contexts[cur_context].masked
  /\ pc' = "loadcontext"
  /\ UNCHANGED <<demo, stack, frames, pending, armed, status, switches>>

\* ... then the registers.
LoadContext ==
  /\ At("loadcontext")
  /\ pc' = contexts[cur_context].pc
  /\ stack' = contexts[cur_context].stack
  /\ frames' = contexts[cur_context].frames
  /\ UNCHANGED <<demo, masked, pending, armed, status, switches>>

\* thread1(), thread2(): note the stack, then poll for ever.
StartBody ==
  /\ At("body")
  /\ contextstack' = [contextstack EXCEPT ![curcontext] = stack]
  /\ pc' = "poll"
  /\ UNCHANGED <<contexts, curcontext, cur_context, insig,
                 stack, masked, frames, pending, armed, status, switches>>
-----------------------------------------------------------------------------
\* The interval timer expires; standard signals do not queue.
Alarm ==
  /\ status = "running" /\ armed /\ ~pending
  /\ calm => pc = "poll"
  /\ pending' = TRUE
  /\ UNCHANGED <<demo, machine, armed, status, switches>>

\* The kernel runs the handler on the current stack, with SIGALRM masked.
Deliver ==
  /\ status = "running" /\ pending /\ ~masked
  /\ frames' = Append(frames, [pc |-> pc, masked |-> masked])
  /\ pc' = "timer_interrupt" /\ masked' = TRUE /\ pending' = FALSE
  /\ UNCHANGED <<demo, stack, armed, status, switches>>

\* insig[curcontext]++ finds that a handler is at work already.
Nested ==
  /\ At("timer_interrupt") /\ insig[curcontext] > 0
  /\ Exit("nested")

\* cur_context->uc_stack before main() has set cur_context.
NullContext ==
  /\ At("timer_interrupt") /\ insig[curcontext] = 0 /\ cur_context = NULL
  /\ Exit("crash")

\* Bug: the stack is not looked at.
AnyStack == cur_context # NULL

\* used is below STACKSIZE exactly when the handler's frame lies on the stack
\* of cur_context: elsewhere the unsigned difference wraps or exceeds it.
OnOwnStack == stack = cur_context

StackOverflow ==
  /\ At("timer_interrupt") /\ insig[curcontext] = 0
  /\ cur_context # NULL /\ ~OnOwnStack
  /\ Exit("overflow")

\* The handler saves the running context and installs the scheduler's mask,
\* the empty one.
SwapOut ==
  /\ At("timer_interrupt") /\ insig[curcontext] = 0
  /\ cur_context # NULL /\ OnOwnStack
  /\ insig' = [insig EXCEPT ![curcontext] = 1]
  /\ contexts' = [contexts EXCEPT ![cur_context] = [Running EXCEPT !.pc = "swapped"]]
  /\ masked' = FALSE
  /\ pc' = "swapcontext"
  /\ UNCHANGED <<curcontext, cur_context, contextstack,
                 stack, frames, pending, armed, status, switches>>

EnterScheduler ==
  /\ At("swapcontext")
  /\ pc' = "scheduler" /\ stack' = SignalStack /\ frames' = <<>>
  /\ UNCHANGED <<demo, masked, pending, armed, status, switches>>

\* Bug: every other context is skipped.
SelectNextSkips ==
  /\ At("scheduler")
  /\ curcontext' = (curcontext + 2) % NUMCONTEXTS
  /\ pc' = "selected"
  /\ UNCHANGED <<contexts, cur_context, contextstack, insig,
                 stack, masked, frames, pending, armed, status, switches>>

SelectNext ==
  /\ At("scheduler")
  /\ curcontext' = (curcontext + 1) % NUMCONTEXTS
  /\ pc' = "selected"
  /\ UNCHANGED <<contexts, cur_context, contextstack, insig,
                 stack, masked, frames, pending, armed, status, switches>>

\* Bug: the pointer is advanced from the index that was advanced already.
PointTooFar ==
  /\ At("selected")
  /\ cur_context' = (curcontext + 1) % NUMCONTEXTS
  /\ pc' = "setcontext"
  /\ UNCHANGED <<contexts, curcontext, contextstack, insig,
                 stack, masked, frames, pending, armed, status, switches>>

PointToNext ==
  /\ At("selected")
  /\ cur_context' = curcontext
  /\ pc' = "setcontext"
  /\ UNCHANGED <<contexts, curcontext, contextstack, insig,
                 stack, masked, frames, pending, armed, status, switches>>

\* Bug: insig is not decremented.
HandlerReturnsUncounted ==
  /\ At("swapped")
  /\ LET frame == frames[Len(frames)]
     IN  pc' = frame.pc /\ masked' = frame.masked
  /\ frames' = SubSeq(frames, 1, Len(frames) - 1)
  /\ UNCHANGED <<demo, stack, pending, armed, status, switches>>

\* swapcontext has returned in a resumed handler, which returns in turn.
HandlerReturns ==
  /\ At("swapped")
  /\ insig' = [insig EXCEPT ![curcontext] = @ - 1]
  /\ LET frame == frames[Len(frames)]
     IN  pc' = frame.pc /\ masked' = frame.masked
  /\ frames' = SubSeq(frames, 1, Len(frames) - 1)
  /\ UNCHANGED <<contexts, curcontext, cur_context, contextstack,
                 stack, pending, armed, status, switches>>

Code == \/ MakeContexts \/ MallocFails \/ SetupSignals \/ SelectFirst
        \/ InstallMask \/ LoadContext \/ StartBody
        \/ Nested \/ NullContext \/ StackOverflow \/ SwapOut
        \/ EnterScheduler \/ SelectNext \/ PointToNext \/ HandlerReturns

Next == Code \/ Alarm \/ Deliver

Spec == Init /\ [][Next]_vars

\* The thread is scheduled, signals are delivered, the timer keeps expiring.
FairSpec == Spec /\ WF_vars(Code \/ Deliver) /\ WF_vars(Alarm)
-----------------------------------------------------------------------------
Labels == {"mkcontext", "setup", "select", "setcontext", "loadcontext", "body", "poll",
           "timer_interrupt", "swapcontext", "swapped", "scheduler", "selected"}
Stacks == Contexts \cup {MainStack, SignalStack}
Frames == Seq([pc : Labels, masked : BOOLEAN])
Saved == [pc : Labels, stack : Stacks, masked : BOOLEAN, frames : Frames]

TypeOK == /\ contexts \in [Contexts -> Saved \cup {NULL}]
          /\ curcontext \in Contexts
          /\ cur_context \in Contexts \cup {NULL}
          /\ contextstack \in [Contexts -> Contexts \cup {NULL}]
          /\ insig \in [Contexts -> 0 .. 1]
          /\ Running \in Saved
          /\ pending \in BOOLEAN /\ armed \in BOOLEAN
          /\ BUGGYSETUP \in BOOLEAN /\ calm \in BOOLEAN
          /\ status \in {"running", "nomem", "overflow", "nested", "crash"}

\* A context is never lost: whenever an alarm comes, what the handler saves
\* into a ucontext_t is the code that runs on that context's own stack, never
\* main() nor the scheduler, and the last frame there goes back to the body.
ContextsKeepTheirStack ==
  \A c \in Contexts : contexts[c] # NULL =>
    /\ contexts[c].stack = c
    /\ contexts[c].pc = "swapped" =>
         /\ Len(contexts[c].frames) = 1
         /\ contexts[c].frames[1].pc \in {"body", "poll"}

\* insig (">0 if handling a signal") is set for exactly the contexts that were
\* swapped out of their handler, and 0 for the one whose body runs.
InsigTellsSuspended ==
  status = "running" /\ pc # "mkcontext" =>
    \A c \in Contexts :
      IF c # curcontext THEN insig[c] = 1 <=> contexts[c].pc = "swapped"
      ELSE pc \in {"body", "poll"} => insig[c] = 0

\* While a body runs, curcontext, cur_context and the stack agree, signals are
\* unmasked and no handler frame is left behind.
BodyIsCurrent ==
  status = "running" /\ pc \in {"body", "poll"} =>
    /\ stack = curcontext /\ cur_context = curcontext
    /\ ~masked /\ frames = <<>>

\* cur_context is dereferenced before it is set only in the buggy setup.
NullOnlyWhenBuggy == status = "crash" => BUGGYSETUP

\* When alarms come only while a body runs, the process never ends, but for lack
\* of memory, and every context runs again and again.
EveryContextRuns == \A c \in Contexts : calm /\ armed ~> (pc = "poll" /\ stack = c)
=============================================================================
