-------------------------- MODULE ContextDemoProofs ---------------------------
(***************************************************************************)
(* The safety of ContextDemo for any number of contexts, both builds and   *)
(* alarms at any moment.  The invariant says, for each place the code can  *)
(* be at, on which stack it is and what the indices and marks are there;   *)
(* an alarm that comes at a wrong place leads to a handler that is doomed: *)
(* one of its checks ends the process before it saves anything.            *)
(***************************************************************************)
EXTENDS ContextDemo, TLAPS

\* What a handler that may be swapped out returns to.
Bodies == {[pc |-> "body", masked |-> FALSE], [pc |-> "poll", masked |-> FALSE]}

\* What a ucontext_t may hold once it was made.
Fresh(c) == [pc |-> "body", stack |-> c, masked |-> FALSE, frames |-> <<>>]
Suspended(c) == {[pc |-> "swapped", stack |-> c, masked |-> TRUE, frames |-> <<f>>] : f \in Bodies}

Kept == IF pc = "mkcontext" THEN \A c \in Contexts : contexts[c] = NULL
        ELSE \A c \in Contexts : contexts[c] = Fresh(c) \/ contexts[c] \in Suspended(c)

Marked(c) == insig[c] = 1 <=> contexts[c].pc = "swapped"
AllMarked == \A c \in Contexts : Marked(c)
OthersMarked == \A c \in Contexts : c # curcontext => Marked(c)
Current == stack = curcontext /\ cur_context = curcontext

InMain == pc \in {"mkcontext", "setup", "select"} =>
            /\ stack = MainStack /\ frames = <<>> /\ cur_context = NULL /\ curcontext = 0
            /\ \A c \in Contexts : insig[c] = 0
            /\ pc # "mkcontext" => \A c \in Contexts : contexts[c] = Fresh(c)
            /\ pc # "select" => ~armed /\ ~pending
            /\ pc = "select" /\ ~masked => BUGGYSETUP

InSetcontext == pc \in {"setcontext", "loadcontext"} =>
                  /\ stack \in {MainStack, SignalStack} /\ frames = <<>>
                  /\ cur_context = curcontext /\ AllMarked
                  /\ pc = "loadcontext" => (masked <=> contexts[cur_context].masked)

InBody == pc \in {"body", "poll"} =>
            Current /\ ~masked /\ frames = <<>> /\ insig[curcontext] = 0 /\ OthersMarked

Resumed == pc = "swapped" =>
             /\ Current /\ masked /\ (\E f \in Bodies : frames = <<f>>)
             /\ insig[curcontext] = 1 /\ OthersMarked

InSwapcontext == pc = "swapcontext" => Current /\ insig[curcontext] = 1 /\ AllMarked

InScheduler == pc \in {"scheduler", "selected"} =>
                 stack = SignalStack /\ frames = <<>> /\ cur_context # NULL /\ AllMarked

\* The handler of a body, and the doomed ones.
Normal == Current /\ (\E f \in Bodies : frames = <<f>>) /\ insig[curcontext] = 0
Doomed == \/ insig[curcontext] = 1
          \/ cur_context = NULL /\ BUGGYSETUP
          \/ cur_context # NULL /\ stack # cur_context
Interrupted == pc = "timer_interrupt" => masked /\ OthersMarked /\ (Normal \/ Doomed)

IInv == /\ TypeOK /\ Kept /\ NullOnlyWhenBuggy
        /\ InMain /\ InSetcontext /\ InBody /\ Resumed
        /\ InSwapcontext /\ InScheduler /\ Interrupted

\* The indices stay in range, and no stack but a context's own is a context.
LEMMA Indices ==
  /\ 0 \in Contexts /\ NULL \notin Contexts /\ MainStack \notin Contexts /\ SignalStack \notin Contexts
  /\ \A c \in Contexts : (c + 1) % NUMCONTEXTS \in Contexts
  BY ContextsAssumption, StacksAssumption DEF Contexts

\* The frames that occur: none, one, and those without the last of one.
LEMMA ShortSequences ==
  ASSUME NEW F, NEW f \in F
  PROVE  /\ <<>> \in Seq(F) /\ <<f>> \in Seq(F)
         /\ Len(<<f>>) = 1 /\ <<f>>[1] = f /\ SubSeq(<<f>>, 1, 0) = <<>>
  OBVIOUS

LEMMA ShortFrames == <<>> \in Frames /\ \A f \in Bodies : <<f>> \in Frames
  <1>1. Bodies \subseteq [pc : Labels, masked : BOOLEAN] /\ Bodies # {}
    BY DEF Bodies, Labels
  <1> QED
    BY <1>1, ShortSequences DEF Frames

\* What a ucontext_t may hold is of its type.
LEMMA KeptIsSaved ==
  ASSUME NEW c \in Contexts
  PROVE  Fresh(c) \in Saved /\ Suspended(c) \subseteq Saved
  <1>1. c \in Stacks /\ "body" \in Labels /\ "swapped" \in Labels /\ <<>> \in Frames
    BY ShortFrames DEF Stacks, Labels
  <1>2. Fresh(c) \in Saved
    BY <1>1 DEF Fresh, Saved
  <1>3. \A f \in Bodies :
          [pc |-> "swapped", stack |-> c, masked |-> TRUE, frames |-> <<f>>] \in Saved
    BY <1>1, ShortFrames, Zenon DEF Saved
  <1> QED
    BY <1>2, <1>3 DEF Suspended

\* A context that was just made is marked as one that runs no handler.
LEMMA FreshIsMarked ==
  ASSUME NEW c \in Contexts, insig[c] = 0, contexts[c] = Fresh(c)
  PROVE  Marked(c)
  <1>1. contexts[c].pc = "body"
    BY DEF Fresh
  <1> QED
    BY <1>1 DEF Marked

\* A context that was made is fresh or suspended.
LEMMA ContextsMade ==
  ASSUME IInv, pc # "mkcontext", NEW c \in Contexts
  PROVE  /\ contexts[c] \in Saved /\ contexts[c].stack = c
         /\ \/ contexts[c].pc = "body" /\ contexts[c].frames = <<>> /\ contexts[c].masked = FALSE
            \/ /\ contexts[c].pc = "swapped" /\ contexts[c].masked = TRUE
               /\ \E f \in Bodies : contexts[c].frames = <<f>>
  <1>1. contexts[c] = Fresh(c) \/ contexts[c] \in Suspended(c)
    BY DEF IInv, Kept
  <1> QED
    BY <1>1, KeptIsSaved DEF Fresh, Suspended

\* The running code, field by field.
LEMMA RunningTypes ==
  TypeOK => pc \in Labels /\ stack \in Stacks /\ masked \in BOOLEAN /\ frames \in Frames
  BY DEF TypeOK, Running, Saved

LEMMA InitHolds == Init => IInv
  <1> SUFFICES ASSUME Init PROVE IInv
    OBVIOUS
  <1>1. TypeOK
    <2>1. Running \in Saved
      BY ShortFrames DEF Init, Running, Saved, Labels, Stacks
    <2> QED
      BY <2>1, Indices DEF Init, TypeOK
  <1>2. Kept /\ NullOnlyWhenBuggy /\ InMain
    BY DEF Init, Kept, NullOnlyWhenBuggy, InMain
  <1> QED
    BY <1>1, <1>2 DEF Init, IInv, InSetcontext, InBody, Resumed, InSwapcontext, InScheduler, Interrupted

\* main() up to its setcontext.
LEMMA MainStep ==
  ASSUME IInv, MakeContexts \/ SetupSignals \/ SelectFirst
  PROVE  IInv'
  <1>1. CASE MakeContexts
    <2>1. TypeOK'
      <3>1. contexts' = [c \in Contexts |-> Fresh(c)]
        BY <1>1 DEF MakeContexts, Fresh
      <3>2. contexts' \in [Contexts -> Saved \cup {NULL}]
        BY <3>1, KeptIsSaved
      <3>3. Running' \in Saved
        BY <1>1, RunningTypes DEF IInv, MakeContexts, Running, Saved, Labels
      <3> QED
        BY <1>1, <3>2, <3>3 DEF IInv, TypeOK, MakeContexts, switches
    <2>2. Kept' /\ NullOnlyWhenBuggy' /\ InMain'
      BY <1>1 DEF IInv, MakeContexts, At, Kept, Fresh, NullOnlyWhenBuggy, InMain
    <2> QED
      BY <1>1, <2>1, <2>2
      DEF MakeContexts, IInv, InSetcontext, InBody, Resumed, InSwapcontext, InScheduler, Interrupted
  <1>2. CASE SetupSignals
    <2>1. TypeOK'
      <3>1. masked' \in BOOLEAN /\ armed' \in BOOLEAN
        BY <1>2 DEF SetupSignals
      <3>2. Running' \in Saved
        BY <1>2, <3>1, RunningTypes DEF IInv, SetupSignals, Running, Saved, Labels
      <3> QED
        BY <1>2, <3>1, <3>2 DEF IInv, TypeOK, SetupSignals, demo, switches
    <2>2. Kept' /\ NullOnlyWhenBuggy' /\ InMain'
      BY <1>2 DEF IInv, SetupSignals, At, demo, switches, Kept, NullOnlyWhenBuggy, InMain
    <2> QED
      BY <1>2, <2>1, <2>2
      DEF SetupSignals, IInv, InSetcontext, InBody, Resumed, InSwapcontext, InScheduler, Interrupted
  <1>3. CASE SelectFirst
    <2>1. TypeOK'
      BY <1>3, RunningTypes, Indices
      DEF IInv, TypeOK, SelectFirst, switches, Running, Saved, Labels
    <2>2. Kept' /\ NullOnlyWhenBuggy'
      BY <1>3 DEF IInv, SelectFirst, At, switches, Kept, NullOnlyWhenBuggy
    <2>3. InSetcontext'
      <3>1. /\ pc = "select" /\ pc' = "setcontext" /\ stack' = MainStack /\ frames' = <<>>
            /\ cur_context' = curcontext' /\ UNCHANGED <<contexts, insig>>
        BY <1>3 DEF IInv, SelectFirst, At, InMain
      <3>2. AllMarked
        BY <3>1, FreshIsMarked DEF IInv, InMain, AllMarked
      <3>3. AllMarked'
        BY <3>1, <3>2 DEF AllMarked, Marked
      <3> QED
        BY <3>1, <3>3 DEF InSetcontext
    <2> QED
      BY <1>3, <2>1, <2>2, <2>3
      DEF SelectFirst, IInv, InMain, InBody, Resumed, InSwapcontext, InScheduler, Interrupted
  <1> QED
    BY <1>1, <1>2, <1>3

\* setcontext, in main() and in scheduler().
LEMMA SetcontextStep ==
  ASSUME IInv, InstallMask \/ LoadContext
  PROVE  IInv'
  <1>1. /\ pc \in {"setcontext", "loadcontext"} /\ status = "running"
        /\ cur_context = curcontext /\ curcontext \in Contexts /\ AllMarked /\ insig[curcontext] \in 0 .. 1
        /\ UNCHANGED <<demo, pending, armed, status, switches>>
    BY DEF IInv, TypeOK, InstallMask, LoadContext, At, InSetcontext
  <1>2. /\ contexts[curcontext] \in Saved /\ contexts[curcontext].stack = curcontext
        /\ \/ /\ contexts[curcontext].pc = "body" /\ contexts[curcontext].frames = <<>>
              /\ contexts[curcontext].masked = FALSE
           \/ /\ contexts[curcontext].pc = "swapped" /\ contexts[curcontext].masked = TRUE
              /\ \E f \in Bodies : contexts[curcontext].frames = <<f>>
    BY <1>1, ContextsMade
  <1>3. pc' # "mkcontext"
    BY <1>1, <1>2 DEF InstallMask, LoadContext
  <1>4. Kept' /\ NullOnlyWhenBuggy'
    BY <1>1, <1>3 DEF IInv, demo, switches, Kept, NullOnlyWhenBuggy
  <1>5. CASE InstallMask
    <2>1. masked' \in BOOLEAN
      BY <1>1, <1>2, <1>5 DEF InstallMask, Saved
    <2>2. Running' \in Saved
      BY <1>5, <2>1, RunningTypes DEF IInv, InstallMask, Running, Saved, Labels
    <2>3. TypeOK'
      BY <1>1, <2>2 DEF IInv, TypeOK, demo, switches
    <2>4. masked' = contexts'[cur_context'].masked
      BY <1>1, <1>5 DEF InstallMask, demo
    <2>5. InSetcontext'
      BY <1>1, <1>5, <2>4 DEF IInv, InstallMask, demo, InSetcontext, AllMarked, Marked
    <2> QED
      BY <1>4, <1>5, <2>3, <2>5
      DEF InstallMask, IInv, InMain, InBody, Resumed, InSwapcontext, InScheduler, Interrupted
  <1>6. CASE LoadContext
    <2>1. /\ pc' = contexts[curcontext].pc /\ stack' = curcontext
          /\ frames' = contexts[curcontext].frames
          /\ masked' = masked /\ (masked <=> contexts[curcontext].masked)
      BY <1>1, <1>2, <1>6 DEF IInv, LoadContext, At, InSetcontext
    <2>2. Running' \in Saved
      BY <1>2, <2>1, RunningTypes DEF IInv, Running, Saved
    <2>3. TypeOK'
      BY <1>1, <2>2 DEF IInv, TypeOK, demo, switches
    <2>4. Current' /\ OthersMarked' /\ curcontext' = curcontext /\ insig' = insig
      BY <1>1, <2>1 DEF demo, Current, OthersMarked, AllMarked, Marked
    <2>5. CASE contexts[curcontext].pc = "body"
      <3>1. contexts[curcontext].frames = <<>> /\ contexts[curcontext].masked = FALSE
        BY <1>2, <2>5
      <3>2. insig[curcontext] = 0
        BY <1>1, <2>5 DEF AllMarked, Marked
      <3>3. InBody'
        BY <2>1, <2>4, <3>1, <3>2 DEF InBody
      <3> QED
        BY <1>4, <2>1, <2>3, <2>5, <3>3
        DEF IInv, InMain, InSetcontext, Resumed, InSwapcontext, InScheduler, Interrupted
    <2>6. CASE contexts[curcontext].pc = "swapped"
      <3>1. (\E f \in Bodies : contexts[curcontext].frames = <<f>>) /\ contexts[curcontext].masked = TRUE
        BY <1>2, <2>6
      <3>2. insig[curcontext] = 1
        BY <1>1, <2>6 DEF AllMarked, Marked
      <3>3. Resumed'
        BY <2>1, <2>4, <3>1, <3>2 DEF Resumed
      <3> QED
        BY <1>4, <2>1, <2>3, <2>6, <3>3
        DEF IInv, InMain, InSetcontext, InBody, InSwapcontext, InScheduler, Interrupted
    <2> QED
      BY <1>2, <2>5, <2>6
  <1> QED
    BY <1>5, <1>6

\* thread1(), thread2().
LEMMA BodyStep == ASSUME IInv, StartBody PROVE IInv'
  <1>1. TypeOK'
    BY RunningTypes DEF IInv, TypeOK, InBody, Current, StartBody, At, switches, Running, Saved, Labels
  <1>2. Kept' /\ NullOnlyWhenBuggy'
    BY DEF IInv, StartBody, At, switches, Kept, NullOnlyWhenBuggy
  <1>3. InBody'
    BY DEF IInv, StartBody, At, InBody, Current, OthersMarked, Marked
  <1> QED
    BY <1>1, <1>2, <1>3
    DEF StartBody, IInv, InMain, InSetcontext, Resumed, InSwapcontext, InScheduler, Interrupted

\* An alarm changes nothing but pending, which main() cannot see before setitimer().
LEMMA AlarmStep == ASSUME IInv, Alarm PROVE IInv'
  <1>1. UNCHANGED <<demo, machine, armed, status, switches>> /\ pending' \in BOOLEAN /\ armed
    BY DEF Alarm
  <1>2. TypeOK'
    BY <1>1 DEF IInv, TypeOK, Running, demo, machine, switches
  <1>3. InMain'
    BY <1>1 DEF IInv, InMain, demo, machine, switches
  <1> QED
    BY <1>1, <1>2, <1>3
    DEF IInv, demo, machine, switches, Kept, NullOnlyWhenBuggy, InSetcontext, InBody, Resumed,
        InSwapcontext, InScheduler, Interrupted, AllMarked, OthersMarked, Marked, Current, Normal, Doomed

\* A handler that is entered is that of a body, or one of its checks will fail.
LEMMA DeliverStep == ASSUME IInv, Deliver PROVE IInv'
  <1> DEFINE f == [pc |-> pc, masked |-> masked]
  <1>1. /\ frames' = Append(frames, f) /\ pc' = "timer_interrupt" /\ masked' = TRUE /\ pending' = FALSE
        /\ UNCHANGED <<demo, stack, armed, status, switches>>
        /\ status = "running" /\ pending /\ ~masked
    BY DEF Deliver
  <1>2. pc \in Labels /\ stack \in Stacks /\ masked \in BOOLEAN /\ frames \in Frames
    BY RunningTypes DEF IInv
  <1>3. curcontext \in Contexts /\ cur_context \in Contexts \cup {NULL} /\ insig[curcontext] \in 0 .. 1
    BY DEF IInv, TypeOK
  <1>4. TypeOK'
    <2>1. frames' \in Frames
      BY <1>1, <1>2 DEF Frames
    <2>2. Running' \in Saved
      BY <1>1, <1>2, <2>1 DEF Running, Saved, Labels
    <2> QED
      BY <1>1, <2>2 DEF IInv, TypeOK, demo, switches
  <1>5. pc \notin {"mkcontext", "setup", "swapped", "timer_interrupt"}
    BY <1>1 DEF IInv, InMain, Resumed, Interrupted
  <1>6. Kept' /\ NullOnlyWhenBuggy'
    BY <1>1, <1>5 DEF IInv, demo, switches, Kept, NullOnlyWhenBuggy
  <1>7. OthersMarked /\ (Normal' \/ Doomed)
    <2>1. CASE pc = "select"
      <3>1. cur_context = NULL /\ BUGGYSETUP
        BY <1>1, <2>1 DEF IInv, InMain
      <3>2. OthersMarked
        BY <2>1, FreshIsMarked DEF IInv, InMain, OthersMarked
      <3> QED
        BY <3>1, <3>2 DEF Doomed
    <2>2. CASE pc \in {"setcontext", "loadcontext"}
      BY <1>3, <2>2, Indices DEF IInv, InSetcontext, AllMarked, OthersMarked, Doomed
    <2>3. CASE pc \in {"body", "poll"}
      <3>1. Current /\ frames = <<>> /\ insig[curcontext] = 0 /\ OthersMarked
        BY <2>3 DEF IInv, InBody
      <3>2. f \in Bodies
        <4>1. masked = FALSE
          BY <1>1, <1>2
        <4> QED
          BY <2>3, <4>1 DEF Bodies
      <3>3. frames' = <<f>>
        BY <1>1, <3>1
      <3>4. Normal'
        BY <1>1, <3>1, <3>2, <3>3 DEF Normal, Current, demo
      <3> QED
        BY <3>1, <3>4
    <2>4. CASE pc = "swapcontext"
      BY <2>4 DEF IInv, InSwapcontext, AllMarked, OthersMarked, Doomed
    <2>5. CASE pc \in {"scheduler", "selected"}
      BY <1>3, <2>5, Indices DEF IInv, InScheduler, AllMarked, OthersMarked, Doomed
    <2> QED
      BY <1>2, <1>5, <2>1, <2>2, <2>3, <2>4, <2>5 DEF Labels
  <1>8. OthersMarked' /\ (Doomed <=> Doomed')
    BY <1>1, <1>7 DEF demo, switches, OthersMarked, Marked, Doomed
  <1>9. Interrupted'
    BY <1>1, <1>7, <1>8 DEF Interrupted
  <1> QED
    BY <1>1, <1>4, <1>6, <1>9
    DEF IInv, InMain, InSetcontext, InBody, Resumed, InSwapcontext, InScheduler

\* The process ends; nothing else changes.
LEMMA ExitStep ==
  ASSUME IInv, MallocFails \/ Nested \/ NullContext \/ StackOverflow
  PROVE  IInv'
  <1>1. UNCHANGED <<demo, machine, pending, armed, switches>>
    BY DEF MallocFails, Nested, NullContext, StackOverflow, Exit
  <1>2. status' \in {"running", "nomem", "overflow", "nested", "crash"}
    BY DEF MallocFails, Nested, NullContext, StackOverflow, Exit
  <1>3. TypeOK'
    BY <1>1, <1>2 DEF IInv, TypeOK, Running, demo, machine, switches
  <1>4. NullOnlyWhenBuggy'
    <2>1. CASE NullContext
      <3>1. curcontext \in Contexts /\ cur_context = NULL /\ insig[curcontext] = 0 /\ pc = "timer_interrupt"
        BY <2>1 DEF IInv, TypeOK, NullContext, At
      <3>2. ~Normal
        BY <3>1, Indices DEF Normal, Current
      <3>3. BUGGYSETUP
        BY <3>1, <3>2 DEF IInv, Interrupted, Doomed
      <3> QED
        BY <1>1, <3>3 DEF NullOnlyWhenBuggy, switches
    <2> QED
      BY <2>1 DEF MallocFails, Nested, StackOverflow, Exit, NullOnlyWhenBuggy
  <1> QED
    BY <1>1, <1>3, <1>4
    DEF IInv, demo, machine, switches, Kept, InMain, InSetcontext, InBody, Resumed,
        InSwapcontext, InScheduler, Interrupted, AllMarked, OthersMarked, Marked, Current, Normal, Doomed

\* Only the handler of a body saves the running context, in the body's own ucontext_t.
LEMMA SwapOutStep == ASSUME IInv, SwapOut PROVE IInv'
  <1>1. /\ pc = "timer_interrupt" /\ status = "running" /\ insig[curcontext] = 0
        /\ cur_context # NULL /\ stack = cur_context
        /\ insig' = [insig EXCEPT ![curcontext] = 1]
        /\ contexts' = [contexts EXCEPT ![cur_context] = [Running EXCEPT !.pc = "swapped"]]
        /\ masked' = FALSE /\ pc' = "swapcontext"
        /\ UNCHANGED <<curcontext, cur_context, contextstack, stack, frames, pending, armed, status, switches>>
    BY DEF SwapOut, At, OnOwnStack
  <1>2. curcontext \in Contexts /\ insig \in [Contexts -> 0 .. 1] /\ DOMAIN contexts = Contexts
        /\ contexts \in [Contexts -> Saved \cup {NULL}]
    BY DEF IInv, TypeOK
  <1>3. masked /\ OthersMarked /\ Current /\ \E f \in Bodies : frames = <<f>>
    BY <1>1 DEF IInv, Interrupted, Normal, Doomed
  <1>4. [Running EXCEPT !.pc = "swapped"] \in Suspended(curcontext)
    <2>1. masked = TRUE
      BY <1>3, RunningTypes DEF IInv
    <2>2. [Running EXCEPT !.pc = "swapped"]
            = [pc |-> "swapped", stack |-> stack, masked |-> masked, frames |-> frames]
      BY DEF Running
    <2>3. stack = curcontext
      BY <1>3 DEF Current
    <2> QED
      BY <1>3, <2>1, <2>2, <2>3 DEF Suspended
  <1>5. /\ contexts'[curcontext] \in Suspended(curcontext)
        /\ \A c \in Contexts : c # curcontext => contexts'[c] = contexts[c]
        /\ insig'[curcontext] = 1
        /\ \A c \in Contexts : c # curcontext => insig'[c] = insig[c]
    BY <1>1, <1>2, <1>3, <1>4 DEF Current
  <1>6. TypeOK'
    <2>1. [Running EXCEPT !.pc = "swapped"] \in Saved
      BY <1>2, <1>4, KeptIsSaved
    <2>2. contexts' \in [Contexts -> Saved \cup {NULL}]
      BY <1>1, <1>2, <2>1
    <2>3. Running' \in Saved
      BY <1>1, RunningTypes DEF IInv, Running, Saved, Labels
    <2> QED
      BY <1>1, <1>2, <2>2, <2>3 DEF IInv, TypeOK, switches
  <1>7. Kept' /\ NullOnlyWhenBuggy'
    BY <1>1, <1>5 DEF IInv, Kept, switches, NullOnlyWhenBuggy
  <1>8. InSwapcontext'
    <2>1. contexts'[curcontext].pc = "swapped"
      BY <1>5 DEF Suspended
    <2>2. AllMarked'
      BY <1>3, <1>5, <2>1 DEF OthersMarked, AllMarked, Marked
    <2>3. Current'
      BY <1>1, <1>3 DEF Current
    <2> QED
      BY <1>1, <1>5, <2>2, <2>3 DEF InSwapcontext
  <1> QED
    BY <1>1, <1>6, <1>7, <1>8
    DEF IInv, InMain, InSetcontext, InBody, Resumed, InScheduler, Interrupted

\* scheduler(), up to its setcontext.
LEMMA SchedulerStep ==
  ASSUME IInv, EnterScheduler \/ SelectNext \/ PointToNext
  PROVE  IInv'
  <1>1. /\ pc \in {"swapcontext", "scheduler", "selected"} /\ status = "running"
        /\ pc' \in {"scheduler", "selected", "setcontext"}
        /\ stack' = SignalStack /\ frames' = <<>>
        /\ UNCHANGED <<contexts, contextstack, insig, masked, pending, armed, status, switches>>
    BY DEF IInv, InScheduler, EnterScheduler, SelectNext, PointToNext, At, demo
  <1>2. /\ curcontext \in Contexts /\ curcontext' \in Contexts
        /\ cur_context' \in Contexts
        /\ pc' = "setcontext" => cur_context' = curcontext'
    BY Indices DEF IInv, TypeOK, InScheduler, InSwapcontext, Current,
                   EnterScheduler, SelectNext, PointToNext, At, demo
  <1>3. AllMarked
    BY <1>1 DEF IInv, InSwapcontext, InScheduler
  <1>4. TypeOK'
    <2>1. Running' \in Saved
      BY <1>1, RunningTypes DEF IInv, Running, Saved, Labels, Stacks, Frames
    <2> QED
      BY <1>1, <1>2, <2>1 DEF IInv, TypeOK, switches
  <1>5. Kept' /\ NullOnlyWhenBuggy'
    BY <1>1 DEF IInv, Kept, switches, NullOnlyWhenBuggy
  <1>6. AllMarked'
    BY <1>1, <1>3 DEF AllMarked, Marked
  <1>7. InSetcontext' /\ InScheduler'
    BY <1>1, <1>2, <1>6, Indices DEF InSetcontext, InScheduler
  <1> QED
    BY <1>1, <1>4, <1>5, <1>7 DEF IInv, InMain, InBody, Resumed, InSwapcontext, Interrupted

\* A resumed handler returns to its body.
LEMMA ReturnStep == ASSUME IInv, HandlerReturns PROVE IInv'
  <1>1. PICK f \in Bodies : frames = <<f>>
    BY DEF IInv, HandlerReturns, At, Resumed
  <1>2. /\ pc = "swapped" /\ status = "running" /\ pc' = f.pc /\ masked' = f.masked /\ frames' = <<>>
        /\ insig' = [insig EXCEPT ![curcontext] = @ - 1]
        /\ UNCHANGED <<contexts, curcontext, cur_context, contextstack, stack, pending, armed, status, switches>>
    BY <1>1 DEF HandlerReturns, At
  <1>3. f.pc \in {"body", "poll"} /\ f.masked = FALSE
    BY DEF Bodies
  <1>4. Current /\ insig[curcontext] = 1 /\ OthersMarked
        /\ curcontext \in Contexts /\ insig \in [Contexts -> 0 .. 1]
    BY <1>2 DEF IInv, TypeOK, Resumed
  <1>5. /\ insig' \in [Contexts -> 0 .. 1] /\ insig'[curcontext] = 0
        /\ \A c \in Contexts : c # curcontext => insig'[c] = insig[c]
    BY <1>2, <1>4
  <1>6. TypeOK'
    <2>1. Running' \in Saved
      <3>1. pc' \in Labels /\ masked' \in BOOLEAN /\ frames' \in Frames
        BY <1>2, <1>3, ShortFrames DEF Labels
      <3> QED
        BY <1>2, <3>1, RunningTypes DEF IInv, Running, Saved
    <2> QED
      BY <1>2, <1>5, <2>1 DEF IInv, TypeOK, switches
  <1>7. Kept' /\ NullOnlyWhenBuggy'
    BY <1>2, <1>3 DEF IInv, Kept, switches, NullOnlyWhenBuggy
  <1>8. InBody'
    <2>1. OthersMarked' /\ Current'
      BY <1>2, <1>4, <1>5 DEF OthersMarked, Marked, Current
    <2> QED
      BY <1>2, <1>3, <1>5, <2>1 DEF InBody
  <1> QED
    BY <1>2, <1>3, <1>6, <1>7, <1>8
    DEF IInv, InMain, InSetcontext, Resumed, InSwapcontext, InScheduler, Interrupted

LEMMA StepHolds == IInv /\ [Next]_vars => IInv'
  <1> SUFFICES ASSUME IInv, [Next]_vars PROVE IInv'
    OBVIOUS
  <1>1. CASE UNCHANGED vars
    BY <1>1
    DEF vars, demo, machine, switches, IInv, TypeOK, Running, Kept, NullOnlyWhenBuggy, InMain,
        InSetcontext, InBody, Resumed, InSwapcontext, InScheduler, Interrupted,
        AllMarked, OthersMarked, Marked, Current, Normal, Doomed
  <1>2. CASE Code
    BY <1>2, MainStep, SetcontextStep, BodyStep, ExitStep, SwapOutStep, SchedulerStep, ReturnStep DEF Code
  <1> QED
    BY <1>1, <1>2, AlarmStep, DeliverStep DEF Next

LEMMA Invariance == Spec => []IInv
  BY InitHolds, StepHolds, PTL DEF Spec

\* The variables stay of their types: every index names a context, and no context
\* is lost to a value that setcontext could not load.
THEOREM Typing == Spec => []TypeOK
  BY Invariance, PTL DEF IInv

\* cur_context is dereferenced before it is set only in the buggy setup.
THEOREM SetupIsSound == Spec => []NullOnlyWhenBuggy
  BY Invariance, PTL DEF IInv

\* What the handler saves is the code on the context's own stack.
THEOREM StacksAreKept == Spec => []ContextsKeepTheirStack
  <1>1. IInv => ContextsKeepTheirStack
    <2> SUFFICES ASSUME IInv, NEW c \in Contexts, contexts[c] # NULL
                 PROVE  /\ contexts[c].stack = c
                        /\ contexts[c].pc = "swapped" =>
                             /\ Len(contexts[c].frames) = 1
                             /\ contexts[c].frames[1].pc \in {"body", "poll"}
      BY DEF ContextsKeepTheirStack
    <2>1. pc # "mkcontext"
      BY DEF IInv, Kept
    <2>2. contexts[c].stack = c
      BY <2>1, ContextsMade
    <2>3. ASSUME contexts[c].pc = "swapped"
          PROVE  Len(contexts[c].frames) = 1 /\ contexts[c].frames[1].pc \in {"body", "poll"}
      <3>1. PICK f \in Bodies : contexts[c].frames = <<f>>
        BY <2>1, <2>3, ContextsMade
      <3> QED
        BY <3>1 DEF Bodies
    <2> QED
      BY <2>2, <2>3
  <1> QED
    BY <1>1, Invariance, PTL

\* insig marks the contexts that were swapped out of their handler.
THEOREM MarksAreTrue == Spec => []InsigTellsSuspended
  <1>1. IInv => InsigTellsSuspended
    <2> SUFFICES ASSUME IInv, pc # "mkcontext", NEW c \in Contexts
                 PROVE  IF c # curcontext THEN insig[c] = 1 <=> contexts[c].pc = "swapped"
                        ELSE pc \in {"body", "poll"} => insig[c] = 0
      BY DEF InsigTellsSuspended
    <2>1. pc \in Labels
      BY RunningTypes DEF IInv
    <2>2. pc \in {"body", "poll"} => insig[curcontext] = 0
      BY DEF IInv, InBody
    <2>3. OthersMarked
      <3>1. CASE pc \in {"setup", "select"}
        BY <3>1, FreshIsMarked DEF IInv, InMain, OthersMarked
      <3>2. CASE pc \notin {"setup", "select"}
        BY <2>1, <3>2
        DEF Labels, IInv, InSetcontext, InBody, Resumed, InSwapcontext, InScheduler, Interrupted,
            AllMarked, OthersMarked
      <3> QED
        BY <3>1, <3>2
    <2> QED
      BY <2>2, <2>3 DEF OthersMarked, Marked
  <1> QED
    BY <1>1, Invariance, PTL

\* A body runs on its own stack, current, unmasked and with no handler below it.
THEOREM BodiesAreCurrent == Spec => []BodyIsCurrent
  <1>1. IInv => BodyIsCurrent
    BY DEF IInv, InBody, Current, BodyIsCurrent
  <1> QED
    BY <1>1, Invariance, PTL
=============================================================================
