---------------------------- MODULE SigTestsProofs ----------------------------
(***************************************************************************)
(* The verdicts of the single-threaded signal tests, for every NUMCOUNT    *)
(* and any number of signals from outside: no system is blamed for a fault *)
(* it has not, and no fault that a program tests for gets past it.  And    *)
(* what is left of a test gets less with each of its steps.                *)
(***************************************************************************)
EXTENDS SigTests, Integers, SequenceTheorems, TLAPS

\* Where a handler is, and what is known of it.
Places == {"enter", "raised", "return"}
FrameOf(B) == [at : Places, uc_sigmask : B, entered : B]
Frame == FrameOf(BOOLEAN)

Statuses == {"running", "killed", "0", "1", "-1", "-2", "-3"}

Types == /\ program \in Programs /\ option \in Options(program) /\ fault \in Faults
         /\ frames \in Seq(Frame)
         /\ masked \in BOOLEAN /\ count \in Nat /\ count2 \in Nat /\ outside \in Nat
         /\ status \in Statuses

\* All that the programs depend on of the handlers at work: how many there are,
\* and the innermost one.
Depth == Len(frames)
Place == Top.at
UcMask == Top.uc_sigmask
EnteredMask == Top.entered

\* The programs that only wait for a signal have nothing to tell of it.
Waits == /\ program = "sigtest" => pc \in {"loop", "sleep"} /\ status \in {"running", "0"}
         /\ program = "sigtest2" => /\ pc \in {"read", "reading", "test", "end"}
                                    /\ status \in {"running", "0"}

\* sigtest_no_defer.cpp: the raises stay inside one another, ...
NoDefer ==
  /\ pc = "loop" /\ ~masked /\ count = 0 /\ count2 <= NUMCOUNT
  /\ status \in {"running", "0"}
  /\ Depth = 0 => loop /\ count2 = 0 /\ status = "running"
  /\ Depth > 0 => \/ Place = "enter" /\ Depth >= count2 + 1
                  \/ Place = "raised" /\ Depth >= count2 /\ pending /\ status = "running"
  /\ Depth + (IF pending THEN 1 ELSE 0) <= count2 + 1 + outside
  /\ status = "0" => Place = "enter" /\ count2 = NUMCOUNT

\* ... or come one after the other and are found out by the second entry.
Deferred ==
  /\ pc = "loop" /\ status # "0" /\ Depth <= 1
  /\ Depth = 0 => ~masked /\ (count2 > 0 => count > 0)
  /\ Depth = 1 => /\ masked /\ ~UcMask /\ Place \in Places
                  /\ Place = "enter" => (count2 > 0 => count > 0)
                  /\ Place = "return" => count > 0

\* The programs whose handler must not be entered in itself: it is, and finds
\* out, before any handler has returned.
Unblocked ==
  /\ pc = "loop" /\ ~last /\ count = 0 /\ status \in {"running", "-1"}
  /\ fault = "not_blocked" => ~masked
  /\ Depth = 0 => loop /\ count2 = 0 /\ ~inhandler
  /\ Depth > 0 => \/ Place = "enter"
                  \/ Place = "raised" /\ pending
  /\ Depth > 0 /\ Place = "raised" => /\ program = "samask" => count2 = 1
                                      /\ program = "sigmask" => inhandler
  /\ count2 <= 1

\* sigtest_samask.cpp on a system that blocks and restores the mask.  A mask of
\* the handler that sigprocmask returns is Stuck.
Stuck == fault = "stale_sigprocmask" /\ option = "TESTSIGPROCMASK" /\ pc \in {"last_loop", "check"}
Samask ==
  /\ pc \in {"loop", "sigprocmask", "last_loop", "check"} /\ Depth <= 1
  /\ last <=> pc # "loop"
  /\ Depth = 0 => (masked <=> Stuck)
  /\ Depth = 1 => masked /\ ~Stuck /\ ~UcMask /\ ~EnteredMask
  /\ pc = "loop" =>
       /\ count <= NUMCOUNT /\ status = "running"
       /\ Depth = 0 => count2 = count /\ (loop \/ pending \/ count = NUMCOUNT)
       /\ Depth = 1 => \/ Place = "enter" /\ count2 = count
                       \/ Place = "raised" /\ ~loop /\ count2 = count + 1 /\ count < NUMCOUNT /\ pending
                       \/ Place = "return" /\ ~loop /\ count2 = count /\ (pending \/ count = NUMCOUNT)
  /\ pc # "loop" =>
       /\ count = NUMCOUNT /\ count2 = NUMCOUNT
       /\ Depth = 1 => Place = "enter" \/ (Place = "return" /\ ~loop)
       /\ status = "running" \/ (status = "0" /\ Depth = 0) \/ (status = "-3" /\ Stuck)
  /\ pc = "check" /\ loop /\ ~Stuck => pending \/ (Depth = 1 /\ Place = "enter")
  /\ fault = "stale_sigprocmask" /\ option = "TESTSIGPROCMASK" =>
       /\ pc # "loop" /\ (~loop \/ status = "0") => outside > 0
       /\ pc = "sigprocmask" /\ (pending \/ Depth = 1) => outside > 0

\* sigtest_samask.cpp where the first return leaves the signal blocked.
Unrestored ==
  /\ pc \in {"loop", "sigprocmask", "last_loop", "check"} /\ Depth <= 1
  /\ status \in {"running", "-3"}
  /\ Depth = 0 /\ ~masked => pc = "loop" /\ loop /\ count = 0 /\ count2 = 0 /\ ~last
  /\ Depth = 0 /\ masked => loop <=> pc # "loop"
  /\ Depth = 1 => /\ masked /\ pc = "loop" /\ ~last
                  /\ \/ Place = "enter" /\ count = 0 /\ count2 = 0
                     \/ Place \in {"raised", "return"} /\ ~loop

\* sigtest_sigmask.cpp: the context that the handler has filled is in force.
Sigmask ==
  /\ pc = "loop" /\ Depth <= 1 /\ status \in {"running", "0"}
  /\ inhandler <=> ~loop
  /\ Depth = 0 => (masked <=> inhandler)
  /\ Depth = 1 => /\ masked
                  /\ \/ Place = "enter" /\ ~inhandler
                     \/ Place = "raised" /\ inhandler
                     \/ Place = "return" /\ inhandler /\ UcMask
  /\ status = "0" => inhandler /\ Depth = 0

\* ... or is not looked at: the pending signal is delivered again.
Ignored ==
  /\ pc = "loop" /\ Depth <= 1 /\ status \in {"running", "-1"}
  /\ inhandler <=> ~loop
  /\ Depth = 0 => ~masked /\ (inhandler => pending)
  /\ Depth = 1 => /\ masked /\ ~EnteredMask
                  /\ \/ Place = "enter"
                     \/ Place \in {"raised", "return"} /\ inhandler /\ pending

\* synchronous-signal-block.cpp: which of three ways it ends.
Synchronous ==
  /\ pc \in {"mask", "act", "exit", "end"}
  /\ pc = "mask" => ~pending /\ Depth = 0 /\ status = "running"
  /\ pc \in {"act", "exit"} => masked
  /\ pc = "end" => status = "0"
  /\ option \in {"-s", "none"} => pc \in {"mask", "act"}
  /\ option = "other" => ~pending
  /\ fault # "mask_ignored" \/ option = "other" =>
       /\ Depth = 0
       /\ status = "running" \/ status = Passed
  /\ fault = "mask_ignored" /\ option # "other" =>
       /\ status \in {"running", "1"}
       /\ Depth > 0 => Place = "enter"
       /\ pc # "end"
       /\ pc = "exit" => pending \/ Depth > 0

\* sigtest3.cpp: the store gets through where the handler's change reaches it.
Faulting ==
  /\ pc \in {"store", "stored", "end"} /\ Depth <= 1
  /\ Depth = 1 => pc = "store" /\ ~pending /\ ~UcMask /\ ~EnteredMask
  /\ Depth = 0 /\ masked => fault = "not_restored" /\ (pc = "store" => option # "RAX")
  /\ pc # "store" => RaxChanged /\ ~pending
  /\ status = "0" => RaxChanged
  /\ status \in {"running", "0"} \/ (status = "killed" /\ fault = "not_restored" /\ option # "RAX")

IInv ==
  /\ Types /\ Waits
  /\ program = "no_defer" => IF fault = "deferred" THEN Deferred ELSE NoDefer
  /\ program \in {"samask", "sigmask"} /\ fault \in {"not_blocked", "mask_ignored"} => Unblocked
  /\ program = "samask" /\ fault \notin {"not_blocked", "mask_ignored"} =>
       IF fault = "not_restored" THEN Unrestored ELSE Samask
  /\ program = "sigmask" /\ fault \notin {"not_blocked", "mask_ignored"} =>
       IF fault = "context_ignored" THEN Ignored ELSE Sigmask
  /\ program = "block" => Synchronous
  /\ program = "sigtest3" => Faulting

-----------------------------------------------------------------------------
\* What the steps of a handler do to the stack of frames.  The provers need the
\* type of a mask to be any set B.
LEMMA Pushed ==
  ASSUME NEW B, NEW s \in Seq(FrameOf(B)), NEW b \in B,
         NEW t, t = Append(s, [at |-> "enter", uc_sigmask |-> b, entered |-> b])
  PROVE  /\ t \in Seq(FrameOf(B)) /\ Len(t) = Len(s) + 1
         /\ t[Len(t)].at = "enter" /\ t[Len(t)].uc_sigmask = b /\ t[Len(t)].entered = b
BY DEF Places, FrameOf

\* A frame pushed on the stack is its top.
LEMMA PushedFrame ==
  ASSUME NEW s \in Seq(Frame), NEW b \in BOOLEAN,
         NEW t, t = Append(s, [at |-> "enter", uc_sigmask |-> b, entered |-> b])
  PROVE  /\ t \in Seq(Frame) /\ Len(t) = Len(s) + 1
         /\ t[Len(t)].at = "enter" /\ t[Len(t)].uc_sigmask = b /\ t[Len(t)].entered = b
BY Pushed DEF Frame

\* A handler that goes on keeps both its masks.
LEMMA Moved ==
  ASSUME NEW B, NEW f \in FrameOf(B), NEW p \in Places
  PROVE  /\ [f EXCEPT !.at = p] \in FrameOf(B)
         /\ [f EXCEPT !.at = p].at = p
         /\ [f EXCEPT !.at = p].uc_sigmask = f.uc_sigmask
         /\ [f EXCEPT !.at = p].entered = f.entered
BY DEF FrameOf

\* A handler that fills the mask of its context keeps the one it was entered with.
LEMMA Filled ==
  ASSUME NEW B, NEW f \in FrameOf(B), NEW b \in B,
         NEW g, g = [at |-> "return", uc_sigmask |-> b, entered |-> f.entered]
  PROVE  g \in FrameOf(B) /\ g.at = "return" /\ g.uc_sigmask = b /\ g.entered = f.entered
BY DEF FrameOf, Places

LEMMA FilledFrame ==
  ASSUME NEW f \in Frame, NEW b \in BOOLEAN,
         NEW g, g = [at |-> "return", uc_sigmask |-> b, entered |-> f.entered]
  PROVE  g \in Frame /\ g.at = "return" /\ g.uc_sigmask = b /\ g.entered = f.entered
BY Filled DEF Frame

\* A frame put on the top of a stack that is not empty is the top.
LEMMA Replaced ==
  ASSUME NEW F, NEW s \in Seq(F), s # <<>>, NEW g \in F,
         NEW t, t = [s EXCEPT ![Len(s)] = g]
  PROVE  t \in Seq(F) /\ Len(t) = Len(s) /\ t[Len(t)] = g
OBVIOUS

\* A return takes one frame away.
LEMMA Popped ==
  ASSUME NEW F, NEW s \in Seq(F), s # <<>>
  PROVE  Front(s) \in Seq(F) /\ Len(Front(s)) = Len(s) - 1
<1> DEFINE n == Len(s) - 1
<1>1. n \in Nat /\ \A i \in 1 .. n : s[i] \in F
  OBVIOUS
<1>2. SubSeq(s, 1, n) \in Seq(F) /\ Len(SubSeq(s, 1, n)) = IF 1 <= n THEN n - 1 + 1 ELSE 0
  <2> HIDE DEF n
  <2> QED
    BY <1>1, SubSeqProperties
<1>3. Len(SubSeq(s, 1, n)) = n
  <2> HIDE DEF n
  <2> QED
    BY <1>1, <1>2
<1>4. Front(s) = SubSeq(s, 1, n)
  BY DEF Front
<1> QED
  BY <1>2, <1>3, <1>4

\* The top frame is a frame.
LEMMA TopFrame ==
  ASSUME frames \in Seq(Frame), frames # <<>>
  PROVE  /\ Top \in Frame /\ Depth \in Nat /\ Depth > 0
         /\ Place \in Places /\ UcMask \in BOOLEAN /\ EnteredMask \in BOOLEAN
<1>1. Depth \in Nat /\ Depth > 0 /\ Depth \in DOMAIN frames
  BY DEF Depth
<1>2. Top \in Frame
  BY <1>1 DEF Top, Depth
<1> QED
  BY <1>1, <1>2 DEF Place, UcMask, EnteredMask, Frame, FrameOf

\* The steps, as changes of the number of handlers and the innermost one.
LEMMA DeliverMoves ==
  ASSUME Types, Deliver
  PROVE  /\ frames' \in Seq(Frame) /\ Depth \in Nat /\ Depth' = Depth + 1
         /\ Place' = "enter" /\ (UcMask' <=> masked) /\ (EnteredMask' <=> masked)
         /\ masked' \in BOOLEAN /\ (masked' <=> (masked \/ Blocks))
         /\ ~pending'
<1>1. frames \in Seq(Frame) /\ masked \in BOOLEAN
  BY DEF Types
<1>2. frames' = Append(frames, [at |-> "enter", uc_sigmask |-> masked, entered |-> masked])
  BY DEF Deliver
<1>3. /\ frames' \in Seq(Frame) /\ Len(frames') = Len(frames) + 1
      /\ frames'[Len(frames')].at = "enter"
      /\ frames'[Len(frames')].uc_sigmask = masked
      /\ frames'[Len(frames')].entered = masked
  BY <1>1, <1>2, PushedFrame
<1>4. UcMask' = masked /\ EnteredMask' = masked /\ Place' = "enter"
  BY <1>3 DEF UcMask, EnteredMask, Place, Top
<1>5. (UcMask' <=> masked) /\ (EnteredMask' <=> masked)
  BY <1>4
<1>6. Depth \in Nat /\ Depth' = Depth + 1
  BY <1>1, <1>3 DEF Depth
<1>7. masked' = (masked \/ Blocks) /\ pending' = FALSE
  BY DEF Deliver
<1>8. masked' \in BOOLEAN /\ (masked' <=> (masked \/ Blocks))
  BY <1>7, Zenon
<1> QED
  BY <1>3, <1>4, <1>5, <1>6, <1>7, <1>8

\* A handler that goes to another place stays the innermost one.
LEMMA GoToMoves ==
  ASSUME Types, NEW p \in Places, frames # <<>>, GoTo(p)
  PROVE  /\ frames' \in Seq(Frame) /\ Depth \in Nat /\ Depth > 0 /\ Depth' = Depth
         /\ Place' = p /\ (UcMask' <=> UcMask) /\ (EnteredMask' <=> EnteredMask)
<1>1. frames \in Seq(Frame) /\ Top \in Frame /\ Depth \in Nat /\ Depth > 0
  BY TopFrame DEF Types
<1> DEFINE g == [Top EXCEPT !.at = p]
<1>2. g \in Frame /\ g.at = p /\ g.uc_sigmask = Top.uc_sigmask /\ g.entered = Top.entered
  BY <1>1, Moved DEF Frame
<1>3. frames' = [frames EXCEPT ![Len(frames)] = g]
  BY DEF GoTo, SetTop
<1> HIDE DEF g
<1>4. frames' \in Seq(Frame) /\ Len(frames') = Len(frames) /\ frames'[Len(frames')] = g
  BY <1>1, <1>2, <1>3, Replaced
<1>5. Top' = g /\ Depth' = Depth
  BY <1>4 DEF Top, Depth
<1>6. Place' = p /\ UcMask' = UcMask /\ EnteredMask' = EnteredMask
  BY <1>2, <1>5 DEF Place, UcMask, EnteredMask
<1> QED
  BY <1>1, <1>4, <1>5, <1>6

\* After the nested raise the handler is about to return, and its mask filled.
LEMMA AfterRaiseMoves ==
  ASSUME Types, AfterRaise
  PROVE  /\ frames' \in Seq(Frame) /\ Depth \in Nat /\ Depth > 0 /\ Depth' = Depth
         /\ Place = "raised" /\ Place' = "return"
         /\ UcMask' <=> (UcMask \/ program = "sigmask")
         /\ EnteredMask' <=> EnteredMask
         /\ count' = IF program = "sigmask" THEN count ELSE count + 1
<1>1. /\ frames \in Seq(Frame) /\ Top \in Frame /\ Depth \in Nat /\ Depth > 0
      /\ frames # <<>> /\ UcMask \in BOOLEAN
  BY TopFrame DEF Types, AfterRaise, InHandler
<1> DEFINE b == UcMask \/ program = "sigmask"
           g == [at |-> "return", uc_sigmask |-> b, entered |-> Top.entered]
<1>2. b \in BOOLEAN
  OBVIOUS
<1>3. g \in Frame /\ g.at = "return" /\ g.uc_sigmask = b /\ g.entered = Top.entered
  <2> HIDE DEF b
  <2> QED
    BY <1>1, <1>2, FilledFrame
<1>4. frames' = [frames EXCEPT ![Len(frames)] = g]
  BY DEF AfterRaise, SetTop, UcMask
<1> HIDE DEF g
<1>5. frames' \in Seq(Frame) /\ Len(frames') = Len(frames) /\ frames'[Len(frames')] = g
  BY <1>1, <1>3, <1>4, Replaced
<1>6. Top' = g /\ Depth' = Depth
  BY <1>5 DEF Top, Depth
<1>7. Place' = "return" /\ UcMask' = b /\ EnteredMask' = EnteredMask
  BY <1>3, <1>6 DEF Place, UcMask, EnteredMask
<1>8. Place = "raised" /\ count' = IF program = "sigmask" THEN count ELSE count + 1
  BY DEF AfterRaise, InHandler, Place
<1> QED
  BY <1>1, <1>5, <1>6, <1>7, <1>8

\* A return ends the innermost handler and restores the mask the fault leaves it.
LEMMA ReturnMoves ==
  ASSUME Types, Return
  PROVE  /\ frames' \in Seq(Frame) /\ Depth \in Nat /\ Depth > 0 /\ Depth' = Depth - 1
         /\ Place = "return" /\ masked' \in BOOLEAN
         /\ masked' <=> \/ fault = "not_restored" /\ masked
                        \/ fault = "context_ignored" /\ EnteredMask
                        \/ fault \notin {"not_restored", "context_ignored"} /\ UcMask
<1>1. /\ frames \in Seq(Frame) /\ Depth \in Nat /\ Depth > 0 /\ masked \in BOOLEAN
      /\ frames # <<>> /\ UcMask \in BOOLEAN /\ EnteredMask \in BOOLEAN
  BY TopFrame DEF Types, Return, InHandler
<1>2. frames' = Front(frames) /\ Place = "return"
  BY DEF Return, InHandler, Place
<1>3. frames' \in Seq(Frame) /\ Len(frames') = Len(frames) - 1
  BY <1>1, <1>2, Popped
<1>4. masked' = CASE fault = "not_restored" -> masked
                  [] fault = "context_ignored" -> EnteredMask
                  [] OTHER -> UcMask
  BY DEF Return, UcMask, EnteredMask
<1>5. CASE fault = "not_restored"
  BY <1>1, <1>2, <1>3, <1>4, <1>5 DEF Depth
<1>6. CASE fault = "context_ignored"
  BY <1>1, <1>2, <1>3, <1>4, <1>6 DEF Depth
<1>7. CASE fault \notin {"not_restored", "context_ignored"}
  BY <1>1, <1>2, <1>3, <1>4, <1>7 DEF Depth
<1> QED
  BY <1>5, <1>6, <1>7
-----------------------------------------------------------------------------
\* Every handler keeps the types: it goes to a place or ends the process.
LEMMA HandlerTypes ==
  ASSUME Types, Handler
  PROVE  Types'
<1>1. frames # <<>>
  BY DEF Handler, InHandler
<1>2. /\ UNCHANGED <<test, outside>> /\ masked' = masked
      /\ count' = count /\ count2' \in Nat /\ status' \in Statuses
  <2>1. CASE NoDeferHandler
    BY <2>1 DEF Handler, Types, NoDeferHandler, Raise, ExitWith, globals, machine, Statuses
  <2>2. CASE SamaskHandler
    BY <2>2 DEF Handler, Types, SamaskHandler, Raise, Leave, ExitWith, globals, machine, Statuses
  <2>3. CASE SigmaskHandler
    BY <2>3 DEF Handler, Types, SigmaskHandler, Raise, ExitWith, globals, machine, Statuses
  <2>4. CASE OtherHandlers
    BY <2>4 DEF Handler, Types, OtherHandlers, Leave, ExitWith, globals, machine, Statuses
  <2> QED
    BY <2>1, <2>2, <2>3, <2>4 DEF Handler
<1>3. frames' = frames \/ GoTo("raised") \/ GoTo("return")
  BY DEF Handler, NoDeferHandler, SamaskHandler, SigmaskHandler, OtherHandlers,
         Raise, Leave, ExitWith, machine
<1>4. frames' \in Seq(Frame)
  BY <1>1, <1>3, GoToMoves DEF Types, Places
<1> QED
  BY <1>2, <1>4 DEF Types, test

\* Every step keeps the types.
LEMMA TypesKept ==
  ASSUME Types, [Next]_vars
  PROVE  Types'
<1> USE DEF test, globals, machine
<1>1. CASE Deliver
  <2>1. frames' \in Seq(Frame) /\ masked' \in BOOLEAN
    BY <1>1, DeliverMoves
  <2> QED
    BY <1>1, <2>1 DEF Types, Deliver
<1>2. CASE Handler
  BY <1>2, HandlerTypes
<1>3. CASE AfterRaise
  <2>1. frames' \in Seq(Frame) /\ count' \in Nat
    BY <1>3, AfterRaiseMoves DEF Types
  <2> QED
    BY <1>3, <2>1 DEF Types, AfterRaise
<1>4. CASE Return
  <2>1. frames' \in Seq(Frame) /\ masked' \in BOOLEAN
    BY <1>4, ReturnMoves
  <2> QED
    BY <1>4, <2>1 DEF Types, Return
<1>5. CASE Loop \/ LastLoop
  BY <1>5 DEF Types, Loop, LastLoop, MainRaise
<1>6. CASE LoopEnds
  BY <1>6 DEF Types, LoopEnds, ExitWith, Statuses
<1>7. CASE Sigprocmask
  <2>1. masked' \in BOOLEAN
    BY <1>7 DEF Sigprocmask
  <2> QED
    BY <1>7, <2>1 DEF Types, Sigprocmask
<1>8. CASE Check
  BY <1>8 DEF Types, Check, ExitWith, Statuses
<1>9. CASE Sleep \/ SleepEnds \/ Read \/ ReadsNothing
  BY <1>9 DEF Types, Sleep, SleepEnds, Read, ReadsNothing, MainStep
<1>10. CASE ReadsInput \/ TestSignaled \/ Stored \/ Exit
  BY <1>10 DEF Types, ReadsInput, TestSignaled, Stored, Exit, MainStep, Statuses
<1>11. CASE Store
  BY <1>11 DEF Types, Store, Causes, MainStep, Statuses
<1>12. CASE Sigfillset
  BY <1>12 DEF Types, Sigfillset, MainStep
<1>13. CASE Act
  BY <1>13 DEF Types, Act, Causes, MainStep, Statuses
<1>14. CASE Outside
  BY <1>14 DEF Types, Outside
<1>15. CASE UNCHANGED vars
  BY <1>15 DEF Types, vars
<1> QED
  BY <1>1, <1>2, <1>3, <1>4, <1>5, <1>6, <1>7, <1>8, <1>9, <1>10, <1>11, <1>12, <1>13, <1>14, <1>15
     DEF Next, Code, Input
-----------------------------------------------------------------------------
\* What the guards say of the number of handlers and of the innermost one, and
\* which steps are left to a program whose main() is in its first loop.
LEMMA Empty ==
  ASSUME Types
  PROVE  Depth \in Nat /\ (frames = <<>> <=> Depth = 0)
BY DEF Types, Depth

\* A handler runs only when no signal can be delivered, and it is the innermost.
LEMMA InHandlerAt ==
  ASSUME Types, NEW p, InHandler(p)
  PROVE  status = "running" /\ ~Deliverable /\ Depth \in Nat /\ Depth > 0 /\ Place = p
BY Empty DEF InHandler, Runs, Place

\* main() runs only when no handler is at work.
LEMMA AtMainAt ==
  ASSUME Types, NEW label, AtMain(label)
  PROVE  status = "running" /\ ~Deliverable /\ Depth = 0 /\ pc = label
BY Empty DEF AtMain, Runs

\* A step that leaves the stack alone leaves its top alone.
LEMMA SameFrames ==
  ASSUME frames' = frames
  PROVE  /\ Depth' = Depth /\ Place' = Place
         /\ (UcMask' <=> UcMask) /\ (EnteredMask' <=> EnteredMask)
<1>1. Depth' = Depth /\ Place' = Place /\ UcMask' = UcMask /\ EnteredMask' = EnteredMask
  BY DEF Depth, Place, UcMask, EnteredMask, Top
<1> QED
  BY <1>1

\* What is run, and on which system, never changes.
LEMMA SameTest ==
  ASSUME [Next]_vars
  PROVE  program' = program /\ option' = option /\ fault' = fault
BY DEF Next, Code, Input, Deliver, Handler, AfterRaise, Return, Loop, LastLoop, MainRaise,
       LoopEnds, Sigprocmask, Check, MainStep, Sleep, SleepEnds, Read, ReadsInput, ReadsNothing,
       TestSignaled, Store, Stored, Sigfillset, Act, Exit, Outside, vars, test

\* A program whose main() is in its first loop is left with few steps.
LEMMA InLoop ==
  ASSUME Types, [Next]_vars, pc = "loop", program # "sigtest"
  PROVE  \/ Deliver \/ Handler \/ AfterRaise \/ Return
         \/ Loop \/ LoopEnds \/ Outside \/ UNCHANGED vars
BY DEF Next, Code, Input, LastLoop, MainRaise, Sigprocmask, Check, AtMain, MainStep, Sleep,
       SleepEnds, Read, ReadsInput, ReadsNothing, TestSignaled, Store, Stored, Sigfillset, Act, Exit

\* A handler at its entry moves on, keeping the masks, or ends the process.
LEMMA HandlerMoves ==
  ASSUME Types, Handler
  PROVE  /\ status = "running" /\ ~Deliverable /\ Depth \in Nat /\ Depth > 0 /\ Place = "enter"
         /\ Depth' = Depth /\ (UcMask' <=> UcMask) /\ (EnteredMask' <=> EnteredMask)
         /\ masked' = masked /\ pc' = pc /\ outside' = outside
         /\ GoTo("raised") => Place' = "raised"
         /\ GoTo("return") => Place' = "return"
         /\ frames' = frames => Place' = "enter"
<1>1. status = "running" /\ ~Deliverable /\ Depth \in Nat /\ Depth > 0 /\ Place = "enter" /\ frames # <<>>
  BY InHandlerAt, Empty DEF Handler
<1>2. frames' = frames \/ GoTo("raised") \/ GoTo("return")
  BY DEF Handler, NoDeferHandler, SamaskHandler, SigmaskHandler, OtherHandlers,
         Raise, Leave, ExitWith, machine
<1>3. masked' = masked /\ pc' = pc /\ outside' = outside
  BY DEF Handler, NoDeferHandler, SamaskHandler, SigmaskHandler, OtherHandlers,
         Raise, Leave, ExitWith, machine
<1>4. "raised" \in Places /\ "return" \in Places
  BY DEF Places
<1>5. ASSUME GoTo("raised")
      PROVE  Depth' = Depth /\ (UcMask' <=> UcMask) /\ (EnteredMask' <=> EnteredMask) /\ Place' = "raised"
  BY <1>1, <1>4, <1>5, GoToMoves
<1>6. ASSUME GoTo("return")
      PROVE  Depth' = Depth /\ (UcMask' <=> UcMask) /\ (EnteredMask' <=> EnteredMask) /\ Place' = "return"
  BY <1>1, <1>4, <1>6, GoToMoves
<1>7. ASSUME frames' = frames
      PROVE  Depth' = Depth /\ (UcMask' <=> UcMask) /\ (EnteredMask' <=> EnteredMask) /\ Place' = "enter"
  BY <1>1, <1>7, SameFrames
<1> QED
  BY <1>1, <1>2, <1>3, <1>5, <1>6, <1>7
-----------------------------------------------------------------------------
\* With SA_NODEFER the raises nest: each signal raised is one handler more, each
\* signal from outside at most one.
LEMMA NoDeferKept ==
  ASSUME IInv, [Next]_vars, program = "no_defer", fault # "deferred"
  PROVE  NoDefer'
<1> USE DEF NoDefer
<1>1. NoDefer
  BY DEF IInv
<1>2. Types /\ Depth \in Nat /\ count2 \in Nat /\ outside \in Nat /\ NUMCOUNT \in Nat /\ NUMCOUNT # 0
  BY Empty, CountAssumption DEF IInv, Types
<1>3. CASE Deliver
  <2>1. /\ Depth' = Depth + 1 /\ Place' = "enter" /\ (masked' <=> (masked \/ Blocks)) /\ ~pending'
    BY <1>2, <1>3, DeliverMoves
  <2>2. ~Blocks /\ pc' = "loop" /\ pending /\ status = "running" /\ status' = status
        /\ count' = count /\ count2' = count2 /\ outside' = outside
    BY <1>1, <1>3 DEF Deliver, Deliverable, Blocks, Interrupted, globals
  <2> QED
    BY <1>1, <1>2, <2>1, <2>2
<1>4. CASE Handler
  <2>1. /\ status = "running" /\ Depth > 0 /\ Place = "enter" /\ Depth' = Depth /\ ~Deliverable
        /\ masked' = masked /\ pc' = pc /\ outside' = outside
        /\ GoTo("raised") => Place' = "raised"
        /\ frames' = frames => Place' = "enter"
    BY <1>2, <1>4, HandlerMoves
  <2>2. ~pending
    BY <1>1, <2>1 DEF Deliverable
  <2>3. \/ frames' = frames /\ pending' = pending /\ count2' = count2 /\ count' = 0
           /\ count2 >= NUMCOUNT /\ status' = "0"
        \/ GoTo("raised") /\ pending' /\ count2' = count2 + 1 /\ count' = 0
           /\ count2 < NUMCOUNT /\ status' = "running"
    BY <1>1, <1>4, <2>1 DEF Handler, NoDeferHandler, OtherHandlers, Raise, ExitWith, globals, machine
  <2> QED
    BY <1>1, <1>2, <2>1, <2>2, <2>3
<1>5. CASE AfterRaise \/ Return
  <2>1. Depth > 0 /\ ~Deliverable /\ Place \in {"raised", "return"}
    BY <1>2, <1>5, InHandlerAt DEF AfterRaise, Return
  <2> QED
    BY <1>1, <2>1 DEF Deliverable
<1>6. CASE Loop
  <2>1. Depth = 0 /\ status = "running" /\ frames' = frames
    BY <1>2, <1>6, AtMainAt DEF Loop, MainRaise
  <2>2. Depth' = 0 /\ pending' /\ pc' = "loop" /\ UNCHANGED <<loop, count, count2, masked, outside, status>>
    BY <1>6, <2>1, SameFrames DEF Loop, MainRaise, globals
  <2> QED
    BY <1>1, <1>2, <2>1, <2>2
<1>7. CASE LoopEnds
  BY <1>1, <1>2, <1>7, AtMainAt DEF LoopEnds
<1>8. CASE Outside
  <2>1. /\ Depth' = Depth /\ Place' = Place /\ pending' /\ outside' = outside + 1
        /\ UNCHANGED <<loop, count, count2, masked, pc, status>>
    BY <1>8, SameFrames DEF Outside, globals
  <2> QED
    BY <1>1, <1>2, <2>1
<1>9. CASE UNCHANGED vars
  <2>1. /\ Depth' = Depth /\ Place' = Place
        /\ UNCHANGED <<loop, count, count2, masked, pending, outside, pc, status>>
    BY <1>9, SameFrames DEF vars, globals, machine
  <2> QED
    BY <1>1, <1>2, <2>1
<1> QED
  BY <1>1, <1>2, <1>3, <1>4, <1>5, <1>6, <1>7, <1>8, <1>9, InLoop

\* Where SA_NODEFER is ignored the first handler returns before the second entry,
\* which finds the raise counted.
LEMMA DeferredKept ==
  ASSUME IInv, [Next]_vars, program = "no_defer", fault = "deferred"
  PROVE  Deferred'
<1> USE DEF Deferred
<1>1. Deferred
  BY DEF IInv
<1>2. Types /\ Depth \in Nat /\ count \in Nat /\ count2 \in Nat /\ NUMCOUNT \in Nat /\ NUMCOUNT # 0
  BY Empty, CountAssumption DEF IInv, Types
<1>3. CASE Deliver
  <2>1. /\ Depth' = Depth + 1 /\ Place' = "enter" /\ (UcMask' <=> masked)
        /\ (masked' <=> (masked \/ Blocks))
    BY <1>2, <1>3, DeliverMoves
  <2>2. Blocks /\ ~masked /\ pc' = "loop" /\ status' = "running" /\ count' = count /\ count2' = count2
    BY <1>1, <1>3 DEF Deliver, Deliverable, Blocks, Interrupted, globals
  <2> QED
    BY <1>1, <1>2, <2>1, <2>2 DEF Places
<1>4. CASE Handler
  <2>1. /\ Depth > 0 /\ Place = "enter" /\ Depth' = Depth /\ (UcMask' <=> UcMask)
        /\ masked' = masked /\ pc' = pc
        /\ GoTo("raised") => Place' = "raised"
        /\ frames' = frames => Place' = "enter"
    BY <1>2, <1>4, HandlerMoves
  <2>2. count2 > 0 => count > 0
    BY <1>1, <1>2, <2>1
  <2>3. \/ frames' = frames /\ count' = count /\ count2' = count2 /\ status' = "-1"
        \/ GoTo("raised") /\ status' = "running"
    BY <1>2, <1>4, <2>2 DEF Handler, NoDeferHandler, OtherHandlers, InHandler, Runs,
                            Raise, ExitWith, globals, machine
  <2> QED
    BY <1>1, <1>2, <2>1, <2>2, <2>3 DEF Places
<1>5. CASE AfterRaise
  <2>1. /\ Depth' = Depth /\ Place' = "return" /\ (UcMask' <=> UcMask) /\ count' = count + 1
        /\ UNCHANGED <<masked, pc, status>>
    BY <1>2, <1>5, AfterRaiseMoves DEF AfterRaise
  <2> QED
    BY <1>1, <1>2, <2>1 DEF Places
<1>6. CASE Return
  <2>1. /\ Depth > 0 /\ Depth' = Depth - 1 /\ Place = "return" /\ (masked' <=> UcMask)
    BY <1>2, <1>6, ReturnMoves
  <2>2. count' = count /\ count2' = count2 /\ status' = status /\ pc' = pc
    BY <1>6 DEF Return, RaxChanged, globals
  <2> QED
    BY <1>1, <1>2, <2>1, <2>2
<1>7. CASE Loop
  <2>1. frames' = frames /\ UNCHANGED <<count, count2, masked, status>> /\ pc' = "loop"
    BY <1>7 DEF Loop, MainRaise, globals
  <2> QED
    BY <1>1, <2>1, SameFrames
<1>8. CASE LoopEnds
  <2>1. frames' = frames /\ UNCHANGED <<count, count2, masked>> /\ pc' = pc /\ status' = "-2"
    BY <1>8 DEF LoopEnds, ExitWith, globals, machine
  <2> QED
    BY <1>1, <2>1, SameFrames
<1>9. CASE Outside
  <2>1. frames' = frames /\ UNCHANGED <<count, count2, masked, pc, status>>
    BY <1>9 DEF Outside, globals
  <2> QED
    BY <1>1, <2>1, SameFrames
<1>10. CASE UNCHANGED vars
  <2>1. frames' = frames /\ UNCHANGED <<count, count2, masked, pc, status>>
    BY <1>10 DEF vars, globals, machine
  <2> QED
    BY <1>1, <2>1, SameFrames
<1> QED
  BY <1>1, <1>2, <1>3, <1>4, <1>5, <1>6, <1>7, <1>8, <1>9, <1>10, InLoop

\* Where the handler's own signal gets through, the second entry comes first.
LEMMA UnblockedKept ==
  ASSUME IInv, [Next]_vars,
         program \in {"samask", "sigmask"}, fault \in {"not_blocked", "mask_ignored"}
  PROVE  Unblocked'
<1> USE DEF Unblocked
<1>1. Unblocked
  BY DEF IInv
<1>2. Types /\ Depth \in Nat /\ count2 \in Nat /\ NUMCOUNT \in Nat /\ NUMCOUNT # 0
  BY Empty, CountAssumption DEF IInv, Types
<1>3. program' = program /\ fault' = fault
  BY SameTest
<1>4. pending => Deliverable
  BY <1>1 DEF Deliverable
<1>5. CASE Deliver
  <2>1. /\ Depth' = Depth + 1 /\ Place' = "enter" /\ (masked' <=> (masked \/ Blocks))
    BY <1>2, <1>5, DeliverMoves
  <2>2. (fault = "not_blocked" => ~Blocks) /\ pc' = "loop"
    BY <1>1, <1>5 DEF Deliver, Blocks, Interrupted
  <2>3. UNCHANGED <<last, inhandler, count, count2, status>>
    BY <1>5 DEF Deliver, globals
  <2> QED
    BY <1>1, <1>2, <1>3, <2>1, <2>2, <2>3
<1>6. CASE Handler
  <2>1. /\ Depth > 0 /\ Place = "enter" /\ Depth' = Depth /\ ~pending
        /\ masked' = masked /\ pc' = pc
        /\ GoTo("raised") => Place' = "raised"
        /\ frames' = frames => Place' = "enter"
    BY <1>2, <1>4, <1>6, HandlerMoves
  <2>2. CASE program = "samask"
    <3>1. last' = last /\ count' = count
      BY <1>6, <2>2 DEF Handler, SamaskHandler, OtherHandlers, ExitWith, globals
    <3>2. \/ frames' = frames /\ count2' = count2 /\ status' = "-1"
          \/ GoTo("raised") /\ pending' /\ count2 = 0 /\ count2' = 1 /\ status' = "running"
      BY <1>1, <1>2, <1>6, <2>2 DEF Handler, SamaskHandler, OtherHandlers, InHandler, Runs,
                                    Raise, ExitWith, globals, machine
    <3> QED
      BY <1>1, <1>2, <1>3, <2>1, <2>2, <3>1, <3>2
  <2>3. CASE program = "sigmask"
    <3>1. last' = last /\ count' = count /\ count2' = count2
      BY <1>6, <2>3 DEF Handler, SigmaskHandler, OtherHandlers, ExitWith, globals
    <3>2. \/ frames' = frames /\ status' = "-1"
          \/ GoTo("raised") /\ pending' /\ inhandler' /\ status' = "running"
      BY <1>6, <2>3 DEF Handler, SigmaskHandler, OtherHandlers, InHandler, Runs,
                        Raise, ExitWith, globals, machine
    <3> QED
      BY <1>1, <1>2, <1>3, <2>1, <2>3, <3>1, <3>2
  <2> QED
    BY <2>2, <2>3
<1>7. CASE AfterRaise \/ Return
  <2>1. Depth > 0 /\ ~Deliverable /\ Place \in {"raised", "return"}
    BY <1>2, <1>7, InHandlerAt DEF AfterRaise, Return
  <2> QED
    BY <1>1, <1>4, <2>1
<1>8. CASE Loop
  <2>1. /\ frames' = frames /\ pending' /\ pc' = "loop"
        /\ UNCHANGED <<loop, last, inhandler, count, count2, masked, status>>
    BY <1>8 DEF Loop, MainRaise, globals
  <2> QED
    BY <1>1, <1>3, <2>1, SameFrames
<1>9. CASE LoopEnds
  <2>1. Depth = 0 /\ ~loop
    BY <1>2, <1>9, AtMainAt DEF LoopEnds
  <2> QED
    BY <1>1, <2>1
<1>10. CASE Outside
  <2>1. /\ frames' = frames /\ pending'
        /\ UNCHANGED <<loop, last, inhandler, count, count2, masked, pc, status>>
    BY <1>10 DEF Outside, globals
  <2> QED
    BY <1>1, <1>3, <2>1, SameFrames
<1>11. CASE UNCHANGED vars
  <2>1. /\ frames' = frames
        /\ UNCHANGED <<loop, last, inhandler, count, count2, masked, pending, pc, status>>
    BY <1>11 DEF vars, globals, machine
  <2> QED
    BY <1>1, <1>3, <2>1, SameFrames
<1> QED
  BY <1>1, <1>2, <1>5, <1>6, <1>7, <1>8, <1>9, <1>10, <1>11, InLoop

\* The mask the handler filled in is that of main(): nothing is delivered again.
LEMMA SigmaskKept ==
  ASSUME IInv, [Next]_vars, program = "sigmask",
         fault \notin {"not_blocked", "mask_ignored", "context_ignored"}
  PROVE  Sigmask'
<1> USE DEF Sigmask
<1>1. Sigmask
  BY DEF IInv
<1>2. Types /\ Depth \in Nat
  BY Empty DEF IInv
<1>3. CASE Deliver
  <2>1. /\ Depth' = Depth + 1 /\ Place' = "enter" /\ (masked' <=> (masked \/ Blocks))
    BY <1>2, <1>3, DeliverMoves
  <2>2. Blocks /\ ~masked /\ pc' = "loop" /\ status' = "running" /\ UNCHANGED <<loop, inhandler>>
    BY <1>1, <1>3 DEF Deliver, Deliverable, Blocks, Interrupted, globals
  <2>3. Depth = 0 /\ ~inhandler
    BY <1>1, <1>2, <2>2
  <2> QED
    BY <1>1, <2>1, <2>2, <2>3
<1>4. CASE Handler
  <2>1. /\ Depth > 0 /\ Place = "enter" /\ Depth' = Depth /\ (UcMask' <=> UcMask)
        /\ masked' = masked /\ pc' = pc
        /\ GoTo("raised") => Place' = "raised"
    BY <1>2, <1>4, HandlerMoves
  <2>2. ~inhandler
    BY <1>1, <1>2, <2>1
  <2>3. GoTo("raised") /\ inhandler' /\ ~loop' /\ status' = "running"
    BY <1>4, <2>2 DEF Handler, SigmaskHandler, OtherHandlers, InHandler, Runs, Raise
  <2> QED
    BY <1>1, <1>2, <2>1, <2>3
<1>5. CASE AfterRaise
  <2>1. /\ Depth > 0 /\ Depth' = Depth /\ Place = "raised" /\ Place' = "return" /\ UcMask'
        /\ UNCHANGED <<loop, inhandler, masked, pc, status>>
    BY <1>2, <1>5, AfterRaiseMoves DEF AfterRaise
  <2> QED
    BY <1>1, <1>2, <2>1
<1>6. CASE Return
  <2>1. /\ Depth > 0 /\ Depth' = Depth - 1 /\ Place = "return"
        /\ masked' <=> \/ fault = "not_restored" /\ masked
                       \/ fault # "not_restored" /\ UcMask
    BY <1>2, <1>6, ReturnMoves
  <2>2. UNCHANGED <<loop, inhandler, pc, status>>
    BY <1>6 DEF Return, RaxChanged, globals
  <2> QED
    BY <1>1, <1>2, <2>1, <2>2
<1>7. CASE Loop
  <2>1. frames' = frames /\ UNCHANGED <<loop, inhandler, masked, status>> /\ pc' = "loop"
    BY <1>7 DEF Loop, MainRaise, globals
  <2> QED
    BY <1>1, <2>1, SameFrames
<1>8. CASE LoopEnds
  <2>1. frames' = frames /\ UNCHANGED <<loop, inhandler, masked>> /\ pc' = pc /\ status' = "0"
    BY <1>8 DEF LoopEnds, ExitWith, globals, machine
  <2>2. Depth = 0 /\ ~loop
    BY <1>2, <1>8, AtMainAt DEF LoopEnds
  <2> QED
    BY <1>1, <2>1, <2>2, SameFrames
<1>9. CASE Outside
  <2>1. frames' = frames /\ UNCHANGED <<loop, inhandler, masked, pc, status>>
    BY <1>9 DEF Outside, globals
  <2> QED
    BY <1>1, <2>1, SameFrames
<1>10. CASE UNCHANGED vars
  <2>1. frames' = frames /\ UNCHANGED <<loop, inhandler, masked, pc, status>>
    BY <1>10 DEF vars, globals, machine
  <2> QED
    BY <1>1, <2>1, SameFrames
<1> QED
  BY <1>1, <1>2, <1>3, <1>4, <1>5, <1>6, <1>7, <1>8, <1>9, <1>10, InLoop

\* Where it is ignored the pending signal is delivered after the return.
LEMMA IgnoredKept ==
  ASSUME IInv, [Next]_vars, program = "sigmask", fault = "context_ignored"
  PROVE  Ignored'
<1> USE DEF Ignored
<1>1. Ignored
  BY DEF IInv
<1>2. Types /\ Depth \in Nat
  BY Empty DEF IInv
<1>3. CASE Deliver
  <2>1. /\ Depth' = Depth + 1 /\ Place' = "enter" /\ (EnteredMask' <=> masked)
        /\ (masked' <=> (masked \/ Blocks))
    BY <1>2, <1>3, DeliverMoves
  <2>2. Blocks /\ ~masked /\ pc' = "loop" /\ UNCHANGED <<loop, inhandler, status>>
    BY <1>1, <1>3 DEF Deliver, Deliverable, Blocks, Interrupted, globals
  <2> QED
    BY <1>1, <1>2, <2>1, <2>2
<1>4. CASE Handler
  <2>1. /\ Depth > 0 /\ Place = "enter" /\ Depth' = Depth /\ (EnteredMask' <=> EnteredMask)
        /\ masked' = masked /\ pc' = pc
        /\ GoTo("raised") => Place' = "raised"
        /\ frames' = frames => Place' = "enter"
    BY <1>2, <1>4, HandlerMoves
  <2>2. \/ frames' = frames /\ UNCHANGED <<loop, inhandler, pending>> /\ status' = "-1"
        \/ GoTo("raised") /\ pending' /\ inhandler' /\ ~loop' /\ status' = "running"
    BY <1>4 DEF Handler, SigmaskHandler, OtherHandlers, InHandler, Runs,
                Raise, ExitWith, globals, machine
  <2> QED
    BY <1>1, <1>2, <2>1, <2>2
<1>5. CASE AfterRaise
  <2>1. /\ Depth > 0 /\ Depth' = Depth /\ Place = "raised" /\ Place' = "return"
        /\ EnteredMask' <=> EnteredMask
        /\ UNCHANGED <<loop, inhandler, masked, pending, pc, status>>
    BY <1>2, <1>5, AfterRaiseMoves DEF AfterRaise
  <2> QED
    BY <1>1, <1>2, <2>1
<1>6. CASE Return
  <2>1. Depth > 0 /\ Depth' = Depth - 1 /\ Place = "return" /\ (masked' <=> EnteredMask)
    BY <1>2, <1>6, ReturnMoves
  <2>2. UNCHANGED <<loop, inhandler, pending, pc, status>>
    BY <1>6 DEF Return, RaxChanged, globals
  <2> QED
    BY <1>1, <1>2, <2>1, <2>2
<1>7. CASE Loop
  <2>1. /\ frames' = frames /\ pending' /\ pc' = "loop"
        /\ UNCHANGED <<loop, inhandler, masked, status>>
    BY <1>7 DEF Loop, MainRaise, globals
  <2> QED
    BY <1>1, <2>1, SameFrames
<1>8. CASE LoopEnds
  <2>1. Depth = 0 /\ ~loop /\ ~Deliverable
    BY <1>2, <1>8, AtMainAt DEF LoopEnds
  <2> QED
    BY <1>1, <2>1 DEF Deliverable
<1>9. CASE Outside
  <2>1. frames' = frames /\ pending' /\ UNCHANGED <<loop, inhandler, masked, pc, status>>
    BY <1>9 DEF Outside, globals
  <2> QED
    BY <1>1, <2>1, SameFrames
<1>10. CASE UNCHANGED vars
  <2>1. frames' = frames /\ UNCHANGED <<loop, inhandler, masked, pending, pc, status>>
    BY <1>10 DEF vars, globals, machine
  <2> QED
    BY <1>1, <2>1, SameFrames
<1> QED
  BY <1>1, <1>2, <1>3, <1>4, <1>5, <1>6, <1>7, <1>8, <1>9, <1>10, InLoop

\* The steps of sigtest_samask.cpp, whose main() has four labels.
LEMMA InSamask ==
  ASSUME Types, [Next]_vars, program = "samask", pc \in {"loop", "sigprocmask", "last_loop", "check"}
  PROVE  \/ Deliver \/ Handler \/ AfterRaise \/ Return
         \/ Loop \/ LoopEnds \/ Sigprocmask \/ LastLoop \/ Check \/ Outside \/ UNCHANGED vars
BY DEF Next, Code, Input, AtMain, MainStep, Sleep,
       SleepEnds, Read, ReadsInput, ReadsNothing, TestSignaled, Store, Stored, Sigfillset, Act, Exit

\* Where the first return leaves the signal blocked, the last loop's raise is not
\* delivered and loop stays TRUE.
LEMMA UnrestoredKept ==
  ASSUME IInv, [Next]_vars, program = "samask", fault = "not_restored"
  PROVE  Unrestored'
<1> USE DEF Unrestored
<1>1. Unrestored
  BY DEF IInv
<1>2. Types /\ Depth \in Nat /\ count2 \in Nat /\ NUMCOUNT \in Nat /\ NUMCOUNT # 0
  BY Empty, CountAssumption DEF IInv, Types
<1>3. CASE Deliver
  <2>1. /\ Depth' = Depth + 1 /\ Place' = "enter" /\ (masked' <=> (masked \/ Blocks))
    BY <1>2, <1>3, DeliverMoves
  <2>2. Blocks /\ ~masked /\ pc' = pc /\ UNCHANGED <<loop, last, count, count2, status>>
    BY <1>1, <1>3 DEF Deliver, Deliverable, Blocks, Interrupted, globals
  <2>3. Depth = 0 /\ pc = "loop" /\ ~last /\ count = 0 /\ count2 = 0
    BY <1>1, <1>2, <2>2
  <2> QED
    BY <1>1, <2>1, <2>2, <2>3
<1>4. CASE Handler
  <2>1. /\ Depth > 0 /\ Place = "enter" /\ Depth' = Depth
        /\ masked' = masked /\ pc' = pc
        /\ GoTo("raised") => Place' = "raised"
    BY <1>2, <1>4, HandlerMoves
  <2>2. ~last /\ count = 0 /\ count2 = 0 /\ Depth = 1
    BY <1>1, <1>2, <2>1
  <2>3. GoTo("raised") /\ ~loop' /\ last' = last /\ status' = "running"
    BY <1>2, <1>4, <2>2 DEF Handler, SamaskHandler, OtherHandlers, InHandler, Runs, Raise
  <2> QED
    BY <1>1, <2>1, <2>2, <2>3
<1>5. CASE AfterRaise
  <2>1. /\ Depth > 0 /\ Depth' = Depth /\ Place = "raised" /\ Place' = "return"
        /\ UNCHANGED <<loop, last, masked, pc, status>>
    BY <1>2, <1>5, AfterRaiseMoves DEF AfterRaise
  <2> QED
    BY <1>1, <1>2, <2>1
<1>6. CASE Return
  <2>1. Depth > 0 /\ Depth' = Depth - 1 /\ Place = "return" /\ (masked' <=> masked)
    BY <1>2, <1>6, ReturnMoves
  <2>2. UNCHANGED <<loop, last, pc, status>>
    BY <1>6 DEF Return, RaxChanged, globals
  <2> QED
    BY <1>1, <1>2, <2>1, <2>2
<1>7. CASE Loop
  <2>1. frames' = frames /\ pc' = "loop" /\ UNCHANGED <<loop, last, count, count2, masked, status>>
    BY <1>7 DEF Loop, MainRaise, globals
  <2>2. pc = "loop"
    BY <1>7 DEF Loop, MainRaise, AtMain
  <2> QED
    BY <1>1, <2>1, <2>2, SameFrames
<1>8. CASE LoopEnds
  <2>1. /\ frames' = frames /\ pc' = "sigprocmask" /\ loop' /\ UNCHANGED <<masked, status>>
    BY <1>8 DEF LoopEnds, machine
  <2>2. Depth = 0 /\ ~loop
    BY <1>2, <1>8, AtMainAt DEF LoopEnds
  <2> QED
    BY <1>1, <2>1, <2>2, SameFrames
<1>9. CASE Sigprocmask
  <2>1. /\ frames' = frames /\ pc' = "last_loop" /\ UNCHANGED <<loop, status>>
        /\ masked => masked'
    BY <1>9, Zenon DEF Sigprocmask, globals
  <2>2. Depth = 0 /\ pc = "sigprocmask"
    BY <1>2, <1>9, AtMainAt DEF Sigprocmask
  <2> QED
    BY <1>1, <2>1, <2>2, SameFrames
<1>10. CASE LastLoop
  <2>1. /\ frames' = frames /\ pc' = "check" /\ UNCHANGED <<loop, masked, status>>
    BY <1>10 DEF LastLoop, MainRaise, globals
  <2>2. Depth = 0 /\ pc = "last_loop"
    BY <1>2, <1>10, AtMainAt DEF LastLoop, MainRaise
  <2> QED
    BY <1>1, <2>1, <2>2, SameFrames
<1>11. CASE Check
  <2>1. Depth = 0 /\ pc # "loop"
    BY <1>2, <1>11, AtMainAt DEF Check
  <2>2. masked /\ loop
    BY <1>1, <2>1
  <2>3. frames' = frames /\ status' = "-3" /\ UNCHANGED <<loop, last, masked, pc>>
    BY <1>11, <2>2 DEF Check, ExitWith, globals, machine
  <2> QED
    BY <1>1, <2>1, <2>2, <2>3, SameFrames
<1>12. CASE Outside \/ UNCHANGED vars
  <2>1. frames' = frames /\ UNCHANGED <<loop, last, count, count2, masked, pc, status>>
    BY <1>12 DEF Outside, vars, globals, machine
  <2> QED
    BY <1>1, <2>1, SameFrames
<1> QED
  BY <1>1, <1>2, <1>3, <1>4, <1>5, <1>6, <1>7, <1>8, <1>9, <1>10, <1>11, <1>12, InSamask

\* One handler at a time, and one raise counted in each: only a signal that
\* sigprocmask has left blocked, or one from outside, tells the last loop apart.
LEMMA SamaskKept ==
  ASSUME IInv, [Next]_vars, program = "samask",
         fault \notin {"not_blocked", "mask_ignored", "not_restored"}
  PROVE  Samask'
<1> USE DEF Samask
<1>1. Samask
  BY DEF IInv
<1>2. Types /\ Depth \in Nat /\ outside \in Nat
  BY Empty DEF IInv, Types
<1>3. count \in Nat /\ count2 \in Nat /\ NUMCOUNT \in Nat /\ NUMCOUNT # 0
  BY CountAssumption DEF IInv, Types
<1>4. fault' = fault /\ option' = option
  BY SameTest
<1>5. pc' = pc => (Stuck' <=> Stuck)
  BY <1>4 DEF Stuck
<1>6. CASE Deliver
  <2>1. /\ Depth' = Depth + 1 /\ Place' = "enter" /\ (UcMask' <=> masked) /\ (EnteredMask' <=> masked)
        /\ (masked' <=> (masked \/ Blocks)) /\ ~pending'
    BY <1>2, <1>6, DeliverMoves
  <2>2. Blocks /\ ~masked /\ pending /\ status = "running" /\ pc' = pc
    BY <1>1, <1>6 DEF Deliver, Deliverable, Blocks, Interrupted
  <2>3. UNCHANGED <<loop, last, count, count2, outside, status>>
    BY <1>6 DEF Deliver, globals
  <2>4. Depth = 0 /\ ~Stuck
    BY <1>1, <1>2, <2>2
  <2> QED
    BY <1>1, <1>4, <1>5, <2>1, <2>2, <2>3, <2>4
<1>7. CASE Handler
  <2>1. /\ status = "running" /\ Depth > 0 /\ Place = "enter" /\ Depth' = Depth
        /\ (UcMask' <=> UcMask) /\ (EnteredMask' <=> EnteredMask)
        /\ masked' = masked /\ pc' = pc /\ outside' = outside
        /\ GoTo("raised") => Place' = "raised"
        /\ GoTo("return") => Place' = "return"
    BY <1>2, <1>7, HandlerMoves
  <2>2. /\ Depth = 1 /\ ~Stuck /\ count <= NUMCOUNT
        /\ pc = "loop" => count2 = count /\ ~last
        /\ pc # "loop" => last
    BY <1>1, <1>2, <1>3, <2>1
  <2>3. SamaskHandler
    BY <1>7 DEF Handler, OtherHandlers
  <2>4. last' = last /\ count' = count /\ ~loop' /\ status' = "running"
    BY <2>1, <2>2, <2>3 DEF SamaskHandler, Raise, Leave
  <2>5. \/ GoTo("raised") /\ pending' /\ count2' = count + 1 /\ count < NUMCOUNT /\ pc = "loop"
        \/ GoTo("return") /\ pending' = pending /\ count2' = count2 /\ (pc = "loop" => count = NUMCOUNT)
    BY <1>3, <2>2, <2>3 DEF SamaskHandler, Raise, Leave
  <2>6. fault = "stale_sigprocmask" /\ option = "TESTSIGPROCMASK" /\ pc # "loop" => outside > 0
    BY <1>1, <2>2 DEF Stuck
  <2> QED
    BY <1>1, <1>3, <1>4, <1>5, <2>1, <2>2, <2>4, <2>5, <2>6
<1>8. CASE AfterRaise
  <2>1. /\ Depth > 0 /\ Depth' = Depth /\ Place = "raised" /\ Place' = "return"
        /\ (UcMask' <=> UcMask) /\ (EnteredMask' <=> EnteredMask) /\ count' = count + 1
    BY <1>2, <1>8, AfterRaiseMoves
  <2>2. UNCHANGED <<loop, last, count2, masked, pending, outside, pc, status>>
    BY <1>8 DEF AfterRaise
  <2>3. Depth = 1 /\ pc = "loop"
    BY <1>1, <1>2, <2>1
  <2> QED
    BY <1>1, <1>3, <1>4, <1>5, <2>1, <2>2, <2>3
<1>9. CASE Return
  <2>1. /\ Depth > 0 /\ Depth' = Depth - 1 /\ Place = "return"
        /\ masked' <=> \/ fault = "context_ignored" /\ EnteredMask
                       \/ fault # "context_ignored" /\ UcMask
    BY <1>2, <1>9, ReturnMoves
  <2>2. UNCHANGED <<loop, last, count, count2, pending, outside, pc, status>>
    BY <1>9 DEF Return, RaxChanged, globals
  <2>3. Depth = 1 /\ ~Stuck /\ ~masked' /\ ~loop
    BY <1>1, <1>2, <2>1
  <2> QED
    BY <1>1, <1>3, <1>4, <1>5, <2>1, <2>2, <2>3
<1>10. CASE Loop
  <2>1. frames' = frames /\ pc' = pc /\ pending' /\ Depth = 0 /\ pc = "loop"
    BY <1>2, <1>10, AtMainAt DEF Loop, MainRaise
  <2>2. UNCHANGED <<loop, last, count, count2, masked, outside, status>>
    BY <1>10 DEF Loop, MainRaise, globals
  <2> QED
    BY <1>1, <1>4, <1>5, <2>1, <2>2, SameFrames
<1>11. CASE LoopEnds
  <2>1. Depth = 0 /\ ~loop /\ ~Deliverable /\ pc = "loop"
    BY <1>2, <1>11, AtMainAt DEF LoopEnds
  <2>2. ~masked /\ ~pending
    BY <1>1, <2>1 DEF Deliverable, Stuck
  <2>3. frames' = frames /\ pc' = "sigprocmask" /\ loop' /\ last'
    BY <1>11 DEF LoopEnds, machine
  <2>4. UNCHANGED <<count, count2, masked, pending, outside, status>>
    BY <1>11 DEF LoopEnds, machine
  <2>5. ~Stuck'
    BY <2>3 DEF Stuck
  <2> QED
    BY <1>1, <1>4, <2>1, <2>2, <2>3, <2>4, <2>5, SameFrames
<1>12. CASE Sigprocmask
  <2>1. Depth = 0 /\ pc = "sigprocmask" /\ status = "running"
    BY <1>2, <1>12, AtMainAt DEF Sigprocmask
  <2>2. /\ frames' = frames /\ pc' = "last_loop"
        /\ UNCHANGED <<loop, last, count, count2, pending, outside, status>>
    BY <1>12 DEF Sigprocmask, globals
  <2>3. masked' <=> masked \/ (option = "TESTSIGPROCMASK" /\ fault = "stale_sigprocmask")
    BY <1>12, Zenon DEF Sigprocmask
  <2>4. ~masked /\ (masked' <=> Stuck')
    BY <1>1, <1>4, <2>1, <2>2, <2>3 DEF Stuck
  <2> QED
    BY <1>1, <1>4, <2>1, <2>2, <2>4, SameFrames
<1>13. CASE LastLoop
  <2>1. Depth = 0 /\ pc = "last_loop" /\ status = "running"
    BY <1>2, <1>13, AtMainAt DEF LastLoop, MainRaise
  <2>2. /\ frames' = frames /\ pc' = "check" /\ pending'
        /\ UNCHANGED <<loop, last, count, count2, masked, outside, status>>
    BY <1>13 DEF LastLoop, MainRaise, globals
  <2>3. Stuck' <=> Stuck
    BY <1>4, <2>1, <2>2 DEF Stuck
  <2> QED
    BY <1>1, <1>4, <2>1, <2>2, <2>3, SameFrames
<1>14. CASE Check
  <2>1. Depth = 0 /\ pc \in {"last_loop", "check"} /\ (loop => pc = "check") /\ ~Deliverable
    BY <1>2, <1>14, AtMainAt DEF Check
  <2>2. loop => Stuck
    BY <1>1, <2>1 DEF Deliverable
  <2>3. /\ frames' = frames /\ status' = IF loop THEN "-3" ELSE "0"
        /\ UNCHANGED <<loop, last, count, count2, masked, pending, outside, pc>>
    BY <1>14 DEF Check, ExitWith, globals, machine
  <2> QED
    BY <1>1, <1>4, <1>5, <2>1, <2>2, <2>3, SameFrames
<1>15. CASE Outside
  <2>1. /\ frames' = frames /\ pending' /\ outside' = outside + 1
        /\ UNCHANGED <<loop, last, count, count2, masked, pc, status>>
    BY <1>15 DEF Outside, globals
  <2> QED
    BY <1>1, <1>2, <1>4, <1>5, <2>1, SameFrames
<1>16. CASE UNCHANGED vars
  <2>1. /\ frames' = frames
        /\ UNCHANGED <<loop, last, count, count2, masked, pending, outside, pc, status>>
    BY <1>16 DEF vars, globals, machine
  <2> QED
    BY <1>1, <1>4, <1>5, <2>1, SameFrames
<1> QED
  BY <1>1, <1>2, <1>6, <1>7, <1>8, <1>9, <1>10, <1>11, <1>12, <1>13, <1>14, <1>15, <1>16, InSamask

\* A blocked signal that the program causes kills it, or is handled where the mask
\* is ignored.
LEMMA SynchronousKept ==
  ASSUME IInv, [Next]_vars, program = "block"
  PROVE  Synchronous'
<1> USE DEF Synchronous
<1>1. Synchronous
  BY DEF IInv
<1>2. Types /\ Depth \in Nat /\ option \in {"-s", "none", "-a", "other"}
  BY Empty DEF IInv, Types, Options
<1>3. program' = program /\ fault' = fault /\ option' = option
  BY SameTest
<1>4. (Passed' = Passed) /\ Passed = IF option \in {"-s", "none"} THEN "killed" ELSE "0"
  BY <1>3 DEF Passed
<1> HIDE DEF Synchronous
<1>5. CASE Deliver
  <2>1. /\ Depth' = Depth + 1 /\ Place' = "enter" /\ (masked' <=> (masked \/ Blocks)) /\ ~pending'
    BY <1>2, <1>5, DeliverMoves
  <2>2. pending /\ (~masked \/ fault = "mask_ignored") /\ status = "running" /\ status' = status
    BY <1>5 DEF Deliver, Deliverable
  <2>3. pc' = pc
    BY <1>1, <1>5 DEF Deliver, Interrupted, Synchronous
  <2>4. fault = "mask_ignored" /\ option # "other" /\ pc \in {"act", "exit"}
    BY <1>1, <2>2 DEF Synchronous
  <2> QED
    BY <1>1, <1>2, <1>3, <2>1, <2>2, <2>3, <2>4 DEF Synchronous
<1>6. CASE Handler
  <2>1. /\ Depth > 0 /\ Place = "enter" /\ Depth' = Depth /\ masked' = masked /\ pc' = pc
        /\ frames' = frames => Place' = "enter"
    BY <1>2, <1>6, HandlerMoves
  <2>2. frames' = frames /\ pending' = pending /\ status' = "1"
    BY <1>6 DEF Handler, OtherHandlers, ExitWith, machine
  <2>3. fault = "mask_ignored" /\ option # "other" /\ pc \in {"act", "exit"}
    BY <1>1, <1>2, <2>1 DEF Synchronous
  <2> QED
    BY <1>1, <1>2, <1>3, <2>1, <2>2, <2>3 DEF Synchronous
<1>7. CASE AfterRaise \/ Return
  <2>1. Depth > 0 /\ Place \in {"raised", "return"}
    BY <1>2, <1>7, InHandlerAt DEF AfterRaise, Return
  <2> QED
    BY <1>1, <2>1 DEF Synchronous
<1>8. CASE Sigfillset
  <2>1. Depth = 0 /\ pc = "mask" /\ status = "running"
    BY <1>2, <1>8, AtMainAt DEF Sigfillset, MainStep
  <2>2. frames' = frames /\ pc' = "act" /\ masked' /\ UNCHANGED <<pending, status>>
    BY <1>8 DEF Sigfillset, MainStep
  <2> QED
    BY <1>1, <1>2, <1>3, <2>1, <2>2, SameFrames DEF Synchronous
<1>9. CASE Act
  <2>1. Depth = 0 /\ pc = "act" /\ status = "running" /\ frames' = frames
    BY <1>2, <1>9, AtMainAt DEF Act, MainStep
  <2>2. masked
    BY <1>1, <2>1 DEF Synchronous
  <2>3. CASE option \in {"-s", "none"}
    <3>1. pc' = "act" /\ masked' = masked
      BY <1>9, <2>3 DEF Act, Causes, MainStep
    <3>2. IF fault # "mask_ignored" THEN status' = "killed" /\ pending' = pending
                                    ELSE pending' /\ status' = status
      BY <1>9, <2>2, <2>3, Zenon DEF Act, Causes
    <3> QED
      BY <1>1, <1>3, <1>4, <2>1, <2>2, <2>3, <3>1, <3>2, SameFrames DEF Synchronous
  <2>4. CASE option = "-a"
    <3>1. pc' = "exit" /\ pending' /\ UNCHANGED <<masked, status>>
      BY <1>9, <2>4 DEF Act, MainStep
    <3> QED
      BY <1>1, <1>3, <1>4, <2>1, <2>2, <2>4, <3>1, SameFrames DEF Synchronous
  <2>5. CASE option = "other"
    <3>1. pc' = "exit" /\ UNCHANGED <<masked, pending, status>>
      BY <1>9, <2>5 DEF Act, MainStep
    <3> QED
      BY <1>1, <1>3, <1>4, <2>1, <2>2, <2>5, <3>1, SameFrames DEF Synchronous
  <2> QED
    BY <1>2, <2>3, <2>4, <2>5
<1>10. CASE Exit
  <2>1. Depth = 0 /\ pc = "exit" /\ status = "running" /\ ~Deliverable
    BY <1>2, <1>10, AtMainAt DEF Exit, MainStep
  <2>2. frames' = frames /\ pc' = "end" /\ status' = "0" /\ UNCHANGED <<masked, pending>>
    BY <1>10 DEF Exit, MainStep
  <2>3. (fault # "mask_ignored" \/ option = "other") /\ option \notin {"-s", "none"}
    BY <1>1, <2>1 DEF Deliverable, Synchronous
  <2> QED
    BY <1>1, <1>3, <1>4, <2>1, <2>2, <2>3, SameFrames DEF Synchronous
<1>11. CASE UNCHANGED vars
  <2>1. frames' = frames /\ UNCHANGED <<masked, pending, pc, status>>
    BY <1>11 DEF vars, machine
  <2> QED
    BY <1>1, <1>3, <1>4, <2>1, SameFrames DEF Synchronous
<1>12. \/ Deliver \/ Handler \/ AfterRaise \/ Return \/ Sigfillset \/ Act \/ Exit \/ UNCHANGED vars
  BY <1>1 DEF Synchronous, Next, Code, Input, Loop, Raising, LoopEnds, Sigprocmask, LastLoop, MainRaise,
     Check, AtMain, MainStep, Sleep, SleepEnds, Read, ReadsInput, ReadsNothing, TestSignaled,
     Store, Stored, Outside
<1> QED
  BY <1>5, <1>6, <1>7, <1>8, <1>9, <1>10, <1>11, <1>12

\* The store is made again after the handler until it gets through.
LEMMA FaultingKept ==
  ASSUME IInv, [Next]_vars, program = "sigtest3"
  PROVE  Faulting'
<1> USE DEF Faulting
<1>1. Faulting
  BY DEF IInv
<1>2. Types /\ Depth \in Nat /\ option \in {"RAX", "other"}
  BY Empty DEF IInv, Types, Options
<1>3. fault' = fault /\ option' = option /\ (RaxChanged' <=> RaxChanged)
  BY SameTest DEF RaxChanged
<1>4. RaxChanged <=> option = "RAX" /\ fault # "context_ignored"
  BY DEF RaxChanged
<1>5. CASE Deliver
  <2>1. /\ Depth' = Depth + 1 /\ (UcMask' <=> masked) /\ (EnteredMask' <=> masked) /\ ~pending'
    BY <1>2, <1>5, DeliverMoves
  <2>2. pending /\ (~masked \/ fault = "mask_ignored") /\ status' = status
    BY <1>5 DEF Deliver, Deliverable
  <2>3. Depth = 0 /\ pc = "store" /\ ~masked
    BY <1>1, <1>2, <2>2
  <2>4. pc' = "store"
    BY <1>5, <2>3 DEF Deliver, Interrupted
  <2> QED
    BY <1>1, <1>3, <2>1, <2>2, <2>3, <2>4
<1>6. CASE Handler
  <2>1. /\ Depth > 0 /\ Depth' = Depth /\ (UcMask' <=> UcMask) /\ (EnteredMask' <=> EnteredMask)
        /\ pc' = pc
    BY <1>2, <1>6, HandlerMoves
  <2>2. UNCHANGED <<pending, status>>
    BY <1>6 DEF Handler, OtherHandlers, Leave
  <2> QED
    BY <1>1, <1>2, <1>3, <2>1, <2>2
<1>7. CASE AfterRaise
  <2>1. /\ Depth > 0 /\ Depth' = Depth /\ (UcMask' <=> UcMask) /\ (EnteredMask' <=> EnteredMask)
    BY <1>2, <1>7, AfterRaiseMoves
  <2>2. UNCHANGED <<pending, pc, status>>
    BY <1>7 DEF AfterRaise
  <2> QED
    BY <1>1, <1>2, <1>3, <2>1, <2>2
<1>8. CASE Return
  <2>1. /\ Depth > 0 /\ Depth' = Depth - 1
        /\ masked' <=> \/ fault = "not_restored" /\ masked
                       \/ fault = "context_ignored" /\ EnteredMask
                       \/ fault \notin {"not_restored", "context_ignored"} /\ UcMask
    BY <1>2, <1>8, ReturnMoves
  <2>2. Depth = 1 /\ pc = "store" /\ ~pending
    BY <1>1, <1>2, <2>1
  <2>3. UNCHANGED <<pending, status>> /\ pc' = IF RaxChanged THEN "stored" ELSE "store"
    BY <1>8, <2>2 DEF Return
  <2>4. masked' => fault = "not_restored"
    BY <1>1, <2>1, <2>2
  <2> QED
    BY <1>1, <1>2, <1>3, <1>4, <2>1, <2>2, <2>3, <2>4
<1>9. CASE Store
  <2>1. Depth = 0 /\ pc = "store"
    BY <1>2, <1>9, AtMainAt DEF Store, MainStep
  <2>2. frames' = frames /\ pc' = "store" /\ masked' = masked
    BY <1>9 DEF Store, MainStep, Causes
  <2>3. IF masked /\ fault # "mask_ignored" THEN status' = "killed" /\ pending' = pending
                                            ELSE pending' /\ status' = status
    BY <1>9 DEF Store, Causes
  <2> QED
    BY <1>1, <1>3, <2>1, <2>2, <2>3, SameFrames
<1>10. CASE Stored
  <2>1. Depth = 0 /\ pc = "stored"
    BY <1>2, <1>10, AtMainAt DEF Stored, MainStep
  <2>2. frames' = frames /\ pc' = "end" /\ status' = "0" /\ UNCHANGED <<masked, pending>>
    BY <1>10 DEF Stored, MainStep
  <2> QED
    BY <1>1, <1>3, <2>1, <2>2, SameFrames
<1>11. CASE UNCHANGED vars
  <2>1. frames' = frames /\ UNCHANGED <<masked, pending, pc, status>>
    BY <1>11 DEF vars, machine
  <2> QED
    BY <1>1, <1>3, <2>1, SameFrames
<1>12. \/ Deliver \/ Handler \/ AfterRaise \/ Return \/ Store \/ Stored \/ UNCHANGED vars
  BY <1>1 DEF Next, Code, Input, Loop, Raising, LoopEnds, Sigprocmask, LastLoop, MainRaise,
     Check, AtMain, MainStep, Sleep, SleepEnds, Read, ReadsInput, ReadsNothing, TestSignaled,
     Sigfillset, Act, Exit, Outside
<1> QED
  BY <1>5, <1>6, <1>7, <1>8, <1>9, <1>10, <1>11, <1>12

\* The programs that wait end with 0 or not at all.
LEMMA WaitsKept ==
  ASSUME IInv, [Next]_vars, program \in {"sigtest", "sigtest2"}
  PROVE  Waits'
<1>1. Waits /\ program' = program
  BY SameTest DEF IInv
<1>2. CASE Deliver
  BY <1>1, <1>2 DEF Waits, Deliver, Interrupted
<1>3. CASE Handler
  BY <1>1, <1>3 DEF Waits, Handler, OtherHandlers, Leave
<1>4. CASE AfterRaise \/ Return \/ Outside \/ UNCHANGED vars
  BY <1>1, <1>4 DEF Waits, AfterRaise, Return, RaxChanged, Outside, vars
<1>5. CASE LoopEnds
  BY <1>1, <1>5 DEF Waits, LoopEnds, ExitWith, AtMain
<1>6. CASE Sleep \/ SleepEnds \/ Read \/ ReadsNothing
  BY <1>1, <1>6 DEF Waits, Sleep, SleepEnds, Read, ReadsNothing, MainStep, AtMain
<1>7. CASE ReadsInput \/ TestSignaled
  BY <1>1, <1>7 DEF Waits, ReadsInput, TestSignaled, MainStep, AtMain
<1>8. \/ Deliver \/ Handler \/ AfterRaise \/ Return \/ Outside \/ UNCHANGED vars
      \/ LoopEnds \/ Sleep \/ SleepEnds \/ Read \/ ReadsNothing \/ ReadsInput \/ TestSignaled
  BY <1>1 DEF Waits, Next, Code, Input, Loop, Raising, Sigprocmask, LastLoop, MainRaise,
     Check, AtMain, MainStep, Store, Stored, Sigfillset, Act, Exit
<1> QED
  BY <1>2, <1>3, <1>4, <1>5, <1>6, <1>7, <1>8
-----------------------------------------------------------------------------
\* It holds at first, and every step keeps each of its parts.
LEMMA InitHolds ==
  ASSUME Init
  PROVE  IInv
<1>1. Types
  <2>1. masked \in BOOLEAN
    BY DEF Init
  <2>2. frames \in Seq(Frame) /\ count \in Nat /\ count2 \in Nat /\ outside \in Nat
    BY DEF Init
  <2>3. status \in Statuses
    BY DEF Init, Statuses
  <2> QED
    BY <2>1, <2>2, <2>3 DEF Init, Types
<1>2. Depth = 0 /\ status = "running" /\ ~masked /\ ~pending /\ ~last /\ ~inhandler
      /\ loop /\ count = 0 /\ count2 = 0
  BY DEF Init, Depth
<1>3. NUMCOUNT \in Nat /\ outside = 0
  BY CountAssumption DEF Init
<1>4. Waits
  BY DEF Init, Waits, Start
<1>5. program \in {"no_defer", "samask", "sigmask"} => pc = "loop"
  BY DEF Init, Start
<1>6. program = "no_defer" => NoDefer /\ Deferred
  BY <1>2, <1>3, <1>5 DEF NoDefer, Deferred
<1>7. program \in {"samask", "sigmask"} => Unblocked
  BY <1>2, <1>5 DEF Unblocked
<1>8. program = "samask" => Samask /\ Unrestored
  BY <1>2, <1>3, <1>5 DEF Samask, Unrestored, Stuck
<1>9. program = "sigmask" => Sigmask /\ Ignored
  BY <1>2, <1>5 DEF Sigmask, Ignored
<1>10. program = "block" => Synchronous
  <2>1. program = "block" => pc = "mask"
    BY DEF Init, Start
  <2> QED
    BY <1>2, <2>1 DEF Synchronous
<1>11. program = "sigtest3" => Faulting
  <2>1. program = "sigtest3" => pc = "store"
    BY DEF Init, Start
  <2> QED
    BY <1>2, <2>1 DEF Faulting
<1> QED
  BY <1>1, <1>4, <1>6, <1>7, <1>8, <1>9, <1>10, <1>11 DEF IInv

\* Every step keeps the invariant: each program and fault has one part of it.
LEMMA StepHolds ==
  ASSUME IInv, [Next]_vars
  PROVE  IInv'
<1>1. program' = program /\ fault' = fault
  BY SameTest
<1>2. Types'
  BY TypesKept DEF IInv
<1>3. Waits'
  BY <1>1, WaitsKept DEF Waits
<1>4. program' = "no_defer" => IF fault' = "deferred" THEN Deferred' ELSE NoDefer'
  BY <1>1, NoDeferKept, DeferredKept
<1>5. program' \in {"samask", "sigmask"} /\ fault' \in {"not_blocked", "mask_ignored"} => Unblocked'
  BY <1>1, UnblockedKept
<1>6. program' = "samask" /\ fault' \notin {"not_blocked", "mask_ignored"} =>
        IF fault' = "not_restored" THEN Unrestored' ELSE Samask'
  BY <1>1, UnrestoredKept, SamaskKept
<1>7. program' = "sigmask" /\ fault' \notin {"not_blocked", "mask_ignored"} =>
        IF fault' = "context_ignored" THEN Ignored' ELSE Sigmask'
  BY <1>1, IgnoredKept, SigmaskKept
<1>8. (program' = "block" => Synchronous') /\ (program' = "sigtest3" => Faulting')
  BY <1>1, SynchronousKept, FaultingKept
<1> QED
  BY <1>2, <1>3, <1>4, <1>5, <1>6, <1>7, <1>8 DEF IInv

\* The invariant holds of every reachable state.
LEMMA Always == Spec => []IInv
<1>1. Init => IInv
  BY InitHolds
<1>2. IInv /\ [Next]_vars => IInv'
  BY StepHolds
<1> QED
  BY <1>1, <1>2, PTL DEF Spec
-----------------------------------------------------------------------------
\* No program blames a system for what it does not test, or that is not there:
\* it ends as it does on Linux, with any NUMCOUNT and any signals from outside.
THEOREM NoneBlamed == Spec => []NoFalseAlarm
<1>1. IInv => NoFalseAlarm
  <2> SUFFICES ASSUME IInv, status # "running", fault \notin Tested
               PROVE  status = Passed
    BY DEF NoFalseAlarm
  <2>1. program \in Programs /\ fault \in Faults /\ option \in Options(program)
    BY DEF IInv, Types
  <2>2. CASE program = "no_defer"
    <3>1. fault # "deferred" /\ Passed = "0"
      BY <2>2 DEF Tested, Passed
    <3> QED
      BY <2>2, <3>1 DEF IInv, NoDefer
  <2>3. CASE program = "samask"
    <3>1. fault \notin {"not_blocked", "not_restored", "mask_ignored"} /\ Passed = "0"
      BY <2>3 DEF Tested, Passed
    <3>2. ~Stuck
      BY <2>3 DEF Tested, Stuck
    <3>3. Samask
      BY <2>3, <3>1 DEF IInv
    <3> QED
      BY <3>1, <3>2, <3>3 DEF Samask
  <2>4. CASE program = "sigmask"
    <3>1. fault \notin {"not_blocked", "context_ignored", "mask_ignored"} /\ Passed = "0"
      BY <2>4 DEF Tested, Passed
    <3> QED
      BY <2>4, <3>1 DEF IInv, Sigmask
  <2>5. CASE program = "block"
    <3>1. fault # "mask_ignored" \/ option = "other"
      BY <2>5 DEF Tested
    <3> QED
      BY <2>5, <3>1 DEF IInv, Synchronous
  <2>6. CASE program = "sigtest3"
    <3>1. option \in {"RAX", "other"}
      BY <2>1, <2>6 DEF Options
    <3>2. fault # "context_ignored" /\ (option # "RAX" => fault # "not_restored") /\ Passed = "0"
      BY <2>6 DEF Tested, Passed
    <3> QED
      BY <2>6, <3>1, <3>2 DEF IInv, Faulting
  <2>7. CASE program \in {"sigtest", "sigtest2"}
    <3>1. Passed = "0"
      BY <2>7 DEF Passed
    <3> QED
      BY <2>7, <3>1 DEF IInv, Waits
  <2> QED
    BY <2>1, <2>2, <2>3, <2>4, <2>5, <2>6, <2>7 DEF Programs
<1> QED
  BY <1>1, Always, PTL

\* No fault that a program tests for lets it pass, but for the last loop of
\* sigtest_samask.cpp that a signal from outside has ended.
THEOREM AllFound == Spec => []FaultsAreFound
<1>1. IInv => FaultsAreFound
  <2> SUFFICES ASSUME IInv, status = Passed, fault \in Tested
               PROVE  fault = "stale_sigprocmask" /\ outside > 0
    BY DEF FaultsAreFound
  <2>1. program \in Programs
    BY DEF IInv, Types
  <2>2. CASE program = "no_defer"
    <3>1. fault = "deferred" /\ Passed = "0"
      BY <2>2 DEF Tested, Passed
    <3> QED
      BY <2>2, <3>1 DEF IInv, Deferred
  <2>3. CASE program = "samask"
    <3>1. Passed = "0"
      BY <2>3 DEF Passed
    <3>2. CASE fault \in {"not_blocked", "mask_ignored"}
      BY <2>3, <3>1, <3>2 DEF IInv, Unblocked
    <3>3. CASE fault = "not_restored"
      BY <2>3, <3>1, <3>3 DEF IInv, Unrestored
    <3>4. CASE fault \notin {"not_blocked", "mask_ignored", "not_restored"}
      <4>1. fault = "stale_sigprocmask" /\ option = "TESTSIGPROCMASK"
        BY <2>3, <3>4 DEF Tested
      <4>2. Samask
        BY <2>3, <3>4 DEF IInv
      <4> QED
        BY <3>1, <4>1, <4>2 DEF Samask
    <3> QED
      BY <3>2, <3>3, <3>4
  <2>4. CASE program = "sigmask"
    <3>1. fault \in {"not_blocked", "context_ignored", "mask_ignored"} /\ Passed = "0"
      BY <2>4 DEF Tested, Passed
    <3> QED
      BY <2>4, <3>1 DEF IInv, Unblocked, Ignored
  <2>5. CASE program = "block"
    <3>1. fault = "mask_ignored" /\ option # "other" /\ Passed \in {"killed", "0"}
      BY <2>5 DEF Tested, Passed
    <3> QED
      BY <2>5, <3>1 DEF IInv, Synchronous
  <2>6. CASE program = "sigtest3"
    <3>1. ~RaxChanged /\ Passed = "0"
      BY <2>6 DEF Tested, RaxChanged, Passed
    <3> QED
      BY <2>6, <3>1 DEF IInv, Faulting
  <2>7. CASE program \in {"sigtest", "sigtest2"}
    BY <2>7 DEF Tested
  <2> QED
    BY <2>1, <2>2, <2>3, <2>4, <2>5, <2>6, <2>7 DEF Programs
<1> QED
  BY <1>1, Always, PTL

\* A test that passes has made NUMCOUNT nested raises, and its handlers are as
\* deep in one another as SA_NODEFER lets them be, or have all returned.
THEOREM AllMade == Spec => []AllRaisesMade
<1>1. IInv => AllRaisesMade
  <2> SUFFICES ASSUME IInv, status = "0"
               PROVE  AllRaisesMade
    BY DEF AllRaisesMade
  <2>1. Types /\ program \in Programs /\ Depth \in Nat /\ NUMCOUNT \in Nat /\ outside \in Nat
    BY Empty, CountAssumption DEF IInv, Types
  <2>2. CASE program = "no_defer"
    <3>1. fault # "deferred"
      BY <2>2 DEF IInv, Deferred
    <3>2. NoDefer
      BY <2>2, <3>1 DEF IInv
    <3>3. count2 = NUMCOUNT /\ count = 0 /\ Depth \in NUMCOUNT + 1 .. NUMCOUNT + 1 + outside
      BY <2>1, <3>2 DEF NoDefer
    <3> QED
      BY <2>2, <3>3 DEF AllRaisesMade, Depth
  <2>3. CASE program = "samask"
    <3>1. Samask
      BY <2>3 DEF IInv, Unblocked, Unrestored
    <3>2. count2 = NUMCOUNT /\ count = NUMCOUNT /\ Depth = 0
      BY <3>1 DEF Samask
    <3> QED
      BY <2>1, <2>3, <3>2, Empty DEF AllRaisesMade
  <2>4. CASE program = "sigmask"
    <3>1. Sigmask
      BY <2>4 DEF IInv, Unblocked, Ignored
    <3>2. inhandler /\ Depth = 0
      BY <3>1 DEF Sigmask
    <3> QED
      BY <2>1, <2>4, <3>2, Empty DEF AllRaisesMade
  <2>5. CASE program \in {"block", "sigtest", "sigtest2", "sigtest3"}
    BY <2>5 DEF AllRaisesMade
  <2> QED
    BY <2>1, <2>2, <2>3, <2>4, <2>5 DEF Programs
<1> QED
  BY <1>1, Always, PTL
-----------------------------------------------------------------------------
\* The programs that raise or cause their signal themselves end on every system,
\* sigtest3.cpp where the change of RAX can reach the store: they are those of
\* Terminates.  What is left of them are steps of main(), signals, and steps of
\* the handlers at work.
Ending == \/ program \in Raising \cup {"block"}
          \/ program = "sigtest3" /\ option = "RAX" /\ fault # "context_ignored"

Bit(b) == IF b THEN 1 ELSE 0

Ahead(label) == CASE label \in {"loop", "mask"} -> 4 [] label = "sigprocmask" -> 3
                  [] label \in {"last_loop", "act", "store"} -> 2
                  [] label \in {"check", "exit", "stored"} -> 1 [] OTHER -> 0

\* main() is where it may raise its signal without going on.
Unraised == /\ (pc = "loop" /\ loop) \/ pc \in {"act", "store"}
            /\ Depth = 0 /\ ~pending

MainLeft == Ahead(pc) + Bit(Unraised)
SignalsLeft == 2 * (MaxOutside - outside) + (NUMCOUNT - count2) + Bit(~inhandler) + Bit(pending)
PlacesLeft(at) == CASE at = "enter" -> 3 [] at = "raised" -> 2 [] OTHER -> 1
HandlersLeft == IF Depth = 0 THEN 0 ELSE 3 * Depth + PlacesLeft(Place)
Running == Bit(status = "running")

StepsLeft == 9 * MainLeft + 8 * SignalsLeft + HandlersLeft + Running
StepsAreNat == StepsLeft \in Nat
StepsShrink == StepsLeft' < StepsLeft

\* Until a handler has acted upon it, loop stays TRUE and nothing has blocked the
\* signal: main() does not raise it twice.
Untouched == (program \in Raising /\ pc = "loop" /\ loop) \/ program = "block"

Onward ==
  /\ count2 <= NUMCOUNT /\ outside <= MaxOutside
  /\ program \in Raising => pc \in {"loop", "sigprocmask", "last_loop", "check"}
  /\ program = "block" => pc \in {"mask", "act", "exit", "end"}
  /\ program = "sigtest3" => pc \in {"store", "stored", "end"}
  /\ pc = "end" => status # "running"
  /\ Untouched /\ Depth > 0 => Place = "enter"
  /\ program \in Raising /\ pc = "loop" /\ loop /\ Depth = 0 => ~masked

Endings == Types /\ Ending /\ Onward

\* What a handler does at its entry: it ends the process, raises the signal once
\* more, of which there is a limit, or goes on to its return.
LEMMA HandlerActs ==
  ASSUME Types, Ending, Handler
  PROVE  \/ status' # "running" /\ UNCHANGED <<globals, machine, pc, outside>>
         \/ /\ GoTo("raised") /\ ~loop' /\ program \in Raising /\ status' = status
            /\ UNCHANGED <<pc, outside, masked>>
            /\ \/ count2 < NUMCOUNT /\ count2' = count2 + 1 /\ inhandler' = inhandler
               \/ ~inhandler /\ inhandler' /\ count2' = count2
         \/ /\ GoTo("return") /\ (program \in Raising => ~loop') /\ program # "block"
            /\ UNCHANGED <<count2, inhandler, pending, masked, status, pc, outside>>
<1>1. UNCHANGED <<pc, outside>> /\ count2 \in Nat /\ NUMCOUNT \in Nat
  BY CountAssumption DEF Handler, Types
<1>2. CASE program = "no_defer" /\ NoDeferHandler
  BY <1>1, <1>2 DEF NoDeferHandler, Raise, ExitWith, Raising
<1>3. CASE program = "samask" /\ SamaskHandler
  BY <1>1, <1>3 DEF SamaskHandler, Raise, Leave, ExitWith, Raising
<1>4. CASE program = "sigmask" /\ SigmaskHandler
  BY <1>1, <1>4 DEF SigmaskHandler, Raise, ExitWith, Raising
<1>5. CASE OtherHandlers
  BY <1>1, <1>5 DEF OtherHandlers, Leave, ExitWith, Raising, Ending, globals
<1> QED
  BY <1>2, <1>3, <1>4, <1>5 DEF Handler

\* The steps an ending program is left with.
LEMMA EndingNext ==
  ASSUME Types, Ending, Onward, Next
  PROVE  \/ Deliver \/ Handler \/ AfterRaise \/ Return \/ Outside
         \/ Loop \/ LoopEnds \/ Sigprocmask \/ LastLoop \/ Check
         \/ Store \/ Stored \/ Sigfillset \/ Act \/ Exit
BY DEF Next, Code, Input, Ending, Onward, Sleep, SleepEnds, Read, ReadsInput, ReadsNothing,
       TestSignaled, MainStep, AtMain, Raising

\* Every step keeps the program on its way.
LEMMA OnwardKept ==
  ASSUME Types, Types', Ending, Onward, Next
  PROVE  Onward'
<1>1. program' = program /\ NUMCOUNT \in Nat /\ MaxOutside \in Nat /\ count2 \in Nat
      /\ outside \in Nat /\ Depth \in Nat
  BY SameTest, CountAssumption, Empty DEF Types
<1>2. CASE Deliver
  <2>1. Depth' = Depth + 1 /\ Place' = "enter"
    BY <1>2, DeliverMoves
  <2>2. /\ UNCHANGED <<count2, outside>> /\ status = "running"
        /\ program \in Raising \cup {"block", "sigtest3"} => pc' = pc
    BY <1>2 DEF Deliver, globals, Interrupted, Onward, Raising
  <2> QED
    BY <1>1, <2>1, <2>2 DEF Onward, Untouched, Ending
<1>3. CASE Handler
  <2>1. Depth' = Depth /\ Depth > 0 /\ Place = "enter" /\ (frames' = frames => Place' = "enter")
        /\ status = "running"
    BY <1>3, HandlerMoves
  <2>2. CASE status' # "running" /\ UNCHANGED <<globals, machine, pc, outside>>
    <3>1. UNCHANGED <<loop, count2, frames, masked, pc, outside>>
      BY <2>2 DEF globals, machine
    <3> QED
      BY <1>1, <2>1, <3>1 DEF Onward, Untouched
  <2>3. CASE /\ GoTo("raised") /\ ~loop' /\ program \in Raising /\ status' = status
             /\ UNCHANGED <<pc, outside, masked>>
             /\ \/ count2 < NUMCOUNT /\ count2' = count2 + 1 /\ inhandler' = inhandler
                \/ ~inhandler /\ inhandler' /\ count2' = count2
    BY <1>1, <2>1, <2>3 DEF Onward, Untouched, Raising
  <2>4. CASE /\ GoTo("return") /\ (program \in Raising => ~loop') /\ program # "block"
             /\ UNCHANGED <<count2, inhandler, pending, masked, status, pc, outside>>
    BY <1>1, <2>1, <2>4 DEF Onward, Untouched, Raising
  <2> QED
    BY <1>3, <2>2, <2>3, <2>4, HandlerActs
<1>4. CASE AfterRaise
  <2>1. Depth' = Depth /\ Depth > 0 /\ Place = "raised"
    BY <1>4, AfterRaiseMoves
  <2>2. UNCHANGED <<loop, count2, outside, pc, status>>
    BY <1>4 DEF AfterRaise
  <2> QED
    BY <1>1, <2>1, <2>2 DEF Onward, Untouched
<1>5. CASE Return
  <2>1. Depth' = Depth - 1 /\ Depth > 0 /\ Place = "return"
    BY <1>5, ReturnMoves
  <2>2. UNCHANGED <<loop, count2, outside, status>> /\ pc' \in {pc, "stored"}
        /\ (program # "sigtest3" => pc' = pc)
    BY <1>5 DEF Return, globals, RaxChanged
  <2> QED
    BY <1>1, <2>1, <2>2 DEF Onward, Untouched, Raising
<1>6. CASE Outside
  <2>1. UNCHANGED <<frames, loop, count2, masked, pc, status>> /\ outside' <= MaxOutside
    BY <1>1, <1>6 DEF Outside, globals
  <2>2. Depth' = Depth /\ Place' = Place
    BY <2>1, SameFrames
  <2> QED
    BY <1>1, <2>1, <2>2 DEF Onward, Untouched
<1>7. CASE Loop \/ LastLoop \/ LoopEnds \/ Sigprocmask \/ Check
  <2>1. Depth' = 0
    BY <1>7, AtMainAt, SameFrames
    DEF Loop, LastLoop, MainRaise, LoopEnds, Sigprocmask, Check, ExitWith, machine
  <2>2. UNCHANGED <<count2, outside>> /\ Depth = 0
    BY <1>7, AtMainAt
    DEF Loop, LastLoop, MainRaise, LoopEnds, Sigprocmask, Check, ExitWith, globals
  <2>3. pc' = "loop" => UNCHANGED <<loop, masked>> /\ pc = "loop"
    BY <1>7 DEF Loop, LastLoop, MainRaise, LoopEnds, Sigprocmask, Check, ExitWith, globals, machine,
                AtMain
  <2>4. pc \in {"loop", "sigprocmask", "last_loop", "check"}
        /\ pc' \in {"loop", "sigprocmask", "last_loop", "check"}
    BY <1>7 DEF Loop, LastLoop, MainRaise, LoopEnds, Sigprocmask, Check, AtMain
  <2> QED
    BY <1>1, <2>1, <2>2, <2>3, <2>4 DEF Onward, Untouched, Ending, Raising
<1>8. CASE Store \/ Stored \/ Sigfillset \/ Act \/ Exit
  <2>1. /\ UNCHANGED <<count2, outside, frames>> /\ Depth = 0
        /\ \/ pc = "store" /\ pc' = "store"
           \/ pc = "stored" /\ pc' = "end"
           \/ pc \in {"mask", "act", "exit"} /\ pc' \in {"act", "exit", "end"}
        /\ pc' = "end" => status' # "running"
    BY <1>8, AtMainAt DEF Store, Stored, Sigfillset, Act, Exit, MainStep, globals, AtMain
  <2>2. Depth' = 0
    BY <2>1, SameFrames
  <2> QED
    BY <1>1, <2>1, <2>2 DEF Onward, Untouched, Ending, Raising
<1> QED
  BY <1>2, <1>3, <1>4, <1>5, <1>6, <1>7, <1>8, EndingNext

\* The parts of what is left are natural numbers.
LEMMA PartsAreNat ==
  ASSUME Types, Onward
  PROVE  MainLeft \in Nat /\ SignalsLeft \in Nat /\ HandlersLeft \in Nat /\ Running \in Nat
<1>1. /\ NUMCOUNT \in Nat /\ MaxOutside \in Nat /\ count2 \in Nat /\ outside \in Nat /\ Depth \in Nat
      /\ count2 <= NUMCOUNT /\ outside <= MaxOutside
  BY CountAssumption, Empty DEF Types, Onward
<1>2. \A b : Bit(b) \in {0, 1}
  BY DEF Bit
<1>3. MainLeft \in Nat
  <2>1. Ahead(pc) \in Nat
    BY DEF Ahead
  <2> QED
    BY <1>2, <2>1 DEF MainLeft
<1>4. SignalsLeft \in Nat
  <2>1. MaxOutside - outside \in Nat /\ NUMCOUNT - count2 \in Nat
    BY <1>1
  <2> QED
    BY <1>2, <2>1 DEF SignalsLeft
<1>5. HandlersLeft \in Nat
  <2>1. PlacesLeft(Place) \in Nat
    BY DEF PlacesLeft
  <2> QED
    BY <1>1, <2>1 DEF HandlersLeft
<1>6. Running \in Nat
  BY <1>2 DEF Running
<1> QED
  BY <1>3, <1>4, <1>5, <1>6

\* The ways in which less can be left.
LEMMA LessIsLeft ==
  ASSUME Types, Types', Onward, Onward', MainLeft' <= MainLeft, Running' <= Running,
         \/ SignalsLeft' <= SignalsLeft /\ HandlersLeft' < HandlersLeft
         \/ SignalsLeft' <= SignalsLeft /\ HandlersLeft' <= HandlersLeft /\ Running' < Running
         \/ SignalsLeft' <= SignalsLeft - 1 /\ HandlersLeft' <= HandlersLeft + 6
         \/ /\ MainLeft' < MainLeft /\ SignalsLeft' <= SignalsLeft + 1
            /\ HandlersLeft' <= HandlersLeft
  PROVE  StepsShrink
<1> DEFINE m == MainLeft  m2 == MainLeft'  s == SignalsLeft   s2 == SignalsLeft'
           h == HandlersLeft  h2 == HandlersLeft'  r == Running  r2 == Running'
<1>1. m \in Nat /\ s \in Nat /\ h \in Nat /\ r \in Nat
  BY PartsAreNat
<1>2. (MainLeft \in Nat /\ SignalsLeft \in Nat /\ HandlersLeft \in Nat /\ Running \in Nat)'
  BY PartsAreNat, PTL
<1>3. m2 \in Nat /\ s2 \in Nat /\ h2 \in Nat /\ r2 \in Nat
  BY <1>2
<1>4. StepsLeft = 9 * m + 8 * s + h + r /\ StepsLeft' = 9 * m2 + 8 * s2 + h2 + r2
  BY DEF StepsLeft
<1>5. /\ m2 <= m /\ r2 <= r
      /\ \/ s2 <= s /\ h2 < h
         \/ s2 <= s /\ h2 <= h /\ r2 < r
         \/ s2 <= s - 1 /\ h2 <= h + 6
         \/ m2 < m /\ s2 <= s + 1 /\ h2 <= h
  OBVIOUS
<1> HIDE DEF m, m2, s, s2, h, h2, r, r2
<1>6. 9 * m2 + 8 * s2 + h2 + r2 < 9 * m + 8 * s + h + r
  BY <1>1, <1>3, <1>5
<1> QED
  BY <1>4, <1>6 DEF StepsShrink

\* Parts that a step leaves alone.
LEMMA PartsStay ==
  /\ pc' = pc /\ (Unraised' => Unraised) => MainLeft' <= MainLeft
  /\ UNCHANGED <<outside, count2, inhandler, pending>> => SignalsLeft' = SignalsLeft
  /\ frames' = frames => HandlersLeft' = HandlersLeft /\ Depth' = Depth
  /\ status' = status => Running' = Running
  /\ Bit(Unraised) \in {0, 1} /\ Bit(Unraised') \in {0, 1}
<1>1. pc' = pc /\ (Unraised' => Unraised) => MainLeft' <= MainLeft
  <2>1. Ahead(pc) \in Nat
    BY DEF Ahead
  <2> QED
    BY <2>1 DEF MainLeft, Bit
<1>2. UNCHANGED <<outside, count2, inhandler, pending>> => SignalsLeft' = SignalsLeft
  BY DEF SignalsLeft
<1>3. frames' = frames => HandlersLeft' = HandlersLeft /\ Depth' = Depth
  BY SameFrames DEF HandlersLeft
<1>4. status' = status => Running' = Running
  BY DEF Running
<1>5. Bit(Unraised) \in {0, 1} /\ Bit(Unraised') \in {0, 1}
  BY DEF Bit
<1> QED
  BY <1>1, <1>2, <1>3, <1>4, <1>5

\* main() gets on.
LEMMA MainGetsOn ==
  ASSUME Ahead(pc') < Ahead(pc), pc' \notin {"loop", "act", "store"}
  PROVE  MainLeft' < MainLeft
<1>1. Ahead(pc') \in Nat /\ Ahead(pc) \in Nat
  BY DEF Ahead
<1>2. Bit(Unraised') = 0
  BY DEF Bit, Unraised
<1> QED
  BY <1>1, <1>2, PartsStay DEF MainLeft

\* main() raises its signal where it may come back to.
LEMMA MainRaises ==
  ASSUME pc' = pc, Unraised, pending'
  PROVE  MainLeft' < MainLeft
<1>1. Ahead(pc) \in Nat
  BY DEF Ahead
<1>2. Bit(Unraised') = 0 /\ Bit(Unraised) = 1
  BY DEF Bit, Unraised
<1>3. MainLeft = Ahead(pc) + 1 /\ MainLeft' = Ahead(pc) + 0
  BY <1>2, Zenon DEF MainLeft
<1> QED
  BY <1>1, <1>3

\* A signal is one more, at most, of what is left.
LEMMA OnePending ==
  ASSUME Types, UNCHANGED <<outside, count2, inhandler>>
  PROVE  SignalsLeft' <= SignalsLeft + 1
<1> DEFINE x == 2 * (MaxOutside - outside) + (NUMCOUNT - count2) + Bit(~inhandler)
<1>1. x \in Int
  BY CountAssumption DEF Types, Bit
<1>2. SignalsLeft = x + Bit(pending) /\ SignalsLeft' = x + Bit(pending')
  BY DEF SignalsLeft
<1>3. Bit(pending) \in {0, 1} /\ Bit(pending') \in {0, 1}
  BY DEF Bit
<1> HIDE DEF x
<1> QED
  BY <1>1, <1>2, <1>3

LEMMA DeliverShrinks ==
  ASSUME Types, Types', Ending, Onward, Onward', Deliver
  PROVE  StepsShrink
<1>1. Depth \in Nat /\ Depth' = Depth + 1 /\ Place' = "enter"
  BY DeliverMoves
<1>2. /\ pc' = pc /\ UNCHANGED <<outside, count2, inhandler, status>> /\ pending /\ pending' = FALSE
  BY DEF Deliver, Deliverable, globals, Interrupted, Onward, Raising, Ending
<1>3. MainLeft' <= MainLeft /\ Running' = Running
  BY <1>1, <1>2, PartsStay DEF Unraised
<1>4. SignalsLeft' <= SignalsLeft - 1
  <2> DEFINE x == 2 * (MaxOutside - outside) + (NUMCOUNT - count2) + Bit(~inhandler)
  <2>1. x \in Int
    BY CountAssumption DEF Types, Bit
  <2>2. SignalsLeft = x + Bit(pending) /\ SignalsLeft' = x + Bit(pending')
    BY <1>2 DEF SignalsLeft
  <2>3. Bit(pending) = 1 /\ Bit(pending') = 0
    BY <1>2 DEF Bit
  <2> HIDE DEF x
  <2> QED
    BY <2>1, <2>2, <2>3
<1>5. HandlersLeft' = 3 * (Depth + 1) + 3
  BY <1>1 DEF HandlersLeft, PlacesLeft
<1>6. HandlersLeft >= 3 * Depth
  <2>1. PlacesLeft(Place) \in Nat
    BY DEF PlacesLeft
  <2> QED
    BY <1>1, <2>1 DEF HandlersLeft
<1>7. HandlersLeft' <= HandlersLeft + 6 /\ Running \in Nat
  BY <1>1, <1>5, <1>6, PartsAreNat
<1> QED
  BY <1>3, <1>4, <1>7, LessIsLeft

LEMMA HandlerShrinks ==
  ASSUME Types, Types', Ending, Onward, Onward', Handler
  PROVE  StepsShrink
<1>1. /\ Depth \in Nat /\ Depth > 0 /\ Depth' = Depth /\ Place = "enter" /\ pc' = pc
      /\ status = "running" /\ frames # <<>>
  BY HandlerMoves, Empty
<1>2. MainLeft' <= MainLeft
  BY <1>1, PartsStay DEF Unraised
<1>3. HandlersLeft = 3 * Depth + 3
  BY <1>1 DEF HandlersLeft, PlacesLeft
<1>4. CASE status' # "running" /\ UNCHANGED <<globals, machine, pc, outside>>
  <2>1. UNCHANGED <<frames, pending, outside, count2, inhandler>>
    BY <1>4 DEF globals, machine
  <2>2. HandlersLeft' = HandlersLeft /\ SignalsLeft' = SignalsLeft
    BY <2>1, PartsStay
  <2>3. Running = 1 /\ Running' = 0
    BY <1>1, <1>4 DEF Running, Bit
  <2>4. SignalsLeft \in Nat /\ HandlersLeft \in Nat
    BY PartsAreNat
  <2> QED
    BY <1>2, <2>2, <2>3, <2>4, LessIsLeft
<1>5. CASE /\ GoTo("raised") /\ ~loop' /\ program \in Raising /\ status' = status
           /\ UNCHANGED <<pc, outside, masked>>
           /\ \/ count2 < NUMCOUNT /\ count2' = count2 + 1 /\ inhandler' = inhandler
              \/ ~inhandler /\ inhandler' /\ count2' = count2
  <2>1. HandlersLeft' = 3 * Depth + 2
    BY <1>1, <1>5, HandlerMoves DEF HandlersLeft, PlacesLeft
  <2>2. SignalsLeft' <= SignalsLeft
    <3>1. MaxOutside - outside \in Int /\ NUMCOUNT - count2 \in Int /\ outside' = outside
      BY <1>5, CountAssumption DEF Types
    <3>2. \A b : Bit(b) \in {0, 1}
      BY DEF Bit
    <3>3. \/ NUMCOUNT - count2' = NUMCOUNT - count2 - 1 /\ Bit(~inhandler') = Bit(~inhandler)
          \/ NUMCOUNT - count2' = NUMCOUNT - count2 /\ Bit(~inhandler') = 0 /\ Bit(~inhandler) = 1
      <4>1. CASE count2 < NUMCOUNT /\ count2' = count2 + 1 /\ inhandler' = inhandler
        <5>1. Bit(~inhandler') = Bit(~inhandler)
          BY <4>1, Zenon
        <5>2. NUMCOUNT - count2' = NUMCOUNT - count2 - 1
          BY <4>1, CountAssumption DEF Types
        <5> QED
          BY <5>1, <5>2
      <4>2. CASE ~inhandler /\ inhandler' /\ count2' = count2
        <5>1. Bit(~inhandler') = 0 /\ Bit(~inhandler) = 1
          BY <4>2 DEF Bit
        <5> QED
          BY <4>2, <5>1
      <4> QED
        BY <1>5, <4>1, <4>2
    <3> QED
      BY <3>1, <3>2, <3>3 DEF SignalsLeft
  <2>3. Running' = Running /\ Running \in Nat
    BY <1>5, PartsStay, PartsAreNat
  <2>4. HandlersLeft' < HandlersLeft
    BY <1>1, <1>3, <2>1
  <2> QED
    BY <1>2, <2>2, <2>3, <2>4, LessIsLeft
<1>6. CASE /\ GoTo("return") /\ (program \in Raising => ~loop') /\ program # "block"
           /\ UNCHANGED <<count2, inhandler, pending, masked, status, pc, outside>>
  <2>1. HandlersLeft' = 3 * Depth + 1
    BY <1>1, <1>6, HandlerMoves DEF HandlersLeft, PlacesLeft
  <2>2. SignalsLeft' = SignalsLeft /\ Running' = Running
    BY <1>6, PartsStay
  <2>3. HandlersLeft' < HandlersLeft /\ SignalsLeft \in Nat /\ Running \in Nat
    BY <1>1, <1>3, <2>1, PartsAreNat
  <2> QED
    BY <1>2, <2>2, <2>3, LessIsLeft
<1> QED
  BY <1>4, <1>5, <1>6, HandlerActs

LEMMA AfterRaiseShrinks ==
  ASSUME Types, Types', Ending, Onward, Onward', AfterRaise
  PROVE  StepsShrink
<1>1. /\ Depth \in Nat /\ Depth > 0 /\ Depth' = Depth /\ Place = "raised" /\ Place' = "return"
  BY AfterRaiseMoves
<1>2. UNCHANGED <<pc, status, outside, count2, inhandler, pending>>
  BY DEF AfterRaise
<1>3. MainLeft' <= MainLeft
  BY <1>1, <1>2, PartsStay DEF Unraised
<1>4. HandlersLeft = 3 * Depth + 2 /\ HandlersLeft' = 3 * Depth + 1
  BY <1>1 DEF HandlersLeft, PlacesLeft
<1>5. SignalsLeft' = SignalsLeft /\ Running' = Running
  BY <1>2, PartsStay
<1>6. HandlersLeft' < HandlersLeft /\ SignalsLeft \in Nat /\ Running \in Nat
  BY <1>1, <1>4, PartsAreNat
<1> QED
  BY <1>3, <1>5, <1>6, LessIsLeft

LEMMA ReturnShrinks ==
  ASSUME Types, Types', Ending, Onward, Onward', Return
  PROVE  StepsShrink
<1>1. /\ Depth \in Nat /\ Depth > 0 /\ Depth' = Depth - 1 /\ Place = "return"
  BY ReturnMoves
<1>2. UNCHANGED <<status, outside, count2, inhandler, pending, loop, program>> /\ status = "running"
  BY DEF Return, globals, InHandler, Runs, test
<1>3. HandlersLeft' < HandlersLeft
  <2>1. HandlersLeft = 3 * Depth + 1
    BY <1>1 DEF HandlersLeft, PlacesLeft
  <2>2. PlacesLeft(Place') \in {1, 2, 3}
    BY DEF PlacesLeft
  <2>3. HandlersLeft' = (IF Depth' = 0 THEN 0 ELSE 3 * Depth' + PlacesLeft(Place'))
    BY DEF HandlersLeft
  <2>4. CASE Depth' = 0
    BY <1>1, <2>1, <2>3, <2>4
  <2>5. CASE Depth' # 0
    <3>1. HandlersLeft' = 3 * (Depth - 1) + PlacesLeft(Place')
      BY <1>1, <2>3, <2>5
    <3> QED
      BY <1>1, <2>1, <2>2, <3>1
  <2> QED
    BY <2>4, <2>5
<1>4. ~Untouched
  BY <1>1 DEF Onward
<1>5. MainLeft' <= MainLeft
  <2>1. CASE RaxChanged
    <3>1. pc' = "stored" /\ pc \in {"store", "stored"}
      BY <1>2, <2>1 DEF Return, RaxChanged, Onward
    <3>2. Ahead("store") = 2 /\ Ahead("stored") = 1
      BY DEF Ahead
    <3>3. ~Unraised'
      BY <3>1 DEF Unraised
    <3>4. CASE pc = "stored"
      BY <3>1, <3>3, <3>4, PartsStay
    <3>5. CASE pc = "store"
      <4>1. MainLeft' < MainLeft
        BY <3>1, <3>2, <3>5, MainGetsOn
      <4>2. MainLeft \in Nat
        BY PartsAreNat
      <4>3. (MainLeft \in Nat)'
        BY PartsAreNat, PTL
      <4> QED
        BY <4>1, <4>2, <4>3
    <3> QED
      BY <3>1, <3>4, <3>5
  <2>2. CASE ~RaxChanged
    <3>1. pc' = pc
      BY <2>2 DEF Return
    <3>2. ~Unraised'
      BY <1>2, <1>4, <2>2, <3>1 DEF Unraised, Untouched, RaxChanged, Ending, Onward, Raising
    <3> QED
      BY <3>1, <3>2, PartsStay
  <2> QED
    BY <2>1, <2>2
<1>6. SignalsLeft' = SignalsLeft /\ Running' = Running /\ SignalsLeft \in Nat /\ Running \in Nat
  BY <1>2, PartsStay, PartsAreNat
<1> QED
  BY <1>3, <1>5, <1>6, LessIsLeft

LEMMA OutsideShrinks ==
  ASSUME Types, Types', Ending, Onward, Onward', Outside
  PROVE  StepsShrink
<1>1. /\ UNCHANGED <<frames, pc, status, count2, inhandler>> /\ pending' = TRUE
      /\ outside' = outside + 1
  BY DEF Outside, globals
<1>2. MainLeft' <= MainLeft
  BY <1>1, PartsStay DEF Unraised
<1>3. HandlersLeft' = HandlersLeft /\ Running' = Running
  BY <1>1, PartsStay
<1>4. SignalsLeft' <= SignalsLeft - 1
  <2> DEFINE x == (NUMCOUNT - count2) + Bit(~inhandler)
             out == MaxOutside - outside
  <2>1. x \in Int /\ out \in Int /\ MaxOutside - outside' = out - 1
    BY <1>1, CountAssumption DEF Types, Bit
  <2>2. SignalsLeft = 2 * out + x + Bit(pending)
    BY <2>1, CountAssumption DEF SignalsLeft, Types, Bit
  <2>3. SignalsLeft' = 2 * (out - 1) + x + Bit(pending')
    BY <1>1, <2>1, CountAssumption DEF SignalsLeft, Types, Bit
  <2>4. Bit(pending) \in {0, 1} /\ Bit(pending') \in {0, 1}
    BY DEF Bit
  <2> HIDE DEF x, out
  <2> QED
    BY <2>1, <2>2, <2>3, <2>4
<1>5. HandlersLeft \in Nat /\ Running \in Nat
  BY PartsAreNat
<1> QED
  BY <1>2, <1>3, <1>4, <1>5, LessIsLeft

\* A step of main() ends the process or gets on, raising a signal or not.
LEMMA MainShrinks ==
  ASSUME Types, Types', Onward, Onward', status = "running",
         UNCHANGED <<frames, outside, count2, inhandler>>,
         \/ pc' = pc /\ pending' = pending /\ status' # "running" /\ (Unraised' => Unraised)
         \/ MainLeft' < MainLeft
  PROVE  StepsShrink
<1>1. HandlersLeft' = HandlersLeft /\ HandlersLeft \in Nat
  BY PartsStay, PartsAreNat
<1>2. Running = 1 /\ Running' \in {0, 1} /\ (status' # "running" => Running' = 0)
  BY DEF Running, Bit
<1>3. CASE pc' = pc /\ pending' = pending /\ status' # "running" /\ (Unraised' => Unraised)
  <2>1. MainLeft' <= MainLeft /\ SignalsLeft' = SignalsLeft /\ SignalsLeft \in Nat
    BY <1>3, PartsStay, PartsAreNat
  <2> QED
    BY <1>1, <1>2, <1>3, <2>1, LessIsLeft
<1>4. CASE MainLeft' < MainLeft
  <2>1. MainLeft \in Nat /\ (MainLeft \in Nat)'
    <3>1. MainLeft \in Nat
      BY PartsAreNat
    <3>2. (MainLeft \in Nat)'
      BY PartsAreNat, PTL
    <3> QED
      BY <3>1, <3>2
  <2>2. SignalsLeft' <= SignalsLeft + 1
    BY OnePending
  <2> QED
    BY <1>1, <1>2, <1>4, <2>1, <2>2, LessIsLeft
<1> QED
  BY <1>3, <1>4

LEMMA LoopsShrink ==
  ASSUME Types, Types', Ending, Onward, Onward',
         Loop \/ LastLoop \/ LoopEnds \/ Sigprocmask \/ Check
  PROVE  StepsShrink
<1>1. /\ status = "running" /\ ~Deliverable /\ Depth = 0 /\ frames' = frames
      /\ UNCHANGED <<outside, count2, inhandler>>
  BY AtMainAt
  DEF Loop, LastLoop, LoopEnds, Sigprocmask, Check, MainRaise, ExitWith, globals, machine
<1>2. Depth' = 0
  BY <1>1, SameFrames
<1>3. /\ Ahead("loop") = 4 /\ Ahead("sigprocmask") = 3 /\ Ahead("last_loop") = 2
      /\ Ahead("check") = 1
  BY DEF Ahead
<1>4. CASE Loop
  <2>1. pc = "loop" /\ pc' = pc /\ loop /\ pending' /\ program \in Raising
    BY <1>4 DEF Loop, MainRaise, AtMain
  <2>2. ~pending
    BY <1>1, <2>1 DEF Onward, Deliverable
  <2>3. MainLeft' < MainLeft
    BY <1>1, <2>1, <2>2, MainRaises DEF Unraised
  <2> QED
    BY <1>1, <2>3, MainShrinks
<1>5. CASE LastLoop
  <2>1. pc = "last_loop" /\ pc' = "check"
    BY <1>5 DEF LastLoop, MainRaise, AtMain
  <2>2. MainLeft' < MainLeft
    BY <1>3, <2>1, MainGetsOn
  <2> QED
    BY <1>1, <2>2, MainShrinks
<1>6. CASE LoopEnds
  <2>1. \/ pc = "loop" /\ pc' = "sigprocmask"
        \/ pc' = pc /\ pending' = pending /\ status' # "running" /\ loop' = loop
    BY <1>6 DEF LoopEnds, ExitWith, AtMain, globals, machine
  <2>2. CASE pc = "loop" /\ pc' = "sigprocmask"
    <3>1. MainLeft' < MainLeft
      BY <1>3, <2>2, MainGetsOn
    <3> QED
      BY <1>1, <3>1, MainShrinks
  <2>3. CASE pc' = pc /\ pending' = pending /\ status' # "running" /\ loop' = loop
    <3>1. Unraised' => Unraised
      BY <1>1, <2>3 DEF Unraised
    <3> QED
      BY <1>1, <2>3, <3>1, MainShrinks
  <2> QED
    BY <2>1, <2>2, <2>3
<1>7. CASE Sigprocmask
  <2>1. pc = "sigprocmask" /\ pc' = "last_loop"
    BY <1>7 DEF Sigprocmask, AtMain
  <2>2. MainLeft' < MainLeft
    BY <1>3, <2>1, MainGetsOn
  <2> QED
    BY <1>1, <2>2, MainShrinks
<1>8. CASE Check
  <2>1. pc' = pc /\ pending' = pending /\ status' # "running" /\ loop' = loop
    BY <1>8 DEF Check, ExitWith, globals, machine
  <2>2. Unraised' => Unraised
    BY <1>1, <2>1 DEF Unraised
  <2> QED
    BY <1>1, <2>1, <2>2, MainShrinks
<1> QED
  BY <1>4, <1>5, <1>6, <1>7, <1>8

\* A fault that is blocked kills the process, and the signal is delivered next
\* otherwise: it was not pending before.
LEMMA CausesShrinks ==
  ASSUME Types, Types', Onward, Onward', NEW label \in {"act", "store"},
         MainStep(label, label), Causes
  PROVE  StepsShrink
<1>1. /\ status = "running" /\ ~Deliverable /\ Depth = 0 /\ frames' = frames
      /\ UNCHANGED <<outside, count2, inhandler, loop>> /\ pc = label /\ pc' = label
  BY AtMainAt DEF MainStep, globals
<1>2. CASE masked /\ fault # "mask_ignored"
  <2>1. status' # "running" /\ pending' = pending
    BY <1>2 DEF Causes
  <2>2. Unraised' => Unraised
    BY <1>1, <2>1 DEF Unraised
  <2> QED
    BY <1>1, <2>1, <2>2, MainShrinks
<1>3. CASE ~(masked /\ fault # "mask_ignored")
  <2>1. pending' /\ ~pending
    BY <1>1, <1>3 DEF Causes, Deliverable
  <2>2. MainLeft' < MainLeft
    BY <1>1, <2>1, MainRaises DEF Unraised
  <2> QED
    BY <1>1, <2>2, MainShrinks
<1> QED
  BY <1>2, <1>3

LEMMA OthersShrink ==
  ASSUME Types, Types', Ending, Onward, Onward', Store \/ Stored \/ Sigfillset \/ Act \/ Exit
  PROVE  StepsShrink
<1>1. CASE Store
  BY <1>1, CausesShrinks DEF Store
<1>2. CASE MainStep("act", "act") /\ Causes
  BY <1>2, CausesShrinks
<1>3. CASE MainStep("stored", "end") \/ MainStep("exit", "end") \/ MainStep("act", "exit")
  <2>1. /\ status = "running" /\ UNCHANGED <<frames, outside, count2, inhandler>>
        /\ \/ pc \in {"stored", "exit"} /\ pc' = "end"
           \/ pc = "act" /\ pc' = "exit"
    BY <1>3, AtMainAt DEF MainStep, globals
  <2>2. Ahead(pc') < Ahead(pc) /\ pc' \notin {"loop", "act", "store"}
    BY <2>1 DEF Ahead
  <2> QED
    BY <2>1, <2>2, MainGetsOn, MainShrinks
<1>4. CASE MainStep("mask", "act")
  <2>1. /\ status = "running" /\ UNCHANGED <<frames, outside, count2, inhandler>>
        /\ pc = "mask" /\ pc' = "act"
    BY <1>4, AtMainAt DEF MainStep, globals
  <2>2. Ahead("mask") = 4 /\ Ahead("act") = 2
    BY DEF Ahead
  <2>3. MainLeft' < MainLeft
    BY <2>1, <2>2, PartsStay DEF MainLeft
  <2> QED
    BY <2>1, <2>3, MainShrinks
<1> QED
  BY <1>1, <1>2, <1>3, <1>4 DEF Stored, Sigfillset, Act, Exit

LEMMA EndingsKept == Endings /\ [Next]_vars => Endings'
<1> SUFFICES ASSUME Endings, [Next]_vars PROVE Endings'
  OBVIOUS
<1>1. Types' /\ Ending'
  BY TypesKept, SameTest DEF Endings, Ending
<1>2. CASE Next
  BY <1>1, <1>2, OnwardKept DEF Endings
<1>3. CASE UNCHANGED vars
  <2>1. Depth' = Depth /\ Place' = Place
    BY <1>3, SameFrames DEF vars, machine
  <2> QED
    BY <1>1, <1>3, <2>1 DEF Endings, Onward, Untouched, vars, test, globals, machine
<1> QED
  BY <1>2, <1>3

LEMMA EndingsStart == Init /\ Ending => Endings
<1> SUFFICES ASSUME Init, Ending PROVE Endings
  OBVIOUS
<1>1. Types
  BY InitHolds DEF IInv
<1>2. Depth = 0
  BY DEF Init, Depth
<1> QED
  BY <1>1, <1>2, CountAssumption DEF Endings, Onward, Init, Start, Ending, Raising, Untouched

LEMMA StepsGetFewer == Endings /\ Endings' /\ [Next]_vars => [StepsShrink]_vars
<1> SUFFICES ASSUME Endings, Endings', Next PROVE StepsShrink
  OBVIOUS
<1> QED
  BY EndingNext, DeliverShrinks, HandlerShrinks, AfterRaiseShrinks, ReturnShrinks, OutsideShrinks,
     LoopsShrink, OthersShrink DEF Endings

\* The programs that raise or cause their signal themselves cannot go on for ever,
\* on any system with any of the faults and with any signals from outside: each
\* step of main(), of a handler and of the system lowers a natural number.
THEOREM RaisesRunOut ==
  Spec /\ Ending => [](StepsLeft \in Nat) /\ [][StepsLeft' < StepsLeft]_vars
<1>1. Endings => StepsAreNat
  <2> SUFFICES ASSUME Endings PROVE StepsLeft \in Nat
    BY DEF StepsAreNat
  <2>1. MainLeft \in Nat /\ SignalsLeft \in Nat /\ HandlersLeft \in Nat /\ Running \in Nat
    BY PartsAreNat DEF Endings
  <2> HIDE DEF MainLeft, SignalsLeft, HandlersLeft, Running
  <2> QED
    BY <2>1 DEF StepsLeft
<1>2. Spec /\ Ending => []StepsAreNat /\ [][StepsShrink]_vars
  BY <1>1, EndingsStart, EndingsKept, StepsGetFewer, PTL DEF Spec
<1> QED
  BY <1>2 DEF StepsAreNat, StepsShrink
-----------------------------------------------------------------------------
\* Nobody is at the last place of main() but who has exited.
EndIsExit == pc = "end" => status = "0"

LEMMA EndsExited == Spec => []EndIsExit
<1>1. Init => EndIsExit
  BY DEF Init, Start, EndIsExit
<1>2. EndIsExit /\ [Next]_vars => EndIsExit'
  <2> SUFFICES ASSUME EndIsExit, [Next]_vars, pc' = "end" PROVE status' = "0"
    BY DEF EndIsExit
  <2>1. CASE pc' = pc /\ status' = status
    BY <2>1 DEF EndIsExit
  <2>2. CASE Deliver
    <3>1. pc' = pc /\ status' = status
      BY <2>2 DEF Deliver, Interrupted
    <3> QED
      BY <2>1, <3>1
  <2>3. CASE Handler \/ LoopEnds \/ Check
    <3>1. status = "running" /\ (pc' = pc \/ pc' = "sigprocmask")
      BY <2>3 DEF Handler, InHandler, LoopEnds, Check, AtMain, Runs
    <3> QED
      BY <3>1 DEF EndIsExit
  <2>4. CASE Return
    <3>1. status' = status /\ (pc' = pc \/ pc' = "stored")
      BY <2>4 DEF Return
    <3> QED
      BY <2>1, <3>1
  <2>5. CASE AfterRaise \/ Outside
    BY <2>1, <2>5 DEF AfterRaise, Outside
  <2>6. CASE Loop \/ LastLoop \/ Sigprocmask \/ Sleep \/ SleepEnds \/ Read \/ Store \/ Sigfillset \/ ReadsNothing
    BY <2>6 DEF Loop, LastLoop, MainRaise, Sigprocmask, Sleep, SleepEnds, Read, Store, Sigfillset,
                ReadsNothing, MainStep
  <2>7. CASE Act
    BY <2>7 DEF Act, MainStep
  <2>8. CASE TestSignaled \/ Stored \/ Exit \/ ReadsInput
    BY <2>8 DEF TestSignaled, Stored, Exit, ReadsInput, MainStep
  <2>9. CASE UNCHANGED vars
    BY <2>1, <2>9 DEF vars
  <2> QED
    BY <2>2, <2>3, <2>4, <2>5, <2>6, <2>7, <2>8, <2>9 DEF Next, Code, Input
<1> QED
  BY <1>1, <1>2, PTL DEF Spec

\* The guards of Code: of Handler by program, of the steps of a handler, and of those of
\* main().
EnterMay == \/ program = "no_defer" /\ (count # 0 \/ count2 < NUMCOUNT \/ count2 >= NUMCOUNT)
            \/ /\ program = "samask"
               /\ \/ ~last /\ count2 # count
                  \/ ~last /\ count2 = count /\ count < NUMCOUNT
                  \/ last \/ (count2 = count /\ count >= NUMCOUNT)
            \/ program \in {"sigmask", "sigtest", "sigtest2", "sigtest3", "block"}
HandlerMay == frames # <<>> /\ (Place \in {"raised", "return"} \/ (Place = "enter" /\ EnterMay))
LoopMay == \/ program \in Raising \cup {"sigtest"} /\ loop
           \/ program \in {"samask", "no_defer", "sigmask", "sigtest"} /\ ~loop
MainMay == /\ frames = <<>>
           /\ \/ pc = "loop" /\ LoopMay
              \/ pc \in {"sigprocmask", "last_loop", "check", "sleep", "read", "test", "store", "stored",
                         "mask", "exit"}
              \/ pc = "act" /\ option \in {"none", "-s", "-a", "other"}
CodeMay == status = "running" /\ (Deliverable \/ HandlerMay \/ MainMay)

AwaitsInput == program = "sigtest2" /\ pc = "reading" /\ frames = <<>>
OnlyReadWaits == status = "running" => CodeMay \/ AwaitsInput

\* On every system, the faulty ones too, none of the tests hangs: no signal that was
\* blocked, lost or raised twice leaves it without a next step.  The only program
\* that waits for anybody is sigtest2.cpp, in its read() (main() and the handlers of
\* src/signals and src/tests/signal).
THEOREM NeverHangs == Spec => []OnlyReadWaits
<1>1. IInv /\ EndIsExit => OnlyReadWaits
  <2> SUFFICES ASSUME IInv, EndIsExit, status = "running", ~AwaitsInput
               PROVE  HandlerMay \/ MainMay
    BY DEF OnlyReadWaits, CodeMay
  <2>1. program \in Programs /\ option \in Options(program) /\ count \in Nat /\ count2 \in Nat
    BY DEF IInv, Types
  <2>2. pc # "end"
    BY DEF EndIsExit
  <2>3. CASE frames # <<>>
    <3>1. Place \in Places
      BY <2>3, TopFrame DEF IInv, Types
    <3>2. EnterMay
      BY <2>1, CountAssumption DEF EnterMay, Programs
    <3> QED
      BY <2>3, <3>1, <3>2 DEF HandlerMay, Places
  <2>4. CASE frames = <<>>
    <3>1. CASE program \in Raising
      <4>1. pc \in {"loop", "sigprocmask", "last_loop", "check"}
        BY <3>1 DEF IInv, Raising, NoDefer, Deferred, Unblocked, Unrestored, Samask, Ignored, Sigmask
      <4>2. LoopMay
        BY <3>1 DEF LoopMay, Raising
      <4> QED
        BY <2>4, <4>1, <4>2 DEF MainMay
    <3>2. CASE program = "sigtest"
      <4>1. pc \in {"loop", "sleep"} /\ LoopMay
        BY <3>2 DEF IInv, Waits, LoopMay
      <4> QED
        BY <2>4, <4>1 DEF MainMay
    <3>3. CASE program = "sigtest2"
      <4>1. pc \in {"read", "reading", "test", "end"}
        BY <3>3 DEF IInv, Waits
      <4> QED
        BY <2>2, <2>4, <3>3, <4>1 DEF MainMay, AwaitsInput
    <3>4. CASE program = "sigtest3"
      <4>1. pc \in {"store", "stored", "end"}
        BY <3>4 DEF IInv, Faulting
      <4> QED
        BY <2>2, <2>4, <4>1 DEF MainMay
    <3>5. CASE program = "block"
      <4>1. pc \in {"mask", "act", "exit", "end"}
        BY <3>5 DEF IInv, Synchronous
      <4>2. option \in {"none", "-s", "-a", "other"}
        BY <2>1, <3>5 DEF Options
      <4> QED
        BY <2>2, <2>4, <4>1, <4>2 DEF MainMay
    <3> QED
      BY <2>1, <3>1, <3>2, <3>3, <3>4, <3>5 DEF Programs, Raising
  <2> QED
    BY <2>3, <2>4
<1> QED
  BY <1>1, Always, EndsExited, PTL
=============================================================================
