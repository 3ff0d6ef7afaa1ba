------------------------------- MODULE SigTests -------------------------------
(***************************************************************************)
(* The single-threaded signal tests.                                       *)
(* src/tests/signal/: sigtest_no_defer.cpp, sigtest_samask.cpp and         *)
(* sigtest_sigmask.cpp raise a signal in its own handler to see whether    *)
(* the system they run on blocks and unblocks it as Linux does;            *)
(* synchronous-signal-block.cpp blocks a signal and causes it.             *)
(* src/signals/: sigtest.cpp and sigtest2.cpp wait for a signal that the   *)
(* user sends, sigtest3.cpp changes a register in the handler of a fault.  *)
(* Each is run on Linux and on systems with one fault.                     *)
(*                                                                         *)
(* Only one signal, SIGN, matters to a program: a mask is whether SIGN is  *)
(* in it.  Somebody outside may send it too.                               *)
(***************************************************************************)
EXTENDS Naturals, Sequences, SequencesExt

CONSTANTS NUMCOUNT,
          MaxOutside \* signals from outside, at most

ASSUME CountAssumption == NUMCOUNT \in Nat \ {0} /\ MaxOutside \in Nat

Programs == {"no_defer", "samask", "sigmask", "block", "sigtest", "sigtest2", "sigtest3"}

\* Build switches and arguments; for sigtest3 the register that holds the
\* address, which the compiler chooses.
Options(p) == CASE p = "samask" -> {"none", "TESTSIGPROCMASK"}
                [] p = "block" -> {"none", "-s", "-a", "other"}
                [] p = "sigtest2" -> {"none", "SA_RESTART"}
                [] p = "sigtest3" -> {"RAX", "other"}
                [] OTHER -> {"none"}

Faults == {"none",
           "not_blocked",      \* SIGN is not blocked while its handler runs
           "deferred",         \* SIGN is blocked in spite of SA_NODEFER
           "not_restored",     \* the return of a handler leaves the mask alone
           "context_ignored",  \* ... or does not look at the context
           "mask_ignored",     \* a signal that is blocked is delivered
           "stale_sigprocmask"} \* sigprocmask returns the mask of the handler

VARIABLES program, option, \* what is run
          fault,     \* of the system
          loop,      \* signaled = 0 in sigtest2.cpp
          last, inhandler, count, count2,
          frames,    \* the handlers at work: where, and the mask to return to
          masked, pending,
          outside,   \* signals from outside so far
          pc,        \* of main()
          status     \* "running" or the exit status

test == <<program, option, fault>>
globals == <<loop, last, inhandler, count, count2>>
machine == <<frames, masked, pending>>
vars == <<test, globals, machine, outside, pc, status>>

Start(p) == CASE p = "block" -> "mask" [] p = "sigtest2" -> "read"
              [] p = "sigtest3" -> "store" [] OTHER -> "loop"

Init == /\ program \in Programs /\ option \in Options(program) /\ fault \in Faults
        /\ loop = TRUE /\ last = FALSE /\ inhandler = FALSE
        /\ count = 0 /\ count2 = 0
        /\ frames = <<>> /\ masked = FALSE /\ pending = FALSE
        /\ outside = 0 /\ pc = Start(program) /\ status = "running"

\* A signal that is pending and not blocked goes first.
Deliverable == pending /\ (~masked \/ fault = "mask_ignored")
Runs == status = "running" /\ ~Deliverable
-----------------------------------------------------------------------------
\* The system enters a handler with SIGN blocked, unless the program has set
\* SA_NODEFER, and stores the mask in its context.
Blocks == IF program = "no_defer" THEN fault = "deferred" ELSE fault # "not_blocked"

\* A handler cuts a sleep short, and a read unless it is to be restarted.
Interrupted == CASE pc = "sleep" -> "loop"
                 [] pc = "reading" /\ option # "SA_RESTART" -> "test"
                 [] OTHER -> pc

Deliver == /\ status = "running" /\ Deliverable
           /\ pending' = FALSE /\ pc' = Interrupted
           /\ masked' = (masked \/ Blocks)
           /\ frames' = Append(frames, [at |-> "enter", uc_sigmask |-> masked, entered |-> masked])
           /\ UNCHANGED <<test, outside, globals, status>>

Top == frames[Len(frames)]
InHandler(at) == Runs /\ frames # <<>> /\ Top.at = at
SetTop(f) == frames' = [frames EXCEPT ![Len(frames)] = f]
GoTo(at) == SetTop([Top EXCEPT !.at = at])
ExitWith(code) == status' = code /\ UNCHANGED <<globals, machine>>

\* raise(signum) in the handler.
Raise == pending' = TRUE /\ GoTo("raised") /\ UNCHANGED <<masked, status>>
Leave == GoTo("return") /\ UNCHANGED <<masked, pending, status>>

\* sig_handler() of sigtest_no_defer.cpp.
NoDeferHandler ==
  \/ count # 0 /\ ExitWith("-1")
  \/ /\ count = 0 /\ count2 < NUMCOUNT
     /\ loop' = FALSE /\ count2' = count2 + 1 /\ Raise
     /\ UNCHANGED <<last, inhandler, count>>
  \/ count = 0 /\ count2 >= NUMCOUNT /\ ExitWith("0")

\* Bug: a nested entry is not noticed, the raises are counted on entry.
SamaskHandlerUnchecked ==
  \/ /\ ~last /\ count2 < NUMCOUNT
     /\ loop' = FALSE /\ count2' = count2 + 1 /\ Raise
     /\ UNCHANGED <<last, inhandler, count>>
  \/ /\ last \/ count2 >= NUMCOUNT
     /\ loop' = FALSE /\ Leave
     /\ UNCHANGED <<last, inhandler, count, count2>>

\* Bug: the last raise is left out.
SamaskHandlerOneShort ==
  \/ ~last /\ count2 # count /\ ExitWith("-1")
  \/ /\ ~last /\ count2 = count /\ count < NUMCOUNT - 1
     /\ loop' = FALSE /\ count2' = count2 + 1 /\ Raise
     /\ UNCHANGED <<last, inhandler, count>>
  \/ /\ last \/ (count2 = count /\ count >= NUMCOUNT - 1)
     /\ loop' = FALSE /\ Leave
     /\ UNCHANGED <<last, inhandler, count, count2>>

\* sig_handler() of sigtest_samask.cpp.
SamaskHandler ==
  \/ ~last /\ count2 # count /\ ExitWith("-1")
  \/ /\ ~last /\ count2 = count /\ count < NUMCOUNT
     /\ loop' = FALSE /\ count2' = count2 + 1 /\ Raise
     /\ UNCHANGED <<last, inhandler, count>>
  \/ /\ last \/ (count2 = count /\ count >= NUMCOUNT)
     /\ loop' = FALSE /\ Leave
     /\ UNCHANGED <<last, inhandler, count, count2>>

\* sig_handler() of sigtest_sigmask.cpp.
SigmaskHandler ==
  \/ inhandler /\ ExitWith("-1")
  \/ /\ ~inhandler
     /\ inhandler' = TRUE /\ loop' = FALSE /\ Raise
     /\ UNCHANGED <<last, count, count2>>

\* The handlers of sigtest.cpp and sigtest2.cpp, of sigtest3.cpp, which changes
\* its context, and of synchronous-signal-block.cpp.
OtherHandlers ==
  \/ /\ program \in {"sigtest", "sigtest2"}
     /\ loop' = FALSE /\ Leave
     /\ UNCHANGED <<last, inhandler, count, count2>>
  \/ program = "sigtest3" /\ Leave /\ UNCHANGED globals
  \/ program = "block" /\ ExitWith("1")

Handler == /\ InHandler("enter")
           /\ \/ program = "no_defer" /\ NoDeferHandler
              \/ program = "samask" /\ SamaskHandler
              \/ program = "sigmask" /\ SigmaskHandler
              \/ OtherHandlers
           /\ UNCHANGED <<test, outside, pc>>

\* Bug: the raises are counted before they are made.
AfterRaiseUncounted ==
  /\ InHandler("raised")
  /\ SetTop([at |-> "return", uc_sigmask |-> Top.uc_sigmask \/ program = "sigmask",
             entered |-> Top.entered])
  /\ UNCHANGED <<test, outside, globals, masked, pending, pc, status>>

\* After the nested raise: count it, or fill the mask of the context.
AfterRaise ==
  /\ InHandler("raised")
  /\ count' = IF program = "sigmask" THEN count ELSE count + 1
  /\ SetTop([at |-> "return", uc_sigmask |-> Top.uc_sigmask \/ program = "sigmask",
             entered |-> Top.entered])
  /\ UNCHANGED <<test, outside, loop, last, inhandler, count2, masked, pending, pc, status>>

\* handler() of sigtest3.cpp puts another address into RAX of its context.
RaxChanged == program = "sigtest3" /\ option = "RAX" /\ fault # "context_ignored"

\* The system returns to the mask and the registers in the context; the store
\* of sigtest3.cpp is made again.
Return == /\ InHandler("return")
          /\ frames' = Front(frames)
          /\ masked' = CASE fault = "not_restored" -> masked
                         [] fault = "context_ignored" -> Top.entered
                         [] OTHER -> Top.uc_sigmask
          /\ pc' = IF RaxChanged THEN "stored" ELSE pc
          /\ UNCHANGED <<test, outside, globals, pending, status>>
-----------------------------------------------------------------------------
AtMain(label) == Runs /\ frames = <<>> /\ pc = label

\* raise(SIGN) in one of the loops of main().
MainRaise(label, next) == /\ AtMain(label) /\ loop
                          /\ pending' = TRUE /\ pc' = next
                          /\ UNCHANGED <<test, outside, globals, frames, masked, status>>

Raising == {"no_defer", "samask", "sigmask"}

Loop == program \in Raising /\ MainRaise("loop", "loop")

LoopEnds ==
  /\ AtMain("loop") /\ ~loop
  /\ \/ /\ program = "samask"
        /\ last' = TRUE /\ loop' = TRUE /\ pc' = "sigprocmask"
        /\ UNCHANGED <<inhandler, count, count2, machine, status>>
     \/ program = "no_defer" /\ ExitWith("-2") /\ UNCHANGED pc
     \/ program \in {"sigmask", "sigtest"} /\ ExitWith("0") /\ UNCHANGED pc
  /\ UNCHANGED <<test, outside>>

\* sigprocmask() gets the mask and sets it.
Sigprocmask ==
  /\ AtMain("sigprocmask")
  /\ masked' = (masked \/ (option = "TESTSIGPROCMASK" /\ fault = "stale_sigprocmask"))
  /\ pc' = "last_loop"
  /\ UNCHANGED <<test, outside, globals, frames, pending, status>>

LastLoop == MainRaise("last_loop", "check")

\* Bug: a signal that is not delivered is raised again.
CheckRetries == /\ AtMain("check") \/ (AtMain("last_loop") /\ ~loop)
                /\ pc' = "last_loop"
                /\ UNCHANGED <<test, outside, globals, machine, status>>

\* "Signal did not get raised", or "All good": also when loop is FALSE before
\* the loop has begun.
Check == /\ AtMain("check") \/ (AtMain("last_loop") /\ ~loop)
         /\ ExitWith(IF loop THEN "-3" ELSE "0")
         /\ UNCHANGED <<test, outside, pc>>

-----------------------------------------------------------------------------
MainStep(from, to) == AtMain(from) /\ pc' = to /\ UNCHANGED <<test, outside, globals, frames>>

\* sigtest.cpp: a second at a time.
Sleep == /\ program = "sigtest" /\ loop
         /\ MainStep("loop", "sleep") /\ UNCHANGED <<masked, pending, status>>
SleepEnds == MainStep("sleep", "loop") /\ UNCHANGED <<masked, pending, status>>

\* sigtest2.cpp: read(), which returns 1 or something else, ...
Read == MainStep("read", "reading") /\ UNCHANGED <<masked, pending, status>>
ReadsInput == MainStep("reading", "end") /\ status' = "0" /\ UNCHANGED <<masked, pending>>
ReadsNothing == MainStep("reading", "test") /\ UNCHANGED <<masked, pending, status>>

\* Bug: || for && in the condition of the loop.
TestSignaledOr == MainStep("test", "read") /\ UNCHANGED <<masked, pending, status>>

\* ... && !signaled
TestSignaled == /\ MainStep("test", IF loop THEN "read" ELSE "end")
                /\ status' = IF loop THEN status ELSE "0"
                /\ UNCHANGED <<masked, pending>>

\* A signal that a fault causes kills the process that has blocked it.
Causes == IF masked /\ fault # "mask_ignored"
          THEN status' = "killed" /\ UNCHANGED <<masked, pending>>
          ELSE pending' = TRUE /\ UNCHANGED <<masked, status>>

\* sigtest3.cpp: the store to address 9, and to the address the handler put.
Store == MainStep("store", "store") /\ Causes
Stored == MainStep("stored", "end") /\ status' = "0" /\ UNCHANGED <<masked, pending>>

\* synchronous-signal-block.cpp: all signals are blocked, then one is caused, or
\* raised; without an argument strcmp has a null pointer to read from.
Sigfillset == MainStep("mask", "act") /\ masked' = TRUE /\ UNCHANGED <<pending, status>>
Act == \/ option \in {"-s", "none"} /\ MainStep("act", "act") /\ Causes
       \/ /\ option = "-a" /\ MainStep("act", "exit")
          /\ pending' = TRUE /\ UNCHANGED <<masked, status>>
       \/ /\ option = "other" /\ MainStep("act", "exit")
          /\ UNCHANGED <<masked, pending, status>>
Exit == MainStep("exit", "end") /\ status' = "0" /\ UNCHANGED <<masked, pending>>

\* A signal from outside, which is not queued twice; nobody sends SIGSEGV.
Outside == /\ status = "running" /\ outside < MaxOutside
           /\ program \notin {"sigtest3", "block"}
           /\ pending' = TRUE /\ outside' = outside + 1
           /\ UNCHANGED <<test, globals, frames, masked, pc, status>>

Code == \/ Deliver \/ Handler \/ AfterRaise \/ Return
        \/ Loop \/ LoopEnds \/ Sigprocmask \/ LastLoop \/ Check
        \/ Sleep \/ SleepEnds \/ Read \/ TestSignaled \/ Store \/ Stored
        \/ Sigfillset \/ Act \/ Exit

\* The user, who types or not.
Input == ReadsInput \/ ReadsNothing

Next == Code \/ Outside \/ Input

Spec == Init /\ [][Next]_vars

\* One thread.
FairSpec == Spec /\ WF_vars(Code)
-----------------------------------------------------------------------------
\* The faults a program is there to find.
Tested == CASE program = "no_defer" -> {"deferred"}
            [] program = "samask" -> {"not_blocked", "not_restored", "mask_ignored"}
                 \cup (IF option = "TESTSIGPROCMASK" THEN {"stale_sigprocmask"} ELSE {})
            [] program = "sigmask" -> {"not_blocked", "context_ignored", "mask_ignored"}
            [] program = "block" -> IF option = "other" THEN {} ELSE {"mask_ignored"}
            [] program = "sigtest3" -> {"context_ignored"}
                 \cup (IF option = "RAX" THEN {} ELSE {"not_restored"})
            [] OTHER -> {}

\* How a program ends on a system that passes.
Passed == IF program = "block" /\ option \in {"-s", "none"} THEN "killed" ELSE "0"

\* A system without a fault of the kind the program tests is never blamed,
\* whatever signals come from outside.
NoFalseAlarm == status # "running" /\ fault \notin Tested => status = Passed

\* A system with such a fault never passes, with one exception: a signal from
\* outside ends the last loop of sigtest_samask.cpp before its test is made.
FaultsAreFound ==
  status = Passed /\ fault \in Tested => fault = "stale_sigprocmask" /\ outside > 0

\* A program that exits with 0 has made all its nested raises: inside one another
\* with SA_NODEFER, one after the other, all handlers returned, without.
AllRaisesMade ==
  status = "0" => CASE program = "no_defer" -> /\ count2 = NUMCOUNT /\ count = 0
                                               /\ Len(frames) \in NUMCOUNT + 1 .. NUMCOUNT + 1 + outside
                    [] program = "samask" -> count2 = NUMCOUNT /\ count = NUMCOUNT /\ frames = <<>>
                    [] program = "sigmask" -> inhandler /\ frames = <<>>
                    [] OTHER -> TRUE

\* The tests end on every system, the faulty ones too, and sigtest3.cpp where
\* the handler's change of RAX can reach the store.
Terminates ==
  program \in Raising \cup {"block"}
    \/ (program = "sigtest3" /\ option = "RAX" /\ fault # "context_ignored")
  => <>(status # "running")

\* A signal ends sigtest.cpp whenever it is handled, and sigtest2.cpp if it comes
\* while read() is blocked, without SA_RESTART, or after it: not if it comes
\* between the test of signaled and read().
EndsOnceHandled ==
  frames # <<>> /\ (program = "sigtest" \/ (program = "sigtest2" /\ pc = "test"))
    ~> status # "running"
=============================================================================
