------------------------------ MODULE SmcSignals ------------------------------
(***************************************************************************)
(* src/smc-signals.cpp: a thread sends signals to main(), whose handler    *)
(* runs the self-modifying routine in a page of its own.  A handler blocks *)
(* its own signal only, so handlers of different signals nest, at any step *)
(* of the routine.                                                         *)
(***************************************************************************)
EXTENDS SmcScript, FiniteSets

CONSTANTS signals,    \* the program's array
          RealTime,   \* those of them that queue
          QueueLimit, \* what the kernel queues at most
          Sends,      \* pthread_kill calls for each signal, and mixed ones
          Iterations, \* of the routine's loop
          Pages       \* the pages mmap may return

Signals == {signals[i] : i \in DOMAIN signals}

ASSUME SignalsAssumption == /\ signals \in Seq(Signals) /\ signals # <<>>
                            /\ RealTime \subseteq Signals
ASSUME BoundsAssumption == /\ QueueLimit \in Nat \ {0}
                           /\ Sends \in Nat /\ Iterations \in Nat \ {0}
                           /\ Cardinality(Pages) >= Cardinality(Signals)

VARIABLES sent,     \* pthread_kill calls so far
          pending,  \* instances of each signal that wait for delivery
          frames,   \* the handlers at work, the innermost last
          pages,    \* the mapped pages: content and protection
          sigcount, count, failed,
          main,     \* "join", "exit", or "SIGSEGV"
          raised,   \* instances that became pending, ever
          stale     \* some call has executed something else than was stored

sender == <<sent, raised>>
vars == <<sent, raised, pending, frames, pages, sigcount, count, failed, main, stale>>

NumSends == (Len(signals) + 1) * Sends

\* The signal of the n-th pthread_kill.
SignalOf(n) == IF n <= Len(signals) * Sends
               THEN signals[((n - 1) \div Sends) + 1]
               ELSE signals[((n - 1 - Len(signals) * Sends) % Len(signals)) + 1]

Init == /\ sent = 0 /\ raised = 0
        /\ pending = [s \in Signals |-> 0]
        /\ frames = <<>> /\ pages = <<>>
        /\ sigcount = 0 /\ count = 0 /\ failed = FALSE
        /\ main = "join" /\ stale = FALSE
-----------------------------------------------------------------------------
\* A standard signal that is pending already is not queued again; a real-time
\* signal is, up to the limit, beyond which pthread_kill fails unnoticed.
Capacity(s) == IF s \in RealTime THEN QueueLimit ELSE 1

Send ==
  /\ main = "join" /\ sent < NumSends
  /\ sent' = sent + 1
  /\ LET s == SignalOf(sent + 1)
     IN  IF pending[s] < Capacity(s)
         THEN pending' = [pending EXCEPT ![s] = @ + 1] /\ raised' = raised + 1
         ELSE UNCHANGED <<pending, raised>>
  /\ UNCHANGED <<frames, pages, sigcount, count, failed, main, stale>>

Masked(s) == \E i \in DOMAIN frames : frames[i].sig = s

\* sig_handler(): count, then mmap a page.
Deliver(s) ==
  /\ main = "join" /\ pending[s] > 0 /\ ~Masked(s)
  /\ pending' = [pending EXCEPT ![s] = @ - 1]
  /\ sigcount' = sigcount + 1
  /\ \E p \in Pages \ DOMAIN pages :
       /\ pages' = [q \in DOMAIN pages \cup {p} |->
                      IF q = p THEN [content |-> "none", prot |-> RWX] ELSE pages[q]]
       /\ frames' = Append(frames, [sig |-> s, page |-> p, k |-> 0, step |-> 1, wrong |-> FALSE])
  /\ UNCHANGED <<sender, count, failed, main, stale>>

Top == frames[Len(frames)]
Page == pages[Top.page]
SetTop(f) == [frames EXCEPT ![Len(frames)] = f]

InRoutine(op) == /\ main = "join" /\ frames # <<>>
                 /\ Top.step \in 1 .. Len(Script) /\ Script[Top.step].op = op
                 /\ main' = IF Allowed(Script[Top.step], Page.prot) THEN main ELSE "SIGSEGV"

DoStore == /\ InRoutine("store")
           /\ pages' = [pages EXCEPT ![Top.page].content = Script[Top.step].byte]
           /\ frames' = SetTop([Top EXCEPT !.step = @ + 1])
           /\ UNCHANGED <<sender, pending, sigcount, count, failed, stale>>

\* The machine executes what was stored, or something else.
DoCall == /\ InRoutine("call")
          /\ \E executed \in {Page.content, "stale"} :
               /\ frames' = SetTop([Top EXCEPT !.step = @ + 1,
                    !.wrong = @ \/ executed # Expected[Script[Top.step].k]])
               /\ stale' = (stale \/ executed = "stale")
          /\ UNCHANGED <<sender, pending, pages, sigcount, count, failed>>

DoMprotect == /\ InRoutine("mprotect")
              /\ pages' = [pages EXCEPT ![Top.page].prot = Script[Top.step].prot]
              /\ frames' = SetTop([Top EXCEPT !.step = @ + 1])
              /\ UNCHANGED <<sender, pending, sigcount, count, failed, stale>>

RoutineEnds == main = "join" /\ frames # <<>> /\ Top.step > Len(Script)

\* Compare the four results, count the iteration and start the next.
NextIteration ==
  /\ RoutineEnds /\ Top.k < Iterations - 1
  /\ failed' = (failed \/ Top.wrong)
  /\ count' = count + 1
  /\ frames' = SetTop([Top EXCEPT !.k = @ + 1, !.step = 1, !.wrong = FALSE])
  /\ UNCHANGED <<sender, pending, pages, sigcount, main, stale>>

\* Bug: the page stays mapped.
HandlerLeaks ==
  /\ RoutineEnds /\ Top.k = Iterations - 1
  /\ failed' = (failed \/ Top.wrong)
  /\ count' = count + 1
  /\ frames' = SubSeq(frames, 1, Len(frames) - 1)
  /\ UNCHANGED <<sender, pending, pages, sigcount, main, stale>>

\* Bug: the last iteration's verdict replaces the ones of other handlers.
HandlerReturnsOverwrites ==
  /\ RoutineEnds /\ Top.k = Iterations - 1
  /\ failed' = Top.wrong
  /\ count' = count + 1
  /\ pages' = [q \in DOMAIN pages \ {Top.page} |-> pages[q]]
  /\ frames' = SubSeq(frames, 1, Len(frames) - 1)
  /\ UNCHANGED <<sender, pending, sigcount, main, stale>>

\* Bug: the last iteration is not counted when it failed.
HandlerReturnsUncounted ==
  /\ RoutineEnds /\ Top.k = Iterations - 1
  /\ failed' = (failed \/ Top.wrong)
  /\ count' = IF Top.wrong THEN count ELSE count + 1
  /\ pages' = [q \in DOMAIN pages \ {Top.page} |-> pages[q]]
  /\ frames' = SubSeq(frames, 1, Len(frames) - 1)
  /\ UNCHANGED <<sender, pending, sigcount, main, stale>>

\* The last iteration; munmap and return.
HandlerReturns ==
  /\ RoutineEnds /\ Top.k = Iterations - 1
  /\ failed' = (failed \/ Top.wrong)
  /\ count' = count + 1
  /\ pages' = [q \in DOMAIN pages \ {Top.page} |-> pages[q]]
  /\ frames' = SubSeq(frames, 1, Len(frames) - 1)
  /\ UNCHANGED <<sender, pending, sigcount, main, stale>>

\* pthread_join returns when the thread has ended, but main() gets nowhere
\* before its pending signals are handled.
Exit ==
  /\ main = "join" /\ sent = NumSends
  /\ frames = <<>> /\ \A s \in Signals : pending[s] = 0
  /\ main' = "exit"
  /\ UNCHANGED <<sender, pending, frames, pages, sigcount, count, failed, stale>>

Handler == \/ \E s \in Signals : Deliver(s)
           \/ DoStore \/ DoCall \/ DoMprotect \/ NextIteration \/ HandlerReturns

Next == Send \/ Handler \/ Exit

Spec == Init /\ [][Next]_vars

\* The sending thread and main() are both scheduled.
FairSpec == Spec /\ WF_vars(Send) /\ WF_vars(Handler \/ Exit)
-----------------------------------------------------------------------------
TypeOK == /\ sent \in 0 .. NumSends /\ raised \in 0 .. NumSends
          /\ \A s \in Signals : pending[s] \in 0 .. Capacity(s)
          /\ \A i \in DOMAIN frames :
               /\ frames[i].sig \in Signals /\ frames[i].page \in Pages
               /\ frames[i].k \in 0 .. Iterations - 1
               /\ frames[i].step \in 1 .. Len(Script) + 1
          /\ DOMAIN pages \subseteq Pages
          /\ sigcount \in 0 .. NumSends /\ count \in 0 .. NumSends * Iterations
          /\ failed \in BOOLEAN /\ stale \in BOOLEAN
          /\ main \in {"join", "exit", "SIGSEGV"}

\* Wherever a handler is interrupted by another one, it finds its own page as
\* it left it: each handler at work has one mapping that no other one uses,
\* nothing else is mapped, and nobody is interrupted twice by the same signal.
HandlersAreIsolated ==
  /\ DOMAIN pages = {frames[i].page : i \in DOMAIN frames}
  /\ \A i, j \in DOMAIN frames :
       i # j => frames[i].page # frames[j].page /\ frames[i].sig # frames[j].sig

\* FAILED is reported only, and at the end always, when a call has executed
\* something else than what the interrupted or interrupting code had stored.
FailedTellsStaleness == /\ failed => stale
                        /\ main = "exit" => (failed <=> stale)

\* At the end every signal that was queued has been handled once, and each
\* handler has run all iterations.
EverySignalCounted ==
  main = "exit" => sigcount = raised /\ count = Iterations * sigcount

\* No sequence of nested handlers keeps the program from ending, and none ends it
\* with a fault: SIGSEGV, which has this handler too, comes from the sender only.
Terminates == <>(main = "exit")
=============================================================================
