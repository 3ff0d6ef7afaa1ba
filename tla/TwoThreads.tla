----------------------------- MODULE TwoThreads -------------------------------
(***************************************************************************)
(* Two programs whose main() sleeps to let its thread get somewhere first, *)
(* then acts upon it and joins it.                                         *)
(* src/smc-mt-2.cpp: the thread generates a function and calls it until it *)
(* returns something else; main() changes byte 3 of the function.          *)
(* src/tests/signal/pthread_cancel.cpp: the thread disables its            *)
(* cancellation, sleeps, and enables it before a longer sleep; main()      *)
(* cancels it.                                                             *)
(*                                                                         *)
(* Time is counted in ticks.  Nothing but the sleeps orders the threads:   *)
(* each may be late.                                                       *)
(***************************************************************************)
EXTENDS Naturals

CONSTANTS Sleep,        \* sleep(1) or sleep(2) of main(), in ticks
          Disabled,     \* sleep(5) of the thread
          Cancellable,  \* sleep(1000)
          MaxDelay,     \* bounds the ticks until the thread does anything
          MaxLate       \* bounds the ticks main() oversleeps

ASSUME TimesAssumption == /\ Sleep \in Nat /\ Disabled \in Nat /\ Cancellable \in Nat
                          /\ MaxDelay \in Nat /\ MaxLate \in Nat

Programs == {"smcmt2", "cancel"}

VARIABLES program,
          code3,     \* code[3] in memory: "00" until it is written
          view,      \* code[3] as the thread's fetches see it
          worker,    \* "store", "call", "loop"; "key", "disable", "disabled",
                     \* "cancellable", "unwind"; "done"
          main,      \* "sleep", "settle", "join", "done"
          timer,     \* ticks left of main()'s sleep
          wtimer,    \* ticks left of the thread's
          delay,     \* ticks until the thread did anything
          late,      \* ticks since main()'s sleep was over
          requested, \* the thread is to be cancelled
          specific,  \* the key's value is set
          dtors,     \* calls of key_dtor
          result     \* what pthread_join returns: "none", "NULL", "canceled"

clock == <<timer, wtimer, delay, late>>
code == <<code3, view>>
thread == <<requested, specific, dtors, result>>
vars == <<program, code, worker, main, clock, thread>>

First == IF program = "smcmt2" THEN "store" ELSE "key"

Init == /\ program \in Programs
        /\ code3 = "00" /\ view = "00"
        /\ worker = First
        /\ main = "sleep" /\ timer = Sleep
        /\ wtimer = 0 /\ delay = 0 /\ late = 0
        /\ requested = FALSE /\ specific = FALSE /\ dtors = 0 /\ result = "none"
-----------------------------------------------------------------------------
(* smc-mt-2.cpp *)

\* The thread's own stores are visible to its own fetches at once.
WorkerStores == /\ worker = "store"
                /\ code3' = "CC" /\ view' = "CC"
                /\ worker' = "call"
                /\ UNCHANGED <<program, main, clock, thread>>

\* The result of the first call is not looked at.
WorkerCalls == /\ worker = "call"
               /\ worker' = "loop"
               /\ UNCHANGED <<program, code, main, clock, thread>>

\* Bug: the loop ends after some calls.
WorkerGivesUp == /\ worker = "loop"
                 /\ worker' = "done"
                 /\ UNCHANGED <<program, code, main, clock, thread>>

\* while (fn() == 0xDDCCBBAA); the thread exits when it sees anything else.
WorkerLeavesLoop == /\ worker = "loop" /\ view # "CC"
                    /\ worker' = "done"
                    /\ UNCHANGED <<program, code, main, clock, thread>>

\* Another processor's store reaches the thread's instruction fetches later.
Propagate == /\ view # code3
             /\ view' = code3
             /\ UNCHANGED <<program, code3, worker, main, clock, thread>>

\* Bug: main() does not sleep before its store.
MainStoresAtOnce == /\ program = "smcmt2" /\ main = "sleep"
                    /\ code3' = "FE"
                    /\ main' = "settle" /\ timer' = Sleep
                    /\ UNCHANGED <<program, view, worker, wtimer, delay, late, thread>>

MainStores == /\ program = "smcmt2" /\ main = "sleep" /\ timer = 0
              /\ code3' = "FE"
              /\ main' = "settle" /\ timer' = Sleep
              /\ UNCHANGED <<program, view, worker, wtimer, delay, late, thread>>

\* "Should exit now"
MainAnnounces == /\ main = "settle" /\ timer = 0
                 /\ main' = "join"
                 /\ UNCHANGED <<program, code, worker, clock, thread>>
-----------------------------------------------------------------------------
(* pthread_cancel.cpp *)

\* Bug: the thread asks for its memory after the sleep.
WorkerKeysUnset == /\ worker = "key"
                   /\ worker' = "disable"
                   /\ UNCHANGED <<program, code, main, clock, thread>>

\* pthread_key_create, pthread_setspecific
WorkerKeys == /\ worker = "key"
              /\ specific' = TRUE
              /\ worker' = "disable"
              /\ UNCHANGED <<program, code, main, clock, requested, dtors, result>>

\* PTHREAD_CANCEL_DISABLE; no call so far was a cancellation point.
WorkerDisables == /\ worker = "disable"
                  /\ worker' = "disabled" /\ wtimer' = Disabled
                  /\ UNCHANGED <<program, code, main, timer, delay, late, thread>>

WorkerEnables == /\ worker = "disabled" /\ wtimer = 0
                 /\ worker' = "cancellable" /\ wtimer' = Cancellable
                 /\ UNCHANGED <<program, code, main, timer, delay, late, thread>>

\* Bug: a thread that has slept to the end does not look for a request.
WorkerCancelledAsleep == /\ worker = "cancellable" /\ requested /\ wtimer > 0
                         /\ worker' = "unwind" /\ result' = "canceled"
                         /\ UNCHANGED <<program, code, main, clock, requested, specific, dtors>>

\* A request that was made before, or that comes during the sleep.
WorkerCancelled == /\ worker = "cancellable" /\ requested
                   /\ worker' = "unwind" /\ result' = "canceled"
                   /\ UNCHANGED <<program, code, main, clock, requested, specific, dtors>>

\* "not canceled!"
WorkerReturns == /\ worker = "cancellable" /\ ~requested /\ wtimer = 0
                 /\ worker' = "unwind" /\ result' = "NULL"
                 /\ UNCHANGED <<program, code, main, clock, requested, specific, dtors>>

\* A thread that ends, either way, gives its value to the key's destructor.
WorkerUnwinds == /\ worker = "unwind"
                 /\ dtors' = IF specific THEN dtors + 1 ELSE dtors
                 /\ specific' = FALSE
                 /\ worker' = "done"
                 /\ UNCHANGED <<program, code, main, clock, requested, result>>

\* Bug: a thread that has disabled its cancellation misses the request.
MainCancelsEnabled == /\ program = "cancel" /\ main = "sleep" /\ timer = 0
                      /\ requested' = (worker = "cancellable")
                      /\ main' = "join"
                      /\ UNCHANGED <<program, code, worker, clock, specific, dtors, result>>

\* pthread_cancel
MainCancels == /\ program = "cancel" /\ main = "sleep" /\ timer = 0
               /\ requested' = TRUE
               /\ main' = "join"
               /\ UNCHANGED <<program, code, worker, clock, specific, dtors, result>>
-----------------------------------------------------------------------------
MainJoins == /\ main = "join" /\ worker = "done"
             /\ main' = "done"
             /\ UNCHANGED <<program, code, worker, clock, thread>>

\* Time passes for those who sleep and those who are late.
Idle == worker = First /\ delay < MaxDelay
Oversleeps == main = "sleep" /\ timer = 0 /\ late < MaxLate
Less(t) == IF t > 0 THEN t - 1 ELSE 0

Tick == /\ timer > 0 \/ wtimer > 0 \/ Idle \/ Oversleeps
        /\ worker = First => Idle
        /\ main = "sleep" /\ timer = 0 => Oversleeps
        /\ timer' = Less(timer) /\ wtimer' = Less(wtimer)
        /\ delay' = IF worker = First THEN delay + 1 ELSE delay
        /\ late' = IF Oversleeps THEN late + 1 ELSE late
        /\ UNCHANGED <<program, code, worker, main, thread>>

Worker == \/ WorkerStores \/ WorkerCalls \/ WorkerKeys \/ WorkerDisables
          \/ WorkerEnables \/ WorkerCancelled \/ WorkerReturns \/ WorkerUnwinds

Main == MainStores \/ MainAnnounces \/ MainCancels \/ MainJoins

Next == Worker \/ WorkerLeavesLoop \/ Propagate \/ Main \/ Tick

Spec == Init /\ [][Next]_vars

\* Both threads are scheduled, time passes and stores become visible.
FairSpec == /\ Spec /\ WF_vars(Worker) /\ WF_vars(WorkerLeavesLoop)
            /\ WF_vars(Propagate) /\ WF_vars(Main) /\ WF_vars(Tick)
-----------------------------------------------------------------------------
\* smc-mt-2.cpp: main()'s modification is not overwritten by a thread that gets
\* to its store before main() has slept.
ModificationSurvives ==
  program = "smcmt2" /\ main # "sleep" /\ delay < Sleep => code3 = "FE"

\* A thread that is later overwrites it, and never leaves its loop.
OverwrittenLoops ==
  main # "sleep" /\ code3 = "CC" => worker \in {"call", "loop"} /\ main # "done"

\* "Waiting for code to be modified": the thread does not exit before main()
\* has modified the code, whenever it starts to look.
ExitsOnlyWhenModified == program = "smcmt2" /\ worker = "done" => main # "sleep"

\* "Should exit now": once main() says so a thread in time exits and is joined.
ShouldExitNow == program = "smcmt2" /\ main = "join" /\ delay < Sleep ~> main = "done"

\* pthread_cancel.cpp, "thread wasn't canceled (shouldn't happen!)": the thread
\* that is joined was cancelled, however late it began, unless main() has
\* overslept by all of the time that the thread is there.
ShouldntHappen ==
  program = "cancel" /\ main = "done" /\ Sleep + late < Disabled + Cancellable =>
    result = "canceled"

\* The value of the key has been destroyed, once, when the thread is joined; a
\* request that meets the thread before it has set the value does not lose it.
DestroyedBeforeJoin == program = "cancel" /\ main = "done" => dtors = 1 /\ ~specific

\* The join of the cancelled thread returns.
CancelledIsJoined == program = "cancel" => <>(main = "done")
=============================================================================
