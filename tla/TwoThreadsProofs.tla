--------------------------- MODULE TwoThreadsProofs ----------------------------
(***************************************************************************)
(* What the sleeps of the two programs are worth, for every length of them *)
(* and however late the threads are.                                       *)
(***************************************************************************)
EXTENDS TwoThreads, TLAPS

Workers(p) == IF p = "smcmt2" THEN {"store", "call", "loop", "done"}
              ELSE {"key", "disable", "disabled", "cancellable", "unwind", "done"}

TypeOK == /\ program \in Programs
          /\ worker \in Workers(program)
          /\ main \in {"sleep", "settle", "join", "done"}
          /\ timer \in Nat /\ wtimer \in Nat /\ delay \in Nat /\ late \in Nat
          /\ dtors \in Nat /\ requested \in BOOLEAN /\ specific \in BOOLEAN

\* How long main() has been asleep.
Elapsed == Sleep - timer + late
Asleep == main = "sleep" => timer <= Sleep /\ (timer > 0 => late = 0)

\* A thread that has not begun is as late as main() has slept, or later.
DelayIsElapsed ==
  worker = First => /\ main = "sleep" => delay = Elapsed
                    /\ main # "sleep" => delay >= Sleep

\* Of a thread that began in time, the store comes before main()'s.
ThreadFirst == program = "smcmt2" /\ main # "sleep" => (code3 = "FE" \/ delay >= Sleep)

\* The thread sees its own byte until main()'s is there.
OwnByteSeen ==
  /\ code3 = "CC" => view = "CC" /\ worker \in {"call", "loop"}
  /\ program = "smcmt2" =>
       /\ main = "sleep" /\ worker # "store" => code3 = "CC"
       /\ worker = "done" => main # "sleep"
       /\ main = "done" => worker = "done"

\* The thread's sleeps cannot be over before their time.
SleepsLast ==
  program = "cancel" =>
    /\ main = "sleep" => /\ ~requested
                         /\ worker = "disabled" => Elapsed >= Disabled - wtimer
                         /\ worker = "cancellable" => Elapsed >= Disabled + Cancellable - wtimer
                         /\ worker \in {"unwind", "done"} => Elapsed >= Disabled + Cancellable
    /\ main # "sleep" => requested
    /\ main # "sleep" /\ worker \in {"unwind", "done"} /\ result # "canceled" =>
         Sleep + late >= Disabled + Cancellable
    /\ main = "done" => worker = "done"

\* The value of the key is there until the thread unwinds.
KeyIsKept ==
  program = "cancel" =>
    /\ worker = "key" => ~specific /\ dtors = 0
    /\ worker \in {"disable", "disabled", "cancellable", "unwind"} => specific /\ dtors = 0
    /\ worker = "done" => ~specific /\ dtors = 1

IInv == TypeOK /\ Asleep /\ DelayIsElapsed /\ ThreadFirst /\ OwnByteSeen /\ SleepsLast /\ KeyIsKept

LEMMA Invariance == Spec => []IInv
<1>1. Init => IInv
  <2> SUFFICES ASSUME Init PROVE IInv
    OBVIOUS
  <2>1. TypeOK
    BY TimesAssumption DEF Init, TypeOK, Programs, First, Workers
  <2>2. Asleep /\ DelayIsElapsed /\ ThreadFirst /\ OwnByteSeen
    BY TimesAssumption DEF Init, OwnByteSeen, Programs, First, Asleep, DelayIsElapsed, Elapsed, ThreadFirst
  <2>3. SleepsLast /\ KeyIsKept
    BY DEF Init, First, SleepsLast, KeyIsKept
  <2> QED
    BY <2>1, <2>2, <2>3 DEF IInv
<1>2. IInv /\ [Next]_vars => IInv'
  <2> SUFFICES ASSUME IInv, [Next]_vars PROVE IInv'
    OBVIOUS
  <2> USE TimesAssumption DEF IInv, TypeOK, Programs, First, Workers, Asleep, DelayIsElapsed,
                              Elapsed, ThreadFirst, OwnByteSeen, SleepsLast, KeyIsKept, code, clock,
                              thread
  <2>1. CASE WorkerStores
    BY <2>1 DEF WorkerStores
  <2>2. CASE WorkerCalls
    BY <2>2 DEF WorkerCalls
  <2>3. CASE WorkerLeavesLoop \/ Propagate
    BY <2>3 DEF WorkerLeavesLoop, Propagate
  <2>4. CASE MainStores
    BY <2>4 DEF MainStores
  <2>5. CASE MainAnnounces
    BY <2>5 DEF MainAnnounces
  <2>6. CASE WorkerKeys
    BY <2>6 DEF WorkerKeys
  <2>7. CASE WorkerDisables
    BY <2>7 DEF WorkerDisables
  <2>8. CASE WorkerEnables
    BY <2>8 DEF WorkerEnables
  <2>9. CASE WorkerCancelled
    BY <2>9 DEF WorkerCancelled
  <2>10. CASE WorkerReturns
    BY <2>10 DEF WorkerReturns
  <2>11. CASE WorkerUnwinds
    <3>1. worker = "unwind" /\ worker' = "done" /\ program = "cancel"
      BY <2>11 DEF WorkerUnwinds
    <3>2. KeyIsKept'
      <4>1. specific /\ dtors = 0
        BY <3>1
      <4>2. dtors' = 1 /\ specific' = FALSE
        BY <2>11, <4>1 DEF WorkerUnwinds
      <4> QED
        BY <3>1, <4>2
    <3>3. UNCHANGED <<program, code3, view, main, timer, wtimer, delay, late, requested, result>>
      BY <2>11 DEF WorkerUnwinds
    <3>4. dtors' \in Nat /\ specific' \in BOOLEAN
      <4>1. dtors' = dtors \/ dtors' = dtors + 1
        BY <2>11 DEF WorkerUnwinds
      <4>2. specific' = FALSE
        BY <2>11 DEF WorkerUnwinds
      <4>3. dtors' \in Nat
        BY <4>1
      <4>4. specific' \in BOOLEAN
        BY <4>2
      <4> QED
        BY <4>3, <4>4
    <3> QED
      BY <3>1, <3>2, <3>3, <3>4
  <2>12. CASE MainCancels
    BY <2>12 DEF MainCancels
  <2>13. CASE MainJoins
    BY <2>13 DEF MainJoins
  <2>14. CASE Tick
    BY <2>14 DEF Tick, Idle, Oversleeps, Less
  <2>15. CASE UNCHANGED vars
    BY <2>15 DEF vars
  <2> QED
    BY <2>1, <2>2, <2>3, <2>4, <2>5, <2>6, <2>7, <2>8, <2>9, <2>10, <2>11, <2>12, <2>13, <2>14,
       <2>15 DEF Next, Worker, Main
<1> QED
  BY <1>1, <1>2, PTL DEF Spec

\* When the thread gets to its store before main() has slept, main()'s
\* modification of byte 3 is never overwritten.
THEOREM SleepSuffices == Spec => []ModificationSurvives
<1>1. IInv => ModificationSurvives
  BY TimesAssumption DEF IInv, TypeOK, ThreadFirst, ModificationSurvives
<1> QED
  BY <1>1, Invariance, PTL

\* A thread that stores after main() never leaves its loop.
THEOREM LateThreadLoops == Spec => []OverwrittenLoops
<1>1. IInv => OverwrittenLoops
  BY DEF IInv, TypeOK, Programs, Workers, OwnByteSeen, SleepsLast, OverwrittenLoops
<1> QED
  BY <1>1, Invariance, PTL

\* The thread does not leave its loop before main() has modified the code.
THEOREM LoopWaits == Spec => []ExitsOnlyWhenModified
<1>1. IInv => ExitsOnlyWhenModified
  BY DEF IInv, OwnByteSeen, ExitsOnlyWhenModified
<1> QED
  BY <1>1, Invariance, PTL

\* The cancelled thread was cancelled, unless main() has overslept by the
\* thread's whole life.
THEOREM AlwaysCanceled == Spec => []ShouldntHappen
<1>1. IInv => ShouldntHappen
  BY TimesAssumption DEF IInv, TypeOK, SleepsLast, ShouldntHappen
<1> QED
  BY <1>1, Invariance, PTL

\* The key's value has been destroyed once when the thread is joined.
THEOREM DestroyedOnce == Spec => []DestroyedBeforeJoin
<1>1. IInv => DestroyedBeforeJoin
  BY DEF IInv, KeyIsKept, SleepsLast, DestroyedBeforeJoin
<1> QED
  BY <1>1, Invariance, PTL
-----------------------------------------------------------------------------
\* What is left to happen: ticks of the sleeps and of the lateness, and steps of the
\* two threads; main()'s store may have to become visible after it.
ToSleep == /\ delay <= MaxDelay /\ late <= MaxLate
           /\ view # code3 => main # "sleep"

SleepsAhead == (IF worker \in {"key", "disable"} THEN Disabled + Cancellable
                ELSE IF worker = "disabled" THEN Cancellable ELSE 0)
               + (IF main = "sleep" THEN Sleep ELSE 0)
TicksLeft == timer + wtimer + SleepsAhead + (MaxDelay - delay) + (MaxLate - late)
WorkerStage == CASE worker = "key" -> 5 [] worker = "disable" -> 4
                 [] worker \in {"disabled", "store"} -> 3
                 [] worker \in {"cancellable", "call"} -> 2
                 [] worker \in {"unwind", "loop"} -> 1 [] OTHER -> 0
MainStage == CASE main = "sleep" -> 3 [] main = "settle" -> 2 [] main = "join" -> 1 [] OTHER -> 0
Unseen == IF view # code3 THEN 1 ELSE 0
Left == TicksLeft + 2 * (WorkerStage + MainStage) + Unseen

LeftIsNat == Left \in Nat
LeftShrinks == Left' < Left

LEMMA Bounded == Spec => []ToSleep
<1>1. Init => ToSleep
  BY TimesAssumption DEF Init, ToSleep
<1>2. IInv /\ IInv' /\ ToSleep /\ [Next]_vars => ToSleep'
  <2> SUFFICES ASSUME IInv, IInv', ToSleep, [Next]_vars PROVE ToSleep'
    OBVIOUS
  <2> USE TimesAssumption DEF ToSleep, IInv, TypeOK, clock, code
  <2>1. CASE Worker
    BY <2>1 DEF Worker, WorkerStores, WorkerCalls, WorkerKeys, WorkerDisables, WorkerEnables,
                WorkerCancelled, WorkerReturns, WorkerUnwinds
  <2>2. CASE Main
    BY <2>2 DEF Main, MainStores, MainAnnounces, MainCancels, MainJoins
  <2>3. CASE WorkerLeavesLoop \/ Propagate \/ UNCHANGED vars
    BY <2>3 DEF WorkerLeavesLoop, Propagate, vars
  <2>4. CASE Tick
    BY <2>4 DEF Tick, Idle, Oversleeps
  <2> QED
    BY <2>1, <2>2, <2>3, <2>4 DEF Next
<1> QED
  BY <1>1, <1>2, Invariance, PTL DEF Spec

LEMMA Numbers ==
  ASSUME IInv, ToSleep
  PROVE  /\ WorkerStage \in 0 .. 5 /\ MainStage \in 0 .. 3 /\ Unseen \in 0 .. 1
         /\ SleepsAhead \in Nat /\ TicksLeft \in Nat /\ Left \in Nat
<1>1. WorkerStage \in 0 .. 5 /\ MainStage \in 0 .. 3 /\ Unseen \in 0 .. 1
  BY DEF WorkerStage, MainStage, Unseen
<1>2. SleepsAhead \in Nat
  BY TimesAssumption DEF SleepsAhead
<1>3. TicksLeft \in Nat
  BY <1>2, TimesAssumption DEF TicksLeft, IInv, TypeOK, ToSleep
<1> QED
  BY <1>1, <1>2, <1>3 DEF Left

LEMMA LessLeft ==
  ASSUME NEW t \in Nat, NEW t2 \in Nat, NEW w \in 0 .. 5, NEW w2 \in 0 .. 5,
         NEW m \in 0 .. 3, NEW m2 \in 0 .. 3, NEW u \in 0 .. 1, NEW u2 \in 0 .. 1,
         \/ t2 <= t /\ w2 + m2 < w + m
         \/ t2 = t /\ w2 = w /\ m2 = m /\ u2 < u
         \/ t2 < t /\ w2 = w /\ m2 = m /\ u2 = u
  PROVE  t2 + 2 * (w2 + m2) + u2 < t + 2 * (w + m) + u
OBVIOUS

LEMMA LeftGetsLess == IInv /\ IInv' /\ ToSleep /\ ToSleep' /\ Next => LeftShrinks
<1> SUFFICES ASSUME IInv, IInv', ToSleep, ToSleep', Next PROVE LeftShrinks
  OBVIOUS
<1>1. /\ WorkerStage \in 0 .. 5 /\ MainStage \in 0 .. 3 /\ Unseen \in 0 .. 1
      /\ SleepsAhead \in Nat /\ TicksLeft \in Nat
  BY Numbers
<1>2. (/\ WorkerStage \in 0 .. 5 /\ MainStage \in 0 .. 3 /\ Unseen \in 0 .. 1
       /\ SleepsAhead \in Nat /\ TicksLeft \in Nat)'
  BY Numbers, PTL
<1>3. \/ /\ TicksLeft' <= TicksLeft
         /\ WorkerStage' + MainStage' < WorkerStage + MainStage
      \/ /\ TicksLeft' = TicksLeft
         /\ WorkerStage' = WorkerStage /\ MainStage' = MainStage /\ Unseen' < Unseen
      \/ /\ TicksLeft' < TicksLeft
         /\ WorkerStage' = WorkerStage /\ MainStage' = MainStage /\ Unseen' = Unseen
  <2> USE TimesAssumption DEF ToSleep, IInv, TypeOK, clock, code, TicksLeft, SleepsAhead
  <2>1. CASE Worker
    BY <2>1 DEF Worker, WorkerStores, WorkerCalls, WorkerKeys, WorkerDisables, WorkerEnables,
                WorkerCancelled, WorkerReturns, WorkerUnwinds, WorkerStage, MainStage
  <2>2. CASE WorkerLeavesLoop
    BY <2>2 DEF WorkerLeavesLoop, WorkerStage, MainStage
  <2>3. CASE Propagate
    BY <2>3 DEF Propagate, WorkerStage, MainStage, Unseen
  <2>4. CASE Main
    BY <2>4 DEF Main, MainStores, MainAnnounces, MainCancels, MainJoins, WorkerStage, MainStage
  <2>5. CASE Tick
    BY <2>5 DEF Tick, Idle, Oversleeps, Less, WorkerStage, MainStage, Unseen
  <2> QED
    BY <2>1, <2>2, <2>3, <2>4, <2>5 DEF Next
<1> QED
  BY <1>1, <1>2, <1>3, LessLeft, Zenon DEF LeftShrinks, Left

\* Whatever the sleeps and the lateness, every tick and every step that changes
\* anything leaves less of them: only the thread of smc-mt-2.cpp can go on for ever,
\* in calls that change nothing.
THEOREM TimeRunsOut == Spec => [](Left \in Nat) /\ [][Left' < Left]_vars
<1>1. IInv /\ ToSleep => LeftIsNat
  BY Numbers DEF LeftIsNat
<1>2. IInv /\ IInv' /\ ToSleep /\ ToSleep' /\ [Next]_vars => [LeftShrinks]_vars
  BY LeftGetsLess
<1>3. Spec => []LeftIsNat /\ [][LeftShrinks]_vars
  BY <1>1, <1>2, Invariance, Bounded, PTL DEF Spec
<1> QED
  BY <1>3 DEF LeftIsNat, LeftShrinks
-----------------------------------------------------------------------------
\* The guards: of Worker and WorkerLeavesLoop, of Main, and of Tick.
WorkerMay == \/ worker \in {"store", "call", "key", "disable", "unwind"}
             \/ worker = "disabled" /\ wtimer = 0
             \/ worker = "cancellable" /\ (requested \/ wtimer = 0)
             \/ worker = "loop" /\ view # "CC"
MainMay == \/ main \in {"sleep", "settle"} /\ timer = 0
           \/ main = "join" /\ worker = "done"
TimePasses == /\ timer > 0 \/ wtimer > 0 \/ Idle \/ Oversleeps
              /\ worker = First => Idle
              /\ main = "sleep" /\ timer = 0 => Oversleeps

\* The one wait without an end: main() joins a thread whose store came after its own.
WaitsForLoop == /\ program = "smcmt2" /\ main = "join" /\ worker = "loop"
                /\ code3 = "CC" /\ delay >= Sleep
WaitsOnlyForLoop ==
  main = "done" \/ WorkerMay \/ MainMay \/ TimePasses \/ view # code3 \/ WaitsForLoop

\* Either program gets stuck in one place only, and there only if its thread has not
\* begun before main()'s sleep was over (pthread_join in smc-mt-2.cpp).
THEOREM StuckOnlyInLoop == Spec => []WaitsOnlyForLoop
<1>1. IInv => WaitsOnlyForLoop
  <2> SUFFICES ASSUME IInv, main # "done", ~WorkerMay, ~MainMay, ~TimePasses, view = code3
               PROVE  WaitsForLoop
    BY DEF WaitsOnlyForLoop
  <2>1. timer \in Nat /\ wtimer \in Nat
    BY DEF IInv, TypeOK
  <2>2. worker # First
    BY DEF WorkerMay, First
  <2>3. timer = 0 /\ wtimer = 0
    BY <2>1, <2>2 DEF TimePasses, MainMay
  <2>4. main = "join" /\ worker # "done"
    BY <2>3 DEF MainMay, IInv, TypeOK
  <2>5. worker = "loop" /\ program = "smcmt2"
    BY <2>3, <2>4 DEF WorkerMay, IInv, TypeOK, Workers, Programs
  <2>6. code3 = "CC" /\ view = "CC"
    BY <2>5 DEF WorkerMay
  <2>7. delay >= Sleep
    BY <2>4, <2>5, <2>6 DEF IInv, ThreadFirst
  <2> QED
    BY <2>4, <2>5, <2>6, <2>7 DEF WaitsForLoop
<1> QED
  BY <1>1, Invariance, PTL
=============================================================================
