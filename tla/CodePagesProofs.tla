--------------------------- MODULE CodePagesProofs ---------------------------
(***************************************************************************)
(* Theorems about CodePages, for every block that is Sound and so, with    *)
(* BlocksAreSound, for every block of the test programs: whatever the      *)
(* machine executes at a call, and whenever the child runs, the processes  *)
(* are always in a state of one of the block's readings (OnOutline).       *)
(***************************************************************************)
EXTENDS CodeOutlines, TLAPS

\* Where a process stands, as a state of a reading.
Now(pr) == [space |-> space[pr], mem |-> mem, logged |-> Len(results)]

IsLog(s) == \E S : s \in Seq(S)

Types == /\ space = [pr \in Processes |-> space[pr]]
         /\ step \in [Processes -> Nat \ {0}]
         /\ status = [pr \in Processes |-> status[pr]]
         /\ IsLog(results)

\* The parent has no child: it has not forked, or its fork has failed.
Unforked == /\ status["child"] = "none" /\ step["child"] = 1
            /\ step["parent"] \in 1 .. Len(block.script) + 1
            /\ Now("parent") = Alone(block)[step["parent"]]

\* The child runs and the parent waits.
Waiting == /\ ForkAt(block) <= Len(block.script)
           /\ status["parent"] = "running" /\ status["child"] = "running"
           /\ step["parent"] = ForkAt(block) + 1
           /\ space["parent"] = AtFork(block).space
           /\ step["child"] \in 1 .. Len(block.child) + 1
           /\ Now("child") = OfChild(block)[step["child"]]

\* The child is through with its code.
Joined == /\ ForkAt(block) <= Len(block.script)
          /\ status["child"] = "exit" /\ step["child"] = Len(block.child) + 1
          /\ step["parent"] \in ForkAt(block) + 1 .. Len(block.script) + 1
          /\ Now("parent") = Resumed(block)[step["parent"]]

\* A block that is to end by a signal does not get past that step.
Ending == /\ status["parent"] \in {"running", block.ends}
          /\ \A n \in DOMAIN block.script : EndsByFault(block, n) => step["parent"] <= n

\* What was wanted is what was held, save behind a fork that has failed.
LogTold == \A i \in DOMAIN results :
             IF ForkFailed /\ i = 2 THEN results[i].want # results[i].held
             ELSE results[i].want = results[i].held

OnOutline == (Unforked \/ Waiting \/ Joined) /\ Ending /\ LogTold

\* A block with a handler has no verdicts, and no child.
Handled == /\ results = <<>> /\ status["child"] = "none"
           /\ status["parent"] \in {"running", "exit"}

IInv == /\ Types /\ Sound(block)
        /\ IF block.handler THEN Handled ELSE OnOutline
-----------------------------------------------------------------------------
\* A log that gets one result more.
LEMMA Logged ==
  ASSUME NEW s, IsLog(s), NEW r
  PROVE  /\ IsLog(Append(s, r))
         /\ Len(s) \in Nat /\ Len(Append(s, r)) = Len(s) + 1
         /\ DOMAIN s = 1 .. Len(s) /\ DOMAIN Append(s, r) = 1 .. Len(s) + 1
         /\ \A i \in DOMAIN s : Append(s, r)[i] = s[i]
         /\ Append(s, r)[Len(s) + 1] = r
<1>1. PICK S : s \in Seq(S)
  BY DEF IsLog
<1>2. s \in Seq(S \cup {r}) /\ Append(s, r) \in Seq(S \cup {r})
  BY <1>1
<1>3. QED
  BY <1>2 DEF IsLog

\* A step of a process on its own: what it does to the reading's state, and
\* that it does nothing else.
Advances(pr) ==
  /\ Ready(pr) /\ step' = [step EXCEPT ![pr] = @ + 1] /\ Op(pr).op \notin {"fork", "wait"}
  /\ RefusingIn(Now(pr), Op(pr)) = {}
  /\ space' = [space EXCEPT ![pr] = SpaceAfter(Now(pr), Op(pr))]
  /\ mem' = MemAfter(Now(pr), Op(pr))
  /\ IF Reads(Op(pr))
     THEN \E got : results' = Append(results, [want |-> Op(pr).want, got |-> got,
                                               held |-> Held(Now(pr), Op(pr))])
     ELSE UNCHANGED results
  /\ UNCHANGED <<block, status>>

\* The two ways to say what a step finds are one.
LEMMA FoundNow ==
  ASSUME NEW pr \in Processes
  PROVE  /\ \A p : Page(pr, p) = PageIn(Now(pr), p)
         /\ Refusing(pr) = RefusingIn(Now(pr), Op(pr))
         /\ \A p : Content(Page(pr, p)) = ContentIn(Now(pr), p)
         /\ \A p : Target(pr, p) = TargetIn(Now(pr), p)
<1>1. \A p : Page(pr, p) = PageIn(Now(pr), p)
  BY DEF Page, PageIn, Now
<1>2. Refusing(pr) = RefusingIn(Now(pr), Op(pr))
  BY DEF Now, Refusing, RefusingIn
<1>3. \A p : Content(Page(pr, p)) = ContentIn(Now(pr), p)
  BY <1>1 DEF Now, Content, ContentIn
<1>4. \A p : Target(pr, p) = TargetIn(Now(pr), p)
  BY <1>3 DEF Target, TargetIn
<1>5. QED
  BY <1>1, <1>2, <1>3, <1>4

\* A step without pages is refused none.
LEMMA NoPages ==
  ASSUME NEW s, NEW op, op.op \notin {"store", "call", "load"}
  PROVE  RefusingIn(s, op) = {}
  BY DEF RefusingIn, Pages

LEMMA RemapAdvances ==
  ASSUME NEW pr \in Processes,
         DoMmap(pr) \/ DoMunmap(pr) \/ DoMprotect(pr) \/ DoGrowsdown(pr) \/ DoShmdt(pr)
  PROVE  Advances(pr)
<1>1. PICK op \in {"mmap", "munmap", "mprotect", "growsdown", "shmdt"} :
        Step(pr, op) /\ UNCHANGED <<block, mem, status, results>>
        /\ space' = [space EXCEPT ![pr] = SpaceAfter(Now(pr), Op(pr))]
  <2>1. CASE DoMmap(pr)
    BY <2>1 DEF DoMmap, Remap, Step, SpaceAfter, Now
  <2>2. CASE DoMunmap(pr)
    BY <2>2 DEF DoMunmap, Remap, Step, SpaceAfter, Now
  <2>3. CASE DoMprotect(pr)
    BY <2>3 DEF DoMprotect, Remap, Step, SpaceAfter, Now
  <2>4. CASE DoGrowsdown(pr)
    BY <2>4 DEF DoGrowsdown, Remap, Step, SpaceAfter, Now
  <2>5. CASE DoShmdt(pr)
    BY <2>5 DEF DoShmdt, Remap, Step, SpaceAfter, Now
  <2>6. QED
    BY <2>1, <2>2, <2>3, <2>4, <2>5
<1>2. RefusingIn(Now(pr), Op(pr)) = {}
  BY <1>1, NoPages DEF Step
<1>3. QED
  BY <1>1, <1>2 DEF Advances, Step, MemAfter, Reads, Now

LEMMA MremapAdvances ==
  ASSUME Types, NEW pr \in Processes, DoMremap(pr)
  PROVE  Advances(pr)
<1>1. RefusingIn(Now(pr), Op(pr)) = {}
  BY NoPages DEF DoMremap, Step
<1>2. space' = [space EXCEPT ![pr] = SpaceAfter(Now(pr), Op(pr))]
  BY DEF DoMremap, Step, SpaceAfter, Held, Now, Types
<1>3. QED
  BY <1>1, <1>2 DEF DoMremap, Log, Advances, Step, MemAfter, Reads, Now, Held

LEMMA StoreAdvances ==
  ASSUME Types, NEW pr \in Processes, DoStore(pr) \/ DoWrite(pr)
  PROVE  Advances(pr)
<1>1. CASE DoStore(pr)
  <2>1. {Page(pr, p) : p \in Pages(Op(pr))} = {PageIn(Now(pr), p) : p \in Pages(Op(pr))}
    BY FoundNow
  <2>2. mem' = MemAfter(Now(pr), Op(pr))
    BY <1>1, <2>1 DEF DoStore, Step, MemAfter, Now
  <2>3. QED
    BY <1>1, <2>2, FoundNow DEF DoStore, Advances, Step, SpaceAfter, Reads, Now, Types
<1>2. CASE DoWrite(pr)
  <2>1. RefusingIn(Now(pr), Op(pr)) = {}
    BY <1>2, NoPages DEF DoWrite, Step
  <2>2. QED
    BY <1>2, <2>1 DEF DoWrite, Advances, Step, SpaceAfter, MemAfter, Reads, Now, Types
<1>3. QED
  BY <1>1, <1>2

LEMMA ReadAdvances ==
  ASSUME Types, NEW pr \in Processes, DoCall(pr) \/ DoLoad(pr)
  PROVE  Advances(pr)
<1>1. Op(pr).op \in {"call", "load"} /\ Ready(pr) /\ step' = [step EXCEPT ![pr] = @ + 1]
      /\ Refusing(pr) = {} /\ UNCHANGED <<block, space, mem, status>>
  BY DEF DoCall, DoLoad, Step
<1>2. \E got : results' = Append(results, [want |-> Op(pr).want, got |-> got,
                                           held |-> Held(Now(pr), Op(pr))])
  <2>1. CASE DoCall(pr)
    <3>1. Target(pr, Op(pr).page) = Held(Now(pr), Op(pr))
      BY <2>1, FoundNow DEF DoCall, Step, Held
    <3>2. QED
      BY <2>1, <3>1 DEF DoCall, Log
  <2>2. CASE DoLoad(pr)
    <3>1. Content(Page(pr, Op(pr).page)) = Held(Now(pr), Op(pr))
      BY <2>2, FoundNow DEF DoLoad, Step, Held
    <3>2. QED
      BY <2>2, <3>1 DEF DoLoad, Log
  <2>3. QED
    BY <2>1, <2>2
<1>3. space' = [space EXCEPT ![pr] = SpaceAfter(Now(pr), Op(pr))]
  BY <1>1 DEF SpaceAfter, Now, Types
<1>4. QED
  BY <1>1, <1>2, <1>3, FoundNow DEF Advances, MemAfter, Reads, Now

LEMMA ProcessAdvances ==
  ASSUME Types, NEW pr \in Processes, Process(pr)
  PROVE  Advances(pr) \/ Fault(pr) \/ Exit(pr)
  BY RemapAdvances, MremapAdvances, StoreAdvances, ReadAdvances DEF Process
-----------------------------------------------------------------------------
\* A step takes the reading's state one step on.
LEMMA AdvancesNow ==
  ASSUME Types, NEW pr \in Processes, Advances(pr)
  PROVE  /\ Types'
         /\ step'[pr] = step[pr] + 1 /\ step[pr] \in Nat
         /\ \A q \in Processes \ {pr} : step'[q] = step[q] /\ space'[q] = space[q]
         /\ Now(pr)' = After(Now(pr), Op(pr))
<1>1. /\ step'[pr] = step[pr] + 1 /\ step[pr] \in Nat /\ step' \in [Processes -> Nat \ {0}]
      /\ \A q \in Processes \ {pr} : step'[q] = step[q]
  BY DEF Types, Advances
<1>2. /\ space'[pr] = SpaceAfter(Now(pr), Op(pr))
      /\ \A q \in Processes \ {pr} : space'[q] = space[q]
      /\ space' = [q \in Processes |-> space'[q]]
  BY DEF Types, Advances
<1>3. IsLog(results') /\ Len(results') = IF Reads(Op(pr)) THEN Len(results) + 1 ELSE Len(results)
  <2>1. CASE Reads(Op(pr))
    <3>1. \E r : results' = Append(results, r)
      BY <2>1 DEF Advances
    <3>2. QED
      BY <2>1, <3>1, Logged DEF Types
  <2>2. CASE ~Reads(Op(pr))
    BY <2>2 DEF Advances, Types
  <2>3. QED
    BY <2>1, <2>2
<1>4. Types'
  BY <1>1, <1>2, <1>3 DEF Types, Advances
<1>5. Now(pr)' = After(Now(pr), Op(pr))
  BY <1>2, <1>3 DEF Now, After, Advances
<1>6. QED
  BY <1>1, <1>2, <1>4, <1>5

\* Neither fork nor wait changes what a reading is about.
LEMMA Pauses ==
  ASSUME NEW pr \in Processes, NEW op, op.op \in {"fork", "wait"}
  PROVE  After(Now(pr), op) = Now(pr) /\ RefusingIn(Now(pr), op) = {} /\ ~Reads(op)
<1>1. RefusingIn(Now(pr), op) = {}
  BY NoPages
<1>2. QED
  BY <1>1 DEF After, SpaceAfter, MemAfter, Reads, Now

\* The first n steps have forked when the fork is one of them.
LEMMA ForkBehind ==
  ASSUME NEW b, Sound(b), NEW n \in 0 .. Len(b.script)
  PROVE  (\E i \in 1 .. n : b.script[i].op = "fork") <=> n >= ForkAt(b)
<1>1. Len(b.script) \in Nat /\ DOMAIN b.script = 1 .. Len(b.script) /\ ForkAt(b) \in Nat
      /\ ForkAt(b) >= 1
  BY DEF Sound, IsCode
<1>2. \A i \in 1 .. n : b.script[i].op = "fork" <=> i = ForkAt(b)
  BY <1>1 DEF Sound
<1>3. QED
  BY <1>1, <1>2

LEMMA ForkFailedIs ==
  ASSUME Sound(block), step["parent"] \in 1 .. Len(block.script) + 1
  PROVE  ForkFailed <=> step["parent"] > ForkAt(block) /\ status["child"] = "none"
<1>1. Len(block.script) \in Nat /\ ForkAt(block) \in Nat
  BY DEF Sound, IsCode
<1>2. step["parent"] - 1 \in 0 .. Len(block.script)
  BY <1>1
<1>3. (\E i \in 1 .. step["parent"] - 1 : block.script[i].op = "fork")
        <=> step["parent"] - 1 >= ForkAt(block)
  BY <1>2, ForkBehind
<1>4. QED
  BY <1>1, <1>3 DEF ForkFailed

\* A result is told right when its step is exact, or was the only one to read
\* behind a fork that has failed.
LEMMA LogGrows ==
  ASSUME Types, LogTold, NEW pr \in Processes, Advances(pr), ForkFailed' <=> ForkFailed,
         Reads(Op(pr)) => IF ForkFailed THEN Len(results) = 1 /\ Op(pr).want # Held(Now(pr), Op(pr))
                          ELSE Op(pr).want = Held(Now(pr), Op(pr))
  PROVE  LogTold'
<1>1. CASE ~Reads(Op(pr))
  BY <1>1 DEF Advances, LogTold
<1>2. CASE Reads(Op(pr))
  <2>1. PICK got : results' = Append(results, [want |-> Op(pr).want, got |-> got,
                                               held |-> Held(Now(pr), Op(pr))])
    BY <1>2 DEF Advances
  <2> DEFINE r == [want |-> Op(pr).want, got |-> got, held |-> Held(Now(pr), Op(pr))]
  <2>2. IsLog(results)
    BY DEF Types
  <2>3. /\ Len(results) \in Nat
        /\ DOMAIN results = 1 .. Len(results) /\ DOMAIN results' = 1 .. Len(results) + 1
        /\ \A i \in DOMAIN results : results'[i] = results[i]
        /\ results'[Len(results) + 1] = r
    BY <2>1, <2>2, Logged
  <2>4. r.want = Op(pr).want /\ r.held = Held(Now(pr), Op(pr))
    OBVIOUS
  <2> HIDE DEF r
  <2>5. IF ForkFailed /\ Len(results) + 1 = 2 THEN r.want # r.held ELSE r.want = r.held
    <3>1. CASE ForkFailed
      <4>1. Len(results) = 1 /\ r.want # r.held
        BY <3>1, <1>2, <2>4, Zenon
      <4>2. Len(results) + 1 = 2
        BY <4>1
      <4> QED
        BY <3>1, <4>1, <4>2, Zenon
    <3>2. CASE ~ForkFailed
      <4>1. r.want = r.held
        BY <3>2, <1>2, <2>4, Zenon
      <4> QED
        BY <3>2, <4>1, Zenon
    <3> QED
      BY <3>1, <3>2, Zenon
  <2>6. QED
    <3> SUFFICES ASSUME NEW i \in DOMAIN results'
                 PROVE  IF ForkFailed /\ i = 2 THEN results'[i].want # results'[i].held
                        ELSE results'[i].want = results'[i].held
      BY Zenon DEF LogTold
    <3>1. CASE i \in DOMAIN results
      BY <3>1, <2>3, Zenon DEF LogTold
    <3>2. CASE i = Len(results) + 1
      BY <3>2, <2>3, <2>5, Zenon
    <3>3. i \in DOMAIN results \/ i = Len(results) + 1
      BY <2>3
    <3> QED
      BY <3>1, <3>2, <3>3, Zenon
<1>3. QED
  BY <1>1, <1>2
-----------------------------------------------------------------------------
\* What is known of a sound block without a handler.
LEMMA SoundFacts ==
  ASSUME NEW b, Sound(b)
  PROVE  /\ Len(b.script) \in Nat /\ DOMAIN b.script = 1 .. Len(b.script)
         /\ Len(b.child) \in Nat /\ DOMAIN b.child = 1 .. Len(b.child)
         /\ ForkAt(b) \in 1 .. Len(b.script) + 1
         /\ \A n \in 1 .. Len(b.script) : b.script[n].op = "fork" <=> n = ForkAt(b)
         /\ ~b.handler => AloneIsSound(b)
         /\ ~b.handler /\ ForkAt(b) <= Len(b.script) => ForkIsSound(b)
  BY DEF Sound, IsCode

\* The parent goes on without a child.
LEMMA AloneAdvances ==
  ASSUME Types, Sound(block), ~block.handler, Ending, LogTold, Unforked, Advances("parent")
  PROVE  Unforked' /\ Ending' /\ LogTold'
<1> DEFINE n == step["parent"]
           f == ForkAt(block)
<1>1. /\ n \in 1 .. Len(block.script) /\ Op("parent") = block.script[n] /\ n # f
      /\ status["parent"] = "running"
  <2>1. n \in 1 .. Len(block.script) /\ Op("parent") = block.script[n] /\ status["parent"] = "running"
    BY DEF Advances, Ready, Op, Code, Unforked
  <2>2. QED
    BY <2>1, SoundFacts DEF Advances
<1>2. Now("parent") = Alone(block)[n] /\ Now("parent")' = After(Now("parent"), Op("parent"))
      /\ step'["parent"] = n + 1 /\ step'["child"] = step["child"] /\ UNCHANGED <<block, status>>
  BY AdvancesNow DEF Unforked, Advances, Processes
<1>3. Unforked'
  <2>1. Alone(block)[n + 1] = After(Alone(block)[n], block.script[n])
    BY <1>1, SoundFacts DEF AloneIsSound, IsReading
  <2>2. QED
    BY <1>1, <1>2, <2>1, SoundFacts DEF Unforked
<1>4. Ending'
  <2>1. ~EndsByFault(block, n)
    BY <1>1, <1>2 DEF EndsByFault, Advances
  <2>2. \A m \in DOMAIN block.script : EndsByFault(block, m) => n + 1 <= m
    BY <1>1, <2>1, SoundFacts DEF Ending
  <2>3. QED
    BY <1>2, <2>2 DEF Ending
<1>5. LogTold'
  <2>1. (ForkFailed <=> n > f) /\ (ForkFailed' <=> n + 1 > f)
    <3>1. ForkFailed <=> n > f
      BY ForkFailedIs DEF Unforked
    <3>2. step'["parent"] - 1 = n /\ n \in 0 .. Len(block.script)
      BY <1>1, <1>2, SoundFacts
    <3>3. ForkFailed' <=> (\E i \in 1 .. n : block.script[i].op = "fork")
      BY <1>2, <3>2 DEF ForkFailed, Unforked
    <3>4. (\E i \in 1 .. n : block.script[i].op = "fork") <=> n >= f
      BY <3>2, ForkBehind
    <3>5. f \in Nat /\ n \in Nat
      BY <1>1, SoundFacts
    <3>6. QED
      BY <3>1, <3>3, <3>4, <3>5
  <2>2. ForkFailed' <=> ForkFailed
    BY <1>1, <2>1, SoundFacts
  <2>3. CASE n < f
    <3>1. Exact(Alone(block), block.script, n)
      BY <1>1, <2>3, SoundFacts DEF AloneIsSound
    <3>2. Reads(Op("parent")) => Op("parent").want = Held(Now("parent"), Op("parent"))
      BY <1>1, <1>2, <3>1 DEF Exact
    <3>3. ~ForkFailed
      BY <1>1, <2>1, <2>3, SoundFacts
    <3>4. QED
      BY <2>2, <3>2, <3>3, LogGrows DEF Processes
  <2>4. CASE n > f
    <3>1. ForkIsSound(block)
      BY <1>1, <2>4, SoundFacts
    <3>2. Reads(Op("parent")) => /\ Now("parent").logged = 1
                                 /\ Op("parent").want # Held(Now("parent"), Op("parent"))
      <4>1. n \in f + 1 .. Len(block.script)
        BY <1>1, <2>4, SoundFacts
      <4>2. Reads(block.script[n]) =>
              Alone(block)[n].logged = 1 /\ block.script[n].want # Held(Alone(block)[n], block.script[n])
        BY <3>1, <4>1 DEF ForkIsSound
      <4>3. QED
        BY <1>1, <1>2, <4>2
    <3>3. Now("parent").logged = Len(results)
      BY DEF Now
    <3>4. QED
      BY <2>1, <2>2, <2>4, <3>2, <3>3, LogGrows DEF Processes
  <2>5. QED
    BY <1>1, <2>3, <2>4, SoundFacts
<1>6. QED
  BY <1>3, <1>4, <1>5

\* The parent goes on with what the child has stored.
LEMMA JoinedAdvances ==
  ASSUME Types, Sound(block), ~block.handler, Ending, LogTold, Joined, Advances("parent")
  PROVE  Joined' /\ Ending' /\ LogTold'
<1> DEFINE n == step["parent"]
           f == ForkAt(block)
<1>1. /\ f \in 1 .. Len(block.script) /\ n \in f + 1 .. Len(block.script)
      /\ n \in 1 .. Len(block.script) /\ Op("parent") = block.script[n]
      /\ ForkIsSound(block)
  <2>1. f \in 1 .. Len(block.script) /\ n \in f + 1 .. Len(block.script) /\ ForkIsSound(block)
    BY SoundFacts DEF Advances, Ready, Code, Joined
  <2>2. QED
    BY <2>1, SoundFacts DEF Op, Code
<1>2. Now("parent") = Resumed(block)[n] /\ Now("parent")' = After(Now("parent"), Op("parent"))
      /\ step'["parent"] = n + 1 /\ step'["child"] = step["child"] /\ UNCHANGED <<block, status>>
  BY AdvancesNow DEF Joined, Advances, Processes
<1>3. Joined'
  <2>1. Resumed(block)[n + 1] = After(Resumed(block)[n], block.script[n])
    BY <1>1 DEF ForkIsSound, IsReading
  <2>2. n + 1 \in f + 1 .. Len(block.script) + 1
    BY <1>1, SoundFacts
  <2>3. QED
    BY <1>1, <1>2, <2>1, <2>2 DEF Joined
<1>4. Ending'
  BY <1>1, <1>2 DEF Ending, ForkIsSound, EndsByFault
<1>5. LogTold'
  <2>1. ~ForkFailed /\ ~ForkFailed'
    BY <1>2 DEF ForkFailed, Joined
  <2>2. Exact(Resumed(block), block.script, n)
    BY <1>1 DEF ForkIsSound
  <2>3. Reads(Op("parent")) => Op("parent").want = Held(Now("parent"), Op("parent"))
    BY <1>1, <1>2, <2>2 DEF Exact
  <2>4. QED
    BY <2>1, <2>3, LogGrows DEF Processes
<1>6. QED
  BY <1>3, <1>4, <1>5

\* The child runs through its code while the parent waits.
LEMMA ChildAdvances ==
  ASSUME Types, Sound(block), ~block.handler, Ending, LogTold, Waiting, Advances("child")
  PROVE  Waiting' /\ Ending' /\ LogTold'
<1> DEFINE n == step["child"]
<1>1. /\ n \in 1 .. Len(block.child) /\ Op("child") = block.child[n]
      /\ ForkIsSound(block)
  <2>1. n \in 1 .. Len(block.child) /\ ForkIsSound(block)
    BY SoundFacts DEF Advances, Ready, Code, Waiting
  <2>2. QED
    BY <2>1 DEF Op, Code
<1>2. /\ Now("child") = OfChild(block)[n] /\ Now("child")' = After(Now("child"), Op("child"))
      /\ step'["child"] = n + 1 /\ UNCHANGED <<block, status>>
      /\ step'["parent"] = step["parent"] /\ space'["parent"] = space["parent"]
  BY AdvancesNow DEF Waiting, Advances, Processes
<1>3. Waiting'
  <2>1. OfChild(block)[n + 1] = After(OfChild(block)[n], block.child[n])
    BY <1>1, SoundFacts DEF ForkIsSound, IsReading
  <2>2. n + 1 \in 1 .. Len(block.child) + 1
    BY <1>1, SoundFacts
  <2>3. QED
    BY <1>1, <1>2, <2>1, <2>2 DEF Waiting
<1>4. Ending'
  BY <1>2 DEF Ending
<1>5. LogTold'
  <2>1. ~ForkFailed /\ ~ForkFailed'
    BY <1>2 DEF ForkFailed, Waiting
  <2>2. Exact(OfChild(block), block.child, n)
    BY <1>1, SoundFacts DEF ForkIsSound
  <2>3. Reads(Op("child")) => Op("child").want = Held(Now("child"), Op("child"))
    BY <1>1, <1>2, <2>2 DEF Exact
  <2>4. QED
    BY <2>1, <2>3, LogGrows DEF Processes
<1>6. QED
  BY <1>3, <1>4, <1>5

\* Whatever phase a block without a handler is in, a step keeps it on a reading.
LEMMA AdvanceKeeps ==
  ASSUME IInv, ~block.handler, NEW pr \in Processes, Advances(pr)
  PROVE  IInv'
<1>1. Types /\ Sound(block) /\ OnOutline
  BY DEF IInv
<1>2. Types' /\ block' = block /\ status[pr] = "running"
  BY <1>1, AdvancesNow DEF Advances, Ready
<1>3. CASE pr = "parent" /\ Unforked
  BY <1>1, <1>2, <1>3, AloneAdvances DEF IInv, OnOutline
<1>4. CASE pr = "parent" /\ Waiting
  <2>1. Op("parent").op = "wait"
    BY <1>1, <1>4, SoundFacts DEF Op, Code, Waiting, ForkIsSound
  <2>2. QED
    BY <1>4, <2>1 DEF Advances
<1>5. CASE pr = "parent" /\ Joined
  BY <1>1, <1>2, <1>5, JoinedAdvances DEF IInv, OnOutline
<1>6. CASE pr = "child" /\ Waiting
  BY <1>1, <1>2, <1>6, ChildAdvances DEF IInv, OnOutline
<1>7. CASE pr = "child" /\ ~Waiting
  BY <1>1, <1>2, <1>7 DEF OnOutline, Unforked, Joined
<1>8. QED
  BY <1>1, <1>3, <1>4, <1>5, <1>6, <1>7 DEF OnOutline, Processes

\* The only access that is refused is the one that is to end the block.
LEMMA FaultKeeps ==
  ASSUME IInv, ~block.handler, NEW pr \in Processes, Fault(pr)
  PROVE  IInv'
<1>1. Types /\ Sound(block) /\ OnOutline
  BY DEF IInv
<1>2. /\ RefusingIn(Now(pr), Op(pr)) # {} /\ Ready(pr)
      /\ status' = [status EXCEPT ![pr] = Access(Now(pr).space, Min(RefusingIn(Now(pr), Op(pr))),
                                                 Need(Op(pr)))]
      /\ UNCHANGED <<block, mem, step, results, space>>
  BY FoundNow DEF Fault, Kill, Handle, Now
<1>3. CASE pr = "parent" /\ Unforked
  <2> DEFINE n == step["parent"]
  <2>1. n \in 1 .. Len(block.script) /\ Op("parent") = block.script[n]
    BY <1>2, <1>3 DEF Ready, Op, Code, Unforked
  <2>2. EndsByFault(block, n)
    BY <1>1, <1>2, <1>3, <2>1, SoundFacts DEF AloneIsSound, Passes, Unforked
  <2>3. status'["parent"] = block.ends /\ status'["child"] = status["child"]
        /\ status' = [q \in Processes |-> status'[q]]
    BY <1>1, <1>2, <1>3, <2>1, <2>2 DEF EndsByFault, Unforked, Types, Processes
  <2>4. Types' /\ Ending' /\ Unforked'
    BY <1>1, <1>2, <1>3, <2>3 DEF Types, OnOutline, Ending, Unforked, Now
  <2>5. LogTold'
    BY <1>1, <1>2, <2>3 DEF OnOutline, LogTold, ForkFailed
  <2>6. QED
    BY <1>1, <1>2, <2>4, <2>5 DEF IInv, OnOutline
<1>4. CASE pr = "parent" /\ Waiting
  <2>1. Op("parent").op = "wait"
    BY <1>1, <1>4, SoundFacts DEF IInv, Op, Code, Waiting, ForkIsSound
  <2>2. QED
    BY <1>2, <1>4, <2>1, NoPages
<1>5. CASE pr = "parent" /\ Joined
  <2>1. step["parent"] \in ForkAt(block) + 1 .. Len(block.script)
    BY <1>1, <1>2, <1>5, SoundFacts DEF Ready, Code, Joined
  <2>2. Passes(Resumed(block), block.script, step["parent"])
    BY <1>1, <1>5, <2>1, SoundFacts DEF IInv, ForkIsSound, Joined
  <2>3. QED
    BY <1>2, <1>5, <2>2 DEF Passes, Joined, Op, Code
<1>6. CASE pr = "child" /\ Waiting
  <2>1. step["child"] \in 1 .. Len(block.child)
    BY <1>1, <1>2, <1>6, SoundFacts DEF Ready, Code, Waiting
  <2>2. Passes(OfChild(block), block.child, step["child"])
    BY <1>1, <1>6, <2>1, SoundFacts DEF IInv, ForkIsSound, Waiting
  <2>3. QED
    BY <1>2, <1>6, <2>2 DEF Passes, Waiting, Op, Code
<1>7. CASE pr = "child" /\ ~Waiting
  BY <1>1, <1>2, <1>7 DEF Ready, OnOutline, Unforked, Joined
<1>8. QED
  BY <1>1, <1>3, <1>4, <1>5, <1>6, <1>7 DEF OnOutline, Processes

\* A process that has come to the end of its code.
LEMMA ExitKeeps ==
  ASSUME IInv, ~block.handler, NEW pr \in Processes, Exit(pr)
  PROVE  IInv'
<1>1. Types /\ Sound(block) /\ OnOutline
  BY DEF IInv
<1>2. /\ status[pr] = "running" /\ step[pr] > Len(Code(pr))
      /\ status'[pr] = "exit" /\ \A q \in Processes \ {pr} : status'[q] = status[q]
      /\ status' = [q \in Processes |-> status'[q]]
      /\ UNCHANGED <<block, space, mem, step, results>>
  BY <1>1 DEF Exit, Types
<1>3. Types'
  BY <1>1, <1>2 DEF Types
<1>4. CASE pr = "parent"
  <2>1. ~Waiting
    BY <1>1, <1>2, <1>4, SoundFacts DEF Code, Waiting, IInv, ForkIsSound
  <2>2. status'["child"] = status["child"]
    BY <1>2, <1>4 DEF Processes
  <2>3. block.ends = "exit"
    <3>1. \A n \in DOMAIN block.script : ~EndsByFault(block, n)
      BY <1>1, <1>2, <1>4, SoundFacts DEF Code, OnOutline, Ending, Types, Processes
    <3>2. QED
      BY <1>1, <3>1, SoundFacts DEF IInv, AloneIsSound
  <2>4. (Unforked => Unforked') /\ (Joined => Joined') /\ Ending'
    BY <1>1, <1>2, <1>4, <2>2, <2>3 DEF OnOutline, Unforked, Joined, Ending, Now
  <2>5. LogTold'
    BY <1>1, <1>2, <2>2 DEF OnOutline, LogTold, ForkFailed
  <2>6. QED
    BY <1>1, <1>2, <1>3, <2>1, <2>4, <2>5 DEF IInv, OnOutline
<1>5. CASE pr = "child"
  <2>1. Waiting /\ ForkIsSound(block) /\ ForkAt(block) \in 1 .. Len(block.script)
    BY <1>1, <1>2, <1>5, SoundFacts DEF IInv, OnOutline, Unforked, Joined, Waiting
  <2>2. step["child"] = Len(block.child) + 1
    BY <1>1, <1>2, <1>5, <2>1, SoundFacts DEF Code, Waiting
  <2>3. Now("parent") = ChildGone(block)
    BY <2>1, <2>2 DEF Waiting, Now, ChildGone
  <2>4. Resumed(block)[ForkAt(block) + 1] = ChildGone(block)
    BY <2>1 DEF ForkIsSound, IsReading
  <2>5. Joined'
    BY <1>1, <1>2, <1>5, <2>1, <2>2, <2>3, <2>4, SoundFacts DEF Joined, Waiting, Now
  <2>6. Ending'
    BY <1>1, <1>2, <1>5 DEF OnOutline, Ending, Processes
  <2>7. LogTold'
    BY <1>1, <1>2, <1>5, <2>1 DEF OnOutline, LogTold, ForkFailed, Waiting
  <2>8. QED
    BY <1>1, <1>2, <1>3, <2>5, <2>6, <2>7 DEF IInv, OnOutline
<1>6. QED
  BY <1>4, <1>5 DEF Processes

\* Before a fork that may fail there is at most one result.
LEMMA ForkKeeps ==
  ASSUME IInv, ~block.handler, DoFork \/ ForkFails
  PROVE  IInv'
<1> DEFINE f == ForkAt(block)
<1>1. Types /\ Sound(block) /\ OnOutline
  BY DEF IInv
<1>2. /\ Ready("parent") /\ Op("parent").op = "fork"
      /\ step' = [step EXCEPT !["parent"] = @ + 1]
      /\ UNCHANGED <<block, mem, results>>
  BY DEF DoFork, ForkFails, Step
<1>3. step["parent"] = f /\ Unforked
  <2>1. step["parent"] \in 1 .. Len(block.script)
    BY <1>1, <1>2, SoundFacts DEF Ready, Code, OnOutline, Unforked, Waiting, Joined
  <2>2. step["parent"] = f
    BY <1>1, <1>2, <2>1, SoundFacts DEF Op, Code
  <2>3. QED
    BY <1>1, <2>1, <2>2, SoundFacts DEF OnOutline, Waiting, Joined
<1>4. f \in 1 .. Len(block.script) /\ ForkIsSound(block) /\ AloneIsSound(block)
      /\ Op("parent") = block.script[f]
  BY <1>1, <1>2, <1>3, SoundFacts DEF Ready, Op, Code
<1>5. Now("parent") = AtFork(block) /\ Now("parent") = Alone(block)[f + 1]
  <2>1. Alone(block)[f + 1] = After(Alone(block)[f], block.script[f])
    BY <1>4 DEF AloneIsSound, IsReading
  <2>2. QED
    BY <1>2, <1>3, <1>4, <2>1, Pauses DEF Unforked, AtFork, Processes
<1>6. step' \in [Processes -> Nat \ {0}] /\ step'["parent"] = f + 1 /\ step'["child"] = step["child"]
  BY <1>1, <1>2, <1>3 DEF Types, Processes
<1>7. \A n \in DOMAIN block.script : EndsByFault(block, n) => f + 1 <= n
  <2>1. ~EndsByFault(block, f)
    BY <1>4 DEF EndsByFault, ForkIsSound
  <2>2. QED
    BY <1>1, <1>3, <1>4, <2>1, SoundFacts DEF OnOutline, Ending
<1>8. CASE DoFork
  <2>1. /\ status'["child"] = "running" /\ status'["parent"] = "running"
        /\ space'["child"] = space["parent"] /\ space'["parent"] = space["parent"]
        /\ space' = [q \in Processes |-> space'[q]] /\ status' = [q \in Processes |-> status'[q]]
    BY <1>1, <1>2, <1>8 DEF DoFork, Types, Processes, Ready
  <2>2. OfChild(block)[1] = AtFork(block) /\ Len(block.child) \in Nat
    BY <1>1, <1>4, SoundFacts DEF ForkIsSound, IsReading
  <2>3. Now("child")' = Now("parent")
    BY <1>2, <2>1 DEF Now
  <2>4. Waiting'
    BY <1>2, <1>3, <1>4, <1>5, <1>6, <2>1, <2>2, <2>3, SoundFacts DEF Waiting, Unforked, Now
  <2>5. LogTold'
    <3>1. ~ForkFailed
      BY <1>1, <1>3, <1>4, SoundFacts, ForkFailedIs DEF Unforked
    <3>2. ~ForkFailed'
      BY <2>1 DEF ForkFailed
    <3>3. QED
      BY <1>1, <1>2, <3>1, <3>2 DEF OnOutline, LogTold
  <2>6. Types' /\ Ending'
    BY <1>1, <1>2, <1>6, <1>7, <2>1 DEF Types, Ending, OnOutline
  <2>7. QED
    BY <1>1, <1>2, <2>4, <2>5, <2>6 DEF IInv, OnOutline
<1>9. CASE ForkFails
  <2>1. UNCHANGED <<space, status>>
    BY <1>9 DEF ForkFails
  <2>2. Unforked'
    BY <1>2, <1>3, <1>4, <1>5, <1>6, <2>1, SoundFacts DEF Unforked, Now
  <2>3. LogTold'
    <3>1. Len(results) <= 1 /\ DOMAIN results = 1 .. Len(results)
      BY <1>1, <1>3, <1>4, Logged DEF ForkIsSound, Unforked, Now, Types
    <3>2. ~ForkFailed
      BY <1>1, <1>3, <1>4, SoundFacts, ForkFailedIs DEF Unforked
    <3>3. QED
      BY <1>1, <1>2, <3>1, <3>2, Logged DEF OnOutline, LogTold, Types
  <2>4. Types' /\ Ending'
    BY <1>1, <1>2, <1>6, <1>7, <2>1 DEF Types, Ending, OnOutline
  <2>5. QED
    BY <1>1, <1>2, <2>2, <2>3, <2>4 DEF IInv, OnOutline
<1>10. QED
  BY <1>8, <1>9

\* The wait returns when there is no child, or when it is gone.
LEMMA WaitKeeps ==
  ASSUME IInv, ~block.handler, DoWait
  PROVE  IInv'
<1> DEFINE n == step["parent"]
<1>1. Types /\ Sound(block) /\ OnOutline
  BY DEF IInv
<1>2. /\ Ready("parent") /\ Op("parent").op = "wait" /\ status["child"] # "running"
      /\ step' = [step EXCEPT !["parent"] = @ + 1]
      /\ UNCHANGED <<block, space, mem, status, results>>
  BY DEF DoWait, Step
<1>3. /\ n \in 1 .. Len(block.script) /\ Op("parent") = block.script[n] /\ n # ForkAt(block)
      /\ (Unforked \/ Joined)
  <2>1. Unforked \/ Joined
    BY <1>1, <1>2 DEF OnOutline, Waiting
  <2>2. n \in 1 .. Len(block.script)
    BY <1>1, <1>2, <2>1, SoundFacts DEF Ready, Code, Unforked, Joined
  <2>3. QED
    BY <1>1, <1>2, <2>1, <2>2, SoundFacts DEF Op, Code
<1>4. /\ step' \in [Processes -> Nat \ {0}] /\ step'["parent"] = n + 1 /\ step'["child"] = step["child"]
      /\ Now("parent")' = Now("parent")
      /\ After(Now("parent"), Op("parent")) = Now("parent")
      /\ RefusingIn(Now("parent"), Op("parent")) = {}
  BY <1>1, <1>2, Pauses DEF Types, Processes, Now
<1>5. Types'
  BY <1>1, <1>2, <1>4 DEF Types
<1>6. CASE Unforked
  <2>1. Alone(block)[n + 1] = After(Alone(block)[n], block.script[n])
    BY <1>1, <1>3, SoundFacts DEF IInv, AloneIsSound, IsReading
  <2>2. Unforked'
    BY <1>1, <1>2, <1>3, <1>4, <1>6, <2>1, SoundFacts DEF Unforked
  <2>3. ~EndsByFault(block, n)
    BY <1>3, <1>4, <1>6 DEF EndsByFault, Unforked
  <2>4. Ending'
    BY <1>1, <1>2, <1>3, <1>4, <2>3, SoundFacts DEF OnOutline, Ending
  <2>5. ForkFailed' <=> ForkFailed
    <3>1. n \in 0 .. Len(block.script) /\ n - 1 \in 0 .. Len(block.script) /\ n \in Nat
          /\ step'["parent"] - 1 = n /\ ForkAt(block) \in Nat
      <4>1. n \in 1 .. Len(block.script)
        BY <1>3
      <4>2. Len(block.script) \in Nat /\ ForkAt(block) \in 1 .. Len(block.script) + 1
        BY <1>1, SoundFacts, Zenon
      <4>3. step'["parent"] = n + 1
        BY <1>4
      <4>4. QED
        BY <4>1, <4>2, <4>3
    <3>2. (\E i \in 1 .. n : block.script[i].op = "fork") <=> n >= ForkAt(block)
      BY <1>1, <3>1, ForkBehind
    <3>3. (\E i \in 1 .. n - 1 : block.script[i].op = "fork") <=> n - 1 >= ForkAt(block)
      BY <1>1, <3>1, ForkBehind
    <3>4. QED
      BY <1>2, <1>3, <3>1, <3>2, <3>3 DEF ForkFailed
  <2>6. LogTold'
    BY <1>1, <1>2, <2>5 DEF OnOutline, LogTold
  <2>7. QED
    BY <1>1, <1>2, <1>5, <2>2, <2>4, <2>6 DEF IInv, OnOutline
<1>7. CASE Joined
  <2>1. ForkIsSound(block) /\ ForkAt(block) \in 1 .. Len(block.script) /\ n \in ForkAt(block) + 1 .. Len(block.script)
    BY <1>1, <1>3, <1>7, SoundFacts DEF Joined
  <2>2. Resumed(block)[n + 1] = After(Resumed(block)[n], block.script[n])
    BY <2>1 DEF ForkIsSound, IsReading
  <2>3. n + 1 \in ForkAt(block) + 1 .. Len(block.script) + 1
    BY <1>1, <2>1, SoundFacts
  <2>4. Joined'
    BY <1>2, <1>3, <1>4, <1>7, <2>2, <2>3 DEF Joined
  <2>5. Ending'
    BY <1>1, <1>2, <2>1 DEF OnOutline, Ending, ForkIsSound, EndsByFault
  <2>6. LogTold'
    BY <1>1, <1>2, <1>7 DEF OnOutline, LogTold, ForkFailed, Joined
  <2>7. QED
    BY <1>1, <1>2, <1>5, <2>4, <2>5, <2>6 DEF IInv, OnOutline
<1>8. QED
  BY <1>3, <1>6, <1>7

\* A block with a handler only stores, and has nothing to report.
LEMMA HandledKeeps ==
  ASSUME IInv, block.handler, Next
  PROVE  IInv'
<1>1. Types /\ Sound(block) /\ Handled /\ block.ends = "exit"
      /\ \A n \in 1 .. Len(block.script) : block.script[n].op # "fork" /\ ~Reads(block.script[n])
  BY SoundFacts DEF IInv, Sound
<1>2. ASSUME NEW pr \in Processes, Ready(pr)
      PROVE  pr = "parent" /\ Op(pr).op # "fork" /\ ~Reads(Op(pr))
  <2>1. pr = "parent" /\ step["parent"] \in 1 .. Len(block.script)
    BY <1>1, <1>2, SoundFacts DEF Ready, Code, Handled, Processes, Types
  <2>2. QED
    BY <1>1, <2>1 DEF Op, Code
<1>3. Types' /\ Handled' /\ block' = block
  <2>1. ASSUME NEW pr \in Processes, Advances(pr)
        PROVE  Types' /\ Handled' /\ block' = block
    BY <1>1, <1>2, <2>1, AdvancesNow DEF Advances, Handled
  <2>2. ASSUME NEW pr \in Processes, Fault(pr)
        PROVE  Types' /\ Handled' /\ block' = block
    BY <1>1, <2>2 DEF Fault, Kill, Handle, Types, Handled
  <2>3. ASSUME NEW pr \in Processes, Exit(pr)
        PROVE  Types' /\ Handled' /\ block' = block
    <3>1. pr = "parent"
      BY <1>1, <2>3 DEF Exit, Handled, Processes
    <3>2. QED
      BY <1>1, <2>3, <3>1 DEF Exit, Types, Handled, Processes
  <2>4. ~DoFork /\ ~ForkFails
    BY <1>2 DEF DoFork, ForkFails, Step, Processes
  <2>5. CASE DoWait
    BY <1>1, <2>5 DEF DoWait, Step, Types, Handled, Processes
  <2>6. QED
    BY <1>1, <2>1, <2>2, <2>3, <2>4, <2>5, ProcessAdvances DEF Next
<1>4. QED
  BY <1>1, <1>3 DEF IInv
-----------------------------------------------------------------------------
LEMMA BeginsOnOutline ==
  ASSUME Begins, Sound(block)
  PROVE  IInv
<1>1. step["parent"] = 1 /\ step["child"] = 1 /\ status["child"] = "none"
      /\ status["parent"] = "running" /\ space["parent"] = <<>> /\ mem = <<>> /\ results = <<>>
  BY DEF Begins, Processes
<1>2. results \in Seq({}) /\ Len(results) = 0 /\ DOMAIN results = {}
  BY <1>1
<1>3. Types
  BY <1>2 DEF Begins, Types, Processes, IsLog
<1>4. CASE ~block.handler
  <2>1. Now("parent") = Start
    BY <1>1, <1>2 DEF Now, Start
  <2>2. Unforked
    BY <1>1, <1>4, <2>1, SoundFacts DEF Unforked, AloneIsSound, IsReading
  <2>3. Ending /\ LogTold
    BY <1>1, <1>2, SoundFacts DEF Ending, LogTold
  <2>4. QED
    BY <1>3, <1>4, <2>2, <2>3 DEF IInv, OnOutline
<1>5. CASE block.handler
  BY <1>1, <1>3, <1>5 DEF IInv, Handled
<1>6. QED
  BY <1>4, <1>5

LEMMA NextKeeps ==
  ASSUME IInv, [Next]_vars
  PROVE  IInv'
<1>1. CASE UNCHANGED vars
  BY <1>1 DEF vars, IInv, Types, Handled, OnOutline, Unforked, Waiting, Joined, Ending, LogTold,
              ForkFailed, Now
<1>2. CASE Next /\ block.handler
  BY <1>2, HandledKeeps
<1>3. CASE Next /\ ~block.handler
  <2>1. ASSUME NEW pr \in Processes, Process(pr)
        PROVE  IInv'
    BY <1>3, <2>1, ProcessAdvances, AdvanceKeeps, FaultKeeps, ExitKeeps DEF IInv
  <2>2. QED
    BY <1>3, <2>1, ForkKeeps, WaitKeeps DEF Next
<1>4. QED
  BY <1>1, <1>2, <1>3

\* What the invariant says of the verdicts: got may be anything, held is what
\* was wanted.
LEMMA ToldIsExact == IInv => VerdictsTellStaleness
<1> SUFFICES ASSUME IInv, NEW i \in DOMAIN results
             PROVE  LET stale == results[i].got # results[i].held
                    IN  IF ForkFailed /\ i = 2 THEN Fails(results[i]) \/ stale
                        ELSE Fails(results[i]) <=> stale
  BY DEF VerdictsTellStaleness
<1>1. CASE block.handler
  BY <1>1 DEF IInv, Handled
<1>2. CASE ~block.handler
  BY <1>2 DEF IInv, OnOutline, LogTold, Fails
<1>3. QED
  BY <1>1, <1>2

LEMMA OutlineEnds == IInv => EndsAsExpected
  BY DEF IInv, Sound, Handled, OnOutline, Unforked, Waiting, Joined, Ending, EndsAsExpected

\* The same holds of any block that is sound, not only of the test programs'.
THEOREM SoundBlocksAreRight ==
  Begins /\ Sound(block) /\ [][Next]_vars => [](VerdictsTellStaleness /\ EndsAsExpected)
<1>1. IInv => VerdictsTellStaleness /\ EndsAsExpected
  BY ToldIsExact, OutlineEnds
<1>2. QED
  BY <1>1, BeginsOnOutline, NextKeeps, PTL

LEMMA Inductive == Spec => []IInv
<1>1. Init => Sound(block) /\ Begins
  BY BlocksAreSound DEF Init
<1>2. QED
  BY <1>1, BeginsOnOutline, NextKeeps, PTL DEF Spec

\* Whatever the machine executes at a call and whenever the child runs, a
\* printed verdict says FAIL exactly when the machine has executed or loaded
\* something else than what the page held, save behind a fork that has failed.
THEOREM VerdictsAreExact == Spec => []VerdictsTellStaleness
  BY Inductive, ToldIsExact, PTL

\* No process dies of a signal but by the bus error that is expected, so every
\* store and call falls into a phase of the protections that allows it.
THEOREM NoneTripsOverItself == Spec => []EndsAsExpected
  BY Inductive, OutlineEnds, PTL
-----------------------------------------------------------------------------
\* The steps that are left.  The fork starts the child and counts for two.
On(st) == IF st = "running" THEN 1 ELSE 0
Steps(b, at, st) == 2 * (Len(b.script) + 1 - at["parent"]) + On(st["parent"])
                    + (Len(b.child) + 1 - at["child"]) + On(st["child"])
Left == Steps(block, step, status)
Unhandled == ~block.handler
Counted == Left \in Nat
Shrinks == Left' < Left

LEMMA OnIsBit == \A st : On(st) \in {0, 1}
  BY DEF On

\* Left and its next value, spelt out.
LEMMA LeftNow ==
  ASSUME UNCHANGED block
  PROVE  /\ Left = 2 * (Len(block.script) + 1 - step["parent"]) + On(status["parent"])
                   + (Len(block.child) + 1 - step["child"]) + On(status["child"])
         /\ Left' = 2 * (Len(block.script) + 1 - step'["parent"]) + On(status'["parent"])
                    + (Len(block.child) + 1 - step'["child"]) + On(status'["child"])
<1>1. block' = block
  OBVIOUS
<1>2. Left = 2 * (Len(block.script) + 1 - step["parent"]) + On(status["parent"])
                   + (Len(block.child) + 1 - step["child"]) + On(status["child"])
  BY DEF Left, Steps
<1>3. Left' = 2 * (Len(block'.script) + 1 - step'["parent"]) + On(status'["parent"])
                    + (Len(block'.child) + 1 - step'["child"]) + On(status'["child"])
  BY DEF Left, Steps
<1>4. QED
  BY <1>1, <1>2, <1>3

LEMMA SomeLeft ==
  ASSUME NEW a \in Nat, NEW b \in Nat, NEW p \in 1 .. a + 1, NEW c \in 1 .. b + 1,
         NEW x \in {0, 1}, NEW y \in {0, 1}
  PROVE  2 * (a + 1 - p) + x + (b + 1 - c) + y \in Nat
  OBVIOUS

LEMMA LeftIsNat == IInv /\ Unhandled => Counted
<1> SUFFICES ASSUME IInv, Unhandled PROVE Counted
  OBVIOUS
<1>1. /\ step["parent"] \in 1 .. Len(block.script) + 1 /\ step["child"] \in 1 .. Len(block.child) + 1
      /\ Len(block.script) \in Nat /\ Len(block.child) \in Nat
  <2>1. Sound(block) /\ ForkAt(block) \in 1 .. Len(block.script) + 1
        /\ Len(block.script) \in Nat /\ Len(block.child) \in Nat
    BY SoundFacts DEF IInv
  <2>2. Unforked \/ Waiting \/ Joined
    BY DEF IInv, OnOutline, Unhandled
  <2>3. CASE Unforked
    BY <2>1, <2>3 DEF Unforked
  <2>4. CASE Waiting
    BY <2>1, <2>4 DEF Waiting
  <2>5. CASE Joined
    BY <2>1, <2>5 DEF Joined
  <2>6. QED
    BY <2>2, <2>3, <2>4, <2>5
<1>2. On(status["parent"]) \in {0, 1} /\ On(status["child"]) \in {0, 1}
  BY OnIsBit
<1>3. QED
  BY <1>1, <1>2, SomeLeft, Zenon DEF Counted, Left, Steps

LEMMA LessLeft ==
  ASSUME NEW a \in Nat, NEW b \in Nat, NEW p \in Nat, NEW c \in Nat, NEW p2 \in Nat, NEW c2 \in Nat,
         NEW x \in {0, 1}, NEW y \in {0, 1}, NEW x2 \in {0, 1}, NEW y2 \in {0, 1},
         \/ p2 = p + 1 /\ c2 = c /\ x2 = x
         \/ p2 = p /\ c2 = c + 1 /\ x2 = x /\ y2 = y
         \/ p2 = p /\ c2 = c /\ x2 = x /\ y2 < y
         \/ p2 = p /\ c2 = c /\ x2 < x /\ y2 = y
  PROVE  2 * (a + 1 - p2) + x2 + (b + 1 - c2) + y2 < 2 * (a + 1 - p) + x + (b + 1 - c) + y
  OBVIOUS

LEMMA LeftShrinks == IInv /\ Unhandled /\ Next => Shrinks
<1> SUFFICES ASSUME IInv, Unhandled, Next PROVE Shrinks
  OBVIOUS
<1>1. /\ Types /\ Len(block.script) \in Nat /\ Len(block.child) \in Nat
      /\ step["parent"] \in Nat /\ step["child"] \in Nat
  BY SoundFacts DEF IInv, Types, Processes, Unhandled
<1>2. /\ On(status["parent"]) \in {0, 1} /\ On(status["child"]) \in {0, 1}
      /\ On(status'["parent"]) \in {0, 1} /\ On(status'["child"]) \in {0, 1}
  BY OnIsBit
<1>3. ASSUME UNCHANGED block, step'["parent"] \in Nat, step'["child"] \in Nat,
             \/ /\ step'["parent"] = step["parent"] + 1 /\ step'["child"] = step["child"]
                /\ On(status'["parent"]) = On(status["parent"])
             \/ /\ step'["parent"] = step["parent"] /\ step'["child"] = step["child"] + 1
                /\ On(status'["parent"]) = On(status["parent"]) /\ On(status'["child"]) = On(status["child"])
             \/ /\ step'["parent"] = step["parent"] /\ step'["child"] = step["child"]
                /\ On(status'["parent"]) = On(status["parent"]) /\ On(status'["child"]) < On(status["child"])
             \/ /\ step'["parent"] = step["parent"] /\ step'["child"] = step["child"]
                /\ On(status'["parent"]) < On(status["parent"]) /\ On(status'["child"]) = On(status["child"])
      PROVE  Shrinks
  <2> DEFINE a == Len(block.script)    b == Len(block.child)
             p == step["parent"]       c == step["child"]
             p2 == step'["parent"]     c2 == step'["child"]
             x == On(status["parent"])     y == On(status["child"])
             x2 == On(status'["parent"])   y2 == On(status'["child"])
  <2>1. /\ a \in Nat /\ b \in Nat /\ p \in Nat /\ c \in Nat /\ p2 \in Nat /\ c2 \in Nat
        /\ x \in {0, 1} /\ y \in {0, 1} /\ x2 \in {0, 1} /\ y2 \in {0, 1}
    BY <1>1, <1>2, <1>3
  <2>2. \/ p2 = p + 1 /\ c2 = c /\ x2 = x
        \/ p2 = p /\ c2 = c + 1 /\ x2 = x /\ y2 = y
        \/ p2 = p /\ c2 = c /\ x2 = x /\ y2 < y
        \/ p2 = p /\ c2 = c /\ x2 < x /\ y2 = y
    BY <1>3, Zenon
  <2>3. /\ Left = 2 * (a + 1 - p) + x + (b + 1 - c) + y
        /\ Left' = 2 * (a + 1 - p2) + x2 + (b + 1 - c2) + y2
    BY <1>3, LeftNow, Zenon
  <2> HIDE DEF a, b, p, c, p2, c2, x, y, x2, y2
  <2>4. QED
    BY <2>1, <2>2, <2>3, LessLeft DEF Shrinks
<1>4. ASSUME NEW pr \in Processes, Advances(pr)
      PROVE  Shrinks
  <2>1. /\ step'[pr] = step[pr] + 1 /\ \A q \in Processes \ {pr} : step'[q] = step[q]
        /\ UNCHANGED <<block, status>>
    BY <1>1, <1>4, AdvancesNow DEF Advances
  <2>2. pr = "parent" \/ pr = "child"
    BY DEF Processes
  <2>3. CASE pr = "parent"
    BY <1>1, <1>3, <2>1, <2>3 DEF Processes
  <2>4. CASE pr = "child"
    BY <1>1, <1>3, <2>1, <2>4 DEF Processes
  <2>5. QED
    BY <2>2, <2>3, <2>4
<1>5. ASSUME NEW pr \in Processes, Fault(pr) \/ Exit(pr)
      PROVE  Shrinks
  <2>1. /\ UNCHANGED <<block, step>> /\ status[pr] = "running" /\ status'[pr] # "running"
        /\ \A q \in Processes \ {pr} : status'[q] = status[q]
    <3>1. CASE Exit(pr)
      BY <1>1, <3>1 DEF Exit, Types
    <3>2. CASE Fault(pr)
      <4>1. \A p, need : Access(space[pr], p, need) # "running"
        BY DEF Access
      <4>2. QED
        BY <1>1, <3>2, <4>1 DEF Fault, Kill, Handle, Ready, Types, Unhandled
    <3>3. QED
      BY <1>5, <3>1, <3>2
  <2>2. On(status[pr]) = 1 /\ On(status'[pr]) = 0
    BY <2>1 DEF On
  <2>3. pr = "parent" \/ pr = "child"
    BY DEF Processes
  <2>4. CASE pr = "parent"
    BY <1>1, <1>3, <2>1, <2>2, <2>4 DEF Processes
  <2>5. CASE pr = "child"
    BY <1>1, <1>3, <2>1, <2>2, <2>5 DEF Processes
  <2>6. QED
    BY <2>3, <2>4, <2>5
<1>6. CASE DoFork
  <2>1. /\ step'["parent"] = step["parent"] + 1 /\ step'["child"] = step["child"]
        /\ block' = block /\ status'["parent"] = status["parent"]
    BY <1>1, <1>6 DEF DoFork, Step, Types, Processes
  <2>2. QED
    BY <1>1, <1>3, <2>1
<1>7. CASE ForkFails \/ DoWait
  <2>1. /\ step'["parent"] = step["parent"] + 1 /\ step'["child"] = step["child"]
        /\ UNCHANGED <<block, status>>
    BY <1>1, <1>7 DEF ForkFails, DoWait, Step, Types, Processes
  <2>2. QED
    BY <1>1, <1>3, <2>1
<1>8. QED
  BY <1>1, <1>4, <1>5, <1>6, <1>7, ProcessAdvances DEF Next

LEMMA BlockStays == IInv /\ [Next]_vars => UNCHANGED block
<1> SUFFICES ASSUME IInv, [Next]_vars PROVE UNCHANGED block
  OBVIOUS
<1>1. Types
  BY DEF IInv
<1>2. ASSUME NEW pr \in Processes, Process(pr)
      PROVE  UNCHANGED block
  <2>1. CASE Advances(pr)
    BY <2>1 DEF Advances
  <2>2. CASE Fault(pr)
    BY <2>2 DEF Fault
  <2>3. CASE Exit(pr)
    BY <2>3 DEF Exit
  <2>4. QED
    BY <1>1, <1>2, <2>1, <2>2, <2>3, ProcessAdvances
<1>3. CASE DoFork \/ ForkFails \/ DoWait
  BY <1>3 DEF DoFork, ForkFails, DoWait
<1>4. QED
  BY <1>2, <1>3 DEF Next, vars

\* Every step of a block without a handler, of the parent or of the child,
\* takes it nearer to its end, so each run of it stops within Left steps.
THEOREM StepsRunOut ==
  Spec /\ Unhandled => [](Left \in Nat) /\ [][Left' < Left]_vars
<1>1. IInv /\ Unhandled /\ [Next]_vars => Unhandled'
  BY BlockStays DEF Unhandled
<1>2. IInv /\ Unhandled /\ [Next]_vars => [Shrinks]_vars
  BY LeftShrinks
<1>3. Spec /\ Unhandled => []Counted /\ [][Shrinks]_vars
  BY <1>1, <1>2, Inductive, LeftIsNat, PTL DEF Spec
<1>4. QED
  BY <1>3, PTL DEF Counted, Shrinks
=============================================================================
