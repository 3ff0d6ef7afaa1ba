-------------------------- MODULE NestedSignalsProofs --------------------------
(***************************************************************************)
(* The safety properties of NestedSignals, for every number of signals and *)
(* of loops and for bytes of any number of values above 2.                 *)
(***************************************************************************)
EXTENDS NestedSignals, FiniteSetTheorems, TLAPS

Word == Byte \X Byte \X Byte \X Byte
Frame == [at : Labels, done : 0 .. Loops, eax : Word]

\* Where the handlers of each program can be, and the first byte of eax.
ByteKept == \A i \in DOMAIN frames :
              /\ program = "nested" =>
                   /\ frames[i].at \in {"enter", "delete", "print", "load", "loop"}
                   /\ frames[i].at = "loop" => frames[i].eax[1] = FF
                   /\ frames[i].at \in {"delete", "print"} => sigcount >= NUM
              /\ program = "nested2" => frames[i].at # "delete"

\* A handler that has not called its last loop has one to call.
LoopsLeft == \A i \in DOMAIN frames : frames[i].at # "return" => frames[i].done < Loops

\* A handler that has not unblocked its signal is the innermost, and blocks it.
Uncounted == {"enter", "print"}
Blocking == Uncounted \cup {"unblock"}
MaskedWhileInnermost ==
  program = "nested2" =>
    \A i \in DOMAIN frames : frames[i].at \in Blocking => i = Len(frames) /\ masked

\* The signals that were counted or will be, whatever the thread sends from now on.
Foreseen == sigcount + (IF pending THEN 1 ELSE 0)
                     + (IF frames # <<>> /\ Top.at \in Uncounted THEN 1 ELSE 0)
Limited == program = "nested2" =>
             Foreseen <= NUM + 1 + (IF sender = "check" THEN 1 ELSE 0)

\* The second program has no timer, and its pthread_join does not return.
TimerOrThread == armed \/ main = "print" => program = "nested"

IInv == /\ TypeOK /\ ByteKept /\ LoopsLeft /\ MaskedWhileInnermost /\ Limited /\ TimerOrThread
        /\ CountIsDepth /\ ExitTellsCount

\* A step of the innermost handler leaves the others as they are.
LEMMA SetTopKeeps ==
  ASSUME NEW F, NEW s \in Seq(F), s # <<>>, NEW f \in F,
         NEW t, t = [s EXCEPT ![Len(s)] = f]
  PROVE  /\ t \in Seq(F) /\ Len(t) = Len(s) /\ DOMAIN t = DOMAIN s /\ DOMAIN s = 1 .. Len(s)
         /\ Len(s) \in 1 .. Len(s) /\ t # <<>> /\ t[Len(s)] = f
         /\ \A i \in 1 .. Len(s) : i # Len(s) => t[i] = s[i]
  OBVIOUS

\* A new handler is the innermost.
LEMMA AppendKeeps ==
  ASSUME NEW F, NEW s \in Seq(F), NEW f \in F, NEW t, t = Append(s, f)
  PROVE  /\ t \in Seq(F) /\ Len(t) = Len(s) + 1 /\ Len(s) \in Nat
         /\ DOMAIN s = 1 .. Len(s) /\ DOMAIN t = 1 .. Len(s) + 1
         /\ t # <<>> /\ t[Len(s) + 1] = f
         /\ \A i \in 1 .. Len(s) : t[i] = s[i]
  OBVIOUS

\* Words are closed under addition.
LEMMA PlusIsWord ==
  ASSUME NEW a \in Word, NEW b \in Word
  PROVE  Plus(a, b) \in Word
  <1>1. \A s \in 0 .. 2 * Base - 1 : Digit(s) \in Byte /\ Carry(s) \in {0, 1}
    BY BaseAssumption DEF Digit, Carry, Byte
  <1>2. /\ a[1] \in Byte /\ a[2] \in Byte /\ a[3] \in Byte /\ a[4] \in Byte
        /\ b[1] \in Byte /\ b[2] \in Byte /\ b[3] \in Byte /\ b[4] \in Byte
    BY DEF Word
  <1>3. \A x, y \in Byte : \A c \in {0, 1} : x + y + c \in 0 .. 2 * Base - 1 /\ x + y \in 0 .. 2 * Base - 1
    BY BaseAssumption DEF Byte
  <1> DEFINE s1 == a[1] + b[1]
             s2 == a[2] + b[2] + Carry(s1)
             s3 == a[3] + b[3] + Carry(s2)
             s4 == a[4] + b[4] + Carry(s3)
  <1>4. s1 \in 0 .. 2 * Base - 1
    BY <1>2, <1>3
  <1>5. s2 \in 0 .. 2 * Base - 1
    BY <1>1, <1>2, <1>3, <1>4
  <1>6. s3 \in 0 .. 2 * Base - 1
    BY <1>1, <1>2, <1>3, <1>5
  <1>7. s4 \in 0 .. 2 * Base - 1
    BY <1>1, <1>2, <1>3, <1>6
  <1>8. Plus(a, b) = <<Digit(s1), Digit(s2), Digit(s3), Digit(s4)>>
    BY DEF Plus
  <1> QED
    BY <1>1, <1>4, <1>5, <1>6, <1>7, <1>8 DEF Word

\* What gencode() writes are words, and in the first program the first byte of
\* a sum is the first byte of eax.
LEMMA GeneratedCode ==
  /\ Loaded \in Word /\ Added \in Word /\ Zero \in Word
  /\ program = "nested" => Loaded[1] = FF
  /\ \A a \in Word : program = "nested" /\ a[1] = FF =>
       Plus(a, Added) # Zero /\ Plus(a, Added)[1] = FF
  BY BaseAssumption DEF Loaded, Added, Zero, Word, Byte, FF, FE, Plus, Digit, Carry

\* The parts of the invariant that speak of frames, in one step of its innermost.
LEMMA StepOfTop ==
  ASSUME TypeOK, NEW at, InHandler(at), NEW f \in Frame, SetTop(f)
  PROVE  LET n == Len(frames) IN
         /\ frames' \in Seq(Frame) /\ Len(frames') = n /\ frames' # <<>> /\ n \in 1 .. n
         /\ DOMAIN frames' = 1 .. n /\ DOMAIN frames = 1 .. n
         /\ frames[n] \in Frame /\ frames[n].at = at /\ frames'[n] = f
         /\ \A i \in 1 .. n : i # n => frames'[i] = frames[i]
  <1>1. frames \in Seq(Frame) /\ frames # <<>> /\ frames' = [frames EXCEPT ![Len(frames)] = f]
    BY DEF TypeOK, Frame, Word, InHandler, SetTop
  <1> HIDE DEF Frame
  <1>2. frames[Len(frames)] \in Frame
    BY <1>1
  <1> QED
    BY <1>1, <1>2, SetTopKeeps DEF InHandler, Top

Counted == {i \in DOMAIN frames : frames[i].at # "enter"}

\* The count of handlers at work changes only with the innermost.
LEMMA CountedOfTop ==
  ASSUME TypeOK, NEW at \in Labels, InHandler(at), NEW f \in Frame, SetTop(f)
  PROVE  /\ (at = "enter" <=> f.at = "enter") => Counted' = Counted
         /\ at = "enter" /\ f.at # "enter" => Cardinality(Counted') = Cardinality(Counted) + 1
  <1> DEFINE n == Len(frames)
  <1>1. /\ DOMAIN frames' = 1 .. n /\ DOMAIN frames = 1 .. n /\ n \in 1 .. n
        /\ frames[n].at = at /\ frames'[n] = f
        /\ \A i \in 1 .. n : i # n => frames'[i] = frames[i]
    BY StepOfTop
  <1>2. (at = "enter" <=> f.at = "enter") => Counted' = Counted
    BY <1>1, Zenon DEF Counted
  <1>3. ASSUME at = "enter", f.at # "enter"
        PROVE  Cardinality(Counted') = Cardinality(Counted) + 1
    <2>1. Counted' = Counted \cup {n} /\ n \notin Counted
      BY <1>1, <1>3, Zenon DEF Counted
    <2>2. Len(frames) \in Nat
      BY DEF TypeOK
    <2>3. IsFiniteSet(Counted)
      <3>1. Counted \subseteq 1 .. n
        BY <1>1, Zenon DEF Counted
      <3>2. IsFiniteSet(1 .. n)
        BY <2>2, FS_Interval
      <3> QED
        BY <3>1, <3>2, FS_Subset
    <2> QED
      BY <2>1, <2>3, FS_AddElement
  <1> QED
    BY <1>2, <1>3

LEMMA InitHolds == Init => IInv
  <1> SUFFICES ASSUME Init PROVE IInv
    OBVIOUS
  <1>1. TypeOK
    <2>1. frames \in Seq(Frame)
      BY DEF Init
    <2>2. armed \in BOOLEAN
      BY DEF Init
    <2> QED
      BY <2>1, <2>2 DEF Init, TypeOK, Programs, Frame, Word
  <1>5. TimerOrThread
    BY DEF Init, TimerOrThread
  <1>2. ByteKept /\ LoopsLeft /\ MaskedWhileInnermost /\ ExitTellsCount
    BY DEF Init, LoopsLeft, ByteKept, MaskedWhileInnermost, ExitTellsCount
  <1>3. Limited
    BY BoundsAssumption DEF Init, Limited, Foreseen
  <1>4. CountIsDepth
    <2>1. {i \in DOMAIN frames : frames[i].at # "enter"} = {}
      BY DEF Init
    <2> QED
      BY <2>1, FS_EmptySet DEF Init, CountIsDepth
  <1> QED
    BY <1>1, <1>2, <1>3, <1>4, <1>5 DEF IInv

\* Steps that leave the handlers alone.
LEMMA QuietStep ==
  ASSUME IInv, UNCHANGED <<program, sigcount, frames, masked>>,
         \/ Alarm \/ Kill \/ SendAgain \/ Finished \/ ExitFromHandler \/ Wake \/ MainReturns
  PROVE  IInv'
  <1>1. TypeOK'
    BY DEF IInv, TypeOK, Alarm, Kill, SendAgain, Finished, ExitFromHandler, Wake, MainReturns, Exit
  <1>2. ByteKept' /\ LoopsLeft' /\ MaskedWhileInnermost' /\ CountIsDepth'
    BY DEF IInv, LoopsLeft, ByteKept, MaskedWhileInnermost, CountIsDepth
  <1>5. TimerOrThread'
    BY DEF IInv, TimerOrThread, Alarm, Kill, SendAgain, Finished, ExitFromHandler, Wake, MainReturns, Exit
  <1>3. ExitTellsCount'
    <2>1. CASE Finished
      BY <2>1 DEF IInv, ExitTellsCount, Finished, Exit
    <2>2. CASE ExitFromHandler
      BY <2>2, StepOfTop DEF IInv, TypeOK, ByteKept, ExitTellsCount, ExitFromHandler, InHandler, Top, Exit
    <2>3. CASE MainReturns
      <3>1. CASE program = "nested"
        <4>1. {i \in DOMAIN frames : frames[i].at # "enter"} = {}
          BY <2>3 DEF MainReturns
        <4> QED
          BY <2>3, <3>1, <4>1, FS_EmptySet DEF IInv, CountIsDepth, ExitTellsCount, MainReturns, Exit
      <3> QED
        BY <2>3, <3>1 DEF IInv, TimerOrThread, MainReturns
    <2> QED
      BY <2>1, <2>2, <2>3 DEF IInv, ExitTellsCount, Alarm, Kill, SendAgain, Wake
  <1>4. Limited'
    <2>1. CASE Kill
      BY <2>1, BoundsAssumption DEF IInv, TypeOK, Limited, Foreseen, Kill, Top
    <2>2. CASE SendAgain
      BY <2>2, BoundsAssumption DEF IInv, TypeOK, Limited, Foreseen, SendAgain, Top
    <2>3. CASE Alarm
      BY <2>3 DEF IInv, TimerOrThread, Limited, Alarm
    <2> QED
      BY <2>1, <2>2, <2>3 DEF IInv, Limited, Foreseen, Top, Finished, ExitFromHandler, Wake, MainReturns, Exit
  <1> QED
    BY <1>1, <1>2, <1>3, <1>4, <1>5 DEF IInv

\* What a step of the innermost handler, from at to f, does in each program.
Advances(at, f) ==
  /\ f.at \in {"delete", "print", "load", "loop"}
  /\ f.at = "loop" => f.eax[1] = FF
  /\ f.at \in {"delete", "print"} => sigcount' >= NUM
  /\ sigcount' = IF at = "enter" THEN sigcount + 1 ELSE sigcount
Advances2(at, f) ==
  /\ f.at # "delete"
  /\ f.at \in Blocking => at \in Blocking /\ masked'
  /\ sigcount' + (IF f.at \in Uncounted THEN 1 ELSE 0)
       = sigcount + (IF at \in Uncounted THEN 1 ELSE 0)

\* Steps of the innermost handler.
LEMMA TopStep ==
  ASSUME IInv, NEW at \in Labels, InHandler(at), NEW f \in Frame, SetTop(f),
         Enter \/ Delete \/ Count \/ Unblock \/ Load \/ Add,
         f.at # "enter", f.at # "return" => f.done < Loops,
         program = "nested" => Advances(at, f),
         program = "nested2" => Advances2(at, f)
  PROVE  IInv'
  <1> DEFINE n == Len(frames)
  <1>1. /\ frames' \in Seq(Frame) /\ Len(frames') = n /\ frames' # <<>> /\ n \in 1 .. n
        /\ DOMAIN frames' = 1 .. n /\ DOMAIN frames = 1 .. n
        /\ frames[n].at = at /\ frames'[n] = f
        /\ \A i \in 1 .. n : i # n => frames'[i] = frames[i]
    BY StepOfTop DEF IInv
  <1>9. UNCHANGED <<program, pending, sender, main, status>>
    BY DEF Enter, Delete, Count, Unblock, Load, Add
  <1>10. sigcount' \in Nat /\ sigcount' >= sigcount
    BY DEF IInv, TypeOK, Enter, Delete, Count, Unblock, Load, Add
  <1>11. (masked' = masked \/ masked' = FALSE) /\ (armed' = armed \/ armed' = FALSE)
    BY DEF Enter, Delete, Count, Unblock, Load, Add
  <1>2. /\ UNCHANGED <<program, pending, sender, main, status>>
        /\ sigcount' \in Nat /\ sigcount' >= sigcount
        /\ masked' \in BOOLEAN /\ armed' \in BOOLEAN /\ (armed' => armed)
        /\ status = "running" /\ frames # <<>>
    <2>1. masked \in BOOLEAN /\ armed \in BOOLEAN
      BY DEF IInv, TypeOK
    <2>4. masked' \in BOOLEAN
      BY <1>11, <2>1
    <2>5. armed' \in BOOLEAN
      BY <1>11, <2>1
    <2>2. armed' => armed
      BY <1>11
    <2>3. status = "running" /\ frames # <<>>
      BY DEF InHandler, Runs
    <2> QED
      BY <1>9, <1>10, <2>2, <2>3, <2>4, <2>5
  <1>3. TypeOK'
    BY <1>1, <1>2, Zenon DEF IInv, TypeOK, Frame, Word
  <1>4. ByteKept'
    <2>1. \A i \in 1 .. n : i # n =>
            /\ program = "nested" =>
                 /\ frames[i].at \in {"enter", "delete", "print", "load", "loop"}
                 /\ frames[i].at = "loop" => frames[i].eax[1] = FF
                 /\ frames[i].at \in {"delete", "print"} => sigcount' >= NUM
            /\ program = "nested2" => frames[i].at # "delete"
      <3>1. DOMAIN frames = 1 .. n
        BY <1>1, Zenon
      <3>2. sigcount >= NUM => sigcount' >= NUM
        BY <1>2, BoundsAssumption DEF IInv, TypeOK
      <3> QED
        BY <3>1, <3>2, Zenon DEF IInv, ByteKept
    <2>2. \A i \in 1 .. n : i # n => frames'[i] = frames[i]
      BY <1>1, Zenon
    <2>3. DOMAIN frames' = 1 .. n /\ frames'[n] = f
      BY <1>1, Zenon
    <2>4. program' = program
      BY <1>2
    <2> SUFFICES ASSUME NEW i \in 1 .. n
                 PROVE  /\ program = "nested" =>
                             /\ frames'[i].at \in {"enter", "delete", "print", "load", "loop"}
                             /\ frames'[i].at = "loop" => frames'[i].eax[1] = FF
                             /\ frames'[i].at \in {"delete", "print"} => sigcount' >= NUM
                        /\ program = "nested2" => frames'[i].at # "delete"
      BY <2>3, <2>4, Zenon DEF ByteKept
    <2>5. CASE i = n
      <3>1. frames'[i] = f
        BY <2>3, <2>5, Zenon
      <3>2. program = "nested" =>
              /\ f.at \in {"enter", "delete", "print", "load", "loop"}
              /\ f.at = "loop" => f.eax[1] = FF
              /\ f.at \in {"delete", "print"} => sigcount' >= NUM
        BY DEF Advances
      <3>3. program = "nested2" => f.at # "delete"
        BY Zenon DEF Advances2
      <3> QED
        BY <3>1, <3>2, <3>3, Zenon
    <2>6. CASE i # n
      BY <2>1, <2>2, <2>6, Zenon
    <2> QED
      BY <2>5, <2>6, Zenon
  <1>12. LoopsLeft'
    BY <1>1, Zenon DEF IInv, LoopsLeft
  <1>5. MaskedWhileInnermost'
    <2>1. \A i \in 1 .. n : i # n /\ program = "nested2" => frames[i].at \notin Blocking
      BY <1>1, Zenon DEF IInv, MaskedWhileInnermost
    <2> QED
      BY <1>1, <1>2, <2>1, Zenon DEF MaskedWhileInnermost, Advances2
  <1>6. Limited'
    <2>1. Top.at = at /\ Top'.at = f.at
      BY <1>1, Zenon DEF InHandler, Top
    <2> DEFINE P == IF pending THEN 1 ELSE 0
               U(l) == IF l \in Uncounted THEN 1 ELSE 0
    <2>2. P \in {0, 1} /\ U(at) \in {0, 1} /\ U(f.at) \in {0, 1}
      OBVIOUS
    <2>3. Foreseen = sigcount + P + U(at)
      BY <1>2, <2>1 DEF Foreseen
    <2>4. Foreseen' = sigcount' + P + U(f.at)
      BY <1>1, <1>2, <2>1, Zenon DEF Foreseen
    <2>5. program = "nested2" => sigcount' + U(f.at) = sigcount + U(at)
      BY DEF Advances2
    <2> HIDE DEF P, U
    <2>6. program = "nested2" => Foreseen' = Foreseen
      BY <1>10, <2>2, <2>3, <2>4, <2>5 DEF IInv, TypeOK
    <2> QED
      BY <1>2, <2>6 DEF IInv, Limited
  <1>7. TimerOrThread' /\ ExitTellsCount'
    BY <1>2 DEF IInv, TimerOrThread, ExitTellsCount
  <1>8. CountIsDepth'
    <2>1. CountIsDepth <=> (program = "nested" => sigcount = Cardinality(Counted))
      BY DEF CountIsDepth, Counted
    <2>2. CountIsDepth' <=> (program' = "nested" => sigcount' = Cardinality(Counted'))
      BY DEF CountIsDepth, Counted
    <2> QED
      BY <1>2, <2>1, <2>2, CountedOfTop DEF IInv, Advances
  <1> QED
    BY <1>3, <1>4, <1>12, <1>5, <1>6, <1>7, <1>8 DEF IInv

LEMMA DeliverStep == ASSUME IInv, Deliver PROVE IInv'
  <1> DEFINE n == Len(frames)
             f == [at |-> "enter", done |-> 0, eax |-> Zero]
  <1>1. f \in Frame
    BY GeneratedCode, BoundsAssumption DEF Frame, Labels
  <1>2. /\ frames' \in Seq(Frame) /\ Len(frames') = n + 1 /\ n \in Nat
        /\ DOMAIN frames = 1 .. n /\ DOMAIN frames' = 1 .. n + 1
        /\ frames' # <<>> /\ frames'[n + 1] = f
        /\ \A i \in 1 .. n : frames'[i] = frames[i]
    <2>1. frames \in Seq(Frame) /\ frames' = Append(frames, f)
      BY DEF IInv, TypeOK, Frame, Word, Deliver
    <2> QED
      BY <1>1, <2>1, AppendKeeps
  <1>3. /\ UNCHANGED <<program, sigcount, armed, sender, main, status>> /\ pending /\ ~masked
        /\ pending' = FALSE /\ masked' = (program = "nested2")
    BY DEF Deliver
  <1>4. TypeOK'
    BY <1>2, <1>3 DEF IInv, TypeOK, Frame, Word
  <1>5. ByteKept' /\ LoopsLeft'
    BY <1>2, <1>3, BoundsAssumption DEF IInv, ByteKept, LoopsLeft
  <1>6. MaskedWhileInnermost'
    <2>1. \A i \in 1 .. n : program = "nested2" => frames[i].at \notin Blocking
      BY <1>2, <1>3 DEF IInv, MaskedWhileInnermost
    <2>2. program' = "nested2" => masked'
      BY <1>3, Zenon
    <2> QED
      BY <1>2, <1>3, <2>1, <2>2 DEF MaskedWhileInnermost
  <1>7. Limited'
    <2>1. Top'.at = "enter"
      BY <1>2 DEF Top
    <2>2. program = "nested2" /\ frames # <<>> => Top.at \notin Uncounted
      BY <1>2, <1>3 DEF IInv, MaskedWhileInnermost, Top, Blocking
    <2> QED
      BY <1>2, <1>3, <2>1, <2>2, BoundsAssumption DEF IInv, TypeOK, Limited, Foreseen
  <1>8. TimerOrThread' /\ ExitTellsCount'
    BY <1>3 DEF IInv, TimerOrThread, ExitTellsCount
  <1>9. CountIsDepth'
    <2>1. {i \in DOMAIN frames' : frames'[i].at # "enter"} = {i \in DOMAIN frames : frames[i].at # "enter"}
      BY <1>2
    <2> QED
      BY <1>3, <2>1 DEF IInv, CountIsDepth
  <1> QED
    BY <1>4, <1>5, <1>6, <1>7, <1>8, <1>9 DEF IInv

\* A handler returns in the second program only.
LEMMA ReturnStep == ASSUME IInv, Return PROVE IInv'
  <1> DEFINE n == Len(frames)
  <1>1. frames \in Seq(Frame) /\ frames # <<>> /\ frames[n].at = "return"
    BY DEF IInv, TypeOK, Frame, Word, Return, InHandler, Top
  <1>2. /\ frames' \in Seq(Frame) /\ Len(frames') = n - 1 /\ n \in Nat /\ n \in 1 .. n
        /\ DOMAIN frames = 1 .. n /\ DOMAIN frames' = 1 .. n - 1
        /\ \A i \in 1 .. n - 1 : frames'[i] = frames[i]
        /\ frames' # <<>> => n - 1 \in 1 .. n - 1
    <2>1. frames' = SubSeq(frames, 1, n - 1)
      BY DEF Return
    <2>2. n \in Nat /\ n >= 1 /\ DOMAIN frames = 1 .. n
      BY <1>1
    <2>3. frames' \in Seq(Frame) /\ Len(frames') = n - 1
      BY <1>1, <2>1, <2>2
    <2>4. \A i \in 1 .. n - 1 : frames'[i] = frames[i]
      BY <1>1, <2>1, <2>2
    <2> QED
      BY <2>2, <2>3, <2>4
  <1>3. /\ UNCHANGED <<program, sigcount, pending, armed, sender, main, status>>
        /\ masked' = FALSE
    BY DEF Return
  <1>4. program = "nested2"
    BY <1>1, <1>2 DEF IInv, TypeOK, Programs, ByteKept
  <1>5. TypeOK'
    BY <1>2, <1>3 DEF IInv, TypeOK, Frame, Word
  <1>6. ByteKept' /\ LoopsLeft'
    BY <1>2, <1>3, <1>4 DEF IInv, ByteKept, LoopsLeft
  <1>7. \A i \in 1 .. n : frames[i].at \notin Blocking
    BY <1>1, <1>2, <1>4 DEF IInv, MaskedWhileInnermost, Blocking, Uncounted
  <1>8. MaskedWhileInnermost'
    BY <1>2, <1>7 DEF MaskedWhileInnermost
  <1>9. Limited'
    <2>1. frames' # <<>> => Top'.at \notin Uncounted
      <3>1. frames' # <<>> => Top' = frames[n - 1] /\ n - 1 \in 1 .. n
        BY <1>2 DEF Top
      <3> QED
        BY <3>1, <1>7, Zenon DEF Blocking
    <2>2. Foreseen' = sigcount + (IF pending THEN 1 ELSE 0)
      BY <1>3, <2>1 DEF Foreseen, IInv, TypeOK
    <2>3. Top.at \notin Uncounted
      BY <1>1 DEF Top, Uncounted
    <2>4. Foreseen = sigcount + (IF pending THEN 1 ELSE 0)
      BY <2>3 DEF Foreseen, IInv, TypeOK
    <2> QED
      BY <1>3, <2>2, <2>4, Zenon DEF IInv, Limited
  <1>10. TimerOrThread' /\ ExitTellsCount' /\ CountIsDepth'
    BY <1>3, <1>4 DEF IInv, TimerOrThread, ExitTellsCount, CountIsDepth
  <1> QED
    BY <1>5, <1>6, <1>8, <1>9, <1>10 DEF IInv

LEMMA StepHolds == IInv /\ [Next]_vars => IInv'
  <1> SUFFICES ASSUME IInv, [Next]_vars PROVE IInv'
    OBVIOUS
  <1>0. /\ frames \in Seq(Frame) /\ sigcount \in Nat /\ NUM \in Nat /\ program \in Programs
        /\ frames # <<>> => Len(frames) \in DOMAIN frames /\ Top \in Frame
    <2>1. frames \in Seq(Frame)
      BY DEF IInv, TypeOK, Frame, Word
    <2> HIDE DEF Frame
    <2> QED
      BY <2>1, BoundsAssumption DEF IInv, TypeOK, Top
  <1>a. ASSUME frames # <<>>
        PROVE  program = "nested" => /\ Top.at \in {"enter", "delete", "print", "load", "loop"}
                                     /\ Top.at = "loop" => Top.eax[1] = FF
                                     /\ Top.at \in {"delete", "print"} => sigcount >= NUM
    BY <1>0, <1>a DEF IInv, ByteKept, Top
  <1>b. frames # <<>> /\ program = "nested2" /\ Top.at \in Blocking => masked
    BY <1>0 DEF IInv, MaskedWhileInnermost, Top
  <1>c. frames # <<>> /\ Top.at # "return" => Top.done < Loops
    BY <1>0 DEF IInv, LoopsLeft, Top
  <1>1. CASE Enter
    <2> DEFINE l == IF program = "nested" THEN IF sigcount >= NUM THEN "delete" ELSE "load"
                                          ELSE "print"
               f == [Top EXCEPT !.at = l]
    <2>1. InHandler("enter") /\ SetTop(f) /\ UNCHANGED masked
      BY <1>1 DEF Enter, GoTo
    <2>2. Top \in Frame /\ Top.at = "enter" /\ frames # <<>>
      BY <1>0, <2>1 DEF InHandler
    <2>3. f \in Frame /\ f.at = l /\ f.done < Loops /\ "enter" \in Labels
      BY <2>2, <1>c DEF Frame, Labels
    <2>4. program = "nested" => Advances("enter", f)
      BY <1>0, <1>1, <2>3 DEF Enter, Advances
    <2>5. program = "nested2" => Advances2("enter", f)
      BY <1>1, <1>b, <2>1, <2>2, <2>3 DEF Enter, Advances2, Blocking, Uncounted
    <2>6. f.at # "enter"
      BY <2>3
    <2> HIDE DEF f
    <2> QED
      BY <1>1, <2>1, <2>3, <2>4, <2>5, <2>6, TopStep
  <1>2. CASE Delete
    <2> DEFINE f == [Top EXCEPT !.at = "print"]
    <2>1. InHandler("delete") /\ SetTop(f) /\ UNCHANGED sigcount
      BY <1>2 DEF Delete, GoTo
    <2>2. Top \in Frame /\ Top.at = "delete" /\ frames # <<>>
      BY <1>0, <2>1 DEF InHandler
    <2>3. f \in Frame /\ f.at = "print" /\ f.done < Loops /\ "delete" \in Labels
      BY <2>2, <1>c DEF Frame, Labels
    <2>4. program = "nested" => Advances("delete", f)
      BY <1>a, <2>1, <2>2, <2>3 DEF Advances
    <2>5. program = "nested2" => Advances2("delete", f)
      BY <1>0, <2>2 DEF IInv, ByteKept, Top
    <2> QED
      BY <1>2, <2>1, <2>3, <2>4, <2>5, TopStep
  <1>3. CASE Count
    <2> DEFINE f == [Top EXCEPT !.at = "unblock"]
    <2>1. InHandler("print") /\ SetTop(f) /\ program = "nested2" /\ sigcount' = sigcount + 1
          /\ UNCHANGED masked
      BY <1>3 DEF Count, GoTo
    <2>2. Top \in Frame /\ Top.at = "print" /\ frames # <<>>
      BY <1>0, <2>1 DEF InHandler
    <2>3. f \in Frame /\ f.at = "unblock" /\ f.done < Loops /\ "print" \in Labels
      BY <2>2, <1>c DEF Frame, Labels
    <2>4. Advances2("print", f)
      BY <1>0, <1>b, <2>1, <2>2, <2>3 DEF Advances2, Blocking, Uncounted
    <2> QED
      BY <1>3, <2>1, <2>3, <2>4, TopStep
  <1>4. CASE Unblock
    <2> DEFINE f == [Top EXCEPT !.at = "load"]
    <2>1. InHandler("unblock") /\ SetTop(f) /\ UNCHANGED sigcount
      BY <1>4 DEF Unblock, GoTo
    <2>2. Top \in Frame /\ Top.at = "unblock" /\ frames # <<>>
      BY <1>0, <2>1 DEF InHandler
    <2>3. f \in Frame /\ f.at = "load" /\ f.done < Loops /\ "unblock" \in Labels
      BY <2>2, <1>c DEF Frame, Labels
    <2>4. program # "nested"
      BY <1>a, <2>2
    <2>5. Advances2("unblock", f)
      BY <1>0, <2>1, <2>3 DEF Advances2, Blocking, Uncounted
    <2> QED
      BY <1>4, <2>1, <2>3, <2>4, <2>5, TopStep
  <1>5. CASE Load
    <2> DEFINE f == [Top EXCEPT !.at = "loop", !.eax = Loaded]
    <2>1. InHandler("load") /\ SetTop(f) /\ UNCHANGED sigcount
      BY <1>5 DEF Load
    <2>2. Top \in Frame /\ Top.at = "load" /\ frames # <<>>
      BY <1>0, <2>1 DEF InHandler
    <2>3. f \in Frame /\ f.at = "loop" /\ f.eax = Loaded /\ f.done < Loops /\ "load" \in Labels
      BY <2>2, <1>c, GeneratedCode DEF Frame, Labels
    <2>4. program = "nested" => Advances("load", f)
      BY <2>1, <2>3, GeneratedCode DEF Advances
    <2>5. Advances2("load", f)
      BY <1>0, <2>1, <2>3 DEF Advances2, Blocking, Uncounted
    <2> QED
      BY <1>5, <2>1, <2>3, <2>4, <2>5, TopStep
  <1>6. CASE Add
    <2> DEFINE sum == Plus(Top.eax, Added)
               f == IF sum # Zero THEN [Top EXCEPT !.eax = sum]
                    ELSE [at |-> IF Top.done + 1 < Loops THEN "load" ELSE "return",
                          done |-> Top.done + 1, eax |-> sum]
    <2>1. InHandler("loop") /\ SetTop(f) /\ UNCHANGED sigcount
      BY <1>6 DEF Add
    <2>2. Top \in Frame /\ Top.at = "loop" /\ frames # <<>>
      BY <1>0, <2>1 DEF InHandler
    <2>3. Top.eax \in Word /\ sum \in Word
      BY <2>2, GeneratedCode, PlusIsWord DEF Frame
    <2>4. Top.done \in 0 .. Loops /\ Top.done < Loops /\ Loops \in Nat
      BY <1>c, <2>2, BoundsAssumption DEF Frame
    <2>5. /\ f \in Frame /\ f.at \in {"loop", "load", "return"} /\ "loop" \in Labels
          /\ f.at # "return" => f.done < Loops
      <3>1. CASE sum # Zero
        BY <2>2, <2>3, <2>4, <3>1 DEF Frame, Labels
      <3>2. CASE sum = Zero
        BY <2>2, <2>3, <2>4, <3>2 DEF Frame, Labels
      <3> QED
        BY <3>1, <3>2
    <2>6. program = "nested" => Advances("loop", f)
      <3> HAVE program = "nested"
      <3>1. sum # Zero /\ sum[1] = FF
        BY <1>a, <2>2, <2>3, GeneratedCode
      <3>2. f.at = "loop" /\ f.eax = sum
        BY <2>2, <3>1 DEF Frame
      <3> QED
        BY <2>1, <3>1, <3>2 DEF Advances
    <2>7. Advances2("loop", f)
      BY <1>0, <2>1, <2>5 DEF Advances2, Blocking, Uncounted
    <2> QED
      BY <1>6, <2>1, <2>5, <2>6, <2>7, TopStep
  <1>7. CASE Deliver
    BY <1>7, DeliverStep
  <1>8. CASE Return
    BY <1>8, ReturnStep
  <1>9. CASE Alarm \/ Sender \/ ExitFromHandler \/ Wake \/ MainReturns
    BY <1>9, QuietStep DEF Sender, Alarm, Kill, SendAgain, Finished, ExitFromHandler, Wake,
                           MainReturns, Exit
  <1>10. CASE UNCHANGED vars
    BY <1>10 DEF vars, IInv, TypeOK, ByteKept, LoopsLeft, MaskedWhileInnermost, Limited, Foreseen, Top,
                 TimerOrThread, CountIsDepth, ExitTellsCount
  <1> QED
    BY <1>1, <1>2, <1>3, <1>4, <1>5, <1>6, <1>7, <1>8, <1>9, <1>10 DEF Next, Handler

LEMMA Invariance == Spec => []IInv
  BY InitHolds, StepHolds, PTL DEF Spec

\* The variables stay of their types.
THEOREM Typing == Spec => []TypeOK
  BY Invariance, PTL DEF IInv

\* In the first program every signal that was counted has its handler at work.
THEOREM CountTellsDepth == Spec => []CountIsDepth
  BY Invariance, PTL DEF IInv

\* "Count" is printed for at least NUM signals, "Partial Count" for none.
THEOREM ExitIsHonest == Spec => []ExitTellsCount
  BY Invariance, PTL DEF IInv

\* No handler of the second program is interrupted in its printf.
THEOREM PrintsAreAlone == Spec => []PrintsAlone
  <1>1. MaskedWhileInnermost => PrintsAlone
    BY DEF MaskedWhileInnermost, PrintsAlone, Blocking, Uncounted
  <1> QED
    BY <1>1, Invariance, PTL DEF IInv

\* The thread of the second program stops after NUM + 2 signals at the latest.
THEOREM SenderStops == Spec => []StopsInTime
  <1>1. IInv => StopsInTime
    <2> SUFFICES ASSUME IInv, program = "nested2" PROVE sigcount <= NUM + 2
      BY DEF StopsInTime
    <2>1. Foreseen <= NUM + 2 /\ sigcount \in Nat
      BY BoundsAssumption DEF IInv, TypeOK, Limited, Foreseen
    <2> QED
      BY <2>1, BoundsAssumption DEF Foreseen
  <1> QED
    BY <1>1, Invariance, PTL
-----------------------------------------------------------------------------
\* The signal is blocked only in the second program, and only while the innermost
\* handler has its sigprocmask before it.
BlockedByTop == masked => program = "nested2" /\ frames # <<>> /\ Top.at \in Blocking

LEMMA BlockedStep == IInv /\ BlockedByTop /\ [Next]_vars => BlockedByTop'
<1> SUFFICES ASSUME IInv, BlockedByTop, [Next]_vars, masked'
             PROVE  program' = "nested2" /\ frames' # <<>> /\ Top'.at \in Blocking
  BY DEF BlockedByTop
<1>1. /\ frames \in Seq(Frame)
      /\ frames # <<>> => Top \in Frame
  <2>1. frames \in Seq(Frame)
    BY DEF IInv, TypeOK, Frame, Word
  <2> HIDE DEF Frame
  <2> QED
    BY <2>1 DEF Top
<1>2. program' = program
  BY DEF Next, Alarm, Sender, Kill, SendAgain, Finished, Exit, Deliver, Handler, Enter, Delete,
         ExitFromHandler, Count, Unblock, Load, Add, Return, Wake, MainReturns, vars
<1>3. CASE UNCHANGED <<frames, masked>>
  <2>1. frames' = frames /\ masked' = masked
    BY <1>3
  <2>2. Top' = Top
    BY <2>1, Zenon DEF Top
  <2> QED
    BY <1>2, <2>1, <2>2, Zenon DEF BlockedByTop
<1>4. CASE Deliver
  <2>1. masked' = (program = "nested2") /\ UNCHANGED program
    BY <1>4 DEF Deliver
  <2>2. PICK f : f.at = "enter" /\ frames' = Append(frames, f)
    BY <1>4 DEF Deliver
  <2>3. Len(frames') = Len(frames) + 1 /\ frames' # <<>> /\ frames'[Len(frames) + 1] = f
    <3> DEFINE S == Frame \cup {f}
    <3>1. frames \in Seq(S) /\ f \in S
      <4> HIDE DEF Frame
      <4> QED
        BY <1>1
    <3> HIDE DEF S
    <3> QED
      BY <2>2, <3>1, AppendKeeps
  <2>4. Top' = f
    BY <2>3, Zenon DEF Top
  <2> QED
    BY <1>2, <2>1, <2>2, <2>3, <2>4 DEF Blocking, Uncounted
<1>5. CASE Unblock \/ Return
  BY <1>5 DEF Unblock, Return
<1>6. ASSUME NEW at \in {"enter", "print"}, NEW l \in {"print", "unblock"},
             InHandler(at), GoTo(l)
      PROVE  frames' # <<>> /\ Top'.at \in Blocking
  <2> DEFINE f == [Top EXCEPT !.at = l]
  <2>1. Top \in Frame /\ SetTop(f)
    BY <1>1, <1>6 DEF InHandler, GoTo
  <2>2. f \in Frame /\ f.at = l
    BY <2>1 DEF Frame, Labels
  <2> HIDE DEF f
  <2>3. TypeOK
    BY DEF IInv
  <2>4. Len(frames') = Len(frames) /\ frames' # <<>> /\ frames'[Len(frames)] = f
    BY <1>6, <2>1, <2>2, <2>3, StepOfTop, Zenon
  <2>5. Top' = f
    BY <2>4, Zenon DEF Top
  <2> QED
    BY <2>2, <2>4, <2>5 DEF Blocking, Uncounted
<1>7. CASE Enter
  <2>1. masked' = masked
    BY <1>7 DEF Enter
  <2>2. program = "nested2"
    BY <2>1 DEF BlockedByTop
  <2>3. InHandler("enter") /\ GoTo("print")
    BY <1>7, <2>2 DEF Enter
  <2> QED
    BY <1>2, <1>6, <2>2, <2>3
<1>8. CASE Count
  <2>1. InHandler("print") /\ GoTo("unblock") /\ program = "nested2"
    BY <1>8 DEF Count
  <2> QED
    BY <1>2, <1>6, <2>1
<1>9. CASE Delete \/ Load \/ Add
  <2>1. masked' = masked /\ Top.at \in {"delete", "load", "loop"}
    BY <1>9 DEF Delete, Load, Add, InHandler
  <2> QED
    BY <2>1 DEF BlockedByTop, Blocking, Uncounted
<1>10. CASE Alarm \/ Sender \/ ExitFromHandler \/ Wake \/ MainReturns \/ UNCHANGED vars
  <2>1. frames' = frames /\ masked' = masked
    BY <1>10 DEF Alarm, Sender, Kill, SendAgain, Finished, ExitFromHandler, Exit, Wake, MainReturns,
                 vars
  <2> QED
    BY <1>3, <2>1
<1> QED
  BY <1>4, <1>5, <1>7, <1>8, <1>9, <1>10 DEF Next, Handler

\* A signal never stays blocked behind a handler that is interrupted, or has
\* returned: the handler that blocks it is at work now, and about to unblock it, so
\* that what pthread_kill makes pending gets through (sighandler of
\* signals-nested-2.cpp).
THEOREM BlockedBriefly == Spec => []BlockedByTop
<1>1. Init => BlockedByTop
  BY DEF Init, BlockedByTop
<1> QED
  BY <1>1, BlockedStep, Invariance, PTL DEF Spec
================================================================================
