---------------------------- MODULE NestedSignals -----------------------------
(***************************************************************************)
(* src/signals-nested.cpp and src/signals-nested-2.cpp: handlers that nest *)
(* until NUM signals have been counted.  In the first a timer sends them   *)
(* and SA_NODEFER lets them nest, in the second a thread does and the      *)
(* handler unblocks its own signal.  The handlers run code that gencode()  *)
(* has written byte by byte: load eax, add to it until it is 0.            *)
(*                                                                         *)
(* A word is four bytes, the lowest first.  Base is the number of values   *)
(* that a byte has, 256 in the code.                                       *)
(***************************************************************************)
EXTENDS Integers, Sequences, FiniteSets

CONSTANTS Base,
          NUM,     \* 1000
          Loops,   \* generated loops that a handler gets through: in each of
                   \* its calls one for every twelve bytes of CODE_SIZE
          MaxBusy  \* bounds the handlers that an alarm finds outside the loops

ASSUME BaseAssumption == Base \in Nat /\ Base > 2
ASSUME BoundsAssumption == NUM \in Nat /\ Loops \in Nat \ {0} /\ MaxBusy \in Nat

Programs == {"nested", "nested2"}

VARIABLES program,
          sigcount,
          frames,  \* the handlers at work, the innermost last
          masked,  \* the signal is blocked
          pending,
          armed,   \* the timer expires again and again
          sender,  \* "kill", "check": the thread of the second program
          main,    \* "wait": sleep(1), or pthread_join; "print"
          status   \* "running", or what the program exits with

vars == <<program, sigcount, frames, masked, pending, armed, sender, main, status>>

Byte == 0 .. Base - 1
FF == Base - 1
FE == Base - 2
Zero == <<0, 0, 0, 0>>

\* Bug: the addend of signals-nested-2.cpp in both programs.
AddedLittleEndian == <<1, 0, 0, 0>>

\* What the bytes after B8 (mov eax) and 05 (add eax) are.
Loaded == IF program = "nested" THEN <<FF, FF, FF, FE>> ELSE <<FE, FF, FF, FF>>
Added == IF program = "nested" THEN <<0, 0, 0, 1>> ELSE <<1, 0, 0, 0>>

\* The sum of two words, modulo Base^4.
Carry(s) == IF s >= Base THEN 1 ELSE 0
Digit(s) == IF s >= Base THEN s - Base ELSE s
Plus(a, b) == LET s1 == a[1] + b[1]
                  s2 == a[2] + b[2] + Carry(s1)
                  s3 == a[3] + b[3] + Carry(s2)
                  s4 == a[4] + b[4] + Carry(s3)
              IN  <<Digit(s1), Digit(s2), Digit(s3), Digit(s4)>>

Init == /\ program \in Programs
        /\ armed \in IF program = "nested" THEN BOOLEAN ELSE {FALSE}
        /\ sigcount = 0 /\ frames = <<>>
        /\ masked = FALSE /\ pending = FALSE
        /\ sender = "kill" /\ main = "wait" /\ status = "running"

Runs == status = "running"
Exit(code) == /\ status' = code
              /\ UNCHANGED <<program, sigcount, frames, masked, pending, armed, sender, main>>
-----------------------------------------------------------------------------
\* The timer expires; its signal does not queue.
Alarm == /\ Runs /\ armed /\ ~pending
         /\ pending' = TRUE
         /\ UNCHANGED <<program, sigcount, frames, masked, armed, sender, main, status>>

\* thread() of the second program.
Kill == /\ Runs /\ program = "nested2" /\ sender = "kill"
        /\ pending' = TRUE /\ sender' = "check"
        /\ UNCHANGED <<program, sigcount, frames, masked, armed, main, status>>

SendAgain == /\ Runs /\ sender = "check" /\ sigcount < NUM
             /\ sender' = "kill"
             /\ UNCHANGED <<program, sigcount, frames, masked, pending, armed, main, status>>

\* Bug: the count is compared for equality.
FinishedWhenEqual == Runs /\ sender = "check" /\ sigcount = NUM /\ Exit("0")
Finished == Runs /\ sender = "check" /\ sigcount >= NUM /\ Exit("0")

\* The handler is entered at any time after the signal became pending; signal()
\* blocks it meanwhile, SA_NODEFER does not.
Busy == {i \in DOMAIN frames : frames[i].at # "loop"}

Deliver == /\ Runs /\ pending /\ ~masked
           /\ program = "nested" => Cardinality(Busy) < MaxBusy
           /\ pending' = FALSE /\ masked' = (program = "nested2")
           /\ frames' = Append(frames, [at |-> "enter", done |-> 0, eax |-> Zero])
           /\ UNCHANGED <<program, sigcount, armed, sender, main, status>>
-----------------------------------------------------------------------------
Top == frames[Len(frames)]
InHandler(at) == Runs /\ frames # <<>> /\ Top.at = at
SetTop(f) == frames' = [frames EXCEPT ![Len(frames)] = f]
GoTo(at) == SetTop([Top EXCEPT !.at = at])

\* Bug: the signal is unblocked before the printf.
EnterUnblocked ==
  /\ InHandler("enter")
  /\ IF program = "nested"
     THEN /\ GoTo(IF sigcount >= NUM THEN "delete" ELSE "load")
          /\ sigcount' = sigcount + 1
          /\ UNCHANGED masked
     ELSE GoTo("print") /\ masked' = FALSE /\ UNCHANGED sigcount
  /\ UNCHANGED <<program, pending, armed, sender, main, status>>

\* sighandler(): the first counts and looks at the count, the second prints.
Enter ==
  /\ InHandler("enter")
  /\ IF program = "nested"
     THEN /\ GoTo(IF sigcount >= NUM THEN "delete" ELSE "load")
          /\ sigcount' = sigcount + 1
     ELSE GoTo("print") /\ UNCHANGED sigcount
  /\ UNCHANGED <<program, masked, pending, armed, sender, main, status>>

\* timer_delete; a signal of the timer may be pending still.
Delete == /\ InHandler("delete")
          /\ armed' = FALSE /\ GoTo("print")
          /\ UNCHANGED <<program, sigcount, masked, pending, sender, main, status>>

\* printf: the first program exits, the second counts and unblocks the signal.
ExitFromHandler == InHandler("print") /\ program = "nested" /\ Exit("0")

\* Bug: the handler counts twice.
CountTwice == /\ InHandler("print") /\ program = "nested2"
              /\ sigcount' = sigcount + 2 /\ GoTo("unblock")
              /\ UNCHANGED <<program, masked, pending, armed, sender, main, status>>

Count == /\ InHandler("print") /\ program = "nested2"
         /\ sigcount' = sigcount + 1 /\ GoTo("unblock")
         /\ UNCHANGED <<program, masked, pending, armed, sender, main, status>>

Unblock == /\ InHandler("unblock")
           /\ masked' = FALSE /\ GoTo("load")
           /\ UNCHANGED <<program, sigcount, pending, armed, sender, main, status>>

\* mov eax
Load == /\ InHandler("load")
        /\ SetTop([Top EXCEPT !.at = "loop", !.eax = Loaded])
        /\ UNCHANGED <<program, sigcount, masked, pending, armed, sender, main, status>>

\* add eax; jnz
Add == /\ InHandler("loop")
       /\ LET sum == Plus(Top.eax, Added)
          IN  SetTop(IF sum # Zero THEN [Top EXCEPT !.eax = sum]
                     ELSE [at |-> IF Top.done + 1 < Loops THEN "load" ELSE "return",
                           done |-> Top.done + 1, eax |-> sum])
       /\ UNCHANGED <<program, sigcount, masked, pending, armed, sender, main, status>>

\* The signal was not blocked where the handler came in.
Return == /\ InHandler("return")
          /\ frames' = SubSeq(frames, 1, Len(frames) - 1)
          /\ masked' = FALSE
          /\ UNCHANGED <<program, sigcount, pending, armed, sender, main, status>>
-----------------------------------------------------------------------------
\* sleep(1) of the first program ends with the second, or when a handler has
\* returned; pthread_join of the other never does.
Wake == /\ Runs /\ program = "nested" /\ main = "wait" /\ frames = <<>>
        /\ main' = "print"
        /\ UNCHANGED <<program, sigcount, frames, masked, pending, armed, sender, status>>

\* "Partial Count"
MainReturns == Runs /\ main = "print" /\ frames = <<>> /\ Exit("1")

Handler == \/ Enter \/ Delete \/ ExitFromHandler \/ Count \/ Unblock
           \/ Load \/ Add \/ Return

Sender == Kill \/ SendAgain \/ Finished

Next == Alarm \/ Sender \/ Deliver \/ Handler \/ Wake \/ MainReturns

Spec == Init /\ [][Next]_vars

\* Both threads run, the timer keeps expiring, and signals are delivered.
FairSpec == /\ Spec /\ WF_vars(Alarm) /\ WF_vars(Sender) /\ WF_vars(Deliver)
            /\ WF_vars(Handler \/ Wake \/ MainReturns)
-----------------------------------------------------------------------------
Labels == {"enter", "delete", "print", "unblock", "load", "loop", "return"}

TypeOK == /\ program \in Programs
          /\ sigcount \in Nat
          /\ frames \in Seq([at : Labels, done : 0 .. Loops, eax : Byte \X Byte \X Byte \X Byte])
          /\ masked \in BOOLEAN /\ pending \in BOOLEAN /\ armed \in BOOLEAN
          /\ sender \in {"kill", "check"} /\ main \in {"wait", "print"}
          /\ status \in {"running", "0", "1"}

\* In signals-nested.cpp every signal that was ever counted has its handler at
\* work: the generated code ends for none of them, so that the exit comes from
\* NUM handlers inside one another, and not from NUM handlers in a row.
CountIsDepth ==
  program = "nested" =>
    sigcount = Cardinality({i \in DOMAIN frames : frames[i].at # "enter"})

\* "Partial Count" is printed for a count of 0 only, or while the handlers that
\* were counted are about to begin: never after a handler.
ExitTellsCount == /\ status = "0" => sigcount >= NUM
                  /\ status = "1" => sigcount = 0

\* In signals-nested-2.cpp no handler is interrupted in its printf, which is not
\* safe to enter again.
PrintsAlone == program = "nested2" =>
                 \A i \in DOMAIN frames : frames[i].at = "print" => i = Len(frames)

\* The thread of signals-nested-2.cpp stops two signals too late at most: when it
\* reads NUM - 1, one handler may be about to count and one signal may wait for
\* it, and it sends one more.
StopsInTime == program = "nested2" => sigcount <= NUM + 2

\* Both programs end, however deep their handlers nest.
Terminates == <>(status # "running")

\* gencode() of signals-nested.cpp: "mov eax, 0xFFFFFFFE" and "add eax, 1", so
\* that eax is no other value in the loop than this one and 0xFFFFFFFF.
LoopAsCommented ==
  program = "nested" =>
    \A i \in DOMAIN frames : frames[i].at = "loop" =>
      frames[i].eax \in {<<FE, FF, FF, FF>>, <<FF, FF, FF, FF>>}
=============================================================================
