--------------------------- MODULE SmcSignalsProofs ---------------------------
(***************************************************************************)
(* Theorems about SmcSignals, for every array of signals, every number of  *)
(* sends and iterations and every depth of nesting: handlers never share a *)
(* page (IInv), their pages and counters tell what they did (CInv), no     *)
(* step of theirs faults (Protected), and the work runs out (Work).        *)
(***************************************************************************)
EXTENDS SmcSignals, Integers, FiniteSetTheorems, TLAPS

Frame == [sig : Signals, page : Pages, k : Int, step : Int, wrong : BOOLEAN]

\* HandlersAreIsolated is inductive as soon as the frames have their types.
IInv == frames \in Seq(Frame) /\ HandlersAreIsolated

\* A frame with another verdict, or at another iteration, is one of the same
\* handler.  The provers need the type of the verdict to be any set B.
LEMMA AnyVerdict ==
  ASSUME NEW B, NEW F, F = [sig : Signals, page : Pages, k : Int, step : Int, wrong : B],
         NEW g \in F, NEW w \in B
  PROVE  /\ [g EXCEPT !.wrong = w] \in F
         /\ [g EXCEPT !.wrong = w].sig = g.sig
         /\ [g EXCEPT !.wrong = w].page = g.page
OBVIOUS

LEMMA Verdict ==
  ASSUME NEW g \in Frame, NEW w \in BOOLEAN
  PROVE  /\ [g EXCEPT !.wrong = w] \in Frame
         /\ [g EXCEPT !.wrong = w].sig = g.sig
         /\ [g EXCEPT !.wrong = w].page = g.page
BY AnyVerdict DEF Frame

LEMMA Iteration ==
  ASSUME NEW g \in Frame
  PROVE  /\ [g EXCEPT !.k = @ + 1, !.step = 1] \in Frame
         /\ [g EXCEPT !.k = @ + 1, !.step = 1].sig = g.sig
         /\ [g EXCEPT !.k = @ + 1, !.step = 1].page = g.page
<1> DEFINE h == [g EXCEPT !.k = @ + 1]
           i == [h EXCEPT !.step = 1]
<1>1. g.k \in Int
  BY DEF Frame
<1>2. h \in Frame /\ h.sig = g.sig /\ h.page = g.page
  BY <1>1 DEF Frame
<1>3. i \in Frame /\ i.sig = g.sig /\ i.page = g.page
  <2> HIDE DEF h
  <2> QED
    BY <1>2 DEF Frame
<1>4. i = [g EXCEPT !.k = @ + 1, !.step = 1]
  BY DEF Frame
<1> QED
  BY <1>3, <1>4

\* A step of the innermost handler that keeps its signal and its page.
LEMMA TopKeeps ==
  ASSUME IInv, frames # <<>>,
         NEW f \in Frame, f.sig = Top.sig, f.page = Top.page,
         frames' = SetTop(f), DOMAIN pages' = DOMAIN pages
  PROVE  IInv'
<1> DEFINE n == Len(frames)
<1>1. n \in Nat \ {0} /\ n \in DOMAIN frames /\ DOMAIN frames = 1 .. n
  BY DEF IInv
<1>2. frames' \in Seq(Frame) /\ DOMAIN frames' = DOMAIN frames
  BY <1>1 DEF IInv, SetTop
<1>3. \A i \in DOMAIN frames : frames'[i].sig = frames[i].sig /\ frames'[i].page = frames[i].page
  BY <1>1 DEF IInv, SetTop, Top
<1>4. {frames'[i].page : i \in DOMAIN frames'} = {frames[i].page : i \in DOMAIN frames}
  BY <1>2, <1>3, Zenon
<1>5. HandlersAreIsolated
  BY DEF IInv
<1>6. DOMAIN pages' = {frames'[i].page : i \in DOMAIN frames'}
  BY <1>4, <1>5, Zenon DEF HandlersAreIsolated
<1>7. \A i, j \in DOMAIN frames' :
        i # j => frames'[i].page # frames'[j].page /\ frames'[i].sig # frames'[j].sig
  <2> SUFFICES ASSUME NEW i \in DOMAIN frames, NEW j \in DOMAIN frames, i # j
               PROVE  frames'[i].page # frames'[j].page /\ frames'[i].sig # frames'[j].sig
    BY <1>2
  <2>1. frames[i].page # frames[j].page /\ frames[i].sig # frames[j].sig
    BY <1>5, Zenon DEF HandlersAreIsolated
  <2> QED
    BY <1>3, <2>1, Zenon
<1> QED
  BY <1>2, <1>6, <1>7, Zenon DEF IInv, HandlersAreIsolated

\* The delivery of a signal that no handler at work has blocked.
LEMMA DeliverKeeps ==
  ASSUME IInv, NEW s \in Signals, Deliver(s)
  PROVE  IInv'
<1>1. PICK p \in Pages \ DOMAIN pages :
        /\ DOMAIN pages' = DOMAIN pages \cup {p}
        /\ frames' = Append(frames, [sig |-> s, page |-> p, k |-> 0, step |-> 1, wrong |-> FALSE])
  BY DEF Deliver
<1> DEFINE n == Len(frames)
<1>2. n \in Nat /\ DOMAIN frames = 1 .. n /\ DOMAIN frames' = 1 .. n + 1
  BY <1>1 DEF IInv
<1>3. /\ frames' \in Seq(Frame)
      /\ frames'[n + 1].page = p /\ frames'[n + 1].sig = s
      /\ \A i \in DOMAIN frames : frames'[i] = frames[i]
  BY <1>1, <1>2 DEF IInv, Frame
<1>4. \A i \in DOMAIN frames : frames[i].page # p /\ frames[i].sig # s
  BY <1>1 DEF IInv, HandlersAreIsolated, Deliver, Masked
<1>5. {frames'[i].page : i \in DOMAIN frames'} = DOMAIN pages'
  <2>1. \A q : q \in {frames'[i].page : i \in DOMAIN frames'} <=>
                 q \in {frames[i].page : i \in DOMAIN frames} \/ q = p
    BY <1>2, <1>3
  <2> QED
    BY <2>1, <1>1 DEF IInv, HandlersAreIsolated
<1>6. \A i, j \in DOMAIN frames' :
        i # j => frames'[i].page # frames'[j].page /\ frames'[i].sig # frames'[j].sig
  <2> SUFFICES ASSUME NEW i \in DOMAIN frames', NEW j \in DOMAIN frames', i # j
               PROVE  frames'[i].page # frames'[j].page /\ frames'[i].sig # frames'[j].sig
    OBVIOUS
  <2>1. CASE i \in DOMAIN frames /\ j \in DOMAIN frames
    BY <2>1, <1>3 DEF IInv, HandlersAreIsolated
  <2>2. CASE i = n + 1
    <3>1. j \in DOMAIN frames
      BY <2>2, <1>2
    <3> QED
      BY <3>1, <2>2, <1>3, <1>4
  <2>3. CASE j = n + 1
    <3>1. i \in DOMAIN frames
      BY <2>3, <1>2
    <3> QED
      BY <3>1, <2>3, <1>3, <1>4
  <2> QED
    BY <2>1, <2>2, <2>3, <1>2
<1> QED
  BY <1>3, <1>5, <1>6 DEF IInv, HandlersAreIsolated

\* The return of the innermost handler, which unmaps its own page and no other.
LEMMA ReturnKeeps ==
  ASSUME IInv, HandlerReturns
  PROVE  IInv'
<1> DEFINE n == Len(frames)
<1>1. n \in Nat \ {0} /\ DOMAIN frames = 1 .. n
  BY DEF IInv, HandlerReturns, RoutineEnds
<1>2. /\ frames' \in Seq(Frame) /\ DOMAIN frames' = 1 .. n - 1
      /\ \A i \in 1 .. n - 1 : frames'[i] = frames[i]
  BY <1>1 DEF IInv, HandlerReturns
<1>3. DOMAIN pages' = DOMAIN pages \ {frames[n].page}
  BY DEF HandlerReturns, Top
<1>4. {frames'[i].page : i \in DOMAIN frames'} = DOMAIN pages'
  <2>1. \A i \in 1 .. n - 1 : frames[i].page # frames[n].page
    BY <1>1 DEF IInv, HandlersAreIsolated
  <2>2. \A q : q \in DOMAIN pages <=> \E i \in 1 .. n : q = frames[i].page
    BY <1>1 DEF IInv, HandlersAreIsolated
  <2>3. \A q : q \in DOMAIN pages' <=> \E i \in 1 .. n - 1 : q = frames[i].page
    BY <2>1, <2>2, <1>1, <1>3
  <2>4. \A q : q \in {frames'[i].page : i \in DOMAIN frames'} <=> \E i \in 1 .. n - 1 : q = frames[i].page
    BY <1>2
  <2> QED
    BY <2>3, <2>4
<1>5. \A i, j \in DOMAIN frames' :
        i # j => frames'[i].page # frames'[j].page /\ frames'[i].sig # frames'[j].sig
  BY <1>1, <1>2 DEF IInv, HandlersAreIsolated
<1> QED
  BY <1>2, <1>4, <1>5 DEF IInv, HandlersAreIsolated

\* Every step keeps the handlers apart.
LEMMA IsolationKept ==
  ASSUME IInv, [Next]_vars
  PROVE  IInv'
<1>1. CASE Send
  BY <1>1 DEF Send, IInv, HandlersAreIsolated
<1>2. ASSUME NEW s \in Signals, Deliver(s)
      PROVE  IInv'
  BY <1>2, DeliverKeeps
<1> DEFINE Next1 == [Top EXCEPT !.step = @ + 1]
<1>3. ASSUME frames # <<>>
      PROVE  Top \in Frame
  BY <1>3 DEF IInv, Top
<1>4. CASE DoStore
  <2>1. frames # <<>> /\ frames' = SetTop(Next1) /\ DOMAIN pages' = DOMAIN pages
    BY <1>4 DEF DoStore, InRoutine
  <2>2. Next1 \in Frame /\ Next1.sig = Top.sig /\ Next1.page = Top.page
    BY <2>1, <1>3 DEF Frame
  <2> QED
    BY <2>1, <2>2, TopKeeps
<1>5. CASE DoCall
  <2>1. PICK w \in BOOLEAN : frames' = SetTop([Next1 EXCEPT !.wrong = w])
    <3>1. PICK e \in {Page.content, "stale"} :
            frames' = SetTop([Top EXCEPT !.step = @ + 1,
                                !.wrong = @ \/ e # Expected[Script[Top.step].k]])
      BY <1>5 DEF DoCall
    <3> DEFINE w == Top.wrong \/ e # Expected[Script[Top.step].k]
    <3>2. frames # <<>>
      BY <1>5 DEF DoCall, InRoutine
    <3>3. w \in BOOLEAN
      OBVIOUS
    <3>4. [Top EXCEPT !.step = @ + 1, !.wrong = @ \/ e # Expected[Script[Top.step].k]]
            = [Next1 EXCEPT !.wrong = w]
      BY <3>2, <1>3 DEF Frame
    <3> HIDE DEF w
    <3> QED
      BY <3>1, <3>3, <3>4, Zenon
  <2>2. frames # <<>> /\ DOMAIN pages' = DOMAIN pages
    BY <1>5 DEF DoCall, InRoutine
  <2> DEFINE f == [Next1 EXCEPT !.wrong = w]
  <2>3. Next1 \in Frame /\ Next1.sig = Top.sig /\ Next1.page = Top.page
    BY <2>2, <1>3 DEF Frame
  <2>4. f \in Frame /\ f.sig = Top.sig /\ f.page = Top.page
    BY <2>3, Verdict
  <2> HIDE DEF f
  <2> QED
    BY <2>1, <2>2, <2>4, TopKeeps DEF f
<1>6. CASE DoMprotect
  <2>1. frames # <<>> /\ frames' = SetTop(Next1) /\ DOMAIN pages' = DOMAIN pages
    BY <1>6 DEF DoMprotect, InRoutine
  <2>2. Next1 \in Frame /\ Next1.sig = Top.sig /\ Next1.page = Top.page
    BY <2>1, <1>3 DEF Frame
  <2> QED
    BY <2>1, <2>2, TopKeeps
<1>7. CASE NextIteration
  <2> DEFINE g == [Top EXCEPT !.k = @ + 1, !.step = 1]
  <2> DEFINE f == [Top EXCEPT !.k = @ + 1, !.step = 1, !.wrong = FALSE]
  <2>1. frames # <<>> /\ frames' = SetTop(f) /\ DOMAIN pages' = DOMAIN pages
    BY <1>7 DEF NextIteration, RoutineEnds
  <2>2. g \in Frame /\ g.sig = Top.sig /\ g.page = Top.page
    BY <2>1, <1>3, Iteration, Zenon
  <2>3. f = [g EXCEPT !.wrong = FALSE]
    BY <2>1, <1>3 DEF Frame
  <2>4. f \in Frame /\ f.sig = Top.sig /\ f.page = Top.page
    <3> HIDE DEF g, f
    <3> QED
      BY <2>2, <2>3, Verdict
  <2> QED
    BY <2>1, <2>4, TopKeeps
<1>8. CASE HandlerReturns
  BY <1>8, ReturnKeeps
<1>9. CASE Exit
  BY <1>9 DEF Exit, IInv, HandlersAreIsolated
<1>10. CASE UNCHANGED vars
  BY <1>10 DEF vars, IInv, HandlersAreIsolated
<1> QED
  BY <1>1, <1>2, <1>4, <1>5, <1>6, <1>7, <1>8, <1>9, <1>10 DEF Next, Handler

\* Each handler at work has a mapping that no other handler uses, and nobody is
\* interrupted by his own signal (smc_test and sig_handler of smc-signals.cpp).
THEOREM Isolated == Spec => []HandlersAreIsolated
<1>1. Init => IInv
  BY DEF Init, IInv, HandlersAreIsolated
<1>2. IInv /\ [Next]_vars => IInv'
  BY IsolationKept
<1>3. IInv => HandlersAreIsolated
  BY DEF IInv
<1> QED
  BY <1>1, <1>2, <1>3, PTL DEF Spec

\* The byte in a handler's page before each step of the routine.
Held == <<"none", "CC", "CC", "FE", "FE", "FE", "FE", "F3", "F3", "F3", "F3", "F1", "F1">>

Types == /\ pending \in [Signals -> Nat]
         /\ sigcount \in Nat /\ raised \in Nat /\ count \in Nat
         /\ \A p \in DOMAIN pages : pages[p] \in [content : Bytes \cup {"none"}, prot : SUBSET RWX]

Progress == \A i \in DOMAIN frames : frames[i].step \in 1 .. 13 /\ frames[i].k \in 0 .. Iterations - 1

\* No handler finds another one's byte in its page.
PagesHold == \A i \in DOMAIN frames :
               frames[i].step > 1 => pages[frames[i].page].content = Held[frames[i].step]

Verdicts == stale <=> (failed \/ \E i \in DOMAIN frames : frames[i].wrong)

\* The instances that wait for delivery, and the iterations that are still to be
\* counted by the handlers at work.
Queued == {x \in Signals \X Nat : x[2] \in 1 .. pending[x[1]]}
Todo == {x \in (DOMAIN frames) \X (1 .. Iterations) : x[2] > frames[x[1]].k}

NoneLost == IsFiniteSet(Queued) /\ raised = sigcount + Cardinality(Queued)
NoneSkipped == IsFiniteSet(Todo) /\ count + Cardinality(Todo) = Iterations * sigcount

AllHandled == main = "exit" => frames = <<>> /\ \A s \in Signals : pending[s] = 0

CInv == /\ IInv
        /\ Types /\ Progress /\ PagesHold /\ Verdicts /\ NoneLost /\ NoneSkipped /\ AllHandled
        /\ sent \in 0 .. NumSends

\* The sender's signals are those of the array.
LEMMA SignalOfIsSignal ==
  ASSUME NEW n \in 1 .. NumSends
  PROVE  SignalOf(n) \in Signals
<1> DEFINE L == Len(signals)
<1>1. /\ L \in Nat \ {0} /\ DOMAIN signals = 1 .. L
      /\ \A i \in 1 .. L : signals[i] \in Signals
  BY SignalsAssumption DEF Signals
<1>2. Sends \in Nat \ {0}
  BY <1>1, BoundsAssumption DEF NumSends
<1>3. CASE n <= L * Sends
  <2> DEFINE q == (n - 1) \div Sends
  <2>1. q \in Nat /\ q * Sends <= n - 1
    BY <1>2
  <2>2. q < L
    BY <2>1, <1>1, <1>2, <1>3
  <2> QED
    BY <2>1, <2>2, <1>1, <1>3 DEF SignalOf
<1>4. CASE ~(n <= L * Sends)
  <2>1. L * Sends \in Nat
    BY <1>1, <1>2
  <2> DEFINE m == n - 1 - L * Sends
  <2>2. m \in Nat /\ SignalOf(n) = signals[(m % L) + 1]
    BY <2>1, <1>4 DEF SignalOf
  <2>3. m % L \in 0 .. L - 1
    <3> HIDE DEF m
    <3> QED
      BY <2>2, <1>1
  <2> QED
    BY <2>2, <2>3, <1>1
<1> QED
  BY <1>3, <1>4

\* What a step of the innermost handler leaves alone.
LEMMA OnlyTop ==
  ASSUME IInv, frames # <<>>, NEW f, frames' = SetTop(f)
  PROVE  \E n \in Nat \ {0} :
           /\ n = Len(frames) /\ DOMAIN frames = 1 .. n /\ DOMAIN frames' = 1 .. n
           /\ Top = frames[n] /\ Top \in Frame /\ frames'[n] = f
           /\ \A i \in 1 .. n : i # n => frames'[i] = frames[i]
BY DEF IInv, SetTop, Top

\* A step within an iteration changes nothing that is still to be counted.
LEMMA TodoKept ==
  ASSUME IInv, frames # <<>>, NEW f, f.k = Top.k, frames' = SetTop(f)
  PROVE  Todo' = Todo
<1>1. /\ DOMAIN frames' = DOMAIN frames
      /\ \A i \in DOMAIN frames : frames'[i].k = frames[i].k
  BY OnlyTop
<1> QED
  BY <1>1 DEF Todo

\* The fields of the innermost handler's record after a step of the routine ...
LEMMA Advanced ==
  ASSUME NEW g \in Frame
  PROVE  /\ [g EXCEPT !.step = @ + 1].step = g.step + 1
         /\ [g EXCEPT !.step = @ + 1].k = g.k
         /\ [g EXCEPT !.step = @ + 1].wrong = g.wrong
         /\ [g EXCEPT !.step = @ + 1].page = g.page
BY DEF Frame

\* ... and after a call.
LEMMA AnyCalled ==
  ASSUME NEW B, NEW F, F = [sig : Signals, page : Pages, k : Int, step : Int, wrong : B],
         NEW g \in F, NEW w \in B
  PROVE  /\ [g EXCEPT !.step = @ + 1, !.wrong = w].step = g.step + 1
         /\ [g EXCEPT !.step = @ + 1, !.wrong = w].k = g.k
         /\ [g EXCEPT !.step = @ + 1, !.wrong = w].wrong = w
         /\ [g EXCEPT !.step = @ + 1, !.wrong = w].page = g.page
OBVIOUS

LEMMA AnyAgain ==
  ASSUME NEW B, NEW F, F = [sig : Signals, page : Pages, k : Int, step : Int, wrong : B],
         NEW g \in F, NEW w \in B
  PROVE  /\ [g EXCEPT !.k = @ + 1, !.step = 1, !.wrong = w].step = 1
         /\ [g EXCEPT !.k = @ + 1, !.step = 1, !.wrong = w].k = g.k + 1
         /\ [g EXCEPT !.k = @ + 1, !.step = 1, !.wrong = w].wrong = w
         /\ [g EXCEPT !.k = @ + 1, !.step = 1, !.wrong = w].page = g.page
OBVIOUS

\* A set of pairs that lost one of them.
LEMMA SamePairs ==
  ASSUME NEW A, NEW B, NEW S, NEW T, NEW x, S \subseteq A \X B, T \subseteq A \X B,
         \A i, j : <<i, j>> \in T <=> <<i, j>> \in S /\ <<i, j>> # x
  PROVE  T = S \ {x}
OBVIOUS

\* Two handlers at work, and the pages they work on.
LEMMA Apart ==
  ASSUME CInv, NEW i \in DOMAIN frames, NEW j \in DOMAIN frames, i # j
  PROVE  frames[i].page # frames[j].page /\ frames[i].page \in DOMAIN pages
<1>1. HandlersAreIsolated
  BY DEF CInv, IInv
<1> QED
  BY <1>1, Zenon DEF HandlersAreIsolated

\* What the routine's step finds in the page, and what it leaves there.
LEMMA StepHolds ==
  ASSUME NEW n \in 1 .. 12
  PROVE  /\ Script[n].op = "store" => Script[n].byte = Held[n + 1] /\ Script[n].byte \in Bytes
         /\ Script[n].op = "mprotect" =>
              n > 1 /\ Held[n] = Held[n + 1] /\ Script[n].prot \in SUBSET RWX
         /\ Script[n].op = "call" =>
              /\ n > 1 /\ Held[n] = Held[n + 1]
              /\ Held[n] = Expected[Script[n].k] /\ Held[n] # "stale"
<1>1. CASE n \in {1, 3, 7, 11}
  BY <1>1 DEF Script, Store, Held, Bytes
<1>2. CASE n \in {5, 6, 8, 10}
  BY <1>2 DEF Script, Mprotect, Held, RX, RWX
<1>3. CASE n \in {2, 4, 9, 12}
  BY <1>3 DEF Script, Call, Held, Expected
<1> QED
  BY <1>1, <1>2, <1>3

\* A step of the routine in the innermost handler's page.
LEMMA InnerStep ==
  ASSUME CInv, frames # <<>>, Top.step \in 1 .. 12,
         NEW f, frames' = SetTop(f), f.k = Top.k, f.step = Top.step + 1, f.page = Top.page,
         DOMAIN pages' = DOMAIN pages,
         \A q \in DOMAIN pages : q # Top.page => pages'[q] = pages[q],
         pages'[Top.page].content = Held[Top.step + 1],
         UNCHANGED <<sender, pending, sigcount, count>>, main' # "exit"
  PROVE  /\ Progress' /\ PagesHold' /\ NoneLost' /\ NoneSkipped' /\ AllHandled'
         /\ sent' \in 0 .. NumSends
<1>1. IInv
  BY DEF CInv
<1>2. PICK n \in Nat \ {0} :
        /\ n = Len(frames) /\ DOMAIN frames = 1 .. n /\ DOMAIN frames' = 1 .. n
        /\ Top = frames[n] /\ Top \in Frame /\ frames'[n] = f
        /\ \A i \in 1 .. n : i # n => frames'[i] = frames[i]
  BY <1>1, OnlyTop
<1>3. Progress'
  <2>1. Progress /\ f.step \in 1 .. 13
    BY DEF CInv
  <2> SUFFICES ASSUME NEW i \in 1 .. n
               PROVE  frames'[i].step \in 1 .. 13 /\ frames'[i].k \in 0 .. Iterations - 1
    BY <1>2, Zenon DEF Progress
  <2>2. frames[i].step \in 1 .. 13 /\ frames[i].k \in 0 .. Iterations - 1
    BY <1>2, <2>1, Zenon DEF Progress
  <2>3. CASE i = n
    BY <2>1, <2>2, <2>3, <1>2, Zenon
  <2>4. CASE i # n
    BY <2>2, <2>4, <1>2, Zenon
  <2> QED
    BY <2>3, <2>4, Zenon
<1>4. PagesHold'
  <2> SUFFICES ASSUME NEW i \in 1 .. n, frames'[i].step > 1
               PROVE  pages'[frames'[i].page].content = Held[frames'[i].step]
    BY <1>2 DEF PagesHold
  <2>1. CASE i = n
    BY <2>1, <1>2
  <2>2. CASE i # n
    <3>1. frames'[i] = frames[i] /\ i \in DOMAIN frames /\ n \in DOMAIN frames
      BY <2>2, <1>2
    <3>2. PagesHold
      BY DEF CInv
    <3>3. frames[i].page # Top.page /\ frames[i].page \in DOMAIN pages
      BY <2>2, <3>1, <1>2, Apart, Zenon
    <3>4. pages[frames[i].page].content = Held[frames[i].step]
      BY <3>1, <3>2, Zenon DEF PagesHold
    <3> QED
      BY <3>1, <3>3, <3>4, Zenon
  <2> QED
    BY <2>1, <2>2
<1>5. Queued' = Queued
  BY DEF Queued
<1>6. Todo' = Todo
  BY <1>1, TodoKept
<1> QED
  BY <1>3, <1>4, <1>5, <1>6 DEF CInv, NoneLost, NoneSkipped, AllHandled, sender

\* What a step of the routine may rely on.
LEMMA InRoutineHas ==
  ASSUME CInv, NEW op, InRoutine(op)
  PROVE  /\ frames # <<>> /\ Top \in Frame /\ Top.step \in 1 .. 12
         /\ main' # "exit"
         /\ Top.page \in DOMAIN pages
         /\ Top.step > 1 => Page.content = Held[Top.step]
         /\ Script[Top.step].op = op
<1>1. frames # <<>> /\ Top.step \in 1 .. 12 /\ main' # "exit" /\ Script[Top.step].op = op
  BY DEF InRoutine, Script
<1>2. PICK n : n \in DOMAIN frames /\ Top = frames[n]
  BY <1>1 DEF CInv, IInv, Top
<1>3. frames[n] \in Frame
  BY <1>2 DEF CInv, IInv
<1> QED
  BY <1>1, <1>2, <1>3 DEF CInv, IInv, HandlersAreIsolated, PagesHold, Page

\* The innermost handler's verdict and those of the handlers it has interrupted.
LEMMA VerdictsSplit ==
  ASSUME IInv, frames # <<>>, NEW f, frames' = SetTop(f)
  PROVE  \E others \in BOOLEAN :
           /\ (\E i \in DOMAIN frames : frames[i].wrong) <=> (others \/ Top.wrong)
           /\ (\E i \in DOMAIN frames' : frames'[i].wrong) <=> (others \/ f.wrong)
<1>1. PICK n \in Nat \ {0} :
        /\ n = Len(frames) /\ DOMAIN frames = 1 .. n /\ DOMAIN frames' = 1 .. n
        /\ Top = frames[n] /\ frames'[n] = f
        /\ \A i \in 1 .. n : i # n => frames'[i] = frames[i]
  BY OnlyTop
<1> DEFINE others == \E i \in 1 .. n : i # n /\ frames[i].wrong
<1>2. n \in 1 .. n
  OBVIOUS
<1>3. (\E i \in DOMAIN frames : frames[i].wrong) <=> (others \/ Top.wrong)
  <2>1. DOMAIN frames = 1 .. n /\ Top = frames[n]
    BY <1>1
  <2> QED
    BY <2>1, <1>2, Zenon
<1>4. (\E i \in DOMAIN frames' : frames'[i].wrong) <=> (others \/ f.wrong)
  <2>1. /\ DOMAIN frames' = 1 .. n /\ frames'[n] = f
        /\ \A i \in 1 .. n : i # n => frames'[i] = frames[i]
    BY <1>1
  <2> QED
    BY <2>1, <1>2, Zenon
<1>5. others \in BOOLEAN
  OBVIOUS
<1> HIDE DEF others
<1> QED
  BY <1>3, <1>4, <1>5

LEMMA StoreCounts ==
  ASSUME CInv, DoStore
  PROVE  CInv'
<1>1. /\ frames # <<>> /\ Top \in Frame /\ Top.step \in 1 .. 12
      /\ main' # "exit" /\ Top.page \in DOMAIN pages
      /\ Script[Top.step].op = "store"
  BY InRoutineHas DEF DoStore
<1>2. Script[Top.step].byte = Held[Top.step + 1] /\ Script[Top.step].byte \in Bytes
  BY <1>1, StepHolds, Zenon
<1> DEFINE f == [Top EXCEPT !.step = @ + 1]
<1>3. frames' = SetTop(f) /\ f.k = Top.k /\ f.step = Top.step + 1 /\ f.page = Top.page
  BY <1>1, Advanced DEF DoStore
<1>4. /\ DOMAIN pages' = DOMAIN pages
      /\ \A q \in DOMAIN pages : q # Top.page => pages'[q] = pages[q]
      /\ pages'[Top.page] = [pages[Top.page] EXCEPT !.content = Script[Top.step].byte]
  BY <1>1 DEF DoStore
<1>5. pages[Top.page] \in [content : Bytes \cup {"none"}, prot : SUBSET RWX]
  BY <1>1 DEF CInv, Types
<1>6. /\ pages'[Top.page].content = Held[Top.step + 1]
      /\ pages'[Top.page] \in [content : Bytes \cup {"none"}, prot : SUBSET RWX]
  BY <1>2, <1>4, <1>5
<1>7. UNCHANGED <<sender, pending, sigcount, count, failed, stale>>
  BY DEF DoStore
<1>8. /\ Progress' /\ PagesHold' /\ NoneLost' /\ NoneSkipped' /\ AllHandled'
      /\ sent' \in 0 .. NumSends
  <2> HIDE DEF f
  <2> QED
    BY <1>1, <1>3, <1>4, <1>6, <1>7, InnerStep
<1>9. Types'
  BY <1>4, <1>6, <1>7 DEF CInv, Types, sender
<1>10. Verdicts'
  <2>1. f.wrong = Top.wrong
    BY <1>1, Advanced
  <2>2. PICK others \in BOOLEAN :
           /\ (\E i \in DOMAIN frames : frames[i].wrong) <=> (others \/ Top.wrong)
           /\ (\E i \in DOMAIN frames' : frames'[i].wrong) <=> (others \/ f.wrong)
    <3> HIDE DEF f
    <3> QED
      BY <1>1, <1>3, VerdictsSplit DEF CInv
  <2> HIDE DEF f
  <2> QED
    BY <2>1, <2>2, <1>7, Zenon DEF CInv, Verdicts
<1>11. IInv'
  BY IsolationKept DEF CInv, Next, Handler
<1> QED
  BY <1>8, <1>9, <1>10, <1>11 DEF CInv

LEMMA MprotectCounts ==
  ASSUME CInv, DoMprotect
  PROVE  CInv'
<1>1. /\ frames # <<>> /\ Top \in Frame /\ Top.step \in 1 .. 12
      /\ main' # "exit" /\ Top.page \in DOMAIN pages
      /\ Script[Top.step].op = "mprotect"
      /\ Top.step > 1 => Page.content = Held[Top.step]
  BY InRoutineHas DEF DoMprotect
<1>2. /\ Top.step > 1 /\ Held[Top.step] = Held[Top.step + 1]
      /\ Script[Top.step].prot \in SUBSET RWX
  BY <1>1, StepHolds, Zenon
<1> DEFINE f == [Top EXCEPT !.step = @ + 1]
<1>3. frames' = SetTop(f) /\ f.k = Top.k /\ f.step = Top.step + 1 /\ f.page = Top.page
  BY <1>1, Advanced DEF DoMprotect
<1>4. /\ DOMAIN pages' = DOMAIN pages
      /\ \A q \in DOMAIN pages : q # Top.page => pages'[q] = pages[q]
      /\ pages'[Top.page] = [pages[Top.page] EXCEPT !.prot = Script[Top.step].prot]
  BY <1>1 DEF DoMprotect
<1>5. pages[Top.page] \in [content : Bytes \cup {"none"}, prot : SUBSET RWX]
  BY <1>1 DEF CInv, Types
<1>6. /\ pages'[Top.page].content = Held[Top.step + 1]
      /\ pages'[Top.page] \in [content : Bytes \cup {"none"}, prot : SUBSET RWX]
  BY <1>1, <1>2, <1>4, <1>5 DEF Page
<1>7. UNCHANGED <<sender, pending, sigcount, count, failed, stale>>
  BY DEF DoMprotect
<1>8. /\ Progress' /\ PagesHold' /\ NoneLost' /\ NoneSkipped' /\ AllHandled'
      /\ sent' \in 0 .. NumSends
  <2> HIDE DEF f
  <2> QED
    BY <1>1, <1>3, <1>4, <1>6, <1>7, InnerStep
<1>9. Types'
  BY <1>4, <1>6, <1>7 DEF CInv, Types, sender
<1>10. Verdicts'
  <2>1. f.wrong = Top.wrong
    BY <1>1, Advanced
  <2>2. PICK others \in BOOLEAN :
           /\ (\E i \in DOMAIN frames : frames[i].wrong) <=> (others \/ Top.wrong)
           /\ (\E i \in DOMAIN frames' : frames'[i].wrong) <=> (others \/ f.wrong)
    <3> HIDE DEF f
    <3> QED
      BY <1>1, <1>3, VerdictsSplit DEF CInv
  <2> HIDE DEF f
  <2> QED
    BY <2>1, <2>2, <1>7, Zenon DEF CInv, Verdicts
<1>11. IInv'
  BY IsolationKept DEF CInv, Next, Handler
<1> QED
  BY <1>8, <1>9, <1>10, <1>11 DEF CInv

LEMMA CallCounts ==
  ASSUME CInv, DoCall
  PROVE  CInv'
<1>1. /\ frames # <<>> /\ Top \in Frame /\ Top.step \in 1 .. 12
      /\ main' # "exit" /\ Top.page \in DOMAIN pages
      /\ Script[Top.step].op = "call"
      /\ Top.step > 1 => Page.content = Held[Top.step]
  BY InRoutineHas DEF DoCall
<1> DEFINE expected == Expected[Script[Top.step].k]
<1>2. /\ Top.step > 1 /\ Held[Top.step] = Held[Top.step + 1]
      /\ Held[Top.step] = expected /\ expected # "stale"
  BY <1>1, StepHolds, Zenon
<1>3. PICK e \in {Page.content, "stale"} :
        /\ frames' = SetTop([Top EXCEPT !.step = @ + 1, !.wrong = @ \/ e # expected])
        /\ stale' = (stale \/ e = "stale")
  BY DEF DoCall
<1> DEFINE w == Top.wrong \/ e # expected
           f == [Top EXCEPT !.step = @ + 1, !.wrong = w]
<1>4. e # expected <=> e = "stale"
  BY <1>1, <1>2
<1>5. w \in BOOLEAN
  OBVIOUS
<1>6. frames' = SetTop(f)
  BY <1>3
<1>7. f.step = Top.step + 1 /\ f.k = Top.k /\ f.wrong = w /\ f.page = Top.page
  <2> HIDE DEF w
  <2> QED
    BY <1>1, <1>5, AnyCalled DEF Frame
<1>8. UNCHANGED <<sender, pending, pages, sigcount, count, failed>>
  BY DEF DoCall
<1>9. pages'[Top.page].content = Held[Top.step + 1]
  BY <1>1, <1>2, <1>8 DEF Page
<1>10. /\ Progress' /\ PagesHold' /\ NoneLost' /\ NoneSkipped' /\ AllHandled'
       /\ sent' \in 0 .. NumSends
  <2> HIDE DEF f
  <2> QED
    BY <1>1, <1>6, <1>7, <1>8, <1>9, InnerStep
<1>11. Types'
  BY <1>8 DEF CInv, Types, sender
<1>12. Verdicts'
  <2>1. PICK others \in BOOLEAN :
           /\ (\E i \in DOMAIN frames : frames[i].wrong) <=> (others \/ Top.wrong)
           /\ (\E i \in DOMAIN frames' : frames'[i].wrong) <=> (others \/ f.wrong)
    <3> HIDE DEF f
    <3> QED
      BY <1>1, <1>6, VerdictsSplit DEF CInv
  <2>2. (\E i \in DOMAIN frames' : frames'[i].wrong) <=> (others \/ Top.wrong \/ e = "stale")
    <3> HIDE DEF f
    <3> QED
      BY <2>1, <1>4, <1>7, Zenon
  <2>3. stale' <=> (stale \/ e = "stale")
    BY <1>3
  <2>4. stale <=> (failed \/ others \/ Top.wrong)
    BY <2>1, Zenon DEF CInv, Verdicts
  <2>5. failed' = failed
    BY <1>8
  <2> QED
    BY <2>2, <2>3, <2>4, <2>5, Zenon DEF Verdicts
<1>13. IInv'
  BY IsolationKept DEF CInv, Next, Handler
<1> QED
  BY <1>10, <1>11, <1>12, <1>13 DEF CInv

\* pthread_kill queues one more instance, or changes nothing.
LEMMA SendCounts ==
  ASSUME CInv, Send
  PROVE  CInv'
<1> DEFINE s == SignalOf(sent + 1)
<1>1. sent \in Nat /\ sent + 1 \in 1 .. NumSends /\ sent' = sent + 1 /\ main = "join"
  <2>1. NumSends \in Nat
    BY SignalsAssumption, BoundsAssumption DEF NumSends
  <2> QED
    BY <2>1 DEF CInv, Send
<1>2. s \in Signals
  BY <1>1, SignalOfIsSignal
<1>3. UNCHANGED <<frames, pages, sigcount, count, failed, main, stale>>
  BY DEF Send
<1>4. IInv' /\ Progress' /\ PagesHold' /\ Verdicts' /\ AllHandled' /\ sent' \in 0 .. NumSends
  <2>1. IInv' /\ Progress' /\ PagesHold' /\ Verdicts'
    BY <1>3 DEF CInv, IInv, HandlersAreIsolated, Progress, PagesHold, Verdicts
  <2>2. AllHandled'
    BY <1>1, <1>3 DEF AllHandled
  <2> QED
    BY <2>1, <2>2, <1>1
<1>5. NoneSkipped'
  <2>1. Todo' = Todo
    BY <1>3 DEF Todo
  <2> QED
    BY <2>1, <1>3 DEF CInv, NoneSkipped
<1>6. CASE pending[s] < Capacity(s)
  <2> HIDE DEF s
  <2>1. pending' = [pending EXCEPT ![s] = @ + 1] /\ raised' = raised + 1
    BY <1>6 DEF Send, s
  <2>2. pending \in [Signals -> Nat]
    BY DEF CInv, Types
  <2>3. Types'
    BY <2>1, <2>2, <1>2, <1>3 DEF CInv, Types
  <2> DEFINE x == <<s, pending[s] + 1>>
  <2>4. Queued' = Queued \cup {x} /\ x \notin Queued
    <3>1. x \notin Queued
      BY <2>2, <1>2 DEF Queued
    <3>2. ASSUME NEW y \in Signals \X Nat
          PROVE  y \in Queued' <=> y \in Queued \cup {x}
      <4>1. CASE y[1] = s
        BY <4>1, <2>1, <2>2, <1>2 DEF Queued
      <4>2. CASE y[1] # s
        BY <4>2, <2>1, <2>2, <1>2 DEF Queued
      <4> QED
        BY <4>1, <4>2
    <3>3. x \in Signals \X Nat
      BY <1>2, <2>2
    <3>4. Queued \subseteq Signals \X Nat /\ Queued' \subseteq Signals \X Nat
      BY DEF Queued
    <3> QED
      BY <3>1, <3>2, <3>3, <3>4
  <2>5. /\ IsFiniteSet(Queued \cup {x})
        /\ Cardinality(Queued \cup {x}) = Cardinality(Queued) + 1
    BY <2>4, FS_AddElement DEF CInv, NoneLost
  <2>6. Cardinality(Queued) \in Nat
    BY FS_CardinalityType DEF CInv, NoneLost
  <2>7. NoneLost'
    BY <2>1, <2>4, <2>5, <2>6, <1>3 DEF CInv, NoneLost, Types
  <2> QED
    BY <2>3, <2>7, <1>4, <1>5 DEF CInv
<1>7. CASE ~(pending[s] < Capacity(s))
  <2> HIDE DEF s
  <2>1. pending' = pending /\ raised' = raised
    BY <1>7 DEF Send, s
  <2>2. Queued' = Queued
    BY <2>1 DEF Queued
  <2>3. Types' /\ NoneLost'
    BY <2>1, <2>2, <1>3 DEF CInv, Types, NoneLost
  <2> QED
    BY <2>3, <1>4, <1>5 DEF CInv
<1> QED
  BY <1>6, <1>7

\* A handler that starts takes one instance and owes all iterations.
LEMMA DeliverCounts ==
  ASSUME CInv, NEW s \in Signals, Deliver(s)
  PROVE  CInv'
<1>1. /\ main = "join" /\ pending[s] > 0
      /\ pending' = [pending EXCEPT ![s] = @ - 1] /\ sigcount' = sigcount + 1
      /\ UNCHANGED <<sent, raised, count, failed, main, stale>>
  BY DEF Deliver, sender
<1> DEFINE fresh(p) == [sig |-> s, page |-> p, k |-> 0, step |-> 1, wrong |-> FALSE]
<1>2. PICK p \in Pages \ DOMAIN pages :
        /\ pages' = [q \in DOMAIN pages \cup {p} |->
                       IF q = p THEN [content |-> "none", prot |-> RWX] ELSE pages[q]]
        /\ frames' = Append(frames, fresh(p))
  BY DEF Deliver
<1>3. IInv'
  BY IsolationKept DEF CInv, Next, Handler
<1>4. PICK n \in Nat : n = Len(frames) /\ DOMAIN frames = 1 .. n
  BY DEF CInv, IInv
<1>5. /\ DOMAIN frames' = 1 .. n + 1 /\ frames'[n + 1] = fresh(p)
      /\ \A i \in 1 .. n : frames'[i] = frames[i]
  BY <1>2, <1>4 DEF CInv, IInv
<1>6. /\ fresh(p).page = p /\ fresh(p).k = 0 /\ fresh(p).step = 1 /\ fresh(p).wrong = FALSE
  OBVIOUS
<1> HIDE DEF fresh
<1>7. pending \in [Signals -> Nat]
  BY DEF CInv, Types
<1>8. Types'
  <2>1. pending' \in [Signals -> Nat]
    BY <1>1, <1>7
  <2>2. sigcount' \in Nat /\ raised' \in Nat /\ count' \in Nat
    BY <1>1 DEF CInv, Types
  <2>3. \A q \in DOMAIN pages' :
          pages'[q] \in [content : Bytes \cup {"none"}, prot : SUBSET RWX]
    BY <1>2 DEF CInv, Types
  <2> QED
    BY <2>1, <2>2, <2>3 DEF Types
<1>9. Progress'
  <2>1. Progress /\ 1 \in 1 .. 13 /\ 0 \in 0 .. Iterations - 1
    BY BoundsAssumption DEF CInv
  <2> SUFFICES ASSUME NEW i \in 1 .. n + 1
               PROVE  frames'[i].step \in 1 .. 13 /\ frames'[i].k \in 0 .. Iterations - 1
    BY <1>5, Zenon DEF Progress
  <2>2. CASE i \in 1 .. n
    BY <2>1, <2>2, <1>4, <1>5, Zenon DEF Progress
  <2>3. CASE i = n + 1
    BY <2>1, <2>3, <1>5, <1>6, Zenon
  <2>4. i \in 1 .. n \/ i = n + 1
    BY <1>4
  <2> QED
    BY <2>2, <2>3, <2>4, Zenon
<1>10. PagesHold'
  <2> SUFFICES ASSUME NEW i \in 1 .. n + 1, frames'[i].step > 1
               PROVE  pages'[frames'[i].page].content = Held[frames'[i].step]
    BY <1>5 DEF PagesHold
  <2>1. i \in 1 .. n /\ frames'[i] = frames[i]
    BY <1>4, <1>5, <1>6
  <2>2. frames[i].page \in DOMAIN pages
    BY <2>1, <1>4 DEF CInv, IInv, HandlersAreIsolated
  <2>3. pages'[frames[i].page] = pages[frames[i].page]
    BY <2>2, <1>2
  <2> QED
    BY <2>1, <2>3, <1>4 DEF CInv, PagesHold
<1>11. Verdicts'
  <2>1. (\E i \in DOMAIN frames' : frames'[i].wrong) <=> (\E i \in DOMAIN frames : frames[i].wrong)
    <3>1. \A i : i \in DOMAIN frames' <=> i \in DOMAIN frames \/ i = n + 1
      BY <1>4, <1>5
    <3>2. \A i \in DOMAIN frames : frames'[i] = frames[i]
      BY <1>4, <1>5
    <3>3. ~frames'[n + 1].wrong
      BY <1>5, <1>6
    <3> QED
      BY <3>1, <3>2, <3>3, Zenon
  <2> QED
    BY <2>1, <1>1 DEF CInv, Verdicts
<1>12. NoneLost'
  <2> DEFINE x == <<s, pending[s]>>
  <2>1. Queued' = Queued \ {x} /\ x \in Queued
    <3>1. x \in Queued
      BY <1>1, <1>7 DEF Queued
    <3>2. ASSUME NEW y \in Signals \X Nat
          PROVE  y \in Queued' <=> y \in Queued \ {x}
      <4>1. CASE y[1] = s
        BY <4>1, <1>1, <1>7 DEF Queued
      <4>2. CASE y[1] # s
        BY <4>2, <1>1, <1>7 DEF Queued
      <4> QED
        BY <4>1, <4>2
    <3>3. Queued \subseteq Signals \X Nat /\ Queued' \subseteq Signals \X Nat
      BY DEF Queued
    <3> QED
      BY <3>1, <3>2, <3>3
  <2>2. IsFiniteSet(Queued \ {x}) /\ Cardinality(Queued \ {x}) = Cardinality(Queued) - 1
    BY <2>1, FS_RemoveElement DEF CInv, NoneLost
  <2>3. Cardinality(Queued) \in Nat
    BY FS_CardinalityType DEF CInv, NoneLost
  <2> QED
    BY <2>1, <2>2, <2>3, <1>1 DEF CInv, NoneLost, Types
<1>13. NoneSkipped'
  <2> DEFINE New == {n + 1} \X (1 .. Iterations)
  <2>1. Todo' = Todo \cup New /\ Todo \cap New = {}
    <3>1. ASSUME NEW i, NEW j
          PROVE  <<i, j>> \in Todo' <=> <<i, j>> \in Todo \/ <<i, j>> \in New
      <4>1. CASE i \in 1 .. n
        BY <4>1, <1>4, <1>5 DEF Todo
      <4>2. CASE i = n + 1
        BY <4>2, <1>4, <1>5, <1>6 DEF Todo
      <4>3. CASE i \notin 1 .. n + 1
        BY <4>3, <1>4, <1>5 DEF Todo
      <4> QED
        BY <4>1, <4>2, <4>3
    <3>2. Todo \subseteq (1 .. n) \X (1 .. Iterations)
      BY <1>4 DEF Todo
    <3>3. Todo' \subseteq (1 .. n + 1) \X (1 .. Iterations)
      BY <1>5 DEF Todo
    <3>4. Todo' = Todo \cup New
      BY <3>1, <3>2, <3>3
    <3> QED
      BY <3>2, <3>4
  <2>2. IsFiniteSet(New) /\ Cardinality(New) = Iterations
    <3>1. IsFiniteSet({n + 1}) /\ Cardinality({n + 1}) = 1
      BY FS_Singleton
    <3>2. IsFiniteSet(1 .. Iterations) /\ Cardinality(1 .. Iterations) = Iterations
      BY FS_Interval, BoundsAssumption
    <3>3. /\ IsFiniteSet(New)
          /\ Cardinality(New) = Cardinality({n + 1}) * Cardinality(1 .. Iterations)
      BY <3>1, <3>2, FS_Product, Zenon
    <3>4. 1 * Iterations = Iterations
      BY BoundsAssumption
    <3> QED
      BY <3>1, <3>2, <3>3, <3>4, Zenon
  <2>3. IsFiniteSet(Todo)
    BY DEF CInv, NoneSkipped
  <2>4. /\ IsFiniteSet(Todo \cup New)
        /\ Cardinality(Todo \cup New) = Cardinality(Todo) + Iterations
    <3>1. Cardinality(Todo \cap New) = 0
      BY <2>1, FS_EmptySet
    <3>2. Cardinality(Todo) \in Nat
      BY <2>3, FS_CardinalityType
    <3> HIDE DEF New
    <3> QED
      BY <3>1, <3>2, <2>2, <2>3, FS_Union, BoundsAssumption
  <2>5. Cardinality(Todo) \in Nat
    BY <2>3, FS_CardinalityType
  <2>6. Iterations * (sigcount + 1) = Iterations * sigcount + Iterations
    BY BoundsAssumption DEF CInv, Types
  <2> QED
    BY <2>1, <2>4, <2>5, <2>6, <1>1, BoundsAssumption DEF CInv, NoneSkipped, Types
<1>14. AllHandled'
  BY <1>1 DEF AllHandled
<1>15. sent' \in 0 .. NumSends
  BY <1>1 DEF CInv
<1> QED
  BY <1>3, <1>8, <1>9, <1>10, <1>11, <1>12, <1>13, <1>14, <1>15 DEF CInv

LEMMA NextIterationCounts ==
  ASSUME CInv, NextIteration
  PROVE  CInv'
<1> DEFINE f == [Top EXCEPT !.k = @ + 1, !.step = 1, !.wrong = FALSE]
<1>1. /\ frames # <<>> /\ main = "join" /\ Top.k < Iterations - 1
      /\ (failed' <=> failed \/ Top.wrong) /\ count' = count + 1 /\ frames' = SetTop(f)
      /\ UNCHANGED <<sent, raised, pending, pages, sigcount, main, stale>>
  BY DEF NextIteration, RoutineEnds, sender
<1>2. PICK n \in Nat \ {0} :
        /\ n = Len(frames) /\ DOMAIN frames = 1 .. n /\ DOMAIN frames' = 1 .. n
        /\ Top = frames[n] /\ Top \in Frame /\ frames'[n] = f
        /\ \A i \in 1 .. n : i # n => frames'[i] = frames[i]
  <2> HIDE DEF f
  <2> QED
    BY <1>1, OnlyTop DEF CInv
<1>3. f.step = 1 /\ f.k = Top.k + 1 /\ f.wrong = FALSE /\ f.page = Top.page
  BY <1>2, AnyAgain DEF Frame
<1> HIDE DEF f
<1>4. Top.k \in 0 .. Iterations - 1
  BY <1>2 DEF CInv, Progress
<1>5. IInv'
  BY IsolationKept DEF CInv, Next, Handler
<1>6. Types'
  BY <1>1 DEF CInv, Types
<1>7. Progress'
  <2>1. Progress
    BY DEF CInv
  <2>2. f.step \in 1 .. 13 /\ f.k \in 0 .. Iterations - 1
    BY <1>1, <1>3, <1>4, BoundsAssumption
  <2> SUFFICES ASSUME NEW i \in 1 .. n
               PROVE  frames'[i].step \in 1 .. 13 /\ frames'[i].k \in 0 .. Iterations - 1
    BY <1>2, Zenon DEF Progress
  <2>3. CASE i = n
    BY <2>2, <2>3, <1>2, Zenon
  <2>4. CASE i # n
    BY <2>1, <2>4, <1>2, Zenon DEF Progress
  <2> QED
    BY <2>3, <2>4, Zenon
<1>8. PagesHold'
  <2>1. PagesHold
    BY DEF CInv
  <2> SUFFICES ASSUME NEW i \in 1 .. n, frames'[i].step > 1
               PROVE  pages'[frames'[i].page].content = Held[frames'[i].step]
    BY <1>2, Zenon DEF PagesHold
  <2>2. i # n
    BY <1>2, <1>3
  <2>3. pages' = pages
    BY <1>1
  <2> QED
    BY <2>1, <2>2, <2>3, <1>2, Zenon DEF PagesHold
<1>9. Verdicts'
  <2>1. PICK others \in BOOLEAN :
           /\ (\E i \in DOMAIN frames : frames[i].wrong) <=> (others \/ Top.wrong)
           /\ (\E i \in DOMAIN frames' : frames'[i].wrong) <=> (others \/ f.wrong)
    BY <1>1, VerdictsSplit DEF CInv
  <2>2. ~f.wrong
    BY <1>3
  <2>3. stale <=> (failed \/ others \/ Top.wrong)
    BY <2>1, Zenon DEF CInv, Verdicts
  <2>4. stale' = stale /\ (failed' <=> failed \/ Top.wrong)
    BY <1>1
  <2> QED
    BY <2>1, <2>2, <2>3, <2>4, Zenon DEF Verdicts
<1>10. NoneLost'
  <2>1. Queued' = Queued
    BY <1>1 DEF Queued
  <2> QED
    BY <2>1, <1>1 DEF CInv, NoneLost
<1>11. NoneSkipped'
  <2> DEFINE x == <<n, Top.k + 1>>
  <2>1. Todo' = Todo \ {x} /\ x \in Todo
    <3>1. x \in Todo
      BY <1>1, <1>2, <1>4, BoundsAssumption DEF Todo
    <3>2. ASSUME NEW i, NEW j
          PROVE  <<i, j>> \in Todo' <=> <<i, j>> \in Todo /\ <<i, j>> # x
      <4>1. CASE i = n
        BY <4>1, <1>1, <1>2, <1>3, <1>4, BoundsAssumption DEF Todo
      <4>2. CASE i # n
        BY <4>2, <1>2 DEF Todo
      <4> QED
        BY <4>1, <4>2
    <3>3. /\ Todo \subseteq (1 .. n) \X (1 .. Iterations)
          /\ Todo' \subseteq (1 .. n) \X (1 .. Iterations)
      BY <1>2 DEF Todo
    <3> HIDE DEF x
    <3>4. Todo' = Todo \ {x}
      BY <3>2, <3>3, SamePairs
    <3> QED
      BY <3>1, <3>4
  <2>2. IsFiniteSet(Todo \ {x}) /\ Cardinality(Todo \ {x}) = Cardinality(Todo) - 1
    <3>1. IsFiniteSet(Todo)
      BY DEF CInv, NoneSkipped
    <3> QED
      BY <2>1, <3>1, FS_RemoveElement
  <2>3. Cardinality(Todo) \in Nat
    BY FS_CardinalityType DEF CInv, NoneSkipped
  <2>4. Iterations * sigcount \in Nat
    BY BoundsAssumption DEF CInv, Types
  <2> QED
    BY <2>1, <2>2, <2>3, <2>4, <1>1 DEF CInv, NoneSkipped, Types
<1>12. AllHandled' /\ sent' \in 0 .. NumSends
  BY <1>1 DEF CInv, AllHandled
<1> QED
  BY <1>5, <1>6, <1>7, <1>8, <1>9, <1>10, <1>11, <1>12 DEF CInv

LEMMA ReturnCounts ==
  ASSUME CInv, HandlerReturns
  PROVE  CInv'
<1>1. /\ frames # <<>> /\ main = "join" /\ Top.k = Iterations - 1
      /\ (failed' <=> failed \/ Top.wrong) /\ count' = count + 1
      /\ pages' = [q \in DOMAIN pages \ {Top.page} |-> pages[q]]
      /\ frames' = SubSeq(frames, 1, Len(frames) - 1)
      /\ UNCHANGED <<sent, raised, pending, sigcount, main, stale>>
  BY DEF HandlerReturns, RoutineEnds, sender
<1>2. PICK n \in Nat \ {0} :
        /\ n = Len(frames) /\ DOMAIN frames = 1 .. n /\ DOMAIN frames' = 1 .. n - 1
        /\ Top = frames[n] /\ Top \in Frame
        /\ \A i \in 1 .. n - 1 : frames'[i] = frames[i]
  BY <1>1 DEF CInv, IInv, Top
<1>3. IInv'
  BY IsolationKept DEF CInv, Next, Handler
<1>4. Types'
  BY <1>1 DEF CInv, Types
<1>5. Progress'
  <2>1. ASSUME NEW i \in 1 .. n - 1
        PROVE  i \in DOMAIN frames /\ frames'[i] = frames[i]
    BY <1>2
  <2> QED
    BY <2>1, <1>2 DEF CInv, Progress
<1>6. PagesHold'
  <2> SUFFICES ASSUME NEW i \in 1 .. n - 1, frames'[i].step > 1
               PROVE  pages'[frames'[i].page].content = Held[frames'[i].step]
    BY <1>2 DEF PagesHold
  <2>1. frames'[i] = frames[i] /\ i \in 1 .. n /\ i # n
    BY <1>2
  <2>2. i \in DOMAIN frames /\ n \in DOMAIN frames
    BY <2>1, <1>2
  <2>3. frames[i].page \in DOMAIN pages /\ frames[i].page # Top.page
    BY <2>1, <2>2, <1>2, Apart, Zenon
  <2>4. pages'[frames[i].page] = pages[frames[i].page]
    BY <2>3, <1>1
  <2>5. PagesHold
    BY DEF CInv
  <2> QED
    BY <2>1, <2>2, <2>4, <2>5, Zenon DEF PagesHold
<1>7. Verdicts'
  <2>1. (\E i \in DOMAIN frames : frames[i].wrong)
          <=> (Top.wrong \/ \E i \in DOMAIN frames' : frames'[i].wrong)
    <3>1. \A i : i \in DOMAIN frames <=> i \in DOMAIN frames' \/ i = n
      BY <1>2
    <3>2. (\A i \in DOMAIN frames' : frames'[i] = frames[i]) /\ Top = frames[n]
      BY <1>2
    <3> QED
      BY <3>1, <3>2, Zenon
  <2>2. stale' = stale /\ (failed' <=> failed \/ Top.wrong)
    BY <1>1
  <2> QED
    BY <2>1, <2>2, Zenon DEF CInv, Verdicts
<1>8. NoneLost'
  <2>1. Queued' = Queued
    BY <1>1 DEF Queued
  <2> QED
    BY <2>1, <1>1 DEF CInv, NoneLost
<1>9. NoneSkipped'
  <2> DEFINE x == <<n, Iterations>>
  <2>1. Todo' = Todo \ {x} /\ x \in Todo
    <3>1. x \in Todo
      BY <1>1, <1>2, BoundsAssumption DEF Todo
    <3>2. ASSUME NEW i, NEW j
          PROVE  <<i, j>> \in Todo' <=> <<i, j>> \in Todo /\ <<i, j>> # x
      <4>1. CASE i = n
        BY <4>1, <1>1, <1>2, BoundsAssumption DEF Todo
      <4>2. CASE i # n
        BY <4>2, <1>2 DEF Todo
      <4> QED
        BY <4>1, <4>2
    <3>3. /\ Todo \subseteq (1 .. n) \X (1 .. Iterations)
          /\ Todo' \subseteq (1 .. n) \X (1 .. Iterations)
      BY <1>2 DEF Todo
    <3> HIDE DEF x
    <3>4. Todo' = Todo \ {x}
      BY <3>2, <3>3, SamePairs
    <3> QED
      BY <3>1, <3>4
  <2>2. IsFiniteSet(Todo \ {x}) /\ Cardinality(Todo \ {x}) = Cardinality(Todo) - 1
    <3>1. IsFiniteSet(Todo)
      BY DEF CInv, NoneSkipped
    <3> QED
      BY <2>1, <3>1, FS_RemoveElement
  <2>3. Cardinality(Todo) \in Nat
    BY FS_CardinalityType DEF CInv, NoneSkipped
  <2>4. Iterations * sigcount \in Nat
    BY BoundsAssumption DEF CInv, Types
  <2> QED
    BY <2>1, <2>2, <2>3, <2>4, <1>1 DEF CInv, NoneSkipped, Types
<1>10. AllHandled' /\ sent' \in 0 .. NumSends
  BY <1>1 DEF CInv, AllHandled
<1> QED
  BY <1>3, <1>4, <1>5, <1>6, <1>7, <1>8, <1>9, <1>10 DEF CInv

LEMMA Counted == Spec => []CInv
<1>1. Init => CInv
  <2> SUFFICES ASSUME Init
               PROVE  CInv
    OBVIOUS
  <2>1. Queued = {} /\ Todo = {}
    BY DEF Init, Queued, Todo
  <2>2. IsFiniteSet({}) /\ Cardinality({}) = 0
    BY FS_EmptySet
  <2>3. NumSends \in Nat
    BY SignalsAssumption, BoundsAssumption DEF NumSends
  <2>4. NoneLost /\ NoneSkipped
    BY <2>1, <2>2, BoundsAssumption DEF Init, NoneLost, NoneSkipped
  <2>5. IInv
    BY DEF Init, IInv, HandlersAreIsolated
  <2> QED
    BY <2>3, <2>4, <2>5 DEF Init, CInv, Types, Progress, PagesHold, Verdicts, AllHandled
<1>2. CInv /\ [Next]_vars => CInv'
  <2> SUFFICES ASSUME CInv, [Next]_vars
               PROVE  CInv'
    OBVIOUS
  <2>1. CASE Exit
    <3>1. /\ UNCHANGED <<sent, raised, pending, frames, pages, sigcount, count, failed, stale>>
          /\ frames = <<>> /\ \A s \in Signals : pending[s] = 0
      BY <2>1 DEF Exit, sender
    <3>2. Queued' = Queued /\ Todo' = Todo
      BY <3>1 DEF Queued, Todo
    <3> QED
      BY <3>1, <3>2 DEF CInv, IInv, HandlersAreIsolated, Types, Progress, PagesHold, Verdicts,
                        NoneLost, NoneSkipped, AllHandled
  <2>2. CASE UNCHANGED vars
    <3>1. Queued' = Queued /\ Todo' = Todo
      BY <2>2 DEF Queued, Todo, vars
    <3> QED
      BY <2>2, <3>1 DEF vars, sender, CInv, IInv, HandlersAreIsolated, Types, Progress, PagesHold,
                        Verdicts, NoneLost, NoneSkipped, AllHandled
  <2> QED
    BY <2>1, <2>2, SendCounts, DeliverCounts, StoreCounts, CallCounts, MprotectCounts,
       NextIterationCounts, ReturnCounts DEF Next, Handler
<1> QED
  BY <1>1, <1>2, PTL DEF Spec

\* FAILED is reported only, and at the end always, when some call has executed
\* something else than what its handler had stored, whatever handlers were
\* nested in between (smc_test and main of smc-signals.cpp).
THEOREM FailedIsTrue == Spec => []FailedTellsStaleness
<1>1. CInv => FailedTellsStaleness
  <2> SUFFICES ASSUME CInv
               PROVE  FailedTellsStaleness
    OBVIOUS
  <2>1. main = "exit" => ~ \E i \in DOMAIN frames : frames[i].wrong
    BY DEF CInv, AllHandled
  <2>2. stale <=> (failed \/ \E i \in DOMAIN frames : frames[i].wrong)
    BY DEF CInv, Verdicts
  <2> QED
    BY <2>1, <2>2, Zenon DEF FailedTellsStaleness
<1> QED
  BY <1>1, Counted, PTL

\* At the end sigcount is the number of instances that were queued, and count
\* ten times that (sig_handler and smc_test of smc-signals.cpp).
THEOREM AllCounted == Spec => []EverySignalCounted
<1>1. CInv => EverySignalCounted
  <2> SUFFICES ASSUME CInv, main = "exit"
               PROVE  sigcount = raised /\ count = Iterations * sigcount
    BY DEF EverySignalCounted
  <2>1. frames = <<>> /\ \A s \in Signals : pending[s] = 0
    BY DEF CInv, AllHandled
  <2>2. Queued = {} /\ Todo = {}
    BY <2>1 DEF Queued, Todo
  <2>3. Cardinality({}) = 0
    BY FS_EmptySet
  <2> QED
    BY <2>2, <2>3, BoundsAssumption DEF CInv, NoneLost, NoneSkipped, Types
<1> QED
  BY <1>1, Counted, PTL

\* What bounds the counters: an instance is queued by one pthread_kill, within
\* the limit for its signal.
Bounded == /\ CInv
           /\ raised <= sent
           /\ \A s \in Signals : pending[s] <= Capacity(s)
           /\ failed \in BOOLEAN /\ stale \in BOOLEAN
           /\ main \in {"join", "exit", "SIGSEGV"}

\* The types, and the bounds the program's loops put on its counters (thread and
\* sig_handler of smc-signals.cpp).
THEOREM Typing == Spec => []TypeOK
<1>1. \A s \in Signals : Capacity(s) \in Nat
  BY BoundsAssumption DEF Capacity
<1>2. NumSends \in Nat
  BY SignalsAssumption, BoundsAssumption DEF NumSends
<1>3. Init => raised <= sent /\ (\A s \in Signals : pending[s] <= Capacity(s))
  BY <1>1 DEF Init
<1>4. Init => failed \in BOOLEAN /\ stale \in BOOLEAN /\ main \in {"join", "exit", "SIGSEGV"}
  BY DEF Init
<1>5. Bounded /\ CInv' /\ [Next]_vars => Bounded'
  <2> SUFFICES ASSUME Bounded, CInv', [Next]_vars
               PROVE  Bounded'
    OBVIOUS
  <2>1. sent \in Nat /\ raised \in Nat /\ pending \in [Signals -> Nat]
    BY <1>2 DEF Bounded, CInv, Types
  <2>2. raised' <= sent' /\ \A s \in Signals : pending'[s] <= Capacity(s)
    <3>1. CASE Send
      <4> DEFINE s == SignalOf(sent + 1)
      <4>1. \/ pending[s] < Capacity(s) /\ pending' = [pending EXCEPT ![s] = @ + 1] /\ raised' = raised + 1
            \/ UNCHANGED <<pending, raised>>
        BY <3>1 DEF Send
      <4>2. s \in Signals
        BY <3>1, <2>1, <1>2, SignalOfIsSignal DEF Send
      <4>3. sent' = sent + 1
        BY <3>1 DEF Send
      <4> HIDE DEF s
      <4> QED
        BY <4>1, <4>2, <4>3, <2>1, <1>1 DEF Bounded
    <3>2. ASSUME NEW s \in Signals, Deliver(s)
          PROVE  raised' <= sent' /\ \A t \in Signals : pending'[t] <= Capacity(t)
      BY <3>2, <2>1, <1>1 DEF Bounded, Deliver, sender
    <3>3. CASE UNCHANGED <<sender, pending>>
      BY <3>3 DEF Bounded, sender
    <3> QED
      BY <3>1, <3>2, <3>3 DEF Next, Handler, DoStore, DoCall, DoMprotect, NextIteration,
                              HandlerReturns, Exit, vars, sender
  <2>3. failed' \in BOOLEAN
    <3>1. CASE NextIteration \/ HandlerReturns
      BY <3>1 DEF NextIteration, HandlerReturns
    <3>2. CASE ~(NextIteration \/ HandlerReturns)
      BY <3>2 DEF Bounded, Next, Handler, Send, Deliver, DoStore, DoCall, DoMprotect, Exit, vars
    <3> QED
      BY <3>1, <3>2
  <2>4. stale' \in BOOLEAN
    BY DEF Bounded, Next, Handler, Send, Deliver, DoStore, DoCall, DoMprotect, NextIteration,
           HandlerReturns, Exit, vars
  <2>5. main' \in {"join", "exit", "SIGSEGV"}
    BY DEF Bounded, Next, Handler, Send, Deliver, DoStore, DoCall, DoMprotect, NextIteration,
           HandlerReturns, Exit, vars, InRoutine
  <2> QED
    BY <2>2, <2>3, <2>4, <2>5 DEF Bounded
<1>6. Bounded => TypeOK
  <2> SUFFICES ASSUME Bounded
               PROVE  TypeOK
    OBVIOUS
  <2>1. raised \in 0 .. NumSends /\ sent \in 0 .. NumSends
    BY <1>2 DEF Bounded, CInv, Types
  <2>2. \A s \in Signals : pending[s] \in 0 .. Capacity(s)
    BY <1>1 DEF Bounded, CInv, Types
  <2>3. Cardinality(Queued) \in Nat /\ Cardinality(Todo) \in Nat
    BY FS_CardinalityType DEF Bounded, CInv, NoneLost, NoneSkipped
  <2>4. sigcount \in 0 .. NumSends
    BY <1>2, <2>1, <2>3 DEF Bounded, CInv, NoneLost, Types
  <2>5. count \in 0 .. NumSends * Iterations
    <3>1. count <= Iterations * sigcount
      BY <2>3, <2>4, BoundsAssumption DEF Bounded, CInv, NoneSkipped, Types
    <3>2. Iterations * sigcount <= NumSends * Iterations
      BY <2>4, <1>2, BoundsAssumption
    <3>3. Iterations * sigcount \in Nat /\ NumSends * Iterations \in Nat /\ count \in Nat
      BY <2>4, <1>2, BoundsAssumption DEF Bounded, CInv, Types
    <3> QED
      BY <3>1, <3>2, <3>3
  <2>6. \A i \in DOMAIN frames :
               /\ frames[i].sig \in Signals /\ frames[i].page \in Pages
               /\ frames[i].k \in 0 .. Iterations - 1
               /\ frames[i].step \in 1 .. Len(Script) + 1
    <3>1. Len(Script) = 12
      BY DEF Script
    <3>2. \A i \in DOMAIN frames : frames[i] \in Frame
      BY DEF Bounded, CInv, IInv
    <3> QED
      BY <3>1, <3>2 DEF Bounded, CInv, Progress, Frame
  <2>7. DOMAIN pages \subseteq Pages
    BY <2>6 DEF Bounded, CInv, IInv, HandlersAreIsolated
  <2> QED
    BY <2>1, <2>2, <2>4, <2>5, <2>6, <2>7 DEF TypeOK, Bounded
<1> QED
  <2>1. Init /\ CInv => Bounded
    BY <1>3, <1>4 DEF Bounded
  <2> QED
    BY <1>5, <1>6, <2>1, Counted, PTL DEF Spec
-----------------------------------------------------------------------------
\* The protection of a handler's page before each step of the routine.
ProtAt == <<RWX, RWX, RWX, RWX, RWX, RX, RWX, RWX, RX, RX, RWX, RWX, RWX>>

Protected == \A i \in DOMAIN frames : pages[frames[i].page].prot = ProtAt[frames[i].step]

NoFault == main # "SIGSEGV"

\* The routine stores where it may write and calls where it may execute.
LEMMA RoutineIsAllowed ==
  ASSUME NEW n \in 1 .. 12
  PROVE  /\ Allowed(Script[n], ProtAt[n])
         /\ Script[n].op = "mprotect" => ProtAt[n + 1] = Script[n].prot
         /\ Script[n].op \in {"store", "call"} => ProtAt[n + 1] = ProtAt[n]
<1>1. n \in {1, 2, 3, 4, 5, 6, 7, 8, 9, 10, 11, 12}
  OBVIOUS
<1>2. /\ "write" \in RWX /\ "exec" \in RWX /\ "exec" \in RX
      /\ \A k : Call(k).op = "call" /\ Store(k).op = "store"
      /\ \A prot : Mprotect(prot).op = "mprotect" /\ Mprotect(prot).prot = prot
  BY DEF RWX, RX, Call, Store, Mprotect
<1> HIDE DEF RWX, RX, Call, Store, Mprotect
<1>3. QED
  BY <1>1, <1>2 DEF Script, ProtAt, Allowed

\* A step of the innermost handler changes the protection of its own page only.
LEMMA TopProtects ==
  ASSUME CInv, Protected, frames # <<>>,
         NEW f, frames' = SetTop(f), f.page = Top.page,
         \A q \in DOMAIN pages : q # Top.page => pages'[q] = pages[q],
         pages'[Top.page].prot = ProtAt[f.step]
  PROVE  Protected'
<1>1. IInv
  BY DEF CInv
<1>2. PICK n \in Nat \ {0} :
        /\ n = Len(frames) /\ DOMAIN frames = 1 .. n /\ DOMAIN frames' = 1 .. n
        /\ Top = frames[n] /\ frames'[n] = f
        /\ \A i \in 1 .. n : i # n => frames'[i] = frames[i]
  BY <1>1, OnlyTop
<1>3. ASSUME NEW i \in 1 .. n, i # n
      PROVE  frames[i].page # Top.page /\ frames[i].page \in DOMAIN pages
  BY <1>1, <1>2, <1>3 DEF IInv, HandlersAreIsolated
<1>4. QED
  BY <1>2, <1>3 DEF Protected

\* A step of the routine takes the innermost handler one step on, in its page.
LEMMA RoutineSteps ==
  ASSUME CInv, DoStore \/ DoCall \/ DoMprotect
  PROVE  /\ frames # <<>>
         /\ \E f : frames' = SetTop(f) /\ f.page = Top.page /\ f.step = Top.step + 1
<1>1. frames # <<>> /\ Top \in Frame
  BY InRoutineHas DEF DoStore, DoCall, DoMprotect
<1>2. CASE DoStore \/ DoMprotect
  <2>1. frames' = SetTop([Top EXCEPT !.step = @ + 1])
    BY <1>2 DEF DoStore, DoMprotect
  <2>2. QED
    BY <2>1, <1>1, Advanced
<1>3. CASE DoCall
  <2>1. PICK e : frames' = SetTop([Top EXCEPT !.step = @ + 1,
                                     !.wrong = @ \/ e # Expected[Script[Top.step].k]])
    BY <1>3, Zenon DEF DoCall
  <2> DEFINE w == Top.wrong \/ e # Expected[Script[Top.step].k]
             g == [Top EXCEPT !.step = @ + 1, !.wrong = w]
  <2>2. w \in BOOLEAN
    OBVIOUS
  <2>3. g.step = Top.step + 1 /\ g.page = Top.page
    <3> HIDE DEF w
    <3>1. QED
      BY <2>2, <1>1, AnyCalled DEF Frame
  <2>4. frames' = SetTop(g)
    BY <2>1
  <2> HIDE DEF g
  <2>5. QED
    BY <1>1, <2>3, <2>4
<1>4. QED
  BY <1>2, <1>3

LEMMA RoutineProtects ==
  ASSUME CInv, Protected, NoFault, DoStore \/ DoCall \/ DoMprotect
  PROVE  Protected' /\ NoFault'
<1>1. PICK op \in {"store", "call", "mprotect"} : InRoutine(op) /\
        CASE op = "store" -> DoStore [] op = "call" -> DoCall [] OTHER -> DoMprotect
  BY DEF DoStore, DoCall, DoMprotect
<1>2. /\ frames # <<>> /\ Top \in Frame /\ Top.step \in 1 .. 12
      /\ Top.page \in DOMAIN pages /\ Script[Top.step].op = op
  BY <1>1, InRoutineHas
<1>3. Page.prot = ProtAt[Top.step]
  BY <1>2 DEF CInv, IInv, Protected, Page, Top
<1>4. /\ Allowed(Script[Top.step], ProtAt[Top.step])
      /\ Script[Top.step].op = "mprotect" => ProtAt[Top.step + 1] = Script[Top.step].prot
      /\ Script[Top.step].op \in {"store", "call"} => ProtAt[Top.step + 1] = ProtAt[Top.step]
  BY <1>2, RoutineIsAllowed
<1>5. NoFault'
  BY <1>1, <1>3, <1>4 DEF InRoutine, NoFault
<1>6. pages[Top.page] \in [content : Bytes \cup {"none"}, prot : SUBSET RWX]
  BY <1>2 DEF CInv, Types
<1>7. PICK f : frames' = SetTop(f) /\ f.page = Top.page /\ f.step = Top.step + 1
  BY RoutineSteps
<1>8. /\ \A q \in DOMAIN pages : q # Top.page => pages'[q] = pages[q]
      /\ pages'[Top.page].prot = ProtAt[Top.step + 1]
  <2>1. CASE op = "store"
    BY <1>1, <1>2, <1>3, <1>4, <1>6, <2>1 DEF DoStore, Page
  <2>2. CASE op = "call"
    BY <1>1, <1>2, <1>3, <1>4, <2>2 DEF DoCall, Page
  <2>3. CASE op = "mprotect"
    BY <1>1, <1>2, <1>4, <1>6, <2>3 DEF DoMprotect
  <2>4. QED
    BY <2>1, <2>2, <2>3
<1>9. QED
  BY <1>2, <1>5, <1>7, <1>8, TopProtects

LEMMA ProtectionKept == CInv /\ Protected /\ NoFault /\ [Next]_vars => Protected' /\ NoFault'
<1> SUFFICES ASSUME CInv, Protected, NoFault, [Next]_vars
             PROVE  Protected' /\ NoFault'
  OBVIOUS
<1>1. CASE Send \/ Exit \/ UNCHANGED vars
  BY <1>1 DEF Send, Exit, vars, Protected, NoFault
<1>2. ASSUME NEW s \in Signals, Deliver(s)
      PROVE  Protected' /\ NoFault'
  <2> DEFINE fresh(p) == [sig |-> s, page |-> p, k |-> 0, step |-> 1, wrong |-> FALSE]
  <2>1. PICK p \in Pages \ DOMAIN pages :
          /\ pages' = [q \in DOMAIN pages \cup {p} |->
                         IF q = p THEN [content |-> "none", prot |-> RWX] ELSE pages[q]]
          /\ frames' = Append(frames, fresh(p))
    BY <1>2 DEF Deliver
  <2>2. PICK n \in Nat : n = Len(frames) /\ DOMAIN frames = 1 .. n
    BY DEF CInv, IInv
  <2>3. /\ DOMAIN frames' = 1 .. n + 1 /\ frames'[n + 1] = fresh(p)
        /\ \A i \in 1 .. n : frames'[i] = frames[i]
    BY <2>1, <2>2 DEF CInv, IInv
  <2>4. fresh(p).page = p /\ fresh(p).step = 1 /\ ProtAt[1] = RWX
    BY DEF ProtAt
  <2>5. \A i \in 1 .. n : frames[i].page \in DOMAIN pages
    BY <2>2 DEF CInv, IInv, HandlersAreIsolated
  <2>6. \A q \in DOMAIN pages : pages'[q] = pages[q]
    BY <2>1
  <2>7. pages'[p].prot = RWX
    BY <2>1
  <2> HIDE DEF fresh
  <2>8. Protected'
    BY <2>2, <2>3, <2>4, <2>5, <2>6, <2>7 DEF Protected
  <2>9. QED
    BY <2>8, <1>2 DEF Deliver, NoFault
<1>3. CASE DoStore \/ DoCall \/ DoMprotect
  BY <1>3, RoutineProtects
<1>4. CASE NextIteration
  <2> DEFINE f == [Top EXCEPT !.k = @ + 1, !.step = 1, !.wrong = FALSE]
  <2>1. /\ frames # <<>> /\ Top.step > 12 /\ frames' = SetTop(f)
        /\ UNCHANGED <<pages, main>>
    BY <1>4 DEF NextIteration, RoutineEnds, Script
  <2>2. /\ Top \in Frame /\ Top.step \in 1 .. 13
        /\ pages[Top.page].prot = ProtAt[Top.step]
    BY <2>1 DEF CInv, IInv, Progress, Protected, Top
  <2>3. f.page = Top.page /\ f.step = 1
    BY <2>2, AnyAgain DEF Frame
  <2>4. pages'[Top.page].prot = ProtAt[1]
    BY <2>1, <2>2 DEF ProtAt
  <2> HIDE DEF f
  <2>5. Protected'
    BY <2>1, <2>3, <2>4, TopProtects
  <2>6. QED
    BY <2>1, <2>5 DEF NoFault
<1>5. CASE HandlerReturns
  <2>1. PICK n \in Nat \ {0} :
          /\ n = Len(frames) /\ DOMAIN frames = 1 .. n /\ DOMAIN frames' = 1 .. n - 1
          /\ Top = frames[n] /\ \A i \in 1 .. n - 1 : frames'[i] = frames[i]
          /\ pages' = [q \in DOMAIN pages \ {frames[n].page} |-> pages[q]]
    BY <1>5 DEF HandlerReturns, RoutineEnds, CInv, IInv, Top
  <2>2. ASSUME NEW i \in 1 .. n - 1
        PROVE  /\ frames[i].page # frames[n].page /\ frames[i].page \in DOMAIN pages
               /\ i \in DOMAIN frames
    <3>1. i \in DOMAIN frames /\ n \in DOMAIN frames /\ i # n
      BY <2>1
    <3>2. QED
      BY <3>1, Apart, Zenon
  <2>3. Protected'
    <3> SUFFICES ASSUME NEW i \in 1 .. n - 1
                 PROVE  pages'[frames'[i].page].prot = ProtAt[frames'[i].step]
      BY <2>1, Zenon DEF Protected
    <3>1. pages'[frames[i].page] = pages[frames[i].page]
      BY <2>1, <2>2
    <3>2. pages[frames[i].page].prot = ProtAt[frames[i].step]
      BY <2>2, Zenon DEF Protected
    <3>3. frames'[i] = frames[i]
      BY <2>1
    <3>4. QED
      BY <3>1, <3>2, <3>3, Zenon
  <2>4. QED
    BY <2>3, <1>5 DEF HandlerReturns, NoFault
<1>6. QED
  BY <1>1, <1>2, <1>3, <1>4, <1>5 DEF Next, Handler

\* No handler, interrupted at any step, finds its page's protection other than the
\* step needs, so main() never dies of its own routine (smc_test of
\* smc-signals.cpp).
THEOREM NeverFaults == Spec => []NoFault
<1>1. Init => Protected /\ NoFault
  BY DEF Init, Protected, NoFault
<1>2. QED
  BY <1>1, ProtectionKept, Counted, PTL DEF Spec
-----------------------------------------------------------------------------
LEMMA Numbered ==
  ASSUME NEW n \in Nat, NEW R, NEW g \in [1 .. n -> R],
         \A i, j \in 1 .. n : g[i] = g[j] => i = j,
         \A x \in R : \E i \in 1 .. n : g[i] = x
  PROVE  IsFiniteSet(R) /\ Cardinality(R) = n
<1>1. g \in Surjection(1 .. n, R)
  BY DEF Surjection
<1>2. g \in Injection(1 .. n, R)
  BY DEF Injection, IsInjective
<1>3. IsFiniteSet(1 .. n) /\ Cardinality(1 .. n) = n
  BY FS_Interval
<1>4. QED
  BY <1>1, <1>2, <1>3, FS_Surjection

Unmasked(s) == main = "join" /\ pending[s] > 0 /\ ~Masked(s)
PageIsLeft == \A s \in Signals : Unmasked(s) => Pages \ DOMAIN pages # {}

\* The handlers at work are of different signals, and a page for each of the signals
\* is enough: a handler that may start always gets its page (sig_handler of
\* smc-signals.cpp, whose mmap is not checked).
THEOREM PagesSuffice == Spec => []PageIsLeft
<1>1. CInv => PageIsLeft
  <2> SUFFICES ASSUME CInv, NEW s \in Signals, Unmasked(s), Pages \subseteq DOMAIN pages
               PROVE  FALSE
    BY DEF PageIsLeft
  <2>1. PICK n \in Nat : n = Len(frames) /\ DOMAIN frames = 1 .. n
    BY DEF CInv, IInv
  <2>2. HandlersAreIsolated /\ \A i \in 1 .. n : frames[i] \in Frame
    BY <2>1 DEF CInv, IInv
  <2> DEFINE sigs == [i \in 1 .. n |-> frames[i].sig]    used == [i \in 1 .. n |-> frames[i].page]
             Sigs == {frames[i].sig : i \in 1 .. n}      Used == {frames[i].page : i \in 1 .. n}
  <2>3. /\ sigs \in [1 .. n -> Sigs] /\ used \in [1 .. n -> Used]
        /\ \A i, j \in 1 .. n : sigs[i] = sigs[j] => i = j
        /\ \A i, j \in 1 .. n : used[i] = used[j] => i = j
        /\ \A x \in Sigs : \E i \in 1 .. n : sigs[i] = x
        /\ \A x \in Used : \E i \in 1 .. n : used[i] = x
    BY <2>1, <2>2 DEF HandlersAreIsolated
  <2>4. Pages = Used
    <3>1. DOMAIN pages = Used
      BY <2>1, <2>2 DEF HandlersAreIsolated
    <3>2. QED
      BY <2>2, <3>1 DEF Frame
  <2>5. Sigs \subseteq Signals /\ s \in Signals \ Sigs
    <3>1. Sigs \subseteq Signals
      BY <2>2 DEF Frame
    <3>2. s \notin Sigs
      BY <2>1 DEF Unmasked, Masked
    <3>3. QED
      BY <3>1, <3>2
  <2> HIDE DEF sigs, used, Sigs, Used
  <2>6. /\ IsFiniteSet(Sigs) /\ Cardinality(Sigs) = n
        /\ IsFiniteSet(Used) /\ Cardinality(Used) = n
    <3>1. IsFiniteSet(Sigs) /\ Cardinality(Sigs) = n
      BY <2>3, Numbered, Zenon
    <3>2. IsFiniteSet(Used) /\ Cardinality(Used) = n
      BY <2>3, Numbered, Zenon
    <3>3. QED
      BY <3>1, <3>2, Zenon
  <2>7. IsFiniteSet(Signals)
    <3>1. Signals = Range(signals) /\ signals \in Seq(Signals)
      BY SignalsAssumption DEF Signals, Range
    <3>2. signals \in Surjection(1 .. Len(signals), Signals) /\ Len(signals) \in Nat
      BY <3>1, SignalsAssumption DEF Surjection, Range
    <3>3. QED
      BY <3>2, FS_Interval, FS_Surjection
  <2>8. Cardinality(Signals) \in Nat /\ Cardinality(Sigs) < Cardinality(Signals)
    <3>1. Cardinality(Sigs) <= Cardinality(Signals) /\ Cardinality(Signals) # Cardinality(Sigs)
      BY <2>5, <2>7, FS_Subset
    <3>2. Cardinality(Signals) \in Nat /\ Cardinality(Sigs) \in Nat
      BY <2>6, <2>7, FS_CardinalityType
    <3>3. QED
      BY <3>1, <3>2
  <2>9. QED
    BY <2>4, <2>6, <2>8, BoundsAssumption
<1>2. QED
  BY <1>1, Counted, PTL
-----------------------------------------------------------------------------
\* What is left to do: signals to send, to handle, iterations to count, and the
\* thread to join; and within the innermost handler, steps of the routine.
Jobs == (NumSends - sent) + (NumSends - sigcount) + (NumSends * Iterations - count)
        + (IF main = "join" THEN 1 ELSE 0)
Rest == IF frames = <<>> THEN 0 ELSE 13 - Top.step
Work == 13 * Jobs + Rest

WorkIsNat == Work \in Nat
WorkShrinks == Work' < Work
Limits == CInv /\ TypeOK

LEMMA StepOfTop ==
  ASSUME CInv, frames # <<>>
  PROVE  Top.step \in 1 .. 13
<1>1. frames \in Seq(Frame) /\ Progress
  BY DEF CInv, IInv
<1>2. Len(frames) \in DOMAIN frames
  BY <1>1
<1> QED
  BY <1>1, <1>2, Zenon DEF Progress, Top

LEMMA Sizes ==
  ASSUME Limits
  PROVE  /\ Jobs \in Nat /\ Rest \in 0 .. 12
         /\ NumSends \in Nat /\ NumSends * Iterations \in Nat
         /\ sent \in Nat /\ sigcount \in Nat /\ count \in Nat
<1>1. NumSends \in Nat /\ NumSends * Iterations \in Nat
  BY SignalsAssumption, BoundsAssumption DEF NumSends
<1>2. Rest \in 0 .. 12
  <2>1. CASE frames = <<>>
    BY <2>1 DEF Rest
  <2>2. CASE frames # <<>>
    <3>1. Top.step \in 1 .. 13
      BY <2>2, StepOfTop, Zenon DEF Limits
    <3>2. QED
      BY <2>2, <3>1 DEF Rest
  <2>3. QED
    BY <2>1, <2>2
<1>3. QED
  BY <1>1, <1>2 DEF Limits, TypeOK, Jobs

LEMMA Ordered ==
  ASSUME NEW a \in Nat, NEW b \in Nat, NEW c \in 0 .. 12, NEW d \in 0 .. 12,
         a < b \/ (a <= b /\ c = d - 1)
  PROVE  13 * a + c < 13 * b + d
OBVIOUS

\* Either a job is done, or the innermost handler goes a step on.
LEMMA LessWork ==
  ASSUME Limits, Limits', Jobs' < Jobs \/ (Jobs' <= Jobs /\ Rest' = Rest - 1)
  PROVE  WorkShrinks
<1>1. /\ Jobs \in Nat /\ Rest \in 0 .. 12 /\ Jobs' \in Nat /\ Rest' \in 0 .. 12
  <2>1. Jobs \in Nat /\ Rest \in 0 .. 12
    BY Sizes
  <2>2. (Jobs \in Nat /\ Rest \in 0 .. 12)'
    BY Sizes, PTL
  <2>3. QED
    BY <2>1, <2>2
<1>2. QED
  BY <1>1, Ordered, Zenon DEF WorkShrinks, Work

LEMMA WorkGetsLess == Limits /\ Limits' /\ Next => WorkShrinks
<1> SUFFICES ASSUME Limits, Limits', Next PROVE WorkShrinks
  OBVIOUS
<1>1. /\ NumSends \in Nat /\ NumSends * Iterations \in Nat
      /\ sent \in Nat /\ sigcount \in Nat /\ count \in Nat
  BY Sizes
<1>2. CInv
  BY DEF Limits
<1>3. CASE Send
  <2>1. Jobs' < Jobs
    BY <1>1, <1>3 DEF Send, Jobs
  <2>2. QED
    BY <2>1, LessWork, Zenon
<1>4. ASSUME NEW s \in Signals, Deliver(s)
      PROVE  WorkShrinks
  <2>1. Jobs' < Jobs
    BY <1>1, <1>4 DEF Deliver, sender, Jobs
  <2>2. QED
    BY <2>1, LessWork, Zenon
<1>5. CASE DoStore \/ DoCall \/ DoMprotect
  <2>1. PICK f : frames # <<>> /\ frames' = SetTop(f) /\ f.step = Top.step + 1
    BY <1>2, <1>5, RoutineSteps
  <2>2. Rest' = Rest - 1
    <3>1. PICK n \in Nat \ {0} : n = Len(frames) /\ DOMAIN frames' = 1 .. n /\ frames'[n] = f
      BY <1>2, <2>1, OnlyTop DEF CInv
    <3>2. Len(frames') = n /\ frames' # <<>> /\ Top' = f
      <4>1. frames \in Seq(Frame) /\ frames # <<>>
        BY <1>2, <2>1, Zenon DEF CInv, IInv
      <4>2. Len(frames') = Len(frames)
        BY <2>1, <4>1 DEF SetTop
      <4>3. Len(frames') = n /\ Top' = f
        BY <3>1, <4>2, Zenon DEF Top
      <4> QED
        BY <3>1, <4>3
    <3>3. Top.step \in 1 .. 13
      BY <1>2, <2>1, StepOfTop, Zenon
    <3>4. QED
      BY <2>1, <3>2, <3>3 DEF Rest
  <2>3. UNCHANGED <<sent, sigcount, count>> /\ main = "join"
    BY <1>5 DEF DoStore, DoCall, DoMprotect, InRoutine, sender
  <2>4. Jobs' <= Jobs
    BY <1>1, <2>3 DEF Jobs
  <2>5. QED
    BY <2>2, <2>4, LessWork, Zenon
<1>6. CASE NextIteration \/ HandlerReturns
  <2>1. UNCHANGED <<sent, sigcount, main>> /\ count' = count + 1
    BY <1>6 DEF NextIteration, HandlerReturns, sender
  <2>2. Jobs' < Jobs
    BY <1>1, <2>1 DEF Jobs
  <2>3. QED
    BY <2>2, LessWork, Zenon
<1>7. CASE Exit
  <2>1. UNCHANGED <<sent, sigcount, count>> /\ main = "join" /\ main' # "join"
    BY <1>7 DEF Exit, sender
  <2>2. Jobs' < Jobs
    BY <1>1, <2>1 DEF Jobs
  <2>3. QED
    BY <2>2, LessWork, Zenon
<1>8. QED
  BY <1>3, <1>4, <1>5, <1>6, <1>7 DEF Next, Handler

\* However handlers and sender interleave, each step leaves less work: no run goes
\* on for ever, and Work is a bound on its length (thread, sig_handler and
\* smc_test of smc-signals.cpp).
THEOREM WorkRunsOut == Spec => [](Work \in Nat) /\ [][Work' < Work]_vars
<1>1. Limits => WorkIsNat
  BY Sizes DEF WorkIsNat, Work
<1>2. Limits /\ Limits' /\ [Next]_vars => [WorkShrinks]_vars
  BY WorkGetsLess
<1>3. Spec => []Limits
  BY Counted, Typing, PTL DEF Limits
<1>4. Spec => []WorkIsNat /\ [][WorkShrinks]_vars
  BY <1>1, <1>2, <1>3, PTL DEF Spec
<1>5. QED
  BY <1>4 DEF WorkIsNat, WorkShrinks
-----------------------------------------------------------------------------
\* The guards of Handler (the last one read as "counts an iteration or returns")
\* and of Exit.
MayStart(s) == Unmasked(s) /\ Pages \ DOMAIN pages # {}
InStep == Top.step \in 1 .. Len(Script) /\ Script[Top.step].op \in {"store", "call", "mprotect"}
AtEnd == Top.step > Len(Script) /\ (Top.k < Iterations - 1 \/ Top.k = Iterations - 1)
HandlerMay == \/ \E s \in Signals : MayStart(s)
              \/ main = "join" /\ frames # <<>> /\ (InStep \/ AtEnd)
MayExit == main = "join" /\ sent = NumSends /\ frames = <<>> /\ \A s \in Signals : pending[s] = 0

\* What main() has still to do it need not wait for: the sender only, and it only
\* when no handler is at work.
Goes == main # "exit" => HandlerMay \/ MayExit \/ (main = "join" /\ frames = <<>> /\ sent < NumSends)

LEMMA ScriptOps == \A n \in 1 .. 12 : Script[n].op \in {"store", "call", "mprotect"}
<1>1. /\ \A k : Call(k).op = "call" /\ Store(k).op = "store"
      /\ \A prot : Mprotect(prot).op = "mprotect"
  BY DEF Call, Store, Mprotect
<1> HIDE DEF Call, Store, Mprotect
<1>2. SUFFICES ASSUME NEW n \in {1, 2, 3, 4, 5, 6, 7, 8, 9, 10, 11, 12}
               PROVE  Script[n].op \in {"store", "call", "mprotect"}
  BY <1>2
<1> QED
  BY <1>1 DEF Script

\* A handler at work is at a step of the routine, in an iteration of the loop.
LEMMA TopGoes ==
  ASSUME Limits, main = "join", frames # <<>>
  PROVE  HandlerMay
<1>1. Len(Script) = 12
  BY DEF Script
<1>2. Top.step \in 1 .. 13
  BY StepOfTop, Zenon DEF Limits
<1>3. Top.k \in 0 .. Iterations - 1
  <2>1. frames \in Seq(Frame)
    BY DEF Limits, CInv, IInv
  <2>2. Len(frames) \in DOMAIN frames
    BY <2>1
  <2> QED
    BY <2>2, Zenon DEF Limits, TypeOK, Top
<1>4. CASE Top.step \in 1 .. 12
  <2>1. InStep
    BY <1>1, <1>4, ScriptOps, Zenon DEF InStep
  <2> QED
    BY <2>1, Zenon DEF HandlerMay
<1>5. CASE Top.step = 13
  <2>1. Top.step > Len(Script)
    BY <1>1, <1>5
  <2>2. Top.k < Iterations - 1 \/ Top.k = Iterations - 1
    BY <1>3, BoundsAssumption
  <2>3. AtEnd
    BY <2>1, <2>2, Zenon DEF AtEnd
  <2> QED
    BY <2>3, Zenon DEF HandlerMay
<1> QED
  BY <1>2, <1>4, <1>5

\* Whatever has nested in whatever: until main() has exited, the handlers can go on,
\* or main() can, or none is at work and the thread has signals left to send.  No
\* handler waits for the page, the signal or the step of another (main, thread and
\* sig_handler of smc-signals.cpp).
THEOREM NeverStuck == Spec => []Goes
<1>1. Limits /\ NoFault /\ PageIsLeft => Goes
  <2> SUFFICES ASSUME Limits, NoFault, PageIsLeft, main # "exit"
               PROVE  HandlerMay \/ MayExit \/ (main = "join" /\ frames = <<>> /\ sent < NumSends)
    BY Zenon DEF Goes
  <2>1. main = "join"
    BY DEF NoFault, Limits, TypeOK
  <2>2. CASE frames # <<>>
    BY <2>1, <2>2, TopGoes, Zenon
  <2>3. CASE frames = <<>> /\ sent # NumSends
    <3>1. sent \in 0 .. NumSends /\ NumSends \in Nat
      BY SignalsAssumption, BoundsAssumption DEF Limits, TypeOK, NumSends
    <3>2. sent < NumSends
      BY <2>3, <3>1
    <3> QED
      BY <2>1, <2>3, <3>2, Zenon
  <2>4. CASE frames = <<>> /\ sent = NumSends
    <3>1. CASE \A s \in Signals : pending[s] = 0
      BY <2>1, <2>4, <3>1, Zenon DEF MayExit
    <3>2. CASE \E s \in Signals : pending[s] # 0
      <4>1. PICK s \in Signals : pending[s] # 0
        BY <3>2
      <4>2. pending[s] > 0
        BY <4>1 DEF Limits, CInv, Types
      <4>3. ~Masked(s)
        BY <2>4 DEF Masked
      <4>4. MayStart(s)
        BY <2>1, <4>2, <4>3, Zenon DEF Unmasked, MayStart, PageIsLeft
      <4> QED
        BY <4>4, Zenon DEF HandlerMay
    <3> QED
      BY <3>1, <3>2
  <2> QED
    BY <2>2, <2>3, <2>4
<1>2. Spec => []Limits
  BY Counted, Typing, PTL DEF Limits
<1> QED
  BY <1>1, <1>2, NeverFaults, PagesSuffice, PTL
=============================================================================
