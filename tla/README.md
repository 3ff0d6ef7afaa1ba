# A verification project for fex-assorted-tests-bins

The repository is a collection of small programs that exercise the parts of a
Linux system an x86 emulator finds hard: code that modifies itself, signals that
nest, address spaces that are filled, shared, split and moved. Each program sets
a situation up, runs it, and prints or returns a verdict. What has to be right
about such a program is that the situation really arises, whatever the timing,
and that the verdict says what happened: a test that blames a faultless system,
or that misses the fault it was written for, is worse than none.

This directory models the programs in TLA+, checks the models with TLC and
proves some of the results with TLAPS.

Contents: [Inventory](#inventory) - [Modules](#modules) - [What the models say of
the code](#what-the-models-say-of-the-code) - [Runs](#runs) - [Fairness](#fairness) -
[Proofs](#proofs) - [Findings](#findings) - [Not modelled](#not-modelled) -
[Plan](#plan) - [Working with the project](#working-with-the-project)

## Inventory

The programs do not call each other. Each interacts with the kernel (mappings,
signals, timers, `fork`), with its own signal handlers and threads, and with the
machine that executes it, real or emulated. Sources are relative to the
repository's root.

### Address spaces

| program | state | operations | what is hard | what makes it correct |
|---|---|---|---|---|
| `src/reserve-address-space.cpp` | the address space, `alloc_len`, `total_len` | `mmap` until the kernel refuses, then halve the size | the kernel picks the gap; sizes do not divide gaps | no free page is left; the total is what was reserved; it ends |
| `address-space-stealing/alloc.cpp` | the address space; `Buffer`, `Cursor`, `Remaining`; `State`, `RegionBegin`, `RegionEnd`; a bucket on the stack, to be linked to others | `read` of `/proc/self/maps`, `mmap` with `MAP_FIXED` over each hole, record the hole in a bucket | the file is rendered from the address space that the parser is changing; a read ends anywhere, inside a number too; the mapping is not checked; the bucket's array holds half of what the code puts in it | never over a mapping, nothing twice, every hole of the window; as far as the array goes, the bucket tells what was stolen |

### Code and mappings

| program | state | operations | what is hard | what makes it correct |
|---|---|---|---|---|
| `src/smc.cpp` | a page of code in the heap, stack, data or text | the routine: store, call, `mprotect`, four times over | which of the steps a page's protection allows; a stale translation of the code | each verdict says whether its call executed what was stored; no step faults |
| `src/smc-2.cpp`, `src/smc-shmatdt.cpp`, `src/smc-fd.cpp` | a mirror, a System V segment, a page amid a detached segment, a file | the routine through these | the kernel's rules for `mremap`, `shmdt` and private file mappings | the same |
| `src/smc-shared.cpp`, `src/smc-shared-2.cpp` | two mappings of a page; a child process | store through one, call through the other; in the child, in the parent | aliases; the order of the child's store and the parent's call | the same |
| `src/mremap.cpp`, `src/prot-growsdown.cpp` | pages in VMAs that split and merge | `mremap` with 0, 1 and 2 pages; `PROT_GROWSDOWN` | an `mprotect` splits a VMA and another one merges it again | each call succeeds or fails as the test says it has to |
| `src/memfd.cpp`, `src/segfault.cpp` | mappings beyond the end of an object; a page without protection | stores; a handler that unprotects | which access gets `SIGBUS`, and when a retried store gets through | ends in the expected way |
| `src/shmid.cpp` | none | five `shmget` calls, printed | nothing | - |

### Threads

| program | state | operations | what is hard | what makes it correct |
|---|---|---|---|---|
| `src/smc-mt.cpp` | a hundred threads, each with a page | the routine in each | nothing is shared but the address space | as for `smc.cpp` |
| `src/smc-mt-2.cpp` | byte 3 of a function, the thread's loop, `sleep(1)` twice | the thread generates and calls; `main()` modifies | nothing but a sleep orders the two stores | the modification survives, and the thread sees it |
| `src/tests/signal/pthread_cancel.cpp` | the thread's cancel state, a key with a destructor, three sleeps | disable, enable, sleep; `pthread_cancel`, `pthread_join` | the request comes before, while or after cancellation is disabled | the request is never lost, and the destructor has run once when the join returns |

### Signals

| program | state | operations | what is hard | what makes it correct |
|---|---|---|---|---|
| `src/signals/context-demo.c` | ten `ucontext_t` and stacks, `curcontext`, `cur_context`, `insig` | timer signal, `swapcontext`, `setcontext` | an alarm between any two steps, in the scheduler and within the switches too | no context is lost or saved from a wrong stack; each runs again |
| `src/smc-signals.cpp` | a page for each handler, `count`, `sigcount`, `failed` | `pthread_kill` 1000 times for each of five signals and 1000 mixed; the routine in the handler | handlers nest at any step; signals merge | handlers do not disturb each other; every signal that became pending counts once; it ends |
| `src/tests/signal/sigtest_no_defer.cpp`, `sigtest_samask.cpp`, `sigtest_sigmask.cpp` | `loop`, `last`, `count`, `count2`, `inhandler`; the mask; the handlers' contexts | `raise` in the handler | the verdict is told from the order of entries and returns; a signal from outside | no false alarm; the fault tested for is found; it ends |
| `src/tests/signal/synchronous-signal-block.cpp` | the mask | raise or cause a blocked signal | a raised one stays pending, a caused one kills | which of three ways the process ends |
| `src/signals/sigtest.cpp`, `sigtest2.cpp` | a flag | wait for it, or for input | the test of the flag and the wait are two steps | a signal is noticed |
| `src/signals/sigtest3.cpp` | a register | a store that faults, and a handler that changes the register | the store is made again with what the compiler's register holds | the changed context is taken up |
| `src/signals-nested.cpp`, `src/signals-nested-2.cpp` | `sigcount`, the handlers at work, the mask | a timer, or a thread, that signals; generated code that loops in the handler | nesting without bound; the end of a loop by overflow; `sleep` cut short; an exit from another thread | the count that ends the program comes from nested handlers, and is reached; nothing is printed twice at once |
| `src/tests/signal/timerbug.cpp` | - | - | does not compile | - |

### The rest

| program | what it is |
|---|---|
| `seccomp/secccomp.c` | a filter of nine instructions that makes `getppid` trap, and the handler of the trap. Hard: relative jumps, three ABIs, an installation that may fail unnoticed, the system calls of the C library. Right: each verdict is the one the comments state, and the output tells whether the filter was there |
| `src/copyable-functions/` | copies of a compiled trampoline, patched and bound to a function before they are called; an X11 sample that the copies are for |
| `src/gdb-jit/fexreader.cpp` | glue between gdb and the symbols of a JIT |
| `src/build.sh` | the compiler calls; its switches `EXECSTACK` and `OMAGIC` change `smc.cpp` |

The repository's root also has compiled copies of most programs.

`components` in `PROJECT.json` says for each of these how far it is modelled, and
`hazards` lists what can go wrong, at the line where it bites, with the
properties that would show it.

## Modules

```
Reservation            what a reserver of addresses promises (abstract)
  ^ ReserveAddressSpace      src/reserve-address-space.cpp      + MC
  ^ StealMemoryRegion        address-space-stealing/alloc.cpp   + MC
    ReservationProofs        the theorems about both

SmcScript              the routine that five of the programs share
AddressSpace           pages, objects, VMAs, mmap/mprotect/mremap/shmdt
  TestBlocks           twelve programs as sets of blocks of straight-line code
    CodePages          a block executed by a parent and the child it forks
      CodeOutlines     the same blocks read from top to bottom  + CodePagesProofs
  SmcSignals           src/smc-signals.cpp                      + MC, Proofs

ContextDemo            src/signals/context-demo.c               + Proofs
NestedSignals          signals-nested.cpp, signals-nested-2.cpp + Proofs
TwoThreads             smc-mt-2.cpp, pthread_cancel.cpp         + Proofs
SigTests               the three sigtest_*.cpp, sigtest.cpp, sigtest2.cpp,
                       sigtest3.cpp, synchronous-signal-block.cpp + Proofs
Seccomp                seccomp/secccomp.c                       + Proofs
```

`^` is refinement (`INSTANCE Reservation WITH ...`, the abstract specification as
a `PROPERTY`); indentation is `EXTENDS`. `map` in `PROJECT.json` has the lines of
the source that each definition stands for. A definition whose comment begins
with `Bug:` is not part of a specification: it is the variant of its neighbour
that a plausible mistake in the code would give, and `mutants` says which
property it breaks.

## What the models say of the code

**ReserveAddressSpace.** Addresses and lengths are pages. The program passes a hint
above every gap and no `MAP_FIXED`, so `mmap` succeeds at a gap of the kernel's
choice, `\E a \in Gaps(alloc_len)`, exactly when there is one. `EPERM` and `ENOMEM`
are one case, as in the code; any other error ends the program with -1. The one
assumption about sizes is that each halves exactly, and that the first is so
large (2^51 bytes) that the address space has no room for two.

**StealMemoryRegion.** Addresses are pages, and rendered in base 16: the digits but
the last, taken as one, and the last. With the `-`, the space and the rest up to its
end a line is seven tokens, and a read may end behind any of them, so inside a number
as well; `digits` says how much of it `RegionBegin` or `RegionEnd` has already.
`Upcoming` is what the kernel still has to show: the initial mappings and the parser's
own, in the order of their addresses, rendered from what is mapped at the time of the
read. `Steal` is `mmap` with `MAP_FIXED`, whose result the code ignores, together with
the stores into the bucket. The `read` is assumed to succeed (see the hazard at line 108).

`root` has the words that were stored from `Root->PtrSize` on. `BucketWords` is the
array's size as declared, one more than `BucketEntries`, and a store beyond it is not
private to the bucket: what it hits is the build's affair, so `damage` is a choice. In
a build as line 2 of the file asks for (g++ 12.2, no optimisation, checked in its
assembly), `alloca` leaves a word of padding behind the array, and behind that lies the
parameter `End`. The 17th region's two words go to the array's last and the padding, and
the 0 behind them makes `End` 0: the parser reads on and steals nothing more
(`damage = "end"`). With other compilers it may be anything, and the model's behaviour
ends there (`"lost"`). In neither case is an 18th region stored, hence the code for the next
bucket (lines 71-74 and 110-113), for which it takes 32, is out of reach of every
behaviour that the program text determines; it is not modelled.

**ContextDemo.** A context is a label, a stack, a mask and the handler frames on
that stack. `swapcontext` and `setcontext` are two steps each, since glibc
installs the new mask before it leaves the old stack, and an alarm in between is
delivered there. `At(label)` says that a pending, unmasked alarm goes first. The
handler's comparison of addresses, an unsigned difference that wraps when the
handler runs on another stack, is `OnOwnStack`. `BUGGYSETUP` is the program's own
switch; `calm` splits the behaviours into those where an alarm may come anywhere
and those where it comes in a body only. The process ends by the program's own
checks (`overflow`, `nested`), by a null pointer (`crash`), or by lack of memory.
Such an end is no violation: an alarm that is pending when `main()` installs the
first context, for one, is delivered on `main()`'s stack and taken for an overflow
(line 240). What must not happen is that the demo goes on with a context lost.

**TestBlocks, CodePages.** A program is a set of blocks that do not depend on each
other, and a behaviour is that of one block. Two addresses are aliases when they
map one page of one object. A VMA is what it is by definition: neighbouring pages
that map consecutive pages of an object in one way, hence splitting and merging
need no action. A `fork` may fail, which the program takes for the parent's return:
`ForkFailed` is the one exception to the exactness of the verdicts. A copyable
function is an object with code and info, each counted as a page. The code is stored
by the copying and again by the patch, which puts the address of the info into it
(`InfoAt`), and the info by the binding; a call of the code should run what that info is
bound to (`Target`), so that it takes both: without the patch of `section-test.cpp`, or
with the info of the other instance, a correct machine would be blamed.
A call may execute anything: `results` keeps what the test wants,
what was executed and what the page held, so that a verdict can be compared with
the truth.

**CodeOutlines.** What a block promises when it is read without interleaving: the
states before each of its steps, alone, in the child, and in the parent after the
child. `Sound` says when such readings show the block to be right (each step passes
the protection of its pages, each verdict wants what the page holds, a block that is
to end by a signal gets it at one of its steps). `BlocksAreSound` says that of all
25 blocks; it is a statement about constants, and TLC evaluates it in run `code_pages`.

**SigTests.** Seven single-threaded programs. Only one signal matters to each, so a
mask is a Boolean. The system under test is Linux or has one of six faults. The
handler's frame keeps the `uc_sigmask` that the handler may write and the mask it
was entered with. `Tested` says which faults a program is there to find: what the
verdict is worth is `NoFalseAlarm` and `FaultsAreFound` together. `sigtest2.cpp` may miss
the signal that comes between the test of the flag and the `read`; `sigtest3.cpp` ends
only where the compiler has put the address in RAX. Both are what the code does and
are conditions of the properties.

**TwoThreads.** Time is in ticks; `timer` and `wtimer` are what is left of a sleep,
`delay` and `late` count how late the thread and `main()` are, both of which nothing
in the code bounds. A store of another processor becomes visible to the thread's
fetches later (`Propagate`). `pthread_cancel` sets a request that the thread acts upon
at its next cancellation point, if cancellation is enabled.

**NestedSignals.** A handler is a frame with its place in the code, the generated
loops it has got through and `eax`. A word is four bytes, lowest first, in base `Base`,
so that the carries of the generated `add` are computed as the machine does and the
order of the bytes that `gencode()` writes matters. The first program's loop never
ends, hence the depth of its nesting is its count.

**Seccomp.** The kernel evaluates the nine instructions one at a time, with relative
jumps. All x32 numbers have bit 30 set, that of `getppid` too. The system calls which
the C library makes on its own account are `Others`; `printf` writes now or later.

**SmcSignals.** `pending` counts the waiting instances of a signal, at most one
unless it is a real-time one. A handler is a frame with its signal, its page and
its place in the routine, and the innermost one runs. The program's arrays and
counts (five signals, 1000 sends, 10 iterations) are constants.

## Runs

| run | what it asks | instance, and why it is enough |
|---|---|---|
| `reserve` | Is any free page ever left by the greedy halving? Is the total right, does it end, is it a `Reservation`? | 7 pages, all 128 sets of used ones, sizes 4, 2, 1: gaps of every length from 1 to 7, so gaps that are no power of two, and more than one gap of a size to choose from |
| `steal` | The same of the parser, how many regions its bucket holds, and does it tell them, also when an `mmap` fails? | all layouts of the 7 pages 13 to 19, window 14 to 18: mappings and holes before, across and behind either end of the window, neighbouring mappings, addresses that differ in the first digit, in the last and in both; an array for two regions (`BucketEntries` 4, 5 words), so that a third hole, of which the window has room, leaves it |
| `steal_overrun` | Does a bucket of the code's own size hold the regions that are stored in it? | violated: 17 holes, `BucketEntries` 32 and 33 words as declared |
| `context_demo` | With an alarm between any two steps: is a context ever lost, is the bookkeeping right? With alarms in bodies only: does every context run for ever again? | 4 contexts: an even number, so that a scheduler that skips some would starve others |
| `code_pages` | Are the verdicts of all twelve programs exact, does nothing fault that should not, do all end? | every block of the programs, complete; every `fork` may fail |
| `smc_failure_set` | Is the value `test()` returns the set of the verdicts it prints? | violated |
| `sigtests` | Is a faultless system ever blamed, is a fault ever missed, are all raises made, is a handled signal noticed? | `NUMCOUNT` 10 as in the code; two signals from outside at any time: one in a handler and one in a loop |
| `two_threads` | Is a thread in time promised what the comments say, what becomes of a late one, is the cancelled thread joined with its destructor run once? | sleeps of 3 and 4 ticks, a last one of 3; a delay up to 9 and an oversleeping of up to 6, so that each thread can be later than all sleeps of the other together |
| `nested` | Is the count that ends the programs one of nested handlers? Is no `printf` entered again, does the sender stop in time, do both end? | bytes of 4 values, so that carries go through all four; `NUM` 2 and two loops in each handler; up to two handlers outside their loops at an alarm |
| `nested_comment` | Does the generated loop take the values its comments give? | violated |
| `smc_signals` | Do nested handlers disturb each other, does every signal count once, does the program end? | a standard signal and a real-time one, two sends of each and two mixed ones (so that one merges and one finds its queue full), two iterations, a page more than handlers can nest |
| `seccomp` | Does the filter come to the verdict its comments give, for every call of every build, and what does the program show of it? | the two architectures by their last bytes (62 and 3), bit 30 and `__NR_getppid` (110) by their values; of the other calls 0, one between, and the two neighbours of `getppid` |

Deadlock is not checked in programs that end. Every bound is a constant of its
module or of its MC module. `ContextDemo`, `CodePages` and `Seccomp` are finite by
themselves. The bounds that cut behaviours off are `MaxOutside` (`SigTests`), `Sends` and
`Iterations` (`SmcSignals`), `MaxDelay` and `MaxLate` (`TwoThreads`) and `MaxBusy`
(`NestedSignals`); but for liveness, the theorems below remove all of them.

## Fairness

Weak fairness only, and never of a branch that stands for an error.

* Sequential programs (`ReserveAddressSpace`, `StealMemoryRegion`): the thread is
  scheduled; `mmap` and `read` return. `MmapError` is not forced.
* `CodePages`: both processes are scheduled.
* `SigTests`: the one thread is scheduled; signals from outside need not come, nor
  need the user type.
* `ContextDemo`: the thread is scheduled, and an interval timer goes on expiring.
  Without the second nothing would switch contexts.
* `TwoThreads`: both threads are scheduled, time passes, stores become visible. The
  loop of the thread in `smc-mt-2.cpp` is fair by itself: it leaves when it can.
* `NestedSignals`: both threads run, an armed timer keeps expiring, a signal that is
  pending and not blocked is delivered. Whether the timer
  ever expires before `main()` returns is chosen at the start (`armed`).
* `SmcSignals`: the sender and the handling thread are scheduled. There is no
  fairness for a particular signal, as the kernel promises none.
* `Seccomp` states safety only.

## Proofs

Checked by TLAPS, for every value of the constants that the named assumptions
allow. In each module `IInv` is the inductive invariant; the theorems follow from
`Init => IInv`, `IInv /\ [Next]_vars => IInv'` and `IInv => ...`.

* **`ReservationProofs`**, the halving loop. `Complete` is not inductive: that no page is
  free at the end is due to what was true of every size before. The strengthening
  `HalvingInv` is `HalvingLosesNothing` (no gap of twice the current length) with
  `NothingLeft` (a length of 0 was preceded by one of 1, and no gap of 1 page means no
  free page). The step that matters is that claims only shrink gaps and that a size
  halves exactly. Hence `ReservesEverything`, `NoLargerGap`; `TotalCorrect` adds the
  cardinality of the union of disjoint intervals; `HalvingRefines` maps `MmapSucceeds`
  to `Reserve`, `Return` to `Finish` (by `Complete`) and the rest to stuttering;
  `LoopStops` counts down lengths and free pages. Assumptions: finitely many pages,
  sizes that halve exactly, a first size of which the address space has no two. The
  module extends both programs' modules, which is why the names that every
  specification has (`Init`, `Next`, `Spec`, ...) begin with `Halving` in this one.
* **`ReservationProofs`**, the parser. It works on a file that is a mixture of old
  and new states. `LinesInOrder` says which of the initial mappings are still
  ahead of it, `CurrentLine` what `RegionBegin` and `RegionEnd` hold in each state (the
  `Prefix` of the number at the cursor, wherever the reads have cut it), `StolenBehind`
  that everything stolen lies below what the kernel still renders, and so never
  comes back as a line, `StolenApart` that the stolen regions are disjoint from the
  mappings and each other. `SparesMappings` and `StealsOnce` follow. `CoveredSoFar`
  (every page of the window that lies behind the parser is used or stolen) adds
  what `Refines` needs: the file ends with no free page of the window left.
  `SparesMappings` and `StealsOnce` hold after stores past the array too; `Refines`
  promises a full window as long as there were none. `Bucketed` is the invariant of the
  bucket, word by word: the regions stored in it are the stolen ones, in two words each,
  and behind the last is a 0. Hence `HalfFits`, the number of regions at which the stores
  leave an array of `BucketEntries + 1` words, and `RootTells`, what can be read back up to
  that number.
  `ParserStops` counts the tokens of the lines ahead: the file grows with each hole, but
  only behind the parser, and a read before its end brings at least a token.
  `ParserNeverStuck` needs that the lines ahead have a first one (`LeastNumber`, from the
  well-foundedness of the naturals) and `RemainingIsInLines`.
  Assumptions: the mappings a process starts with are finitely many disjoint,
  nonempty intervals; the window begins above page 0, as line 142 has it (a region
  at 0 would look like the terminator).
* **`CodePagesProofs`.** For every block that is `Sound`, whatever the machine executes
  and whenever the child runs. `OnOutline`, the core of `IInv`, says that the processes
  are always at a point of one of the block's three readings: the parent `Unforked`, the
  parent `Waiting` while the child runs on its own copy of the mappings, or `Joined`.
  Every step preserves it: the parent does nothing while the child runs, they share the
  contents of their objects but not their mappings, and what a step finds is then what
  the reading has there. `SoundBlocksAreRight` concludes that verdicts are exact and that
  nobody dies of another signal than expected; `VerdictsAreExact` and
  `NoneTripsOverItself` are the same for `Spec`, by `BlocksAreSound`. The provers cannot
  unfold the recursive functions of that fact over each of the 25 blocks; it is an
  assumption, which has no parameter and which TLC therefore checks completely.
  `StepsRunOut` is for blocks without a handler (`Unhandled`): the handler of
  `segfault.cpp` has its store made again.
* **`ContextDemoProofs`.** For any number of contexts, both builds and alarms at any
  moment. `IInv` says for each place the code can be at on which stack it is, what
  the handler frames are and which of `insig` and the `ucontext_t` agree. The case
  that makes it hold is the alarm at a wrong place (in the scheduler, between the two
  halves of `setcontext` or `swapcontext`): it leads to a handler that is `Doomed`, one of
  whose checks ends the process before it saves anything.
* **`TwoThreadsProofs`.** For every length of the sleeps and any lateness.
  `SleepSuffices` rests on `DelayIsElapsed` (as long as neither has acted, the thread is
  as late as `main()` has slept) and `ThreadFirst`; `LateThreadLoops` and `LoopWaits` on
  `OwnByteSeen`; `AlwaysCanceled` on `SleepsLast`, which compares what is left of the
  thread's sleeps with what `main()` has slept; `DestroyedOnce` on `KeyIsKept`.
  `TimeRunsOut` adds up ticks and what is left of both threads; `StuckOnlyInLoop` finds
  the one place where time has run out before the program's end.
* **`NestedSignalsProofs`.** For every `NUM`, any number of loops and bytes of any base
  above 2. `ByteKept` says that in the first program the lowest byte of `eax` never
  changes, so that the sum is never 0, the reason for `CountTellsDepth`. For the second,
  `MaskedWhileInnermost` (a handler that has not unblocked its signal is the innermost)
  gives `PrintsAreAlone`, and `Limited` counts the signals that are still to be counted
  for `SenderStops`. `BlockedBriefly`: the handler that blocks the signal is the innermost
  one, so that nothing keeps what is pending from being delivered.
* **`SmcSignalsProofs`.** For every array of signals, number of sends and iterations, and
  depth of nesting. `Isolated`: handlers never share a page, and no handler is
  interrupted by its own signal; `HandlersAreIsolated` is inductive once the frames
  are known to be a sequence of records. From it `CInv` gives `FailedIsTrue`
  (`PagesHold`: each page holds the byte that its handler stored last; `Verdicts`: some
  verdict is bad exactly when some call was stale) and `AllCounted`, by two sets
  whose sizes the counters add up to: `Queued`, the instances waiting for delivery, and
  `Todo`, the iterations the handlers at work still owe. `NeverFaults`: each handler, an
  interrupted one too, finds its page as the step it is at needs it (`Protected`).
  `PagesSuffice`: a handler that may start gets a page, which the code does not check,
  as the handlers at work are of different signals; hence also `NeverStuck`.
  `WorkRunsOut` weighs the signals to
  send and to handle and the iterations to count against the steps of one iteration.
* **`SeccompProofs`.** For any two architectures, bit and numbers. `Known` says what is
  known of the call at each of the nine instructions, as an annotation of the
  program; `Flow` what was printed and executed at each label. `FilterIsReference`
  compares the verdict with the comments, `OutputTellsFilter` and
  `OnlyForeignBuildsDie` the program's end with the filter. `ProgramStops` ranks the labels
  and, within a call, the instructions; it rests on `Flow`, as the number of the call
  decides whether the handler is still to come. `NeverStuck` follows from `Known`, as no
  jump of the program leaves it.
* **`SigTestsProofs`.** For every `NUMCOUNT` and any number of signals from outside. The
  invariant `IInv` has a part for each program and the kind of fault it runs into
  (`NoDefer`, `Deferred`, `Unblocked`, `Samask`, `Unrestored`, `Sigmask`, `Ignored`,
  `Synchronous`, `Faulting`, `Waits`), stated over the number of handlers at work and
  the innermost one only; the lemmas `*Moves` say what each step does to those. From
  it come `NoneBlamed`, `AllFound` and `AllMade`. `RaisesRunOut` weighs places of `main()`,
  signals and places of the innermost handler; its invariant `Onward` says that `main()`
  does not come back to a `raise` that a handler has acted upon. `NeverHangs` holds on the
  faulty systems too: a signal lost or blocked makes a test fail, never wait.

Proved but in no run, as TLC would only repeat it: the type invariants (`Typing`,
`TypeCorrect`), `ReservesEverything`, `NoLargerGap`, `LoopWaits`, `GetppidTrapped`,
`NeverFaults`, `PagesSuffice`, `BlockedBriefly`, and the two halves of termination that are
safety properties.

The first half is that nothing goes on for ever: `StepsRunOut`, `ParserStops`, `LoopStops`,
`TimeRunsOut`, `WorkRunsOut`, `RaisesRunOut` and `ProgramStops` each say that a natural
number falls at every step that is not a stutter, for every value of the constants. Not
every program has such a measure: `ContextDemo` switches for ever, the generated loop of
the first of `NestedSignals` spins for ever, `sigtest.cpp` and `sigtest2.cpp` wait for
somebody outside; and the one block of `segfault.cpp`, whose store is made again, is left
to TLC, which checks it completely.

The second half is that nothing stops short: `ParserNeverStuck`, `StuckOnlyInLoop`, the two
`NeverStuck` and `NeverHangs` say that before its end a program has a next step, or name
the one wait that has no end: the `read` of `sigtest2.cpp`, the `pthread_join` of
`smc-mt-2.cpp` behind a thread that was late, whose calls change nothing. As the provers
do not know `ENABLED`, they are stated over the guards of the actions, written out in the
proof modules (`HandlerMay`, `MayParse`, `MainMay`, ...); TLC found them equal to `ENABLED`
of the actions on small instances. What the two halves leave to the runs is fairness:
that a step which can be taken is taken.

Model-checked only: the invariants of the runs, their action properties and their
refinements are theorems too, which leaves TLC liveness under fairness (all the
`*Terminates`, `EveryContextRuns`, `ShouldExitNow`, `CancelledIsJoined`,
`EndsOnceHandled`), out of the prover's reach; the assumption `BlocksAreSound`; and
whatever would take an induction over data. No module declares a `RECURSIVE` operator.

## Findings

1. `address-space-stealing/alloc.cpp:18`: `PtrSize` has `BucketEntries + 1` words, but a
   region takes two, the code switches buckets after `BucketEntries` regions only, and the
   word that it links them with is number 65. The 17th hole is written past the array
   (run `steal_overrun`), and `HalfFits` says that it is always the 17th. Built by g++ 12 as
   line 2 says, the 0 behind it lands on the parameter `End`: the parser stops stealing
   and hands the half-filled window over. The code for a second bucket never runs.
2. `src/smc.cpp:42`: bits 1 to 3 of `failure_set` compare `e1`. A run that prints four
   times PASS returns 14 (run `smc_failure_set`).
3. `src/signals-nested.cpp:45`: the comments say that the generated loop loads
   0xFFFFFFFE and adds 1, two turns; the bytes are in the other order, and no handler
   ever returns (run `nested_comment`). `signals-nested-2.cpp` has them right.

Worth knowing, though the code contradicts no text there, or the text says "should":

* `smc-mt-2.cpp`: a thread that is more than a second late overwrites the modification
  and loops for ever. `OverwrittenLoops` states it; `SleepSuffices` is the other side.
* `context-demo.c:240`: an alarm that is pending when the first context is installed
  is delivered on `main()`'s stack, taken for a stack overflow, and ends a demo that
  calls itself stable (line 26).
* `sigtest_samask` built with `TESTSIGPROCMASK` prints "All good" without its last test
  when a signal from outside arrives before the last loop (`FaultsAreFound`).
* `sigtest2.cpp`: a signal between the test of the flag and the `read` is noticed only
  when input comes; `EndsOnceHandled` leaves that window out.
* `sigtest3.cpp`: the store faults for ever when the compiler has put the address in
  another register than RAX; `Terminates` and `FaultsAreFound` speak of RAX only.
* `alloc.cpp:108`: a region whose `mmap` has failed is recorded like any other.
* `smc-shared-2.cpp:39`: a failed `fork` makes the second verdict wrong
  (`VerdictsTellStaleness`, `ForkFailed`).
* `secccomp.c:75`: a filter that was not installed shows in the output only, the exit
  status is 0 either way (`HandledTellsInstalled`).
* `signals-nested.cpp`: the handler that calls `printf` and `exit` may be entered again
  in them by a signal that was pending when the timer was deleted; `PrintsAlone`
  holds for the other program only.
* `template-test.cpp`, lines 49 and 51, print other results than they name.

## Not modelled

* `fexreader.cpp`, `shmid.cpp`: straight-line glue over a library or the kernel, without
  state of their own. `x11main.c` is a loop over X events with one variable; it
  divides by `event.xbutton.x` (line 72), which is 0 in the leftmost column.
* `timerbug.cpp` does not compile.
* `smc-mt.cpp`: its hundred threads run the routine of `SmcScript`, each in a page of its
  own. What they share is the address space, and there each changes its own page
  only; a model of them would hold by its shape.
* Of the copyable functions the argument marshalling, and the two instances whose
  results `template-test.cpp` does not print.
* `test()` of `memfd.cpp` and that of `mremap.cpp`: the first prints what the kernel
  says, the second is not called.
* `alloc.cpp:51`: after a failed `open` or `read` the parser runs on through memory that
  was never written. The model has the file opened and read. Lines 71-74 and
  110-113, the next bucket: see `StealMemoryRegion` above. Line 81: a `Root` without
  a terminator, when nothing at all was stolen, is what its caller finds, outside the
  function.
* Failures of `pthread_create` and `sigaction` (but in `Seccomp`); printing, and what
  buffered output does in a forked child (`smc-shared-2.cpp:42`).
* Which bytes the generated functions consist of, but in `NestedSignals`: only byte 3
  differs, so a page is named by it.
* `src/build.sh`, but for the two switches that change `smc.cpp`.

## Plan

Done: all programs that have a state of their own. What could still be added, by
value:

1. `smc-mt.cpp` as threads over one address space, if `CodePages` gets a second child:
   the interesting part would be failing `mmap`s, which the program does not look at.
2. A composition of `CodePages` with `SmcSignals`: `segfault.cpp` is the only program
   whose handler changes mappings, and has one block.
3. Lemmas on the operators of `AddressSpace` (what `Map`, `Unmap` and `Detach` leave
   alone), from which the soundness of families of blocks would follow, such as the
   routine of `SmcScript` in any page, beyond the programs' own blocks.

Runs stay few: programs of a kind share a module, with a variable chosen in `Init`
saying which one runs (as `SigTests`, `CodePages`, `TwoThreads` and `NestedSignals` do).

## Working with the project

`tlc -config X.cfg M` for each row of `runs` in `PROJECT.json`; the longest,
`smc_signals`, takes about a minute and has 1.9 million distinct states. `tlapm M.tla`
for each `*Proofs.tla`; all take seconds to a few minutes. `CodePages.cfg` is for the module
`CodeOutlines`, so that TLC evaluates the assumption there. The modules use the community
modules `Functions`, `SequencesExt` and `FiniteSetsExt`.
