----------------------------- MODULE SeccompProofs -----------------------------
(***************************************************************************)
(* The filter of secccomp.c comes to the verdict its comments give, for    *)
(* every architecture, bit and number of a system call; and what follows   *)
(* for the program, whichever calls its library makes.                     *)
(***************************************************************************)
EXTENDS Seccomp, TLAPS

Ppid == Nr(NR_getppid)

Types == /\ build \in Builds /\ at \in Labels /\ fpc \in 0 .. 9 /\ acc \in Nat
         /\ call \in [nr : Nat, next : Labels]

\* All numbers of an x32 build have its bit, those of the others do not.
InAbi(nr) == IF build = "x32" THEN nr >= X32_SYSCALL_BIT ELSE nr < X32_SYSCALL_BIT

\* What is known of a call at each instruction of the filter.
Known(pc, a, nr) ==
  /\ pc = 2 => acc = a
  /\ pc = 3 => a # AUDIT_ARCH_X86_64
  /\ pc >= 4 => a = AUDIT_ARCH_X86_64
  /\ pc = 5 => acc = nr
  /\ pc = 6 => nr >= X32_SYSCALL_BIT
  /\ pc >= 7 => nr < X32_SYSCALL_BIT
  /\ pc = 7 => acc = nr
  /\ pc = 8 => nr = Ppid
  /\ pc = 9 => nr # Ppid

Filtering ==
  at = "kernel" =>
    /\ InAbi(call.nr)
    /\ ~installed => fpc = 0 /\ verdict = "allow"
    /\ installed /\ fpc # 0 => verdict = "none" /\ Known(fpc, arch, call.nr)
    /\ installed /\ fpc = 0 => verdict = Reference(arch, call.nr)

\* Before and after getppid().
Before == sigsys = 0 /\ ~executed
After == /\ installed => sigsys = 1 /\ ~executed
         /\ ~installed => sigsys = 0 /\ executed

\* Where the program is and what it has done.
Reached(label) ==
  /\ label \in {"prctl", "install"} => ~installed /\ ~handler /\ Before
  /\ label \in {"sigaction", "established"} => ~handler /\ Before
  /\ label = "getppid" => handler /\ Before
  /\ label = "handler" => handler /\ installed /\ resume = "bye" /\ Before
  /\ label \in {"printing", "sigreturn"} => handler /\ installed /\ resume = "bye" /\ After
  /\ label \in {"bye", "leave", "exit"} => handler /\ After

Flow ==
  /\ Reached(at)
  /\ at = "about" => Before /\ (status = "running" => handler)
  /\ at = "kernel" =>
       /\ call.next \in {"established", "getppid", "bye", "sigreturn", "leave", "exit"}
       /\ IF call.nr = Ppid THEN call.next = "bye" /\ handler /\ Before ELSE Reached(call.next)
       /\ call.nr # Ppid /\ call.next = "bye" => installed
  /\ status = "0" => at = "exit"

\* Foreign builds get as far as their first call under the filter.
Foreign == installed /\ build # "x86" =>
             at = "sigaction" \/ (at = "kernel" /\ call.next = "established")
Native == installed /\ build = "x86" => status # "killed"

IInv == Types /\ Filtering /\ Flow /\ Foreign /\ Native

LEMMA Constants ==
  /\ Ppid \in Nat /\ X32_SYSCALL_BIT \in Nat /\ arch \in Nat /\ InAbi(Ppid)
  /\ \A n \in Others : Nr(n) \in Nat /\ InAbi(Nr(n)) /\ Nr(n) # Ppid
  BY ArchsAssumption, CallsAssumption DEF Ppid, Nr, arch, InAbi

\* The instructions, one by one.
LEMMA FilterText ==
  /\ Len(Filter) = 9
  /\ Filter[1].op = "arch"
  /\ Filter[2].op = "jeq" /\ Filter[2].k = AUDIT_ARCH_X86_64 /\ Filter[2].jt = 1 /\ Filter[2].jf = 0
  /\ Filter[3].op = "ret" /\ Filter[3].ret = "kill"
  /\ Filter[4].op = "nr"
  /\ Filter[5].op = "jge" /\ Filter[5].k = X32_SYSCALL_BIT /\ Filter[5].jt = 0 /\ Filter[5].jf = 1
  /\ Filter[6].op = "ret" /\ Filter[6].ret = "killprocess"
  /\ Filter[7].op = "jeq" /\ Filter[7].k = Ppid /\ Filter[7].jt = 0 /\ Filter[7].jf = 1
  /\ Filter[8].op = "ret" /\ Filter[8].ret = "trap"
  /\ Filter[9].op = "ret" /\ Filter[9].ret = "allow"
  BY DEF Filter, Load, Jump, Ret, Ppid

LEMMA InitHolds == Init => IInv
  BY DEF Init, IInv, Types, Builds, Labels, Filtering, Flow, Reached, Before, Foreign, Native

\* One instruction: what it jumps to is what is known there.
LEMMA Instruction ==
  ASSUME IInv, Evaluation
  PROVE  IInv'
  <1>1. /\ status = "running" /\ at = "kernel" /\ fpc \in 1 .. 9 /\ UNCHANGED Unfiltered
    BY DEF IInv, Types, Evaluation, LoadArch, LoadNr, JumpEq, JumpGe, JumpIf, Return, Evaluates
  <1>2. UNCHANGED <<build, installed, at, call, handler, resume, sigsys, executed, status>>
    BY <1>1 DEF Unfiltered
  <1>3. installed /\ InAbi(call.nr) /\ verdict = "none" /\ Known(fpc, arch, call.nr)
        /\ call.nr \in Nat /\ acc \in Nat
    BY <1>1 DEF IInv, Types, Filtering
  <1>4. arch' = arch /\ InAbi(call.nr)' /\ Ppid' = Ppid /\ call.nr' = call.nr
    BY <1>2, <1>3 DEF arch, InAbi, Ppid, Nr
  <1>5. /\ fpc' \in 0 .. 9 /\ acc' \in Nat
        /\ fpc' # 0 => verdict' = "none" /\ Known(fpc, arch, call.nr)'
        /\ fpc' = 0 => verdict' = Reference(arch, call.nr)
    <2> USE <1>1, <1>3, <1>4, Constants, FilterText DEF Known
    <2>1. CASE LoadArch
      BY <2>1 DEF LoadArch, Evaluates
    <2>2. CASE LoadNr
      BY <2>2 DEF LoadNr, Evaluates
    <2>3. CASE JumpEq
      BY <2>3 DEF JumpEq, JumpIf, Evaluates
    <2>4. CASE JumpGe
      BY <2>4 DEF JumpGe, JumpIf, Evaluates
    <2>5. CASE Return
      <3>1. fpc \in {3, 6, 8, 9} /\ fpc' = 0 /\ acc' = acc /\ verdict' = Filter[fpc].ret
        BY <2>5 DEF Return, Evaluates
      <3> QED
        BY <3>1 DEF Reference, Ppid
    <2> QED
      BY <2>1, <2>2, <2>3, <2>4, <2>5 DEF Evaluation
  <1>6. Types' /\ Filtering'
    BY <1>1, <1>2, <1>3, <1>4, <1>5 DEF IInv, Types, Filtering, Reference, Ppid
  <1>7. Flow' /\ Foreign' /\ Native'
    BY <1>2, <1>4 DEF IInv, Flow, Reached, Before, After, Foreign, Native
  <1> QED
    BY <1>6, <1>7 DEF IInv

\* A system call enters the kernel with its number in its ABI, and with what
\* will hold where it returns to.
LEMMA SyscallStep ==
  ASSUME IInv, status = "running", at # "kernel", NEW nr \in Nat, InAbi(nr), NEW next,
         next \in {"established", "getppid", "bye", "sigreturn", "leave", "exit"},
         IF nr = Ppid THEN next = "bye" /\ handler /\ Before ELSE Reached(next),
         nr # Ppid /\ next = "bye" => installed,
         installed /\ build # "x86" => next = "established",
         Syscall(nr, next)
  PROVE  IInv'
  <1>1. /\ call' = [nr |-> nr, next |-> next] /\ at' = "kernel" /\ acc' = 0
        /\ fpc' = (IF installed THEN 1 ELSE 0)
        /\ verdict' = IF installed THEN "none" ELSE "allow"
        /\ UNCHANGED <<build, installed, handler, resume, sigsys, executed, status>>
    BY DEF Syscall
  <1>2. Types'
    <2>1. fpc' \in 0 .. 9 /\ at' \in Labels /\ next \in Labels
      BY <1>1 DEF Labels
    <2> QED
      BY <1>1, <2>1 DEF IInv, Types
  <1>3. call'.nr = nr /\ call'.next = next
    BY <1>1
  <1>4. arch' = arch /\ Ppid' = Ppid
    BY <1>1 DEF arch, Ppid, Nr
  <1>5. Filtering'
    BY <1>1, <1>3, <1>4 DEF Filtering, Known, InAbi
  <1>6. Flow'
    BY <1>1, <1>3, <1>4 DEF Flow, Reached, Before, After
  <1>7. Foreign' /\ Native'
    BY <1>1, <1>3 DEF IInv, Foreign, Native
  <1> QED
    BY <1>2, <1>5, <1>6, <1>7 DEF IInv

\* The same for a call of the library.
LEMMA OtherSyscallStep ==
  ASSUME IInv, status = "running", at # "kernel", NEW next,
         next \in {"established", "getppid", "bye", "sigreturn", "leave", "exit"},
         Reached(next), next = "bye" => installed,
         installed /\ build # "x86" => next = "established",
         OtherSyscall(next)
  PROVE  IInv'
  <1>1. PICK n \in Others : Syscall(Nr(n), next)
    BY DEF OtherSyscall
  <1> QED
    BY <1>1, SyscallStep, Constants

\* Steps outside the kernel.
LEMMA GoToStep ==
  ASSUME IInv, status = "running", at # "kernel", NEW label \in Labels \ {"kernel", "about", "exit"},
         GoTo(label), Reached(label)', status' # "0", Foreign', Native'
  PROVE  IInv'
  <1>1. UNCHANGED <<build, call, fpc, acc, verdict, resume, executed>> /\ at' = label
    BY DEF GoTo, filter
  <1>2. Types' /\ Filtering' /\ Flow'
    BY <1>1 DEF IInv, Types, Filtering, Flow
  <1> QED
    BY <1>2 DEF IInv

LEMMA MainStep == ASSUME IInv, Main \/ Handler PROVE IInv'
  <1>1. status = "running" /\ at # "kernel" /\ build \in Builds
    BY DEF Main, Handler, Prctl, InstallFilter, Sigaction, Established, AboutToCall, Getppid, Bye,
           Leave, HandlerPrints, HandlerWrites, Sigreturn, Prints, Runs, IInv, Types
  <1>2. Reached(at) /\ (at = "about" => Before /\ handler)
        /\ (installed /\ build # "x86" => at = "sigaction")
    BY <1>1 DEF IInv, Flow, Foreign
  <1>3. CASE Prctl
    BY <1>1, <1>2, <1>3, GoToStep
    DEF Prctl, Runs, GoTo, Reached, Before, After, Labels, Foreign, Native, IInv, Flow
  <1>4. CASE InstallFilter
    BY <1>1, <1>2, <1>4, GoToStep
    DEF InstallFilter, Runs, GoTo, Reached, Before, After, Labels, Foreign, Native, IInv, Flow
  <1>5. CASE Sigaction
    BY <1>1, <1>2, <1>5, OtherSyscallStep DEF Sigaction, Runs, Reached
  <1>6. CASE Established
    <2>1. UNCHANGED <<build, call, fpc, acc, verdict, resume, executed, installed, sigsys>>
          /\ at' = "about" /\ at = "established"
      BY <1>6 DEF Established, Runs, GoTo, filter
    <2>2. status' = "running" => handler'
      BY <1>1, <1>6 DEF Established
    <2>3. status' \notin {"0", "killed"}
      BY <1>1, <1>6 DEF Established
    <2> QED
      BY <1>2, <2>1, <2>2, <2>3
      DEF IInv, Types, Filtering, Flow, Reached, Before, Foreign, Native, Labels
  <1>7. CASE AboutToCall
    <2>1. CASE OtherSyscall("getppid")
      BY <1>1, <1>2, <1>7, <2>1, OtherSyscallStep DEF AboutToCall, Prints, Runs, Reached
    <2>2. CASE GoTo("getppid") /\ UNCHANGED <<installed, handler, sigsys, status>>
      BY <1>1, <1>2, <1>7, <2>2, GoToStep
      DEF AboutToCall, Prints, Runs, GoTo, Reached, Before, Labels, Foreign, Native, IInv
    <2> QED
      BY <1>7, <2>1, <2>2 DEF AboutToCall, Prints
  <1>8. CASE Getppid
    BY <1>1, <1>2, <1>8, SyscallStep, Constants DEF Getppid, Runs, Reached, Ppid
  <1>9. CASE Bye
    <2>1. CASE OtherSyscall("leave")
      BY <1>1, <1>2, <1>9, <2>1, OtherSyscallStep DEF Bye, Prints, Runs, Reached
    <2>2. CASE GoTo("leave") /\ UNCHANGED <<installed, handler, sigsys, status>>
      BY <1>1, <1>2, <1>9, <2>2, GoToStep
      DEF Bye, Prints, Runs, GoTo, Reached, After, Labels, Foreign, Native, IInv
    <2> QED
      BY <1>9, <2>1, <2>2 DEF Bye, Prints
  <1>10. CASE Leave
    BY <1>1, <1>2, <1>10, OtherSyscallStep DEF Leave, Runs, Reached
  <1>11. CASE HandlerPrints
    BY <1>1, <1>2, <1>11, GoToStep
    DEF HandlerPrints, Runs, GoTo, Reached, Before, After, Labels, Foreign, Native, IInv
  <1>12. CASE HandlerWrites
    <2>1. CASE OtherSyscall("sigreturn")
      BY <1>1, <1>2, <1>12, <2>1, OtherSyscallStep DEF HandlerWrites, Prints, Runs, Reached
    <2>2. CASE GoTo("sigreturn") /\ UNCHANGED <<installed, handler, sigsys, status>>
      BY <1>1, <1>2, <1>12, <2>2, GoToStep
      DEF HandlerWrites, Prints, Runs, GoTo, Reached, After, Labels, Foreign, Native, IInv
    <2> QED
      BY <1>12, <2>1, <2>2 DEF HandlerWrites, Prints
  <1>13. CASE Sigreturn
    BY <1>1, <1>2, <1>13, OtherSyscallStep DEF Sigreturn, Runs, Reached
  <1> QED
    BY <1>3, <1>4, <1>5, <1>6, <1>7, <1>8, <1>9, <1>10, <1>11, <1>12, <1>13 DEF Main, Handler

\* What the kernel does with a verdict.
LEMMA VerdictStep ==
  ASSUME IInv, Execute \/ Trap \/ Kill
  PROVE  IInv'
  <1>1. /\ status = "running" /\ at = "kernel" /\ InAbi(call.nr) /\ call.nr \in Nat
        /\ UNCHANGED <<build, installed, call, fpc, acc, verdict, handler, sigsys>>
        /\ call.next \in {"established", "getppid", "bye", "sigreturn", "leave", "exit"}
        /\ build \in Builds /\ fpc \in 0 .. 9 /\ acc \in Nat /\ call \in [nr : Nat, next : Labels]
    BY DEF Execute, Trap, Kill, Runs, filter, IInv, Types, Filtering, Flow
  <1>2. /\ IF call.nr = Ppid THEN call.next = "bye" /\ handler /\ Before ELSE Reached(call.next)
        /\ call.nr # Ppid /\ call.next = "bye" => installed
        /\ installed /\ build # "x86" => call.next = "established"
    BY <1>1 DEF IInv, Flow, Foreign
  <1>3. fpc = 0
    BY <1>1 DEF IInv, Filtering, Execute, Trap, Kill
  <1>4. IF installed THEN verdict = Reference(arch, call.nr) ELSE verdict = "allow"
    BY <1>1, <1>3 DEF IInv, Filtering
  <1>5. installed /\ build # "x86" => verdict \in {"kill", "killprocess"}
    <2>1. CASE build = "i386"
      BY <1>4, <2>1, ArchsAssumption DEF Reference, arch
    <2>2. CASE build = "x32"
      BY <1>1, <1>4, <2>2, CallsAssumption DEF Reference, arch, InAbi
    <2> QED
      BY <1>1, <2>1, <2>2 DEF Builds
  <1>6. installed /\ build = "x86" => verdict = IF call.nr = Ppid THEN "trap" ELSE "allow"
    BY <1>1, <1>4, CallsAssumption DEF Reference, arch, InAbi, Ppid
  <1>7. ~installed => verdict = "allow"
    BY <1>4
  <1>8. CASE Execute
    <2>1. /\ at' = call.next /\ resume' = resume /\ verdict = "allow"
          /\ executed' = (executed \/ call.nr = Ppid)
          /\ status' = IF call.next = "exit" THEN "0" ELSE status
      BY <1>8 DEF Execute, Ppid
    <2>2. ~(installed /\ build # "x86") /\ (call.nr = Ppid => ~installed)
      BY <1>5, <1>6, <2>1
    <2>3. (executed' <=> (executed \/ call.nr = Ppid)) /\ at' \in Labels /\ at' \notin {"kernel", "about"}
      BY <1>1, <2>1 DEF Labels
    <2>4. Reached(at)'
      <3>1. CASE call.nr = Ppid
        BY <1>1, <1>2, <2>1, <2>2, <2>3, <3>1 DEF Reached, Before, After
      <3>2. CASE call.nr # Ppid
        BY <1>1, <1>2, <2>1, <2>3, <3>2 DEF Reached, Before, After
      <3> QED
        BY <3>1, <3>2
    <2>5. Types' /\ Filtering'
      BY <1>1, <2>3 DEF Types, Filtering
    <2>6. Flow'
      BY <1>1, <2>1, <2>3, <2>4 DEF Flow
    <2>7. Foreign' /\ Native'
      BY <1>1, <2>1, <2>2 DEF IInv, Foreign, Native
    <2> QED
      BY <2>5, <2>6, <2>7 DEF IInv
  <1>9. CASE Trap
    <2>1. at' = "handler" /\ resume' = call.next /\ verdict = "trap" /\ UNCHANGED <<executed, status>>
      BY <1>9 DEF Trap
    <2>2. installed /\ build = "x86" /\ call.nr = Ppid
      BY <1>5, <1>6, <1>7, <2>1
    <2> QED
      BY <1>1, <1>2, <2>1, <2>2
      DEF IInv, Types, Labels, Filtering, Flow, Reached, Before, Foreign, Native
  <1>10. CASE Kill
    <2>1. /\ UNCHANGED <<at, resume, executed>> /\ status' = "killed"
          /\ verdict \in {"kill", "killprocess"} \/ (verdict = "trap" /\ ~handler)
      BY <1>10 DEF Kill
    <2>2. ~(installed /\ build = "x86")
      BY <1>2, <1>6, <2>1
    <2>3. arch' = arch /\ Ppid' = Ppid
      BY <1>1 DEF arch, Ppid, Nr
    <2>4. Types' /\ Filtering'
      BY <1>1, <2>1, <2>3 DEF IInv, Types, Filtering, InAbi, Known, Reference, Ppid
    <2>5. Flow' /\ Foreign' /\ Native'
      BY <1>1, <2>1, <2>2, <2>3 DEF IInv, Flow, Reached, Before, After, Foreign, Native
    <2> QED
      BY <2>4, <2>5 DEF IInv
  <1> QED
    BY <1>8, <1>9, <1>10

LEMMA Invariance == Spec => []IInv
  <1>1. IInv /\ [Next]_vars => IInv'
    <2> SUFFICES ASSUME IInv, [Next]_vars PROVE IInv'
      OBVIOUS
    <2>1. CASE UNCHANGED vars
      BY <2>1 DEF vars, filter, IInv, Types, Filtering, InAbi, Known, Reference, Ppid, Nr, arch,
                  Flow, Reached, Before, After, Foreign, Native
    <2> QED
      BY <2>1, Instruction, VerdictStep, MainStep DEF Next, Kernel
  <1> QED
    BY <1>1, InitHolds, PTL DEF Spec

\* The filter's verdict is that of its comments, for every call.
THEOREM FilterIsReference == Spec => []VerdictIsReference
  <1>1. IInv => VerdictIsReference
    BY DEF IInv, Filtering, VerdictIsReference
  <1> QED
    BY <1>1, Invariance, PTL

\* getppid is never executed under the filter.
THEOREM GetppidTrapped == Spec => []NeverExecuted
  <1>1. IInv => NeverExecuted
    <2> SUFFICES ASSUME IInv, installed PROVE ~executed
      BY DEF NeverExecuted
    <2>1. at # "kernel" /\ at # "about" => ~executed
      BY DEF IInv, Types, Labels, Flow, Reached, Before, After
    <2>2. at = "kernel" \/ at = "about" => ~executed
      BY DEF IInv, Flow, Reached, Before, After
    <2> QED
      BY <2>1, <2>2
  <1> QED
    BY <1>1, Invariance, PTL

\* "SIGSYS!" tells whether there was a filter, the exit status does not.
THEOREM OutputTellsFilter == Spec => []HandledTellsInstalled
  <1>1. IInv => HandledTellsInstalled
    <2> SUFFICES ASSUME IInv, status = "0" PROVE HandledTellsInstalled
      BY DEF HandledTellsInstalled
    <2>1. After /\ at = "exit"
      BY DEF IInv, Flow, Reached
    <2>2. sigsys = IF installed THEN 1 ELSE 0
      BY <2>1 DEF After
    <2> QED
      BY <2>1, <2>2 DEF After, HandledTellsInstalled
  <1> QED
    BY <1>1, Invariance, PTL

\* Under the filter foreign builds end at their first call, and the native one
\* is not killed.
THEOREM OnlyForeignBuildsDie == Spec => []ForeignBuildsDie
  <1>1. IInv => ForeignBuildsDie
    BY DEF IInv, Flow, Reached, Foreign, Native, ForeignBuildsDie, Nr
  <1> QED
    BY <1>1, Invariance, PTL
-----------------------------------------------------------------------------
\* How far the program is from its end, by label.  A call of getppid under the
\* filter goes on in the handler.
Rank(label) == CASE label = "prctl" -> 12 [] label = "install" -> 11
                 [] label = "sigaction" -> 10 [] label = "established" -> 9
                 [] label = "about" -> 8 [] label = "getppid" -> 7
                 [] label = "handler" -> 6 [] label = "printing" -> 5
                 [] label = "sigreturn" -> 4 [] label = "bye" -> 3
                 [] label = "leave" -> 2 [] OTHER -> 1

Stage == IF at # "kernel" THEN Rank(at)
         ELSE IF installed /\ call.nr = Ppid THEN Rank("handler") ELSE Rank(call.next)

\* Within a call, the instructions of the filter and what the kernel does then.
Inside == IF at # "kernel" THEN 0 ELSE IF fpc = 0 THEN 1 ELSE 11 - fpc
Running == IF status = "running" THEN 1 ELSE 0

StepsLeft == 12 * Stage + Inside + Running
StepsAreNat == StepsLeft \in Nat
StepsShrink == StepsLeft' < StepsLeft

LEMMA Ranges ==
  ASSUME IInv
  PROVE  Stage \in 1 .. 12 /\ Inside \in 0 .. 10 /\ Running \in {0, 1}
<1>1. \A label : Rank(label) \in 1 .. 12
  BY DEF Rank
<1>2. Stage \in 1 .. 12
  BY <1>1, Zenon DEF Stage
<1>3. Inside \in 0 .. 10
  BY DEF IInv, Types, Inside
<1>4. Running \in {0, 1}
  BY DEF Running
<1>5. QED
  BY <1>2, <1>3, <1>4

LEMMA Fewer ==
  ASSUME NEW s \in 1 .. 12, NEW s2 \in 1 .. 12, NEW i \in 0 .. 10, NEW i2 \in 0 .. 10,
         NEW r \in {0, 1}, NEW r2 \in {0, 1}, r2 <= r,
         \/ s2 < s
         \/ s2 = s /\ i2 < i
         \/ s2 = s /\ i2 = i /\ r2 < r
  PROVE  12 * s2 + i2 + r2 < 12 * s + i + r
<1>1. CASE s2 < s
  BY <1>1
<1>2. CASE s2 = s
  BY <1>2
<1>3. QED
  BY <1>1, <1>2

LEMMA FewerSteps ==
  ASSUME IInv, IInv', status = "running",
         \/ Stage' < Stage
         \/ Stage' = Stage /\ Inside' < Inside
         \/ Stage' = Stage /\ Inside' = Inside /\ status' # "running"
  PROVE  StepsShrink
<1>1. Stage \in 1 .. 12 /\ Inside \in 0 .. 10 /\ Running = 1
  BY Ranges DEF Running
<1>2. (Stage \in 1 .. 12 /\ Inside \in 0 .. 10 /\ Running \in {0, 1})'
  BY Ranges, PTL
<1>3. Running' <= Running /\ (status' # "running" => Running' < Running)
  BY <1>1, <1>2 DEF Running
<1>4. Running \in {0, 1}
  BY <1>1
<1>5. 12 * Stage' + Inside' + Running' < 12 * Stage + Inside + Running
  BY <1>1, <1>2, <1>3, <1>4, Fewer, Zenon
<1>6. QED
  BY <1>5 DEF StepsShrink, StepsLeft

\* A call returns to a label nearer to the end, or its trap leads to one.
LEMMA CallSteps ==
  ASSUME IInv, IInv', status = "running", at # "kernel", NEW nr, NEW next, Syscall(nr, next),
         IF installed /\ nr = Ppid THEN Rank("handler") < Rank(at) ELSE Rank(next) < Rank(at)
  PROVE  StepsShrink
<1>1. /\ at' = "kernel" /\ call' = [nr |-> nr, next |-> next]
      /\ UNCHANGED <<build, installed, handler, resume, sigsys, executed, status>>
  BY DEF Syscall
<1>2. call'.nr = nr /\ call'.next = next /\ Ppid' = Ppid
  BY <1>1 DEF Ppid, Nr
<1>3. Stage = Rank(at)
  BY DEF Stage
<1>4. Stage' = IF installed /\ nr = Ppid THEN Rank("handler") ELSE Rank(next)
  BY <1>1, <1>2, Zenon DEF Stage
<1>5. Stage' < Stage
  BY <1>3, <1>4
<1>6. QED
  BY <1>5, FewerSteps

LEMMA OtherCallSteps ==
  ASSUME IInv, IInv', status = "running", at # "kernel", NEW next, OtherSyscall(next),
         Rank(next) < Rank(at)
  PROVE  StepsShrink
<1>1. PICK n \in Others : Syscall(Nr(n), next)
  BY DEF OtherSyscall
<1>2. Nr(n) # Ppid
  BY Constants
<1>3. QED
  BY <1>1, <1>2, CallSteps

LEMMA GoToSteps ==
  ASSUME IInv, IInv', status = "running", at # "kernel", NEW label, label # "kernel", GoTo(label),
         Rank(label) < Rank(at)
  PROVE  StepsShrink
<1>1. Stage' < Stage
  BY DEF Stage, GoTo
<1>2. QED
  BY <1>1, FewerSteps

LEMMA StepsGetFewer == IInv /\ IInv' /\ Next => StepsShrink
<1> SUFFICES ASSUME IInv, IInv', Next PROVE StepsShrink
  OBVIOUS
<1>1. CASE Evaluation
  <2>1. /\ at = "kernel" /\ status = "running" /\ fpc # 0 /\ fpc \in 1 .. 9
        /\ UNCHANGED <<build, installed, at, call, status>>
    BY <1>1 DEF IInv, Types, Evaluation, LoadArch, LoadNr, JumpEq, JumpGe, JumpIf, Return,
                Evaluates, Unfiltered
  <2>2. fpc' = 0 \/ (fpc' > fpc /\ fpc' \in 1 .. 9)
    BY <1>1, <2>1, FilterText DEF IInv, Types, Evaluation, LoadArch, LoadNr, JumpEq, JumpGe, JumpIf,
                                  Return, Evaluates
  <2>3. Stage' = Stage
    BY <2>1 DEF Stage, Ppid, Nr
  <2>4. Inside' < Inside
    BY <2>1, <2>2 DEF Inside
  <2>5. QED
    BY <2>1, <2>3, <2>4, FewerSteps
<1>2. CASE Execute
  <2>1. /\ at = "kernel" /\ status = "running" /\ verdict = "allow"
        /\ at' = call.next /\ UNCHANGED <<build, installed, call>>
    BY <1>2 DEF Execute, Runs
  <2>2. call.next \in {"established", "getppid", "bye", "sigreturn", "leave", "exit"}
    BY <2>1 DEF IInv, Flow
  <2>3. Stage' = Rank(call.next)
    BY <2>1, <2>2 DEF Stage
  <2>4. Rank("bye") < Rank("handler")
    BY DEF Rank
  <2>5. call.nr = Ppid => call.next = "bye"
    BY <2>1 DEF IInv, Flow
  <2>6. Stage' < Stage \/ Stage' = Stage
    BY <2>1, <2>3, <2>4, <2>5 DEF Stage
  <2>7. Inside' = 0 /\ Inside > 0
    <3>1. Inside' = 0
      BY <2>1, <2>2 DEF Inside
    <3>2. fpc \in 0 .. 9
      BY DEF IInv, Types
    <3>3. Inside > 0
      BY <2>1, <3>2 DEF Inside
    <3>4. QED
      BY <3>1, <3>3
  <2>8. QED
    BY <2>1, <2>6, <2>7, FewerSteps
<1>3. CASE Trap
  <2>1. /\ at = "kernel" /\ status = "running" /\ verdict = "trap" /\ at' = "handler"
        /\ fpc' = fpc
    BY <1>3 DEF Trap, Runs, filter
  <2>2. installed /\ call.nr = Ppid
    BY <2>1 DEF IInv, Filtering, Reference, Ppid
  <2>3. Stage' = Rank("handler") /\ Stage = Rank("handler")
    BY <2>1, <2>2 DEF Stage
  <2>4. Inside' = 0 /\ Inside > 0
    BY <2>1 DEF Inside, IInv, Types
  <2>5. QED
    BY <2>1, <2>3, <2>4, FewerSteps
<1>4. CASE Kill
  <2>1. /\ status = "running" /\ status' = "killed"
        /\ UNCHANGED <<build, installed, at, call, fpc>>
    BY <1>4 DEF Kill, Runs, filter
  <2>2. Stage' = Stage /\ Inside' = Inside
    BY <2>1 DEF Stage, Inside, Ppid, Nr
  <2>3. QED
    BY <2>1, <2>2, FewerSteps
<1>5. CASE Prctl \/ InstallFilter \/ Established \/ HandlerPrints
  <2>1. PICK label \in {"install", "sigaction", "about", "printing"} :
          GoTo(label) /\ status = "running" /\ at # "kernel" /\ Rank(label) < Rank(at)
    BY <1>5 DEF Prctl, InstallFilter, Established, HandlerPrints, Runs, Rank
  <2>2. QED
    BY <2>1, GoToSteps
<1>6. CASE AboutToCall \/ Bye \/ HandlerWrites
  <2>1. PICK next \in {"getppid", "leave", "sigreturn"} :
          /\ status = "running" /\ at # "kernel" /\ Rank(next) < Rank(at)
          /\ OtherSyscall(next) \/ GoTo(next)
    BY <1>6 DEF AboutToCall, Bye, HandlerWrites, Prints, Runs, Rank
  <2>2. QED
    BY <2>1, GoToSteps, OtherCallSteps
<1>7. CASE Sigaction \/ Leave \/ Sigreturn
  <2>1. at = "sigreturn" => resume = "bye"
    BY DEF IInv, Flow, Reached
  <2>2. PICK next \in {"established", "exit", "bye"} :
          status = "running" /\ at # "kernel" /\ Rank(next) < Rank(at) /\ OtherSyscall(next)
    BY <1>7, <2>1 DEF Sigaction, Leave, Sigreturn, Runs, Rank
  <2>3. QED
    BY <2>2, OtherCallSteps
<1>8. CASE Getppid
  <2>1. status = "running" /\ at = "getppid" /\ Syscall(Ppid, "bye")
    BY <1>8 DEF Getppid, Runs, Ppid
  <2>2. Rank("handler") < Rank(at) /\ Rank("bye") < Rank(at)
    BY <2>1 DEF Rank
  <2>3. QED
    BY <2>1, <2>2, CallSteps
<1>9. QED
  BY <1>1, <1>2, <1>3, <1>4, <1>5, <1>6, <1>7, <1>8 DEF Next, Kernel, Main, Handler

\* The calls of the handler run through the filter that led to it, and are not
\* trapped again: every instruction, call and return brings the program nearer to
\* its end, in all builds (main and sigHandler of secccomp.c).
THEOREM ProgramStops == Spec => [](StepsLeft \in Nat) /\ [][StepsLeft' < StepsLeft]_vars
<1>1. IInv => StepsAreNat
  <2>1. ASSUME IInv PROVE StepsLeft \in Nat
    BY <2>1, Ranges DEF StepsLeft
  <2>2. QED
    BY <2>1 DEF StepsAreNat
<1>2. IInv /\ IInv' /\ [Next]_vars => [StepsShrink]_vars
  BY StepsGetFewer
<1>3. Spec => []StepsAreNat /\ [][StepsShrink]_vars
  BY <1>1, <1>2, Invariance, PTL DEF Spec
<1>4. QED
  BY <1>3 DEF StepsAreNat, StepsShrink
-----------------------------------------------------------------------------
\* The program has left the last label only by exiting.
ExitIsLast == at = "exit" => status = "0"

LEMMA ExitIsLeft == Spec => []ExitIsLast
<1>1. Init => ExitIsLast
  BY DEF Init, ExitIsLast
<1>2. IInv /\ ExitIsLast /\ [Next]_vars => ExitIsLast'
  <2> SUFFICES ASSUME IInv, ExitIsLast, [Next]_vars, at' = "exit" PROVE status' = "0"
    BY DEF ExitIsLast
  <2>1. CASE at' = at /\ status' = status
    BY <2>1 DEF ExitIsLast
  <2>2. CASE Execute
    <3>1. at' = call.next /\ status' = IF call.next = "exit" THEN "0" ELSE status
      BY <2>2 DEF Execute
    <3> QED
      BY <3>1
  <2>3. CASE Kill
    <3>1. at = "kernel" /\ at' = at
      BY <2>3 DEF Kill, Runs
    <3> QED
      BY <3>1
  <2>4. CASE Evaluation
    BY <2>1, <2>4 DEF Evaluation, LoadArch, LoadNr, JumpEq, JumpGe, JumpIf, Return, Unfiltered
  <2>5. CASE Trap
    BY <2>5 DEF Trap
  <2>6. CASE Main \/ Handler
    <3>1. at' \in {"kernel", "install", "sigaction", "about", "getppid", "leave", "printing", "sigreturn"}
      BY <2>6 DEF Main, Handler, Prctl, InstallFilter, Sigaction, Established, AboutToCall, Getppid,
                  Bye, Leave, HandlerPrints, HandlerWrites, Sigreturn, Prints, GoTo, OtherSyscall,
                  Syscall
    <3> QED
      BY <3>1
  <2> QED
    BY <2>1, <2>2, <2>3, <2>4, <2>5, <2>6 DEF Next, Kernel, vars
<1> QED
  BY <1>1, <1>2, Invariance, PTL DEF Spec

\* The guards: of Evaluation, of what the kernel then does, and of the program, whose
\* labels all lead on (some by any call of Others).
MayEvaluate == /\ Runs("kernel") /\ fpc \in 1 .. Len(Filter)
               /\ Filter[fpc].op \in {"arch", "nr", "jeq", "jge", "ret"}
MayDecide == Runs("kernel") /\ verdict \in Verdicts
MayGoOn == status = "running" /\ at \in Labels \ {"kernel", "exit"}

\* In a call either the filter goes on, and has no verdict, or there is one.
ProgramGoes == status = "running" => MayGoOn \/ (IF fpc # 0 THEN MayEvaluate /\ verdict = "none"
                                                ELSE MayDecide)

\* No call hangs and no jump of the filter leaves its nine instructions: while the
\* program runs it has a next step, until the filter has returned it is one of the
\* filter's, and what it has returned is a verdict (install_filter and main of
\* secccomp.c).
THEOREM NeverStuck == Spec => []ProgramGoes
<1>1. IInv /\ ExitIsLast => ProgramGoes
  <2> SUFFICES ASSUME IInv, ExitIsLast, status = "running", ~MayGoOn
               PROVE  IF fpc # 0 THEN MayEvaluate /\ verdict = "none" ELSE MayDecide
    BY Zenon DEF ProgramGoes
  <2>1. at = "kernel"
    BY DEF MayGoOn, IInv, Types, ExitIsLast
  <2>2. Filtering /\ fpc \in 0 .. 9
    BY DEF IInv, Types
  <2>3. CASE fpc # 0
    <3>1. installed /\ verdict = "none"
      BY <2>1, <2>2, <2>3 DEF Filtering
    <3>2. fpc \in {1, 2, 3, 4, 5, 6, 7, 8, 9}
      BY <2>2, <2>3
    <3>3. Filter[fpc].op \in {"arch", "nr", "jeq", "jge", "ret"}
      BY <3>2, FilterText
    <3>4. fpc \in 1 .. Len(Filter)
      BY <2>2, <2>3, FilterText
    <3> QED
      BY <2>1, <2>3, <3>1, <3>3, <3>4, Zenon DEF MayEvaluate, Runs
  <2>4. CASE fpc = 0
    <3>1. verdict \in Verdicts
      BY <2>1, <2>2, <2>4 DEF Filtering, Reference, Verdicts
    <3> QED
      BY <2>1, <2>4, <3>1, Zenon DEF MayDecide, Runs
  <2> QED
    BY <2>3, <2>4
<1> QED
  BY <1>1, Invariance, ExitIsLeft, PTL
================================================================================
