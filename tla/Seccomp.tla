------------------------------- MODULE Seccomp --------------------------------
(***************************************************************************)
(* src/seccomp/secccomp.c: installs a filter that turns getppid() into a   *)
(* SIGSYS, and goes on after its handler.  Each of the system calls made   *)
(* after that runs through the nine instructions of the filter, which the  *)
(* kernel evaluates one by one; so do the calls of the handler.            *)
(*                                                                         *)
(* The program can be built for three ABIs.  A system call that is not     *)
(* getppid is any of Others.                                               *)
(***************************************************************************)
EXTENDS Naturals, Sequences

CONSTANTS AUDIT_ARCH_X86_64, AUDIT_ARCH_I386,
          X32_SYSCALL_BIT,
          NR_getppid, Others

ASSUME ArchsAssumption == /\ AUDIT_ARCH_X86_64 \in Nat /\ AUDIT_ARCH_I386 \in Nat
                          /\ AUDIT_ARCH_X86_64 # AUDIT_ARCH_I386
ASSUME CallsAssumption == /\ X32_SYSCALL_BIT \in Nat
                          /\ NR_getppid \in Nat /\ NR_getppid < X32_SYSCALL_BIT
                          /\ \A n \in Others : /\ n \in Nat /\ n < X32_SYSCALL_BIT
                                               /\ n # NR_getppid

Builds == {"x86", "x32", "i386"}

VARIABLES build,
          installed, \* the filter is
          at,        \* where the program is, "kernel" in a system call
          call,      \* the last system call, and where it returns to
          fpc, acc,  \* the filter's next instruction (0: none), its register
          verdict,   \* "none" until it has returned one
          handler,   \* of SIGSYS is established
          resume,    \* where the handler returns to
          sigsys,    \* "SIGSYS!" so many times
          executed,  \* getppid was
          status     \* "running", "killed" or the exit status

filter == <<fpc, acc, verdict>>
vars == <<build, installed, at, call, filter, handler, resume, sigsys, executed, status>>

arch == IF build = "i386" THEN AUDIT_ARCH_I386 ELSE AUDIT_ARCH_X86_64

\* All x32 system calls, __NR_getppid of that build too, have bit 30 set.
Nr(n) == IF build = "x32" THEN X32_SYSCALL_BIT + n ELSE n

Init == /\ build \in Builds
        /\ installed = FALSE /\ handler = FALSE /\ executed = FALSE
        /\ at = "prctl" /\ resume = "prctl" /\ call = [nr |-> 0, next |-> "prctl"]
        /\ fpc = 0 /\ acc = 0 /\ verdict = "none"
        /\ sigsys = 0 /\ status = "running"
-----------------------------------------------------------------------------
(* The filter.  Jumps are relative to the next instruction. *)
Load(op) == [op |-> op, k |-> 0, jt |-> 0, jf |-> 0, ret |-> "none"]
Jump(op, k, jt, jf) == [op |-> op, k |-> k, jt |-> jt, jf |-> jf, ret |-> "none"]
Ret(r) == [op |-> "ret", k |-> 0, jt |-> 0, jf |-> 0, ret |-> r]

\* Bug: the jumps over the second kill are the wrong way round.
FilterSwapped ==
  <<Load("arch"), Jump("jeq", AUDIT_ARCH_X86_64, 1, 0), Ret("kill"),
    Load("nr"), Jump("jge", X32_SYSCALL_BIT, 1, 0), Ret("killprocess"),
    Jump("jeq", Nr(NR_getppid), 0, 1), Ret("trap"), Ret("allow")>>

\* Bug: the trap is jumped over.
FilterNoTrap ==
  <<Load("arch"), Jump("jeq", AUDIT_ARCH_X86_64, 1, 0), Ret("kill"),
    Load("nr"), Jump("jge", X32_SYSCALL_BIT, 0, 1), Ret("killprocess"),
    Jump("jeq", Nr(NR_getppid), 1, 1), Ret("trap"), Ret("allow")>>

\* Bug: the first x32 system call is taken for a native one.
FilterOffByOne ==
  <<Load("arch"), Jump("jeq", AUDIT_ARCH_X86_64, 1, 0), Ret("kill"),
    Load("nr"), Jump("jge", X32_SYSCALL_BIT + 1, 0, 1), Ret("killprocess"),
    Jump("jeq", Nr(NR_getppid), 0, 1), Ret("trap"), Ret("allow")>>

Filter ==
  <<Load("arch"), Jump("jeq", AUDIT_ARCH_X86_64, 1, 0), Ret("kill"),
    Load("nr"), Jump("jge", X32_SYSCALL_BIT, 0, 1), Ret("killprocess"),
    Jump("jeq", Nr(NR_getppid), 0, 1), Ret("trap"), Ret("allow")>>

\* The kernel evaluates one instruction.
Evaluates(op) == status = "running" /\ at = "kernel" /\ fpc # 0 /\ Filter[fpc].op = op
Unfiltered == <<build, installed, at, call, handler, resume, sigsys, executed, status>>

LoadArch == /\ Evaluates("arch")
            /\ acc' = arch /\ fpc' = fpc + 1
            /\ UNCHANGED <<Unfiltered, verdict>>
LoadNr == /\ Evaluates("nr")
          /\ acc' = call.nr /\ fpc' = fpc + 1
          /\ UNCHANGED <<Unfiltered, verdict>>
JumpIf(op, condition) ==
  /\ Evaluates(op)
  /\ fpc' = fpc + 1 + (IF condition THEN Filter[fpc].jt ELSE Filter[fpc].jf)
  /\ UNCHANGED <<Unfiltered, acc, verdict>>
JumpEq == JumpIf("jeq", acc = Filter[fpc].k)
JumpGe == JumpIf("jge", acc >= Filter[fpc].k)
Return == /\ Evaluates("ret")
          /\ verdict' = Filter[fpc].ret /\ fpc' = 0
          /\ UNCHANGED <<Unfiltered, acc>>
-----------------------------------------------------------------------------
Runs(label) == status = "running" /\ at = label

\* A system call; without a filter the kernel executes it.
Syscall(nr, next) == /\ call' = [nr |-> nr, next |-> next] /\ at' = "kernel"
                     /\ fpc' = (IF installed THEN 1 ELSE 0) /\ acc' = 0
                     /\ verdict' = IF installed THEN "none" ELSE "allow"
                     /\ UNCHANGED <<build, installed, handler, resume, sigsys, executed, status>>
OtherSyscall(next) == \E n \in Others : Syscall(Nr(n), next)

Execute == /\ Runs("kernel") /\ verdict = "allow"
           /\ executed' = (executed \/ call.nr = Nr(NR_getppid))
           /\ at' = call.next /\ status' = IF call.next = "exit" THEN "0" ELSE status
           /\ UNCHANGED <<build, installed, call, filter, handler, resume, sigsys>>

\* Bug: the call is executed and trapped.
TrapExecutes == /\ Runs("kernel") /\ verdict = "trap" /\ handler
                /\ at' = "handler" /\ resume' = call.next /\ executed' = TRUE
                /\ UNCHANGED <<build, installed, call, filter, handler, sigsys, status>>

\* SIGSYS instead of the call: sigHandler() runs.
Trap == /\ Runs("kernel") /\ verdict = "trap" /\ handler
        /\ at' = "handler" /\ resume' = call.next
        /\ UNCHANGED <<build, installed, call, filter, handler, sigsys, executed, status>>

Kill == /\ Runs("kernel")
        /\ verdict \in {"kill", "killprocess"} \/ (verdict = "trap" /\ ~handler)
        /\ status' = "killed"
        /\ UNCHANGED <<build, installed, at, call, filter, handler, resume, sigsys, executed>>
-----------------------------------------------------------------------------
GoTo(label) == at' = label /\ UNCHANGED <<build, call, filter, resume, executed>>

\* PR_SET_NO_NEW_PRIVS, or return -11
Prctl == /\ Runs("prctl")
         /\ GoTo("install") /\ status' \in {"running", "-11"}
         /\ UNCHANGED <<installed, handler, sigsys>>

\* install_filter() does not tell whether it did.
InstallFilter == /\ Runs("install")
                 /\ installed' \in BOOLEAN /\ GoTo("sigaction")
                 /\ UNCHANGED <<handler, sigsys, status>>

Sigaction == Runs("sigaction") /\ OtherSyscall("established")

\* SIGSYS is handled, or return -18
Established == /\ Runs("established")
               /\ \/ handler' = TRUE /\ UNCHANGED status
                  \/ status' = "-18" /\ UNCHANGED handler
               /\ GoTo("about")
               /\ UNCHANGED <<installed, sigsys>>

\* printf writes at once, or leaves it to a later call.
Prints(label, next) == /\ Runs(label)
                       /\ \/ OtherSyscall(next)
                          \/ GoTo(next) /\ UNCHANGED <<installed, handler, sigsys, status>>

AboutToCall == Prints("about", "getppid")
Getppid == Runs("getppid") /\ Syscall(Nr(NR_getppid), "bye")
Bye == Prints("bye", "leave")
Leave == Runs("leave") /\ OtherSyscall("exit")

\* sigHandler(), and sigreturn, which is a system call too.
HandlerPrints == /\ Runs("handler")
                 /\ sigsys' = sigsys + 1 /\ GoTo("printing")
                 /\ UNCHANGED <<installed, handler, status>>
HandlerWrites == Prints("printing", "sigreturn")
Sigreturn == Runs("sigreturn") /\ OtherSyscall(resume)

Evaluation == LoadArch \/ LoadNr \/ JumpEq \/ JumpGe \/ Return
Kernel == Evaluation \/ Execute \/ Trap \/ Kill
Main == \/ Prctl \/ InstallFilter \/ Sigaction \/ Established
        \/ AboutToCall \/ Getppid \/ Bye \/ Leave
Handler == HandlerPrints \/ HandlerWrites \/ Sigreturn

Next == Kernel \/ Main \/ Handler

Spec == Init /\ [][Next]_vars
-----------------------------------------------------------------------------
Labels == {"prctl", "install", "sigaction", "established", "about", "getppid", "bye", "leave",
           "exit", "handler", "printing", "sigreturn", "kernel"}
Verdicts == {"kill", "killprocess", "trap", "allow"}

TypeOK == /\ build \in Builds /\ installed \in BOOLEAN /\ handler \in BOOLEAN
          /\ at \in Labels /\ resume \in Labels
          /\ call \in [nr : Nat, next : Labels]
          /\ fpc \in 0 .. Len(Filter) /\ acc \in Nat /\ verdict \in Verdicts \cup {"none"}
          /\ sigsys \in Nat /\ executed \in BOOLEAN
          /\ status \in {"running", "killed", "0", "-11", "-18"}

\* What the comments of install_filter() say of a system call.
Reference(a, nr) ==
  CASE a # AUDIT_ARCH_X86_64 -> "kill"
    [] a = AUDIT_ARCH_X86_64 /\ nr >= X32_SYSCALL_BIT -> "killprocess"
    [] a = AUDIT_ARCH_X86_64 /\ nr < X32_SYSCALL_BIT /\ nr = Nr(NR_getppid) -> "trap"
    [] OTHER -> "allow"

\* The nine instructions with their relative jumps come to that verdict, for
\* every call of every build.
VerdictIsReference ==
  at = "kernel" /\ fpc = 0 /\ installed => verdict = Reference(arch, call.nr)

\* Under the filter getppid is never executed, in main() or after the handler.
NeverExecuted == installed => ~executed

\* The exit status does not tell whether the filter was installed; "SIGSYS!"
\* does: it is printed once if it was, and not at all if getppid was executed.
HandledTellsInstalled == status = "0" => /\ sigsys = IF installed THEN 1 ELSE 0
                                         /\ executed <=> ~installed

\* Under the filter a foreign build never gets to its handler, let alone to its
\* end, and the native build is never killed.
ForeignBuildsDie == installed => /\ build # "x86" => ~handler /\ status # "0"
                                 /\ build = "x86" => status # "killed"
=============================================================================
