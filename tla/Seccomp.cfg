CONSTANTS AUDIT_ARCH_X86_64 = 62
          AUDIT_ARCH_I386 = 3
          X32_SYSCALL_BIT = 1073741824
          NR_getppid = 110
          Others = {0, 13, 109, 111}
SPECIFICATION Spec
INVARIANTS VerdictIsReference HandledTellsInstalled ForeignBuildsDie
CHECK_DEADLOCK FALSE
