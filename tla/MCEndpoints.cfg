CONSTANTS
  Base = 2
  MaxHosts = 2
SPECIFICATION Spec
INVARIANTS TypeOK KernelIsTold ReplyGoesBack HostIsReached
