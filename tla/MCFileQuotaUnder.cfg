SPECIFICATION QuotaSpec
CONSTANTS
  Names = {n1, n2}
  Inodes = {ino1, ino2}
  Fds = {fd1}
  n1 = n1
  n2 = n2
  ino1 = ino1
  ino2 = ino2
  fd1 = fd1
  Missing = Missing
  Dir = Dir
  MaxBytes = 2
  MaxEntries = 2
  MaxSize = 2
  Chunks = {1}
  Enforce = TRUE
  HostFails = TRUE
SYMMETRY QuotaSym
CHECK_DEADLOCK FALSE
INVARIANT NeverUnder
