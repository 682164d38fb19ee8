\* Kernel64.txt holding a first line with two spaces: the copy loop writes
\* past the KernelPath pool.
CONSTANTS
  Files <- MCFiles
INIT Init
NEXT Next
INVARIANT ConfigWritesInBounds
\* GoTime returns or goes on to open the kernel after the parse.
CHECK_DEADLOCK FALSE
