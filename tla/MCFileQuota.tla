---------------------------- MODULE MCFileQuota -----------------------------
EXTENDS FileQuota, TLC

CONSTANTS n1, n2, ino1, ino2, fd1

QuotaSym == Permutations(Names) \cup Permutations(Inodes)

\* torn and loose stay TRUE, and no property of the run says anything of what
\* follows a torn copy or a change that was not measured: it is not explored.
\* After both shared and slack only EntriesExact is left, and QuotaIsUsage
\* proves it.
Claimed == ~torn /\ ~loose /\ ~(shared /\ slack)
=============================================================================
