---------------------------- MODULE MCPhotoSync ----------------------------
(* Values of PhotoSync's constants for TLC. *)
EXTENDS PhotoSync, TLC

CONSTANTS p1, p2, a, b, u, n1, n2, n3, t1, t2

TwoPaths == {p1, p2}
AllContents == {a, b, u}
PhotoOnly == {a}
PhotoVersions == {a, b}
UserBytesAndDir == {u, Dir}
Nobody == {}
TwoMetas == {0, 1}
\* The phone's checksum tells all contents apart.
ContentSums == AllContents \cup {Dir}
ContentSum == [c \in ContentSums |-> c]

\* How many aborts, faults, phone changes and user changes each run allows.
Allow(aborts, faults, phoneOps, userOps) ==
    [k \in Kinds |-> CASE k = "abort" -> aborts [] k = "fault" -> faults
                       [] k = "phone" -> phoneOps [] k = "user" -> userOps]
CrashBounds == Allow(2, 1, 1, 1)
ConvergeBounds == Allow(1, 1, 2, 0)

\* Paths, names and the two versions of a photo are interchangeable.
Interchangeable ==
    Permutations(Paths) \cup Permutations(PartNames) \cup Permutations(TrashNames)
      \cup Permutations(PhotoVersions)
=============================================================================
