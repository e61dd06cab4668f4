---------------------------- MODULE MCSftpStatVFS ---------------------------
(***************************************************************************)
(* A client holds the StatVFS of a statvfs@openssh.com reply and reads its *)
(* TotalSpace and FreeSpace.  The counters come from the peer; each step   *)
(* is another reply.  The values are a 4 KiB and a 2^32-byte fragment, and *)
(* block counts of 1000 and 2^32, so products below and above 2^64 occur. *)
(***************************************************************************)
EXTENDS SftpStatVFS

VARIABLE vfs

U64(hi, lo) == [hi |-> hi, lo |-> lo]

\* Unsigned order of uint64 values.
U64Leq(a, b) == a.hi < b.hi \/ (a.hi = b.hi /\ a.lo <= b.lo)

\* Unsigned order of equally long byte sequences, least significant byte
\* first: equal, or smaller at the highest byte where they differ.
BytesLeq(x, y) ==
    \/ x = y
    \/ \E k \in DOMAIN x : x[k] < y[k] /\ \A j \in (k + 1)..Len(x) : x[j] = y[j]

Sizes  == {U64(0, 4096), U64(1, 0)}
Counts == {U64(0, 0), U64(0, 1000), U64(1, 0)}

\* statvfs(2) guarantees f_bavail <= f_bfree <= f_blocks.
Replies == {[Frsize |-> f, Blocks |-> n, Bfree |-> fr, Bavail |-> av] :
               f \in Sizes, n \in Counts, fr \in Counts, av \in Counts}
Consistent(p) == U64Leq(p.Bavail, p.Bfree) /\ U64Leq(p.Bfree, p.Blocks)

Init == vfs \in {p \in Replies : Consistent(p)}
Next == \E p \in {q \in Replies : Consistent(q)} : vfs' = p
Spec == Init /\ [][Next]_vfs

(* Free space never exceeds total space when the free-block count does not *)
(* exceed the block count: spec.md defines TotalSpace and FreeSpace as the *)
(* products Frsize * Blocks and Frsize * Bfree.                            *)
FreeSpaceWithinTotal == BytesLeq(FreeSpace(vfs), TotalSpace(vfs))
=============================================================================
