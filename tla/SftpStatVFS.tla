---------------------------- MODULE SftpStatVFS -----------------------------
(***************************************************************************)
(* StatVFS and its derived accessors (packet.go 808-828).  The counters    *)
(* are uint64 values the peer sends in its statvfs reply; TotalSpace and   *)
(* FreeSpace are Go uint64 products, which wrap modulo 2^64.               *)
(*                                                                         *)
(* A uint64 is [hi, lo] as in SftpCodec.  TLC's integers are 32-bit, so a  *)
(* product is computed on the eight bytes of each factor, least            *)
(* significant first, and kept as such a byte sequence.                    *)
(***************************************************************************)
EXTENDS Naturals, Sequences, SequencesExt

LOCAL INSTANCE SftpCodec

\* The bytes of a uint64, least significant first.
U64Bytes(x) == [i \in 1..8 |-> IF i <= 4 THEN ByteOf(x.lo, 8 * (i - 1))
                                         ELSE ByteOf(x.hi, 8 * (i - 5))]

\* Carry the column sums cs[k..] into bytes.
RECURSIVE Carry(_, _, _)
Carry(cs, k, c) ==
    IF k > Len(cs) THEN <<>>
    ELSE <<(cs[k] + c) % 256>> \o Carry(cs, k + 1, (cs[k] + c) \div 256)

\* a * b for uint64: schoolbook on bytes, keeping the low eight bytes, which
\* is the product modulo 2^64.
MulMod64(a, b) ==
    LET x == U64Bytes(a)
        y == U64Bytes(b)
        col(k) == FoldLeft(LAMBDA s, i : s + x[i] * y[k + 1 - i], 0, [j \in 1..k |-> j])
    IN  Carry([k \in 1..8 |-> col(k)], 1, 0)

\* func (p *StatVFS) TotalSpace() uint64 { return p.Frsize * p.Blocks }
TotalSpace(p) == MulMod64(p.Frsize, p.Blocks)

\* func (p *StatVFS) FreeSpace() uint64 { return p.Frsize * p.Bfree }
FreeSpace(p) == MulMod64(p.Frsize, p.Bfree)
=============================================================================
