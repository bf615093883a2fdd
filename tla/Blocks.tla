------------------------------- MODULE Blocks -------------------------------
(***************************************************************************)
(* Symbolic bytes and blocks.                                              *)
(*                                                                         *)
(* A byte is a finite set of atoms and stands for the XOR of its atoms:    *)
(* XOR is the symmetric difference, the zero byte is the empty set.  Every *)
(* atom is a value nothing else is equal to (a byte of caller data, a byte *)
(* of a cipher's output), so two expressions over bytes are equal exactly  *)
(* when they are equal whatever the data are.  A block is a sequence of    *)
(* bytes.                                                                  *)
(***************************************************************************)
EXTENDS Integers, Sequences

IPP_MIN(a, b) == IF a < b THEN a ELSE b

Xor(a, b) == (a \ b) \cup (b \ a)

\* A block of n zero bytes.
ZeroBlock(n) == [j \in 1..n |-> {}]

\* XOR the bytes s into blk, the first of them at offset off.
XorBlock(s, blk, off) ==
  [j \in DOMAIN blk |->
     IF j \in (off + 1)..(off + Len(s)) THEN Xor(blk[j], s[j - off]) ELSE blk[j]]

\* Overwrite blk with the bytes s, the first of them at offset off.
CopyBlock(s, blk, off) ==
  [j \in DOMAIN blk |->
     IF j \in (off + 1)..(off + Len(s)) THEN s[j - off] ELSE blk[j]]

\* The n atoms of caller data numbered first+1 .. first+n of the stream kind.
Data(kind, first, n) == [i \in 1..n |-> {<<kind, first + i>>}]

\* A key of n bytes, which has no byte of a key of another length.
Key(n) == Data("key", n * n, n)

\* s cut into blocks of n bytes, the last one padded with zero bytes.
ZeroPadded(s, n) ==
  [k \in 1..((Len(s) + n - 1) \div n) |->
     [j \in 1..n |-> IF (k - 1) * n + j <= Len(s) THEN s[(k - 1) * n + j] ELSE {}]]
=============================================================================
