--------------------------- MODULE CounterBlocks ----------------------------
(***************************************************************************)
(* The blocks CCM is built from, with a symbolic cipher.  The bit layout   *)
(* of the formatted blocks is left out: a formatted block is a block of    *)
(* atoms that carry exactly the values that are formatted into it.         *)
(***************************************************************************)
EXTENDS Blocks

CONSTANTS
  MBS,     \* MBS_RIJ128, 16
  AD_HDR   \* bytes the length of the associated data is encoded in, 2

\* The block cipher.
Cipher(blk) == [j \in 1..MBS |-> {<<"E", blk, j>>}]

\* The counter block of an IV: its last qLen = 15-ivLen bytes hold the counter.
Ctr(iv, n) == [j \in 1..MBS |-> {<<"ctr", iv.id, n % iv.ctrMod, j>>}]

\* The first block of the MAC: flags, IV and message length.
B0(adLen, tagLen, msgLen, iv) ==
  [j \in 1..MBS |-> {<<"B0", adLen # 0, tagLen, msgLen, iv.id, j>>}]

AdLenEnc(adLen) == [j \in 1..AD_HDR |-> {<<"adLen", adLen, j>>}]

\* The CBC MAC of the blocks bs, from the MAC value mac on.
CbcMac(mac, bs) ==
  LET m[i \in 0..Len(bs)] == IF i = 0 THEN mac ELSE Cipher(XorBlock(bs[i], m[i - 1], 0))
  IN  m[Len(bs)]
=============================================================================
