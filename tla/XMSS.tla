-------------------------------- MODULE XMSS --------------------------------
(***************************************************************************)
(* ippsXMSSVerify with the functions of WOTS+ it calls.  Every hash has an *)
(* address of eight words, which one array holds throughout: each phase    *)
(* writes the words it uses and counts on the rest.                        *)
(*                                                                         *)
(* A value of n bytes is a sum of atoms (module Blocks); a hash is known   *)
(* by what was hashed, and only the message's digest has bits.  A digest   *)
(* of n = 1 byte and digits of log2_w bits take the standard's place.      *)
(***************************************************************************)
EXTENDS Blocks, SequencesExt

CONSTANTS
  XmssLog2W,    \* log2_w
  XmssHeight,   \* h
  XmssMessages, \* numbers of the messages
  XDigestOf(_, _, _) \* the digest's byte of index, randomizer and message

VARIABLES
  xmssKey,    \* the nodes of the signer's tree, the public key on top
  xmssSigned, \* the signature the signer made, and for which message
  xmssCall    \* the message, the signature and what ippsXMSSVerify answered

xmssVars == <<xmssKey, xmssSigned, xmssCall>>

-----------------------------------------------------------------------------
(* Parameters.  w, len_1 and len_2 are those the standard has for n = 1.   *)

W     == 2^XmssLog2W
len_1 == 8 \div XmssLog2W
len_2 == CHOOSE k \in 1..8 : /\ len_1 * (W - 1) < 2^(k * XmssLog2W)
                             /\ \A less \in 1..(k - 1) : len_1 * (W - 1) >= 2^(less * XmssLog2W)
len   == len_1 + len_2

\* do_xmss_hash: padding number, key and message.
do_xmss_hash(padding_id, key, msg) == {<<"H", padding_id, key, msg>>}

\* prf of the public seed: a value for each address.
prf(seed, adrs) == {<<"prf", seed, adrs>>}

\* An address is its eight words; the single byte that is set is a word's last.
set_adrs_1_byte(adrs, word, v) == [adrs EXCEPT ![word] = @ - (@ % 256) + (v % 256)]
set_adrs_idx(adrs, idx, word)  == [adrs EXCEPT ![word] = idx]
ZeroAdrs == [word \in 0..7 |-> 0]

\* A digit from each log2_w bits of the bytes X, from the top.
base_w(X, out_len) ==
  [c \in 1..out_len |->
     LET bit == (c - 1) * XmssLog2W
     IN  (X[(bit \div 8) + 1] \div 2^(8 - XmssLog2W - (bit % 8))) % W]

\* The digits of the message and of its checksum, which takes a byte.
Digits(M) ==
  LET msg  == base_w(<<M>>, len_1)
      csum == FoldLeft(LAMBDA sum, d : sum + W - 1 - d, 0, msg)
  IN  msg \o base_w(<<(csum * 2^(8 - ((len_2 * XmssLog2W) % 8))) % 256>>, len_2)

-----------------------------------------------------------------------------
(* Verification.  A step takes the address and gives it with its result.   *)

\* chain(): s steps from step i on.
chain(X, i, s, seed, adrs0) ==
  LET Step(st, k) ==
        LET mask == set_adrs_1_byte(set_adrs_1_byte(st.adrs, 6, k), 7, 1)
            key  == set_adrs_1_byte(mask, 7, 0)
        IN  [adrs |-> key, out |-> do_xmss_hash(0, prf(seed, key), <<Xor(st.out, prf(seed, mask))>>)]
  IN  FoldLeft(Step, [adrs |-> adrs0, out |-> X],
               [k \in 1..IPP_MIN(s, W - i) |-> i + k - 1])

WOTS_pkFromSig(M, sig, seed, adrs0) ==
  LET msg == Digits(M)
      Step(st, i) ==
        LET c == chain(sig[i], msg[i], W - 1 - msg[i], seed, set_adrs_1_byte(st.adrs, 5, i - 1))
        IN  [adrs |-> c.adrs, pk |-> Append(st.pk, c.out)]
      all == FoldLeft(Step, [adrs |-> adrs0, pk |-> <<>>], [i \in 1..len |-> i])
  IN  [all EXCEPT !.adrs = set_adrs_1_byte(@, 5, 0)]

rand_hash(left, right, seed, adrs0) ==
  LET adrs == [k \in 0..2 |-> set_adrs_1_byte(adrs0, 7, k)]
  IN  [adrs |-> set_adrs_1_byte(adrs0, 7, 0),
       out  |-> do_xmss_hash(1, prf(seed, adrs[0]),
                             <<Xor(left, prf(seed, adrs[1])), Xor(right, prf(seed, adrs[2]))>>)]

\* One level of the L-tree in place: pairs are hashed to the front, an odd last node follows.
Level(st, seed) ==
  LET n == Len(st.pk)
      Step(s, i) ==
        LET r == rand_hash(s.pk[2 * i - 1], s.pk[2 * i], seed, set_adrs_1_byte(s.adrs, 6, i - 1))
        IN  [adrs |-> r.adrs, pk |-> [s.pk EXCEPT ![i] = r.out]]
      all == FoldLeft(Step, st, [i \in 1..(n \div 2) |-> i])
      pk  == IF n % 2 = 1 THEN [all.pk EXCEPT ![(n \div 2) + 1] = all.pk[n]] ELSE all.pk
  IN  [adrs |-> set_adrs_1_byte(all.adrs, 5, all.adrs[5] + 1), pk |-> SubSeq(pk, 1, (n + 1) \div 2)]

\* Levels until one node is left; len is below 2^len.
ltree(pk, seed, adrs0) ==
  LET all == FoldLeft(LAMBDA st, k : IF Len(st.pk) > 1 THEN Level(st, seed) ELSE st,
                      [adrs |-> set_adrs_1_byte(adrs0, 5, 0), pk |-> pk], [k \in 1..len |-> k])
  IN  [adrs |-> set_adrs_1_byte(set_adrs_1_byte(all.adrs, 5, 0), 6, 0), out |-> all.pk[1]]

\* Mutant: the word with the leaf's number stays in the addresses of the tree.
TreeAdrs_Mutant(adrs) == set_adrs_1_byte(adrs, 3, 2)

\* The address for the hash tree.
TreeAdrs(adrs) == set_adrs_idx(set_adrs_1_byte(adrs, 3, 2), 0, 4)

\* The root that signature and message lead to.
Root(seed, sig, msg) ==
  LET ots  == WOTS_pkFromSig(XDigestOf(sig.idx, sig.r, msg), sig.ots, seed,
                             set_adrs_idx(ZeroAdrs, sig.idx, 4))
      leaf == ltree(ots.pk, seed, set_adrs_1_byte(ots.adrs, 3, 1))
      Step(st, i) ==
        LET adrs == set_adrs_idx(set_adrs_1_byte(st.adrs, 5, i), st.idx \div 2, 6)
            r    == IF (sig.idx \div 2^i) % 2 = 0
                    THEN rand_hash(st.node, sig.auth[i + 1], seed, adrs)
                    ELSE rand_hash(sig.auth[i + 1], st.node, seed, adrs)
        IN  [adrs |-> r.adrs, idx |-> st.idx \div 2, node |-> r.out]
  IN  FoldLeft(Step, [adrs |-> TreeAdrs(leaf.adrs), idx |-> sig.idx, node |-> leaf.out],
               [i \in 1..XmssHeight |-> i - 1]).node

-----------------------------------------------------------------------------
(* The signer, as RFC 8391 defines keys and signatures: every hash with an *)
(* address made for it.                                                    *)

Seed == {<<"seed">>}

Adrs(type, w4, w5, w6, w7) ==
  [word \in 0..7 |-> CASE word = 3 -> type [] word = 4 -> w4 [] word = 5 -> w5
                       [] word = 6 -> w6 [] word = 7 -> w7 [] OTHER -> 0]

Secret(idx, i) == {<<"x", idx, i>>}

\* Chain i of leaf idx from one step to another.
Advance(idx, i, from, to, y) ==
  FoldLeft(LAMBDA t, k : do_xmss_hash(0, prf(Seed, Adrs(0, idx, i, k, 0)),
                                      <<Xor(t, prf(Seed, Adrs(0, idx, i, k, 1)))>>),
           y, [k \in 1..(to - from) |-> from + k - 1])

RandHash(type, w4, height, index, left, right) ==
  do_xmss_hash(1, prf(Seed, Adrs(type, w4, height, index, 0)),
    <<Xor(left, prf(Seed, Adrs(type, w4, height, index, 1))),
      Xor(right, prf(Seed, Adrs(type, w4, height, index, 2)))>>)

\* L[k] are the nodes of height k over a leaf's chains.
LTree(idx) ==
  LET L[k \in 0..len] ==
        IF k = 0 THEN [i \in 1..len |-> Advance(idx, i - 1, 0, W - 1, Secret(idx, i - 1))]
        ELSE LET below == L[k - 1]
             IN  [i \in 1..((Len(below) + 1) \div 2) |->
                    IF 2 * i > Len(below) THEN below[2 * i - 1]
                    ELSE RandHash(1, idx, k - 1, i - 1, below[2 * i - 1], below[2 * i])]
  IN  L[len][1]

\* T[k] are the nodes of height k of the tree.
Tree ==
  LET T[k \in 0..XmssHeight] ==
        IF k = 0 THEN [i \in 1..2^XmssHeight |-> LTree(i - 1)]
        ELSE LET below == T[k - 1]
             IN  [i \in 1..2^(XmssHeight - k) |->
                    RandHash(2, 0, k - 1, i - 1, below[2 * i - 1], below[2 * i])]
  IN  T

PublicRoot == xmssKey[XmssHeight][1]

SiblingOf(i) == IF i % 2 = 0 THEN i + 1 ELSE i - 1

Sign(idx, r, msg) ==
  LET a == Digits(XDigestOf(idx, r, msg))
  IN  [idx |-> idx, r |-> r,
       ots  |-> [i \in 1..len |-> Advance(idx, i - 1, 0, a[i], Secret(idx, i - 1))],
       auth |-> [k \in 1..XmssHeight |-> xmssKey[k - 1][SiblingOf(idx \div 2^(k - 1)) + 1]]]

\* Every chain is advanced to where another message needs it, where that is forward.
Carried(sig, msg, idx, r, other) ==
  LET a == Digits(XDigestOf(sig.idx, sig.r, msg))
      b == Digits(XDigestOf(idx, r, other))
  IN  [sig EXCEPT !.idx = idx, !.r = r,
         !.ots = [i \in 1..len |->
                    IF b[i] < a[i] THEN @[i] ELSE Advance(sig.idx, i - 1, a[i], b[i], @[i])]]

Altered(sig) ==
  {sig, [sig EXCEPT !.auth = Reverse(@)]}
  \union {[sig EXCEPT !.ots[i] = {<<"other">>}] : i \in {1, len}}
  \union {[sig EXCEPT !.auth[i] = {<<"other">>}] : i \in 1..XmssHeight}

-----------------------------------------------------------------------------
XmssNone == [status |-> "none"]
NoTree   == [k \in 0..XmssHeight |-> <<>>]

XmssInit == xmssKey = NoTree /\ xmssSigned = XmssNone /\ xmssCall = XmssNone

XmssMakeKey == xmssKey = NoTree /\ xmssKey' = Tree /\ UNCHANGED <<xmssSigned, xmssCall>>

XmssSign(idx, msg) ==
  /\ xmssKey # NoTree /\ xmssSigned = XmssNone
  /\ xmssSigned' = [msg |-> msg, sig |-> Sign(idx, "r1", msg)]
  /\ UNCHANGED <<xmssKey, xmssCall>>

\* The index is not compared with the number of leaves.
ippsXMSSVerify(sig, msg) ==
  /\ xmssCall' = [status |-> "ippStsNoErr", sig |-> sig, msg |-> msg,
                  valid |-> Root(Seed, sig, msg) = PublicRoot]
  /\ UNCHANGED <<xmssKey, xmssSigned>>

XmssPresent ==
  /\ xmssSigned # XmssNone /\ xmssCall = XmssNone
  /\ \/ \E msg \in XmssMessages, idx \in 0..(2^XmssHeight), r \in {"r1", "r2"} :
          ippsXMSSVerify(Carried(xmssSigned.sig, xmssSigned.msg, idx, r, msg), msg)
     \/ \E sig \in Altered(xmssSigned.sig) : ippsXMSSVerify(sig, xmssSigned.msg)

XmssRest ==
  xmssCall # XmssNone /\ xmssKey' = NoTree /\ xmssSigned' = XmssNone /\ xmssCall' = XmssNone

XmssNext ==
  \/ XmssMakeKey
  \/ \E idx \in 0..(2^XmssHeight - 1), msg \in XmssMessages : XmssSign(idx, msg)
  \/ XmssPresent
  \/ XmssRest

-----------------------------------------------------------------------------
\* A verification answers "valid" exactly for the message that was signed, with the signature
\* as the signer made it: the one address array has, at each hash, what the standard puts in an
\* address made for that hash.
XmssValidIffSigned ==
  xmssCall # XmssNone =>
    (xmssCall.valid <=> xmssCall.msg = xmssSigned.msg /\ xmssCall.sig = xmssSigned.sig)
=============================================================================
