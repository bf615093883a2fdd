-------------------------------- MODULE LMS --------------------------------
(***************************************************************************)
(* ippsLMSVerify with its key and signature states.  All hashes are taken  *)
(* over one work buffer, of which each writes only what its predecessor    *)
(* left otherwise.                                                         *)
(*                                                                         *)
(* The buffer is a sequence of cells: I, the 4 bytes of q, the 2 bytes of  *)
(* i or a domain, the byte of j, a hash value.  A hash value is known by   *)
(* the cells that were hashed; only a message's digest Q has bits.  Leaves *)
(* of n = 1 byte take the place of the standard's 24 and 32.               *)
(***************************************************************************)
EXTENDS Integers, Sequences, SequencesExt

CONSTANTS
  LmsWidths,    \* w of the types of one-time signatures a caller uses
  LmsHeight,    \* h
  LmsMessages,  \* numbers of the messages
  DigestOf(_, _, _) \* the byte Q of leaf, randomizer and message

VARIABLES
  lmsKey,    \* public key state: I, type, root
  lmsSigned, \* the signature the signer made, and for which message
  lmsCall    \* the message, the signature and what ippsLMSVerify answered

lmsVars == <<lmsKey, lmsSigned, lmsCall>>

D_PBLC == 32896
D_MESG == 33153
D_LEAF == 33410
D_INTR == 33667

Num(v) == <<"u", v>>
H(cells) == <<"H", cells>>

-----------------------------------------------------------------------------
\* The least number of digits that the checksum of 8n/w digits fits in, and the shift that
\* puts it at the beginning of its two bytes.
FittingParams(n, w) ==
  LET digits == (8 * n) \div w
      v == CHOOSE v \in 1..16 : /\ (2^w - 1) * digits < 2^(v * w)
                                /\ \A less \in 1..(v - 1) : (2^w - 1) * digits >= 2^(less * w)
  IN  [p |-> digits + v, ls |-> 16 - v * w]

\* The table of the types: p chains, checksum shifted by ls; the model's own type is n = 1.
setLMOTSParams(n, w) ==
  CASE n = 32 -> (CASE w = 1 -> [p |-> 265, ls |-> 7] [] w = 2 -> [p |-> 133, ls |-> 6]
                    [] w = 4 -> [p |-> 67, ls |-> 4]  [] w = 8 -> [p |-> 34, ls |-> 0])
    [] n = 24 -> (CASE w = 1 -> [p |-> 200, ls |-> 8] [] w = 2 -> [p |-> 101, ls |-> 6]
                    [] w = 4 -> [p |-> 51, ls |-> 4]  [] w = 8 -> [p |-> 26, ls |-> 0])
    [] n = 1  -> FittingParams(1, w)

cpCoef(S, i, w) == (S[((i * w) \div 8) + 1] \div 2^(8 - (w * (i % (8 \div w)) + w))) % 2^w

\* Mutant: the checksum adds the digits themselves.
cpCksm_Mutant(S, w) ==
  2^setLMOTSParams(1, w).ls * FoldLeft(LAMBDA sum, i : sum + cpCoef(S, i - 1, w), 0,
                                    [i \in 1..(8 \div w) |-> i])

cpCksm(S, w) ==
  2^setLMOTSParams(1, w).ls * FoldLeft(LAMBDA sum, i : sum + (2^w - 1) - cpCoef(S, i - 1, w), 0,
                                    [i \in 1..(8 \div w) |-> i])

\* The digits of Q and its checksum, in the order of the chains.
Digits(Q, w) ==
  LET sum == cpCksm(<<Q>>, w)
  IN  [i \in 1..setLMOTSParams(1, w).p |-> cpCoef(<<Q, (sum \div 256) % 256, sum % 256>>, i - 1, w)]

-----------------------------------------------------------------------------
(* Verification.  A step takes the buffer and gives it with its result.    *)

Put(buf, pos, cells) ==
  [c \in DOMAIN buf |-> IF c \in pos..(pos + Len(cells) - 1) THEN cells[c - pos + 1] ELSE buf[c]]
Hashed(buf, n) == H(SubSeq(buf, 1, n))

WorkBuffer == [c \in 1..5 |-> <<"found", c>>]

\* Chain i from digit a on.
Chain(buf, y, i, a, w) ==
  LET Step(st, j) == LET b == Put(st.buf, 4, <<Num(j), st.tmp>>)
                     IN  [buf |-> b, tmp |-> Hashed(b, 5)]
  IN  FoldLeft(Step, [buf |-> Put(buf, 3, <<Num(i)>>), tmp |-> y],
               [k \in 1..(2^w - 1 - a) |-> a + k - 1])

\* Kc of all chains' ends, behind the beginning of the buffer.
OtsCandidate(buf, sig, a, w) ==
  LET Step(st, i) == LET c == Chain(st.buf, sig.y[i], i - 1, a[i], w)
                     IN  [buf |-> c.buf, z |-> Append(st.z, c.tmp)]
      all == FoldLeft(Step, [buf |-> buf, z |-> <<>>], [i \in 1..Len(a) |-> i])
  IN  [buf |-> all.buf, Kc |-> H(SubSeq(all.buf, 1, 2) \o <<Num(D_PBLC)>> \o all.z)]

\* From the leaf up; node halves until it is the root.
Climb(buf, leaf, node, path) ==
  LET Step(st, i) ==
        LET pair == IF st.node % 2 = 1 THEN <<path[i], st.tmp>> ELSE <<st.tmp, path[i]>>
            b    == Put(Put(st.buf, 2, <<Num(st.node \div 2)>>), 4, pair)
        IN  [buf |-> b, tmp |-> Hashed(b, 5), node |-> st.node \div 2]
  IN  FoldLeft(Step, [buf |-> Put(buf, 3, <<Num(D_INTR)>>), tmp |-> leaf, node |-> node],
               [i \in 1..LmsHeight |-> i])

\* The root that signature and message lead to.
Candidate(key, sig, msg) ==
  LET b1   == Put(WorkBuffer, 1, <<key.I, Num(sig.q), Num(D_MESG), <<"C", sig.C>>, <<"M", msg>>>>)
      ots  == OtsCandidate(b1, sig, Digits(DigestOf(sig.q, sig.C, msg), key.w), key.w)
      node == 2^LmsHeight + sig.q
      b2   == Put(ots.buf, 2, <<Num(node), Num(D_LEAF), ots.Kc>>)
  IN  Climb(b2, Hashed(b2, 4), node, sig.path).tmp

VerifyStatus(key, sig) ==
  IF key.w # sig.w \/ key.lmsType # sig.lmsType \/ sig.q >= 2^LmsHeight
  THEN "ippStsBadArgErr" ELSE "ippStsNoErr"

-----------------------------------------------------------------------------
(* The signer, as RFC 8554 defines keys and signatures.                    *)

Secret(I, q, i) == <<"x", I, q, i>>

\* Chain i of leaf q from one digit to another, starting with y.
Advance(I, q, i, from, to, y) ==
  FoldLeft(LAMBDA t, j : H(<<<<"I", I>>, Num(q), Num(i), Num(j), t>>), y,
           [k \in 1..(to - from) |-> from + k - 1])

Leaf(I, q, w) ==
  LET z == [i \in 1..setLMOTSParams(1, w).p |->
              Advance(I, q, i - 1, 0, 2^w - 1, Secret(I, q, i - 1))]
      K == H(<<<<"I", I>>, Num(q), Num(D_PBLC)>> \o z)
  IN  H(<<<<"I", I>>, Num(2^LmsHeight + q), Num(D_LEAF), K>>)

\* Node r of the tree.
Node(I, w) ==
  LET T[r \in 1..(2^(LmsHeight + 1) - 1)] ==
        IF r >= 2^LmsHeight THEN Leaf(I, r - 2^LmsHeight, w)
        ELSE LET left == T[2 * r]  right == T[2 * r + 1]
             IN  H(<<<<"I", I>>, Num(r), Num(D_INTR), left, right>>)
  IN  T

\* ippsLMSSetPublicKeyState
PublicKey(I, w) == [I |-> <<"I", I>>, w |-> w, lmsType |-> LmsHeight, T1 |-> Node(I, w)[1]]

Sibling(r) == IF r % 2 = 0 THEN r + 1 ELSE r - 1

Sign(I, w, q, C, msg) ==
  LET a == Digits(DigestOf(q, C, msg), w)
      T == Node(I, w)
  IN  [w |-> w, lmsType |-> LmsHeight, q |-> q, C |-> C,
       y |-> [i \in 1..Len(a) |-> Advance(I, q, i - 1, 0, a[i], Secret(I, q, i - 1))],
       path |-> [k \in 1..LmsHeight |-> T[Sibling((2^LmsHeight + q) \div 2^(k - 1))]]]

-----------------------------------------------------------------------------
(* What may be put together from the one signature and the public key.     *)

\* Every chain is advanced to where another message needs it, where that is forward.
Carried(I, sig, msg, q, C, other) ==
  LET a == Digits(DigestOf(sig.q, sig.C, msg), sig.w)
      b == Digits(DigestOf(q, C, other), sig.w)
  IN  [sig EXCEPT !.q = q, !.C = C,
         !.y = [i \in DOMAIN a |->
                  IF b[i] < a[i] THEN sig.y[i] ELSE Advance(I, sig.q, i - 1, a[i], b[i], sig.y[i])]]

Altered(sig) ==
  {sig, [sig EXCEPT !.w = IF @ = 2 THEN 4 ELSE 2], [sig EXCEPT !.lmsType = @ + 1],
   [sig EXCEPT !.path = Reverse(@)]}
  \union {[sig EXCEPT !.y[i] = <<"other">>] : i \in {1, Len(sig.y)}}
  \union {[sig EXCEPT !.path[i] = <<"other">>] : i \in 1..LmsHeight}

-----------------------------------------------------------------------------
LmsNone == [status |-> "none"]

LmsInit == lmsKey = LmsNone /\ lmsSigned = LmsNone /\ lmsCall = LmsNone

LmsSetKey(I, w) == lmsKey = LmsNone /\ lmsKey' = PublicKey(I, w) /\ UNCHANGED <<lmsSigned, lmsCall>>

\* The signer uses a leaf once.
LmsSign(I, q, msg) ==
  /\ lmsKey # LmsNone /\ lmsKey.I = <<"I", I>> /\ lmsSigned = LmsNone
  /\ lmsSigned' = [I |-> I, msg |-> msg, sig |-> Sign(I, lmsKey.w, q, "r1", msg)]
  /\ UNCHANGED <<lmsKey, lmsCall>>

ippsLMSVerify(sig, msg) ==
  LET status == VerifyStatus(lmsKey, sig)
  IN  /\ lmsCall' = [status |-> status, sig |-> sig, msg |-> msg,
                     valid |-> status = "ippStsNoErr" /\ Candidate(lmsKey, sig, msg) = lmsKey.T1]
      /\ UNCHANGED <<lmsKey, lmsSigned>>

LmsPresent ==
  /\ lmsSigned # LmsNone /\ lmsCall = LmsNone
  /\ \/ \E msg \in LmsMessages, q \in 0..(2^LmsHeight), C \in {"r1", "r2"} :
          ippsLMSVerify(Carried(lmsSigned.I, lmsSigned.sig, lmsSigned.msg, q, C, msg), msg)
     \/ \E sig \in Altered(lmsSigned.sig) : ippsLMSVerify(sig, lmsSigned.msg)

LmsRest == lmsCall # LmsNone /\ lmsKey' = LmsNone /\ lmsSigned' = LmsNone /\ lmsCall' = LmsNone

LmsNext ==
  \/ \E w \in LmsWidths : LmsSetKey("A", w)
  \/ \E I \in {"A"}, q \in 0..(2^LmsHeight - 1), msg \in LmsMessages : LmsSign(I, q, msg)
  \/ LmsPresent
  \/ LmsRest

-----------------------------------------------------------------------------
\* A verification answers "valid" exactly for the message that was signed, with the signature
\* as the signer made it: no message's digits can be reached from another's by going on along
\* the chains, no hash stands for one of another place, and the path is that of the leaf.  The
\* table has room for the checksum in every type the library knows.
LmsValidIffSigned ==
  lmsCall # LmsNone =>
    /\ lmsCall.valid <=> lmsCall.msg = lmsSigned.msg /\ lmsCall.sig = lmsSigned.sig
    /\ \A n \in {24, 32}, w \in {1, 2, 4, 8} : setLMOTSParams(n, w) = FittingParams(n, w)
=============================================================================
