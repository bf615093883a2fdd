-------------------------------- MODULE HMAC --------------------------------
(***************************************************************************)
(* The HMAC context of ippsHMAC..._rmf: two padded keys and a hash context *)
(* that the HMAC functions drive through the hash functions.  The inner    *)
(* context has an id of its own; HMAC functions check the outer id and the *)
(* hash functions they call check the inner one.                           *)
(***************************************************************************)
EXTENDS HashContext

CONSTANTS
  HmacMethods,   \* the hash algorithms a caller chooses for HMAC
  HmacAddrs,     \* the addresses contexts are kept at
  HmacCallLens,  \* the int lengths a caller passes in one call
  HmacKeyLens,   \* the int key lengths
  HmacMdLens,    \* the int tag lengths asked for
  HMAC_MAX_MSG   \* bound of the model: bytes of a message

\* A length word counts more than an int or a block has bytes.
ASSUME HmacAssumption ==
  /\ HmacMethods \subseteq Methods
  /\ "none" \notin HmacAddrs /\ BUFF_SIZE < LO_MOD
  /\ HmacCallLens \cup HmacKeyLens \cup HmacMdLens \subseteq Int
  /\ \A len \in HmacCallLens \cup HmacKeyLens : len < LO_MOD
  /\ HMAC_MAX_MSG \in Nat

VARIABLES
  hmMem,  \* hmMem[a]: the HMAC context at address a: idCtx, ipadKey, opadKey, hashCtx
  hmOut   \* what the last call returned: status, tag

hmVars == <<hmMem, hmOut>>

HmacReturns(status) == [ret |-> status, md |-> <<>>]
HmacTag(md) == [ret |-> "ippStsNoErr", md |-> md]

HMAC_VALID_ID(c, a) == c.idCtx = a

\* The hash functions on the inner context of c at address a; they do nothing
\* if its id is not that of the address.
InnerUpdate(c, a, src) ==
  IF c.hashCtx.idCtx = a THEN [c EXCEPT !.hashCtx = HashUpdate(@, src)] ELSE c
InnerFinal(c, a) ==
  IF c.hashCtx.idCtx = a THEN [c EXCEPT !.hashCtx = HashRestart(@)] ELSE c
InnerDigest(c) == HashTag(c.hashCtx, c.hashCtx.method.hashLen)

Pad(key, pad, mbs) ==
  [n \in 1..BUFF_SIZE |-> IF n <= Len(key) THEN Xor(key[n], {<<pad>>})
                          ELSE IF n <= mbs THEN {<<pad>>} ELSE {}]

HmacInit ==
  /\ \E m \in HmacMethods :
       hmMem = [a \in HmacAddrs |->
                  [idCtx |-> "none", ipadKey |-> ZeroBlock(BUFF_SIZE),
                   opadKey |-> ZeroBlock(BUFF_SIZE), hashCtx |-> HashInit("none", m)]]
  /\ hmOut = HmacReturns("ippStsNoErr")

-----------------------------------------------------------------------------
\* Mutant: only a key longer than the buffer is hashed.
NewContext_Mutant(a, keyLen, m) ==
  LET src == Key(keyLen)
      h1  == HashUpdate(HashInit(a, m), src)
      h2  == [HashRestart(h1) EXCEPT !.buff = CopyBlock(HashTag(h1, m.hashLen), @, 0)]
      key == IF keyLen > m.mbs + 1 THEN SubSeq(h2.buff, 1, m.hashLen) ELSE src
      ipad == Pad(key, "ipad", m.mbs)
  IN  [idCtx |-> a, ipadKey |-> ipad, opadKey |-> Pad(key, "opad", m.mbs),
       hashCtx |-> HashUpdate(h2, SubSeq(ipad, 1, m.mbs))]

\* The key is hashed in any case, into the context's own buffer, and used if
\* it is longer than a block; then the inner pad is absorbed.
NewContext(a, keyLen, m) ==
  LET src == Key(keyLen)
      h1  == HashUpdate(HashInit(a, m), src)
      h2  == [HashRestart(h1) EXCEPT !.buff = CopyBlock(HashTag(h1, m.hashLen), @, 0)]
      key == IF keyLen > m.mbs THEN SubSeq(h2.buff, 1, m.hashLen) ELSE src
      ipad == Pad(key, "ipad", m.mbs)
  IN  [idCtx |-> a, ipadKey |-> ipad, opadKey |-> Pad(key, "opad", m.mbs),
       hashCtx |-> HashUpdate(h2, SubSeq(ipad, 1, m.mbs))]

\* Mutant: the context is not made ready for the next message.
Finish_Mutant(c, a) ==
  LET mbs == c.hashCtx.method.mbs
      c1  == InnerFinal(c, a)
      c2  == InnerUpdate(c1, a, SubSeq(c.opadKey, 1, mbs))
      c3  == InnerUpdate(c2, a, InnerDigest(c))
  IN  [ctx |-> InnerFinal(c3, a), md |-> InnerDigest(c3)]

\* The outer hash over the inner digest, then the inner pad again.
Finish(c, a) ==
  LET mbs == c.hashCtx.method.mbs
      c1  == InnerFinal(c, a)
      c2  == InnerUpdate(c1, a, SubSeq(c.opadKey, 1, mbs))
      c3  == InnerUpdate(c2, a, InnerDigest(c))
      c4  == InnerFinal(c3, a)
  IN  [ctx |-> InnerUpdate(c4, a, SubSeq(c.ipadKey, 1, mbs)), md |-> InnerDigest(c3)]

\* ippsHMACFinal_rmf on the context c at address a.
FinalStatus(c, a, mdLen) ==
  IF ~HMAC_VALID_ID(c, a)                     THEN "ippStsContextMatchErr"
  ELSE IF mdLen <= 0                          THEN "ippStsLengthErr"
  ELSE IF mdLen > c.hashCtx.method.hashLen    THEN "ippStsLengthErr"
  ELSE IF c.hashCtx.idCtx # a                 THEN "ippStsContextMatchErr"
  ELSE "ippStsNoErr"

\* Both ids of a copy.
Renamed(c, id) == [c EXCEPT !.idCtx = id, !.hashCtx.idCtx = id]

-----------------------------------------------------------------------------
HmacCreate(a, keyLen, m) ==
  IF keyLen < 0 THEN hmOut' = HmacReturns("ippStsLengthErr") /\ UNCHANGED hmMem
  ELSE /\ hmMem' = [hmMem EXCEPT ![a] = NewContext(a, keyLen, m)]
       /\ hmOut' = HmacReturns("ippStsNoErr")

\* Bytes of message absorbed: all but the inner pad.
HmacMsgLen(c) == Len(Absorbed(c.hashCtx)) - c.hashCtx.method.mbs

HmacUpdate(a, hasPtr, len) ==
  LET c == hmMem[a]
      status == IF ~HMAC_VALID_ID(c, a) THEN "ippStsContextMatchErr"
                ELSE IF len < 0 THEN "ippStsLengthErr"
                ELSE IF len # 0 /\ ~hasPtr THEN "ippStsNullPtrErr"
                ELSE IF len # 0 /\ c.hashCtx.idCtx # a THEN "ippStsContextMatchErr"
                ELSE "ippStsNoErr"
  IN  /\ HmacMsgLen(c) + len <= HMAC_MAX_MSG
      /\ hmOut' = HmacReturns(status)
      /\ IF status = "ippStsNoErr"
         THEN hmMem' = [hmMem EXCEPT ![a] = InnerUpdate(@, a, Data("in", HmacMsgLen(c), len))]
         ELSE UNCHANGED hmMem

HmacFinal(a, mdLen) ==
  LET status == FinalStatus(hmMem[a], a, mdLen)
      f == Finish(hmMem[a], a)
  IN  IF status = "ippStsNoErr"
      THEN hmMem' = [hmMem EXCEPT ![a] = f.ctx] /\ hmOut' = HmacTag(SubSeq(f.md, 1, mdLen))
      ELSE hmOut' = HmacReturns(status) /\ UNCHANGED hmMem

\* Final on a duplicate, which is thrown away.
HmacGetTag(a, mdLen) ==
  LET tmp == Renamed(hmMem[a], "tmp")
      status == FinalStatus(tmp, "tmp", mdLen)
  IN  /\ hmOut' = IF ~HMAC_VALID_ID(hmMem[a], a) THEN HmacReturns("ippStsContextMatchErr")
                ELSE IF status # "ippStsNoErr" THEN HmacReturns(status)
                ELSE HmacTag(SubSeq(Finish(tmp, "tmp").md, 1, mdLen))
      /\ UNCHANGED hmMem

HmacDuplicate(a, b) ==
  IF HMAC_VALID_ID(hmMem[a], a)
  THEN /\ hmMem' = [hmMem EXCEPT ![b] = Renamed(hmMem[a], b)]
       /\ hmOut' = HmacReturns("ippStsNoErr")
  ELSE hmOut' = HmacReturns("ippStsContextMatchErr") /\ UNCHANGED hmMem

HmacPack(a, b, bufSizeOk) ==
  IF HMAC_VALID_ID(hmMem[a], a) /\ bufSizeOk
  THEN /\ hmMem' = [hmMem EXCEPT ![b] = Renamed(hmMem[a], "packed")]
       /\ hmOut' = HmacReturns("ippStsNoErr")
  ELSE /\ hmOut' = HmacReturns(IF HMAC_VALID_ID(hmMem[a], a) THEN "ippStsNoMemErr"
                               ELSE "ippStsContextMatchErr")
       /\ UNCHANGED hmMem

HmacUnpack(a, b) ==
  /\ hmMem[a].idCtx # "none"
  /\ hmMem' = [hmMem EXCEPT ![b] = Renamed(hmMem[a], b)]
  /\ hmOut' = HmacReturns("ippStsNoErr")

\* The caller copies the bytes of a context.
HmacCopy(a, b) == hmMem' = [hmMem EXCEPT ![b] = hmMem[a]] /\ UNCHANGED hmOut

\* One-shot, on a context of its own.
HmacMessage(m, keyLen, hasPtr, len, mdLen) ==
  LET c == InnerUpdate(NewContext("tmp", keyLen, m), "tmp", Data("in", 0, len))
  IN  /\ hmOut' = IF keyLen < 0 THEN HmacReturns("ippStsLengthErr")
                ELSE IF len < 0 THEN HmacReturns("ippStsLengthErr")
                ELSE IF len # 0 /\ ~hasPtr THEN HmacReturns("ippStsNullPtrErr")
                ELSE IF mdLen \notin 1..m.hashLen THEN HmacReturns("ippStsLengthErr")
                ELSE HmacTag(SubSeq(Finish(c, "tmp").md, 1, mdLen))
      /\ UNCHANGED hmMem

HmacNext ==
  \/ \E m \in HmacMethods, keyLen \in HmacKeyLens :
       \/ \E a \in HmacAddrs : HmacCreate(a, keyLen, m)
       \/ \E hasPtr \in BOOLEAN, len \in HmacCallLens, mdLen \in HmacMdLens :
            HmacMessage(m, keyLen, hasPtr, len, mdLen)
  \/ \E a \in HmacAddrs :
       \/ \E hasPtr \in BOOLEAN, len \in HmacCallLens : HmacUpdate(a, hasPtr, len)
       \/ \E mdLen \in HmacMdLens : HmacFinal(a, mdLen) \/ HmacGetTag(a, mdLen)
  \/ \E a, b \in HmacAddrs :
       \/ HmacDuplicate(a, b) \/ HmacUnpack(a, b) \/ HmacCopy(a, b)
       \/ \E bufSizeOk \in BOOLEAN : HmacPack(a, b, bufSizeOk)

HmacSpec == HmacInit /\ [][HmacNext]_hmVars

-----------------------------------------------------------------------------
(* Properties.                                                             *)

\* A context that Update accepts has absorbed its own inner pad and then the
\* message, with the length of both: also after Final, whose last step is to
\* absorb the pad again, and after a copy, a pack and an unpack in between.  The outer
\* and the inner id never part: HMACFinal does not look at what the hash functions
\* return after the first, and Duplicate not at all.
PadAbsorbed ==
  \A a \in HmacAddrs :
    LET h == hmMem[a].hashCtx IN
    /\ h.idCtx = hmMem[a].idCtx
    /\ hmMem[a].idCtx # "none" =>
         /\ Len(Absorbed(h)) >= h.method.mbs
         /\ SubSeq(Absorbed(h), 1, h.method.mbs) = SubSeq(hmMem[a].ipadKey, 1, h.method.mbs)
         /\ h.idx = Len(Absorbed(h)) % h.method.mbs
         /\ LengthCounted(h)

\* The key as HMACMessages has it: what the inner pad was XORed into.
KeyOf(c) == [j \in 1..c.hashCtx.method.mbs |-> Xor(c.ipadKey[j], {<<"ipad">>})]

\* The message: what the inner context absorbed after the inner pad.
MsgOf(c) ==
  SubSeq(Absorbed(c.hashCtx), c.hashCtx.method.mbs + 1, Len(Absorbed(c.hashCtx)))

HmacPromise == INSTANCE HMACMessages WITH
  Methods <- HmacMethods, Addrs <- HmacAddrs, KeyLens <- HmacKeyLens,
  MAX_MSG <- HMAC_MAX_MSG, out <- hmOut,
  obj <- [a \in HmacAddrs |-> [idCtx |-> hmMem[a].idCtx, method |-> hmMem[a].hashCtx.method,
                               key |-> KeyOf(hmMem[a]), msg |-> MsgOf(hmMem[a])]]

\* Init, Update, Final, GetTag, Duplicate, Pack, Unpack and Message give the
\* HMAC FIPS 198-1 defines, of the bytes each context was passed or inherited: every
\* step of the contexts is one of the promise (TLC is spared to look at other steps).
ImplementsHMAC == HmacPromise!Init /\ [][hmVars' # hmVars => HmacPromise!Next]_hmVars
=============================================================================
