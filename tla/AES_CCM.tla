------------------------------- MODULE AES_CCM -------------------------------
(***************************************************************************)
(* The CCM context of ippsAES_CCM... and, with aesni = FALSE, of           *)
(* ippsSMS4_CCM...: Init, MessageLen, TagLen, Start, Encrypt, Decrypt and  *)
(* GetTag, in any order the caller likes.                                  *)
(*                                                                         *)
(* Encrypt and Decrypt do not do what they promise when a call has more    *)
(* bytes than complete the pending block, and on AES-NI they do not count  *)
(* whole blocks.  CALLER_FITS restricts the caller to the calls that avoid *)
(* both.                                                                   *)
(***************************************************************************)
EXTENDS CounterBlocks

CONSTANTS
  Ivs,          \* the IVs: [id, ctrMod], ctrMod = 2^(8*qLen)
  CcmCallLens,  \* the int lengths passed to Encrypt and Decrypt
  MsgLens,      \* the lengths passed to MessageLen
  TagLens,      \* the int lengths passed to TagLen and GetTag
  AdLens,       \* the int lengths of associated data
  MIN_TAG,      \* 4
  CALLER_FITS,  \* whether callers avoid the calls above
  MAX_CTR,      \* bound of the model: counter values
  MAX_STARTS    \* bound of the model: messages started; text before Start only before the first

ASSUME CcmAssumption ==
  /\ MBS \in Nat \ {0, 1} /\ AD_HDR \in 1..(MBS - 1)
  /\ MIN_TAG \in 1..MBS /\ MIN_TAG % 2 = 0 /\ MAX_CTR \in Nat /\ MAX_STARTS \in Nat
  /\ CcmCallLens \subseteq Int /\ TagLens \subseteq Int /\ AdLens \subseteq Int
  /\ MsgLens \subseteq Nat /\ CALLER_FITS \in BOOLEAN
  \* A message length that its IV leaves room for in B0; Start does not check it.
  /\ \A iv \in Ivs : iv.ctrMod \in Nat /\ \A n \in MsgLens : n < iv.ctrMod

VARIABLES
  ccmCtx,  \* the context: valid, msgLen, lenProcessed, tagLen, counterVal, iv (of ctr0), s0,
           \* si, blk, mac, aesni
  hist,    \* what was passed since Start: started, decrypt, adLen, hdrMsgLen,
           \* hdrTagLen, text; and starts, how often Start was called
  ccmOut   \* what the last call returned: status, dst

ccmVars == <<ccmCtx, hist, ccmOut>>

CcmReturns(status) == [ret |-> status, dst |-> <<>>]
Wrote(dst) == [ret |-> "ippStsNoErr", dst |-> dst]

NoMessage == [started |-> FALSE, starts |-> 0, decrypt |-> FALSE, adLen |-> 0, hdrMsgLen |-> 0,
              hdrTagLen |-> 0, text |-> <<>>]

\* The caller's memory: only lenProcessed is of interest before Start sets it.
CcmInit ==
  /\ \E aesni \in BOOLEAN, junk \in {0, 1}, iv \in Ivs :
       ccmCtx = [valid |-> FALSE, msgLen |-> 0, lenProcessed |-> junk, tagLen |-> MIN_TAG,
                 counterVal |-> 0, iv |-> iv, s0 |-> ZeroBlock(MBS), si |-> ZeroBlock(MBS),
                 blk |-> ZeroBlock(MBS), mac |-> ZeroBlock(MBS), aesni |-> aesni]
  /\ hist = NoMessage
  /\ ccmOut = CcmReturns("ippStsNoErr")

-----------------------------------------------------------------------------
\* The message and tag lengths get defaults; the rest is left to Start.
CCMInit ==
  /\ ccmCtx' = [ccmCtx EXCEPT !.valid = TRUE, !.msgLen = 0, !.tagLen = MIN_TAG]
  /\ hist' = [hist EXCEPT !.started = FALSE, !.text = <<>>]
  /\ ccmOut' = CcmReturns("ippStsNoErr")

CCMMessageLen(msgLen) ==
  /\ IF ccmCtx.valid
     THEN ccmCtx' = [ccmCtx EXCEPT !.msgLen = msgLen] /\ ccmOut' = CcmReturns("ippStsNoErr")
     ELSE ccmOut' = CcmReturns("ippStsContextMatchErr") /\ UNCHANGED ccmCtx
  /\ UNCHANGED hist

TagLenOk(tagLen) == tagLen \in MIN_TAG..MBS /\ tagLen % 2 = 0

CCMTagLen(tagLen) ==
  /\ IF ccmCtx.valid /\ TagLenOk(tagLen)
     THEN ccmCtx' = [ccmCtx EXCEPT !.tagLen = tagLen] /\ ccmOut' = CcmReturns("ippStsNoErr")
     ELSE /\ ccmOut' = CcmReturns(IF ccmCtx.valid THEN "ippStsLengthErr" ELSE "ippStsContextMatchErr")
          /\ UNCHANGED ccmCtx
  /\ UNCHANGED hist

\* Mutant: the rest of the associated data is not padded into a block of its own.
AdMac_Mutant(mac, ad) ==
  LET first == CopyBlock(AdLenEnc(Len(ad)) \o ad, ZeroBlock(MBS), 0)
      rest  == SubSeq(ad, MBS - AD_HDR + 1, Len(ad))
      whole == SubSeq(rest, 1, Len(rest) - (Len(rest) % MBS))
  IN  IF ad = <<>> THEN mac ELSE CbcMac(mac, <<first>> \o ZeroPadded(whole, MBS))

\* The MAC after the associated data: a first block behind the length, then the rest.
AdMac(mac, ad) ==
  LET first == CopyBlock(AdLenEnc(Len(ad)) \o ad, ZeroBlock(MBS), 0)
      rest  == SubSeq(ad, MBS - AD_HDR + 1, Len(ad))
  IN  IF ad = <<>> THEN mac ELSE CbcMac(mac, <<first>> \o ZeroPadded(rest, MBS))

\* decrypt says which of Encrypt and Decrypt the caller will use for this message.
CCMStart(iv, adLen, decrypt) ==
  /\ hist.starts < MAX_STARTS
  /\ IF ccmCtx.valid /\ adLen >= 0
     THEN /\ ccmCtx' = [ccmCtx EXCEPT
                         !.lenProcessed = 0, !.counterVal = 0, !.iv = iv, !.s0 = Cipher(Ctr(iv, 0)),
                         !.mac = AdMac(Cipher(B0(adLen, ccmCtx.tagLen, ccmCtx.msgLen, iv)),
                                       Data("ad", 0, adLen))]
          /\ hist' = [started |-> TRUE, starts |-> hist.starts + 1, decrypt |-> decrypt,
                      adLen |-> adLen, hdrMsgLen |-> ccmCtx.msgLen, hdrTagLen |-> ccmCtx.tagLen,
                      text |-> <<>>]
          /\ ccmOut' = CcmReturns("ippStsNoErr")
     ELSE /\ ccmOut' = CcmReturns(IF ccmCtx.valid THEN "ippStsLengthErr" ELSE "ippStsContextMatchErr")
          /\ UNCHANGED <<ccmCtx, hist>>

-----------------------------------------------------------------------------
flag(c) == c.lenProcessed % MBS

CryptStatus(c, len) ==
  IF ~c.valid                                            THEN "ippStsContextMatchErr"
  ELSE IF len < 0 \/ c.lenProcessed + len > c.msgLen     THEN "ippStsLengthErr"
  ELSE "ippStsNoErr"

\* Mutant: the counter is not advanced for the last partial block.
BlocksUsed_Mutant(k, rest) == k

\* Counter blocks used for k whole blocks and a rest.
BlocksUsed(k, rest) == k + (IF rest > 0 THEN 1 ELSE 0)

\* The key-stream bytes for the bytes that go to the pending block.  Those past
\* the end of the local S are whatever lies on the stack.
PendingStream(c, n) ==
  [j \in 1..n |-> IF flag(c) + j <= MBS THEN c.si[flag(c) + j] ELSE {<<"stack", flag(c) + j>>}]

\* len bytes src: up to MBS-1 of them with the pending block, whole
\* blocks, the rest.  The MAC is over the plain text in both directions.
Process(c, decrypt, src) ==
  LET len    == Len(src)
      tmpLen == IF flag(c) # 0 THEN IPP_MIN(len, MBS - 1) ELSE 0
      k      == (len - tmpLen) \div MBS
      rest   == (len - tmpLen) % MBS
      head   == PendingStream(c, tmpLen)
      S(i)   == Cipher(Ctr(c.iv, c.counterVal + i))
      ks     == [j \in 1..len |->
                   IF j <= tmpLen THEN head[j]
                   ELSE S(((j - tmpLen - 1) \div MBS) + 1)[((j - tmpLen - 1) % MBS) + 1]]
      dst    == XorBlock(src, ks, 0)
      plain  == IF decrypt THEN dst ELSE src
      blk1   == CopyBlock(SubSeq(plain, 1, tmpLen), c.blk, flag(c))
      mac1   == IF flag(c) # 0 /\ flag(c) + tmpLen = MBS THEN CbcMac(c.mac, <<blk1>>) ELSE c.mac
      whole  == SubSeq(plain, tmpLen + 1, len - rest)
      used   == BlocksUsed(k, rest)
  IN  [dst |-> dst, plain |-> plain,
       ctx |-> [c EXCEPT
         !.lenProcessed = c.lenProcessed + tmpLen + rest + (IF c.aesni THEN 0 ELSE k * MBS),
         !.counterVal = c.counterVal + used,
         !.si  = IF used > 0 THEN S(used) ELSE c.si,
         !.blk = CopyBlock(SubSeq(plain, len - rest + 1, len), blk1, 0),
         !.mac = CbcMac(mac1, ZeroPadded(whole, MBS))]]

Fits(len) ==
  /\ flag(ccmCtx) # 0 => flag(ccmCtx) + len <= MBS
  /\ ccmCtx.aesni => Len(hist.text) + len <= ccmCtx.msgLen

CCMCrypt(len) ==
  LET status == CryptStatus(ccmCtx, len)
      p      == Process(ccmCtx, hist.decrypt, Data("txt", Len(hist.text), len))
  IN  /\ hist.started \/ hist.starts = 0
      /\ CALLER_FITS => Fits(len)
      /\ ccmCtx.counterVal + (len \div MBS) < MAX_CTR
      /\ IF status = "ippStsNoErr"
         THEN /\ ccmCtx' = p.ctx
              /\ hist' = IF hist.started THEN [hist EXCEPT !.text = @ \o p.plain] ELSE hist
              /\ ccmOut' = Wrote(p.dst)
         ELSE ccmOut' = CcmReturns(status) /\ UNCHANGED <<ccmCtx, hist>>

\* On a copy of the MAC, with the pending block padded.
CCMGetTag(tagLen) ==
  LET pending == CopyBlock(SubSeq(ccmCtx.blk, 1, flag(ccmCtx)), ZeroBlock(MBS), 0)
      mac     == IF flag(ccmCtx) # 0 THEN CbcMac(ccmCtx.mac, <<pending>>) ELSE ccmCtx.mac
  IN  /\ ccmOut' = IF ~ccmCtx.valid THEN CcmReturns("ippStsContextMatchErr")
                   ELSE IF tagLen \notin 1..ccmCtx.tagLen THEN CcmReturns("ippStsLengthErr")
                   ELSE Wrote(SubSeq(XorBlock(ccmCtx.s0, mac, 0), 1, tagLen))
      /\ UNCHANGED <<ccmCtx, hist>>

CcmNext ==
  \/ CCMInit
  \/ \E msgLen \in MsgLens : CCMMessageLen(msgLen)
  \/ \E tagLen \in TagLens : CCMTagLen(tagLen) \/ CCMGetTag(tagLen)
  \/ \E iv \in Ivs, adLen \in AdLens, decrypt \in BOOLEAN : CCMStart(iv, adLen, decrypt)
  \/ \E len \in CcmCallLens : CCMCrypt(len)

CcmSpec == CcmInit /\ [][CcmNext]_ccmVars

-----------------------------------------------------------------------------
(* Properties.                                                             *)

\* The fields have their C types, the tag length one that B0 can encode.
CcmTypeOK ==
  /\ ccmCtx.lenProcessed \in Nat /\ ccmCtx.msgLen \in MsgLens \union {0}
  /\ ccmCtx.counterVal \in 0..MAX_CTR
  /\ ccmCtx.tagLen \in {n \in MIN_TAG..MBS : n % 2 = 0}
  /\ \A b \in {ccmCtx.s0, ccmCtx.si, ccmCtx.blk, ccmCtx.mac} : Len(b) = MBS

\* In mid-message the counter has been advanced once for every block begun, the
\* key stream of the pending block is at hand, and the pending plain text is
\* the part of the message the MAC does not cover yet.
CcmInStep ==
  /\ CcmTypeOK
  /\ hist.started =>
       LET n == Len(hist.text)
       IN  /\ flag(ccmCtx) = n % MBS
           /\ ccmCtx.counterVal = (n + MBS - 1) \div MBS
           /\ SubSeq(ccmCtx.blk, 1, flag(ccmCtx)) = SubSeq(hist.text, n - flag(ccmCtx) + 1, n)
           /\ flag(ccmCtx) # 0 => ccmCtx.si = Cipher(Ctr(ccmCtx.iv, ccmCtx.counterVal))

\* No call adds to a message beyond its length: "ippStsLengthErr if exceed overall length
\* of message is being processed".  Stated for every caller, so for CALLER_FITS = FALSE.
WithinMessageLen ==
  [][hist.started /\ hist'.started /\ Len(hist'.text) > Len(hist.text)
       => Len(hist'.text) <= ccmCtx.msgLen]_ccmVars

Promise == INSTANCE CCM WITH
  Lens <- CcmCallLens \cap Nat, out <- ccmOut,
  obj <- [started |-> hist.started, iv |-> ccmCtx.iv, adLen |-> hist.adLen,
          hdrMsgLen |-> hist.hdrMsgLen, hdrTagLen |-> hist.hdrTagLen, text |-> hist.text,
          msgLen |-> ccmCtx.msgLen, tagLen |-> ccmCtx.tagLen]

\* Every output byte and every tag is CCM's, whatever calls the message came in.
ImplementsCCM == Promise!Spec
=============================================================================
