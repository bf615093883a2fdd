-------------------------------- MODULE CCM ---------------------------------
(***************************************************************************)
(* What a CCM context promises (RFC 3610, NIST SP 800-38C): every byte is  *)
(* encrypted with its own byte of the key stream, and the tag is the CBC   *)
(* MAC of the header block, the associated data and the text so far.  The  *)
(* message and tag lengths in the header block are those set before Start. *)
(***************************************************************************)
EXTENDS CounterBlocks

CONSTANTS
  Ivs, AdLens,  \* what Start may be given
  Lens          \* the lengths a piece of the text may have

VARIABLES
  obj,  \* [started, iv, adLen, hdrMsgLen, hdrTagLen: of this message; text; msgLen, tagLen]
  out   \* what the last call returned: status and bytes written

vars == <<obj, out>>

KeyStream(iv, first, n) ==
  [j \in 1..n |-> Cipher(Ctr(iv, ((first + j - 1) \div MBS) + 1))[((first + j - 1) % MBS) + 1]]

\* The blocks the MAC is over: B0, the associated data behind its length, the text.
MacBlocks(m) ==
  <<B0(m.adLen, m.hdrTagLen, m.hdrMsgLen, m.iv)>>
    \o (IF m.adLen = 0 THEN <<>> ELSE ZeroPadded(AdLenEnc(m.adLen) \o Data("ad", 0, m.adLen), MBS))
    \o ZeroPadded(m.text, MBS)

Tag(m, n) ==
  LET s0 == Cipher(Ctr(m.iv, 0))
      mac == CbcMac(ZeroBlock(MBS), MacBlocks(m))
  IN  [j \in 1..n |-> Xor(mac[j], s0[j])]

-----------------------------------------------------------------------------
Init == ~obj.started /\ obj.text = <<>> /\ out = [ret |-> "ippStsNoErr", dst |-> <<>>]

Done(dst) == out' = [ret |-> "ippStsNoErr", dst |-> dst]

Fail == out'.ret # "ippStsNoErr" /\ out'.dst = <<>> /\ UNCHANGED obj

\* The lengths, and the loss of the message on a new key, do not touch a text in progress.
SetLengths ==
  /\ \/ obj' = [obj EXCEPT !.msgLen = obj'.msgLen, !.tagLen = obj'.tagLen]
     \/ obj' = [obj EXCEPT !.started = FALSE, !.text = <<>>,
                           !.msgLen = obj'.msgLen, !.tagLen = obj'.tagLen]
  /\ Done(<<>>)

Start(iv, adLen) ==
  /\ obj' = [obj EXCEPT !.started = TRUE, !.iv = iv, !.adLen = adLen, !.text = <<>>,
                        !.hdrMsgLen = obj.msgLen, !.hdrTagLen = obj.tagLen]
  /\ Done(<<>>)

\* n bytes in either direction, within the message length.
Crypt(decrypt, n) ==
  LET first == Len(obj.text)
      src   == Data("txt", first, n)
      ks    == KeyStream(obj.iv, first, n)
      dst   == [j \in 1..n |-> Xor(src[j], ks[j])]
  IN  /\ obj.started
      /\ first + n <= obj.msgLen
      /\ obj' = [obj EXCEPT !.text = @ \o (IF decrypt THEN dst ELSE src)]
      /\ Done(dst)

GetTag(n) == obj.started /\ n <= obj.tagLen /\ Done(Tag(obj, n)) /\ UNCHANGED obj

\* Nothing is promised for a context no message was started on.
Unstarted == ~obj.started /\ UNCHANGED obj

Next ==
  \/ Fail \/ SetLengths \/ Unstarted
  \/ \E iv \in Ivs, adLen \in AdLens : Start(iv, adLen)
  \/ \E decrypt \in BOOLEAN, n \in Lens : Crypt(decrypt, n)
  \/ \E n \in 1..MBS : GetTag(n)

Spec == Init /\ [][Next]_vars
=============================================================================
