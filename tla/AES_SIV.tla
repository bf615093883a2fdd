------------------------------- MODULE AES_SIV -------------------------------
(***************************************************************************)
(* AES-SIV: ippsAES_SIVEncrypt, ippsAES_SIVDecrypt and ippsAES_S2V_CMAC.   *)
(* CMAC is symbolic: the tag of a message is known by the message.  A byte *)
(* of a tag that was doubled k times in GF(2^128) is an atom of its own.   *)
(*                                                                         *)
(* A sender encrypts under a list of associated strings; a receiver is     *)
(* handed a list, a text and a vector, which need not be those that were   *)
(* sent, and works in place or not.                                        *)
(***************************************************************************)
EXTENDS Blocks

CONSTANTS
  SIV_BLOCK,   \* MBS_RIJ128
  MASKED,      \* bytes of the vector of which vmask clears the top bit
  SivStrings,  \* strings a caller passes: sequences of bytes
  SivKeyLens,  \* int key lengths a caller passes; all but 17 are those of AES
  MAX_AD       \* bound of the model: strings of a list

\* What a caller passes holds no byte of a tag; TLC can tell this of any set of strings.
ASSUME SivAssumption ==
  /\ SIV_BLOCK \in Nat \ {0} /\ MAX_AD \in Nat
  /\ \A s \in SivStrings :
       /\ s \in Seq({s[i] : i \in DOMAIN s})
       /\ \A i \in DOMAIN s : \A a \in s[i] : a[1] # "mac"

VARIABLES
  sivSent, \* what the sender has encrypted: list, text, vector and cipher text
  sivGot,  \* what the receiver's call was given and answered
  sivV     \* what S2V was given and answered

sivVars == <<sivSent, sivGot, sivV>>

-----------------------------------------------------------------------------
cpAES_CMAC(m) == [j \in 1..SIV_BLOCK |-> {<<"mac", m, 0, j>>}]

\* Each byte of a vector is a sum of bytes of tags; doubling is linear.
double16(v) == [j \in 1..SIV_BLOCK |-> {<<a[1], a[2], a[3] + 1, a[4]>> : a \in v[j]}]

cpAES_S2V_init == cpAES_CMAC(ZeroBlock(SIV_BLOCK))

cpAES_S2V_update(v, s) == XorBlock(cpAES_CMAC(s), double16(v), 0)

\* Mutant: a short string is padded but the vector not doubled for it.
cpAES_S2V_final_Mutant(v, s) ==
  LET off == Len(s) - SIV_BLOCK
  IN  IF off >= 0 THEN cpAES_CMAC(XorBlock(v, s, off))
      ELSE cpAES_CMAC(XorBlock(s \o <<{<<"0x80">>}>>, v, 0))

\* A string of a block at least takes the vector in its end, a shorter one is padded.
cpAES_S2V_final(v, s) ==
  LET off == Len(s) - SIV_BLOCK
  IN  IF off >= 0 THEN cpAES_CMAC(XorBlock(v, s, off))
      ELSE cpAES_CMAC(XorBlock(s \o <<{<<"0x80">>}>>, double16(v), 0))

\* The vector after each of the strings of ads, and after none.
Vectors(ads) ==
  LET v[i \in 0..Len(ads)] ==
        IF i = 0 THEN cpAES_S2V_init ELSE cpAES_S2V_update(v[i - 1], ads[i])
  IN  v

\* All strings of ads, then the last.
S2V(ads, last) == cpAES_S2V_final(Vectors(ads)[Len(ads)], last)

\* ippsAES_S2V_CMAC takes the list's own last string for the last, and a block with value 1
\* where there is none.
ippsAES_S2V_CMAC(list) ==
  IF list = <<>> THEN cpAES_CMAC([ZeroBlock(SIV_BLOCK) EXCEPT ![SIV_BLOCK] = {<<"0x01">>}])
  ELSE S2V(SubSeq(list, 1, Len(list) - 1), list[Len(list)])

\* The atom "0x80" is the top bit of a byte; of the others it is not told apart.
Masked(siv) ==
  [j \in 1..SIV_BLOCK |->
     IF j \in MASKED THEN {<<"low", a>> : a \in siv[j] \ {<<"0x80">>}} ELSE siv[j]]

\* CTR from the masked vector on.
CTR(siv, s) ==
  [i \in 1..Len(s) |->
     Xor(s[i], {<<"ks", Masked(siv), (i - 1) \div SIV_BLOCK, (i - 1) % SIV_BLOCK>>})]

\* Mutant: the vector is computed from what the receiver was handed.
Recomputed_Mutant(ads, src, dst) == S2V(ads, src)

\* What the receiver compares the vector with; dst is what has been decrypted.
Recomputed(ads, src, dst) == S2V(ads, dst)

-----------------------------------------------------------------------------
Nothing == [status |-> "none"]

SivInit == sivSent = Nothing /\ sivGot = Nothing /\ sivV = Nothing

Lists(n) == UNION {[1..k -> SivStrings] : k \in 0..n}

\* Status of a call of either function.
SivStatus(keyLen, len) ==
  IF len <= 0 \/ keyLen = 17 THEN "ippStsLengthErr" ELSE "ippStsNoErr"

ippsAES_SIVEncrypt(keyLen, ads, src) ==
  /\ sivSent = Nothing
  /\ sivSent' = IF SivStatus(keyLen, Len(src)) # "ippStsNoErr"
                THEN [status |-> "ippStsLengthErr"]
                ELSE LET siv == S2V(ads, src)
                     IN  [status |-> "ippStsNoErr", ads |-> ads, text |-> src, siv |-> siv,
                          cipher |-> CTR(siv, src)]
  /\ UNCHANGED <<sivGot, sivV>>

\* The text is stored whatever the comparison says.
ippsAES_SIVDecrypt(keyLen, ads, src, siv) ==
  /\ sivSent # Nothing /\ sivGot = Nothing /\ sivV = Nothing
  /\ sivGot' = IF SivStatus(keyLen, Len(src)) # "ippStsNoErr"
               THEN [status |-> "ippStsLengthErr"]
               ELSE LET dst == CTR(siv, src)
                    IN  [status |-> "ippStsNoErr", ads |-> ads, cipher |-> src, siv |-> siv,
                         text |-> dst, authPassed |-> siv = Recomputed(ads, src, dst)]
  /\ UNCHANGED <<sivSent, sivV>>

\* A refused key length leaves the caller's vector alone.
S2VCall(keyLen, list) ==
  /\ sivSent # Nothing /\ sivGot = Nothing /\ sivV = Nothing
  /\ sivV' = IF keyLen = 17 THEN [status |-> "ippStsLengthErr"]
             ELSE [status |-> "ippStsNoErr", list |-> list, v |-> ippsAES_S2V_CMAC(list)]
  /\ UNCHANGED <<sivSent, sivGot>>

\* Vectors a receiver may be handed: the one sent, or it with a bit changed, the top bit of
\* a masked byte or another.
Handed(siv) ==
  {siv} \union {[siv EXCEPT ![j] = Xor(@, {<<b>>})] : j \in {1, SIV_BLOCK}, b \in {"0x80", "0x01"}}

SivRest == sivSent # Nothing /\ sivSent' = Nothing /\ sivGot' = Nothing /\ sivV' = Nothing

SivNext ==
  \/ \E keyLen \in SivKeyLens, ads \in Lists(MAX_AD), src \in SivStrings :
       ippsAES_SIVEncrypt(keyLen, ads, src)
  \/ /\ sivSent.status = "ippStsNoErr"
     /\ \/ \E keyLen \in SivKeyLens, ads \in Lists(MAX_AD), text \in SivStrings,
              siv \in Handed(sivSent.siv) :
             ippsAES_SIVDecrypt(keyLen, ads, CTR(sivSent.siv, text), siv)
        \/ \E keyLen \in SivKeyLens, list \in Lists(MAX_AD + 1) : S2VCall(keyLen, list)
  \/ SivRest

SivSpec == SivInit /\ [][SivNext]_sivVars

-----------------------------------------------------------------------------
\* A decryption passes exactly if list, cipher text and the whole vector are those that were
\* sent, the bits included that the counter mode does not look at, and gives the text then.
PassedIffSent ==
  sivGot.status = "ippStsNoErr" =>
    /\ sivGot.authPassed <=> /\ sivGot.ads = sivSent.ads /\ sivGot.siv = sivSent.siv
                             /\ sivGot.cipher = sivSent.cipher
    /\ sivGot.authPassed => sivGot.text = sivSent.text

\* S2V answers the vector of a message exactly for the strings it was encrypted with, the
\* text the last of them: no other list, however cut or padded, has the same.
VectorBinds ==
  sivV.status = "ippStsNoErr" =>
    (sivV.v = sivSent.siv <=> sivV.list = Append(sivSent.ads, sivSent.text))

\* S2V tells lists of strings apart; decryption passes exactly for what was sent.
SivBinds == PassedIffSent /\ VectorBinds
=============================================================================
