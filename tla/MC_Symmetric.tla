---------------------------- MODULE MC_Symmetric ----------------------------
(***************************************************************************)
(* What is keyed by a block cipher or built on a hash function, on small   *)
(* blocks: the CMAC context, the block modes, SIV, the hash contexts,      *)
(* HMAC and the lanes of SM3.  They share no state, so each is explored    *)
(* with the others at rest.                                                *)
(***************************************************************************)
EXTENDS AES_CMAC, MC_HashStream, HMAC, SM3_mb, AES_SIV

\* CMAC: blocks of 4 bytes, updates up to 2 blocks and a byte.
MCCallLens == {-1} \cup 0..9

-----------------------------------------------------------------------------
(* The block modes: messages up to three blocks of 4 units and one, bytes  *)
(* of 2 bits in XTS, counters that wrap within a message.                  *)

VARIABLES mdJob, mdPhase, mdDst, mdMem, mdVec, mdPos, mdStatus
mdVars == <<mdJob, mdPhase, mdDst, mdMem, mdVec, mdPos, mdStatus>>

BM == INSTANCE BlockModes WITH
  BLOCK_SIZE <- 4, BYTESIZE <- 2, MAX_LEN <- 13, CTR_BITS <- 2, CTR_WORD <- 4

\* However a message is cut into calls, in place or not, its cipher text is the standard's.
CipherTextStandard == BM!CipherTextStandard

\* Decryption, cut elsewhere and with other buffers, gives the text back.
TextRecovered == BM!TextRecovered

-----------------------------------------------------------------------------
(* SIV: blocks of 2 bytes; strings that are each other's beginning,        *)
(* padding or cut.                                                         *)

MCByte(x) == {<<x>>}
MCStrings ==
  {<<>>, <<MCByte("a")>>, <<MCByte("a"), MCByte("0x80")>>,
   <<MCByte("a"), MCByte("a"), MCByte("0x80")>>}

-----------------------------------------------------------------------------
(* HMAC with blocks of 2 bytes; a bad key length, a key of one block and   *)
(* one longer than a block.                                                *)

MCHmacMethods  == {Sha256}
MCHmacCallLens == {-1, 1}
MCHmacKeyLens  == {-1, 2, 3}

\* Of both HMAC and hash contexts.
AddrSymmetry == Permutations(HmacAddrs \cup StreamAddrs)

-----------------------------------------------------------------------------
(* One hash context of the interface that limits the length, with words so *)
(* short that messages pass their carry and the limit.                     *)

VARIABLES shortMem, shortOut
shortVars == <<shortMem, shortOut>>

SHORT_LO_MOD == 16
ShortSha256 == [Sha256 EXCEPT !.maxLo = (SHORT_LO_MOD \div 8) - 1]
ShortSha512 == [Sha512 EXCEPT !.maxLo = SHORT_LO_MOD - 1, !.maxHi = (SHORT_LO_MOD \div 8) - 1]

Short == INSTANCE HashStream WITH
  LO_MOD <- SHORT_LO_MOD, Methods <- {ShortSha256, ShortSha512}, RMF <- FALSE,
  StreamAddrs <- {"here"}, STREAM_MAX_MSG <- 40, hsMem <- shortMem, hsOut <- shortOut

\* StreamInStep for a byte count that goes over from its low to its high word; and the length
\* limit keeps a message's length in bits within the words of its length field, whatever
\* calls it was passed in.
InStepPastCarry == Short!StreamInStep /\ Short!BitLengthFits
-----------------------------------------------------------------------------
(* SM3 in the mb16 form: two lanes, blocks of 4 bytes, messages up to two  *)
(* blocks and a byte more in one call.                                     *)

MCTakings == SUBSET Lanes

-----------------------------------------------------------------------------
CmacRests   == ~idCtx /\ out = Returns("ippStsNoErr")
ModesRest   == mdPhase = "idle"
SivRests    == sivSent = Nothing
HmacRests   == hmOut = HmacReturns("ippStsNoErr") /\ \A a \in HmacAddrs : hmMem[a].idCtx = "none"
StreamRests == /\ hsOut = StreamReturns("ippStsNoErr")
               /\ \A a \in StreamAddrs : hsMem[a] = HashInit("none", Sha256)
ShortRests  == /\ shortOut = StreamReturns("ippStsNoErr")
               /\ shortMem["here"] = Short!HashInit("none", ShortSha256)
MbRests     == mbOut = Did({}, <<>>)

MCInit ==
  /\ Init /\ BM!ModesInit /\ SivInit /\ HmacInit /\ MbInit
  /\ StreamInit /\ Short!StreamInit /\ ShortRests

MCNext ==
  \/ /\ ModesRest /\ SivRests /\ HmacRests /\ StreamRests /\ ShortRests /\ MbRests
     /\ Next /\ UNCHANGED <<mdVars, sivVars, hmVars, streamVars, shortVars, mbVars>>
  \/ /\ CmacRests /\ SivRests /\ HmacRests /\ StreamRests /\ ShortRests /\ MbRests
     /\ BM!ModesNext /\ UNCHANGED <<vars, sivVars, hmVars, streamVars, shortVars, mbVars>>
  \/ /\ CmacRests /\ ModesRest /\ HmacRests /\ StreamRests /\ ShortRests /\ MbRests
     /\ SivNext /\ UNCHANGED <<vars, mdVars, hmVars, streamVars, shortVars, mbVars>>
  \/ /\ CmacRests /\ ModesRest /\ SivRests /\ StreamRests /\ ShortRests /\ MbRests
     /\ HmacNext /\ UNCHANGED <<vars, mdVars, sivVars, streamVars, shortVars, mbVars>>
  \/ /\ CmacRests /\ ModesRest /\ SivRests /\ HmacRests /\ ShortRests /\ MbRests
     /\ StreamNext /\ UNCHANGED <<vars, mdVars, sivVars, hmVars, shortVars, mbVars>>
  \/ /\ CmacRests /\ ModesRest /\ SivRests /\ HmacRests /\ StreamRests /\ MbRests
     /\ Short!StreamNext /\ UNCHANGED <<vars, mdVars, sivVars, hmVars, streamVars, mbVars>>
  \/ /\ CmacRests /\ ModesRest /\ SivRests /\ HmacRests /\ StreamRests /\ ShortRests
     /\ MbNext /\ UNCHANGED <<vars, mdVars, sivVars, hmVars, streamVars, shortVars>>

MCSpec ==
  MCInit /\ [][MCNext]_<<vars, mdVars, sivVars, hmVars, streamVars, shortVars, mbVars>>
=============================================================================
