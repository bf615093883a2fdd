------------------------------- MODULE MC_AES -------------------------------
(***************************************************************************)
(* The contexts of authenticated encryption on small blocks: AES_GCM with  *)
(* a small counter and small length fields against GCM, and AES_CCM        *)
(* against CCM.  They share no state, so each is explored with the other   *)
(* at rest.                                                                *)
(***************************************************************************)
EXTENDS AES_GCM, AES_CCM, TLC

\* GCM: a bad length, an empty call, a part of a block, a block and more than one.
MCCallLens == {-1, 0, 1, 2, 4}

AddrSymmetry == Permutations(Addrs)

\* CCM: a bad length, parts of a block of four and more than one.
MCIvs == {[id |-> "iv", ctrMod |-> 16]}
MCCcmCallLens == {-1, 1, 3, 5}

\* A bad length, none and more than a block with its length.
MCAdLens == {-1, 0, 3}

-----------------------------------------------------------------------------
GcmRests == ctx.idCtx = "none" /\ out = Returns("ippStsNoErr")
CcmRests == /\ ~ccmCtx.valid /\ ccmCtx.lenProcessed = 0 /\ ~ccmCtx.aesni
            /\ hist = NoMessage /\ ccmOut = CcmReturns("ippStsNoErr")

MCInit == Init /\ CcmInit

MCNext ==
  \/ CcmRests /\ Next /\ UNCHANGED ccmVars
  \/ GcmRests /\ CcmNext /\ UNCHANGED vars

MCSpec == MCInit /\ [][MCNext]_<<vars, ccmVars>>
=============================================================================
