---------------------------- MODULE ScratchPools ----------------------------
(***************************************************************************)
(* The scratch pools of field and curve contexts along the calls of the    *)
(* library.  A pool is an array with an index of what is used; functions   *)
(* take from its top and must give back what they took, in nested calls    *)
(* and on every way out, since nothing resets the index: what one call     *)
(* loses is lost to the context for good, and the pool of points has no    *)
(* check of its size at all.                                               *)
(***************************************************************************)
EXTENDS CurveScratch

CONSTANTS
  DEGREES,            \* degrees of extensions
  CURVE_LEVELS,       \* levels of the fields of curves
  CURVE_DEGREES       \* degrees of these fields, where they are extensions

VARIABLES
  used,               \* what is used of each pool
  stack               \* calls under way, the innermost first

vars == <<degree, used, stack>>

(* A call: what it has still to do, and what was used when it began.       *)
Frame(path) == [todo |-> path, base |-> used]

-----------------------------------------------------------------------------
(* Functions that others call.                                             *)
Inner(f, l) ==
  CASE f = "mul"            -> Mul(l)
    [] f = "Fq2Mul_xi"      -> Fq2Mul_xi(l)
    [] f = "Fq6Mul_vi"      -> Fq6Mul_vi(l)
    [] f = "inv"            -> Inv(l)
    [] f = "inv_order"      -> mont_inv(Order)
    [] f = "PolyDiv"        -> gfpxPolyDiv(l)
    [] f = "GeneratorDiv"   -> gfpxGeneratorDiv(l)
    [] f = "GFpExp"         -> cpMontExpBin
    [] f = "GFpxExp"        -> cpGFpxExp(l)
    [] f = "GFpxMultiExp"   -> cpGFpxMultiExp(l)
    [] f = "PrecomputeMultiExp" -> cpPrecomputeMultiExp(l)
    [] f = "Sqrt"           -> cpGFpSqrt
    [] f = "Rand"           -> cpGFpRand
    [] f \in {"Get", "Set"} -> OneElement(0)
    [] f = "point_double"   -> point_double(l)
    [] f = "point_add"      -> point_add(l)
    [] f = "affine_add"     -> affine_point_add(l)
    [] f = "setupTable"     -> setupTable(l)
    [] f = "point_mul"      -> point_mul(l)
    [] f = "point_prod"     -> point_prod(l)
    [] f = "base_point_mul" -> base_point_mul(l)
    [] f = "MulPoint"       -> gfec_MulPoint(l)
    [] f = "MulBasePoint"   -> gfec_MulBasePoint(l)
    [] f = "BasePointProduct" -> gfec_BasePointProduct(l)
    [] f = "GetPoint"       -> gfec_GetPoint(l)
    [] f = "ComparePoint"   -> gfec_ComparePoint(l)
    [] f = "IsPointOnCurve" -> gfec_IsPointOnCurve(l)
    [] f = "SetPoint"       -> gfec_SetPoint(l)
    [] f = "MakePoint"      -> gfec_MakePoint
    [] f = "CheckPrivateKey" -> gfec_CheckPrivateKey(l)
    [] f = "PublicKey"      -> ippsGFpECPublicKey(l)
    [] f = "ECMulPoint"     -> ippsGFpECMulPoint(l)

(* Functions that users call: of a field, of a curve over any field, of a  *)
(* curve over GF(p).                                                       *)
FieldAPI(l) == UNION {Mul(l), Inv(l), cpGFpxExp(l), ippsGFpMultiExp(l), OneElement(l), CmpElement(l)}
PrimeFieldAPI == UNION {cpGFpSqrt, cpGFEqnr, cpGFpRand}
CurveAPI(l) ==
  UNION {ippsGFpECVerify(l), ippsGFpECAddPoint(l), ippsGFpECMulPoint(l),
         ippsGFpECTstPointInSubgroup(l), gfec_GetPoint(l), gfec_SetPoint(l), gfec_ComparePoint(l),
         gfec_IsPointOnCurve(l), GetPointOctString(l), GetPointRegular(l), SetPointOctString(l),
         SetPointRandom(l), ippsGFpECPublicKey(l), ippsGFpECTstKeyPair(l),
         ippsGFpECSharedSecretDH(l), ippsGFpECSharedSecretDHC(l)}
PrimeCurveAPI ==
  UNION {cpGFpECSetStd, BindGxyTbl, gfec_MakePoint, SetPointHash, ippsGFpECSignDSA,
         ippsGFpECSignNR, ippsGFpECSignSM2, ippsGFpECVerifyDSA, ippsGFpECVerifyNR,
         ippsGFpECVerifySM2, ippsGFpECESSetKey, ippsGFpECEncryptSM2_Ext, ippsGFpECDecryptSM2_Ext,
         KeyExchange_SharedKey, KeyExchange_Confirm, UserIDHash}

-----------------------------------------------------------------------------
Init ==
  /\ used = [p \in Pools |-> 0]
  /\ stack = <<>>
  /\ degree \in [1..MAX_LEVEL -> DEGREES]

(* A user calls; one thread uses a context at a time.                      *)
Enter(paths) ==
  /\ stack = <<>>
  /\ \E path \in paths : stack' = <<Frame(path)>>
  /\ UNCHANGED <<degree, used>>

(* The next thing the innermost call does.                                 *)
Doing(op) == /\ stack # <<>>
             /\ Head(stack).todo # <<>>
             /\ Head(Head(stack).todo).op = op
Now  == Head(Head(stack).todo)
Rest == [Head(stack) EXCEPT !.todo = Tail(@)]
Done == stack' = <<Rest>> \o Tail(stack)

Fits(p, n) == used[p] + n <= Capacity(p)

(* gsModPoolAlloc moves the index if there is room and answers NULL if     *)
(* not; cpEcGFpGetPool moves it in any case.                               *)
PoolAlloc ==
  /\ Doing("get")
  /\ Done
  /\ used' = IF Now.pool = Points \/ Fits(Now.pool, Now.n)
             THEN [used EXCEPT ![Now.pool] = @ + Now.n] ELSE used
  /\ UNCHANGED degree

(* gsModPoolFree takes at most what is used.                               *)
PoolFree ==
  /\ Doing("put")
  /\ Done
  /\ used' = [used EXCEPT ![Now.pool] = IF Now.n > @ THEN 0 ELSE @ - Now.n]
  /\ UNCHANGED degree

Work ==
  /\ stack # <<>> /\ Head(stack).todo # <<>>
  /\ Now.op \in {"use", "above"}
  /\ Done
  /\ UNCHANGED <<degree, used>>

Invoke ==
  /\ Doing("call")
  /\ \E path \in Inner(Now.fn, Now.level) :
       stack' = <<Frame(path), Rest>> \o Tail(stack)
  /\ UNCHANGED <<degree, used>>

Return ==
  /\ stack # <<>>
  /\ Head(stack).todo = <<>>
  /\ stack' = Tail(stack)
  /\ UNCHANGED <<degree, used>>

Next ==
  \/ \E l \in Levels : Enter(FieldAPI(l))
  \/ Enter(PrimeFieldAPI)
  \/ \E l \in CURVE_LEVELS :
       /\ l > 0 => degree[l] \in CURVE_DEGREES
       /\ Enter(CurveAPI(l))
  \/ Enter(PrimeCurveAPI)
  \/ PoolAlloc \/ PoolFree \/ Work \/ Invoke \/ Return

Spec == Init /\ [][Next]_vars

-----------------------------------------------------------------------------
(* Properties.                                                             *)

Instr == stack # <<>> /\ Head(stack).todo # <<>>

(* No allocation is ever answered NULL and no point is put beyond the pool *)
(* of points, whatever the nesting of calls: the code looks at neither     *)
(* (gsmodstuff.h, gsModPoolAlloc; pcpgfpecstuff.h, cpEcGFpGetPool).        *)
WithinPools == Instr /\ Now.op \in {"get", "above"} => Fits(Now.pool, Now.n)

(* Every call, nested or not, gives back exactly what it took, on every    *)
(* way out, the early ones included.                                       *)
CallsBalance == stack # <<>> /\ Head(stack).todo = <<>> => used = Head(stack).base

(* A function uses only memory it has allocated and not yet given back,    *)
(* and never takes away what a caller holds.                               *)
HeldWhenUsed ==
  /\ \A i \in DOMAIN stack : \A p \in Pools : used[p] >= stack[i].base[p]
  /\ Instr /\ Now.op = "use" => used[Now.pool] - Head(stack).base[Now.pool] >= Now.n
=============================================================================
