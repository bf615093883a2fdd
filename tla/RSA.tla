---------------------------------- MODULE RSA ----------------------------------
(***************************************************************************)
(* RSA keys and the bare operation: Init and Set of the public key and of  *)
(* private keys of type 1 (n, d) and type 2 (p, q, dp, dq, 1/q),           *)
(* ippsRSA_Encrypt, ippsRSA_Decrypt with and without the factors, and      *)
(* ippsRSA_ValidateKeys.  The number that takes the result keeps its       *)
(* chunks from call to call, those beyond its size too.                    *)
(*                                                                         *)
(* With factors of different bit sizes Decrypt copies a short cipher text  *)
(* over its output and reads as many chunks as the factor has; and a       *)
(* product of the factors may have a chunk less than its modular engine.   *)
(* No call is left out: what holds of the others is said for those.        *)
(***************************************************************************)
EXTENDS BigNumbers, Sequences

CONSTANTS
  RsaKeys,      \* keys a caller may set: [p, q, n, e, d, dp, dq, qInv]
  SoundKeys,    \* those that are keys, and are used
  RsaTexts,     \* numbers passed to Encrypt and Decrypt
  RsaRooms,     \* rooms of the number that takes the result, in chunks
  PubSizes,     \* << bits of n, bits of e >> passed to InitPublicKey
  Prv1Sizes,    \* << bits of n, bits of d >>
  Prv2Sizes,    \* << bits of p, bits of q >>
  EXP_WINDOW    \* gsMontExp_WinSize of the exponents

VARIABLES
  rsPub, rsPrv1, rsPrv2,  \* the contexts; bitN = 0: no key is set
  rsNum,                  \* pY: room, size; number and buffer, each of room+1 chunks
  rsOut                   \* what the last call was passed and returned

rsaVars == <<rsPub, rsPrv1, rsPrv2, rsNum, rsOut>>

-----------------------------------------------------------------------------
Bits(x)  == IF x = 0 THEN 0 ELSE MOD_BITSIZE(x)
Chunks(bits) == (bits + CHUNK_BITS - 1) \div CHUNK_BITS
BN_SIZE(x)   == IF x = 0 THEN 1 ELSE Chunks(Bits(x))

ChunkOf(x, i) == (x \div 2^((i - 1) * CHUNK_BITS)) % 2^CHUNK_BITS

\* The first ns chunks of a number in memory.
Value(mem, ns) ==
  LET v[i \in 0..ns] == IF i = 0 THEN 0 ELSE v[i - 1] + mem[i] * 2^((i - 1) * CHUNK_BITS)
  IN  v[ns]

\* Store x in the first ns chunks and leave the others.
COPY_BNU(mem, x, ns) == [i \in DOMAIN mem |-> IF i <= ns THEN ChunkOf(x, i) ELSE mem[i]]

\* Lengths first: b's length may count a zero chunk on top.
cpLess_BNU(a, nsA, b, nsB) == nsA < nsB \/ (nsA = nsB /\ a < b)

Power(x, n, m) == LET f[i \in 0..n] == IF i = 0 THEN 1 % m ELSE (f[i - 1] * x) % m IN f[n]

\* Square and multiply from the bit below the exponent's top one.
gsModExpBin_BNU(x, e, m) ==
  LET top == Bits(e)
      y[i \in 0..(top - 1)] ==  \* with the bits from i on
        IF i = top - 1 THEN x % m
        ELSE LET sqr == (y[i + 1] * y[i + 1]) % m
             IN  IF (e \div 2^i) % 2 = 1 THEN (sqr * x) % m ELSE sqr
  IN  IF e = 0 THEN 1 % m ELSE IF x = 0 THEN 0 ELSE y[0]

\* The exponent's length is rounded up to whole windows of its chunks and a zero one.
WindowBits(bits) == ((bits + EXP_WINDOW - 1) \div EXP_WINDOW) * EXP_WINDOW

\* Fixed windows of the exponent's first bits from the top, a table of x^0, x^1, ...
gsModExpWin_BNU_sscm(x, exp, bits, m) ==
  LET e   == exp % 2^(Chunks(bits) * CHUNK_BITS)
      top == WindowBits(bits) \div EXP_WINDOW
      tbl == [v \in 0..(2^EXP_WINDOW - 1) |-> Power(x, v, m)]
      win(i) == (e \div 2^(i * EXP_WINDOW)) % 2^EXP_WINDOW
      y[i \in 0..(top - 1)] ==
        IF i = top - 1 THEN tbl[win(i)]
        ELSE (Power(y[i + 1], 2^EXP_WINDOW, m) * tbl[win(i)]) % m
  IN  IF e = 0 THEN 1 % m ELSE IF x = 0 THEN 0 ELSE y[0]

-----------------------------------------------------------------------------
NoNumber(room) ==
  LET zeros == [i \in 1..(room + 1) |-> 0]
  IN  [room |-> room, size |-> 1, number |-> zeros, buffer |-> zeros]

Told(fn, status) == [fn |-> fn, status |-> status]

\* cpBN_tst and the sizes of what a key is set to.
SetStatus(values, sizes) ==
  IF \E i \in DOMAIN values : values[i] <= 0 /\ \A j \in 1..(i - 1) : Bits(values[j]) <= sizes[j]
  THEN "ippStsOutOfRangeErr"
  ELSE IF \E i \in DOMAIN values : Bits(values[i]) > sizes[i] THEN "ippStsSizeErr"
  ELSE "ippStsNoErr"

NoPub(s)  == [maxN |-> s[1], maxE |-> s[2], n |-> 0, e |-> 0, bitN |-> 0]
NoPrv1(s) == [maxN |-> s[1], maxD |-> s[2], n |-> 0, d |-> 0, bitN |-> 0]
NoPrv2(s) == [bitP |-> s[1], bitQ |-> s[2], p |-> 0, q |-> 0, dp |-> 0, dq |-> 0, qInv |-> 0,
              bitN |-> 0]

RsaInit ==
  /\ \E s \in PubSizes : rsPub = NoPub(s)
  /\ \E s \in Prv1Sizes : rsPrv1 = NoPrv1(s)
  /\ \E s \in Prv2Sizes : rsPrv2 = NoPrv2(s)
  /\ \E room \in RsaRooms : rsNum = NoNumber(room)
  /\ rsOut = Told("none", "ippStsNoErr")

ippsRSA_InitPublicKey ==
  /\ \E s \in PubSizes : rsPub' = NoPub(s)
  /\ rsOut' = Told("Init", "ippStsNoErr") /\ UNCHANGED <<rsPrv1, rsPrv2, rsNum>>

ippsRSA_InitPrivateKeyType1 ==
  /\ \E s \in Prv1Sizes : rsPrv1' = NoPrv1(s)
  /\ rsOut' = Told("Init", "ippStsNoErr") /\ UNCHANGED <<rsPub, rsPrv2, rsNum>>

ippsRSA_InitPrivateKeyType2 ==
  /\ \E s \in Prv2Sizes : rsPrv2' = NoPrv2(s)
  /\ rsOut' = Told("Init", "ippStsNoErr") /\ UNCHANGED <<rsPub, rsPrv1, rsNum>>

\* Bound of the model: once the number was used, one context at a time holds a key.
OneAtATime(others) == rsNum = NoNumber(rsNum.room) \/ \A ctx \in others : ctx.bitN = 0

ippsRSA_SetPublicKey(k) ==
  LET status == SetStatus(<<k.n, k.e>>, <<rsPub.maxN, rsPub.maxE>>)
  IN  /\ OneAtATime({rsPrv1, rsPrv2})
      /\ rsPub' = IF status # "ippStsNoErr" THEN rsPub
                  ELSE [rsPub EXCEPT !.n = k.n, !.e = k.e, !.bitN = Bits(k.n)]
      /\ rsOut' = Told("Set", status) /\ UNCHANGED <<rsPrv1, rsPrv2, rsNum>>

ippsRSA_SetPrivateKeyType1(k) ==
  LET status == SetStatus(<<k.n, k.d>>, <<rsPrv1.maxN, rsPrv1.maxD>>)
  IN  /\ OneAtATime({rsPub, rsPrv2})
      /\ rsPrv1' = IF status # "ippStsNoErr" THEN rsPrv1
                   ELSE [rsPrv1 EXCEPT !.n = k.n, !.d = k.d, !.bitN = Bits(k.n)]
      /\ rsOut' = Told("Set", status) /\ UNCHANGED <<rsPub, rsPrv2, rsNum>>

\* The sizes that limit a key are those of the key before.
ippsRSA_SetPrivateKeyType2(k) ==
  LET status == SetStatus(<<k.p, k.q, k.dp, k.dq, k.qInv>>,
                          <<rsPrv2.bitP, rsPrv2.bitQ, rsPrv2.bitP, rsPrv2.bitQ, rsPrv2.bitP>>)
  IN  /\ OneAtATime({rsPub, rsPrv1})
      /\ rsPrv2' = IF status # "ippStsNoErr" THEN rsPrv2
                   ELSE [bitP |-> Bits(k.p), bitQ |-> Bits(k.q), p |-> k.p, q |-> k.q,
                         dp |-> k.dp, dq |-> k.dq, qInv |-> k.qInv, bitN |-> Bits(k.p * k.q)]
      /\ rsOut' = Told("Set", status) /\ UNCHANGED <<rsPub, rsPrv1, rsNum>>

-----------------------------------------------------------------------------
\* x for an engine with modulus n of ns chunks, in ns-chunk form, and the room of the result.
TextStatus(x, bitN, n, ns) ==
  IF bitN = 0 THEN "ippStsIncompleteContextErr"
  ELSE IF ~cpLess_BNU(x, BN_SIZE(x), n, ns) THEN "ippStsOutOfRangeErr"
  ELSE IF rsNum.room < Chunks(bitN) THEN "ippStsSizeErr"
  ELSE "ippStsNoErr"

Produced(fn, x, n) == [fn |-> fn, status |-> "ippStsNoErr", x |-> x, n |-> n]

\* y stored in ns chunks of the number; its size leaves out zeros on top.
Holding(y, ns, num) == [num EXCEPT !.number = COPY_BNU(@, y, ns), !.size = BN_SIZE(y)]

\* The value a number has for its caller.
Held(num) == Value(num.number, num.size)

ippsRSA_Encrypt(x) ==
  LET status == TextStatus(x, rsPub.bitN, rsPub.n, Chunks(rsPub.bitN))
      y      == gsModExpBin_BNU(x, rsPub.e, rsPub.n)
  IN  /\ IF status # "ippStsNoErr" THEN rsOut' = Told("Encrypt", status) /\ rsNum' = rsNum
         ELSE /\ rsNum' = Holding(y, Chunks(rsPub.bitN), rsNum)
              /\ rsOut' = Produced("Encrypt", x, rsPub.n)
      /\ UNCHANGED <<rsPub, rsPrv1, rsPrv2>>

DecryptType1(x) ==
  LET status == TextStatus(x, rsPrv1.bitN, rsPrv1.n, Chunks(rsPrv1.bitN))
      y      == gsModExpWin_BNU_sscm(x, rsPrv1.d, rsPrv1.bitN, rsPrv1.n)
  IN  /\ IF status # "ippStsNoErr" THEN rsOut' = Told("Decrypt", status) /\ rsNum' = rsNum
         ELSE /\ rsNum' = Holding(y, Chunks(rsPrv1.bitN), rsNum)
              /\ rsOut' = Produced("Decrypt", x, rsPrv1.n)
      /\ UNCHANGED <<rsPub, rsPrv1, rsPrv2>>

-----------------------------------------------------------------------------
(* Decrypt with the factors.                                               *)

\* Reduce in place the first nsX chunks of mem by m: fewer chunks than m's are left alone.
cpMod_BNU(mem, x, m) ==
  LET copied == COPY_BNU(mem, x, BN_SIZE(x))
  IN  IF BN_SIZE(x) < BN_SIZE(m) THEN copied ELSE COPY_BNU(copied, x % m, BN_SIZE(x))

\* x before it is raised: reduced in a zeroed buffer if the factors are of one size, else
\* in the number's own memory.
Residue(mem, x, m, sameSize) ==
  IF sameSize THEN COPY_BNU(mem, x % m, BN_SIZE(m)) ELSE cpMod_BNU(mem, x, m)

Raised(mem, exp, bits, m) ==
  COPY_BNU(mem, gsModExpWin_BNU_sscm(Value(mem, BN_SIZE(m)) % m, exp, bits, m), BN_SIZE(m))

\* Mutant: q's residue is not reduced by p before it is taken from p's.
Difference_Mutant(xp, xq, p) == cpModSub_BNU(xp, xq, p)

\* (xp - xq) mod p
Difference(xp, xq, p) == cpModSub_BNU(xp, xq % p, p)

\* xq + q * ((xp - xq) * qInv mod p)
Recombined(xp, xq) ==
  xq + rsPrv2.q * ((Difference(xp, xq, rsPrv2.p) * rsPrv2.qInv) % rsPrv2.p)

gsRSAprv_cipher_crt(x) ==
  LET p == rsPrv2.p  q == rsPrv2.q
      same == rsPrv2.bitP = rsPrv2.bitQ
      dataXq == Raised(Residue(rsNum.buffer, x, q, same), rsPrv2.dq, rsPrv2.bitQ, q)
      dataXp == Raised(Residue(rsNum.number, x, p, same), rsPrv2.dp, rsPrv2.bitP, p)
      y == Recombined(Value(dataXp, BN_SIZE(p)), Value(dataXq, BN_SIZE(q)))
  IN  /\ rsNum' = Holding(y, BN_SIZE(p) + BN_SIZE(q),
                          [rsNum EXCEPT !.buffer = dataXq, !.number = dataXp])
      /\ rsOut' = Produced("Decrypt", x, p * q)

\* The engine of n = p*q has room for the bits of p and of q.
EngineLen == Chunks(rsPrv2.bitP + rsPrv2.bitQ)

DecryptType2(x) ==
  LET status == TextStatus(x, rsPrv2.bitN, rsPrv2.p * rsPrv2.q, EngineLen)
  IN  /\ IF status # "ippStsNoErr" THEN rsOut' = Told("Decrypt", status) /\ rsNum' = rsNum
         ELSE gsRSAprv_cipher_crt(x)
      /\ UNCHANGED <<rsPub, rsPrv1, rsPrv2>>

-----------------------------------------------------------------------------
(* ippsRSA_ValidateKeys, with or without a key of type 1.                  *)

Divides(k, n) == n % k = 0

\* cpIsProbablyPrime, taken to be right.
RsaPrime(n) == n > 1 /\ \A k \in 2..(n - 1) : ~Divides(k, n)

RsaGcd(a, b) == CHOOSE g \in 1..a : /\ Divides(g, a) /\ Divides(g, b)
                                   /\ \A h \in (g + 1)..a : ~(Divides(h, a) /\ Divides(h, b))

\* Mutant: the least common multiple is taken to be that of two coprime numbers.
isValidPriv1_Mutant(p, q, e, d) == (e * d) % ((p - 1) * (q - 1)) = 1

\* e*d is 1 modulo (p-1)(q-1), or modulo their least common multiple.
isValidPriv1(p, q, e, d) ==
  LET phi == (p - 1) * (q - 1)
  IN  (e * d) % phi = 1 \/ (e * d) % (phi \div RsaGcd(p - 1, q - 1)) = 1

\* A factor is prime, and its exponent undoes e.
FactorTests(e, r, dr) ==
  << <<RsaPrime(r), "composite">>, <<RsaGcd(r - 1, e) = 1, "invalid">>,
     <<(dr * e) % (r - 1) = 1, "invalid">> >>

\* The tests in their order, each with the verdict it ends with if it fails.
KeyTests(withType1) ==
  LET e == rsPub.e  n == rsPub.n  p == rsPrv2.p  q == rsPrv2.q
  IN  << <<e % 2 = 1 /\ e >= 3 /\ e < n, "invalid">>,
         <<p * q = n /\ EngineLen = Chunks(rsPub.bitN), "invalid">>,
         <<withType1 => rsPrv1.n = n, "invalid">> >>
      \o FactorTests(e, p, rsPrv2.dp) \o FactorTests(e, q, rsPrv2.dq)
      \o << <<(rsPrv2.qInv * q) % p = 1, "invalid">>,
            <<withType1 => isValidPriv1(p, q, e, rsPrv1.d), "invalid">> >>

Verdict(tests) ==
  IF \A i \in DOMAIN tests : tests[i][1] THEN "valid"
  ELSE LET i == CHOOSE j \in DOMAIN tests : ~tests[j][1] /\ \A k \in 1..(j - 1) : tests[k][1]
       IN  tests[i][2]

ippsRSA_ValidateKeys(withType1) ==
  /\ rsPub.bitN > 0 /\ rsPrv2.bitN > 0 /\ (withType1 => rsPrv1.bitN > 0)
  /\ rsOut' = [fn |-> "Validate", status |-> "ippStsNoErr", withType1 |-> withType1,
               result |-> Verdict(KeyTests(withType1))]
  /\ UNCHANGED <<rsPub, rsPrv1, rsPrv2, rsNum>>

-----------------------------------------------------------------------------
\* Bound of the model: only keys that are keys are used, and only on their own.
Alone(others) == \A other \in others : other.bitN = 0

SoundPub  == \E k \in SoundKeys : k.n = rsPub.n /\ k.e = rsPub.e
SoundPrv1 == \E k \in SoundKeys : k.n = rsPrv1.n /\ k.d = rsPrv1.d
SoundPrv2 == \E k \in SoundKeys : k.p = rsPrv2.p /\ k.q = rsPrv2.q /\ k.dp = rsPrv2.dp
                                  /\ k.dq = rsPrv2.dq /\ k.qInv = rsPrv2.qInv

RsaNext ==
  \/ ippsRSA_InitPublicKey \/ ippsRSA_InitPrivateKeyType1 \/ ippsRSA_InitPrivateKeyType2
  \/ \E k \in RsaKeys : \/ ippsRSA_SetPublicKey(k)
                        \/ ippsRSA_SetPrivateKeyType1(k)
                        \/ ippsRSA_SetPrivateKeyType2(k)
  \/ \E x \in RsaTexts :
       \/ Alone({rsPrv1, rsPrv2}) /\ (rsPub.bitN = 0 \/ SoundPub) /\ ippsRSA_Encrypt(x)
       \/ Alone({rsPub, rsPrv2}) /\ (rsPrv1.bitN = 0 \/ SoundPrv1) /\ DecryptType1(x)
       \/ Alone({rsPub, rsPrv1}) /\ (rsPrv2.bitN = 0 \/ SoundPrv2) /\ DecryptType2(x)
  \/ \E withType1 \in BOOLEAN : ippsRSA_ValidateKeys(withType1)

RsaSpec == RsaInit /\ [][RsaNext]_rsaVars

-----------------------------------------------------------------------------
\* A number at or above n is refused (pcprsa_decrypt.c: "pCtxt >= modulus").  For every other,
\* what Encrypt returns is below n and raised to a private exponent of that n gives the number,
\* what Decrypt returns raised to the public exponent does, whatever earlier calls left in the
\* number's memory and whichever way the private key is held; and no chunk was stored beyond
\* that memory.
RsaRecovered ==
  rsOut.status = "ippStsNoErr" /\ rsOut.fn \in {"Encrypt", "Decrypt"} =>
    /\ rsPrv2.bitN > 0 => BN_SIZE(rsPrv2.p) + BN_SIZE(rsPrv2.q) <= rsNum.room + 1
    /\ \E k \in SoundKeys :
         /\ k.n = rsOut.n /\ Held(rsNum) < k.n
         /\ Power(Held(rsNum), IF rsOut.fn = "Encrypt" THEN k.d ELSE k.e, k.n) = rsOut.x

\* A text of type-2 Decrypt below n and, if the factors are of two bit sizes, as long as each:
\* then it overwrites every chunk that is read.
WellSized(x) ==
  /\ x < rsPrv2.p * rsPrv2.q
  /\ rsPrv2.bitP # rsPrv2.bitQ =>
       BN_SIZE(x) >= BN_SIZE(rsPrv2.p) /\ BN_SIZE(x) >= BN_SIZE(rsPrv2.q)

\* RsaRecovered of Encrypt, of Decrypt with a type-1 key, and of Decrypt with the factors if
\* the text is well sized, also after calls whose texts were not.
WellSizedRecovered ==
  (rsOut.status = "ippStsNoErr" /\ rsOut.fn = "Decrypt" /\ rsPrv2.bitN > 0 => WellSized(rsOut.x))
    => RsaRecovered

\* ValidateKeys answers "valid" exactly for keys that belong together: each private key
\* undoes the public one for every number, and the factors put every number together.  For
\* factors whose bit sizes add up to as many chunks as their product has.
KeysMatch(withType1) ==
  LET e == rsPub.e  n == rsPub.n  p == rsPrv2.p  q == rsPrv2.q
      Undoes(d, m) == \A x \in 0..(m - 1) : Power(Power(x, e, m), d, m) = x
  IN  /\ e % 2 = 1 /\ e >= 3 /\ e < n
      /\ n = p * q /\ RsaPrime(p) /\ RsaPrime(q)
      /\ Undoes(rsPrv2.dp, p) /\ Undoes(rsPrv2.dq, q)
      /\ \A y \in 0..(n - 1) : Recombined(y % p, y % q) = y
      /\ withType1 => rsPrv1.n = n /\ Undoes(rsPrv1.d, n)

KeysJudged ==
  rsOut.fn = "Validate" /\ EngineLen = Chunks(rsPrv2.bitN) =>
    /\ rsOut.result = "valid" <=> KeysMatch(rsOut.withType1)
    /\ rsOut.result = "composite" => ~(RsaPrime(rsPrv2.p) /\ RsaPrime(rsPrv2.q))
=============================================================================
