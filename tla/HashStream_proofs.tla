-------------------------- MODULE HashStream_proofs -------------------------
(***************************************************************************)
(* Proofs about hash contexts, and HMAC contexts, at any number of         *)
(* addresses, for every set of algorithms, width of the length words,      *)
(* buffer size and cut of the messages into calls.                         *)
(***************************************************************************)
EXTENDS HashStream, HMAC, HashContext_proofs, TLAPS

Ids == StreamAddrs \cup {"none", "packed"}

\* What may lie at an address: a context, maybe another address's, of a message within the bound.
Stored(c) == Context(c) /\ c.idCtx \in Ids /\ Len(Absorbed(c)) <= STREAM_MAX_MSG

IInv == hsMem = [a \in StreamAddrs |-> hsMem[a]] /\ \A a \in StreamAddrs : Stored(hsMem[a])

-----------------------------------------------------------------------------
(* The inductive invariant.                                                *)

\* What a caller passes is a sequence of bytes.
LEMMA DataBytes ==
  ASSUME NEW kind \in {"in", "msg"}, NEW first \in Nat, NEW n \in Nat
  PROVE  Data(kind, first, n) \in Seq(Byte) /\ Len(Data(kind, first, n)) = n
<1>1. kind \in Kinds
  BY DEF Kinds
<1> QED BY <1>1, KindBytes

\* An update that is not refused has a length, and a message that its address is valid for.
LEMMA UpdateAccepted ==
  ASSUME NEW a \in StreamAddrs, NEW hasPtr \in BOOLEAN, NEW len \in StreamCallLens,
         StreamUpdateStatus(a, hasPtr, len) = "ippStsNoErr"
  PROVE  len \in Nat /\ len < LO_MOD /\ VALID_ID(a)
<1>1. len \in Int /\ len < LO_MOD
  BY StreamAssumption
<1> QED BY <1>1 DEF StreamUpdateStatus

\* One address's bytes are replaced by those of a context.
LEMMA Replaced ==
  ASSUME IInv, NEW a \in StreamAddrs, NEW c, Stored(c), hsMem' = [hsMem EXCEPT ![a] = c]
  PROVE  IInv' /\ hsMem'[a] = c /\ \A b \in StreamAddrs \ {a} : hsMem'[b] = hsMem[b]
<1>1. hsMem = [b \in StreamAddrs |-> hsMem[b]] /\ \A b \in StreamAddrs : Stored(hsMem[b])
  BY DEF IInv
<1>2. DOMAIN hsMem = StreamAddrs
  BY <1>1
<1>3. DOMAIN hsMem' = StreamAddrs /\ hsMem'[a] = c /\ \A b \in StreamAddrs \ {a} : hsMem'[b] = hsMem[b]
  BY <1>2
<1>4. hsMem' = [b \in StreamAddrs |-> hsMem'[b]]
  BY <1>2
<1>5. \A b \in StreamAddrs : Stored(hsMem'[b])
  BY <1>1, <1>3
<1>6. IInv'
  BY <1>4, <1>5 DEF IInv, Stored, Ids, Context, Block, LengthCounted, Absorbed
<1> QED BY <1>3, <1>6

\* The bytes at an address are those of a context.
LEMMA Held ==
  ASSUME IInv, NEW a \in StreamAddrs
  PROVE  Stored(hsMem[a]) /\ Context(hsMem[a]) /\ hsMem[a].idCtx \in Ids
BY DEF IInv, Stored

\* A context just initialised, restarted, moved to an identifier.
LEMMA Made ==
  /\ \A id \in Ids, m \in Methods : Stored(HashInit(id, m))
  /\ \A c : Stored(c) => Stored(HashRestart(c))
  /\ \A c, id : Stored(c) /\ id \in Ids => Stored([c EXCEPT !.idCtx = id])
<1>1. Len(<<>>) <= STREAM_MAX_MSG
  BY StreamAssumption
<1>2. ASSUME NEW id \in Ids, NEW m \in Methods PROVE Stored(HashInit(id, m))
  <2>1. HashInit(id, m).idCtx = id
    BY DEF HashInit
  <2> QED BY <1>1, <2>1, InitContext DEF Stored
<1>3. ASSUME NEW c, Stored(c) PROVE Stored(HashRestart(c))
  <2>1. Context(c) /\ c.idCtx \in Ids
    BY <1>3 DEF Stored
  <2> QED BY <1>1, <2>1, RestartContext DEF Stored
<1>4. ASSUME NEW c, NEW id \in Ids, Stored(c) PROVE Stored([c EXCEPT !.idCtx = id])
  <2>1. Context(c) /\ Len(Absorbed(c)) <= STREAM_MAX_MSG
    BY <1>4 DEF Stored
  <2> QED BY <2>1, MovedContext DEF Stored
<1> QED BY <1>2, <1>3, <1>4

\* At first every address holds the bytes of a fresh context of another address.
LEMMA InitHolds == ASSUME StreamInit PROVE IInv
<1>1. PICK m \in Methods : hsMem = [a \in StreamAddrs |-> HashInit("none", m)]
  BY DEF StreamInit
<1> DEFINE c == HashInit("none", m)
<1>2. Stored(c)
  BY Made DEF Ids
<1> HIDE DEF c
<1>3. hsMem = [a \in StreamAddrs |-> c]
  BY <1>1 DEF c
<1> QED BY <1>2, <1>3 DEF IInv

\* What a successful update leaves.
LEMMA UpdateStores ==
  ASSUME IInv, NEW a \in StreamAddrs, NEW hasPtr \in BOOLEAN, NEW len \in StreamCallLens,
         StreamUpdate(a, hasPtr, len), StreamUpdateStatus(a, hasPtr, len) = "ippStsNoErr"
  PROVE  LET src == Data("in", Len(Absorbed(hsMem[a])), len)
         IN  /\ hsMem' = [hsMem EXCEPT ![a] = HashUpdate(hsMem[a], src)]
             /\ Stored(HashUpdate(hsMem[a], src))
             /\ Absorbed(HashUpdate(hsMem[a], src)) = Absorbed(hsMem[a]) \o src
             /\ HashUpdate(hsMem[a], src).idCtx = hsMem[a].idCtx
             /\ HashUpdate(hsMem[a], src).method = hsMem[a].method
             /\ src \in Seq(Byte) /\ Len(src) = len
<1> DEFINE done == Len(Absorbed(hsMem[a]))
           src  == Data("in", done, len)
<1>1. Context(hsMem[a])
  BY Held
<1>2. done \in Nat
  BY <1>1, Absorbs
<1>3. src \in Seq(Byte) /\ Len(src) = len /\ len < LO_MOD
  BY <1>2, DataBytes, UpdateAccepted
<1>4. hsMem' = [hsMem EXCEPT ![a] = HashUpdate(hsMem[a], src)]
  BY DEF StreamUpdate, IInv
<1>5. done + len <= STREAM_MAX_MSG
  BY DEF StreamUpdate
<1> DEFINE u == HashUpdate(hsMem[a], src)
<1> HIDE DEF src
<1>6. /\ Context(u) /\ Absorbed(u) = Absorbed(hsMem[a]) \o src
      /\ u.idCtx = hsMem[a].idCtx /\ u.method = hsMem[a].method
  BY <1>1, <1>3, UpdateContext
<1> HIDE DEF u
<1>7. Len(Absorbed(u)) = done + len
  BY <1>1, <1>3, <1>6, Absorbs, ConcatProperties
<1>8. Stored(u)
  BY <1>5, <1>6, <1>7, Held DEF Stored
<1> QED BY <1>3, <1>4, <1>6, <1>8 DEF src, u, done

\* No call leaves anything but contexts.
LEMMA NextHolds == ASSUME IInv, [StreamNext]_streamVars PROVE IInv'
<1>1. ASSUME UNCHANGED hsMem PROVE IInv'
  BY <1>1 DEF IInv, Stored, Ids, Context, Block, LengthCounted, Absorbed
<1>2. ASSUME NEW a \in StreamAddrs, NEW m \in Methods, Create(a, m) PROVE IInv'
  <2>1. hsMem' = [hsMem EXCEPT ![a] = HashInit(a, m)]
    BY <1>2 DEF Create
  <2>2. Stored(HashInit(a, m))
    BY Made DEF Ids
  <2> QED BY <2>1, <2>2, Replaced
<1>3. ASSUME NEW a \in StreamAddrs, NEW hasPtr \in BOOLEAN, NEW len \in StreamCallLens, StreamUpdate(a, hasPtr, len)
      PROVE  IInv'
  <2>1. CASE StreamUpdateStatus(a, hasPtr, len) = "ippStsNoErr"
    <3> DEFINE u == HashUpdate(hsMem[a], Data("in", Len(Absorbed(hsMem[a])), len))
    <3>1. hsMem' = [hsMem EXCEPT ![a] = u] /\ Stored(u)
      BY <1>3, <2>1, UpdateStores
    <3> HIDE DEF u
    <3> QED BY <3>1, Replaced
  <2>2. CASE StreamUpdateStatus(a, hasPtr, len) # "ippStsNoErr"
    BY <1>1, <1>3, <2>2 DEF StreamUpdate
  <2> QED BY <2>1, <2>2
<1>4. ASSUME NEW a \in StreamAddrs, StreamFinal(a) PROVE IInv'
  <2>1. CASE VALID_ID(a)
    <3>1. hsMem' = [hsMem EXCEPT ![a] = HashRestart(hsMem[a])]
      BY <1>4, <2>1 DEF StreamFinal, IInv
    <3>2. Stored(HashRestart(hsMem[a]))
      BY Held, Made
    <3> QED BY <3>1, <3>2, Replaced
  <2>2. CASE ~VALID_ID(a)
    BY <1>1, <1>4, <2>2 DEF StreamFinal
  <2> QED BY <2>1, <2>2
<1>5. ASSUME NEW a \in StreamAddrs, NEW b \in StreamAddrs, NEW id \in Ids,
             hsMem' = [hsMem EXCEPT ![b] = [hsMem[a] EXCEPT !.idCtx = id]]
      PROVE  IInv'
  <2>1. Stored([hsMem[a] EXCEPT !.idCtx = id])
    BY Held, Made
  <2> QED BY <1>5, <2>1, Replaced
<1>6. ASSUME NEW a \in StreamAddrs, NEW b \in StreamAddrs,
             Duplicate(a, b) \/ Unpack(a, b) \/ \E bufSizeOk \in BOOLEAN : Pack(a, b, bufSizeOk)
      PROVE  IInv'
  <2>1. \/ UNCHANGED hsMem
        \/ hsMem' = [hsMem EXCEPT ![b] = [hsMem[a] EXCEPT !.idCtx = b]]
        \/ hsMem' = [hsMem EXCEPT ![b] = [hsMem[a] EXCEPT !.idCtx = "packed"]]
    BY <1>6 DEF Duplicate, Unpack, Pack
  <2>2. b \in Ids /\ "packed" \in Ids
    BY DEF Ids
  <2> QED BY <1>1, <1>5, <2>1, <2>2
<1>7. ASSUME NEW a \in StreamAddrs, NEW b \in StreamAddrs, Copy(a, b) PROVE IInv'
  <2>1. hsMem' = [hsMem EXCEPT ![b] = hsMem[a]]
    BY <1>7 DEF Copy
  <2> QED BY <2>1, Held, Replaced
<1>8. ASSUME NEW m \in Methods, NEW hasPtr \in BOOLEAN, NEW len \in StreamCallLens, StreamMessage(m, hasPtr, len)
      PROVE  IInv'
  BY <1>1, <1>8 DEF StreamMessage
<1>9. ASSUME NEW a \in StreamAddrs, NEW tagLen \in 0..(BUFF_SIZE - 1), GetTag(a, tagLen) PROVE IInv'
  BY <1>1, <1>9 DEF GetTag
<1>10. CASE UNCHANGED streamVars
  BY <1>1, <1>10 DEF streamVars
<1>11. CASE StreamNext
  BY <1>2, <1>3, <1>4, <1>6, <1>7, <1>8, <1>9, <1>11 DEF StreamNext
<1> QED BY <1>10, <1>11

\* In every reachable state every address holds the bytes of a context.
THEOREM Invariance == StreamSpec => []IInv
<1>1. StreamInit => IInv
  BY InitHolds
<1>2. IInv /\ [StreamNext]_streamVars => IInv'
  BY NextHolds
<1> QED BY <1>1, <1>2, PTL DEF StreamSpec

-----------------------------------------------------------------------------
(* What the invariant implies.                                             *)

\* A context is typed, holds less than a block, the rest of its message, after whole blocks.
LEMMA ContextsInStep == ASSUME IInv PROVE StreamInStep
<1>1. ASSUME NEW a \in StreamAddrs
      PROVE  /\ hsMem[a].idCtx \in StreamAddrs \union {"none", "packed"} /\ hsMem[a].method \in Methods
             /\ hsMem[a].idx \in 0..BUFF_SIZE /\ Len(hsMem[a].buff) = BUFF_SIZE
             /\ hsMem[a].lenLo \in 0..(LO_MOD - 1) /\ hsMem[a].lenHi \in 0..(LO_MOD - 1)
             /\ Len(hsMem[a].hash) % hsMem[a].method.mbs = 0 /\ LengthCounted(hsMem[a])
             /\ hsMem[a].idx = Len(Absorbed(hsMem[a])) % hsMem[a].method.mbs
  <2> DEFINE c == hsMem[a]
  <2>1. Context(c) /\ c.idCtx \in Ids
    BY Held
  <2> HIDE DEF c
  <2>2. c.idx = Len(Absorbed(c)) % c.method.mbs
    BY <2>1, Absorbs
  <2>3. /\ c.method \in Methods /\ c.idx \in 0..(c.method.mbs - 1) /\ c.buff \in Block
        /\ c.lenLo \in 0..(LO_MOD - 1) /\ c.lenHi \in 0..(LO_MOD - 1)
        /\ Len(c.hash) % c.method.mbs = 0 /\ LengthCounted(c)
    BY <2>1, Zenon DEF Context
  <2>4. c.method.mbs \in Nat /\ c.method.mbs <= BUFF_SIZE /\ BUFF_SIZE \in Nat
    BY <2>3, Sizes
  <2>5. c.idx \in 0..BUFF_SIZE
    BY <2>3, <2>4
  <2>6. Len(c.buff) = BUFF_SIZE
    BY <2>3, <2>4, SMT DEF Block
  <2> QED BY <2>1, <2>2, <2>3, <2>5, <2>6, Zenon DEF c, Ids
<1> QED BY <1>1, Zenon DEF StreamInStep, StreamTypeOK

\* Between two calls a context holds less than a block, exactly the rest of its message,
\* everything before it is compressed in whole blocks, and the two length words count all of it,
\* whatever the algorithm, the width of the words and the lengths of the calls.
THEOREM StaysInStep == StreamSpec => []StreamInStep
BY Invariance, ContextsInStep, PTL

-----------------------------------------------------------------------------
(* The length limit.                                                       *)

\* A message that the two words of its length, compared with the limit, do not exceed is counted
\* by the length field: neither the words nor their sum with the carry have wrapped.
LEMMA WithinLimit ==
  ASSUME NEW c, NEW m \in Methods, NEW total \in Nat, NEW n \in Nat, n < LO_MOD,
         c.lenLo \in 0..(LO_MOD - 1), c.lenHi \in 0..(LO_MOD - 1),
         c.lenHi * LO_MOD + c.lenLo = total % (LO_MOD * LO_MOD),
         8 * total < FieldRange(m), ~IsExceedMsgLen(m, AddLength(c, n))
  PROVE  8 * (total + n) < FieldRange(m)
<1> DEFINE b  == LO_MOD
           w  == b * b
           lo == AddLength(c, n).lo
           hi == AddLength(c, n).hi
           ml == m.maxLo
           mh == m.maxHi
           x  == hi + (IF lo > ml THEN 1 ELSE 0)
           f  == FieldRange(m)
           g  == hi * b
           gm == mh * b
<1>1. /\ b \in Nat \ {0} /\ b >= 16 /\ 0 \in 0..(b - 1) /\ b - 16 \in Nat
      /\ ml \in 0..(b - 1) /\ mh \in 0..(b - 1) /\ m.mrl \in {1, 2}
  BY HashAssumption, Sizes
<1>2. /\ lo \in 0..(b - 1) /\ hi \in 0..(b - 1) /\ g + lo = (total + n) % w
  BY AddLengthCounts
<1>3. x % b <= mh
  <2>1. x % b \in 0..(b - 1)
    <3>1. x \in Nat
      BY <1>1, <1>2
    <3> HIDE DEF x
    <3> QED BY <1>1, <3>1, DivMod
  <2>2. ~(x % b > mh)
    BY DEF IsExceedMsgLen
  <2> HIDE DEF x
  <2> QED BY <1>1, <2>1, <2>2
<1>4. (f = b \/ f = w) /\ 8 * (gm + ml) < f /\ 8 * total < f
  BY <1>1, LimitAssumption DEF FieldRange
<1>5. /\ w \in Nat \ {0} /\ w >= 16 * b /\ g \in Nat /\ gm \in Nat
      /\ (b - 1) * b = w - b /\ (hi + 1) * b = g + b
  <2>1. /\ w \in Nat \ {0} /\ g \in Nat /\ (b - 1) * b = w - b /\ (hi + 1) * b = g + b
    <3> HIDE DEF b, hi
    <3> QED BY <1>1, <1>2, TwoWords
  <2>2. gm \in Nat
    <3> HIDE DEF b, mh
    <3> QED BY <1>1, TwoWords
  <2>3. b * (b - 16) \in Nat /\ b * (b - 16) = w - 16 * b
    <3> HIDE DEF b
    <3> QED BY <1>1, SMT
  <2> HIDE DEF w
  <2>4. w >= 16 * b
    <3> DEFINE d == b * (b - 16)
    <3>1. d \in Nat /\ d = w - 16 * b
      BY <2>3
    <3> HIDE DEF d, b
    <3> QED BY <1>1, <2>1, <3>1
  <2> QED BY <2>1, <2>2, <2>4
<1> HIDE DEF b, w, lo, hi, ml, mh, f, gm
<1>6. total + n \in 0..(w - 1) /\ 8 * (total + n) < w + 8 * b
  BY <1>1, <1>4, <1>5, n < b DEF b
<1>7. g + lo = total + n
  <2> DEFINE k == total + n
  <2>1. k \in 0..(w - 1)
    BY <1>6
  <2> HIDE DEF k
  <2>2. k % w = k
    BY <1>5, <2>1, ModOfSmall
  <2> QED BY <1>2, <2>2 DEF k
<1>8. hi + 1 < b
  <2>1. SUFFICES ASSUME hi = b - 1 PROVE FALSE
    BY <1>1, <1>2
  <2>2. g = w - b
    BY <1>5, <2>1
  <2> HIDE DEF g
  <2> QED BY <1>1, <1>2, <1>5, <1>6, <1>7, <2>2
<1>9. x % b = x
  <2>1. x \in 0..(b - 1)
    BY <1>1, <1>2, <1>8
  <2> HIDE DEF x
  <2> QED BY <1>1, <2>1, ModOfSmall
<1>10. g + lo <= gm + ml
  <2>1. CASE lo > ml
    <3>1. mh - (hi + 1) \in Nat
      BY <1>1, <1>2, <1>3, <1>9, <2>1
    <3>2. (mh - (hi + 1)) * b \in Nat
      BY <1>1, <3>1
    <3>3. (mh - (hi + 1)) * b = mh * b - (hi + 1) * b
      BY <1>1, <1>2, SMT
    <3> DEFINE d == (mh - (hi + 1)) * b
    <3>4. d \in Nat /\ d = gm - (g + b)
      BY <1>5, <3>2, <3>3 DEF gm
    <3> HIDE DEF d, g
    <3> QED BY <1>1, <1>2, <1>5, <3>4
  <2>2. CASE ~(lo > ml)
    <3>1. mh - hi \in Nat
      BY <1>1, <1>2, <1>3, <1>9, <2>2
    <3>2. (mh - hi) * b \in Nat
      BY <1>1, <3>1
    <3>3. (mh - hi) * b = mh * b - hi * b
      BY <1>1, <1>2, SMT
    <3> DEFINE d == (mh - hi) * b
    <3>4. d \in Nat /\ d = gm - g
      BY <3>2, <3>3 DEF gm
    <3> HIDE DEF d, g
    <3> QED BY <1>1, <1>2, <1>5, <2>2, <3>4
  <2> QED BY <2>1, <2>2
<1> HIDE DEF g, x
<1>11. 8 * (total + n) < f
  BY <1>1, <1>2, <1>4, <1>5, <1>7, <1>10
<1> QED BY <1>11 DEF f

\* The length of the message at an address, and what its algorithm's length field can count.
FieldFits(c) == 8 * Len(Absorbed(c)) < FieldRange(c.method)

\* The field counts the empty message.
LEMMA EmptyFits == ASSUME NEW m \in Methods PROVE 8 * Len(<<>>) < FieldRange(m)
<1>1. LO_MOD \in Nat \ {0} /\ Len(<<>>) = 0
  BY HashAssumption
<1>2. LO_MOD * LO_MOD \in Nat \ {0}
  BY <1>1, TwoWords, 0 \in 0..(LO_MOD - 1)
<1> QED BY <1>1, <1>2 DEF FieldRange

\* An update in the interface that limits the length keeps it within the field.
LEMMA UpdateFits ==
  ASSUME IInv, ~RMF, NEW a \in StreamAddrs, NEW hasPtr \in BOOLEAN, NEW len \in StreamCallLens,
         StreamUpdate(a, hasPtr, len), StreamUpdateStatus(a, hasPtr, len) = "ippStsNoErr",
         FieldFits(hsMem[a])
  PROVE  FieldFits(HashUpdate(hsMem[a], Data("in", Len(Absorbed(hsMem[a])), len)))
<1> DEFINE c   == hsMem[a]
           t   == Len(Absorbed(c))
           src == Data("in", t, len)
           u   == HashUpdate(c, src)
           m   == c.method
<1>1. /\ Absorbed(u) = Absorbed(c) \o src /\ u.method = m
      /\ src \in Seq(Byte) /\ Len(src) = len
  BY UpdateStores
<1>2. Context(c) /\ len \in Nat /\ len < LO_MOD
  BY Held, UpdateAccepted
<1>3. len = 0 \/ ~IsExceedMsgLen(m, AddLength(c, len))
  BY DEF StreamUpdateStatus
<1>4. 8 * t < FieldRange(m)
  BY DEF FieldFits
<1> HIDE DEF c, src, u
<1>5. Absorbed(c) \in Seq(Byte) /\ t \in Nat
  BY <1>2, Absorbs
<1>6. Len(Absorbed(u)) = t + len
  BY <1>1, <1>5, ConcatProperties
<1>7. /\ c.lenLo \in 0..(LO_MOD - 1) /\ c.lenHi \in 0..(LO_MOD - 1) /\ m \in Methods
      /\ c.lenHi * LO_MOD + c.lenLo = t % (LO_MOD * LO_MOD)
  BY <1>2 DEF Context, LengthCounted
<1> HIDE DEF t, m
<1>8. 8 * (t + len) < FieldRange(m)
  <2>1. CASE len = 0
    BY <1>4, <1>5, <2>1
  <2>2. CASE ~IsExceedMsgLen(m, AddLength(c, len))
    BY <1>2, <1>4, <1>5, <1>7, <2>2, WithinLimit
  <2> QED BY <1>3, <2>1, <2>2
<1> QED BY <1>1, <1>6, <1>8 DEF FieldFits, m, c, u, src, t

\* No call makes a message too long for its length field.
LEMMA NextFits == ASSUME IInv, ~RMF, \A a \in StreamAddrs : FieldFits(hsMem[a]), [StreamNext]_streamVars
                  PROVE  \A a \in StreamAddrs : FieldFits(hsMem'[a])
<1>1. ASSUME UNCHANGED hsMem PROVE \A a \in StreamAddrs : FieldFits(hsMem'[a])
  BY <1>1
<1>2. ASSUME NEW a \in StreamAddrs, NEW c, Stored(c), FieldFits(c),
             hsMem' = [hsMem EXCEPT ![a] = c]
      PROVE  \A b \in StreamAddrs : FieldFits(hsMem'[b])
  BY <1>2, Replaced
<1>3. ASSUME NEW a \in StreamAddrs, NEW m \in Methods, Create(a, m)
      PROVE  \A b \in StreamAddrs : FieldFits(hsMem'[b])
  <2>1. hsMem' = [hsMem EXCEPT ![a] = HashInit(a, m)]
    BY <1>3 DEF Create
  <2>2. /\ Stored(HashInit(a, m)) /\ Absorbed(HashInit(a, m)) = <<>>
        /\ HashInit(a, m).method = m
    BY Made, InitContext DEF HashInit, Ids
  <2>3. FieldFits(HashInit(a, m))
    BY <2>2, EmptyFits DEF FieldFits
  <2> QED BY <1>2, <2>1, <2>2, <2>3
<1>4. ASSUME NEW a \in StreamAddrs, NEW hasPtr \in BOOLEAN, NEW len \in StreamCallLens, StreamUpdate(a, hasPtr, len)
      PROVE  \A b \in StreamAddrs : FieldFits(hsMem'[b])
  <2>1. CASE StreamUpdateStatus(a, hasPtr, len) = "ippStsNoErr"
    <3> DEFINE u == HashUpdate(hsMem[a], Data("in", Len(Absorbed(hsMem[a])), len))
    <3>1. hsMem' = [hsMem EXCEPT ![a] = u] /\ Stored(u)
      BY <1>4, <2>1, UpdateStores
    <3>2. FieldFits(u)
      BY <1>4, <2>1, UpdateFits
    <3> HIDE DEF u
    <3> QED BY <1>2, <3>1, <3>2
  <2>2. CASE StreamUpdateStatus(a, hasPtr, len) # "ippStsNoErr"
    BY <1>1, <1>4, <2>2 DEF StreamUpdate
  <2> QED BY <2>1, <2>2
<1>5. ASSUME NEW a \in StreamAddrs, StreamFinal(a) PROVE \A b \in StreamAddrs : FieldFits(hsMem'[b])
  <2>1. CASE VALID_ID(a)
    <3>1. hsMem' = [hsMem EXCEPT ![a] = HashRestart(hsMem[a])]
      BY <1>5, <2>1 DEF StreamFinal, IInv
    <3>2. /\ Stored(HashRestart(hsMem[a])) /\ Context(HashRestart(hsMem[a]))
          /\ Absorbed(HashRestart(hsMem[a])) = <<>>
      BY Held, Made, RestartContext
    <3>3. HashRestart(hsMem[a]).method \in Methods
      BY <3>2, Zenon DEF Context
    <3>4. FieldFits(HashRestart(hsMem[a]))
      BY <3>2, <3>3, EmptyFits DEF FieldFits
    <3> QED BY <1>2, <3>1, <3>2, <3>4
  <2>2. CASE ~VALID_ID(a)
    BY <1>1, <1>5, <2>2 DEF StreamFinal
  <2> QED BY <2>1, <2>2
<1>6. ASSUME NEW a \in StreamAddrs, NEW b \in StreamAddrs, NEW id \in Ids,
             hsMem' = [hsMem EXCEPT ![b] = [hsMem[a] EXCEPT !.idCtx = id]]
      PROVE  \A d \in StreamAddrs : FieldFits(hsMem'[d])
  <2> DEFINE c == [hsMem[a] EXCEPT !.idCtx = id]
  <2>1. Stored(c) /\ Absorbed(c) = Absorbed(hsMem[a]) /\ c.method = hsMem[a].method
    BY Held, Made, MovedContext
  <2>2. FieldFits(c)
    BY <2>1 DEF FieldFits
  <2>3. hsMem' = [hsMem EXCEPT ![b] = c]
    BY <1>6
  <2> HIDE DEF c
  <2> QED BY <1>2, <2>1, <2>2, <2>3
<1>7. ASSUME NEW a \in StreamAddrs, NEW b \in StreamAddrs,
             Duplicate(a, b) \/ Unpack(a, b) \/ \E bufSizeOk \in BOOLEAN : Pack(a, b, bufSizeOk)
      PROVE  \A d \in StreamAddrs : FieldFits(hsMem'[d])
  <2>1. \/ UNCHANGED hsMem
        \/ hsMem' = [hsMem EXCEPT ![b] = [hsMem[a] EXCEPT !.idCtx = b]]
        \/ hsMem' = [hsMem EXCEPT ![b] = [hsMem[a] EXCEPT !.idCtx = "packed"]]
    BY <1>7 DEF Duplicate, Unpack, Pack
  <2>2. b \in Ids /\ "packed" \in Ids
    BY DEF Ids
  <2> QED BY <1>1, <1>6, <2>1, <2>2
<1>8. ASSUME NEW a \in StreamAddrs, NEW b \in StreamAddrs, Copy(a, b)
      PROVE  \A d \in StreamAddrs : FieldFits(hsMem'[d])
  <2>1. hsMem' = [hsMem EXCEPT ![b] = hsMem[a]]
    BY <1>8 DEF Copy
  <2>2. Stored(hsMem[a])
    BY Held
  <2> QED BY <1>2, <2>1, <2>2
<1>9. ASSUME NEW m \in Methods, NEW hasPtr \in BOOLEAN, NEW len \in StreamCallLens, StreamMessage(m, hasPtr, len)
      PROVE  UNCHANGED hsMem
  BY <1>9 DEF StreamMessage
<1>10. ASSUME NEW a \in StreamAddrs, NEW tagLen \in 0..(BUFF_SIZE - 1), GetTag(a, tagLen)
       PROVE  UNCHANGED hsMem
  BY <1>10 DEF GetTag
<1>11. CASE UNCHANGED streamVars
  BY <1>1, <1>11 DEF streamVars
<1>12. CASE StreamNext
  BY <1>1, <1>3, <1>4, <1>5, <1>7, <1>8, <1>9, <1>10, <1>12 DEF StreamNext
<1> QED BY <1>11, <1>12

\* In the interface that limits the length of a message, the length in bits of every message stays
\* within the words of its algorithm's length field, whatever calls the message was passed in and
\* wherever its context was copied: the limit is tested on words that have not wrapped.
THEOREM LengthLimited == StreamSpec => []BitLengthFits
<1> DEFINE J == ~RMF => \A a \in StreamAddrs : FieldFits(hsMem[a])
<1>1. StreamInit => J
  <2>1. SUFFICES ASSUME StreamInit, NEW a \in StreamAddrs PROVE FieldFits(hsMem[a])
    OBVIOUS
  <2>2. PICK m \in Methods : hsMem = [x \in StreamAddrs |-> HashInit("none", m)]
    BY <2>1 DEF StreamInit
  <2>3. Absorbed(HashInit("none", m)) = <<>> /\ HashInit("none", m).method = m
    BY InitContext DEF HashInit
  <2> QED BY <2>2, <2>3, EmptyFits DEF FieldFits
<1>2. IInv /\ J /\ [StreamNext]_streamVars => J'
  <2>1. SUFFICES ASSUME IInv, J, [StreamNext]_streamVars, ~RMF PROVE \A a \in StreamAddrs : FieldFits(hsMem'[a])
    BY DEF FieldFits, Absorbed
  <2> QED BY <2>1, NextFits
<1>3. J => BitLengthFits
  BY DEF BitLengthFits, FieldFits
<1> HIDE DEF J
<1> QED BY <1>1, <1>2, <1>3, Invariance, PTL DEF StreamSpec

-----------------------------------------------------------------------------
(* The promise of HashMessages.                                            *)

\* The messages are short enough for the length words of algorithms that have two of them, and
\* every call's length is within the bound of the model.
MessagesCountable ==
  /\ \A m \in Methods : Countable(m, STREAM_MAX_MSG)
  /\ \A len \in StreamCallLens : len <= STREAM_MAX_MSG

\* A context as the promise sees it.
View(c) == [idCtx |-> c.idCtx, method |-> c.method, msg |-> Absorbed(c)]
Obj == [a \in StreamAddrs |-> View(hsMem[a])]

\* What is countable for the bound is countable for less.
LEMMA CountableBelow ==
  ASSUME MessagesCountable, NEW m \in Methods, NEW n \in Nat, n <= STREAM_MAX_MSG
  PROVE  Countable(m, n)
BY StreamAssumption, HashAssumption DEF MessagesCountable, Countable

\* The two modules' names for the reference digest are one.
LEMMA SameDigest ==
  ASSUME NEW m, NEW msg, NEW n
  PROVE  Promise!Digest(m, msg, n) = Standard!Digest(m, msg, n)
<1>1. Promise!Padded(m, msg) = Standard!Padded(m, msg)
  BY Zenon DEF Promise!Padded, Standard!Padded, Promise!ZeroBlock, Standard!ZeroBlock
<1> HIDE DEF Promise!Padded, Standard!Padded
<1> QED BY <1>1 DEF Promise!Digest, Standard!Digest

\* Storing a context stores its view.
LEMMA Viewed ==
  ASSUME IInv, NEW a \in StreamAddrs, NEW c, Stored(c), hsMem' = [hsMem EXCEPT ![a] = c]
  PROVE  Obj' = [Obj EXCEPT ![a] = View(c)]
<1>1. hsMem'[a] = c /\ \A b \in StreamAddrs \ {a} : hsMem'[b] = hsMem[b]
  BY Replaced
<1>2. Obj' = [b \in StreamAddrs |-> View(hsMem'[b])]
  BY DEF Obj, View, Absorbed
<1>3. \A b \in StreamAddrs : View(hsMem'[b]) = IF b = a THEN View(c) ELSE View(hsMem[b])
  BY <1>1
<1> HIDE DEF View
<1> QED BY <1>2, <1>3 DEF Obj

\* What the promise sees at an address.
LEMMA Seen ==
  ASSUME NEW a \in StreamAddrs
  PROVE  /\ Obj[a] = View(hsMem[a]) /\ Obj[a].idCtx = hsMem[a].idCtx
         /\ Obj[a].method = hsMem[a].method /\ Obj[a].msg = Absorbed(hsMem[a])
BY DEF Obj, View

\* The promise's state is the view of the contexts.
LEMMA PromiseState ==
  /\ [a \in StreamAddrs |-> [idCtx |-> hsMem[a].idCtx, method |-> hsMem[a].method,
                       msg |-> Absorbed(hsMem[a])]] = Obj
  /\ [a \in StreamAddrs |-> [idCtx |-> hsMem[a].idCtx, method |-> hsMem[a].method,
                       msg |-> Absorbed(hsMem[a])]]' = Obj'
BY DEF Obj, View, Absorbed

\* A refused call keeps the promise.
LEMMA Refused ==
  ASSUME NEW status, status # "ippStsNoErr", hsOut' = StreamReturns(status), UNCHANGED hsMem
  PROVE  Promise!Fail
<1>1. UNCHANGED Obj
  BY DEF Obj, View, Absorbed
<1> QED BY <1>1, PromiseState DEF Promise!Fail, StreamReturns

\* Init makes an object of no message.
LEMMA CreateKeeps ==
  ASSUME IInv, NEW a \in StreamAddrs, NEW m \in Methods, Create(a, m)
  PROVE  Promise!New(a, m)
<1>1. hsMem' = [hsMem EXCEPT ![a] = HashInit(a, m)] /\ hsOut' = [ret |-> "ippStsNoErr", md |-> <<>>]
  BY DEF Create, StreamReturns
<1>2. View(HashInit(a, m)) = [idCtx |-> a, method |-> m, msg |-> <<>>]
  BY InitContext DEF View, HashInit
<1>3. Stored(HashInit(a, m))
  BY Made DEF Ids
<1>4. Obj' = [Obj EXCEPT ![a] = [idCtx |-> a, method |-> m, msg |-> <<>>]]
  BY <1>1, <1>2, <1>3, Viewed
<1> QED BY <1>1, <1>4, PromiseState, Zenon DEF Promise!New, Promise!Done

\* Update appends to the message of a valid object, or is refused.
LEMMA UpdateKeeps ==
  ASSUME IInv, NEW a \in StreamAddrs, NEW hasPtr \in BOOLEAN, NEW len \in StreamCallLens,
         StreamUpdate(a, hasPtr, len)
  PROVE  Promise!Fail \/ (len \in 0..STREAM_MAX_MSG /\ Promise!Extend(a, len))
<1>1. CASE StreamUpdateStatus(a, hasPtr, len) = "ippStsNoErr"
  <2> DEFINE msg == Absorbed(hsMem[a])
             src == Data("in", Len(msg), len)
             u   == HashUpdate(hsMem[a], src)
  <2>1. /\ hsMem' = [hsMem EXCEPT ![a] = u] /\ Stored(u) /\ Absorbed(u) = msg \o src
        /\ u.idCtx = hsMem[a].idCtx /\ u.method = hsMem[a].method
    BY <1>1, UpdateStores
  <2>2. hsOut' = [ret |-> "ippStsNoErr", md |-> <<>>] /\ Len(msg) + len <= STREAM_MAX_MSG
    BY <1>1 DEF StreamUpdate, StreamReturns
  <2>3. len \in Nat /\ hsMem[a].idCtx = a /\ Len(msg) \in Nat
    BY <1>1, UpdateAccepted, Held, Absorbs DEF VALID_ID
  <2>4. len \in 0..STREAM_MAX_MSG
    BY <2>2, <2>3, StreamAssumption
  <2>5. View(u) = [idCtx |-> hsMem[a].idCtx, method |-> hsMem[a].method, msg |-> msg \o src]
    BY <2>1 DEF View
  <2> HIDE DEF u
  <2>6. Obj' = [Obj EXCEPT ![a] = View(u)]
    BY <2>1, Viewed
  <2>7. Obj[a] = [idCtx |-> hsMem[a].idCtx, method |-> hsMem[a].method, msg |-> msg]
    BY DEF Obj, View
  <2>8. Promise!Data("in", Len(msg), len) = src
    BY DEF Promise!Data, Data
  <2> HIDE DEF msg, src
  <2>9. [Obj EXCEPT ![a] = View(u)]
          = [Obj EXCEPT ![a].msg = @ \o Promise!Data("in", Len(@), len)]
    <3>1. Obj[a].msg = msg
      BY <2>7
    <3>2. [Obj[a] EXCEPT !.msg = msg \o src] = View(u)
      <4> DEFINE i == hsMem[a].idCtx
                 m == hsMem[a].method
                 o == Obj[a]
                 t == msg \o src
      <4>1. o = [idCtx |-> i, method |-> m, msg |-> msg]
        BY <2>7
      <4>2. View(u) = [idCtx |-> i, method |-> m, msg |-> t]
        BY <2>5
      <4> HIDE DEF i, m, o, t
      <4>3. [o EXCEPT !.msg = t] = [idCtx |-> i, method |-> m, msg |-> t]
        BY <4>1
      <4> QED BY <4>2, <4>3 DEF o, t
    <3> QED BY <2>8, <3>1, <3>2
  <2>10. Obj' = [Obj EXCEPT ![a].msg = @ \o Promise!Data("in", Len(@), len)]
    BY <2>6, <2>9
  <2>11. Obj[a].idCtx = a
    BY <2>3, <2>7
  <2> HIDE DEF Obj
  <2>12. Promise!Extend(a, len)
    BY <2>2, <2>10, <2>11, PromiseState, Zenon DEF Promise!Extend, Promise!Done, Promise!Valid
  <2> QED BY <2>4, <2>12
<1>2. CASE StreamUpdateStatus(a, hasPtr, len) # "ippStsNoErr"
  <2>1. hsOut' = StreamReturns(StreamUpdateStatus(a, hasPtr, len)) /\ UNCHANGED hsMem
    BY <1>2 DEF StreamUpdate
  <2> HIDE DEF Promise!Fail
  <2> QED BY <1>2, <2>1, Refused
<1> QED BY <1>1, <1>2

\* Final gives the digest of the object's message and empties it.
LEMMA FinalKeeps ==
  ASSUME IInv, MessagesCountable, NEW a \in StreamAddrs, StreamFinal(a)
  PROVE  Promise!Fail \/ Promise!Final(a)
<1>1. CASE VALID_ID(a)
  <2> DEFINE c == hsMem[a]
             r == HashRestart(hsMem[a])
             m == hsMem[a].method
  <2>1. Stored(c) /\ Context(c) /\ Stored(r) /\ Absorbed(r) = <<>> /\ r.idCtx = c.idCtx
    BY Held, Made, RestartContext
  <2>2. m \in Methods /\ Len(Absorbed(c)) \in Nat /\ Len(Absorbed(c)) <= STREAM_MAX_MSG
    <3> HIDE DEF c
    <3>1. c.method \in Methods /\ Len(Absorbed(c)) \in Nat /\ Len(Absorbed(c)) <= STREAM_MAX_MSG
      BY <2>1, Absorbs, Zenon DEF Stored, Context
    <3> QED BY <3>1 DEF c
  <2>3. Countable(m, Len(Absorbed(c)))
    BY <2>2, CountableBelow
  <2>4. HashTag(c, m.hashLen) = Standard!Digest(m, Absorbed(c), m.hashLen)
    BY <2>1, <2>3, TagIsDigest
  <2>5. /\ hsOut' = [ret |-> "ippStsNoErr", md |-> Promise!Digest(m, Absorbed(c), m.hashLen)]
        /\ hsMem' = [hsMem EXCEPT ![a] = r] /\ c.idCtx = a
    BY <1>1, <2>4, SameDigest DEF StreamFinal, Digest, VALID_ID, IInv
  <2>6. Obj' = [Obj EXCEPT ![a] = View(r)]
    BY <2>1, <2>5, Viewed
  <2>7. r.method = m
    <3>1. c = [idCtx |-> c.idCtx, method |-> c.method, idx |-> c.idx, buff |-> c.buff,
               lenLo |-> c.lenLo, lenHi |-> c.lenHi, hash |-> c.hash]
      BY <2>1, Zenon DEF Context
    <3> QED BY <3>1 DEF HashRestart
  <2>8. View(r) = [idCtx |-> c.idCtx, method |-> m, msg |-> <<>>]
    BY <2>1, <2>7 DEF View
  <2>9. Obj[a] = [idCtx |-> c.idCtx, method |-> m, msg |-> Absorbed(c)]
    BY DEF Obj, View
  <2> HIDE DEF r, c, m
  <2>10. Obj' = [Obj EXCEPT ![a].msg = <<>>]
    <3>1. [Obj[a] EXCEPT !.msg = <<>>] = View(r)
      BY <2>8, <2>9
    <3> QED BY <2>6, <3>1
  <2>11. Obj[a].idCtx = a /\ Obj[a].method = m /\ Obj[a].msg = Absorbed(c)
    BY <2>5, <2>9
  <2> HIDE DEF Obj, Promise!Digest
  <2>12. hsOut' = [ret |-> "ippStsNoErr",
                 md |-> Promise!Digest(Obj[a].method, Obj[a].msg, Obj[a].method.hashLen)]
    BY <2>5, <2>11
  <2>13. Promise!Final(a)
    BY <2>10, <2>11, <2>12, PromiseState, Zenon DEF Promise!Final, Promise!Done, Promise!Valid
  <2> QED BY <2>13
<1>2. CASE ~VALID_ID(a)
  <2>1. hsOut' = StreamReturns("ippStsContextMatchErr") /\ UNCHANGED hsMem
    BY <1>2 DEF StreamFinal
  <2> HIDE DEF Promise!Fail
  <2> QED BY <2>1, Refused
<1> QED BY <1>1, <1>2

\* GetTag gives the bytes it stores of the digest of the object's message.
LEMMA GetTagKeeps ==
  ASSUME IInv, MessagesCountable, NEW a \in StreamAddrs, NEW tagLen, GetTag(a, tagLen)
  PROVE  Promise!Fail \/ \E n \in 1..Obj[a].method.hashLen : Promise!GetTag(a, n)
<1> DEFINE c == hsMem[a]
           m == hsMem[a].method
           n == IF RMF THEN m.hashLen ELSE tagLen
<1>1. UNCHANGED hsMem /\ UNCHANGED Obj
  BY DEF GetTag, Obj, View, Absorbed
<1>2. CASE VALID_ID(a) /\ tagLen \in 1..m.hashLen
  <2>1. Context(c) /\ Stored(c)
    BY Held
  <2>2. m \in Methods /\ Len(Absorbed(c)) \in Nat /\ Len(Absorbed(c)) <= STREAM_MAX_MSG
    <3> HIDE DEF c
    <3>1. c.method \in Methods /\ Len(Absorbed(c)) \in Nat /\ Len(Absorbed(c)) <= STREAM_MAX_MSG
      BY <2>1, Absorbs, Zenon DEF Stored, Context
    <3> QED BY <3>1 DEF c
  <2>3. m.hashLen \in 1..BUFF_SIZE
    BY <2>2, Sizes
  <2>4. n \in 1..m.hashLen
    BY <1>2, <2>3
  <2>5. Countable(m, Len(Absorbed(c)))
    BY <2>2, CountableBelow
  <2> HIDE DEF n
  <2>6. HashTag(c, n) = Promise!Digest(m, Absorbed(c), n)
    BY <2>1, <2>5, TagIsDigest, SameDigest
  <2>7. hsOut' = [ret |-> "ippStsNoErr", md |-> HashTag(c, n)] /\ c.idCtx = a
    BY <1>2 DEF GetTag, Digest, VALID_ID, n
  <2>8. Obj[a].idCtx = a /\ Obj[a].method = m /\ Obj[a].msg = Absorbed(c)
    BY <2>7, Seen
  <2> HIDE DEF Obj, Promise!Digest, c, m
  <2>9. hsOut' = [ret |-> "ippStsNoErr", md |-> Promise!Digest(Obj[a].method, Obj[a].msg, n)]
    BY <2>6, <2>7, <2>8
  <2>10. Promise!GetTag(a, n)
    BY <1>1, <2>8, <2>9, PromiseState, Zenon DEF Promise!GetTag, Promise!Done, Promise!Valid
  <2> QED BY <2>4, <2>8, <2>10
<1>3. CASE ~(VALID_ID(a) /\ tagLen \in 1..m.hashLen)
  <2>1. PICK status \in {"ippStsContextMatchErr", "ippStsLengthErr"} : hsOut' = StreamReturns(status)
    BY <1>3 DEF GetTag
  <2> HIDE DEF Promise!Fail
  <2> QED BY <1>1, <2>1, Refused
<1> QED BY <1>2, <1>3

\* A context moved to an identifier moves its object.
LEMMA MoveKeeps ==
  ASSUME IInv, NEW a \in StreamAddrs, NEW b \in StreamAddrs, NEW id \in Ids,
         hsMem' = [hsMem EXCEPT ![b] = [hsMem[a] EXCEPT !.idCtx = id]]
  PROVE  Obj' = [Obj EXCEPT ![b] = [Obj[a] EXCEPT !.idCtx = id]]
<1> DEFINE c == hsMem[a]
           d == [c EXCEPT !.idCtx = id]
<1>1. Stored(c) /\ Context(c) /\ Stored(d)
  BY Held, Made
<1>2. hsMem' = [hsMem EXCEPT ![b] = d]
  OBVIOUS
<1> HIDE DEF c
<1>3. Absorbed(d) = Absorbed(c) /\ d.idCtx = id /\ d.method = c.method
  BY <1>1, MovedContext
<1> HIDE DEF d
<1>4. Obj' = [Obj EXCEPT ![b] = View(d)]
  BY <1>1, <1>2, Viewed
<1>5. Obj[a] = View(c)
  BY DEF Obj, c
<1>6. View(d) = [View(c) EXCEPT !.idCtx = id]
  BY <1>3 DEF View
<1> QED BY <1>4, <1>5, <1>6

\* Duplicate and Pack copy the object of a valid context under the identifier it is to have.
LEMMA CopyToKeeps ==
  ASSUME IInv, NEW a \in StreamAddrs, NEW b \in StreamAddrs,
         Duplicate(a, b) \/ \E bufSizeOk \in BOOLEAN : Pack(a, b, bufSizeOk)
  PROVE  Promise!Fail \/ Promise!CopyTo(a, b, b) \/ Promise!CopyTo(a, b, "packed")
<1>1. \/ \E status \in {"ippStsContextMatchErr", "ippStsNoMemErr"} :
           hsOut' = StreamReturns(status) /\ UNCHANGED hsMem
      \/ /\ hsMem[a].idCtx = a /\ hsOut' = StreamReturns("ippStsNoErr")
         /\ \E id \in {b, "packed"} : hsMem' = [hsMem EXCEPT ![b] = [hsMem[a] EXCEPT !.idCtx = id]]
  BY DEF Duplicate, Pack, VALID_ID
<1> HIDE DEF Promise!Fail
<1>2. ASSUME NEW status \in {"ippStsContextMatchErr", "ippStsNoMemErr"},
             hsOut' = StreamReturns(status), UNCHANGED hsMem
      PROVE  Promise!Fail
  BY <1>2, Refused
<1>3. ASSUME NEW id \in {b, "packed"}, hsMem[a].idCtx = a, hsOut' = StreamReturns("ippStsNoErr"),
             hsMem' = [hsMem EXCEPT ![b] = [hsMem[a] EXCEPT !.idCtx = id]]
      PROVE  Promise!CopyTo(a, b, id)
  <2>1. id \in Ids
    BY DEF Ids
  <2>2. Obj' = [Obj EXCEPT ![b] = [Obj[a] EXCEPT !.idCtx = id]]
    BY <1>3, <2>1, MoveKeeps, ZenonT(60)
  <2>3. Obj[a].idCtx = a
    BY <1>3, Seen
  <2>4. hsOut' = [ret |-> "ippStsNoErr", md |-> <<>>]
    BY <1>3 DEF StreamReturns
  <2> HIDE DEF Obj
  <2> QED BY <2>2, <2>3, <2>4, PromiseState, Zenon DEF Promise!CopyTo, Promise!Done, Promise!Valid
<1> QED BY <1>1, <1>2, <1>3

\* Unpack takes whatever object lies at the address.
LEMMA UnpackKeeps ==
  ASSUME IInv, NEW a \in StreamAddrs, NEW b \in StreamAddrs, Unpack(a, b)
  PROVE  Promise!Unpack(a, b)
<1>1. /\ hsMem' = [hsMem EXCEPT ![b] = [hsMem[a] EXCEPT !.idCtx = b]]
      /\ hsOut' = [ret |-> "ippStsNoErr", md |-> <<>>] /\ b \in Ids
  BY DEF Unpack, StreamReturns, Ids
<1>2. Obj' = [Obj EXCEPT ![b] = [Obj[a] EXCEPT !.idCtx = b]]
  BY <1>1, MoveKeeps
<1> HIDE DEF Obj
<1> QED BY <1>1, <1>2, PromiseState, Zenon DEF Promise!Unpack, Promise!Done

\* The caller's copy of the bytes copies the object.
LEMMA CopyKeeps ==
  ASSUME IInv, NEW a \in StreamAddrs, NEW b \in StreamAddrs, Copy(a, b)
  PROVE  Promise!Copy(a, b)
<1>1. hsMem' = [hsMem EXCEPT ![b] = hsMem[a]] /\ UNCHANGED hsOut
  BY DEF Copy
<1>2. Stored(hsMem[a])
  BY Held
<1>3. Obj' = [Obj EXCEPT ![b] = Obj[a]]
  <2>1. Obj' = [Obj EXCEPT ![b] = View(hsMem[a])]
    BY <1>1, <1>2, Viewed
  <2>2. Obj[a] = View(hsMem[a])
    BY Seen
  <2> HIDE DEF Obj, View
  <2> QED BY <2>1, <2>2
<1> HIDE DEF Obj
<1> QED BY <1>1, <1>3, PromiseState, Zenon DEF Promise!Copy

\* The one-shot function gives the digest of its message.
LEMMA MessageKeeps ==
  ASSUME IInv, MessagesCountable, NEW m \in Methods, NEW hasPtr \in BOOLEAN,
         NEW len \in StreamCallLens, StreamMessage(m, hasPtr, len)
  PROVE  Promise!Fail \/ (len \in 0..STREAM_MAX_MSG /\ Promise!Message(m, len))
<1>1. UNCHANGED hsMem /\ UNCHANGED Obj
  BY DEF StreamMessage, Obj, View, Absorbed
<1>2. len \in Int /\ len <= STREAM_MAX_MSG /\ STREAM_MAX_MSG \in Nat
  BY StreamAssumption DEF MessagesCountable
<1>3. CASE len < 0 \/ (len # 0 /\ ~hasPtr)
  <2>1. PICK status \in {"ippStsLengthErr", "ippStsNullPtrErr"} : hsOut' = StreamReturns(status)
    BY <1>3 DEF StreamMessage
  <2> HIDE DEF Promise!Fail
  <2> QED BY <1>1, <2>1, Refused
<1>4. CASE ~(len < 0 \/ (len # 0 /\ ~hasPtr))
  <2> DEFINE src == Data("msg", 0, len)
  <2>1. len \in Nat /\ len \in 0..STREAM_MAX_MSG
    BY <1>2, <1>4
  <2>2. src \in Seq(Byte) /\ Len(src) = len
    BY <2>1, DataBytes
  <2>3. hsOut' = [ret |-> "ippStsNoErr", md |-> HashMessage(m, src)]
    BY <1>4 DEF StreamMessage, Digest
  <2>4. Promise!Data("msg", 0, len) = src
    BY DEF Promise!Data, Data
  <2> HIDE DEF src
  <2>5. Countable(m, Len(src))
    BY <1>2, <2>1, <2>2, CountableBelow
  <2>6. HashMessage(m, src) = Promise!Digest(m, src, m.hashLen)
    BY <2>2, <2>5, MessageIsDigest, SameDigest
  <2> HIDE DEF Obj, Promise!Digest
  <2>7. Promise!Message(m, len)
    BY <1>1, <2>3, <2>4, <2>6, PromiseState, Zenon DEF Promise!Message, Promise!Done
  <2> QED BY <2>1, <2>7
<1> QED BY <1>3, <1>4

\* At first no address holds a valid object.
LEMMA InitKeeps == ASSUME StreamInit PROVE Promise!Init
<1>1. PICK m \in Methods : hsMem = [a \in StreamAddrs |-> HashInit("none", m)]
  BY DEF StreamInit
<1>2. \A a \in StreamAddrs : Obj[a].idCtx = "none"
  BY <1>1 DEF Obj, View, HashInit
<1>3. hsOut = [ret |-> "ippStsNoErr", md |-> <<>>]
  BY DEF StreamInit, StreamReturns
<1> HIDE DEF Obj
<1> QED BY <1>2, <1>3, PromiseState, Zenon DEF Promise!Init

\* Every call is a step of the promise, or a stutter.
LEMMA NextKeeps ==
  ASSUME IInv, MessagesCountable, [StreamNext]_streamVars
  PROVE  streamVars' # streamVars => Promise!Next
<1> HIDE DEF Obj, Promise!Fail, Promise!New, Promise!Message, Promise!Extend, Promise!Final,
             Promise!GetTag, Promise!CopyTo, Promise!Unpack, Promise!Copy
<1>1. ASSUME NEW a \in StreamAddrs, NEW m \in Methods, Create(a, m) PROVE Promise!Next
  BY <1>1, CreateKeeps DEF Promise!Next
<1>2. ASSUME NEW m \in Methods, NEW hasPtr \in BOOLEAN, NEW len \in StreamCallLens, StreamMessage(m, hasPtr, len)
      PROVE  Promise!Next
  BY <1>2, MessageKeeps DEF Promise!Next
<1>3. ASSUME NEW a \in StreamAddrs, NEW hasPtr \in BOOLEAN, NEW len \in StreamCallLens, StreamUpdate(a, hasPtr, len)
      PROVE  Promise!Next
  BY <1>3, UpdateKeeps DEF Promise!Next
<1>4. ASSUME NEW a \in StreamAddrs, NEW tagLen \in 0..(BUFF_SIZE - 1), GetTag(a, tagLen)
      PROVE  Promise!Next
  <2>1. Promise!Fail \/ \E n \in 1..Obj[a].method.hashLen : Promise!GetTag(a, n)
    BY <1>4, GetTagKeeps
  <2> QED BY <2>1, PromiseState, Zenon DEF Promise!Next
<1>5. ASSUME NEW a \in StreamAddrs, StreamFinal(a) PROVE Promise!Next
  BY <1>5, FinalKeeps DEF Promise!Next
<1>6. ASSUME NEW a \in StreamAddrs, NEW b \in StreamAddrs,
             Duplicate(a, b) \/ \E bufSizeOk \in BOOLEAN : Pack(a, b, bufSizeOk)
      PROVE  Promise!Next
  BY <1>6, CopyToKeeps DEF Promise!Next
<1>7. ASSUME NEW a \in StreamAddrs, NEW b \in StreamAddrs, Unpack(a, b) PROVE Promise!Next
  BY <1>7, UnpackKeeps DEF Promise!Next
<1>8. ASSUME NEW a \in StreamAddrs, NEW b \in StreamAddrs, Copy(a, b) PROVE Promise!Next
  BY <1>8, CopyKeeps DEF Promise!Next
<1>9. CASE UNCHANGED streamVars
  BY <1>9
<1>10. CASE StreamNext
  BY <1>1, <1>2, <1>3, <1>4, <1>5, <1>6, <1>7, <1>8, <1>10 DEF StreamNext
<1> QED BY <1>9, <1>10

\* Whatever the cut of the messages into calls and wherever contexts are copied, packed, unpacked,
\* duplicated and reused, the digest and the tags given are those FIPS 180-4 defines for the bytes
\* each context was passed or inherited: for any number of addresses, algorithms and lengths, as
\* long as the message of an algorithm with two length words is shorter than 2^60 bytes.
THEOREM Implements == ASSUME MessagesCountable PROVE StreamSpec => ImplementsHashMessages
<1>1. StreamInit => Promise!Init
  BY InitKeeps
<1>2. IInv /\ [StreamNext]_streamVars => [streamVars' # streamVars => Promise!Next]_streamVars
  BY NextKeeps
<1> HIDE DEF Promise!Init, Promise!Next
<1> QED BY <1>1, <1>2, Invariance, PTL DEF StreamSpec, ImplementsHashMessages

-----------------------------------------------------------------------------
(* HMAC contexts.                                                          *)

HmacIds == HmacAddrs \cup {"none", "packed"}

\* The padded keys.
Pads == [1..BUFF_SIZE -> Byte1]

\* An HMAC context, and the inner pad it absorbs first.
HmacContext(id, ipad, opad, h) == [idCtx |-> id, ipadKey |-> ipad, opadKey |-> opad, hashCtx |-> h]
InnerPad(c) == SubSeq(c.ipadKey, 1, c.hashCtx.method.mbs)
OuterPad(c) == SubSeq(c.opadKey, 1, c.hashCtx.method.mbs)

\* The two pads are of one key.
OneKey(c) ==
  \A j \in 1..c.hashCtx.method.mbs :
    c.opadKey[j] = Xor(Xor(c.ipadKey[j], {<<"ipad">>}), {<<"opad">>})

\* The bytes of an HMAC context.  The two identifiers are one.
Keyed(c) ==
  /\ c = HmacContext(c.idCtx, c.ipadKey, c.opadKey, c.hashCtx)
  /\ c.ipadKey \in Pads /\ c.opadKey \in Pads
  /\ Context(c.hashCtx) /\ c.hashCtx.idCtx = c.idCtx
  /\ Absorbed(c.hashCtx) \in Seq(Byte1)

\* A context that has absorbed its inner pad and then msg.
Holding(c, msg) ==
  /\ Keyed(c) /\ OneKey(c)
  /\ msg \in Seq(Byte1) /\ Absorbed(c.hashCtx) = InnerPad(c) \o msg

\* The first bytes of a block, of the bytes the block is of.
LEMMA PadFront ==
  ASSUME NEW pad \in Pads, NEW n \in 0..BUFF_SIZE
  PROVE  /\ SubSeq(pad, 1, n) \in Seq(Byte1) /\ Len(SubSeq(pad, 1, n)) = n
         /\ \A i \in 1..n : SubSeq(pad, 1, n)[i] = pad[i]
<1>1. pad \in Seq(Byte1) /\ Len(pad) = BUFF_SIZE
  BY HashAssumption, SMT DEF Pads
<1>2. 0 \in Nat /\ n \in Nat /\ 0 <= n /\ n <= Len(pad) /\ 0 + 1 = 1
  BY <1>1, HashAssumption
<1>3. /\ SubSeq(pad, 0 + 1, n) \in Seq(Byte1) /\ Len(SubSeq(pad, 0 + 1, n)) = n - 0
      /\ \A i \in 1..(n - 0) : SubSeq(pad, 0 + 1, n)[i] = pad[0 + i]
  BY <1>1, <1>2, Part
<1> QED BY <1>2, <1>3

\* A context of no message, with other bytes in its buffer.
LEMMA Rebuffered ==
  ASSUME NEW c, Context(c), c.idx = 0, c.hash = <<>>, NEW blk \in Block
  PROVE  LET d == [c EXCEPT !.buff = blk]
         IN  /\ Context(d) /\ Absorbed(d) = <<>> /\ d.buff = blk
             /\ d.idCtx = c.idCtx /\ d.method = c.method
<1> DEFINE d == [c EXCEPT !.buff = blk]
           m == c.method
           x == c.idx
           b == c.buff
           l == c.lenLo
           h == c.lenHi
           s == c.hash
           i == c.idCtx
<1>1. c = [idCtx |-> i, method |-> m, idx |-> x, buff |-> b, lenLo |-> l, lenHi |-> h, hash |-> s]
  BY DEF Context
<1>2. /\ m \in Methods /\ x \in 0..(m.mbs - 1)
      /\ l \in 0..(LO_MOD - 1) /\ h \in 0..(LO_MOD - 1)
      /\ s \in Seq(Byte) /\ Len(s) % m.mbs = 0 /\ h * LO_MOD + l = Len(Absorbed(c)) % (LO_MOD * LO_MOD)
      /\ Absorbed(c) = s \o SubSeq(b, 1, x) /\ x = 0 /\ s = <<>>
  BY DEF Context, LengthCounted, Absorbed
<1> HIDE DEF m, x, b, l, h, s, i
<1>3. d = [idCtx |-> i, method |-> m, idx |-> x, buff |-> blk, lenLo |-> l, lenHi |-> h, hash |-> s]
  BY <1>1
<1> HIDE DEF d
<1>4. /\ d.idCtx = i /\ d.method = m /\ d.idx = x /\ d.buff = blk
      /\ d.lenLo = l /\ d.lenHi = h /\ d.hash = s
  BY <1>3
<1>5. SubSeq(b, 1, 0) = <<>> /\ SubSeq(blk, 1, 0) = <<>>
  BY SubSeqEmpty
<1>6. Absorbed(d) = s \o SubSeq(blk, 1, x)
  BY <1>4, Zenon DEF Absorbed
<1>7. <<>> \o <<>> = <<>>
  OBVIOUS
<1>8. Absorbed(d) = <<>> /\ Absorbed(c) = <<>>
  BY <1>2, <1>5, <1>6, <1>7, Zenon
<1>9. LengthCounted(d)
  BY <1>2, <1>4, <1>8, Zenon DEF LengthCounted
<1>10. Context(d)
  BY <1>2, <1>3, <1>4, <1>9, Zenon DEF Context
<1> QED BY <1>4, <1>8, <1>10 DEF d, m, i

\* XORing the same byte twice.
LEMMA XorTwice == ASSUME NEW x, NEW y PROVE Xor(Xor(x, y), y) = x /\ Xor(y, y) = {} /\ Xor({}, y) = y
BY DEF Xor

\* Padding a key gives a padded key.
LEMMA Padding ==
  ASSUME NEW key \in Seq(Byte1), NEW pad \in {"ipad", "opad"}, NEW n \in Nat
  PROVE  /\ Pad(key, pad, n) \in Pads
         /\ \A j \in 1..BUFF_SIZE :
              Pad(key, pad, n)[j] = IF j <= Len(key) THEN Xor(key[j], {<<pad>>})
                                       ELSE IF j <= n THEN {<<pad>>} ELSE {}
<1> DEFINE P(j) == IF j <= Len(key) THEN Xor(key[j], {<<pad>>})
                   ELSE IF j <= n THEN {<<pad>>} ELSE {}
<1>1. Pad(key, pad, n) = [j \in 1..BUFF_SIZE |-> P(j)]
  BY Zenon DEF Pad
<1>2. {<<pad>>} \in Byte1 /\ {} \in Byte1
  <2>1. pad \in Kinds
    BY DEF Kinds
  <2>2. {<<pad>>} \in Byte0 /\ {} \in Byte0
    BY <2>1, PadByte, ZeroByte, Zenon
  <2> QED BY <2>2, Levels
<1> DEFINE b == {<<pad>>}
<1> HIDE DEF b
<1>3. ASSUME NEW j \in 1..BUFF_SIZE PROVE P(j) \in Byte1
  <2>1. CASE j <= Len(key)
    <3>1. j \in 1..Len(key)
      BY <2>1
    <3>2. key[j] \in Over(Byte0) /\ b \in Over(Byte0)
      BY <1>2, <3>1 DEF Byte1, b
    <3>3. Xor(key[j], b) \in Over(Byte0)
      BY <3>2, XorByte
    <3> QED BY <2>1, <3>3 DEF Byte1, b
  <2>2. CASE ~(j <= Len(key))
    BY <1>2, <2>2
  <2> QED BY <2>1, <2>2
<1> HIDE DEF P
<1>4. Pad(key, pad, n) \in Pads /\ \A j \in 1..BUFF_SIZE : Pad(key, pad, n)[j] = P(j)
  BY <1>1, <1>3 DEF Pads
<1> QED BY <1>4 DEF P

\* The two pads of a key are of one key.
LEMMA PadsMatch ==
  ASSUME NEW key \in Seq(Byte1), NEW n \in 0..BUFF_SIZE, NEW j \in 1..n
  PROVE  /\ Xor(Pad(key, "ipad", n)[j], {<<"ipad">>}) = IF j <= Len(key) THEN key[j] ELSE {}
         /\ Pad(key, "opad", n)[j]
              = Xor(Xor(Pad(key, "ipad", n)[j], {<<"ipad">>}), {<<"opad">>})
<1> DEFINE ip == Pad(key, "ipad", n)[j]
           op == Pad(key, "opad", n)[j]
           x == {<<"ipad">>}
           y == {<<"opad">>}
<1>1. n \in Nat /\ j <= n /\ j \in 1..BUFF_SIZE
  BY HashAssumption
<1>2. /\ ip = IF j <= Len(key) THEN Xor(key[j], x) ELSE x
      /\ op = IF j <= Len(key) THEN Xor(key[j], y) ELSE y
  BY <1>1, Padding
<1> HIDE DEF ip, op, x, y
<1>3. CASE j <= Len(key)
  <2>1. ip = Xor(key[j], x) /\ op = Xor(key[j], y)
    BY <1>2, <1>3
  <2>2. Xor(ip, x) = key[j]
    BY <2>1, XorTwice
  <2> QED BY <1>3, <2>1, <2>2 DEF ip, op, x, y
<1>4. CASE ~(j <= Len(key))
  <2>1. ip = x /\ op = y
    BY <1>2, <1>4
  <2>2. Xor(ip, x) = {}
    BY <2>1, XorTwice
  <2>3. Xor({}, y) = y
    BY XorTwice
  <2> QED BY <1>4, <2>1, <2>2, <2>3 DEF ip, op, x, y
<1> QED BY <1>3, <1>4

\* The key that HMAC pads: hashed if it is longer than a block.
UsedKey(id, m, keyLen) ==
  IF keyLen > m.mbs THEN HashTag(HashUpdate(HashInit(id, m), Key(keyLen)), m.hashLen)
  ELSE Key(keyLen)

\* Init leaves a context that holds its two pads and the empty message.
LEMMA NewHolds ==
  ASSUME BUFF_SIZE < LO_MOD, NEW id, NEW m \in Methods, NEW keyLen \in Nat, keyLen < LO_MOD
  PROVE  LET c   == NewContext(id, keyLen, m)
             key == UsedKey(id, m, keyLen)
         IN  /\ Holding(c, <<>>) /\ c.idCtx = id /\ c.hashCtx.method = m
             /\ key \in Seq(Byte1)
             /\ c.ipadKey = Pad(key, "ipad", m.mbs)
<1> DEFINE mbs  == m.mbs
           n    == m.hashLen
           src  == Key(keyLen)
           h0   == HashInit(id, m)
           h1   == HashUpdate(h0, src)
           tag  == HashTag(h1, n)
           r    == HashRestart(h1)
           blk  == CopyBlock(tag, r.buff, 0)
           h2   == [r EXCEPT !.buff = blk]
           key  == UsedKey(id, m, keyLen)
           ipad == Pad(key, "ipad", mbs)
           opad == Pad(key, "opad", mbs)
           pad  == SubSeq(ipad, 1, mbs)
           h3   == HashUpdate(h2, pad)
<1>1. /\ mbs \in 0..BUFF_SIZE /\ mbs \in Nat /\ n \in 1..BUFF_SIZE /\ n \in Nat /\ BUFF_SIZE \in Nat
      /\ mbs < LO_MOD
  BY Sizes, HashAssumption
<1>2. src \in Seq(Byte0) /\ src \in Seq(Byte) /\ Len(src) = keyLen
  <2>1. "key" \in Kinds /\ keyLen * keyLen \in Nat
    BY DEF Kinds
  <2> QED BY <2>1, KindBytes DEF Key
<1>3. Context(h0) /\ Absorbed(h0) = <<>> /\ h0.idCtx = id /\ h0.method = m
  <2>1. h0.idCtx = id /\ h0.method = m
    BY DEF HashInit
  <2> QED BY <2>1, InitContext
<1>4. NewContext(id, keyLen, m)
        = LET k == IF keyLen > mbs THEN SubSeq(h2.buff, 1, n) ELSE src
              p == Pad(k, "ipad", mbs)
          IN  [idCtx |-> id, ipadKey |-> p, opadKey |-> Pad(k, "opad", mbs),
               hashCtx |-> HashUpdate(h2, SubSeq(p, 1, mbs))]
  BY Zenon DEF NewContext
<1> HIDE DEF src, h0, mbs, n
<1>5. /\ Context(h1) /\ Absorbed(h1) = <<>> \o src
      /\ h1.idCtx = id /\ h1.method = m
  BY <1>2, <1>3, UpdateContext
<1>6. Absorbed(h1) \in Seq(Byte0)
  BY <1>2, <1>5
<1> HIDE DEF h1
<1>7. tag \in Seq(Byte1) /\ Len(tag) = n
  BY <1>1, <1>5, <1>6, TagLevel DEF Byte1
<1>8. /\ Context(r) /\ r.idx = 0 /\ r.hash = <<>> /\ r.idCtx = id /\ r.method = m
  BY <1>5, RestartContext, RestartFields
<1> HIDE DEF tag, r
<1>9. tag \in Seq(Byte) /\ r.buff \in Block /\ 0 \in Nat /\ 0 + Len(tag) <= BUFF_SIZE
  BY <1>1, <1>7, <1>8, Levels DEF Context
<1>10. blk \in Block /\ SubSeq(blk, 1, n) = tag
  <2>1. SubSeq(blk, 1, 0 + Len(tag)) = SubSeq(r.buff, 1, 0) \o tag
    BY <1>9, CopiedFront
  <2>2. SubSeq(r.buff, 1, 0) = <<>>
    BY SubSeqEmpty
  <2>3. <<>> \o tag = tag
    BY <1>9, ConcatEmptySeq
  <2>4. 0 + Len(tag) = n
    BY <1>1, <1>7
  <2>5. blk \in Block
    BY <1>9, Copied
  <2> QED BY <2>1, <2>2, <2>3, <2>4, <2>5, Zenon
<1> HIDE DEF blk
<1>11. /\ Context(h2) /\ Absorbed(h2) = <<>> /\ h2.buff = blk
       /\ h2.idCtx = id /\ h2.method = m
  BY <1>8, <1>10, Rebuffered
<1> HIDE DEF h2
<1>12. key = IF keyLen > mbs THEN SubSeq(h2.buff, 1, n) ELSE src
  BY <1>10, <1>11, Zenon DEF UsedKey, h1, h0, src, tag, n, mbs
<1>13. key \in Seq(Byte1)
  BY <1>2, <1>7, <1>10, <1>11, <1>12, Levels
<1> HIDE DEF key
<1>14. ipad \in Pads /\ opad \in Pads
  BY <1>1, <1>13, Padding
<1>15. \A j \in 1..mbs : opad[j] = Xor(Xor(ipad[j], {<<"ipad">>}), {<<"opad">>})
  BY <1>1, <1>13, PadsMatch
<1> DEFINE c == NewContext(id, keyLen, m)
<1>16. c = HmacContext(id, ipad, opad, h3)
  BY <1>4, <1>12, Zenon DEF HmacContext
<1> HIDE DEF c, ipad, opad
<1>17. pad \in Seq(Byte1) /\ pad \in Seq(Byte) /\ Len(pad) = mbs
  BY <1>1, <1>14, PadFront, Levels
<1> HIDE DEF pad
<1>18. /\ Context(h3) /\ Absorbed(h3) = <<>> \o pad
       /\ h3.idCtx = id /\ h3.method = m
  BY <1>1, <1>11, <1>17, UpdateContext
<1>19. <<>> \o pad = pad /\ pad \o <<>> = pad
  BY <1>17, ConcatEmptySeq
<1> HIDE DEF h3
<1>20. c.idCtx = id /\ c.ipadKey = ipad /\ c.opadKey = opad /\ c.hashCtx = h3
  BY <1>16 DEF HmacContext
<1>21. InnerPad(c) = pad
  BY <1>18, <1>20, Zenon DEF InnerPad, pad, mbs
<1>22. Absorbed(h3) = pad /\ pad = InnerPad(c) \o <<>>
  BY <1>18, <1>19, <1>21, Zenon
<1>23. Keyed(c)
  BY <1>14, <1>16, <1>17, <1>18, <1>20, <1>22, Zenon DEF Keyed
<1>24. OneKey(c)
  BY <1>15, <1>18, <1>20, Zenon DEF OneKey, mbs
<1>25. <<>> \in Seq(Byte1)
  OBVIOUS
<1>26. Holding(c, <<>>)
  BY <1>20, <1>22, <1>23, <1>24, <1>25, Zenon DEF Holding
<1> QED BY <1>13, <1>18, <1>20, <1>26, Zenon DEF c, key, ipad, mbs

\* The hash functions on the inner context, and what they leave alone.
InnerCalled(i, p, o, h, src) ==
  /\ InnerUpdate(HmacContext(i, p, o, h), i, src) = HmacContext(i, p, o, HashUpdate(h, src))
  /\ InnerFinal(HmacContext(i, p, o, h), i) = HmacContext(i, p, o, HashRestart(h))

\* They do their work if the inner identifier is that of the address.
LEMMA InnerSteps ==
  ASSUME NEW i, NEW p, NEW o, NEW h, h.idCtx = i, NEW src
  PROVE  InnerCalled(i, p, o, h, src)
<1> DEFINE c == HmacContext(i, p, o, h)
<1>1. c.hashCtx = h
  BY DEF HmacContext
<1>2. ASSUME NEW g PROVE [c EXCEPT !.hashCtx = g] = HmacContext(i, p, o, g)
  BY DEF HmacContext
<1> HIDE DEF c
<1>3. /\ InnerUpdate(c, i, src) = [c EXCEPT !.hashCtx = HashUpdate(h, src)]
      /\ InnerFinal(c, i) = [c EXCEPT !.hashCtx = HashRestart(h)]
  BY <1>1, Zenon DEF InnerUpdate, InnerFinal
<1> QED BY <1>2, <1>3, Zenon DEF c, InnerCalled

\* What a keyed context is made of.
LEMMA KeyedParts ==
  ASSUME NEW c, Keyed(c)
  PROVE  /\ Context(c.hashCtx) /\ c.hashCtx.method \in Methods /\ c.hashCtx.idCtx = c.idCtx
         /\ c.hashCtx.method.mbs \in 0..BUFF_SIZE /\ c.hashCtx.method.mbs \in Nat
         /\ c.hashCtx.method.hashLen \in Nat /\ c.hashCtx.method.hashLen <= BUFF_SIZE
         /\ InnerPad(c) \in Seq(Byte1) /\ InnerPad(c) \in Seq(Byte)
         /\ Len(InnerPad(c)) = c.hashCtx.method.mbs
         /\ OuterPad(c) \in Seq(Byte1) /\ OuterPad(c) \in Seq(Byte)
         /\ Len(OuterPad(c)) = c.hashCtx.method.mbs
<1> DEFINE h == c.hashCtx
           m == c.hashCtx.method
<1>1. Context(h) /\ c.ipadKey \in Pads /\ c.opadKey \in Pads /\ h.idCtx = c.idCtx
  BY DEF Keyed
<1>2. m \in Methods
  BY <1>1, Zenon DEF Context
<1>3. /\ m.mbs \in 0..BUFF_SIZE /\ m.mbs \in Nat /\ m.hashLen \in Nat /\ m.hashLen <= BUFF_SIZE
  BY <1>2, Sizes
<1>4. /\ InnerPad(c) \in Seq(Byte1) /\ Len(InnerPad(c)) = m.mbs
      /\ OuterPad(c) \in Seq(Byte1) /\ Len(OuterPad(c)) = m.mbs
  BY <1>1, <1>3, PadFront DEF InnerPad, OuterPad
<1> QED BY <1>1, <1>2, <1>3, <1>4, Levels

\* A context with another inner context of the same algorithm and identifier.
LEMMA NewInner ==
  ASSUME NEW c, Keyed(c), NEW h, Context(h), h.idCtx = c.idCtx, h.method = c.hashCtx.method,
         Absorbed(h) \in Seq(Byte1)
  PROVE  LET d == HmacContext(c.idCtx, c.ipadKey, c.opadKey, h)
         IN  /\ Keyed(d) /\ d.idCtx = c.idCtx /\ d.ipadKey = c.ipadKey /\ d.opadKey = c.opadKey
             /\ d.hashCtx = h /\ InnerPad(d) = InnerPad(c) /\ (OneKey(c) => OneKey(d))
<1> DEFINE d == HmacContext(c.idCtx, c.ipadKey, c.opadKey, h)
<1>1. d.idCtx = c.idCtx /\ d.ipadKey = c.ipadKey /\ d.opadKey = c.opadKey /\ d.hashCtx = h
  BY DEF HmacContext
<1>2. d = HmacContext(d.idCtx, d.ipadKey, d.opadKey, d.hashCtx)
  BY <1>1, Zenon
<1> HIDE DEF d
<1>3. c.ipadKey \in Pads /\ c.opadKey \in Pads
  BY DEF Keyed
<1>4. Keyed(d)
  BY <1>1, <1>2, <1>3, Zenon DEF Keyed
<1>5. InnerPad(d) = InnerPad(c)
  BY <1>1, Zenon DEF InnerPad
<1>6. OneKey(c) => OneKey(d)
  BY <1>1, Zenon DEF OneKey
<1> QED BY <1>1, <1>4, <1>5, <1>6, Zenon DEF d

\* Bytes that a context takes in after those it holds.
LEMMA HoldsMore ==
  ASSUME NEW c, NEW msg, Holding(c, msg), NEW src \in Seq(Byte1), Len(src) < LO_MOD
  PROVE  LET d == InnerUpdate(c, c.idCtx, src)
         IN  /\ Holding(d, msg \o src) /\ d.idCtx = c.idCtx /\ d.ipadKey = c.ipadKey
             /\ d.hashCtx.method = c.hashCtx.method
<1> DEFINE h == c.hashCtx
           u == HashUpdate(h, src)
           d == InnerUpdate(c, c.idCtx, src)
           pad == InnerPad(c)
           all == msg \o src
<1>1. Keyed(c) /\ OneKey(c) /\ msg \in Seq(Byte1) /\ Absorbed(h) = pad \o msg
  BY DEF Holding
<1>2. Context(h) /\ pad \in Seq(Byte1) /\ src \in Seq(Byte) /\ h.idCtx = c.idCtx
  BY <1>1, KeyedParts, Levels
<1>3. d = HmacContext(c.idCtx, c.ipadKey, c.opadKey, u)
  <2>1. c = HmacContext(c.idCtx, c.ipadKey, c.opadKey, h)
         /\ InnerCalled(c.idCtx, c.ipadKey, c.opadKey, h, src)
    BY <1>1, <1>2, InnerSteps DEF Keyed
  <2> QED BY <2>1, Zenon DEF InnerCalled
<1> HIDE DEF h
<1>4. Context(u) /\ Absorbed(u) = Absorbed(h) \o src /\ u.idCtx = h.idCtx /\ u.method = h.method
  BY <1>2, UpdateContext
<1> HIDE DEF u, pad
<1>5. all \in Seq(Byte1) /\ pad \o all \in Seq(Byte1) /\ (pad \o msg) \o src = pad \o all
  BY <1>1, <1>2
<1>6. Absorbed(u) = pad \o all /\ Absorbed(u) \in Seq(Byte1)
  BY <1>1, <1>4, <1>5, Zenon
<1> HIDE DEF all, d
<1>7. /\ Keyed(d) /\ d.idCtx = c.idCtx /\ d.ipadKey = c.ipadKey /\ d.hashCtx = u
      /\ InnerPad(d) = pad /\ OneKey(d)
  <2>1. u.idCtx = c.idCtx /\ u.method = c.hashCtx.method
    BY <1>2, <1>4 DEF h
  <2> QED BY <1>1, <1>3, <1>4, <1>6, <2>1, NewInner DEF pad
<1>8. Holding(d, all)
  BY <1>5, <1>6, <1>7, Zenon DEF Holding
<1> QED BY <1>4, <1>7, <1>8, Zenon DEF all, d, h

\* A context under other identifiers.
LEMMA HoldsRenamed ==
  ASSUME NEW c, Keyed(c), NEW id
  PROVE  LET d == Renamed(c, id)
         IN  /\ Keyed(d) /\ d.idCtx = id /\ d.ipadKey = c.ipadKey
             /\ d.hashCtx.method = c.hashCtx.method
             /\ Absorbed(d.hashCtx) = Absorbed(c.hashCtx)
             /\ \A msg : Holding(c, msg) => Holding(d, msg)
<1> DEFINE i == c.idCtx
           p == c.ipadKey
           o == c.opadKey
           h == c.hashCtx
           g == [h EXCEPT !.idCtx = id]
           d == Renamed(c, id)
<1>1. c = HmacContext(i, p, o, h) /\ Context(h) /\ p \in Pads /\ o \in Pads
      /\ Absorbed(h) \in Seq(Byte1)
  BY DEF Keyed
<1>2. d = [c EXCEPT !.idCtx = id, !.hashCtx.idCtx = id]
  BY Zenon DEF Renamed
<1> HIDE DEF i, p, o, h
<1>3. d = HmacContext(id, p, o, g)
  BY <1>1, <1>2 DEF HmacContext
<1>4. Context(g) /\ Absorbed(g) = Absorbed(h) /\ g.idCtx = id /\ g.method = h.method
  BY <1>1, MovedContext
<1> HIDE DEF g, d
<1>5. d.idCtx = id /\ d.ipadKey = p /\ d.opadKey = o /\ d.hashCtx = g
  BY <1>3 DEF HmacContext
<1>6. Keyed(d)
  BY <1>1, <1>3, <1>4, <1>5, Zenon DEF Keyed
<1>7. ASSUME NEW msg, Holding(c, msg) PROVE Holding(d, msg)
  <2>1. OneKey(c) /\ msg \in Seq(Byte1) /\ Absorbed(h) = InnerPad(c) \o msg
    BY <1>7 DEF Holding, h
  <2>2. InnerPad(d) = InnerPad(c)
    BY <1>4, <1>5, Zenon DEF InnerPad, p, h
  <2>3. OneKey(d)
    BY <1>4, <1>5, <2>1, Zenon DEF OneKey, p, o, h
  <2> QED BY <1>4, <1>5, <1>6, <2>1, <2>2, <2>3, Zenon DEF Holding
<1> QED BY <1>4, <1>5, <1>6, <1>7, Zenon DEF d, p, h

\* The outer hash context of a finished HMAC: of its algorithm, over the outer pad and the inner
\* digest.
Outer(c, g) ==
  /\ Context(g) /\ g.method = c.hashCtx.method
  /\ Absorbed(g) = OuterPad(c) \o HashTag(c.hashCtx, c.hashCtx.method.hashLen)

\* Finishing leaves a context of the same key that holds the empty message, and gives the digest
\* of the outer context.
LEMMA Finished ==
  ASSUME BUFF_SIZE < LO_MOD, NEW c, NEW msg, Holding(c, msg)
  PROVE  LET f == Finish(c, c.idCtx)
         IN  /\ Holding(f.ctx, <<>>) /\ f.ctx.idCtx = c.idCtx /\ f.ctx.ipadKey = c.ipadKey
             /\ f.ctx.hashCtx.method = c.hashCtx.method
             /\ \E g : Outer(c, g) /\ f.md = HashTag(g, c.hashCtx.method.hashLen)
<1> DEFINE i  == c.idCtx
           h  == c.hashCtx
           m  == h.method
           n  == m.hashLen
           ip == InnerPad(c)
           op == OuterPad(c)
           tg == HashTag(h, n)
           R(k) == HmacContext(i, c.ipadKey, c.opadKey, k)
           h1 == HashRestart(h)
           h2 == HashUpdate(h1, op)
           h3 == HashUpdate(h2, tg)
           h4 == HashRestart(h3)
           h5 == HashUpdate(h4, ip)
<1>1. /\ Keyed(c) /\ OneKey(c) /\ BUFF_SIZE \in Nat /\ Absorbed(h) \in Seq(Byte1)
  BY HashAssumption DEF Holding, Keyed
<1>2. /\ Context(h) /\ m \in Methods /\ h.idCtx = i /\ n \in Nat /\ n < LO_MOD
      /\ ip \in Seq(Byte1) /\ ip \in Seq(Byte) /\ Len(ip) < LO_MOD
      /\ op \in Seq(Byte1) /\ op \in Seq(Byte) /\ Len(op) < LO_MOD
  <2>1. LO_MOD \in Nat /\ BUFF_SIZE \in Nat
    BY HashAssumption
  <2> HIDE DEF n, m, h, ip, op
  <2>2. /\ Context(h) /\ m \in Methods /\ h.idCtx = i /\ m.mbs \in 0..BUFF_SIZE
        /\ n \in Nat /\ n <= BUFF_SIZE
        /\ ip \in Seq(Byte1) /\ ip \in Seq(Byte) /\ Len(ip) = m.mbs
        /\ op \in Seq(Byte1) /\ op \in Seq(Byte) /\ Len(op) = m.mbs
    BY <1>1, KeyedParts DEF n, m, h, ip, op
  <2>3. n < LO_MOD /\ Len(ip) < LO_MOD /\ Len(op) < LO_MOD
    BY <2>1, <2>2
  <2> QED BY <2>2, <2>3
<1>3. tg \in Seq(Byte) /\ Len(tg) = n
  <2> HIDE DEF h, n
  <2>1. Byte0 \subseteq Byte1
    BY Levels
  <2> QED BY <1>1, <1>2, <2>1, TagLevel DEF Byte
<1> HIDE DEF ip, op, tg, n
<1>4. Context(h1) /\ h1.idCtx = i /\ h1.method = m /\ Absorbed(h1) = <<>>
  <2> HIDE DEF h
  <2> QED BY <1>2, RestartContext, RestartFields
<1> HIDE DEF h1, m
<1>5. Context(h2) /\ h2.idCtx = i /\ h2.method = m /\ Absorbed(h2) = <<>> \o op
  BY <1>2, <1>4, UpdateContext
<1> HIDE DEF h2
<1>6. Context(h3) /\ h3.idCtx = i /\ h3.method = m /\ Absorbed(h3) = Absorbed(h2) \o tg
  BY <1>2, <1>3, <1>5, UpdateContext
<1> HIDE DEF h3
<1>7. Context(h4) /\ h4.idCtx = i /\ h4.method = m /\ Absorbed(h4) = <<>>
  BY <1>6, RestartContext, RestartFields
<1> HIDE DEF h4
<1>8. Context(h5) /\ h5.idCtx = i /\ h5.method = m /\ Absorbed(h5) = <<>> \o ip
  BY <1>2, <1>7, UpdateContext
<1> HIDE DEF h5
<1>9. <<>> \o op = op /\ <<>> \o ip = ip /\ ip \o <<>> = ip
  BY <1>2, ConcatEmptySeq
<1>10. /\ Absorbed(h3) = op \o tg /\ Absorbed(h5) = ip /\ op \o tg \in Seq(Byte)
  BY <1>2, <1>3, <1>5, <1>6, <1>8, <1>9
<1> DEFINE c0 == R(h)
           c1 == InnerFinal(c, i)
           c2 == InnerUpdate(c1, i, op)
           c3 == InnerUpdate(c2, i, tg)
           c4 == InnerFinal(c3, i)
           c5 == InnerUpdate(c4, i, ip)
           f  == Finish(c, i)
<1>11. c = R(h)
  BY <1>1 DEF Keyed
<1>12. f = [ctx |-> c5, md |-> HashTag(c3.hashCtx, c3.hashCtx.method.hashLen)]
  <2>1. \A k : InnerDigest(k) = HashTag(k.hashCtx, k.hashCtx.method.hashLen)
    BY Zenon DEF InnerDigest
  <2>2. InnerDigest(c) = tg
    BY <2>1, Zenon DEF tg, n, m
  <2>3. f = LET x3 == InnerUpdate(InnerUpdate(c1, i, op), i, InnerDigest(c))
            IN  [ctx |-> InnerUpdate(InnerFinal(x3, i), i, ip), md |-> InnerDigest(x3)]
    BY Zenon DEF Finish, ip, op, InnerPad, OuterPad
  <2> QED BY <2>1, <2>2, <2>3, Zenon
<1> HIDE DEF h, i
<1>13. c1 = R(h1)
  <2>1. InnerCalled(i, c.ipadKey, c.opadKey, h, <<>>)
    BY <1>2, InnerSteps
  <2> QED BY <1>11, <2>1, Zenon DEF InnerCalled, h1
<1>14. c2 = R(h2)
  <2>1. InnerCalled(i, c.ipadKey, c.opadKey, h1, op)
    BY <1>4, InnerSteps
  <2> QED BY <1>13, <2>1, Zenon DEF InnerCalled, h2
<1>15. c3 = R(h3)
  <2>1. InnerCalled(i, c.ipadKey, c.opadKey, h2, tg)
    BY <1>5, InnerSteps
  <2> QED BY <1>14, <2>1, Zenon DEF InnerCalled, h3
<1>16. c4 = R(h4)
  <2>1. InnerCalled(i, c.ipadKey, c.opadKey, h3, <<>>)
    BY <1>6, InnerSteps
  <2> QED BY <1>15, <2>1, Zenon DEF InnerCalled, h4
<1>17. c5 = R(h5)
  <2>1. InnerCalled(i, c.ipadKey, c.opadKey, h4, ip)
    BY <1>7, InnerSteps
  <2> QED BY <1>16, <2>1, Zenon DEF InnerCalled, h5
<1> HIDE DEF c1, c2, c3, c4, c5, f
<1>18. f.ctx = R(h5) /\ f.md = HashTag(h3, n)
  <2>1. c3.hashCtx = h3
    BY <1>15 DEF HmacContext
  <2>2. f.ctx = c5 /\ f.md = HashTag(c3.hashCtx, c3.hashCtx.method.hashLen)
    BY <1>12
  <2>3. f.md = HashTag(h3, n)
    BY <1>6, <2>1, <2>2, Zenon DEF n
  <2> QED BY <1>17, <2>2, <2>3, Zenon
<1>19. Outer(c, h3)
  BY <1>6, <1>10, Zenon DEF Outer, op, tg, n, m, h
<1> DEFINE d == f.ctx
<1>20. /\ Keyed(d) /\ d.idCtx = i /\ d.ipadKey = c.ipadKey /\ d.hashCtx = h5
       /\ InnerPad(d) = ip /\ OneKey(d)
  <2>1. Absorbed(h5) \in Seq(Byte1) /\ h5.idCtx = c.idCtx /\ h5.method = c.hashCtx.method
    BY <1>2, <1>8, <1>10 DEF i, m, h
  <2>2. d = HmacContext(c.idCtx, c.ipadKey, c.opadKey, h5)
    BY <1>18 DEF i
  <2> HIDE DEF d
  <2> QED BY <1>1, <1>8, <2>1, <2>2, NewInner DEF ip, i
<1> HIDE DEF d
<1>21. <<>> \in Seq(Byte1) /\ Absorbed(h5) = ip \o <<>>
  BY <1>9, <1>10
<1>22. Holding(d, <<>>)
  BY <1>20, <1>21, Zenon DEF Holding
<1>23. d.hashCtx.method = c.hashCtx.method
  BY <1>8, <1>20, Zenon DEF m, h
<1> QED BY <1>18, <1>19, <1>20, <1>22, <1>23, Zenon DEF d, f, i, n, m, h

\* What may lie at an address: a context that was never keyed, or one that holds a message within
\* the bound.
StoredHmac(c) ==
  /\ Keyed(c) /\ c.idCtx \in HmacIds
  /\ c.idCtx # "none" => Holding(c, MsgOf(c)) /\ Len(MsgOf(c)) <= HMAC_MAX_MSG

HmacInv == hmMem = [a \in HmacAddrs |-> hmMem[a]] /\ \A a \in HmacAddrs : StoredHmac(hmMem[a])

\* The message as HMAC reads it off a context.
LEMMA MessageHeld ==
  ASSUME NEW c, NEW msg, Holding(c, msg)
  PROVE  MsgOf(c) = msg /\ HmacMsgLen(c) = Len(msg) /\ Len(msg) \in Nat
<1> DEFINE pad == InnerPad(c)
           n   == c.hashCtx.method.mbs
           all == Absorbed(c.hashCtx)
<1>1. /\ pad \in Seq(Byte1) /\ Len(pad) = n /\ msg \in Seq(Byte1) /\ all = pad \o msg
      /\ n \in Nat
  BY KeyedParts DEF Holding
<1>2. MsgOf(c) = SubSeq(all, n + 1, Len(all)) /\ HmacMsgLen(c) = Len(all) - n
  BY Zenon DEF MsgOf, HmacMsgLen
<1> HIDE DEF pad, n, all
<1>3. SubSeq(pad \o msg, n + 1, Len(pad \o msg)) = msg
  BY <1>1, Uncut
<1>4. Len(pad \o msg) = Len(pad) + Len(msg) /\ Len(msg) \in Nat
  BY <1>1, Joined
<1>5. HmacMsgLen(c) = Len(msg)
  <2>1. Len(all) = n + Len(msg)
    BY <1>1, <1>4
  <2> QED BY <1>1, <1>2, <1>4, <2>1
<1> QED BY <1>1, <1>2, <1>3, <1>4, <1>5, Zenon

\* A context that holds a short message may be stored under the identifiers of the module.
LEMMA MayBeStored ==
  ASSUME NEW c, NEW msg, Holding(c, msg), Len(msg) <= HMAC_MAX_MSG, c.idCtx \in HmacIds
  PROVE  StoredHmac(c)
<1>1. MsgOf(c) = msg
  BY MessageHeld
<1>2. Keyed(c)
  BY DEF Holding
<1> QED BY <1>1, <1>2, Zenon DEF StoredHmac

\* One address's bytes are replaced by those of a context.
LEMMA ReplacedHmac ==
  ASSUME HmacInv, NEW a \in HmacAddrs, NEW c, StoredHmac(c), hmMem' = [hmMem EXCEPT ![a] = c]
  PROVE  HmacInv' /\ hmMem'[a] = c /\ \A b \in HmacAddrs \ {a} : hmMem'[b] = hmMem[b]
<1>1. hmMem = [b \in HmacAddrs |-> hmMem[b]] /\ \A b \in HmacAddrs : StoredHmac(hmMem[b])
  BY DEF HmacInv
<1>2. DOMAIN hmMem = HmacAddrs
  BY <1>1
<1>3. DOMAIN hmMem' = HmacAddrs /\ hmMem'[a] = c /\ \A b \in HmacAddrs \ {a} : hmMem'[b] = hmMem[b]
  BY <1>2
<1>4. hmMem' = [b \in HmacAddrs |-> hmMem'[b]]
  BY <1>2
<1>5. \A b \in HmacAddrs : StoredHmac(hmMem'[b])
  BY <1>1, <1>3
<1>6. HmacInv'
  BY <1>4, <1>5, Zenon DEF HmacInv
<1> QED BY <1>3, <1>6

\* The bytes at an address.
LEMMA HeldHmac ==
  ASSUME HmacInv, NEW a \in HmacAddrs
  PROVE  /\ StoredHmac(hmMem[a]) /\ Keyed(hmMem[a]) /\ hmMem[a].idCtx \in HmacIds
         /\ hmMem[a].idCtx # "none" =>
              Holding(hmMem[a], MsgOf(hmMem[a])) /\ Len(MsgOf(hmMem[a])) <= HMAC_MAX_MSG
<1>1. StoredHmac(hmMem[a])
  BY DEF HmacInv
<1> QED BY <1>1, Zenon DEF StoredHmac

\* Init keys a context.
LEMMA CreateStores ==
  ASSUME NEW id \in HmacIds, NEW m \in Methods, NEW keyLen \in HmacKeyLens, ~(keyLen < 0)
  PROVE  StoredHmac(NewContext(id, keyLen, m))
<1> DEFINE c == NewContext(id, keyLen, m)
<1>1. keyLen \in Nat /\ keyLen < LO_MOD /\ BUFF_SIZE < LO_MOD
  BY HmacAssumption
<1>2. Holding(c, <<>>) /\ c.idCtx = id
  BY <1>1, NewHolds
<1>3. Len(<<>>) <= HMAC_MAX_MSG
  BY HmacAssumption
<1> HIDE DEF c
<1> QED BY <1>2, <1>3, MayBeStored DEF c

\* What a successful update leaves.
LEMMA UpdateStoresHmac ==
  ASSUME HmacInv, NEW a \in HmacAddrs, NEW len \in HmacCallLens, ~(len < 0),
         hmMem[a].idCtx = a, HmacMsgLen(hmMem[a]) + len <= HMAC_MAX_MSG
  PROVE  LET msg == MsgOf(hmMem[a])
             src == Data("in", Len(msg), len)
             d   == InnerUpdate(hmMem[a], a, Data("in", HmacMsgLen(hmMem[a]), len))
         IN  /\ Holding(hmMem[a], msg) /\ StoredHmac(d) /\ Holding(d, msg \o src)
             /\ d.idCtx = a /\ d.ipadKey = hmMem[a].ipadKey
             /\ d.hashCtx.method = hmMem[a].hashCtx.method
             /\ len \in Nat /\ Len(msg) + len <= HMAC_MAX_MSG /\ Len(msg) \in Nat
<1> DEFINE c   == hmMem[a]
           msg == MsgOf(c)
           src == Data("in", Len(msg), len)
           d   == InnerUpdate(c, a, Data("in", HmacMsgLen(c), len))
           all == msg \o src
<1>1. len \in Nat /\ len < LO_MOD
  BY HmacAssumption
<1>2. Holding(c, msg) /\ c.idCtx = a /\ a \in HmacIds
  BY HeldHmac, HmacAssumption DEF HmacIds
<1> HIDE DEF c, msg
<1>3. Len(msg) \in Nat /\ HmacMsgLen(c) = Len(msg)
  BY <1>2, MessageHeld
<1>4. Len(msg) + len <= HMAC_MAX_MSG
  BY <1>3 DEF c
<1>5. src \in Seq(Byte0) /\ Len(src) = len
  <2>1. "in" \in Kinds
    BY DEF Kinds
  <2> QED BY <1>1, <1>3, <2>1, KindBytes
<1>6. Data("in", HmacMsgLen(c), len) = src
  BY <1>3, Zenon
<1> HIDE DEF src
<1>7. src \in Seq(Byte1) /\ Len(src) < LO_MOD
  BY <1>1, <1>5, Levels
<1>8. d = InnerUpdate(c, c.idCtx, src)
  BY <1>2, <1>6, Zenon
<1> DEFINE e == InnerUpdate(c, c.idCtx, src)
<1>9. /\ Holding(e, all) /\ e.idCtx = c.idCtx /\ e.ipadKey = c.ipadKey
      /\ e.hashCtx.method = c.hashCtx.method
  BY <1>2, <1>7, HoldsMore
<1>10. Len(all) <= HMAC_MAX_MSG
  <2>1. msg \in Seq(Byte1)
    BY <1>2 DEF Holding
  <2>2. Len(all) = Len(msg) + Len(src)
    BY <1>7, <2>1, Joined
  <2> QED BY <1>4, <1>5, <2>2
<1> HIDE DEF d, e, all
<1>11. StoredHmac(e)
  BY <1>2, <1>9, <1>10, MayBeStored
<1>12. e = d
  BY <1>8 DEF e
<1> QED BY <1>1, <1>2, <1>3, <1>4, <1>9, <1>11, <1>12, Zenon DEF c, d, all, src, msg

\* What a successful Final leaves.
LEMMA FinalStores ==
  ASSUME HmacInv, NEW a \in HmacAddrs, hmMem[a].idCtx = a
  PROVE  LET f   == Finish(hmMem[a], a)
             msg == MsgOf(hmMem[a])
         IN  /\ Holding(hmMem[a], msg) /\ StoredHmac(f.ctx) /\ Holding(f.ctx, <<>>)
             /\ f.ctx.idCtx = a /\ f.ctx.ipadKey = hmMem[a].ipadKey
             /\ f.ctx.hashCtx.method = hmMem[a].hashCtx.method
             /\ \E g : Outer(hmMem[a], g) /\ f.md = HashTag(g, hmMem[a].hashCtx.method.hashLen)
<1> DEFINE c   == hmMem[a]
           msg == MsgOf(c)
           f   == Finish(c, a)
<1>1. Holding(c, msg) /\ c.idCtx = a /\ a \in HmacIds /\ BUFF_SIZE < LO_MOD
  BY HeldHmac, HmacAssumption DEF HmacIds
<1> HIDE DEF c, msg
<1>2. LET e == Finish(c, c.idCtx)
      IN  /\ Holding(e.ctx, <<>>) /\ e.ctx.idCtx = c.idCtx /\ e.ctx.ipadKey = c.ipadKey
          /\ e.ctx.hashCtx.method = c.hashCtx.method
          /\ \E g : Outer(c, g) /\ e.md = HashTag(g, c.hashCtx.method.hashLen)
  BY <1>1, Finished
<1>3. /\ Holding(f.ctx, <<>>) /\ f.ctx.idCtx = a /\ f.ctx.ipadKey = c.ipadKey
      /\ f.ctx.hashCtx.method = c.hashCtx.method
      /\ \E g : Outer(c, g) /\ f.md = HashTag(g, c.hashCtx.method.hashLen)
  BY <1>1, <1>2, Zenon
<1>4. Len(<<>>) <= HMAC_MAX_MSG
  BY HmacAssumption
<1> DEFINE d == f.ctx
<1>5. Holding(d, <<>>) /\ d.idCtx \in HmacIds
  BY <1>1, <1>3
<1> HIDE DEF d, f
<1>6. StoredHmac(d)
  BY <1>4, <1>5, MayBeStored
<1> QED BY <1>1, <1>3, <1>6, Zenon DEF c, d, f, msg

\* A context under another identifier may be stored, but for one never keyed it keeps to "none".
LEMMA RenamedStores ==
  ASSUME NEW c, StoredHmac(c), c.idCtx # "none", NEW id \in HmacIds
  PROVE  StoredHmac(Renamed(c, id))
<1> DEFINE msg == MsgOf(c)
           d   == Renamed(c, id)
<1>1. Keyed(c) /\ Holding(c, msg) /\ Len(msg) <= HMAC_MAX_MSG
  BY DEF StoredHmac
<1> HIDE DEF msg
<1>2. d.idCtx = id /\ \A s : Holding(c, s) => Holding(d, s)
  BY <1>1, HoldsRenamed
<1>3. Holding(d, msg)
  BY <1>1, <1>2
<1> HIDE DEF d
<1>4. StoredHmac(d)
  BY <1>1, <1>2, <1>3, MayBeStored
<1> QED BY <1>4 DEF d

\* At first no address holds a keyed context.
LEMMA InitHoldsHmac == ASSUME HmacInit PROVE HmacInv
<1>1. PICK m \in HmacMethods :
        hmMem = [a \in HmacAddrs |-> [idCtx |-> "none", ipadKey |-> ZeroBlock(BUFF_SIZE),
                                opadKey |-> ZeroBlock(BUFF_SIZE), hashCtx |-> HashInit("none", m)]]
  BY Zenon DEF HmacInit
<1> m \in Methods
  BY HmacAssumption
<1> DEFINE z == ZeroBlock(BUFF_SIZE)
           h == HashInit("none", m)
           c == HmacContext("none", z, z, h)
<1>2. z \in Pads
  <2>1. {} \in Byte1
    BY ZeroByte, Levels
  <2> QED BY <2>1 DEF Pads, ZeroBlock
<1>3. Context(h) /\ Absorbed(h) = <<>> /\ h.idCtx = "none"
  <2>1. h.idCtx = "none"
    BY DEF HashInit
  <2> QED BY <2>1, InitContext
<1> HIDE DEF z, h
<1>4. c.idCtx = "none" /\ c.ipadKey = z /\ c.opadKey = z /\ c.hashCtx = h
  BY DEF HmacContext
<1>5. c = HmacContext(c.idCtx, c.ipadKey, c.opadKey, c.hashCtx)
  BY <1>4, Zenon
<1>6. hmMem = [a \in HmacAddrs |-> c]
  BY <1>1 DEF HmacContext, z, h
<1> HIDE DEF c
<1>7. <<>> \in Seq(Byte1) /\ "none" \in HmacIds
  BY DEF HmacIds
<1>8. Keyed(c)
  BY <1>2, <1>3, <1>4, <1>5, <1>7, Zenon DEF Keyed
<1>9. StoredHmac(c)
  BY <1>4, <1>7, <1>8, Zenon DEF StoredHmac
<1> QED BY <1>6, <1>9 DEF HmacInv

\* Nothing is keyed or moved.
LEMMA UnchangedHmac == ASSUME HmacInv, UNCHANGED hmMem PROVE HmacInv'
<1>1. hmMem = [a \in HmacAddrs |-> hmMem[a]] /\ \A a \in HmacAddrs : StoredHmac(hmMem[a])
  BY DEF HmacInv
<1>2. hmMem' = [a \in HmacAddrs |-> hmMem'[a]] /\ \A a \in HmacAddrs : StoredHmac(hmMem'[a])
  BY <1>1, Zenon
<1> QED BY <1>2, Zenon DEF HmacInv

\* Init keys a context, or is refused.
LEMMA CreateHolds ==
  ASSUME HmacInv, NEW a \in HmacAddrs, NEW m \in Methods, NEW keyLen \in HmacKeyLens,
         HmacCreate(a, keyLen, m)
  PROVE  HmacInv'
<1>1. CASE keyLen < 0
  BY <1>1, UnchangedHmac DEF HmacCreate
<1>2. CASE ~(keyLen < 0)
  <2> DEFINE c == NewContext(a, keyLen, m)
  <2>1. hmMem' = [hmMem EXCEPT ![a] = c]
    BY <1>2 DEF HmacCreate
  <2>2. StoredHmac(c)
    BY <1>2, CreateStores DEF HmacIds
  <2> HIDE DEF c
  <2> QED BY <2>1, <2>2, ReplacedHmac
<1> QED BY <1>1, <1>2

\* Update without an error has a valid context and a length.
UpdatePassed(a, len) ==
  hmMem[a].idCtx = a /\ ~(len < 0) /\ HmacMsgLen(hmMem[a]) + len <= HMAC_MAX_MSG

\* The statuses of Update.
LEMMA UpdateCases ==
  ASSUME NEW a, NEW hasPtr, NEW len, HmacUpdate(a, hasPtr, len)
  PROVE  \/ /\ UpdatePassed(a, len) /\ hmOut' = HmacReturns("ippStsNoErr")
            /\ hmMem' = [hmMem EXCEPT ![a] =
                         InnerUpdate(@, a, Data("in", HmacMsgLen(hmMem[a]), len))]
         \/ /\ UNCHANGED hmMem
            /\ \E status \in {"ippStsContextMatchErr", "ippStsLengthErr", "ippStsNullPtrErr"} :
                 hmOut' = HmacReturns(status)
<1> DEFINE status == IF ~(hmMem[a].idCtx = a) THEN "ippStsContextMatchErr"
                     ELSE IF len < 0 THEN "ippStsLengthErr"
                     ELSE IF len # 0 /\ ~hasPtr THEN "ippStsNullPtrErr"
                     ELSE IF len # 0 /\ hmMem[a].hashCtx.idCtx # a THEN "ippStsContextMatchErr"
                     ELSE "ippStsNoErr"
           new == [hmMem EXCEPT ![a] = InnerUpdate(@, a, Data("in", HmacMsgLen(hmMem[a]), len))]
<1>1. /\ HmacMsgLen(hmMem[a]) + len <= HMAC_MAX_MSG /\ hmOut' = HmacReturns(status)
      /\ IF status = "ippStsNoErr" THEN hmMem' = new ELSE UNCHANGED hmMem
  BY Zenon DEF HmacUpdate, HMAC_VALID_ID
<1> HIDE DEF new
<1>2. CASE status = "ippStsNoErr"
  <2>1. hmMem[a].idCtx = a /\ ~(len < 0)
    BY <1>2
  <2> QED BY <1>1, <1>2, <2>1, Zenon DEF new, UpdatePassed
<1>3. CASE status # "ippStsNoErr"
  <2>1. status \in {"ippStsContextMatchErr", "ippStsLengthErr", "ippStsNullPtrErr"}
    BY <1>3
  <2> HIDE DEF status
  <2> QED BY <1>1, <1>3, <2>1, Zenon
<1> QED BY <1>2, <1>3

\* Update appends to a context, or is refused.
LEMMA UpdateHolds ==
  ASSUME HmacInv, NEW a \in HmacAddrs, NEW hasPtr, NEW len \in HmacCallLens,
         HmacUpdate(a, hasPtr, len)
  PROVE  HmacInv'
<1> DEFINE d == InnerUpdate(hmMem[a], a, Data("in", HmacMsgLen(hmMem[a]), len))
<1>1. \/ UpdatePassed(a, len) /\ hmMem' = [hmMem EXCEPT ![a] = d]
      \/ UNCHANGED hmMem
  <2>1. DOMAIN hmMem = HmacAddrs
    BY DEF HmacInv
  <2> QED BY <2>1, UpdateCases
<1>2. UpdatePassed(a, len) => StoredHmac(d)
  BY UpdateStoresHmac DEF UpdatePassed
<1> HIDE DEF d
<1> QED BY <1>1, <1>2, ReplacedHmac, UnchangedHmac

\* The statuses of Final.
LEMMA FinalCases ==
  ASSUME NEW a, NEW mdLen, HmacFinal(a, mdLen)
  PROVE  \/ /\ hmMem[a].idCtx = a /\ ~(mdLen <= 0) /\ ~(mdLen > hmMem[a].hashCtx.method.hashLen)
            /\ hmMem' = [hmMem EXCEPT ![a] = Finish(hmMem[a], a).ctx]
            /\ hmOut' = HmacTag(SubSeq(Finish(hmMem[a], a).md, 1, mdLen))
         \/ /\ UNCHANGED hmMem
            /\ \E status \in {"ippStsContextMatchErr", "ippStsLengthErr"} :
                 hmOut' = HmacReturns(status)
<1> DEFINE status == FinalStatus(hmMem[a], a, mdLen)
           f == Finish(hmMem[a], a)
<1>1. IF status = "ippStsNoErr"
      THEN hmMem' = [hmMem EXCEPT ![a] = f.ctx] /\ hmOut' = HmacTag(SubSeq(f.md, 1, mdLen))
      ELSE hmOut' = HmacReturns(status) /\ UNCHANGED hmMem
  BY Zenon DEF HmacFinal
<1>2. \/ /\ status = "ippStsNoErr" /\ hmMem[a].idCtx = a /\ ~(mdLen <= 0)
         /\ ~(mdLen > hmMem[a].hashCtx.method.hashLen)
      \/ status # "ippStsNoErr" /\ status \in {"ippStsContextMatchErr", "ippStsLengthErr"}
  BY DEF FinalStatus, HMAC_VALID_ID
<1> HIDE DEF status, f
<1> QED BY <1>1, <1>2, Zenon DEF f

\* Final makes a context ready for another message, or is refused.
LEMMA FinalHolds ==
  ASSUME HmacInv, NEW a \in HmacAddrs, NEW mdLen, HmacFinal(a, mdLen)
  PROVE  HmacInv'
<1> DEFINE d == Finish(hmMem[a], a).ctx
<1>1. \/ hmMem[a].idCtx = a /\ hmMem' = [hmMem EXCEPT ![a] = d]
      \/ UNCHANGED hmMem
  BY FinalCases, Zenon
<1>2. hmMem[a].idCtx = a => StoredHmac(d)
  BY FinalStores
<1> HIDE DEF d
<1> QED BY <1>1, <1>2, ReplacedHmac, UnchangedHmac

\* Duplicate, Pack and Unpack rename a context that was keyed.
LEMMA MoveCases ==
  ASSUME "none" \notin HmacAddrs, NEW a \in HmacAddrs, NEW b \in HmacAddrs,
         \/ HmacDuplicate(a, b) \/ HmacUnpack(a, b)
         \/ \E bufSizeOk \in BOOLEAN : HmacPack(a, b, bufSizeOk)
  PROVE  \/ /\ hmMem[a].idCtx # "none"
            /\ \E id \in {b, "packed"} : hmMem' = [hmMem EXCEPT ![b] = Renamed(hmMem[a], id)]
         \/ UNCHANGED hmMem
<1>1. CASE HmacDuplicate(a, b)
  BY <1>1 DEF HmacDuplicate, HMAC_VALID_ID
<1>2. CASE HmacUnpack(a, b)
  BY <1>2 DEF HmacUnpack
<1>3. CASE \E bufSizeOk \in BOOLEAN : HmacPack(a, b, bufSizeOk)
  BY <1>3 DEF HmacPack, HMAC_VALID_ID
<1> QED BY <1>1, <1>2, <1>3

\* A renamed context is stored, or nothing is.
LEMMA MoveHolds ==
  ASSUME HmacInv, NEW a \in HmacAddrs, NEW b \in HmacAddrs,
         \/ HmacDuplicate(a, b) \/ HmacUnpack(a, b)
         \/ \E bufSizeOk \in BOOLEAN : HmacPack(a, b, bufSizeOk)
  PROVE  HmacInv'
<1>1. \/ /\ hmMem[a].idCtx # "none"
         /\ \E id \in {b, "packed"} : hmMem' = [hmMem EXCEPT ![b] = Renamed(hmMem[a], id)]
      \/ UNCHANGED hmMem
  BY MoveCases, HmacAssumption
<1>2. ASSUME NEW id \in {b, "packed"}, hmMem[a].idCtx # "none",
             hmMem' = [hmMem EXCEPT ![b] = Renamed(hmMem[a], id)]
      PROVE  HmacInv'
  <2> DEFINE d == Renamed(hmMem[a], id)
  <2>1. id \in HmacIds /\ StoredHmac(hmMem[a])
    BY HeldHmac DEF HmacIds
  <2>2. StoredHmac(d)
    BY <1>2, <2>1, RenamedStores
  <2>3. hmMem' = [hmMem EXCEPT ![b] = d]
    BY <1>2
  <2> HIDE DEF d
  <2> QED BY <2>2, <2>3, ReplacedHmac
<1> QED BY <1>1, <1>2, UnchangedHmac

\* The caller's copy of the bytes of a context is one.
LEMMA CopyHolds ==
  ASSUME HmacInv, NEW a \in HmacAddrs, NEW b \in HmacAddrs, HmacCopy(a, b) PROVE HmacInv'
<1> DEFINE c == hmMem[a]
<1>1. hmMem' = [hmMem EXCEPT ![b] = c] /\ StoredHmac(c)
  BY HeldHmac DEF HmacCopy
<1> HIDE DEF c
<1> QED BY <1>1, ReplacedHmac

\* No call leaves anything else.
LEMMA NextHoldsHmac == ASSUME HmacInv, [HmacNext]_hmVars PROVE HmacInv'
<1> DEFINE moves(a, b) ==
      \/ HmacDuplicate(a, b) \/ HmacUnpack(a, b)
      \/ \E bufSizeOk \in BOOLEAN : HmacPack(a, b, bufSizeOk)
<1>1. CASE UNCHANGED hmVars
  BY <1>1, UnchangedHmac DEF hmVars
<1>2. ASSUME NEW m \in HmacMethods, NEW keyLen \in HmacKeyLens, NEW hasPtr, NEW len, NEW mdLen,
             HmacMessage(m, keyLen, hasPtr, len, mdLen)
      PROVE  HmacInv'
  BY <1>2, UnchangedHmac DEF HmacMessage
<1>3. ASSUME NEW a, NEW mdLen, HmacGetTag(a, mdLen) PROVE HmacInv'
  BY <1>3, UnchangedHmac DEF HmacGetTag
<1>4. \A a, b \in HmacAddrs : moves(a, b) => HmacInv'
  BY MoveHolds
<1>5. CASE HmacNext
  <2>1. \/ \E m \in HmacMethods, keyLen \in HmacKeyLens :
             \/ \E a \in HmacAddrs : HmacCreate(a, keyLen, m)
             \/ \E hasPtr \in BOOLEAN, len \in HmacCallLens, mdLen \in HmacMdLens :
                  HmacMessage(m, keyLen, hasPtr, len, mdLen)
        \/ \E a \in HmacAddrs :
             \/ \E hasPtr \in BOOLEAN, len \in HmacCallLens : HmacUpdate(a, hasPtr, len)
             \/ \E mdLen \in HmacMdLens : HmacFinal(a, mdLen) \/ HmacGetTag(a, mdLen)
        \/ \E a, b \in HmacAddrs : moves(a, b) \/ HmacCopy(a, b)
    BY <1>5 DEF HmacNext
  <2> HIDE DEF moves
  <2>2. \A m \in HmacMethods : m \in Methods
    BY HmacAssumption
  <2> QED BY <1>2, <1>3, <1>4, <2>1, <2>2, CreateHolds, UpdateHolds, FinalHolds, CopyHolds
<1> QED BY <1>1, <1>5

\* What the invariant implies.
LEMMA PadsAbsorbed == ASSUME HmacInv PROVE PadAbsorbed
<1>1. ASSUME NEW a \in HmacAddrs
      PROVE  LET h == hmMem[a].hashCtx IN
             /\ h.idCtx = hmMem[a].idCtx
             /\ hmMem[a].idCtx # "none" =>
                  /\ Len(Absorbed(h)) >= h.method.mbs
                  /\ SubSeq(Absorbed(h), 1, h.method.mbs) = SubSeq(hmMem[a].ipadKey, 1, h.method.mbs)
                  /\ h.idx = Len(Absorbed(h)) % h.method.mbs
                  /\ LengthCounted(h)
  <2> DEFINE c   == hmMem[a]
             h   == c.hashCtx
             n   == h.method.mbs
             pad == InnerPad(c)
             msg == MsgOf(c)
             all == Absorbed(h)
  <2>1. Keyed(c) /\ (c.idCtx # "none" => Holding(c, msg))
    BY HeldHmac
  <2> HIDE DEF c, msg
  <2>2. Context(h) /\ h.idCtx = c.idCtx /\ pad \in Seq(Byte1) /\ Len(pad) = n /\ n \in Nat
    BY <2>1, KeyedParts
  <2> HIDE DEF h
  <2>3. h.idx = Len(Absorbed(h)) % n /\ LengthCounted(h)
    BY <2>2, Absorbs, Zenon DEF Context
  <2>4. ASSUME c.idCtx # "none" PROVE Len(all) >= n /\ SubSeq(all, 1, n) = pad
    <3>1. msg \in Seq(Byte1) /\ all = pad \o msg
      BY <2>1, <2>4 DEF Holding, h
    <3> HIDE DEF pad, n, all
    <3>2. SubSeq(pad \o msg, 1, n) = pad
      BY <2>2, <3>1, Uncut
    <3>3. Len(pad \o msg) = Len(pad) + Len(msg) /\ Len(msg) \in Nat
      BY <2>2, <3>1, Joined
    <3>4. Len(all) = n + Len(msg)
      BY <2>2, <3>1, <3>3
    <3>5. Len(all) >= n
      BY <2>2, <3>3, <3>4
    <3> QED BY <3>1, <3>2, <3>5, Zenon
  <2>5. pad = SubSeq(c.ipadKey, 1, n)
    BY Zenon DEF pad, InnerPad, n, h
  <2> QED BY <2>2, <2>3, <2>4, <2>5, Zenon DEF c, h, n, all
<1> QED BY <1>1, Zenon DEF PadAbsorbed

\* In every reachable state a keyed HMAC context has absorbed its own inner pad and then a message,
\* with the length of both, and the outer and the inner identifier are one: after every Init,
\* Update, Final, copy, pack and unpack, for any number of addresses, algorithms and lengths, so
\* that the return values HMAC functions do not look at are always success.
THEOREM PadsStay == HmacSpec => []PadAbsorbed
<1>1. HmacInit => HmacInv
  BY InitHoldsHmac
<1>2. HmacInv /\ [HmacNext]_hmVars => HmacInv'
  BY NextHoldsHmac
<1>3. HmacInv => PadAbsorbed
  BY PadsAbsorbed
<1> HIDE DEF HmacInv
<1> QED BY <1>1, <1>2, <1>3, PTL DEF HmacSpec

-----------------------------------------------------------------------------
(* The promise of HMACMessages.                                            *)

\* A digest is no longer than a block, and neither the keys nor the messages of the two hashes
\* are too long for algorithms with two length words.
HmacCountable ==
  /\ \A m \in Methods :
       /\ m.hashLen <= m.mbs
       /\ Countable(m, m.mbs + m.hashLen) /\ Countable(m, m.mbs + HMAC_MAX_MSG)
       /\ \A keyLen \in HmacKeyLens \cap Nat : Countable(m, keyLen)
  /\ \A len \in HmacCallLens : len <= HMAC_MAX_MSG

\* The promise's names for operators on bytes are the ones above.
LEMMA SamePromise ==
  /\ \A m, msg, n : HmacPromise!Digest(m, msg, n) = Standard!Digest(m, msg, n)
  /\ \A kind, first, n : HmacPromise!Data(kind, first, n) = Data(kind, first, n)
  /\ \A n : HmacPromise!Key(n) = Key(n)
  /\ \A n : HmacPromise!ZeroBlock(n) = ZeroBlock(n)
  /\ \A x, y : HmacPromise!Xor(x, y) = Xor(x, y)
<1>1. \A n : HmacPromise!ZeroBlock(n) = ZeroBlock(n) /\ Standard!ZeroBlock(n) = ZeroBlock(n)
  BY Zenon DEF HmacPromise!ZeroBlock, Standard!ZeroBlock, ZeroBlock
<1>2. \A kind, first, n : HmacPromise!Data(kind, first, n) = Data(kind, first, n)
  BY Zenon DEF HmacPromise!Data, Data
<1>3. \A n : HmacPromise!Key(n) = Key(n)
  BY <1>2, Zenon DEF HmacPromise!Key, Key
<1>4. \A x, y : HmacPromise!Xor(x, y) = Xor(x, y)
  BY Zenon DEF HmacPromise!Xor, Xor
<1>5. \A m, msg : HmacPromise!Padded(m, msg) = Standard!Padded(m, msg)
  BY Zenon DEF HmacPromise!Padded, Standard!Padded, HmacPromise!ZeroBlock, Standard!ZeroBlock
<1>6. \A m, msg, n : HmacPromise!Digest(m, msg, n) = Standard!Digest(m, msg, n)
  BY <1>5, Zenon DEF HmacPromise!Digest, Standard!Digest
<1> QED BY <1>1, <1>2, <1>3, <1>4, <1>6

\* The pads of the promise are those of the context.
LEMMA PadsOfKey ==
  ASSUME NEW c, Keyed(c), OneKey(c)
  PROVE  /\ HmacPromise!XorAll(KeyOf(c), "ipad") = InnerPad(c)
         /\ HmacPromise!XorAll(KeyOf(c), "opad") = OuterPad(c)
<1> DEFINE n  == c.hashCtx.method.mbs
           K(j) == Xor(c.ipadKey[j], {<<"ipad">>})
           x  == HmacPromise!XorAll(KeyOf(c), "ipad")
           y  == HmacPromise!XorAll(KeyOf(c), "opad")
<1>1. KeyOf(c) = [j \in 1..n |-> K(j)]
  BY Zenon DEF KeyOf
<1>2. /\ x = [j \in DOMAIN KeyOf(c) |-> Xor(KeyOf(c)[j], {<<"ipad">>})]
      /\ y = [j \in DOMAIN KeyOf(c) |-> Xor(KeyOf(c)[j], {<<"opad">>})]
  BY SamePromise, Zenon DEF HmacPromise!XorAll
<1>3. /\ x = [j \in 1..n |-> Xor(K(j), {<<"ipad">>})]
      /\ y = [j \in 1..n |-> Xor(K(j), {<<"opad">>})]
  BY <1>1, <1>2
<1>4. n \in 0..BUFF_SIZE /\ n \in Nat /\ InnerPad(c) \in Seq(Byte1) /\ OuterPad(c) \in Seq(Byte1)
      /\ Len(InnerPad(c)) = n /\ Len(OuterPad(c)) = n
  BY KeyedParts
<1>5. /\ \A j \in 1..n : InnerPad(c)[j] = c.ipadKey[j] /\ OuterPad(c)[j] = c.opadKey[j]
  <2>1. c.ipadKey \in Pads /\ c.opadKey \in Pads
    BY DEF Keyed
  <2> QED BY <1>4, <2>1, PadFront DEF InnerPad, OuterPad
<1>6. \A j \in 1..n : Xor(K(j), {<<"ipad">>}) = c.ipadKey[j]
  BY XorTwice
<1>7. \A j \in 1..n : Xor(K(j), {<<"opad">>}) = c.opadKey[j]
  BY DEF OneKey
<1> HIDE DEF K, x, y
<1>8. InnerPad(c) = [j \in 1..n |-> InnerPad(c)[j]] /\ OuterPad(c) = [j \in 1..n |-> OuterPad(c)[j]]
  <2> DEFINE p == InnerPad(c)
             q == OuterPad(c)
  <2>1. p \in Seq(Byte1) /\ q \in Seq(Byte1) /\ Len(p) = n /\ Len(q) = n
    BY <1>4
  <2> HIDE DEF p, q, n
  <2>2. p = [j \in 1..n |-> p[j]] /\ q = [j \in 1..n |-> q[j]]
    BY <2>1
  <2> QED BY <2>2 DEF p, q
<1>9. \A j \in 1..n :
        Xor(K(j), {<<"ipad">>}) = InnerPad(c)[j] /\ Xor(K(j), {<<"opad">>}) = OuterPad(c)[j]
  BY <1>5, <1>6, <1>7
<1> QED BY <1>3, <1>8, <1>9, Zenon DEF x, y

\* A key hashed if it is longer than a block is the one the promise pads.
LEMMA UsedKeyIs ==
  ASSUME HmacCountable, NEW id, NEW m \in Methods, NEW keyLen \in HmacKeyLens \cap Nat
  PROVE  LET key == UsedKey(id, m, keyLen)
         IN  /\ key = IF keyLen > m.mbs THEN HmacPromise!Digest(m, HmacPromise!Key(keyLen), m.hashLen)
                      ELSE HmacPromise!Key(keyLen)
             /\ key \in Seq(Byte1) /\ Len(key) \in 0..m.mbs
<1> DEFINE src == Key(keyLen)
           h0  == HashInit(id, m)
           h1  == HashUpdate(h0, src)
           tag == HashTag(h1, m.hashLen)
           key == UsedKey(id, m, keyLen)
<1>1. /\ m.mbs \in Nat /\ m.hashLen \in Nat /\ m.hashLen <= m.mbs /\ keyLen \in Nat /\ keyLen < LO_MOD
      /\ Countable(m, keyLen)
  BY Sizes, HmacAssumption DEF HmacCountable
<1>2. src \in Seq(Byte0) /\ Len(src) = keyLen
  <2>1. "key" \in Kinds /\ keyLen * keyLen \in Nat
    BY <1>1 DEF Kinds
  <2> QED BY <1>1, <2>1, KindBytes DEF Key
<1>3. Context(h0) /\ Absorbed(h0) = <<>> /\ h0.method = m
  <2>1. h0.method = m
    BY DEF HashInit
  <2> QED BY <2>1, InitContext
<1> HIDE DEF src, h0
<1>4. src \in Seq(Byte) /\ <<>> \o src = src
  BY <1>2, Levels
<1>5. Context(h1) /\ Absorbed(h1) = <<>> \o src /\ h1.method = m
  BY <1>1, <1>2, <1>3, <1>4, UpdateContext
<1>6. Absorbed(h1) = src
  BY <1>4, <1>5
<1> HIDE DEF h1
<1>7. Countable(h1.method, Len(Absorbed(h1)))
  BY <1>1, <1>2, <1>5, <1>6
<1>8. tag = Standard!Digest(m, src, m.hashLen)
  BY <1>5, <1>6, <1>7, TagIsDigest
<1>9. tag \in Seq(Byte1) /\ Len(tag) = m.hashLen
  BY <1>1, <1>2, <1>5, <1>6, TagLevel DEF Byte1
<1>10. key = IF keyLen > m.mbs THEN tag ELSE src
  BY Zenon DEF UsedKey, tag, h1, h0, src
<1> HIDE DEF tag, key
<1>11. key \in Seq(Byte1) /\ Len(key) \in 0..m.mbs
  BY <1>1, <1>2, <1>9, <1>10, Levels
<1>12. HmacPromise!Key(keyLen) = src /\ HmacPromise!Digest(m, HmacPromise!Key(keyLen), m.hashLen) = tag
  <2>1. HmacPromise!Key(keyLen) = src
    BY SamePromise, Zenon DEF src
  <2> QED BY <1>8, <2>1, SamePromise, Zenon
<1> QED BY <1>10, <1>11, <1>12, Zenon DEF key

\* The key of a context that Init made.
LEMMA NewKey ==
  ASSUME HmacCountable, NEW id, NEW m \in Methods, NEW keyLen \in HmacKeyLens \cap Nat
  PROVE  KeyOf(NewContext(id, keyLen, m)) = HmacPromise!KeyBlock(m, keyLen)
<1> DEFINE c   == NewContext(id, keyLen, m)
           key == UsedKey(id, m, keyLen)
           n   == m.mbs
           z   == ZeroBlock(n - Len(key))
           pad == Pad(key, "ipad", n)
<1>1. c.ipadKey = pad /\ c.hashCtx.method = m
  <2>1. keyLen \in Nat /\ keyLen < LO_MOD /\ BUFF_SIZE < LO_MOD
    BY HmacAssumption
  <2> QED BY <2>1, NewHolds
<1>2. /\ key = IF keyLen > n THEN HmacPromise!Digest(m, HmacPromise!Key(keyLen), m.hashLen)
               ELSE HmacPromise!Key(keyLen)
      /\ key \in Seq(Byte1) /\ Len(key) \in 0..n
  BY UsedKeyIs
<1>3. HmacPromise!KeyBlock(m, keyLen) = key \o z
  <2>1. HmacPromise!KeyBlock(m, keyLen)
          = LET k == IF keyLen > n THEN HmacPromise!Digest(m, HmacPromise!Key(keyLen), m.hashLen)
                     ELSE HmacPromise!Key(keyLen)
            IN  k \o HmacPromise!ZeroBlock(n - Len(k))
    BY Zenon DEF HmacPromise!KeyBlock
  <2> HIDE DEF key
  <2>2. HmacPromise!KeyBlock(m, keyLen) = key \o HmacPromise!ZeroBlock(n - Len(key))
    BY <1>2, <2>1, Zenon
  <2> QED BY <2>2, SamePromise, Zenon
<1>4. KeyOf(c) = [j \in 1..n |-> Xor(pad[j], {<<"ipad">>})]
  <2> HIDE DEF c
  <2> QED BY <1>1, Zenon DEF KeyOf
<1>5. n \in 0..BUFF_SIZE /\ n \in Nat
  BY Sizes
<1> HIDE DEF key, c
<1>6. \A j \in 1..n : Xor(pad[j], {<<"ipad">>}) = IF j <= Len(key) THEN key[j] ELSE {}
  BY <1>2, <1>5, PadsMatch
<1> HIDE DEF pad, n
<1>7. z \in Seq(Byte1) /\ Len(z) = n - Len(key) /\ \A j \in 1..(n - Len(key)) : z[j] = {}
  <2> DEFINE k == n - Len(key)
  <2>1. {} \in Byte1 /\ k \in Nat
    BY <1>2, <1>5, ZeroByte, Levels
  <2>2. z = [j \in 1..k |-> {}]
    BY Zenon DEF ZeroBlock
  <2> HIDE DEF k, z
  <2>3. z \in Seq(Byte1) /\ Len(z) = k /\ \A j \in 1..k : z[j] = {}
    BY <2>1, <2>2
  <2> QED BY <2>3 DEF k
<1> HIDE DEF z
<1>8. /\ key \o z \in Seq(Byte1) /\ Len(key \o z) = n
      /\ \A j \in 1..n : (key \o z)[j] = IF j <= Len(key) THEN key[j] ELSE {}
  <2> DEFINE s == key \o z
             l == Len(key)
             q == Len(z)
  <2>1. s \in Seq(Byte1) /\ Len(s) = l + q
        /\ (\A j \in 1..l : s[j] = key[j])
        /\ (\A j \in 1..q : s[l + j] = z[j])
    <3>1. key \in Seq(Byte1) /\ z \in Seq(Byte1)
      BY <1>2, <1>7
    <3> QED BY <3>1, Joined
  <2>2. l \in 0..n /\ q = n - l /\ n \in Nat /\ l \in Nat
    BY <1>2, <1>5, <1>7
  <2>3. \A j \in 1..q : z[j] = {}
    BY <1>7
  <2> HIDE DEF s, l, q
  <2>4. Len(s) = n
    BY <2>1, <2>2
  <2>5. ASSUME NEW j \in 1..n PROVE s[j] = IF j <= l THEN key[j] ELSE {}
    <3>1. CASE j <= l
      BY <2>1, <2>2, <3>1
    <3>2. CASE ~(j <= l)
      <4> DEFINE i == j - l
      <4>1. i \in 1..q /\ l + i = j
        BY <2>2, <3>2
      <4> HIDE DEF i
      <4>2. s[l + i] = z[i] /\ z[i] = {}
        BY <2>1, <2>3, <4>1
      <4> QED BY <3>2, <4>1, <4>2
    <3> QED BY <3>1, <3>2
  <2>6. s \in Seq(Byte1) /\ Len(s) = n /\ \A j \in 1..n : s[j] = IF j <= l THEN key[j] ELSE {}
    BY <2>1, <2>4, <2>5
  <2> QED BY <2>6, Zenon DEF s, l
<1> DEFINE s == key \o z
<1>9. s = [j \in 1..n |-> s[j]]
  <2>1. s \in Seq(Byte1) /\ Len(s) = n
    BY <1>8
  <2> HIDE DEF s
  <2> QED BY <2>1
<1>10. \A j \in 1..n : s[j] = Xor(pad[j], {<<"ipad">>})
  BY <1>6, <1>8
<1> HIDE DEF s
<1>11. KeyOf(c) = s
  BY <1>4, <1>9, <1>10, Zenon
<1> QED BY <1>3, <1>11 DEF s, c

\* The tag that finishing a context gives is the HMAC of its message under its key.
LEMMA TagIsHmac ==
  ASSUME HmacCountable, NEW c, NEW msg, Holding(c, msg), Len(msg) <= HMAC_MAX_MSG,
         NEW mdLen \in 1..c.hashCtx.method.hashLen
  PROVE  SubSeq(Finish(c, c.idCtx).md, 1, mdLen)
           = HmacPromise!HMAC(c.hashCtx.method, KeyOf(c), msg, mdLen)
<1> DEFINE h  == c.hashCtx
           m  == c.hashCtx.method
           n  == m.hashLen
           ip == InnerPad(c)
           op == OuterPad(c)
           tg == HashTag(h, n)
           md == Finish(c, c.idCtx).md
<1>1. Keyed(c) /\ OneKey(c) /\ msg \in Seq(Byte1) /\ Absorbed(h) = ip \o msg
  BY DEF Holding
<1>2. /\ Context(h) /\ m \in Methods /\ m.mbs \in Nat /\ n \in Nat
      /\ ip \in Seq(Byte1) /\ Len(ip) = m.mbs /\ op \in Seq(Byte) /\ Len(op) = m.mbs
  BY <1>1, KeyedParts
<1>3. PICK g : Outer(c, g) /\ md = HashTag(g, n)
  <2>1. BUFF_SIZE < LO_MOD
    BY HmacAssumption
  <2> QED BY <2>1, Finished, Zenon
<1>4. Context(g) /\ g.method = m /\ Absorbed(g) = op \o tg
  BY <1>3 DEF Outer
<1> HIDE DEF md
<1>5. tg \in Seq(Byte) /\ Len(tg) = n
  <2>1. Byte0 \subseteq Byte1 /\ Absorbed(h) \in Seq(Byte1)
    BY <1>1, Levels DEF Keyed
  <2> HIDE DEF h, n
  <2> QED BY <1>2, <2>1, TagLevel DEF Byte
<1> HIDE DEF tg, ip, op, h, n, m
<1>6. Len(ip \o msg) = Len(ip) + Len(msg) /\ Len(msg) \in Nat
  BY <1>1, <1>2, Joined
<1>7. Len(op \o tg) = Len(op) + Len(tg)
  BY <1>2, <1>5, Joined
<1>8. Countable(m, m.mbs + Len(msg)) /\ Countable(m, m.mbs + n)
  <2>1. /\ Countable(m, m.mbs + HMAC_MAX_MSG) /\ Countable(m, m.mbs + n)
        /\ HMAC_MAX_MSG \in Nat /\ LO_MOD \in Nat
    BY <1>2, HmacAssumption, HashAssumption DEF HmacCountable, n
  <2>2. Countable(m, m.mbs + Len(msg))
    <3> DEFINE q == Len(msg)
               b == m.mbs
               x == b + q
               y == b + HMAC_MAX_MSG
    <3>1. x \in Nat /\ y \in Nat /\ x <= y
      <4>1. q \in Nat /\ q <= HMAC_MAX_MSG /\ b \in Nat /\ HMAC_MAX_MSG \in Nat
        BY <1>2, <1>6, <2>1
      <4> HIDE DEF q, b
      <4> QED BY ONLY <4>1
    <3>2. m.mrl = 2 => 16 * y < LO_MOD
      BY <2>1, Zenon DEF Countable
    <3> HIDE DEF x, y
    <3>3. m.mrl = 2 => 16 * x < LO_MOD
      BY <2>1, <3>1, <3>2
    <3> QED BY <3>3, Zenon DEF Countable, x
  <2> QED BY <2>1, <2>2
<1>9. h.method = m /\ Countable(h.method, Len(Absorbed(h))) /\ Countable(g.method, Len(Absorbed(g)))
  <2>1. h.method = m
    BY DEF h, m
  <2>2. Len(Absorbed(h)) = m.mbs + Len(msg) /\ Len(Absorbed(g)) = m.mbs + n
    BY <1>1, <1>2, <1>4, <1>5, <1>6, <1>7
  <2> QED BY <1>4, <1>8, <2>1, <2>2
<1>10. tg = Standard!Digest(m, ip \o msg, n)
  BY <1>1, <1>2, <1>9, TagIsDigest DEF tg
<1>11. md = Standard!Digest(m, op \o tg, n)
  BY <1>3, <1>4, <1>9, TagIsDigest
<1>12. SubSeq(md, 1, mdLen) = Standard!Digest(m, op \o tg, mdLen)
  <2>1. mdLen \in 0..n
    BY <1>2 DEF n, m
  <2> QED BY <1>2, <1>11, <2>1, DigestFront
<1>13. /\ HmacPromise!XorAll(KeyOf(c), "ipad") = ip
       /\ HmacPromise!XorAll(KeyOf(c), "opad") = op
  BY <1>1, PadsOfKey DEF ip, op
<1>14. HmacPromise!HMAC(m, KeyOf(c), msg, mdLen)
         = HmacPromise!Digest(m, op \o HmacPromise!Digest(m, ip \o msg, n), mdLen)
  BY <1>13, Zenon DEF HmacPromise!HMAC, n
<1>15. HmacPromise!HMAC(m, KeyOf(c), msg, mdLen) = Standard!Digest(m, op \o tg, mdLen)
  BY <1>10, <1>14, SamePromise, Zenon
<1> QED BY <1>12, <1>15 DEF md, m

\* A context as the promise sees it.
HmacView(c) ==
  [idCtx |-> c.idCtx, method |-> c.hashCtx.method, key |-> KeyOf(c), msg |-> MsgOf(c)]
HmacObj == [a \in HmacAddrs |-> HmacView(hmMem[a])]

\* The promise's state is the view of the contexts.
LEMMA HmacState ==
  /\ [a \in HmacAddrs |-> [idCtx |-> hmMem[a].idCtx, method |-> hmMem[a].hashCtx.method,
                       key |-> KeyOf(hmMem[a]), msg |-> MsgOf(hmMem[a])]] = HmacObj
  /\ [a \in HmacAddrs |-> [idCtx |-> hmMem[a].idCtx, method |-> hmMem[a].hashCtx.method,
                       key |-> KeyOf(hmMem[a]), msg |-> MsgOf(hmMem[a])]]' = HmacObj'
BY Zenon DEF HmacObj, HmacView

\* What the promise sees of a context that holds a message.
LEMMA HmacSeen ==
  ASSUME NEW c, NEW msg, Holding(c, msg)
  PROVE  HmacView(c) = [idCtx |-> c.idCtx, method |-> c.hashCtx.method, key |-> KeyOf(c),
                        msg |-> msg]
<1>1. MsgOf(c) = msg
  BY MessageHeld
<1> QED BY <1>1, Zenon DEF HmacView

\* The promise's state at an address.
LEMMA HmacAt ==
  ASSUME NEW a \in HmacAddrs
  PROVE  /\ HmacObj[a] = HmacView(hmMem[a]) /\ HmacObj[a].idCtx = hmMem[a].idCtx
         /\ HmacObj[a].method = hmMem[a].hashCtx.method /\ HmacObj[a].key = KeyOf(hmMem[a])
         /\ HmacObj[a].msg = MsgOf(hmMem[a])
<1>1. HmacObj[a] = HmacView(hmMem[a])
  BY DEF HmacObj
<1>2. /\ HmacView(hmMem[a]).idCtx = hmMem[a].idCtx
      /\ HmacView(hmMem[a]).method = hmMem[a].hashCtx.method
      /\ HmacView(hmMem[a]).key = KeyOf(hmMem[a]) /\ HmacView(hmMem[a]).msg = MsgOf(hmMem[a])
  BY DEF HmacView
<1> QED BY <1>1, <1>2, Zenon

\* Storing a context stores its view.
LEMMA HmacViewed ==
  ASSUME HmacInv, NEW a \in HmacAddrs, NEW c, StoredHmac(c), hmMem' = [hmMem EXCEPT ![a] = c]
  PROVE  HmacObj' = [HmacObj EXCEPT ![a] = HmacView(c)]
<1>1. hmMem'[a] = c /\ \A b \in HmacAddrs \ {a} : hmMem'[b] = hmMem[b]
  BY ReplacedHmac
<1>2. HmacObj' = [b \in HmacAddrs |-> HmacView(hmMem'[b])]
  BY Zenon DEF HmacObj, HmacView
<1>3. \A b \in HmacAddrs : HmacView(hmMem'[b]) = IF b = a THEN HmacView(c) ELSE HmacView(hmMem[b])
  BY <1>1
<1> HIDE DEF HmacView
<1> QED BY <1>2, <1>3 DEF HmacObj

\* The key that the promise sees of contexts with the same padded key and algorithm.
LEMMA SameKey ==
  ASSUME NEW c, NEW d, d.ipadKey = c.ipadKey, d.hashCtx.method = c.hashCtx.method
  PROVE  KeyOf(d) = KeyOf(c)
BY Zenon DEF KeyOf

\* The promise is not touched.
LEMMA HmacStays == ASSUME UNCHANGED hmMem PROVE UNCHANGED HmacObj
BY Zenon DEF HmacObj, HmacView

\* A refused call keeps the promise.
LEMMA HmacRefused ==
  ASSUME NEW status, status # "ippStsNoErr", hmOut' = HmacReturns(status), UNCHANGED hmMem
  PROVE  HmacPromise!Fail
<1>1. UNCHANGED HmacObj
  BY HmacStays
<1>2. hmOut'.ret # "ippStsNoErr" /\ hmOut'.md = <<>>
  BY DEF HmacReturns
<1> QED BY <1>1, <1>2, HmacState, Zenon DEF HmacPromise!Fail

\* Init makes an object of the key and no message.
LEMMA HmacCreateKeeps ==
  ASSUME HmacInv, HmacCountable, NEW a \in HmacAddrs, NEW m \in Methods, NEW keyLen \in HmacKeyLens,
         HmacCreate(a, keyLen, m)
  PROVE  HmacPromise!Fail \/ (keyLen \in Nat /\ HmacPromise!New(a, m, keyLen))
<1>1. CASE keyLen < 0
  <2>1. hmOut' = HmacReturns("ippStsLengthErr") /\ UNCHANGED hmMem
    BY <1>1 DEF HmacCreate
  <2> QED BY <2>1, HmacRefused
<1>2. CASE ~(keyLen < 0)
  <2> DEFINE c == NewContext(a, keyLen, m)
  <2>1. hmMem' = [hmMem EXCEPT ![a] = c] /\ hmOut' = [ret |-> "ippStsNoErr", md |-> <<>>]
    BY <1>2 DEF HmacCreate, HmacReturns
  <2>2. keyLen \in Nat /\ keyLen \in HmacKeyLens \cap Nat /\ keyLen < LO_MOD /\ BUFF_SIZE < LO_MOD
        /\ a \in HmacIds
    BY <1>2, HmacAssumption DEF HmacIds
  <2>3. StoredHmac(c)
    BY <1>2, <2>2, CreateStores
  <2>4. Holding(c, <<>>) /\ c.idCtx = a /\ c.hashCtx.method = m
    BY <2>2, NewHolds
  <2>5. KeyOf(c) = HmacPromise!KeyBlock(m, keyLen)
    BY <2>2, NewKey
  <2> HIDE DEF c
  <2>6. HmacObj' = [HmacObj EXCEPT ![a] = HmacView(c)]
    BY <2>1, <2>3, HmacViewed
  <2>7. HmacView(c) = [idCtx |-> a, method |-> m, key |-> HmacPromise!KeyBlock(m, keyLen),
                       msg |-> <<>>]
    BY <2>4, <2>5, HmacSeen, Zenon
  <2>8. HmacPromise!New(a, m, keyLen)
    BY <2>1, <2>6, <2>7, HmacState, Zenon DEF HmacPromise!New, HmacPromise!Done
  <2> QED BY <2>2, <2>8
<1> QED BY <1>1, <1>2

\* Update appends to the message of a valid object, or is refused.
LEMMA HmacUpdateKeeps ==
  ASSUME HmacInv, HmacCountable, NEW a \in HmacAddrs, NEW hasPtr, NEW len \in HmacCallLens,
         HmacUpdate(a, hasPtr, len)
  PROVE  HmacPromise!Fail \/ (len \in 0..HMAC_MAX_MSG /\ HmacPromise!Extend(a, len))
<1> DEFINE c   == hmMem[a]
           msg == MsgOf(c)
           src == Data("in", Len(msg), len)
           d   == InnerUpdate(c, a, Data("in", HmacMsgLen(c), len))
<1>1. CASE /\ UpdatePassed(a, len) /\ hmOut' = HmacReturns("ippStsNoErr")
           /\ hmMem' = [hmMem EXCEPT ![a] = d]
  <2>1. /\ Holding(c, msg) /\ StoredHmac(d) /\ Holding(d, msg \o src)
        /\ d.idCtx = a /\ d.ipadKey = c.ipadKey /\ d.hashCtx.method = c.hashCtx.method
        /\ len \in Nat /\ Len(msg) + len <= HMAC_MAX_MSG /\ Len(msg) \in Nat
    BY <1>1, UpdateStoresHmac DEF UpdatePassed
  <2>2. /\ c.idCtx = a /\ hmOut' = [ret |-> "ippStsNoErr", md |-> <<>>]
        /\ hmMem' = [hmMem EXCEPT ![a] = d]
    BY <1>1 DEF UpdatePassed, HmacReturns
  <2>3. len \in 0..HMAC_MAX_MSG
    BY <2>1, HmacAssumption
  <2> HIDE DEF d, src, msg
  <2>4. HmacObj' = [HmacObj EXCEPT ![a] = HmacView(d)]
    BY <2>1, <2>2, HmacViewed
  <2>5. KeyOf(d) = KeyOf(c)
    BY <2>1, SameKey
  <2> DEFINE i == c.idCtx
             m == c.hashCtx.method
             k == KeyOf(c)
             t == msg \o src
             o == HmacObj[a]
  <2>6. HmacView(d) = [idCtx |-> i, method |-> m, key |-> k, msg |-> t]
    BY <2>1, <2>2, <2>5, HmacSeen, Zenon
  <2>7. o = [idCtx |-> i, method |-> m, key |-> k, msg |-> msg]
    BY <2>1, HmacAt, HmacSeen, Zenon
  <2>8. HmacPromise!Data("in", Len(msg), len) = src
    BY SamePromise, Zenon DEF src
  <2>9. o.idCtx = a
    BY <2>2, HmacAt
  <2> HIDE DEF i, m, k, t, o, c
  <2>10. o.msg = msg /\ [o EXCEPT !.msg = t] = HmacView(d)
    BY <2>6, <2>7
  <2>11. [HmacObj EXCEPT ![a] = HmacView(d)]
           = [HmacObj EXCEPT ![a].msg = @ \o HmacPromise!Data("in", Len(@), len)]
    BY <2>8, <2>10, Zenon DEF o, t
  <2>12. HmacObj' = [HmacObj EXCEPT ![a].msg = @ \o HmacPromise!Data("in", Len(@), len)]
    BY <2>4, <2>11, Zenon
  <2>13. HmacPromise!Extend(a, len)
    BY <2>2, <2>9, <2>12, HmacState, Zenon
       DEF HmacPromise!Extend, HmacPromise!Done, HmacPromise!Valid, o
  <2> QED BY <2>3, <2>13
<1>2. CASE /\ UNCHANGED hmMem
           /\ \E status \in {"ippStsContextMatchErr", "ippStsLengthErr", "ippStsNullPtrErr"} :
                hmOut' = HmacReturns(status)
  BY <1>2, HmacRefused
<1>3. DOMAIN hmMem = HmacAddrs
  BY DEF HmacInv
<1>4. \/ /\ UpdatePassed(a, len) /\ hmOut' = HmacReturns("ippStsNoErr")
         /\ hmMem' = [hmMem EXCEPT ![a] =
                      InnerUpdate(@, a, Data("in", HmacMsgLen(hmMem[a]), len))]
      \/ /\ UNCHANGED hmMem
         /\ \E status \in {"ippStsContextMatchErr", "ippStsLengthErr", "ippStsNullPtrErr"} :
              hmOut' = HmacReturns(status)
  BY UpdateCases
<1> QED BY <1>1, <1>2, <1>3, <1>4

\* Final gives the HMAC of the object's message and empties it, or is refused.
LEMMA HmacFinalKeeps ==
  ASSUME HmacInv, HmacCountable, NEW a \in HmacAddrs, NEW mdLen \in HmacMdLens, HmacFinal(a, mdLen)
  PROVE  HmacPromise!Fail \/ \E n \in 1..HmacObj[a].method.hashLen : HmacPromise!Final(a, n)
<1> DEFINE c   == hmMem[a]
           m   == c.hashCtx.method
           msg == MsgOf(c)
           f   == Finish(c, a)
           d   == f.ctx
           k   == KeyOf(c)
           o   == HmacObj[a]
<1>1. CASE /\ c.idCtx = a /\ ~(mdLen <= 0) /\ ~(mdLen > m.hashLen)
           /\ hmMem' = [hmMem EXCEPT ![a] = d] /\ hmOut' = HmacTag(SubSeq(f.md, 1, mdLen))
  <2>1. "none" \notin HmacAddrs /\ mdLen \in Int
    BY HmacAssumption
  <2>2. /\ Holding(c, msg) /\ StoredHmac(d) /\ Holding(d, <<>>)
        /\ d.idCtx = a /\ d.ipadKey = c.ipadKey /\ d.hashCtx.method = m
    BY <1>1, <2>1, FinalStores
  <2>3. Len(msg) <= HMAC_MAX_MSG
    <3>1. c.idCtx # "none"
      BY <1>1, <2>1
    <3> QED BY <3>1, HeldHmac
  <2> HIDE DEF f, d, msg, c
  <2>4. m.hashLen \in Nat /\ mdLen \in 1..m.hashLen
    <3>1. m.hashLen \in Nat
      BY <2>2, KeyedParts DEF Holding
    <3> QED BY <1>1, <2>1, <3>1
  <2>5. SubSeq(f.md, 1, mdLen) = HmacPromise!HMAC(m, k, msg, mdLen)
    <3>1. SubSeq(Finish(c, c.idCtx).md, 1, mdLen) = HmacPromise!HMAC(m, k, msg, mdLen)
      BY <2>2, <2>3, <2>4, TagIsHmac
    <3> QED BY <1>1, <3>1, Zenon DEF f
  <2>6. HmacObj' = [HmacObj EXCEPT ![a] = HmacView(d)]
    BY <1>1, <2>2, HmacViewed DEF c
  <2>7. KeyOf(d) = k
    BY <2>2, SameKey
  <2> HIDE DEF m, k, o
  <2>8. HmacView(d) = [idCtx |-> a, method |-> m, key |-> k, msg |-> <<>>]
    BY <2>2, <2>7, HmacSeen, Zenon
  <2>9. o = [idCtx |-> a, method |-> m, key |-> k, msg |-> msg]
    <3>1. o = HmacView(c)
      BY HmacAt DEF o, c
    <3> QED BY <1>1, <2>2, <3>1, HmacSeen, Zenon DEF m, k
  <2>10. /\ o.idCtx = a /\ o.method = m /\ o.key = k /\ o.msg = msg
         /\ [o EXCEPT !.msg = <<>>] = HmacView(d)
    BY <2>8, <2>9
  <2>11. HmacObj' = [HmacObj EXCEPT ![a].msg = <<>>]
    BY <2>6, <2>10, Zenon DEF o
  <2>12. hmOut' = [ret |-> "ippStsNoErr", md |-> HmacPromise!HMAC(o.method, o.key, o.msg, mdLen)]
    BY <1>1, <2>5, <2>10, Zenon DEF HmacTag
  <2>13. HmacPromise!Final(a, mdLen)
    BY <2>10, <2>11, <2>12, HmacState, Zenon
       DEF HmacPromise!Final, HmacPromise!Done, HmacPromise!Valid, o
  <2> QED BY <2>4, <2>10, <2>13 DEF o
<1>2. CASE /\ UNCHANGED hmMem
           /\ \E status \in {"ippStsContextMatchErr", "ippStsLengthErr"} : hmOut' = HmacReturns(status)
  BY <1>2, HmacRefused
<1> QED BY <1>1, <1>2, FinalCases, Zenon

\* GetTag gives the HMAC of the object's message, or is refused.
LEMMA HmacGetTagKeeps ==
  ASSUME HmacInv, HmacCountable, NEW a \in HmacAddrs, NEW mdLen \in HmacMdLens, HmacGetTag(a, mdLen)
  PROVE  HmacPromise!Fail \/ \E n \in 1..HmacObj[a].method.hashLen : HmacPromise!GetTag(a, n)
<1> DEFINE c   == hmMem[a]
           m   == c.hashCtx.method
           msg == MsgOf(c)
           tmp == Renamed(c, "tmp")
           n   == tmp.hashCtx.method.hashLen
           st  == FinalStatus(tmp, "tmp", mdLen)
           md  == SubSeq(Finish(tmp, "tmp").md, 1, mdLen)
           k   == KeyOf(c)
           o   == HmacObj[a]
<1>1. /\ UNCHANGED hmMem
      /\ hmOut' = IF ~(c.idCtx = a) THEN HmacReturns("ippStsContextMatchErr")
                ELSE IF st # "ippStsNoErr" THEN HmacReturns(st) ELSE HmacTag(md)
  BY Zenon DEF HmacGetTag, HMAC_VALID_ID
<1>2. UNCHANGED HmacObj
  BY <1>1, HmacStays
<1>3. \/ st = "ippStsNoErr" /\ ~(mdLen <= 0) /\ ~(mdLen > n)
      \/ st # "ippStsNoErr"
  BY DEF FinalStatus
<1> HIDE DEF st, md, n
<1>4. CASE c.idCtx = a /\ st = "ippStsNoErr" /\ ~(mdLen <= 0) /\ ~(mdLen > n)
  <2>1. "none" \notin HmacAddrs /\ mdLen \in Int
    BY HmacAssumption
  <2>2. Holding(c, msg) /\ Len(msg) <= HMAC_MAX_MSG /\ Keyed(c)
    <3>1. c.idCtx # "none"
      BY <1>4, <2>1
    <3> QED BY <3>1, HeldHmac
  <2> HIDE DEF c, msg
  <2>3. /\ Holding(tmp, msg) /\ tmp.idCtx = "tmp" /\ tmp.ipadKey = c.ipadKey
        /\ tmp.hashCtx.method = m
    BY <2>2, HoldsRenamed
  <2> HIDE DEF tmp
  <2>4. n \in Nat /\ mdLen \in 1..n /\ n = m.hashLen
    <3>1. n \in Nat
      BY <2>3, KeyedParts DEF Holding, n
    <3> QED BY <1>4, <2>1, <2>3, <3>1 DEF n
  <2>5. KeyOf(tmp) = k
    BY <2>3, SameKey
  <2>6. md = HmacPromise!HMAC(m, k, msg, mdLen)
    <3>1. mdLen \in 1..tmp.hashCtx.method.hashLen
      BY <2>4 DEF n
    <3>2. SubSeq(Finish(tmp, tmp.idCtx).md, 1, mdLen)
            = HmacPromise!HMAC(tmp.hashCtx.method, KeyOf(tmp), msg, mdLen)
      BY <2>2, <2>3, <3>1, TagIsHmac
    <3> QED BY <2>3, <2>5, <3>2, Zenon DEF md
  <2>7. o.idCtx = a /\ o.method = m /\ o.key = k /\ o.msg = msg
    BY <1>4, HmacAt DEF c, msg
  <2>8. hmOut' = [ret |-> "ippStsNoErr", md |-> HmacPromise!HMAC(o.method, o.key, o.msg, mdLen)]
    BY <1>1, <1>4, <2>6, <2>7, Zenon DEF HmacTag
  <2> HIDE DEF o, m, k
  <2>9. HmacPromise!GetTag(a, mdLen)
    BY <1>2, <2>7, <2>8, HmacState, Zenon
       DEF HmacPromise!GetTag, HmacPromise!Done, HmacPromise!Valid, o
  <2> QED BY <2>4, <2>7, <2>9 DEF o
<1>5. CASE ~(c.idCtx = a)
  <2>1. hmOut' = HmacReturns("ippStsContextMatchErr")
    BY <1>1, <1>5
  <2> QED BY <1>1, <2>1, HmacRefused
<1>6. CASE c.idCtx = a /\ st # "ippStsNoErr"
  <2>1. hmOut' = HmacReturns(st)
    BY <1>1, <1>6
  <2> QED BY <1>1, <1>6, <2>1, HmacRefused
<1> QED BY <1>3, <1>4, <1>5, <1>6

\* A context under another identifier is the object under it.
LEMMA HmacMoveKeeps ==
  ASSUME HmacInv, NEW a \in HmacAddrs, NEW b \in HmacAddrs, NEW id \in HmacIds,
         hmMem[a].idCtx # "none",
         hmMem' = [hmMem EXCEPT ![b] = Renamed(hmMem[a], id)]
  PROVE  HmacObj' = [HmacObj EXCEPT ![b] = [HmacObj[a] EXCEPT !.idCtx = id]]
<1> DEFINE c   == hmMem[a]
           d   == Renamed(c, id)
           msg == MsgOf(c)
           m   == c.hashCtx.method
           k   == KeyOf(c)
           i   == c.idCtx
           o   == HmacObj[a]
<1>1. StoredHmac(c) /\ Keyed(c) /\ Holding(c, msg)
  BY HeldHmac
<1>2. StoredHmac(d)
  BY <1>1, RenamedStores
<1>3. hmMem' = [hmMem EXCEPT ![b] = d]
  OBVIOUS
<1>4. Holding(d, msg) /\ d.idCtx = id /\ d.ipadKey = c.ipadKey /\ d.hashCtx.method = m
  BY <1>1, HoldsRenamed
<1> HIDE DEF d
<1>5. HmacObj' = [HmacObj EXCEPT ![b] = HmacView(d)]
  BY <1>2, <1>3, HmacViewed
<1>6. KeyOf(d) = k
  BY <1>4, SameKey
<1>7. o = HmacView(c)
  BY HmacAt
<1> HIDE DEF o, msg, c
<1>8. o = [idCtx |-> i, method |-> m, key |-> k, msg |-> msg]
  BY <1>1, <1>7, HmacSeen, Zenon
<1> HIDE DEF m, k, i
<1>9. HmacView(d) = [idCtx |-> id, method |-> m, key |-> k, msg |-> msg]
  BY <1>4, <1>6, HmacSeen, Zenon
<1>10. HmacView(d) = [o EXCEPT !.idCtx = id]
  BY <1>8, <1>9
<1> QED BY <1>5, <1>10, Zenon DEF o

\* Duplicate and Pack copy the object of a valid context under the identifier it is to have.
LEMMA HmacCopyToKeeps ==
  ASSUME HmacInv, HmacCountable, NEW a \in HmacAddrs, NEW b \in HmacAddrs,
         HmacDuplicate(a, b) \/ \E bufSizeOk \in BOOLEAN : HmacPack(a, b, bufSizeOk)
  PROVE  HmacPromise!Fail \/ HmacPromise!CopyTo(a, b, b) \/ HmacPromise!CopyTo(a, b, "packed")
<1>1. \/ \E status \in {"ippStsContextMatchErr", "ippStsNoMemErr"} :
           hmOut' = HmacReturns(status) /\ UNCHANGED hmMem
      \/ /\ hmMem[a].idCtx = a /\ hmOut' = HmacReturns("ippStsNoErr")
         /\ \E id \in {b, "packed"} : hmMem' = [hmMem EXCEPT ![b] = Renamed(hmMem[a], id)]
  BY DEF HmacDuplicate, HmacPack, HMAC_VALID_ID
<1>2. ASSUME NEW status \in {"ippStsContextMatchErr", "ippStsNoMemErr"},
             hmOut' = HmacReturns(status), UNCHANGED hmMem
      PROVE  HmacPromise!Fail
  BY <1>2, HmacRefused
<1>3. ASSUME NEW id \in {b, "packed"}, hmMem[a].idCtx = a, hmOut' = HmacReturns("ippStsNoErr"),
             hmMem' = [hmMem EXCEPT ![b] = Renamed(hmMem[a], id)]
      PROVE  HmacPromise!CopyTo(a, b, id)
  <2>1. id \in HmacIds /\ hmMem[a].idCtx # "none"
    BY <1>3, HmacAssumption DEF HmacIds
  <2>2. HmacObj' = [HmacObj EXCEPT ![b] = [HmacObj[a] EXCEPT !.idCtx = id]]
    BY <1>3, <2>1, HmacMoveKeeps, ZenonT(60)
  <2>3. HmacObj[a].idCtx = a
    BY <1>3, HmacAt
  <2>4. hmOut' = [ret |-> "ippStsNoErr", md |-> <<>>]
    BY <1>3 DEF HmacReturns
  <2> QED BY <2>2, <2>3, <2>4, HmacState, Zenon
          DEF HmacPromise!CopyTo, HmacPromise!Done, HmacPromise!Valid
<1> QED BY <1>1, <1>2, <1>3

\* Unpack takes whatever keyed object lies at the address.
LEMMA HmacUnpackKeeps ==
  ASSUME HmacInv, NEW a \in HmacAddrs, NEW b \in HmacAddrs, HmacUnpack(a, b)
  PROVE  HmacPromise!Unpack(a, b)
<1>1. /\ hmMem' = [hmMem EXCEPT ![b] = Renamed(hmMem[a], b)] /\ hmMem[a].idCtx # "none"
      /\ hmOut' = [ret |-> "ippStsNoErr", md |-> <<>>] /\ b \in HmacIds
  BY DEF HmacUnpack, HmacReturns, HmacIds
<1>2. HmacObj' = [HmacObj EXCEPT ![b] = [HmacObj[a] EXCEPT !.idCtx = b]]
  BY <1>1, HmacMoveKeeps
<1> QED BY <1>1, <1>2, HmacState, Zenon DEF HmacPromise!Unpack, HmacPromise!Done

\* The caller's copy of the bytes copies the object.
LEMMA HmacCopyKeeps ==
  ASSUME HmacInv, NEW a \in HmacAddrs, NEW b \in HmacAddrs, HmacCopy(a, b)
  PROVE  HmacPromise!Copy(a, b)
<1> DEFINE c == hmMem[a]
<1>1. hmMem' = [hmMem EXCEPT ![b] = c] /\ UNCHANGED hmOut
  BY DEF HmacCopy
<1>2. StoredHmac(c) /\ HmacObj[a] = HmacView(c)
  BY HeldHmac, HmacAt
<1> HIDE DEF c
<1>3. HmacObj' = [HmacObj EXCEPT ![b] = HmacView(c)]
  BY <1>1, <1>2, HmacViewed
<1>4. HmacObj' = [HmacObj EXCEPT ![b] = HmacObj[a]]
  BY <1>2, <1>3, Zenon
<1> QED BY <1>1, <1>4, HmacState, Zenon DEF HmacPromise!Copy

\* The one-shot function gives the HMAC of its message, or refuses it.
LEMMA HmacMessageKeeps ==
  ASSUME HmacCountable, NEW m \in Methods, NEW keyLen \in HmacKeyLens, NEW hasPtr \in BOOLEAN,
         NEW len \in HmacCallLens, NEW mdLen \in HmacMdLens,
         HmacMessage(m, keyLen, hasPtr, len, mdLen)
  PROVE  \/ HmacPromise!Fail
         \/ /\ keyLen \in Nat /\ len \in 0..HMAC_MAX_MSG /\ mdLen \in 1..m.hashLen
            /\ HmacPromise!Message(m, keyLen, len, mdLen)
<1> DEFINE c0 == NewContext("tmp", keyLen, m)
           src == Data("in", 0, len)
           c  == InnerUpdate(c0, "tmp", src)
           md == SubSeq(Finish(c, "tmp").md, 1, mdLen)
           bad == keyLen < 0 \/ len < 0 \/ (len # 0 /\ ~hasPtr) \/ mdLen \notin 1..m.hashLen
<1>1. UNCHANGED hmMem /\ UNCHANGED HmacObj
  BY HmacStays DEF HmacMessage
<1>2. \/ bad /\ \E status \in {"ippStsLengthErr", "ippStsNullPtrErr"} : hmOut' = HmacReturns(status)
      \/ ~bad /\ hmOut' = HmacTag(md)
  BY DEF HmacMessage
<1>3. CASE \E status \in {"ippStsLengthErr", "ippStsNullPtrErr"} : hmOut' = HmacReturns(status)
  BY <1>1, <1>3, HmacRefused
<1>4. CASE ~bad /\ hmOut' = HmacTag(md)
  <2>1. /\ keyLen \in Nat /\ keyLen \in HmacKeyLens \cap Nat /\ keyLen < LO_MOD /\ BUFF_SIZE < LO_MOD
        /\ len \in Nat /\ len \in 0..HMAC_MAX_MSG /\ len < LO_MOD /\ mdLen \in 1..m.hashLen
    BY <1>4, HmacAssumption DEF HmacCountable
  <2>2. Holding(c0, <<>>) /\ c0.idCtx = "tmp" /\ c0.hashCtx.method = m
    BY <2>1, NewHolds
  <2>3. KeyOf(c0) = HmacPromise!KeyBlock(m, keyLen)
    BY <2>1, NewKey
  <2>4. src \in Seq(Byte0) /\ Len(src) = len
    <3>1. "in" \in Kinds /\ 0 \in Nat
      BY DEF Kinds
    <3> QED BY <2>1, <3>1, KindBytes
  <2>5. HmacPromise!Data("in", 0, len) = src
    BY SamePromise, Zenon
  <2> HIDE DEF src, c0, md
  <2>6. src \in Seq(Byte1) /\ Len(src) < LO_MOD /\ <<>> \o src = src /\ Len(src) <= HMAC_MAX_MSG
    BY <2>1, <2>4, Levels
  <2> DEFINE d == InnerUpdate(c0, c0.idCtx, src)
  <2>7. /\ Holding(d, <<>> \o src) /\ d.idCtx = c0.idCtx /\ d.ipadKey = c0.ipadKey
        /\ d.hashCtx.method = c0.hashCtx.method
    BY <2>2, <2>6, HoldsMore
  <2>8. c = d
    BY <2>2, Zenon
  <2> HIDE DEF c, d
  <2>9. Holding(d, src) /\ d.idCtx = "tmp" /\ d.hashCtx.method = m
    BY <2>2, <2>6, <2>7
  <2>10. KeyOf(d) = HmacPromise!KeyBlock(m, keyLen)
    BY <2>3, <2>7, SameKey
  <2>11. SubSeq(Finish(d, d.idCtx).md, 1, mdLen)
           = HmacPromise!HMAC(d.hashCtx.method, KeyOf(d), src, mdLen)
    BY <2>1, <2>6, <2>9, TagIsHmac
  <2>12. md = HmacPromise!HMAC(m, HmacPromise!KeyBlock(m, keyLen), src, mdLen)
    BY <2>8, <2>9, <2>10, <2>11, Zenon DEF md
  <2>13. HmacPromise!Message(m, keyLen, len, mdLen)
    BY <1>1, <1>4, <2>5, <2>12, HmacState, Zenon DEF HmacPromise!Message, HmacPromise!Done, HmacTag
  <2> QED BY <2>1, <2>13
<1> QED BY <1>2, <1>3, <1>4

\* At first no address holds a valid object.
LEMMA HmacInitKeeps == ASSUME HmacInit PROVE HmacPromise!Init
<1>1. PICK m \in HmacMethods :
        hmMem = [a \in HmacAddrs |-> [idCtx |-> "none", ipadKey |-> ZeroBlock(BUFF_SIZE),
                                opadKey |-> ZeroBlock(BUFF_SIZE), hashCtx |-> HashInit("none", m)]]
  BY Zenon DEF HmacInit
<1>2. \A a \in HmacAddrs : hmMem[a].idCtx = "none"
  BY <1>1
<1>3. \A a \in HmacAddrs : HmacObj[a].idCtx = "none"
  BY <1>2, HmacAt
<1>4. hmOut = [ret |-> "ippStsNoErr", md |-> <<>>]
  BY DEF HmacInit, HmacReturns
<1> QED BY <1>3, <1>4, HmacState, Zenon DEF HmacPromise!Init

\* Every call is a step of the promise, or a stutter.
LEMMA HmacNextKeeps ==
  ASSUME HmacInv, HmacCountable, [HmacNext]_hmVars
  PROVE  hmVars' # hmVars => HmacPromise!Next
<1> DEFINE copies(a, b) ==
      HmacDuplicate(a, b) \/ \E bufSizeOk \in BOOLEAN : HmacPack(a, b, bufSizeOk)
<1>1. ASSUME NEW a \in HmacAddrs, NEW m \in HmacMethods, NEW keyLen \in HmacKeyLens,
             HmacCreate(a, keyLen, m)
      PROVE  HmacPromise!Next
  <2>1. HmacPromise!Fail \/ (keyLen \in HmacKeyLens \cap Nat /\ HmacPromise!New(a, m, keyLen))
    BY <1>1, HmacAssumption, HmacCreateKeeps
  <2> QED BY <2>1, Zenon DEF HmacPromise!Next
<1>2. ASSUME NEW m \in HmacMethods, NEW keyLen \in HmacKeyLens, NEW hasPtr \in BOOLEAN,
             NEW len \in HmacCallLens, NEW mdLen \in HmacMdLens,
             HmacMessage(m, keyLen, hasPtr, len, mdLen)
      PROVE  HmacPromise!Next
  <2>1. \/ HmacPromise!Fail
        \/ /\ keyLen \in HmacKeyLens \cap Nat /\ len \in 0..HMAC_MAX_MSG /\ mdLen \in 1..m.hashLen
           /\ HmacPromise!Message(m, keyLen, len, mdLen)
    BY <1>2, HmacAssumption, HmacMessageKeeps
  <2> QED BY <2>1, Zenon DEF HmacPromise!Next
<1>3. ASSUME NEW a \in HmacAddrs, NEW hasPtr \in BOOLEAN, NEW len \in HmacCallLens,
             HmacUpdate(a, hasPtr, len)
      PROVE  HmacPromise!Next
  <2>1. HmacPromise!Fail \/ (len \in 0..HMAC_MAX_MSG /\ HmacPromise!Extend(a, len))
    BY <1>3, HmacUpdateKeeps
  <2> QED BY <2>1, Zenon DEF HmacPromise!Next
<1>4. ASSUME NEW a \in HmacAddrs, NEW mdLen \in HmacMdLens, HmacFinal(a, mdLen) PROVE HmacPromise!Next
  <2>1. HmacPromise!Fail \/ \E n \in 1..HmacObj[a].method.hashLen : HmacPromise!Final(a, n)
    BY <1>4, HmacFinalKeeps
  <2> QED BY <2>1, HmacState, Zenon DEF HmacPromise!Next
<1>5. ASSUME NEW a \in HmacAddrs, NEW mdLen \in HmacMdLens, HmacGetTag(a, mdLen) PROVE HmacPromise!Next
  <2>1. HmacPromise!Fail \/ \E n \in 1..HmacObj[a].method.hashLen : HmacPromise!GetTag(a, n)
    BY <1>5, HmacGetTagKeeps
  <2> QED BY <2>1, HmacState, Zenon DEF HmacPromise!Next
<1>6. ASSUME NEW a \in HmacAddrs, NEW b \in HmacAddrs, copies(a, b) PROVE HmacPromise!Next
  <2>1. HmacPromise!Fail \/ HmacPromise!CopyTo(a, b, b) \/ HmacPromise!CopyTo(a, b, "packed")
    BY <1>6, HmacCopyToKeeps
  <2> QED BY <2>1, Zenon DEF HmacPromise!Next
<1>7. ASSUME NEW a \in HmacAddrs, NEW b \in HmacAddrs, HmacUnpack(a, b) PROVE HmacPromise!Next
  <2>1. HmacPromise!Unpack(a, b)
    BY <1>7, HmacUnpackKeeps
  <2> QED BY <2>1, Zenon DEF HmacPromise!Next
<1>8. ASSUME NEW a \in HmacAddrs, NEW b \in HmacAddrs, HmacCopy(a, b) PROVE HmacPromise!Next
  <2>1. HmacPromise!Copy(a, b)
    BY <1>8, HmacCopyKeeps
  <2> QED BY <2>1, Zenon DEF HmacPromise!Next
<1>9. CASE UNCHANGED hmVars
  BY <1>9
<1>10. CASE HmacNext
  <2>1. \/ \E m \in HmacMethods, keyLen \in HmacKeyLens :
             \/ \E a \in HmacAddrs : HmacCreate(a, keyLen, m)
             \/ \E hasPtr \in BOOLEAN, len \in HmacCallLens, mdLen \in HmacMdLens :
                  HmacMessage(m, keyLen, hasPtr, len, mdLen)
        \/ \E a \in HmacAddrs :
             \/ \E hasPtr \in BOOLEAN, len \in HmacCallLens : HmacUpdate(a, hasPtr, len)
             \/ \E mdLen \in HmacMdLens : HmacFinal(a, mdLen) \/ HmacGetTag(a, mdLen)
        \/ \E a, b \in HmacAddrs : copies(a, b) \/ HmacUnpack(a, b) \/ HmacCopy(a, b)
    BY <1>10 DEF HmacNext
  <2> HIDE DEF copies
  <2> QED BY <1>1, <1>2, <1>3, <1>4, <1>5, <1>6, <1>7, <1>8, <2>1
<1> QED BY <1>9, <1>10

\* The tags that the HMAC functions give are those FIPS 198-1 defines, of the key and the bytes each
\* context was passed or inherited, in whatever calls the message came, wherever the context was
\* copied, packed, unpacked and duplicated, and how often it was finished: for any number of
\* addresses, algorithms, keys and lengths, as long as what is hashed with an algorithm of two
\* length words is shorter than 2^60 bytes.
THEOREM HmacImplements == ASSUME HmacCountable PROVE HmacSpec => ImplementsHMAC
<1>1. HmacInit => HmacPromise!Init /\ HmacInv
  BY HmacInitKeeps, InitHoldsHmac
<1>2. HmacInv /\ [HmacNext]_hmVars => HmacInv'
  BY NextHoldsHmac
<1>3. HmacInv /\ [HmacNext]_hmVars => [hmVars' # hmVars => HmacPromise!Next]_hmVars
  BY HmacNextKeeps
<1> HIDE DEF HmacInv
<1> QED BY <1>1, <1>2, <1>3, PTL DEF HmacSpec, ImplementsHMAC
=============================================================================
