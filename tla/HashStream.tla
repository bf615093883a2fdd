----------------------------- MODULE HashStream -----------------------------
(***************************************************************************)
(* Streaming hash contexts in the caller's memory: Init, Update, Final,    *)
(* GetTag, Duplicate, Pack, Unpack and the one-shot Message on several     *)
(* addresses, with contexts in mid-message copied between them and reused  *)
(* after Final.  A context carries its address XORed into idCtx; a packed  *)
(* one carries the bare identifier.                                        *)
(***************************************************************************)
EXTENDS HashContext

CONSTANTS
  RMF,             \* whether the contexts are those of ippsHash..._rmf
  StreamAddrs,     \* the addresses contexts are kept at
  StreamCallLens,  \* the int lengths a caller passes in one call
  STREAM_MAX_MSG   \* bound of the model: bytes of a message

ASSUME StreamAssumption ==
  /\ RMF \in BOOLEAN
  /\ StreamCallLens \subseteq Int /\ \A len \in StreamCallLens : len < LO_MOD
  /\ STREAM_MAX_MSG \in Nat

\* Bits that the length field of a padded message can count.
FieldRange(m) == IF m.mrl = 1 THEN LO_MOD ELSE LO_MOD * LO_MOD

\* The longest message of each algorithm has a length in bits that its field can count.
ASSUME LimitAssumption == \A m \in Methods : 8 * (m.maxHi * LO_MOD + m.maxLo) < FieldRange(m)

VARIABLES
  hsMem,  \* hsMem[a]: the bytes at address a, read as a context
  hsOut   \* what the last call returned: status, digest

streamVars == <<hsMem, hsOut>>

StreamReturns(status) == [ret |-> status, md |-> <<>>]
Digest(md) == [ret |-> "ippStsNoErr", md |-> md]

VALID_ID(a) == hsMem[a].idCtx = a

StreamInit ==
  /\ \E m \in Methods : hsMem = [a \in StreamAddrs |-> HashInit("none", m)]
  /\ hsOut = StreamReturns("ippStsNoErr")

-----------------------------------------------------------------------------
Create(a, m) ==
  /\ hsMem' = [hsMem EXCEPT ![a] = HashInit(a, m)]
  /\ hsOut' = StreamReturns("ippStsNoErr")

StreamUpdateStatus(a, hasPtr, len) ==
  IF ~VALID_ID(a)              THEN "ippStsContextMatchErr"
  ELSE IF len < 0 /\ (RMF \/ hasPtr) THEN "ippStsLengthErr"
  ELSE IF len # 0 /\ ~hasPtr   THEN "ippStsNullPtrErr"
  ELSE IF /\ ~RMF /\ len # 0
          /\ IsExceedMsgLen(hsMem[a].method, AddLength(hsMem[a], len)) THEN "ippStsLengthErr"
  ELSE "ippStsNoErr"

StreamUpdate(a, hasPtr, len) ==
  LET status == StreamUpdateStatus(a, hasPtr, len)
      done   == Len(Absorbed(hsMem[a]))
  IN  /\ done + len <= STREAM_MAX_MSG
      /\ hsOut' = StreamReturns(status)
      /\ IF status = "ippStsNoErr"
         THEN hsMem' = [hsMem EXCEPT ![a] = HashUpdate(@, Data("in", done, len))]
         ELSE UNCHANGED hsMem

StreamFinal(a) ==
  IF VALID_ID(a)
  THEN /\ hsOut' = Digest(HashTag(hsMem[a], hsMem[a].method.hashLen))
       /\ hsMem' = [hsMem EXCEPT ![a] = HashRestart(@)]
  ELSE hsOut' = StreamReturns("ippStsContextMatchErr") /\ UNCHANGED hsMem

\* On a copy of the chaining value.  The _rmf function stores the whole digest
\* (hashOctStr has no length), the other one as much as was asked for.
GetTag(a, tagLen) ==
  /\ hsOut' = IF ~VALID_ID(a) THEN StreamReturns("ippStsContextMatchErr")
            ELSE IF tagLen \notin 1..hsMem[a].method.hashLen THEN StreamReturns("ippStsLengthErr")
            ELSE Digest(HashTag(hsMem[a], IF RMF THEN hsMem[a].method.hashLen ELSE tagLen))
  /\ UNCHANGED hsMem

Duplicate(a, b) ==
  IF VALID_ID(a)
  THEN /\ hsMem' = [hsMem EXCEPT ![b] = [hsMem[a] EXCEPT !.idCtx = b]]
       /\ hsOut' = StreamReturns("ippStsNoErr")
  ELSE hsOut' = StreamReturns("ippStsContextMatchErr") /\ UNCHANGED hsMem

\* The buffer's copy gets the bare id: it is not a context until it is unpacked.
Pack(a, b, bufSizeOk) ==
  IF VALID_ID(a) /\ bufSizeOk
  THEN /\ hsMem' = [hsMem EXCEPT ![b] = [hsMem[a] EXCEPT !.idCtx = "packed"]]
       /\ hsOut' = StreamReturns("ippStsNoErr")
  ELSE /\ hsOut' = StreamReturns(IF VALID_ID(a) THEN "ippStsNoMemErr" ELSE "ippStsContextMatchErr")
       /\ UNCHANGED hsMem

\* Whatever lies at a is taken for a packed context.
Unpack(a, b) ==
  /\ hsMem[a].idCtx # "none"
  /\ hsMem' = [hsMem EXCEPT ![b] = [hsMem[a] EXCEPT !.idCtx = b]]
  /\ hsOut' = StreamReturns("ippStsNoErr")

\* ippsHashMessage: no context is involved.
StreamMessage(m, hasPtr, len) ==
  /\ hsOut' = IF len < 0 THEN StreamReturns("ippStsLengthErr")
            ELSE IF len # 0 /\ ~hasPtr THEN StreamReturns("ippStsNullPtrErr")
            ELSE Digest(HashMessage(m, Data("msg", 0, len)))
  /\ UNCHANGED hsMem

\* The caller copies the bytes of a context.
Copy(a, b) == hsMem' = [hsMem EXCEPT ![b] = hsMem[a]] /\ UNCHANGED hsOut

StreamNext ==
  \/ \E m \in Methods :
       \/ \E a \in StreamAddrs : Create(a, m)
       \/ \E hasPtr \in BOOLEAN, len \in StreamCallLens : StreamMessage(m, hasPtr, len)
  \/ \E a \in StreamAddrs :
       \/ \E hasPtr \in BOOLEAN, len \in StreamCallLens : StreamUpdate(a, hasPtr, len)
       \/ \E tagLen \in 0..(BUFF_SIZE - 1) : GetTag(a, tagLen)
       \/ StreamFinal(a)
  \/ \E a, b \in StreamAddrs :
       \/ Duplicate(a, b) \/ Unpack(a, b) \/ Copy(a, b)
       \/ \E bufSizeOk \in BOOLEAN : Pack(a, b, bufSizeOk)

StreamSpec == StreamInit /\ [][StreamNext]_streamVars

-----------------------------------------------------------------------------
(* Properties.                                                             *)

\* Every field has its C type.
StreamTypeOK ==
  \A a \in StreamAddrs :
    /\ hsMem[a].idCtx \in StreamAddrs \union {"none", "packed"}
    /\ hsMem[a].method \in Methods
    /\ hsMem[a].idx \in 0..BUFF_SIZE /\ Len(hsMem[a].buff) = BUFF_SIZE
    /\ hsMem[a].lenLo \in 0..(LO_MOD - 1) /\ hsMem[a].lenHi \in 0..(LO_MOD - 1)

\* Between two calls a context holds less than a block, exactly the rest of its
\* message, everything before it is compressed in whole blocks, and the two
\* length words count all of it, across the wrap of the low word.
StreamInStep ==
  /\ StreamTypeOK
  /\ \A a \in StreamAddrs :
       /\ hsMem[a].idx = Len(Absorbed(hsMem[a])) % hsMem[a].method.mbs
       /\ Len(hsMem[a].hash) % hsMem[a].method.mbs = 0
       /\ LengthCounted(hsMem[a])

\* In the interface that limits the length, the limit keeps a message's length in bits
\* within the words of its length field, whatever calls it was passed in.
BitLengthFits ==
  \A a \in StreamAddrs :
    ~RMF => 8 * Len(Absorbed(hsMem[a])) < FieldRange(hsMem[a].method)

Promise == INSTANCE HashMessages WITH
  Addrs <- StreamAddrs, MAX_MSG <- STREAM_MAX_MSG, out <- hsOut,
  obj <- [a \in StreamAddrs |-> [idCtx |-> hsMem[a].idCtx, method |-> hsMem[a].method,
                                  msg |-> Absorbed(hsMem[a])]]

\* Update, Final, GetTag, Duplicate, Pack, Unpack and Message give the digest
\* FIPS 180-4 defines for the bytes each context was passed, or inherited: every step of
\* the contexts is one of the promise (TLC is spared to look at other steps).
ImplementsHashMessages ==
  Promise!Init /\ [][streamVars' # streamVars => Promise!Next]_streamVars
=============================================================================
