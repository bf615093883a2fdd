---------------------------- MODULE HMACMessages ----------------------------
(***************************************************************************)
(* What HMAC contexts promise: each holds a key and a message, and a tag   *)
(* is the HMAC (FIPS 198-1) of that message under that key; Final leaves   *)
(* the key in place for the next message.                                  *)
(***************************************************************************)
EXTENDS HashFunction

CONSTANTS Methods, Addrs, KeyLens, MAX_MSG

VARIABLES
  obj,   \* obj[a]: the context at address a, [idCtx, method, key, msg]
  out    \* what the last call returned: status, tag

vars == <<obj, out>>

\* The key as a block: hashed if longer than a block, padded with zeros.
KeyBlock(m, keyLen) ==
  LET k == IF keyLen > m.mbs THEN Digest(m, Key(keyLen), m.hashLen) ELSE Key(keyLen)
  IN  k \o ZeroBlock(m.mbs - Len(k))

XorAll(k, pad) == [j \in DOMAIN k |-> Xor(k[j], {<<pad>>})]

HMAC(m, k, msg, n) ==
  Digest(m, XorAll(k, "opad") \o Digest(m, XorAll(k, "ipad") \o msg, m.hashLen), n)

Valid(a) == obj[a].idCtx = a

Init ==
  /\ \A a \in Addrs : obj[a].idCtx = "none"
  /\ out = [ret |-> "ippStsNoErr", md |-> <<>>]

Fail == out'.ret # "ippStsNoErr" /\ out'.md = <<>> /\ UNCHANGED obj

Done(md) == out' = [ret |-> "ippStsNoErr", md |-> md]

New(a, m, keyLen) ==
  /\ Done(<<>>)
  /\ obj' = [obj EXCEPT ![a] =
               [idCtx |-> a, method |-> m, key |-> KeyBlock(m, keyLen), msg |-> <<>>]]

Extend(a, n) ==
  /\ Done(<<>>) /\ Valid(a)
  /\ obj' = [obj EXCEPT ![a].msg = @ \o Data("in", Len(@), n)]

Final(a, n) ==
  /\ Valid(a)
  /\ obj' = [obj EXCEPT ![a].msg = <<>>]
  /\ Done(HMAC(obj[a].method, obj[a].key, obj[a].msg, n))

GetTag(a, n) ==
  /\ Valid(a)
  /\ UNCHANGED obj
  /\ Done(HMAC(obj[a].method, obj[a].key, obj[a].msg, n))

CopyTo(a, b, id) ==
  /\ Done(<<>>) /\ Valid(a)
  /\ obj' = [obj EXCEPT ![b] = [obj[a] EXCEPT !.idCtx = id]]

Unpack(a, b) == Done(<<>>) /\ obj' = [obj EXCEPT ![b] = [obj[a] EXCEPT !.idCtx = b]]

Copy(a, b) == obj' = [obj EXCEPT ![b] = obj[a]] /\ UNCHANGED out

Message(m, keyLen, len, n) ==
  UNCHANGED obj /\ Done(HMAC(m, KeyBlock(m, keyLen), Data("in", 0, len), n))

Next ==
  \/ Fail
  \/ \E m \in Methods, keyLen \in KeyLens \cap Nat :
       \/ \E a \in Addrs : New(a, m, keyLen)
       \/ \E len \in 0..MAX_MSG, n \in 1..m.hashLen : Message(m, keyLen, len, n)
  \/ \E a \in Addrs, n \in 0..MAX_MSG : Extend(a, n)
  \/ \E a \in Addrs : \E n \in 1..obj[a].method.hashLen : Final(a, n) \/ GetTag(a, n)
  \/ \E a, b \in Addrs : CopyTo(a, b, b) \/ CopyTo(a, b, "packed") \/ Unpack(a, b) \/ Copy(a, b)

Spec == Init /\ [][Next]_vars
=============================================================================
