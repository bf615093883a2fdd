---------------------------- MODULE HashMessages ----------------------------
(***************************************************************************)
(* What the hash functions promise about contexts at several addresses, in *)
(* terms of the message each one holds: the digest is that of the message, *)
(* padded as FIPS 180-4 says, whatever the calls it was passed in, and     *)
(* wherever the context was copied, packed, unpacked or duplicated to.     *)
(***************************************************************************)
EXTENDS HashFunction

CONSTANTS Methods, Addrs, MAX_MSG

VARIABLES
  obj,   \* obj[a]: the context at address a, [idCtx, method, msg]
  out    \* what the last call returned: status, digest

vars == <<obj, out>>

Valid(a) == obj[a].idCtx = a

-----------------------------------------------------------------------------
Init ==
  /\ \A a \in Addrs : obj[a].idCtx = "none"
  /\ out = [ret |-> "ippStsNoErr", md |-> <<>>]

Fail == out'.ret # "ippStsNoErr" /\ out'.md = <<>> /\ UNCHANGED obj

Done(md) == out' = [ret |-> "ippStsNoErr", md |-> md]

New(a, m) == Done(<<>>) /\ obj' = [obj EXCEPT ![a] = [idCtx |-> a, method |-> m, msg |-> <<>>]]

\* n more bytes passed to the context at a.
Extend(a, n) ==
  /\ Done(<<>>) /\ Valid(a)
  /\ obj' = [obj EXCEPT ![a].msg = @ \o Data("in", Len(@), n)]

Final(a) ==
  /\ Valid(a)
  /\ obj' = [obj EXCEPT ![a].msg = <<>>]
  /\ Done(Digest(obj[a].method, obj[a].msg, obj[a].method.hashLen))

GetTag(a, n) ==
  /\ Valid(a)
  /\ UNCHANGED obj
  /\ Done(Digest(obj[a].method, obj[a].msg, n))

\* a valid context's message is now also at b, under the id that b is to have.
CopyTo(a, b, id) ==
  /\ Done(<<>>) /\ Valid(a)
  /\ obj' = [obj EXCEPT ![b] = [obj[a] EXCEPT !.idCtx = id]]

\* The bytes at a are taken to be a packed context.
Unpack(a, b) == Done(<<>>) /\ obj' = [obj EXCEPT ![b] = [obj[a] EXCEPT !.idCtx = b]]

\* The caller copies the bytes itself.
Copy(a, b) == obj' = [obj EXCEPT ![b] = obj[a]] /\ UNCHANGED out

\* One-shot: a message of len bytes that no context holds.
Message(m, len) == UNCHANGED obj /\ Done(Digest(m, Data("msg", 0, len), m.hashLen))

Next ==
  \/ Fail
  \/ \E m \in Methods : \/ \E a \in Addrs : New(a, m)
                        \/ \E len \in 0..MAX_MSG : Message(m, len)
  \/ \E a \in Addrs : \/ \E n \in 0..MAX_MSG : Extend(a, n)
                      \/ Final(a)
                      \/ \E n \in 1..obj[a].method.hashLen : GetTag(a, n)
  \/ \E a, b \in Addrs : CopyTo(a, b, b) \/ CopyTo(a, b, "packed") \/ Unpack(a, b) \/ Copy(a, b)

Spec == Init /\ [][Next]_vars
=============================================================================
