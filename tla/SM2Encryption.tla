--------------------------- MODULE SM2Encryption ----------------------------
(***************************************************************************)
(* What the SM2 encryption scheme promises (GM/T 0003.4): the message is   *)
(* XORed with the key stream derived from the shared point, the tag is the *)
(* digest of x, the plain message and y, and a key stream that was zero in *)
(* every byte used is reported.  A shared point serves one message.        *)
(***************************************************************************)
EXTENDS HashFunction

CONSTANTS SM3, ELEM_LEN, ZeroBytes, Secrets, MAX_MSG

VARIABLES
  phase,   \* "none", "Init", "KeySet", "Processing" or "Finished"
  secret,  \* x and y of the shared point, once one is set
  msg,     \* the plain message so far
  out      \* what the last call returned: status, bytes

vars == <<phase, secret, msg, out>>

\* Byte i of the key stream of z: the digests of z and the counters 1, 2, ...
KeyByte(z, i) ==
  Digest(SM3, z \o <<{<<"ctr", ((i - 1) \div SM3.hashLen) + 1>>}>>, SM3.hashLen)
    [((i - 1) % SM3.hashLen) + 1]

\* The bytes s as those that follow n bytes of the message, under the key stream of z.
Crypt(z, n, s) == [i \in DOMAIN s |-> Xor(s[i], KeyByte(z, n + i))]

Tag(z, m) == Digest(SM3, SubSeq(z, 1, ELEM_LEN) \o m \o SubSeq(z, ELEM_LEN + 1, 2 * ELEM_LEN),
                    SM3.hashLen)

\* The coordinates of a point.
Coordinates(s) == Data(s, 0, 2 * ELEM_LEN)

-----------------------------------------------------------------------------
Init ==
  /\ phase = "none" /\ secret = <<>> /\ msg = <<>>
  /\ out = [ret |-> "ippStsNoErr", data |-> <<>>]

Done(data) == out' = [ret |-> "ippStsNoErr", data |-> data]

Fail == out'.ret # "ippStsNoErr" /\ out'.data = <<>> /\ UNCHANGED <<phase, secret, msg>>

New == phase' = "Init" /\ secret' = <<>> /\ msg' = <<>> /\ Done(<<>>)

SetKey(s) ==
  /\ phase # "none"
  /\ phase' = "KeySet" /\ secret' = Coordinates(s) /\ msg' = <<>> /\ Done(<<>>)

Start ==
  /\ phase = "KeySet" /\ phase' = "Processing" /\ Done(<<>>) /\ UNCHANGED <<secret, msg>>

\* n more bytes of plain text.
Encrypt(n) ==
  LET plain == Data("plain", Len(msg), n)
  IN  /\ phase = "Processing"
      /\ Done(Crypt(secret, Len(msg), plain)) /\ msg' = msg \o plain
      /\ UNCHANGED <<phase, secret>>

\* n more bytes of encrypted text.
Decrypt(n) ==
  LET plain == Crypt(secret, Len(msg), Data("cipher", Len(msg), n))
  IN  /\ phase = "Processing"
      /\ Done(plain) /\ msg' = msg \o plain
      /\ UNCHANGED <<phase, secret>>

Final(n) ==
  /\ phase = "Processing" /\ phase' = "Finished"
  /\ out' = [ret |-> IF \E i \in DOMAIN msg : KeyByte(secret, i) \notin ZeroBytes
                     THEN "ippStsNoErr" ELSE "ippStsShareKeyErr",
             data |-> SubSeq(Tag(secret, msg), 1, n)]
  /\ msg' = <<>> /\ UNCHANGED secret

Next ==
  \/ Fail \/ New \/ Start
  \/ \E s \in Secrets : SetKey(s)
  \/ \E n \in 0..MAX_MSG : Encrypt(n) \/ Decrypt(n)
  \/ \E n \in 0..SM3.hashLen : Final(n)

Spec == Init /\ [][Next]_vars
=============================================================================
