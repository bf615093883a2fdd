---------------------------- MODULE HashFunction ----------------------------
(***************************************************************************)
(* The reference: what the digest of a whole message is (FIPS 180-4), with *)
(* the digest function itself symbolic.                                    *)
(***************************************************************************)
EXTENDS Blocks

CONSTANT LO_MOD   \* values of a 64-bit word of the length

\* The 0x80 byte, the fewest zero bytes and the length in bits.
Padded(m, msg) ==
  LET bits   == 8 * Len(msg)
      field  == IF m.mrl = 1 THEN << {<<"len", bits % LO_MOD>>} >>
                ELSE << {<<"len", (bits \div LO_MOD) % LO_MOD>>}, {<<"len", bits % LO_MOD>>} >>
      zeros  == CHOOSE z \in 0..(m.mbs - 1) : (Len(msg) + 1 + z + m.mrl) % m.mbs = 0
  IN  msg \o <<{<<"0x80">>}>> \o ZeroBlock(zeros) \o field

\* The first n bytes of the digest of msg.
Digest(m, msg, n) == [j \in 1..n |-> {<<"md", m.name, Padded(m, msg), j>>}]
=============================================================================
