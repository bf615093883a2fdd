---------------------------- MODULE MC_HashStream ---------------------------
(***************************************************************************)
(* HashStream with small blocks and digests.                               *)
(***************************************************************************)
EXTENDS HashStream, TLC

\* A method like SHA-256 and one like SHA-512, with the limits of cpHashAlgAttr.
Sha256 == [name |-> "SHA256", mbs |-> 2, mrl |-> 1, hashLen |-> 1,
           maxLo |-> (LO_MOD \div 8) - 1, maxHi |-> 0]
Sha512 == [name |-> "SHA512", mbs |-> 4, mrl |-> 2, hashLen |-> 2,
           maxLo |-> LO_MOD - 1, maxHi |-> (LO_MOD \div 8) - 1]
MCMethods == {Sha256, Sha512}

\* A bad length, less than a block, and more than one.
MCStreamCallLens == {-1, 1, 3}

\* The words that end a padded message are its length in bits.
LengthFieldIsBits ==
  \A a \in StreamAddrs :
    hsMem[a].method.mrl = 2 =>
      msgLenRep(hsMem[a].method, hsMem[a].lenLo, hsMem[a].lenHi)
        = LET bits == 8 * Len(Absorbed(hsMem[a]))
          IN  << {<<"len", (bits \div LO_MOD) % LO_MOD>>}, {<<"len", bits % LO_MOD>>} >>
=============================================================================
