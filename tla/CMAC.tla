-------------------------------- MODULE CMAC --------------------------------
(***************************************************************************)
(* What an AES-CMAC context promises: the tag is CMAC of the bytes of all  *)
(* updates since the message began, under the key of the last              *)
(* initialisation that succeeded.                                          *)
(***************************************************************************)
EXTENDS Blocks

CONSTANTS BLOCK_SIZE

VARIABLES
  key,  \* the key, 0 before there is one
  len,  \* bytes of message absorbed
  out   \* what the last call returned: status, tag and how much of it

vars == <<key, len, out>>

Returns(status) == [ret |-> status, tag |-> <<>>, mdLen |-> 0]

-----------------------------------------------------------------------------
\* NIST SP 800-38B: every block but the last is full; the last one is padded
\* with a one bit and zeros if it is not, and takes a subkey.
Message(n) == Data("in", 0, n)
FullBlocks(n) == IF n = 0 THEN 0 ELSE (n - 1) \div BLOCK_SIZE
MessageBlock(n, i) == SubSeq(Message(n), (i - 1) * BLOCK_SIZE + 1, i * BLOCK_SIZE)
Subkey(name, k) == [j \in 1..BLOCK_SIZE |-> {<<name, k, j>>}]

LastBlock(n) ==
  LET rest == SubSeq(Message(n), FullBlocks(n) * BLOCK_SIZE + 1, n)
  IN  IF Len(rest) = BLOCK_SIZE
      THEN XorBlock(Subkey("k1", key), rest, 0)
      ELSE XorBlock(Subkey("k2", key),
                    CopyBlock(rest \o <<{<<"pad">>}>>, ZeroBlock(BLOCK_SIZE), 0), 0)

\* A tag is known by the key and the blocks that were chained.
MessageTag ==
  [key |-> key,
   blocks |-> [i \in 1..FullBlocks(len) |-> MessageBlock(len, i)] \o <<LastBlock(len)>>]

-----------------------------------------------------------------------------
Init == key = 0 /\ len = 0 /\ out = Returns("ippStsNoErr")

Reject == \E status \in {"ippStsContextMatchErr", "ippStsLengthErr", "ippStsNullPtrErr", "ippStsMemAllocErr"} :
            out' = Returns(status) /\ UNCHANGED <<key, len>>

\* Initialisation; one that fails for its key gives up the message but not the key.
Begin ==
  /\ len' = 0
  /\ \/ out' = Returns("ippStsNoErr") /\ key' > 0
     \/ out' = Returns("ippStsLengthErr") /\ UNCHANGED key

Absorb == len' >= len /\ out' = Returns("ippStsNoErr") /\ UNCHANGED key

\* The tag of the message so far, after which it goes on or is over.
Give ==
  /\ out' = [ret |-> "ippStsNoErr", tag |-> MessageTag, mdLen |-> out'.mdLen]
  /\ out'.mdLen \in 1..BLOCK_SIZE
  /\ len' \in {0, len} /\ UNCHANGED key

Next == Reject \/ Begin \/ Absorb \/ Give

Spec == Init /\ [][Next]_vars
=============================================================================
