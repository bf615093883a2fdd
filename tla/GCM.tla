-------------------------------- MODULE GCM ---------------------------------
(***************************************************************************)
(* What an AES-GCM context promises, in terms of whole messages: which     *)
(* call may follow which, what each byte of output is and what the tag     *)
(* covers, however the IV, the AAD and the text were cut into calls and    *)
(* however often the tag was asked for on the way.                         *)
(***************************************************************************)
EXTENDS Blocks

CONSTANTS BLOCK_SIZE, CTR_POS, LEN_MOD, BYTESIZE, MAX_TXT_LEN

VARIABLES phase, iv, aad, txt, out

vars == <<phase, iv, aad, txt, out>>

Phases == {"GcmInit", "GcmIVprocessing", "GcmAADprocessing", "GcmTXTprocessing"}

-----------------------------------------------------------------------------
(* The message the calls have built up: iv and aad bytes, and for every    *)
(* byte of text whether it was encrypted or decrypted.                     *)

LengthField(n) == {<<"bits", (n * BYTESIZE) % LEN_MOD>>}
Zeros(n) == ZeroBlock(n)

\* The block counter number 0 of the message.
J0 ==
  LET bytes == Data("iv", 0, iv)
  IN  [hash |->
         IF iv = CTR_POS
         THEN [done |-> <<>>, acc |-> bytes \o Zeros(BLOCK_SIZE - CTR_POS - 1) \o <<{<<"one">>}>>]
         ELSE [done |-> ZeroPadded(bytes, BLOCK_SIZE)
                          \o << Zeros(BLOCK_SIZE - 1) \o <<LengthField(iv)>> >>,
               acc  |-> Zeros(BLOCK_SIZE)],
       inc |-> 0]

\* The keystream byte for the text byte i: block number 1 + (i-1)/16.
Keystream(i) == {<<"E", [J0 EXCEPT !.inc = 1 + (i - 1) \div BLOCK_SIZE], ((i - 1) % BLOCK_SIZE) + 1>>}

\* The output for the text byte i, and the ciphertext byte i of the message t.
Output(i) == Xor({<<"txt", i>>}, Keystream(i))
Ciphertext(t) == [i \in DOMAIN t |-> IF t[i] = "Encrypt" THEN Output(i) ELSE {<<"txt", i>>}]

MessageTag ==
  [ghash |->
     [done |-> ZeroPadded(Data("aad", 0, aad), BLOCK_SIZE)
                 \o ZeroPadded(Ciphertext(txt), BLOCK_SIZE)
                 \o << <<LengthField(aad)>> \o Zeros(BLOCK_SIZE - 2) \o <<LengthField(Len(txt))>> >>,
      acc  |-> Zeros(BLOCK_SIZE)],
   mask |-> [j \in 1..BLOCK_SIZE |-> {<<"E", J0, j>>}]]

-----------------------------------------------------------------------------
Init == phase = "GcmInit" /\ iv = 0 /\ aad = 0 /\ txt = <<>> /\ out.ret = "ippStsNoErr"

\* The call writes neither output bytes nor a tag.
NoOutput == out'.dst = <<>> /\ out'.tag.mask = <<>>

\* A call is rejected: the message is what it was.
Reject == out'.ret # "ippStsNoErr" /\ NoOutput /\ UNCHANGED <<phase, iv, aad, txt>>

\* A new message begins.
Begin == phase' = "GcmInit" /\ iv' = 0 /\ aad' = 0 /\ txt' = <<>> /\ NoOutput

AddIV ==
  /\ phase \in {"GcmInit", "GcmIVprocessing"} /\ phase' = "GcmIVprocessing"
  /\ iv' >= iv /\ out'.ret = "ippStsNoErr" /\ NoOutput
  /\ UNCHANGED <<aad, txt>>

AddAAD ==
  /\ phase = "GcmAADprocessing" \/ (phase = "GcmIVprocessing" /\ iv > 0)
  /\ phase' = "GcmAADprocessing"
  /\ aad' >= aad /\ out'.ret = "ippStsNoErr" /\ NoOutput
  /\ UNCHANGED <<iv, txt>>

\* Start gives up the message before it; it may stop after the IV.
Start ==
  /\ phase' \in {"GcmIVprocessing", "GcmAADprocessing"}
  /\ phase' = "GcmAADprocessing" <=> out'.ret = "ippStsNoErr"
  /\ phase' = "GcmIVprocessing" => aad' = 0
  /\ phase' = "GcmAADprocessing" => iv' > 0
  /\ txt' = <<>> /\ NoOutput

AddText ==
  /\ phase \in {"GcmAADprocessing", "GcmTXTprocessing"} /\ phase' = "GcmTXTprocessing"
  /\ Len(txt') <= MAX_TXT_LEN
  /\ SubSeq(txt', 1, Len(txt)) = txt
  /\ out'.ret = "ippStsNoErr"
  /\ out'.tag.mask = <<>>
  /\ out'.dst = [i \in 1..(Len(txt') - Len(txt)) |-> Output(Len(txt) + i)]
  /\ UNCHANGED <<iv, aad>>

\* The tag of the message so far; before the IV is complete there is none to promise.
GetTag ==
  /\ out'.ret = "ippStsNoErr" /\ out'.dst = <<>>
  /\ phase \in {"GcmAADprocessing", "GcmTXTprocessing"} => out'.tag = MessageTag
  /\ UNCHANGED <<phase, iv, aad, txt>>

Next == Reject \/ Begin \/ AddIV \/ AddAAD \/ Start \/ AddText \/ GetTag

Spec == Init /\ [][Next]_vars
=============================================================================
