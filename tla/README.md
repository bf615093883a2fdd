# TLA+ models of Intel Cryptography Primitives

The library is a set of C functions over contexts that belong to the caller. A context is a
structure in the caller's memory: an `...Init` function sets it up, a sequence of calls takes a
message through it in pieces of any length, and the caller may copy, pack, move and reuse it.
No call blocks, nothing is allocated and nothing is locked. Much of the arithmetic is covered
well by tests with known answers. What they hardly reach, and what these modules model, is what
contexts remember between calls (pending bytes, length words, counters, chaining values, ids
that carry addresses, what an earlier result left in memory), the arithmetic of carries, lengths
and exceptional points at its boundaries, the scratch memory nested calls share, lanes that
advance together, and the statics of the dispatcher that all threads share.

All paths below are relative to `src/sources/ippcp/` unless they begin with `src/`.

## 1. The system

| Component | State | Operations | Module |
|---|---|---|---|
| AES-GCM context | id, phase, three lengths, one buffer length, counter block, two encrypted counters, GHASH value, pointers into itself | Init, Reset, ProcessIV, ProcessAAD, Start, Encrypt, Decrypt, GetTag, Reinit | `AES_GCM` |
| Hash context (`ippsHash..`, `.._rmf`) | id, buffer and its index, two length words, chaining value | Init, Update, Final, GetTag, Duplicate, Pack, Unpack, Message | `HashContext`, `HashStream` |
| HMAC context | id, two padded keys, a hash context | the same, driving the hash functions | `HMAC` |
| AES-CMAC context | id, buffer and index, MAC, subkeys, cipher | Init, Update, GetTag, Final | `AES_CMAC` |
| AES-CCM, SMS4-CCM context | id, message, tag and processed lengths, counter, key-stream block, pending block, MAC | Init, MessageLen, TagLen, Start, Encrypt, Decrypt, GetTag | `AES_CCM` |
| CBC, CBC-CS1..3, CFB, OFB, CTR, XTS | a vector the caller passes on | encrypt, decrypt | `BlockModes` |
| AES-SIV, S2V | none | encrypt, decrypt, S2V | `AES_SIV` |
| CPU dispatcher | statics `cpFeatures`, `cpFeaturesMask`, `ippcpJumpIndexForMergedLibs` | ippcpInit, ippcpSetCpuFeatures, ippcpGetCpuFeatures, cpGetFeature, the jump stubs | `Dispatcher` |
| AES context | id, cipher, round keys laid out for it | Init, the block modes | choice of cipher and layout in `Dispatcher` |
| SM2 encryption scheme | a state of four values, two hash contexts, a window of the key stream with counter and index | Init, SetKey, Start, Encrypt, Decrypt, Final | `ECES_SM2` |
| Scratch pools of fields, engines and curves | an array and the index of what is used | every function on fields and curves takes from them | `FieldScratch`, `CurveScratch`, `ScratchPools` |
| Big numbers, modular engine | chunks; modulus and Montgomery constants | add, subtract, inverse | `BigNumbers`, `ModInverse` |
| Elliptic curves | curve, points in Jacobian coordinates, precomputed tables | add, double, products of scalar and point | `EllipticCurve`, `ScalarMul` |
| ECDSA, ECNR, SM2 signatures, ECDH | none beyond the curve: keys are set or passed in | keys, sign, verify, secrets, tests | `EcSchemes` |
| SM2 key exchange | role, keys, user id hashes, the confirmation | Init, Setup, SharedKey, Confirm | `KeyExchange` |
| RSA | public key; private key of type 1 (n, d) or 2 (factors); the number that takes a result | Init, Set, Encrypt, Decrypt, ValidateKeys | `RSA` |
| LMS, XMSS | public key and signature | verify | `LMS`, `XMSS` |
| crypto_mb | contexts of 8 or 16 lanes; a packed status word | init, update, final, one-shot | SM3 in `SM3_mb` |
| DL/DSA over prime fields | parameters, keys, flags | set, generate, sign, verify | not modelled |
| Pseudo-random generator, prime generation | seed, augment, key; the candidate | gen, set seed; at most 1000 candidates | not modelled |
| SMS4 block modes, TDES, ARCFour | none, or the RC4 table | encrypt, decrypt | not modelled |
| Self-tests, assembly, generators, examples | | | not modelled |

How they interact: HMAC, the SM2 encryption scheme, the generator, the signatures, LMS and XMSS
call the hash functions; GCM, CCM, CMAC, XTS and SIV hold an AES context inside theirs; every
function enters through a jump stub of the dispatcher, and the AES functions ask it again which
features are enabled, both when a context is set up and when it is used; curves and RSA keys
hold modular engines and allocate scratch memory from the engines' pools, nested along the
calls. Data passes through pointers and return values only; there are no callbacks but the
random-bit supplier.

What is hard in it, and which properties make it correct:

* *Streaming.* A message may be cut into calls anywhere, calls may be rejected on the way and
  the tag may be asked for in mid-message. The result must be that of the whole message. One
  field often serves several phases (`bufLen` of GCM), several ways through one function must
  leave the same state (CCM), the last block may have to wait (CMAC, stolen tails of CBC), and
  text may be overwritten in place while it is still needed.
* *Limits.* Length words wrap (two 64-bit words of a hash, lengths times 8), a 32-bit counter
  block must not, the 128-bit counter of CTR is counted in its low word and corrected, and
  length limits are compared across words.
* *What an earlier step left.* LMS and XMSS take all their hashes over one buffer or address
  array and rewrite what changed; RSA leaves chunks of old results in the number it writes to; a
  key exchange clears an ephemeral key that a second call may still expect.
* *Arithmetic at its edges.* Carries that are dropped because they cannot occur, points that are
  equal or opposite in a sum that does not look for it, orders longer than the field, cofactors.
* *Scratch memory.* Pools have fixed sizes, nested calls share them, and every way out must give
  back what was taken.
* *Moving and reuse.* An id is XORed with the context's address. A context that was moved must
  be refused until it was initialised again at the new address, a packed one until it was
  unpacked, and one that finished a message must forget all of it but the key.
* *Failure between two steps.* Several functions set the id before they look at the last
  argument; HMACFinal makes five hash calls and looks at the first status.
* *Threads and lanes.* The dispatcher is initialised by whoever comes first, by several threads
  at once if they come together, without a lock, in several stores. Lanes of a batch advance
  together under masks.
* *Messages.* Only the SM2 key exchange has a peer: what it is sent may be late, repeated or
  from another exchange.
* Not met here: persistence, timeouts.

`PROJECT.json` lists the hazards at their lines, and which property is there for which.

## 2. The modules and the code

**Symbolic data.** `Blocks` represents a byte as the set of atoms whose XOR it is: XOR is the
symmetric difference, the zero byte the empty set. An atom is a byte of caller data or a byte of
some function's output, named by the arguments (`<<"E", counter, j>>`). Two such bytes are
equal exactly when they are equal for all data and all ciphers, so a refinement over symbolic
bytes says which input reached which output through which function. Chaining values (CBC MAC,
GHASH, digests) are represented by what was chained, as they are determined by it. Collisions
of a cipher or a hash are therefore outside the models.

**Small numbers.** Where the arithmetic itself is what matters (inverses, curves, signatures, RSA)
the modules compute with real numbers of a few chunks of three bits, `CHUNK_BITS`, and real
curves over small fields. Every length in chunks, every carry and every comparison of lengths
is that of the code.

### Streaming contexts

**`AES_GCM`** (`pcpaes_gcminit.c`, `..reset.c`, `..start.c`, `..processiv.c`, `..processaad.c`,
`..encrypt.c`, `..decrypt.c`, `..gettag.c`, `..reinit.c`). `ctx` is the structure field for field;
`counter` is the IV accumulator first and the counter block later, as in the code. `IVStatus`,
`AADStatus` and `TextStatus` are the argument checks in the code's order; `ProcessIV`, `FinishIV`,
`ProcessAAD`, `FinishAAD`, `ProcessText`, `Tag` are what the accepted calls do. `Move` is the caller
moving the context. `GCM` is the promise: an IV, an AAD and a text, per byte of text its key-stream
byte, and the tag as GHASH of the three with the lengths. `Message` in `AES_GCM` maps the one to the other.

**`HashContext`** holds the hash context as a record and the operations on it (`HashUpdate`,
`Finalize`, `HashTag`, `HashRestart`); **`HashStream`** puts contexts at several addresses and
makes the calls actions; `RMF` selects the interface (`hash/pcphashupdate_rmf.c` or
`hash/pcphashupdate.c` and so on), which differ in the length limit and in GetTag. `HashFunction`
is FIPS 180-4 padding and `HashMessages` the promise. `MC_Symmetric` runs it twice, with words
no message fills and with words of four bits. **`HMAC`** composes a context with the
hash functions as its own code calls them, checking the inner id as they do; `HMACMessages` is
the promise.

**`AES_CMAC`** (`pcpaes_cmacinit.c`, `..update.c`, `..gettag.c`, `..final.c`); `CMAC` is the promise.

**`AES_CCM`** (`pcpaes_ccminit.c`, `..messagelen.c`, `..taglen.c`, `..start.c`, `..encrypt.c`,
`..decrypt.c`, `..gettag.c`, and their `pcpsms4_ccm..` copies). `aesni` selects the branch of
Encrypt and Decrypt. `hist` remembers what was passed since Start. `CounterBlocks` has the
formatted blocks; `CCM` is the promise. Text passed before any Start is modelled too: it changes
the context and the promise says nothing about its bytes.

**`ECES_SM2`** (`gfpec/pcpgfpecessm2.h` and `gfpec/pcpgfpeces*sm2.c`) composes two contexts of
`HashContext`, for the key stream and the tag, with the window `window`/`wIdx` of key stream that
the calls use up. The product that gives the shared point is external: SetKey gets a point, the
point at infinity or an error. **`SM2Encryption`** is the promise (GM/T 0003.4).

### Modes and signatures over symbolic blocks

**`BlockModes`** has one function per mode and direction, as the code processes a call, and the
job of a caller who encrypts a message in pieces and decrypts it in others, each time in place or
not: memory is one sequence of units, so that a read after an overwrite gets what was
written. The standard's definition of each mode is beside it. A unit is a byte, and a bit for XTS.

**`AES_SIV`** is a sender and a receiver who may be handed another list of strings, text or
vector. **`LMS`** and **`XMSS`** are verification with its work buffer or address array, against
what a signer signed; signatures from other leaves, messages, keys and with changed parts are
among the inputs. `LMS` has the n of the one-time signature and the m of the tree equal.

**`SM3_mb`** has a lane per message, `MB16` selecting the 16-lane or the 8-lane form; a cell of
memory is a byte of a lane's message or of padding, and masks are sets of lanes.

### Numbers, curves, schemes

**`BigNumbers`**: chunks, and the sums and differences that reduce once. **`ModInverse`**
(`gsmod_almmontinv.c`, `gsmod_montinv.c` and the constant-time forms): `task`, `call`, `u`, `v`, `s`, `t`
as in the loop, one step per iteration; `ext` is the one carry that is kept; `pw` counts the
power of two.

**`EllipticCurve`** has the group of affine points as a definition and the library's Jacobian
formulas; **`ScalarMul`** the three products, one step per window: `gfec_point_mul` from the top,
`gfec_base_point_mul` with its table of affine points, `gfec_point_prod` for two scalars.
**`EcSchemes`** has the schemes over the group itself, each with the code's checks in order, and
**`KeyExchange`** the two parties with their sessions: whatever was sent may be delivered at any
time, again or never, and own values may come back.

**`FieldScratch`** begins with a vocabulary: a function is the set of its paths, a path the sequence of
what it allocates, releases, uses and calls. `FieldScratch` and `CurveScratch` (curves and schemes)
describe the functions of the library in it, with every early exit; **`ScratchPools`** runs them on a stack
with pools of the library's sizes, for fields and their extensions.

**`RSA`**: three contexts and the number `rsNum` that Encrypt and Decrypt write to, with all
chunks of its two buffers, as `gsRSAprv_cipher_crt` computes the two residues in them and a later
call finds what is left. `SetStatus` and `TextStatus` are the checks; `Residue`, `Raised`,
`Difference` and `Recombined` the steps of the Chinese remainder; `KeyTests` the tests of
ValidateKeys in order.

### Dispatcher

**`Dispatcher`** (`cpinit.c`, `src/sources/dispatcher/gen_disp_lin64.py`,
`asm_intel64/cpinitas.asm`, `pcpaesminitca.c`, `pcpaes_internal_func.c`,
`pcpaes_ecbencrypt.c`). `todo[t]` is what thread t has still to do in its call, one entry per
access to a static; a step that calls a function puts that function's steps in its own place.
`lib[t]` is the variant the stub chose, `ctx[t]` the cipher and the key layout of the thread's
AES context. Feature bits the ladder only tests together are one element of the set.

### Composition for the runs

Components that share state are composed where they interact: HMAC and the SM2 scheme contain hash
contexts, the schemes call the pools along their call tree. Components that share none
are put in one run and explored one at a time: in `MC_AES` (GCM and CCM), `MC_Symmetric`, `MC_PublicKey`
and `MC_Library` (dispatcher and RSA) each moves only while the others are at rest, so the states of the
run are the sum of the parts'.

## 3. The runs

Twelve runs; each takes at most a few minutes.

| Run | Checks | Shows |
|---|---|---|
| `aes` | TypeOK, LengthsAgree, CounterNeverRepeats, PointersCurrent, ImplementsGCM, CcmInStep, ImplementsCCM | GCM over all cuts, rejections, resets, moves; CCM for callers that avoid the calls of findings 2 and 3 |
| `symmetric` | InStep, ImplementsCMAC, StreamInStep, InStepPastCarry, ImplementsHashMessages, PadAbsorbed, ImplementsHMAC, CipherTextStandard, TextRecovered, SivBinds, LanesIndependent | CMAC; any interleaving of calls on two `_rmf` hash contexts that are copied, packed, unpacked, duplicated, the byte count across its carry and the length limit; HMAC, block modes, SIV and the lanes of SM3 (mb16) |
| `dispatch` | ReadyWhenPublished, CipherFitsKeys, UserChoiceKept, CallsReturn, WellSizedRecovered, KeysJudged | two threads in a merged library that initialise, choose features and use AES; RSA keys of both types on one number |
| `public_key` | InStep, ImplementsSM2, AlmostInverse, Inverted, ScalarProduct, SignaturesMatch, SecretsAgree, KeysTold, KeysAgree, ConfirmedAgree, WithinPools, CallsBalance, HeldWhenUsed, LmsValidIffSigned, XmssValidIffSigned | the SM2 scheme, inverses, products of points, signatures, secrets, the key exchange, scratch pools, hash-based signatures |
| `hash_bits` | LengthFieldIsBits | **violated**: finding 1 |
| `ccm_chunk` | CcmInStep | **violated**: finding 2 |
| `ccm_length` | WithinMessageLen | **violated**: finding 3 |
| `dispatch_1cpu` | CipherFitsKeys | **violated**: finding 4 |
| `pools_ext` | WithinPools | **violated**: finding 5 |
| `lanes8` | LanesIndependent | **violated**: finding 6 |
| `rsa_crt` | RsaRecovered | **violated**: finding 7 |
| `signatures` | SignaturesExact | **violated**: findings 8, 9 and 10 |

`InStep` (of CMAC and of the SM2 scheme), `StreamInStep` and `CcmInStep` say one thing of each streaming
module, in its own fields: what the context holds is what the bytes passed so far leave, none lost and
none counted twice.

Three properties of passing runs are what is left of a property that the code does not keep, and the whole
of it is a violated run: `CcmInStep` for callers that avoid two kinds of calls (`ccm_chunk`, and
`ccm_length` for the length), `WellSizedRecovered` (`rsa_crt`), `SignaturesMatch` (`signatures`). They say that
the code goes wrong in no other way.

Each property of a passing run has a mutant in `PROJECT.json`: a definition changed the way a
plausible bug would change the code, and the property it breaks. The mutated forms stand in the
modules, before the definition they change, marked "Mutant".

### Bounds, and why they are enough

* *Block sizes* of 2, 3 or 4 bytes for 16, 64 or 128. The code branches on whether a buffer is
  empty, filled, completed exactly or overrun, and on whether whole blocks and a rest follow; 3
  bytes reach every combination with calls of 1, 2 and 4 bytes. Negative lengths and missing
  pointers are among the arguments, so that the rejected calls occur.
* *GCM.* `CTR_MOD` = 4 gives a limit of (4-2)*3 = 6 bytes of text, so the limit is reached and the
  counter's last value is used. `LEN_MOD` = 16: bit lengths wrap (3*8), byte lengths do not
  within `MAX_IV` = `MAX_AAD` = 4, which is more than a block. The code would take 2^64 bytes to wrap
  a byte length.
* *Hash.* Calls of -1, 1 and 3 bytes; `STREAM_MAX_MSG` = 5 bytes is more than two blocks of the one method and more than one of the
  other; two addresses let a context be copied over another in mid-message. A second instance has
  words of four bits, so the low word wraps and the limit is reached.
* *CMAC.* Updates of -1 and 0 to 9 bytes in blocks of 4, messages up to 17 bytes: four blocks and one byte.
  *HMAC.* Keys of one block, of more and a bad one; one method, messages up to a block; two addresses.
* *Block modes.* Messages up to 13 units in blocks of 4: three blocks and a rest of each length, cut
  anywhere. `CTR_WORD` = 4 is where the kernel's counter wraps, and messages reach beyond it.
* *SIV.* Blocks of 2 and lists of up to two of four strings: empty, shorter than a block, a block,
  longer. *LMS, XMSS.* Trees of height 3, Winternitz widths {1, 2, 4} and 4; three messages, every leaf.
* *SM3 lanes.* Two lanes, blocks of 4, calls of 0, 1, 3, 4, 6 and 9 bytes: a lane may fill a block, pass
  one, leave a rest or stand still next to any other.
* *CCM.* A message of 5 bytes in blocks of 4, calls of -1, 1, 3 and 5 bytes; `MAX_STARTS` = 2 messages, so that lengths set in
  mid-message reach the next one; `MAX_CTR` = 3 counter values, one more than the message needs.
* *SM2 encryption.* Calls of -1, 0, 1 and 4 bytes, tags of -1, 2 and 4, messages up to 5, so a message
  crosses the window of the key stream.
* *Inverses.* Chunks of 3 bits and the moduli 3, 5, 7, 9, 15, 31, 37, 45 and 63: of one and two chunks,
  full and not, prime and not, each with every input below it.
* *Curves.* C31, C61, C127 and C1021 for products of a scalar and a point, the three forms of a
  (0, -3, arbitrary) among them, with every scalar up to the order; C61 for all pairs of scalars; base tables with
  windows of 5 and 7 bits. Signatures on K13 and K11, all keys with all ephemeral keys; the order of K11 is a chunk longer
  than its field. Secrets on H13, H7 and K13, with cofactors 2, 4 and 1. The key exchange on K13 and
  H13; one of B's ephemeral keys makes its exponent 0. Signed numbers are {0, 1, 11, 13, 15}, around the
  orders.
* *Pools* have the library's sizes (16, 14, 6, 10), as whether they suffice is the question;
  extensions of degrees 2 and 3, which the code treats differently, in towers of three: (2,2,2), (2,3,2)
  and (3,2,2).
* *RSA.* Moduli of two and three chunks from the factors (11,13), (13,5), (5,13), (5,7), (3,5), (5,11): the longer
  factor first and last, of the same and of different bit sizes, and a product with a chunk less than its engine; texts
  above and below the moduli and shorter than a factor; (11,13) with a private exponent
  modulo (p-1)(q-1) and one modulo lcm(p-1,q-1); keys with one wrong part for ValidateKeys. Only
  sound keys are used to decrypt, and once the number holds results the other contexts stay as they are.
* *Dispatcher.* Two threads, each making any number of calls; an Ice Lake processor, and a Haswell
  in `dispatch_1cpu`. The choices select every rung of the ladder, and one of the threads makes them while
  the other is between calls. The mask `ippCPUID_NOCHECK`
  alone is left out (observation c below).

Callers are restricted where the library cannot do anything about them: a context that never had
a key (a failed first Init) is not used (`ready` in `AES_GCM`, `KEYED` in `AES_CMAC`); memory that
was never a context is not unpacked. CCM is the one component where they are restricted for the sake of a
property: in `aes` a caller finishes a pending block with the call that reaches its end, and on AES-NI keeps to the message
length (`CALLER_FITS`); `ccm_chunk` and `ccm_length` are the same model without that. A caller of CCM uses one
of Encrypt and Decrypt for one message. RSA and the signatures leave out no call.

### Fairness

Only `CallsReturn` needs it. The specification of `dispatch` has weak fairness of `Step(t)` for each
thread t: a thread inside a call is scheduled again as long as it has a step to take, and every step
is a plain memory access that is always enabled. Nothing is assumed about threads making calls. The
property is not trivial, as a stub jumps back to itself until some thread has stored an index.

### Findings

1. `hash_bits`: for SHA-384 and SHA-512 the high word of the bit length is
   `LSL64(lenHi,3) | LSR64(lenLo,63-3)` (`hash/sha512/pcpsha512stuff.h:155`): the low word
   gives four bits where a factor of 8 moves three. From 2^60 bytes on the padding is wrong. The
   scaled word of the run shows it when its top bit pattern is reached.
2. `ccm_chunk`: with `flag` bytes pending, Encrypt takes `IPP_MIN(len, MBS_RIJ128-1)` more into
   the pending block where there is room for `MBS_RIJ128-flag` (`pcpaes_ccmencrypt.c:92`; the
   same in Decrypt and SMS4). A call with more bytes than that overruns the block and leaves
   MAC and key stream out of step.
3. `ccm_length`: on AES-NI, Encrypt and Decrypt do not add whole blocks to `lenProcessed`
   (`pcpaes_ccmencrypt.c:117`), so that calls beyond the length of the message are accepted; the
   function's comment (line 44) says they are refused. In the run a call of 5 bytes counts one, and the next
   call, of a message that is complete, is accepted. The C loop counts every byte.
4. `dispatch_1cpu`: `cpFeatures` is stored before `cpFeaturesMask` (`cpinit.c:231`), and the
   first is taken as a sign for both. In a library built for one processor, where no stub
   initialises, another thread's enquiry in between is answered no; `ippsAESInit` asks twice and may
   combine two answers.
5. `pools_ext`: over an extension of degree 3 or more with the general binomial method, taking the
   coordinates of a point (`ippsGFpECGetPointRegular`) nests to 15 elements of a pool of 14
   (`gfpec/pcpgfpxmethod_binom.c:40`, pool size `gfpec/pcpgfpxstuff.h:31`); the allocator answers NULL and the
   product is written through it.
6. `lanes8`: when one lane of `sm3_update_mb8` has filled its block, the lanes that have not are
   compressed too, with their unfinished lengths (`crypto_mb/src/sm3/sm3_update_mb8.c:106`; the
   16-lane form sets those lengths to 0). Lanes of equal lengths are not affected.
7. `rsa_crt`: with factors of different bit sizes Decrypt copies the chunks of the cipher text over the
   output's memory and reads as many chunks as the factor has (`pcprsa_gsprv_cipher_crt.c:92`, `:106`), though the
   comments above say "xq = x^dQ mod Q" and "xp = x^dP mod P". What an earlier result left there takes part:
   with p=5, q=13, decrypting 7 and then 0 into the same number gives 60 for the second. Factors of
   the same bit size go through an expansion with zeros.
8. `signatures`: ECNR signing returns a signature whose s is 0, which verification refuses; its comment
   (`gfpec/pcpgfpecsignnr.c:64`) promises `ippStsEphemeralKeyErr`, and line 176 looks at r only. This is the trace
   that the run shows.
9. `signatures`: SM2 verification accepts a pair with t = 0, or whose product is the point at infinity, if r happens to be the message
   (`gfpec/pcpgfpecverifysm2.c:147`); the comment above says "check if t!=0". With `SignSchemes = {"SM2"}` and
   `KeyCurves <- MCOnlyK13`, `VerifyCurves <- MCOnlyK13` in `MC_EcSchemes.cfg` the run shows `<<11, 1>>` accepted.
10. `signatures`: SM2 verification writes the abscissa over t, and where the order has a chunk more than the
   field, the chunk of t above it stays (`gfpec/pcpgfpecverifysm2.c:160`; the new length `ns` is not used): "t = P.x", as
   line 149 says, does not hold, and valid signatures are refused. With `SignSchemes = {"SM2"}` and `MCOnlyK11` for the
   curves the run shows `<<1, 7>>`, which the private key 2 makes, refused.

Observations made while modelling that no run checks, since no document contradicts the code
clearly, or the case lies outside the instance:

* (a) The comment above the check of `pcpaes_gcmprocessiv.c:72-74` bounds the IV's length in bits, the
  check the sum in bytes. Apart, they differ from 2^61 bytes on.
* (b) `ippsHashGetTag_rmf` accepts any `tagLen` up to the digest's length and stores the whole digest
  (`hash/pcphashgettag_rmf.c:72`), beyond a buffer of `tagLen` bytes; the function it replaces stores
  `tagLen` bytes (`hash/pcphash_digest.c:124`). One call shows it, so it has no run. `GetTag` in `HashStream` returns
  the whole digest, as the code does.
* (c) `ippcpSetCpuFeatures(ippCPUID_NOCHECK)` leaves `cpFeatures` 0, which the next enquiry takes
  for a library that was not initialised: it executes CPUID and enables everything
  (`cpinit.c:50`).
* (d) Without `ippCPUID_NOCHECK` the mask becomes the caller's argument too (`cpinit.c:389`), though
  `ippcpdefs.h:361` describes NOCHECK as what sets features without a check.
* (e) An implicit initialisation another thread began before `ippcpSetCpuFeatures` may store over
  the choice after that call has returned: `UserChoiceKept` holds, and is proved, for one thread that chooses
  while the others are between calls; it does not hold for two.
* (f) A context set up with AES disabled and used after all features were enabled again: the K1
  variant's VAES path reads its round keys in the wrong layout (`pcpaes_ecbencrypt.c:80`).
* (g) SM3 in eight lanes, beyond finding 6: a rest is copied over the buffers of all lanes
  (`sm3_update_mb8.c:130-135`), a mask is shifted by 64 (`:94`, undefined), a finished
  lane's pointer is set to NULL only two blocks later, and Final writes the length of lanes it is not
  to touch. In both forms a lane with a length but no data keeps its old index; in sixteen lanes it is also compressed (from zeros).
  `sm3_msg_digest_mb16` returns for the whole batch at the first bad lane, with status OK.
* (h) The type-2 engine for N has room for bitP+bitQ bits, which may be a chunk more than N has:
  Decrypt then accepts a cipher text at or above the modulus, and ValidateKeys calls matching keys
  invalid. `ippsRSA_SetPrivateKeyType2` stores the factors' bit sizes over the capacity it checks
  them against (`pcprsa_setprivatekeytype2.c:114`), so a context only ever shrinks. The key (5,11) and the text 60 of the
  run are the case: `KeysJudged` and `WellSizedRecovered` are about the others. A type-1 exponent longer
  than N is cut to N's bits in Decrypt.
* (i) SM4-GCM in sixteen lanes: one `state` stands for all lanes, lengths are added unmasked, and a check
  of one lane's length reads another's.
* (j) SM2 key exchange: with a cofactor other than 1 the exponent has a factor R^-1 too many, on both sides
  alike; Setup does not reset the point and the hash kept for the confirmation, so a Confirm before
  SharedKey compares with the session before or with zeros; when U is the point at infinity, SharedKey
  still writes a key and clears the ephemeral one.
* (k) Four functions keep an `IppsHashState_rmf` in a `static` buffer that all threads share
  (`gfpec/sm2/sm2_encrypt_ext.c:172`, `gfpec/sm2/sm2_decrypt_ext.c:158`, `gfpec/sm2/sm2_stuff.c:62` and `:144`,
  `gfpec/sm2/sm2_message_representation.c:89`), though `src/README.md` lists a thread-safe design.
* (l) `ippsGFpECSet` does not go back from a special form of a to the arbitrary one.
  `ippsGFpECSharedSecretDHC` reduces cofactor times private key by the order of the base point, so its result
  differs for points outside the subgroup. `ippsGFpECTstKeyPair` without a private key does not
  test that the point is on the curve.
* (m) The setters of LMS keys and signatures accept types whose hashes have different lengths, while
  verification takes both for equal. The shift of the WOTS+ checksum in XMSS loses it when
  `len_2*log2_w` is a multiple of 8, which it is for no parameter set of the library; the index of a
  signature is not compared with 2^h.
* (n) Prime generation leaves the last composite candidate in the caller's number with status
  `ippStsInsufficientEntropy` (`pcpprimegen_bn.c:102`).

## 4. The proofs

`AES_GCM_proofs` proves, for every block size, counter width, length-field width and set of call
lengths that meets `GcmAssumption`, that the four invariants of the run always hold
(`TypeCorrect`, `LengthsCorrect`, `CounterSafe`, `PointersSafe`). The inductive invariant `IInv` says,
besides types, that the context is `Good` for the message passed so far, phase by phase, and that a context
whose Init succeeded has pointers for the address in its id. `CounterNeverRepeats` alone is not
inductive: it needs the buffer length to be the text length modulo the block, which needs the reset of
`bufLen` at each change of phase. `ChunkParts`, `AbsorbBufLen` and `CtrModeCounter` say what a
chunk of any length does to lengths and counter; one lemma per call (`IVInvariant`,
`CryptInvariant`, ...) brings it to the calls. `Implements` is the refinement of `GCM`: output bytes and tag are
those of the whole message. With `IInv`, the invariant `Traced` is inductive: the accumulator of the phase has
hashed the whole blocks passed and holds the bytes that wait (`Hashing`), the counter is the one of
the block in use (`CounterAt`), `ecounter` is its encryption, and the length fields hold the lengths
themselves, because a call that would make one wrap is rejected (`NoWrap`). `AbsorbGoesOn` is the core
for GHASH, one case per way a chunk can be cut; `CtrModeText` is the same for the key stream;
`InitialCounterOfIV` covers the two forms of the first counter, `TagOfMessage` the tag; and a lemma per
call (`IVStep`, `StartStep`, ...) makes it a step of `GCM`.

**CMAC.** `Symmetric_proofs` proves for every block size, key length and call length (`CmacAssumption`):
`TypeCorrect`, `MessageInStep` (the blocks encrypted and the bytes pending are the message, none
twice and none missing, and the last block waits) and `ImplementsCmac`, that the context implements
the abstract `CMAC`. The inductive invariant is `TypeInv /\ InStep`: InStep is inductive once the
buffer and the MAC are known to be made of whole blocks, which TypeInv adds to TypeOK.
`AbsorbKeeps` is its core, one case per way through Update. For the refinement,
`FullBlocksChained` shows that the blocks encrypted are as many as CMAC chains before the last,
`BlocksOfMessage` that they are the message's, `LastBlockOfMessage` that the buffer under its
subkey is CMAC's last block; `TagIsCmac` puts them together, and each call maps to a step of `CMAC`.

**Lanes of SM3.** `Symmetric_proofs` also has `LanesStayApart`: for any number of lanes, any block size with
room for the length field, and any sequence of calls of `sm3_update_mb16` and `sm3_final_mb16` with any length
in each lane, every lane has hashed its own message and its digest is the standard's. The invariant `MbInv` says of each lane
that what it has hashed, followed by its buffer up to its index, is the message given to it, that the index is below a block,
and that its length counts the message. The steps follow the code's loops, which end at different times for
different lanes: a lane whose length is 0 must pass through the others' blocks unchanged. The hypothesis is `MB16`:
`sm3_update_mb8` violates the property (finding 6).

**SIV.** `SivBindsAlways`, in `Symmetric_proofs` too, is `[]SivBinds` for every block size, set of strings and length of
list, with symbolic tags. `VectorsAre` shows, by induction over the list, that S2V's vector is the sum of the strings' tags, each
doubled once per string after it; `S2VIs` what the last tag is taken of, with a long last string or a padded one; `TagsTold`,
`PaddingTold` and `EndTold` that this shows the strings, how many they are, and whether the last one was padded. So
`S2VTells` lists apart, `EmptyListTold` the empty one from all others, and a vector with a bit changed is no
tag (`HandedTold`). `SivAssumption` only keeps tags, which callers do not know, out of the strings they pass.

**Inverses.** `PublicKey_proofs` proves `AlmostInverseAlways`: for every odd modulus, every input below it and
every chunk size, both forms of the almost Montgomery inverse return a number below the modulus whose
product with the input is the power of two they report, although three of the loop's four additions
drop their carry. The inductive invariant keeps `u*s + v*t = m` (the determinant), which bounds s and t
so that a carry can occur in one place only, and the two relations of s and t to the input modulo m
(`RelationT`, `RelationS`) with the power of two counted so far; `NotTheModulus` excludes the one
remaining edge. `InvertedAlways` brings this to the interface, `gs_mont_inv` and `gs_inv`: the one returns the Montgomery form of 1/a,
the other 1/a itself, and NULL exactly if there is no inverse. Its invariant adds `Progress` to the loop: the input and the modulus are combinations
of u and v, so what divides both at the end divides them, and a result other than NULL means that they are coprime; and 2^k
times u*v never exceeds the product of modulus and input, so k is at most twice the modulus's bit size, which is why
the fixed number of iterations of the constant-time form is enough. `ScaledInverse` is the scaling: a Montgomery product cancels the radix, which has an inverse as the modulus is
odd (`RadixInverted`), so each product takes 2^i/a to 2^(i+j)/a over the radix, up to the power of two wanted, whatever k was.
Powers of two are a recursive function; that it is the function its equation describes is `PowersExist`.

**Hash.** `HashContext_proofs` says what the operators on a context do, `HashStream_proofs` carries it
to the interface, for every set of algorithms (block, digest and length-field sizes), width of the length
words, buffer size, set of addresses and cut of the messages into calls. `StaysInStep` is `[]StreamInStep`: a
context, wherever it was copied, packed, moved or duplicated to, has absorbed whole blocks, holds the rest, less
than a block, in its buffer, and its two length words together count the message. `LengthLimited`
is the limit on the length: with the comparison of words in `ippsHashUpdate`, the bit length of no
message outgrows the length field (from `LimitAssumption`: the longest message an algorithm's
`maxHi`, `maxLo` allow has a length the field counts). `Implements` is the refinement of `HashMessages`: every
call is a step of it or a stutter, so digests and tags are FIPS 180-4's for the bytes passed or inherited. It
has the hypothesis `MessagesCountable`, messages short enough for finding 1 not to bite; without it the
statement is false, which `hash_bits` shows. The inductive invariant gives each address a `Context`, the
fields' types with StreamInStep, and bounds what it has absorbed. On the way: `UpdateAbsorbs`, one case
per way through Update; `AddLengthCounts`, the carry from word to word; `FewestZeros` and `FinalizePads`,
that the code's choice of one or two final blocks is FIPS 180-4's padding.

**HMAC.** `HashStream_proofs` proves `PadsStay` (`[]PadAbsorbed`) and the refinement `HmacImplements` of `HMACMessages` from
the same lemmas, for every set of methods, addresses, key, call and tag lengths. The invariant `HmacInv` gives every address
with a valid id two pads of the key's block and a hash context that has absorbed the inner pad and then the message; it has to survive
Duplicate, GetTag, which works on a copy, and Final, which uses the inner context for the outer hash and then begins
the next message. A step of the code maps to one of the abstract HMAC, where a tag is two hashes over the key. The
hypothesis `HmacCountable` excludes, as above, messages that finding 1 would spoil.

**SM2 encryption.** `PublicKey_proofs` proves `EcesStaysInStep` (`[]InStep`) and the refinement `EcesImplements` of
`SM2Encryption`, for every element length, digest length, width of the counter and cut of the message. The invariant `EcesInv`
says that the fields are what they are declared as (`Fielded`), and for a context in mid-message that the key stream stands at
the message's length (`At`: counter, window index and the window itself belong together) and that the tag hasher has absorbed the first half
of the secret and the text (`Under`). A call works byte by byte and fills the window
anew on the way, so its lemma is an induction over the bytes of the call. `ESAssumption` keeps messages below the limit of
GM/T 0003.4 for the counter, as the code does not notice when `kdfCounter` wraps.

**Curves, signatures and the key exchange.** `PublicKey_proofs` proves `SignaturesAlwaysMatch` and `SecretsAlwaysAgree` for
the schemes, `KeysAlwaysAgree` and `ConfirmedAlwaysAgree` for the SM2 key exchange, for every set of curves, keys, messages and
nonces. `SignaturesMatch` has the cases of findings 8, 9 and 10 as its only exceptions, so what is proved is that no others exist. What the textbook says of a curve is assumed (`IsGroup`: the multiples of the base point are points of the curve,
those of opposite numbers opposite points, and their sums are those of the numbers modulo the order; TLC evaluates it for every curve of the runs), and that the order is a prime
as "every number below it has an inverse"; the key exchange needs the order to be odd. From there, `ProductMultiplies` shows by induction that the ladder computes the
multiple, and `BaseSums` that adding points adds their multiples modulo the order. The schemes compute in the engine of
the order with chunks: `SumReduced`, `DifferenceReduced` and `MessageReduced` say what one call does to numbers longer than the modulus. The
invariants `EcInv` and `KeInv` say of each context and of the log of what was exported that keys and points belong together, that an
ephemeral key is in no entry of the log until it is used up, and that what a fresh context holds is what it
logged last: a context that is initialised again between two calls of the protocol must not pair its new key
with the partner's old answer. `DsaNumbers` and `Sm2Numbers` are the algebra of the verification equations. Hashes are symbolic.

**Products by windows.** `ScalarProductAlways` proves `[]ScalarProduct` for every curve over a prime field that is a group of odd order
(`IsGroup`, `IsPrime`), every scalar up to the order, every pair of scalars and every window of the base point's tables from two to seven
bits: what `gfec_point_mul`, `gfec_point_prod` and `gfec_base_point_mul` return is the multiple the schemes above are proved with. It has three layers.
*Field*: numbers of the same rest are `Alike`, which sums, differences, products and `div2` keep. *Points*: Jacobian coordinates
stand for an affine point (`Stands`) and so for a multiple of the base point (`Represents`). `DoubleMultiple` says that `gfec_point_double` doubles the
multiple, in each of its branches on the parameter a, and `AddMultiples` that `gfec_point_add` adds multiples, when one is at infinity
and when the points are equal or opposite. *Windows*: the bits above a window, with its carry (`High`), are the digit that
`booth_recode` reads and the window's range times the next `High`. The invariant `EmInv` therefore says, from the top (`FromTop`), that the
accumulator represents `High` of the scalars at the current bit, and from the bottom (`FromBottom`), that it is the scalar's low bits, signed. From the bottom the
addition is `gfec_affine_point_add`, which does not look for equal points, so the proof has to show that it never meets any.
An opposite pair is left only for the scalar that is the order, which ends at infinity. This is where the assumption
`NoDoubling` on the order, the window and the digits comes in: no digit makes the sum below it, at most half the window's range, equal to the table's point. An earlier
form of it, which looked only at digits whose multiple is below the order, was too weak: the proof did not go through for
digits of the top window that reach beyond it. The orders of the standard curves meet the assumption, as those of
the run do, because they are close enough below a power of two.

**Dispatcher.** `Dispatcher_proofs` proves, for any number of threads, any processor that meets
`DispatchAssumption` and `CpuAssumption` (a processor with what selects a rung has the rest of that rung's mask)
and any mixture of calls: `Published`, that once a variant is published, all features are detected and enabled and the
variant is the first the processor can run in full; and for the merged library `KeysFit`, that no
context is used with a cipher that does not fit its round keys. Both are about callers that leave the features
alone, as the properties are. `Merged` is a hypothesis because the library for one processor does not have the second
property (finding 4). `ChoiceKept` is about the callers who choose: if one thread sets features while the others are between
calls (`OneChooses`), what it chose is in force, features and variant, when its call has returned and after. Masks with NOCHECK alone are excluded
by a hypothesis (observation c), and by more than one chooser it is violated (observation e). The inductive invariant `Known` says that the
steps a thread has left are in the order `StepRank`, and reads off the steps that are not left what is
in force: an address space in which all threads write the same values in the same order needs no
lock, and the proof shows which orders matter (features, then mask, then index).

**CCM.** `AES_CCM_proofs` proves `StaysInStep` and the refinement `Implements` of `CCM` for every block
size, IV, length and cut, for the C loop and the AES-NI branch. The hypothesis `CALLER_FITS` says that callers
complete a pending block exactly before they pass more, and on AES-NI keep to the message
length: without it the statements are false (findings 2 and 3). The inductive invariant
`IInv` has the types of the context (`Context`) and of the history (`History`), and for a started message
`InProgress`: the fields that CcmInStep names, the first key-stream block, and the MAC as that of the header block, the
associated data and the whole blocks of text. `PendingExtends` and `BlocksExtends` show that a call which fills a pending
block, or begins at a block boundary, extends such a context; `StartsWithHeader` that Start leaves it
for no text (first block of associated data shared with its length, the rest cut apart); `OutputIsStream` and `FinalMac` bring
it to the bytes written. `MacOfParts`, that the chained MAC of a concatenation is that of the second
part begun with that of the first, is an induction over the number of blocks: the set of numbers for which it
holds contains 0 and the successor of each member (`Induction`, from the least number of the rest).

`BlockLemmas` has the facts these rest on: induction over the natural numbers for one set at a time, quotients and
remainders, of which the provers know little when two variables are multiplied, parts of sequences, and cutting bytes into blocks.

What the theorems assume are the named ASSUMEs of the modules, which the runs evaluate for their
constants: block sizes of at least two bytes, length words of at least four bits, the parity of the least tag length
of CCM, odd moduli, bounds within which the calls stay.

Only model-checked:

* RSA, which rests on Euler's theorem and the Chinese remainder theorem, that would have to be built up first;
* `KeysTold`: that a point multiplied by the order to infinity is a multiple of the base point is a fact about each curve;
* `CipherTextStandard`, `TextRecovered`, `LmsValidIffSigned`, `XmssValidIffSigned`: whole operations computed by folds and
  recursive operators, which tlapm cannot use;
* the scratch pools: a finite question about the library's call trees, which the run answers exhaustively;
* `InStepPastCarry`: the hash contexts with words of four bits; what it says of them is `StaysInStep` and
  `LengthLimited`, which are proved for every width;
* `CallsReturn`: liveness under fairness is beyond the prover used.

## 5. Not modelled, and why

* *Ciphers, compression functions, GHASH multiplication, vector code and tables of constants*: most
  lines of the repository by far (precomputed curve points, unrolled intrinsics). It is straight-line arithmetic on wide
  words that tests with known answers cover and that a model would only repeat. For the same reason
  the modelled share of all lines is small, though it holds most of the control flow that keeps state.
* *The AVX-512 path of GCM*, whose control flow is in assembly, and the other assembly kernels.
* *Noise injection* (`SetupNoise`), which cuts the same work into pieces.
* *SM3, SHA-1 and MD5 as methods of their own*: they differ from the two methods modelled in
  the compression function and byte order. *SMS4, TDES and ARCFour*: ciphers, with modes that repeat
  those of AES.
* *Windows and 32-bit tables of the dispatcher.*
* *RSA key generation and the OAEP, PSS and PKCS#1 encodings; DL and DSA; the pseudo-random
  generator and prime generation; SM4, RSA, ECDSA and X25519 in lanes*: planned.
* *Self-tests, generators, examples, build files*: not part of the library's state, or built from
  constants.

## 6. Plan

1. *Done:* AES-GCM with proofs; hash contexts; HMAC over them; CMAC with proofs and refinement; CCM;
   dispatcher; SM2 encryption with refinement; scratch pools; big numbers and inverses with proof;
   curves, products, signatures, secrets and key exchange; block modes, SIV; LMS, XMSS; SM3 in lanes; RSA.
2. *Proofs, done:* invariants and refinements of GCM, CMAC, CCM, hash contexts, HMAC and the SM2 scheme; both inverses;
   the dispatcher's safety; SIV; the lanes of SM3; signatures, secrets and the key exchange;
   products by windows. *Next*: RSA from the Chinese remainder theorem.
3. *RSA encodings*: lengths at the boundaries of OAEP and PSS, and what is returned for a bad one.
4. *DL and DSA*: which of parameters, keys and flags are set in which order.
5. *Generator and primes*: bounded retries, the mask of the last word, what a failure leaves behind.
6. *SM4-GCM in lanes*: each lane an independent context; the status word.

## 7. Running

`tlc -config MC_AES.cfg MC_AES` and likewise for the other `MC_` modules. The configurations named
after one case belong to the module before the underscore: `MC_AES_chunk.cfg` and `MC_AES_length.cfg` to `MC_AES`,
`MC_HashStream_bits.cfg` to `MC_HashStream`, `MC_Library_crt.cfg` to `MC_Library`, `Dispatcher_1cpu.cfg` to
`Dispatcher`, `ScratchPools_ext.cfg` to `ScratchPools`, and `SM3_mb8.cfg` to `SM3_mb`. `tlapm AES_GCM_proofs.tla`
and so on check the proofs.
