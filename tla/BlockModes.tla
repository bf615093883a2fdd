----------------------------- MODULE BlockModes -----------------------------
(***************************************************************************)
(* The AES block modes that keep nothing but a vector the caller passes    *)
(* from call to call: CBC with and without ciphertext stealing, CFB, OFB,  *)
(* CTR, XTS.  The cipher is symbolic, D its inverse.  The caller encrypts  *)
(* a message in pieces cut where the mode allows it, and decrypts it again *)
(* in pieces cut elsewhere, each time in place or not.                     *)
(*                                                                         *)
(* A unit of text is a byte, except for XTS, whose lengths are in bits: a  *)
(* bit then, and BYTESIZE of them are what is copied at once.              *)
(***************************************************************************)
EXTENDS Blocks, SequencesExt

CONSTANTS
  BLOCK_SIZE,  \* MBS_RIJ128 and AES_BLK_SIZE
  BYTESIZE,    \* bits of a byte in XTS
  MAX_LEN,     \* bound of the model: units of a message
  CTR_BITS,    \* ctrNumBitSize
  CTR_WORD     \* 2^32: values of the counter's low word for the 128-bit counter

VARIABLES
  mdJob,   \* the message: its mode, its length, the size of CFB's and OFB's segments
  mdPhase, \* "idle", or what the caller is at
  mdDst,   \* buffer the calls store to, "src" for work in place
  mdMem,   \* the two buffers of the caller, with room for a block behind the text
  mdVec,   \* IV, counter or tweak for the next call
  mdPos,   \* units done
  mdStatus \* status of the last call

mdVars == <<mdJob, mdPhase, mdDst, mdMem, mdVec, mdPos, mdStatus>>

E(b) == [j \in 1..BLOCK_SIZE |-> {<<"E", b, j>>}]

\* The inverse of E; it makes something new of a block that E has not made.
D(b) ==
  IF \E a \in b[1] : a[1] = "E" /\ b = E(a[2])
  THEN (CHOOSE a \in b[1] : TRUE)[2]
  ELSE [j \in 1..BLOCK_SIZE |-> {<<"D", b, j>>}]

Block(b, a) == XorBlock(a, b, 0)
Read(mem, buf, off, n) == SubSeq(mem[buf], off + 1, off + n)
Write(mem, buf, off, s) == [mem EXCEPT ![buf] = CopyBlock(s, @, off)]

\* The first n units of s, followed by those of t behind them.
Over(s, n, t) == [j \in 1..BLOCK_SIZE |-> IF j <= n THEN s[j] ELSE t[j]]

\* Step(st, b) for the offsets b of n segments of the given size from off on.
Segments(Step(_, _), st, off, n, size) ==
  FoldLeft(Step, st, [i \in 1..n |-> off + (i - 1) * size])

-----------------------------------------------------------------------------
(* CBC.  A call takes memory, offset, length and vector and gives memory   *)
(* and vector.                                                             *)

cpEncryptAES_cbc(mem, off, n, iv) ==
  LET Step(st, b) ==
        LET c == E(Block(Read(st.mem, "src", b, BLOCK_SIZE), st.vec))
        IN  [mem |-> Write(st.mem, mdDst, b, c), vec |-> c]
  IN  Segments(Step, [mem |-> mem, vec |-> iv], off, n \div BLOCK_SIZE, BLOCK_SIZE)

\* Mutant: the vector is read from the source after the block was stored.
cpDecryptAES_cbc_Mutant(mem, off, n, iv) ==
  LET Step(st, b) ==
        LET p == Block(D(Read(st.mem, "src", b, BLOCK_SIZE)), st.vec)
            m == Write(st.mem, mdDst, b, p)
        IN  [mem |-> m, vec |-> Read(m, "src", b, BLOCK_SIZE)]
  IN  Segments(Step, [mem |-> mem, vec |-> iv], off, n \div BLOCK_SIZE, BLOCK_SIZE)

cpDecryptAES_cbc(mem, off, n, iv) ==
  LET Step(st, b) ==
        LET c == Read(st.mem, "src", b, BLOCK_SIZE)
        IN  [mem |-> Write(st.mem, mdDst, b, Block(D(c), st.vec)), vec |-> c]
  IN  Segments(Step, [mem |-> mem, vec |-> iv], off, n \div BLOCK_SIZE, BLOCK_SIZE)

\* Length of the last block: CS3 always treats one as the last.
LastLen(mode, n) ==
  IF mode = "CS3" /\ n % BLOCK_SIZE = 0 THEN BLOCK_SIZE ELSE n % BLOCK_SIZE

\* The last block is padded with zeros and its cipher text put where the mode has it: CS1
\* stores it last, over the end of its predecessor, CS2 and CS3 in its predecessor's place.
EncryptStealing(mode, mem, off, n, iv) ==
  LET tail == LastLen(mode, n)
      cbc  == cpEncryptAES_cbc(mem, off, n - tail, iv)
      b    == off + n - tail
      prev == Read(cbc.mem, mdDst, b - BLOCK_SIZE, BLOCK_SIZE)
      last == E(XorBlock(Read(cbc.mem, "src", b, tail), prev, 0))
  IN  IF tail = 0 THEN cbc
      ELSE IF mode = "CS1"
      THEN [cbc EXCEPT !.mem = Write(@, mdDst, b - BLOCK_SIZE + tail, last)]
      ELSE [cbc EXCEPT !.mem = Write(Write(@, mdDst, b - BLOCK_SIZE, last),
                                     mdDst, b, SubSeq(prev, 1, tail))]

\* The last but one block is completed with what the last one's decryption has behind the tail.
DecryptStealing(mode, mem, off, n, iv) ==
  LET tail   == LastLen(mode, n)
      whole  == n - BLOCK_SIZE - tail
      lastIV == IF whole = 0 THEN iv ELSE Read(mem, "src", off + whole - BLOCK_SIZE, BLOCK_SIZE)
      m      == cpDecryptAES_cbc(mem, off, whole, iv).mem
      b      == off + whole
      part   == Read(m, "src", IF mode = "CS1" THEN b ELSE b + BLOCK_SIZE, tail)
      dec    == D(Read(m, "src", IF mode = "CS1" THEN b + tail ELSE b, BLOCK_SIZE))
      first  == Block(D(Over(part, tail, dec)), lastIV)
      second == [j \in 1..tail |-> Xor(dec[j], part[j])]
  IN  IF tail = 0 THEN cpDecryptAES_cbc(mem, off, n, iv)
      ELSE [mem |-> Write(Write(m, mdDst, b, first), mdDst, b + BLOCK_SIZE, second),
            vec |-> iv]

-----------------------------------------------------------------------------
(* CFB and OFB in segments of mdJob.size units; CTR.                       *)

\* The register shifted by one segment.
Shift(reg, seg) == SubSeq(reg \o seg, Len(seg) + 1, Len(seg) + BLOCK_SIZE)

ProcessCFB(encrypt, mem, off, n, iv) ==
  LET Step(st, b) ==
        LET in  == Read(st.mem, "src", b, mdJob.size)
            out == XorBlock(SubSeq(E(st.vec), 1, mdJob.size), in, 0)
        IN  [mem |-> Write(st.mem, mdDst, b, out),
             vec |-> Shift(st.vec, IF encrypt THEN out ELSE in)]
  IN  Segments(Step, [mem |-> mem, vec |-> iv], off, n \div mdJob.size, mdJob.size)

cpProcessAES_ofb8(mem, off, n, iv) ==
  LET Step(st, b) ==
        LET key == SubSeq(E(st.vec), 1, mdJob.size)
        IN  [mem |-> Write(st.mem, mdDst, b,
                           XorBlock(key, Read(st.mem, "src", b, mdJob.size), 0)),
             vec |-> Shift(st.vec, key)]
  IN  Segments(Step, [mem |-> mem, vec |-> iv], off, n \div mdJob.size, mdJob.size)

CounterBlock(v) == [j \in 1..BLOCK_SIZE |-> {<<"ctr", v, j>>}]

BlocksOf(n) == (n + BLOCK_SIZE - 1) \div BLOCK_SIZE

\* n units from off with counter v and its successors, of which Next tells the next.
CtrStream(mem, off, n, v, Next(_)) ==
  LET Step(st, b) ==
        LET len == IPP_MIN(BLOCK_SIZE, off + n - b)
        IN  [mem |-> Write(st.mem, mdDst, b,
                       XorBlock(SubSeq(E(CounterBlock(st.vec)), 1, len),
                                Read(st.mem, "src", b, len), 0)),
             vec |-> Next(st.vec)]
  IN  Segments(Step, [mem |-> mem, vec |-> v], off, BlocksOf(n), BLOCK_SIZE)

\* The partial last block uses up a counter as well.
cpProcessAES_ctr(mem, off, n, v) ==
  LET Next(c) == (c + 1) % 2^CTR_BITS IN CtrStream(mem, off, n, v, Next)

\* Mutant: blocks are not split where the low word wraps.
NoWrap_Mutant(v, blocks) == blocks

\* As many of the blocks as leave the low word of the counter without a wrap.
NoWrap(v, blocks) ==
  LET ctr32 == ((v % CTR_WORD) + blocks) % CTR_WORD
  IN  IF ctr32 < blocks THEN blocks - ctr32 ELSE blocks

\* EncryptStreamCTR32 counts in the low word, and adds the number of blocks to the whole
\* counter in the end.
EncryptStreamCTR32(mem, off, n, v) ==
  LET Next(c) == c - (c % CTR_WORD) + ((c + 1) % CTR_WORD)
      run     == CtrStream(mem, off, n, v, Next)
  IN  [run EXCEPT !.vec = (v + BlocksOf(n)) % (CTR_WORD * CTR_WORD)]

RECURSIVE cpProcessAES_ctr128(_, _, _, _)
cpProcessAES_ctr128(mem, off, n, v) ==
  LET take == IF n >= BLOCK_SIZE THEN BLOCK_SIZE * NoWrap(v, n \div BLOCK_SIZE) ELSE n
      run  == EncryptStreamCTR32(mem, off, take, v)
  IN  IF n = 0 THEN [mem |-> mem, vec |-> v]
      ELSE cpProcessAES_ctr128(run.mem, off + take, n - take, run.vec)

-----------------------------------------------------------------------------
(* XTS.  The vector is the number of the block in the data unit, as often  *)
(* the encrypted tweak has been multiplied.                                *)

Tweak(k) == [j \in 1..BLOCK_SIZE |-> {<<"tweak", k, j>>}]

cpAES_XTS_EncBlock(b, k) == Block(E(Block(b, Tweak(k))), Tweak(k))
cpAES_XTS_DecBlock(b, k) == Block(D(Block(b, Tweak(k))), Tweak(k))

\* A data unit with a partial block is only processed up to its end.
IsLegalGeometry(start, n, du) ==
  /\ start \in 0..(BlocksOf(du) - 1) /\ start * BLOCK_SIZE + n <= du
  /\ IF du % BLOCK_SIZE = 0 THEN n % BLOCK_SIZE = 0
     ELSE n % BLOCK_SIZE # 0 /\ start * BLOCK_SIZE + n = du

\* Cipher(b, k) for all blocks but a last whole and a partial one.
XtsBlocks(Cipher(_, _), mem, off, n, k) ==
  LET Step(st, b) ==
        [mem |-> Write(st.mem, mdDst, b, Cipher(Read(st.mem, "src", b, BLOCK_SIZE), st.vec)),
         vec |-> st.vec + 1]
  IN  Segments(Step, [mem |-> mem, vec |-> k], off,
               (n \div BLOCK_SIZE) - (IF n % BLOCK_SIZE = 0 THEN 0 ELSE 1), BLOCK_SIZE)

\* "Stealing": the partial block is completed with the end of the block before, the
\* beginning of which takes its place.  The tweaks of the two are first and second.
XtsProcess(Cipher(_, _), mem, off, n, k, first, second) ==
  LET run  == XtsBlocks(Cipher, mem, off, n, k)
      last == n % BLOCK_SIZE
      b    == off + n - last - BLOCK_SIZE
      cc   == Cipher(Read(run.mem, "src", b, BLOCK_SIZE), run.vec + first)
      pp   == Over(Read(run.mem, "src", b + BLOCK_SIZE, last), last, cc)
      part == [j \in 1..(BYTESIZE * ((last + BYTESIZE - 1) \div BYTESIZE)) |->
                 IF j <= last THEN cc[j] ELSE {}]
  IN  IF last = 0 THEN run
      ELSE [run EXCEPT !.mem = Write(Write(@, mdDst, b, Cipher(pp, run.vec + second)),
                                     mdDst, b + BLOCK_SIZE, part)]

XtsEncrypt(mem, off, n, k) == XtsProcess(cpAES_XTS_EncBlock, mem, off, n, k, 0, 1)
XtsDecrypt(mem, off, n, k) == XtsProcess(cpAES_XTS_DecBlock, mem, off, n, k, 1, 0)

-----------------------------------------------------------------------------
(* The calls.                                                              *)

Stealing == {"CS1", "CS2", "CS3"}
Modes    == {"CBC", "CFB", "OFB", "CTR", "CTR128", "XTS", "XTSDirect"} \union Stealing

Status(fn, n, vec) ==
  CASE fn = "CBC" ->
         IF n < 1 THEN "ippStsLengthErr"
         ELSE IF n % BLOCK_SIZE # 0 THEN "ippStsUnderRunErr" ELSE "ippStsNoErr"
    [] fn \in Stealing ->
         IF n < BLOCK_SIZE \/ (fn = "CS3" /\ n = BLOCK_SIZE) THEN "ippStsLengthErr"
         ELSE "ippStsNoErr"
    [] fn \in {"CFB", "OFB"} ->
         IF n < 1 THEN "ippStsLengthErr"
         ELSE IF n % mdJob.size # 0 THEN "ippStsUnderRunErr" ELSE "ippStsNoErr"
    [] fn \in {"CTR", "CTR128"} ->
         IF n < 1 THEN "ippStsLengthErr"
         ELSE IF fn = "CTR" /\ BlocksOf(n) > 2^CTR_BITS THEN "ippStsCTRSizeErr"
         ELSE "ippStsNoErr"
    [] fn = "XTS" ->
         IF n < BLOCK_SIZE THEN "ippStsLengthErr"
         ELSE IF ~IsLegalGeometry(vec, n, mdJob.len) THEN "ippStsBadArgErr" ELSE "ippStsNoErr"
    [] fn = "XTSDirect" ->
         IF n < BLOCK_SIZE THEN "ippStsLengthErr"
         ELSE IF mdJob.len \div BLOCK_SIZE <= vec THEN "ippStsBadArgErr" ELSE "ippStsNoErr"

\* What an accepted call of fn does.
Process(fn, off, n) ==
  LET encrypt == mdPhase = "encrypt" IN
  CASE fn = "CBC"        -> IF encrypt THEN cpEncryptAES_cbc(mdMem, off, n, mdVec)
                            ELSE cpDecryptAES_cbc(mdMem, off, n, mdVec)
    [] fn \in Stealing   -> IF encrypt THEN EncryptStealing(fn, mdMem, off, n, mdVec)
                            ELSE DecryptStealing(fn, mdMem, off, n, mdVec)
    [] fn = "CFB"        -> ProcessCFB(encrypt, mdMem, off, n, mdVec)
    [] fn = "OFB"        -> cpProcessAES_ofb8(mdMem, off, n, mdVec)
    [] fn = "CTR"        -> cpProcessAES_ctr(mdMem, off, n, mdVec)
    [] fn = "CTR128"     -> cpProcessAES_ctr128(mdMem, off, n, mdVec)
    [] OTHER             -> IF encrypt
                            THEN XtsEncrypt(mdMem, off, n, mdVec)
                            ELSE XtsDecrypt(mdMem, off, n, mdVec)

\* The vector for the next call: CBC and CFB leave it to the caller to keep the end of the
\* cipher text, which in place is gone after a decryption, OFB and CTR update it.
NextVec(off, n, after) ==
  LET cipher == IF mdPhase = "encrypt" THEN Read(after.mem, mdDst, off, n)
                ELSE Read(mdMem, "src", off, n)
  IN  CASE mdJob.mode \in {"CBC", "CFB"} \union Stealing ->
             SubSeq(mdVec \o cipher, n + 1, n + BLOCK_SIZE)
        [] mdJob.mode \in {"OFB", "CTR", "CTR128"} -> after.vec
        [] OTHER -> mdVec + n \div BLOCK_SIZE

-----------------------------------------------------------------------------
(* The caller.                                                             *)

FirstVec(mode) ==
  CASE mode = "CTR"    -> 2^CTR_BITS - 2
    [] mode = "CTR128" -> CTR_WORD - 2
    [] mode \in {"XTS", "XTSDirect"} -> 0
    [] OTHER -> Data("iv", 0, BLOCK_SIZE)

NoJob  == [mode |-> "none", len |-> 0, size |-> 1]
Room   == Data("room", 0, BLOCK_SIZE)
Text(len) == Data("in", 0, len) \o Room
Blank(len) == Data("blank", 0, len) \o Room

ModesInit ==
  /\ mdJob = NoJob /\ mdPhase = "idle" /\ mdDst = "dst" /\ mdVec = 0 /\ mdPos = 0
  /\ mdMem = [src |-> <<>>, dst |-> <<>>] /\ mdStatus = "ippStsNoErr"

Begin(mode, len, size, dst) ==
  /\ mdPhase = "idle"
  /\ mdJob' = [mode |-> mode, len |-> len, size |-> size] /\ mdPhase' = "encrypt" /\ mdDst' = dst
  /\ mdMem' = [src |-> Text(len), dst |-> Blank(len)]
  /\ mdVec' = FirstVec(mode) /\ mdPos' = 0 /\ UNCHANGED mdStatus

\* All but the last piece are whole blocks or segments; with ciphertext stealing they are
\* passed to CBC.
Call(n) ==
  LET fn     == IF mdJob.mode \in Stealing /\ mdPos + n < mdJob.len THEN "CBC" ELSE mdJob.mode
      status == Status(fn, n, mdVec)
      after  == Process(fn, mdPos, n)
  IN  /\ mdPhase # "idle" /\ mdPos + n <= mdJob.len
      /\ mdPos + n < mdJob.len =>
           n % (IF mdJob.mode \in {"CFB", "OFB"} THEN mdJob.size ELSE BLOCK_SIZE) = 0
      /\ mdStatus' = status
      /\ IF status # "ippStsNoErr" THEN UNCHANGED <<mdMem, mdVec, mdPos>>
         ELSE mdMem' = after.mem /\ mdVec' = NextVec(mdPos, n, after) /\ mdPos' = mdPos + n
      /\ UNCHANGED <<mdJob, mdPhase, mdDst>>

\* The cipher text is decrypted from where it was stored.
Turn(dst) ==
  /\ mdPhase = "encrypt" /\ mdPos = mdJob.len
  /\ mdPhase' = "decrypt" /\ mdDst' = dst /\ mdPos' = 0 /\ mdVec' = FirstVec(mdJob.mode)
  /\ mdMem' = [src |-> mdMem[mdDst], dst |-> Blank(mdJob.len)]
  /\ UNCHANGED <<mdJob, mdStatus>>

\* Back to where another message can begin.
Rest ==
  /\ mdPhase = "decrypt" /\ mdPos = mdJob.len
  /\ mdJob' = NoJob /\ mdPhase' = "idle" /\ mdDst' = "dst" /\ mdVec' = 0 /\ mdPos' = 0
  /\ mdMem' = [src |-> <<>>, dst |-> <<>>] /\ mdStatus' = "ippStsNoErr"

ModesNext ==
  \/ \E mode \in Modes, len \in 1..MAX_LEN, dst \in {"src", "dst"} :
       \E size \in (IF mode \in {"CFB", "OFB"} THEN 1..BLOCK_SIZE ELSE {1}) :
         Begin(mode, len, size, dst)
  \/ \E n \in 0..MAX_LEN : Call(n)
  \/ \E dst \in {"src", "dst"} : Turn(dst)
  \/ Rest

-----------------------------------------------------------------------------
(* The modes as NIST SP 800-38A, its addendum and IEEE 1619 define them,   *)
(* for a whole message p.                                                  *)

\* The CBC chain over the blocks bs.
CbcChain(bs) ==
  LET c[i \in 0..Len(bs)] ==
        IF i = 0 THEN Data("iv", 0, BLOCK_SIZE) ELSE LET prev == c[i - 1] IN E(Block(bs[i], prev))
  IN  [i \in 1..Len(bs) |-> c[i]]

StandardCBC(mode, p) ==
  LET c    == CbcChain(ZeroPadded(p, BLOCK_SIZE))
      m    == Len(c)
      d    == Len(p) - (m - 1) * BLOCK_SIZE
      head == FlattenSeq(SubSeq(c, 1, m - 2))
      star == SubSeq(c[m - 1], 1, d)
  IN  IF m = 1 \/ mode = "CBC" THEN FlattenSeq(c)
      ELSE IF mode = "CS1" \/ (mode = "CS2" /\ d = BLOCK_SIZE) THEN head \o star \o c[m]
      ELSE head \o c[m] \o star

\* Every segment is encrypted with the last block of what the register was fed before: the
\* vector and then cipher text (CFB) or key stream (OFB).
StandardFeedback(mode, size, p) ==
  LET iv == Data("iv", 0, BLOCK_SIZE)
      f[i \in 0..(Len(p) \div size)] ==
        IF i = 0 THEN [fed |-> iv, out |-> <<>>]
        ELSE LET prev == f[i - 1]
                 key  == SubSeq(E(SubSeq(prev.fed, Len(prev.fed) - BLOCK_SIZE + 1, Len(prev.fed))),
                                1, size)
                 c    == XorBlock(key, SubSeq(p, (i - 1) * size + 1, i * size), 0)
             IN  [fed |-> prev.fed \o (IF mode = "CFB" THEN c ELSE key), out |-> prev.out \o c]
  IN  f[Len(p) \div size].out

StandardCTR(first, period, p) ==
  [j \in 1..Len(p) |->
     Xor(p[j], E(CounterBlock((first + (j - 1) \div BLOCK_SIZE) % period))
                 [((j - 1) % BLOCK_SIZE) + 1])]

StandardXTS(p) ==
  LET m    == Len(p) \div BLOCK_SIZE
      d    == Len(p) % BLOCK_SIZE
      P(i) == SubSeq(p, (i - 1) * BLOCK_SIZE + 1, i * BLOCK_SIZE)
      C(i) == cpAES_XTS_EncBlock(P(i), i - 1)
      head == FlattenSeq([i \in 1..(IF d = 0 THEN m ELSE m - 1) |-> C(i)])
      cc   == C(m)
      pp   == SubSeq(p, m * BLOCK_SIZE + 1, Len(p)) \o SubSeq(cc, d + 1, BLOCK_SIZE)
  IN  IF d = 0 THEN head ELSE head \o cpAES_XTS_EncBlock(pp, m) \o SubSeq(cc, 1, d)

Standard(job, p) ==
  CASE job.mode \in {"CBC"} \union Stealing -> StandardCBC(job.mode, p)
    [] job.mode \in {"CFB", "OFB"} -> StandardFeedback(job.mode, job.size, p)
    [] job.mode = "CTR"    -> StandardCTR(FirstVec("CTR"), 2^CTR_BITS, p)
    [] job.mode = "CTR128" -> StandardCTR(FirstVec("CTR128"), CTR_WORD * CTR_WORD, p)
    [] OTHER -> StandardXTS(p)

-----------------------------------------------------------------------------
(* Properties.                                                             *)

\* XTS clears the bits that a partial byte has behind the text.
Cleared(len) == IF mdJob.mode \in {"XTS", "XTSDirect"}
                THEN BYTESIZE * ((len + BYTESIZE - 1) \div BYTESIZE) - len ELSE 0

RoomLeft(buf) ==
  \A j \in (Cleared(mdJob.len) + 1)..BLOCK_SIZE : mdMem[buf][mdJob.len + j] = Room[j]

\* However the message was cut into calls, in place or not, the cipher text is the one the
\* standard defines for the whole message, and nothing is stored behind it.
CipherTextStandard ==
  mdPhase = "decrypt" /\ mdPos = 0 =>
    /\ SubSeq(mdMem["src"], 1, mdJob.len) = Standard(mdJob, Data("in", 0, mdJob.len))
    /\ RoomLeft("src")

\* Decryption in calls cut elsewhere and with another choice of buffers gives the text back.
TextRecovered ==
  mdPhase = "decrypt" /\ mdPos = mdJob.len =>
    /\ SubSeq(mdMem[mdDst], 1, mdJob.len) = Data("in", 0, mdJob.len)
    /\ RoomLeft(mdDst)
=============================================================================
