------------------------------ MODULE BitReader ------------------------------
(***************************************************************************)
(* The bit reader of the brotli decoder, brotli-exp/src/bit_reader/mod.rs, *)
(* as operators on a record that stands for struct BrotliBitReader.        *)
(*                                                                         *)
(*   bit_pos   bit_pos_: bits of the 64-bit register val_ already used     *)
(*   next_in   next_in: index, in the input slice, of the next byte        *)
(*   avail_in  avail_in: bytes of the slice not yet loaded                 *)
(*   loaded    stands for val_: how many bytes of the compressed stream    *)
(*             the register has taken in.  The unread bits of val_ are the *)
(*             last AvailableBits(br) bits of those bytes.                 *)
(*                                                                         *)
(* Only a 64-bit reg_t is modelled (the 32-bit branches are dead in the    *)
(* builds of the repository).  The values of the bits are left out: what   *)
(* matters to the decoder's protocol is which bits a read returns.         *)
(***************************************************************************)
EXTENDS Integers

RegBits == 64

BrotliBitReader ==
  [bit_pos : 0 .. RegBits, next_in : Int, avail_in : Nat, loaded : Nat]

\* BrotliInitBitReader, and the Default of the struct with an empty input.
InitBitReader == [bit_pos |-> RegBits, next_in |-> 0, avail_in |-> 0, loaded |-> 0]

GetAvailableBits(br) == RegBits - br.bit_pos

\* The position in the stream, in bits, of the next bit a read returns.
BitPosition(br) == 8 * br.loaded - GetAvailableBits(br)

GetRemainingBytes(br) == br.avail_in + (GetAvailableBits(br) \div 8)

CheckInputAmount(br, num) == br.avail_in >= num

\* k times BrotliPullByte, each of which fails on an empty input.
PullBytes(br, k) ==
  [bit_pos |-> br.bit_pos - 8 * k, next_in |-> br.next_in + k,
   avail_in |-> br.avail_in - k, loaded |-> br.loaded + k]

DropBits(br, n_bits) ==
  [bit_pos |-> br.bit_pos + n_bits, next_in |-> br.next_in,
   avail_in |-> br.avail_in, loaded |-> br.loaded]

\* The reader of an input slice: where it starts and how long it is.
Offered(br, next_in, avail_in) ==
  [bit_pos |-> br.bit_pos, next_in |-> next_in, avail_in |-> avail_in, loaded |-> br.loaded]

\* The loop "while available < n_bits, pull a byte or give up".
BytesShort(br, n_bits) ==
  IF GetAvailableBits(br) >= n_bits THEN 0
  ELSE (n_bits - GetAvailableBits(br) + 7) \div 8

SafeFill(br, n_bits) ==
  LET short == BytesShort(br, n_bits)
  IN  PullBytes(br, IF short <= br.avail_in THEN short ELSE br.avail_in)

\* A read returns ok and the reader after it; it takes n_bits when they are there.
\* What a failed read has pulled stays in the register.
TakeBits(filled, n_bits) ==
  IF GetAvailableBits(filled) >= n_bits
    THEN [ok |-> TRUE, br |-> DropBits(filled, n_bits)]
    ELSE [ok |-> FALSE, br |-> filled]

SafeReadBits(br, n_bits) == TakeBits(SafeFill(br, n_bits), n_bits)

\* BrotliFillBitWindow: up to 8 bytes are loaded at once, of which the first
\* FillBytes count as taken; the rest lie under bits the register cannot hold.
FillBytes(n_bits) == IF n_bits <= 8 THEN 7 ELSE IF n_bits <= 16 THEN 6 ELSE 4

FillLoads(n_bits) == IF n_bits <= 16 THEN 8 ELSE 4

NeedsFill(br, n_bits) == br.bit_pos >= 8 * FillBytes(n_bits)

\* bit_pos_ ^= k takes k away from a position below 64, "because of the if
\* condition"; on an empty register (position 64) it would add k instead.
XorBits(bit_pos, k) == IF bit_pos < RegBits THEN bit_pos - k ELSE bit_pos + k

FillBitWindow(br, n_bits) ==
  LET bytes == FillBytes(n_bits)
  IN  IF NeedsFill(br, n_bits)
        THEN [bit_pos |-> XorBits(br.bit_pos, 8 * bytes), next_in |-> br.next_in + bytes,
              avail_in |-> br.avail_in - bytes, loaded |-> br.loaded + bytes]
        ELSE br

\* The load of FillBitWindow stays inside the bytes the caller offered.
FillInBounds(br, n_bits) == NeedsFill(br, n_bits) => br.avail_in >= FillLoads(n_bits)

ReadBits(br, n_bits) == DropBits(FillBitWindow(br, n_bits), n_bits)

\* Mutation: the register is not warmed up.
WarmupSkipped(br) == br

\* BrotliWarmupBitReader where a byte is there to pull.
WarmupBitReader(br) == IF GetAvailableBits(br) = 0 THEN PullBytes(br, 1) ELSE br

\* Mutation: a byte that is partly used goes back as well.
UnloadRoundsUp(br) ==
  LET unused_bytes == (GetAvailableBits(br) + 7) \div 8
  IN  PullBytes(br, -unused_bytes)

\* BrotliBitReaderUnload: the whole bytes left in the register go back.
BitReaderUnload(br) ==
  LET unused_bytes == GetAvailableBits(br) \div 8
  IN  PullBytes(br, -unused_bytes)

\* BrotliJumpToByteBoundary; whether the skipped bits are zero is the caller's
\* choice of stream.
PadBitsCount(br) == GetAvailableBits(br) % 8

JumpToByteBoundary(br) == DropBits(br, PadBitsCount(br))

\* BrotliCopyBytes: whole bytes from the register first, the rest from the input.
CopyBytes(br, num) ==
  LET held == GetAvailableBits(br) \div 8
      fromReg == IF num <= held THEN num ELSE held
      direct == num - fromReg
  IN  [bit_pos |-> br.bit_pos + 8 * fromReg, next_in |-> br.next_in + direct,
       avail_in |-> br.avail_in - direct, loaded |-> br.loaded + direct]
=============================================================================
