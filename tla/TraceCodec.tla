------------------------------- MODULE TraceCodec -------------------------------
(***************************************************************************)
(* The format of one instruction's line, written by the tracer's receive   *)
(* thread (tracer_tool.cu: base_stride_compress, base_delta_compress and   *)
(* the dump in recv_thread_fun) and read by the simulator's parser         *)
(* (trace_parser.cc: parse_from_string and the two decompressors).         *)
(*                                                                         *)
(* Only the fields whose format depends on the instruction are kept: the   *)
(* active mask, the addresses and the immediate.  Addresses are unsigned   *)
(* words of AddrBits bits (64 in the code), a stride is a signed int of    *)
(* StrideBits bits (32).  The line is the sequence of its number tokens,   *)
(* each with the radix it was printed in.                                  *)
(***************************************************************************)
EXTENDS Integers, Sequences, FiniteSets, FiniteSetsExt, SequencesExt

CONSTANTS
  WARP_SIZE,      \* lanes of a warp (32 in the code)
  AddrBits,       \* width of an address
  StrideBits,     \* width of the int that holds a stride
  Imms            \* immediates considered

ASSUME CodecAssumption ==
  /\ WARP_SIZE \in Nat \ {0}
  /\ StrideBits \in Nat \ {0} /\ AddrBits \in Nat /\ StrideBits <= AddrBits
  /\ Imms \subseteq Nat

Lanes == 0 .. WARP_SIZE - 1
Words == 0 .. 2 ^ AddrBits - 1

-----------------------------------------------------------------------------
(* Machine arithmetic *)

Wrap(n) == n % 2 ^ AddrBits

\* The value of the low bits of n in a signed integer of that many bits.
Signed(n, bits) ==
  LET low == n % 2 ^ bits
  IN  IF low < 2 ^ (bits - 1) THEN low ELSE low - 2 ^ bits

First(mask) == Min(mask)

-----------------------------------------------------------------------------
(* The tracer *)

Diff(addrs, s) == Wrap(addrs[s] - addrs[s - 1])

StrideOf(addrs, mask) ==
  Signed(Diff(addrs, First(mask) + 1), StrideBits)

\* The lanes after the first, up to the first that is inactive.
RunOf(mask) ==
  {s \in Lanes : s > First(mask) /\ \A r \in First(mask) .. s : r \in mask}

\* Success of base_stride_compress: the active lanes are one run of at least
\* two, and every step in it is the stride, widened back to an address.
base_stride_compress(addrs, mask) ==
  \/ mask = {}
  \/ /\ First(mask) + 1 \in mask
     /\ \A s \in RunOf(mask) : Wrap(StrideOf(addrs, mask)) = Diff(addrs, s)
     /\ mask = {First(mask)} \cup RunOf(mask)

\* The differences between consecutive active lanes, one fewer than lanes.
base_delta_compress(addrs, mask) ==
  LET active == SetToSortSeq(mask, <)
  IN  [i \in 1 .. Len(active) - 1 |->
         Signed(addrs[active[i + 1]] - addrs[active[i]], AddrBits)]

Hex(n) == [value |-> n, radix |-> 16]
Dec(n) == [value |-> n, radix |-> 10]

list_all == 0
base_stride == 1
base_delta == 2

BaseAddr(addrs, mask) == IF mask = {} THEN 0 ELSE addrs[First(mask)]

\* The address part of a memory instruction's line.
DumpAddresses(addrs, mask, enable_compress) ==
  IF ~ enable_compress
  THEN <<Dec(list_all)>> \o
       LET active == SetToSortSeq(mask, <)
       IN  [i \in DOMAIN active |-> Hex(addrs[active[i]])]
  ELSE IF base_stride_compress(addrs, mask)
  THEN <<Dec(base_stride), Hex(BaseAddr(addrs, mask)),
         Dec(IF mask = {} THEN 0 ELSE StrideOf(addrs, mask))>>
  ELSE <<Dec(base_delta), Hex(BaseAddr(addrs, mask))>> \o
       LET deltas == base_delta_compress(addrs, mask)
       IN  [i \in DOMAIN deltas |-> Dec(deltas[i])]

\* The data width (here 1 for a memory instruction, 0 otherwise), the
\* addresses, and at the end of every line the immediate.
Dump(inst, enable_compress) ==
  (IF inst.is_mem THEN <<Dec(1)>> \o DumpAddresses(inst.addrs, inst.mask, enable_compress)
                  ELSE <<Dec(0)>>) \o <<Dec(inst.imm)>>

-----------------------------------------------------------------------------
(* The parser.  An extraction past the end of the line fails and leaves    *)
(* its variable as it was initialised, which is 0 everywhere here.         *)

DigitsAsHex[n \in Nat] ==
  IF n < 10 THEN n ELSE 16 * DigitsAsHex[n \div 10] + (n % 10)

ReadAs(token, radix) ==
  IF token.radix = 10 /\ radix = 16 THEN DigitsAsHex[token.value] ELSE token.value

Token(line, i, radix) == IF i \in DOMAIN line THEN ReadAs(line[i], radix) ELSE 0

\* Lane s of the run gets the base plus one stride per lane since the first;
\* lanes outside it get 0, and the one that ends it keeps its initial 0.
base_stride_decompress(base, stride, mask) ==
  [s \in Lanes |->
     IF mask # {} /\ s \in {First(mask)} \cup RunOf(mask)
     THEN Wrap(base + stride * (s - First(mask)))
     ELSE 0]

base_delta_decompress(base, deltas, mask) ==
  LET active == SetToSortSeq(mask, <)
      addr[i \in DOMAIN active] ==
        IF i = 1 THEN base ELSE Wrap(addr[i - 1] + deltas[i - 1])
  IN  [s \in Lanes |->
         IF s \in mask
         THEN addr[CHOOSE i \in DOMAIN active : active[i] = s]
         ELSE 0]

\* parse_from_string after the registers.  Each branch says where the
\* immediate is then read and in which radix: the stream keeps the radix of
\* the last read, and the base_delta branch reads one delta for every active
\* lane although the tracer writes one fewer.
ParseList(line, mask) ==
  LET active == SetToSortSeq(mask, <)
  IN  [addrs |-> [s \in Lanes |->
                    IF s \in mask
                    THEN Token(line, 2 + CHOOSE i \in DOMAIN active : active[i] = s, 16)
                    ELSE 0],
       imm   |-> Token(line, 3 + Cardinality(mask), IF mask = {} THEN 10 ELSE 16)]

ParseStride(line, mask) ==
  [addrs |-> base_stride_decompress(Token(line, 3, 16), Token(line, 4, 10), mask),
   imm   |-> Token(line, 5, 10)]

ParseDelta(line, mask) ==
  [addrs |-> base_delta_decompress(Token(line, 3, 16),
               [i \in 1 .. Cardinality(mask) |-> Token(line, 3 + i, 10)], mask),
   imm   |-> Token(line, 4 + Cardinality(mask), 10)]

Parse(line, mask) ==
  CASE Token(line, 1, 10) = 0           -> [addrs |-> << >>, imm |-> Token(line, 2, 10)]
    [] Token(line, 2, 10) = list_all    -> ParseList(line, mask)
    [] Token(line, 2, 10) = base_stride -> ParseStride(line, mask)
    [] OTHER                            -> ParseDelta(line, mask)
=============================================================================
