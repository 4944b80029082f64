-------------------------------- MODULE BitCodec --------------------------------
(***************************************************************************)
(* czy and dzy of Program3_Compression with the bits between them: a raw   *)
(* symbol is 1 and its byte, a symbol seen before 00 and its position, a   *)
(* run 01, the position and the count.  bitsy.c writes the bits a byte at  *)
(* a time and pads the last byte with ones; dzy reads bit by bit and has   *)
(* no sign of the end but the end of the file.                             *)
(*                                                                         *)
(* czy writes the first bit of a position code before it reads the next    *)
(* symbol (czy.c:131); here the code is written whole.  bitsy.c holds bits *)
(* back until a byte is full, and dzy could do nothing with that one.      *)
(***************************************************************************)
EXTENDS Codec

CONSTANT BITS   (* bits of a byte: 8 *)

ASSUME BitCodecAssumption == BITS \in Nat \ {0} /\ \A b \in Symbols : b < Power[BITS]

VARIABLES
  bits,  (* the bits czy has put out and dzy has not read; the last of them are
            in czy's writeBuffer until they are a byte                         *)
  bit,   (* how many dzy has read                                              *)
  dpc    (* dzy: "code" at the top of its loop, or "ended"                     *)

vars == <<codecVars, bits, bit, dpc>>

(* The n bits of x, the highest first. *)
BitsOf(x, n) == [i \in 1..n |-> (x \div Power[n - i]) % 2]

Spelling(c) ==
  CASE c.form = "raw"  -> <<1>> \o BitsOf(c.byte, BITS)
    [] c.form = "once" -> <<0, 0>> \o BitsOf(c.pos, FIELD)
    [] c.form = "run"  -> <<0, 1>> \o BitsOf(c.pos, FIELD) \o BitsOf(c.count, FIELD)

(* The bits of the last byte that are not yet written, s being to come. *)
Loose(s) == (bit + Len(s)) % BITS

(* Mistakes: the last byte is padded with zeros; it is left in the buffer. *)
PaddedZeros(s) == s \o [i \in 1..(BITS - Loose(s)) % BITS |-> 0]
PaddedNot(s)   == SubSeq(s, 1, Len(s) - Loose(s))

(* flushWriteBuffer *)
Padded(s) == s \o [i \in 1..(BITS - Loose(s)) % BITS |-> 1]

(* A step of czy, and what it puts out. *)
CzyStep ==
  /\ Czy
  /\ LET s == IF codes' = codes THEN bits ELSE bits \o Spelling(Last(codes'))
     IN  bits' = IF pc' = "done" THEN Padded(s) ELSE s
  /\ UNCHANGED <<dzy, bit, dpc>>

--------------------------------------------------------------------------------
(* Whole bytes have been written, and the file ends with them when czy has. *)
Has(n)   == n <= Len(bits) - Loose(bits)
Lacks(n) == pc = "done" /\ ~Has(n)

(* n bits from the i-th on, as a number: shifts and ORs, bit after bit. *)
Number(i, n) ==
  LET shift[k \in 0..n] == IF k = 0 THEN 0 ELSE 2 * shift[k - 1] + bits[i + k - 1]
  IN  shift[n]

ReadBits(n) == bits' = SubSeq(bits, n + 1, Len(bits)) /\ bit' = bit + n
ReadCode(c, n) == Decode(c) /\ ReadBits(n) /\ UNCHANGED <<czy, dpc>>

(* Mistake: the symbol of a run is not counted apart from its repetitions. *)
DzyRunShort ==
  /\ dpc = "code" /\ Has(2 + 2 * FIELD) /\ bits[1] = 0 /\ bits[2] = 1
  /\ ReadCode(Run(Number(3, FIELD), Number(3 + FIELD, FIELD) - 1), 2 + 2 * FIELD)

DzyRaw  == /\ dpc = "code" /\ Has(1 + BITS) /\ bits[1] = 1
           /\ ReadCode(Raw(Number(2, BITS)), 1 + BITS)
DzyOnce == /\ dpc = "code" /\ Has(2 + FIELD) /\ bits[1] = 0 /\ bits[2] = 0
           /\ ReadCode(Once(Number(3, FIELD)), 2 + FIELD)
DzyRun  == /\ dpc = "code" /\ Has(2 + 2 * FIELD) /\ bits[1] = 0 /\ bits[2] = 1
           /\ ReadCode(Run(Number(3, FIELD), Number(3 + FIELD, FIELD)), 2 + 2 * FIELD)

(* readBit or readByte reports the end of the file, before a code or within the
   byte of one: dzy returns. *)
DzyEnd ==
  /\ dpc = "code"
  /\ \/ Lacks(1)
     \/ Has(1) /\ bits[1] = 1 /\ Lacks(1 + BITS)
  /\ dpc' = "ended" /\ ReadBits(Len(bits))
  /\ UNCHANGED codecVars

(* The file ends in the first two bits of a code ("bad time"), or in a position
   or a count, where readBit's 258 is ORed into the number.  NeverAstray says
   that this does not happen, so no action says what follows. *)
Astray ==
  /\ dpc = "code" /\ Has(1) /\ bits[1] = 0
  /\ \/ Lacks(2)
     \/ Has(2) /\ bits[2] = 0 /\ Lacks(2 + FIELD)
     \/ Has(2) /\ bits[2] = 1 /\ Lacks(2 + 2 * FIELD)

Dzy == DzyRaw \/ DzyOnce \/ DzyRun \/ DzyEnd

BitInit == Init /\ bits = <<>> /\ bit = 0 /\ dpc = "code"
BitNext == CzyStep \/ Dzy

(* The input need not end; dzy is scheduled. *)
BitSpec == BitInit /\ [][BitNext]_vars /\ WF_vars(Dzy)

--------------------------------------------------------------------------------
(* The types of the variables. *)
TypeOK ==
  /\ pc \in {"top", "second", "repeats", "done"}
  /\ unique \in 0..W-1 /\ repeats \in 0..W-1 /\ last \in Symbols \union {NONE}
  /\ window \in [0..W-1 -> Symbols \union {0}] /\ dwindow \in [0..W-1 -> Symbols \union {0}]
  /\ taken \in Seq(Symbols) /\ out \in Seq(Symbols)
  /\ decoded \in 0..Len(codes) /\ bits \in Seq({0, 1}) /\ dpc \in {"code", "ended"}

(* What dzy has written is a beginning of what czy has read, and all of it once
   dzy has ended: dzy(czy(x)) = x (czy.c:86-207, dzy.c:50-133). *)
DecodesInput ==
  /\ IsPrefix(out, taken)
  /\ dpc = "ended" => out = taken

(* Between two codes dzy, once it has caught up, remembers the same W symbols in
   the same order as czy, though their counts may differ by the symbol that
   czy adds twice after the longest run (czy.c:160-165, dzy.c:119-122). *)
WindowsAgree ==
  decoded = Len(codes) /\ pc = "top" =>
    \A i \in 0..W-1 : At(dwindow, dcount, i) = At(window, count, i)

(* The end of the file never cuts a position or a count short, no code is left
   unread, and the padding is never taken for a code (bitsy.c:135-148,
   dzy.c:70-93). *)
NeverAstray == ~Astray /\ (dpc = "ended" => decoded = Len(codes))

(* Once the input has ended, dzy ends. *)
DzyEnds == pc = "done" ~> dpc = "ended"

(* Bit by bit dzy reads the codes that czy wrote, each once and in order. *)
Codes == INSTANCE Codec
ImplementsCodec == Codes!Spec
================================================================================
