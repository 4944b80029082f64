-------------------------------- MODULE RpcWire --------------------------------
(***************************************************************************)
(* How Program4_Sever/r_client.c and r_server.c put an int on the wire and *)
(* read it back.  The writer shifts and masks; the reader ORs four chars   *)
(* shifted into place, and char is signed: a byte from BASE/2 on is a      *)
(* negative int, whose OR sets every bit above it.                         *)
(***************************************************************************)
EXTENDS Integers, Sequences

CONSTANT BASE   (* values of a byte: 256 in the program *)

ASSUME RpcWireAssumption == BASE \in Nat /\ BASE >= 16 /\ BASE % 2 = 0

HALF == BASE \div 2
Byte == 0 .. BASE - 1
Word == [1..4 -> Byte]

(* Mistake: the low byte is not masked. *)
EncodeUnmasked(x) == <<(x \div (BASE * BASE * BASE)) % BASE, (x \div (BASE * BASE)) % BASE,
                       (x \div BASE) % BASE, x>>

(* (x >> 24) & 0xff, (x >> 16) & 0xff, (x >> 8) & 0xff, x & 0xff *)
Encode(x) == <<(x \div (BASE * BASE * BASE)) % BASE, (x \div (BASE * BASE)) % BASE,
               (x \div BASE) % BASE, x % BASE>>

Signed(b) == IF b >= HALF THEN b - BASE ELSE b

(* (acc << 8) | b *)
OrChar(acc, b) == IF b >= HALF THEN Signed(b) ELSE acc * BASE + b

Decode(w) == OrChar(OrChar(OrChar(Signed(w[1]), w[2]), w[3]), w[4])

(* The two-byte length of r_open and c_open. *)
EncodeLength(n) == <<(n \div BASE) % BASE, n % BASE>>
DecodeLength(w) == OrChar(Signed(w[1]), w[2])

(* What the other side makes of x. *)
Wire(x) == Decode(Encode(x))
================================================================================
