---------------------------- MODULE RpcSessionProofs ----------------------------
(***************************************************************************)
(* Proofs about RpcSession for every program, byte width and number of     *)
(* calls.                                                                  *)
(***************************************************************************)
EXTENDS RpcSession, SequenceTheorems, TLAPS

--------------------------------------------------------------------------------
(* Bytes and ints on the wire. *)
LEMMA ByteArithmetic ==
  /\ BASE \in Nat /\ BASE >= 16 /\ HALF \in Int
  /\ EOF \in Byte /\ EOF \notin 1..7 /\ 0..7 \subseteq Byte
  /\ BASE \div 8 \in Byte
  /\ \A x \in Int : x % BASE \in Byte /\ x \div BASE \in Int
<1>1. BASE \in Nat /\ BASE >= 16
  BY RpcWireAssumption
<1>2. HALF \in Int /\ BASE \div 8 \in Byte
  BY <1>1 DEF HALF, Byte
<1>3. EOF \in Byte /\ EOF \notin 1..7 /\ 0..7 \subseteq Byte
  BY <1>1 DEF EOF, Byte
<1>4. ASSUME NEW x \in Int PROVE x % BASE \in Byte /\ x \div BASE \in Int
  BY <1>1 DEF Byte
<1> QED BY <1>1, <1>2, <1>3, <1>4

LEMMA EncodeType ==
  ASSUME NEW x \in Int
  PROVE  Encode(x) \in Seq(Byte) /\ Len(Encode(x)) = 4
<1>1. BASE * BASE * BASE \in Nat /\ BASE * BASE * BASE > 0 /\ BASE * BASE \in Nat /\ BASE * BASE > 0
  <2>1. BASE \in Nat /\ BASE > 0
    BY ByteArithmetic
  <2>2. BASE * BASE \in Nat /\ BASE * BASE > 0
    BY <2>1
  <2>3. \A m \in Nat : m > 0 => m * BASE \in Nat /\ m * BASE > 0
    BY <2>1
  <2> QED BY <2>1, <2>2, <2>3
<1>2. \A m \in Nat : m > 0 => x \div m \in Int
  OBVIOUS
<1>3. x \div (BASE * BASE * BASE) \in Int /\ x \div (BASE * BASE) \in Int
  BY <1>1, <1>2
<1>4. PICK a \in Byte, b \in Byte, c \in Byte, d \in Byte : Encode(x) = <<a, b, c, d>>
  BY <1>3, ByteArithmetic DEF Encode
<1>5. <<a, b, c, d>> \in Seq(Byte) /\ Len(<<a, b, c, d>>) = 4
  OBVIOUS
<1> QED BY <1>4, <1>5

LEMMA EncodeLengthType ==
  ASSUME NEW n \in Int
  PROVE  EncodeLength(n) \in Seq(Byte) /\ Len(EncodeLength(n)) = 2
<1>1. PICK a \in Byte, b \in Byte : EncodeLength(n) = <<a, b>>
  BY ByteArithmetic DEF EncodeLength
<1>2. <<a, b>> \in Seq(Byte) /\ Len(<<a, b>>) = 2
  OBVIOUS
<1> QED BY <1>1, <1>2

LEMMA DecodeType ==
  ASSUME NEW w \in Word
  PROVE  Decode(w) \in Int /\ DecodeLength(w) \in Int
<1>1. \A i \in 1..4 : w[i] \in Byte
  BY DEF Word
<1>2. ASSUME NEW acc \in Int, NEW b \in Byte
      PROVE  OrChar(acc, b) \in Int
  <2>1. b \in Int /\ BASE \in Int /\ acc * BASE \in Int
    BY ByteArithmetic DEF Byte
  <2> QED BY <2>1 DEF OrChar, Signed
<1>3. ASSUME NEW b \in Byte
      PROVE  Signed(b) \in Int
  BY ByteArithmetic DEF Signed, Byte
<1>4. Signed(w[1]) \in Int
  BY <1>1, <1>3
<1>5. OrChar(Signed(w[1]), w[2]) \in Int
  BY <1>1, <1>2, <1>4
<1>6. OrChar(OrChar(Signed(w[1]), w[2]), w[3]) \in Int
  BY <1>1, <1>2, <1>5
<1>7. OrChar(OrChar(OrChar(Signed(w[1]), w[2]), w[3]), w[4]) \in Int
  BY <1>1, <1>2, <1>6
<1> QED BY <1>5, <1>7 DEF Decode, DecodeLength

LEMMA BlankType == Blank \in Word /\ Blank \in Seq(Byte) /\ Len(Blank) = 4
<1>1. PICK b \in Byte : b = BASE \div 8
  BY ByteArithmetic
<1>2. 0 \in Byte
  BY ByteArithmetic
<1>3. <<b, 0, 0, 0>> \in Word /\ <<b, 0, 0, 0>> \in Seq(Byte) /\ Len(<<b, 0, 0, 0>>) = 4
  BY <1>2 DEF Word
<1> QED BY <1>1, <1>3 DEF Blank

LEMMA WordOfBytes ==
  ASSUME NEW b \in Seq(Byte), Len(b) = 4
  PROVE  b \in Word /\ Overlay(b) = b
<1>1. b \in [1..4 -> Byte]
  BY LenProperties
<1>2. b = [i \in 1..4 |-> b[i]]
  BY <1>1
<1>3. Overlay(b) = [i \in 1..4 |-> b[i]]
  BY DEF Overlay
<1> QED BY <1>1, <1>2, <1>3 DEF Word

LEMMA WireType ==
  ASSUME NEW x \in Int
  PROVE  Wire(x) \in Int
BY EncodeType, WordOfBytes, DecodeType DEF Wire

--------------------------------------------------------------------------------
(* FlattenSeq on one, two and three sequences. *)
Flattens(s, g) == g = [i \in 1..Len(s) |-> IF i = 1 THEN s[i] ELSE g[i - 1] \o s[i]]
LEMMA FlattenOne ==
  ASSUME NEW a
  PROVE  FlattenSeq(<<a>>) = a
<1> USE DEF Flattens
<1> DEFINE s == <<a>>
           h == CHOOSE g : Flattens(s, g)
<1>1. Len(s) = 1 /\ s[1] = a
  OBVIOUS
<1>2. FlattenSeq(s) = h[Len(s)]
  BY <1>1 DEF FlattenSeq
<1> HIDE DEF s
<1>3. Flattens(s, [i \in 1..1 |-> a])
  BY <1>1
<1>4. Flattens(s, h)
  BY <1>3
<1> HIDE DEF h
<1>5. h[1] = a
  BY <1>1, <1>4
<1> QED BY <1>1, <1>2, <1>5 DEF s

LEMMA FlattenTwo ==
  ASSUME NEW a, NEW b
  PROVE  FlattenSeq(<<a, b>>) = a \o b
<1> USE DEF Flattens
<1> DEFINE s == <<a, b>>
           h == CHOOSE g : Flattens(s, g)
<1>1. Len(s) = 2 /\ s[1] = a /\ s[2] = b
  OBVIOUS
<1>2. FlattenSeq(s) = h[Len(s)]
  BY <1>1 DEF FlattenSeq
<1> HIDE DEF s
<1>3. Flattens(s, [i \in 1..2 |-> IF i = 1 THEN a ELSE a \o b])
  BY <1>1
<1>4. Flattens(s, h)
  BY <1>3
<1> HIDE DEF h
<1>5. h[1] = a
  BY <1>1, <1>4
<1>6. h[2] = a \o b
  <2>1. \A i, j \in 1..Len(s) : i # 1 /\ j = i - 1 => h[i] = h[j] \o s[i]
    BY <1>4
  <2>2. h[2] = h[1] \o s[2]
    BY <1>1, <2>1
  <2> QED BY <1>1, <1>5, <2>2
<1> QED BY <1>1, <1>2, <1>6 DEF s

LEMMA FlattenThree ==
  ASSUME NEW a, NEW b, NEW c
  PROVE  FlattenSeq(<<a, b, c>>) = FlattenSeq(<<a, b>>) \o c
<1> USE DEF Flattens
<1> DEFINE s == <<a, b, c>>
           h == CHOOSE g : Flattens(s, g)
<1>1. Len(s) = 3 /\ s[1] = a /\ s[2] = b /\ s[3] = c
  OBVIOUS
<1>2. FlattenSeq(s) = h[Len(s)]
  BY <1>1 DEF FlattenSeq
<1> HIDE DEF s
<1>3. Flattens(s, [i \in 1..3 |-> IF i = 1 THEN a ELSE IF i = 2 THEN a \o b ELSE (a \o b) \o c])
  BY <1>1
<1>4. Flattens(s, h)
  BY <1>3
<1> HIDE DEF h
<1>5. h[1] = a
  BY <1>1, <1>4
<1>6. h[2] = a \o b
  <2>1. \A i, j \in 1..Len(s) : i # 1 /\ j = i - 1 => h[i] = h[j] \o s[i]
    BY <1>4
  <2>2. h[2] = h[1] \o s[2]
    BY <1>1, <2>1
  <2> QED BY <1>1, <1>5, <2>2
<1>7. h[3] = (a \o b) \o c
  <2>1. \A i, j \in 1..Len(s) : i # 1 /\ j = i - 1 => h[i] = h[j] \o s[i]
    BY <1>4
  <2>2. h[3] = h[2] \o s[3]
    BY <1>1, <2>1
  <2> QED BY <1>1, <1>6, <2>2
<1>8. FlattenSeq(<<a, b>>) = a \o b
  BY FlattenTwo
<1> QED BY <1>1, <1>2, <1>7, <1>8 DEF s

--------------------------------------------------------------------------------
(* What the child reads of the message of a call, field after field. *)
Parts(c) ==
  CASE c.op = "open"  -> <<EncodeLength(Len(c.data)), c.data, Encode(c.args[1]), Encode(c.args[2])>>
    [] c.op = "close" -> <<Encode(c.args[1])>>
    [] c.op = "write" -> <<Encode(c.args[1]), Encode(c.args[2]), c.data>>
    [] c.op = "lseek" -> <<Encode(c.args[1]), Encode(c.args[2]), Encode(c.args[3])>>
    [] c.op = "pipe"  -> <<>>
    [] OTHER          -> <<Encode(c.args[1]), Encode(c.args[2])>>

(* The parts of p behind the first k. *)
Part(p, k) == IF k \in DOMAIN p THEN p[k] ELSE <<>>
Rest(p, k) ==
  CASE k = 0 -> Part(p, 1) \o (Part(p, 2) \o (Part(p, 3) \o Part(p, 4)))
    [] k = 1 -> Part(p, 2) \o (Part(p, 3) \o Part(p, 4))
    [] k = 2 -> Part(p, 3) \o Part(p, 4)
    [] k = 3 -> Part(p, 4)
    [] OTHER -> <<>>

LEMMA Opcodes ==
  /\ Opcode("open") = 1 /\ Opcode("close") = 2 /\ Opcode("read") = 3 /\ Opcode("write") = 4
  /\ Opcode("lseek") = 5 /\ Opcode("pipe") = 6 /\ Opcode("dup2") = 7
  /\ ToSet(Ops) = {"open", "close", "read", "write", "lseek", "pipe", "dup2"}
  /\ Ops[1] = "open" /\ Ops[2] = "close" /\ Ops[3] = "read" /\ Ops[4] = "write"
  /\ Ops[5] = "lseek" /\ Ops[6] = "pipe" /\ Ops[7] = "dup2"
<1>1. /\ Ops[1] = "open" /\ Ops[2] = "close" /\ Ops[3] = "read" /\ Ops[4] = "write"
      /\ Ops[5] = "lseek" /\ Ops[6] = "pipe" /\ Ops[7] = "dup2"
      /\ DOMAIN Ops = 1..7
  BY DEF Ops
<1>2. ToSet(Ops) = {"open", "close", "read", "write", "lseek", "pipe", "dup2"}
  BY <1>1 DEF ToSet
<1>3. ASSUME NEW n \in 1..7
      PROVE  Opcode(Ops[n]) = n
  BY <1>1 DEF Opcode
<1> QED BY <1>1, <1>2, <1>3

LEMMA CallShape ==
  ASSUME NEW c \in Calls
  PROVE  /\ c.op \in {"open", "close", "read", "write", "lseek", "pipe", "dup2"}
         /\ c = [op |-> c.op, args |-> c.args, data |-> c.data]
         /\ c.args \in Seq(Int) /\ c.data \in Seq(Byte) /\ Len(c.data) \in Nat
         /\ Len(c.args) = Arity[c.op] /\ Len(c.args) \in 0..3
         /\ \A i \in 1..Len(c.args) : c.args[i] \in Int
         /\ c.op = "read" => c.args[2] >= 0
         /\ c.op = "write" => c.args[2] = Len(c.data)
         /\ c.op \notin {"open", "write"} => c.data = <<>>
<1>1. /\ c \in [op : ToSet(Ops), args : Seq(Int), data : Seq(Byte)]
      /\ Len(c.args) = Arity[c.op]
      /\ c.op = "read" => c.args[2] >= 0
      /\ c.op = "write" => c.args[2] = Len(c.data)
      /\ c.data # <<>> => c.op \in {"open", "write"}
  BY RpcSessionAssumption
<1>2. c.op \in {"open", "close", "read", "write", "lseek", "pipe", "dup2"}
  BY <1>1, Opcodes
<1>3. Arity[c.op] \in 0..3
  BY <1>2 DEF Arity
<1> QED BY <1>1, <1>2, <1>3, LenProperties, ElementOfSeq

(* The arguments each stub has. *)
LEMMA Arguments ==
  ASSUME NEW c \in Calls
  PROVE  /\ c.op \in {"open", "read", "write", "dup2"} =>
              Len(c.args) = 2 /\ c.args[1] \in Int /\ c.args[2] \in Int
         /\ c.op = "close" => Len(c.args) = 1 /\ c.args[1] \in Int
         /\ c.op = "lseek" =>
              Len(c.args) = 3 /\ c.args[1] \in Int /\ c.args[2] \in Int /\ c.args[3] \in Int
         /\ c.op = "pipe" => Len(c.args) = 0
<1>1. Len(c.args) = Arity[c.op] /\ \A i \in 1..Len(c.args) : c.args[i] \in Int
  BY CallShape
<1> QED BY <1>1 DEF Arity

LEMMA EncodeAllShort ==
  ASSUME NEW c \in Calls
  PROVE  /\ Len(c.args) = 0 => EncodeAll(c.args) = <<>>
         /\ Len(c.args) = 1 => EncodeAll(c.args) = Encode(c.args[1])
         /\ Len(c.args) = 2 => EncodeAll(c.args) = Encode(c.args[1]) \o Encode(c.args[2])
         /\ Len(c.args) = 3 => EncodeAll(c.args) =
              (Encode(c.args[1]) \o Encode(c.args[2])) \o Encode(c.args[3])
<1> DEFINE s == c.args
           e == [i \in DOMAIN s |-> Encode(s[i])]
<1>1. DOMAIN s = 1..Len(s) /\ \A i \in 1..Len(s) : s[i] \in Int
  BY CallShape, LenProperties
<1>2. \A i \in 1..Len(s) : Encode(s[i]) \in Seq(Byte)
  BY <1>1, EncodeType
<1>3. EncodeAll(s) = FlattenSeq(e)
  BY DEF EncodeAll
<1> HIDE DEF s
<1>4. CASE Len(s) = 0
  <2>1. e = <<>>
    BY <1>1, <1>4
  <2>2. FlattenSeq(<<>>) = <<>>
    BY DEF FlattenSeq
  <2> QED BY <1>3, <1>4, <2>1, <2>2 DEF s
<1>5. CASE Len(s) = 1
  <2>1. PICK a \in Seq(Byte) : a = Encode(s[1])
    BY <1>2, <1>5
  <2>2. e = <<a>>
    BY <1>1, <1>5, <2>1
  <2>3. EncodeAll(s) = a
    <3>1. FlattenSeq(<<a>>) = a
      BY FlattenOne
    <3> HIDE DEF e
    <3> QED BY <1>3, <2>2, <3>1
  <2> QED BY <1>5, <2>1, <2>3 DEF s
<1>6. CASE Len(s) = 2
  <2>1. PICK a \in Seq(Byte), b \in Seq(Byte) : a = Encode(s[1]) /\ b = Encode(s[2])
    BY <1>2, <1>6
  <2>2. e = <<a, b>>
    BY <1>1, <1>6, <2>1
  <2>3. EncodeAll(s) = a \o b
    <3>1. FlattenSeq(<<a, b>>) = a \o b
      BY FlattenTwo
    <3> HIDE DEF e
    <3> QED BY <1>3, <2>2, <3>1
  <2> QED BY <1>6, <2>1, <2>3 DEF s
<1>7. CASE Len(s) = 3
  <2>1. PICK a \in Seq(Byte), b \in Seq(Byte), d \in Seq(Byte) :
          a = Encode(s[1]) /\ b = Encode(s[2]) /\ d = Encode(s[3])
    BY <1>2, <1>7
  <2>2. e = <<a, b, d>>
    BY <1>1, <1>7, <2>1
  <2>3. EncodeAll(s) = (a \o b) \o d
    <3>1. FlattenSeq(<<a, b, d>>) = FlattenSeq(<<a, b>>) \o d
      BY FlattenThree
    <3>2. FlattenSeq(<<a, b>>) = a \o b
      BY FlattenTwo
    <3> HIDE DEF e
    <3> QED BY <1>3, <2>2, <3>1, <3>2
  <2> QED BY <1>7, <2>1, <2>3 DEF s
<1> QED BY <1>4, <1>5, <1>6, <1>7 DEF s

(* The first bytes of a stream, and those behind them. *)
LEMMA FrontOfStream ==
  ASSUME NEW S, NEW a \in Seq(S), NEW b \in Seq(S)
  PROVE  /\ SubSeq(a \o b, 1, Len(a)) = a
         /\ SubSeq(a \o b, Len(a) + 1, Len(a \o b)) = b
<1>1. Len(a) \in Nat /\ Len(b) \in Nat /\ a \o b \in Seq(S) /\ Len(a \o b) = Len(a) + Len(b)
  BY LenProperties, ConcatProperties
<1>2. \A i \in 1..Len(a) + Len(b) : /\ (a \o b)[i] = IF i <= Len(a) THEN a[i] ELSE b[i - Len(a)]
                                    /\ (a \o b)[i] \in S
  BY <1>1, ConcatProperties, ElementOfSeq
<1> DEFINE s == a \o b
<1> HIDE DEF s
<1>3. s \in Seq(S) /\ Len(s) = Len(a) + Len(b)
  BY <1>1 DEF s
<1>4. \A i \in 1..Len(a) + Len(b) : s[i] \in S
  BY <1>2 DEF s
<1>5. SubSeq(s, 1, Len(a)) = a
  <2>1. /\ SubSeq(s, 1, Len(a)) \in Seq(S)
        /\ Len(SubSeq(s, 1, Len(a))) = IF 1 <= Len(a) THEN Len(a) - 1 + 1 ELSE 0
        /\ \A i \in 1..Len(a) - 1 + 1 : SubSeq(s, 1, Len(a))[i] = s[1 + i - 1]
    <3>1. \A i \in 1..Len(a) : s[i] \in S
      BY <1>1, <1>4
    <3> QED BY <1>1, <3>1, SubSeqProperties
  <2>2. Len(SubSeq(s, 1, Len(a))) = Len(a)
    BY <1>1, <2>1
  <2>3. \A i \in 1..Len(a) : SubSeq(s, 1, Len(a))[i] = a[i]
    BY <1>1, <1>2, <2>1 DEF s
  <2> QED BY <2>1, <2>2, <2>3, SeqEqual
<1>6. SubSeq(s, Len(a) + 1, Len(s)) = b
  <2> DEFINE t == SubSeq(s, Len(a) + 1, Len(s))
  <2>1. /\ t \in Seq(S)
        /\ Len(t) = IF Len(a) + 1 <= Len(s) THEN Len(s) - (Len(a) + 1) + 1 ELSE 0
        /\ \A i \in 1..Len(s) - (Len(a) + 1) + 1 : t[i] = s[(Len(a) + 1) + i - 1]
    <3>1. \A i \in Len(a) + 1 .. Len(s) : s[i] \in S
      BY <1>1, <1>3, <1>4
    <3> QED BY <1>1, <1>3, <3>1, SubSeqProperties
  <2> HIDE DEF t
  <2>2. Len(t) = Len(b)
    BY <1>1, <1>3, <2>1
  <2>3. \A i \in 1..Len(b) : t[i] = b[i]
    <3> TAKE i \in 1..Len(b)
    <3>1. t[i] = s[Len(a) + i]
      BY <1>1, <1>3, <2>1
    <3>2. Len(a) + i \in 1..Len(a) + Len(b) /\ ~(Len(a) + i <= Len(a)) /\ (Len(a) + i) - Len(a) = i
      BY <1>1
    <3>3. s[Len(a) + i] = b[(Len(a) + i) - Len(a)]
      BY <1>2, <3>2 DEF s
    <3> QED BY <3>1, <3>2, <3>3
  <2> QED BY <2>1, <2>2, <2>3, SeqEqual DEF t
<1> QED BY <1>5, <1>6 DEF s

(* A read of as many bytes as stand before the rest takes these. *)
LEMMA TakesFront ==
  ASSUME NEW a \in Seq(Byte), NEW b \in Seq(Byte), toServer = a \o b
  PROVE  /\ Taken(Len(a)) = {a}
         /\ Drop(a) => toServer' = b
<1>1. Len(a) \in Nat /\ Len(b) \in Nat /\ Len(toServer) = Len(a) + Len(b) /\ (a = <<>> <=> Len(a) = 0)
  BY LenProperties, ConcatProperties, EmptySeq
<1>2. Drop(a) => toServer' = b
  BY FrontOfStream DEF Drop
<1>3. CASE Len(a) = 0
  BY <1>1, <1>2, <1>3 DEF Taken
<1>4. CASE Len(a) # 0
  <2>1. toServer # <<>> /\ ~(Len(a) <= 0)
    <3>1. Len(toServer) # 0
      BY <1>1, <1>4
    <3> QED BY <1>1, <1>4, <3>1, EmptySeq
  <2>2. (IF Len(a) < Len(toServer) THEN Len(a) ELSE Len(toServer)) = Len(a)
    BY <1>1
  <2>3. Taken(Len(a)) = {SubSeq(toServer, 1, Len(a))}
    BY <2>1, <2>2 DEF Taken
  <2>4. SubSeq(toServer, 1, Len(a)) = a
    BY FrontOfStream
  <2> QED BY <1>2, <2>3, <2>4
<1> QED BY <1>3, <1>4

Series(p, n) == DOMAIN p = 1..n /\ \A i \in 1..n : p[i] \in Seq(Byte)
LEMMA RestStep ==
  ASSUME NEW n \in 0..4, NEW p, Series(p, n), NEW k \in 0..4
  PROVE  /\ Rest(p, k) \in Seq(Byte)
         /\ k < n => /\ p[k + 1] \in Seq(Byte) /\ k + 1 \in 0..4
                          /\ Rest(p, k) = p[k + 1] \o Rest(p, k + 1)
         /\ k >= n => Rest(p, k) = <<>>
<1>1. \A i \in 1..5 : Part(p, i) \in Seq(Byte) /\ (i <= n => Part(p, i) = p[i])
                                             /\ (i > n => Part(p, i) = <<>>)
  <2>1. DOMAIN p = 1..n /\ \A i \in 1..n : p[i] \in Seq(Byte)
    BY DEF Series
  <2>2. <<>> \in Seq(Byte)
    BY EmptySeq
  <2> QED BY <2>1, <2>2 DEF Part
<1>2. /\ Rest(p, 0) = Part(p, 1) \o Rest(p, 1) /\ Rest(p, 1) = Part(p, 2) \o Rest(p, 2)
      /\ Rest(p, 2) = Part(p, 3) \o Rest(p, 3) /\ Rest(p, 3) = Part(p, 4) \o Rest(p, 4)
      /\ Rest(p, 4) = <<>>
  <2>1. Rest(p, 0) = Part(p, 1) \o Rest(p, 1)
    BY DEF Rest
  <2>2. Rest(p, 1) = Part(p, 2) \o Rest(p, 2)
    BY DEF Rest
  <2>3. Rest(p, 2) = Part(p, 3) \o Rest(p, 3)
    BY DEF Rest
  <2>4. Rest(p, 3) = Part(p, 4) /\ Rest(p, 4) = <<>>
    BY DEF Rest
  <2>5. Part(p, 4) \o <<>> = Part(p, 4)
    BY <1>1, ConcatEmptySeq
  <2> QED BY <2>1, <2>2, <2>3, <2>4, <2>5
<1> DEFINE Good(i) == Rest(p, i) \in Seq(Byte) /\ (i >= n => Rest(p, i) = <<>>)
<1>3. Good(4)
  BY <1>2, EmptySeq
<1>4. ASSUME NEW a \in Seq(Byte), NEW b \in Seq(Byte)
      PROVE  a \o b \in Seq(Byte) /\ (a = <<>> /\ b = <<>> => a \o b = <<>>)
  BY ConcatProperties, ConcatEmptySeq
<1>5. ASSUME NEW i \in 1..4, NEW j \in 0..3, i = j + 1, Good(i), Rest(p, j) = Part(p, i) \o Rest(p, i)
      PROVE  Good(j)
  <2>1. Part(p, i) \in Seq(Byte) /\ (i > n => Part(p, i) = <<>>) 
    BY <1>1
  <2>2. Part(p, i) \o Rest(p, i) \in Seq(Byte)
    BY <1>4, <1>5, <2>1
  <2>3. CASE i > n
    <3>1. Part(p, i) = <<>> /\ Rest(p, i) = <<>>
      BY <1>5, <2>1, <2>3
    <3>2. Part(p, i) \o Rest(p, i) = <<>>
      BY <1>4, <2>1, <3>1
    <3> QED BY <1>5, <2>2, <3>2
  <2>4. CASE ~(i > n)
    BY <1>5, <2>1, <2>2, <2>4
  <2> QED BY <2>3, <2>4
<1>6. Good(3)
  <2> HIDE DEF Good
  <2> QED BY <1>2, <1>3, <1>5
<1>7. Good(2)
  <2> HIDE DEF Good
  <2> QED BY <1>2, <1>5, <1>6
<1>8. Good(1)
  <2> HIDE DEF Good
  <2> QED BY <1>2, <1>5, <1>7
<1>9. Good(0)
  <2> HIDE DEF Good
  <2> QED BY <1>2, <1>5, <1>8
<1>10. Good(k)
  <2>1. k \in {0, 1, 2, 3, 4}
    OBVIOUS
  <2> HIDE DEF Good
  <2> QED BY <1>3, <1>6, <1>7, <1>8, <1>9, <2>1
<1>11. k < n => k \in {0, 1, 2, 3} /\ k + 1 \in 0..4 /\ Part(p, k + 1) = p[k + 1] /\ p[k + 1] \in Seq(Byte)
  <2>1. k < n => k \in {0, 1, 2, 3} /\ k + 1 \in 0..4 /\ k + 1 \in 1..5 /\ k + 1 <= n
    OBVIOUS
  <2> QED BY <1>1, <2>1
<1>12. k \in {0, 1, 2, 3} => Rest(p, k) = Part(p, k + 1) \o Rest(p, k + 1)
  <2>1. 0 + 1 = 1 /\ 1 + 1 = 2 /\ 2 + 1 = 3 /\ 3 + 1 = 4
    OBVIOUS
  <2> QED BY <1>2, <2>1
<1> QED BY <1>10, <1>11, <1>12

LEMMA PartsType ==
  ASSUME NEW c \in Calls
  PROVE  Len(Fields[Opcode(c.op)]) \in 0..4 /\ Series(Parts(c), Len(Fields[Opcode(c.op)]))
<1>1. /\ c.data \in Seq(Byte) /\ EncodeLength(Len(c.data)) \in Seq(Byte)
      /\ \A i \in 1..Len(c.args) : Encode(c.args[i]) \in Seq(Byte)
  BY CallShape, EncodeType, EncodeLengthType
<1>2. c.op \in {"open", "close", "read", "write", "lseek", "pipe", "dup2"}
  BY CallShape
<1>3. CASE c.op = "open"
  <2>1. PICK l \in Seq(Byte), d \in Seq(Byte), a \in Seq(Byte), b \in Seq(Byte) :
          l = EncodeLength(Len(c.data)) /\ d = c.data /\ a = Encode(c.args[1]) /\ b = Encode(c.args[2])
    BY <1>1, <1>3, Arguments
  <2>2. Parts(c) = <<l, d, a, b>>
    BY <1>3, <2>1 DEF Parts
  <2>3. Len(Fields[Opcode(c.op)]) = 4
    BY <1>3, Opcodes DEF Fields, c_open
  <2> QED BY <2>2, <2>3 DEF Series
<1>4. CASE c.op = "close"
  <2>1. PICK a \in Seq(Byte) : a = Encode(c.args[1])
    BY <1>1, <1>4, Arguments
  <2>2. Parts(c) = <<a>>
    BY <1>4, <2>1 DEF Parts
  <2>3. Len(Fields[Opcode(c.op)]) = 1
    BY <1>4, Opcodes DEF Fields, c_close
  <2> QED BY <2>2, <2>3 DEF Series
<1>5. CASE c.op = "write"
  <2>1. PICK a \in Seq(Byte), b \in Seq(Byte), d \in Seq(Byte) :
          a = Encode(c.args[1]) /\ b = Encode(c.args[2]) /\ d = c.data
    BY <1>1, <1>5, Arguments
  <2>2. Parts(c) = <<a, b, d>>
    BY <1>5, <2>1 DEF Parts
  <2>3. Len(Fields[Opcode(c.op)]) = 3
    BY <1>5, Opcodes DEF Fields, c_write
  <2> QED BY <2>2, <2>3 DEF Series
<1>6. CASE c.op = "lseek"
  <2>1. PICK a \in Seq(Byte), b \in Seq(Byte), d \in Seq(Byte) :
          a = Encode(c.args[1]) /\ b = Encode(c.args[2]) /\ d = Encode(c.args[3])
    BY <1>1, <1>6, Arguments
  <2>2. Parts(c) = <<a, b, d>>
    BY <1>6, <2>1 DEF Parts
  <2>3. Len(Fields[Opcode(c.op)]) = 3
    BY <1>6, Opcodes DEF Fields, c_lseek
  <2> QED BY <2>2, <2>3 DEF Series
<1>7. CASE c.op = "pipe"
  <2>1. Parts(c) = <<>>
    BY <1>7 DEF Parts
  <2>2. Len(Fields[Opcode(c.op)]) = 0
    BY <1>7, Opcodes DEF Fields, c_pipe
  <2> QED BY <2>1, <2>2 DEF Series
<1>8. CASE c.op \in {"read", "dup2"}
  <2>1. PICK a \in Seq(Byte), b \in Seq(Byte) : a = Encode(c.args[1]) /\ b = Encode(c.args[2])
    BY <1>1, <1>8, Arguments
  <2>2. Parts(c) = <<a, b>>
    BY <1>8, <2>1 DEF Parts
  <2>3. Len(Fields[Opcode(c.op)]) = 2
    BY <1>8, Opcodes DEF Fields, c_read, c_dup2
  <2> QED BY <2>2, <2>3 DEF Series
<1> QED BY <1>2, <1>3, <1>4, <1>5, <1>6, <1>7, <1>8

(* A whole message behind its opcode. *)
LEMMA RestOfOne ==
  ASSUME NEW a \in Seq(Byte)
  PROVE  Rest(<<a>>, 0) = a
<1>1. /\ Part(<<a>>, 1) = a
      /\ Part(<<a>>, 2) = <<>>
      /\ Part(<<a>>, 3) = <<>>
      /\ Part(<<a>>, 4) = <<>>
  BY DEF Part
<1>2. Rest(<<a>>, 0) = Part(<<a>>, 1) \o (Part(<<a>>, 2) \o (Part(<<a>>, 3) \o Part(<<a>>, 4)))
  BY DEF Rest
<1>3. a \o <<>> = a /\ <<>> \o <<>> = <<>>
  BY ConcatEmptySeq, EmptySeq
<1> QED BY <1>1, <1>2, <1>3

LEMMA RestOfTwo ==
  ASSUME NEW a \in Seq(Byte), NEW b \in Seq(Byte)
  PROVE  Rest(<<a, b>>, 0) = a \o b
<1>1. /\ Part(<<a, b>>, 1) = a
      /\ Part(<<a, b>>, 2) = b
      /\ Part(<<a, b>>, 3) = <<>>
      /\ Part(<<a, b>>, 4) = <<>>
  BY DEF Part
<1>2. Rest(<<a, b>>, 0) = Part(<<a, b>>, 1) \o (Part(<<a, b>>, 2) \o (Part(<<a, b>>, 3) \o Part(<<a, b>>, 4)))
  BY DEF Rest
<1>3. b \o <<>> = b /\ <<>> \o <<>> = <<>>
  BY ConcatEmptySeq, EmptySeq
<1> QED BY <1>1, <1>2, <1>3

LEMMA RestOfThree ==
  ASSUME NEW a \in Seq(Byte), NEW b \in Seq(Byte), NEW c \in Seq(Byte)
  PROVE  Rest(<<a, b, c>>, 0) = a \o (b \o c)
<1>1. /\ Part(<<a, b, c>>, 1) = a
      /\ Part(<<a, b, c>>, 2) = b
      /\ Part(<<a, b, c>>, 3) = c
      /\ Part(<<a, b, c>>, 4) = <<>>
  BY DEF Part
<1>2. Rest(<<a, b, c>>, 0) = Part(<<a, b, c>>, 1) \o (Part(<<a, b, c>>, 2) \o (Part(<<a, b, c>>, 3) \o Part(<<a, b, c>>, 4)))
  BY DEF Rest
<1>3. c \o <<>> = c /\ <<>> \o <<>> = <<>>
  BY ConcatEmptySeq, EmptySeq
<1> QED BY <1>1, <1>2, <1>3

(* \o associates. *)
LEMMA Associate ==
  ASSUME NEW a \in Seq(Byte), NEW b \in Seq(Byte), NEW c \in Seq(Byte)
  PROVE  (a \o b) \o c = a \o (b \o c)
BY ConcatAssociative

LEMMA OpenParts ==
  ASSUME NEW c \in Calls, c.op = "open"
  PROVE  Rest(Parts(c), 0) = EncodeLength(Len(c.data)) \o (c.data \o EncodeAll(c.args))
<1> DEFINE p == Parts(c)
<1>1. /\ Part(p, 1) = EncodeLength(Len(c.data)) /\ Part(p, 2) = c.data
      /\ Part(p, 3) = Encode(c.args[1]) /\ Part(p, 4) = Encode(c.args[2])
  BY DEF Part, Parts
<1> HIDE DEF p
<1>2. Rest(p, 0) = Part(p, 1) \o Rest(p, 1)
  BY DEF Rest
<1>3. Rest(p, 1) = Part(p, 2) \o Rest(p, 2)
  BY DEF Rest
<1>4. Rest(p, 2) = Part(p, 3) \o Part(p, 4)
  BY DEF Rest
<1>5. EncodeAll(c.args) = Encode(c.args[1]) \o Encode(c.args[2])
  BY Arguments, EncodeAllShort
<1>6. Rest(p, 2) = EncodeAll(c.args)
  BY <1>1, <1>4, <1>5
<1> QED BY <1>1, <1>2, <1>3, <1>6 DEF p

LEMMA OpenMessage ==
  ASSUME NEW c \in Calls, c.op = "open"
  PROVE  r_open(c) = <<Opcode("open")>> \o Rest(Parts(c), 0)
<1>1. PICK o \in Seq(Byte) : o = <<Opcode("open")>>
  <2>1. PICK n \in Byte : n = 1
    BY ByteArithmetic
  <2>2. <<n>> \in Seq(Byte)
    OBVIOUS
  <2> QED BY <2>1, <2>2, Opcodes
<1>2. PICK l \in Seq(Byte) : l = EncodeLength(Len(c.data))
  BY CallShape, EncodeLengthType
<1>3. PICK d \in Seq(Byte) : d = c.data
  BY CallShape
<1>4. PICK e \in Seq(Byte) : e = EncodeAll(c.args)
  <2>1. EncodeAll(c.args) = Encode(c.args[1]) \o Encode(c.args[2])
    BY Arguments, EncodeAllShort
  <2>2. Encode(c.args[1]) \in Seq(Byte) /\ Encode(c.args[2]) \in Seq(Byte)
    BY Arguments, EncodeType
  <2> QED BY <2>1, <2>2, ConcatProperties
<1>5. Rest(Parts(c), 0) = l \o (d \o e)
  BY <1>2, <1>3, <1>4, OpenParts
<1>6. r_open(c) = ((o \o l) \o d) \o e
  BY <1>1, <1>2, <1>3, <1>4 DEF r_open
<1>7. ((o \o l) \o d) \o e = (o \o l) \o (d \o e)
  <2>1. PICK x \in Seq(Byte) : x = o \o l
    BY ConcatProperties
  <2>2. (x \o d) \o e = x \o (d \o e)
    BY Associate
  <2> QED BY <2>1, <2>2
<1>8. (o \o l) \o (d \o e) = o \o (l \o (d \o e))
  <2>1. PICK y \in Seq(Byte) : y = d \o e
    BY ConcatProperties
  <2>2. (o \o l) \o y = o \o (l \o y)
    BY Associate
  <2> QED BY <2>1, <2>2
<1> QED BY <1>1, <1>5, <1>6, <1>7, <1>8

Noise(c, g) == [i \in 1 .. (IF c.op = "dup2" THEN 9 ELSE 0) |-> g]
LEMMA MessageIsParts ==
  ASSUME NEW c \in Calls, NEW g \in Garbage
  PROVE  /\ Message(c, g) = Noise(c, g) \o (<<Opcode(c.op)>> \o Rest(Parts(c), 0))
         /\ Opcode(c.op) \in 1..7 /\ <<Opcode(c.op)>> \in Seq(Byte)
<1>1. /\ c.data \in Seq(Byte) /\ EncodeLength(Len(c.data)) \in Seq(Byte)
      /\ \A i \in 1..Len(c.args) : Encode(c.args[i]) \in Seq(Byte)
  BY CallShape, EncodeType, EncodeLengthType
<1>2. c.op \in {"open", "close", "read", "write", "lseek", "pipe", "dup2"}
  BY CallShape
<1>3. Opcode(c.op) \in 1..7
  BY <1>2, Opcodes
<1>4. PICK o \in Seq(Byte) : o = <<Opcode(c.op)>>
  <2>1. PICK n \in Byte : n = Opcode(c.op)
    BY <1>3, ByteArithmetic
  <2>2. <<n>> \in Seq(Byte)
    OBVIOUS
  <2> QED BY <2>1, <2>2
<1>5. Rest(Parts(c), 0) \in Seq(Byte)
  <2>1. PICK n \in 0..4 : Series(Parts(c), n)
    BY PartsType
  <2> QED BY <2>1, RestStep
<1>6. o \o Rest(Parts(c), 0) \in Seq(Byte)
  BY <1>5, ConcatProperties
<1>7. c.op # "dup2" => Noise(c, g) \o (o \o Rest(Parts(c), 0)) = o \o Rest(Parts(c), 0)
  <2>1. c.op # "dup2" => Noise(c, g) = <<>>
    BY DEF Noise
  <2> QED BY <1>6, <2>1, ConcatEmptySeq
<1>8. CASE c.op = "open"
  <2>1. Message(c, g) = o \o Rest(Parts(c), 0)
    BY <1>4, <1>8, OpenMessage DEF Message
  <2> QED BY <1>3, <1>4, <1>7, <1>8, <2>1
<1>9. CASE c.op = "write"
  <2>1. PICK d \in Seq(Byte), a \in Seq(Byte), b \in Seq(Byte) :
          d = c.data /\ a = Encode(c.args[1]) /\ b = Encode(c.args[2])
    BY <1>1, <1>9, Arguments
  <2>2. PICK e \in Seq(Byte) : e = a \o b
    BY ConcatProperties
  <2>3. Parts(c) = <<a, b, d>>
    BY <1>9, <2>1 DEF Parts
  <2>4. Rest(Parts(c), 0) = e \o d
    <3>1. Rest(<<a, b, d>>, 0) = a \o (b \o d)
      BY RestOfThree
    <3>2. (a \o b) \o d = a \o (b \o d)
      BY Associate
    <3> QED BY <2>2, <2>3, <3>1, <3>2
  <2>5. EncodeAll(c.args) = e
    BY <1>9, <2>1, <2>2, Arguments, EncodeAllShort
  <2>6. Message(c, g) = (o \o e) \o d
    BY <1>4, <1>9, <2>1, <2>5 DEF Message, r_write
  <2>7. (o \o e) \o d = o \o (e \o d)
    BY Associate
  <2>8. Message(c, g) = o \o Rest(Parts(c), 0)
    BY <2>4, <2>6, <2>7
  <2> QED BY <1>3, <1>4, <1>7, <1>9, <2>8
<1>10. c.op \in {"close", "read", "lseek", "dup2"} => EncodeAll(c.args) = Rest(Parts(c), 0)
  <2>1. ASSUME c.op = "close"
        PROVE  EncodeAll(c.args) = Rest(Parts(c), 0)
    <3>1. PICK a \in Seq(Byte) : a = Encode(c.args[1])
      BY <1>1, <2>1, Arguments
    <3>2. Parts(c) = <<a>>
      BY <2>1, <3>1 DEF Parts
    <3>3. Rest(<<a>>, 0) = a
      BY RestOfOne
    <3>4. EncodeAll(c.args) = a
      BY <2>1, <3>1, Arguments, EncodeAllShort
    <3> QED BY <3>2, <3>3, <3>4
  <2>2. ASSUME c.op \in {"read", "dup2"}
        PROVE  EncodeAll(c.args) = Rest(Parts(c), 0)
    <3>1. PICK a \in Seq(Byte), b \in Seq(Byte) : a = Encode(c.args[1]) /\ b = Encode(c.args[2])
      BY <1>1, <2>2, Arguments
    <3>2. Parts(c) = <<a, b>>
      BY <2>2, <3>1 DEF Parts
    <3>3. Rest(<<a, b>>, 0) = a \o b
      BY RestOfTwo
    <3>4. EncodeAll(c.args) = a \o b
      BY <2>2, <3>1, Arguments, EncodeAllShort
    <3> QED BY <3>2, <3>3, <3>4
  <2>3. ASSUME c.op = "lseek"
        PROVE  EncodeAll(c.args) = Rest(Parts(c), 0)
    <3>1. PICK a \in Seq(Byte), b \in Seq(Byte), d \in Seq(Byte) :
            a = Encode(c.args[1]) /\ b = Encode(c.args[2]) /\ d = Encode(c.args[3])
      <4>1. /\ Encode(c.args[1]) \in Seq(Byte) /\ Encode(c.args[2]) \in Seq(Byte)
            /\ Encode(c.args[3]) \in Seq(Byte)
        BY <2>3, Arguments, EncodeType
      <4> QED BY <4>1
    <3>2. Parts(c) = <<a, b, d>>
      BY <2>3, <3>1 DEF Parts
    <3>3. Rest(<<a, b, d>>, 0) = a \o (b \o d)
      BY RestOfThree
    <3>4. EncodeAll(c.args) = (a \o b) \o d
      BY <2>3, <3>1, Arguments, EncodeAllShort
    <3>5. (a \o b) \o d = a \o (b \o d)
      BY Associate
    <3> QED BY <3>2, <3>3, <3>4, <3>5
  <2> QED BY <2>1, <2>2, <2>3
<1>11. CASE c.op \in {"close", "read", "lseek"}
  <2>1. Message(c, g) = o \o EncodeAll(c.args)
    BY <1>4, <1>11 DEF Message, r_close, r_read, r_lseek
  <2> QED BY <1>3, <1>4, <1>7, <1>10, <1>11, <2>1
<1>12. CASE c.op = "pipe"
  <2>1. Message(c, g) = o
    BY <1>4, <1>12 DEF Message, r_pipe
  <2>2. Rest(Parts(c), 0) = <<>>
    <3>1. Len(Fields[Opcode(c.op)]) = 0
      BY <1>12, Opcodes DEF Fields, c_pipe
    <3> QED BY <3>1, PartsType, RestStep
  <2>3. o \o <<>> = o
    BY ConcatEmptySeq
  <2> QED BY <1>3, <1>4, <1>7, <1>12, <2>1, <2>2, <2>3
<1>13. CASE c.op = "dup2"
  <2>1. PICK z \in Seq(Byte) : z = [i \in 1..9 |-> g]
    <3>1. PICK b \in Byte : b = g
      BY RpcSessionAssumption
    <3>2. [i \in 1..9 |-> b] \in Seq(Byte)
      OBVIOUS
    <3> QED BY <3>1, <3>2
  <2>2. PICK e \in Seq(Byte) : e = EncodeAll(c.args) /\ e = Rest(Parts(c), 0)
    BY <1>5, <1>10, <1>13
  <2>3. Message(c, g) = (z \o o) \o e
    BY <1>4, <1>13, <2>1, <2>2 DEF Message, r_dup2
  <2>4. Noise(c, g) = z
    BY <1>13, <2>1 DEF Noise
  <2> QED BY <1>3, <1>4, <1>13, <2>2, <2>3, <2>4, ConcatAssociative
<1> QED BY <1>2, <1>8, <1>9, <1>11, <1>12, <1>13

--------------------------------------------------------------------------------
(* The handlers' reads. *)
Kinds == {"int", "length", "path", "data"}

(* What a handler has made of the first k fields: so many ints, and the data or
   not yet. *)
IntsRead(t, k) == IF (t = 1 /\ k >= 2) \/ (t = 4 /\ k = 3) THEN k - 1 ELSE k
DataRead(t, k) == (t = 1 /\ k >= 2) \/ (t = 4 /\ k = 3)

(* The child has read the first k fields of its opcode. *)
AtField(k) ==
  /\ spc = "handler" /\ type \in 1..7 /\ k \in 0..Len(Fields[type])
  /\ todo = SubSeq(Fields[type], k + 1, Len(Fields[type]))
  /\ ints \in Seq(Int) /\ Len(ints) = IntsRead(type, k)

LEMMA FieldsOf ==
  /\ Fields[1] = <<"length", "path", "int", "int">> /\ Len(Fields[1]) = 4
  /\ Fields[2] = <<"int">> /\ Len(Fields[2]) = 1
  /\ Fields[3] = <<"int", "int">> /\ Len(Fields[3]) = 2
  /\ Fields[4] = <<"int", "int", "data">> /\ Len(Fields[4]) = 3
  /\ Fields[5] = <<"int", "int", "int">> /\ Len(Fields[5]) = 3
  /\ Fields[6] = <<>> /\ Len(Fields[6]) = 0
  /\ Fields[7] = <<"int", "int">> /\ Len(Fields[7]) = 2
  /\ \A t \in 1..7 : Fields[t] \in Seq(Kinds) /\ Len(Fields[t]) \in 0..4
<1>1. /\ Fields[1] = <<"length", "path", "int", "int">> /\ Fields[2] = <<"int">>
      /\ Fields[3] = <<"int", "int">> /\ Fields[4] = <<"int", "int", "data">>
      /\ Fields[5] = <<"int", "int", "int">> /\ Fields[6] = <<>> /\ Fields[7] = <<"int", "int">>
  BY DEF Fields, c_open, c_close, c_read, c_write, c_lseek, c_pipe, c_dup2
<1>2. /\ Fields[1] \in Seq(Kinds) /\ Fields[2] \in Seq(Kinds) /\ Fields[3] \in Seq(Kinds)
      /\ Fields[4] \in Seq(Kinds) /\ Fields[5] \in Seq(Kinds) /\ Fields[6] \in Seq(Kinds)
      /\ Fields[7] \in Seq(Kinds)
  BY <1>1 DEF Kinds
<1>3. /\ Len(Fields[1]) = 4 /\ Len(Fields[2]) = 1 /\ Len(Fields[3]) = 2 /\ Len(Fields[4]) = 3
      /\ Len(Fields[5]) = 3 /\ Len(Fields[6]) = 0 /\ Len(Fields[7]) = 2
  BY <1>1
<1>4. 1..7 = {1, 2, 3, 4, 5, 6, 7}
  OBVIOUS
<1>5. \A t \in 1..7 : Fields[t] \in Seq(Kinds)
  BY <1>2, <1>4
<1>6. \A t \in 1..7 : Len(Fields[t]) \in 0..4
  BY <1>3, <1>4
<1> QED BY <1>1, <1>3, <1>5, <1>6

LEMMA FieldLengths ==
  ASSUME NEW t \in 1..7
  PROVE  Fields[t] \in Seq(Kinds) /\ Len(Fields[t]) \in 0..4
<1>1. \A u \in 1..7 : Fields[u] \in Seq(Kinds) /\ Len(Fields[u]) \in 0..4
  BY FieldsOf
<1> QED BY <1>1

LEMMA FieldKinds ==
  /\ Len(Fields[1]) = 4 /\ Len(Fields[2]) = 1 /\ Len(Fields[3]) = 2 /\ Len(Fields[4]) = 3
  /\ Len(Fields[5]) = 3 /\ Len(Fields[6]) = 0 /\ Len(Fields[7]) = 2
  /\ Fields[1][1] = "length" /\ Fields[1][2] = "path" /\ Fields[1][3] = "int" /\ Fields[1][4] = "int"
  /\ Fields[2][1] = "int"
  /\ Fields[3][1] = "int" /\ Fields[3][2] = "int"
  /\ Fields[4][1] = "int" /\ Fields[4][2] = "int" /\ Fields[4][3] = "data"
  /\ Fields[5][1] = "int" /\ Fields[5][2] = "int" /\ Fields[5][3] = "int"
  /\ Fields[7][1] = "int" /\ Fields[7][2] = "int"
<1>1. /\ Fields[1] = <<"length", "path", "int", "int">> /\ Fields[2] = <<"int">>
      /\ Fields[3] = <<"int", "int">> /\ Fields[4] = <<"int", "int", "data">>
      /\ Fields[5] = <<"int", "int", "int">> /\ Fields[6] = <<>> /\ Fields[7] = <<"int", "int">>
  BY FieldsOf
<1> QED BY <1>1

LEMMA FieldTable ==
  ASSUME NEW t \in 1..7, NEW k \in 0..4, k < Len(Fields[t]),
         NEW f, f = Fields[t][k + 1]
  PROVE  /\ f \in Kinds /\ k + 1 \in 0..Len(Fields[t]) /\ k + 1 \in 0..4
         /\ IntsRead(t, k) \in 0..3
         /\ f \in {"int", "length"} =>
              IntsRead(t, k + 1) = IntsRead(t, k) + 1 /\ (DataRead(t, k + 1) <=> DataRead(t, k))
         /\ f \in {"path", "data"} =>
              IntsRead(t, k + 1) = IntsRead(t, k) /\ DataRead(t, k + 1) /\ ~DataRead(t, k)
         /\ f = "length" <=> t = 1 /\ k = 0
         /\ f = "path" <=> t = 1 /\ k = 1
         /\ f = "data" <=> t = 4 /\ k = 2
<1>1. k \in {0, 1, 2, 3} /\ t \in {1, 2, 3, 4, 5, 6, 7} /\ t # 6
  <2>1. PICK n \in 0..4 : n = Len(Fields[t])
    BY FieldLengths
  <2>2. k < n
    BY <2>1
  <2>3. k <= 3
    BY <2>2
  <2>4. t # 6
    <3>1. Len(Fields[6]) = 0
      BY FieldKinds
    <3>2. n # 0
      BY <2>2
    <3> QED BY <2>1, <3>1, <3>2
  <2> QED BY <2>3, <2>4
<1>2. k + 1 \in 0..Len(Fields[t]) /\ k + 1 \in 0..4
  <2>1. Len(Fields[t]) \in 0..4
    BY FieldLengths
  <2> QED BY <2>1
<1>3. CASE t = 1
  <2>1. f = (IF k = 0 THEN "length" ELSE IF k = 1 THEN "path" ELSE "int")
    BY <1>1, <1>3, FieldKinds
  <2> QED BY <1>1, <1>2, <1>3, <2>1 DEF IntsRead, DataRead, Kinds
<1>4. CASE t = 4
  <2>1. k \in {0, 1, 2} /\ f = (IF k = 2 THEN "data" ELSE "int")
    BY <1>1, <1>4, FieldKinds
  <2> QED BY <1>1, <1>2, <1>4, <2>1 DEF IntsRead, DataRead, Kinds
<1>5. CASE t \notin {1, 4}
  <2>1. f = "int"
    <3>1. t = 2 => f = "int"
      BY <1>1, FieldKinds
    <3>2. t = 3 => f = "int"
      BY <1>1, FieldKinds
    <3>3. t = 5 => f = "int"
      BY <1>1, FieldKinds
    <3>4. t = 7 => f = "int"
      BY <1>1, FieldKinds
    <3> QED BY <1>1, <1>5, <3>1, <3>2, <3>3, <3>4
  <2> QED BY <1>1, <1>2, <1>5, <2>1 DEF IntsRead, DataRead, Kinds
<1> QED BY <1>3, <1>4, <1>5

(* What is left of a sequence from its element k + 1 on. *)
LEMMA Remainder ==
  ASSUME NEW S, NEW s \in Seq(S), NEW k \in 0..Len(s)
  PROVE  /\ SubSeq(s, k + 1, Len(s)) \in Seq(S)
         /\ SubSeq(s, k + 1, Len(s)) = <<>> <=> k = Len(s)
         /\ k < Len(s) => /\ Head(SubSeq(s, k + 1, Len(s))) = s[k + 1]
                          /\ Tail(SubSeq(s, k + 1, Len(s))) = SubSeq(s, (k + 1) + 1, Len(s))
<1>1. Len(s) \in Nat /\ k \in Nat /\ \A i \in 1..Len(s) : s[i] \in S
  BY LenProperties, ElementOfSeq
<1> DEFINE n == Len(s)
           Q(j, u) == /\ u \in Seq(S) /\ Len(u) = n - j
                      /\ \A i \in 1..n - j : u[i] = s[j + i]
<1>2. ASSUME NEW j \in 0..n
      PROVE  Q(j, SubSeq(s, j + 1, n))
  <2>1. \A i \in j + 1 .. n : s[i] \in S
    BY <1>1
  <2>2. /\ SubSeq(s, j + 1, n) \in Seq(S)
        /\ Len(SubSeq(s, j + 1, n)) = IF j + 1 <= n THEN n - (j + 1) + 1 ELSE 0
        /\ \A i \in 1..n - (j + 1) + 1 : SubSeq(s, j + 1, n)[i] = s[(j + 1) + i - 1]
    BY <1>1, <2>1, SubSeqProperties
  <2> QED BY <1>1, <2>2
<1>3. PICK u : u = SubSeq(s, k + 1, n) /\ Q(k, u)
  <2>1. k \in 0..n
    OBVIOUS
  <2>2. Q(k, SubSeq(s, k + 1, n))
    BY <1>2, <2>1
  <2> QED BY <2>2
<1>4. u = <<>> <=> k = n
  <2>1. u \in Seq(S) /\ Len(u) = n - k
    BY <1>3
  <2>2. u = <<>> <=> Len(u) = 0
    BY <2>1, EmptySeq
  <2> QED BY <1>1, <2>1, <2>2
<1>5. CASE k < n
  <2>1. PICK w : w = SubSeq(s, (k + 1) + 1, n) /\ Q(k + 1, w)
    <3>1. k + 1 \in 0..n
      BY <1>1, <1>5
    <3> HIDE DEF Q
    <3> QED BY <1>2, <3>1
  <2>2. u # <<>> /\ Head(u) = s[k + 1]
    <3>1. Head(u) = u[1]
      BY <1>1, <1>3, <1>4, <1>5, HeadTailProperties
    <3>2. u[1] = s[k + 1]
      BY <1>1, <1>3, <1>5
    <3> QED BY <1>4, <1>5, <3>1, <3>2
  <2>3. /\ Tail(u) \in Seq(S) /\ Len(Tail(u)) = Len(u) - 1
        /\ \A i \in 1..Len(Tail(u)) : Tail(u)[i] = u[i + 1]
    BY <1>3, <2>2, HeadTailProperties
  <2>4. Len(Tail(u)) = Len(w)
    BY <1>1, <1>3, <1>5, <2>1, <2>3
  <2>5. \A i \in 1..Len(w) : Tail(u)[i] = w[i]
    <3> TAKE i \in 1..Len(w)
    <3>1. i \in Nat /\ i + 1 \in 1..n - k /\ k + (i + 1) = (k + 1) + i /\ i \in 1..n - (k + 1)
      BY <1>1, <1>5, <2>1
    <3> QED BY <1>3, <2>1, <2>3, <2>4, <3>1
  <2>6. Tail(u) = w
    BY <2>1, <2>3, <2>4, <2>5, SeqEqual
  <2> QED BY <1>1, <1>3, <1>4, <1>5, <2>1, <2>2, <2>6
<1> QED BY <1>1, <1>3, <1>4, <1>5

--------------------------------------------------------------------------------
(* What a read takes. *)
LEMMA TakenType ==
  ASSUME toServer \in Seq(Byte), NEW n \in Int, NEW b \in Taken(n)
  PROVE  /\ b \in Seq(Byte) /\ Len(b) \in Nat
         /\ Len(b) <= Len(toServer)
         /\ b = <<>> \/ Len(b) <= n
         /\ toServer = <<>> => b = <<>> /\ (n <= 0 \/ Gone)
         /\ Drop(b) => toServer' \in Seq(Byte)
         /\ Drop(b) /\ b = <<>> => toServer' = toServer
<1>1. Len(toServer) \in Nat /\ \A i \in 1..Len(toServer) : toServer[i] \in Byte
  BY LenProperties, ElementOfSeq
<1>2. ASSUME NEW m \in Int, m <= Len(toServer)
      PROVE  SubSeq(toServer, m + 1, Len(toServer)) \in Seq(Byte) \/ m < 0
  <2>1. ~(m < 0) => \A i \in m + 1 .. Len(toServer) : toServer[i] \in Byte
    BY <1>1
  <2> QED BY <1>1, <2>1, SubSeqProperties
<1>3. SubSeq(toServer, 1, Len(toServer)) = toServer
  <2>1. /\ SubSeq(toServer, 1, Len(toServer)) \in Seq(Byte)
        /\ Len(SubSeq(toServer, 1, Len(toServer))) = IF 1 <= Len(toServer) THEN Len(toServer) - 1 + 1 ELSE 0
        /\ \A i \in 1..Len(toServer) - 1 + 1 : SubSeq(toServer, 1, Len(toServer))[i] = toServer[1 + i - 1]
    BY <1>1, SubSeqProperties
  <2>2. Len(SubSeq(toServer, 1, Len(toServer))) = Len(toServer)
    BY <1>1, <2>1
  <2>3. \A i \in 1..Len(toServer) : SubSeq(toServer, 1, Len(toServer))[i] = toServer[i]
    BY <1>1, <2>1
  <2> QED BY <2>1, <2>2, <2>3, SeqEqual
<1>4. <<>> \in Seq(Byte) /\ Len(<<>>) = 0
  BY EmptySeq
<1>5. ASSUME b \in Seq(Byte), Len(b) \in Nat, Len(b) <= Len(toServer)
      PROVE  /\ Drop(b) => toServer' \in Seq(Byte)
             /\ Drop(b) /\ b = <<>> => toServer' = toServer
  <2>1. SubSeq(toServer, Len(b) + 1, Len(toServer)) \in Seq(Byte)
    BY <1>2, <1>5
  <2>2. b = <<>> => SubSeq(toServer, Len(b) + 1, Len(toServer)) = toServer
    BY <1>3, <1>4
  <2> QED BY <2>1, <2>2 DEF Drop
<1>6. CASE b = <<>>
  <2>1. toServer = <<>> => n <= 0 \/ Gone
    BY DEF Taken
  <2> QED BY <1>1, <1>4, <1>5, <1>6, <2>1
<1>7. CASE b # <<>>
  <2> DEFINE m == IF n < Len(toServer) THEN n ELSE Len(toServer)
  <2>1. n > 0 /\ toServer # <<>> /\ b = SubSeq(toServer, 1, m)
    BY <1>7 DEF Taken
  <2>2. m \in 1..Len(toServer) /\ m <= n
    <3>1. Len(toServer) # 0
      BY <2>1, EmptySeq
    <3> QED BY <1>1, <2>1, <3>1
  <2>3. b \in Seq(Byte) /\ Len(b) = m
    <3>1. \A i \in 1..m : toServer[i] \in Byte
      BY <1>1, <2>2
    <3>2. /\ SubSeq(toServer, 1, m) \in Seq(Byte)
          /\ Len(SubSeq(toServer, 1, m)) = IF 1 <= m THEN m - 1 + 1 ELSE 0
      BY <2>2, <3>1, SubSeqProperties
    <3> QED BY <2>1, <2>2, <3>2
  <2>4. Len(b) \in Nat /\ Len(b) <= Len(toServer) /\ Len(b) <= n
    BY <1>1, <2>2, <2>3
  <2> QED BY <1>5, <2>1, <2>3, <2>4
<1> QED BY <1>6, <1>7

LEMMA Lengths ==
  ASSUME NEW a \in Seq(Byte), NEW b \in Seq(Byte)
  PROVE  a \o b \in Seq(Byte) /\ Len(a \o b) = Len(a) + Len(b) /\ Len(a) \in Nat /\ Len(b) \in Nat
BY ConcatProperties, LenProperties

LEMMA FrontType ==
  ASSUME NEW s \in Seq(Byte), NEW n \in Nat, n <= Len(s)
  PROVE  SubSeq(s, 1, n) \in Seq(Byte) /\ Len(SubSeq(s, 1, n)) = n
<1>1. Len(s) \in Nat /\ \A i \in 1..Len(s) : s[i] \in Byte
  BY LenProperties, ElementOfSeq
<1>2. \A i \in 1..n : s[i] \in Byte
  BY <1>1
<1>3. /\ SubSeq(s, 1, n) \in Seq(Byte)
      /\ Len(SubSeq(s, 1, n)) = IF 1 <= n THEN n - 1 + 1 ELSE 0
  BY <1>2, SubSeqProperties
<1> QED BY <1>3

LEMMA OverlayType ==
  ASSUME NEW b \in Seq(Byte), tempbuff \in Word
  PROVE  Overlay(b) \in Word
<1>1. \A i \in 1..4 : (IF i <= Len(b) THEN b[i] ELSE tempbuff[i]) \in Byte
  <2>1. Len(b) \in Nat /\ \A i \in 1..Len(b) : b[i] \in Byte
    BY LenProperties, ElementOfSeq
  <2>2. \A i \in 1..4 : tempbuff[i] \in Byte
    BY DEF Word
  <2> QED BY <2>1, <2>2
<1> QED BY <1>1 DEF Overlay, Word

--------------------------------------------------------------------------------
(* What a handler asks of the system, and what comes of it. *)
CallRecord == [op : ToSet(Ops), args : Seq(Int), data : Seq(Byte)]
WellFormed(c) == c \in CallRecord /\ Len(c.args) = Arity[c.op]

LEMMA CallsWellFormed ==
  ASSUME NEW c \in Calls
  PROVE  WellFormed(c)
BY RpcSessionAssumption DEF WellFormed, CallRecord

LEMMA OutcomesType ==
  ASSUME NEW c, WellFormed(c), NEW o \in Outcomes(c)
  PROVE  /\ o = [ret |-> o.ret, out |-> o.out] /\ o.ret \in Int /\ o.out \in Seq(Int)
         /\ c.op = "read" => /\ o.ret >= -1 /\ o.out \in Seq(Byte)
                             /\ Len(o.out) = IF o.ret = -1 THEN 0 ELSE o.ret
         /\ c.op = "pipe" => Len(o.out) = 2 /\ o.out[1] \in Int /\ o.out[2] \in Int
         /\ c.op \notin {"read", "pipe"} => o.out = <<>>
<1>0. c.op \in {"open", "close", "read", "write", "lseek", "pipe", "dup2"} /\ c.args \in Seq(Int)
  BY Opcodes DEF WellFormed, CallRecord
<1>1. <<>> \in Seq(Int) /\ <<>> \in Seq(Byte) /\ Len(<<>>) = 0
  BY EmptySeq
<1>2. CASE o \in Failures(c)
  <2>1. CASE c.op = "pipe"
    <3>1. PICK g \in Garbage : o = [ret |-> -1, out |-> <<g, g>>]
      BY <1>2, <2>1 DEF Failures
    <3>2. PICK h \in Int : h = g
      BY RpcSessionAssumption DEF Byte
    <3>3. <<h, h>> \in Seq(Int) /\ Len(<<h, h>>) = 2
      OBVIOUS
    <3> QED BY <2>1, <3>1, <3>2, <3>3
  <2>2. CASE c.op # "pipe"
    <3>1. o = [ret |-> -1, out |-> <<>>]
      BY <1>2, <2>2 DEF Failures
    <3> QED BY <1>1, <2>2, <3>1
  <2> QED BY <2>1, <2>2
<1>3. CASE o \in Successes(c)
  <2>1. CASE c.op = "read"
    <3>1. PICK n \in 0..c.args[2] : o = [ret |-> n, out |-> [i \in 1..n |-> i % BASE]]
      BY <1>3, <2>1 DEF Successes
    <3>2. Len(c.args) = 2
      BY <2>1 DEF WellFormed, Arity
    <3>3. c.args[2] \in Int
      BY <1>0, <3>2, ElementOfSeq
    <3>4. n \in Nat
      BY <3>1, <3>3
    <3>5. \A i \in 1..n : i % BASE \in Byte /\ i % BASE \in Int
      BY <3>4, ByteArithmetic DEF Byte
    <3>6. [i \in 1..n |-> i % BASE] \in Seq(Byte) /\ Len([i \in 1..n |-> i % BASE]) = n
      BY <3>4, <3>5
    <3>7. [i \in 1..n |-> i % BASE] \in Seq(Int)
      BY <3>4, <3>5
    <3>8. o.ret = n /\ o.out = [i \in 1..n |-> i % BASE] /\ o = [ret |-> o.ret, out |-> o.out]
      BY <3>1
    <3>9. n \in Int /\ n >= -1 /\ n # -1
      BY <3>4
    <3> QED BY <2>1, <3>6, <3>7, <3>8, <3>9
  <2>2. CASE c.op = "write"
    <3>1. o = [ret |-> c.args[2], out |-> <<>>]
      BY <1>3, <2>2 DEF Successes
    <3>2. Len(c.args) = 2
      BY <2>2 DEF WellFormed, Arity
    <3>3. c.args[2] \in Int
      BY <1>0, <3>2, ElementOfSeq
    <3> QED BY <1>1, <2>2, <3>1, <3>3
  <2>3. CASE c.op = "pipe"
    <3>1. o = [ret |-> 0, out |-> <<5, 6>>]
      BY <1>3, <2>3 DEF Successes
    <3>2. <<5, 6>> \in Seq(Int) /\ Len(<<5, 6>>) = 2
      OBVIOUS
    <3> QED BY <2>3, <3>1, <3>2
  <2>4. CASE c.op \in {"open", "close", "lseek", "dup2"}
    <3>1. PICK n \in Int : o = [ret |-> n, out |-> <<>>]
      <4>1. HALF + 1 \in Int
        BY ByteArithmetic
      <4> QED BY <1>3, <2>4, <4>1 DEF Successes
    <3> QED BY <1>1, <2>4, <3>1
  <2> QED BY <1>0, <2>1, <2>2, <2>3, <2>4
<1> QED BY <1>2, <1>3 DEF Outcomes

(* The reply to a call is a whole number of bytes, and never empty. *)
ReplyLength(c, o) == CASE c.op = "read" -> 8 + o.ret [] c.op = "pipe" -> 16 [] OTHER -> 8
LEMMA ReplyType ==
  ASSUME NEW c, WellFormed(c), NEW o \in Outcomes(c), NEW e \in Int
  PROVE  /\ Reply(c, o, e) \in Seq(Byte) /\ Len(Reply(c, o, e)) = ReplyLength(c, o)
         /\ ReplyLength(c, o) \in Nat /\ ReplyLength(c, o) > 0
<1> DEFINE h == Encode(o.ret) \o Encode(e)
<1>1. o.ret \in Int /\ h \in Seq(Byte) /\ Len(h) = 8
  <2>1. o.ret \in Int
    BY OutcomesType
  <2>2. PICK a \in Seq(Byte), b \in Seq(Byte) : /\ a = Encode(o.ret) /\ b = Encode(e)
                                                /\ Len(a) = 4 /\ Len(b) = 4
    BY <2>1, EncodeType
  <2>3. a \o b \in Seq(Byte) /\ Len(a \o b) = 8
    <3>1. a \o b \in Seq(Byte) /\ Len(a \o b) = Len(a) + Len(b)
      BY Lengths
    <3> QED BY <2>2, <3>1
  <2> QED BY <2>1, <2>2, <2>3
<1>2. CASE c.op = "read"
  <2>1. PICK d \in Seq(Byte) : d = o.out /\ Len(d) = IF o.ret = -1 THEN 0 ELSE o.ret
    BY <1>2, OutcomesType
  <2>2. o.ret >= -1 /\ 8 + o.ret \in Nat /\ 8 + o.ret > 0
    BY <1>1, <1>2, OutcomesType
  <2>3. PICK s \in Seq(Byte) : s = h \o o.out /\ Len(s) = 8 + Len(d)
    <3>1. PICK k \in Seq(Byte) : k = h /\ Len(k) = 8
      BY <1>1
    <3>2. k \o d \in Seq(Byte) /\ Len(k \o d) = Len(k) + Len(d)
      BY Lengths
    <3> HIDE DEF h
    <3> QED BY <2>1, <3>1, <3>2
  <2>4. 8 + o.ret <= Len(s)
    BY <1>1, <2>1, <2>2, <2>3
  <2>5. PICK n \in Nat : n = 8 + o.ret /\ n <= Len(s)
    BY <2>2, <2>4
  <2>6. SubSeq(s, 1, 8 + o.ret) \in Seq(Byte) /\ Len(SubSeq(s, 1, 8 + o.ret)) = 8 + o.ret
    <3>1. SubSeq(s, 1, n) \in Seq(Byte) /\ Len(SubSeq(s, 1, n)) = n
      BY <2>5, FrontType
    <3> QED BY <2>5, <3>1
  <2>7. Reply(c, o, e) = SubSeq(s, 1, 8 + o.ret)
    BY <1>2, <2>3 DEF Reply
  <2> QED BY <1>2, <2>2, <2>6, <2>7 DEF ReplyLength
<1>3. CASE c.op = "pipe"
  <2>1. Len(o.out) = 2 /\ o.out[1] \in Int /\ o.out[2] \in Int /\ o.out \in Seq(Int)
    BY <1>3, OutcomesType
  <2>2. PICK x \in Int, y \in Int : o.out = <<x, y>>
    BY <2>1
  <2>3. PICK a \in Seq(Byte), b \in Seq(Byte) : /\ a = Encode(x) /\ b = Encode(y)
                                                /\ Len(a) = 4 /\ Len(b) = 4
    BY <2>2, EncodeType
  <2>4. EncodeAll(o.out) = a \o b
    <3>1. EncodeAll(o.out) = FlattenSeq(<<a, b>>)
      <4>1. [i \in DOMAIN <<x, y>> |-> Encode(<<x, y>>[i])] = <<Encode(x), Encode(y)>>
        OBVIOUS
      <4> QED BY <2>2, <2>3, <4>1 DEF EncodeAll
    <3>2. FlattenSeq(<<a, b>>) = a \o b
      BY FlattenTwo
    <3> QED BY <3>1, <3>2
  <2>5. a \o b \in Seq(Byte) /\ Len(a \o b) = 8
    <3>1. a \o b \in Seq(Byte) /\ Len(a \o b) = Len(a) + Len(b)
      BY Lengths
    <3> QED BY <2>3, <3>1
  <2>6. PICK d \in Seq(Byte) : d = EncodeAll(o.out) /\ Len(d) = 8
    BY <2>4, <2>5
  <2>7. h \o d \in Seq(Byte) /\ Len(h \o d) = 16
    <3>1. PICK k \in Seq(Byte) : k = h /\ Len(k) = 8
      BY <1>1
    <3>2. k \o d \in Seq(Byte) /\ Len(k \o d) = Len(k) + Len(d)
      BY Lengths
    <3> HIDE DEF h
    <3> QED BY <2>6, <3>1, <3>2
  <2>8. Reply(c, o, e) = h \o d
    BY <1>3, <2>6 DEF Reply
  <2> QED BY <1>3, <2>7, <2>8 DEF ReplyLength
<1>4. CASE c.op \notin {"read", "pipe"}
  <2>1. Reply(c, o, e) = h
    BY <1>4 DEF Reply
  <2> QED BY <1>1, <1>4, <2>1 DEF ReplyLength
<1> QED BY <1>2, <1>3, <1>4

(* What a stub makes of a reply. *)
ResultRecord == [ret : Int, err : Int, out : Seq(Int)]
LEMMA DecodedType ==
  ASSUME NEW c, NEW r \in Seq(Byte), NEW g \in Garbage
  PROVE  Decoded(c, r, g) \in ResultRecord
<1> DEFINE at(i) == IF i <= Len(r) THEN r[i] ELSE g
           int(i) == Decode([k \in 1..4 |-> at(4 * i + k)])
<1>1. \A i \in Nat : i > 0 => at(i) \in Byte
  <2>1. Len(r) \in Nat /\ \A i \in 1..Len(r) : r[i] \in Byte
    BY LenProperties, ElementOfSeq
  <2>2. g \in Byte
    BY RpcSessionAssumption
  <2> QED BY <2>1, <2>2
<1>2. \A i \in Nat : int(i) \in Int
  <2> TAKE i \in Nat
  <2>1. \A k \in 1..4 : 4 * i + k \in Nat /\ 4 * i + k > 0
    OBVIOUS
  <2>2. \A k \in 1..4 : at(4 * i + k) \in Byte
    <3> HIDE DEF at
    <3> QED BY <1>1, <2>1
  <2>3. [k \in 1..4 |-> at(4 * i + k)] \in Word
    <3> HIDE DEF at
    <3> QED BY <2>2 DEF Word
  <2> QED BY <2>3, DecodeType
<1> DEFINE out == CASE c.op = "read" -> [k \in 1..int(0) |-> at(8 + k)]
                    [] c.op = "pipe" -> <<int(2), int(3)>>
                    [] OTHER -> <<>>
<1>3. out \in Seq(Int)
  <2>1. CASE c.op = "read"
    <3>1. PICK n \in Int : n = int(0)
      BY <1>2
    <3>2. [k \in 1..n |-> at(8 + k)] \in Seq(Int)
      <4>1. \A k \in 1..n : at(8 + k) \in Int
        <5>1. \A k \in 1..n : at(8 + k) \in Byte
          <6>1. \A k \in 1..n : 8 + k \in Nat /\ 8 + k > 0
            OBVIOUS
          <6> HIDE DEF at
          <6> QED BY <1>1, <6>1
        <5>2. \A b \in Byte : b \in Int
          BY DEF Byte
        <5> HIDE DEF at
        <5> QED BY <5>1, <5>2
      <4>2. CASE n >= 0
        <5> HIDE DEF at
        <5> QED BY <4>1, <4>2
      <4>3. CASE n < 0
        <5>1. 1..n = 1..0
          BY <4>3
        <5> HIDE DEF at
        <5>2. [k \in 1..0 |-> at(8 + k)] \in Seq(Int)
          OBVIOUS
        <5> QED BY <5>1, <5>2
      <4> QED BY <4>2, <4>3
    <3>3. out = [k \in 1..n |-> at(8 + k)]
      <4> HIDE DEF int, at
      <4> QED BY <2>1, <3>1
    <3> QED BY <3>2, <3>3
  <2>2. CASE c.op = "pipe"
    <3>1. PICK x \in Int, y \in Int : x = int(2) /\ y = int(3)
      BY <1>2
    <3>2. <<x, y>> \in Seq(Int)
      OBVIOUS
    <3> HIDE DEF int
    <3> QED BY <2>2, <3>1, <3>2
  <2>3. CASE c.op \notin {"read", "pipe"}
    <3>1. out = <<>>
      BY <2>3
    <3>2. <<>> \in Seq(Int)
      BY EmptySeq
    <3> QED BY <3>1, <3>2
  <2> QED BY <2>1, <2>2, <2>3
<1>4. Decoded(c, r, g) = [ret |-> int(0), err |-> int(1), out |-> out]
  BY DEF Decoded
<1>5. int(0) \in Int /\ int(1) \in Int
  BY <1>2
<1> HIDE DEF int, out
<1> QED BY <1>3, <1>4, <1>5 DEF ResultRecord

--------------------------------------------------------------------------------
(* The types, and what a handler's buffers hold at each of its reads. *)
Entry == [call : CallRecord, ret : Int, err : Int, out : Seq(Int)]
TInv ==
  /\ TypeOK
  /\ ints \in Seq(Int) /\ bytes \in Seq(Byte)
  /\ log \in Seq(Entry) /\ returns \in Seq(ResultRecord)
  /\ spc = "handler" => \E k \in 0..4 : AtField(k)
  /\ cpc = "wait" => Len(returns) < Len(calls)

LEMMA Appended ==
  ASSUME NEW S, NEW s \in Seq(S), NEW e \in S
  PROVE  /\ Append(s, e) \in Seq(S) /\ Len(Append(s, e)) = Len(s) + 1 /\ Len(s) \in Nat
         /\ Append(s, e) # <<>> /\ Append(s, e)[Len(s) + 1] = e /\ Last(Append(s, e)) = e
         /\ \A i \in 1..Len(s) : Append(s, e)[i] = s[i]
<1>1. /\ Append(s, e) \in Seq(S) /\ Len(Append(s, e)) = Len(s) + 1 /\ Len(s) \in Nat
      /\ Append(s, e)[Len(s) + 1] = e
      /\ \A i \in 1..Len(s) : Append(s, e)[i] = s[i]
  BY AppendProperties, LenProperties
<1>2. Append(s, e) # <<>>
  BY <1>1, EmptySeq
<1>3. Last(Append(s, e)) = e
  BY <1>1 DEF Last
<1> QED BY <1>1, <1>2, <1>3

LEMMA WholeSeq ==
  ASSUME NEW S, NEW s \in Seq(S)
  PROVE  SubSeq(s, 1, Len(s)) = s
<1>1. Len(s) \in Nat /\ \A i \in 1..Len(s) : s[i] \in S
  BY LenProperties, ElementOfSeq
<1>2. /\ SubSeq(s, 1, Len(s)) \in Seq(S)
      /\ Len(SubSeq(s, 1, Len(s))) = IF 1 <= Len(s) THEN Len(s) - 1 + 1 ELSE 0
      /\ \A i \in 1..Len(s) - 1 + 1 : SubSeq(s, 1, Len(s))[i] = s[1 + i - 1]
  BY <1>1, SubSeqProperties
<1>3. Len(SubSeq(s, 1, Len(s))) = Len(s)
  BY <1>1, <1>2
<1>4. \A i \in 1..Len(s) : SubSeq(s, 1, Len(s))[i] = s[i]
  BY <1>1, <1>2
<1> QED BY <1>2, <1>3, <1>4, SeqEqual

LEMMA NothingRead ==
  ASSUME spc' = "handler", type' \in 1..7, todo' = Fields[type'], ints' = <<>>
  PROVE  AtField(0)'
<1>1. Fields[type'] \in Seq(Kinds) /\ Len(Fields[type']) \in 0..4
  BY FieldLengths
<1>2. SubSeq(Fields[type'], 0 + 1, Len(Fields[type'])) = Fields[type']
  BY <1>1, WholeSeq
<1>3. ints' \in Seq(Int) /\ Len(ints') = 0
  BY EmptySeq
<1>4. IntsRead(type', 0) = 0
  BY DEF IntsRead
<1>5. 0 \in 0..Len(Fields[type'])
  BY <1>1
<1> QED BY <1>2, <1>3, <1>4, <1>5 DEF AtField

(* Where a read of a handler stands, and where it leaves the handler. *)
LEMMA FieldStep ==
  ASSUME NEW k \in 0..4, AtField(k), todo # <<>>
  PROVE  /\ k < Len(Fields[type]) /\ Head(todo) = Fields[type][k + 1] /\ k + 1 \in 0..4
         /\ Tail(todo) = SubSeq(Fields[type], (k + 1) + 1, Len(Fields[type]))
         /\ Wanted(Head(todo)) \in Int /\ Head(todo) \in Kinds
<1>1. Fields[type] \in Seq(Kinds) /\ k \in 0..Len(Fields[type]) /\ type \in 1..7
  BY FieldLengths DEF AtField
<1>2. todo = SubSeq(Fields[type], k + 1, Len(Fields[type]))
  BY DEF AtField
<1>3. k # Len(Fields[type])
  BY <1>1, <1>2, Remainder
<1>4. k < Len(Fields[type])
  <2>1. Len(Fields[type]) \in Nat
    BY <1>1, LenProperties
  <2> QED BY <1>1, <1>3, <2>1
<1>5. Head(todo) = Fields[type][k + 1] /\ Tail(todo) = SubSeq(Fields[type], (k + 1) + 1, Len(Fields[type]))
  BY <1>1, <1>2, <1>4, Remainder
<1>6. Head(todo) \in Kinds /\ k + 1 \in 0..4
  BY <1>1, <1>4, <1>5, FieldTable
<1>7. Wanted(Head(todo)) \in Int
  <2>1. ints \in Seq(Int) /\ Len(ints) = IntsRead(type, k)
    BY DEF AtField
  <2>2. Head(todo) = "path" => type = 1 /\ k = 1
    BY <1>1, <1>4, <1>5, FieldTable
  <2>3. Head(todo) = "data" => type = 4 /\ k = 2
    BY <1>1, <1>4, <1>5, FieldTable
  <2>4. Head(todo) = "path" => ints[1] \in Int
    <3>1. Head(todo) = "path" => Len(ints) = 1
      BY <2>1, <2>2 DEF IntsRead
    <3> QED BY <2>1, <3>1, ElementOfSeq
  <2>5. Head(todo) = "data" => ints[2] \in Int
    <3>1. Head(todo) = "data" => Len(ints) = 2
      BY <2>1, <2>3 DEF IntsRead
    <3> QED BY <2>1, <3>1, ElementOfSeq
  <2> QED BY <1>6, <2>4, <2>5 DEF Wanted, Kinds
<1> QED BY <1>4, <1>5, <1>6, <1>7

(* What a read leaves in the handler's memory is bytes, and the bytes it read if
   they leave room for a NUL. *)
LEMMA HeldType ==
  ASSUME NEW b \in Seq(Byte)
  PROVE  /\ \A h \in Held(b) : h \in Seq(Byte)
         /\ ~(Head(todo) = "path" /\ Len(b) = ints[1] /\ Len(b) \in Snug) => Held(b) = {b}
<1>1. \A g \in Byte \ {0} : Append(b, g) \in Seq(Byte)
  BY Appended
<1> QED BY <1>1 DEF Held

LEMMA FieldRead ==
  ASSUME NEW k \in 0..4, AtField(k), todo # <<>>, tempbuff \in Word, bytes \in Seq(Byte),
         toServer \in Seq(Byte), ReadField
  PROVE  /\ AtField(k + 1)' /\ ints' \in Seq(Int) /\ bytes' \in Seq(Byte)
         /\ tempbuff' \in Word /\ toServer' \in Seq(Byte)
<1> DEFINE f == Head(todo)
<1>1. PICK b \in Taken(Wanted(f)) :
        /\ Drop(b)
        /\ \/ /\ f \in {"int", "length"}
              /\ tempbuff' = Overlay(b)
              /\ ints' = Append(ints, IF f = "int" THEN Decode(tempbuff') ELSE DecodeLength(tempbuff'))
              /\ UNCHANGED bytes
           \/ /\ f \in {"path", "data"}
              /\ bytes' \in Held(b)
              /\ UNCHANGED <<tempbuff, ints>>
  BY DEF ReadField
<1>2. /\ k < Len(Fields[type]) /\ f = Fields[type][k + 1] /\ k + 1 \in 0..4
      /\ Tail(todo) = SubSeq(Fields[type], (k + 1) + 1, Len(Fields[type]))
      /\ Wanted(f) \in Int
  BY FieldStep
<1>3. type \in 1..7 /\ ints \in Seq(Int) /\ Len(ints) = IntsRead(type, k)
  BY DEF AtField
<1> HIDE DEF f
<1>4. b \in Seq(Byte) /\ toServer' \in Seq(Byte)
  BY <1>1, <1>2, TakenType
<1>5. /\ k + 1 \in 0..Len(Fields[type])
      /\ f \in {"int", "length"} => IntsRead(type, k + 1) = IntsRead(type, k) + 1
      /\ f \in {"path", "data"} => IntsRead(type, k + 1) = IntsRead(type, k)
  BY <1>2, <1>3, FieldTable
<1>6. todo' = SubSeq(Fields[type], (k + 1) + 1, Len(Fields[type])) /\ spc' = "handler" /\ type' = type
  BY <1>2 DEF ReadField
<1>7. /\ tempbuff' \in Word /\ bytes' \in Seq(Byte)
      /\ ints' \in Seq(Int) /\ Len(ints') = IntsRead(type, k + 1)
  <2>1. CASE f \in {"int", "length"}
    <3>1. tempbuff' = Overlay(b) /\ bytes' = bytes
      BY <1>1, <2>1
    <3>2. tempbuff' \in Word
      BY <1>4, <3>1, OverlayType
    <3>3. PICK x \in Int : ints' = Append(ints, x)
      <4>1. Decode(tempbuff') \in Int /\ DecodeLength(tempbuff') \in Int
        BY <3>2, DecodeType
      <4> QED BY <1>1, <2>1, <4>1
    <3>4. ints' \in Seq(Int) /\ Len(ints') = Len(ints) + 1
      BY <1>3, <3>3, Appended
    <3> QED BY <1>3, <1>5, <2>1, <3>1, <3>2, <3>4
  <2>2. CASE f \in {"path", "data"}
    <3>1. bytes' \in Seq(Byte) /\ UNCHANGED <<tempbuff, ints>>
      BY <1>1, <1>4, <2>2, HeldType
    <3> QED BY <1>3, <1>5, <2>2, <3>1
  <2> QED BY <1>1, <2>1, <2>2
<1>8. AtField(k + 1)'
  BY <1>3, <1>5, <1>6, <1>7 DEF AtField
<1> QED BY <1>4, <1>7, <1>8

LEMMA TailOfThree ==
  ASSUME NEW s \in Seq(Int), Len(s) = 3
  PROVE  Tail(s) \in Seq(Int) /\ Len(Tail(s)) = 2 /\ Tail(s)[1] = s[2] /\ Tail(s)[2] = s[3]
<1>1. s # <<>>
  BY EmptySeq
<1> DEFINE t == Tail(s)
<1>2. t \in Seq(Int) /\ Len(t) = Len(s) - 1
  BY <1>1, HeadTailProperties
<1>3. \A i \in 1..Len(t) : t[i] = s[i + 1]
  BY <1>1, HeadTailProperties
<1> HIDE DEF t
<1>4. Len(t) = 2
  BY <1>2
<1>5. t[1] = s[1 + 1] /\ t[2] = s[2 + 1]
  BY <1>3, <1>4
<1> QED BY <1>2, <1>4, <1>5 DEF t

LEMMA RequestedType ==
  ASSUME NEW k \in 0..4, AtField(k), todo = <<>>, bytes \in Seq(Byte)
  PROVE  /\ WellFormed(Requested) /\ k = Len(Fields[type]) /\ Requested.op = Ops[type]
         /\ Requested.data = bytes /\ type \in 1..7
<1>1. /\ Fields[type] \in Seq(Kinds) /\ k \in 0..Len(Fields[type]) /\ type \in 1..7
      /\ todo = SubSeq(Fields[type], k + 1, Len(Fields[type]))
      /\ ints \in Seq(Int) /\ Len(ints) = IntsRead(type, k)
  BY FieldLengths DEF AtField
<1>2. k = Len(Fields[type])
  BY <1>1, Remainder
<1> DEFINE a == IF Ops[type] = "open" THEN Tail(ints) ELSE ints
<1>3. Requested = [op |-> Ops[type], args |-> a, data |-> bytes]
  BY DEF Requested
<1>4. Ops[type] \in ToSet(Ops)
  BY <1>1, Opcodes
<1>5. a \in Seq(Int) /\ Len(a) = Arity[Ops[type]]
  <2>1. CASE type = 1
    <3>1. Ops[type] = "open" /\ k = 4 /\ Len(ints) = 3
      BY <1>1, <1>2, <2>1, Opcodes, FieldKinds DEF IntsRead
    <3>2. Tail(ints) \in Seq(Int) /\ Len(Tail(ints)) = 2
      BY <1>1, <3>1, TailOfThree
    <3>3. Arity[Ops[type]] = 2
      BY <3>1 DEF Arity
    <3> QED BY <3>1, <3>2, <3>3
  <2>2. CASE type # 1
    <3>1. type \in {2, 3, 4, 5, 6, 7}
      BY <1>1, <2>2
    <3>2. Ops[type] # "open" /\ Len(ints) = (IF type = 4 THEN 2 ELSE k)
      <4>1. Ops[type] # "open"
        BY <3>1, Opcodes
      <4>2. type = 4 => k = 3
        BY <1>2, FieldKinds
      <4> QED BY <1>1, <3>1, <4>1, <4>2 DEF IntsRead
    <3>3. Arity[Ops[type]] = (IF type = 4 THEN 2 ELSE k)
      <4>1. CASE type = 2
        BY <1>2, <4>1, Opcodes, FieldKinds DEF Arity
      <4>2. CASE type = 3
        BY <1>2, <4>2, Opcodes, FieldKinds DEF Arity
      <4>3. CASE type = 4
        BY <4>3, Opcodes DEF Arity
      <4>4. CASE type = 5
        BY <1>2, <4>4, Opcodes, FieldKinds DEF Arity
      <4>5. CASE type = 6
        BY <1>2, <4>5, Opcodes, FieldKinds DEF Arity
      <4>6. CASE type = 7
        BY <1>2, <4>6, Opcodes, FieldKinds DEF Arity
      <4> QED BY <3>1, <4>1, <4>2, <4>3, <4>4, <4>5, <4>6
    <3> QED BY <1>1, <3>2, <3>3
  <2> QED BY <2>1, <2>2
<1> HIDE DEF a
<1>6. WellFormed(Requested)
  BY <1>3, <1>4, <1>5 DEF WellFormed, CallRecord
<1> QED BY <1>1, <1>2, <1>3, <1>6

LEMMA MessageType ==
  ASSUME NEW c \in Calls, NEW g \in Garbage
  PROVE  Message(c, g) \in Seq(Byte) /\ Noise(c, g) \in Seq(Byte)
<1>1. PICK z \in Seq(Byte) : z = Noise(c, g)
  <2>1. PICK b \in Byte : b = g
    BY RpcSessionAssumption
  <2>2. PICK n \in Nat : n = IF c.op = "dup2" THEN 9 ELSE 0
    OBVIOUS
  <2>3. [i \in 1..n |-> b] \in Seq(Byte)
    OBVIOUS
  <2> QED BY <2>1, <2>2, <2>3 DEF Noise
<1>2. PICK o \in Seq(Byte) : o = <<Opcode(c.op)>>
  BY MessageIsParts
<1>3. PICK r \in Seq(Byte) : r = Rest(Parts(c), 0)
  <2>1. PICK n \in 0..4 : Series(Parts(c), n)
    BY PartsType
  <2> QED BY <2>1, RestStep
<1>4. PICK m \in Seq(Byte) : m = o \o r
  BY Lengths
<1>5. z \o m \in Seq(Byte)
  BY Lengths
<1>6. Message(c, g) = Noise(c, g) \o (<<Opcode(c.op)>> \o Rest(Parts(c), 0))
  BY MessageIsParts
<1> QED BY <1>1, <1>2, <1>3, <1>4, <1>5, <1>6

(* The call a waiting client has made last. *)
LEMMA LastCall ==
  ASSUME calls \in Seq(Calls), Len(calls) # 0
  PROVE  /\ Last(calls) \in Calls /\ Last(calls) = calls[Len(calls)]
         /\ Len(calls) \in Nat /\ Len(calls) \in 1..Len(calls)
<1>1. Len(calls) \in Nat /\ Len(calls) \in 1..Len(calls)
  BY LenProperties
<1>2. Last(calls) = calls[Len(calls)]
  BY DEF Last
<1> QED BY <1>1, <1>2, ElementOfSeq

LEMMA InvokeTypes ==
  ASSUME TInv, NEW c \in Calls, Invoke(c)
  PROVE  TInv'
<1>1. /\ toServer \in Seq(Byte) /\ calls \in Seq(Calls) /\ Len(returns) <= Len(calls)
      /\ returns \in Seq(ResultRecord)
  BY DEF TInv, TypeOK
<1>2. toServer' \in Seq(Byte)
  <2>1. PICK g \in Garbage : toServer' = toServer \o Message(c, g)
    BY DEF Invoke
  <2>2. PICK m \in Seq(Byte) : m = Message(c, g)
    BY MessageType
  <2> QED BY <1>1, <2>1, <2>2, Lengths
<1>3. calls' \in Seq(Calls) /\ Len(calls') = Len(calls) + 1 /\ Len(calls) \in Nat
  BY <1>1, Appended DEF Invoke
<1>4. Len(returns) \in Nat
  BY <1>1, LenProperties
<1>5. /\ cpc' = "wait" /\ returns' = returns
      /\ UNCHANGED <<toClient, spc, type, todo, tempbuff, ints, bytes, overrun, errno, reset, log>>
  BY DEF Invoke, handler
<1>6. Len(returns') < Len(calls')
  BY <1>1, <1>3, <1>4, <1>5
<1>7. TypeOK'
  <2>1. Len(returns') <= Len(calls')
    BY <1>1, <1>3, <1>4, <1>5
  <2> QED BY <1>2, <1>3, <1>5, <2>1 DEF TInv, TypeOK
<1>8. spc' = "handler" => \E k \in 0..4 : AtField(k)'
  <2>1. \A k \in 0..4 : AtField(k) => AtField(k)'
    BY <1>5 DEF AtField
  <2> QED BY <1>5, <2>1 DEF TInv
<1> QED BY <1>5, <1>6, <1>7, <1>8 DEF TInv

LEMMA AskedType ==
  ASSUME NEW c \in Calls
  PROVE  Asked(c) \in Nat /\ Asked(c) > 0
<1>1. c.op = "read" => c.args[2] \in Int /\ c.args[2] >= 0
  BY CallShape, Arguments
<1> QED BY <1>1 DEF Asked

LEMMA ReceiveTypes ==
  ASSUME TInv, Receive
  PROVE  TInv'
<1>1. /\ toClient \in Seq(Byte) /\ calls \in Seq(Calls) /\ Len(returns) < Len(calls)
      /\ returns \in Seq(ResultRecord) /\ toClient # <<>>
  BY DEF TInv, TypeOK, Receive
<1>2. Len(returns) \in Nat /\ Len(calls) \in Nat /\ Len(toClient) \in Nat /\ Len(toClient) # 0
  BY <1>1, LenProperties, EmptySeq
<1>3. Last(calls) \in Calls
  BY <1>1, <1>2, LastCall
<1> DEFINE c == Last(calls)
           n == IF Asked(c) < Len(toClient) THEN Asked(c) ELSE Len(toClient)
<1>4. PICK g \in Garbage : /\ returns' = Append(returns, Decoded(c, SubSeq(toClient, 1, n), g))
                           /\ toClient' = SubSeq(toClient, n + 1, Len(toClient))
  BY DEF Receive
<1>5. n \in Nat /\ n <= Len(toClient)
  BY <1>2, <1>3, AskedType
<1> HIDE DEF n
<1>6. SubSeq(toClient, 1, n) \in Seq(Byte)
  BY <1>1, <1>5, FrontType
<1>7. returns' \in Seq(ResultRecord) /\ Len(returns') = Len(returns) + 1
  BY <1>1, <1>4, <1>6, DecodedType, Appended
<1>8. toClient' \in Seq(Byte)
  <2>1. n \in 0..Len(toClient)
    BY <1>2, <1>5
  <2> QED BY <1>1, <1>4, <2>1, Remainder
<1>9. /\ cpc' = "app"
      /\ UNCHANGED <<calls, toServer, spc, type, todo, tempbuff, ints, bytes, overrun, errno, reset, log>>
  BY DEF Receive, handler
<1>10. Len(returns') <= Len(calls')
  BY <1>1, <1>2, <1>7, <1>9
<1>11. TypeOK'
  BY <1>8, <1>9, <1>10 DEF TInv, TypeOK
<1>12. spc' = "handler" => \E k \in 0..4 : AtField(k)'
  <2>1. \A k \in 0..4 : AtField(k) => AtField(k)'
    BY <1>9 DEF AtField
  <2> QED BY <1>9, <2>1 DEF TInv
<1> QED BY <1>7, <1>9, <1>11, <1>12 DEF TInv

LEMMA LeaveTypes ==
  ASSUME TInv, End \/ Kill
  PROVE  TInv'
<1>1. toServer' \in Seq(Byte)
  <2>1. toServer \in Seq(Byte) /\ EOF \in Byte
    BY ByteArithmetic DEF TInv, TypeOK
  <2> QED BY <2>1, Appended DEF End, Kill
<1>2. /\ cpc' \in {"ended", "killed"} /\ reset' \in BOOLEAN
      /\ UNCHANGED <<calls, returns, toClient, spc, type, todo, tempbuff, ints, bytes, overrun, errno, log>>
  BY DEF End, Kill, handler, TInv, TypeOK
<1>3. TypeOK'
  BY <1>1, <1>2 DEF TInv, TypeOK
<1>4. spc' = "handler" => \E k \in 0..4 : AtField(k)'
  <2>1. \A k \in 0..4 : AtField(k) => AtField(k)'
    BY <1>2 DEF AtField
  <2> QED BY <1>2, <2>1 DEF TInv
<1> QED BY <1>2, <1>3, <1>4 DEF TInv

LEMMA ReadOpcodeTypes ==
  ASSUME TInv, ReadOpcode
  PROVE  TInv'
<1>1. toServer \in Seq(Byte) /\ type \in Byte /\ spc = "opcode"
  BY DEF TInv, TypeOK, ReadOpcode
<1> DEFINE T(b) == IF b = <<>> THEN type ELSE b[1]
<1>2. PICK b \in Taken(1) :
        /\ Drop(b) /\ type' = T(b)
        /\ IF T(b) \in 1..7
           THEN /\ spc' = "handler" /\ todo' = Fields[T(b)]
                /\ tempbuff' = Blank /\ ints' = <<>> /\ bytes' = <<>>
           ELSE /\ spc' = IF T(b) = EOF THEN "exited" ELSE "opcode"
                /\ UNCHANGED <<todo, tempbuff, ints, bytes>>
  BY DEF ReadOpcode
<1>3. b \in Seq(Byte) /\ toServer' \in Seq(Byte)
  BY <1>1, <1>2, TakenType
<1>4. type' \in Byte
  <2>1. b # <<>> => b[1] \in Byte
    <3>1. b # <<>> => 1 \in 1..Len(b)
      BY <1>3, LenProperties, EmptySeq
    <3> QED BY <1>3, <3>1, ElementOfSeq
  <2> QED BY <1>1, <1>2, <2>1
<1>5. UNCHANGED <<cpc, calls, returns, toClient, overrun, errno, reset, log>>
  BY DEF ReadOpcode, client
<1>6. CASE type' \in 1..7
  <2>1. /\ spc' = "handler" /\ todo' = Fields[type'] /\ tempbuff' = Blank
        /\ ints' = <<>> /\ bytes' = <<>>
    BY <1>2, <1>6
  <2>2. AtField(0)'
    BY <1>6, <2>1, NothingRead
  <2>3. tempbuff' \in Word /\ ints' \in Seq(Int) /\ bytes' \in Seq(Byte)
    BY <2>1, BlankType, EmptySeq
  <2>4. TypeOK'
    BY <1>3, <1>4, <1>5, <2>1, <2>3 DEF TInv, TypeOK
  <2> QED BY <1>5, <2>1, <2>2, <2>3, <2>4 DEF TInv
<1>7. CASE type' \notin 1..7
  <2>1. spc' \in {"exited", "opcode"} /\ UNCHANGED <<todo, tempbuff, ints, bytes>>
    BY <1>2, <1>7
  <2>2. TypeOK'
    BY <1>3, <1>4, <1>5, <2>1 DEF TInv, TypeOK
  <2> QED BY <1>5, <2>1, <2>2 DEF TInv
<1> QED BY <1>6, <1>7

LEMMA ReadFieldTypes ==
  ASSUME TInv, ReadField
  PROVE  TInv'
<1>1. PICK k \in 0..4 : AtField(k)
  BY DEF TInv, ReadField
<1>2. todo # <<>> /\ tempbuff \in Word /\ bytes \in Seq(Byte) /\ toServer \in Seq(Byte)
  BY DEF TInv, TypeOK, ReadField
<1>3. /\ AtField(k + 1)' /\ ints' \in Seq(Int) /\ bytes' \in Seq(Byte)
      /\ tempbuff' \in Word /\ toServer' \in Seq(Byte)
  BY <1>1, <1>2, FieldRead
<1>4. k + 1 \in 0..4
  BY <1>1, <1>2, FieldStep
<1>5. UNCHANGED <<cpc, calls, returns, toClient, spc, type, errno, reset, log>>
  BY DEF ReadField, client
<1>6. overrun' \in BOOLEAN
  BY DEF ReadField, TInv, TypeOK
<1>7. TypeOK'
  BY <1>3, <1>5, <1>6 DEF TInv, TypeOK
<1> QED BY <1>3, <1>4, <1>5, <1>7 DEF TInv

(* What Serve does, once: the reply is written, or the child dies before it. *)
Replies(o, e) ==
  /\ toClient' = IF Gone THEN toClient ELSE toClient \o Reply(Requested, o, e)
  /\ reset' = (reset \/ Gone)
  /\ spc' = (IF reset THEN "sigpipe" ELSE "opcode")
Dies == spc' = "aborted" /\ UNCHANGED <<toClient, reset>>

LEMMA Served ==
  ASSUME TInv, Serve
  PROVE  /\ WellFormed(Requested)
         /\ \E o \in Outcomes(Requested), e \in Errors \union {0} :
              /\ log' = Append(log, [call |-> Requested, ret |-> o.ret, err |-> e, out |-> o.out])
              /\ errno' = e
              /\ Replies(o, e) \/ Dies
         /\ UNCHANGED <<cpc, calls, returns, toServer, type, todo, tempbuff, ints, bytes, overrun>>
<1>1. WellFormed(Requested)
  <2>1. PICK k \in 0..4 : AtField(k)
    BY DEF TInv, Serve
  <2>2. todo = <<>> /\ bytes \in Seq(Byte)
    BY DEF TInv, Serve
  <2> QED BY <2>1, <2>2, RequestedType
<1>2. errno \in Errors \union {0}
  BY DEF TInv, TypeOK
<1>3. PICK o \in Outcomes(Requested), e \in Errors \union {errno} :
        /\ errno' = e
        /\ log' = Append(log, [call |-> Requested, ret |-> o.ret, err |-> e, out |-> o.out])
        /\ Replies(o, e) \/ Dies
  BY DEF Serve, Replies, Dies
<1>4. e \in Errors \union {0}
  BY <1>2, <1>3
<1>5. UNCHANGED <<cpc, calls, returns, toServer, type, todo, tempbuff, ints, bytes, overrun>>
  BY DEF Serve, client, handler
<1> QED BY <1>1, <1>3, <1>4, <1>5

LEMMA ServeTypes ==
  ASSUME TInv, Serve
  PROVE  TInv'
<1>1. PICK o \in Outcomes(Requested), e \in Errors \union {0} :
        /\ log' = Append(log, [call |-> Requested, ret |-> o.ret, err |-> e, out |-> o.out])
        /\ errno' = e
        /\ Replies(o, e) \/ Dies
  BY Served
<1>2. /\ WellFormed(Requested)
      /\ UNCHANGED <<cpc, calls, returns, toServer, type, todo, tempbuff, ints, bytes, overrun>>
  BY Served
<1>3. e \in Int
  BY RpcSessionAssumption
<1>4. log' \in Seq(Entry)
  <2>1. o.ret \in Int /\ o.out \in Seq(Int)
    BY <1>2, OutcomesType
  <2>2. Requested \in CallRecord
    BY <1>2 DEF WellFormed
  <2>3. [call |-> Requested, ret |-> o.ret, err |-> e, out |-> o.out] \in Entry
    BY <1>3, <2>1, <2>2 DEF Entry
  <2> QED BY <1>1, <2>3, Appended DEF TInv
<1>5. toClient' \in Seq(Byte)
  <2>1. PICK r \in Seq(Byte) : r = Reply(Requested, o, e)
    BY <1>2, <1>3, ReplyType
  <2>2. toClient \in Seq(Byte)
    BY DEF TInv, TypeOK
  <2>3. toClient \o r \in Seq(Byte)
    BY <2>2, Lengths
  <2>4. toClient' \in {toClient, toClient \o r}
    BY <1>1, <2>1 DEF Replies, Dies
  <2> QED BY <2>2, <2>3, <2>4
<1>6. spc' \in {"sigpipe", "opcode", "aborted"} /\ reset' \in BOOLEAN
  BY <1>1 DEF Replies, Dies, TInv, TypeOK, Gone
<1>7. TypeOK'
  BY <1>1, <1>2, <1>5, <1>6 DEF TInv, TypeOK
<1> QED BY <1>2, <1>4, <1>6, <1>7 DEF TInv

LEMMA AbortTypes ==
  ASSUME TInv, Abort
  PROVE  TInv'
<1>1. /\ UNCHANGED <<cpc, calls, returns, toServer, toClient, type, todo, tempbuff, ints, bytes>>
      /\ UNCHANGED <<overrun, errno, reset, log>> /\ spc' = "aborted"
  BY DEF Abort, client, handler
<1>2. TypeOK'
  BY <1>1 DEF TInv, TypeOK
<1> QED BY <1>1, <1>2 DEF TInv

LEMMA TInvStuttering ==
  ASSUME TInv, UNCHANGED vars
  PROVE  TInv'
<1>1. /\ UNCHANGED <<cpc, calls, returns, toServer, toClient, spc, type, todo, tempbuff, ints, bytes>>
      /\ UNCHANGED <<overrun, errno, reset, log>>
  BY DEF vars, client, handler
<1>2. TypeOK'
  BY <1>1 DEF TInv, TypeOK
<1>3. spc' = "handler" => \E k \in 0..4 : AtField(k)'
  <2>1. \A k \in 0..4 : AtField(k) => AtField(k)'
    BY <1>1 DEF AtField
  <2> QED BY <1>1, <2>1 DEF TInv
<1> QED BY <1>1, <1>2, <1>3 DEF TInv

LEMMA TInvInitial == Init => TInv
<1> SUFFICES ASSUME Init PROVE TInv
  OBVIOUS
<1>1. <<>> \in Seq(Byte) /\ <<>> \in Seq(Int) /\ <<>> \in Seq(Calls)
  BY EmptySeq
<1>2. <<>> \in Seq(Entry) /\ <<>> \in Seq(ResultRecord) /\ Len(<<>>) = 0
  BY EmptySeq
<1>3. 0 \in Byte /\ Blank \in Word
  BY ByteArithmetic, BlankType
<1>4. TypeOK
  <2>1. /\ cpc = "app" /\ toServer \in Seq(Byte) /\ toClient \in Seq(Byte)
        /\ spc = "opcode" /\ type \in Byte /\ tempbuff \in Word /\ calls \in Seq(Calls)
    BY <1>1, <1>3 DEF Init
  <2>2. errno = 0 /\ reset = FALSE
    BY DEF Init
  <2>3. Len(returns) = 0 /\ Len(calls) = 0
    BY <1>2 DEF Init
  <2>4. Len(returns) <= Len(calls)
    BY <2>3
  <2>5. errno \in Errors \union {0} /\ reset \in BOOLEAN /\ overrun \in BOOLEAN
    BY <2>2 DEF Init
  <2> QED BY <2>1, <2>4, <2>5 DEF TypeOK
<1> QED BY <1>1, <1>2, <1>4 DEF Init, TInv

LEMMA TInvNext == TInv /\ [Next]_vars => TInv'
<1> SUFFICES ASSUME TInv, [Next]_vars PROVE TInv'
  OBVIOUS
<1>1. CASE UNCHANGED vars
  BY <1>1, TInvStuttering
<1>2. CASE ReadOpcode
  BY <1>2, ReadOpcodeTypes
<1>3. CASE ReadField
  BY <1>3, ReadFieldTypes
<1>4. CASE Serve
  BY <1>4, ServeTypes
<1>5. CASE \E c \in Calls : Invoke(c)
  BY <1>5, InvokeTypes
<1>6. CASE Receive
  BY <1>6, ReceiveTypes
<1>7. CASE End \/ Kill
  BY <1>7, LeaveTypes
<1>8. CASE Abort
  BY <1>8, AbortTypes
<1> QED BY <1>1, <1>2, <1>3, <1>4, <1>5, <1>6, <1>7, <1>8 DEF Next, Child, Client

(* The variables keep their types whatever the program calls: no call, however
   long or garbled, leaves the child's buffers or the streams ill-formed
   (r_client.c:85-400, r_server.c:46-415). *)
THEOREM TypeCorrect == Spec => []TypeOK
<1>1. TInv => TypeOK
  BY DEF TInv
<1> QED BY <1>1, TInvInitial, TInvNext, PTL DEF Spec

--------------------------------------------------------------------------------
(* The calls that reach the server as they are: the length of a pathname and the
   counts of read and write come through the wire whole, and a pathname leaves
   room for its NUL.  One that does not is the finding of RpcLongWrite. *)
CallsSurvive ==
  \A c \in Calls :
    /\ c.op = "open" => /\ DecodeLength(EncodeLength(Len(c.data))) = Len(c.data)
                        /\ Len(c.data) \notin Snug
    /\ c.op \in {"read", "write"} => Wire(c.args[2]) = c.args[2]

(* What r_dup2 finds in fresh memory is no opcode and not EOF, if it is called at
   all.  When it is, that is the finding of RpcDupOpcode. *)
GarbageHarmless ==
  (\E c \in Calls : c.op = "dup2") => Garbage \intersect (1..7 \union {EOF}) = {}

(* The i-th int a handler makes of the call c. *)
Value(c, i) ==
  IF c.op # "open" THEN Wire(c.args[i])
  ELSE IF i = 1 THEN Len(c.data) ELSE Wire(c.args[i - 1])

(* The message of c is on its way: all of it from the opcode on, and n of the
   bytes that a dup2 puts before its opcode. *)
Sending(c) ==
  /\ spc = "opcode"
  /\ \E n \in 0..9, g \in Garbage :
       /\ n > 0 => c.op = "dup2"
       /\ toServer = [i \in 1..n |-> g] \o (<<Opcode(c.op)>> \o Rest(Parts(c), 0))

(* The child has read the opcode and k fields of c, and the rest is on its way. *)
HandlingAt(c, k) ==
  /\ type = Opcode(c.op) /\ AtField(k)
  /\ toServer = Rest(Parts(c), k)
  /\ \A i \in 1..Len(ints) : ints[i] = Value(c, i)
  /\ bytes = IF DataRead(type, k) THEN c.data ELSE <<>>
Handling(c) == \E k \in 0..4 : HandlingAt(c, k)

(* The last call of the client has not been made on the server. *)
Underway ==
  /\ calls # <<>> /\ Len(log) = Len(calls) - 1
  /\ Sending(Last(calls)) \/ Handling(Last(calls)) \/ spc = "aborted"

(* The reply to the last call is on its way. *)
ReplyTo(r, c) ==
  /\ r.call = Reached(c) /\ r.err \in Errors \union {0}
  /\ \E o \in Outcomes(r.call) :
       /\ r.ret = o.ret /\ r.out = o.out
       /\ toClient = Reply(r.call, o, r.err)
Replied ==
  /\ calls # <<>> /\ Len(log) = Len(calls)
  /\ spc \in {"opcode", "aborted"} /\ toServer = <<>>
  /\ ReplyTo(log[Len(log)], Last(calls))

(* The last call has been made, and the child died before its reply. *)
Unanswered ==
  /\ calls # <<>> /\ Len(log) = Len(calls)
  /\ spc = "aborted" /\ toServer = <<>> /\ toClient = <<>>

(* The child of a client that is gone, between a stale opcode and its call: the
   ints it has are those of a blank buffer. *)
BlankInt(t, i) == IF t = 1 /\ i = 1 THEN DecodeLength(Blank) ELSE Decode(Blank)
EmptyAt(k) ==
  /\ AtField(k) /\ tempbuff = Blank /\ bytes = <<>>
  /\ \A i \in 1..Len(ints) : ints[i] = BlankInt(type, i)
Empty == toServer = <<>> /\ (spc = "handler" => \E k \in 0..4 : EmptyAt(k))

(* What holds in each state of the client. *)
AppInv ==
  cpc = "app" =>
    /\ toServer = <<>> /\ toClient = <<>> /\ spc \in {"opcode", "aborted"} /\ ~reset
    /\ Len(log) = Len(calls) /\ Len(returns) = Len(calls)
WaitInv ==
  cpc = "wait" =>
    /\ (Underway /\ toClient = <<>>) \/ Replied \/ Unanswered
    /\ Len(returns) = Len(calls) - 1 /\ ~reset
EndedInv ==
  cpc = "ended" =>
    /\ Len(log) = Len(calls)
    /\ (toServer = <<EOF>> /\ spc \in {"opcode", "aborted"}) \/ (toServer = <<>> /\ spc = "exited")
KilledInv == cpc = "killed" => Underway \/ (Len(log) >= Len(calls) /\ Empty)
SInv == AppInv /\ WaitInv /\ EndedInv /\ KilledInv

IInv == TInv /\ SInv /\ PhantomsCarryNothing

(* Each field of a message is as long as the read that is made for it, and its
   handler makes the call's own value of it. *)
LEMMA FieldOfCall ==
  ASSUME CallsSurvive, NEW c \in Calls, NEW t, t = Opcode(c.op),
         NEW k \in 0..4, k < Len(Fields[t]), NEW f, f = Fields[t][k + 1],
         NEW x, x = Parts(c)[k + 1]
  PROVE  /\ f = "int" => Len(x) = 4 /\ Decode(x) = Value(c, IntsRead(t, k) + 1)
         /\ f = "length" => Len(x) = 2 /\ DecodeLength(x) = Value(c, 1) /\ IntsRead(t, k) = 0
         /\ f = "path" => x = c.data /\ Value(c, 1) = Len(c.data) /\ IntsRead(t, k) = 1
         /\ f = "data" => x = c.data /\ Value(c, 2) = Len(c.data) /\ IntsRead(t, k) = 2
<1>1. c.op \in {"open", "close", "read", "write", "lseek", "pipe", "dup2"}
  BY CallShape
<1>2. \A i \in 1..Len(c.args) : Len(Encode(c.args[i])) = 4 /\ Decode(Encode(c.args[i])) = Wire(c.args[i])
  BY CallShape, EncodeType DEF Wire
<1>3. k \in {0, 1, 2, 3, 4}
  OBVIOUS
<1>4. CASE c.op = "open"
  <2>1. t = 1 /\ k < 4
    BY <1>4, Opcodes, FieldKinds
  <2>2. /\ k = 0 => x = EncodeLength(Len(c.data)) /\ f = "length"
        /\ k = 1 => x = c.data /\ f = "path"
        /\ k = 2 => x = Encode(c.args[1]) /\ f = "int"
        /\ k = 3 => x = Encode(c.args[2]) /\ f = "int"
    BY <1>4, <2>1, FieldKinds DEF Parts
  <2>3. Len(EncodeLength(Len(c.data))) = 2 /\ DecodeLength(EncodeLength(Len(c.data))) = Len(c.data)
    BY <1>4, CallShape, EncodeLengthType DEF CallsSurvive
  <2>4. /\ Len(Encode(c.args[1])) = 4 /\ Decode(Encode(c.args[1])) = Wire(c.args[1])
        /\ Len(Encode(c.args[2])) = 4 /\ Decode(Encode(c.args[2])) = Wire(c.args[2])
    BY <1>2, <1>4, Arguments
  <2>5. /\ IntsRead(1, 0) = 0 /\ IntsRead(1, 1) = 1 /\ IntsRead(1, 2) = 1 /\ IntsRead(1, 3) = 2
        /\ Value(c, 1) = Len(c.data) /\ Value(c, 2) = Wire(c.args[1]) /\ Value(c, 3) = Wire(c.args[2])
    BY <1>4 DEF IntsRead, Value
  <2>6. k \in {0, 1, 2, 3}
    BY <1>3, <2>1
  <2> QED BY <2>1, <2>2, <2>3, <2>4, <2>5, <2>6
<1>5. CASE c.op = "write"
  <2>1. /\ t = 4 /\ k \in {0, 1, 2}
    BY <1>3, <1>5, Opcodes, FieldKinds
  <2>2. /\ k = 0 => x = Encode(c.args[1]) /\ f = "int"
        /\ k = 1 => x = Encode(c.args[2]) /\ f = "int"
        /\ k = 2 => x = c.data /\ f = "data"
    BY <1>5, <2>1, FieldKinds DEF Parts
  <2>3. Wire(c.args[2]) = Len(c.data)
    BY <1>5, CallShape DEF CallsSurvive
  <2>4. /\ Len(Encode(c.args[1])) = 4 /\ Decode(Encode(c.args[1])) = Wire(c.args[1])
        /\ Len(Encode(c.args[2])) = 4 /\ Decode(Encode(c.args[2])) = Wire(c.args[2])
    BY <1>2, <1>5, Arguments
  <2>5. /\ IntsRead(4, 0) = 0 /\ IntsRead(4, 1) = 1 /\ IntsRead(4, 2) = 2
        /\ Value(c, 1) = Wire(c.args[1]) /\ Value(c, 2) = Wire(c.args[2])
    BY <1>5 DEF IntsRead, Value
  <2> QED BY <2>1, <2>2, <2>3, <2>4, <2>5
<1>6. ASSUME c.op \notin {"open", "write", "pipe"}, f = "int",
             k + 1 \in 1..Len(c.args), x = Encode(c.args[k + 1])
      PROVE  Len(x) = 4 /\ Decode(x) = Value(c, IntsRead(t, k) + 1)
  <2>1. Len(x) = 4 /\ Decode(x) = Wire(c.args[k + 1])
    BY <1>2, <1>6
  <2>2. t \notin {1, 4}
    BY <1>1, <1>6, Opcodes
  <2>3. IntsRead(t, k) = k
    BY <2>2 DEF IntsRead
  <2> QED BY <1>6, <2>1, <2>3 DEF Value
<1>7. CASE c.op = "close"
  <2>1. t = 2 /\ k = 0 /\ f = "int"
    BY <1>3, <1>7, Opcodes, FieldKinds
  <2>2. x = Encode(c.args[1]) /\ Len(c.args) = 1
    BY <1>7, <2>1, Arguments DEF Parts
  <2> QED BY <1>6, <1>7, <2>1, <2>2
<1>8. CASE c.op \in {"read", "dup2"}
  <2>1. t \in {3, 7} /\ k \in {0, 1}
    BY <1>3, <1>8, Opcodes, FieldKinds
  <2>2. f = "int"
    BY <2>1, FieldKinds
  <2>3. Len(c.args) = 2 /\ (k = 0 => x = Encode(c.args[1])) /\ (k = 1 => x = Encode(c.args[2]))
    BY <1>8, <2>1, Arguments DEF Parts
  <2> QED BY <1>6, <1>8, <2>1, <2>2, <2>3
<1>9. CASE c.op = "lseek"
  <2>1. t = 5 /\ k \in {0, 1, 2}
    BY <1>3, <1>9, Opcodes, FieldKinds
  <2>2. f = "int"
    BY <2>1, FieldKinds
  <2>3. /\ Len(c.args) = 3 /\ (k = 0 => x = Encode(c.args[1]))
        /\ (k = 1 => x = Encode(c.args[2])) /\ (k = 2 => x = Encode(c.args[3]))
    BY <1>9, <2>1, Arguments DEF Parts
  <2> QED BY <1>6, <1>9, <2>1, <2>2, <2>3
<1>10. c.op # "pipe"
  <2>1. c.op = "pipe" => Len(Fields[t]) = 0
    BY Opcodes, FieldKinds
  <2> QED BY <2>1
<1> QED BY <1>1, <1>4, <1>5, <1>7, <1>8, <1>9, <1>10

--------------------------------------------------------------------------------
(* The child at work on a call. *)

LEMMA OverlayTwo ==
  ASSUME NEW x \in Seq(Byte), Len(x) = 2
  PROVE  DecodeLength(Overlay(x)) = DecodeLength(x)
<1>1. Overlay(x)[1] = x[1] /\ Overlay(x)[2] = x[2]
  BY DEF Overlay
<1> QED BY <1>1 DEF DecodeLength

(* A read of a field takes that field, all of it and nothing else. *)
LEMMA HandlingField ==
  ASSUME CallsSurvive, TInv, NEW c \in Calls, NEW k \in 0..4, HandlingAt(c, k), ReadField
  PROVE  HandlingAt(c, k + 1)' /\ k + 1 \in 0..4
<1> DEFINE f == Head(todo)
           p == Parts(c)
<1>1. /\ type = Opcode(c.op) /\ AtField(k) /\ toServer = Rest(p, k)
      /\ \A i \in 1..Len(ints) : ints[i] = Value(c, i)
      /\ bytes = IF DataRead(type, k) THEN c.data ELSE <<>>
  BY DEF HandlingAt
<1>2. /\ todo # <<>> /\ tempbuff \in Word /\ bytes \in Seq(Byte) /\ toServer \in Seq(Byte)
      /\ type' = type
  BY DEF TInv, TypeOK, ReadField
<1>3. /\ k < Len(Fields[type]) /\ f = Fields[type][k + 1] /\ k + 1 \in 0..4 /\ f \in Kinds
  BY <1>1, <1>2, FieldStep
<1>4. AtField(k + 1)'
  BY <1>1, <1>2, FieldRead
<1>5. type \in 1..7 /\ ints \in Seq(Int) /\ Len(ints) = IntsRead(type, k)
  BY <1>1 DEF AtField
<1>6. PICK x \in Seq(Byte) : x = p[k + 1] /\ Rest(p, k) = x \o Rest(p, k + 1)
  <2>1. Len(Fields[type]) \in 0..4 /\ Series(p, Len(Fields[type]))
    BY <1>1, PartsType
  <2> HIDE DEF p
  <2>2. PICK n \in 0..4 : Series(p, n) /\ k < n
    BY <1>3, <2>1
  <2>3. p[k + 1] \in Seq(Byte) /\ Rest(p, k) = p[k + 1] \o Rest(p, k + 1)
    BY <2>2, RestStep
  <2> QED BY <2>3
<1>7. PICK y \in Seq(Byte) : y = Rest(p, k + 1)
  <2>1. Len(Fields[type]) \in 0..4 /\ Series(p, Len(Fields[type]))
    BY <1>1, PartsType
  <2> HIDE DEF p
  <2> QED BY <1>3, <2>1, RestStep
<1>8. /\ f = "int" => Len(x) = 4 /\ Decode(x) = Value(c, IntsRead(type, k) + 1)
      /\ f = "length" => Len(x) = 2 /\ DecodeLength(x) = Value(c, 1) /\ IntsRead(type, k) = 0
      /\ f = "path" => x = c.data /\ Value(c, 1) = Len(c.data) /\ IntsRead(type, k) = 1
      /\ f = "data" => x = c.data /\ Value(c, 2) = Len(c.data) /\ IntsRead(type, k) = 2
  BY <1>1, <1>3, <1>6, FieldOfCall
<1>9. Wanted(f) = Len(x)
  <2>1. f = "path" => ints[1] = Len(x)
    BY <1>1, <1>5, <1>8
  <2>2. f = "data" => ints[2] = Len(x)
    BY <1>1, <1>5, <1>8
  <2> HIDE DEF f
  <2> QED BY <1>3, <1>8, <2>1, <2>2 DEF Wanted, Kinds
<1>10. PICK b \in Taken(Wanted(f)) :
        /\ Drop(b)
        /\ \/ /\ f \in {"int", "length"}
              /\ tempbuff' = Overlay(b)
              /\ ints' = Append(ints, IF f = "int" THEN Decode(tempbuff') ELSE DecodeLength(tempbuff'))
              /\ UNCHANGED bytes
           \/ /\ f \in {"path", "data"}
              /\ bytes' \in Held(b)
              /\ UNCHANGED <<tempbuff, ints>>
  BY DEF ReadField
<1> HIDE DEF f
<1>11. toServer = x \o y
  BY <1>1, <1>6, <1>7
<1>12. b = x /\ toServer' = y
  <2>1. Taken(Len(x)) = {x} /\ (Drop(x) => toServer' = y)
    BY <1>11, TakesFront
  <2> QED BY <1>9, <1>10, <2>1
<1>13. /\ f \in {"int", "length"} => (DataRead(type, k + 1) <=> DataRead(type, k))
       /\ f \in {"path", "data"} => DataRead(type, k + 1)
  BY <1>3, <1>5, FieldTable
<1>14. bytes' = IF DataRead(type', k + 1) THEN c.data ELSE <<>>
  <2>1. CASE f \in {"int", "length"}
    BY <1>1, <1>2, <1>10, <1>13, <2>1
  <2>2. CASE f \in {"path", "data"}
    <3>1. f = "path" => Len(x) \notin Snug
      <4>1. f = "path" => c.op = "open"
        <5>1. f = "path" => type = 1
          BY <1>3, <1>5, FieldTable
        <5> QED BY <1>1, <5>1, CallShape, Opcodes
      <4> QED BY <1>8, <4>1 DEF CallsSurvive
    <3>2. Held(x) = {x}
      BY <3>1, HeldType DEF f
    <3> QED BY <1>2, <1>8, <1>10, <1>12, <1>13, <2>2, <3>2
  <2> QED BY <1>3, <2>1, <2>2 DEF Kinds
<1>15. \A i \in 1..Len(ints') : ints'[i] = Value(c, i)
  <2>1. CASE f \in {"path", "data"}
    BY <1>1, <1>10, <2>1
  <2>2. CASE f \in {"int", "length"}
    <3> DEFINE n == Len(ints)
    <3>1. PICK v \in Int : ints' = Append(ints, v) /\ v = Value(c, n + 1)
      <4>1. tempbuff' = Overlay(x)
        BY <1>10, <1>12, <2>2
      <4>2. f = "int" => Decode(tempbuff') = Value(c, n + 1)
        <5>1. f = "int" => Overlay(x) = x
          BY <1>8, WordOfBytes
        <5> QED BY <1>5, <1>8, <4>1, <5>1
      <4>3. f = "length" => DecodeLength(tempbuff') = Value(c, n + 1)
        <5>2. f = "length" => DecodeLength(Overlay(x)) = DecodeLength(x)
          BY <1>8, OverlayTwo
        <5>3. f = "length" => n + 1 = 1
          BY <1>5, <1>8
        <5> QED BY <1>8, <4>1, <5>2, <5>3
      <4>4. Decode(tempbuff') \in Int /\ DecodeLength(tempbuff') \in Int
        BY <1>2, <1>6, <4>1, OverlayType, DecodeType
      <4>5. f = "int" => ints' = Append(ints, Decode(tempbuff'))
        BY <1>10, <2>2
      <4>6. f = "length" => ints' = Append(ints, DecodeLength(tempbuff'))
        BY <1>10, <2>2
      <4> QED BY <2>2, <4>2, <4>3, <4>4, <4>5, <4>6
    <3>2. /\ Len(Append(ints, v)) = n + 1 /\ n \in Nat /\ Append(ints, v)[n + 1] = v
          /\ \A i \in 1..n : Append(ints, v)[i] = ints[i]
      BY <1>5, Appended
    <3>3. \A i \in 1..n + 1 : i \in 1..n \/ i = n + 1
      BY <3>2
    <3> HIDE DEF n
    <3>4. \A i \in 1..n : ints[i] = Value(c, i)
      BY <1>1 DEF n
    <3> QED BY <3>1, <3>2, <3>3, <3>4
  <2> QED BY <1>3, <2>1, <2>2 DEF Kinds
<1>16. HandlingAt(c, k + 1)'
  BY <1>1, <1>2, <1>4, <1>7, <1>12, <1>14, <1>15 DEF HandlingAt
<1> QED BY <1>3, <1>16

(* A handler that has read all its fields has the call, as the wire leaves it. *)
LEMMA HandlingDone ==
  ASSUME TInv, NEW c \in Calls, Handling(c), todo = <<>>
  PROVE  Requested = Reached(c) /\ toServer = <<>>
<1>1. PICK k \in 0..4 : HandlingAt(c, k)
  BY DEF Handling
<1>2. /\ type = Opcode(c.op) /\ AtField(k) /\ toServer = Rest(Parts(c), k)
      /\ \A i \in 1..Len(ints) : ints[i] = Value(c, i)
      /\ bytes = IF DataRead(type, k) THEN c.data ELSE <<>>
  BY <1>1 DEF HandlingAt
<1>3. bytes \in Seq(Byte)
  BY DEF TInv
<1>4. /\ WellFormed(Requested) /\ k = Len(Fields[type]) /\ Requested.op = Ops[type]
      /\ Requested.data = bytes /\ type \in 1..7
  BY <1>2, <1>3, RequestedType
<1>5. toServer = <<>>
  <2>1. Len(Fields[type]) \in 0..4 /\ Series(Parts(c), Len(Fields[type]))
    BY <1>2, PartsType
  <2>2. k >= Len(Fields[type])
    BY <1>4, <2>1
  <2> QED BY <1>2, <2>1, <2>2, RestStep
<1>6. c.op \in {"open", "close", "read", "write", "lseek", "pipe", "dup2"} /\ Ops[type] = c.op
  BY <1>2, CallShape, Opcodes
<1>7. bytes = c.data
  <2>1. c.op = "open" => type = 1 /\ k = 4
    BY <1>2, <1>4, Opcodes, FieldKinds
  <2>2. c.op = "write" => type = 4 /\ k = 3
    BY <1>2, <1>4, Opcodes, FieldKinds
  <2>3. c.op \in {"open", "write"} => DataRead(type, k)
    BY <2>1, <2>2 DEF DataRead
  <2>4. c.op \notin {"open", "write"} => c.data = <<>>
    BY CallShape
  <2> QED BY <1>2, <2>3, <2>4
<1> DEFINE w == [i \in DOMAIN c.args |-> Wire(c.args[i])]
<1>8. Requested.args = w
  <2>1. Requested.args \in Seq(Int) /\ Len(Requested.args) = Arity[c.op]
    BY <1>4, <1>6 DEF WellFormed, CallRecord
  <2>2. c.args \in Seq(Int) /\ Len(c.args) = Arity[c.op]
    BY CallShape
  <2>3. w \in Seq(Int) /\ Len(w) = Len(c.args) /\ \A i \in 1..Len(c.args) : w[i] = Wire(c.args[i])
    <3>1. DOMAIN c.args = 1..Len(c.args) /\ Len(c.args) \in Nat
      BY <2>2, LenProperties
    <3>2. \A i \in 1..Len(c.args) : Wire(c.args[i]) \in Int
      BY CallShape, WireType
    <3> QED BY <3>1, <3>2
  <2>4. \A i \in 1..Len(c.args) : Requested.args[i] = Wire(c.args[i])
    <3>1. ints \in Seq(Int) /\ Len(ints) = IntsRead(type, k)
      BY <1>2 DEF AtField
    <3>2. CASE c.op = "open"
      <4>1. type = 1 /\ k = 4 /\ Requested.args = Tail(ints) /\ Len(c.args) = 2
        BY <1>2, <1>4, <1>6, <3>2, Opcodes, FieldKinds, Arguments DEF Requested
      <4>2. Len(ints) = 3
        BY <3>1, <4>1 DEF IntsRead
      <4>3. Tail(ints)[1] = ints[2] /\ Tail(ints)[2] = ints[3]
        BY <3>1, <4>2, TailOfThree
      <4>4. ints[2] = Wire(c.args[1]) /\ ints[3] = Wire(c.args[2])
        <5>1. ints[2] = Value(c, 2) /\ ints[3] = Value(c, 3)
          BY <1>2, <4>2
        <5>2. Value(c, 2) = Wire(c.args[1]) /\ Value(c, 3) = Wire(c.args[2])
          BY <3>2 DEF Value
        <5> QED BY <5>1, <5>2
      <4>5. \A i \in 1..Len(c.args) : i = 1 \/ i = 2
        BY <4>1
      <4> QED BY <4>1, <4>3, <4>4, <4>5
    <3>3. CASE c.op # "open"
      <4>1. Requested.args = ints
        BY <1>6, <3>3 DEF Requested
      <4> QED BY <1>2, <2>1, <2>2, <3>3, <4>1 DEF Value
    <3> QED BY <3>2, <3>3
  <2> HIDE DEF w
  <2> QED BY <2>1, <2>2, <2>3, <2>4, SeqEqual
<1>9. Requested = [op |-> c.op, args |-> w, data |-> c.data]
  <2>1. Requested = [op |-> Requested.op, args |-> Requested.args, data |-> Requested.data]
    BY DEF Requested
  <2> HIDE DEF w
  <2> QED BY <1>4, <1>6, <1>7, <1>8, <2>1
<1>10. Reached(c) = [op |-> c.op, args |-> w, data |-> c.data]
  <2>1. PICK o, a, d : c = [op |-> o, args |-> a, data |-> d]
    BY CallShape
  <2>2. [c EXCEPT !.args = w] = [op |-> o, args |-> w, data |-> d]
    <3> HIDE DEF w
    <3> QED BY <2>1
  <2>3. c.op = o /\ c.data = d
    BY <2>1
  <2>4. Reached(c) = [c EXCEPT !.args = w]
    BY DEF Reached
  <2> HIDE DEF w
  <2> QED BY <2>2, <2>3, <2>4
<1> QED BY <1>5, <1>9, <1>10

(* One byte less of what stands before an opcode. *)
LEMMA NoiseShrinks ==
  ASSUME NEW n \in 1..9, NEW g \in Byte, NEW m \in Seq(Byte)
  PROVE  /\ [i \in 1..n |-> g] \o m = <<g>> \o ([i \in 1..n - 1 |-> g] \o m)
         /\ [i \in 1..n - 1 |-> g] \o m \in Seq(Byte)
<1>1. PICK j \in 0..8 : j = n - 1 /\ n = j + 1
  BY n - 1 \in 0..8
<1> DEFINE z(i) == [x \in 1..i |-> g]
<1>2. z(n) \in Seq(Byte) /\ z(j) \in Seq(Byte) /\ <<g>> \in Seq(Byte)
  OBVIOUS
<1>3. z(n) = <<g>> \o z(j)
  <2>1. <<g>> \o z(j) \in Seq(Byte) /\ Len(<<g>> \o z(j)) = 1 + j
    <3>1. Len(<<g>>) = 1 /\ Len(z(j)) = j
      OBVIOUS
    <3> HIDE DEF z
    <3> QED BY <1>2, <3>1, Lengths
  <2>2. Len(z(n)) = n /\ \A i \in 1..n : z(n)[i] = g
    OBVIOUS
  <2>3. \A i \in 1..n : (<<g>> \o z(j))[i] = g
    <3>1. \A i \in 1..Len(<<g>>) + Len(z(j)) :
            (<<g>> \o z(j))[i] = IF i <= Len(<<g>>) THEN <<g>>[i] ELSE z(j)[i - Len(<<g>>)]
      <4> HIDE DEF z
      <4> QED BY <1>2, ConcatProperties
    <3>2. Len(<<g>>) = 1 /\ Len(z(j)) = j /\ <<g>>[1] = g /\ \A i \in 1..j : z(j)[i] = g
      OBVIOUS
    <3> HIDE DEF z
    <3> QED BY <1>1, <3>1, <3>2
  <2> HIDE DEF z
  <2>4. PICK u \in Seq(Byte), v \in Seq(Byte) : u = z(n) /\ v = <<g>> \o z(j)
    BY <1>2, <2>1
  <2>5. Len(u) = n /\ Len(v) = n
    BY <1>1, <2>1, <2>2, <2>4
  <2>6. \A i \in 1..n : u[i] = v[i]
    BY <2>2, <2>3, <2>4
  <2>7. u = v
    BY <2>5, <2>6, SeqEqual
  <2> QED BY <2>4, <2>7
<1> HIDE DEF z
<1>4. z(n) \o m = <<g>> \o (z(j) \o m)
  BY <1>2, <1>3, Associate
<1>5. z(j) \o m \in Seq(Byte)
  BY <1>2, Lengths
<1> QED BY <1>1, <1>4, <1>5 DEF z

LEMMA SendingStep ==
  ASSUME GarbageHarmless, TInv, NEW c \in Calls, Sending(c), ReadOpcode
  PROVE  Sending(c)' \/ Handling(c)'
<1>1. PICK n \in 0..9, g \in Garbage :
        /\ n > 0 => c.op = "dup2"
        /\ toServer = [i \in 1..n |-> g] \o (<<Opcode(c.op)>> \o Rest(Parts(c), 0))
  BY DEF Sending
<1>2. PICK r \in Seq(Byte) : r = Rest(Parts(c), 0)
  <2>1. PICK m \in 0..4 : Series(Parts(c), m)
    BY PartsType
  <2> QED BY <2>1, RestStep
<1>3. PICK p \in 1..7 : p = Opcode(c.op) /\ <<p>> \in Seq(Byte)
  BY <1>1, MessageIsParts
<1>4. PICK m \in Seq(Byte) : m = <<p>> \o r
  BY <1>3, Lengths
<1> DEFINE T(b) == IF b = <<>> THEN type ELSE b[1]
<1>5. PICK b \in Taken(1) :
        /\ Drop(b) /\ type' = T(b)
        /\ IF T(b) \in 1..7
           THEN /\ spc' = "handler" /\ todo' = Fields[T(b)]
                /\ tempbuff' = Blank /\ ints' = <<>> /\ bytes' = <<>>
           ELSE /\ spc' = IF T(b) = EOF THEN "exited" ELSE "opcode"
                /\ UNCHANGED <<todo, tempbuff, ints, bytes>>
  BY DEF ReadOpcode
<1>6. CASE n = 0
  <2>1. [i \in 1..n |-> g] = <<>>
    BY <1>6
  <2>2. toServer = <<p>> \o r
    <3>1. <<>> \o m = m
      BY ConcatEmptySeq
    <3> QED BY <1>1, <1>2, <1>3, <1>4, <2>1, <3>1
  <2>3. b = <<p>> /\ toServer' = r
    <3>1. Len(<<p>>) = 1
      OBVIOUS
    <3>2. Taken(1) = {<<p>>} /\ (Drop(<<p>>) => toServer' = r)
      BY <1>3, <2>2, <3>1, TakesFront
    <3> QED BY <1>5, <3>2
  <2>4. T(b) = p
    BY <2>3
  <2> HIDE DEF T
  <2>5. /\ type' = p /\ spc' = "handler" /\ todo' = Fields[type'] /\ ints' = <<>> /\ bytes' = <<>>
    BY <1>3, <1>5, <2>4
  <2>6. AtField(0)'
    BY <1>3, <2>5, NothingRead
  <2>7. ~DataRead(type', 0) /\ \A i \in 1..Len(ints') : ints'[i] = Value(c, i)
    <3>1. Len(ints') = 0
      BY <2>5, EmptySeq
    <3> QED BY <3>1 DEF DataRead
  <2>8. HandlingAt(c, 0)'
    BY <1>2, <1>3, <2>3, <2>5, <2>6, <2>7 DEF HandlingAt
  <2>9. 0 \in 0..4
    OBVIOUS
  <2> QED BY <2>8, <2>9 DEF Handling
<1>7. CASE n # 0
  <2>1. c.op = "dup2" /\ n \in 1..9 /\ n - 1 \in 0..9
    BY <1>1, <1>7
  <2>2. g \in Byte /\ g \notin 1..7 /\ g # EOF /\ <<g>> \in Seq(Byte) /\ Len(<<g>>) = 1
    <3>1. g \in Byte
      BY RpcSessionAssumption
    <3>2. g \notin 1..7 \union {EOF}
      BY <2>1 DEF GarbageHarmless
    <3> QED BY <3>1, <3>2
  <2>3. PICK s \in Seq(Byte) : s = [i \in 1..n - 1 |-> g] \o m /\ toServer = <<g>> \o s
    BY <1>1, <1>2, <1>3, <1>4, <2>1, <2>2, NoiseShrinks
  <2>4. b = <<g>> /\ toServer' = s
    <3>1. Taken(1) = {<<g>>} /\ (Drop(<<g>>) => toServer' = s)
      BY <2>2, <2>3, TakesFront
    <3> QED BY <1>5, <3>1
  <2>5. T(b) = g
    BY <2>4
  <2> HIDE DEF T
  <2>6. spc' = "opcode"
    BY <1>5, <2>2, <2>5
  <2>7. toServer' = [i \in 1..n - 1 |-> g] \o (<<Opcode(c.op)>> \o Rest(Parts(c), 0))
    BY <1>2, <1>3, <1>4, <2>3, <2>4
  <2> QED BY <2>1, <2>6, <2>7 DEF Sending
<1> QED BY <1>6, <1>7

(* Whatever the child reads of a call under way, it stays under way. *)
LEMMA UnderwayReads ==
  ASSUME CallsSurvive, GarbageHarmless, TInv, Underway, ReadOpcode \/ ReadField
  PROVE  Underway' /\ UNCHANGED <<cpc, calls, returns, toClient, errno, reset, log>>
<1>1. UNCHANGED <<cpc, calls, returns, toClient, errno, reset, log>>
  BY DEF ReadOpcode, ReadField, client
<1>2. PICK c \in Calls : c = Last(calls)
  <2>1. calls \in Seq(Calls) /\ calls # <<>>
    BY DEF TInv, TypeOK, Underway
  <2>2. Len(calls) # 0
    BY <2>1, EmptySeq
  <2> QED BY <2>1, <2>2, LastCall
<1>3. Sending(c) \/ Handling(c)
  BY <1>2 DEF Underway, ReadOpcode, ReadField
<1>4. Sending(c)' \/ Handling(c)'
  <2>1. CASE ReadOpcode
    <3>1. ~Handling(c)
      BY <2>1 DEF ReadOpcode, Handling, HandlingAt, AtField
    <3> QED BY <1>3, <2>1, <3>1, SendingStep
  <2>2. CASE ReadField
    <3>1. ~Sending(c)
      BY <2>2 DEF ReadField, Sending
    <3>2. PICK k \in 0..4 : HandlingAt(c, k)
      BY <1>3, <3>1 DEF Handling
    <3>3. HandlingAt(c, k + 1)' /\ k + 1 \in 0..4
      BY <2>2, <3>2, HandlingField
    <3> QED BY <3>3 DEF Handling
  <2> QED BY <2>1, <2>2
<1>5. Last(calls') = c /\ calls' # <<>> /\ Len(log') = Len(calls') - 1
  BY <1>1, <1>2 DEF Underway, Last
<1>6. Underway'
  BY <1>4, <1>5 DEF Underway
<1> QED BY <1>1, <1>6

(* A length decoded from a blank buffer is not 0: a path of that length is not
   what an empty read leaves. *)
LEMMA BlankLength == DecodeLength(Blank) # 0
<1>1. BASE \in Nat /\ BASE >= 16 /\ HALF \in Nat /\ HALF > 0
  BY ByteArithmetic DEF HALF
<1>2. BASE \div 8 \in Nat /\ BASE \div 8 > 0
  BY <1>1
<1>3. Signed(BASE \div 8) = BASE \div 8
  BY RpcWireAssumption DEF Signed, HALF
<1>4. OrChar(BASE \div 8, 0) = (BASE \div 8) * BASE
  <2>1. ~(0 >= HALF)
    BY <1>1
  <2>2. OrChar(BASE \div 8, 0) = (BASE \div 8) * BASE + 0
    BY <2>1 DEF OrChar
  <2>3. (BASE \div 8) * BASE \in Int
    BY <1>1, <1>2
  <2> QED BY <2>2, <2>3
<1>5. (BASE \div 8) * BASE # 0
  BY <1>1, <1>2
<1> QED BY <1>3, <1>4, <1>5 DEF DecodeLength, Blank

(* The child of a client that is gone reads nothing, and leaves its buffers blank. *)
LEMMA EmptyReads ==
  ASSUME TInv, Empty, ReadOpcode \/ ReadField
  PROVE  Empty' /\ UNCHANGED <<cpc, calls, returns, toClient, errno, reset, log>>
<1>1. UNCHANGED <<cpc, calls, returns, toClient, errno, reset, log>>
  BY DEF ReadOpcode, ReadField, client
<1>2. toServer = <<>> /\ toServer \in Seq(Byte)
  BY DEF Empty, TInv, TypeOK
<1>3. ASSUME NEW n \in Int, NEW b \in Taken(n)
      PROVE  b = <<>> /\ (Drop(b) => toServer' = <<>>)
  BY <1>2, <1>3, TakenType
<1>4. CASE ReadOpcode
  <2> DEFINE T(b) == IF b = <<>> THEN type ELSE b[1]
  <2>1. PICK b \in Taken(1) :
          /\ Drop(b) /\ type' = T(b)
          /\ IF T(b) \in 1..7
             THEN /\ spc' = "handler" /\ todo' = Fields[T(b)]
                  /\ tempbuff' = Blank /\ ints' = <<>> /\ bytes' = <<>>
             ELSE /\ spc' = IF T(b) = EOF THEN "exited" ELSE "opcode"
                  /\ UNCHANGED <<todo, tempbuff, ints, bytes>>
    BY <1>4 DEF ReadOpcode
  <2>2. toServer' = <<>>
    BY <1>3, <2>1
  <2>3. CASE T(b) \in 1..7
    <3>1. /\ spc' = "handler" /\ type' \in 1..7 /\ todo' = Fields[type']
          /\ tempbuff' = Blank /\ ints' = <<>> /\ bytes' = <<>>
      BY <2>1, <2>3
    <3>2. AtField(0)' /\ Len(ints') = 0
      BY <3>1, NothingRead, EmptySeq
    <3>3. EmptyAt(0)'
      BY <3>1, <3>2 DEF EmptyAt
    <3>4. 0 \in 0..4
      OBVIOUS
    <3> QED BY <1>1, <2>2, <3>3, <3>4 DEF Empty
  <2>4. CASE T(b) \notin 1..7
    <3>1. spc' # "handler"
      BY <2>1, <2>4
    <3> QED BY <1>1, <2>2, <3>1 DEF Empty
  <2> QED BY <2>3, <2>4
<1>5. CASE ReadField
  <2>1. PICK k \in 0..4 : EmptyAt(k)
    BY <1>5 DEF ReadField, Empty
  <2>2. /\ AtField(k) /\ tempbuff = Blank /\ bytes = <<>>
        /\ \A i \in 1..Len(ints) : ints[i] = BlankInt(type, i)
    BY <2>1 DEF EmptyAt
  <2> DEFINE f == Head(todo)
  <2>3. /\ todo # <<>> /\ tempbuff \in Word /\ bytes \in Seq(Byte) /\ type' = type
    BY <1>5 DEF ReadField, TInv, TypeOK
  <2>4. /\ k < Len(Fields[type]) /\ f = Fields[type][k + 1] /\ k + 1 \in 0..4 /\ f \in Kinds
        /\ Wanted(f) \in Int
    BY <2>2, <2>3, FieldStep
  <2>5. AtField(k + 1)'
    BY <1>2, <1>5, <2>2, <2>3, FieldRead
  <2>6. type \in 1..7 /\ ints \in Seq(Int) /\ Len(ints) = IntsRead(type, k)
    BY <2>2 DEF AtField
  <2>7. PICK b \in Taken(Wanted(f)) :
          /\ Drop(b)
          /\ \/ /\ f \in {"int", "length"}
                /\ tempbuff' = Overlay(b)
                /\ ints' = Append(ints, IF f = "int" THEN Decode(tempbuff') ELSE DecodeLength(tempbuff'))
                /\ UNCHANGED bytes
             \/ /\ f \in {"path", "data"}
                /\ bytes' \in Held(b)
                /\ UNCHANGED <<tempbuff, ints>>
    BY <1>5 DEF ReadField
  <2> HIDE DEF f
  <2>8. b = <<>> /\ toServer' = <<>>
    BY <1>3, <2>4, <2>7
  <2>9. tempbuff' = Blank /\ bytes' = <<>>
    <3>1. Overlay(<<>>) = tempbuff
      <4>1. tempbuff = [i \in 1..4 |-> tempbuff[i]]
        BY <2>3 DEF Word
      <4>2. Len(<<>>) = 0
        OBVIOUS
      <4>3. Overlay(<<>>) = [i \in 1..4 |-> tempbuff[i]]
        BY <4>2 DEF Overlay
      <4> QED BY <4>1, <4>3
    <3>2. Held(<<>>) = {<<>>}
      <4>1. f = "path" => ints[1] = DecodeLength(Blank)
        <5>1. f = "path" => type = 1 /\ k = 1
          BY <2>4, <2>6, FieldTable
        <5>2. f = "path" => 1 \in 1..Len(ints)
          BY <2>6, <5>1 DEF IntsRead
        <5> QED BY <2>2, <5>1, <5>2 DEF BlankInt
      <4>2. f = "path" => Len(<<>>) # ints[1]
        BY <4>1, BlankLength, EmptySeq
      <4> QED BY <1>2, <4>2, HeldType DEF f
    <3> QED BY <2>2, <2>4, <2>7, <2>8, <3>1, <3>2 DEF Kinds
  <2>10. \A i \in 1..Len(ints') : ints'[i] = BlankInt(type', i)
    <3>1. CASE f \in {"path", "data"}
      BY <2>2, <2>3, <2>7, <3>1
    <3>2. CASE f \in {"int", "length"}
      <4> DEFINE n == Len(ints)
      <4>1. PICK v \in Int : ints' = Append(ints, v) /\ v = BlankInt(type, n + 1)
        <5>1. Decode(tempbuff') \in Int /\ DecodeLength(tempbuff') \in Int
          BY <2>9, BlankType, DecodeType
        <5>2. f = "length" <=> type = 1 /\ n + 1 = 1
          <6>1. f = "length" <=> type = 1 /\ k = 0
            BY <2>4, <2>6, FieldTable
          <6>2. k \in 0..4 /\ (n = 0 <=> k = 0) /\ n \in Nat
            BY <2>6, LenProperties DEF IntsRead
          <6> QED BY <6>1, <6>2
        <5>3. f = "length" => ints' = Append(ints, DecodeLength(Blank))
          BY <2>7, <2>9, <3>2
        <5>4. f = "int" => ints' = Append(ints, Decode(Blank))
          BY <2>7, <2>9, <3>2
        <5>5. BlankInt(type, n + 1) = IF f = "length" THEN DecodeLength(Blank) ELSE Decode(Blank)
          BY <5>2 DEF BlankInt
        <5> QED BY <2>9, <3>2, <5>1, <5>3, <5>4, <5>5
      <4>2. /\ Len(Append(ints, v)) = n + 1 /\ n \in Nat /\ Append(ints, v)[n + 1] = v
            /\ \A i \in 1..n : Append(ints, v)[i] = ints[i]
        BY <2>6, Appended
      <4>3. \A i \in 1..n + 1 : i \in 1..n \/ i = n + 1
        BY <4>2
      <4> HIDE DEF n
      <4>4. \A i \in 1..n : ints[i] = BlankInt(type, i)
        BY <2>2 DEF n
      <4> QED BY <2>3, <4>1, <4>2, <4>3, <4>4
    <3> QED BY <2>4, <3>1, <3>2 DEF Kinds
  <2>11. EmptyAt(k + 1)'
    BY <2>5, <2>9, <2>10 DEF EmptyAt
  <2> QED BY <1>1, <2>4, <2>8, <2>11 DEF Empty
<1> QED BY <1>4, <1>5

(* What such a handler asks of the system. *)
LEMMA EmptyRequest ==
  ASSUME TInv, Empty, Serve
  PROVE  /\ \A i \in DOMAIN Requested.args : Requested.args[i] = Decode(Blank)
         /\ Requested.data = <<>>
<1>1. PICK k \in 0..4 : EmptyAt(k)
  BY DEF Empty, Serve
<1>2. /\ AtField(k) /\ bytes = <<>>
      /\ \A i \in 1..Len(ints) : ints[i] = BlankInt(type, i)
  BY <1>1 DEF EmptyAt
<1>3. todo = <<>> /\ bytes \in Seq(Byte)
  BY DEF TInv, Serve
<1>4. /\ WellFormed(Requested) /\ k = Len(Fields[type]) /\ Requested.op = Ops[type]
      /\ Requested.data = bytes /\ type \in 1..7
  BY <1>2, <1>3, RequestedType
<1>5. ints \in Seq(Int) /\ Len(ints) = IntsRead(type, k)
  BY <1>2 DEF AtField
<1>6. CASE type = 1
  <2>1. k = 4 /\ Requested.args = Tail(ints)
    BY <1>4, <1>6, Opcodes, FieldKinds DEF Requested
  <2>2. Len(ints) = 3
    BY <1>5, <1>6, <2>1 DEF IntsRead
  <2>3. PICK t : /\ t = Tail(ints) /\ t \in Seq(Int) /\ Len(t) = 2
                 /\ t[1] = ints[2] /\ t[2] = ints[3]
    BY <1>5, <2>2, TailOfThree
  <2>4. ints[2] = Decode(Blank) /\ ints[3] = Decode(Blank)
    BY <1>2, <2>2 DEF BlankInt
  <2>5. DOMAIN t = {1, 2}
    <3>1. DOMAIN t = 1..2
      BY <2>3, LenProperties
    <3> QED BY <3>1
  <2> QED BY <1>2, <1>4, <2>1, <2>3, <2>4, <2>5
<1>7. CASE type # 1
  <2>1. Requested.args = ints
    <3>1. Ops[type] # "open"
      <4>1. type \in {2, 3, 4, 5, 6, 7}
        BY <1>4, <1>7
      <4> QED BY <4>1, Opcodes
    <3> QED BY <3>1 DEF Requested
  <2>2. DOMAIN ints = 1..Len(ints)
    BY <1>5, LenProperties
  <2>3. \A i \in 1..Len(ints) : ints[i] = Decode(Blank)
    BY <1>2, <1>7 DEF BlankInt
  <2> QED BY <1>2, <1>4, <2>1, <2>2, <2>3
<1> QED BY <1>6, <1>7

--------------------------------------------------------------------------------
(* Each step preserves the invariant. *)

(* A child that waits for bytes of a client still there does nothing. *)
LEMMA NothingToRead ==
  ASSUME TInv, toServer = <<>>, spc # "handler", ~Gone, ReadOpcode \/ ReadField
  PROVE  FALSE
<1>1. PICK b : b \in Taken(1)
  BY DEF ReadOpcode, ReadField
<1>2. toServer \in Seq(Byte) /\ 1 \in Int
  BY DEF TInv, TypeOK
<1>3. 1 <= 0 \/ Gone
  BY <1>1, <1>2, TakenType
<1> QED BY <1>3

LEMMA ReadInv ==
  ASSUME CallsSurvive, GarbageHarmless, IInv, ReadOpcode \/ ReadField
  PROVE  SInv' /\ PhantomsCarryNothing'
<1>1. TInv /\ SInv /\ PhantomsCarryNothing
  BY DEF IInv
<1>2. UNCHANGED <<cpc, calls, returns, toClient, errno, reset, log>>
  BY DEF ReadOpcode, ReadField, client
<1>3. PhantomsCarryNothing'
  BY <1>1, <1>2 DEF PhantomsCarryNothing
<1>4. cpc \in {"app", "wait", "ended", "killed"}
  BY <1>1 DEF TInv, TypeOK
<1>5. CASE cpc = "app"
  <2>1. toServer = <<>> /\ spc # "handler" /\ ~Gone
    BY <1>1, <1>5 DEF SInv, AppInv, Gone
  <2> QED BY <1>1, <2>1, NothingToRead
<1>6. CASE cpc = "wait"
  <2>1. (Underway /\ toClient = <<>>) \/ Replied \/ Unanswered
    BY <1>1, <1>6 DEF SInv, WaitInv
  <2>2. ~Replied /\ ~Unanswered
    <3>1. Replied \/ Unanswered => toServer = <<>> /\ spc # "handler" /\ ~Gone
      BY <1>6 DEF Replied, Unanswered, Gone
    <3> QED BY <1>1, <3>1, NothingToRead
  <2>3. Underway' /\ toClient' = <<>>
    BY <1>1, <1>2, <2>1, <2>2, UnderwayReads
  <2>4. Len(returns') = Len(calls') - 1 /\ ~reset'
    BY <1>1, <1>2, <1>6 DEF SInv, WaitInv
  <2> QED BY <1>2, <1>3, <1>6, <2>3, <2>4 DEF SInv, AppInv, WaitInv, EndedInv, KilledInv
<1>7. CASE cpc = "ended"
  <2>1. /\ Len(log) = Len(calls) /\ spc \in {"opcode", "exited", "aborted"}
        /\ spc = "opcode" => toServer = <<EOF>>
    BY <1>1, <1>7 DEF SInv, EndedInv
  <2>2. ReadOpcode /\ toServer = <<EOF>>
    BY <2>1 DEF ReadOpcode, ReadField
  <2>3. PICK e \in Byte : e = EOF /\ e \notin 1..7 /\ <<e>> \in Seq(Byte) /\ Len(<<e>>) = 1
    BY ByteArithmetic
  <2> DEFINE T(b) == IF b = <<>> THEN type ELSE b[1]
  <2>4. PICK b \in Taken(1) :
          /\ Drop(b) /\ type' = T(b)
          /\ T(b) \notin 1..7 => spc' = IF T(b) = EOF THEN "exited" ELSE "opcode"
    BY <2>2 DEF ReadOpcode
  <2>5. b = <<e>> /\ toServer' = <<>>
    <3>1. toServer = <<e>> \o <<>> /\ <<>> \in Seq(Byte)
      BY <2>2, <2>3, ConcatEmptySeq, EmptySeq
    <3>2. Taken(1) = {<<e>>} /\ (Drop(<<e>>) => toServer' = <<>>)
      BY <2>3, <3>1, TakesFront
    <3> QED BY <2>4, <3>2
  <2>6. T(b) = EOF
    BY <2>3, <2>5
  <2> HIDE DEF T
  <2>7. spc' = "exited"
    BY <2>3, <2>4, <2>6
  <2> QED BY <1>2, <1>3, <1>7, <2>1, <2>5, <2>7 DEF SInv, AppInv, WaitInv, EndedInv, KilledInv
<1>8. CASE cpc = "killed"
  <2>1. Underway \/ (Len(log) >= Len(calls) /\ Empty)
    BY <1>1, <1>8 DEF SInv, KilledInv
  <2>2. Underway' \/ (Len(log') >= Len(calls') /\ Empty')
    BY <1>1, <1>2, <2>1, UnderwayReads, EmptyReads
  <2> QED BY <1>2, <1>3, <1>8, <2>2 DEF SInv, AppInv, WaitInv, EndedInv, KilledInv
<1> QED BY <1>4, <1>5, <1>6, <1>7, <1>8

(* What a handler serves is the last call, once, as the wire leaves it; what it
   serves after that is nothing of the client's. *)
LEMMA ServeInv ==
  ASSUME IInv, Serve
  PROVE  SInv' /\ PhantomsCarryNothing'
<1>1. TInv /\ SInv /\ PhantomsCarryNothing
  BY DEF IInv
<1>2. /\ WellFormed(Requested)
      /\ UNCHANGED <<cpc, calls, returns, toServer, type, todo, tempbuff, ints, bytes>>
  BY <1>1, Served
<1>3. PICK o \in Outcomes(Requested), e \in Errors \union {0} :
        /\ log' = Append(log, [call |-> Requested, ret |-> o.ret, err |-> e, out |-> o.out])
        /\ Replies(o, e) \/ Dies
  BY <1>1, Served
<1>0. spc' # "handler"
  BY <1>3 DEF Replies, Dies
<1> DEFINE r == [call |-> Requested, ret |-> o.ret, err |-> e, out |-> o.out]
           n == Len(log)
<1>4. e \in Int
  BY RpcSessionAssumption
<1>5. /\ log' \in Seq(Entry) /\ Len(log') = n + 1 /\ n \in Nat /\ log'[n + 1] = r
      /\ \A i \in 1..n : log'[i] = log[i]
      /\ DOMAIN log' = 1..n + 1 /\ DOMAIN log = 1..n
  <2>1. o.ret \in Int /\ o.out \in Seq(Int) /\ Requested \in CallRecord
    BY <1>2, OutcomesType DEF WellFormed
  <2>2. r \in Entry
    BY <1>4, <2>1 DEF Entry
  <2>3. log \in Seq(Entry)
    BY <1>1 DEF TInv
  <2> HIDE DEF r
  <2>4. log' = Append(log, r)
    BY <1>3 DEF r
  <2> QED BY <2>2, <2>3, <2>4, Appended, LenProperties
<1>6. r.call = Requested /\ r.ret = o.ret /\ r.err = e /\ r.out = o.out
  OBVIOUS
<1> HIDE DEF r, n
<1>7. spc = "handler" /\ todo = <<>>
  BY DEF Serve
<1>8. Len(calls) \in Nat /\ Len(calls') = Len(calls) /\ calls \in Seq(Calls)
  BY <1>1, <1>2, LenProperties DEF TInv, TypeOK
<1>9. CASE Underway
  <2>1. PICK c \in Calls : c = Last(calls)
    <3>1. Len(calls) # 0
      BY <1>8, <1>9, EmptySeq DEF Underway
    <3> QED BY <1>8, <3>1, LastCall
  <2>2. Handling(c)
    BY <1>7, <1>9, <2>1 DEF Underway, Sending
  <2>3. Requested = Reached(c) /\ toServer = <<>>
    BY <1>1, <1>7, <2>2, HandlingDone
  <2>4. n + 1 = Len(calls) /\ Len(log') = Len(calls') /\ calls # <<>>
    BY <1>5, <1>8, <1>9 DEF Underway, n
  <2>5. PhantomsCarryNothing'
    <3>1. \A i \in DOMAIN log' : ~(i > Len(calls'))
      BY <1>5, <1>8, <2>4
    <3> QED BY <3>1 DEF PhantomsCarryNothing
  <2>6. CASE cpc = "wait"
    <3>1. toClient = <<>> /\ Len(returns) = Len(calls) - 1 /\ ~reset
      <4>1. ~Replied /\ ~Unanswered
        BY <1>7 DEF Replied, Unanswered
      <4> QED BY <1>1, <2>6, <4>1 DEF SInv, WaitInv
    <3>0. cpc' = "wait" /\ Len(returns') = Len(calls') - 1
      BY <1>2, <2>6, <3>1
    <3>11. CASE Dies
      <4>1. Unanswered' /\ ~reset'
        BY <1>2, <2>3, <2>4, <3>1, <3>11 DEF Dies, Unanswered
      <4> QED BY <2>5, <3>0, <4>1 DEF SInv, AppInv, WaitInv, EndedInv, KilledInv
    <3>12. CASE Replies(o, e)
      <4>0. /\ toClient' = IF Gone THEN toClient ELSE toClient \o Reply(Requested, o, e)
            /\ reset' = (reset \/ Gone)
            /\ spc' = (IF reset THEN "sigpipe" ELSE "opcode")
        BY <3>12 DEF Replies
      <4>2. PICK w \in Seq(Byte) : w = Reply(Requested, o, e)
        BY <1>2, <1>4, ReplyType
      <4>3. toClient' = Reply(Requested, o, e)
        <5>1. ~Gone
          BY <2>6 DEF Gone
        <5>2. <<>> \o w = w
          BY ConcatEmptySeq
        <5> QED BY <4>0, <3>1, <4>2, <5>1, <5>2
      <4>4. ~reset' /\ spc' = "opcode"
        BY <4>0, <2>6, <3>1 DEF Gone
      <4>5. PICK q : q = r
        OBVIOUS
      <4>6. log'[Len(log')] = q /\ Last(calls') = c
        BY <1>2, <1>5, <2>1, <4>5 DEF Last
      <4>7. ReplyTo(q, c)'
        <5>1. PICK d, p : d = Requested /\ p = o
          OBVIOUS
        <5>2. q.call = d /\ q.ret = p.ret /\ q.err = e /\ q.out = p.out
          BY <1>6, <4>5, <5>1
        <5>3. d = Reached(c) /\ p \in Outcomes(d) /\ toClient' = Reply(d, p, e)
          BY <2>3, <4>3, <5>1
        <5>4. q.call = Reached(c) /\ p \in Outcomes(q.call) /\ toClient' = Reply(q.call, p, q.err)
          BY <5>2, <5>3
        <5> QED BY <5>2, <5>4 DEF ReplyTo
      <4>8. ReplyTo(log[Len(log)], Last(calls))'
        BY <4>6, <4>7
      <4>9. Replied'
        BY <1>2, <2>3, <2>4, <4>4, <4>8 DEF Replied
      <4> QED BY <2>5, <3>0, <4>4, <4>9 DEF SInv, AppInv, WaitInv, EndedInv, KilledInv
    <3> QED BY <1>3, <3>11, <3>12
  <2>7. CASE cpc = "killed"
    <3>1. toServer' = <<>> /\ spc' # "handler"
      BY <1>0, <1>2, <2>3
    <3>2. Len(log') >= Len(calls')
      BY <1>8, <2>4
    <3>3. Empty'
      BY <3>1 DEF Empty
    <3>4. cpc' = "killed"
      BY <1>2, <2>7
    <3> QED BY <2>5, <3>2, <3>3, <3>4 DEF SInv, AppInv, WaitInv, EndedInv, KilledInv
  <2>8. cpc \in {"wait", "killed"}
    <3>1. cpc \in {"app", "wait", "ended", "killed"}
      BY <1>1 DEF TInv, TypeOK
    <3> QED BY <1>1, <1>7, <3>1 DEF SInv, AppInv, EndedInv
  <2> QED BY <2>6, <2>7, <2>8
<1>10. CASE ~Underway
  <2>1. cpc = "killed" /\ Len(log) >= Len(calls) /\ Empty
    <3>1. cpc \in {"app", "wait", "ended", "killed"}
      BY <1>1 DEF TInv, TypeOK
    <3> QED BY <1>1, <1>7, <1>10, <3>1 DEF SInv, AppInv, WaitInv, EndedInv, KilledInv, Replied, Unanswered
  <2>2. /\ \A i \in DOMAIN Requested.args : Requested.args[i] = Decode(Blank)
        /\ Requested.data = <<>>
    BY <1>1, <2>1, EmptyRequest
  <2>3. PhantomsCarryNothing'
    <3> SUFFICES ASSUME NEW i \in DOMAIN log', i > Len(calls')
                 PROVE  /\ \A k \in DOMAIN log'[i].call.args : log'[i].call.args[k] = Decode(Blank)
                        /\ log'[i].call.data = <<>>
      BY DEF PhantomsCarryNothing
    <3>1. CASE i \in 1..n
      <4>1. log'[i] = log[i] /\ i \in DOMAIN log /\ i > Len(calls)
        BY <1>5, <1>8, <3>1
      <4> QED BY <1>1, <4>1 DEF PhantomsCarryNothing
    <3>2. CASE i = n + 1
      BY <1>5, <1>6, <2>2, <3>2
    <3> QED BY <1>5, <3>1, <3>2
  <2>4. toServer' = <<>> /\ spc' # "handler" /\ cpc' = "killed"
    BY <1>0, <1>2, <2>1 DEF Empty
  <2>5. Len(log') >= Len(calls')
    BY <1>5, <1>8, <2>1 DEF n
  <2>6. Empty'
    BY <2>4 DEF Empty
  <2> QED BY <2>3, <2>4, <2>5, <2>6 DEF SInv, AppInv, WaitInv, EndedInv, KilledInv
<1> QED BY <1>9, <1>10

LEMMA InvokeInv ==
  ASSUME IInv, NEW c \in Calls, Invoke(c)
  PROVE  SInv' /\ PhantomsCarryNothing'
<1>1. TInv /\ SInv /\ PhantomsCarryNothing /\ cpc = "app"
  BY DEF IInv, Invoke
<1>2. /\ toServer = <<>> /\ toClient = <<>> /\ spc \in {"opcode", "aborted"} /\ ~reset
      /\ Len(log) = Len(calls) /\ Len(returns) = Len(calls)
  BY <1>1 DEF SInv, AppInv
<1>3. PICK g \in Garbage : toServer' = toServer \o Message(c, g)
  BY DEF Invoke
<1>4. /\ cpc' = "wait" /\ calls' = Append(calls, c)
      /\ UNCHANGED <<toClient, spc, reset, log, returns>>
  BY DEF Invoke
<1>5. /\ Len(calls') = Len(calls) + 1 /\ Len(calls) \in Nat /\ calls' # <<>> /\ Last(calls') = c
  BY <1>1, <1>4, Appended DEF TInv, TypeOK
<1>6. toServer' = Message(c, g)
  <2>1. PICK m \in Seq(Byte) : m = Message(c, g)
    BY MessageType
  <2>2. <<>> \o m = m
    BY ConcatEmptySeq
  <2> QED BY <1>2, <1>3, <2>1, <2>2
<1>7. Sending(c)' \/ spc' = "aborted"
  <2>1. PICK n \in 0..9 : n = (IF c.op = "dup2" THEN 9 ELSE 0) /\ (n > 0 => c.op = "dup2")
    OBVIOUS
  <2>2. toServer' = [i \in 1..n |-> g] \o (<<Opcode(c.op)>> \o Rest(Parts(c), 0))
    <3>1. Noise(c, g) = [i \in 1..n |-> g]
      BY <2>1 DEF Noise
    <3> QED BY <1>6, <3>1, MessageIsParts
  <2>3. spc' \in {"opcode", "aborted"}
    BY <1>2, <1>4
  <2> QED BY <2>1, <2>2, <2>3 DEF Sending
<1>8. Underway'
  <2>1. Len(log') = Len(calls') - 1
    BY <1>2, <1>4, <1>5
  <2>2. PICK d : d = c
    OBVIOUS
  <2>3. Last(calls') = d /\ (Sending(d)' \/ spc' = "aborted")
    BY <1>5, <1>7, <2>2
  <2> QED BY <1>5, <2>1, <2>3 DEF Underway
<1>9. toClient' = <<>> /\ ~reset' /\ Len(returns') = Len(calls') - 1
  BY <1>2, <1>4, <1>5
<1>10. PhantomsCarryNothing'
  <2>1. \A i \in DOMAIN log' : i > Len(calls') => i > Len(calls)
    <3>1. log \in Seq(Entry)
      BY <1>1 DEF TInv
    <3>2. \A i \in DOMAIN log : i \in Nat
      <4>1. DOMAIN log = 1..Len(log) /\ Len(log) \in Nat
        BY <3>1, LenProperties
      <4> QED BY <4>1
    <3> QED BY <1>4, <1>5, <3>2
  <2> QED BY <1>1, <1>4, <2>1 DEF PhantomsCarryNothing
<1> QED BY <1>4, <1>8, <1>9, <1>10 DEF SInv, AppInv, WaitInv, EndedInv, KilledInv

(* A call as the child has it. *)
LEMMA ReachedShape ==
  ASSUME CallsSurvive, NEW c \in Calls
  PROVE  /\ WellFormed(Reached(c)) /\ Reached(c).op = c.op
         /\ c.op = "read" => Reached(c).args[2] = c.args[2]
<1> DEFINE w == [i \in DOMAIN c.args |-> Wire(c.args[i])]
<1>1. Reached(c) = [op |-> c.op, args |-> w, data |-> c.data]
  <2>1. PICK p, a, d : c = [op |-> p, args |-> a, data |-> d]
    BY CallShape
  <2>2. [c EXCEPT !.args = w] = [op |-> p, args |-> w, data |-> d]
    <3> HIDE DEF w
    <3> QED BY <2>1
  <2>3. c.op = p /\ c.data = d
    BY <2>1
  <2>4. Reached(c) = [c EXCEPT !.args = w]
    BY DEF Reached
  <2> HIDE DEF w
  <2> QED BY <2>2, <2>3, <2>4
<1>2. c.args \in Seq(Int) /\ Len(c.args) = Arity[c.op] /\ c.data \in Seq(Byte)
  BY CallShape
<1>3. w \in Seq(Int) /\ Len(w) = Arity[c.op] /\ \A i \in 1..Len(c.args) : w[i] = Wire(c.args[i])
  <2>1. DOMAIN c.args = 1..Len(c.args) /\ Len(c.args) \in Nat
    BY <1>2, LenProperties
  <2>2. \A i \in 1..Len(c.args) : Wire(c.args[i]) \in Int
    BY CallShape, WireType
  <2>3. w \in Seq(Int) /\ Len(w) = Len(c.args) /\ \A i \in 1..Len(c.args) : w[i] = Wire(c.args[i])
    BY <2>1, <2>2
  <2> QED BY <1>2, <2>3
<1> HIDE DEF w
<1>4. Reached(c).op = c.op /\ Reached(c).args = w
  BY <1>1
<1>5. WellFormed(Reached(c))
  <2>1. c.op \in ToSet(Ops)
    BY CallShape, Opcodes
  <2>2. WellFormed([op |-> c.op, args |-> w, data |-> c.data])
    BY <1>2, <1>3, <2>1 DEF WellFormed, CallRecord
  <2> QED BY <1>1, <2>2
<1>6. c.op = "read" => w[2] = c.args[2]
  BY <1>3, Arguments DEF CallsSurvive
<1> QED BY <1>4, <1>5, <1>6

(* A stub's one read takes the whole reply. *)
LEMMA ReplyAsked ==
  ASSUME CallsSurvive, NEW c \in Calls, NEW o \in Outcomes(Reached(c)), NEW e \in Int
  PROVE  /\ Reply(Reached(c), o, e) \in Seq(Byte)
         /\ Len(Reply(Reached(c), o, e)) <= Asked(c)
<1>4. PICK d : /\ d = Reached(c) /\ WellFormed(d) /\ d.op = c.op
               /\ c.op = "read" => d.args[2] = c.args[2]
  BY ReachedShape
<1>5. Reply(d, o, e) \in Seq(Byte) /\ Len(Reply(d, o, e)) = ReplyLength(d, o)
  BY <1>4, ReplyType
<1>6. ReplyLength(d, o) <= Asked(c)
  <2>1. CASE c.op = "read"
    <3>1. c.args[2] \in Int /\ c.args[2] >= 0 /\ d.args[2] = c.args[2]
      BY <1>4, <2>1, CallShape, Arguments
    <3>2. o.ret = -1 \/ o.ret \in 0..d.args[2]
      <4>1. CASE o \in Failures(d)
        <5>1. o = [ret |-> -1, out |-> <<>>]
          BY <1>4, <2>1, <4>1 DEF Failures
        <5> QED BY <5>1
      <4>2. CASE o \in Successes(d)
        <5>1. PICK n \in 0..d.args[2] : o = [ret |-> n, out |-> [i \in 1..n |-> i % BASE]]
          BY <1>4, <2>1, <4>2 DEF Successes
        <5> QED BY <5>1
      <4> QED BY <1>4, <4>1, <4>2 DEF Outcomes
    <3>3. o.ret \in Int /\ o.ret <= c.args[2]
      BY <1>4, <3>1, <3>2
    <3>4. ReplyLength(d, o) = 8 + o.ret /\ Asked(c) = 8 + c.args[2]
      BY <1>4, <2>1 DEF ReplyLength, Asked
    <3> QED BY <3>1, <3>3, <3>4
  <2>2. CASE c.op = "pipe"
    BY <1>4, <2>2 DEF ReplyLength, Asked
  <2>3. CASE c.op \notin {"read", "pipe"}
    BY <1>4, <2>3 DEF ReplyLength, Asked
  <2> QED BY <2>1, <2>2, <2>3
<1> QED BY <1>4, <1>5, <1>6

LEMMA ReceiveInv ==
  ASSUME CallsSurvive, IInv, Receive
  PROVE  SInv' /\ PhantomsCarryNothing'
<1>1. TInv /\ SInv /\ PhantomsCarryNothing /\ cpc = "wait" /\ toClient # <<>>
  BY DEF IInv, Receive
<1>2. Replied /\ Len(returns) = Len(calls) - 1 /\ ~reset
  BY <1>1 DEF SInv, WaitInv, Unanswered
<1>3. calls \in Seq(Calls) /\ calls # <<>> /\ Len(calls) \in Nat /\ toClient \in Seq(Byte)
  BY <1>1, <1>2, LenProperties DEF TInv, TypeOK, Replied
<1>4. PICK c \in Calls : c = Last(calls)
  <2>1. Len(calls) # 0
    BY <1>3, EmptySeq
  <2> QED BY <1>3, <2>1, LastCall
<1> DEFINE n == IF Asked(c) < Len(toClient) THEN Asked(c) ELSE Len(toClient)
<1>5. /\ cpc' = "app" /\ UNCHANGED <<calls, toServer, spc, reset, log>>
      /\ \E g \in Garbage :
           /\ returns' = Append(returns, Decoded(c, SubSeq(toClient, 1, n), g))
           /\ toClient' = SubSeq(toClient, n + 1, Len(toClient))
  BY <1>4 DEF Receive
<1>6. n = Len(toClient) /\ Len(toClient) \in Nat
  <2>1. PICK r : r = log[Len(log)] /\ ReplyTo(r, c)
    BY <1>2, <1>4 DEF Replied
  <2>2. r.call = Reached(c) /\ r.err \in Errors \union {0}
    BY <2>1 DEF ReplyTo
  <2>3. PICK o \in Outcomes(Reached(c)) : toClient = Reply(Reached(c), o, r.err)
    <3>1. PICK o \in Outcomes(r.call) : toClient = Reply(r.call, o, r.err)
      BY <2>1 DEF ReplyTo
    <3> QED BY <2>2, <3>1
  <2>4. r.err \in Int
    <3>1. \A x \in Errors \union {0} : x \in Int
      BY RpcSessionAssumption
    <3> HIDE DEF n
    <3> QED BY <2>2, <3>1
  <2>5. Len(toClient) <= Asked(c)
    BY <2>3, <2>4, ReplyAsked
  <2>6. Asked(c) \in Nat /\ Len(toClient) \in Nat
    BY <1>3, AskedType, LenProperties
  <2> QED BY <2>5, <2>6
<1> HIDE DEF n
<1>7. toClient' = <<>>
  <2>1. n \in 0..Len(toClient)
    BY <1>6
  <2>2. SubSeq(toClient, n + 1, Len(toClient)) = <<>>
    BY <1>3, <1>6, <2>1, Remainder
  <2> QED BY <1>5, <2>2
<1>8. Len(returns') = Len(calls')
  <2>1. PICK g \in Garbage : returns' = Append(returns, Decoded(c, SubSeq(toClient, 1, n), g))
    BY <1>5
  <2>2. SubSeq(toClient, 1, n) \in Seq(Byte)
    BY <1>3, <1>6, WholeSeq
  <2>3. Len(returns') = Len(returns) + 1 /\ Len(returns) \in Nat
    BY <1>1, <2>1, <2>2, DecodedType, Appended DEF TInv
  <2> QED BY <1>2, <1>3, <1>5, <2>3
<1>9. toServer' = <<>> /\ spc' \in {"opcode", "aborted"} /\ Len(log') = Len(calls') /\ ~reset'
  BY <1>2, <1>5 DEF Replied
<1>10. PhantomsCarryNothing'
  BY <1>1, <1>5 DEF PhantomsCarryNothing
<1> QED BY <1>5, <1>7, <1>8, <1>9, <1>10 DEF SInv, AppInv, WaitInv, EndedInv, KilledInv

LEMMA EndInv ==
  ASSUME IInv, End
  PROVE  SInv' /\ PhantomsCarryNothing'
<1>1. TInv /\ SInv /\ PhantomsCarryNothing /\ cpc = "app"
  BY DEF IInv, End
<1>2. toServer = <<>> /\ spc \in {"opcode", "aborted"} /\ Len(log) = Len(calls)
  BY <1>1 DEF SInv, AppInv
<1>3. /\ cpc' = "ended" /\ toServer' = Append(toServer, EOF)
      /\ UNCHANGED <<calls, spc, log>>
  BY DEF End
<1>4. toServer' = <<EOF>>
  BY <1>2, <1>3
<1>5. PhantomsCarryNothing'
  BY <1>1, <1>3 DEF PhantomsCarryNothing
<1> QED BY <1>2, <1>3, <1>4, <1>5 DEF SInv, AppInv, WaitInv, EndedInv, KilledInv

(* Whatever does not concern the child leaves a call under way. *)
LEMMA UnderwayStays ==
  ASSUME Underway, UNCHANGED <<calls, log, toServer, spc, type, todo, tempbuff, ints, bytes>>
  PROVE  Underway'
<1>1. ASSUME NEW c, Sending(c) PROVE Sending(c)'
  BY <1>1 DEF Sending
<1>2. ASSUME NEW c, Handling(c) PROVE Handling(c)'
  <2>1. PICK k \in 0..4 : HandlingAt(c, k)
    BY <1>2 DEF Handling
  <2>2. AtField(k)'
    BY <2>1 DEF HandlingAt, AtField
  <2>3. HandlingAt(c, k)'
    BY <2>1, <2>2 DEF HandlingAt
  <2> QED BY <2>3 DEF Handling
<1>3. PICK c : c = Last(calls)
  OBVIOUS
<1>4. Last(calls') = c
  BY <1>3 DEF Last
<1>5. Sending(c)' \/ Handling(c)' \/ spc' = "aborted"
  BY <1>1, <1>2, <1>3 DEF Underway
<1> QED BY <1>4, <1>5 DEF Underway

LEMMA EmptyStays ==
  ASSUME Empty, UNCHANGED <<toServer, spc, type, todo, tempbuff, ints, bytes>>
  PROVE  Empty'
<1>1. ASSUME NEW k \in 0..4, EmptyAt(k) PROVE EmptyAt(k)'
  <2>1. AtField(k)'
    BY <1>1 DEF EmptyAt, AtField
  <2> QED BY <1>1, <2>1 DEF EmptyAt
<1> QED BY <1>1 DEF Empty

LEMMA RepliedStays ==
  ASSUME UNCHANGED <<calls, toServer, toClient, log>>, spc' \in {spc, "aborted"}
  PROVE  Replied => Replied'
<1>1. ASSUME NEW r, NEW c, ReplyTo(r, c) PROVE ReplyTo(r, c)'
  BY <1>1 DEF ReplyTo
<1>2. PICK r, c : r = log[Len(log)] /\ c = Last(calls)
  OBVIOUS
<1>3. log'[Len(log')] = r /\ Last(calls') = c
  BY <1>2 DEF Last
<1>4. Replied => ReplyTo(r, c)'
  BY <1>1, <1>2 DEF Replied
<1> QED BY <1>3, <1>4 DEF Replied

(* A child that dies leaves the streams as they are. *)
LEMMA AbortInv ==
  ASSUME IInv, Abort
  PROVE  SInv' /\ PhantomsCarryNothing'
<1>1. TInv /\ SInv /\ PhantomsCarryNothing
  BY DEF IInv
<1>2. /\ UNCHANGED <<cpc, calls, returns, toServer, toClient, reset, log>>
      /\ spc' = "aborted" /\ spc \in {"opcode", "handler"}
  BY DEF Abort, client
<1>3. Underway => Underway'
  BY <1>2 DEF Underway
<1>4. Empty => Empty'
  BY <1>2 DEF Empty
<1>5. (Replied => Replied') /\ ~Unanswered
  BY <1>2, RepliedStays DEF Unanswered
<1>6. PhantomsCarryNothing'
  BY <1>1, <1>2 DEF PhantomsCarryNothing
<1> QED BY <1>1, <1>2, <1>3, <1>4, <1>5, <1>6 DEF SInv, AppInv, WaitInv, EndedInv, KilledInv

LEMMA KillInv ==
  ASSUME IInv, Kill
  PROVE  SInv' /\ PhantomsCarryNothing'
<1>1. TInv /\ SInv /\ PhantomsCarryNothing /\ cpc \in {"app", "wait"}
  BY DEF IInv, Kill
<1>2. /\ cpc' = "killed"
      /\ UNCHANGED <<calls, returns, toServer, toClient, spc, type, todo, tempbuff, ints, bytes, log>>
  BY DEF Kill, handler
<1>3. Underway \/ (Len(log) = Len(calls) /\ Empty)
  <2>1. CASE cpc = "app"
    BY <1>1, <2>1 DEF SInv, AppInv, Empty
  <2>2. CASE cpc = "wait"
    BY <1>1, <2>2 DEF SInv, WaitInv, Replied, Unanswered, Empty
  <2> QED BY <1>1, <2>1, <2>2
<1>4. Len(calls) \in Nat
  BY <1>1, LenProperties DEF TInv, TypeOK
<1>5. Underway' \/ (Len(log') >= Len(calls') /\ Empty')
  <2>1. Underway => Underway'
    BY <1>2, UnderwayStays
  <2>2. Empty => Empty'
    BY <1>2, EmptyStays
  <2>3. Len(log) = Len(calls) => Len(log') >= Len(calls')
    BY <1>2, <1>4
  <2> QED BY <1>3, <2>1, <2>2, <2>3
<1>6. PhantomsCarryNothing'
  BY <1>1, <1>2 DEF PhantomsCarryNothing
<1> QED BY <1>2, <1>5, <1>6 DEF SInv, AppInv, WaitInv, EndedInv, KilledInv

LEMMA StutterInv ==
  ASSUME IInv, UNCHANGED vars
  PROVE  SInv' /\ PhantomsCarryNothing'
<1>1. TInv /\ SInv /\ PhantomsCarryNothing
  BY DEF IInv
<1>2. /\ UNCHANGED <<cpc, calls, returns, toServer, toClient, spc, type, todo, tempbuff, ints, bytes>>
      /\ UNCHANGED <<errno, reset, log>>
  BY DEF vars, client, handler
<1>3. Underway => Underway'
  BY <1>2, UnderwayStays
<1>4. Empty => Empty'
  BY <1>2, EmptyStays
<1>5. (Replied => Replied') /\ (Unanswered => Unanswered')
  BY <1>2, RepliedStays DEF Unanswered
<1>6. PhantomsCarryNothing'
  BY <1>1, <1>2 DEF PhantomsCarryNothing
<1> QED BY <1>1, <1>2, <1>3, <1>4, <1>5, <1>6 DEF SInv, AppInv, WaitInv, EndedInv, KilledInv

LEMMA IInvInitial == Init => IInv
<1> SUFFICES ASSUME Init PROVE IInv
  OBVIOUS
<1>1. TInv
  BY TInvInitial
<1>2. /\ cpc = "app" /\ toServer = <<>> /\ toClient = <<>> /\ spc = "opcode" /\ reset = FALSE
      /\ log = <<>> /\ calls = <<>> /\ returns = <<>>
  BY DEF Init
<1>3. SInv
  BY <1>2 DEF SInv, AppInv, WaitInv, EndedInv, KilledInv
<1>4. PhantomsCarryNothing
  <2>1. DOMAIN <<>> = {}
    OBVIOUS
  <2> QED BY <1>2, <2>1 DEF PhantomsCarryNothing
<1> QED BY <1>1, <1>3, <1>4 DEF IInv

LEMMA IInvNext == CallsSurvive /\ GarbageHarmless /\ IInv /\ [Next]_vars => IInv'
<1> SUFFICES ASSUME CallsSurvive, GarbageHarmless, IInv, [Next]_vars PROVE IInv'
  OBVIOUS
<1>1. TInv'
  BY TInvNext DEF IInv
<1>2. SInv' /\ PhantomsCarryNothing'
  <2>1. CASE UNCHANGED vars
    BY <2>1, StutterInv
  <2>2. CASE ReadOpcode \/ ReadField
    BY <2>2, ReadInv
  <2>3. CASE Serve
    BY <2>3, ServeInv
  <2>4. CASE \E c \in Calls : Invoke(c)
    BY <2>4, InvokeInv
  <2>5. CASE Receive
    BY <2>5, ReceiveInv
  <2>6. CASE End
    BY <2>6, EndInv
  <2>7. CASE Kill
    BY <2>7, KillInv
  <2>8. CASE Abort
    BY <2>8, AbortInv
  <2> QED BY <2>1, <2>2, <2>3, <2>4, <2>5, <2>6, <2>7, <2>8 DEF Next, Child, Client
<1> QED BY <1>1, <1>2 DEF IInv

LEMMA IInvImplies == IInv => StreamsDrained /\ PhantomsCarryNothing /\ ChildOutlivesClient
<1> SUFFICES ASSUME IInv PROVE StreamsDrained /\ PhantomsCarryNothing /\ ChildOutlivesClient
  OBVIOUS
<1>1. StreamsDrained
  BY DEF IInv, SInv, AppInv, StreamsDrained
<1>2. ChildOutlivesClient
  <2>1. cpc \in {"app", "wait", "ended", "killed"}
    BY DEF IInv, TInv, TypeOK
  <2>2. cpc = "app" => spc \in {"opcode", "aborted"}
    BY DEF IInv, SInv, AppInv
  <2>3. cpc = "wait" => spc \in {"opcode", "handler", "aborted"}
    BY DEF IInv, SInv, WaitInv, Underway, Sending, Handling, HandlingAt, AtField, Replied, Unanswered
  <2> QED BY <2>1, <2>2, <2>3 DEF ChildOutlivesClient, Gone
<1> QED BY <1>1, <1>2 DEF IInv

(* Of a program whose calls survive the wire, and whose fresh memory holds no
   opcode: between calls nothing is left on either stream and the child stands at
   its loop, if a write that overran has not killed it, whatever was interleaved
   (r_client.c:85-400, r_server.c:46-415). *)
THEOREM SessionDrained ==
  ASSUME CallsSurvive, GarbageHarmless
  PROVE  Spec => []StreamsDrained
<1>1. IInv /\ [Next]_vars => IInv'
  BY IInvNext
<1> QED BY <1>1, IInvInitial, IInvImplies, PTL DEF Spec

(* A child whose client was killed makes no call with anything of the client's
   in it (r_server.c:369-406). *)
THEOREM PhantomsHarmless ==
  ASSUME CallsSurvive, GarbageHarmless
  PROVE  Spec => []PhantomsCarryNothing
<1>1. IInv /\ [Next]_vars => IInv'
  BY IInvNext
<1> QED BY <1>1, IInvInitial, IInvImplies, PTL DEF Spec

(* No argument of a call is taken for EOF (r_server.c:371). *)
THEOREM ChildStays ==
  ASSUME CallsSurvive, GarbageHarmless
  PROVE  Spec => []ChildOutlivesClient
<1>1. IInv /\ [Next]_vars => IInv'
  BY IInvNext
<1> QED BY <1>1, IInvInitial, IInvImplies, PTL DEF Spec

--------------------------------------------------------------------------------
(* The numbers that survive. *)
LEMMA SmallQuotient ==
  ASSUME NEW n \in Nat, NEW m \in Nat, n < m
  PROVE  n \div m = 0
OBVIOUS

LEMMA MinusOneQuotient ==
  ASSUME NEW m \in Nat, m > 0
  PROVE  (-1) \div m = -1
OBVIOUS

LEMMA Powers ==
  /\ BASE \in Nat /\ BASE * BASE \in Nat /\ BASE * BASE * BASE \in Nat
  /\ BASE > 0 /\ BASE * BASE >= BASE /\ BASE * BASE * BASE >= BASE
<1>1. BASE \in Nat /\ BASE >= 16
  BY ByteArithmetic
<1>2. \A m \in Nat : m >= BASE => m * BASE \in Nat /\ m * BASE >= BASE
  BY <1>1
<1>3. BASE * BASE \in Nat /\ BASE * BASE >= BASE
  BY <1>1, <1>2
<1>4. BASE * BASE * BASE \in Nat /\ BASE * BASE * BASE >= BASE
  BY <1>2, <1>3
<1> QED BY <1>1, <1>3, <1>4

(* A number below half a byte's range survives the wire, and so does -1. *)
LEMMA ShortNumbers ==
  ASSUME NEW n \in 0 .. HALF - 1
  PROVE  Wire(n) = n /\ DecodeLength(EncodeLength(n)) = n
<1>1. HALF \in Nat /\ HALF > 0 /\ HALF < BASE /\ BASE \in Nat /\ n \in Nat /\ n < HALF /\ n < BASE
  BY RpcWireAssumption DEF HALF
<1>2. n \div BASE = 0 /\ n \div (BASE * BASE) = 0 /\ n \div (BASE * BASE * BASE) = 0
  <2>1. n < BASE * BASE /\ n < BASE * BASE * BASE
    BY <1>1, Powers
  <2> QED BY <1>1, <2>1, Powers, SmallQuotient
<1>3. n % BASE = n /\ 0 % BASE = 0
  BY <1>1
<1>4. Encode(n) = <<0, 0, 0, n>> /\ EncodeLength(n) = <<0, n>>
  BY <1>2, <1>3 DEF Encode, EncodeLength
<1>5. Signed(0) = 0 /\ OrChar(0, 0) = 0 /\ OrChar(0, n) = n
  BY <1>1 DEF Signed, OrChar
<1>6. Decode(<<0, 0, 0, n>>) = n /\ DecodeLength(<<0, n>>) = n
  BY <1>5 DEF Decode, DecodeLength
<1> QED BY <1>4, <1>6 DEF Wire

LEMMA MinusOneSurvives == Wire(-1) = -1
<1>1. HALF \in Nat /\ HALF < BASE /\ BASE \in Nat /\ BASE >= 16
  BY RpcWireAssumption DEF HALF
<1>2. (-1) \div BASE = -1 /\ (-1) \div (BASE * BASE) = -1 /\ (-1) \div (BASE * BASE * BASE) = -1
  <2>1. BASE > 0 /\ BASE * BASE > 0 /\ BASE * BASE * BASE > 0
    BY <1>1, Powers
  <2> QED BY <2>1, Powers, MinusOneQuotient
<1>3. (-1) % BASE = BASE - 1
  BY <1>1
<1>4. Encode(-1) = <<BASE - 1, BASE - 1, BASE - 1, BASE - 1>>
  BY <1>2, <1>3 DEF Encode
<1>5. Signed(BASE - 1) = -1 /\ \A x \in Int : OrChar(x, BASE - 1) = -1
  <2>1. BASE - 1 >= HALF /\ BASE - 1 - BASE = -1
    BY <1>1
  <2> QED BY <2>1 DEF Signed, OrChar
<1>6. Decode(<<BASE - 1, BASE - 1, BASE - 1, BASE - 1>>) = -1
  BY <1>5 DEF Decode
<1> QED BY <1>4, <1>6 DEF Wire

(* Every count read can return comes back whole. *)
CountsSurvive == \A c \in Calls : c.op = "read" => \A n \in 0..c.args[2] : Wire(n) = n

(* The paths, reads and writes are shorter than half a byte's range, and the
   paths leave room for a NUL: pgm1.c and pgm2.c read and write one byte at a
   time, and open names of a few bytes. *)
ShortCalls ==
  \A c \in Calls :
    /\ c.op = "open" => Len(c.data) < HALF /\ Len(c.data) \notin Snug
    /\ c.op \in {"read", "write"} => c.args[2] < HALF

(* For these the conditions of the other theorems hold (r_client.c:60-82). *)
THEOREM ShortCallsSurvive == ShortCalls => CallsSurvive /\ CountsSurvive
<1> SUFFICES ASSUME ShortCalls PROVE CallsSurvive /\ CountsSurvive
  OBVIOUS
<1>1. HALF \in Int
  BY ByteArithmetic
<1>2. ASSUME NEW c \in Calls, c.op = "open"
      PROVE  DecodeLength(EncodeLength(Len(c.data))) = Len(c.data) /\ Len(c.data) \notin Snug
  <2>1. Len(c.data) \in 0 .. HALF - 1 /\ Len(c.data) \notin Snug
    BY <1>1, <1>2, CallShape DEF ShortCalls
  <2> QED BY <2>1, ShortNumbers
<1>3. ASSUME NEW c \in Calls, c.op \in {"read", "write"}
      PROVE  c.args[2] \in 0 .. HALF - 1
  <2>1. c.args[2] \in Int /\ c.args[2] < HALF
    BY <1>3, Arguments DEF ShortCalls
  <2>2. c.args[2] >= 0
    <3>1. c.op = "read" => c.args[2] >= 0
      BY CallShape
    <3>2. c.op = "write" => c.args[2] = Len(c.data) /\ Len(c.data) \in Nat
      BY CallShape
    <3> QED BY <1>3, <3>1, <3>2
  <2> QED BY <1>1, <2>1, <2>2
<1>4. ASSUME NEW c \in Calls, c.op = "read", NEW n \in 0..c.args[2]
      PROVE  Wire(n) = n
  <2>1. c.args[2] \in 0 .. HALF - 1
    BY <1>3, <1>4
  <2>2. n \in 0 .. HALF - 1
    BY <1>1, <1>4, <2>1
  <2> QED BY <2>2, ShortNumbers
<1>5. CallsSurvive
  BY <1>2, <1>3, ShortNumbers DEF CallsSurvive
<1>6. CountsSurvive
  BY <1>4 DEF CountsSurvive
<1> QED BY <1>5, <1>6

--------------------------------------------------------------------------------
(* What a stub decodes is what its handler replied. *)
LEMMA Indexes ==
  ASSUME NEW a \in Seq(Byte), NEW b \in Seq(Byte)
  PROVE  /\ \A i \in 1..Len(a) : (a \o b)[i] = a[i]
         /\ \A i \in 1..Len(b) : (a \o b)[Len(a) + i] = b[i]
<1>1. Len(a) \in Nat /\ Len(b) \in Nat
  BY Lengths
<1>2. \A i \in 1..Len(a) + Len(b) : (a \o b)[i] = IF i <= Len(a) THEN a[i] ELSE b[i - Len(a)]
  BY ConcatProperties
<1>3. ASSUME NEW i \in 1..Len(a) PROVE (a \o b)[i] = a[i]
  BY <1>1, <1>2
<1>4. ASSUME NEW i \in 1..Len(b) PROVE (a \o b)[Len(a) + i] = b[i]
  <2>1. Len(a) + i \in 1..Len(a) + Len(b) /\ ~(Len(a) + i <= Len(a)) /\ (Len(a) + i) - Len(a) = i
    BY <1>1
  <2> QED BY <1>2, <2>1
<1> QED BY <1>3, <1>4

LEMMA Fronts ==
  ASSUME NEW s \in Seq(Byte), NEW n \in Nat, n <= Len(s)
  PROVE  \A i \in 1..n : SubSeq(s, 1, n)[i] = s[i]
<1>1. \A i \in 1..n : s[i] \in Byte
  <2>1. Len(s) \in Nat /\ \A i \in 1..Len(s) : s[i] \in Byte
    BY LenProperties, ElementOfSeq
  <2> QED BY <2>1
<1>2. \A i \in 1..n - 1 + 1 : SubSeq(s, 1, n)[i] = s[1 + i - 1]
  BY <1>1, SubSeqProperties
<1> QED BY <1>2

(* Four bytes of a sequence are the int x. *)
IntAt(r, j, x) == j + 4 <= Len(r) /\ \A k \in 1..4 : r[j + k] = Encode(x)[k]

LEMMA DecodesInt ==
  ASSUME NEW r \in Seq(Byte), NEW x \in Int, NEW j \in Nat, IntAt(r, 4 * j, x), NEW g
  PROVE  Decode([k \in 1..4 |-> IF 4 * j + k <= Len(r) THEN r[4 * j + k] ELSE g]) = Wire(x)
<1>1. Len(r) \in Nat /\ 4 * j \in Nat
  BY LenProperties
<1>2. 4 * j + 4 <= Len(r) /\ \A k \in 1..4 : r[4 * j + k] = Encode(x)[k]
  BY DEF IntAt
<1>3. \A k \in 1..4 : (IF 4 * j + k <= Len(r) THEN r[4 * j + k] ELSE g) = Encode(x)[k]
  BY <1>1, <1>2
<1> DEFINE w == [k \in 1..4 |-> IF 4 * j + k <= Len(r) THEN r[4 * j + k] ELSE g]
<1>4. w[1] = Encode(x)[1] /\ w[2] = Encode(x)[2] /\ w[3] = Encode(x)[3] /\ w[4] = Encode(x)[4]
  BY <1>3
<1> HIDE DEF w
<1>5. Decode(w) = Decode(Encode(x))
  BY <1>4 DEF Decode
<1> QED BY <1>5 DEF Wire, w

LEMMA TwoInts ==
  ASSUME NEW x \in Int, NEW y \in Int
  PROVE  /\ Encode(x) \o Encode(y) \in Seq(Byte) /\ Len(Encode(x) \o Encode(y)) = 8
         /\ IntAt(Encode(x) \o Encode(y), 0, x) /\ IntAt(Encode(x) \o Encode(y), 4, y)
<1>1. PICK a \in Seq(Byte), b \in Seq(Byte) : /\ a = Encode(x) /\ b = Encode(y)
                                              /\ Len(a) = 4 /\ Len(b) = 4
  BY EncodeType
<1>2. a \o b \in Seq(Byte) /\ Len(a \o b) = 8
  <2>1. a \o b \in Seq(Byte) /\ Len(a \o b) = Len(a) + Len(b)
    BY Lengths
  <2> QED BY <1>1, <2>1
<1>3. \A i \in 1..4 : (a \o b)[0 + i] = a[i] /\ (a \o b)[4 + i] = b[i]
  <2>1. /\ \A i \in 1..Len(a) : (a \o b)[i] = a[i]
        /\ \A i \in 1..Len(b) : (a \o b)[Len(a) + i] = b[i]
    BY Indexes
  <2>2. \A i \in 1..4 : 0 + i = i
    OBVIOUS
  <2> QED BY <1>1, <2>1, <2>2
<1>4. IntAt(a \o b, 0, x)
  <2>1. 0 + 4 <= Len(a \o b)
    BY <1>2
  <2> QED BY <1>1, <1>3, <2>1 DEF IntAt
<1>5. IntAt(a \o b, 4, y)
  <2>1. 4 + 4 <= Len(a \o b)
    BY <1>2
  <2> QED BY <1>1, <1>3, <2>1 DEF IntAt
<1> QED BY <1>1, <1>2, <1>4, <1>5

(* Bytes put before or cut off behind them leave ints where they are. *)
LEMMA IntBefore ==
  ASSUME NEW a \in Seq(Byte), NEW b \in Seq(Byte), NEW j \in Nat, NEW x, IntAt(a, j, x)
  PROVE  IntAt(a \o b, j, x)
<1>1. Len(a \o b) = Len(a) + Len(b) /\ Len(a) \in Nat /\ Len(b) \in Nat
  BY Lengths
<1>2. j + 4 <= Len(a) /\ \A k \in 1..4 : a[j + k] = Encode(x)[k]
  BY DEF IntAt
<1>3. \A k \in 1..4 : (a \o b)[j + k] = a[j + k]
  <2>1. \A k \in 1..4 : j + k \in 1..Len(a)
    BY <1>1, <1>2
  <2> QED BY <2>1, Indexes
<1>4. j + 4 <= Len(a \o b)
  BY <1>1, <1>2
<1> QED BY <1>2, <1>3, <1>4 DEF IntAt

LEMMA IntBehind ==
  ASSUME NEW a \in Seq(Byte), NEW b \in Seq(Byte), NEW j \in Nat, NEW x, IntAt(b, j, x),
         NEW n, n = Len(a) + j
  PROVE  IntAt(a \o b, n, x)
<1>1. Len(a \o b) = Len(a) + Len(b) /\ Len(a) \in Nat /\ Len(b) \in Nat
  BY Lengths
<1>2. j + 4 <= Len(b) /\ \A k \in 1..4 : b[j + k] = Encode(x)[k]
  BY DEF IntAt
<1>3. \A k \in 1..4 : (a \o b)[n + k] = b[j + k]
  <2>1. \A k \in 1..4 : j + k \in 1..Len(b) /\ n + k = Len(a) + (j + k)
    BY <1>1, <1>2
  <2> QED BY <2>1, Indexes
<1>4. n + 4 <= Len(a \o b)
  BY <1>1, <1>2
<1> QED BY <1>2, <1>3, <1>4 DEF IntAt

LEMMA IntInFront ==
  ASSUME NEW s \in Seq(Byte), NEW n \in Nat, n <= Len(s), NEW j \in Nat, j + 4 <= n,
         NEW x, IntAt(s, j, x)
  PROVE  IntAt(SubSeq(s, 1, n), j, x)
<1>1. Len(SubSeq(s, 1, n)) = n
  BY FrontType
<1>2. \A k \in 1..4 : SubSeq(s, 1, n)[j + k] = s[j + k]
  <2>1. \A k \in 1..4 : j + k \in 1..n
    OBVIOUS
  <2> QED BY <2>1, Fronts
<1> QED BY <1>1, <1>2 DEF IntAt

(* Where the parts of a reply are. *)
ReplyHolds(c, o, e, r) ==
  /\ r \in Seq(Byte) /\ IntAt(r, 0, o.ret)
  /\ c.op # "read" \/ o.ret # -1 => IntAt(r, 4, e)
  /\ c.op = "read" => Len(r) = 8 + o.ret /\ \A k \in 1..o.ret : r[8 + k] = o.out[k]
  /\ c.op = "pipe" => IntAt(r, 8, o.out[1]) /\ IntAt(r, 12, o.out[2])

LEMMA ReplyParts ==
  ASSUME NEW c, WellFormed(c), NEW o \in Outcomes(c), NEW e \in Int,
         NEW r, r = Reply(c, o, e)
  PROVE  ReplyHolds(c, o, e, r)
<1>1. r \in Seq(Byte) /\ o.ret \in Int
  BY ReplyType, OutcomesType
<1>2. PICK h \in Seq(Byte) : /\ h = Encode(o.ret) \o Encode(e) /\ Len(h) = 8
                             /\ IntAt(h, 0, o.ret) /\ IntAt(h, 4, e)
  BY <1>1, TwoInts
<1>3. CASE c.op = "read"
  <2>1. PICK d \in Seq(Byte) : d = o.out /\ Len(d) = IF o.ret = -1 THEN 0 ELSE o.ret
    BY <1>3, OutcomesType
  <2>2. PICK s \in Seq(Byte) : s = h \o d /\ Len(s) = 8 + Len(d)
    <3>1. h \o d \in Seq(Byte) /\ Len(h \o d) = Len(h) + Len(d)
      BY Lengths
    <3> QED BY <1>2, <3>1
  <2>3. PICK n \in Nat : n = 8 + o.ret /\ n >= 7 /\ n <= Len(s) /\ (o.ret # -1 => n >= 8)
    <3>1. o.ret >= -1
      BY <1>3, OutcomesType
    <3> QED BY <1>1, <2>1, <2>2, <3>1
  <2>4. r = SubSeq(s, 1, n)
    BY <1>2, <1>3, <2>1, <2>2, <2>3 DEF Reply
  <2>5. IntAt(s, 0, o.ret) /\ IntAt(s, 4, e)
    BY <1>2, <2>2, IntBefore
  <2>6. IntAt(r, 0, o.ret)
    <3>1. 0 \in Nat /\ 0 + 4 <= n
      BY <2>3
    <3> QED BY <2>3, <2>4, <2>5, <3>1, IntInFront
  <2>7. o.ret # -1 => IntAt(r, 4, e)
    <3>1. o.ret # -1 => 4 \in Nat /\ 4 + 4 <= n
      BY <2>3
    <3> QED BY <2>3, <2>4, <2>5, <3>1, IntInFront
  <2>8. \A k \in 1..o.ret : r[8 + k] = o.out[k]
    <3> TAKE k \in 1..o.ret
    <3>1. 8 + k \in 1..n /\ k \in 1..Len(d)
      BY <1>1, <2>1, <2>3
    <3>2. r[8 + k] = s[8 + k]
      BY <2>3, <2>4, <3>1, Fronts
    <3>3. s[8 + k] = d[k]
      BY <1>2, <2>2, <3>1, Indexes
    <3> QED BY <2>1, <3>2, <3>3
  <2>9. Len(r) = 8 + o.ret
    BY <2>3, <2>4, FrontType
  <2> QED BY <1>1, <1>3, <2>6, <2>7, <2>8, <2>9 DEF ReplyHolds
<1>4. CASE c.op = "pipe"
  <2>1. Len(o.out) = 2 /\ o.out[1] \in Int /\ o.out[2] \in Int /\ o.out \in Seq(Int)
    BY <1>4, OutcomesType
  <2>2. PICK x \in Int, y \in Int : o.out = <<x, y>> /\ x = o.out[1] /\ y = o.out[2]
    BY <2>1
  <2>3. PICK d \in Seq(Byte) : d = Encode(x) \o Encode(y) /\ IntAt(d, 0, x) /\ IntAt(d, 4, y)
    BY <2>2, TwoInts
  <2>4. EncodeAll(o.out) = d
    <3>1. EncodeAll(o.out) = FlattenSeq(<<Encode(x), Encode(y)>>)
      <4>1. [i \in DOMAIN <<x, y>> |-> Encode(<<x, y>>[i])] = <<Encode(x), Encode(y)>>
        OBVIOUS
      <4> QED BY <2>2, <4>1 DEF EncodeAll
    <3>2. FlattenSeq(<<Encode(x), Encode(y)>>) = Encode(x) \o Encode(y)
      BY FlattenTwo
    <3> QED BY <2>3, <3>1, <3>2
  <2>5. r = h \o d
    BY <1>2, <1>4, <2>4 DEF Reply
  <2>6. IntAt(r, 0, o.ret) /\ IntAt(r, 4, e)
    BY <1>2, <2>5, IntBefore
  <2>7. IntAt(r, 8, x)
    <3>1. 8 = Len(h) + 0 /\ 0 \in Nat
      BY <1>2
    <3> QED BY <2>3, <2>5, <3>1, IntBehind
  <2>8. IntAt(r, 12, y)
    <3>1. 12 = Len(h) + 4 /\ 4 \in Nat
      BY <1>2
    <3> QED BY <2>3, <2>5, <3>1, IntBehind
  <2> QED BY <1>1, <1>4, <2>2, <2>6, <2>7, <2>8 DEF ReplyHolds
<1>5. CASE c.op \notin {"read", "pipe"}
  <2>1. r = h
    BY <1>2, <1>5 DEF Reply
  <2> QED BY <1>1, <1>2, <1>5, <2>1 DEF ReplyHolds
<1> QED BY <1>3, <1>4, <1>5

(* The stub tells its program of its own result, through the wire. *)
Result(o, e) == [ret |-> o.ret, out |-> o.out, err |-> e]
LEMMA OwnResult ==
  ASSUME CallsSurvive, CountsSurvive, NEW c \in Calls, NEW d, d = Reached(c), WellFormed(d),
         d.op = c.op, c.op = "read" => d.args[2] = c.args[2],
         NEW o \in Outcomes(d), NEW e \in Int, NEW r, r = Reply(d, o, e), NEW g
  PROVE  Told(c, Decoded(c, r, g)) = Told(d, Wired(d, Result(o, e)))
<1>0. ReplyHolds(d, o, e, r)
  BY ReplyParts
<1> DEFINE at(i) == IF i <= Len(r) THEN r[i] ELSE g
           int(i) == Decode([k \in 1..4 |-> at(4 * i + k)])
           out == CASE c.op = "read" -> [k \in 1..int(0) |-> at(8 + k)]
                    [] c.op = "pipe" -> <<int(2), int(3)>>
                    [] OTHER -> <<>>
           wiredOut == IF d.op = "pipe" THEN [i \in DOMAIN o.out |-> Wire(o.out[i])] ELSE o.out
<1>1. /\ r \in Seq(Byte) /\ IntAt(r, 0, o.ret)
      /\ c.op # "read" \/ o.ret # -1 => IntAt(r, 4, e)
      /\ c.op = "read" => Len(r) = 8 + o.ret /\ \A k \in 1..o.ret : r[8 + k] = o.out[k]
      /\ c.op = "pipe" => IntAt(r, 8, o.out[1]) /\ IntAt(r, 12, o.out[2])
  <2> HIDE DEF at, int, out, wiredOut
  <2> QED BY <1>0 DEF ReplyHolds
<1>2. /\ o.ret \in Int /\ o.out \in Seq(Int)
      /\ c.op = "read" => o.ret >= -1 /\ Len(o.out) = IF o.ret = -1 THEN 0 ELSE o.ret
      /\ c.op = "pipe" => Len(o.out) = 2 /\ o.out[1] \in Int /\ o.out[2] \in Int
      /\ c.op \notin {"read", "pipe"} => o.out = <<>>
  BY OutcomesType
<1>3. ASSUME NEW j \in Nat, NEW x \in Int, IntAt(r, 4 * j, x)
      PROVE  int(j) = Wire(x)
  BY <1>1, <1>3, DecodesInt
<1>4. int(0) = Wire(o.ret)
  <2>1. IntAt(r, 4 * 0, o.ret)
    BY <1>1
  <2> HIDE DEF int
  <2> QED BY <1>2, <1>3, <2>1
<1>5. c.op # "read" \/ o.ret # -1 => int(1) = Wire(e)
  <2>1. c.op # "read" \/ o.ret # -1 => IntAt(r, 4 * 1, e)
    BY <1>1
  <2> HIDE DEF int
  <2> QED BY <1>3, <2>1
<1>6. c.op = "pipe" => int(2) = Wire(o.out[1]) /\ int(3) = Wire(o.out[2])
  <2>1. c.op = "pipe" => IntAt(r, 4 * 2, o.out[1]) /\ IntAt(r, 4 * 3, o.out[2])
    BY <1>1
  <2> HIDE DEF int
  <2> QED BY <1>2, <1>3, <2>1
<1>7. Decoded(c, r, g) = [ret |-> int(0), err |-> int(1), out |-> out]
  BY DEF Decoded
<1>8. Wired(d, Result(o, e)) = [ret |-> Wire(o.ret), err |-> Wire(e), out |-> wiredOut]
  BY DEF Wired, Result
<1>9. c.op = "read" => Wire(o.ret) = o.ret
  <2>1. c.op = "read" => o.ret = -1 \/ o.ret \in 0..c.args[2]
    <3>1. ASSUME c.op = "read", o \in Failures(d) PROVE o.ret = -1
      <4>1. o = [ret |-> -1, out |-> <<>>]
        BY <3>1 DEF Failures
      <4> QED BY <4>1
    <3>2. ASSUME c.op = "read", o \in Successes(d) PROVE o.ret \in 0..c.args[2]
      <4>1. PICK n \in 0..d.args[2] : o = [ret |-> n, out |-> [i \in 1..n |-> i % BASE]]
        BY <3>2 DEF Successes
      <4> QED BY <3>2, <4>1
    <3> QED BY <3>1, <3>2 DEF Outcomes
  <2> QED BY <2>1, MinusOneSurvives DEF CountsSurvive
<1>10. out = wiredOut
  <2>1. CASE c.op = "read"
    <3>1. int(0) = o.ret
      BY <1>4, <1>9, <2>1
    <3>2. out = [k \in 1..o.ret |-> at(8 + k)]
      <4> HIDE DEF int, at
      <4> QED BY <2>1, <3>1
    <3>3. \A k \in 1..o.ret : at(8 + k) = o.out[k]
      <4>1. \A k \in 1..o.ret : 8 + k <= Len(r)
        BY <1>1, <1>2, <2>1
      <4> QED BY <1>1, <2>1, <4>1
    <3>4. o.out = [k \in 1..o.ret |-> o.out[k]]
      <4>1. DOMAIN o.out = 1..o.ret
        <5>1. DOMAIN o.out = 1..Len(o.out)
          BY <1>2, LenProperties
        <5>2. o.ret = -1 => 1..o.ret = 1..0
          OBVIOUS
        <5> QED BY <1>2, <2>1, <5>1, <5>2
      <4>2. o.out = [k \in DOMAIN o.out |-> o.out[k]]
        BY <1>2
      <4> QED BY <4>1, <4>2
    <3>5. wiredOut = o.out
      BY <2>1
    <3> HIDE DEF int, at, out, wiredOut
    <3> QED BY <3>2, <3>3, <3>4, <3>5
  <2>2. CASE c.op = "pipe"
    <3>1. out = <<Wire(o.out[1]), Wire(o.out[2])>>
      <4> HIDE DEF int
      <4> QED BY <1>6, <2>2
    <3>2. DOMAIN o.out = {1, 2}
      <4>1. DOMAIN o.out = 1..Len(o.out)
        BY <1>2, LenProperties
      <4>2. 1..2 = {1, 2}
        OBVIOUS
      <4> QED BY <1>2, <2>2, <4>1, <4>2
    <3>3. wiredOut = [i \in DOMAIN o.out |-> Wire(o.out[i])]
      BY <2>2
    <3>4. wiredOut = <<Wire(o.out[1]), Wire(o.out[2])>>
      <4>1. PICK x, y : x = Wire(o.out[1]) /\ y = Wire(o.out[2])
        OBVIOUS
      <4>2. [i \in {1, 2} |-> Wire(o.out[i])] = [i \in {1, 2} |-> IF i = 1 THEN x ELSE y]
        BY <4>1
      <4>3. <<x, y>> = [i \in {1, 2} |-> IF i = 1 THEN x ELSE y]
        <5>1. 1..2 = {1, 2}
          OBVIOUS
        <5>2. <<x, y>> = [i \in 1..2 |-> IF i = 1 THEN x ELSE y]
          OBVIOUS
        <5> QED BY <5>1, <5>2
      <4> HIDE DEF wiredOut
      <4> QED BY <3>2, <3>3, <4>1, <4>2, <4>3
    <3> HIDE DEF out, wiredOut
    <3> QED BY <3>1, <3>4
  <2>3. CASE c.op \notin {"read", "pipe"}
    BY <1>2, <2>3
  <2> QED BY <2>1, <2>2, <2>3
<1> HIDE DEF int, out, wiredOut
<1>11. /\ Told(c, Decoded(c, r, g)) =
            [ret |-> int(0), out |-> out, err |-> IF c.op = "read" /\ int(0) = -1 THEN 0 ELSE int(1)]
       /\ Told(d, Wired(d, Result(o, e))) =
            [ret |-> Wire(o.ret), out |-> wiredOut,
             err |-> IF d.op = "read" /\ Wire(o.ret) = -1 THEN 0 ELSE Wire(e)]
  BY <1>7, <1>8 DEF Told
<1>12. (IF c.op = "read" /\ int(0) = -1 THEN 0 ELSE int(1))
         = (IF d.op = "read" /\ Wire(o.ret) = -1 THEN 0 ELSE Wire(e))
  <2>1. c.op = "read" => int(0) = o.ret /\ Wire(o.ret) = o.ret
    BY <1>4, <1>9
  <2> QED BY <1>4, <1>5, <2>1
<1> QED BY <1>4, <1>10, <1>11, <1>12

(* Append, as a function of its index. *)
LEMMA AppendFunction ==
  ASSUME NEW n \in Nat, NEW f, f = [i \in 1..n |-> f[i]], NEW e
  PROVE  /\ Append(f, e) = [i \in 1..n + 1 |-> IF i = n + 1 THEN e ELSE f[i]]
         /\ Len(f) = n
<1> DEFINE S == {f[i] : i \in 1..n} \union {e}
<1>1. f \in Seq(S) /\ Len(f) = n
  <2>1. f \in [1..n -> S]
    OBVIOUS
  <2> HIDE DEF S
  <2> QED BY <2>1, IsASeq, LenProperties
<1>2. /\ Append(f, e) \in Seq(S) /\ Len(Append(f, e)) = n + 1
      /\ Append(f, e)[n + 1] = e /\ \A i \in 1..n : Append(f, e)[i] = f[i]
  <2>1. e \in S
    OBVIOUS
  <2> HIDE DEF S
  <2> QED BY <1>1, <2>1, Appended
<1>3. PICK a : a = Append(f, e)
  OBVIOUS
<1> HIDE DEF S
<1>4. a = [i \in 1..n + 1 |-> a[i]]
  <2>1. a \in Seq(S) /\ Len(a) = n + 1
    BY <1>2, <1>3
  <2>2. a \in [1..n + 1 -> S]
    BY <2>1, LenProperties
  <2> QED BY <2>2
<1>5. \A i \in 1..n + 1 : a[i] = IF i = n + 1 THEN e ELSE f[i]
  <2>1. \A i \in 1..n + 1 : i = n + 1 \/ i \in 1..n
    OBVIOUS
  <2> QED BY <1>2, <1>3, <2>1
<1> QED BY <1>1, <1>3, <1>4, <1>5

--------------------------------------------------------------------------------
(* Each step of the session is a step of RemoteCalls, or none. *)
LEMMA Histories ==
  ASSUME IInv
  PROVE  /\ calls \in Seq(Calls) /\ Len(calls) \in Nat /\ DOMAIN calls = 1..Len(calls)
         /\ log \in Seq(Entry) /\ Len(log) \in Nat /\ DOMAIN log = 1..Len(log)
         /\ returns \in Seq(ResultRecord) /\ Len(returns) \in Nat
         /\ DOMAIN returns = 1..Len(returns) /\ Len(returns) <= Len(calls)
         /\ Own \in Nat /\ Own <= Len(calls) /\ Own <= Len(log)
<1>1. /\ calls \in Seq(Calls) /\ log \in Seq(Entry) /\ returns \in Seq(ResultRecord)
      /\ Len(returns) <= Len(calls)
  BY DEF IInv, TInv, TypeOK
<1>2. Len(calls) \in Nat /\ Len(log) \in Nat /\ Len(returns) \in Nat
  BY <1>1, LenProperties
<1>3. /\ DOMAIN calls = 1..Len(calls) /\ DOMAIN log = 1..Len(log)
      /\ DOMAIN returns = 1..Len(returns)
  BY <1>1, LenProperties
<1>4. Own \in Nat /\ Own <= Len(calls) /\ Own <= Len(log)
  BY <1>2 DEF Own
<1> QED BY <1>1, <1>2, <1>3, <1>4

Mapped == <<Phase, Issued, OnServer, Answers>>

LEMMA HistoriesStay ==
  ASSUME UNCHANGED <<cpc, calls, returns, log>>
  PROVE  UNCHANGED Mapped
BY DEF Mapped, Phase, Issued, OnServer, Answers, Own

LEMMA InvokeMaps ==
  ASSUME IInv, NEW c \in Calls, Invoke(c)
  PROVE  Promise!Issue(Reached(c))
<1>1. cpc = "app" /\ Len(log) = Len(calls) /\ Len(returns) = Len(calls)
  BY DEF Invoke, IInv, SInv, AppInv
<1>2. cpc' = "wait" /\ calls' = Append(calls, c) /\ UNCHANGED <<log, returns>>
  BY DEF Invoke
<1> DEFINE n == Len(calls)
<1>3. /\ n \in Nat /\ calls \in Seq(Calls) /\ DOMAIN calls = 1..n /\ DOMAIN returns = 1..n
  BY <1>1, Histories
<1>4. /\ calls' \in Seq(Calls) /\ Len(calls') = n + 1 /\ calls'[n + 1] = c
      /\ \A i \in 1..n : calls'[i] = calls[i]
  BY <1>2, <1>3, Appended
<1>5. DOMAIN calls' = 1..n + 1
  BY <1>4, LenProperties
<1> HIDE DEF n
<1>6. Issued' = Append(Issued, Reached(c))
  <2>1. Issued = [i \in 1..n |-> Reached(calls[i])]
    BY <1>3 DEF Issued
  <2>2. Issued = [i \in 1..n |-> Issued[i]]
    BY <2>1
  <2>3. Append(Issued, Reached(c)) = [i \in 1..n + 1 |-> IF i = n + 1 THEN Reached(c) ELSE Issued[i]]
    BY <1>3, <2>2, AppendFunction
  <2>4. Issued' = [i \in 1..n + 1 |-> Reached(calls'[i])]
    BY <1>5 DEF Issued
  <2>5. \A i \in 1..n + 1 : Reached(calls'[i]) = IF i = n + 1 THEN Reached(c) ELSE Issued[i]
    <3>1. \A i \in 1..n + 1 : i = n + 1 \/ i \in 1..n
      BY <1>3
    <3>2. \A i \in 1..n : Reached(calls'[i]) = Issued[i]
      BY <1>4, <2>1
    <3> QED BY <1>4, <3>1, <3>2
  <2> QED BY <2>3, <2>4, <2>5
<1>7. Own = n /\ Own' = n /\ Own' < Len(calls')
  BY <1>1, <1>2, <1>3, <1>4 DEF Own, n
<1>8. Phase = "ready" /\ Phase' = "called"
  BY <1>1, <1>2, <1>7 DEF Phase
<1>9. OnServer' = OnServer
  BY <1>2, <1>7 DEF OnServer
<1>10. Answers' = Answers
  BY <1>2, <1>3, <1>4 DEF Answers
<1> QED BY <1>6, <1>8, <1>9, <1>10 DEF Promise!Issue

(* What the stub of d tells its program of the outcome o. *)
AnswerTo(d, o, e) == Told(d, Wired(d, Result(o, e)))

(* The call a handler makes is recorded, with its answer, as RemoteCalls has it. *)
LEMMA ServeMaps ==
  ASSUME IInv, Serve
  PROVE  (\E r \in RemoteResult : Promise!Serve(r)) \/ UNCHANGED Mapped
<1>1. TInv /\ SInv
  BY DEF IInv
<1>2. WellFormed(Requested) /\ UNCHANGED <<cpc, calls, returns>>
  BY <1>1, Served
<1>3. PICK o \in Outcomes(Requested), e \in Errors \union {0} :
        log' = Append(log, [call |-> Requested, ret |-> o.ret, err |-> e, out |-> o.out])
  BY <1>1, Served
<1> DEFINE q == [call |-> Requested, ret |-> o.ret, err |-> e, out |-> o.out]
           n == Len(log)
           m == Len(calls)
<1>4. /\ n \in Nat /\ m \in Nat /\ log \in Seq(Entry) /\ calls \in Seq(Calls)
      /\ DOMAIN calls = 1..m /\ Own <= m /\ Own <= n /\ Own \in Nat
  BY Histories
<1>5. Len(log') = n + 1 /\ log'[n + 1] = q /\ \A i \in 1..n : log'[i] = log[i]
  <2>1. e \in Int
    BY RpcSessionAssumption
  <2>2. o.ret \in Int /\ o.out \in Seq(Int) /\ Requested \in CallRecord
    BY <1>2, OutcomesType DEF WellFormed
  <2>3. q \in Entry
    BY <2>1, <2>2 DEF Entry
  <2> HIDE DEF q
  <2>4. log' = Append(log, q)
    BY <1>3 DEF q
  <2> QED BY <1>4, <2>3, <2>4, Appended
<1>6. spc = "handler" /\ todo = <<>>
  BY DEF Serve
<1>7. Issued' = Issued /\ Answers' = Answers
  BY <1>2 DEF Issued, Answers
<1> HIDE DEF q, n, m
<1>8. CASE Underway
  <2>1. n = m - 1 /\ m # 0
    <3>1. calls # <<>>
      BY <1>8 DEF Underway
    <3>2. m # 0
      BY <1>4, <3>1, EmptySeq DEF m
    <3> QED BY <1>8, <3>2 DEF Underway, n, m
  <2>2. PICK c \in Calls : c = Last(calls) /\ c = calls[m]
    BY <1>4, <2>1, LastCall DEF m
  <2>3. Handling(c)
    BY <1>6, <1>8, <2>2 DEF Underway, Sending
  <2>4. Requested = Reached(c)
    BY <1>1, <1>6, <2>3, HandlingDone
  <2>5. PICK d : d = Reached(c)
    OBVIOUS
  <2>6. Own = n /\ Own' = n + 1 /\ Own < m /\ ~(Own' < Len(calls'))
    <3>1. Len(log) = n /\ Len(calls) = m /\ Len(log') = n + 1 /\ Len(calls') = Len(calls)
      BY <1>2, <1>5 DEF n, m
    <3>2. n < m /\ ~(n + 1 < m) /\ m = n + 1
      BY <1>4, <2>1
    <3>3. Own = n
      BY <3>1, <3>2 DEF Own
    <3>4. Own' = n + 1
      BY <3>1, <3>2 DEF Own
    <3> QED BY <3>1, <3>2, <3>3, <3>4
  <2>7. cpc \in {"wait", "killed"}
    <3>1. cpc \in {"app", "wait", "ended", "killed"}
      BY <1>1 DEF TInv, TypeOK
    <3> QED BY <1>1, <1>6, <3>1 DEF SInv, AppInv, EndedInv
  <2>8. \/ Phase = "called" /\ Phase' = "served"
        \/ Phase = "abandoned" /\ Phase' = "over"
    BY <1>2, <2>6, <2>7 DEF Phase, m
  <2> DEFINE s == [call |-> d, result |-> AnswerTo(d, o, e)]
             rec(i) == [call |-> log[i].call, result |-> Told(log[i].call, Wired(log[i].call, log[i]))]
  <2>9. OnServer' = Append(OnServer, s)
    <3>1. OnServer = [i \in 1..n |-> rec(i)]
      BY <2>6 DEF OnServer
    <3>2. OnServer = [i \in 1..n |-> OnServer[i]]
      <4> HIDE DEF rec
      <4> QED BY <3>1
    <3>3. Append(OnServer, s) = [i \in 1..n + 1 |-> IF i = n + 1 THEN s ELSE OnServer[i]]
      <4> HIDE DEF rec, s
      <4> QED BY <1>4, <3>2, AppendFunction
    <3>4. OnServer' = [i \in 1..n + 1 |->
                         [call |-> log'[i].call, result |-> Told(log'[i].call, Wired(log'[i].call, log'[i]))]]
      BY <2>6 DEF OnServer
    <3>5. ASSUME NEW i \in 1..n
          PROVE  [call |-> log'[i].call, result |-> Told(log'[i].call, Wired(log'[i].call, log'[i]))]
                   = OnServer[i]
      <4>1. log'[i] = log[i]
        BY <1>5
      <4>2. OnServer[i] = rec(i)
        <5> HIDE DEF rec
        <5> QED BY <3>1
      <4> QED BY <4>1, <4>2
    <3>6. [call |-> log'[n + 1].call,
           result |-> Told(log'[n + 1].call, Wired(log'[n + 1].call, log'[n + 1]))] = s
      <4>1. q.call = d /\ q.ret = o.ret /\ q.err = e /\ q.out = o.out
        BY <2>4, <2>5 DEF q
      <4>2. Wired(d, q) = Wired(d, Result(o, e))
        BY <4>1 DEF Wired, Result
      <4> QED BY <1>5, <4>1, <4>2 DEF AnswerTo
    <3>7. \A i \in 1..n + 1 : i = n + 1 \/ i \in 1..n
      BY <1>4
    <3> HIDE DEF rec, s
    <3> QED BY <3>3, <3>4, <3>5, <3>6, <3>7
  <2>10. AnswerTo(d, o, e) \in RemoteResult
    <3>1. d \in RemoteCall
      BY <2>5 DEF RemoteCall
    <3>2. o \in UNION {Outcomes(x) : x \in RemoteCall}
      BY <2>4, <2>5, <3>1
    <3> QED BY <3>1, <3>2 DEF RemoteResult, AnswerTo, Result
  <2>11. Issued[Len(Issued)] = d
    <3>1. Issued = [i \in 1..m |-> Reached(calls[i])]
      BY <1>4 DEF Issued
    <3>2. Len(Issued) = m
      <4>1. Issued = [i \in 1..m |-> Issued[i]]
        BY <3>1
      <4> QED BY <1>4, <4>1, AppendFunction
    <3>3. m \in 1..m
      BY <1>4, <2>1
    <3> QED BY <2>2, <2>5, <3>1, <3>2, <3>3
  <2>12. Promise!Serve(AnswerTo(d, o, e))
    BY <1>7, <2>8, <2>9, <2>11 DEF Promise!Serve
  <2> QED BY <2>10, <2>12
<1>9. CASE ~Underway
  <2>1. cpc = "killed" /\ n >= m
    <3>1. cpc \in {"app", "wait", "ended", "killed"}
      BY <1>1 DEF TInv, TypeOK
    <3> QED BY <1>1, <1>6, <1>9, <3>1 DEF SInv, AppInv, WaitInv, EndedInv, KilledInv, Replied, Unanswered, n, m
  <2>2. Own = m /\ Own' = m
    <3>1. Len(log) = n /\ Len(calls) = m /\ Len(log') = n + 1 /\ Len(calls') = Len(calls)
      BY <1>2, <1>5 DEF n, m
    <3>2. ~(n < m) /\ ~(n + 1 < m)
      BY <1>4, <2>1
    <3>3. Own = m
      <4>1. n < m \/ n >= m
        BY <1>4
      <4> QED BY <1>4, <3>1, <3>2 DEF Own
    <3>4. Own' = m
      BY <3>1, <3>2 DEF Own
    <3> QED BY <3>3, <3>4
  <2>3. Phase' = Phase
    BY <1>2, <2>2 DEF Phase
  <2>4. OnServer' = OnServer
    <3>1. \A i \in 1..m : log'[i] = log[i]
      BY <1>4, <1>5, <2>1
    <3> QED BY <2>2, <3>1 DEF OnServer
  <2> QED BY <1>7, <2>3, <2>4 DEF Mapped
<1> QED BY <1>8, <1>9

LEMMA ReceiveMaps ==
  ASSUME CallsSurvive, CountsSurvive, IInv, Receive
  PROVE  Promise!Return
<1>1. TInv /\ SInv /\ cpc = "wait" /\ toClient # <<>>
  BY DEF IInv, Receive
<1>2. Replied /\ Len(returns) = Len(calls) - 1
  BY <1>1 DEF SInv, WaitInv, Unanswered
<1> DEFINE m == Len(calls)
<1>3. /\ m \in Nat /\ calls \in Seq(Calls) /\ DOMAIN calls = 1..m /\ m # 0 /\ Len(log) = m
      /\ returns \in Seq(ResultRecord) /\ Len(returns) \in Nat
      /\ DOMAIN returns = 1..Len(returns) /\ toClient \in Seq(Byte)
  <2>1. calls # <<>> /\ Len(log) = m
    BY <1>2 DEF Replied
  <2> QED BY <1>1, <2>1, Histories, EmptySeq DEF TInv, TypeOK
<1>4. PICK c \in Calls : c = Last(calls) /\ c = calls[m]
  BY <1>3, LastCall
<1>5. PICK q : q = log[m] /\ ReplyTo(q, c)
  BY <1>2, <1>3, <1>4 DEF Replied
<1>6. q.call = Reached(c) /\ q.err \in Errors \union {0}
  BY <1>5 DEF ReplyTo
<1>7. PICK e \in Int : e = q.err
  <2>1. \A x \in Errors \union {0} : x \in Int
    BY RpcSessionAssumption
  <2> HIDE DEF m
  <2> QED BY <1>6, <2>1
<1>8. PICK d : d = Reached(c)
  OBVIOUS
<1>9. PICK o \in Outcomes(d) : q.ret = o.ret /\ q.out = o.out /\ toClient = Reply(d, o, e)
  <2>1. PICK o \in Outcomes(q.call) : q.ret = o.ret /\ q.out = o.out /\ toClient = Reply(q.call, o, q.err)
    BY <1>5 DEF ReplyTo
  <2> HIDE DEF m
  <2> QED BY <1>6, <1>7, <1>8, <2>1
<1>10. Len(toClient) <= Asked(c) /\ Len(toClient) \in Nat /\ Asked(c) \in Nat
  <2>1. Len(toClient) <= Asked(c)
    BY <1>8, <1>9, ReplyAsked
  <2> QED BY <1>3, <2>1, AskedType, LenProperties
<1> DEFINE k == IF Asked(c) < Len(toClient) THEN Asked(c) ELSE Len(toClient)
<1>11. k = Len(toClient)
  BY <1>10
<1>12. PICK g \in Garbage : returns' = Append(returns, Decoded(c, SubSeq(toClient, 1, k), g))
  BY <1>4 DEF Receive
<1> HIDE DEF k, m
<1>13. SubSeq(toClient, 1, k) = toClient
  BY <1>3, <1>11, WholeSeq
<1>14. PICK v : v = Decoded(c, toClient, g)
  OBVIOUS
<1>15. returns' = Append(returns, v) /\ v \in ResultRecord
  BY <1>3, <1>12, <1>13, <1>14, DecodedType
<1>16. Told(c, v) = AnswerTo(d, o, e)
  <2>1. WellFormed(d) /\ d.op = c.op /\ (c.op = "read" => d.args[2] = c.args[2])
    BY <1>8, ReachedShape
  <2>2. Told(c, Decoded(c, toClient, g)) = Told(d, Wired(d, Result(o, e)))
    BY <1>8, <1>9, <2>1, OwnResult
  <2> QED BY <1>14, <2>2 DEF AnswerTo
<1>17. cpc' = "app" /\ UNCHANGED <<calls, log>>
  BY DEF Receive
<1>18. Own = m /\ Own' = m
  BY <1>3, <1>17 DEF Own, m
<1>19. Phase = "served" /\ Phase' = "ready"
  BY <1>1, <1>17, <1>18 DEF Phase, m
<1>20. Issued' = Issued /\ OnServer' = OnServer
  BY <1>17, <1>18 DEF Issued, OnServer
<1>21. OnServer[Len(OnServer)].result = AnswerTo(d, o, e)
  <2> DEFINE rec(i) == [call |-> log[i].call, result |-> Told(log[i].call, Wired(log[i].call, log[i]))]
  <2>1. OnServer = [i \in 1..m |-> rec(i)]
    BY <1>18 DEF OnServer
  <2>2. Len(OnServer) = m
    <3>1. OnServer = [i \in 1..m |-> OnServer[i]]
      <4> HIDE DEF rec
      <4> QED BY <2>1
    <3> QED BY <1>3, <3>1, AppendFunction
  <2>3. m \in 1..m
    BY <1>3
  <2>4. OnServer[m] = rec(m)
    <3> HIDE DEF rec
    <3> QED BY <2>1, <2>3
  <2>5. rec(m).result = Told(d, Wired(d, q))
    BY <1>5, <1>6, <1>8
  <2>6. Wired(d, q) = Wired(d, Result(o, e))
    BY <1>7, <1>9 DEF Wired, Result
  <2> HIDE DEF rec
  <2> QED BY <2>2, <2>4, <2>5, <2>6 DEF AnswerTo
<1>22. Answers' = Append(Answers, AnswerTo(d, o, e))
  <2>1. PICK j \in Nat : j = Len(returns) /\ m = j + 1
    BY <1>2, <1>3 DEF m
  <2>2. /\ Len(returns') = j + 1 /\ returns'[j + 1] = v /\ returns' \in Seq(ResultRecord)
        /\ \A i \in 1..j : returns'[i] = returns[i]
    BY <1>3, <1>15, <2>1, Appended
  <2>3. DOMAIN returns' = 1..j + 1
    BY <2>2, LenProperties
  <2>4. Answers = [i \in 1..j |-> Told(calls[i], returns[i])]
    BY <1>3, <2>1 DEF Answers
  <2>5. Answers' = [i \in 1..j + 1 |-> Told(calls[i], returns'[i])]
    BY <1>17, <2>3 DEF Answers
  <2>6. PICK x : x = AnswerTo(d, o, e)
    OBVIOUS
  <2>7. Append(Answers, x) = [i \in 1..j + 1 |-> IF i = j + 1 THEN x ELSE Answers[i]]
    <3>1. Answers = [i \in 1..j |-> Answers[i]]
      BY <2>4
    <3> QED BY <3>1, AppendFunction
  <2>8. ASSUME NEW i \in 1..j + 1
        PROVE  Told(calls[i], returns'[i]) = IF i = j + 1 THEN x ELSE Answers[i]
    <3>1. CASE i = j + 1
      BY <1>4, <1>16, <2>1, <2>2, <2>6, <3>1
    <3>2. CASE i # j + 1
      <4>1. i \in 1..j
        BY <3>2
      <4> QED BY <2>2, <2>4, <3>2, <4>1
    <3> QED BY <3>1, <3>2
  <2> QED BY <2>5, <2>6, <2>7, <2>8
<1> QED BY <1>19, <1>20, <1>21, <1>22 DEF Promise!Return

LEMMA LeaveMaps ==
  ASSUME IInv, End \/ Kill
  PROVE  Promise!End
<1>1. SInv /\ cpc \in {"app", "wait"}
  BY DEF IInv, End, Kill
<1>2. cpc' \in {"ended", "killed"} /\ UNCHANGED <<calls, returns, log>> /\ (cpc = "wait" => cpc' = "killed")
  BY DEF End, Kill
<1>3. UNCHANGED <<Issued, OnServer, Answers, Own>>
  BY <1>2 DEF Issued, OnServer, Answers, Own
<1>4. cpc = "app" => ~(Own < Len(calls))
  <2>1. cpc = "app" => Own = Len(calls)
    BY <1>1, Histories DEF SInv, AppInv, Own
  <2> QED BY <2>1, Histories
<1>5. \/ Phase \in {"ready", "served"} /\ Phase' = "over"
      \/ Phase = "called" /\ Phase' = "abandoned"
  BY <1>1, <1>2, <1>3, <1>4 DEF Phase
<1> QED BY <1>3, <1>5 DEF Promise!End

LEMMA StepMaps ==
  CallsSurvive /\ CountsSurvive /\ IInv /\ [Next]_vars => [Promise!Next]_(Promise!remoteVars)
<1> SUFFICES ASSUME CallsSurvive, CountsSurvive, IInv, [Next]_vars
             PROVE  Promise!Next \/ UNCHANGED Mapped
  BY DEF Promise!remoteVars, Mapped
<1>1. CASE UNCHANGED vars
  BY <1>1, HistoriesStay DEF vars, client
<1>2. CASE ReadOpcode \/ ReadField
  BY <1>2, HistoriesStay DEF ReadOpcode, ReadField, client
<1>3. CASE Serve
  BY <1>3, ServeMaps DEF Promise!Next
<1>4. CASE \E c \in Calls : Invoke(c)
  <2>1. PICK c \in Calls : Invoke(c)
    BY <1>4
  <2>2. Promise!Issue(Reached(c)) /\ Reached(c) \in RemoteCall
    BY <2>1, InvokeMaps DEF RemoteCall
  <2> QED BY <2>2 DEF Promise!Next
<1>5. CASE Receive
  BY <1>5, ReceiveMaps DEF Promise!Next
<1>6. CASE End \/ Kill
  BY <1>6, LeaveMaps DEF Promise!Next
<1>7. CASE Abort
  BY <1>7, HistoriesStay DEF Abort, client
<1> QED BY <1>1, <1>2, <1>3, <1>4, <1>5, <1>6, <1>7 DEF Next, Child, Client

LEMMA InitialMaps == Init => Promise!Init
<1> SUFFICES ASSUME Init PROVE Promise!Init
  OBVIOUS
<1>1. cpc = "app" /\ calls = <<>> /\ log = <<>> /\ returns = <<>>
  BY DEF Init
<1>2. DOMAIN <<>> = {} /\ Len(<<>>) = 0 /\ 1..0 = {}
  OBVIOUS
<1>3. Own = 0
  BY <1>1, <1>2 DEF Own
<1>4. Phase = "ready"
  BY <1>1 DEF Phase
<1>5. Issued = <<>>
  BY <1>1, <1>2 DEF Issued
<1>6. OnServer = <<>>
  BY <1>2, <1>3 DEF OnServer
<1>7. Answers = <<>>
  BY <1>1, <1>2 DEF Answers
<1> QED BY <1>4, <1>5, <1>6, <1>7 DEF Promise!Init

(* A program whose calls, counts and fresh memory are such has its calls made on
   the server once, in order, with the arguments the wire leaves of them, and is
   told its own result, data and errno (r_client.c:85-400, r_server.c:46-328).
   Calls made of a child that a long write has killed are not made, and do not
   return. *)
THEOREM SessionKeepsPromise ==
  ASSUME CallsSurvive, CountsSurvive, GarbageHarmless
  PROVE  Spec => ImplementsRemoteCalls
<1>1. IInv /\ [Next]_vars => IInv'
  BY IInvNext
<1>2. IInv /\ [Next]_vars => [Promise!Next]_(Promise!remoteVars)
  BY StepMaps
<1> QED BY <1>1, <1>2, IInvInitial, InitialMaps, PTL DEF Spec, ImplementsRemoteCalls, Promise!Spec
================================================================================
