------------------------------- MODULE CodecProofs ------------------------------
(***************************************************************************)
(* Proofs about Codec and BitCodec for every input, width of a byte and    *)
(* width of a field.                                                       *)
(***************************************************************************)
EXTENDS BitCodec, SequenceTheorems, WellFoundedInduction, TLAPS

--------------------------------------------------------------------------------
(* Sets of naturals. *)
Less == {ss \in Nat \X Nat : ss[1] < ss[2]}

LEMMA LeastElement ==
  ASSUME NEW T \in SUBSET Nat, T # {}
  PROVE  \E x \in T : \A y \in T : x <= y
<1>1. IsWellFoundedOn(Less, Nat)
  BY NatLessThanWellFounded DEF OpToRel, Less
<1>2. \E x \in T : \A y \in T : ~(<<y, x>> \in Less)
  <2>1. T \subseteq Nat
    OBVIOUS
  <2> QED BY <1>1, <2>1, WFMin
<1>3. PICK x \in T : \A y \in T : ~(<<y, x>> \in Less)
  BY <1>2
<1>4. \A y \in T : ~(y < x)
  BY <1>3 DEF Less
<1> QED BY <1>4

LEMMA SetInduction ==
  ASSUME NEW S, 0 \in S, \A n \in Nat : n \in S => n + 1 \in S
  PROVE  \A n \in Nat : n \in S
<1> SUFFICES ASSUME NEW n \in Nat, n \notin S PROVE FALSE
  OBVIOUS
<1>1. PICK x \in Nat \ S : \A y \in Nat \ S : x <= y
  <2>1. Nat \ S \in SUBSET Nat /\ Nat \ S # {}
    OBVIOUS
  <2> QED BY <2>1, LeastElement
<1>2. x # 0 /\ x - 1 \in Nat
  BY <1>1
<1>3. x - 1 \in S
  BY <1>1, <1>2
<1> QED BY <1>1, <1>2, <1>3

--------------------------------------------------------------------------------
(* Powers of two. *)
PowersTo(n, g) == g \in [0..n -> Nat] /\ g[0] = 1 /\ \A i \in 1..n : g[i] = 2 * g[i - 1]
PowerIs(g) == g = [n \in Nat |-> IF n = 0 THEN 1 ELSE 2 * g[n - 1]]

LEMMA PowersExist == \A n \in Nat : \E g : PowersTo(n, g)
<1> DEFINE S == {n \in Nat : \E g : PowersTo(n, g)}
<1>1. 0 \in S
  <2>1. PowersTo(0, [i \in 0..0 |-> 1])
    BY DEF PowersTo
  <2> QED BY <2>1
<1>2. ASSUME NEW n \in Nat, n \in S PROVE n + 1 \in S
  <2>1. PICK g : PowersTo(n, g)
    BY <1>2
  <2> DEFINE h == [i \in 0..n + 1 |-> IF i = n + 1 THEN 2 * g[n] ELSE g[i]]
  <2>2. h \in [0..n + 1 -> Nat]
    BY <2>1 DEF PowersTo
  <2>3. h[0] = 1
    BY <2>1 DEF PowersTo
  <2>4. ASSUME NEW i \in 1..n + 1 PROVE h[i] = 2 * h[i - 1]
    <3>1. i - 1 \in 0..n /\ h[i - 1] = g[i - 1]
      OBVIOUS
    <3>2. CASE i = n + 1
      BY <3>1, <3>2
    <3>3. CASE i # n + 1
      <4>1. i \in 1..n
        BY <3>3
      <4> QED BY <2>1, <3>1, <3>3, <4>1 DEF PowersTo
    <3> QED BY <3>2, <3>3
  <2>5. PowersTo(n + 1, h)
    BY <2>2, <2>3, <2>4 DEF PowersTo
  <2> QED BY <2>5
<1> HIDE DEF S
<1>3. \A n \in Nat : n \in S
  BY <1>1, <1>2, SetInduction
<1> QED BY <1>3 DEF S

LEMMA PowersAgree ==
  ASSUME NEW n \in Nat, NEW m \in Nat, m <= n, NEW g, NEW h, PowersTo(n, g), PowersTo(m, h)
  PROVE  g[m] = h[m]
<1> DEFINE S == {k \in Nat : k <= m => g[k] = h[k]}
<1>1. 0 \in S
  BY DEF PowersTo
<1>2. ASSUME NEW k \in Nat, k \in S PROVE k + 1 \in S
  <2> SUFFICES ASSUME k + 1 <= m PROVE g[k + 1] = h[k + 1]
    OBVIOUS
  <2>1. g[k] = h[k]
    BY <1>2
  <2>2. k + 1 \in 1..n /\ k + 1 \in 1..m /\ (k + 1) - 1 = k
    OBVIOUS
  <2>3. g[k + 1] = 2 * g[k] /\ h[k + 1] = 2 * h[k]
    BY <2>2 DEF PowersTo
  <2> QED BY <2>1, <2>3
<1> HIDE DEF S
<1>3. m \in S
  BY <1>1, <1>2, SetInduction
<1> QED BY <1>3 DEF S

LEMMA Powers ==
  /\ Power[0] = 1
  /\ \A n \in Nat : Power[n] \in Nat /\ Power[n] > 0 /\ Power[n + 1] = 2 * Power[n]
<1> DEFINE f == [n \in Nat |-> (CHOOSE g : PowersTo(n, g))[n]]
<1>1. \A n \in Nat : PowersTo(n, CHOOSE g : PowersTo(n, g))
  BY PowersExist
<1>2. \A n \in Nat : \A g : PowersTo(n, g) => g[n] = f[n]
  <2> TAKE n \in Nat
  <2> TAKE g
  <2> HAVE PowersTo(n, g)
  <2>1. n <= n
    OBVIOUS
  <2>2. PICK h : PowersTo(n, h) /\ h[n] = f[n]
    BY <1>1
  <2> QED BY <2>1, <2>2, PowersAgree
<1> HIDE DEF f
<1>3. f[0] = 1
  <2>1. PICK g : PowersTo(0, g)
    BY PowersExist
  <2> QED BY <1>2, <2>1 DEF PowersTo
<1>4. ASSUME NEW n \in Nat PROVE f[n + 1] = 2 * f[n] /\ f[n] \in Nat
  <2>1. PICK g : PowersTo(n + 1, g)
    BY PowersExist
  <2>2. PICK h : PowersTo(n, h)
    BY PowersExist
  <2>3. g[n] = h[n]
    <3>1. n <= n + 1
      OBVIOUS
    <3> QED BY <2>1, <2>2, <3>1, PowersAgree
  <2>4. g[n + 1] = 2 * g[n]
    <3>1. n + 1 \in 1..n + 1 /\ (n + 1) - 1 = n
      OBVIOUS
    <3> QED BY <2>1, <3>1 DEF PowersTo
  <2>5. h[n] \in Nat
    BY <2>2 DEF PowersTo
  <2> QED BY <1>2, <2>1, <2>2, <2>3, <2>4, <2>5
<1>5. PowerIs(f)
  <2>1. ASSUME NEW n \in Nat PROVE f[n] = IF n = 0 THEN 1 ELSE 2 * f[n - 1]
    <3>1. CASE n = 0
      BY <1>3, <3>1
    <3>2. CASE n # 0
      <4>1. n - 1 \in Nat /\ (n - 1) + 1 = n
        BY <3>2
      <4> QED BY <1>4, <3>2, <4>1
    <3> QED BY <3>1, <3>2
  <2>2. f = [n \in Nat |-> f[n]]
    BY DEF f
  <2> QED BY <2>1, <2>2 DEF PowerIs
<1>6. PowerIs(Power)
  <2>1. Power = CHOOSE g : PowerIs(g)
    BY DEF Power, PowerIs
  <2> QED BY <1>5, <2>1
<1>7. Power[0] = 1 /\ \A n \in Nat : Power[n + 1] = 2 * Power[n]
  <2>1. \A n \in Nat : Power[n] = IF n = 0 THEN 1 ELSE 2 * Power[n - 1]
    BY <1>6 DEF PowerIs
  <2>2. \A n \in Nat : n + 1 # 0 /\ n + 1 \in Nat /\ (n + 1) - 1 = n
    OBVIOUS
  <2> QED BY <2>1, <2>2
<1> DEFINE S == {n \in Nat : Power[n] \in Nat /\ Power[n] > 0}
<1>8. 0 \in S /\ \A n \in Nat : n \in S => n + 1 \in S
  BY <1>7
<1>9. \A n \in Nat : n \in S
  <2> HIDE DEF S
  <2> QED BY <1>8, SetInduction
<1> QED BY <1>7, <1>9

LEMMA Sizes ==
  /\ W \in Nat /\ W > 0 /\ FIELD \in Nat /\ FIELD > 0 /\ BITS \in Nat /\ BITS > 0
  /\ \A b \in Symbols : b \in Nat /\ b \in 0..Power[BITS] - 1 /\ b # NONE
  /\ NONE \notin 0..W - 1 /\ MAXLEN \in Nat
<1>1. FIELD \in Nat /\ FIELD > 0 /\ BITS \in Nat /\ BITS > 0 /\ Symbols \subseteq Nat /\ MAXLEN \in Nat
  BY CodecAssumption, BitCodecAssumption
<1>2. W \in Nat /\ W > 0
  BY <1>1, Powers DEF W
<1>3. Power[BITS] \in Nat
  BY <1>1, Powers
<1>4. \A b \in Symbols : b \in Nat /\ b \in 0..Power[BITS] - 1 /\ b # NONE
  BY <1>1, <1>3, BitCodecAssumption DEF NONE
<1> QED BY <1>1, <1>2, <1>4 DEF NONE

--------------------------------------------------------------------------------
(* Quotients and remainders. *)
LEMMA Remainder ==
  ASSUME NEW a \in Int, NEW m \in Nat, m > 0
  PROVE  a = m * (a \div m) + (a % m) /\ a % m \in 0..m - 1 /\ a \div m \in Int
<1>1. a \div m \in Int /\ a % m \in 0..m - 1
  OBVIOUS
<1>2. a = m * (a \div m) + (a % m)
  OBVIOUS
<1> QED BY <1>1, <1>2

LEMMA OneQuotient ==
  ASSUME NEW m \in Nat, NEW q \in Int, NEW p \in Int, NEW r \in 0..m - 1, NEW s \in 0..m - 1,
         m * q + r = m * p + s
  PROVE  q = p /\ r = s
<1>1. m * (q - p) = s - r
  <2>1. m * (q - p) = m * q - m * p
    OBVIOUS
  <2>2. m * q \in Int /\ m * p \in Int
    OBVIOUS
  <2> QED BY <2>1, <2>2
<1>2. s - r < m /\ s - r > -m
  OBVIOUS
<1>3. CASE q - p >= 1
  <2>1. m * (q - p) >= m
    BY <1>3
  <2> QED BY <1>1, <1>2, <2>1
<1>4. CASE q - p <= -1
  <2>1. m * (p - q) >= m
    BY <1>4
  <2>2. m * (q - p) = -(m * (p - q)) /\ m * (p - q) \in Int /\ m * (q - p) \in Int
    OBVIOUS
  <2>3. m * (q - p) <= -m
    BY <2>1, <2>2
  <2> QED BY <1>1, <1>2, <2>3
<1>5. CASE q - p = 0
  <2>1. q = p
    BY <1>5
  <2>2. m * q = m * p /\ m * q \in Int
    BY <2>1
  <2> QED BY <2>1, <2>2
<1> QED BY <1>3, <1>4, <1>5

(* Two numbers less than m apart have different remainders. *)
LEMMA NearRemainders ==
  ASSUME NEW a \in Int, NEW b \in Int, NEW m \in Nat, a < b, b - a < m
  PROVE  a % m # b % m
<1> SUFFICES ASSUME a % m = b % m PROVE FALSE
  OBVIOUS
<1>1. PICK q \in Int, r \in Int : a = m * q + r
  <2>1. m > 0
    OBVIOUS
  <2> QED BY <2>1, Remainder
<1>2. PICK x \in Int, y \in 0..m - 1, z \in Int : a = m * x + y /\ b = m * z + y
  <2>1. m > 0
    OBVIOUS
  <2>2. a = m * (a \div m) + (a % m) /\ a % m \in 0..m - 1 /\ a \div m \in Int
    BY <2>1, Remainder
  <2>3. b = m * (b \div m) + (b % m) /\ b \div m \in Int
    BY <2>1, Remainder
  <2> QED BY <2>2, <2>3
<1>3. b - a = m * (z - x)
  <2>1. m * (z - x) = m * z - m * x /\ m * z \in Int /\ m * x \in Int
    OBVIOUS
  <2> QED BY <1>2, <2>1
<1>4. CASE z - x >= 1
  <2>1. m * (z - x) >= m
    BY <1>4
  <2> QED BY <1>3, <2>1
<1>5. CASE z - x <= 0
  <2>1. m * (z - x) <= 0
    BY <1>5
  <2> QED BY <1>3, <2>1
<1> QED BY <1>4, <1>5

--------------------------------------------------------------------------------
(* The windows. *)

(* n symbols b in a window: the n latest are b, those before them older by n. *)
LEMMA AddedAt ==
  ASSUME NEW w, NEW c \in Int, NEW b, NEW n \in Nat, NEW i \in 0..W - 1
  PROVE  At(Added(w, c, b, n), c + n, i) = IF i < n THEN b ELSE At(w, c, i - n)
<1>1. W \in Nat /\ W > 0
  BY Sizes
<1>2. PICK x \in Int : x = (c + n) - (i + 1)
  OBVIOUS
<1>3. x % W \in 0..W - 1
  BY <1>1, Remainder
<1>4. At(Added(w, c, b, n), c + n, i) =
        IF \E k \in 0..n - 1 : (c + k) % W = x % W THEN b ELSE w[x % W]
  BY <1>2, <1>3 DEF At, Added
<1>5. CASE i < n
  <2>1. n - (i + 1) \in 0..n - 1 /\ c + (n - (i + 1)) = x
    BY <1>2, <1>5
  <2>2. \E k \in 0..n - 1 : (c + k) % W = x % W
    BY <2>1
  <2> QED BY <1>4, <1>5, <2>2
<1>6. CASE ~(i < n)
  <2>1. ASSUME NEW k \in 0..n - 1 PROVE (c + k) % W # x % W
    <3>1. x < c + k /\ (c + k) - x < W /\ c + k \in Int
      BY <1>1, <1>2, <1>6
    <3> QED BY <1>1, <3>1, NearRemainders
  <2>2. x = c - ((i - n) + 1)
    BY <1>2
  <2> QED BY <1>4, <1>6, <2>1, <2>2 DEF At
<1> QED BY <1>5, <1>6

LEMMA AddedType ==
  ASSUME NEW S, NEW w \in [0..W - 1 -> S], NEW c \in Int, NEW b \in S, NEW n \in Nat
  PROVE  Added(w, c, b, n) \in [0..W - 1 -> S]
BY DEF Added

(* The symbol i places before the end of the first p of s; the windows begin
   with zeros. *)
Back(s, p, i) == IF i < p THEN s[p - i] ELSE 0

(* A window holds the last of the first p symbols of s. *)
Remembers(w, c, s, p) == \A i \in 0..W - 1 : At(w, c, i) = Back(s, p, i)

LEMMA RemembersMore ==
  ASSUME NEW w, NEW c \in Int, NEW s, NEW p \in Nat, Remembers(w, c, s, p),
         NEW b, NEW n \in Nat, \A j \in p + 1 .. p + n : s[j] = b
  PROVE  Remembers(Added(w, c, b, n), c + n, s, p + n)
<1> SUFFICES ASSUME NEW i \in 0..W - 1
             PROVE  At(Added(w, c, b, n), c + n, i) = Back(s, p + n, i)
  BY DEF Remembers
<1>1. At(Added(w, c, b, n), c + n, i) = IF i < n THEN b ELSE At(w, c, i - n)
  BY AddedAt
<1>2. CASE i < n
  <2>1. (p + n) - i \in p + 1 .. p + n /\ i < p + n
    BY <1>2
  <2> QED BY <1>1, <1>2, <2>1 DEF Back
<1>3. CASE ~(i < n)
  <2>1. i - n \in 0..W - 1
    BY <1>3, Sizes
  <2>2. At(w, c, i - n) = Back(s, p, i - n)
    BY <2>1 DEF Remembers
  <2>3. (p + n) - i = p - (i - n) /\ (i < p + n <=> i - n < p)
    OBVIOUS
  <2>4. Back(s, p + n, i) = Back(s, p, i - n)
    BY <2>3 DEF Back
  <2> QED BY <1>1, <1>3, <2>2, <2>4
<1> QED BY <1>2, <1>3

(* What a window holds depends on those p symbols only. *)
LEMMA RemembersSame ==
  ASSUME NEW w, NEW c, NEW s, NEW t, NEW p \in Nat, Remembers(w, c, s, p),
         \A j \in 1..p : t[j] = s[j]
  PROVE  Remembers(w, c, t, p)
<1> SUFFICES ASSUME NEW i \in 0..W - 1 PROVE Back(t, p, i) = Back(s, p, i)
  BY DEF Remembers
<1>1. i < p => p - i \in 1..p
  OBVIOUS
<1> QED BY <1>1 DEF Back

LEMMA Uniqueness ==
  ASSUME NEW b, checkUniqueness(b) # NONE
  PROVE  checkUniqueness(b) \in 0..W - 1 /\ At(window, count, checkUniqueness(b)) = b
<1> DEFINE found == {i \in 0..W - 1 : At(window, count, i) = b}
<1>1. found # {} /\ checkUniqueness(b) = CHOOSE i \in found : \A j \in found : i <= j
  BY DEF checkUniqueness
<1>2. \E i \in found : \A j \in found : i <= j
  <2>1. found \in SUBSET Nat
    BY Sizes
  <2> HIDE DEF found
  <2> QED BY <1>1, <2>1, LeastElement
<1>3. checkUniqueness(b) \in found
  <2> HIDE DEF found
  <2> QED BY <1>1, <1>2
<1> QED BY <1>3

--------------------------------------------------------------------------------
(* The invariant of czy, dzy and the codes between them. *)
CodeSet ==
  {Raw(b) : b \in Symbols} \union {Once(p) : p \in 0..W - 1}
    \union {Run(p, n) : p \in 0..W - 1, n \in 0..W - 1}

(* The code c says what the symbols of s behind the first p are. *)
Stands(c, s, p) ==
  \A j \in p + 1 .. p + Copies(c) : s[j] = IF c.form = "raw" THEN c.byte ELSE Back(s, p, c.pos)

(* How many symbols czy has read and not put out, and the others. *)
Ahead ==
  CASE pc = "top"     -> IF last = NONE THEN 0 ELSE 1
    [] pc = "second"  -> 1
    [] pc = "repeats" -> repeats + 2
    [] OTHER          -> 0
Coded == Len(taken) - Ahead

(* The first i codes stand for the first e[i] symbols of the input. *)
Placed(e) ==
  /\ e \in [Nat -> Nat] /\ e[0] = 0
  /\ \A i \in 1..Len(codes) :
       e[i] = e[i - 1] + Copies(codes[i]) /\ Stands(codes[i], taken, e[i - 1])
  /\ \A i \in 0..Len(codes) : e[i] <= e[Len(codes)]
  /\ e[Len(codes)] = Coded /\ e[decoded] = Len(out)

CzyTypes ==
  /\ pc \in {"top", "second", "repeats", "done"} /\ byteRead \in Symbols \union {0}
  /\ unique \in 0..W - 1 /\ repeats \in 0..W - 1 /\ last \in Symbols \union {NONE}
  /\ window \in [0..W - 1 -> Symbols \union {0}] /\ count \in Nat
  /\ taken \in Seq(Symbols) /\ codes \in Seq(CodeSet)
DzyTypes ==
  /\ dwindow \in [0..W - 1 -> Symbols \union {0}] /\ dcount \in Nat
  /\ decoded \in 0..Len(codes) /\ out \in Seq(Symbols)

(* What czy knows of the input at each of its calls of readByte. *)
TopInv ==
  pc = "top" =>
    /\ Remembers(window, count, taken, Coded)
    /\ last # NONE => Len(taken) >= 1 /\ last = taken[Len(taken)]
SecondInv ==
  pc = "second" =>
    /\ Remembers(window, count, taken, Coded)
    /\ Len(taken) >= 1 /\ byteRead = taken[Len(taken)]
    /\ Back(taken, Coded, unique) = byteRead
RepeatsInv ==
  pc = "repeats" =>
    /\ Remembers(window, count, taken, Len(taken))
    /\ \A j \in Coded + 1 .. Len(taken) : taken[j] = byteRead
    /\ Back(taken, Coded, unique) = byteRead
CzyInv == CzyTypes /\ TopInv /\ SecondInv /\ RepeatsInv

DzyInv ==
  /\ DzyTypes
  /\ Remembers(dwindow, dcount, taken, Len(out))
  /\ \A j \in 1..Len(out) : out[j] = taken[j]

CodecInv == CzyInv /\ DzyInv /\ \E e : Placed(e)

LEMMA CodeShape ==
  ASSUME NEW c \in CodeSet
  PROVE  /\ c.form \in {"raw", "once", "run"}
         /\ c.form = "raw" => c.byte \in Symbols /\ c = Raw(c.byte)
         /\ c.form = "once" => c.pos \in 0..W - 1 /\ c = Once(c.pos)
         /\ c.form = "run" => c.pos \in 0..W - 1 /\ c.count \in 0..W - 1 /\ c = Run(c.pos, c.count)
         /\ Copies(c) \in Nat /\ Copies(c) > 0
<1>1. CASE c \in {Raw(b) : b \in Symbols}
  <2>1. c.form = "raw" /\ c.byte \in Symbols /\ c = Raw(c.byte)
    BY <1>1 DEF Raw
  <2> QED BY <2>1 DEF Copies
<1>2. CASE c \in {Once(p) : p \in 0..W - 1}
  <2>1. c.form = "once" /\ c.pos \in 0..W - 1 /\ c = Once(c.pos)
    BY <1>2 DEF Once
  <2> QED BY <2>1 DEF Copies
<1>3. CASE c \in {Run(p, n) : p \in 0..W - 1, n \in 0..W - 1}
  <2>1. PICK p \in 0..W - 1, n \in 0..W - 1 : c = Run(p, n)
    BY <1>3
  <2>2. c.form = "run" /\ c.pos = p /\ c.count = n
    BY <2>1 DEF Run
  <2> QED BY <2>1, <2>2, Sizes DEF Copies
<1> QED BY <1>1, <1>2, <1>3 DEF CodeSet

LEMMA CodesMade ==
  /\ \A b \in Symbols : Raw(b) \in CodeSet /\ Copies(Raw(b)) = 1
  /\ \A p \in 0..W - 1 : Once(p) \in CodeSet /\ Copies(Once(p)) = 1
  /\ \A p \in 0..W - 1, n \in 0..W - 1 : Run(p, n) \in CodeSet /\ Copies(Run(p, n)) = n + 2
<1>1. \A b \in Symbols : Raw(b) \in CodeSet /\ Copies(Raw(b)) = 1
  BY DEF CodeSet, Copies, Raw
<1>2. \A p \in 0..W - 1 : Once(p) \in CodeSet /\ Copies(Once(p)) = 1
  BY DEF CodeSet, Copies, Once
<1>3. \A p \in 0..W - 1, n \in 0..W - 1 : Run(p, n) \in CodeSet /\ Copies(Run(p, n)) = n + 2
  BY DEF CodeSet, Copies, Run
<1> QED BY <1>1, <1>2, <1>3

(* What a code says of symbols stays true when others come behind them. *)
LEMMA StandsSame ==
  ASSUME NEW c \in CodeSet, NEW s, NEW t, NEW p \in Nat, Stands(c, s, p),
         \A j \in 1..p + Copies(c) : t[j] = s[j]
  PROVE  Stands(c, t, p)
<1>1. Copies(c) \in Nat /\ Copies(c) > 0
  BY CodeShape
<1>2. c.form # "raw" => Back(t, p, c.pos) = Back(s, p, c.pos)
  <2>1. c.form # "raw" => c.pos \in Nat
    BY CodeShape, Sizes
  <2>2. c.form # "raw" /\ c.pos < p => p - c.pos \in 1..p + Copies(c)
    BY <1>1, <2>1
  <2> QED BY <2>2 DEF Back
<1>3. \A j \in p + 1 .. p + Copies(c) : j \in 1..p + Copies(c)
  OBVIOUS
<1> QED BY <1>2, <1>3 DEF Stands

(* An element behind a sequence. *)
LEMMA AppendFacts ==
  ASSUME NEW S, NEW s \in Seq(S), NEW x \in S
  PROVE  /\ Append(s, x) \in Seq(S) /\ Len(Append(s, x)) = Len(s) + 1 /\ Len(s) \in Nat
         /\ Append(s, x)[Len(s) + 1] = x /\ \A i \in 1..Len(s) : Append(s, x)[i] = s[i]
BY AppendProperties, LenProperties

(* The input only grows. *)
Grown ==
  /\ taken' \in Seq(Symbols) /\ Len(taken') >= Len(taken)
  /\ \A j \in 1..Len(taken) : taken'[j] = taken[j]

LEMMA ReadGrows ==
  ASSUME CzyTypes, NEW b \in Symbols, Read(b)
  PROVE  Grown /\ Len(taken') = Len(taken) + 1 /\ taken'[Len(taken) + 1] = b /\ Len(taken) \in Nat
<1>1. taken \in Seq(Symbols) /\ taken' = Append(taken, b)
  BY DEF CzyTypes, Read
<1>2. /\ Append(taken, b) \in Seq(Symbols) /\ Len(Append(taken, b)) = Len(taken) + 1 /\ Len(taken) \in Nat
      /\ Append(taken, b)[Len(taken) + 1] = b /\ \A i \in 1..Len(taken) : Append(taken, b)[i] = taken[i]
  BY <1>1, AppendFacts
<1> QED BY <1>1, <1>2 DEF Grown

LEMMA Bounds ==
  ASSUME CzyTypes, DzyTypes, NEW e, Placed(e)
  PROVE  /\ Len(taken) \in Nat /\ Len(codes) \in Nat /\ Len(out) \in Nat
         /\ Coded \in Nat /\ Coded <= Len(taken) /\ Len(out) <= Coded /\ Ahead \in Nat
<1>1. Len(taken) \in Nat /\ Len(codes) \in Nat /\ Len(out) \in Nat
  BY LenProperties DEF CzyTypes, DzyTypes
<1>2. Ahead \in Nat
  BY Sizes DEF Ahead, CzyTypes
<1>3. Coded \in Nat
  BY <1>1 DEF Placed
<1>4. Len(out) <= Coded
  BY DEF Placed, DzyTypes
<1> QED BY <1>1, <1>2, <1>3, <1>4 DEF Coded

--------------------------------------------------------------------------------
(* Each step of czy keeps the invariant. *)
LEMMA PlacedStays ==
  ASSUME CzyTypes, DzyTypes, NEW e, Placed(e), Grown, UNCHANGED <<codes, decoded, out>>,
         Coded' = Coded
  PROVE  Placed(e)'
<1>1. /\ Len(taken) \in Nat /\ Len(codes) \in Nat /\ Coded \in Nat /\ Coded <= Len(taken)
  BY Bounds
<1>2. ASSUME NEW i \in 1..Len(codes) PROVE Stands(codes[i], taken', e[i - 1])
  <2>1. codes[i] \in CodeSet
    BY ElementOfSeq DEF CzyTypes
  <2>2. PICK p \in Nat : p = e[i - 1] /\ p + Copies(codes[i]) = e[i] /\ Stands(codes[i], taken, p)
    BY DEF Placed
  <2>3. e[i] <= Coded
    BY DEF Placed
  <2>4. \A j \in 1..p + Copies(codes[i]) : taken'[j] = taken[j]
    <3>1. \A j \in 1..p + Copies(codes[i]) : j \in 1..Len(taken)
      <4>1. Copies(codes[i]) \in Nat
        BY <2>1, CodeShape
      <4>2. p + Copies(codes[i]) <= Len(taken)
        BY <1>1, <2>2, <2>3, <4>1
      <4> QED BY <1>1, <4>1, <4>2
    <3> QED BY <3>1 DEF Grown
  <2>5. Stands(codes[i], taken', p)
    BY <2>1, <2>2, <2>4, StandsSame
  <2> QED BY <2>2, <2>5
<1> QED BY <1>2 DEF Placed

LEMMA PlacedMore ==
  ASSUME CzyTypes, DzyTypes, NEW e, Placed(e), Grown, UNCHANGED <<decoded, out>>,
         NEW c \in CodeSet, codes' = Append(codes, c), Stands(c, taken', Coded),
         Coded' = Coded + Copies(c)
  PROVE  \E f : Placed(f)'
<1>1. /\ Len(taken) \in Nat /\ Len(codes) \in Nat /\ Coded \in Nat /\ Coded <= Len(taken)
  BY Bounds
<1>2. Copies(c) \in Nat /\ Copies(c) > 0
  BY CodeShape
<1> DEFINE n == Len(codes)
           q == Coded + Copies(c)
<1>3. /\ Len(codes') = n + 1 /\ codes'[n + 1] = c /\ \A i \in 1..n : codes'[i] = codes[i]
  BY AppendFacts DEF CzyTypes
<1>4. PICK m \in Nat, r \in Nat : m = n /\ r = q
  BY <1>1, <1>2
<1> DEFINE f == [i \in Nat |-> IF i = m + 1 THEN r ELSE e[i]]
<1>5. f \in [Nat -> Nat] /\ f[0] = 0
  <2>1. e \in [Nat -> Nat] /\ e[0] = 0
    BY DEF Placed
  <2>2. 0 # m + 1
    OBVIOUS
  <2> QED BY <2>1, <2>2
<1>6. ASSUME NEW i \in 1..m + 1
      PROVE  f[i] = f[i - 1] + Copies(codes'[i]) /\ Stands(codes'[i], taken', f[i - 1])
  <2>1. i - 1 \in 0..m /\ i - 1 # m + 1 /\ f[i - 1] = e[i - 1]
    OBVIOUS
  <2>2. CASE i = m + 1
    <3>1. f[i - 1] = Coded
      BY <1>4, <2>1, <2>2 DEF Placed
    <3>2. codes'[i] = c /\ f[i] = Coded + Copies(c)
      BY <1>3, <1>4, <2>2
    <3> QED BY <3>1, <3>2
  <2>3. CASE i # m + 1
    <3>1. i \in 1..n
      BY <1>4, <2>3
    <3>2. codes[i] \in CodeSet
      BY <3>1, ElementOfSeq DEF CzyTypes
    <3>3. PICK p \in Nat : p = e[i - 1] /\ p + Copies(codes[i]) = e[i] /\ Stands(codes[i], taken, p)
      BY <3>1 DEF Placed
    <3>4. e[i] <= Coded
      BY <3>1 DEF Placed
    <3>5. \A j \in 1..p + Copies(codes[i]) : taken'[j] = taken[j]
      <4>1. \A j \in 1..p + Copies(codes[i]) : j \in 1..Len(taken)
        <5>1. Copies(codes[i]) \in Nat
          BY <3>2, CodeShape
        <5>2. p + Copies(codes[i]) <= Len(taken)
          BY <1>1, <3>3, <3>4, <5>1
        <5> QED BY <1>1, <5>1, <5>2
      <4> QED BY <4>1 DEF Grown
    <3>6. Stands(codes[i], taken', p)
      BY <3>2, <3>3, <3>5, StandsSame
    <3>7. codes'[i] = codes[i] /\ f[i] = e[i]
      BY <1>3, <2>3, <3>1
    <3> QED BY <2>1, <3>3, <3>6, <3>7
  <2> QED BY <2>2, <2>3
<1>7. \A i \in 0..m + 1 : f[i] <= f[m + 1]
  <2>1. \A i \in 0..m : e[i] <= Coded /\ e[i] \in Nat
    BY <1>4 DEF Placed
  <2>2. \A i \in 0..m + 1 : i = m + 1 \/ i \in 0..m
    OBVIOUS
  <2>3. f[m + 1] = Coded + Copies(c)
    BY <1>4
  <2> QED BY <1>1, <1>2, <1>4, <2>1, <2>2, <2>3
<1>8. f[m + 1] = Coded' /\ f[decoded'] = Len(out')
  <2>1. decoded \in Nat /\ decoded # m + 1
    BY <1>1, <1>4 DEF DzyTypes
  <2>2. f[decoded] = e[decoded]
    BY <2>1
  <2> QED BY <1>4, <2>2 DEF Placed
<1> HIDE DEF f
<1>9. Placed(f)'
  <2>1. Len(codes') = m + 1
    BY <1>3, <1>4
  <2> QED BY <1>5, <1>6, <1>7, <1>8, <2>1 DEF Placed
<1> QED BY <1>9

(* What dzy has written stays a beginning of the input. *)
LEMMA DzyStays ==
  ASSUME CzyTypes, DzyInv, NEW e, Placed(e), Grown, UNCHANGED dzy, Len(codes') \in Nat, Len(codes') >= Len(codes)
  PROVE  DzyInv'
<1>1. /\ Len(taken) \in Nat /\ Len(codes) \in Nat /\ Len(out) \in Nat /\ Len(out) <= Len(taken)
  BY Bounds DEF DzyInv
<1>2. dwindow' = dwindow /\ dcount' = dcount /\ decoded' = decoded /\ out' = out
  BY DEF dzy
<1>3. \A j \in 1..Len(out) : taken'[j] = taken[j]
  <2>1. \A j \in 1..Len(out) : j \in 1..Len(taken)
    BY <1>1
  <2> QED BY <2>1 DEF Grown
<1>4. Remembers(dwindow, dcount, taken', Len(out))
  BY <1>1, <1>3, RemembersSame DEF DzyInv
<1>5. DzyTypes'
  BY <1>1, <1>2 DEF DzyTypes, DzyInv
<1> QED BY <1>2, <1>3, <1>4, <1>5 DEF DzyInv

LEMMA CzyKeeps ==
  ASSUME CodecInv, Grown, UNCHANGED dzy, CzyInv',
         \/ UNCHANGED codes /\ Coded' = Coded
         \/ \E c \in CodeSet : /\ codes' = Append(codes, c) /\ Stands(c, taken', Coded)
                               /\ Coded' = Coded + Copies(c)
  PROVE  CodecInv'
<1>1. PICK e : Placed(e)
  BY DEF CodecInv
<1>2. CzyTypes /\ DzyInv /\ DzyTypes /\ UNCHANGED <<decoded, out>>
  BY DEF CodecInv, CzyInv, DzyInv, dzy
<1>3. Len(codes') \in Nat /\ Len(codes') >= Len(codes)
  <2>1. codes \in Seq(CodeSet) /\ Len(codes) \in Nat
    BY <1>2, LenProperties DEF CzyTypes
  <2> QED BY <2>1, AppendFacts
<1>4. DzyInv'
  BY <1>1, <1>2, <1>3, DzyStays
<1>5. CASE UNCHANGED codes /\ Coded' = Coded
  <2>1. Placed(e)'
    BY <1>1, <1>2, <1>5, PlacedStays
  <2> QED BY <1>4, <2>1 DEF CodecInv
<1>6. CASE \E c \in CodeSet : /\ codes' = Append(codes, c) /\ Stands(c, taken', Coded)
                              /\ Coded' = Coded + Copies(c)
  <2>1. PICK c \in CodeSet : /\ codes' = Append(codes, c) /\ Stands(c, taken', Coded)
                             /\ Coded' = Coded + Copies(c)
    BY <1>6
  <2>2. \E f : Placed(f)'
    BY <1>1, <1>2, <2>1, PlacedMore
  <2> QED BY <1>4, <2>2 DEF CodecInv
<1> QED BY <1>5, <1>6

(* What is known before a step of czy. *)
LEMMA Before ==
  ASSUME CodecInv
  PROVE  /\ CzyTypes /\ TopInv /\ SecondInv /\ RepeatsInv
         /\ Len(taken) \in Nat /\ Coded \in Nat /\ Coded <= Len(taken) /\ Coded = Len(taken) - Ahead
<1>1. PICK e : Placed(e)
  BY DEF CodecInv
<1>2. CzyTypes /\ DzyTypes /\ TopInv /\ SecondInv /\ RepeatsInv
  BY DEF CodecInv, CzyInv, DzyInv
<1>3. /\ Len(taken) \in Nat /\ Coded \in Nat /\ Coded <= Len(taken)
  BY <1>1, <1>2, Bounds
<1> QED BY <1>2, <1>3 DEF Coded

LEMMA AddedTypes ==
  ASSUME CzyTypes, NEW b \in Symbols \union {0}, NEW n \in Nat, addToBuffer(b, n)
  PROVE  window' \in [0..W - 1 -> Symbols \union {0}] /\ count' \in Nat
<1>1. count \in Int /\ window \in [0..W - 1 -> Symbols \union {0}]
  BY DEF CzyTypes
<1>2. Added(window, count, b, n) \in [0..W - 1 -> Symbols \union {0}]
  BY <1>1, AddedType
<1> QED BY <1>2 DEF addToBuffer, CzyTypes

(* czy's window after n symbols b more. *)
LEMMA WindowGrows ==
  ASSUME CzyTypes, Grown, NEW p \in Nat, p <= Len(taken), Remembers(window, count, taken, p),
         NEW b, NEW n \in Nat, addToBuffer(b, n), \A j \in p + 1 .. p + n : taken'[j] = b
  PROVE  Remembers(window', count', taken', p + n)
<1>1. \A j \in 1..p : taken'[j] = taken[j]
  <2>1. Len(taken) \in Nat
    BY LenProperties DEF CzyTypes
  <2>2. \A j \in 1..p : j \in 1..Len(taken)
    BY <2>1
  <2> QED BY <2>2 DEF Grown
<1>2. Remembers(window, count, taken', p)
  BY <1>1, RemembersSame
<1>3. count \in Int
  BY DEF CzyTypes
<1> QED BY <1>2, <1>3, RemembersMore DEF addToBuffer

LEMMA WindowStays ==
  ASSUME CzyTypes, Grown, NEW p \in Nat, p <= Len(taken), Remembers(window, count, taken, p),
         UNCHANGED <<window, count>>
  PROVE  Remembers(window', count', taken', p) /\ \A i \in Nat : Back(taken', p, i) = Back(taken, p, i)
<1>1. \A j \in 1..p : taken'[j] = taken[j]
  <2>1. Len(taken) \in Nat
    BY LenProperties DEF CzyTypes
  <2>2. \A j \in 1..p : j \in 1..Len(taken)
    BY <2>1
  <2> QED BY <2>2 DEF Grown
<1>2. Remembers(window, count, taken', p)
  BY <1>1, RemembersSame
<1>3. \A i \in Nat : i < p => p - i \in 1..p
  OBVIOUS
<1> QED BY <1>1, <1>2, <1>3 DEF Back

LEMMA BackStays ==
  ASSUME CzyTypes, Grown, NEW p \in Nat, p <= Len(taken), NEW i \in Nat
  PROVE  Back(taken', p, i) = Back(taken, p, i)
<1>1. Len(taken) \in Nat
  BY LenProperties DEF CzyTypes
<1>2. i < p => p - i \in 1..Len(taken)
  BY <1>1
<1> QED BY <1>2 DEF Back, Grown

(* The top of the loop, b being the symbol to code. *)
LEMMA CodeKeeps ==
  ASSUME CodecInv, pc = "top", Grown, NEW b \in Symbols, Len(taken') = Coded + 1,
         taken'[Coded + 1] = b, Code(b), UNCHANGED dzy
  PROVE  CodecInv'
<1>1. /\ CzyTypes /\ Len(taken) \in Nat /\ Coded \in Nat /\ Coded <= Len(taken)
      /\ Remembers(window, count, taken, Coded)
  BY Before DEF TopInv
<1>2. PICK p \in Nat : p = Coded
  BY <1>1
<1>3. taken' \in Seq(Symbols)
  BY DEF Grown
<1>4. CASE checkUniqueness(b) = NONE
  <2>1. /\ Put(Raw(b)) /\ addToBuffer(b, 1) /\ last' = NONE
        /\ UNCHANGED <<pc, byteRead, unique, repeats>>
    BY <1>4 DEF Code
  <2>2. codes' = Append(codes, Raw(b)) /\ Raw(b) \in CodeSet /\ Copies(Raw(b)) = 1
    BY <2>1, CodesMade DEF Put
  <2>3. Stands(Raw(b), taken', p)
    <3>1. \A j \in p + 1 .. p + 1 : taken'[j] = b
      BY <1>2
    <3> QED BY <2>2, <3>1 DEF Stands, Raw
  <2>4. Coded' = p + 1
    BY <1>2, <2>1 DEF Coded, Ahead
  <2>5. Remembers(window', count', taken', p + 1)
    <3>1. \A j \in p + 1 .. p + 1 : taken'[j] = b
      BY <1>2
    <3> QED BY <1>1, <1>2, <2>1, <3>1, WindowGrows
  <2>6. CzyTypes'
    <3>1. window' \in [0..W - 1 -> Symbols \union {0}] /\ count' \in Nat
      BY <1>1, <2>1, AddedTypes
    <3>2. codes' \in Seq(CodeSet)
      BY <1>1, <2>2, AppendFacts DEF CzyTypes
    <3> QED BY <1>1, <1>3, <2>1, <3>1, <3>2 DEF CzyTypes
  <2>7. CzyInv'
    BY <2>1, <2>4, <2>5, <2>6 DEF CzyInv, TopInv, SecondInv, RepeatsInv
  <2> QED BY <1>2, <2>2, <2>3, <2>4, <2>7, CzyKeeps
<1>5. CASE checkUniqueness(b) # NONE
  <2>1. /\ byteRead' = b /\ unique' = checkUniqueness(b) /\ pc' = "second"
        /\ UNCHANGED <<repeats, last, window, count, codes>>
    BY <1>5 DEF Code
  <2>2. PICK u \in 0..W - 1 : u = checkUniqueness(b) /\ At(window, count, u) = b
    BY <1>5, Uniqueness
  <2>3. Coded' = p
    BY <1>2, <2>1 DEF Coded, Ahead
  <2>4. Remembers(window', count', taken', p) /\ Back(taken', p, u) = b
    <3>1. Back(taken, p, u) = b
      BY <1>1, <1>2, <2>2 DEF Remembers
    <3>2. u \in Nat
      BY Sizes
    <3> QED BY <1>1, <1>2, <2>1, <3>1, <3>2, WindowStays
  <2>5. CzyTypes'
    BY <1>1, <1>3, <2>1, <2>2 DEF CzyTypes
  <2>6. CzyInv'
    <3>1. Len(taken') >= 1 /\ byteRead' = taken'[Len(taken')]
      BY <1>2, <2>1
    <3> QED BY <2>1, <2>2, <2>3, <2>4, <2>5, <3>1 DEF CzyInv, TopInv, SecondInv, RepeatsInv
  <2> QED BY <1>2, <2>1, <2>3, <2>6, CzyKeeps
<1> QED BY <1>4, <1>5

LEMMA ReadSymbolKeeps ==
  ASSUME CodecInv, NEW b \in Symbols, ReadSymbol(b), UNCHANGED dzy
  PROVE  CodecInv'
<1>1. pc = "top" /\ last = NONE /\ Read(b) /\ Code(b)
  BY DEF ReadSymbol
<1>2. CzyTypes /\ Len(taken) \in Nat /\ Coded = Len(taken)
  BY <1>1, Before DEF Coded, Ahead
<1>3. Grown /\ Len(taken') = Len(taken) + 1 /\ taken'[Len(taken) + 1] = b
  BY <1>1, <1>2, ReadGrows
<1> QED BY <1>1, <1>2, <1>3, CodeKeeps

(* A step that does not read. *)
LEMMA StillGrown ==
  ASSUME CzyTypes, UNCHANGED taken
  PROVE  Grown
BY LenProperties DEF CzyTypes, Grown

LEMMA UseLastKeeps ==
  ASSUME CodecInv, UseLast, UNCHANGED dzy
  PROVE  CodecInv'
<1>1. pc = "top" /\ last # NONE /\ Code(last) /\ taken' = taken
  BY DEF UseLast
<1>2. CzyTypes /\ Len(taken) \in Nat /\ Coded = Len(taken) - 1 /\ last = taken[Len(taken)]
  BY <1>1, Before DEF Coded, Ahead, TopInv
<1>3. last \in Symbols
  BY <1>1, <1>2 DEF CzyTypes
<1>4. Grown /\ Len(taken') = Coded + 1 /\ taken'[Coded + 1] = last
  BY <1>1, <1>2, StillGrown
<1> QED BY <1>1, <1>3, <1>4, CodeKeeps

LEMMA EndAtTopKeeps ==
  ASSUME CodecInv, EndAtTop, UNCHANGED dzy
  PROVE  CodecInv'
<1>1. /\ pc = "top" /\ last = NONE /\ pc' = "done"
      /\ UNCHANGED <<byteRead, unique, repeats, last, window, count, taken, codes>>
  BY DEF EndAtTop
<1>2. CzyTypes /\ Grown
  BY <1>1, Before, StillGrown
<1>3. Coded' = Coded
  BY <1>1 DEF Coded, Ahead
<1>4. CzyInv'
  <2>1. CzyTypes'
    BY <1>1, <1>2 DEF CzyTypes
  <2> QED BY <1>1, <2>1 DEF CzyInv, TopInv, SecondInv, RepeatsInv
<1> QED BY <1>1, <1>2, <1>3, <1>4, CzyKeeps

LEMMA SecondDiffersKeeps ==
  ASSUME CodecInv, NEW b \in Symbols, SecondDiffers(b), UNCHANGED dzy
  PROVE  CodecInv'
<1>1. /\ pc = "second" /\ b # byteRead /\ Read(b) /\ Put(Once(unique)) /\ addToBuffer(byteRead, 1)
      /\ last' = b /\ pc' = "top" /\ UNCHANGED <<byteRead, unique, repeats>>
  BY DEF SecondDiffers
<1>2. /\ CzyTypes /\ Len(taken) \in Nat /\ Coded \in Nat /\ Coded = Len(taken) - 1
      /\ Remembers(window, count, taken, Coded)
      /\ byteRead = taken[Len(taken)] /\ Back(taken, Coded, unique) = byteRead
  BY <1>1, Before DEF Ahead, SecondInv
<1>3. Grown /\ Len(taken') = Len(taken) + 1 /\ taken'[Len(taken) + 1] = b
  BY <1>1, <1>2, ReadGrows
<1>4. PICK p \in Nat : p = Coded /\ Len(taken) = p + 1
  BY <1>2
<1>5. PICK u \in 0..W - 1 : u = unique
  BY <1>2 DEF CzyTypes
<1>6. taken'[p + 1] = byteRead
  <2>1. p + 1 \in 1..Len(taken)
    BY <1>4
  <2> QED BY <1>2, <1>3, <1>4, <2>1 DEF Grown
<1>7. codes' = Append(codes, Once(u)) /\ Once(u) \in CodeSet /\ Copies(Once(u)) = 1
  BY <1>1, <1>5, CodesMade DEF Put
<1>8. Stands(Once(u), taken', p)
  <2>1. Back(taken', p, u) = byteRead
    <3>1. u \in Nat /\ p <= Len(taken)
      BY <1>4, Sizes
    <3> QED BY <1>2, <1>3, <1>4, <1>5, <3>1, BackStays
  <2>2. Once(u).form = "once" /\ Once(u).pos = u
    BY DEF Once
  <2> QED BY <1>6, <1>7, <2>1, <2>2 DEF Stands
<1>9. Coded' = p + 1
  <2>1. last' # NONE
    BY <1>1, Sizes
  <2> QED BY <1>1, <1>3, <1>4, <2>1 DEF Coded, Ahead
<1>10. Remembers(window', count', taken', p + 1)
  <2>1. \A j \in p + 1 .. p + 1 : taken'[j] = byteRead
    BY <1>6
  <2>2. p <= Len(taken)
    BY <1>4
  <2> QED BY <1>1, <1>2, <1>3, <1>4, <2>1, <2>2, WindowGrows
<1>11. CzyTypes'
  <2>1. window' \in [0..W - 1 -> Symbols \union {0}] /\ count' \in Nat
    <3>1. byteRead \in Symbols \union {0}
      BY <1>2 DEF CzyTypes
    <3> QED BY <1>1, <1>2, <3>1, AddedTypes
  <2>2. codes' \in Seq(CodeSet)
    BY <1>2, <1>7, AppendFacts DEF CzyTypes
  <2> QED BY <1>1, <1>2, <1>3, <2>1, <2>2 DEF CzyTypes, Grown
<1>12. CzyInv'
  <2>1. Len(taken') >= 1 /\ last' = taken'[Len(taken')]
    BY <1>1, <1>3, <1>4
  <2> QED BY <1>1, <1>9, <1>10, <1>11, <2>1 DEF CzyInv, TopInv, SecondInv, RepeatsInv
<1> QED BY <1>3, <1>4, <1>7, <1>8, <1>9, <1>12, CzyKeeps

LEMMA SecondRepeatsKeeps ==
  ASSUME CodecInv, SecondRepeats, UNCHANGED dzy
  PROVE  CodecInv'
<1>1. /\ pc = "second" /\ Read(byteRead) /\ addToBuffer(byteRead, 2) /\ repeats' = 0 /\ pc' = "repeats"
      /\ UNCHANGED <<byteRead, unique, last, codes>>
  BY DEF SecondRepeats
<1>2. /\ CzyTypes /\ Len(taken) \in Nat /\ Coded \in Nat /\ Coded = Len(taken) - 1
      /\ Remembers(window, count, taken, Coded)
      /\ byteRead = taken[Len(taken)] /\ Back(taken, Coded, unique) = byteRead
  BY <1>1, Before DEF Ahead, SecondInv
<1>3. PICK p \in Nat : p = Coded /\ Len(taken) = p + 1
  BY <1>2
<1>4. PICK b \in Symbols : b = byteRead
  <2>1. Len(taken) \in 1..Len(taken) /\ taken \in Seq(Symbols)
    BY <1>2, <1>3 DEF CzyTypes
  <2> QED BY <1>2, <2>1, ElementOfSeq
<1>5. Grown /\ Len(taken') = p + 2 /\ taken'[p + 2] = b
  <2>1. Grown /\ Len(taken') = Len(taken) + 1 /\ taken'[Len(taken) + 1] = b
    BY <1>1, <1>2, <1>4, ReadGrows
  <2> QED BY <1>3, <2>1
<1>6. taken'[p + 1] = b
  <2>1. p + 1 \in 1..Len(taken)
    BY <1>3
  <2> QED BY <1>2, <1>3, <1>4, <1>5, <2>1 DEF Grown
<1>7. \A j \in p + 1 .. p + 2 : taken'[j] = b
  <2>1. \A j \in p + 1 .. p + 2 : j = p + 1 \/ j = p + 2
    OBVIOUS
  <2> QED BY <1>5, <1>6, <2>1
<1>8. Coded' = p
  BY <1>1, <1>5 DEF Coded, Ahead
<1>9. Remembers(window', count', taken', p + 2)
  <2>1. p <= Len(taken)
    BY <1>3
  <2> QED BY <1>1, <1>2, <1>3, <1>4, <1>5, <1>7, <2>1, WindowGrows
<1>10. Back(taken', p, unique) = byteRead
  <2>1. unique \in Nat /\ p <= Len(taken)
    BY <1>2, <1>3, Sizes DEF CzyTypes
  <2> QED BY <1>2, <1>3, <1>5, <2>1, BackStays
<1>11. CzyTypes'
  <2>1. window' \in [0..W - 1 -> Symbols \union {0}] /\ count' \in Nat
    BY <1>1, <1>2, <1>4, AddedTypes
  <2>2. 0 \in 0..W - 1
    BY Sizes
  <2> QED BY <1>1, <1>2, <1>5, <2>1, <2>2 DEF CzyTypes, Grown
<1>12. CzyInv'
  BY <1>1, <1>4, <1>5, <1>7, <1>8, <1>9, <1>10, <1>11 DEF CzyInv, TopInv, SecondInv, RepeatsInv
<1> QED BY <1>1, <1>3, <1>5, <1>8, <1>12, CzyKeeps

LEMMA EndAtSecondKeeps ==
  ASSUME CodecInv, EndAtSecond, UNCHANGED dzy
  PROVE  CodecInv'
<1>1. /\ pc = "second" /\ pc' = "done" /\ Put(Once(unique))
      /\ UNCHANGED <<byteRead, unique, repeats, last, window, count, taken>>
  BY DEF EndAtSecond
<1>2. /\ CzyTypes /\ Len(taken) \in Nat /\ Coded \in Nat /\ Coded = Len(taken) - 1
      /\ byteRead = taken[Len(taken)] /\ Back(taken, Coded, unique) = byteRead
  BY <1>1, Before DEF Ahead, SecondInv
<1>3. Grown
  BY <1>1, <1>2, StillGrown
<1>4. PICK p \in Nat : p = Coded /\ Len(taken) = p + 1
  BY <1>2
<1>5. PICK u \in 0..W - 1 : u = unique
  BY <1>2 DEF CzyTypes
<1>6. codes' = Append(codes, Once(u)) /\ Once(u) \in CodeSet /\ Copies(Once(u)) = 1
  BY <1>1, <1>5, CodesMade DEF Put
<1>7. Stands(Once(u), taken', p)
  <2>1. \A j \in p + 1 .. p + 1 : taken'[j] = Back(taken', p, u)
    BY <1>1, <1>2, <1>4, <1>5
  <2>2. Once(u).form = "once" /\ Once(u).pos = u
    BY DEF Once
  <2> QED BY <1>6, <2>1, <2>2 DEF Stands
<1>8. Coded' = p + 1
  BY <1>1, <1>4 DEF Coded, Ahead
<1>9. CzyInv'
  <2>1. codes' \in Seq(CodeSet)
    BY <1>2, <1>6, AppendFacts DEF CzyTypes
  <2>2. CzyTypes'
    BY <1>1, <1>2, <2>1 DEF CzyTypes
  <2> QED BY <1>1, <2>2 DEF CzyInv, TopInv, SecondInv, RepeatsInv
<1> QED BY <1>3, <1>4, <1>6, <1>7, <1>8, <1>9, CzyKeeps

(* The repetition loop, with what is known in it. *)
LEMMA InRun ==
  ASSUME CodecInv, pc = "repeats"
  PROVE  /\ CzyTypes /\ repeats \in 0..W - 1 /\ unique \in 0..W - 1
         /\ Coded \in Nat /\ Len(taken) = Coded + repeats + 2
         /\ Remembers(window, count, taken, Len(taken))
         /\ \A j \in Coded + 1 .. Len(taken) : taken[j] = byteRead
         /\ Back(taken, Coded, unique) = byteRead /\ byteRead \in Symbols
<1>1. /\ CzyTypes /\ Len(taken) \in Nat /\ Coded \in Nat /\ Coded = Len(taken) - (repeats + 2)
      /\ Remembers(window, count, taken, Len(taken))
      /\ \A j \in Coded + 1 .. Len(taken) : taken[j] = byteRead
      /\ Back(taken, Coded, unique) = byteRead
  BY Before DEF Ahead, RepeatsInv
<1>2. repeats \in 0..W - 1 /\ unique \in 0..W - 1 /\ taken \in Seq(Symbols)
  BY <1>1 DEF CzyTypes
<1>3. Len(taken) = Coded + repeats + 2
  BY <1>1, <1>2, Sizes
<1>4. byteRead \in Symbols
  <2>1. Len(taken) \in Coded + 1 .. Len(taken) /\ Len(taken) \in 1..Len(taken)
    BY <1>1, <1>2, <1>3, Sizes
  <2> QED BY <1>1, <1>2, <2>1, ElementOfSeq
<1> QED BY <1>1, <1>2, <1>3, <1>4

(* The run a code cuts: of n + 2 symbols from the p-th on. *)
LEMMA RunStands ==
  ASSUME NEW s, NEW p \in Nat, NEW u \in 0..W - 1, NEW n \in 0..W - 1, NEW b,
         Back(s, p, u) = b, \A j \in p + 1 .. p + n + 2 : s[j] = b
  PROVE  Stands(Run(u, n), s, p)
<1>1. Run(u, n).form = "run" /\ Run(u, n).pos = u
  BY DEF Run
<1>2. p + Copies(Run(u, n)) = p + n + 2
  <2>1. Copies(Run(u, n)) = n + 2 /\ n \in Nat
    BY CodesMade, Sizes
  <2> QED BY <2>1
<1> QED BY <1>1, <1>2 DEF Stands

LEMMA RepeatsAgainKeeps ==
  ASSUME CodecInv, RepeatsAgain, UNCHANGED dzy
  PROVE  CodecInv'
<1>1. /\ pc = "repeats" /\ Read(byteRead) /\ addToBuffer(byteRead, 1) /\ UNCHANGED <<byteRead, unique>>
      /\ IF repeats + 1 = W
         THEN Put(Run(unique, W - 1)) /\ last' = byteRead /\ pc' = "top" /\ UNCHANGED repeats
         ELSE repeats' = repeats + 1 /\ UNCHANGED <<last, pc, codes>>
  BY DEF RepeatsAgain
<1>2. /\ CzyTypes /\ Remembers(window, count, taken, Len(taken))
      /\ \A j \in Coded + 1 .. Len(taken) : taken[j] = byteRead
      /\ Back(taken, Coded, unique) = byteRead
  BY <1>1, InRun
<1>3. PICK p \in Nat, r \in 0..W - 1, u \in 0..W - 1, b \in Symbols :
        p = Coded /\ r = repeats /\ u = unique /\ b = byteRead /\ Len(taken) = p + r + 2
  BY <1>1, InRun
<1>4. W \in Nat /\ W > 0
  BY Sizes
<1>5. Grown /\ Len(taken') = p + r + 3 /\ taken'[p + r + 3] = b
  <2>1. Grown /\ Len(taken') = Len(taken) + 1 /\ taken'[Len(taken) + 1] = b
    BY <1>1, <1>2, <1>3, ReadGrows
  <2>2. Len(taken) + 1 = p + r + 3
    BY <1>3, <1>4
  <2> QED BY <2>1, <2>2
<1>6. \A j \in p + 1 .. p + r + 3 : taken'[j] = b
  <2>1. \A j \in p + 1 .. p + r + 3 :
          j = p + r + 3 \/ (j \in p + 1 .. Len(taken) /\ j \in 1..Len(taken))
    BY <1>3, <1>4
  <2>2. \A j \in p + 1 .. Len(taken) : taken[j] = b
    BY <1>2, <1>3
  <2> QED BY <1>5, <2>1, <2>2 DEF Grown
<1>7. Remembers(window', count', taken', p + r + 3)
  <2>1. PICK l \in Nat : l = Len(taken) /\ l + 1 = p + r + 3
    BY <1>3, <1>4
  <2>2. \A j \in l + 1 .. l + 1 : taken'[j] = b
    BY <1>5, <2>1
  <2>3. Remembers(window', count', taken', l + 1)
    BY <1>1, <1>2, <1>3, <1>5, <2>1, <2>2, WindowGrows
  <2> QED BY <2>1, <2>3
<1>8. Back(taken', p, u) = b
  <2>1. u \in Nat /\ p <= Len(taken)
    BY <1>3, <1>4
  <2> QED BY <1>2, <1>3, <1>5, <2>1, BackStays
<1>9. window' \in [0..W - 1 -> Symbols \union {0}] /\ count' \in Nat
  BY <1>1, <1>2, <1>3, AddedTypes
<1>10. CASE repeats + 1 = W
  <2>1. /\ codes' = Append(codes, Run(u, r)) /\ r + 1 = W /\ last' = b /\ pc' = "top"
        /\ UNCHANGED repeats
    BY <1>1, <1>3, <1>4, <1>10 DEF Put
  <2>2. Run(u, r) \in CodeSet /\ Copies(Run(u, r)) = r + 2
    BY CodesMade
  <2>3. Stands(Run(u, r), taken', p)
    <3>1. \A j \in p + 1 .. p + r + 2 : taken'[j] = b
      BY <1>4, <1>6
    <3> QED BY <1>8, <3>1, RunStands
  <2>4. Coded' = p + r + 2
    <3>1. last' # NONE
      BY <2>1, Sizes
    <3> QED BY <1>4, <1>5, <2>1, <3>1 DEF Coded, Ahead
  <2>5. Remembers(window', count', taken', p + r + 2)
    <3> SUFFICES ASSUME NEW i \in 0..W - 1
                 PROVE  Back(taken', p + r + 2, i) = Back(taken', p + r + 3, i)
      BY <1>7 DEF Remembers
    <3>1. /\ i < p + r + 2 /\ i < p + r + 3
          /\ (p + r + 2) - i \in p + 1 .. p + r + 3 /\ (p + r + 3) - i \in p + 1 .. p + r + 3
      BY <1>4, <2>1
    <3> QED BY <1>6, <3>1 DEF Back
  <2>6. CzyTypes'
    <3>1. codes' \in Seq(CodeSet)
      BY <1>2, <2>1, <2>2, AppendFacts DEF CzyTypes
    <3> QED BY <1>1, <1>2, <1>5, <1>9, <2>1, <3>1 DEF CzyTypes, Grown
  <2>7. CzyInv'
    <3>1. Len(taken') >= 1 /\ last' = taken'[Len(taken')]
      BY <1>4, <1>5, <2>1
    <3> QED BY <2>1, <2>4, <2>5, <2>6, <3>1 DEF CzyInv, TopInv, SecondInv, RepeatsInv
  <2>8. Coded' = Coded + Copies(Run(u, r))
    BY <1>3, <1>4, <2>2, <2>4
  <2> QED BY <1>3, <1>5, <2>1, <2>2, <2>3, <2>7, <2>8, CzyKeeps
<1>11. CASE repeats + 1 # W
  <2>1. repeats' = r + 1 /\ pc' = "repeats" /\ UNCHANGED <<last, codes>> /\ r + 1 \in 0..W - 1
    BY <1>1, <1>3, <1>4, <1>11
  <2>2. Coded' = p
    BY <1>4, <1>5, <2>1 DEF Coded, Ahead
  <2>3. CzyTypes'
    BY <1>1, <1>2, <1>5, <1>9, <2>1 DEF CzyTypes, Grown
  <2>4. CzyInv'
    BY <1>1, <1>3, <1>5, <1>6, <1>7, <1>8, <2>1, <2>2, <2>3 DEF CzyInv, TopInv, SecondInv, RepeatsInv
  <2> QED BY <1>3, <1>5, <2>1, <2>2, <2>4, CzyKeeps
<1> QED BY <1>10, <1>11

LEMMA RepeatsNoMoreKeeps ==
  ASSUME CodecInv, NEW b \in Symbols, RepeatsNoMore(b), UNCHANGED dzy
  PROVE  CodecInv'
<1>1. /\ pc = "repeats" /\ Read(b) /\ Put(Run(unique, repeats)) /\ last' = b /\ pc' = "top"
      /\ UNCHANGED <<byteRead, unique, repeats, window, count>>
  BY DEF RepeatsNoMore
<1>2. /\ CzyTypes /\ Remembers(window, count, taken, Len(taken))
      /\ \A j \in Coded + 1 .. Len(taken) : taken[j] = byteRead
      /\ Back(taken, Coded, unique) = byteRead
  BY <1>1, InRun
<1>3. PICK p \in Nat, r \in 0..W - 1, u \in 0..W - 1 :
        p = Coded /\ r = repeats /\ u = unique /\ Len(taken) = p + r + 2
  BY <1>1, InRun
<1>4. W \in Nat /\ W > 0
  BY Sizes
<1>5. Grown /\ Len(taken') = Len(taken) + 1 /\ taken'[Len(taken) + 1] = b
  BY <1>1, <1>2, ReadGrows
<1>6. /\ codes' = Append(codes, Run(u, r)) /\ Run(u, r) \in CodeSet /\ Copies(Run(u, r)) = r + 2
  BY <1>1, <1>3, CodesMade DEF Put
<1>7. Stands(Run(u, r), taken', p)
  <2>1. \A j \in p + 1 .. p + r + 2 : taken'[j] = byteRead
    <3>1. \A j \in p + 1 .. p + r + 2 : j \in 1..Len(taken) /\ j \in p + 1 .. Len(taken)
      BY <1>3, <1>4
    <3>2. \A j \in p + 1 .. Len(taken) : taken[j] = byteRead
      BY <1>2, <1>3
    <3> QED BY <1>5, <3>1, <3>2 DEF Grown
  <2>2. Back(taken', p, u) = byteRead
    <3>1. u \in Nat /\ p <= Len(taken)
      BY <1>3, <1>4
    <3> QED BY <1>2, <1>3, <1>5, <3>1, BackStays
  <2> QED BY <2>1, <2>2, RunStands
<1>8. Coded' = p + r + 2
  <2>1. last' # NONE
    BY <1>1, Sizes
  <2> QED BY <1>1, <1>3, <1>4, <1>5, <2>1 DEF Coded, Ahead
<1>9. Remembers(window', count', taken', p + r + 2)
  <2>1. PICK l \in Nat : l = Len(taken) /\ l = p + r + 2
    BY <1>3, <1>4
  <2>2. Remembers(window', count', taken', l)
    BY <1>1, <1>2, <1>5, <2>1, WindowStays
  <2> QED BY <2>1, <2>2
<1>10. CzyTypes'
  <2>1. codes' \in Seq(CodeSet)
    BY <1>2, <1>6, AppendFacts DEF CzyTypes
  <2> QED BY <1>1, <1>2, <1>5, <2>1 DEF CzyTypes, Grown
<1>11. CzyInv'
  <2>1. Len(taken') >= 1 /\ last' = taken'[Len(taken')]
    BY <1>1, <1>3, <1>4, <1>5
  <2> QED BY <1>1, <1>8, <1>9, <1>10, <2>1 DEF CzyInv, TopInv, SecondInv, RepeatsInv
<1>12. Coded' = Coded + Copies(Run(u, r))
  BY <1>3, <1>4, <1>6, <1>8
<1> QED BY <1>3, <1>5, <1>6, <1>7, <1>11, <1>12, CzyKeeps

LEMMA EndAtRepeatsKeeps ==
  ASSUME CodecInv, EndAtRepeats, UNCHANGED dzy
  PROVE  CodecInv'
<1>1. /\ pc = "repeats" /\ pc' = "done" /\ Put(Run(unique, repeats))
      /\ UNCHANGED <<byteRead, unique, repeats, last, window, count, taken>>
  BY DEF EndAtRepeats
<1>2. /\ CzyTypes /\ \A j \in Coded + 1 .. Len(taken) : taken[j] = byteRead
      /\ Back(taken, Coded, unique) = byteRead
  BY <1>1, InRun
<1>3. PICK p \in Nat, r \in 0..W - 1, u \in 0..W - 1 :
        p = Coded /\ r = repeats /\ u = unique /\ Len(taken) = p + r + 2
  BY <1>1, InRun
<1>4. W \in Nat /\ W > 0
  BY Sizes
<1>5. Grown
  BY <1>1, <1>2, StillGrown
<1>6. /\ codes' = Append(codes, Run(u, r)) /\ Run(u, r) \in CodeSet /\ Copies(Run(u, r)) = r + 2
  BY <1>1, <1>3, CodesMade DEF Put
<1>7. Stands(Run(u, r), taken', p)
  <2>1. \A j \in p + 1 .. p + r + 2 : taken[j] = byteRead
    BY <1>2, <1>3
  <2> QED BY <1>1, <1>2, <1>3, <2>1, RunStands
<1>8. Coded' = Coded + Copies(Run(u, r))
  <2>1. Coded' = Len(taken)
    BY <1>1, <1>3, <1>4 DEF Coded, Ahead
  <2> QED BY <1>3, <1>4, <1>6, <2>1
<1>9. CzyInv'
  <2>1. codes' \in Seq(CodeSet)
    BY <1>2, <1>6, AppendFacts DEF CzyTypes
  <2>2. CzyTypes'
    BY <1>1, <1>2, <2>1 DEF CzyTypes
  <2> QED BY <1>1, <2>2 DEF CzyInv, TopInv, SecondInv, RepeatsInv
<1> QED BY <1>3, <1>5, <1>6, <1>7, <1>8, <1>9, CzyKeeps

--------------------------------------------------------------------------------
(* The step of dzy: the next code stands for the next symbols of the input. *)
LEMMA DecodedIsInput ==
  ASSUME CodecInv, decoded < Len(codes), NEW c, c = codes[decoded + 1]
  PROVE  /\ c \in CodeSet /\ Copies(c) \in Nat /\ Copies(c) > 0
         /\ decoded \in Nat /\ Len(codes) \in Nat /\ Len(out) \in Nat /\ Len(taken) \in Nat
         /\ Len(out) + Copies(c) <= Len(taken) /\ Symbol(c) \in Symbols
         /\ \A j \in Len(out) + 1 .. Len(out) + Copies(c) : taken[j] = Symbol(c)
<1>1. PICK e : Placed(e)
  BY DEF CodecInv
<1>2. /\ CzyTypes /\ DzyTypes /\ Remembers(dwindow, dcount, taken, Len(out))
  BY DEF CodecInv, CzyInv, DzyInv
<1>3. /\ Len(taken) \in Nat /\ Len(codes) \in Nat /\ Len(out) \in Nat
      /\ Coded \in Nat /\ Coded <= Len(taken)
  BY <1>1, <1>2, Bounds
<1>4. decoded \in Nat /\ decoded + 1 \in 1..Len(codes) /\ (decoded + 1) - 1 = decoded
  BY <1>2, <1>3 DEF DzyTypes
<1>5. c \in CodeSet
  BY <1>2, <1>4, ElementOfSeq DEF CzyTypes
<1>6. Copies(c) \in Nat /\ Copies(c) > 0
  BY <1>5, CodeShape
<1>7. PICK p \in Nat : p = Len(out)
  BY <1>3
<1>8. e[decoded + 1] = p + Copies(c) /\ Stands(c, taken, p)
  BY <1>1, <1>4, <1>7 DEF Placed
<1>9. p + Copies(c) <= Len(taken)
  <2>1. e[decoded + 1] <= Coded
    BY <1>1, <1>4 DEF Placed
  <2> QED BY <1>3, <1>6, <1>8, <2>1
<1>10. \A j \in p + 1 .. p + Copies(c) : taken[j] = Symbol(c)
  <2>1. CASE c.form = "raw"
    BY <1>8, <2>1 DEF Stands, Symbol
  <2>2. CASE c.form # "raw"
    <3>1. c.pos \in 0..W - 1
      BY <1>5, <2>2, CodeShape
    <3>2. At(dwindow, dcount, c.pos) = Back(taken, p, c.pos)
      BY <1>2, <1>7, <3>1 DEF Remembers
    <3> QED BY <1>8, <2>2, <3>2 DEF Stands, Symbol
  <2> QED BY <2>1, <2>2
<1>11. Symbol(c) \in Symbols
  <2>1. p + 1 \in p + 1 .. p + Copies(c) /\ p + 1 \in 1..Len(taken)
    BY <1>3, <1>6, <1>9
  <2>2. taken[p + 1] \in Symbols
    BY <1>2, <2>1, ElementOfSeq DEF CzyTypes
  <2> QED BY <1>10, <2>1, <2>2
<1> QED BY <1>3, <1>4, <1>5, <1>6, <1>7, <1>9, <1>10, <1>11

LEMMA DecodeNextKeeps ==
  ASSUME CodecInv, DecodeNext
  PROVE  CodecInv'
<1>1. PICK c : c = codes[decoded + 1]
  OBVIOUS
<1>2. /\ decoded < Len(codes) /\ Decode(c) /\ UNCHANGED czy
  BY <1>1 DEF DecodeNext
<1>3. /\ c \in CodeSet /\ Copies(c) \in Nat /\ Copies(c) > 0
      /\ decoded \in Nat /\ Len(codes) \in Nat /\ Len(out) \in Nat /\ Len(taken) \in Nat
      /\ Len(out) + Copies(c) <= Len(taken) /\ Symbol(c) \in Symbols
      /\ \A j \in Len(out) + 1 .. Len(out) + Copies(c) : taken[j] = Symbol(c)
  BY <1>1, <1>2, DecodedIsInput
<1>4. PICK p \in Nat, n \in Nat, b \in Symbols : p = Len(out) /\ n = Copies(c) /\ b = Symbol(c)
  BY <1>3
<1>5. /\ out' = out \o [k \in 1..n |-> b] /\ dwindow' = Added(dwindow, dcount, b, n)
      /\ dcount' = dcount + n /\ decoded' = decoded + 1
  BY <1>2, <1>4 DEF Decode
<1>6. /\ pc' = pc /\ byteRead' = byteRead /\ unique' = unique /\ repeats' = repeats
      /\ last' = last /\ window' = window /\ count' = count /\ taken' = taken /\ codes' = codes
  BY <1>2 DEF czy
<1>7. CzyTypes /\ DzyTypes /\ Remembers(dwindow, dcount, taken, p) /\ \A j \in 1..p : out[j] = taken[j]
  BY <1>4 DEF CodecInv, CzyInv, DzyInv
<1>8. /\ out' \in Seq(Symbols) /\ Len(out') = p + n
      /\ \A j \in 1..p : out'[j] = out[j]
      /\ \A j \in p + 1 .. p + n : out'[j] = b
  <2>1. out \in Seq(Symbols) /\ [k \in 1..n |-> b] \in Seq(Symbols) /\ Len([k \in 1..n |-> b]) = n
    BY <1>4, <1>7 DEF DzyTypes
  <2>2. /\ out' \in Seq(Symbols) /\ Len(out') = p + n
        /\ \A j \in 1..p + n : out'[j] = IF j <= p THEN out[j] ELSE [k \in 1..n |-> b][j - p]
    BY <1>4, <1>5, <2>1, ConcatProperties
  <2>3. \A j \in 1..p : j \in 1..p + n /\ j <= p
    OBVIOUS
  <2>4. \A j \in p + 1 .. p + n : j \in 1..p + n /\ ~(j <= p) /\ j - p \in 1..n
    OBVIOUS
  <2> QED BY <2>2, <2>3, <2>4
<1>9. \A j \in 1..p + n : out'[j] = taken[j]
  <2>1. \A j \in 1..p + n : j \in 1..p \/ j \in p + 1 .. p + n
    OBVIOUS
  <2> QED BY <1>3, <1>4, <1>7, <1>8, <2>1
<1>10. Remembers(dwindow', dcount', taken, p + n)
  <2>1. dcount \in Int /\ \A j \in p + 1 .. p + n : taken[j] = b
    BY <1>3, <1>4, <1>7 DEF DzyTypes
  <2> QED BY <1>5, <1>7, <2>1, RemembersMore
<1>11. DzyInv'
  <2>1. dwindow' \in [0..W - 1 -> Symbols \union {0}]
    <3>1. dwindow \in [0..W - 1 -> Symbols \union {0}] /\ dcount \in Int /\ b \in Symbols \union {0}
      BY <1>7 DEF DzyTypes
    <3> QED BY <1>5, <3>1, AddedType
  <2>2. dcount' \in Nat /\ decoded' \in 0..Len(codes)
    BY <1>2, <1>3, <1>5, <1>7 DEF DzyTypes
  <2> QED BY <1>6, <1>8, <1>9, <1>10, <2>1, <2>2 DEF DzyInv, DzyTypes
<1>12. CzyInv'
  <2>1. CzyInv
    BY DEF CodecInv
  <2> QED BY <1>6, <2>1 DEF CzyInv, CzyTypes, TopInv, SecondInv, RepeatsInv, Coded, Ahead
<1>13. \E e : Placed(e)'
  <2>1. PICK e : Placed(e)
    BY DEF CodecInv
  <2>2. e[decoded + 1] = p + n
    <3>1. decoded + 1 \in 1..Len(codes) /\ (decoded + 1) - 1 = decoded
      BY <1>2, <1>3
    <3> QED BY <1>1, <1>4, <2>1, <3>1 DEF Placed
  <2>3. Coded' = Coded
    BY <1>6 DEF Coded, Ahead
  <2>4. Placed(e)'
    BY <1>5, <1>6, <1>8, <2>1, <2>2, <2>3 DEF Placed
  <2> QED BY <2>4
<1> QED BY <1>11, <1>12, <1>13 DEF CodecInv

LEMMA CodecInitial == Init => CodecInv
<1> SUFFICES ASSUME Init PROVE CodecInv
  OBVIOUS
<1>1. /\ pc = "top" /\ byteRead = 0 /\ unique = 0 /\ repeats = 0 /\ last = NONE
      /\ window = [j \in 0..W-1 |-> 0] /\ count = 0 /\ taken = <<>> /\ codes = <<>>
      /\ dwindow = [j \in 0..W-1 |-> 0] /\ dcount = 0 /\ decoded = 0 /\ out = <<>>
  BY DEF Init
<1>2. W \in Nat /\ W > 0
  BY Sizes
<1>3. taken \in Seq(Symbols) /\ codes \in Seq(CodeSet) /\ out \in Seq(Symbols)
      /\ Len(taken) = 0 /\ Len(codes) = 0 /\ Len(out) = 0
  BY <1>1
<1>4. Coded = 0
  BY <1>1, <1>3 DEF Coded, Ahead
<1>5. ASSUME NEW w, w = [j \in 0..W - 1 |-> 0] PROVE Remembers(w, 0, taken, 0)
  <2>1. \A i \in 0..W - 1 : (0 - (i + 1)) % W \in 0..W - 1
    BY <1>2, Remainder
  <2> QED BY <1>5, <2>1 DEF Remembers, At, Back
<1>6. CzyInv
  BY <1>1, <1>2, <1>3, <1>4, <1>5 DEF CzyInv, CzyTypes, TopInv, SecondInv, RepeatsInv
<1>7. DzyInv
  BY <1>1, <1>2, <1>3, <1>5 DEF DzyInv, DzyTypes
<1>8. Placed([i \in Nat |-> 0])
  BY <1>1, <1>3, <1>4 DEF Placed
<1> QED BY <1>6, <1>7, <1>8 DEF CodecInv

LEMMA CzyStepKeeps ==
  ASSUME CodecInv, Czy, UNCHANGED dzy
  PROVE  CodecInv'
<1>1. CASE \E b \in Symbols : ReadSymbol(b)
  BY <1>1, ReadSymbolKeeps
<1>2. CASE \E b \in Symbols : SecondDiffers(b)
  BY <1>2, SecondDiffersKeeps
<1>3. CASE \E b \in Symbols : RepeatsNoMore(b)
  BY <1>3, RepeatsNoMoreKeeps
<1>4. CASE UseLast
  BY <1>4, UseLastKeeps
<1>5. CASE SecondRepeats
  BY <1>5, SecondRepeatsKeeps
<1>6. CASE RepeatsAgain
  BY <1>6, RepeatsAgainKeeps
<1>7. CASE EndAtTop
  BY <1>7, EndAtTopKeeps
<1>8. CASE EndAtSecond
  BY <1>8, EndAtSecondKeeps
<1>9. CASE EndAtRepeats
  BY <1>9, EndAtRepeatsKeeps
<1> QED BY <1>1, <1>2, <1>3, <1>4, <1>5, <1>6, <1>7, <1>8, <1>9 DEF Czy

LEMMA CodecUnmoved ==
  ASSUME CodecInv, UNCHANGED codecVars
  PROVE  CodecInv'
<1>1. UNCHANGED <<czy, dzy>>
  BY DEF codecVars
<1>2. /\ pc' = pc /\ byteRead' = byteRead /\ unique' = unique /\ repeats' = repeats
      /\ last' = last /\ window' = window /\ count' = count /\ taken' = taken /\ codes' = codes
      /\ dwindow' = dwindow /\ dcount' = dcount /\ decoded' = decoded /\ out' = out
  BY <1>1 DEF czy, dzy
<1>3. CzyInv'
  BY <1>2 DEF CodecInv, CzyInv, CzyTypes, TopInv, SecondInv, RepeatsInv, Coded, Ahead
<1>4. DzyInv'
  BY <1>2 DEF CodecInv, DzyInv, DzyTypes
<1>5. \E e : Placed(e)'
  <2>1. Coded' = Coded
    BY <1>2 DEF Coded, Ahead
  <2> QED BY <1>2, <2>1 DEF CodecInv, Placed
<1> QED BY <1>3, <1>4, <1>5 DEF CodecInv

--------------------------------------------------------------------------------
(* What the invariant says of the outputs and the windows. *)
LEMMA OutIsPrefix ==
  ASSUME CodecInv
  PROVE  IsPrefix(out, taken)
<1>1. PICK e : Placed(e)
  BY DEF CodecInv
<1>2. CzyTypes /\ DzyTypes /\ \A j \in 1..Len(out) : out[j] = taken[j]
  BY DEF CodecInv, CzyInv, DzyInv
<1>3. /\ Len(out) \in Nat /\ Len(taken) \in Nat /\ Len(out) <= Len(taken)
  BY <1>1, <1>2, Bounds
<1>4. out \in Seq(Symbols) /\ taken \in Seq(Symbols)
  BY <1>2 DEF CzyTypes, DzyTypes
<1>5. SubSeq(out, 1, Len(out)) = SubSeq(taken, 1, Len(out))
  <2>1. /\ SubSeq(out, 1, Len(out)) = [i \in 1..Len(out) |-> out[i]]
        /\ SubSeq(taken, 1, Len(out)) = [i \in 1..Len(out) |-> taken[i]]
    BY <1>3, <1>4
  <2> QED BY <1>2, <2>1
<1> QED BY <1>3, <1>5 DEF IsPrefix

LEMMA CaughtUp ==
  ASSUME CodecInv, decoded = Len(codes)
  PROVE  Len(out) = Coded /\ (pc = "done" => out = taken) /\ WindowsAgree
<1>1. PICK e : Placed(e)
  BY DEF CodecInv
<1>2. /\ CzyTypes /\ DzyTypes /\ TopInv /\ \A j \in 1..Len(out) : out[j] = taken[j]
      /\ Remembers(dwindow, dcount, taken, Len(out))
  BY DEF CodecInv, CzyInv, DzyInv
<1>3. Len(out) = Coded
  BY <1>1 DEF Placed
<1>4. pc = "done" => out = taken
  <2> SUFFICES ASSUME pc = "done" PROVE out = taken
    OBVIOUS
  <2>1. /\ out \in Seq(Symbols) /\ taken \in Seq(Symbols) /\ Len(taken) \in Nat
    BY <1>2, LenProperties DEF CzyTypes, DzyTypes
  <2>2. Len(out) = Len(taken)
    BY <1>3, <2>1 DEF Coded, Ahead
  <2> QED BY <1>2, <2>1, <2>2, SeqEqual
<1>5. WindowsAgree
  BY <1>2, <1>3 DEF WindowsAgree, TopInv, Remembers
<1> QED BY <1>3, <1>4, <1>5

--------------------------------------------------------------------------------
(* Numbers and their bits. *)
LEMMA QuotientIs ==
  ASSUME NEW a \in Int, NEW m \in Nat, NEW q \in Int, NEW r \in 0..m - 1, a = m * q + r
  PROVE  a \div m = q /\ a % m = r
<1>1. m > 0
  OBVIOUS
<1>2. a = m * (a \div m) + (a % m) /\ a % m \in 0..m - 1 /\ a \div m \in Int
  BY <1>1, Remainder
<1>3. PICK x \in Int, y \in 0..m - 1 : x = a \div m /\ y = a % m
  BY <1>2
<1>4. m * x + y = m * q + r
  BY <1>2, <1>3
<1> QED BY <1>3, <1>4, OneQuotient

LEMMA Halved ==
  ASSUME NEW x \in Nat, NEW p \in Nat, p > 0
  PROVE  x \div p = 2 * (x \div (2 * p)) + ((x \div p) % 2) /\ x \div p \in Int
<1>1. PICK q \in Int, r \in 0..p - 1 : q = x \div p /\ x = p * q + r
  BY Remainder
<1>2. PICK h \in Int, b \in 0..1 : h = q \div 2 /\ b = q % 2 /\ q = 2 * h + b
  OBVIOUS
<1>3. PICK d \in Nat : d = 2 * p
  OBVIOUS
<1>4. PICK s \in Int : s = p * b + r
  <2>1. p * b \in Int
    OBVIOUS
  <2> QED BY <2>1
<1>5. s \in 0..d - 1
  <2>1. CASE b = 0
    BY <1>3, <1>4, <2>1
  <2>2. CASE b = 1
    BY <1>3, <1>4, <2>2
  <2> QED BY <2>1, <2>2
<1>6. x = d * h + s
  <2>1. p * q = p * (2 * h) + p * b
    <3>1. p * q = p * (2 * h + b)
      BY <1>2
    <3>2. p * (2 * h + b) = p * (2 * h) + p * b
      OBVIOUS
    <3> QED BY <3>1, <3>2
  <2>2. p * (2 * h) = (2 * p) * h
    OBVIOUS
  <2>3. (2 * p) * h = d * h
    BY <1>3
  <2>4. p * q = d * h + p * b
    BY <2>1, <2>2, <2>3
  <2>5. d * h \in Int /\ p * b \in Int /\ p * q \in Int
    OBVIOUS
  <2> QED BY <1>1, <1>4, <2>4, <2>5
<1>7. x \div d = h
  BY <1>5, <1>6, QuotientIs
<1> QED BY <1>1, <1>2, <1>3, <1>7

ShiftIs(g, i, n) == g = [k \in 0..n |-> IF k = 0 THEN 0 ELSE 2 * g[k - 1] + bits[i + k - 1]]

(* Shifts and ORs make of n bits the number whose bits they are. *)
LEMMA NumberIs ==
  ASSUME NEW i \in Nat, NEW n \in Nat, NEW x \in Nat, x < Power[n],
         \A k \in 1..n : bits[i + k - 1] = BitsOf(x, n)[k]
  PROVE  Number(i, n) = x
<1> DEFINE v == [k \in 0..n |-> x \div Power[n - k]]
<1>1. \A k \in 0..n : n - k \in Nat /\ Power[n - k] \in Nat /\ Power[n - k] > 0
  BY Powers
<1>2. v[0] = 0
  <2>1. PICK m \in Nat : m = Power[n] /\ m > 0
    BY Powers
  <2>2. x \in 0..m - 1 /\ x = m * 0 + x
    BY <2>1
  <2>3. x \div m = 0
    BY <2>2, QuotientIs
  <2> QED BY <2>1, <2>3
<1>3. v[n] = x
  <2>1. Power[n - n] = 1
    BY Powers
  <2>2. x \div 1 = x
    <3>1. 0 \in 0..1 - 1 /\ x = 1 * x + 0
      OBVIOUS
    <3> QED BY <3>1, QuotientIs
  <2> QED BY <2>1, <2>2
<1>4. ASSUME NEW k \in 1..n PROVE v[k] = 2 * v[k - 1] + bits[i + k - 1]
  <2>1. PICK p \in Nat : p = Power[n - k] /\ p > 0
    BY <1>1
  <2>2. Power[n - (k - 1)] = 2 * p
    <3>1. n - k \in Nat /\ n - (k - 1) = (n - k) + 1
      OBVIOUS
    <3> QED BY <2>1, <3>1, Powers
  <2>3. bits[i + k - 1] = (x \div p) % 2
    BY <2>1 DEF BitsOf
  <2>4. v[k] = x \div p /\ v[k - 1] = x \div (2 * p)
    BY <2>1, <2>2
  <2>5. x \div p = 2 * (x \div (2 * p)) + ((x \div p) % 2)
    BY <2>1, Halved
  <2> HIDE DEF v
  <2> QED BY <2>3, <2>4, <2>5
<1>5. ShiftIs(v, i, n)
  <2>1. ASSUME NEW k \in 0..n PROVE v[k] = IF k = 0 THEN 0 ELSE 2 * v[k - 1] + bits[i + k - 1]
    <3> HIDE DEF v
    <3>1. CASE k = 0
      BY <1>2, <3>1
    <3>2. CASE k # 0
      <4>1. k \in 1..n
        BY <3>2
      <4> QED BY <1>4, <3>2, <4>1
    <3> QED BY <3>1, <3>2
  <2>2. v = [k \in 0..n |-> v[k]]
    OBVIOUS
  <2> HIDE DEF v
  <2> QED BY <2>1, <2>2 DEF ShiftIs
<1> HIDE DEF v
<1>6. PICK g : ShiftIs(g, i, n) /\ Number(i, n) = g[n]
  <2>1. Number(i, n) = (CHOOSE g : ShiftIs(g, i, n))[n]
    BY DEF Number, ShiftIs
  <2> QED BY <1>5, <2>1
<1> DEFINE S == {k \in Nat : k <= n => g[k] = v[k]}
<1>7. 0 \in S
  BY <1>2, <1>6 DEF ShiftIs
<1>8. ASSUME NEW k \in Nat, k \in S PROVE k + 1 \in S
  <2> SUFFICES ASSUME k + 1 <= n PROVE g[k + 1] = v[k + 1]
    OBVIOUS
  <2>1. k + 1 \in 1..n /\ k + 1 \in 0..n /\ k + 1 # 0 /\ (k + 1) - 1 = k /\ g[k] = v[k]
    BY <1>8
  <2>2. g[k + 1] = 2 * g[k] + bits[i + (k + 1) - 1]
    BY <1>6, <2>1 DEF ShiftIs
  <2>3. v[k + 1] = 2 * v[k] + bits[i + (k + 1) - 1]
    BY <1>4, <2>1
  <2> QED BY <2>1, <2>2, <2>3
<1>9. n \in S
  <2> HIDE DEF S
  <2> QED BY <1>7, <1>8, SetInduction
<1> QED BY <1>3, <1>6, <1>9

Digits == {0, 1}

LEMMA BitsOfType ==
  ASSUME NEW x \in Nat, NEW n \in Nat
  PROVE  BitsOf(x, n) \in Seq(Digits) /\ Len(BitsOf(x, n)) = n
<1>1. ASSUME NEW k \in 1..n PROVE (x \div Power[n - k]) % 2 \in {0, 1}
  <2>1. PICK p \in Nat : p = Power[n - k] /\ p > 0
    <3>1. n - k \in Nat
      OBVIOUS
    <3> QED BY <3>1, Powers
  <2>2. x \div p \in Int
    BY <2>1, Remainder
  <2>3. (x \div p) % 2 \in {0, 1}
    BY <2>2
  <2> QED BY <2>1, <2>3
<1> QED BY <1>1 DEF BitsOf, Digits

--------------------------------------------------------------------------------
(* How a code is spelled. *)
IsRaw(s, c)  == /\ Len(s) = 1 + BITS /\ s[1] = 1
                /\ \A k \in 1..BITS : s[1 + k] = BitsOf(c.byte, BITS)[k]
IsOnce(s, c) == /\ Len(s) = 2 + FIELD /\ s[1] = 0 /\ s[2] = 0
                /\ \A k \in 1..FIELD : s[2 + k] = BitsOf(c.pos, FIELD)[k]
IsRun(s, c)  == /\ Len(s) = 2 + 2 * FIELD /\ s[1] = 0 /\ s[2] = 1
                /\ \A k \in 1..FIELD : s[2 + k] = BitsOf(c.pos, FIELD)[k]
                /\ \A k \in 1..FIELD : s[2 + FIELD + k] = BitsOf(c.count, FIELD)[k]

LEMMA Joined ==
  ASSUME NEW S, NEW s \in Seq(S), NEW t \in Seq(S)
  PROVE  /\ s \o t \in Seq(S) /\ Len(s \o t) = Len(s) + Len(t) /\ Len(s) \in Nat /\ Len(t) \in Nat
         /\ \A k \in 1..Len(s) : (s \o t)[k] = s[k]
         /\ \A k \in 1..Len(t) : (s \o t)[Len(s) + k] = t[k]
<1>1. Len(s) \in Nat /\ Len(t) \in Nat
  BY LenProperties
<1>2. /\ s \o t \in Seq(S) /\ Len(s \o t) = Len(s) + Len(t)
      /\ \A k \in 1..Len(s) + Len(t) : (s \o t)[k] = IF k <= Len(s) THEN s[k] ELSE t[k - Len(s)]
  BY ConcatProperties
<1>3. \A k \in 1..Len(s) : k \in 1..Len(s) + Len(t) /\ k <= Len(s)
  BY <1>1
<1>4. \A k \in 1..Len(t) : /\ Len(s) + k \in 1..Len(s) + Len(t) /\ ~(Len(s) + k <= Len(s))
                           /\ (Len(s) + k) - Len(s) = k
  BY <1>1
<1> QED BY <1>1, <1>2, <1>3, <1>4

LEMMA Pair ==
  ASSUME NEW S, NEW a \in S, NEW b \in S
  PROVE  /\ <<a>> \in Seq(S) /\ Len(<<a>>) = 1 /\ <<a>>[1] = a
         /\ <<a, b>> \in Seq(S) /\ Len(<<a, b>>) = 2 /\ <<a, b>>[1] = a /\ <<a, b>>[2] = b
OBVIOUS

LEMMA RawShape ==
  ASSUME NEW x \in Nat
  PROVE  /\ <<1>> \o BitsOf(x, BITS) \in Seq(Digits) /\ Len(<<1>> \o BitsOf(x, BITS)) = 1 + BITS
         /\ (<<1>> \o BitsOf(x, BITS))[1] = 1
         /\ \A k \in 1..BITS : (<<1>> \o BitsOf(x, BITS))[1 + k] = BitsOf(x, BITS)[k]
<1>1. BITS \in Nat
  BY Sizes
<1>2. BitsOf(x, BITS) \in Seq(Digits) /\ Len(BitsOf(x, BITS)) = BITS
  BY <1>1, BitsOfType
<1>3. <<1>> \in Seq(Digits) /\ Len(<<1>>) = 1 /\ <<1>>[1] = 1
  <2>1. 1 \in Digits
    BY DEF Digits
  <2> QED BY <2>1, Pair
<1>4. 1 \in 1..Len(<<1>>)
  BY <1>3
<1> QED BY <1>2, <1>3, <1>4, Joined

(* st is s, of length m, with t, of length n, behind it. *)
JoinIs(st, s, t, m, n) ==
  /\ st \in Seq(Digits) /\ Len(st) = m + n
  /\ \A k \in 1..m : st[k] = s[k]
  /\ \A k \in 1..n : st[m + k] = t[k]
PairIs(st, a, b, t, n) ==
  st \in Seq(Digits) /\ Len(st) = 2 + n /\ st[1] = a /\ st[2] = b /\ \A k \in 1..n : st[2 + k] = t[k]

LEMMA RunShape ==
  ASSUME NEW s \in Seq(Digits), NEW t \in Seq(Digits), NEW m \in Nat, NEW n \in Nat, Len(s) = m, Len(t) = n
  PROVE  JoinIs(s \o t, s, t, m, n)
<1>1. s \o t \in Seq(Digits) /\ Len(s \o t) = Len(s) + Len(t)
  BY Joined
<1>2. ASSUME NEW k \in 1..n PROVE (s \o t)[m + k] = t[k]
  <2>1. \A j \in 1..Len(t) : (s \o t)[Len(s) + j] = t[j]
    BY Joined
  <2> QED BY <2>1
<1>3. ASSUME NEW k \in 1..m PROVE (s \o t)[k] = s[k]
  <2>1. \A j \in 1..Len(s) : (s \o t)[j] = s[j]
    BY Joined
  <2> QED BY <2>1
<1> QED BY <1>1, <1>2, <1>3 DEF JoinIs

LEMMA PairShape ==
  ASSUME NEW a \in Digits, NEW b \in Digits, NEW t \in Seq(Digits), NEW n \in Nat, Len(t) = n
  PROVE  PairIs(<<a, b>> \o t, a, b, t, n)
<1>1. PICK s : s = <<a, b>> /\ s \in Seq(Digits) /\ Len(s) = 2 /\ s[1] = a /\ s[2] = b
  <2>1. <<a, b>> \in Seq(Digits) /\ Len(<<a, b>>) = 2 /\ <<a, b>>[1] = a /\ <<a, b>>[2] = b
    BY Pair
  <2> QED BY <2>1
<1>2. JoinIs(s \o t, s, t, 2, n)
  BY <1>1, RunShape
<1>3. (s \o t)[1] = a /\ (s \o t)[2] = b
  BY <1>1, <1>2 DEF JoinIs
<1> QED BY <1>1, <1>2, <1>3 DEF JoinIs, PairIs

LEMMA SpellingShape ==
  ASSUME NEW c \in CodeSet
  PROVE  /\ Spelling(c) \in Seq(Digits)
         /\ c.form = "raw" => IsRaw(Spelling(c), c)
         /\ c.form = "once" => IsOnce(Spelling(c), c)
         /\ c.form = "run" => IsRun(Spelling(c), c)
<1>1. FIELD \in Nat /\ (\A b \in Symbols : b \in Nat) /\ \A p \in 0..W - 1 : p \in Nat
  BY Sizes
<1>2. CASE c.form = "raw"
  <2>1. c.byte \in Nat
    BY <1>1, <1>2, CodeShape
  <2>2. Spelling(c) = <<1>> \o BitsOf(c.byte, BITS)
    BY <1>2 DEF Spelling
  <2> QED BY <1>2, <2>1, <2>2, RawShape DEF IsRaw
<1>3. CASE c.form = "once"
  <2>1. PICK x \in Nat : x = c.pos
    BY <1>1, <1>3, CodeShape
  <2>2. Spelling(c) = <<0, 0>> \o BitsOf(x, FIELD)
    BY <1>3, <2>1 DEF Spelling
  <2>3. PICK a \in Digits : a = 0
    BY DEF Digits
  <2>4. PICK t \in Seq(Digits) : t = BitsOf(x, FIELD) /\ Len(t) = FIELD
    BY <1>1, BitsOfType
  <2>5. PairIs(<<a, a>> \o t, a, a, t, FIELD)
    BY <1>1, <2>4, PairShape
  <2>6. Spelling(c) = <<a, a>> \o t
    BY <2>2, <2>3, <2>4
  <2>7. Spelling(c) \in Seq(Digits) /\ IsOnce(Spelling(c), c)
    BY <2>1, <2>3, <2>4, <2>5, <2>6 DEF IsOnce, PairIs
  <2> QED BY <1>3, <2>7
<1>4. CASE c.form = "run"
  <2>1. PICK x \in Nat, y \in Nat : x = c.pos /\ y = c.count
    BY <1>1, <1>4, CodeShape
  <2>2. PICK a \in Digits, b \in Digits : a = 0 /\ b = 1
    BY DEF Digits
  <2>3. PICK u \in Seq(Digits) : u = BitsOf(x, FIELD) /\ Len(u) = FIELD
    BY <1>1, BitsOfType
  <2>4. PICK s : s = <<a, b>> \o u /\ PairIs(s, a, b, u, FIELD)
    BY <1>1, <2>3, PairShape
  <2>5. PICK t \in Seq(Digits) : t = BitsOf(y, FIELD) /\ Len(t) = FIELD
    BY <1>1, BitsOfType
  <2>6. Spelling(c) = s \o t
    BY <1>4, <2>1, <2>2, <2>3, <2>4, <2>5 DEF Spelling
  <2>7. PICK m \in Nat : m = 2 + FIELD /\ m + FIELD = 2 + 2 * FIELD
    BY <1>1
  <2>8. JoinIs(s \o t, s, t, m, FIELD)
    <3>1. s \in Seq(Digits) /\ Len(s) = m
      BY <2>4, <2>7 DEF PairIs
    <3> QED BY <1>1, <2>5, <2>7, <3>1, RunShape
  <2>9. 1 \in 1..m /\ 2 \in 1..m /\ \A k \in 1..FIELD : 2 + k \in 1..m
    BY <1>1, <2>7
  <2>10. s \o t \in Seq(Digits) /\ IsRun(s \o t, c)
    BY <2>1, <2>2, <2>3, <2>4, <2>5, <2>7, <2>8, <2>9 DEF IsRun, PairIs, JoinIs
  <2> QED BY <1>4, <2>6, <2>10
<1> QED BY <1>2, <1>3, <1>4, CodeShape

--------------------------------------------------------------------------------
(* The bits between czy and dzy: the codes that dzy has not read, and the padding.
   g[i] is what is left of them when dzy has read i codes. *)
SpelledBy(g, s, cs, d, end) ==
  /\ g \in [Nat -> Seq(Digits)] /\ g[d] = s /\ g[Len(cs)] = end
  /\ \A i \in d + 1 .. Len(cs) : g[i - 1] = Spelling(cs[i]) \o g[i]

Padding == {p \in Seq(Digits) : Len(p) < BITS /\ \A k \in 1..Len(p) : p[k] = 1}

BitsInv ==
  /\ bit \in Nat /\ bits \in Seq(Digits) /\ dpc \in {"code", "ended"}
  /\ dpc = "code" =>
       IF pc = "done"
       THEN Loose(bits) = 0 /\ \E g : \E p \in Padding : SpelledBy(g, bits, codes, decoded, p)
       ELSE \E g : SpelledBy(g, bits, codes, decoded, <<>>)
  /\ dpc = "ended" => pc = "done" /\ decoded = Len(codes) /\ bits = <<>>

CodecBitsInv == CodecInv /\ BitsInv

LEMMA Flushed ==
  ASSUME NEW a \in Nat, NEW m \in Nat, m > 0, NEW k, k = (m - (a % m)) % m
  PROVE  k \in 0..m - 1 /\ (a + k) % m = 0
<1>1. PICK q \in Int, r \in 0..m - 1 : r = a % m /\ a = m * q + r
  BY Remainder
<1>2. CASE r = 0
  <2>1. m = m * 1 + 0 /\ 0 \in 0..m - 1
    OBVIOUS
  <2>2. k = 0
    BY <1>1, <1>2, <2>1, QuotientIs
  <2> QED BY <1>1, <1>2, <2>2
<1>3. CASE r # 0
  <2>1. PICK j \in Nat : j = m - r /\ j \in 0..m - 1
    BY <1>3
  <2>2. k = j
    <3>1. j = m * 0 + j
      OBVIOUS
    <3> QED BY <1>1, <2>1, <3>1, QuotientIs
  <2>3. a + j = m * (q + 1) + 0
    <3>1. m * (q + 1) = m * q + m /\ m * q \in Int
      OBVIOUS
    <3> QED BY <1>1, <2>1, <3>1
  <2>4. (a + j) % m = 0
    <3>1. a + j \in Int /\ q + 1 \in Int /\ 0 \in 0..m - 1
      OBVIOUS
    <3> QED BY <2>3, <3>1, QuotientIs
  <2> QED BY <2>1, <2>2, <2>4
<1> QED BY <1>2, <1>3

(* flushWriteBuffer fills the last byte, with ones and less than a byte. *)
LEMMA PaddedFacts ==
  ASSUME bit \in Nat, NEW s \in Seq(Digits)
  PROVE  \E p \in Padding : Padded(s) = s \o p /\ (bit + Len(Padded(s))) % BITS = 0
<1>1. PICK m \in Nat : m = BITS /\ m > 0
  BY Sizes
<1>2. PICK a \in Nat : a = bit + Len(s)
  BY LenProperties
<1>3. PICK k \in 0..m - 1 : k = (m - (a % m)) % m /\ (a + k) % m = 0
  BY <1>1, Flushed
<1>4. PICK p : p = [i \in 1..k |-> 1] /\ p \in Seq(Digits) /\ Len(p) = k
  <2>1. 1 \in Digits /\ k \in Nat
    BY DEF Digits
  <2>2. [i \in 1..k |-> 1] \in Seq(Digits)
    BY <2>1
  <2>3. Len([i \in 1..k |-> 1]) = k
    BY <2>1
  <2> QED BY <2>2, <2>3
<1>5. Padded(s) = s \o p
  BY <1>1, <1>2, <1>3, <1>4 DEF Padded, Loose
<1>6. p \in Padding
  BY <1>1, <1>4 DEF Padding
<1>7. bit + Len(s \o p) = a + k
  <2>1. Len(s \o p) = Len(s) + k /\ Len(s) \in Nat
    BY <1>4, Joined, LenProperties
  <2> QED BY <1>2, <2>1
<1> QED BY <1>1, <1>3, <1>5, <1>6, <1>7

(* Bits t behind all the others. *)
LEMMA Behind ==
  ASSUME NEW cs \in Seq(CodeSet), NEW d \in 0..Len(cs), NEW g, NEW s, SpelledBy(g, s, cs, d, <<>>),
         NEW t \in Seq(Digits)
  PROVE  SpelledBy([i \in Nat |-> g[i] \o t], s \o t, cs, d, t)
<1> DEFINE h == [i \in Nat |-> g[i] \o t]
<1>1. Len(cs) \in Nat /\ d \in Nat
  BY LenProperties
<1>2. g \in [Nat -> Seq(Digits)] /\ g[d] = s /\ g[Len(cs)] = <<>>
  BY DEF SpelledBy
<1>3. h \in [Nat -> Seq(Digits)]
  BY <1>2
<1>4. h[d] = s \o t /\ h[Len(cs)] = t
  <2>1. <<>> \o t = t
    BY ConcatEmptySeq
  <2> QED BY <1>1, <1>2, <2>1
<1>5. ASSUME NEW i \in d + 1 .. Len(cs) PROVE h[i - 1] = Spelling(cs[i]) \o h[i]
  <2>1. i \in Nat /\ i - 1 \in Nat /\ i \in 1..Len(cs)
    BY <1>1
  <2>2. PICK u \in Seq(Digits) : u = Spelling(cs[i])
    <3>1. cs[i] \in CodeSet
      BY <2>1, ElementOfSeq
    <3> QED BY <3>1, SpellingShape
  <2>3. PICK v \in Seq(Digits) : v = g[i]
    BY <1>2, <2>1
  <2>4. h[i - 1] = (u \o v) \o t
    BY <2>1, <2>2, <2>3 DEF SpelledBy
  <2>5. (u \o v) \o t = u \o (v \o t)
    BY ConcatAssociative
  <2> QED BY <2>1, <2>2, <2>3, <2>4, <2>5
<1> HIDE DEF h
<1> QED BY <1>3, <1>4, <1>5 DEF SpelledBy, h

(* A code more, spelled in the bits behind the others. *)
LEMMA CodeBehind ==
  ASSUME NEW cs \in Seq(CodeSet), NEW d \in 0..Len(cs), NEW g, NEW s, SpelledBy(g, s, cs, d, <<>>),
         NEW c \in CodeSet
  PROVE  \E h : SpelledBy(h, s \o Spelling(c), Append(cs, c), d, <<>>)
<1>1. PICK n \in Nat : n = Len(cs) /\ d \in 0..n
  BY LenProperties
<1>2. PICK t \in Seq(Digits) : t = Spelling(c)
  BY SpellingShape
<1>3. PICK f : SpelledBy(f, s \o t, cs, d, t)
  BY Behind
<1>4. /\ Len(Append(cs, c)) = n + 1 /\ Append(cs, c)[n + 1] = c
      /\ \A i \in 1..n : Append(cs, c)[i] = cs[i]
  BY <1>1, AppendFacts
<1> DEFINE h == [i \in Nat |-> IF i = n + 1 THEN <<>> ELSE f[i]]
<1>5. f \in [Nat -> Seq(Digits)] /\ f[d] = s \o t /\ f[n] = t
  BY <1>1, <1>3 DEF SpelledBy
<1>6. h \in [Nat -> Seq(Digits)] /\ h[n + 1] = <<>> /\ \A i \in 0..n : h[i] = f[i]
  <2>1. <<>> \in Seq(Digits)
    OBVIOUS
  <2> QED BY <1>5, <2>1
<1> HIDE DEF h
<1>7. ASSUME NEW i \in d + 1 .. n + 1 PROVE h[i - 1] = Spelling(Append(cs, c)[i]) \o h[i]
  <2>1. i - 1 \in 0..n
    BY <1>1
  <2>2. CASE i = n + 1
    <3>1. h[i - 1] = t /\ Append(cs, c)[i] = c /\ h[i] = <<>>
      BY <1>4, <1>5, <1>6, <2>1, <2>2
    <3>2. t \o <<>> = t
      BY ConcatEmptySeq
    <3> QED BY <1>2, <3>1, <3>2
  <2>3. CASE i # n + 1
    <3>1. i \in d + 1 .. n /\ i \in 1..n /\ i \in 0..n
      BY <1>1, <2>3
    <3>2. f[i - 1] = Spelling(cs[i]) \o f[i]
      BY <1>1, <1>3, <3>1 DEF SpelledBy
    <3> QED BY <1>4, <1>6, <2>1, <3>1, <3>2
  <2> QED BY <2>2, <2>3
<1>8. h[d] = s \o Spelling(c)
  BY <1>1, <1>2, <1>5, <1>6
<1>9. SpelledBy(h, s \o Spelling(c), Append(cs, c), d, <<>>)
  BY <1>4, <1>6, <1>7, <1>8 DEF SpelledBy
<1> QED BY <1>9

(* The end of the input pads the bits. *)
LEMMA PadBehind ==
  ASSUME NEW cs \in Seq(CodeSet), NEW d \in 0..Len(cs), NEW g, NEW s \in Seq(Digits),
         SpelledBy(g, s, cs, d, <<>>), bit \in Nat
  PROVE  /\ Padded(s) \in Seq(Digits) /\ (bit + Len(Padded(s))) % BITS = 0
         /\ \E h : \E p \in Padding : SpelledBy(h, Padded(s), cs, d, p)
<1>1. PICK p \in Padding : Padded(s) = s \o p /\ (bit + Len(Padded(s))) % BITS = 0
  BY PaddedFacts
<1>2. p \in Seq(Digits)
  BY DEF Padding
<1>3. s \o p \in Seq(Digits)
  BY <1>2, Joined
<1>4. PICK h : h = [i \in Nat |-> g[i] \o p] /\ SpelledBy(h, s \o p, cs, d, p)
  BY <1>2, Behind
<1>5. SpelledBy(h, Padded(s), cs, d, p)
  BY <1>1, <1>4
<1>6. Padded(s) \in Seq(Digits)
  BY <1>1, <1>3
<1>7. \E f : \E q \in Padding : SpelledBy(f, Padded(s), cs, d, q)
  BY <1>5
<1> QED BY <1>1, <1>6, <1>7

--------------------------------------------------------------------------------
(* The steps of czy, with their bits. *)
LEMMA CzyCodes ==
  ASSUME CzyTypes, Czy
  PROVE  pc # "done" /\ (codes' = codes \/ \E c \in CodeSet : codes' = Append(codes, c))
<1>1. unique \in 0..W - 1 /\ repeats \in 0..W - 1 /\ W - 1 \in 0..W - 1
  BY Sizes DEF CzyTypes
<1>2. ASSUME NEW b \in Symbols, Code(b) PROVE codes' = codes \/ \E c \in CodeSet : codes' = Append(codes, c)
  <2>1. codes' = codes \/ codes' = Append(codes, Raw(b))
    BY <1>2 DEF Code, Put
  <2> QED BY <2>1, CodesMade
<1>3. CASE \E b \in Symbols : ReadSymbol(b)
  BY <1>2, <1>3 DEF ReadSymbol
<1>4. CASE UseLast
  <2>1. last \in Symbols
    BY <1>4 DEF UseLast, CzyTypes
  <2> QED BY <1>2, <1>4, <2>1 DEF UseLast
<1>5. CASE (\E b \in Symbols : SecondDiffers(b)) \/ EndAtSecond
  <2>1. pc # "done" /\ codes' = Append(codes, Once(unique))
    BY <1>5 DEF SecondDiffers, EndAtSecond, Put
  <2> QED BY <1>1, <2>1, CodesMade
<1>6. CASE (\E b \in Symbols : RepeatsNoMore(b)) \/ EndAtRepeats
  <2>1. pc # "done" /\ codes' = Append(codes, Run(unique, repeats))
    BY <1>6 DEF RepeatsNoMore, EndAtRepeats, Put
  <2> QED BY <1>1, <2>1, CodesMade
<1>7. CASE RepeatsAgain
  <2>1. pc # "done" /\ (codes' = codes \/ codes' = Append(codes, Run(unique, W - 1)))
    BY <1>7 DEF RepeatsAgain, Put
  <2> QED BY <1>1, <2>1, CodesMade
<1>8. CASE SecondRepeats \/ EndAtTop
  BY <1>8 DEF SecondRepeats, EndAtTop
<1> QED BY <1>3, <1>4, <1>5, <1>6, <1>7, <1>8 DEF Czy

LEMMA CzyStepBits ==
  ASSUME CodecBitsInv, CzyStep
  PROVE  BitsInv'
<1>1. CzyTypes /\ DzyTypes
  BY DEF CodecBitsInv, CodecInv, CzyInv, DzyInv
<1>2. pc # "done" /\ (codes' = codes \/ \E c \in CodeSet : codes' = Append(codes, c))
  BY <1>1, CzyCodes DEF CzyStep
<1>3. bit \in Nat /\ bits \in Seq(Digits) /\ dpc = "code"
  BY <1>2 DEF CodecBitsInv, BitsInv
<1>4. PICK g : SpelledBy(g, bits, codes, decoded, <<>>)
  BY <1>2, <1>3 DEF CodecBitsInv, BitsInv
<1>5. codes \in Seq(CodeSet) /\ decoded \in 0..Len(codes) /\ Len(codes) \in Nat
  BY <1>1, LenProperties DEF CzyTypes, DzyTypes
<1>6. PICK s : /\ s = IF codes' = codes THEN bits ELSE bits \o Spelling(Last(codes'))
               /\ bits' = IF pc' = "done" THEN Padded(s) ELSE s
  BY DEF CzyStep
<1>7. decoded' = decoded /\ bit' = bit /\ dpc' = dpc
  BY DEF CzyStep, dzy
<1>8. /\ s \in Seq(Digits) /\ codes' \in Seq(CodeSet) /\ decoded \in 0..Len(codes')
      /\ \E h : SpelledBy(h, s, codes', decoded, <<>>)
  <2>1. CASE codes' = codes
    BY <1>3, <1>4, <1>5, <1>6, <2>1
  <2>2. CASE \E c \in CodeSet : codes' = Append(codes, c)
    <3>1. PICK c \in CodeSet : codes' = Append(codes, c)
      BY <2>2
    <3>2. /\ codes' \in Seq(CodeSet) /\ Len(codes') = Len(codes) + 1 /\ codes'[Len(codes) + 1] = c
      BY <1>5, <3>1, AppendFacts
    <3>3. codes' # codes /\ Last(codes') = c /\ decoded \in 0..Len(codes')
      BY <1>5, <3>2 DEF Last
    <3>4. s = bits \o Spelling(c)
      BY <1>6, <3>3
    <3>5. Spelling(c) \in Seq(Digits)
      BY SpellingShape
    <3>6. s \in Seq(Digits)
      BY <1>3, <3>4, <3>5, Joined
    <3>7. \E h : SpelledBy(h, bits \o Spelling(c), Append(codes, c), decoded, <<>>)
      BY <1>4, <1>5, CodeBehind
    <3> QED BY <3>1, <3>2, <3>3, <3>4, <3>6, <3>7
  <2> QED BY <1>2, <2>1, <2>2
<1>9. PICK h : SpelledBy(h, s, codes', decoded, <<>>)
  BY <1>8
<1>10. CASE pc' = "done"
  <2>1. bits' = Padded(s)
    BY <1>6, <1>10
  <2>2. /\ Padded(s) \in Seq(Digits) /\ (bit + Len(Padded(s))) % BITS = 0
        /\ \E f : \E p \in Padding : SpelledBy(f, Padded(s), codes', decoded, p)
    BY <1>3, <1>8, <1>9, PadBehind
  <2> QED BY <1>3, <1>7, <1>10, <2>1, <2>2 DEF BitsInv, Loose
<1>11. CASE pc' # "done"
  <2>1. bits' = s
    BY <1>6, <1>11
  <2> QED BY <1>3, <1>7, <1>8, <1>9, <1>11, <2>1 DEF BitsInv
<1> QED BY <1>10, <1>11

--------------------------------------------------------------------------------
(* The steps of dzy. *)
LEMMA Waiting ==
  ASSUME BitsInv
  PROVE  /\ Len(bits) \in Nat /\ Loose(bits) \in Nat
         /\ pc = "done" /\ dpc = "code" => Loose(bits) = 0
<1>1. Len(bits) \in Nat /\ bit \in Nat
  BY LenProperties DEF BitsInv
<1>2. PICK m \in Nat : m = BITS /\ m > 0
  BY Sizes
<1>3. Loose(bits) \in Nat
  <2>1. PICK a \in Int : a = bit + Len(bits)
    BY <1>1
  <2>2. a % m \in 0..m - 1
    BY <1>2, Remainder
  <2> QED BY <1>2, <2>1, <2>2 DEF Loose
<1> QED BY <1>1, <1>3 DEF BitsInv

(* Padding is ones, and less than a byte: other bits begin with a code. *)
LEMMA NextCode ==
  ASSUME CodecBitsInv, dpc = "code", Len(bits) >= 1, bits[1] = 0 \/ Len(bits) >= BITS
  PROVE  /\ decoded < Len(codes) /\ codes[decoded + 1] \in CodeSet
         /\ \E t \in Seq(Digits) : bits = Spelling(codes[decoded + 1]) \o t
<1>1. codes \in Seq(CodeSet) /\ decoded \in 0..Len(codes) /\ Len(codes) \in Nat
  BY LenProperties DEF CodecBitsInv, CodecInv, CzyInv, DzyInv, CzyTypes, DzyTypes
<1>2. bits \in Seq(Digits) /\ Len(bits) \in Nat
  BY LenProperties DEF CodecBitsInv, BitsInv
<1>3. PICK g, p : SpelledBy(g, bits, codes, decoded, p) /\ (p = <<>> \/ p \in Padding)
  BY DEF CodecBitsInv, BitsInv
<1>4. decoded # Len(codes)
  <2> SUFFICES ASSUME decoded = Len(codes) PROVE FALSE
    OBVIOUS
  <2>1. bits = p
    BY <1>3 DEF SpelledBy
  <2>2. CASE p = <<>>
    BY <2>1, <2>2
  <2>3. CASE p \in Padding
    <3>1. Len(bits) < BITS /\ \A k \in 1..Len(bits) : bits[k] = 1
      BY <2>1, <2>3 DEF Padding
    <3>2. 1 \in 1..Len(bits)
      BY <1>2
    <3> QED BY <1>2, <3>1, <3>2, Sizes
  <2> QED BY <1>3, <2>2, <2>3
<1>5. decoded < Len(codes) /\ decoded + 1 \in decoded + 1 .. Len(codes) /\ decoded + 1 \in 1..Len(codes)
      /\ (decoded + 1) - 1 = decoded
  BY <1>1, <1>4
<1>6. codes[decoded + 1] \in CodeSet
  BY <1>1, <1>5, ElementOfSeq
<1>7. g[decoded + 1] \in Seq(Digits) /\ bits = Spelling(codes[decoded + 1]) \o g[decoded + 1]
  <2>1. decoded + 1 \in Nat /\ g \in [Nat -> Seq(Digits)] /\ g[decoded] = bits
    BY <1>1, <1>3 DEF SpelledBy
  <2>2. g[(decoded + 1) - 1] = Spelling(codes[decoded + 1]) \o g[decoded + 1]
    BY <1>3, <1>5 DEF SpelledBy
  <2> QED BY <1>5, <2>1, <2>2
<1> QED BY <1>5, <1>6, <1>7

LEMMA DropFront ==
  ASSUME NEW s \in Seq(Digits), NEW t \in Seq(Digits)
  PROVE  SubSeq(s \o t, Len(s) + 1, Len(s \o t)) = t
<1>1. PICK m \in Nat, n \in Nat : m = Len(s) /\ n = Len(t)
  BY LenProperties
<1>2. PICK st : st = s \o t /\ JoinIs(st, s, t, m, n)
  BY <1>1, RunShape
<1>3. st \in Seq(Digits) /\ Len(st) = m + n
  BY <1>2 DEF JoinIs
<1>4. SubSeq(st, m + 1, m + n) = [k \in 1..n |-> st[m + k]]
  <2>1. (m + n) - (m + 1) + 1 = n
    OBVIOUS
  <2> QED BY <1>3, <2>1
<1>5. /\ SubSeq(st, m + 1, m + n) \in Seq(Digits) /\ Len(SubSeq(st, m + 1, m + n)) = n
  <2>1. \A k \in m + 1 .. m + n : st[k] \in Digits
    <3>1. \A k \in m + 1 .. m + n : k \in 1..Len(st)
      BY <1>3
    <3> QED BY <1>3, <3>1, ElementOfSeq
  <2> QED BY <2>1, SubSeqProperties
<1>6. \A k \in 1..n : SubSeq(st, m + 1, m + n)[k] = t[k]
  BY <1>2, <1>4 DEF JoinIs
<1>7. SubSeq(st, m + 1, m + n) = t
  BY <1>1, <1>5, <1>6, SeqEqual
<1> QED BY <1>1, <1>2, <1>3, <1>7

(* dzy reads the bits of a code whole, and stands at the next one. *)
LEMMA Advances ==
  ASSUME CodecBitsInv, dpc = "code", decoded < Len(codes), ReadBits(Len(Spelling(codes[decoded + 1]))),
         decoded' = decoded + 1, UNCHANGED <<pc, codes, dpc>>
  PROVE  BitsInv'
<1>1. codes \in Seq(CodeSet) /\ decoded \in 0..Len(codes) /\ Len(codes) \in Nat
  BY LenProperties DEF CodecBitsInv, CodecInv, CzyInv, DzyInv, CzyTypes, DzyTypes
<1>2. bits \in Seq(Digits) /\ bit \in Nat
  BY DEF CodecBitsInv, BitsInv
<1>3. PICK g, p : /\ SpelledBy(g, bits, codes, decoded, p)
                  /\ IF pc = "done" THEN p \in Padding /\ Loose(bits) = 0 ELSE p = <<>>
  BY DEF CodecBitsInv, BitsInv
<1>4. PICK d \in Nat : d = decoded + 1 /\ d \in 1..Len(codes) /\ d \in decoded + 1 .. Len(codes) /\ d - 1 = decoded
  BY <1>1
<1>5. PICK s \in Seq(Digits) : s = Spelling(codes[d])
  <2>1. codes[d] \in CodeSet
    BY <1>1, <1>4, ElementOfSeq
  <2> QED BY <2>1, SpellingShape
<1>6. PICK t \in Seq(Digits) : t = g[d] /\ bits = s \o t
  <2>1. g \in [Nat -> Seq(Digits)] /\ g[decoded] = bits
    BY <1>3 DEF SpelledBy
  <2>2. g[d - 1] = s \o g[d]
    BY <1>3, <1>4, <1>5 DEF SpelledBy
  <2> QED BY <1>4, <2>1, <2>2
<1>7. bits' = t /\ bit' = bit + Len(s)
  <2>1. bits' = SubSeq(s \o t, Len(s) + 1, Len(s \o t)) /\ bit' = bit + Len(s)
    BY <1>4, <1>5, <1>6 DEF ReadBits
  <2> QED BY <2>1, DropFront
<1>8. bit' \in Nat /\ Loose(bits)' = Loose(bits)
  <2>1. Len(s \o t) = Len(s) + Len(t) /\ Len(s) \in Nat /\ Len(t) \in Nat
    BY Joined, LenProperties
  <2>2. Len(bits) = Len(s) + Len(t) /\ Len(bits') = Len(t)
    BY <1>6, <1>7, <2>1
  <2>3. bit' + Len(bits') = bit + Len(bits)
    BY <1>2, <1>7, <2>1, <2>2
  <2> QED BY <1>2, <1>7, <2>1, <2>3 DEF Loose
<1>9. SpelledBy(g, t, codes, d, p)
  <2>1. \A i \in d + 1 .. Len(codes) : i \in decoded + 1 .. Len(codes)
    BY <1>1, <1>4
  <2> QED BY <1>3, <1>6, <2>1 DEF SpelledBy
<1>10. decoded' = d /\ pc' = pc /\ codes' = codes /\ dpc' = dpc
  BY <1>4
<1>11. SpelledBy(g, bits', codes', decoded', p)
  BY <1>7, <1>9, <1>10
<1>12. bits' \in Seq(Digits)
  BY <1>7
<1>13. CASE pc = "done"
  <2>1. pc' = "done" /\ p \in Padding /\ Loose(bits)' = 0
    BY <1>3, <1>8, <1>10, <1>13
  <2> QED BY <1>8, <1>10, <1>11, <1>12, <2>1 DEF BitsInv
<1>14. CASE pc # "done"
  <2>1. pc' # "done" /\ p = <<>>
    BY <1>3, <1>10, <1>14
  <2> QED BY <1>8, <1>10, <1>11, <1>12, <2>1 DEF BitsInv
<1> QED BY <1>13, <1>14

(* The n bits of x stand in s behind the first m. *)
Holds(s, m, x, n) == \A k \in 1..n : s[m + k] = BitsOf(x, n)[k]

(* From the i-th on, the bits begin with the n bits of x. *)
Shows(s, t, m, x, n, i) ==
  /\ s \in Seq(Digits) /\ t \in Seq(Digits) /\ bits = s \o t
  /\ x \in Nat /\ n \in Nat /\ m \in Nat /\ i = m + 1 /\ m + n <= Len(s)
  /\ x < Power[n] /\ Holds(s, m, x, n)

LEMMA ReadsBack ==
  ASSUME NEW s, NEW t, NEW m, NEW x, NEW n, NEW i, Shows(s, t, m, x, n, i)
  PROVE  Number(i, n) = x
<1>1. \A k \in 1..Len(s) : bits[k] = s[k]
  BY Joined DEF Shows
<1>2. x \in Nat /\ n \in Nat /\ i \in Nat /\ x < Power[n]
  BY DEF Shows
<1>3. ASSUME NEW k \in 1..n PROVE bits[i + k - 1] = BitsOf(x, n)[k]
  <2>1. i + k - 1 = m + k /\ m + k \in 1..Len(s)
    BY LenProperties DEF Shows
  <2>2. s[m + k] = BitsOf(x, n)[k]
    BY DEF Shows, Holds
  <2> QED BY <1>1, <2>1, <2>2
<1> QED BY <1>2, <1>3, NumberIs

(* What the bits begin with, the next code being c. *)
Begins(c, t) ==
  /\ c \in CodeSet /\ decoded < Len(codes) /\ c = codes[decoded + 1]
  /\ t \in Seq(Digits) /\ bits = Spelling(c) \o t

LEMMA Beginning ==
  ASSUME NEW c, NEW t, Begins(c, t)
  PROVE  /\ Spelling(c) \in Seq(Digits) /\ Len(Spelling(c)) \in Nat /\ Len(bits) >= Len(Spelling(c))
         /\ \A k \in 1..Len(Spelling(c)) : bits[k] = Spelling(c)[k]
<1>1. PICK s \in Seq(Digits) : s = Spelling(c)
  BY SpellingShape DEF Begins
<1>2. t \in Seq(Digits) /\ bits = s \o t
  BY <1>1 DEF Begins
<1>3. Len(bits) = Len(s) + Len(t) /\ Len(s) \in Nat /\ Len(t) \in Nat
  BY <1>2, Joined, LenProperties
<1>4. \A k \in 1..Len(s) : bits[k] = s[k]
  BY <1>2, Joined
<1> QED BY <1>1, <1>3, <1>4

(* The form of the next code is that of the first bits. *)
LEMMA FirstBits ==
  ASSUME NEW c, NEW t, Begins(c, t)
  PROVE  /\ c.form = "raw" <=> bits[1] = 1
         /\ c.form = "once" <=> bits[1] = 0 /\ bits[2] = 0
         /\ c.form = "run" <=> bits[1] = 0 /\ bits[2] = 1
         /\ c.form = "raw" => Len(Spelling(c)) = 1 + BITS
         /\ c.form = "once" => Len(Spelling(c)) = 2 + FIELD
         /\ c.form = "run" => Len(Spelling(c)) = 2 + 2 * FIELD
<1>1. /\ Len(Spelling(c)) \in Nat /\ \A k \in 1..Len(Spelling(c)) : bits[k] = Spelling(c)[k]
  BY Beginning
<1>2. FIELD \in Nat /\ BITS \in Nat
  BY Sizes
<1>3. c \in CodeSet /\ c.form \in {"raw", "once", "run"}
  BY CodeShape DEF Begins
<1>4. CASE c.form = "raw"
  <2>1. IsRaw(Spelling(c), c)
    BY <1>3, <1>4, SpellingShape
  <2>2. Len(Spelling(c)) = 1 + BITS /\ 1 \in 1..Len(Spelling(c))
    BY <1>2, <2>1 DEF IsRaw
  <2>3. bits[1] = 1
    BY <1>1, <2>1, <2>2 DEF IsRaw
  <2> QED BY <1>4, <2>2, <2>3
<1>5. CASE c.form = "once"
  <2>1. IsOnce(Spelling(c), c)
    BY <1>3, <1>5, SpellingShape
  <2>2. Len(Spelling(c)) = 2 + FIELD /\ 1 \in 1..Len(Spelling(c)) /\ 2 \in 1..Len(Spelling(c))
    BY <1>2, <2>1 DEF IsOnce
  <2>3. bits[1] = 0 /\ bits[2] = 0
    BY <1>1, <2>1, <2>2 DEF IsOnce
  <2> QED BY <1>5, <2>2, <2>3
<1>6. CASE c.form = "run"
  <2>1. IsRun(Spelling(c), c)
    BY <1>3, <1>6, SpellingShape
  <2>2. Len(Spelling(c)) = 2 + 2 * FIELD /\ 1 \in 1..Len(Spelling(c)) /\ 2 \in 1..Len(Spelling(c))
    BY <1>2, <2>1 DEF IsRun
  <2>3. bits[1] = 0 /\ bits[2] = 1
    BY <1>1, <2>1, <2>2 DEF IsRun
  <2> QED BY <1>6, <2>2, <2>3
<1> QED BY <1>3, <1>4, <1>5, <1>6

(* What is read is the next code. *)
NextRead ==
  /\ decoded < Len(codes) /\ Decode(codes[decoded + 1])
  /\ ReadBits(Len(Spelling(codes[decoded + 1]))) /\ UNCHANGED <<czy, dpc>>

LEMMA HeldBack ==
  ASSUME BitsInv, NEW n \in Nat, Has(n)
  PROVE  n <= Len(bits)
<1>1. PICK l \in Nat, m \in Nat : l = Len(bits) /\ m = Loose(bits)
  BY Waiting
<1>2. n <= l - m
  BY <1>1 DEF Has
<1> QED BY <1>1, <1>2

LEMMA RawRead ==
  ASSUME CodecBitsInv, DzyRaw
  PROVE  NextRead
<1>1. BITS \in Nat /\ BITS > 0 /\ BitsInv /\ Len(bits) \in Nat
  BY Sizes, Waiting DEF CodecBitsInv
<1>2. dpc = "code" /\ bits[1] = 1 /\ 1 + BITS <= Len(bits)
  BY <1>1, HeldBack DEF DzyRaw
<1>3. PICK c, t : Begins(c, t)
  BY <1>1, <1>2, NextCode DEF Begins
<1>4. c \in CodeSet /\ c.form = "raw" /\ Len(Spelling(c)) = 1 + BITS
  BY <1>2, <1>3, FirstBits DEF Begins
<1>5. PICK x \in Nat : x = c.byte /\ x < Power[BITS] /\ c = Raw(x)
  BY <1>1, <1>4, CodeShape, BitCodecAssumption, Sizes
<1>6. Number(2, BITS) = x
  <2>1. PICK s \in Seq(Digits) : s = Spelling(c)
    BY <1>4, SpellingShape
  <2>2. Holds(s, 1, x, BITS)
    BY <1>4, <1>5, <2>1, SpellingShape DEF IsRaw, Holds
  <2>3. t \in Seq(Digits) /\ bits = s \o t /\ 1 + BITS <= Len(s)
    BY <1>1, <1>3, <1>4, <2>1 DEF Begins
  <2>4. Shows(s, t, 1, x, BITS, 2)
    BY <1>1, <1>5, <2>2, <2>3 DEF Shows
  <2> QED BY <2>4, ReadsBack
<1>7. ReadCode(c, Len(Spelling(c)))
  BY <1>4, <1>5, <1>6 DEF DzyRaw
<1> QED BY <1>3, <1>7 DEF NextRead, ReadCode, Begins

LEMMA OnceRead ==
  ASSUME CodecBitsInv, DzyOnce
  PROVE  NextRead
<1>1. FIELD \in Nat /\ FIELD > 0 /\ BitsInv /\ Len(bits) \in Nat /\ W \in Nat
  BY Sizes, Waiting DEF CodecBitsInv
<1>2. dpc = "code" /\ bits[1] = 0 /\ bits[2] = 0 /\ 2 + FIELD <= Len(bits)
  BY <1>1, HeldBack DEF DzyOnce
<1>3. PICK c, t : Begins(c, t)
  BY <1>1, <1>2, NextCode DEF Begins
<1>4. c \in CodeSet /\ c.form = "once" /\ Len(Spelling(c)) = 2 + FIELD
  BY <1>2, <1>3, FirstBits DEF Begins
<1>5. PICK x \in Nat : x = c.pos /\ x < Power[FIELD] /\ c = Once(x)
  BY <1>1, <1>4, CodeShape DEF W
<1>6. Number(3, FIELD) = x
  <2>1. PICK s \in Seq(Digits) : s = Spelling(c)
    BY <1>4, SpellingShape
  <2>2. Holds(s, 2, x, FIELD)
    BY <1>4, <1>5, <2>1, SpellingShape DEF IsOnce, Holds
  <2>3. t \in Seq(Digits) /\ bits = s \o t /\ 2 + FIELD <= Len(s)
    BY <1>1, <1>3, <1>4, <2>1 DEF Begins
  <2>4. Shows(s, t, 2, x, FIELD, 3)
    BY <1>1, <1>5, <2>2, <2>3 DEF Shows
  <2> QED BY <2>4, ReadsBack
<1>7. ReadCode(c, Len(Spelling(c)))
  BY <1>4, <1>5, <1>6 DEF DzyOnce
<1> QED BY <1>3, <1>7 DEF NextRead, ReadCode, Begins

LEMMA RunRead ==
  ASSUME CodecBitsInv, DzyRun
  PROVE  NextRead
<1>1. FIELD \in Nat /\ FIELD > 0 /\ BitsInv /\ Len(bits) \in Nat /\ W \in Nat
  BY Sizes, Waiting DEF CodecBitsInv
<1>2. dpc = "code" /\ bits[1] = 0 /\ bits[2] = 1 /\ Len(bits) >= 1
  <2>1. PICK n \in Nat : n = 2 + 2 * FIELD
    BY <1>1
  <2>2. n <= Len(bits)
    BY <1>1, <2>1, HeldBack DEF DzyRun
  <2> QED BY <1>1, <2>1, <2>2 DEF DzyRun
<1>3. PICK c, t : Begins(c, t)
  BY <1>1, <1>2, NextCode DEF Begins
<1>4. c \in CodeSet /\ c.form = "run" /\ Len(Spelling(c)) = 2 + 2 * FIELD
  BY <1>2, <1>3, FirstBits DEF Begins
<1>5. PICK x \in Nat, y \in Nat :
        x = c.pos /\ y = c.count /\ x < Power[FIELD] /\ y < Power[FIELD] /\ c = Run(x, y)
  BY <1>1, <1>4, CodeShape DEF W
<1>6. PICK s \in Seq(Digits) : s = Spelling(c) /\ IsRun(s, c)
  BY <1>4, SpellingShape
<1>7. t \in Seq(Digits) /\ bits = s \o t /\ Len(s) = 2 + 2 * FIELD
  BY <1>3, <1>4, <1>6 DEF Begins
<1>8. Number(3, FIELD) = x
  <2>1. Holds(s, 2, x, FIELD)
    BY <1>5, <1>6 DEF IsRun, Holds
  <2>2. 2 + FIELD <= Len(s)
    BY <1>1, <1>7
  <2>3. Shows(s, t, 2, x, FIELD, 3)
    BY <1>1, <1>5, <1>7, <2>1, <2>2 DEF Shows
  <2> QED BY <2>3, ReadsBack
<1>9. Number(3 + FIELD, FIELD) = y
  <2>1. PICK m \in Nat : m = 2 + FIELD /\ m + FIELD <= Len(s) /\ m + 1 = 3 + FIELD
    BY <1>1, <1>7
  <2>2. Holds(s, m, y, FIELD)
    BY <1>5, <1>6, <2>1 DEF IsRun, Holds
  <2>3. Shows(s, t, m, y, FIELD, m + 1)
    BY <1>1, <1>5, <1>7, <2>1, <2>2 DEF Shows
  <2>4. Number(m + 1, FIELD) = y
    BY <2>3, ReadsBack
  <2> QED BY <2>1, <2>4
<1>10. ReadCode(c, Len(Spelling(c)))
  BY <1>4, <1>5, <1>8, <1>9 DEF DzyRun
<1> QED BY <1>3, <1>10 DEF NextRead, ReadCode, Begins

LEMMA NextReadKeeps ==
  ASSUME CodecBitsInv, dpc = "code", NextRead
  PROVE  CodecBitsInv' /\ DecodeNext
<1>1. DecodeNext
  BY DEF NextRead, DecodeNext
<1>2. CodecInv'
  BY <1>1, DecodeNextKeeps DEF CodecBitsInv
<1>3. decoded' = decoded + 1 /\ UNCHANGED <<pc, codes, dpc>>
  BY DEF NextRead, Decode, czy
<1>4. BitsInv'
  BY <1>3, Advances DEF NextRead
<1> QED BY <1>1, <1>2, <1>4 DEF CodecBitsInv

(* The end of the file is met behind the last code. *)
LEMMA DzyEndKeeps ==
  ASSUME CodecBitsInv, DzyEnd
  PROVE  CodecBitsInv'
<1>1. dpc = "code" /\ (Lacks(1) \/ (Has(1) /\ bits[1] = 1 /\ Lacks(1 + BITS)))
      /\ dpc' = "ended" /\ ReadBits(Len(bits)) /\ UNCHANGED codecVars
  BY DEF DzyEnd
<1>2. BitsInv /\ CodecInv
  BY DEF CodecBitsInv
<1>3. pc = "done" /\ Loose(bits) = 0 /\ Len(bits) \in Nat /\ bit \in Nat
  BY <1>1, <1>2, Waiting DEF Lacks, BitsInv
<1>4. BITS \in Nat /\ BITS > 0
  BY Sizes
<1>5. codes \in Seq(CodeSet) /\ decoded \in 0..Len(codes) /\ Len(codes) \in Nat
  BY <1>2, LenProperties DEF CodecInv, CzyInv, DzyInv, CzyTypes, DzyTypes
<1>6. decoded = Len(codes)
  <2> SUFFICES ASSUME decoded # Len(codes) PROVE FALSE
    OBVIOUS
  <2>1. PICK g, p : SpelledBy(g, bits, codes, decoded, p)
    BY <1>1, <1>2 DEF BitsInv
  <2>2. PICK d \in Nat : d = decoded + 1 /\ d \in 1..Len(codes) /\ d \in decoded + 1 .. Len(codes)
                         /\ d - 1 = decoded /\ decoded < Len(codes)
    BY <1>5
  <2>3. codes[d] \in CodeSet
    BY <1>5, <2>2, ElementOfSeq
  <2>4. g[d] \in Seq(Digits) /\ bits = Spelling(codes[d]) \o g[d]
    <3>1. g \in [Nat -> Seq(Digits)] /\ g[decoded] = bits
      BY <2>1 DEF SpelledBy
    <3>2. g[d - 1] = Spelling(codes[d]) \o g[d]
      BY <2>1, <2>2 DEF SpelledBy
    <3> QED BY <2>2, <3>1, <3>2
  <2>5. PICK c, t : Begins(c, t)
    BY <2>2, <2>3, <2>4 DEF Begins
  <2>6. Len(bits) >= Len(Spelling(c)) /\ Len(Spelling(c)) \in Nat
    BY <2>5, Beginning
  <2>7. Len(Spelling(c)) >= 1 /\ (bits[1] = 1 => Len(Spelling(c)) = 1 + BITS)
    <3>1. c.form \in {"raw", "once", "run"}
      BY <2>5, CodeShape DEF Begins
    <3>2. FIELD \in Nat
      BY Sizes
    <3> QED BY <1>4, <2>5, <3>1, <3>2, FirstBits
  <2>8. Len(bits) < 1 \/ (bits[1] = 1 /\ Len(bits) < 1 + BITS)
    BY <1>1, <1>3, <1>4 DEF Lacks, Has
  <2> QED BY <1>3, <1>4, <2>6, <2>7, <2>8
<1>7. bits' = <<>> /\ bit' \in Nat
  <2>1. bits' = SubSeq(bits, Len(bits) + 1, Len(bits)) /\ bit' = bit + Len(bits)
    BY <1>1 DEF ReadBits
  <2>2. SubSeq(bits, Len(bits) + 1, Len(bits)) = <<>>
    BY <1>3, SubSeqEmpty
  <2> QED BY <1>3, <2>1, <2>2
<1>8. pc' = "done" /\ decoded' = decoded /\ codes' = codes
  BY <1>1, <1>3 DEF codecVars, czy, dzy
<1>9. BitsInv'
  BY <1>1, <1>5, <1>6, <1>7, <1>8 DEF BitsInv
<1>10. CodecInv'
  BY <1>1, <1>2, CodecUnmoved
<1> QED BY <1>9, <1>10 DEF CodecBitsInv

--------------------------------------------------------------------------------
(* The invariant of the whole. *)
LEMMA BitInitial == BitInit => CodecBitsInv
<1> SUFFICES ASSUME BitInit PROVE CodecBitsInv
  OBVIOUS
<1>1. Init /\ bits = <<>> /\ bit = 0 /\ dpc = "code"
  BY DEF BitInit
<1>2. pc = "top" /\ codes = <<>> /\ decoded = 0
  BY <1>1 DEF Init
<1>3. PICK g : g = [i \in Nat |-> <<>>]
  OBVIOUS
<1>4. SpelledBy(g, <<>>, codes, decoded, <<>>)
  <2>1. <<>> \in Seq(Digits) /\ Len(codes) = 0
    BY <1>2
  <2> QED BY <1>2, <1>3, <2>1 DEF SpelledBy
<1>5. BitsInv
  BY <1>1, <1>2, <1>4 DEF BitsInv
<1> QED BY <1>1, <1>5, CodecInitial DEF CodecBitsInv

LEMMA DzyReads ==
  ASSUME CodecBitsInv, DzyRaw \/ DzyOnce \/ DzyRun
  PROVE  CodecBitsInv' /\ DecodeNext
<1>1. NextRead
  BY RawRead, OnceRead, RunRead
<1>2. dpc = "code"
  BY DEF DzyRaw, DzyOnce, DzyRun
<1> QED BY <1>1, <1>2, NextReadKeeps

LEMMA BitStep == CodecBitsInv /\ [BitNext]_vars => CodecBitsInv'
<1> SUFFICES ASSUME CodecBitsInv, [BitNext]_vars PROVE CodecBitsInv'
  OBVIOUS
<1>1. CASE CzyStep
  <2>1. CodecInv'
    BY <1>1, CzyStepKeeps DEF CzyStep, CodecBitsInv
  <2>2. BitsInv'
    BY <1>1, CzyStepBits
  <2> QED BY <2>1, <2>2 DEF CodecBitsInv
<1>2. CASE DzyRaw \/ DzyOnce \/ DzyRun
  BY <1>2, DzyReads
<1>3. CASE DzyEnd
  BY <1>3, DzyEndKeeps
<1>4. CASE UNCHANGED vars
  <2>1. UNCHANGED codecVars /\ bits' = bits /\ bit' = bit /\ dpc' = dpc
    BY <1>4 DEF vars
  <2>2. pc' = pc /\ codes' = codes /\ decoded' = decoded
    BY <2>1 DEF codecVars, czy, dzy
  <2>3. BitsInv'
    BY <2>1, <2>2 DEF CodecBitsInv, BitsInv, Loose
  <2> QED BY <2>1, <2>3, CodecUnmoved DEF CodecBitsInv
<1> QED BY <1>1, <1>2, <1>3, <1>4 DEF BitNext, Dzy

LEMMA BitsAlways == BitSpec => []CodecBitsInv
BY BitInitial, BitStep, PTL DEF BitSpec

(* The variables have their types, in every reachable state of czy and dzy: a
   position and a count always fit their fields (czy.c:132-171). *)
THEOREM TypeCorrect == BitSpec => []TypeOK
<1>1. CodecBitsInv => TypeOK
  <2> SUFFICES ASSUME CodecBitsInv PROVE TypeOK
    OBVIOUS
  <2>1. CzyTypes /\ DzyTypes /\ bits \in Seq(Digits) /\ dpc \in {"code", "ended"}
    BY DEF CodecBitsInv, BitsInv, CodecInv, CzyInv, DzyInv
  <2> QED BY <2>1 DEF TypeOK, CzyTypes, DzyTypes, Digits
<1> QED BY <1>1, BitsAlways, PTL

(* dzy(czy(x)) = x for every input x and every width of a byte and of a field:
   what dzy has written is always a beginning of what czy has read, and all of
   it at the end (czy.c:86-207, dzy.c:50-133). *)
THEOREM DecodingGivesInput == BitSpec => []DecodesInput
<1>1. CodecBitsInv => DecodesInput
  <2> SUFFICES ASSUME CodecBitsInv PROVE DecodesInput
    OBVIOUS
  <2>1. CodecInv /\ BitsInv
    BY DEF CodecBitsInv
  <2>2. IsPrefix(out, taken)
    BY <2>1, OutIsPrefix
  <2>3. dpc = "ended" => out = taken
    BY <2>1, CaughtUp DEF BitsInv
  <2> QED BY <2>2, <2>3 DEF DecodesInput
<1> QED BY <1>1, BitsAlways, PTL

(* Whenever dzy has read all the codes and czy is between two, both windows hold
   the same symbols in the same order, whatever their counts (czy.c:160-165,
   dzy.c:119-122). *)
THEOREM WindowsStayEqual == BitSpec => []WindowsAgree
<1>1. CodecBitsInv => WindowsAgree
  BY CaughtUp DEF CodecBitsInv, WindowsAgree
<1> QED BY <1>1, BitsAlways, PTL

LEMMA NotAstray == CodecBitsInv => NeverAstray
<1> SUFFICES ASSUME CodecBitsInv PROVE NeverAstray
  OBVIOUS
<1>1. dpc = "ended" => decoded = Len(codes)
  BY DEF CodecBitsInv, BitsInv
<1>2. ASSUME Astray PROVE FALSE
  <2>1. /\ dpc = "code" /\ Has(1) /\ bits[1] = 0
        /\ \/ Lacks(2)
           \/ Has(2) /\ bits[2] = 0 /\ Lacks(2 + FIELD)
           \/ Has(2) /\ bits[2] = 1 /\ Lacks(2 + 2 * FIELD)
    BY <1>2 DEF Astray
  <2>2. pc = "done" /\ Loose(bits) = 0 /\ Len(bits) \in Nat
    BY <2>1, Waiting DEF Lacks, CodecBitsInv
  <2>3. 1 <= Len(bits)
    BY <2>1, HeldBack DEF CodecBitsInv
  <2>4. PICK c, t : Begins(c, t)
    BY <2>1, <2>3, NextCode DEF Begins
  <2>5. PICK n \in Nat, f \in Nat : n = Len(Spelling(c)) /\ n <= Len(bits) /\ f = FIELD
    BY <2>4, Beginning, Sizes
  <2>6. \/ n = 2 + f /\ bits[2] = 0
        \/ n = 2 + 2 * f /\ bits[2] = 1
    <3>1. c.form = "once" \/ c.form = "run"
      <4>1. c.form \in {"raw", "once", "run"}
        BY <2>4, CodeShape DEF Begins
      <4>2. c.form # "raw"
        BY <2>1, <2>4, FirstBits
      <4> QED BY <4>1, <4>2
    <3> QED BY <2>4, <2>5, <3>1, FirstBits
  <2>7. \A m \in Nat : Lacks(m) => Len(bits) < m
    BY <2>2 DEF Lacks, Has
  <2>8. ~Lacks(2)
    BY <2>2, <2>5, <2>6, <2>7
  <2>9. bits[2] = 0 => ~Lacks(2 + f)
    BY <2>2, <2>5, <2>6, <2>7
  <2>10. bits[2] = 1 => ~Lacks(2 + 2 * f)
    BY <2>2, <2>5, <2>6, <2>7
  <2> QED BY <2>1, <2>5, <2>8, <2>9, <2>10
<1> QED BY <1>1, <1>2 DEF NeverAstray

(* The file never ends within the first bits, the position or the count of a
   code, no code is left unread, and padding is never taken for a code, for
   every width of a byte (bitsy.c:135-148, dzy.c:70-93). *)
THEOREM NeverGoesAstray == BitSpec => []NeverAstray
BY NotAstray, BitsAlways, PTL

LEMMA SameInit == Init => Codes!Init
BY DEF Init, Codes!Init, W, Codes!W, NONE, Codes!NONE, Power, Codes!Power

LEMMA SameNext == Next => Codes!Next
BY DEF Next, Codes!Next, Czy, Codes!Czy, DecodeNext, Codes!DecodeNext, Decode, Codes!Decode,
       czy, Codes!czy, dzy, Codes!dzy, ReadSymbol, Codes!ReadSymbol, SecondDiffers, Codes!SecondDiffers,
       RepeatsNoMore, Codes!RepeatsNoMore, UseLast, Codes!UseLast, SecondRepeats, Codes!SecondRepeats,
       RepeatsAgain, Codes!RepeatsAgain, EndAtTop, Codes!EndAtTop, EndAtSecond, Codes!EndAtSecond,
       EndAtRepeats, Codes!EndAtRepeats, Code, Codes!Code, Read, Codes!Read, Put, Codes!Put,
       addToBuffer, Codes!addToBuffer, Added, Codes!Added, checkUniqueness, Codes!checkUniqueness,
       At, Codes!At, Raw, Codes!Raw, Once, Codes!Once, Run, Codes!Run, Symbol, Codes!Symbol,
       Copies, Codes!Copies, W, Codes!W, NONE, Codes!NONE, Power, Codes!Power

(* Bit by bit dzy reads the codes that czy wrote, each once and in order: the
   program with its bits implements the one that passes whole codes. *)
THEOREM BitsSpellCodes == BitSpec => ImplementsCodec
<1>1. BitInit => Codes!Init
  BY SameInit DEF BitInit
<1>2. CodecBitsInv /\ [BitNext]_vars => [Codes!Next]_Codes!codecVars
  <2> SUFFICES ASSUME CodecBitsInv, [BitNext]_vars
               PROVE  Next \/ UNCHANGED codecVars
    BY SameNext DEF codecVars, Codes!codecVars, czy, Codes!czy, dzy, Codes!dzy
  <2>1. CASE CzyStep
    BY <2>1 DEF CzyStep, Next
  <2>2. CASE DzyRaw \/ DzyOnce \/ DzyRun
    BY <2>2, DzyReads DEF Next
  <2>3. CASE DzyEnd \/ UNCHANGED vars
    BY <2>3 DEF DzyEnd, vars
  <2> QED BY <2>1, <2>2, <2>3 DEF BitNext, Dzy
<1> QED BY <1>1, <1>2, BitsAlways, PTL DEF BitSpec, ImplementsCodec, Codes!Spec
================================================================================
