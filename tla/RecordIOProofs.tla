----------------------------- MODULE RecordIOProofs -----------------------------
(***************************************************************************)
(* Proofs about RecordIO for every text, every number of descriptors and   *)
(* of writes, and sizes of any kind: types, the ownership of descriptors,  *)
(* which descriptors may reach past the data, the index of a text, and     *)
(* that the two files act as one sequence of records.                      *)
(***************************************************************************)
EXTENDS RecordIO, SequenceTheorems, WellFoundedInduction, TLAPS

(* Least and greatest numbers. *)
LEMMA LeastNatural ==
  ASSUME NEW S \in SUBSET Nat, S # {}
  PROVE  Min(S) \in S /\ \A y \in S : Min(S) <= y
<1>1. PICK x \in S : \A y \in S : ~(<<y, x>> \in OpToRel(<, Nat))
  BY NatLessThanWellFounded, WFMin
<1>2. \A y \in S : x <= y
  <2> TAKE y \in S
  <2>1. y \in Nat /\ x \in Nat /\ ~(y < x)
    BY <1>1 DEF OpToRel
  <2> QED BY <2>1
<1> QED BY <1>1, <1>2 DEF Min

LEMMA TwoNumbers ==
  ASSUME NEW a \in Int, NEW b \in Int
  PROVE  /\ Max({a, b}) = IF a >= b THEN a ELSE b
         /\ Min({a, b}) = IF a <= b THEN a ELSE b
<1>1. Max({a, b}) \in {a, b} /\ \A y \in {a, b} : Max({a, b}) >= y
  <2> \E x \in {a, b} : \A y \in {a, b} : x >= y
    OBVIOUS
  <2> QED BY DEF Max
<1>2. Min({a, b}) \in {a, b} /\ \A y \in {a, b} : Min({a, b}) <= y
  <2> \E x \in {a, b} : \A y \in {a, b} : x <= y
    OBVIOUS
  <2> QED BY DEF Min
<1> QED BY <1>1, <1>2

(* Two numbers below s packed in one, and unpacked. *)
LEMMA Unpacked ==
  ASSUME NEW s \in Nat, NEW d \in Nat, NEW i \in Nat, d < s
  PROVE  (i * s + d) % s = d /\ (i * s + d) \div s = i
<1>0. s \in Int /\ s > 0 /\ i * s \in Nat
  OBVIOUS
<1> DEFINE n == i * s + d
           q == n \div s
           r == n % s
<1>1. n \in Int /\ q \in Int /\ r \in Int /\ r >= 0 /\ r < s /\ n = s * q + r
  BY <1>0
<1> HIDE DEF n, q, r
<1>2. i * s + d = s * q + r
  BY <1>1 DEF n
<1>3. ~(q > i)
  <2> SUFFICES ASSUME q > i PROVE FALSE
    OBVIOUS
  <2>1. q >= i + 1
    BY <1>1
  <2>2. s * q >= s * (i + 1)
    BY <2>1, <1>1
  <2>3. s * (i + 1) = i * s + s
    OBVIOUS
  <2> QED BY <1>0, <1>1, <1>2, <2>2, <2>3
<1>4. ~(q < i)
  <2> SUFFICES ASSUME q < i PROVE FALSE
    OBVIOUS
  <2>1. q + 1 <= i
    BY <1>1
  <2>2. s * (q + 1) <= s * i
    BY <2>1, <1>1
  <2>3. s * (q + 1) = s * q + s /\ s * i = i * s
    BY <1>1
  <2> QED BY <1>0, <1>1, <1>2, <2>2, <2>3
<1>5. q = i
  BY <1>1, <1>3, <1>4
<1>6. r = d
  BY <1>1, <1>2, <1>5
<1> QED BY <1>5, <1>6 DEF n, q, r

(* Writing at a place of a file: what comes of it, how long it is, and what is
   where. *)
LEMMA PutForm ==
  ASSUME NEW S, NEW s \in Seq(S), NEW p \in Nat, NEW b \in Seq(S), NEW hole \in S, b # <<>>,
         NEW n, n = IF Len(s) >= p + Len(b) THEN Len(s) ELSE p + Len(b)
  PROVE  /\ n \in Nat
         /\ Put(s, p, b, hole) =
              [k \in 1..n |-> IF k > p /\ k <= p + Len(b) THEN b[k - p]
                              ELSE IF k <= Len(s) THEN s[k] ELSE hole]
         /\ \A k \in 1..n : (IF k > p /\ k <= p + Len(b) THEN b[k - p]
                             ELSE IF k <= Len(s) THEN s[k] ELSE hole) \in S
<1> DEFINE e(k) == IF k > p /\ k <= p + Len(b) THEN b[k - p]
                   ELSE IF k <= Len(s) THEN s[k] ELSE hole
<1>1. /\ Len(s) \in Nat /\ Len(b) \in Nat /\ n \in Nat
      /\ \A k \in 1..Len(s) : s[k] \in S
      /\ \A k \in 1..Len(b) : b[k] \in S
  BY LenProperties
<1>2. Max({Len(s), p + Len(b)}) = n
  BY <1>1, TwoNumbers
<1>3. ASSUME NEW k \in 1..n
      PROVE  /\ (CASE k \in p + 1 .. p + Len(b)              -> b[k - p]
                   [] k \in DOMAIN s \ (p + 1 .. p + Len(b)) -> s[k]
                   [] OTHER                                 -> hole) = e(k)
             /\ e(k) \in S
  <2>1. DOMAIN s = 1..Len(s) /\ k \in Nat /\ k >= 1
    BY <1>1, LenProperties
  <2> QED BY <1>1, <2>1
<1>4. Put(s, p, b, hole) = [k \in 1..n |-> e(k)]
  BY <1>2, <1>3 DEF Put
<1> QED BY <1>1, <1>3, <1>4

LEMMA PutType ==
  ASSUME NEW S, NEW s \in Seq(S), NEW p \in Nat, NEW b \in Seq(S), NEW hole \in S
  PROVE  Put(s, p, b, hole) \in Seq(S)
<1> DEFINE n == IF Len(s) >= p + Len(b) THEN Len(s) ELSE p + Len(b)
           e(k) == IF k > p /\ k <= p + Len(b) THEN b[k - p]
                   ELSE IF k <= Len(s) THEN s[k] ELSE hole
<1>1. CASE b # <<>>
  <2>1. n \in Nat /\ Put(s, p, b, hole) = [k \in 1..n |-> e(k)] /\ \A k \in 1..n : e(k) \in S
    BY <1>1, PutForm
  <2> HIDE DEF n, e
  <2>2. [k \in 1..n |-> e(k)] \in Seq(S)
    BY <2>1, SeqDef
  <2> QED BY <2>1, <2>2
<1> QED BY <1>1 DEF Put

LEMMA PutLength ==
  ASSUME NEW S, NEW s \in Seq(S), NEW p \in Nat, NEW b \in Seq(S), NEW hole \in S
  PROVE  /\ b = <<>> \/ Len(s) >= p + Len(b) => Len(Put(s, p, b, hole)) = Len(s)
         /\ b # <<>> /\ Len(s) < p + Len(b) => Len(Put(s, p, b, hole)) = p + Len(b)
<1> DEFINE n == IF Len(s) >= p + Len(b) THEN Len(s) ELSE p + Len(b)
<1>1. CASE b # <<>>
  <2>1. /\ n \in Nat
        /\ Put(s, p, b, hole) =
             [k \in 1..n |-> IF k > p /\ k <= p + Len(b) THEN b[k - p]
                             ELSE IF k <= Len(s) THEN s[k] ELSE hole]
    BY <1>1, PutForm
  <2>2. Len(Put(s, p, b, hole)) = n
    <3> HIDE DEF n
    <3> QED BY <2>1
  <2> QED BY <1>1, <2>2, LenProperties
<1> QED BY <1>1 DEF Put

(* What is at place k after a write of b behind place p: what was written, *)
(* what was there, or what fills a gap.                                    *)
Covered(k, p, b) == p < k /\ k <= p + Len(b)
Was(k, s) == k <= Len(s)
LEMMA PutElement ==
  ASSUME NEW S, NEW s \in Seq(S), NEW p \in Nat, NEW b \in Seq(S), NEW hole \in S,
         NEW k \in 1..Len(Put(s, p, b, hole))
  PROVE  /\ Covered(k, p, b) => Put(s, p, b, hole)[k] = b[k - p]
         /\ Was(k, s) /\ ~Covered(k, p, b) => Put(s, p, b, hole)[k] = s[k]
         /\ ~Was(k, s) /\ ~Covered(k, p, b) => Put(s, p, b, hole)[k] = hole
<1> DEFINE n == IF Len(s) >= p + Len(b) THEN Len(s) ELSE p + Len(b)
<1>0. Len(s) \in Nat /\ Len(b) \in Nat /\ k \in Int /\ k >= 1
  BY PutType, LenProperties
<1>1. CASE b # <<>>
  <2>1. /\ n \in Nat
        /\ Put(s, p, b, hole) =
             [j \in 1..n |-> IF j > p /\ j <= p + Len(b) THEN b[j - p]
                             ELSE IF j <= Len(s) THEN s[j] ELSE hole]
    BY <1>1, PutForm
  <2>2. k \in 1..n
    <3>1. Len(Put(s, p, b, hole)) = n
      BY <1>0, <1>1, PutLength
    <3> QED BY <3>1
  <2> HIDE DEF n
  <2> QED BY <1>0, <2>1, <2>2 DEF Covered, Was
<1>2. CASE b = <<>>
  <2>1. Put(s, p, b, hole) = s /\ Len(b) = 0
    BY <1>2 DEF Put
  <2> QED BY <1>0, <2>1 DEF Covered, Was
<1> QED BY <1>1, <1>2

(* The bytes of one write, and what of a record rio_read shows. *)
LEMMA BytesProperties ==
  ASSUME NEW w \in Nat, NEW n \in Nat
  PROVE  Bytes(w, n) \in Seq(Nat) /\ Len(Bytes(w, n)) = n
<1>1. Bytes(w, n) \in [1..n -> Nat]
  BY DEF Bytes
<1> QED BY <1>1, SeqDef

LEMMA ChompType ==
  ASSUME NEW b \in Seq(Nat)
  PROVE  Chomp(b) \in Seq(Nat)
<1>1. CASE b # <<>>
  <2>1. Front(b) \in Seq(Nat)
    <3>1. Len(b) \in Nat \ {0} /\ \A k \in 1..Len(b) : b[k] \in Nat
      BY <1>1, EmptySeq, LenProperties
    <3>2. 1 \in Int /\ Len(b) - 1 \in Int /\ \A k \in 1 .. Len(b) - 1 : k \in 1..Len(b)
      BY <3>1
    <3> QED BY <3>1, <3>2, SubSeqProperties DEF Front
  <2> QED BY <2>1, AppendProperties, BytesAreNumbers DEF Chomp
<1> QED BY <1>1 DEF Chomp

(* Bytes i + 1 .. i + n of a file that has them. *)
LEMMA Piece ==
  ASSUME NEW S, NEW s \in Seq(S), NEW i \in Nat, NEW n \in Nat, i + n <= Len(s)
  PROVE  /\ SubSeq(s, i + 1, i + n) \in Seq(S)
         /\ Len(SubSeq(s, i + 1, i + n)) = n
         /\ \A k \in 1..n : SubSeq(s, i + 1, i + n)[k] = s[i + k]
<1>1. /\ Len(s) \in Nat /\ i + 1 \in Int /\ i + n \in Int
      /\ \A k \in i + 1 .. i + n : k \in 1..Len(s)
  BY LenProperties
<1>2. \A k \in i + 1 .. i + n : s[k] \in S
  BY <1>1, ElementOfSeq
<1>3. /\ SubSeq(s, i + 1, i + n) \in Seq(S)
      /\ Len(SubSeq(s, i + 1, i + n)) = IF i + 1 <= i + n THEN (i + n) - (i + 1) + 1 ELSE 0
      /\ \A k \in 1 .. (i + n) - (i + 1) + 1 : SubSeq(s, i + 1, i + n)[k] = s[(i + 1) + k - 1]
  BY <1>1, <1>2, SubSeqProperties
<1>4. (i + n) - (i + 1) + 1 = n
  OBVIOUS
<1>5. \A k \in 1..n : (i + 1) + k - 1 = i + k
  OBVIOUS
<1> QED BY <1>3, <1>4, <1>5

(* The next newline is inside the text. *)
LEMMA LineProperties ==
  ASSUME data \in Seq(Nat), NEW at \in Nat, LineSize(at) > 0
  PROVE  /\ LineSize(at) \in Nat /\ at + LineSize(at) <= Len(data)
         /\ \A k \in at + 1 .. at + LineSize(at) - 1 : data[k] # NL
         /\ data[at + LineSize(at)] = NL \/ at + LineSize(at) = Len(data)
<1> DEFINE ends == {n \in 1 .. Len(data) - at : data[at + n] = NL}
<1>1. Len(data) \in Nat
  BY LenProperties
<1>2. CASE ends = {}
  <2>1. LineSize(at) = Len(data) - at
    BY <1>2 DEF LineSize
  <2>2. ASSUME NEW k \in at + 1 .. Len(data) - 1 PROVE data[k] # NL
    <3>1. k - at \in 1 .. Len(data) - at /\ at + (k - at) = k
      BY <1>1
    <3> QED BY <1>2, <3>1
  <2> QED BY <1>1, <2>1, <2>2
<1>3. CASE ends # {}
  <2>1. ends \in SUBSET Nat
    OBVIOUS
  <2>2. Min(ends) \in ends /\ \A n \in ends : Min(ends) <= n
    <3> HIDE DEF ends
    <3> QED BY <1>3, <2>1, LeastNatural
  <2>3. LineSize(at) = Min(ends)
    BY <1>3 DEF LineSize
  <2>4. LineSize(at) \in Nat /\ at + LineSize(at) <= Len(data)
        /\ data[at + LineSize(at)] = NL
    BY <1>1, <2>2, <2>3
  <2>5. ASSUME NEW k \in at + 1 .. at + LineSize(at) - 1 PROVE data[k] # NL
    <3>1. /\ k - at \in 1 .. Len(data) - at /\ at + (k - at) = k
          /\ ~(LineSize(at) <= k - at)
      BY <1>1, <2>4
    <3>2. k - at \notin ends
      BY <2>2, <2>3, <3>1
    <3> QED BY <3>1, <3>2
  <2> QED BY <2>4, <2>5
<1> QED BY <1>2, <1>3

--------------------------------------------------------------------------------
(***************************************************************************)
(* The inductive invariant.  Where the descriptor of a write will be, and  *)
(* what room it has, was read a step or two before it is written (CallInv),*)
(* and the indexer found its line a step before it writes it (FoundLine).  *)
(* What the index says of the text depends on where the indexer is         *)
(* (IndexedSoFar).                                                         *)
(***************************************************************************)
Slots == {Closed} \union [file : {"data", "index"}, pos : Nat]
Descriptor == [position : Nat, length : Nat]
IndexerSet ==
  [pc : {"off", "line", "found", "stuck"}, at : Nat, size : Nat, runs : 0..MAXRUNS]
CallSet ==
  [step : Steps, h : Nat, at : Nat, new : BOOLEAN, position : Nat, count : Nat, put : Nat]
AnswerSet == [val : Int, text : Seq(Nat)]

OverRecord ==
  /\ call.at + 1 \in DOMAIN index
  /\ index[call.at + 1].position = call.position
  /\ call.count <= index[call.at + 1].length
CallInv ==
  /\ call.step # "none" => call.h \in handles
  /\ Writing /\ ~call.new => OverRecord
  /\ Writing => call.count \in Counts
  /\ call.step = "data" =>
       /\ writes < MAXWRITES
       /\ call.new => call.at = ipos(call.h) /\ call.position = dpos(call.h)
       /\ ~call.new => call.at + 1 = ipos(call.h)
  /\ call.step = "index" =>
       /\ writes > 0 /\ call.put <= call.count
       /\ call.new => call.position + call.put <= Len(data)

FoundLine == indexer.pc = "found" => indexer.at + indexer.size <= Len(data)
LinesFollow ==
  \A i \in DOMAIN index :
    IsLine(index[i]) /\ Follows(index[i], IF i = 1 THEN 0 ELSE EndOf(index[i - 1]))
AtLine ==
  /\ indexer.pc = "line" =>
       indexer.at = 0 \/ indexer.at = Len(data) \/ data[indexer.at] = NL
  /\ indexer.pc = "found" =>
       /\ indexer.at = 0 \/ data[indexer.at] = NL
       /\ indexer.size = LineSize(indexer.at) /\ LineSize(indexer.at) > 0
UpToHere ==
  /\ IndexedTo <= Len(data)
  /\ indexer.pc \in {"line", "found"} => IF lost THEN IndexedTo <= indexer.at ELSE IndexedTo = indexer.at
  /\ (indexer.pc = "off" /\ indexer.at = Len(data) /\ ~lost) => IndexedTo = Len(data)
  /\ indexer.runs = 0 => indexer.pc = "off" /\ indexer.at = 0 /\ index = <<>>
IndexedSoFar == writes = 0 /\ indexer.runs <= 1 => LinesFollow /\ AtLine /\ UpToHere
IInv == TypeOK /\ DescriptorsOwned /\ WithinData /\ FoundLine /\ CallInv /\ IndexedSoFar

(* The types in the form the proofs use them. *)
LEMMA FileTypes ==
  ASSUME TypeOK
  PROVE  /\ data \in Seq(Nat) /\ Len(data) \in Nat
         /\ index \in Seq(Descriptor) /\ Len(index) \in Nat /\ DOMAIN index = 1..Len(index)
         /\ \A i \in 1..Len(index) : /\ index[i] \in Descriptor
                                     /\ index[i].position \in Nat /\ index[i].length \in Nat
                                     /\ EndOf(index[i]) \in Nat
         /\ writes \in Nat /\ MAXWRITES \in Nat
<1>1. /\ data \in Seq(Nat) /\ index \in Seq(Descriptor) /\ writes \in 0..MAXWRITES
  BY DEF TypeOK, Descriptor
<1>2. Len(data) \in Nat /\ Len(index) \in Nat /\ DOMAIN index = 1..Len(index)
  BY <1>1, LenProperties
<1>3. ASSUME NEW i \in 1..Len(index)
      PROVE  /\ index[i] \in Descriptor
             /\ index[i].position \in Nat /\ index[i].length \in Nat /\ EndOf(index[i]) \in Nat
  <2>1. index[i] \in Descriptor
    BY <1>1, ElementOfSeq
  <2> QED BY <2>1 DEF Descriptor, EndOf
<1>4. writes \in Nat
  BY <1>1, BytesAreNumbers
<1> QED BY <1>1, <1>2, <1>3, <1>4, BytesAreNumbers

LEMMA IndexerTypes ==
  ASSUME TypeOK
  PROVE  /\ indexer \in IndexerSet /\ indexer.at \in Nat /\ indexer.size \in Nat
         /\ indexer.runs \in Nat /\ indexer.runs \in 0..MAXRUNS /\ MAXRUNS \in Nat
         /\ IndexedTo \in Nat
<1>1. indexer \in IndexerSet
  BY DEF TypeOK, IndexerSet
<1>2. IndexedTo \in Nat
  <2>1. index # <<>> => Len(index) \in 1..Len(index)
    BY FileTypes, EmptySeq
  <2> QED BY <2>1, FileTypes DEF IndexedTo
<1> QED BY <1>1, <1>2, TextsAreBytes DEF IndexerSet

LEMMA CallTypes ==
  ASSUME TypeOK
  PROVE  /\ call \in CallSet /\ call.step \in Steps /\ call.h \in Nat /\ call.at \in Nat
         /\ call.new \in BOOLEAN /\ call.position \in Nat /\ call.count \in Nat /\ call.put \in Nat
BY DEF TypeOK, CallSet

LEMMA IdleForm == Idle \in CallSet /\ Idle.step = "none"
BY DEF Idle, Call, CallSet, Steps

(* The two descriptors of a handle: open, different, and in nobody else's. *)
LEMMA HandleParts ==
  ASSUME TypeOK, NEW h \in handles
  PROVE  dataFd(h) \in Fd /\ indexFd(h) \in Fd
<1>1. PICK d \in Fd, i \in Fd : h = i * SHIFT + d
  BY DEF TypeOK, Handle, combineDescriptors
<1>2. d \in Nat /\ i \in Nat /\ d < SHIFT /\ SHIFT \in Nat
  BY SizesPositive, FdsFit DEF Fd
<1> QED BY <1>1, <1>2, Unpacked DEF dataFd, indexFd

LEMMA PackedHandle ==
  ASSUME NEW d \in Fd, NEW i \in Fd
  PROVE  /\ dataFd(combineDescriptors(d, i)) = d /\ indexFd(combineDescriptors(d, i)) = i
         /\ combineDescriptors(d, i) \in Handle /\ combineDescriptors(d, i) \in Nat
<1>1. d \in Nat /\ i \in Nat /\ d < SHIFT /\ SHIFT \in Nat
  BY SizesPositive, FdsFit DEF Fd
<1>2. i * SHIFT + d \in Nat
  BY <1>1
<1> QED BY <1>1, <1>2, Unpacked DEF dataFd, indexFd, combineDescriptors, Handle

LEMMA HandleIsNumber ==
  ASSUME TypeOK, NEW h \in handles
  PROVE  h \in Nat
<1>1. PICK d \in Fd, i \in Fd : h = combineDescriptors(d, i)
  BY DEF TypeOK, Handle
<1> QED BY <1>1, PackedHandle

LEMMA HandleOpen ==
  ASSUME TypeOK, DescriptorsOwned, NEW h \in handles
  PROVE  /\ dataFd(h) \in Fd /\ indexFd(h) \in Fd /\ dataFd(h) # indexFd(h)
         /\ fds[dataFd(h)] \in [file : {"data", "index"}, pos : Nat]
         /\ fds[indexFd(h)] \in [file : {"data", "index"}, pos : Nat]
         /\ fds[dataFd(h)].file = "data" /\ fds[indexFd(h)].file = "index"
         /\ dpos(h) \in Nat /\ ipos(h) \in Nat
<1>1. /\ dataFd(h) \in Fd /\ indexFd(h) \in Fd
      /\ fds[dataFd(h)].file = "data" /\ fds[indexFd(h)].file = "index"
  BY HandleParts DEF DescriptorsOwned
<1>2. /\ fds[dataFd(h)] \in Slots /\ fds[indexFd(h)] \in Slots
  BY <1>1 DEF TypeOK, Slots
<1>3. /\ fds[dataFd(h)] # Closed /\ fds[indexFd(h)] # Closed
  BY <1>1 DEF Closed
<1> QED BY <1>1, <1>2, <1>3 DEF Slots, dpos, ipos

(* Moving in the files of one handle. *)
LEMMA Moved ==
  ASSUME TypeOK, DescriptorsOwned, NEW h \in handles,
         NEW d \in Nat, NEW i \in Nat, MoveTo(h, d, i)
  PROVE  /\ fds' \in [Fd -> Slots]
         /\ fds'[dataFd(h)] = At("data", d) /\ fds'[indexFd(h)] = At("index", i)
         /\ \A f \in Fd \ {dataFd(h), indexFd(h)} : fds'[f] = fds[f]
<1>1. /\ dataFd(h) \in Fd /\ indexFd(h) \in Fd /\ dataFd(h) # indexFd(h)
      /\ fds[dataFd(h)] \in [file : {"data", "index"}, pos : Nat]
      /\ fds[indexFd(h)] \in [file : {"data", "index"}, pos : Nat]
      /\ fds[dataFd(h)].file = "data" /\ fds[indexFd(h)].file = "index"
  BY HandleOpen
<1>2. fds \in [Fd -> Slots]
  BY DEF TypeOK, Slots
<1>3. fds' = [fds EXCEPT ![dataFd(h)].pos = d, ![indexFd(h)].pos = i]
  BY DEF MoveTo
<1>4. /\ [fds[dataFd(h)] EXCEPT !.pos = d] = At("data", d)
      /\ [fds[indexFd(h)] EXCEPT !.pos = i] = At("index", i)
  BY <1>1 DEF At
<1>5. fds' = [fds EXCEPT ![dataFd(h)] = At("data", d), ![indexFd(h)] = At("index", i)]
  BY <1>1, <1>2, <1>3, <1>4
<1>6. At("data", d) \in Slots /\ At("index", i) \in Slots
  BY DEF At, Slots
<1> QED BY <1>1, <1>2, <1>5, <1>6

(* Moving keeps the ownership of the descriptors. *)
LEMMA MovedOwned ==
  ASSUME TypeOK, DescriptorsOwned, UNCHANGED handles, NEW h \in handles,
         NEW d \in Nat, NEW i \in Nat, MoveTo(h, d, i)
  PROVE  DescriptorsOwned'
<1>1. /\ fds'[dataFd(h)] = At("data", d) /\ fds'[indexFd(h)] = At("index", i)
      /\ \A f \in Fd \ {dataFd(h), indexFd(h)} : fds'[f] = fds[f]
  BY Moved
<1>2. ASSUME NEW g \in handles
      PROVE  /\ fds'[dataFd(g)].file = "data" /\ fds'[indexFd(g)].file = "index"
             /\ \A k \in handles \ {g} :
                  {dataFd(g), indexFd(g)} \cap {dataFd(k), indexFd(k)} = {}
  <2>1. CASE g = h
    BY <1>1, <2>1 DEF DescriptorsOwned, At
  <2>2. CASE g # h
    <3>1. dataFd(g) \notin {dataFd(h), indexFd(h)} /\ indexFd(g) \notin {dataFd(h), indexFd(h)}
      BY <2>2 DEF DescriptorsOwned
    <3> QED BY <1>1, <3>1, HandleParts DEF DescriptorsOwned
  <2> QED BY <2>1, <2>2
<1>3. ASSUME NEW f \in Fd
      PROVE  \/ \E g \in handles : f \in {dataFd(g), indexFd(g)}
             \/ fds'[f] \in {Closed, At("data", 0)}
  BY <1>1 DEF DescriptorsOwned
<1> QED BY <1>2, <1>3 DEF DescriptorsOwned, dataFd, indexFd

(* Answers. *)
LEMMA Answers ==
  ASSUME NEW n \in Int
  PROVE  /\ Error \in AnswerSet /\ Result(n, <<>>) \in AnswerSet
         /\ \A t \in Seq(Nat) : Result(n, t) \in AnswerSet
<1>1. <<>> \in Seq(Nat) /\ -1 \in Int
  BY EmptySeq
<1> QED BY <1>1 DEF Result, Error, AnswerSet

(* The descriptors rio_open is given are the lowest free ones, which no handle has. *)
LEMMA FreeSlots ==
  ASSUME TypeOK, DescriptorsOwned
  PROVE  /\ Free # {} => Min(Free) \in Free
         /\ Free # {} /\ Free # {Min(Free)} => Min(Free \ {Min(Free)}) \in Free \ {Min(Free)}
         /\ \A h \in handles : dataFd(h) \in Fd \ Free /\ indexFd(h) \in Fd \ Free
<1> DEFINE d == Min(Free)
           i == Min(Free \ {d})
<1>1. Free \in SUBSET Nat
  BY SizesPositive DEF Free, Fd
<1>2. Free # {} => d \in Free
  BY <1>1, LeastNatural
<1> HIDE DEF d
<1>3. ASSUME Free # {}, Free # {d}
      PROVE  i \in Free \ {d}
  <2>1. Free \ {d} \in SUBSET Nat /\ Free \ {d} # {}
    BY <1>1, <1>2, <1>3
  <2> QED BY <2>1, LeastNatural
<1>4. \A h \in handles : dataFd(h) \in Fd \ Free /\ indexFd(h) \in Fd \ Free
  BY HandleParts DEF DescriptorsOwned, Free, Closed
<1> QED BY <1>2, <1>3, <1>4 DEF d, i

--------------------------------------------------------------------------------
(* Nothing is under way. *)
LEMMA IdleCall ==
  ASSUME call' = Idle
  PROVE  CallInv'
<1>1. call'.step = "none"
  BY IdleForm
<1> QED BY <1>1 DEF CallInv, Writing

(* A seek waits for nothing the files could change. *)
LEMMA SeekingCall ==
  ASSUME call'.step \in {"seek", "past"}, call'.h \in handles'
  PROVE  CallInv'
BY DEF CallInv, Writing

(* The program's steps that leave both files alone. *)
LEMMA FilesKept ==
  ASSUME IInv, UNCHANGED <<data, index, indexer, careful, lost, writes, cut>>,
         made' \subseteq {"data", "index"}, fds' \in [Fd -> Slots], handles' \subseteq Handle,
         DescriptorsOwned', answer' \in AnswerSet, call' \in CallSet, CallInv'
  PROVE  IInv'
<1>1. TypeOK'
  BY DEF IInv, TypeOK, Slots, AnswerSet, CallSet
<1>2. WithinData' /\ FoundLine'
  BY DEF IInv, WithinData, FoundLine, EndOf
<1>3. IndexedSoFar'
  BY DEF IInv, IndexedSoFar, LinesFollow, AtLine, UpToHere, IndexedTo, IsLine, Follows, EndOf, LineSize
<1> QED BY <1>1, <1>2, <1>3 DEF IInv

(* Of those, the ones that move in the files of one handle. *)
LEMMA MovedOnly ==
  ASSUME IInv, NEW h \in handles, NEW d \in Nat, NEW i \in Nat, MoveTo(h, d, i),
         UNCHANGED <<indexerVars, handles, writes, cut>>,
         answer' \in AnswerSet, call' \in CallSet, CallInv'
  PROVE  IInv'
<1>1. TypeOK /\ DescriptorsOwned /\ UNCHANGED handles
  BY DEF IInv
<1>2. fds' \in [Fd -> Slots] /\ DescriptorsOwned'
  BY <1>1, Moved, MovedOwned
<1>3. /\ UNCHANGED <<data, index, indexer, careful, lost, writes, cut>>
      /\ made' \subseteq {"data", "index"} /\ handles' \subseteq Handle
  BY <1>1 DEF TypeOK, indexerVars
<1> QED BY <1>2, <1>3, FilesKept

(* And those that move nowhere. *)
LEMMA StayedOnly ==
  ASSUME IInv, UNCHANGED <<indexerVars, fds, handles, writes, cut>>,
         answer' \in AnswerSet, call' \in CallSet, CallInv'
  PROVE  IInv'
<1>1. TypeOK /\ DescriptorsOwned
  BY DEF IInv
<1>2. fds' \in [Fd -> Slots] /\ handles' \subseteq Handle
      /\ made' \subseteq {"data", "index"} /\ UNCHANGED <<data, index, indexer, careful, lost, writes, cut>>
  BY <1>1 DEF TypeOK, Slots, indexerVars
<1>3. DescriptorsOwned'
  BY <1>1 DEF DescriptorsOwned, dataFd, indexFd
<1> QED BY <1>2, <1>3, FilesKept

--------------------------------------------------------------------------------
(* The calls that leave both files alone. *)
LEMMA OpenHolds ==
  ASSUME IInv, Open
  PROVE  IInv'
<1>1. /\ TypeOK /\ DescriptorsOwned /\ call = Idle
      /\ UNCHANGED <<data, index, indexer, careful, lost, writes, call, cut>>
  BY DEF IInv, Open
<1>2. PICK create \in BOOLEAN : rio_open(create)
  BY DEF Open
<1> DEFINE d == Min(Free)
           i == Min(Free \ {d})
<1>3. /\ fds \in [Fd -> Slots] /\ made \subseteq {"data", "index"} /\ handles \subseteq Handle
      /\ call' \in CallSet /\ CallInv'
  BY <1>1, IdleCall, IdleForm DEF TypeOK, Slots
<1>4. Free \subseteq Fd
  BY DEF Free
<1>5. Free # {} => d \in Free
  BY <1>1, FreeSlots
<1>6. Free # {} /\ Free # {d} => i \in Free \ {d}
  BY <1>1, FreeSlots
<1> HIDE DEF d, i
<1>8. At("data", 0) \in Slots /\ At("index", 0) \in Slots
  BY 0 \in Nat DEF At, Slots
<1>9. \A h \in handles : dataFd(h) \in Fd \ Free /\ indexFd(h) \in Fd \ Free
  BY <1>1, FreeSlots
<1>10. CASE UNCHANGED <<fds, handles, made>> /\ answer' = Error
  <2>1. answer' \in AnswerSet
    BY <1>10, 0 \in Int, Answers
  <2> QED BY <1>1, <1>3, <1>10, <2>1, StayedOnly DEF indexerVars
<1>11. CASE /\ Free # {} /\ fds' = [fds EXCEPT ![d] = At("data", 0)] /\ answer' = Error
            /\ made' = made \union {"data"} /\ UNCHANGED handles
  <2>1. d \in Free /\ d \in Fd
    BY <1>4, <1>5, <1>11
  <2>2. fds' \in [Fd -> Slots] /\ fds'[d] = At("data", 0) /\ \A f \in Fd \ {d} : fds'[f] = fds[f]
    BY <1>3, <1>8, <1>11, <2>1
  <2>3. answer' \in AnswerSet /\ made' \subseteq {"data", "index"} /\ handles' \subseteq Handle
    BY <1>3, <1>11, 0 \in Int, Answers
  <2>4. DescriptorsOwned'
    <3>1. \A h \in handles : fds'[dataFd(h)] = fds[dataFd(h)] /\ fds'[indexFd(h)] = fds[indexFd(h)]
      BY <1>9, <2>1, <2>2
    <3>2. \A f \in Fd : fds'[f] # fds[f] => fds'[f] = At("data", 0)
      BY <2>2
    <3> QED BY <1>1, <1>11, <3>1, <3>2 DEF DescriptorsOwned, dataFd, indexFd
  <2> QED BY <1>1, <1>3, <2>2, <2>3, <2>4, FilesKept
<1>12. CASE /\ Free # {} /\ Free # {d}
            /\ fds' = [fds EXCEPT ![d] = At("data", 0), ![i] = At("index", 0)]
            /\ handles' = handles \union {combineDescriptors(d, i)}
            /\ answer' = Result(combineDescriptors(d, i), <<>>)
            /\ made' = made \union {"data", "index"}
  <2> DEFINE new == combineDescriptors(d, i)
  <2>1. d \in Fd /\ i \in Fd /\ d # i /\ d \in Free /\ i \in Free
    BY <1>4, <1>5, <1>6, <1>12
  <2>2. /\ fds' \in [Fd -> Slots] /\ fds'[d] = At("data", 0) /\ fds'[i] = At("index", 0)
        /\ \A f \in Fd \ {d, i} : fds'[f] = fds[f]
    BY <1>3, <1>8, <1>12, <2>1
  <2>3. dataFd(new) = d /\ indexFd(new) = i /\ new \in Handle /\ new \in Nat
    BY <2>1, PackedHandle
  <2> HIDE DEF new
  <2>4. handles' = handles \union {new} /\ answer' = Result(new, <<>>)
    BY <1>12 DEF new
  <2>5. answer' \in AnswerSet /\ made' \subseteq {"data", "index"} /\ handles' \subseteq Handle
    <3>1. answer' \in AnswerSet
      BY <2>3, <2>4, Answers
    <3>2. made' \subseteq {"data", "index"}
      BY <1>3, <1>12
    <3> QED BY <1>3, <2>3, <2>4, <3>1, <3>2
  <2>6. DescriptorsOwned'
    <3>1. \A h \in handles : /\ fds'[dataFd(h)] = fds[dataFd(h)] /\ fds'[indexFd(h)] = fds[indexFd(h)]
                             /\ dataFd(h) \notin {d, i} /\ indexFd(h) \notin {d, i}
      BY <1>9, <2>1, <2>2
    <3>2. fds'[dataFd(new)].file = "data" /\ fds'[indexFd(new)].file = "index"
      BY <2>2, <2>3 DEF At
    <3>3. ASSUME NEW h \in handles'
          PROVE  /\ fds'[dataFd(h)].file = "data" /\ fds'[indexFd(h)].file = "index"
                 /\ \A g \in handles' \ {h} :
                      {dataFd(h), indexFd(h)} \cap {dataFd(g), indexFd(g)} = {}
      <4>1. CASE h \in handles
        BY <1>1, <2>3, <2>4, <3>1, <4>1 DEF DescriptorsOwned
      <4>2. CASE h = new
        <5>1. \A g \in handles' \ {h} : g \in handles
          BY <2>4, <4>2
        <5> QED BY <2>3, <3>1, <3>2, <4>2, <5>1
      <4> QED BY <2>4, <4>1, <4>2
    <3>4. ASSUME NEW f \in Fd
          PROVE  \/ \E h \in handles' : f \in {dataFd(h), indexFd(h)}
                 \/ fds'[f] \in {Closed, At("data", 0)}
      <4>1. CASE f \in {d, i}
        BY <2>3, <2>4, <4>1
      <4>2. CASE f \notin {d, i}
        BY <1>1, <2>2, <2>4, <4>2 DEF DescriptorsOwned
      <4> QED BY <4>1, <4>2
    <3> QED BY <3>3, <3>4 DEF DescriptorsOwned, dataFd, indexFd
  <2> QED BY <1>1, <1>3, <2>2, <2>5, <2>6, FilesKept
<1> QED BY <1>2, <1>10, <1>11, <1>12 DEF rio_open, d, i

(* The bytes rio_read gets: those of the record, as far as the data goes. *)
GotBytes(r) == SubSeq(data, r.position + 1, Min({r.position + r.length, Len(data)}))
LEMMA BytesRead ==
  ASSUME TypeOK, NEW r \in Descriptor
  PROVE  /\ GotBytes(r) \in Seq(Nat) /\ Len(GotBytes(r)) \in Nat
         /\ EndOf(r) <= Len(data) => /\ GotBytes(r) = SubSeq(data, r.position + 1, EndOf(r))
                                     /\ Len(GotBytes(r)) = r.length
<1>1. PICK p \in Nat, m \in Nat : p = r.position /\ m = r.length /\ EndOf(r) = p + m
  BY DEF Descriptor, EndOf
<1>2. data \in Seq(Nat) /\ Len(data) \in Nat
  BY FileTypes
<1> DEFINE n == Min({p + m, Len(data)})
<1>3. n \in Nat /\ n <= Len(data) /\ (p + m <= Len(data) => n = p + m)
  <2>1. p + m \in Int /\ Len(data) \in Int
    BY <1>2
  <2>2. n = IF p + m <= Len(data) THEN p + m ELSE Len(data)
    BY <2>1, TwoNumbers
  <2> QED BY <1>2, <2>2
<1> HIDE DEF n
<1>4. GotBytes(r) = SubSeq(data, p + 1, n)
  BY <1>1 DEF GotBytes, n
<1>5. SubSeq(data, p + 1, n) \in Seq(Nat)
  <2>1. \A k \in p + 1 .. n : data[k] \in Nat
    <3>1. \A k \in p + 1 .. n : k \in 1..Len(data)
      BY <1>2, <1>3
    <3> QED BY <1>2, <3>1, ElementOfSeq
  <2> QED BY <1>3, <2>1, SubSeqProperties
<1>6. p + m <= Len(data) => Len(SubSeq(data, p + 1, n)) = m
  <2>1. p + m <= Len(data) => Len(SubSeq(data, p + 1, p + m)) = m
    BY <1>2, Piece
  <2> QED BY <1>3, <2>1
<1> QED BY <1>1, <1>3, <1>4, <1>5, <1>6, LenProperties

LEMMA ReadHolds ==
  ASSUME IInv, NEW h \in handles, rio_read(h)
  PROVE  IInv'
<1>1. /\ TypeOK /\ DescriptorsOwned /\ UNCHANGED <<indexerVars, handles, writes, cut>>
      /\ call' \in CallSet /\ CallInv'
  BY IdleCall, IdleForm DEF IInv, rio_read
<1>2. CASE AtEnd(h)
  <2>1. answer' = Result(0, <<>>) /\ fds' = fds
    BY <1>2 DEF rio_read
  <2>2. answer' \in AnswerSet
    BY <2>1, 0 \in Int, Answers
  <2> QED BY <1>1, <2>1, <2>2, StayedOnly
<1>3. CASE ~AtEnd(h)
  <2> DEFINE r == Current(h)
             b == GotBytes(r)
  <2>1. /\ MoveTo(h, r.position + Len(b), ipos(h) + 1)
        /\ answer' = Result(Len(b), IF Len(b) = r.length THEN Chomp(b) ELSE b)
    BY <1>3 DEF rio_read, GotBytes
  <2>2. ipos(h) + 1 \in 1..Len(index) /\ ipos(h) + 1 \in Nat
    BY <1>1, <1>3, HandleOpen, FileTypes DEF AtEnd
  <2>3. r \in Descriptor /\ r.position \in Nat
    BY <1>1, <2>2, FileTypes DEF Current
  <2> HIDE DEF r
  <2>4. b \in Seq(Nat) /\ Len(b) \in Nat /\ Chomp(b) \in Seq(Nat)
    BY <1>1, <2>3, BytesRead, ChompType
  <2> HIDE DEF b
  <2>5. answer' \in AnswerSet
    <3>1. (IF Len(b) = r.length THEN Chomp(b) ELSE b) \in Seq(Nat) /\ Len(b) \in Int
      BY <2>4
    <3> QED BY <2>1, <3>1, Answers
  <2>6. r.position + Len(b) \in Nat
    BY <2>3, <2>4
  <2> QED BY <1>1, <2>1, <2>2, <2>5, <2>6, MovedOnly
<1> QED BY <1>2, <1>3

LEMMA CloseHolds ==
  ASSUME IInv, NEW h \in handles, rio_close(h)
  PROVE  IInv'
<1>1. /\ TypeOK /\ DescriptorsOwned
      /\ UNCHANGED <<made, data, index, indexer, careful, lost, writes, cut>>
      /\ fds' = [fds EXCEPT ![dataFd(h)] = Closed, ![indexFd(h)] = Closed]
      /\ handles' = handles \ {h} /\ answer' = Result(0, <<>>)
  BY DEF IInv, rio_close, indexerVars
<1>2. /\ dataFd(h) \in Fd /\ indexFd(h) \in Fd
      /\ fds \in [Fd -> Slots] /\ Closed \in Slots
  BY <1>1, HandleParts DEF TypeOK, Slots
<1>3. /\ fds' \in [Fd -> Slots] /\ fds'[dataFd(h)] = Closed /\ fds'[indexFd(h)] = Closed
      /\ \A f \in Fd \ {dataFd(h), indexFd(h)} : fds'[f] = fds[f]
  BY <1>1, <1>2
<1>4. /\ answer' \in AnswerSet /\ call' \in CallSet /\ CallInv'
      /\ made' \subseteq {"data", "index"} /\ handles' \subseteq Handle
  <2>1. answer' \in AnswerSet
    BY <1>1, 0 \in Int, Answers
  <2>2. call' = Idle
    BY DEF rio_close
  <2> QED BY <1>1, <2>1, <2>2, IdleCall, IdleForm DEF TypeOK
<1>5. DescriptorsOwned'
  <2>1. ASSUME NEW g \in handles \ {h}
        PROVE  fds'[dataFd(g)] = fds[dataFd(g)] /\ fds'[indexFd(g)] = fds[indexFd(g)]
    <3>1. dataFd(g) \notin {dataFd(h), indexFd(h)} /\ indexFd(g) \notin {dataFd(h), indexFd(h)}
      BY <1>1 DEF DescriptorsOwned
    <3> QED BY <1>1, <1>3, <3>1, HandleParts
  <2>2. ASSUME NEW f \in Fd
        PROVE  \/ \E g \in handles \ {h} : f \in {dataFd(g), indexFd(g)}
               \/ fds'[f] \in {Closed, At("data", 0)}
    <3>1. CASE f \in {dataFd(h), indexFd(h)}
      BY <1>3, <3>1
    <3>2. CASE f \notin {dataFd(h), indexFd(h)}
      BY <1>1, <1>3, <3>2 DEF DescriptorsOwned
    <3> QED BY <3>1, <3>2
  <2> QED BY <1>1, <2>1, <2>2 DEF DescriptorsOwned, dataFd, indexFd
<1> QED BY <1>1, <1>3, <1>4, <1>5, FilesKept

LEMMA ExitHolds ==
  ASSUME IInv, Exit
  PROVE  IInv'
<1>1. /\ TypeOK /\ UNCHANGED <<made, data, index, indexer, careful, lost, writes, cut>>
      /\ fds' = [f \in Fd |-> Closed] /\ handles' = {} /\ answer' = Error /\ call' = Idle
  BY DEF IInv, Exit, indexerVars
<1>2. fds' \in [Fd -> Slots] /\ handles' \subseteq Handle /\ made' \subseteq {"data", "index"}
  BY <1>1 DEF Slots, TypeOK
<1>3. DescriptorsOwned'
  BY <1>1 DEF DescriptorsOwned
<1>4. answer' \in AnswerSet /\ call' \in CallSet /\ CallInv'
  BY <1>1, 0 \in Int, Answers, IdleCall, IdleForm
<1> QED BY <1>1, <1>2, <1>3, <1>4, FilesKept

--------------------------------------------------------------------------------
(* rio_lseek, whole: it waits for nothing in the files but a descriptor. *)
LEMMA SeekHolds ==
  ASSUME IInv, NEW h \in handles, NEW offset \in Offsets,
         NEW whence \in {"SET", "CUR", "END"}, rio_lseek(h, offset, whence)
  PROVE  IInv'
<1> DEFINE p == offset + CASE whence = "SET" -> 0
                           [] whence = "CUR" -> ipos(h)
                           [] whence = "END" -> Len(index)
<1>1. TypeOK /\ DescriptorsOwned /\ UNCHANGED <<indexerVars, fds, handles, writes, cut>>
  BY DEF IInv, rio_lseek
<1>2. p \in Int
  <2>1. ipos(h) \in Nat /\ Len(index) \in Nat /\ offset \in Int
    BY <1>1, HandleOpen, FileTypes, ProgramAsks
  <2> QED BY <2>1
<1>3. IF p < 0 \/ p > Len(data) \div DESC
      THEN answer' = Error /\ call' = call
      ELSE call' = Call("seek", h, p, FALSE, 0, 0) /\ answer' = answer
  BY DEF rio_lseek
<1>4. call = Idle
  BY DEF rio_lseek
<1> HIDE DEF p
<1>5. CASE p < 0 \/ p > Len(data) \div DESC
  <2>1. answer' \in AnswerSet /\ call' \in CallSet /\ CallInv'
    BY <1>3, <1>4, <1>5, 0 \in Int, Answers, IdleCall, IdleForm
  <2> QED BY <1>1, <2>1, StayedOnly
<1>6. CASE ~(p < 0 \/ p > Len(data) \div DESC)
  <2>1. p \in Nat /\ h \in Nat /\ "seek" \in Steps
    BY <1>1, <1>2, <1>6, HandleIsNumber DEF Steps
  <2>2. call' = Call("seek", h, p, FALSE, 0, 0) /\ answer' = answer
    BY <1>3, <1>6
  <2>3. call' \in CallSet /\ call'.step = "seek" /\ call'.h = h
    BY <2>1, <2>2 DEF Call, CallSet
  <2>4. CallInv'
    BY <1>1, <2>3, SeekingCall
  <2>5. answer' \in AnswerSet
    BY <1>1, <2>2 DEF TypeOK, AnswerSet
  <2> QED BY <1>1, <2>3, <2>4, <2>5, StayedOnly
<1> QED BY <1>5, <1>6

LEMMA SoughtHolds ==
  ASSUME IInv, call.step # "none", NEW d \in Nat, Sought(d),
         UNCHANGED <<indexerVars, handles, writes, cut>>
  PROVE  IInv'
<1>1. call.h \in handles /\ call.at \in Nat
  BY CallTypes DEF IInv, CallInv
<1>2. MoveTo(call.h, d, call.at) /\ answer' = Result(call.at, <<>>) /\ call' = Idle
  BY DEF Sought
<1>3. answer' \in AnswerSet /\ call' \in CallSet /\ CallInv'
  BY <1>1, <1>2, Answers, IdleCall, IdleForm
<1> QED BY <1>1, <1>2, <1>3, MovedOnly

LEMMA PlacesHold ==
  ASSUME IInv, FindPlace \/ SeekPast
  PROVE  IInv'
<1>1. /\ TypeOK /\ call.step # "none" /\ UNCHANGED <<indexerVars, handles, writes, cut>>
      /\ call.h \in handles
  BY DEF IInv, CallInv, FindPlace, SeekPast
<1>2. CASE call.at < Len(index) /\ Sought(index[call.at + 1].position)
  <2>1. index[call.at + 1].position \in Nat
    <3>1. call.at + 1 \in 1..Len(index)
      BY <1>1, <1>2, CallTypes, FileTypes
    <3> QED BY <1>1, <3>1, FileTypes
  <2> QED BY <1>1, <1>2, <2>1, SoughtHolds
<1>3. CASE call' = [call EXCEPT !.step = "past"] /\ UNCHANGED <<fds, answer>>
  <2>1. call' \in CallSet /\ call'.step = "past" /\ call'.h = call.h
    <3>1. call \in CallSet /\ "past" \in Steps
      BY <1>1, CallTypes DEF Steps
    <3> QED BY <1>3, <3>1 DEF CallSet
  <2>2. CallInv'
    BY <1>1, <2>1, SeekingCall
  <2>3. answer' \in AnswerSet
    BY <1>1, <1>3 DEF TypeOK, AnswerSet
  <2> QED BY <1>1, <1>3, <2>1, <2>2, <2>3, StayedOnly
<1>4. CASE Sought(Len(index) * DESC)
  <2>1. Len(index) * DESC \in Nat
    BY <1>1, FileTypes, SizesPositive
  <2> QED BY <1>1, <1>4, <2>1, SoughtHolds
<1> QED BY <1>2, <1>3, <1>4 DEF FindPlace, SeekPast

--------------------------------------------------------------------------------
(* rio_write begins. *)
LEMMA BeginHolds ==
  ASSUME IInv, NEW h \in handles, NEW count \in Counts, rio_write(h, count)
  PROVE  IInv'
<1>1. /\ TypeOK /\ DescriptorsOwned /\ UNCHANGED <<indexerVars, handles, writes, cut>>
      /\ writes < MAXWRITES /\ call = Idle
  BY DEF IInv, rio_write
<1>2. /\ count \in Nat /\ h \in Nat /\ dpos(h) \in Nat /\ ipos(h) \in Nat /\ "data" \in Steps
      /\ ipos(h) + 1 \in Nat /\ Len(index) \in Nat /\ DOMAIN index = 1..Len(index)
  BY <1>1, ProgramAsks, HandleIsNumber, HandleOpen, FileTypes DEF Steps
<1>3. CASE AppendRecord(h, count)
  <2>1. /\ call' = Call("data", h, ipos(h), TRUE, dpos(h), count)
        /\ UNCHANGED <<fds, answer>>
    BY <1>3 DEF AppendRecord
  <2>2. /\ call' \in CallSet /\ call'.step = "data" /\ call'.h = h /\ call'.at = ipos(h)
        /\ call'.new = TRUE /\ call'.position = dpos(h) /\ call'.count = count
    BY <1>2, <2>1 DEF Call, CallSet
  <2>3. CallInv'
    <3>1. ipos(h)' = ipos(h) /\ dpos(h)' = dpos(h)
      BY <2>1 DEF ipos, dpos, indexFd, dataFd
    <3> QED BY <1>1, <2>2, <3>1 DEF CallInv, Writing
  <2>4. answer' \in AnswerSet
    BY <1>1, <2>1 DEF TypeOK, AnswerSet
  <2> QED BY <1>1, <2>1, <2>2, <2>3, <2>4, StayedOnly
<1>4. CASE UpdateRecord(h, count)
  <2>1. MoveTo(h, dpos(h), ipos(h) + 1) /\ ~AtEnd(h)
    BY <1>4 DEF UpdateRecord
  <2>2. PICK i \in 1..Len(index) : i = ipos(h) + 1
    BY <1>2, <2>1 DEF AtEnd
  <2>3. CASE answer' = Error /\ call' = call
    <3>1. answer' \in AnswerSet /\ call' \in CallSet /\ CallInv'
      BY <1>1, <2>3, 0 \in Int, Answers, IdleCall, IdleForm
    <3> QED BY <1>1, <1>2, <2>1, <3>1, MovedOnly
  <2>4. CASE /\ count <= Current(h).length /\ answer' = answer
             /\ call' = Call("data", h, ipos(h), FALSE, Current(h).position, count)
    <3>1. Current(h) = index[i] /\ index[i].position \in Nat
      BY <1>1, <2>2, FileTypes DEF Current
    <3>2. /\ call' \in CallSet /\ call'.step = "data" /\ call'.h = h /\ call'.at = ipos(h)
          /\ call'.new = FALSE /\ call'.position = index[i].position /\ call'.count = count
      BY <1>2, <2>4, <3>1 DEF Call, CallSet
    <3>3. CallInv'
      <4>1. ipos(h)' = ipos(h) + 1
        <5>1. fds'[indexFd(h)] = At("index", ipos(h) + 1)
          BY <1>1, <1>2, <2>1, Moved
        <5> QED BY <5>1 DEF ipos, indexFd, At
      <4>2. OverRecord'
        <5>1. index' = index /\ count <= index[i].length
          BY <1>1, <2>4, <3>1 DEF indexerVars
        <5> QED BY <1>2, <2>2, <3>2, <5>1 DEF OverRecord
      <4> QED BY <1>1, <3>2, <4>1, <4>2 DEF CallInv, Writing
    <3>4. answer' \in AnswerSet
      BY <1>1, <2>4 DEF TypeOK, AnswerSet
    <3> QED BY <1>1, <1>2, <2>1, <3>2, <3>3, <3>4, MovedOnly
  <2> QED BY <1>4, <2>3, <2>4 DEF UpdateRecord
<1> QED BY <1>3, <1>4 DEF rio_write

--------------------------------------------------------------------------------
(* What index a descriptor leaves: what it was put over, what it leaves out is
   descriptors of nothing. *)
Nowhere == [position |-> 0, length |-> 0]
LEMMA IndexPut ==
  ASSUME TypeOK, NEW p \in Nat, NEW r \in Descriptor, PutIndex(p, r)
  PROVE  /\ index' \in Seq(Descriptor) /\ DOMAIN index' = 1..Len(index') /\ Len(index') \in Nat
         /\ Len(index) <= Len(index') /\ p + 1 <= Len(index')
         /\ p <= Len(index) => Len(index') <= Len(index) \/ Len(index') = p + 1
         /\ \A k \in 1..Len(index') :
              index'[k] = IF k = p + 1 THEN r ELSE IF k \in 1..Len(index) THEN index[k] ELSE Nowhere
<1>1. index \in Seq(Descriptor) /\ Len(index) \in Nat /\ Nowhere \in Descriptor
  BY FileTypes DEF Nowhere, Descriptor
<1>2. PICK b \in Seq(Descriptor) : b = <<r>> /\ Len(b) = 1 /\ b[1] = r /\ b # <<>>
  <2>1. <<r>> \in Seq(Descriptor) /\ Len(<<r>>) = 1 /\ <<r>>[1] = r /\ <<r>> # <<>>
    OBVIOUS
  <2> QED BY <2>1
<1> DEFINE t == Put(index, p, b, Nowhere)
<1>3. index' = t
  BY <1>2 DEF PutIndex, Nowhere
<1>4. t \in Seq(Descriptor)
  BY <1>1, PutType
<1>5. /\ Len(index) >= p + 1 => Len(t) = Len(index)
      /\ Len(index) < p + 1 => Len(t) = p + 1
  <2>1. /\ b = <<>> \/ Len(index) >= p + Len(b) => Len(t) = Len(index)
        /\ b # <<>> /\ Len(index) < p + Len(b) => Len(t) = p + Len(b)
    BY <1>1, PutLength
  <2> HIDE DEF t
  <2> QED BY <1>2, <2>1
<1>6. ASSUME NEW k \in 1..Len(t)
      PROVE  t[k] = IF k = p + 1 THEN r ELSE IF k \in 1..Len(index) THEN index[k] ELSE Nowhere
  <2>1. /\ Covered(k, p, b) => t[k] = b[k - p]
        /\ Was(k, index) /\ ~Covered(k, p, b) => t[k] = index[k]
        /\ ~Was(k, index) /\ ~Covered(k, p, b) => t[k] = Nowhere
    BY <1>1, PutElement
  <2>2. k \in Int /\ k >= 1
    BY <1>4, LenProperties
  <2> HIDE DEF t
  <2>3. CASE k = p + 1
    BY <1>2, <2>1, <2>3 DEF Covered
  <2>4. CASE k # p + 1
    BY <1>1, <1>2, <2>1, <2>2, <2>4 DEF Covered, Was
  <2> QED BY <2>3, <2>4
<1>7. DOMAIN t = 1..Len(t) /\ Len(t) \in Nat
  BY <1>4, LenProperties
<1> HIDE DEF t
<1>8. Len(index) <= Len(t) /\ p + 1 <= Len(t) /\ (p <= Len(index) => Len(t) <= Len(index) \/ Len(t) = p + 1)
  <2>1. CASE Len(index) >= p + 1
    <3>1. Len(t) = Len(index)
      BY <1>5, <2>1
    <3> QED BY <1>1, <2>1, <3>1
  <2>2. CASE Len(index) < p + 1
    BY <1>1, <1>5, <1>7, <2>2
  <2> QED BY <1>1, <2>1, <2>2
<1> QED BY <1>3, <1>4, <1>6, <1>7, <1>8

(* The data file after a write: not shorter, and it has what was taken. *)
LEMMA DataPut ==
  ASSUME TypeOK, NEW p \in Nat, NEW n \in Nat \ {0}, data' = Put(data, p, Bytes(writes + 1, n), HOLE)
  PROVE  data' \in Seq(Nat) /\ Len(data') \in Nat /\ Len(data) <= Len(data') /\ p + n <= Len(data')
<1>1. data \in Seq(Nat) /\ Len(data) \in Nat /\ writes + 1 \in Nat /\ HOLE \in Nat
  BY FileTypes, BytesAreNumbers
<1>2. PICK b \in Seq(Nat) : b = Bytes(writes + 1, n) /\ Len(b) = n /\ b # <<>>
  BY <1>1, BytesProperties, EmptySeq
<1> DEFINE t == Put(data, p, b, HOLE)
<1>3. t \in Seq(Nat)
  BY <1>1, PutType
<1>4. /\ Len(data) >= p + n => Len(t) = Len(data)
      /\ Len(data) < p + n => Len(t) = p + n
  <2>1. /\ b = <<>> \/ Len(data) >= p + Len(b) => Len(t) = Len(data)
        /\ b # <<>> /\ Len(data) < p + Len(b) => Len(t) = p + Len(b)
    BY <1>1, PutLength
  <2> HIDE DEF t
  <2> QED BY <1>2, <2>1
<1>5. Len(t) \in Nat /\ data' = t
  BY <1>2, <1>3, LenProperties
<1> HIDE DEF t
<1> QED BY <1>1, <1>3, <1>4, <1>5

(* The bytes are written. *)
LEMMA DataHolds ==
  ASSUME IInv, WriteData
  PROVE  IInv'
<1>1. /\ TypeOK /\ DescriptorsOwned /\ WithinData /\ FoundLine /\ CallInv /\ call.step = "data"
      /\ UNCHANGED <<made, index, indexer, lost, handles, cut>>
  BY DEF IInv, WriteData
<1> DEFINE h == call.h
           count == call.count
<1>2. /\ h \in handles /\ dpos(h) \in Nat /\ ipos(h) \in Nat /\ count \in Nat
      /\ writes < MAXWRITES /\ writes \in Nat /\ MAXWRITES \in Nat
      /\ call \in CallSet /\ call.position \in Nat /\ call.at \in Nat /\ call.new \in BOOLEAN
  BY <1>1, CallTypes, FileTypes, HandleOpen DEF CallInv
<1>3. ASSUME NEW n \in 1..count,
             data' = Put(data, dpos(h), Bytes(writes + 1, n), HOLE),
             writes' = writes + 1, MoveTo(h, dpos(h) + n, ipos(h)), careful' \in BOOLEAN,
             call' = [call EXCEPT !.step = "index", !.put = n], UNCHANGED answer
      PROVE  IInv'
  <2>1. n \in Nat \ {0} /\ n <= count
    BY <1>2
  <2>2. /\ data' \in Seq(Nat) /\ Len(data') \in Nat /\ Len(data) <= Len(data')
        /\ dpos(h) + n <= Len(data') /\ Len(data) \in Nat
    <3>1. PICK p \in Nat : p = dpos(h)
      BY <1>2
    <3>2. data' = Put(data, p, Bytes(writes + 1, n), HOLE)
      BY <1>3, <3>1
    <3>3. data' \in Seq(Nat) /\ Len(data') \in Nat /\ Len(data) <= Len(data') /\ p + n <= Len(data')
      BY <1>1, <2>1, <3>2, DataPut
    <3> QED BY <1>1, <3>1, <3>3, FileTypes
  <2>3. /\ call' \in CallSet /\ call'.step = "index" /\ call'.put = n /\ call'.h = call.h
        /\ call'.at = call.at /\ call'.new = call.new /\ call'.position = call.position
        /\ call'.count = call.count
    <3>1. "index" \in Steps
      BY DEF Steps
    <3> QED BY <1>2, <1>3, <2>1, <3>1 DEF CallSet
  <2>4. fds' \in [Fd -> Slots] /\ DescriptorsOwned'
    <3>1. dpos(h) + n \in Nat
      BY <1>2, <2>1
    <3> QED BY <1>1, <1>2, <1>3, <3>1, Moved, MovedOwned
  <2>5. TypeOK'
    <3>1. writes' \in 0..MAXWRITES
      BY <1>2, <1>3
    <3> QED BY <1>1, <1>3, <2>2, <2>3, <2>4, <3>1 DEF TypeOK, Slots, CallSet
  <2>6. WithinData' /\ FoundLine'
    <3>1. ASSUME NEW i \in DOMAIN index \ cut PROVE EndOf(index[i]) <= Len(data')
      <4>1. EndOf(index[i]) <= Len(data) /\ EndOf(index[i]) \in Nat
        BY <1>1, FileTypes DEF WithinData
      <4> QED BY <2>2, <4>1
    <3>2. WithinData'
      BY <1>1, <3>1 DEF WithinData, EndOf
    <3>3. FoundLine'
      BY <1>1, <2>2, IndexerTypes DEF FoundLine
    <3> QED BY <3>2, <3>3
  <2>7. CallInv'
    <3>1. ~call.new => OverRecord'
      BY <1>1, <2>3 DEF CallInv, Writing, OverRecord
    <3>2. call.new => call.position + n <= Len(data')
      BY <1>1, <2>2 DEF CallInv
    <3>3. writes' > 0
      BY <1>2, <1>3
    <3>4. call.count \in Counts
      BY <1>1 DEF CallInv, Writing
    <3> QED BY <1>1, <1>2, <2>1, <2>3, <3>1, <3>2, <3>3, <3>4 DEF CallInv, Writing
  <2>8. IndexedSoFar'
    <3>1. writes' # 0
      BY <1>2, <1>3
    <3> QED BY <3>1 DEF IndexedSoFar
  <2> QED BY <2>4, <2>5, <2>6, <2>7, <2>8 DEF IInv
<1>4. CASE answer' = Error /\ call' = Idle /\ UNCHANGED <<data, writes, fds, careful>>
  <2>1. answer' \in AnswerSet /\ call' \in CallSet /\ CallInv'
    BY <1>4, 0 \in Int, Answers, IdleCall, IdleForm
  <2> QED BY <1>1, <1>4, <2>1, StayedOnly DEF indexerVars
<1>5. ASSUME NEW n \in 1..count,
             careful' = (/\ careful /\ n = count
                         /\ call.new => /\ call.at <= Len(index)
                                        /\ Untaken(DOMAIN index, dpos(h), count)
                         /\ ~call.new => dpos(h) = call.position)
      PROVE  careful' \in BOOLEAN
  BY <1>1, <1>5 DEF TypeOK
<1> QED BY <1>3, <1>4, <1>5 DEF WriteData

(* The descriptor is written, or not. *)
LEMMA DescriptorHolds ==
  ASSUME IInv, WriteIndex
  PROVE  IInv'
<1>1. /\ TypeOK /\ DescriptorsOwned /\ WithinData /\ FoundLine /\ CallInv /\ call.step = "index"
      /\ call' = Idle /\ UNCHANGED <<made, data, indexer, lost, handles, writes>>
  BY DEF IInv, WriteIndex
<1> DEFINE h == call.h
           at == call.at
           r == [position |-> call.position, length |-> call.count]
<1>2. /\ h \in handles /\ dpos(h) \in Nat /\ call.count \in Nat /\ call.put \in Nat
      /\ call.position \in Nat /\ at \in Nat /\ at + 1 \in Nat /\ call.new \in BOOLEAN
      /\ writes > 0 /\ Len(data) \in Nat
  BY <1>1, CallTypes, FileTypes, HandleOpen DEF CallInv
<1>3. call' \in CallSet /\ CallInv'
  BY <1>1, IdleCall, IdleForm
<1>4. IndexedSoFar'
  <2>1. writes' # 0
    BY <1>1, <1>2, FileTypes
  <2> QED BY <2>1 DEF IndexedSoFar
<1>5. ASSUME NEW i \in Nat, MoveTo(h, dpos(h), i), answer' \in AnswerSet, careful' \in BOOLEAN,
             cut' \subseteq Nat, index' \in Seq(Descriptor), WithinData'
      PROVE  IInv'
  <2>1. fds' \in [Fd -> Slots] /\ DescriptorsOwned'
    BY <1>1, <1>2, <1>5, Moved, MovedOwned
  <2>2. TypeOK'
    BY <1>1, <1>3, <1>5, <2>1 DEF TypeOK, Slots, CallSet, AnswerSet, Descriptor
  <2>3. FoundLine'
    BY <1>1 DEF FoundLine
  <2> QED BY <1>3, <1>4, <1>5, <2>1, <2>2, <2>3 DEF IInv
<1>6. CASE /\ PutIndex(at, r) /\ MoveTo(h, dpos(h), at + 1) /\ answer' = Result(call.count, <<>>)
           /\ careful' = (/\ careful
                          /\ call.new => Untaken(DOMAIN index \ {at + 1}, call.position, call.count))
           /\ cut' = IF call.new /\ call.put < call.count THEN cut \union {at + 1} ELSE cut
  <2>1. r \in Descriptor /\ EndOf(r) = call.position + call.count
    BY <1>2 DEF Descriptor, EndOf
  <2> HIDE DEF r
  <2>2. /\ index' \in Seq(Descriptor) /\ DOMAIN index' = 1..Len(index')
        /\ \A k \in 1..Len(index') :
             index'[k] = IF k = at + 1 THEN r ELSE IF k \in 1..Len(index) THEN index[k] ELSE Nowhere
    <3>1. PICK p \in Nat : p = at
      BY <1>2
    <3>2. PutIndex(p, r)
      BY <1>6, <3>1
    <3> HIDE DEF at
    <3> QED BY <1>1, <2>1, <3>1, <3>2, IndexPut
  <2>3. cut' \subseteq Nat /\ cut \subseteq cut'
    BY <1>1, <1>2, <1>6 DEF TypeOK
  <2>4. at + 1 \in cut' \/ EndOf(r) <= Len(data)
    <3>1. CASE call.new
      BY <1>1, <1>2, <1>6, <2>1, <3>1 DEF CallInv
    <3>2. CASE ~call.new
      <4>1. /\ at + 1 \in DOMAIN index /\ index[at + 1].position = call.position
            /\ call.count <= index[at + 1].length
        BY <1>1, <3>2 DEF CallInv, Writing, OverRecord
      <4>2. at + 1 \in cut \/ EndOf(index[at + 1]) <= Len(data)
        BY <1>1, <4>1 DEF WithinData
      <4>3. index[at + 1].length \in Nat
        BY <1>1, <4>1, FileTypes
      <4> QED BY <1>2, <2>1, <2>3, <4>1, <4>2, <4>3 DEF EndOf
    <3> QED BY <3>1, <3>2
  <2>5. ASSUME NEW k \in DOMAIN index' \ cut' PROVE EndOf(index'[k]) <= Len(data)
    <3>1. CASE k = at + 1
      BY <2>2, <2>4, <3>1
    <3>2. CASE k # at + 1 /\ k \in 1..Len(index)
      <4>1. index'[k] = index[k] /\ k \in DOMAIN index \ cut
        BY <1>1, <2>2, <2>3, <3>2, FileTypes
      <4> QED BY <1>1, <4>1 DEF WithinData
    <3>3. CASE k # at + 1 /\ k \notin 1..Len(index)
      <4>1. index'[k] = Nowhere
        BY <2>2, <3>3
      <4> QED BY <1>2, <4>1 DEF Nowhere, EndOf
    <3> QED BY <3>1, <3>2, <3>3
  <2>6. WithinData'
    BY <1>1, <2>5 DEF WithinData, EndOf
  <2>7. answer' \in AnswerSet
    BY <1>2, <1>6, Answers
  <2>8. careful' \in BOOLEAN
    BY <1>1, <1>6 DEF TypeOK
  <2> QED BY <1>2, <1>5, <1>6, <2>2, <2>3, <2>6, <2>7, <2>8
<1>7. CASE /\ MoveTo(h, dpos(h), at)
           /\ answer' = IF call.new THEN Error ELSE Result(call.count, <<>>)
           /\ careful' = (careful /\ call.new)
           /\ UNCHANGED <<index, cut>>
  <2>1. answer' \in AnswerSet
    BY <1>2, <1>7, 0 \in Int, Answers
  <2>2. WithinData' /\ index' \in Seq(Descriptor) /\ cut' \subseteq Nat /\ careful' \in BOOLEAN
    BY <1>1, <1>7 DEF WithinData, EndOf, TypeOK, Descriptor
  <2> QED BY <1>2, <1>5, <1>7, <2>1, <2>2
<1> QED BY <1>6, <1>7 DEF WriteIndex

--------------------------------------------------------------------------------
(* The indexer's steps leave the program's state alone. *)
LEMMA IndexerBeside ==
  ASSUME IInv, UNCHANGED <<data, ioVars>>, made' \subseteq {"data", "index"},
         index' \in Seq(Descriptor), Len(index) <= Len(index'),
         \A i \in 1..Len(index) : index'[i] = index[i],
         \A i \in 1..Len(index') : i \in 1..Len(index) \/ EndOf(index'[i]) <= Len(data),
         careful' \in BOOLEAN, lost' \in BOOLEAN, indexer' \in IndexerSet,
         FoundLine', IndexedSoFar'
  PROVE  IInv'
<1>1. /\ TypeOK /\ DescriptorsOwned /\ WithinData /\ CallInv /\ Len(index) \in Nat
      /\ DOMAIN index = 1..Len(index) /\ Len(index') \in Nat /\ DOMAIN index' = 1..Len(index')
      /\ UNCHANGED <<fds, handles, answer, writes, call, cut>>
  BY FileTypes, LenProperties DEF IInv, ioVars
<1>2. TypeOK'
  BY <1>1 DEF TypeOK, Descriptor, IndexerSet
<1>3. DescriptorsOwned'
  BY <1>1 DEF DescriptorsOwned, dataFd, indexFd
<1>4. WithinData'
  <2>1. ASSUME NEW i \in 1..Len(index') \ cut PROVE EndOf(index'[i]) <= Len(data)
    <3>1. CASE i \in 1..Len(index)
      <4>1. index'[i] = index[i] /\ i \in DOMAIN index \ cut
        BY <1>1, <3>1
      <4> QED BY <1>1, <4>1 DEF WithinData
    <3>2. CASE i \notin 1..Len(index)
      BY <3>2
    <3> QED BY <3>1, <3>2
  <2> QED BY <1>1, <2>1 DEF WithinData, EndOf
<1>5. CallInv'
  <2>1. OverRecord => OverRecord'
    <3> SUFFICES ASSUME OverRecord PROVE OverRecord'
      OBVIOUS
    <3>1. call.at + 1 \in 1..Len(index) /\ index'[call.at + 1] = index[call.at + 1]
      BY <1>1 DEF OverRecord
    <3>2. call.at + 1 \in 1..Len(index')
      BY <1>1, <3>1
    <3> QED BY <1>1, <3>1, <3>2 DEF OverRecord
  <2>2. ipos(call.h)' = ipos(call.h) /\ dpos(call.h)' = dpos(call.h)
    BY <1>1 DEF ipos, dpos, indexFd, dataFd
  <2> QED BY <1>1, <2>1, <2>2 DEF CallInv, Writing
<1> QED BY <1>2, <1>3, <1>4, <1>5 DEF IInv

(* Those of them that leave the index alone too. *)
LEMMA IndexerMoves ==
  ASSUME IInv, UNCHANGED <<data, index, careful, ioVars>>, made' \subseteq {"data", "index"},
         lost' \in BOOLEAN, indexer' \in IndexerSet, FoundLine', IndexedSoFar'
  PROVE  IInv'
<1>1. TypeOK /\ index' \in Seq(Descriptor) /\ Len(index) \in Nat /\ careful' \in BOOLEAN
  BY FileTypes DEF IInv, TypeOK
<1>2. /\ Len(index) <= Len(index') /\ \A i \in 1..Len(index) : index'[i] = index[i]
      /\ \A i \in 1..Len(index') : i \in 1..Len(index)
  BY <1>1
<1> QED BY <1>1, <1>2, IndexerBeside

LEMMA StartHolds ==
  ASSUME IInv, StartIndexer, UNCHANGED ioVars
  PROVE  IInv'
<1>1. /\ TypeOK /\ IndexedSoFar /\ UNCHANGED <<data, index, careful, lost>> /\ writes' = writes
      /\ indexer.runs \in Nat /\ indexer.runs < MAXRUNS /\ MAXRUNS \in Nat /\ Len(data) \in Nat
  BY IndexerTypes, FileTypes DEF IInv, StartIndexer, ioVars
<1>2. made' \subseteq {"data", "index"} /\ lost' \in BOOLEAN
  BY <1>1 DEF StartIndexer, TypeOK
<1>3. PICK pc \in {"line", "off", "stuck"} :
        indexer' = [pc |-> pc, at |-> 0, size |-> 0, runs |-> indexer.runs + 1]
  BY DEF StartIndexer
<1>4. indexer' \in IndexerSet
  BY <1>1, <1>3 DEF IndexerSet
<1>5. FoundLine'
  BY <1>3 DEF FoundLine
<1>6. IndexedSoFar'
  <2> SUFFICES ASSUME writes = 0, indexer.runs + 1 <= 1 PROVE (LinesFollow /\ AtLine /\ UpToHere)'
    BY <1>1, <1>3 DEF IndexedSoFar
  <2>1. index = <<>>
    BY <1>1 DEF IndexedSoFar, UpToHere
  <2>2. IndexedTo' = 0 /\ DOMAIN index' = {}
    BY <1>1, <2>1 DEF IndexedTo
  <2>3. LinesFollow' /\ AtLine'
    BY <1>3, <2>2 DEF LinesFollow, AtLine
  <2>4. UpToHere'
    BY <1>1, <1>3, <2>2 DEF UpToHere
  <2> QED BY <2>3, <2>4
<1> QED BY <1>1, <1>2, <1>4, <1>5, <1>6, IndexerMoves

LEMMA FindLineHolds ==
  ASSUME IInv, FindLine, UNCHANGED ioVars
  PROVE  IInv'
<1> DEFINE at == indexer.at
           size == LineSize(at)
<1>1. /\ TypeOK /\ IndexedSoFar /\ UNCHANGED <<made, data, index, careful, lost>> /\ writes' = writes
      /\ indexer.pc = "line" /\ size > 0 /\ at \in Nat /\ indexer.runs \in 0..MAXRUNS
      /\ data \in Seq(Nat) /\ Len(data) \in Nat
  BY IndexerTypes, FileTypes DEF IInv, FindLine, ioVars
<1>2. size \in Nat /\ at + size <= Len(data)
  BY <1>1, LineProperties
<1>3. made' \subseteq {"data", "index"} /\ lost' \in BOOLEAN
  BY <1>1 DEF TypeOK
<1>4. /\ indexer'.pc = "found" /\ indexer'.at = at /\ indexer'.size = size
      /\ indexer'.runs = indexer.runs /\ indexer' \in IndexerSet
  <2>1. indexer' = [indexer EXCEPT !.pc = "found", !.size = size] /\ indexer \in IndexerSet
    BY <1>1, IndexerTypes DEF FindLine
  <2> HIDE DEF size
  <2> QED BY <1>2, <2>1 DEF IndexerSet
<1>5. FoundLine'
  BY <1>1, <1>2, <1>4 DEF FoundLine
<1>6. IndexedSoFar'
  <2> SUFFICES ASSUME writes = 0, indexer.runs <= 1 PROVE (LinesFollow /\ AtLine /\ UpToHere)'
    BY <1>1, <1>4 DEF IndexedSoFar
  <2>1. LinesFollow /\ AtLine /\ UpToHere
    BY <1>1 DEF IndexedSoFar
  <2>2. LinesFollow'
    BY <1>1, <2>1 DEF LinesFollow, IsLine, Follows, EndOf
  <2>3. AtLine'
    <3>1. LineSize(indexer.at)' = size /\ at # Len(data)
      BY <1>1, <1>2, <1>4 DEF LineSize
    <3> QED BY <1>1, <1>4, <2>1, <3>1 DEF AtLine
  <2>4. UpToHere'
    BY <1>1, <1>4, <2>1 DEF UpToHere, IndexedTo, EndOf
  <2> QED BY <2>2, <2>3, <2>4
<1> QED BY <1>1, <1>3, <1>4, <1>5, <1>6, IndexerMoves

LEMMA StopHolds ==
  ASSUME IInv, EndIndexer \/ KillIndexer, UNCHANGED ioVars
  PROVE  IInv'
<1>1. /\ TypeOK /\ IndexedSoFar /\ UNCHANGED <<made, data, index, careful, lost>> /\ writes' = writes
      /\ indexer \in IndexerSet /\ indexer.at \in Nat /\ Len(data) \in Nat /\ IndexedTo \in Nat
  BY IndexerTypes, FileTypes DEF IInv, EndIndexer, KillIndexer, ioVars
<1>2. made' \subseteq {"data", "index"} /\ lost' \in BOOLEAN
  BY <1>1 DEF TypeOK
<1>3. /\ indexer' \in IndexerSet /\ indexer'.pc = "off" /\ indexer'.runs = indexer.runs
      /\ indexer'.at \in {0, indexer.at} /\ indexer.pc # "off"
      /\ indexer'.at # 0 => indexer.pc = "line"
  <2>1. CASE EndIndexer
    BY <1>1, <2>1 DEF EndIndexer, IndexerSet
  <2>2. CASE KillIndexer
    BY <1>1, <2>2 DEF KillIndexer, IndexerSet
  <2> QED BY <2>1, <2>2
<1>4. FoundLine'
  BY <1>3 DEF FoundLine
<1>5. IndexedSoFar'
  <2> SUFFICES ASSUME writes = 0, indexer.runs <= 1 PROVE (LinesFollow /\ AtLine /\ UpToHere)'
    BY <1>1, <1>3 DEF IndexedSoFar
  <2>1. LinesFollow /\ AtLine /\ UpToHere
    BY <1>1 DEF IndexedSoFar
  <2>2. LinesFollow'
    BY <1>1, <2>1 DEF LinesFollow, IsLine, Follows, EndOf
  <2>3. AtLine'
    BY <1>3 DEF AtLine
  <2>4. UpToHere'
    <3>1. IndexedTo' = IndexedTo
      BY <1>1 DEF IndexedTo, EndOf
    <3>2. indexer.runs # 0
      BY <1>3, <2>1 DEF UpToHere
    <3>3. IndexedTo <= Len(data)
      BY <2>1 DEF UpToHere
    <3>4. ASSUME indexer'.at = Len(data), ~lost PROVE IndexedTo = Len(data)
      <4>1. CASE Len(data) = 0
        BY <1>1, <3>3, <4>1
      <4>2. CASE Len(data) # 0
        BY <1>3, <2>1, <3>4, <4>2 DEF UpToHere
      <4> QED BY <4>1, <4>2
    <3> QED BY <1>1, <1>3, <3>1, <3>2, <3>3, <3>4 DEF UpToHere
  <2> QED BY <2>2, <2>3, <2>4
<1> QED BY <1>1, <1>2, <1>3, <1>4, <1>5, IndexerMoves

LEMMA WriteLineHolds ==
  ASSUME IInv, WriteLine, UNCHANGED ioVars
  PROVE  IInv'
<1> DEFINE at == indexer.at
           size == indexer.size
           r == [position |-> at, length |-> size]
<1>1. /\ TypeOK /\ IndexedSoFar /\ FoundLine /\ UNCHANGED <<made, data>> /\ writes' = writes
      /\ indexer.pc = "found" /\ indexer \in IndexerSet /\ at \in Nat /\ size \in Nat
      /\ data \in Seq(Nat) /\ Len(data) \in Nat /\ at + size <= Len(data)
      /\ index \in Seq(Descriptor) /\ Len(index) \in Nat /\ DOMAIN index = 1..Len(index)
      /\ IndexedTo \in Nat
  BY IndexerTypes, FileTypes DEF IInv, WriteLine, ioVars, FoundLine
<1>2. made' \subseteq {"data", "index"}
  BY <1>1 DEF TypeOK
<1>3. /\ indexer'.pc = "line" /\ indexer'.at = at + size /\ indexer'.runs = indexer.runs
      /\ indexer' \in IndexerSet
  <2>1. PICK n \in Nat : n = at + size
    BY <1>1
  <2>2. indexer' = [indexer EXCEPT !.pc = "line", !.at = n, !.size = 0]
    BY <2>1 DEF WriteLine
  <2>3. /\ indexer'.pc = "line" /\ indexer'.at = n /\ indexer'.runs = indexer.runs
        /\ indexer' \in IndexerSet
    BY <1>1, <2>2, 0 \in Nat DEF IndexerSet
  <2> QED BY <2>1, <2>3
<1>4. FoundLine'
  BY <1>3 DEF FoundLine
<1>5. r \in Descriptor /\ EndOf(r) = at + size /\ r.position = at /\ r.length = size
  BY <1>1 DEF Descriptor, EndOf
<1>6. ASSUME writes = 0, indexer.runs <= 1
      PROVE  /\ LinesFollow /\ UpToHere /\ indexer.runs # 0 /\ IndexedTo <= at
             /\ lost \/ IndexedTo = at
             /\ IsLine(r) /\ (data[at + size] = NL \/ at + size = Len(data))
  <2>1. LinesFollow /\ AtLine /\ UpToHere
    BY <1>1, <1>6 DEF IndexedSoFar
  <2>2. size = LineSize(at) /\ LineSize(at) > 0 /\ (at = 0 \/ data[at] = NL)
    BY <1>1, <2>1 DEF AtLine
  <2>3. /\ \A k \in at + 1 .. at + size - 1 : data[k] # NL
        /\ data[at + size] = NL \/ at + size = Len(data)
    BY <1>1, <2>2, LineProperties
  <2>4. IsLine(r)
    <3> HIDE DEF r
    <3> QED BY <1>1, <1>5, <2>2, <2>3 DEF IsLine
  <2>5. IndexedTo <= at /\ (lost \/ IndexedTo = at)
    BY <1>1, <2>1 DEF UpToHere
  <2> QED BY <1>1, <2>1, <2>3, <2>4, <2>5 DEF UpToHere
<1> HIDE DEF r
<1>7. CASE /\ index' = Append(index, r) /\ lost' = lost
           /\ careful' = (careful /\ Untaken(DOMAIN index, indexer.at, indexer.size))
  <2>1. /\ index' \in Seq(Descriptor) /\ Len(index') = Len(index) + 1
        /\ DOMAIN index' = 1 .. Len(index) + 1
        /\ \A i \in 1..Len(index) : index'[i] = index[i]
        /\ index'[Len(index) + 1] = r
    BY <1>1, <1>5, <1>7, AppendProperties, LenProperties
  <2>2. careful' \in BOOLEAN /\ lost' \in BOOLEAN
    BY <1>1, <1>7 DEF TypeOK
  <2>3. Len(index) <= Len(index')
        /\ \A i \in 1..Len(index') : i \in 1..Len(index) \/ EndOf(index'[i]) <= Len(data)
    <3>1. \A i \in 1..Len(index') : i \in 1..Len(index) \/ i = Len(index) + 1
      BY <1>1, <2>1
    <3> QED BY <1>1, <1>5, <2>1, <3>1
  <2>4. IndexedSoFar'
    <3> SUFFICES ASSUME writes = 0, indexer.runs <= 1 PROVE (LinesFollow /\ AtLine /\ UpToHere)'
      BY <1>1, <1>3 DEF IndexedSoFar
    <3>1. IndexedTo' = at + size
      <4>1. index' # <<>>
        BY <1>1, <2>1, Len(<<>>) = 0
      <4> QED BY <1>1, <1>5, <2>1, <4>1 DEF IndexedTo, EndOf
    <3>2. ASSUME NEW i \in 1 .. Len(index) + 1
          PROVE  IsLine(index'[i]) /\ Follows(index'[i], IF i = 1 THEN 0 ELSE EndOf(index'[i - 1]))
      <4>1. CASE i \in 1..Len(index)
        <5>1. i # 1 => i - 1 \in 1..Len(index)
          BY <1>1, <4>1
        <5> QED BY <1>1, <1>6, <2>1, <4>1, <5>1 DEF LinesFollow
      <4>2. CASE i = Len(index) + 1
        <5>1. (IF i = 1 THEN 0 ELSE EndOf(index'[i - 1])) = IndexedTo
          <6>1. CASE Len(index) = 0
            <7>1. index = <<>>
              BY <1>1, <6>1, EmptySeq
            <7> QED BY <4>2, <6>1, <7>1 DEF IndexedTo
          <6>2. CASE Len(index) # 0
            <7>1. index # <<>> /\ i # 1 /\ i - 1 = Len(index) /\ i - 1 \in 1..Len(index)
              BY <1>1, <4>2, <6>2
            <7> QED BY <2>1, <7>1 DEF IndexedTo
          <6> QED BY <6>1, <6>2
        <5>2. IsLine(r) /\ Follows(r, IndexedTo)
          BY <1>1, <1>5, <1>6 DEF Follows
        <5> QED BY <2>1, <4>2, <5>1, <5>2
      <4> QED BY <1>1, <4>1, <4>2
    <3>3. LinesFollow'
      BY <1>1, <1>7, <2>1, <3>2 DEF LinesFollow, IsLine, Follows, EndOf
    <3>4. AtLine'
      BY <1>1, <1>3, <1>6 DEF AtLine
    <3>5. UpToHere'
      BY <1>1, <1>3, <1>6, <1>7, <3>1 DEF UpToHere
    <3> QED BY <3>3, <3>4, <3>5
  <2> QED BY <1>1, <1>2, <1>3, <1>4, <2>1, <2>2, <2>3, <2>4, IndexerBeside
<1>8. CASE lost' = TRUE /\ UNCHANGED <<index, careful>>
  <2>1. IndexedSoFar'
    <3> SUFFICES ASSUME writes = 0, indexer.runs <= 1 PROVE (LinesFollow /\ AtLine /\ UpToHere)'
      BY <1>1, <1>3 DEF IndexedSoFar
    <3>1. LinesFollow'
      <4>1. ASSUME NEW i \in 1..Len(index)
            PROVE  /\ IsLine(index[i])
                   /\ index[i].position >= IF i = 1 THEN 0 ELSE EndOf(index[i - 1])
        <5>1. IsLine(index[i]) /\ Follows(index[i], IF i = 1 THEN 0 ELSE EndOf(index[i - 1]))
          BY <1>1, <1>6 DEF LinesFollow
        <5>2. index[i].position \in Nat /\ (i # 1 => EndOf(index[i - 1]) \in Nat)
          <6>1. i # 1 => i - 1 \in 1..Len(index)
            BY <1>1
          <6> QED BY <1>1, <6>1, FileTypes
        <5> QED BY <5>1, <5>2 DEF Follows
      <4> QED BY <1>1, <1>8, <4>1 DEF LinesFollow, IsLine, Follows, EndOf
    <3>2. IndexedTo' = IndexedTo
      BY <1>8 DEF IndexedTo, EndOf
    <3>3. AtLine'
      BY <1>1, <1>3, <1>6 DEF AtLine
    <3>4. UpToHere'
      BY <1>1, <1>3, <1>6, <1>8, <3>2 DEF UpToHere
    <3> QED BY <3>1, <3>3, <3>4
  <2> QED BY <1>1, <1>2, <1>3, <1>4, <1>8, <2>1, IndexerMoves
<1> QED BY <1>7, <1>8 DEF WriteLine, r

LEMMA IndexHolds ==
  ASSUME IInv, Index
  PROVE  IInv'
BY StartHolds, FindLineHolds, WriteLineHolds, StopHolds DEF Index

--------------------------------------------------------------------------------
LEMMA InitHolds == Init => IInv
<1> SUFFICES ASSUME Init PROVE IInv
  OBVIOUS
<1>1. /\ data \in Seq(Nat) /\ index = <<>> /\ made \subseteq {"data", "index"}
      /\ indexer = [pc |-> "off", at |-> 0, size |-> 0, runs |-> 0] /\ careful = TRUE /\ lost = FALSE
      /\ fds = [f \in Fd |-> Closed] /\ handles = {} /\ answer = Error /\ writes = 0
      /\ call = Idle /\ cut = {}
  <2>1. (made = {} /\ data = <<>>) \/ (made = {"data"} /\ data \in Texts)
    BY DEF Init, InitIndexer
  <2>2. data \in Seq(Nat)
    <3>1. Texts \subseteq Seq(Nat) /\ <<>> \in Seq(Nat)
      BY TextsAreBytes
    <3> QED BY <2>1, <3>1
  <2>3. made \subseteq {"data", "index"}
    BY <2>1
  <2> QED BY <2>2, <2>3 DEF Init, InitIndexer
<1>2. TypeOK
  <2>1. indexer \in IndexerSet
    BY <1>1, TextsAreBytes DEF IndexerSet
  <2>2. fds \in [Fd -> Slots]
    BY <1>1 DEF Slots
  <2>3. answer \in AnswerSet /\ writes \in 0..MAXWRITES /\ call \in CallSet
    BY <1>1, BytesAreNumbers, IdleForm, 0 \in Int DEF Error, Result, AnswerSet
  <2>4. handles \subseteq Handle /\ cut \subseteq Nat /\ careful \in BOOLEAN /\ lost \in BOOLEAN
    BY <1>1
  <2>5. index \in Seq(Descriptor)
    BY <1>1
  <2> QED BY <1>1, <2>1, <2>2, <2>3, <2>4, <2>5 DEF TypeOK, IndexerSet, Slots, AnswerSet, CallSet, Descriptor
<1>3. DescriptorsOwned /\ WithinData /\ FoundLine
  BY <1>1 DEF DescriptorsOwned, WithinData, FoundLine
<1>4. CallInv
  BY <1>1, IdleForm DEF CallInv, Writing
<1>5. IndexedSoFar
  <2>1. IndexedTo = 0 /\ DOMAIN index = {} /\ Len(data) \in Nat
    BY <1>1, LenProperties DEF IndexedTo
  <2>2. LinesFollow
    BY <2>1 DEF LinesFollow
  <2>3. AtLine
    BY <1>1 DEF AtLine
  <2>4. UpToHere
    BY <1>1, <2>1 DEF UpToHere
  <2> QED BY <2>2, <2>3, <2>4 DEF IndexedSoFar
<1> QED BY <1>2, <1>3, <1>4, <1>5 DEF IInv

LEMMA StepHolds == IInv /\ [Next]_vars => IInv'
<1> SUFFICES ASSUME IInv, [Next]_vars PROVE IInv'
  OBVIOUS
<1>1. CASE Index
  BY <1>1, IndexHolds
<1>2. CASE Open
  BY <1>2, OpenHolds
<1>3. CASE Exit
  BY <1>3, ExitHolds
<1>4. CASE WriteData
  BY <1>4, DataHolds
<1>5. CASE WriteIndex
  BY <1>5, DescriptorHolds
<1>6. CASE FindPlace \/ SeekPast
  BY <1>6, PlacesHold
<1>7. ASSUME NEW h \in handles, rio_read(h) PROVE IInv'
  BY <1>7, ReadHolds
<1>8. ASSUME NEW h \in handles, rio_close(h) PROVE IInv'
  BY <1>8, CloseHolds
<1>9. ASSUME NEW h \in handles, NEW count \in Counts, rio_write(h, count) PROVE IInv'
  BY <1>9, BeginHolds
<1>10. ASSUME NEW h \in handles, NEW offset \in Offsets,
              NEW whence \in {"SET", "CUR", "END"}, rio_lseek(h, offset, whence)
       PROVE  IInv'
  BY <1>10, SeekHolds
<1>11. CASE UNCHANGED vars
  <2>1. UNCHANGED <<indexerVars, fds, handles, answer, writes, call, cut>>
    BY <1>11 DEF vars, ioVars
  <2>2. answer' \in AnswerSet /\ call' \in CallSet
    BY <2>1 DEF IInv, TypeOK, AnswerSet, CallSet
  <2>3. CallInv'
    <3>1. CallInv
      BY DEF IInv
    <3>2. ipos(call.h)' = ipos(call.h) /\ dpos(call.h)' = dpos(call.h)
      BY <2>1 DEF ipos, dpos, indexFd, dataFd
    <3>3. UNCHANGED <<index, data, fds, handles, writes, call>>
      BY <2>1 DEF indexerVars
    <3> QED BY <3>1, <3>2, <3>3 DEF CallInv, Writing, OverRecord
  <2> QED BY <2>1, <2>2, <2>3, StayedOnly
<1> QED BY <1>1, <1>2, <1>3, <1>4, <1>5, <1>6, <1>7, <1>8, <1>9, <1>10, <1>11 DEF Next

(* The invariant holds in every state the two programs reach. *)
THEOREM InvariantHolds == Spec => []IInv
BY InitHolds, StepHolds, PTL DEF Spec

(* Files are sequences of bytes and of descriptors, handles pack two numbers
   of the table, a call under way is one (recordio.c, indexer.c). *)
THEOREM TypeCorrect == Spec => []TypeOK
<1>1. IInv => TypeOK
  BY DEF IInv
<1> QED BY <1>1, InvariantHolds, PTL

(* However handles are opened, closed and lost, each one has its own two open
   descriptors, and the only others open are data files a failed rio_open left
   behind (recordio.c:31-54, 246-270). *)
THEOREM DescriptorsStayOwned == Spec => []DescriptorsOwned
<1>1. IInv => DescriptorsOwned
  BY DEF IInv
<1> QED BY <1>1, InvariantHolds, PTL

(* A descriptor that reaches past the bytes of the data file is the new one of a
   write that was cut short (recordio.c:134-141), whoever writes, seeks, dies or
   finds lines between the two writes of another (recordio.c:88-165,
   indexer.c:67-114). *)
THEOREM RecordsWithinData == Spec => []WithinData
<1>1. IInv => WithinData
  BY DEF IInv
<1> QED BY <1>1, InvariantHolds, PTL

(* As long as only the indexer has written, and it was started once, the index
   is the text's lines in order, and all of them when it ends with none lost
   (indexer.c:67-114). *)
THEOREM IndexIsTheLines == Spec => []IndexedLines
<1>1. IInv => IndexedLines
  BY DEF IInv, IndexedSoFar, IndexedLines, LinesFollow, UpToHere
<1> QED BY <1>1, InvariantHolds, PTL

--------------------------------------------------------------------------------
(***************************************************************************)
(* The refinement.  The records are what the descriptors span; the cursor  *)
(* of a handle is where its index stands, or the place of the write under  *)
(* way on it.  That a write over a record leaves the others alone needs    *)
(* that no two of them share a byte (Apart), and that its descriptor says  *)
(* what is in the file needs that all its bytes were taken (BytesThere).   *)
(* Both hold as long as the bytes went where the records are.              *)
(***************************************************************************)
Contents(d, r) == SubSeq(d, r.position + 1, r.position + r.length)
Cursor == [h \in handles |-> Place(h)]
Beside(r, first, n) == first + n <= r.position \/ r.position + r.length <= first
Apart ==
  \A i, j \in DOMAIN index : i # j => Beside(index[i], index[j].position, index[j].length)
BytesThere ==
  call.step = "index" =>
    /\ call.put = call.count /\ call.position + call.count <= Len(data)
    /\ SubSeq(data, call.position + 1, call.position + call.count) = Bytes(writes, call.count)
    /\ call.new => call.at <= Len(index)
Sound == cut = {} /\ Apart /\ BytesThere
RInv == careful => Sound

LEMMA SamePiece ==
  ASSUME NEW S, NEW s \in Seq(S), NEW t \in Seq(S), NEW i \in Nat, NEW n \in Nat,
         i + n <= Len(s), i + n <= Len(t), \A k \in 1..n : s[i + k] = t[i + k]
  PROVE  SubSeq(s, i + 1, i + n) = SubSeq(t, i + 1, i + n)
<1>1. /\ SubSeq(s, i + 1, i + n) \in Seq(S) /\ Len(SubSeq(s, i + 1, i + n)) = n
      /\ \A k \in 1..n : SubSeq(s, i + 1, i + n)[k] = s[i + k]
  BY Piece
<1>2. /\ SubSeq(t, i + 1, i + n) \in Seq(S) /\ Len(SubSeq(t, i + 1, i + n)) = n
      /\ \A k \in 1..n : SubSeq(t, i + 1, i + n)[k] = t[i + k]
  BY Piece
<1> DEFINE u == SubSeq(s, i + 1, i + n)
           v == SubSeq(t, i + 1, i + n)
<1> HIDE DEF u, v
<1>3. /\ u \in Seq(S) /\ v \in Seq(S) /\ Len(u) = Len(v)
      /\ \A k \in 1..Len(u) : u[k] = v[k]
  BY <1>1, <1>2 DEF u, v
<1>4. u = v
  BY <1>3, SeqEqual
<1> QED BY <1>4 DEF u, v

(* Bytes written beside a piece of a file leave it alone. *)
LEMMA PutBeside ==
  ASSUME NEW S, NEW s \in Seq(S), NEW p \in Nat, NEW b \in Seq(S), NEW hole \in S,
         NEW r \in Descriptor, EndOf(r) <= Len(s), Beside(r, p, Len(b))
  PROVE  Contents(Put(s, p, b, hole), r) = Contents(s, r)
<1> DEFINE t == Put(s, p, b, hole)
<1>0. PICK i \in Nat, n \in Nat : i = r.position /\ n = r.length
  BY DEF Descriptor
<1>1. /\ i + n <= Len(s) /\ Len(s) \in Nat /\ Len(b) \in Nat
      /\ p + Len(b) <= i \/ i + n <= p
  BY <1>0, LenProperties DEF EndOf, Beside
<1>2. t \in Seq(S)
  BY PutType
<1>3. Len(t) \in Nat /\ Len(s) <= Len(t)
  <2>1. Len(t) \in Nat
    BY <1>2, LenProperties
  <2>2. /\ b = <<>> \/ Len(s) >= p + Len(b) => Len(t) = Len(s)
        /\ b # <<>> /\ Len(s) < p + Len(b) => Len(t) = p + Len(b)
    BY PutLength
  <2> HIDE DEF t
  <2> QED BY <1>1, <2>1, <2>2
<1>4. ASSUME NEW k \in 1..n
      PROVE  t[i + k] = s[i + k]
  <2>1. PICK j \in 1..Len(t) : j = i + k
    <3> HIDE DEF t
    <3> QED BY <1>1, <1>3
  <2>2. Was(j, s) /\ ~Covered(j, p, b)
    BY <1>1, <2>1 DEF Was, Covered
  <2>3. Was(j, s) /\ ~Covered(j, p, b) => t[j] = s[j]
    BY PutElement
  <2> HIDE DEF t
  <2> QED BY <2>1, <2>2, <2>3
<1> HIDE DEF t
<1>5. SubSeq(t, i + 1, i + n) = SubSeq(s, i + 1, i + n)
  <2>1. i + n <= Len(t) /\ i + n <= Len(s)
    BY <1>1, <1>3
  <2> QED BY <1>2, <1>4, <2>1, SamePiece
<1> QED BY <1>0, <1>5 DEF Contents, t

(* The bytes written are where they were written. *)
LEMMA PutThere ==
  ASSUME NEW S, NEW s \in Seq(S), NEW p \in Nat, NEW b \in Seq(S), NEW hole \in S, b # <<>>
  PROVE  SubSeq(Put(s, p, b, hole), p + 1, p + Len(b)) = b
<1> DEFINE t == Put(s, p, b, hole)
           u == SubSeq(t, p + 1, p + Len(b))
<1>1. Len(s) \in Nat /\ Len(b) \in Nat /\ (b = <<>> => Len(b) = 0)
  BY LenProperties, EmptySeq
<1>2. t \in Seq(S)
  BY PutType
<1>3. Len(t) \in Nat /\ p + Len(b) <= Len(t)
  <2>1. Len(t) \in Nat
    BY <1>2, LenProperties
  <2>2. /\ b = <<>> \/ Len(s) >= p + Len(b) => Len(t) = Len(s)
        /\ b # <<>> /\ Len(s) < p + Len(b) => Len(t) = p + Len(b)
    BY PutLength
  <2> HIDE DEF t
  <2> QED BY <1>1, <2>1, <2>2
<1>4. ASSUME NEW k \in 1..Len(b)
      PROVE  t[p + k] = b[k]
  <2>1. PICK j \in 1..Len(t) : j = p + k
    <3> HIDE DEF t
    <3> QED BY <1>1, <1>3
  <2>2. Covered(j, p, b) /\ j - p = k
    BY <1>1, <2>1 DEF Covered
  <2>3. Covered(j, p, b) => t[j] = b[j - p]
    BY PutElement
  <2> HIDE DEF t
  <2> QED BY <2>1, <2>2, <2>3
<1>5. u \in Seq(S) /\ Len(u) = Len(b) /\ \A k \in 1..Len(b) : u[k] = t[p + k]
  <2> HIDE DEF t
  <2> QED BY <1>1, <1>2, <1>3, Piece
<1> HIDE DEF t, u
<1>6. \A k \in 1..Len(u) : u[k] = b[k]
  BY <1>4, <1>5
<1>7. u = b
  BY <1>5, <1>6, SeqEqual
<1> QED BY <1>7 DEF u, t

(* Bytes written over the first of a piece leave the rest of it. *)
Torn(old, b) == b \o SubSeq(old, Len(b) + 1, Len(old))
Fits(b, r) == Len(b) <= r.length
Roomy(s, p, m, b) == p + m <= Len(s) /\ Len(b) <= m
LEMMA PutOverPiece ==
  ASSUME NEW S, NEW s \in Seq(S), NEW p \in Nat, NEW b \in Seq(S), NEW hole \in S,
         NEW m \in Nat, Roomy(s, p, m, b)
  PROVE  SubSeq(Put(s, p, b, hole), p + 1, p + m) = Torn(SubSeq(s, p + 1, p + m), b)
<1> DEFINE t == Put(s, p, b, hole)
           old == SubSeq(s, p + 1, p + m)
           rest == SubSeq(old, Len(b) + 1, m)
           new == SubSeq(t, p + 1, p + m)
<1>1. Len(s) \in Nat /\ Len(b) \in Nat /\ Len(b) <= m /\ p + m <= Len(s)
  BY LenProperties DEF Roomy
<1>2. t \in Seq(S)
  BY PutType
<1>3. Len(t) \in Nat /\ p + m <= Len(t)
  <2>1. Len(t) \in Nat
    BY <1>2, LenProperties
  <2>2. /\ b = <<>> \/ Len(s) >= p + Len(b) => Len(t) = Len(s)
        /\ b # <<>> /\ Len(s) < p + Len(b) => Len(t) = p + Len(b)
    BY PutLength
  <2> HIDE DEF t
  <2> QED BY <1>1, <2>1, <2>2
<1>4. ASSUME NEW k \in 1..m
      PROVE  /\ k <= Len(b) => t[p + k] = b[k]
             /\ k > Len(b) => t[p + k] = s[p + k]
  <2>1. PICK j \in 1..Len(t) : j = p + k
    <3> HIDE DEF t
    <3> QED BY <1>1, <1>3
  <2>2. Was(j, s) /\ j - p = k /\ (k <= Len(b) <=> Covered(j, p, b))
    BY <1>1, <2>1 DEF Was, Covered
  <2>3. Covered(j, p, b) => t[j] = b[j - p]
    BY PutElement
  <2>4. Was(j, s) /\ ~Covered(j, p, b) => t[j] = s[j]
    BY PutElement
  <2> HIDE DEF t
  <2> QED BY <1>1, <2>1, <2>2, <2>3, <2>4
<1>5. old \in Seq(S) /\ Len(old) = m /\ \A k \in 1..m : old[k] = s[p + k]
  BY <1>1, Piece
<1> HIDE DEF t, old
<1>6. new \in Seq(S) /\ Len(new) = m /\ \A k \in 1..m : new[k] = t[p + k]
  BY <1>2, <1>3, Piece
<1>7. /\ rest \in Seq(S) /\ Len(rest) = m - Len(b)
      /\ \A k \in 1 .. m - Len(b) : rest[k] = old[Len(b) + k]
  <2>1. PICK c \in Nat, n \in Nat : c = Len(b) /\ n = m - c /\ c + n = m
    BY <1>1
  <2>2. c + n <= Len(old)
    BY <1>5, <2>1
  <2>3. /\ SubSeq(old, c + 1, c + n) \in Seq(S) /\ Len(SubSeq(old, c + 1, c + n)) = n
        /\ \A k \in 1..n : SubSeq(old, c + 1, c + n)[k] = old[c + k]
    BY <1>5, <2>2, Piece
  <2> QED BY <2>1, <2>3
<1> HIDE DEF new, rest
<1>8. /\ b \o rest \in Seq(S) /\ Len(b \o rest) = Len(b) + Len(rest)
      /\ \A k \in 1 .. Len(b) + Len(rest) :
           (b \o rest)[k] = IF k <= Len(b) THEN b[k] ELSE rest[k - Len(b)]
  BY <1>7, ConcatProperties
<1>9. ASSUME NEW k \in 1..m
      PROVE  new[k] = (b \o rest)[k]
  <2>1. CASE k <= Len(b)
    <3>1. new[k] = b[k]
      BY <1>4, <1>6, <2>1
    <3>2. k \in 1 .. Len(b) + Len(rest)
      BY <1>1, <1>7
    <3> QED BY <1>8, <2>1, <3>1, <3>2
  <2>2. CASE k > Len(b)
    <3>1. k - Len(b) \in 1 .. m - Len(b) /\ Len(b) + (k - Len(b)) = k
      BY <1>1, <2>2
    <3>2. new[k] = old[k]
      BY <1>4, <1>5, <1>6, <2>2
    <3>3. rest[k - Len(b)] = old[k]
      BY <1>7, <3>1
    <3>4. (b \o rest)[k] = rest[k - Len(b)]
      <4>1. k \in 1 .. Len(b) + Len(rest) /\ ~(k <= Len(b))
        BY <1>1, <1>7, <2>2
      <4> QED BY <1>8, <4>1
    <3> QED BY <3>2, <3>3, <3>4
  <2>3. k <= Len(b) \/ k > Len(b)
    BY <1>1
  <2> QED BY <2>1, <2>2, <2>3
<1>10. Len(new) = Len(b \o rest)
  BY <1>1, <1>6, <1>7, <1>8
<1>11. \A k \in 1..Len(new) : new[k] = (b \o rest)[k]
  BY <1>6, <1>9
<1>12. new = b \o rest
  BY <1>6, <1>8, <1>10, <1>11, SeqEqual
<1>13. Torn(old, b) = b \o rest
  BY <1>5 DEF Torn, rest
<1> QED BY <1>12, <1>13 DEF new, old, t

LEMMA PutOver ==
  ASSUME NEW S, NEW s \in Seq(S), NEW b \in Seq(S), NEW hole \in S,
         NEW r \in Descriptor, EndOf(r) <= Len(s), Fits(b, r)
  PROVE  Contents(Put(s, r.position, b, hole), r) = Torn(Contents(s, r), b)
<1>1. PICK p \in Nat, m \in Nat : p = r.position /\ m = r.length
  BY DEF Descriptor
<1>2. Roomy(s, p, m, b)
  BY <1>1 DEF Roomy, EndOf, Fits
<1>3. SubSeq(Put(s, p, b, hole), p + 1, p + m) = Torn(SubSeq(s, p + 1, p + m), b)
  BY <1>2, PutOverPiece
<1> QED BY <1>1, <1>3 DEF Contents

(* One descriptor written at the end of the index. *)
LEMMA PutAtEnd ==
  ASSUME NEW R, NEW s \in Seq(R), NEW e \in R, NEW hole \in R
  PROVE  Put(s, Len(s), <<e>>, hole) = Append(s, e)
<1>0. <<e>> \in Seq(R) /\ Len(<<e>>) = 1 /\ <<e>>[1] = e /\ <<e>> # <<>>
  OBVIOUS
<1>1. PICK b \in Seq(R) : b = <<e>> /\ Len(b) = 1 /\ b[1] = e /\ b # <<>>
  BY <1>0
<1>2. PICK p \in Nat : p = Len(s)
  BY LenProperties
<1> DEFINE t == Put(s, p, b, hole)
<1>3. t \in Seq(R)
  BY PutType
<1>4. Len(t) = p + 1
  <2>1. b # <<>> /\ Len(s) < p + Len(b) => Len(t) = p + Len(b)
    BY PutLength
  <2> HIDE DEF t
  <2> QED BY <1>1, <1>2, <2>1
<1>5. ASSUME NEW k \in 1..Len(t)
      PROVE  t[k] = IF k <= p THEN s[k] ELSE e
  <2>1. /\ Covered(k, p, b) => t[k] = b[k - p]
        /\ Was(k, s) /\ ~Covered(k, p, b) => t[k] = s[k]
    BY PutElement
  <2> HIDE DEF t
  <2>2. CASE k <= p
    BY <1>1, <1>2, <1>4, <2>1, <2>2 DEF Was, Covered
  <2>3. CASE k > p
    <3>1. k - p = 1 /\ Covered(k, p, b)
      BY <1>1, <1>4, <2>3 DEF Covered
    <3> QED BY <1>1, <2>1, <2>3, <3>1
  <2> QED BY <1>4, <2>2, <2>3
<1> HIDE DEF t
<1> DEFINE u == Append(s, e)
<1>6. u \in Seq(R) /\ Len(u) = p + 1 /\ (\A k \in 1..p : u[k] = s[k]) /\ u[p + 1] = e
  BY <1>2, AppendProperties
<1> HIDE DEF u
<1>7. Len(t) = Len(u) /\ \A k \in 1..Len(t) : t[k] = u[k]
  BY <1>4, <1>5, <1>6
<1>8. t = u
  BY <1>3, <1>6, <1>7, SeqEqual
<1> QED BY <1>1, <1>2, <1>8 DEF t, u

(* The records and the cursors as the promise sees them. *)
LEMMA RecordsAre ==
  ASSUME IInv, cut = {}
  PROVE  /\ Records \in Seq(Seq(Nat)) /\ Len(Records) = Len(index) /\ Len(index) \in Nat
         /\ DOMAIN Records = 1..Len(index)
         /\ \A i \in 1..Len(index) :
              /\ Records[i] = Contents(data, index[i]) /\ Records[i] \in Seq(Nat)
              /\ Len(Records[i]) = index[i].length
<1>1. /\ data \in Seq(Nat) /\ Len(index) \in Nat /\ DOMAIN index = 1..Len(index)
      /\ \A i \in 1..Len(index) : /\ index[i].position \in Nat /\ index[i].length \in Nat
                                  /\ index[i].position + index[i].length <= Len(data)
  <2>1. TypeOK /\ WithinData
    BY DEF IInv
  <2> QED BY <2>1, FileTypes DEF WithinData, EndOf
<1>2. ASSUME NEW i \in 1..Len(index)
      PROVE  Contents(data, index[i]) \in Seq(Nat) /\ Len(Contents(data, index[i])) = index[i].length
  <2>1. PICK p \in Nat, n \in Nat : p = index[i].position /\ n = index[i].length /\ p + n <= Len(data)
    BY <1>1
  <2>2. SubSeq(data, p + 1, p + n) \in Seq(Nat) /\ Len(SubSeq(data, p + 1, p + n)) = n
    <3>1. data \in Seq(Nat) /\ p + n <= Len(data)
      BY <1>1, <2>1
    <3> QED BY <3>1, Piece
  <2> QED BY <2>1, <2>2 DEF Contents
<1>3. Records = [i \in 1..Len(index) |-> Contents(data, index[i])]
  BY <1>1 DEF Records, Contents, EndOf
<1>4. Records \in [1..Len(index) -> Seq(Nat)]
  <2>1. \A i \in 1..Len(index) : Contents(data, index[i]) \in Seq(Nat)
    BY <1>2
  <2> QED BY <1>3, <2>1
<1>5. Records \in Seq(Seq(Nat))
  <2> DEFINE T == Seq(Nat)
  <2>1. Records \in [1..Len(index) -> T] /\ Len(index) \in Nat
    BY <1>1, <1>4
  <2> HIDE DEF T
  <2>2. Records \in Seq(T)
    BY <2>1, SeqDef
  <2> QED BY <2>2 DEF T
<1>6. Len(Records) = Len(index)
  BY <1>1, <1>3
<1> QED BY <1>1, <1>2, <1>3, <1>5, <1>6

(* No record changes while their bytes and descriptors do not. *)
LEMMA RecordsKept ==
  ASSUME UNCHANGED index, \A i \in DOMAIN index : Contents(data', index[i]) = Contents(data, index[i])
  PROVE  Records' = Records
BY DEF Records, Contents, EndOf

LEMMA RecordsAppended ==
  ASSUME TypeOK, NEW r \in Descriptor, index' = Append(index, r),
         \A i \in DOMAIN index : Contents(data', index[i]) = Contents(data, index[i])
  PROVE  Records' = Append(Records, Contents(data', r))
<1>1. index \in Seq(Descriptor) /\ Len(index) \in Nat /\ DOMAIN index = 1..Len(index)
  BY FileTypes DEF Descriptor
<1>2. /\ Len(index') = Len(index) + 1 /\ index' \in Seq(Descriptor)
      /\ \A i \in 1..Len(index) : index'[i] = index[i]
      /\ index'[Len(index) + 1] = r
  BY <1>1, AppendProperties
<1>3. DOMAIN index' = 1 .. Len(index) + 1
  BY <1>2, LenProperties
<1>4. Records' = [i \in 1 .. Len(index) + 1 |-> Contents(data', index'[i])]
  BY <1>3 DEF Records, Contents, EndOf
<1>5. Records = [i \in 1..Len(index) |-> Contents(data, index[i])]
  BY <1>1 DEF Records, Contents, EndOf
<1> DEFINE AnyOf == {Records[i] : i \in 1..Len(index)} \union {Contents(data', r)}
           a == Append(Records, Contents(data', r))
<1>6. Records \in [1..Len(index) -> AnyOf] /\ Contents(data', r) \in AnyOf
  BY <1>5
<1> HIDE DEF AnyOf
<1>7. Records \in Seq(AnyOf) /\ Len(Records) = Len(index)
  BY <1>1, <1>5, <1>6, SeqDef
<1>8. /\ a \in Seq(AnyOf) /\ Len(a) = Len(index) + 1
      /\ \A i \in 1..Len(index) : a[i] = Records[i]
      /\ a[Len(index) + 1] = Contents(data', r)
  BY <1>6, <1>7, AppendProperties
<1> HIDE DEF a
<1>9. ASSUME NEW i \in 1 .. Len(index) + 1
      PROVE  Records'[i] = a[i]
  <2>1. CASE i \in 1..Len(index)
    BY <1>1, <1>2, <1>4, <1>5, <1>8, <2>1
  <2>2. CASE i = Len(index) + 1
    BY <1>2, <1>4, <1>8, <2>2
  <2> QED BY <1>1, <2>1, <2>2
<1>10. DOMAIN a = 1 .. Len(index) + 1
  BY <1>8, LenProperties
<1>11. a = [i \in 1 .. Len(index) + 1 |-> a[i]]
  BY <1>8, <1>10, LenProperties
<1>12. Records' = a
  BY <1>4, <1>9, <1>11
<1> QED BY <1>12 DEF a

LEMMA RecordReplaced ==
  ASSUME TypeOK, NEW i \in DOMAIN index, DOMAIN index' = DOMAIN index,
         \A j \in DOMAIN index \ {i} : Contents(data', index'[j]) = Contents(data, index[j])
  PROVE  Records' = [Records EXCEPT ![i] = Contents(data', index'[i])]
<1>1. Records' = [j \in DOMAIN index |-> Contents(data', index'[j])]
  BY DEF Records, Contents, EndOf
<1>2. Records = [j \in DOMAIN index |-> Contents(data, index[j])]
  BY DEF Records, Contents, EndOf
<1> QED BY <1>1, <1>2

(* One descriptor put in the index, at its end or over another. *)
LEMMA RecordPut ==
  ASSUME TypeOK, NEW p \in Nat, p <= Len(index), NEW r \in Descriptor, PutIndex(p, r),
         UNCHANGED data
  PROVE  /\ p = Len(index) => Records' = Append(Records, Contents(data, r))
         /\ p < Len(index) => Records' = [Records EXCEPT ![p + 1] = Contents(data, r)]
<1>1. /\ index \in Seq(Descriptor) /\ Len(index) \in Nat /\ DOMAIN index = 1..Len(index)
      /\ Nowhere \in Descriptor
  BY FileTypes DEF Nowhere, Descriptor
<1>2. /\ DOMAIN index' = 1..Len(index') /\ Len(index') \in Nat
      /\ Len(index) <= Len(index') /\ p + 1 <= Len(index')
      /\ Len(index') <= Len(index) \/ Len(index') = p + 1
      /\ \A k \in 1..Len(index') :
           index'[k] = IF k = p + 1 THEN r ELSE IF k \in 1..Len(index) THEN index[k] ELSE Nowhere
  BY IndexPut
<1>3. ASSUME p = Len(index) PROVE Records' = Append(Records, Contents(data, r))
  <2>1. index' = Put(index, Len(index), <<r>>, Nowhere)
    BY <1>3 DEF PutIndex, Nowhere
  <2>2. Put(index, Len(index), <<r>>, Nowhere) = Append(index, r)
    BY <1>1, PutAtEnd
  <2>3. \A i \in DOMAIN index : Contents(data', index[i]) = Contents(data, index[i])
    OBVIOUS
  <2>4. index' = Append(index, r)
    BY <2>1, <2>2
  <2> QED BY <2>3, <2>4, RecordsAppended
<1>4. ASSUME p < Len(index)
      PROVE  Records' = [Records EXCEPT ![p + 1] = Contents(data, r)]
  <2>1. p + 1 \in 1..Len(index) /\ Len(index') = Len(index)
    <3>1. /\ Len(index) \in Nat /\ Len(index') \in Nat /\ Len(index) <= Len(index')
          /\ Len(index') <= Len(index) \/ Len(index') = p + 1
      BY <1>1, <1>2
    <3> QED BY <1>4, <3>1
  <2>2. DOMAIN index' = DOMAIN index /\ p + 1 \in DOMAIN index /\ index'[p + 1] = r
    BY <1>1, <1>2, <2>1
  <2>3. \A j \in DOMAIN index \ {p + 1} : Contents(data', index'[j]) = Contents(data, index[j])
    BY <1>1, <1>2, <2>1
  <2>4. Records' = [Records EXCEPT ![p + 1] = Contents(data', index'[p + 1])]
    BY <2>2, <2>3, RecordReplaced
  <2> QED BY <2>2, <2>4
<1> QED BY <1>3, <1>4

(* It shares no byte with the others if it was looked to. *)
LEMMA ApartPut ==
  ASSUME TypeOK, Apart, NEW p \in Nat, p <= Len(index), NEW r \in Descriptor, PutIndex(p, r),
         \A k \in DOMAIN index \ {p + 1} : Beside(index[k], r.position, r.length)
  PROVE  Apart'
<1>1. Len(index) \in Nat /\ DOMAIN index = 1..Len(index)
  BY FileTypes
<1>2. /\ DOMAIN index' = 1..Len(index') /\ Len(index') \in Nat
      /\ Len(index') <= Len(index) \/ Len(index') = p + 1
      /\ \A k \in 1..Len(index') :
           index'[k] = IF k = p + 1 THEN r ELSE IF k \in 1..Len(index) THEN index[k] ELSE Nowhere
  BY IndexPut
<1>3. ASSUME NEW k \in 1..Len(index'), k # p + 1
      PROVE  k \in DOMAIN index /\ index'[k] = index[k]
  <2>1. k \in 1..Len(index)
    <3>1. /\ Len(index) \in Nat /\ Len(index') \in Nat
          /\ Len(index') <= Len(index) \/ Len(index') = p + 1
      BY <1>1, <1>2
    <3> QED BY <1>3, <3>1
  <2> QED BY <1>1, <1>2, <1>3, <2>1
<1>4. ASSUME NEW i \in 1..Len(index'), NEW j \in 1..Len(index'), i # j
      PROVE  Beside(index'[i], index'[j].position, index'[j].length)
  <2>1. CASE i # p + 1 /\ j # p + 1
    BY <1>3, <1>4, <2>1 DEF Apart
  <2>2. CASE i = p + 1
    <3>1. index'[i] = r /\ j \in DOMAIN index \ {p + 1} /\ index'[j] = index[j]
      BY <1>2, <1>3, <1>4, <2>2
    <3> QED BY <3>1 DEF Beside
  <2>3. CASE j = p + 1
    <3>1. index'[j] = r /\ i \in DOMAIN index \ {p + 1} /\ index'[i] = index[i]
      BY <1>2, <1>3, <1>4, <2>3
    <3> QED BY <3>1
  <2> QED BY <2>1, <2>2, <2>3
<1> QED BY <1>2, <1>4 DEF Apart, Beside

(* The cursors: a step moves that of one handle at most. *)
LEMMA CursorMoved ==
  ASSUME TypeOK, DescriptorsOwned, NEW h \in handles, UNCHANGED handles,
         \/ UNCHANGED fds
         \/ \E d \in Nat, i \in Nat : MoveTo(h, d, i),
         Writing => call.h = h, Writing' => call'.h = h
  PROVE  Cursor' = [Cursor EXCEPT ![h] = Place(h)']
<1>1. ASSUME NEW g \in handles \ {h} PROVE fds'[indexFd(g)] = fds[indexFd(g)]
  <2>1. CASE UNCHANGED fds
    BY <2>1
  <2>2. ASSUME NEW d \in Nat, NEW i \in Nat, MoveTo(h, d, i)
        PROVE  fds'[indexFd(g)] = fds[indexFd(g)]
    <3>1. \A f \in Fd \ {dataFd(h), indexFd(h)} : fds'[f] = fds[f]
      BY <2>2, Moved
    <3>2. indexFd(g) \notin {dataFd(h), indexFd(h)} /\ indexFd(g) \in Fd
      BY HandleParts DEF DescriptorsOwned
    <3> QED BY <3>1, <3>2
  <2> QED BY <2>1, <2>2
<1>2. ASSUME NEW g \in handles \ {h} PROVE Place(g)' = Place(g)
  <2>1. Place(g) = fds[indexFd(g)].pos
    BY DEF Place, ipos
  <2>2. Place(g)' = fds'[indexFd(g)].pos
    BY DEF Place, ipos, indexFd
  <2> QED BY <1>1, <2>1, <2>2
<1>3. Cursor' = [g \in handles |-> Place(g)']
  BY DEF Cursor
<1> QED BY <1>2, <1>3 DEF Cursor

LEMMA CursorKept ==
  ASSUME UNCHANGED <<fds, handles, call>>
  PROVE  Cursor' = Cursor
BY DEF Cursor, Place, Writing, ipos, indexFd

--------------------------------------------------------------------------------
(* The steps of the promise, in terms of the records, the cursors and the write
   under way. *)
Still == UnderWay = NoWrite /\ UnderWay' = NoWrite

LEMMA Reads ==
  ASSUME NEW h \in handles, Still, UNCHANGED Records,
         IF Cursor[h] < Len(Records)
         THEN /\ Cursor' = [Cursor EXCEPT ![h] = Cursor[h] + 1]
              /\ answer' = Result(Len(Records[Cursor[h] + 1]), Chomp(Records[Cursor[h] + 1]))
         ELSE answer' = Result(0, <<>>) /\ UNCHANGED Cursor
  PROVE  RF!Next
<1>1. RF!Read(h)
  BY DEF RF!Read, RF!Move, Cursor, Result, Still
<1>2. h \in DOMAIN Cursor
  BY DEF Cursor
<1> QED BY <1>1, <1>2 DEF RF!Next, Cursor

Buffers == UNION {[1..n -> {w}] : n \in Counts, w \in 1..MAXWRITES}
LEMMA BytesAreBuffer ==
  ASSUME NEW count \in Counts, NEW w \in 1..MAXWRITES
  PROVE  Bytes(w, count) \in Buffers
<1>1. Bytes(w, count) \in [1..count -> {w}]
  BY DEF Bytes
<1> DEFINE All(n, v) == [1..n -> {v}]
<1>2. Bytes(w, count) \in All(count, w)
  BY <1>1
<1>3. Buffers = UNION {All(n, v) : n \in Counts, v \in 1..MAXWRITES}
  BY DEF Buffers
<1> HIDE DEF All
<1> QED BY <1>2, <1>3

LEMMA Begins ==
  ASSUME NEW h \in handles, NEW b \in Buffers, UnderWay = NoWrite,
         Cursor[h] < Len(Records) => Len(b) <= Len(Records[Cursor[h] + 1]),
         UnderWay' = [handle |-> h, buffer |-> b, new |-> Cursor[h] >= Len(Records), put |-> FALSE],
         UNCHANGED <<Records, Cursor, answer>>
  PROVE  RF!Next
<1>1. RF!Begin(h, b)
  BY DEF RF!Begin, Cursor
<1>2. h \in DOMAIN Cursor
  BY DEF Cursor
<1> QED BY <1>1, <1>2 DEF RF!Next, Cursor, Buffers

LEMMA Puts ==
  ASSUME UnderWay # NoWrite, ~UnderWay.put, UnderWay' = [UnderWay EXCEPT !.put = TRUE],
         IF UnderWay.new THEN Records' = Records
         ELSE /\ Cursor[UnderWay.handle] + 1 \in DOMAIN Records
              /\ Len(UnderWay.buffer) <= Len(Records[Cursor[UnderWay.handle] + 1])
              /\ Records' = [Records EXCEPT ![Cursor[UnderWay.handle] + 1] =
                               UnderWay.buffer \o SubSeq(@, Len(UnderWay.buffer) + 1, Len(@))],
         UNCHANGED <<Cursor, answer>>
  PROVE  RF!Next
<1>1. RF!Put
  BY DEF RF!Put, Cursor
<1> QED BY <1>1 DEF RF!Next

LEMMA Finishes ==
  ASSUME NEW h \in handles, NEW b,
         UnderWay # NoWrite, UnderWay.put, UnderWay.handle = h, UnderWay.buffer = b,
         \/ Cursor[h] = Len(Records) /\ Records' = Append(Records, b)
         \/ Cursor[h] < Len(Records) /\ Records' = [Records EXCEPT ![Cursor[h] + 1] = b],
         Cursor' = [Cursor EXCEPT ![h] = Cursor[h] + 1],
         answer' = Result(Len(b), <<>>), UnderWay' = NoWrite
  PROVE  RF!Next
<1>1. RF!Finish
  BY DEF RF!Finish, RF!Move, Cursor, Result
<1> QED BY <1>1 DEF RF!Next

LEMMA Refuses ==
  ASSUME NEW h \in handles, UNCHANGED Records, answer' = Error, UnderWay' = NoWrite,
         \/ UnderWay = NoWrite
         \/ UnderWay.handle = h /\ (UnderWay.put => UnderWay.new),
         \/ Cursor' = [Cursor EXCEPT ![h] = Cursor[h]]
         \/ Cursor[h] < Len(Records) /\ Cursor' = [Cursor EXCEPT ![h] = Cursor[h] + 1]
  PROVE  RF!Next
<1>1. RF!Refuse(h)
  BY DEF RF!Refuse, RF!Move, Cursor
<1>2. h \in DOMAIN Cursor
  BY DEF Cursor
<1> QED BY <1>1, <1>2 DEF RF!Next, Cursor

LEMMA Seeks ==
  ASSUME NEW h \in handles, Still, UNCHANGED Records,
         \/ answer' = Error /\ UNCHANGED Cursor
         \/ \E p \in Nat : answer' = Result(p, <<>>) /\ Cursor' = [Cursor EXCEPT ![h] = p]
  PROVE  RF!Next
<1>1. RF!Seek(h)
  <2>1. CASE answer' = Error /\ UNCHANGED Cursor
    BY <2>1 DEF RF!Seek, Cursor, Still
  <2>2. ASSUME NEW p \in Nat, answer' = Result(p, <<>>), Cursor' = [Cursor EXCEPT ![h] = p]
        PROVE  RF!Seek(h)
    <3>1. answer'.val = p /\ answer'.val >= 0 /\ answer'.text = <<>>
      BY <2>2 DEF Result
    <3> QED BY <2>2, <3>1 DEF RF!Seek, RF!Move, Cursor, Still
  <2> QED BY <2>1, <2>2
<1>2. h \in DOMAIN Cursor
  BY DEF Cursor
<1> QED BY <1>1, <1>2 DEF RF!Next, Cursor

LEMMA Opens ==
  ASSUME Still, UNCHANGED Records,
         \/ answer' = Error /\ UNCHANGED Cursor
         \/ \E h \in Handle \ handles :
              /\ Cursor' = [g \in handles \union {h} |-> IF g = h THEN 0 ELSE Cursor[g]]
              /\ answer' = Result(h, <<>>)
  PROVE  RF!Next
<1>1. DOMAIN Cursor = handles
  BY DEF Cursor
<1>2. RF!Open
  BY <1>1 DEF RF!Open, Cursor, Result, Still
<1> QED BY <1>2 DEF RF!Next

LEMMA Closes ==
  ASSUME NEW h \in handles, Still, UNCHANGED Records,
         Cursor' = [g \in handles \ {h} |-> Cursor[g]], answer' = Result(0, <<>>)
  PROVE  RF!Next
<1>1. DOMAIN Cursor = handles
  BY DEF Cursor
<1>2. RF!Close(h)
  BY <1>1 DEF RF!Close, Cursor, Result, Still
<1> QED BY <1>1, <1>2 DEF RF!Next, Cursor

LEMMA Exits ==
  ASSUME UNCHANGED Records, Cursor' = <<>>, answer' = Error, UnderWay' = NoWrite
  PROVE  RF!Next
<1>1. RF!Exit
  BY DEF RF!Exit, Cursor
<1> QED BY <1>1 DEF RF!Next

LEMMA Finds ==
  ASSUME Records' # <<>>, Front(Records') = Records, UNCHANGED <<Cursor, answer, UnderWay>>
  PROVE  RF!Next
<1>1. RF!Find
  BY DEF RF!Find, RF!Front, Front, Cursor
<1> QED BY <1>1 DEF RF!Next

--------------------------------------------------------------------------------
LEMMA FrontOfAppend ==
  ASSUME NEW S, NEW s \in Seq(S), NEW e \in S
  PROVE  Front(Append(s, e)) = s
<1> DEFINE a == Append(s, e)
           f == SubSeq(a, 0 + 1, 0 + Len(s))
<1>1. /\ a \in Seq(S) /\ Len(a) = Len(s) + 1 /\ Len(s) \in Nat
      /\ \A k \in 1..Len(s) : a[k] = s[k]
  BY AppendProperties, LenProperties
<1> HIDE DEF a
<1>2. PICK n \in Nat : n = Len(s) /\ 0 + n <= Len(a) /\ 0 \in Nat
  BY <1>1
<1>3. f \in Seq(S) /\ Len(f) = n /\ \A k \in 1..n : f[k] = a[0 + k]
  BY <1>1, <1>2, Piece
<1>4. f = SubSeq(a, 1, Len(a) - 1)
  BY <1>1
<1> HIDE DEF f
<1>5. \A k \in 1..Len(f) : f[k] = s[k]
  BY <1>1, <1>2, <1>3
<1>6. f = s
  BY <1>2, <1>3, <1>5, SeqEqual
<1> QED BY <1>4, <1>6 DEF Front, a

(* What a step owes: the records stay apart and their bytes there, and the step
   is one of the promise's or nothing to it. *)
Quiet == UNCHANGED <<Records, Cursor, answer, UnderWay>>
Owed == Sound' /\ (RF!Next \/ Quiet)

LEMMA SoundKept ==
  ASSUME Sound, UNCHANGED <<data, index, cut>>, call'.step # "index" \/ UNCHANGED <<call, writes>>
  PROVE  Sound' /\ Records' = Records
<1>1. Apart' /\ Records' = Records
  BY DEF Sound, Apart, Beside, Records, EndOf
<1>2. BytesThere'
  BY DEF Sound, BytesThere
<1> QED BY <1>1, <1>2 DEF Sound

(* Before and after a step no write is under way. *)
LEMMA StillMoved ==
  ASSUME TypeOK, DescriptorsOwned, NEW h \in handles, UNCHANGED handles,
         NEW d \in Nat, NEW i \in Nat, MoveTo(h, d, i),
         call.step \notin {"data", "index"}, call'.step \notin {"data", "index"}
  PROVE  Still /\ Cursor' = [Cursor EXCEPT ![h] = i] /\ Cursor[h] = ipos(h)
<1>1. ~Writing /\ ~Writing'
  BY DEF Writing
<1>2. Cursor' = [Cursor EXCEPT ![h] = Place(h)']
  BY <1>1, CursorMoved
<1>3. Place(h)' = i
  <2>1. fds'[indexFd(h)] = At("index", i)
    BY Moved
  <2> QED BY <1>1, <2>1 DEF Place, ipos, indexFd, At
<1> QED BY <1>1, <1>2, <1>3 DEF Still, UnderWay, Cursor, Place

LEMMA StillStayed ==
  ASSUME UNCHANGED <<fds, handles>>,
         call.step \notin {"data", "index"}, call'.step \notin {"data", "index"}
  PROVE  Still /\ Cursor' = Cursor
BY DEF Still, UnderWay, Cursor, Place, Writing, ipos, indexFd

LEMMA OpenOwes ==
  ASSUME IInv, Sound, Open
  PROVE  Owed
<1>1. /\ TypeOK /\ DescriptorsOwned
      /\ UNCHANGED <<data, index, cut, call>> /\ call = Idle /\ call' = Idle
  BY DEF IInv, Open
<1>2. PICK create \in BOOLEAN : rio_open(create)
  BY DEF Open
<1> DEFINE d == Min(Free)
           i == Min(Free \ {d})
           new == combineDescriptors(d, i)
<1>3. Sound' /\ Records' = Records /\ ~Writing /\ ~Writing' /\ Still
  <2>1. ~Writing /\ ~Writing' /\ Still
    BY <1>1, IdleForm DEF Still, UnderWay, Writing
  <2> QED BY <1>1, <2>1, IdleForm, SoundKept
<1>4. /\ Free # {} => d \in Free
      /\ Free # {} /\ Free # {d} => i \in Free \ {d}
      /\ \A h \in handles : dataFd(h) \in Fd \ Free /\ indexFd(h) \in Fd \ Free
      /\ Free \subseteq Fd
  BY <1>1, FreeSlots DEF Free
<1>5. fds \in [Fd -> Slots]
  BY <1>1 DEF TypeOK, Slots
<1> HIDE DEF d, i
<1>6. CASE UNCHANGED <<fds, handles>> /\ answer' = Error
  <2>1. Cursor' = Cursor
    BY <1>1, <1>6, CursorKept
  <2>2. RF!Next
    BY <1>3, <1>6, <2>1, Opens
  <2> QED BY <1>3, <2>2 DEF Owed
<1>7. CASE Free # {} /\ fds' = [fds EXCEPT ![d] = At("data", 0)] /\ answer' = Error /\ UNCHANGED handles
  <2>1. \A h \in handles : fds'[indexFd(h)] = fds[indexFd(h)]
    BY <1>4, <1>5, <1>7
  <2>2. Cursor' = Cursor
    BY <1>3, <1>7, <2>1 DEF Cursor, Place, ipos, indexFd
  <2>3. RF!Next
    BY <1>3, <1>7, <2>2, Opens
  <2> QED BY <1>3, <2>3 DEF Owed
<1>8. CASE /\ Free # {} /\ Free # {d}
           /\ fds' = [fds EXCEPT ![d] = At("data", 0), ![i] = At("index", 0)]
           /\ handles' = handles \union {new}
           /\ answer' = Result(new, <<>>)
  <2>1. d \in Free /\ d \in Fd /\ i \in Free /\ i \in Fd
    BY <1>4, <1>8
  <2>2. dataFd(new) = d /\ indexFd(new) = i /\ new \in Handle
    BY <2>1, PackedHandle
  <2> HIDE DEF new
  <2>3. new \in Handle \ handles
    BY <1>4, <2>1, <2>2
  <2>4. ASSUME NEW g \in handles \union {new}
        PROVE  fds'[indexFd(g)].pos = IF g = new THEN 0 ELSE fds[indexFd(g)].pos
    <3>1. CASE g = new
      BY <1>5, <1>8, <2>1, <2>2, <3>1 DEF At
    <3>2. CASE g \in handles /\ g # new
      <4>1. indexFd(g) \notin {d, i} /\ indexFd(g) \in Fd
        BY <1>4, <2>1, <3>2
      <4> QED BY <1>5, <1>8, <3>2, <4>1
    <3> QED BY <3>1, <3>2
  <2>5. Cursor' = [g \in handles \union {new} |-> IF g = new THEN 0 ELSE Cursor[g]]
    <3>1. Cursor' = [g \in handles \union {new} |-> fds'[indexFd(g)].pos]
      BY <1>3, <1>8 DEF Cursor, Place, ipos, indexFd
    <3>2. \A g \in handles : Cursor[g] = fds[indexFd(g)].pos
      BY <1>3 DEF Cursor, Place, ipos
    <3> QED BY <2>4, <3>1, <3>2
  <2>6. RF!Next
    BY <1>3, <1>8, <2>3, <2>5, Opens
  <2> QED BY <1>3, <2>6 DEF Owed
<1> QED BY <1>2, <1>6, <1>7, <1>8 DEF rio_open, d, i

LEMMA CloseOwes ==
  ASSUME IInv, Sound, NEW h \in handles, rio_close(h)
  PROVE  Owed
<1>1. /\ TypeOK /\ DescriptorsOwned /\ call = Idle /\ call' = Idle
      /\ UNCHANGED <<data, index, cut>>
      /\ fds' = [fds EXCEPT ![dataFd(h)] = Closed, ![indexFd(h)] = Closed]
      /\ handles' = handles \ {h} /\ answer' = Result(0, <<>>)
  BY DEF IInv, rio_close, indexerVars
<1>2. Sound' /\ Records' = Records /\ ~Writing /\ ~Writing' /\ Still
  <2>1. ~Writing /\ ~Writing' /\ Still
    BY <1>1, IdleForm DEF Still, UnderWay, Writing
  <2> QED BY <1>1, <2>1, IdleForm, SoundKept
<1>3. ASSUME NEW g \in handles \ {h}
      PROVE  fds'[indexFd(g)] = fds[indexFd(g)]
  <2>1. indexFd(g) \notin {dataFd(h), indexFd(h)}
    BY <1>1 DEF DescriptorsOwned
  <2>2. fds \in [Fd -> Slots] /\ indexFd(g) \in Fd
    BY <1>1, HandleParts DEF TypeOK, Slots
  <2> QED BY <1>1, <2>1, <2>2
<1>4. Cursor' = [g \in handles \ {h} |-> Cursor[g]]
  <2>1. Cursor' = [g \in handles \ {h} |-> fds'[indexFd(g)].pos]
    BY <1>1, <1>2 DEF Cursor, Place, ipos, indexFd
  <2>2. \A g \in handles : Cursor[g] = fds[indexFd(g)].pos
    BY <1>2 DEF Cursor, Place, ipos
  <2> QED BY <1>3, <2>1, <2>2
<1>5. RF!Next
  BY <1>1, <1>2, <1>4, Closes
<1> QED BY <1>2, <1>5 DEF Owed

(* The program's end closes every handle. *)
LEMMA ExitOwes ==
  ASSUME Sound, Exit
  PROVE  Owed
<1>1. handles' = {} /\ answer' = Error /\ call' = Idle /\ UNCHANGED <<data, index, cut>>
  BY DEF Exit, indexerVars
<1>2. Sound' /\ Records' = Records
  BY <1>1, IdleForm, SoundKept
<1>3. UnderWay' = NoWrite
  BY <1>1, IdleForm DEF UnderWay, Writing
<1>4. Cursor' = <<>>
  <2>1. Cursor' = [g \in {} |-> Place(g)']
    BY <1>1 DEF Cursor
  <2> QED BY <2>1
<1>5. RF!Next
  BY <1>1, <1>2, <1>3, <1>4, Exits
<1> QED BY <1>2, <1>5 DEF Owed

LEMMA ReadOwes ==
  ASSUME IInv, Sound, NEW h \in handles, rio_read(h)
  PROVE  Owed
<1>1. /\ TypeOK /\ DescriptorsOwned /\ WithinData /\ cut = {}
      /\ UNCHANGED <<data, index, cut, handles, call>> /\ call = Idle
      /\ call.step \notin {"data", "index"} /\ call'.step \notin {"data", "index"}
  <2>1. call = Idle /\ call' = call
    BY DEF rio_read
  <2> QED BY <2>1, IdleForm DEF IInv, rio_read, indexerVars, Sound
<1>2. Sound' /\ Records' = Records
  BY <1>1, SoundKept
<1>3. /\ Cursor[h] = ipos(h) /\ ipos(h) \in Nat /\ ipos(h) + 1 \in Nat
      /\ Len(Records) = Len(index) /\ Len(index) \in Nat
  BY <1>1, HandleOpen, RecordsAre DEF Cursor, Place, Writing
<1>4. CASE AtEnd(h)
  <2>1. answer' = Result(0, <<>>) /\ fds' = fds
    BY <1>4 DEF rio_read
  <2>2. Still /\ Cursor' = Cursor
    BY <1>1, <2>1, StillStayed
  <2>3. ~(Cursor[h] < Len(Records))
    BY <1>3, <1>4 DEF AtEnd
  <2>4. RF!Next
    BY <1>2, <2>1, <2>2, <2>3, Reads
  <2> QED BY <1>2, <2>4 DEF Owed
<1>5. CASE ~AtEnd(h)
  <2> DEFINE r == Current(h)
             b == GotBytes(r)
  <2>1. /\ MoveTo(h, r.position + Len(b), ipos(h) + 1)
        /\ answer' = Result(Len(b), IF Len(b) = r.length THEN Chomp(b) ELSE b)
    BY <1>5 DEF rio_read, GotBytes
  <2>2. PICK i \in 1..Len(index) : i = ipos(h) + 1 /\ i = Cursor[h] + 1 /\ i \in Nat
    BY <1>3, <1>5 DEF AtEnd
  <2>3. r = index[i] /\ r \in Descriptor /\ r.position \in Nat
    BY <1>1, <2>2, FileTypes DEF Current
  <2>4. EndOf(r) <= Len(data)
    BY <1>1, <2>3, FileTypes DEF WithinData
  <2> HIDE DEF r
  <2>5. b = Contents(data, r) /\ Len(b) = r.length /\ Len(b) \in Nat
    BY <1>1, <2>3, <2>4, BytesRead DEF Contents, EndOf
  <2> HIDE DEF b
  <2>6. b = Records[i]
    BY <1>1, <2>3, <2>5, RecordsAre
  <2>7. Still /\ Cursor' = [Cursor EXCEPT ![h] = i]
    <3>1. r.position + Len(b) \in Nat /\ MoveTo(h, r.position + Len(b), i)
      BY <2>1, <2>2, <2>3, <2>5
    <3> QED BY <1>1, <2>2, <3>1, StillMoved
  <2>8. Cursor[h] < Len(Records)
    BY <1>3, <2>2
  <2>9. RF!Next
    <3>1. /\ Cursor' = [Cursor EXCEPT ![h] = Cursor[h] + 1]
          /\ answer' = Result(Len(Records[Cursor[h] + 1]), Chomp(Records[Cursor[h] + 1]))
      BY <2>1, <2>2, <2>5, <2>6, <2>7
    <3> QED BY <1>2, <2>7, <2>8, <3>1, Reads
  <2> QED BY <1>2, <2>9 DEF Owed
<1> QED BY <1>4, <1>5

LEMMA SeekOwes ==
  ASSUME IInv, Sound, NEW h \in handles, NEW offset \in Offsets,
         NEW whence \in {"SET", "CUR", "END"}, rio_lseek(h, offset, whence)
  PROVE  Owed
<1>1. call = Idle /\ UNCHANGED <<data, index, cut, fds, handles>>
  BY DEF rio_lseek, indexerVars
<1>2. PICK p : IF p < 0 \/ p > Len(data) \div DESC
               THEN answer' = Error /\ UNCHANGED call
               ELSE call' = Call("seek", h, p, FALSE, 0, 0) /\ UNCHANGED answer
  BY DEF rio_lseek
<1>3. call.step = "none" /\ call'.step \in {"none", "seek"}
  BY <1>1, <1>2, IdleForm DEF Call
<1>4. Sound' /\ Records' = Records
  BY <1>1, <1>3, SoundKept
<1>5. Still /\ Cursor' = Cursor
  BY <1>1, <1>3, StillStayed
<1>6. answer' = Error \/ answer' = answer
  BY <1>2
<1>7. answer' = Error => RF!Next
  BY <1>4, <1>5, Seeks
<1>8. answer' = answer => Quiet
  BY <1>4, <1>5 DEF Quiet, Still
<1> QED BY <1>4, <1>6, <1>7, <1>8 DEF Owed

LEMMA SoughtOwes ==
  ASSUME IInv, Sound, call.step \in {"seek", "past"}, NEW d \in Nat, Sought(d),
         UNCHANGED <<data, index, cut, handles>>
  PROVE  Owed
<1>1. TypeOK /\ DescriptorsOwned /\ call.h \in handles /\ call.at \in Nat
  BY CallTypes DEF IInv, CallInv
<1>2. MoveTo(call.h, d, call.at) /\ answer' = Result(call.at, <<>>) /\ call'.step = "none"
  BY IdleForm DEF Sought
<1>3. Sound' /\ Records' = Records
  BY <1>2, SoundKept
<1>4. Still /\ Cursor' = [Cursor EXCEPT ![call.h] = call.at]
  <2>1. PICK h \in handles, i \in Nat : h = call.h /\ i = call.at
    BY <1>1
  <2>2. MoveTo(h, d, i) /\ call.step \notin {"data", "index"} /\ call'.step \notin {"data", "index"}
    BY <1>2, <2>1
  <2> QED BY <1>1, <2>1, <2>2, StillMoved
<1>5. RF!Next
  BY <1>1, <1>2, <1>3, <1>4, Seeks
<1> QED BY <1>3, <1>5 DEF Owed

LEMMA PlacesOwe ==
  ASSUME IInv, Sound, FindPlace \/ SeekPast
  PROVE  Owed
<1>1. /\ TypeOK /\ call.step \in {"seek", "past"} /\ UNCHANGED <<data, index, cut, handles>>
  BY DEF IInv, FindPlace, SeekPast, indexerVars
<1>2. CASE call.at < Len(index) /\ Sought(index[call.at + 1].position)
  <2>1. index[call.at + 1].position \in Nat
    <3>1. call.at + 1 \in 1..Len(index)
      BY <1>1, <1>2, CallTypes, FileTypes
    <3> QED BY <1>1, <3>1, FileTypes
  <2> QED BY <1>1, <1>2, <2>1, SoughtOwes
<1>3. CASE call' = [call EXCEPT !.step = "past"] /\ UNCHANGED <<fds, answer>>
  <2>1. call'.step = "past"
    <3>1. call \in CallSet
      BY <1>1, CallTypes
    <3> QED BY <1>3, <3>1 DEF CallSet
  <2>2. Sound' /\ Records' = Records
    BY <1>1, <2>1, SoundKept
  <2>3. Still /\ Cursor' = Cursor
    BY <1>1, <1>3, <2>1, StillStayed
  <2> QED BY <1>3, <2>2, <2>3 DEF Owed, Quiet, Still
<1>4. CASE Sought(Len(index) * DESC)
  <2>1. Len(index) * DESC \in Nat
    BY <1>1, FileTypes, SizesPositive
  <2> QED BY <1>1, <1>4, <2>1, SoughtOwes
<1> QED BY <1>2, <1>3, <1>4 DEF FindPlace, SeekPast

--------------------------------------------------------------------------------
(* The indexer finds one more record, or nothing happens. *)
LEMMA IndexOwes ==
  ASSUME IInv, Sound, Index, careful'
  PROVE  Owed
<1>1. /\ TypeOK /\ FoundLine /\ Len(data) \in Nat /\ Len(index) \in Nat
      /\ UNCHANGED <<data, fds, handles, answer, writes, call, cut>>
  BY FileTypes DEF IInv, Index, ioVars, StartIndexer, FindLine, WriteLine, EndIndexer, KillIndexer
<1>2. Cursor' = Cursor /\ UnderWay' = UnderWay
  BY <1>1, CursorKept DEF UnderWay, Writing
<1>3. CASE UNCHANGED index
  <2>1. Sound' /\ Records' = Records
    BY <1>1, <1>3, SoundKept
  <2> QED BY <1>1, <1>2, <2>1 DEF Owed, Quiet
<1>4. CASE /\ indexer.pc = "found"
           /\ index' = Append(index, [position |-> indexer.at, length |-> indexer.size])
           /\ careful' = (careful /\ Untaken(DOMAIN index, indexer.at, indexer.size))
  <2>0. PICK a \in Nat, n \in Nat : a = indexer.at /\ n = indexer.size /\ a + n <= Len(data)
    BY <1>1, <1>4, IndexerTypes DEF FoundLine
  <2>1. PICK r \in Descriptor :
          r = [position |-> a, length |-> n] /\ r.position = a /\ r.length = n
    <3>1. [position |-> a, length |-> n] \in Descriptor
      BY DEF Descriptor
    <3> QED BY <3>1
  <2>2. index' = Append(index, r) /\ Untaken(DOMAIN index, a, n)
    BY <1>4, <2>0, <2>1
  <2>3. PICK p \in Nat : p = Len(index) /\ p <= Len(index) /\ PutIndex(p, r)
    <3>1. index \in Seq(Descriptor) /\ Nowhere \in Descriptor
      BY <1>1, FileTypes DEF Descriptor, Nowhere
    <3>2. Put(index, Len(index), <<r>>, Nowhere) = Append(index, r)
      BY <3>1, PutAtEnd
    <3> QED BY <1>1, <2>2, <3>2 DEF PutIndex, Nowhere
  <2>4. Apart'
    <3>1. \A k \in DOMAIN index \ {p + 1} : Beside(index[k], r.position, r.length)
      BY <2>1, <2>2 DEF Untaken, Beside
    <3> QED BY <1>1, <2>3, <3>1, ApartPut DEF Sound
  <2>5. Records' = Append(Records, Contents(data, r))
    BY <1>1, <2>3, RecordPut
  <2>6. Records' # <<>> /\ Front(Records') = Records
    <3> DEFINE e == Contents(data, r)
               T == Seq(Nat)
    <3>1. e \in Seq(Nat)
      <4>1. data \in Seq(Nat)
        BY <1>1, FileTypes
      <4>2. SubSeq(data, a + 1, a + n) \in Seq(Nat)
        BY <2>0, <4>1, Piece
      <4> QED BY <2>1, <4>2 DEF Contents
    <3>2. Records \in Seq(T)
      BY RecordsAre DEF Sound
    <3> HIDE DEF e
    <3>3. e \in T
      BY <3>1
    <3> HIDE DEF T
    <3>4. Append(Records, e) # <<>> /\ Front(Append(Records, e)) = Records
      BY <3>2, <3>3, AppendProperties, FrontOfAppend
    <3> QED BY <2>5, <3>4 DEF e
  <2>7. BytesThere'
    <3>1. Len(index) <= Len(index') /\ Len(index') \in Nat
      <4>1. index \in Seq(Descriptor)
        BY <1>1, FileTypes
      <4>2. Len(index') = Len(index) + 1
        BY <2>2, <4>1, AppendProperties
      <4> QED BY <1>1, <4>2
    <3>2. call.at \in Nat
      BY <1>1, CallTypes
    <3>3. call.at <= Len(index) => call.at <= Len(index')
      BY <1>1, <3>1, <3>2
    <3> QED BY <1>1, <3>3 DEF BytesThere, Sound
  <2>8. RF!Next
    BY <1>1, <1>2, <2>6, Finds
  <2> QED BY <1>1, <2>4, <2>7, <2>8 DEF Owed, Sound
<1> QED BY <1>3, <1>4 DEF Index, StartIndexer, FindLine, WriteLine, EndIndexer, KillIndexer

--------------------------------------------------------------------------------
(* What a write looks like while it is under way. *)
LEMMA WriteForm ==
  ASSUME TypeOK, call.step \in {"data", "index"}
  PROVE  /\ Writing /\ UnderWay # NoWrite /\ UnderWay.handle = call.h /\ UnderWay.new = call.new
         /\ UnderWay.put = (call.step = "index")
         /\ UnderWay.buffer = Bytes(IF call.step = "index" THEN writes ELSE writes + 1, call.count)
         /\ Place(call.h) = call.at
         /\ UnderWay = [handle |-> call.h, new |-> call.new, put |-> call.step = "index",
                        buffer |-> Bytes(IF call.step = "index" THEN writes ELSE writes + 1,
                                         call.count)]
<1>1. Writing
  BY DEF Writing
<1>2. UnderWay = [handle |-> call.h, new |-> call.new, put |-> call.step = "index",
                  buffer |-> Bytes(IF call.step = "index" THEN writes ELSE writes + 1, call.count)]
  BY <1>1 DEF UnderWay
<1>3. UnderWay # NoWrite
  <2>1. call.h # -1
    BY CallTypes
  <2> QED BY <1>2, <2>1 DEF NoWrite
<1> QED BY <1>1, <1>2, <1>3 DEF Place

LEMMA BeginOwes ==
  ASSUME IInv, Sound, NEW h \in handles, NEW count \in Counts, rio_write(h, count)
  PROVE  Owed
<1>1. /\ TypeOK /\ DescriptorsOwned /\ call.step = "none" /\ writes < MAXWRITES
      /\ UNCHANGED <<data, index, cut, handles, writes>> /\ call = Idle
  BY IdleForm DEF IInv, rio_write, indexerVars
<1>2. /\ count \in Nat /\ h \in Nat /\ dpos(h) \in Nat /\ ipos(h) \in Nat
      /\ ipos(h) + 1 \in Nat /\ Len(index) \in Nat /\ writes + 1 \in 1..MAXWRITES /\ writes \in Nat
  <2>1. writes \in Nat /\ MAXWRITES \in Nat /\ Len(index) \in Nat
    BY <1>1, FileTypes
  <2> QED BY <1>1, <2>1, ProgramAsks, HandleIsNumber, HandleOpen
<1>3. /\ Cursor[h] = ipos(h) /\ Len(Records) = Len(index) /\ ~Writing /\ UnderWay = NoWrite
      /\ \A i \in 1..Len(index) : Len(Records[i]) = index[i].length
  BY <1>1, RecordsAre DEF Cursor, Place, Writing, UnderWay, Sound
<1>4. PICK b \in Buffers : b = Bytes(writes + 1, count) /\ Len(b) = count
  BY <1>2, BytesAreBuffer, BytesProperties
<1>5. ASSUME NEW new \in BOOLEAN, NEW position,
             call' = Call("data", h, ipos(h), new, position, count), UNCHANGED answer,
             new = (Cursor[h] >= Len(Records)), ~new => count <= Len(Records[Cursor[h] + 1]),
             UNCHANGED fds \/ \E d \in Nat, i \in Nat : MoveTo(h, d, i)
      PROVE  Owed
  <2>1. /\ call'.step = "data" /\ call'.h = h /\ call'.at = ipos(h) /\ call'.new = new
        /\ call'.count = count
    BY <1>5 DEF Call
  <2>2. Sound' /\ Records' = Records
    BY <1>1, <2>1, SoundKept
  <2>3. Writing' /\ Place(h)' = Cursor[h]
    BY <1>3, <2>1 DEF Writing, Place
  <2>4. Cursor' = Cursor
    <3>1. Cursor' = [Cursor EXCEPT ![h] = Place(h)']
      BY <1>1, <1>3, <1>5, <2>1, CursorMoved
    <3> QED BY <2>3, <3>1 DEF Cursor
  <2>5. UnderWay' = [handle |-> h, buffer |-> b, new |-> Cursor[h] >= Len(Records), put |-> FALSE]
    BY <1>1, <1>4, <1>5, <2>1, <2>3 DEF UnderWay
  <2>6. Cursor[h] < Len(Records) => Len(b) <= Len(Records[Cursor[h] + 1])
    <3> SUFFICES ASSUME Cursor[h] < Len(Records) PROVE Len(b) <= Len(Records[Cursor[h] + 1])
      OBVIOUS
    <3>1. ~(Cursor[h] >= Len(Records))
      BY <1>2, <1>3
    <3>2. ~new
      BY <1>5, <3>1
    <3> QED BY <1>4, <1>5, <3>2
  <2>7. RF!Next
    BY <1>3, <1>5, <2>2, <2>4, <2>5, <2>6, Begins
  <2> QED BY <2>2, <2>7 DEF Owed
<1>6. CASE AppendRecord(h, count)
  <2>1. Cursor[h] >= Len(Records)
    BY <1>2, <1>3, <1>6 DEF AppendRecord, AtEnd
  <2> QED BY <1>5, <1>6, <2>1 DEF AppendRecord
<1>7. CASE UpdateRecord(h, count)
  <2>1. MoveTo(h, dpos(h), ipos(h) + 1) /\ ~AtEnd(h)
    BY <1>7 DEF UpdateRecord
  <2>2. PICK i \in 1..Len(index) : i = ipos(h) + 1 /\ Cursor[h] + 1 = i
    BY <1>2, <1>3, <2>1 DEF AtEnd
  <2>3. ~(Cursor[h] >= Len(Records)) /\ Cursor[h] < Len(Records)
    BY <1>2, <1>3, <2>2
  <2>4. CASE /\ count <= Current(h).length /\ answer' = answer
             /\ call' = Call("data", h, ipos(h), FALSE, Current(h).position, count)
    <3>1. count <= Len(Records[Cursor[h] + 1])
      BY <1>3, <2>2, <2>4 DEF Current
    <3>2. FALSE \in BOOLEAN /\ FALSE = (Cursor[h] >= Len(Records))
      BY <2>3
    <3>3. \E d \in Nat, j \in Nat : MoveTo(h, d, j)
      BY <1>2, <2>1
    <3> QED BY <1>5, <2>4, <3>1, <3>2, <3>3
  <2>5. CASE answer' = Error /\ call' = call
    <3>1. call'.step = "none"
      BY <1>1, <2>5
    <3>2. Sound' /\ Records' = Records
      BY <1>1, <3>1, SoundKept
    <3>3. Still /\ Cursor' = [Cursor EXCEPT ![h] = ipos(h) + 1]
      BY <1>1, <1>2, <2>1, <3>1, StillMoved
    <3>4. RF!Next
      BY <1>3, <2>3, <2>5, <3>2, <3>3, Refuses DEF Still
    <3> QED BY <3>2, <3>4 DEF Owed
  <2> QED BY <1>7, <2>4, <2>5 DEF UpdateRecord
<1> QED BY <1>6, <1>7 DEF rio_write

(* The bytes are written, or refused. *)
LEMMA DataOwes ==
  ASSUME IInv, Sound, WriteData, careful'
  PROVE  Owed
<1>1. /\ TypeOK /\ DescriptorsOwned /\ WithinData /\ CallInv /\ call.step = "data"
      /\ UNCHANGED <<index, handles, cut>> /\ cut = {} /\ Apart
  BY DEF IInv, WriteData, Sound
<1>2. PICK h \in handles, count \in Nat, p \in Nat, at \in Nat :
        h = call.h /\ count = call.count /\ p = dpos(h) /\ at = call.at
  BY <1>1, CallTypes, HandleOpen DEF CallInv
<1>3. /\ count \in Counts /\ count \in Nat \ {0} /\ ipos(h) \in Nat /\ at + 1 \in Nat
      /\ Len(data) \in Nat /\ Len(index) \in Nat /\ DOMAIN index = 1..Len(index)
      /\ call \in CallSet /\ call.new \in BOOLEAN /\ call.position \in Nat
      /\ writes \in Nat /\ writes < MAXWRITES /\ MAXWRITES \in Nat /\ writes + 1 \in Nat
  BY <1>1, <1>2, CallTypes, FileTypes, HandleOpen, ProgramAsks DEF CallInv, Writing
<1>4. /\ UnderWay # NoWrite /\ UnderWay.handle = h /\ UnderWay.new = call.new /\ ~UnderWay.put
      /\ UnderWay.buffer = Bytes(writes + 1, count) /\ Cursor[h] = at
      /\ UnderWay = [handle |-> h, new |-> call.new, put |-> FALSE,
                     buffer |-> Bytes(writes + 1, count)]
  BY <1>1, <1>2, WriteForm DEF Cursor
<1>5. Writing => call.h = h
  BY <1>2
<1>6. CASE answer' = Error /\ call' = Idle /\ UNCHANGED <<data, writes, fds, careful>>
  <2>1. Sound' /\ Records' = Records /\ UnderWay' = NoWrite /\ ~Writing'
    BY <1>1, <1>6, IdleForm, SoundKept DEF UnderWay, Writing
  <2>2. Place(h)' = ipos(h)
    BY <1>6, <2>1 DEF Place, ipos, indexFd
  <2>3. Cursor' = [Cursor EXCEPT ![h] = ipos(h)]
    <3>1. Cursor' = [Cursor EXCEPT ![h] = Place(h)']
      BY <1>1, <1>5, <1>6, <2>1, CursorMoved
    <3> QED BY <2>2, <3>1
  <2>4. CASE call.new
    <3>1. ipos(h) = Cursor[h]
      BY <1>1, <1>2, <1>4, <2>4 DEF CallInv
    <3>2. RF!Next
      BY <1>4, <1>6, <2>1, <2>3, <3>1, Refuses
    <3> QED BY <2>1, <3>2 DEF Owed
  <2>5. CASE ~call.new
    <3>1. ipos(h) = Cursor[h] + 1 /\ Cursor[h] < Len(Records)
      <4>1. at + 1 = ipos(h) /\ at + 1 \in 1..Len(index)
        BY <1>1, <1>2, <1>3, <2>5 DEF CallInv, Writing, OverRecord
      <4>2. Len(Records) = Len(index)
        BY <1>1, RecordsAre
      <4> QED BY <1>2, <1>3, <1>4, <4>1, <4>2
    <3>2. RF!Next
      BY <1>4, <1>6, <2>1, <2>3, <3>1, Refuses
    <3> QED BY <2>1, <3>2 DEF Owed
  <2> QED BY <1>3, <2>4, <2>5
<1>7. ASSUME data' = Put(data, p, Bytes(writes + 1, count), HOLE), writes' = writes + 1,
             MoveTo(h, p + count, ipos(h)),
             call' = [call EXCEPT !.step = "index", !.put = count], answer' = answer,
             p = call.position,
             call.new => at <= Len(index) /\ Untaken(DOMAIN index, p, count)
      PROVE  Owed
  <2>1. /\ call'.step = "index" /\ call'.put = count /\ call'.h = h /\ call'.at = at
        /\ call'.new = call.new /\ call'.position = p /\ call'.count = count
    BY <1>2, <1>3, <1>7 DEF CallSet
  <2>2. PICK b \in Seq(Nat) : b = Bytes(writes + 1, count) /\ Len(b) = count /\ b # <<>>
    <3>1. Bytes(writes + 1, count) \in Seq(Nat) /\ Len(Bytes(writes + 1, count)) = count
      BY <1>2, <1>3, BytesProperties
    <3>2. Bytes(writes + 1, count) # <<>>
      BY <1>3, <3>1, EmptySeq
    <3> QED BY <3>1, <3>2
  <2>3. data \in Seq(Nat) /\ HOLE \in Nat /\ data' = Put(data, p, b, HOLE)
    BY <1>1, <1>7, <2>2, FileTypes, BytesAreNumbers
  <2>4. SubSeq(data', p + 1, p + count) = b
    <3>1. SubSeq(Put(data, p, b, HOLE), p + 1, p + Len(b)) = b
      <4>1. data \in Seq(Nat) /\ HOLE \in Nat
        BY <2>3
      <4> QED BY <2>2, <4>1, PutThere
    <3> QED BY <2>2, <2>3, <3>1
  <2>5. p + count <= Len(data')
    <3>1. data' = Put(data, p, Bytes(writes + 1, count), HOLE) /\ count \in Nat \ {0}
      BY <1>3, <1>7
    <3> QED BY <1>1, <3>1, DataPut
  <2>6. Sound'
    <3>1. Apart'
      BY <1>1 DEF Apart, Beside
    <3>2. BytesThere'
      BY <1>1, <1>7, <2>1, <2>2, <2>4, <2>5 DEF BytesThere
    <3> QED BY <1>1, <3>1, <3>2 DEF Sound
  <2>7. Writing' /\ Place(h)' = at
    BY <2>1 DEF Writing, Place
  <2>8. Cursor' = Cursor
    <3>1. \E d \in Nat, i \in Nat : MoveTo(h, d, i)
      <4>1. p + count \in Nat
        BY <1>2
      <4> QED BY <1>3, <1>7, <4>1
    <3>2. Cursor' = [Cursor EXCEPT ![h] = Place(h)']
      BY <1>1, <1>5, <2>1, <3>1, CursorMoved
    <3> QED BY <1>4, <2>7, <3>2 DEF Cursor
  <2>9. UnderWay' = [UnderWay EXCEPT !.put = TRUE]
    <3>1. UnderWay' = [handle |-> h, new |-> call.new, put |-> TRUE, buffer |-> Bytes(writes', count)]
      BY <2>1, <2>7 DEF UnderWay
    <3>2. PICK q, o, no, yes :
            q = Bytes(writes + 1, count) /\ o = call.new /\ no = FALSE /\ yes = TRUE
      OBVIOUS
    <3>3. UnderWay' = [handle |-> h, new |-> o, put |-> yes, buffer |-> q]
      BY <1>7, <3>1, <3>2, Zenon
    <3>4. UnderWay = [handle |-> h, new |-> o, put |-> no, buffer |-> q]
      BY <1>4, <3>2, Zenon
    <3>5. [handle |-> h, new |-> o, put |-> yes, buffer |-> q]
            = [[handle |-> h, new |-> o, put |-> no, buffer |-> q] EXCEPT !.put = yes]
      OBVIOUS
    <3>6. UnderWay' = [UnderWay EXCEPT !.put = yes]
      BY <3>3, <3>4, <3>5, Zenon
    <3> QED BY <3>2, <3>6, Zenon
  <2>10. ASSUME NEW i \in 1..Len(index), Beside(index[i], p, count)
         PROVE  Contents(data', index[i]) = Contents(data, index[i])
    <3>1. EndOf(index[i]) <= Len(data) /\ index[i] \in Descriptor
      BY <1>1, <1>3, FileTypes DEF WithinData
    <3>2. PICK r \in Descriptor : r = index[i] /\ EndOf(r) <= Len(data) /\ Beside(r, p, Len(b))
      BY <2>2, <2>10, <3>1
    <3>3. Contents(Put(data, p, b, HOLE), r) = Contents(data, r)
      BY <2>3, <3>2, PutBeside
    <3> QED BY <2>3, <3>2, <3>3
  <2>11. CASE call.new
    <3>1. \A i \in DOMAIN index : Contents(data', index[i]) = Contents(data, index[i])
      BY <1>3, <1>7, <2>10, <2>11 DEF Untaken, Beside
    <3>2. Records' = Records
      BY <1>1, <3>1, RecordsKept
    <3>3. RF!Next
      BY <1>4, <1>7, <2>8, <2>9, <2>11, <3>2, Puts
    <3> QED BY <2>6, <3>3 DEF Owed
  <2>12. CASE ~call.new
    <3>1. PICK i \in 1..Len(index), r \in Descriptor, m \in Nat :
            i = at + 1 /\ r = index[i] /\ r.position = p /\ r.length = m /\ count <= m
      <4>1. at + 1 \in 1..Len(index) /\ index[at + 1].position = p /\ count <= index[at + 1].length
        BY <1>1, <1>2, <1>3, <1>7, <2>12 DEF CallInv, Writing, OverRecord
      <4>2. index[at + 1] \in Descriptor /\ index[at + 1].length \in Nat
        BY <1>1, <4>1, FileTypes
      <4> QED BY <4>1, <4>2
    <3>2. Contents(data', index[i]) = Torn(Contents(data, index[i]), b)
      <4>1. EndOf(r) <= Len(data) /\ Fits(b, r)
        BY <1>1, <1>3, <2>2, <3>1 DEF WithinData, Fits
      <4>2. Contents(Put(data, r.position, b, HOLE), r) = Torn(Contents(data, r), b)
        BY <2>3, <4>1, PutOver
      <4> QED BY <2>3, <3>1, <4>2
    <3>3. ASSUME NEW j \in DOMAIN index \ {i}
          PROVE  Contents(data', index'[j]) = Contents(data, index[j])
      <4>1. j \in 1..Len(index) /\ Beside(index[j], p, m)
        BY <1>1, <1>3, <3>1, <3>3 DEF Apart
      <4>2. index[j].position \in Nat /\ index[j].length \in Nat
        BY <1>1, <4>1, FileTypes
      <4>3. Beside(index[j], p, count)
        BY <1>2, <3>1, <4>1, <4>2 DEF Beside
      <4> QED BY <1>1, <2>10, <4>1, <4>3
    <3>4. Records' = [Records EXCEPT ![i] = Contents(data', index[i])]
      <4>1. DOMAIN index' = DOMAIN index /\ i \in DOMAIN index
        BY <1>1, <1>3
      <4>2. Records' = [Records EXCEPT ![i] = Contents(data', index'[i])]
        BY <1>1, <3>3, <4>1, RecordReplaced
      <4> QED BY <1>1, <4>2
    <3>5. /\ Records[i] = Contents(data, index[i]) /\ Len(Records[i]) = m /\ i \in DOMAIN Records
      BY <1>1, <3>1, RecordsAre
    <3>6. Records' = [Records EXCEPT ![i] = b \o SubSeq(@, Len(b) + 1, Len(@))]
      BY <3>2, <3>4, <3>5 DEF Torn
    <3>7. Len(UnderWay.buffer) <= Len(Records[i]) /\ i = Cursor[UnderWay.handle] + 1
          /\ UnderWay.buffer = b
      BY <1>4, <2>2, <3>1, <3>5
    <3>8. RF!Next
      BY <1>4, <1>7, <2>8, <2>9, <2>12, <3>5, <3>6, <3>7, Puts
    <3> QED BY <2>6, <3>8 DEF Owed
  <2> QED BY <1>3, <2>11, <2>12
<1>8. ASSUME NEW n \in 1..count,
             data' = Put(data, dpos(h), Bytes(writes + 1, n), HOLE), writes' = writes + 1,
             MoveTo(h, dpos(h) + n, ipos(h)),
             careful' = (/\ careful /\ n = count
                         /\ call.new => /\ call.at <= Len(index)
                                        /\ Untaken(DOMAIN index, dpos(h), count)
                         /\ ~call.new => dpos(h) = call.position),
             call' = [call EXCEPT !.step = "index", !.put = n], answer' = answer
      PROVE  Owed
  <2>1. /\ n = count
        /\ call.new => at <= Len(index) /\ Untaken(DOMAIN index, p, count)
        /\ ~call.new => p = call.position
    BY <1>2, <1>8
  <2>2. call.new => p = call.position
    BY <1>1, <1>2 DEF CallInv
  <2> QED BY <1>2, <1>3, <1>7, <1>8, <2>1, <2>2
<1> QED BY <1>2, <1>6, <1>8 DEF WriteData

(* The descriptor is written, or not. *)
LEMMA DescriptorOwes ==
  ASSUME IInv, Sound, WriteIndex, careful'
  PROVE  Owed
<1>1. /\ TypeOK /\ DescriptorsOwned /\ CallInv /\ call.step = "index" /\ call' = Idle
      /\ UNCHANGED <<data, handles, writes>> /\ cut = {} /\ Apart /\ BytesThere
  BY DEF IInv, WriteIndex, Sound
<1>2. PICK h \in handles, count \in Nat, p \in Nat, at \in Nat :
        h = call.h /\ count = call.count /\ p = call.position /\ at = call.at
  BY <1>1, CallTypes DEF CallInv
<1>3. /\ dpos(h) \in Nat /\ at + 1 \in Nat /\ call.new \in BOOLEAN /\ writes \in Nat
      /\ Len(index) \in Nat /\ DOMAIN index = 1..Len(index)
      /\ Len(Records) = Len(index) /\ Len(data) \in Nat
  BY <1>1, <1>2, CallTypes, FileTypes, HandleOpen, RecordsAre
<1>4. /\ UnderWay # NoWrite /\ UnderWay.handle = h /\ UnderWay.new = call.new /\ UnderWay.put
      /\ UnderWay.buffer = Bytes(writes, count) /\ Cursor[h] = at
  BY <1>1, <1>2, WriteForm DEF Cursor
<1>5. /\ UnderWay' = NoWrite /\ ~Writing' /\ BytesThere' /\ (Writing => call.h = h)
      /\ \A i \in Nat : MoveTo(h, dpos(h), i) => Cursor' = [Cursor EXCEPT ![h] = i]
  <2>1. ~Writing' /\ UnderWay' = NoWrite /\ BytesThere'
    BY <1>1, IdleForm DEF Writing, UnderWay, BytesThere
  <2>2. Writing => call.h = h
    BY <1>2
  <2>3. ASSUME NEW i \in Nat, MoveTo(h, dpos(h), i)
        PROVE  Cursor' = [Cursor EXCEPT ![h] = i]
    <3>1. Cursor' = [Cursor EXCEPT ![h] = Place(h)']
      BY <1>1, <1>3, <2>1, <2>2, <2>3, CursorMoved
    <3>2. fds'[indexFd(h)] = At("index", i)
      BY <1>1, <1>3, <2>3, Moved
    <3>3. Place(h)' = i
      BY <2>1, <3>2 DEF Place, ipos, indexFd, At
    <3> QED BY <3>1, <3>3
  <2> QED BY <2>1, <2>2, <2>3
<1>6. CASE /\ MoveTo(h, dpos(h), at)
           /\ answer' = IF call.new THEN Error ELSE Result(call.count, <<>>)
           /\ careful' = (careful /\ call.new)
           /\ UNCHANGED <<index, cut>>
  <2>1. call.new /\ answer' = Error
    BY <1>6
  <2>2. Sound' /\ Records' = Records
    BY <1>1, <1>6, IdleForm, SoundKept DEF Sound
  <2>3. Cursor' = [Cursor EXCEPT ![h] = Cursor[h]]
    BY <1>4, <1>5, <1>6
  <2>4. RF!Next
    BY <1>4, <1>5, <2>1, <2>2, <2>3, Refuses
  <2> QED BY <2>2, <2>4 DEF Owed
<1>7. CASE /\ PutIndex(at, [position |-> p, length |-> count]) /\ MoveTo(h, dpos(h), at + 1)
           /\ answer' = Result(count, <<>>)
           /\ careful' = (/\ careful
                          /\ call.new => Untaken(DOMAIN index \ {at + 1}, p, count))
           /\ cut' = IF call.new /\ call.put < call.count THEN cut \union {at + 1} ELSE cut
  <2>1. PICK r \in Descriptor : r = [position |-> p, length |-> count]
                                /\ r.position = p /\ r.length = count
    <3>1. [position |-> p, length |-> count] \in Descriptor
      BY DEF Descriptor
    <3> QED BY <3>1
  <2>2. PutIndex(at, r) /\ Contents(data, r) = Bytes(writes, count) /\ cut' = {}
    <3>1. Contents(data, r) = Bytes(writes, count) /\ call.put = call.count
      BY <1>1, <1>2, <2>1 DEF Contents, BytesThere
    <3>2. ~(call.put < call.count)
      BY <1>2, <3>1
    <3> QED BY <1>1, <1>7, <2>1, <3>1, <3>2
  <2>3. at <= Len(index)
    <3>1. CASE call.new
      BY <1>1, <1>2, <3>1 DEF BytesThere
    <3>2. CASE ~call.new
      BY <1>1, <1>2, <1>3, <3>2 DEF CallInv, Writing, OverRecord
    <3> QED BY <1>3, <3>1, <3>2
  <2>4. \A k \in DOMAIN index \ {at + 1} : Beside(index[k], r.position, r.length)
    <3>1. CASE call.new
      BY <1>7, <2>1, <3>1 DEF Untaken, Beside
    <3>2. CASE ~call.new
      <4>1. /\ at + 1 \in DOMAIN index /\ index[at + 1].position = p
            /\ count <= index[at + 1].length
        BY <1>1, <1>2, <3>2 DEF CallInv, Writing, OverRecord
      <4>2. ASSUME NEW k \in DOMAIN index \ {at + 1} PROVE Beside(index[k], p, count)
        <5>1. Beside(index[k], p, index[at + 1].length)
          BY <1>1, <4>1, <4>2 DEF Apart
        <5>2. /\ index[k].position \in Nat /\ index[k].length \in Nat
              /\ index[at + 1].length \in Nat
          BY <1>1, <4>1, <4>2, FileTypes
        <5> QED BY <1>2, <4>1, <5>1, <5>2 DEF Beside
      <4> QED BY <2>1, <4>2
    <3> QED BY <1>3, <3>1, <3>2
  <2>5. Apart'
    BY <1>1, <2>2, <2>3, <2>4, ApartPut
  <2>6. /\ at = Len(index) => Records' = Append(Records, Bytes(writes, count))
        /\ at < Len(index) => Records' = [Records EXCEPT ![at + 1] = Bytes(writes, count)]
    BY <1>1, <2>2, <2>3, RecordPut
  <2>7. Cursor' = [Cursor EXCEPT ![h] = Cursor[h] + 1]
    BY <1>3, <1>4, <1>5, <1>7
  <2>8. answer' = Result(Len(Bytes(writes, count)), <<>>)
    BY <1>3, <1>7, BytesProperties
  <2>9. \/ Cursor[h] = Len(Records) /\ Records' = Append(Records, Bytes(writes, count))
        \/ Cursor[h] < Len(Records) /\ Records' = [Records EXCEPT ![Cursor[h] + 1] = Bytes(writes, count)]
    <3>1. at = Len(index) \/ at < Len(index)
      BY <1>2, <1>3, <2>3
    <3> QED BY <1>3, <1>4, <2>6, <3>1
  <2>10. RF!Next
    BY <1>4, <1>5, <2>7, <2>8, <2>9, Finishes
  <2> QED BY <1>5, <2>2, <2>5, <2>10 DEF Owed, Sound
<1> QED BY <1>2, <1>6, <1>7 DEF WriteIndex

--------------------------------------------------------------------------------
LEMMA StepOwes ==
  IInv /\ RInv /\ [Next]_vars => RInv' /\ (careful' => RF!Next \/ Quiet)
<1> SUFFICES ASSUME IInv, RInv, [Next]_vars, careful' PROVE Owed
  BY DEF RInv, Owed
<1>1. careful
  BY DEF Next, vars, indexerVars, Index, StartIndexer, FindLine, WriteLine, EndIndexer,
         KillIndexer, Open, Exit, WriteData, WriteIndex, FindPlace, SeekPast, rio_read,
         rio_close, rio_write, rio_lseek
<1>2. Sound
  BY <1>1 DEF RInv
<1>3. CASE Index
  BY <1>2, <1>3, IndexOwes
<1>4. CASE Open
  BY <1>2, <1>4, OpenOwes
<1>5. CASE Exit
  BY <1>2, <1>5, ExitOwes
<1>6. CASE WriteData
  BY <1>2, <1>6, DataOwes
<1>7. CASE WriteIndex
  BY <1>2, <1>7, DescriptorOwes
<1>8. CASE FindPlace \/ SeekPast
  BY <1>2, <1>8, PlacesOwe
<1>9. ASSUME NEW h \in handles, rio_read(h) PROVE Owed
  BY <1>2, <1>9, ReadOwes
<1>10. ASSUME NEW h \in handles, rio_close(h) PROVE Owed
  BY <1>2, <1>10, CloseOwes
<1>11. ASSUME NEW h \in handles, NEW count \in Counts, rio_write(h, count) PROVE Owed
  BY <1>2, <1>11, BeginOwes
<1>12. ASSUME NEW h \in handles, NEW offset \in Offsets,
              NEW whence \in {"SET", "CUR", "END"}, rio_lseek(h, offset, whence)
       PROVE  Owed
  BY <1>2, <1>12, SeekOwes
<1>13. CASE UNCHANGED vars
  <2>1. UNCHANGED <<data, index, cut, fds, handles, answer, writes, call>>
    BY <1>13 DEF vars, indexerVars, ioVars
  <2>2. Sound' /\ Records' = Records /\ Cursor' = Cursor
    BY <1>2, <2>1, SoundKept, CursorKept
  <2>3. UnderWay' = UnderWay
    BY <2>1 DEF UnderWay, Writing
  <2> QED BY <2>1, <2>2, <2>3 DEF Owed, Quiet
<1> QED BY <1>3, <1>4, <1>5, <1>6, <1>7, <1>8, <1>9, <1>10, <1>11, <1>12, <1>13 DEF Next

(* As long as the bytes of every record went where the record is, all of them, the
   bytes and the index together behave as one sequence of records in which every
   handle has its place: failed writes, deaths between two writes, several handles
   on the file and an indexer beside a write included (recordio.c:31-270,
   indexer.c:67-114). *)
THEOREM FilesActAsRecords == Spec => ActsAsRecordFile
<1>1. Init => RInv
  BY IdleForm DEF Init, InitIndexer, RInv, Sound, Apart, BytesThere
<1>2. (careful' => RF!Next \/ Quiet) => [careful' => RF!Next]_(RF!fileVars)
  BY DEF Quiet, RF!fileVars, Cursor
<1> QED BY <1>1, <1>2, StepOwes, InvariantHolds, PTL DEF Spec, ActsAsRecordFile
================================================================================
