----------------------------- MODULE HMallocProofs -----------------------------
(***************************************************************************)
(* Proofs about HMalloc for every heap, every int width and every request: *)
(* the free list spelt by the metadata is the chain of freed blocks, no    *)
(* two blocks overlap, the search is first fit, and the whole implements   *)
(* FirstFit, as long as the heap is no longer than an int offset can span  *)
(* (HeapFits).                                                             *)
(***************************************************************************)
EXTENDS HMalloc, SequenceTheorems, TLAPS

(* Two blocks of the heap are never further apart than INT_MAX. *)
HeapFits == HEAPMAX <= INTMAX

--------------------------------------------------------------------------------
(* What RemoveAt and Cons do to a sequence. *)
LEMMA RemoveAtProperties ==
  ASSUME NEW S, NEW s \in Seq(S), NEW i \in 1..Len(s)
  PROVE  /\ RemoveAt(s, i) \in Seq(S)
         /\ Len(RemoveAt(s, i)) = Len(s) - 1
         /\ \A j \in 1..Len(s)-1 :
              RemoveAt(s, i)[j] = IF j < i THEN s[j] ELSE s[j + 1]
<1> DEFINE f == SubSeq(s, 1, i - 1)
           b == SubSeq(s, i + 1, Len(s))
<1>0. Len(s) \in Nat /\ i \in Int /\ i - 1 \in Nat /\ Len(s) - i \in Nat
  BY LenProperties
<1>1. f \in Seq(S) /\ Len(f) = i - 1 /\ \A j \in 1..i-1 : f[j] = s[j]
  BY <1>0, SubSeqProperties
<1>2. b \in Seq(S) /\ Len(b) = Len(s) - i /\ \A j \in 1..Len(s)-i : b[j] = s[i + j]
  BY <1>0, SubSeqProperties
<1>3. RemoveAt(s, i) = f \o b
  BY DEF RemoveAt
<1>4. /\ f \o b \in Seq(S)
      /\ Len(f \o b) = Len(f) + Len(b)
      /\ \A j \in 1..Len(f)+Len(b) :
           (f \o b)[j] = IF j <= Len(f) THEN f[j] ELSE b[j - Len(f)]
  BY <1>1, <1>2, ConcatProperties
<1> HIDE DEF f, b
<1>5. ASSUME NEW j \in 1..Len(s)-1
      PROVE  (f \o b)[j] = IF j < i THEN s[j] ELSE s[j + 1]
  <2>1. CASE j < i
    BY <2>1, <1>0, <1>1, <1>2, <1>4
  <2>2. CASE j >= i
    <3>1. j - Len(f) \in 1..Len(s)-i /\ i + (j - Len(f)) = j + 1
      BY <2>2, <1>0, <1>1
    <3>2. (f \o b)[j] = b[j - Len(f)]
      BY <2>2, <1>0, <1>1, <1>2, <1>4
    <3>3. b[j - Len(f)] = s[j + 1]
      BY <3>1, <1>2
    <3>4. ~(j < i)
      BY <2>2, <1>0
    <3> QED BY <3>2, <3>3, <3>4
  <2>3. j < i \/ j >= i
    BY <1>0
  <2> QED BY <2>1, <2>2, <2>3
<1>6. Len(f \o b) = Len(s) - 1
  BY <1>0, <1>1, <1>2, <1>4
<1>7. f \o b \in Seq(S)
  BY <1>4
<1> QED BY <1>3, <1>5, <1>6, <1>7

LEMMA ConsProperties ==
  ASSUME NEW S, NEW s \in Seq(S), NEW e \in S
  PROVE  /\ Cons(e, s) \in Seq(S)
         /\ Len(Cons(e, s)) = Len(s) + 1
         /\ Cons(e, s)[1] = e
         /\ \A j \in 1..Len(s) : Cons(e, s)[j + 1] = s[j]
<1>1. <<e>> \in Seq(S) /\ Len(<<e>>) = 1 /\ <<e>>[1] = e
  OBVIOUS
<1>2. /\ <<e>> \o s \in Seq(S)
      /\ Len(<<e>> \o s) = 1 + Len(s)
      /\ \A j \in 1..1+Len(s) :
           (<<e>> \o s)[j] = IF j <= 1 THEN <<e>>[j] ELSE s[j - 1]
  BY <1>1, ConcatProperties
<1> QED BY <1>1, <1>2 DEF Cons

(* Either end of a range, or strictly inside it. *)
LEMMA Ends ==
  ASSUME NEW n \in Nat, NEW k \in 1..n
  PROVE  /\ k \in Int /\ 1 <= k /\ k <= n
         /\ k = 1 \/ k > 1
         /\ k = n \/ k < n
         /\ n = 1 \/ n > 1
OBVIOUS

(* Storing a number in an int: exact when the int can hold it; a request plus
   the metadata either fits or turns negative. *)
LEMMA ToIntExact ==
  ASSUME NEW x \in Int, -INTMAX - 1 <= x, x <= INTMAX
  PROVE  ToInt(x) = x
BY DEF ToInt

LEMMA ModOnce ==
  ASSUME NEW m \in Nat \ {0}, NEW x \in Int, m <= x, x < 2 * m
  PROVE  x % m = x - m
OBVIOUS

LEMMA NeededFitsOrNegative ==
  ASSUME NEW n \in 0..INTMAX
  PROVE  ToInt(n + META) = n + META \/ ToInt(n + META) < 0
<1>1. INTMAX \in Nat /\ n \in Int /\ META \in Nat /\ META <= INTMAX
  BY HMallocAssumption DEF META
<1>2. CASE n + META <= INTMAX
  BY <1>1, <1>2 DEF ToInt
<1>3. CASE n + META > INTMAX
  <2> DEFINE x == n + META + INTMAX + 1
             m == 2 * INTMAX + 2
  <2>1. m \in Nat \ {0} /\ x \in Int /\ m <= x /\ x < 2 * m
    BY <1>1, <1>3
  <2>2. x % m = x - m
    BY <2>1, ModOnce
  <2>3. ToInt(n + META) = x - m - INTMAX - 1
    BY <1>1, <1>3, <2>2 DEF ToInt
  <2> QED BY <1>1, <2>3
<1> QED BY <1>1, <1>2, <1>3

(* The blocks of a chain are those the free list spells. *)
LEMMA ToSetMember ==
  ASSUME NEW S, NEW s \in Seq(S), NEW x
  PROVE  x \in ToSet(s) <=> \E i \in 1..Len(s) : s[i] = x
BY LenProperties DEF ToSet

--------------------------------------------------------------------------------
(***************************************************************************)
(* The inductive invariant.  BlocksApart alone is not inductive: a store   *)
(* of hmalloc or hfree goes where free_list, prev or an offset points, so  *)
(* that the store keeps the blocks apart depends on ListIsChain, and the   *)
(* store through prev depends on where the search stands.                  *)
(***************************************************************************)
HeapInv == BlocksApart /\ ListIsChain /\ OwnedOnce
IInv == TypeOK /\ HeapInv /\ SearchIsFirstFit /\ TraverseInOrder

(* The metadata of two blocks, and the area of one and the metadata of the
   other, share no word. *)
LEMMA MetadataApart ==
  ASSUME TypeOK, BlocksApart, NEW p \in Blocks, NEW r \in Blocks
  PROVE  /\ p \in Addr /\ p + WORD \in Addr /\ p \in Int /\ Size(p) \in Nat
         /\ p # r + WORD
         /\ p # r => p + WORD # r + WORD
         /\ \A a \in AreaOf(p) : a \in Addr /\ a # r /\ a # r + WORD
<1>1. /\ p \in Addr /\ r \in Addr /\ Size(p) \in Int /\ Size(r) \in Int
      /\ Size(p) >= 0 /\ Size(r) >= 0
      /\ p + META + Size(p) <= brk /\ r + META + Size(r) <= brk
      /\ p # r => \/ p + META + Size(p) <= r
                  \/ r + META + Size(r) <= p
  BY DEF TypeOK, BlocksApart, Size
<1>2. /\ WORD \in Nat \ {0} /\ HEAPBASE \in Nat /\ HEAPMAX \in Nat
      /\ brk \in HEAPBASE..HEAPMAX /\ META = 2 * WORD
  BY HMallocAssumption DEF TypeOK, META
<1>3. p \in Int /\ r \in Int /\ Size(p) \in Nat
  BY <1>1, <1>2 DEF Addr
<1>4. p + WORD \in Addr
  BY <1>1, <1>2, <1>3 DEF Addr
<1>5. p # r + WORD /\ (p # r => p + WORD # r + WORD)
  BY <1>1, <1>2, <1>3
<1>6. ASSUME NEW a \in AreaOf(p)
      PROVE  a \in Addr /\ a # r /\ a # r + WORD
  <2>1. a \in Int /\ p + META <= a /\ a < p + META + Size(p)
    BY <1>1, <1>2, <1>3 DEF AreaOf
  <2>2. a \in Addr
    BY <2>1, <1>1, <1>2, <1>3 DEF Addr
  <2> QED BY <2>1, <2>2, <1>1, <1>2, <1>3
<1> QED BY <1>1, <1>3, <1>4, <1>5, <1>6

(* The members of the chain and the caller's blocks are blocks of the heap. *)
LEMMA MembersAreBlocks ==
  ASSUME TypeOK
  PROVE  /\ chain \in Seq(Addr) /\ Len(chain) \in Nat
         /\ DOMAIN chain = 1..Len(chain)
         /\ \A i \in 1..Len(chain) : chain[i] \in Blocks /\ chain[i] \in Addr
         /\ \A q \in DOMAIN live : q - META \in Blocks
<1>1. chain \in Seq(Addr)
  BY DEF TypeOK
<1> QED BY <1>1, LenProperties DEF Blocks, ToSet

(* A step that keeps every block and its length, and lowers no break. *)
LEMMA BlocksApartKept ==
  ASSUME TypeOK, BlocksApart, Blocks' = Blocks, brk' \in Int, brk <= brk',
         \A p \in Blocks : mem'[p] = mem[p]
  PROVE  BlocksApart'
<1>1. \A p \in Blocks : Size(p)' = Size(p) /\ Size(p) \in Int /\ p \in Int
  BY MetadataApart DEF Size
<1>2. META \in Int /\ brk \in Int
  BY HMallocAssumption DEF META, TypeOK
<1>3. \A p \in Blocks : p \in Addr /\ Size(p)' >= 0 /\ p + META + Size(p)' <= brk'
  BY <1>1, <1>2 DEF BlocksApart
<1>4. \A p, r \in Blocks : p # r => \/ p + META + Size(p)' <= r
                                    \/ r + META + Size(r)' <= p
  BY <1>1 DEF BlocksApart
<1> QED BY <1>3, <1>4 DEF BlocksApart

(* A step that touches neither the heap nor who owns what. *)
LEMMA HeapInvKept ==
  ASSUME TypeOK, HeapInv, UNCHANGED <<mem, brk, free_list, live, chain>>,
         pc # "clear", pc' # "clear"
  PROVE  HeapInv'
<1>1. Blocks' = Blocks
  BY DEF Blocks
<1>2. BlocksApart'
  BY <1>1 DEF HeapInv, BlocksApart, Size
<1>3. ListIsChain'
  BY DEF HeapInv, ListIsChain, Offset
<1>4. OwnedOnce'
  BY DEF HeapInv, OwnedOnce, Size
<1> QED BY <1>2, <1>3, <1>4 DEF HeapInv

(* Where a search stands, it stands on a free block of the heap. *)
LEMMA SearchPosition ==
  ASSUME IInv, pc = "search"
  PROVE  \E k \in 1..Len(chain) :
           /\ cur = chain[k] /\ cur \in Blocks
           /\ prev = IF k = 1 THEN NULL ELSE chain[k - 1]
           /\ \A i \in 1..k-1 : Size(chain[i]) < bytes
           /\ Offset(cur) = IF k = Len(chain) THEN 0 ELSE chain[k + 1] - cur
           /\ (Offset(cur) = 0) <=> k = Len(chain)
           /\ k # Len(chain) => cur + Offset(cur) = chain[k + 1]
<1>1. PICK k \in 1..Len(chain) :
        /\ cur = chain[k]
        /\ prev = IF k = 1 THEN NULL ELSE chain[k - 1]
        /\ \A i \in 1..k-1 : Size(chain[i]) < bytes
  BY MembersAreBlocks DEF IInv, SearchIsFirstFit
<1>2. Offset(cur) = IF k = Len(chain) THEN 0 ELSE chain[k + 1] - cur
  BY <1>1, MembersAreBlocks DEF IInv, HeapInv, ListIsChain
<1>3. /\ cur \in Blocks /\ cur \in Int /\ Len(chain) \in Nat /\ k \in Int
      /\ k # Len(chain) => k + 1 \in 1..Len(chain)
  <2>1. Len(chain) \in Nat /\ cur \in Blocks /\ cur \in Addr
    BY <1>1, MembersAreBlocks DEF IInv
  <2> QED BY <2>1, HMallocAssumption DEF Addr
<1>4. ASSUME k # Len(chain)
      PROVE  chain[k + 1] # cur /\ chain[k + 1] \in Int
  <2>1. k + 1 \in 1..Len(chain) /\ k + 1 # k
    BY <1>3, <1>4
  <2>2. chain[k + 1] # cur
    BY <1>1, <2>1, MembersAreBlocks DEF IInv, HeapInv, ListIsChain
  <2>3. chain[k + 1] \in Addr
    BY <1>1, <2>1, MembersAreBlocks DEF IInv
  <2> QED BY <2>2, <2>3, HMallocAssumption DEF Addr
<1>5. (Offset(cur) = 0) <=> k = Len(chain)
  BY <1>2, <1>3, <1>4
<1>6. k # Len(chain) => cur + Offset(cur) = chain[k + 1]
  BY <1>2, <1>3, <1>4
<1> WITNESS k \in 1..Len(chain)
<1> QED BY <1>1, <1>2, <1>3, <1>5, <1>6

--------------------------------------------------------------------------------
(* Each action preserves the invariant. *)
LEMMA CallKeeps ==
  ASSUME IInv, NEW o \in {"hmalloc", "hcalloc"}, NEW n \in Requests, Call(o, n)
  PROVE  IInv'
<1>1. HeapInv'
  BY HeapInvKept DEF IInv, Call, thread
<1>2. TypeOK'
  BY HMallocAssumption DEF IInv, TypeOK, Call
<1>3. pc' = "search" => \E k \in DOMAIN chain :
        /\ cur' = chain[k]
        /\ prev' = IF k = 1 THEN NULL ELSE chain[k - 1]
        /\ \A i \in 1..k-1 : Size(chain[i])' < bytes'
  <2> SUFFICES ASSUME pc' = "search"
               PROVE  /\ 1 \in DOMAIN chain /\ cur' = chain[1] /\ prev' = NULL
                      /\ 1..(1-1) = {}
    OBVIOUS
  <2>1. free_list # NULL /\ cur' = free_list /\ prev' = NULL
    BY DEF Call
  <2>2. chain # <<>> /\ free_list = chain[1]
    BY <2>1 DEF IInv, HeapInv, ListIsChain
  <2>3. 1 \in DOMAIN chain
    BY <2>2, EmptySeq, MembersAreBlocks DEF IInv
  <2> QED BY <2>1, <2>2, <2>3
<1>4. pc' = "extend" => DOMAIN chain = {}
  <2>1. ASSUME pc' = "extend", chain # <<>>
        PROVE  FALSE
    <3>1. free_list = NULL /\ free_list = chain[1]
      BY <2>1 DEF Call, IInv, HeapInv, ListIsChain
    <3>2. chain[1] \in Addr
      BY <2>1, EmptySeq, MembersAreBlocks DEF IInv
    <3> QED BY <3>1, <3>2, HMallocAssumption DEF Addr, NULL
  <2> QED BY <2>1
<1>5. SearchIsFirstFit'
  BY <1>3, <1>4 DEF Call, SearchIsFirstFit
<1>6. TraverseInOrder'
  BY DEF Call, TraverseInOrder
<1> QED BY <1>1, <1>2, <1>5, <1>6 DEF IInv

LEMMA AdvanceKeeps ==
  ASSUME IInv, Advance
  PROVE  IInv'
<1>1. HeapInv'
  BY HeapInvKept DEF IInv, Advance
<1>2. PICK k \in 1..Len(chain) :
        /\ cur = chain[k] /\ cur \in Blocks
        /\ prev = IF k = 1 THEN NULL ELSE chain[k - 1]
        /\ \A i \in 1..k-1 : Size(chain[i]) < bytes
        /\ (Offset(cur) = 0) <=> k = Len(chain)
        /\ k # Len(chain) => cur + Offset(cur) = chain[k + 1]
  BY SearchPosition DEF Advance
<1>3. /\ DOMAIN chain = 1..Len(chain) /\ Len(chain) \in Nat
      /\ \A i \in 1..Len(chain) : chain[i] \in Addr
  BY MembersAreBlocks DEF IInv
<1>4. k \in 1..Len(chain) /\ k # Len(chain) /\ cur' = cur + Offset(cur) /\ prev' = cur
  BY <1>2 DEF Advance, IInv
<1>5. k \in Int /\ k + 1 \in 1..Len(chain) /\ k + 1 # 1 /\ (k + 1) - 1 = k
  <2>1. Len(chain) \in Nat
    BY <1>3
  <2> QED BY <2>1, <1>4
<1>6. cur' = chain[k + 1] /\ prev' = chain[k]
  BY <1>2, <1>4
<1>7. \A i \in 1..k : Size(chain[i]) < bytes
  <2>1. Size(chain[k]) < bytes
    BY <1>2 DEF Advance
  <2> QED BY <2>1, <1>2, <1>5
<1>8. cur' \in Addr /\ prev' \in Addr
  BY <1>3, <1>4, <1>5, <1>6
<1>9. TypeOK'
  BY <1>8 DEF IInv, TypeOK, Advance
<1>10. SearchIsFirstFit'
  BY <1>3, <1>5, <1>6, <1>7 DEF SearchIsFirstFit, Advance, Size
<1>11. TraverseInOrder'
  BY DEF Advance, TraverseInOrder
<1> QED BY <1>1, <1>9, <1>10, <1>11 DEF IInv

LEMMA GiveUpKeeps ==
  ASSUME IInv, GiveUp
  PROVE  IInv'
<1>1. HeapInv'
  BY HeapInvKept DEF IInv, GiveUp
<1>2. PICK k \in 1..Len(chain) :
        /\ cur = chain[k]
        /\ \A i \in 1..k-1 : Size(chain[i]) < bytes
        /\ (Offset(cur) = 0) <=> k = Len(chain)
  BY SearchPosition DEF GiveUp
<1>3. \A i \in DOMAIN chain : Size(chain[i]) < bytes
  BY <1>2, MembersAreBlocks DEF IInv, GiveUp
<1>4. SearchIsFirstFit'
  BY <1>3 DEF SearchIsFirstFit, GiveUp, Size
<1>5. TypeOK' /\ TraverseInOrder'
  BY DEF IInv, TypeOK, TraverseInOrder, GiveUp
<1> QED BY <1>1, <1>4, <1>5 DEF IInv

LEMMA FaultKeeps ==
  ASSUME IInv, ExtendFaults
  PROVE  IInv'
<1>1. HeapInv'
  BY HeapInvKept DEF IInv, ExtendFaults
<1>2. TypeOK' /\ SearchIsFirstFit' /\ TraverseInOrder'
  BY DEF IInv, TypeOK, SearchIsFirstFit, TraverseInOrder, ExtendFaults
<1> QED BY <1>1, <1>2 DEF IInv

LEMMA TraverseKeeps ==
  ASSUME IInv, Traverse \/ TraverseNext \/ TraverseEnd
  PROVE  IInv'
<1>1. HeapInv'
  BY HeapInvKept DEF IInv, Traverse, TraverseNext, TraverseEnd, EndCall
<1>2. SearchIsFirstFit'
  BY DEF SearchIsFirstFit, Traverse, TraverseNext, TraverseEnd, EndCall
<1>3. CASE Traverse
  <2>1. free_list # NULL /\ cur' = free_list /\ index' = 0 /\ UNCHANGED chain
    BY <1>3 DEF Traverse
  <2>2. chain # <<>> /\ free_list = chain[1]
    BY <2>1 DEF IInv, HeapInv, ListIsChain
  <2>3. 1 \in DOMAIN chain
    BY <2>2, EmptySeq, MembersAreBlocks DEF IInv
  <2>4. TraverseInOrder'
    BY <2>1, <2>2, <2>3 DEF TraverseInOrder
  <2>5. TypeOK'
    BY <1>3 DEF IInv, TypeOK, Traverse
  <2> QED BY <1>1, <1>2, <2>4, <2>5 DEF IInv
<1>4. CASE TraverseNext
  <2>1. /\ index \in Nat /\ index + 1 \in 1..Len(chain) /\ Len(chain) \in Nat
        /\ cur = chain[index + 1] /\ Offset(cur) # 0
        /\ cur' = cur + Offset(cur) /\ index' = index + 1 /\ UNCHANGED chain
    BY <1>4, MembersAreBlocks DEF IInv, TypeOK, TraverseNext, TraverseInOrder
  <2>2. /\ index + 1 # Len(chain)
        /\ Offset(cur) = chain[index + 1 + 1] - cur
    BY <2>1, MembersAreBlocks DEF IInv, HeapInv, ListIsChain
  <2>3. index' + 1 \in 1..Len(chain)
    BY <2>1, <2>2
  <2>4. cur \in Addr /\ chain[index' + 1] \in Addr
    BY <2>1, <2>3, MembersAreBlocks DEF IInv
  <2>5. cur' = chain[index' + 1]
    BY <2>1, <2>2, <2>4, HMallocAssumption DEF Addr
  <2>6. TraverseInOrder'
    BY <2>1, <2>3, <2>5, MembersAreBlocks DEF IInv, TraverseInOrder
  <2>7. TypeOK'
    BY <1>4, <2>1, <2>4, <2>5 DEF IInv, TypeOK, TraverseNext
  <2> QED BY <1>1, <1>2, <2>6, <2>7 DEF IInv
<1>5. CASE TraverseEnd
  <2>1. TypeOK' /\ TraverseInOrder'
    BY <1>5, HMallocAssumption DEF IInv, TypeOK, TraverseInOrder, TraverseEnd, EndCall
  <2> QED BY <1>1, <1>2, <2>1 DEF IInv
<1> QED BY <1>3, <1>4, <1>5

(* What hmalloc's return does to the caller's side, whichever way the block p
   was found. *)
LEMMA ReturnHandsOver ==
  ASSUME TypeOK, OwnedOnce, pc \in {"search", "extend"},
         NEW p \in Int, p \in Addr, Return(p), UNCHANGED zeroed,
         p \notin ToSet(chain)', p + META \notin DOMAIN live, bytes <= mem'[p],
         ToSet(chain)' \subseteq ToSet(chain),
         \A q \in DOMAIN live : Size(q - META)' = Size(q - META)
  PROVE  /\ Blocks' = {q - META : q \in DOMAIN live} \union ToSet(chain)' \union {p}
         /\ OwnedOnce' /\ SearchIsFirstFit' /\ TraverseInOrder'
         /\ pc' \in {"idle", "clear"} /\ op' \in {"none", "hmalloc", "hcalloc"}
         /\ bytes' \in 0..INTMAX /\ cur' \in Addr \union {NULL}
         /\ prev' \in Addr \union {NULL} /\ index' \in Nat
         /\ DOMAIN live' \subseteq Nat /\ live' \in [DOMAIN live' -> 0..INTMAX]
         /\ zeroed' \subseteq DOMAIN live'
<1>0. /\ META \in Nat /\ p + META \in Nat /\ (p + META) - META = p
      /\ bytes \in 0..INTMAX /\ 0 \in 0..INTMAX
  <2>1. bytes \in 0..INTMAX
    BY DEF TypeOK
  <2> QED BY <2>1, HMallocAssumption DEF META, Addr
<1>1. CASE op = "hcalloc" /\ pc' = "clear" /\ cur' = p
           /\ UNCHANGED <<op, bytes, prev, index, live>>
  <2>1. Blocks' = {q - META : q \in DOMAIN live} \union ToSet(chain)' \union {p}
    BY <1>1 DEF Blocks
  <2>2. OwnedOnce'
    BY <1>1 DEF OwnedOnce, Size
  <2>3. SearchIsFirstFit' /\ TraverseInOrder'
    BY <1>1 DEF SearchIsFirstFit, TraverseInOrder
  <2> QED BY <1>1, <2>1, <2>2, <2>3 DEF TypeOK
<1>2. CASE op = "hmalloc" /\ EndCall /\ HandOver(p + META)
  <2>1. DOMAIN live' = DOMAIN live \union {p + META} /\ pc' = "idle"
    BY <1>2 DEF HandOver, EndCall
  <2>2. /\ live'[p + META] = bytes
        /\ \A q \in DOMAIN live : live'[q] = live[q]
    BY <1>2 DEF HandOver
  <2>3. Blocks' = {q - META : q \in DOMAIN live} \union ToSet(chain)' \union {p}
    BY <1>0, <2>1 DEF Blocks
  <2>4. ASSUME NEW q \in DOMAIN live'
        PROVE  q - META \notin ToSet(chain)' /\ live'[q] <= Size(q - META)'
    <3>1. CASE q = p + META
      BY <3>1, <2>2, <1>0 DEF Size
    <3>2. CASE q \in DOMAIN live
      BY <3>2, <2>2 DEF OwnedOnce
    <3> QED BY <2>1, <3>1, <3>2
  <2>5. OwnedOnce'
    BY <2>1, <2>4 DEF OwnedOnce
  <2>6. SearchIsFirstFit' /\ TraverseInOrder'
    BY <2>1 DEF SearchIsFirstFit, TraverseInOrder
  <2>7. live' \in [DOMAIN live' -> 0..INTMAX] /\ DOMAIN live' \subseteq Nat
    BY <1>0, <1>2, <2>1 DEF HandOver, TypeOK
  <2>8. zeroed' \subseteq DOMAIN live'
    BY <2>1 DEF TypeOK
  <2> QED BY <1>0, <1>2, <2>1, <2>3, <2>5, <2>6, <2>7, <2>8 DEF EndCall
<1> QED BY <1>1, <1>2 DEF Return

(* The chain without its k-th block, as a set. *)
LEMMA ChainWithout ==
  ASSUME NEW s \in Seq(Addr), NEW k \in 1..Len(s),
         \A i, j \in 1..Len(s) : s[i] = s[j] => i = j
  PROVE  ToSet(RemoveAt(s, k)) = ToSet(s) \ {s[k]}
<1> DEFINE t == RemoveAt(s, k)
<1>1. /\ t \in Seq(Addr) /\ Len(t) = Len(s) - 1
      /\ \A j \in 1..Len(s)-1 : t[j] = IF j < k THEN s[j] ELSE s[j + 1]
  BY RemoveAtProperties
<1>2. Len(s) \in Nat /\ k \in Int
  BY LenProperties
<1> HIDE DEF t
<1>3. ASSUME NEW x \in ToSet(t) PROVE x \in ToSet(s) \ {s[k]}
  <2>1. PICK j \in 1..Len(s)-1 : x = IF j < k THEN s[j] ELSE s[j + 1]
    BY <1>1, <1>3, ToSetMember
  <2>2. j \in Int /\ j \in 1..Len(s) /\ j + 1 \in 1..Len(s)
    BY <1>2
  <2>3. (x = s[j] /\ j # k) \/ (x = s[j + 1] /\ j + 1 # k)
    <3>1. CASE j < k
      <4>1. j # k
        BY <1>2, <2>2, <3>1
      <4>2. x = s[j]
        BY <2>1, <3>1
      <4> QED BY <4>1, <4>2
    <3>2. CASE ~(j < k)
      <4>1. j + 1 # k
        BY <1>2, <2>2, <3>2
      <4>2. x = s[j + 1]
        BY <2>1, <3>2
      <4> QED BY <4>1, <4>2
    <3> QED BY <3>1, <3>2
  <2> QED BY <2>2, <2>3, ToSetMember
<1>4. ASSUME NEW x \in ToSet(s), x # s[k] PROVE x \in ToSet(t)
  <2>1. PICK i \in 1..Len(s) : x = s[i] /\ i # k
    BY <1>4, ToSetMember
  <2>2. CASE i < k
    <3>1. i \in 1..Len(s)-1
      BY <1>2, <2>2
    <3> QED BY <1>1, <2>1, <2>2, <3>1, ToSetMember
  <2>3. CASE i > k
    <3>1. i - 1 \in 1..Len(s)-1 /\ ~(i - 1 < k) /\ (i - 1) + 1 = i
      BY <1>2, <2>3
    <3>2. t[i - 1] = x
      BY <1>1, <2>1, <3>1
    <3> QED BY <1>1, <3>1, <3>2, ToSetMember
  <2> QED BY <1>2, <2>1, <2>2, <2>3
<1> QED BY <1>3, <1>4 DEF t

(* Unlinking a block: the metadata of the others spells the chain without it. *)
LEMMA TakeKeeps ==
  ASSUME IInv, HeapFits, Take
  PROVE  /\ IInv' /\ Blocks' = Blocks
         /\ \A p \in Blocks : mem'[p] = mem[p]
         /\ ToSet(chain)' = ToSet(chain) \ {cur}
         /\ \E k \in 1..Len(chain) :
              /\ cur = chain[k] /\ chain' = RemoveAt(chain, k)
              /\ \A i \in 1..k-1 : Size(chain[i]) < bytes
<1> USE DEF IInv, HeapInv
<1>1. PICK k \in 1..Len(chain) :
        /\ cur = chain[k] /\ cur \in Blocks
        /\ prev = IF k = 1 THEN NULL ELSE chain[k - 1]
        /\ \A i \in 1..k-1 : Size(chain[i]) < bytes
        /\ Offset(cur) = IF k = Len(chain) THEN 0 ELSE chain[k + 1] - cur
        /\ (Offset(cur) = 0) <=> k = Len(chain)
        /\ k # Len(chain) => cur + Offset(cur) = chain[k + 1]
  BY SearchPosition DEF Take
<1>2. /\ chain \in Seq(Addr)
      /\ \A i \in 1..Len(chain) : chain[i] \in Blocks /\ chain[i] \in Addr /\ chain[i] \in Int
  BY MembersAreBlocks, MetadataApart
<1>3. \A i, j \in 1..Len(chain) : chain[i] = chain[j] => i = j
  BY MembersAreBlocks DEF ListIsChain
<1>4. /\ Len(chain) \in Nat /\ k \in Int /\ 1 <= k /\ k <= Len(chain)
      /\ k = 1 \/ k > 1
      /\ k = Len(chain) \/ k < Len(chain)
      /\ Len(chain) = 1 \/ Len(chain) > 1
  <2>1. Len(chain) \in Nat
    BY <1>2, LenProperties
  <2> QED BY <2>1, Ends
<1>5. chain' = RemoveAt(chain, k)
  <2>1. \E i \in 1..Len(chain) : chain[i] = cur
    BY <1>1
  <2>2. {i \in 1..Len(chain) : chain[i] = cur} = {k}
    BY <1>1, <1>3
  <2>3. Min({k}) = k
    BY <1>4 DEF Min
  <2>4. SelectInSeq(chain, LAMBDA v : v = cur) = k
    BY <2>2, <2>3 DEF SelectInSeq
  <2> QED BY <2>1, <2>4 DEF Take, RemoveFirst
<1>6. /\ chain' \in Seq(Addr) /\ Len(chain') = Len(chain) - 1
      /\ \A j \in 1..Len(chain)-1 : chain'[j] = IF j < k THEN chain[j] ELSE chain[j + 1]
  BY <1>2, <1>5, RemoveAtProperties
<1>7. ToSet(chain)' = ToSet(chain) \ {cur}
  BY <1>1, <1>2, <1>3, <1>5, ChainWithout
<1>8. k # 1 => prev = chain[k - 1] /\ k - 1 \in 1..Len(chain) /\ prev \in Blocks
                 /\ prev \in Addr /\ prev \in Int
  BY <1>1, <1>2, <1>4
<1>9. prev = NULL <=> k = 1
  BY <1>1, <1>8, HMallocAssumption DEF NULL, Addr
<1>10. \/ k = 1 /\ UNCHANGED mem
       \/ /\ k # 1 /\ UNCHANGED free_list
          /\ mem' = [mem EXCEPT ![prev + WORD] =
                       IF k = Len(chain) THEN 0 ELSE chain[k + 1] - prev]
  <2>1. CASE UnlinkOnly \/ UnlinkHead
    BY <2>1, <1>9 DEF UnlinkOnly, UnlinkHead
  <2>2. CASE UnlinkLast
    BY <2>2, <1>1, <1>9 DEF UnlinkLast
  <2>3. CASE UnlinkInner
    <3>1. k # 1 /\ k # Len(chain) /\ UNCHANGED free_list
      BY <2>3, <1>1, <1>9 DEF UnlinkInner
    <3>2. Offset(prev) = cur - prev
      <4>1. k - 1 # Len(chain) /\ (k - 1) + 1 = k
        BY <1>4
      <4>2. k - 1 \in DOMAIN chain
        BY <1>8, <3>1, MembersAreBlocks
      <4> QED BY <4>1, <4>2, <1>1, <1>8, <3>1 DEF ListIsChain
    <3>3. k + 1 \in 1..Len(chain) /\ chain[k + 1] \in Addr /\ cur \in Addr
      BY <1>1, <1>2, <1>4, <3>1
    <3>4. Offset(prev) + Offset(cur) = chain[k + 1] - prev
      BY <1>1, <1>8, <3>1, <3>2, <3>3, HMallocAssumption DEF Addr
    <3>5. ToInt(chain[k + 1] - prev) = chain[k + 1] - prev
      <4>1. chain[k + 1] - prev \in Int /\ -INTMAX - 1 <= chain[k + 1] - prev
            /\ chain[k + 1] - prev <= INTMAX
        BY <1>8, <3>1, <3>3, HMallocAssumption DEF Addr, HeapFits
      <4> QED BY <4>1, ToIntExact
    <3> QED BY <2>3, <3>1, <3>4, <3>5 DEF UnlinkInner, Offset
  <2> QED BY <2>1, <2>2, <2>3 DEF Take
<1>11. mem \in [Addr -> Int] /\ mem' \in [Addr -> Int]
  <2>1. mem \in [Addr -> Int] /\ 0 \in Int
    BY DEF TypeOK
  <2>2. k # 1 => (IF k = Len(chain) THEN 0 ELSE chain[k + 1] - prev) \in Int
    BY <1>2, <1>4, <1>8
  <2> QED BY <1>10, <2>1, <2>2
<1>12. \A p \in Blocks : mem'[p] = mem[p]
  <2> SUFFICES ASSUME k # 1, NEW p \in Blocks PROVE mem'[p] = mem[p]
    BY <1>10
  <2>1. p # prev + WORD /\ p \in Addr
    BY <1>8, MetadataApart
  <2> QED BY <2>1, <1>10, <1>11
<1>13. \A i \in 1..Len(chain) : i # k - 1 => mem'[chain[i] + WORD] = mem[chain[i] + WORD]
  <2> SUFFICES ASSUME k # 1, NEW i \in 1..Len(chain), i # k - 1
               PROVE  mem'[chain[i] + WORD] = mem[chain[i] + WORD]
    BY <1>10
  <2>1. chain[i] # prev
    BY <1>3, <1>8
  <2>2. chain[i] + WORD # prev + WORD /\ chain[i] + WORD \in Addr
    BY <2>1, <1>2, <1>8, MetadataApart
  <2> QED BY <2>2, <1>10, <1>11
<1>14. k # 1 => mem'[prev + WORD] = IF k = Len(chain) THEN 0 ELSE chain[k + 1] - prev
  BY <1>8, <1>10, <1>11, MetadataApart
<1>15. /\ cur \in Int /\ cur \in Addr /\ cur \in ToSet(chain)
       /\ cur + META \notin DOMAIN live
  <2>1. cur \in Addr /\ cur \in Int /\ cur \in ToSet(chain)
    BY <1>1, <1>2, ToSetMember
  <2>2. (cur + META) - META = cur
    BY <2>1, HMallocAssumption DEF META
  <2> QED BY <2>1, <2>2 DEF OwnedOnce
<1>16. \A p \in Blocks : Size(p)' = Size(p)
  BY <1>12 DEF Size
<1>17. /\ Blocks' = {q - META : q \in DOMAIN live} \union ToSet(chain)' \union {cur}
       /\ OwnedOnce' /\ SearchIsFirstFit' /\ TraverseInOrder'
       /\ pc' \in {"idle", "clear"} /\ op' \in {"none", "hmalloc", "hcalloc"}
       /\ bytes' \in 0..INTMAX /\ cur' \in Addr \union {NULL}
       /\ prev' \in Addr \union {NULL} /\ index' \in Nat
       /\ DOMAIN live' \subseteq Nat /\ live' \in [DOMAIN live' -> 0..INTMAX]
       /\ zeroed' \subseteq DOMAIN live'
  <2>1. /\ pc \in {"search", "extend"} /\ Return(cur) /\ UNCHANGED zeroed
        /\ bytes <= Size(cur)
    BY DEF Take
  <2>2. bytes <= mem'[cur]
    BY <2>1, <1>1, <1>12 DEF Size
  <2>3. \A q \in DOMAIN live : Size(q - META)' = Size(q - META)
    BY <1>16, MembersAreBlocks
  <2>4. cur \notin ToSet(chain)' /\ ToSet(chain)' \subseteq ToSet(chain)
    BY <1>7
  <2> QED BY <1>15, <2>1, <2>2, <2>3, <2>4, ReturnHandsOver
<1>18. Blocks' = Blocks
  BY <1>7, <1>15, <1>17 DEF Blocks, Take
<1>19. BlocksApart'
  <2>1. UNCHANGED brk /\ brk \in Int
    BY HMallocAssumption DEF Take, TypeOK
  <2> QED BY <2>1, <1>12, <1>18, BlocksApartKept
<1>20. TypeOK'
  <2>1. free_list' \in Addr \union {NULL}
    <3>1. CASE k = Len(chain)
      BY <3>1, <1>1 DEF Take, UnlinkOnly, UnlinkHead, UnlinkLast, UnlinkInner, TypeOK
    <3>2. CASE k # Len(chain)
      <4>1. k + 1 \in 1..Len(chain)
        BY <3>2, <1>4
      <4>2. cur + Offset(cur) \in Addr
        BY <3>2, <4>1, <1>1, <1>2
      <4> QED BY <4>2 DEF Take, UnlinkOnly, UnlinkHead, UnlinkLast, UnlinkInner, TypeOK
    <3> QED BY <3>1, <3>2
  <2>2. brk' \in HEAPBASE..HEAPMAX
    BY DEF Take, TypeOK
  <2> QED BY <1>6, <1>11, <1>17, <2>1, <2>2 DEF TypeOK
<1>21. ASSUME NEW i \in 1..Len(chain)-1, NEW j \in 1..Len(chain)-1, chain'[i] = chain'[j]
       PROVE  i = j
  <2> DEFINE s(n) == IF n < k THEN n ELSE n + 1
  <2>1. i \in Int /\ j \in Int
    OBVIOUS
  <2>2. s(i) \in 1..Len(chain) /\ s(j) \in 1..Len(chain)
    BY <1>4
  <2>3. chain'[i] = chain[s(i)] /\ chain'[j] = chain[s(j)]
    BY <1>6
  <2>4. s(i) = s(j)
    BY <1>3, <1>21, <2>2, <2>3
  <2> QED BY <2>1, <2>4, <1>4
<1>22. ASSUME NEW i \in 1..Len(chain)-1
       PROVE  mem'[chain'[i] + WORD] =
                IF i = Len(chain) - 1 THEN 0 ELSE chain'[i + 1] - chain'[i]
  <2>0. i \in Int /\ 1 <= i /\ i <= Len(chain) - 1 /\ i \in 1..Len(chain)
    BY <1>4
  <2>1. CASE i = k - 1
    <3>1. chain'[i] = prev /\ k # 1
      BY <2>0, <2>1, <1>4, <1>6, <1>8
    <3>2. i = Len(chain) - 1 <=> k = Len(chain)
      BY <2>1, <1>4
    <3>3. k # Len(chain) => chain'[i + 1] = chain[k + 1]
      <4>1. i + 1 = k /\ ~(k < k)
        BY <2>1, <1>4
      <4>2. k # Len(chain) => k \in 1..Len(chain)-1
        BY <1>4
      <4> QED BY <4>1, <4>2, <1>6
    <3> QED BY <3>1, <3>2, <3>3, <1>14
  <2>2. CASE i < k - 1
    <3>1. i < k /\ i + 1 < k /\ i # k - 1 /\ i + 1 \in 1..Len(chain)-1 /\ i # Len(chain)
           /\ i # Len(chain) - 1
      BY <2>0, <2>2, <1>4
    <3>2. chain'[i] = chain[i] /\ chain'[i + 1] = chain[i + 1]
      BY <3>1, <1>6
    <3>3. mem[chain[i] + WORD] = chain[i + 1] - chain[i]
      BY <2>0, <3>1, MembersAreBlocks DEF ListIsChain, Offset
    <3>4. mem'[chain[i] + WORD] = mem[chain[i] + WORD]
      BY <2>0, <3>1, <1>13
    <3> QED BY <3>1, <3>2, <3>3, <3>4
  <2>3. CASE i >= k
    <3>1. ~(i < k) /\ ~(i + 1 < k) /\ i + 1 # k - 1 /\ i + 1 \in 1..Len(chain)
      BY <2>0, <2>3, <1>4
    <3>2. chain'[i] = chain[i + 1]
      BY <3>1, <1>6
    <3>3. mem[chain[i + 1] + WORD] =
            IF i + 1 = Len(chain) THEN 0 ELSE chain[i + 1 + 1] - chain[i + 1]
      BY <3>1, MembersAreBlocks DEF ListIsChain, Offset
    <3>4. mem'[chain[i + 1] + WORD] = mem[chain[i + 1] + WORD]
      BY <3>1, <1>13
    <3>5. i = Len(chain) - 1 <=> i + 1 = Len(chain)
      BY <2>0, <1>4
    <3>6. i # Len(chain) - 1 => chain'[i + 1] = chain[i + 1 + 1]
      <4>1. i # Len(chain) - 1 => i + 1 \in 1..Len(chain)-1
        BY <2>0, <1>4
      <4> QED BY <4>1, <3>1, <1>6
    <3> QED BY <3>2, <3>3, <3>4, <3>5, <3>6
  <2> QED BY <2>0, <2>1, <2>2, <2>3, <1>4
<1>23. free_list' = IF chain' = <<>> THEN NULL ELSE chain'[1]
  <2>1. chain' = <<>> <=> Len(chain) = 1
    BY <1>4, <1>6, EmptySeq
  <2>2. free_list = chain[1]
    BY <1>4, EmptySeq DEF ListIsChain
  <2>3. CASE k = 1 /\ Len(chain) = 1
    <3>1. Offset(cur) = 0 /\ prev = NULL
      BY <2>3, <1>1
    <3>2. free_list' = NULL
      BY <3>1 DEF Take, UnlinkOnly, UnlinkHead, UnlinkLast, UnlinkInner
    <3> QED BY <2>1, <2>3, <3>2
  <2>4. CASE k = 1 /\ Len(chain) # 1
    <3>1. Offset(cur) # 0 /\ prev = NULL /\ cur + Offset(cur) = chain[1 + 1]
      BY <2>4, <1>1
    <3>2. free_list' = chain[1 + 1]
      BY <3>1 DEF Take, UnlinkOnly, UnlinkHead, UnlinkLast, UnlinkInner
    <3>3. 1 \in 1..Len(chain)-1 /\ ~(1 < k)
      BY <2>4, <1>4
    <3> QED BY <2>1, <2>4, <3>2, <3>3, <1>6
  <2>5. CASE k # 1
    <3>1. UNCHANGED free_list
      BY <2>5, <1>10
    <3>2. 1 \in 1..Len(chain)-1 /\ 1 < k /\ Len(chain) # 1
      BY <2>5, <1>4
    <3>3. chain'[1] = chain[1]
      BY <3>2, <1>6
    <3> QED BY <2>1, <2>2, <3>1, <3>2, <3>3
  <2> QED BY <2>3, <2>4, <2>5
<1>24. ListIsChain'
  <2>1. DOMAIN chain' = 1..Len(chain)-1 /\ Len(chain') = Len(chain) - 1
    BY <1>6, LenProperties
  <2> QED BY <2>1, <1>21, <1>22, <1>23 DEF ListIsChain, Offset
<1> QED BY <1>1, <1>5, <1>7, <1>12, <1>17, <1>18, <1>19, <1>20, <1>24

(* A step that keeps the metadata of every block in the chain keeps the list. *)
LEMMA ListKept ==
  ASSUME TypeOK, ListIsChain, UNCHANGED <<free_list, chain>>,
         \A p \in ToSet(chain) : mem'[p + WORD] = mem[p + WORD]
  PROVE  ListIsChain'
<1>1. \A i \in DOMAIN chain : mem'[chain[i] + WORD] = mem[chain[i] + WORD]
  BY DEF ToSet
<1> QED BY <1>1 DEF ListIsChain, Offset

(* The new block starts at the break, beyond every other block. *)
LEMMA ExtendKeeps ==
  ASSUME IInv, Extend
  PROVE  /\ IInv' /\ Blocks' = Blocks \union {brk}
         /\ brk \in Addr /\ brk + META <= HEAPMAX /\ mem'[brk] = bytes
         /\ \A p \in Blocks : mem'[p] = mem[p]
<1> USE DEF IInv, HeapInv
<1>1. /\ pc = "extend" /\ brk' = brk + (bytes + META) /\ brk + (bytes + META) <= HEAPMAX
      /\ mem' = [mem EXCEPT ![brk] = bytes, ![brk + WORD] = 0]
      /\ Return(brk) /\ UNCHANGED <<free_list, zeroed, chain>>
  <2>1. bytes \in 0..INTMAX
    BY DEF TypeOK
  <2>2. ToInt(bytes + META) = bytes + META \/ ToInt(bytes + META) < 0
    BY <2>1, NeededFitsOrNegative
  <2>3. ToInt(bytes + META) > 0
    BY DEF Extend
  <2>4. ~(ToInt(bytes + META) < 0)
    <3>1. ToInt(bytes + META) \in Int
      BY <2>1, <2>2, HMallocAssumption DEF ToInt, META
    <3> QED BY <2>3, <3>1
  <2> QED BY <2>2, <2>4 DEF Extend
<1>2. /\ WORD \in Nat \ {0} /\ META = 2 * WORD /\ META \in Nat /\ bytes \in 0..INTMAX
      /\ brk \in Int /\ HEAPBASE <= brk /\ HEAPBASE \in Nat /\ HEAPMAX \in Nat
      /\ INTMAX \in Nat
  BY HMallocAssumption DEF TypeOK, META
<1>3. brk \in Addr /\ brk + WORD \in Addr /\ brk # brk + WORD /\ brk' \in HEAPBASE..HEAPMAX
  BY <1>1, <1>2 DEF Addr
<1>4. mem \in [Addr -> Int] /\ mem' \in [Addr -> Int] /\ mem'[brk] = bytes /\ mem'[brk + WORD] = 0
  <2>1. mem \in [Addr -> Int] /\ bytes \in Int
    BY <1>2 DEF TypeOK
  <2> QED BY <2>1, <1>1, <1>3
<1>5. ASSUME NEW p \in Blocks
      PROVE  /\ p \in Addr /\ p \in Int /\ Size(p) \in Nat /\ p # brk
             /\ p + META + Size(p) <= brk
             /\ mem'[p] = mem[p] /\ mem'[p + WORD] = mem[p + WORD]
  <2>1. p \in Addr /\ p \in Int /\ p + WORD \in Addr /\ Size(p) \in Nat
    BY MetadataApart
  <2>2. p + META + Size(p) <= brk
    BY DEF BlocksApart
  <2>3. p < brk /\ p + WORD < brk
    BY <1>2, <2>1, <2>2
  <2>4. p # brk /\ p # brk + WORD /\ p + WORD # brk /\ p + WORD # brk + WORD
    BY <1>2, <2>1, <2>3
  <2> QED BY <2>1, <2>2, <2>4, <1>1, <1>4
<1>6. brk \notin ToSet(chain) /\ brk + META \notin DOMAIN live
  <2>1. (brk + META) - META = brk
    BY <1>2
  <2> QED BY <2>1, <1>5, MembersAreBlocks DEF Blocks
<1>7. /\ Blocks' = {q - META : q \in DOMAIN live} \union ToSet(chain)' \union {brk}
      /\ OwnedOnce' /\ SearchIsFirstFit' /\ TraverseInOrder'
      /\ pc' \in {"idle", "clear"} /\ op' \in {"none", "hmalloc", "hcalloc"}
      /\ bytes' \in 0..INTMAX /\ cur' \in Addr \union {NULL}
      /\ prev' \in Addr \union {NULL} /\ index' \in Nat
      /\ DOMAIN live' \subseteq Nat /\ live' \in [DOMAIN live' -> 0..INTMAX]
      /\ zeroed' \subseteq DOMAIN live'
  <2>1. bytes <= mem'[brk]
    BY <1>2, <1>4
  <2>2. \A q \in DOMAIN live : Size(q - META)' = Size(q - META)
    BY <1>5, MembersAreBlocks DEF Size
  <2>3. ToSet(chain)' = ToSet(chain) /\ UNCHANGED zeroed
    BY <1>1
  <2> QED BY <1>1, <1>2, <1>3, <1>6, <2>1, <2>2, <2>3, ReturnHandsOver
<1>8. Blocks' = Blocks \union {brk}
  BY <1>1, <1>7 DEF Blocks
<1>9. BlocksApart'
  <2>2. \A p \in Blocks : mem'[p] = Size(p)
    BY <1>5 DEF Size
  <2>3. \A p \in Blocks \union {brk} :
          /\ p \in Addr /\ mem'[p] >= 0 /\ p + META + mem'[p] <= brk'
    BY <1>1, <1>2, <1>3, <1>4, <1>5, <2>2
  <2>4. \A p, r \in Blocks \union {brk} :
          p # r => \/ p + META + mem'[p] <= r
                   \/ r + META + mem'[r] <= p
    <3>1. \A p, r \in Blocks : p # r => \/ p + META + mem'[p] <= r
                                        \/ r + META + mem'[r] <= p
      BY <2>2 DEF BlocksApart
    <3>2. \A p \in Blocks : p + META + mem'[p] <= brk
      BY <1>5, <2>2
    <3> QED BY <3>1, <3>2
  <2> QED BY <1>8, <2>3, <2>4 DEF BlocksApart, Size
<1>10. ListIsChain'
  BY <1>1, <1>5, ListKept DEF Blocks
<1>11. TypeOK'
  <2>1. free_list' \in Addr \union {NULL} /\ chain' \in Seq(Addr)
    BY <1>1 DEF TypeOK
  <2> QED BY <1>3, <1>4, <1>7, <2>1 DEF TypeOK
<1>12. brk + META <= HEAPMAX
  BY <1>1, <1>2
<1> QED BY <1>3, <1>4, <1>5, <1>7, <1>8, <1>9, <1>10, <1>11, <1>12

(* A store into the area of a block leaves every word of metadata alone. *)
LEMMA StoreKeepsHeap ==
  ASSUME TypeOK, BlocksApart, ListIsChain, NEW p \in Blocks,
         \A a \in Addr \ AreaOf(p) : mem'[a] = mem[a],
         UNCHANGED <<brk, free_list, chain>>, Blocks' = Blocks
  PROVE  /\ BlocksApart' /\ ListIsChain'
         /\ \A r \in Blocks : mem'[r] = mem[r]
<1>1. \A r \in Blocks : mem'[r] = mem[r] /\ mem'[r + WORD] = mem[r + WORD]
  <2> SUFFICES ASSUME NEW r \in Blocks
               PROVE  mem'[r] = mem[r] /\ mem'[r + WORD] = mem[r + WORD]
    OBVIOUS
  <2>1. r \in Addr /\ r + WORD \in Addr /\ r \notin AreaOf(p) /\ r + WORD \notin AreaOf(p)
    BY MetadataApart
  <2> QED BY <2>1
<1>2. BlocksApart'
  <2>1. brk \in Int /\ brk' = brk
    BY HMallocAssumption DEF TypeOK
  <2>2. brk <= brk' /\ brk' \in Int
    BY <2>1
  <2> QED BY <2>2, <1>1, BlocksApartKept
<1>3. ListIsChain'
  BY <1>1, ListKept DEF Blocks
<1> QED BY <1>1, <1>2, <1>3

(* hcalloc writes inside the block it holds and then hands it over. *)
LEMMA ClearKeeps ==
  ASSUME IInv, Clear
  PROVE  /\ IInv' /\ Blocks' = Blocks
         /\ \A p \in Blocks : mem'[p] = mem[p]
<1> USE DEF IInv, HeapInv
<1>1. /\ pc = "clear" /\ cur \in Blocks /\ cur \in Int /\ cur \in Addr /\ META \in Nat
      /\ cur + META \in Nat /\ (cur + META) - META = cur /\ bytes \in 0..INTMAX
      /\ 0 \in 0..INTMAX
  <2>1. pc = "clear" /\ cur \in Blocks /\ bytes \in 0..INTMAX
    BY DEF Clear, Blocks, TypeOK
  <2>2. cur \in Int /\ cur \in Addr
    BY <2>1, MetadataApart
  <2> QED BY <2>1, <2>2, HMallocAssumption DEF META, Addr
<1>2. /\ mem' = [a \in Addr |-> IF a \in AreaOf(cur) THEN 0 ELSE mem[a]]
      /\ live' = [r \in DOMAIN live \union {cur + META} |->
                    IF r = cur + META THEN bytes ELSE live[r]]
      /\ zeroed' = zeroed \union {cur + META} /\ EndCall
      /\ UNCHANGED <<brk, free_list, chain>>
  BY DEF Clear, HandOver
<1>3. /\ DOMAIN live' = DOMAIN live \union {cur + META}
      /\ live'[cur + META] = bytes /\ \A q \in DOMAIN live : live'[q] = live[q]
      /\ pc' = "idle"
  <2>1. cur + META \notin DOMAIN live
    BY <1>1 DEF OwnedOnce
  <2> QED BY <2>1, <1>2 DEF EndCall
<1>4. Blocks' = Blocks
  BY <1>1, <1>2, <1>3 DEF Blocks
<1>5. /\ BlocksApart' /\ ListIsChain'
      /\ \A r \in Blocks : mem'[r] = mem[r]
  <2>1. \A a \in Addr \ AreaOf(cur) : mem'[a] = mem[a]
    BY <1>2
  <2> QED BY <2>1, <1>1, <1>2, <1>4, StoreKeepsHeap
<1>6. OwnedOnce'
  <2>1. /\ cur \notin ToSet(chain) /\ bytes <= mem'[cur]
    BY <1>1, <1>5 DEF OwnedOnce, Size
  <2>2. ASSUME NEW q \in DOMAIN live'
        PROVE  q - META \notin ToSet(chain) /\ live'[q] <= mem'[q - META]
    <3>1. CASE q = cur + META
      BY <3>1, <2>1, <1>1, <1>3
    <3>2. CASE q \in DOMAIN live
      BY <3>2, <1>3, <1>5, MembersAreBlocks DEF OwnedOnce, Size
    <3> QED BY <1>3, <3>1, <3>2
  <2> QED BY <2>2, <1>2, <1>3 DEF OwnedOnce, Size
<1>7. TypeOK'
  <2>1. mem' \in [Addr -> Int]
    BY <1>2 DEF TypeOK
  <2>2. live' \in [DOMAIN live' -> 0..INTMAX] /\ DOMAIN live' \subseteq Nat
    BY <1>1, <1>2, <1>3 DEF TypeOK
  <2>3. zeroed' \subseteq DOMAIN live'
    BY <1>2, <1>3 DEF TypeOK
  <2> QED BY <1>1, <1>2, <2>1, <2>2, <2>3 DEF TypeOK, EndCall
<1>8. SearchIsFirstFit' /\ TraverseInOrder'
  BY <1>3 DEF SearchIsFirstFit, TraverseInOrder
<1> QED BY <1>4, <1>5, <1>6, <1>7, <1>8

(* hfree puts the block in front of the chain. *)
LEMMA FreeKeeps ==
  ASSUME IInv, HeapFits, NEW q \in DOMAIN live, hfree(q)
  PROVE  /\ IInv' /\ Blocks' = Blocks
         /\ \A p \in Blocks : mem'[p] = mem[p]
         /\ ToSet(chain)' = ToSet(chain) \union {q - META}
<1> USE DEF IInv, HeapInv
<1> DEFINE p == q - META
<1>1. p \in Blocks /\ p \in Addr /\ p \in Int /\ p + WORD \in Addr /\ p \notin ToSet(chain)
  BY MembersAreBlocks, MetadataApart DEF OwnedOnce
<1>2. /\ pc = "idle" /\ free_list' = p /\ chain' = Cons(p, chain)
      /\ mem' = [mem EXCEPT ![p + WORD] = IF free_list = NULL THEN 0 ELSE ToInt(free_list - p)]
      /\ live' = [r \in DOMAIN live \ {q} |-> live[r]] /\ zeroed' = zeroed \ {q}
      /\ UNCHANGED <<brk, pc, op, bytes, cur, prev, index>>
  BY DEF hfree, thread
<1>3. /\ chain \in Seq(Addr) /\ Len(chain) \in Nat
      /\ \A i \in 1..Len(chain) : chain[i] \in Blocks /\ chain[i] \in Addr
  BY MembersAreBlocks
<1>4. /\ chain' \in Seq(Addr) /\ Len(chain') = Len(chain) + 1 /\ chain'[1] = p
      /\ \A j \in 1..Len(chain) : chain'[j + 1] = chain[j]
  <2>1. chain \in Seq(Addr) /\ p \in Addr /\ chain' = Cons(p, chain)
    BY <1>1, <1>2, <1>3
  <2> HIDE DEF p
  <2> QED BY <2>1, ConsProperties
<1>5. \A i \in 1..Len(chain') : i = 1 \/ (i - 1 \in 1..Len(chain) /\ chain'[i] = chain[i - 1])
  <2> SUFFICES ASSUME NEW i \in 1..Len(chain'), i # 1
               PROVE  i - 1 \in 1..Len(chain) /\ chain'[i] = chain[i - 1]
    OBVIOUS
  <2>1. i - 1 \in 1..Len(chain) /\ (i - 1) + 1 = i
    BY <1>3, <1>4
  <2> QED BY <2>1, <1>4
<1>6. ToSet(chain)' = ToSet(chain) \union {p}
  <2>1. ASSUME NEW x \in ToSet(chain') PROVE x \in ToSet(chain) \union {p}
    <3>1. PICK i \in 1..Len(chain') : chain'[i] = x
      BY <1>4, <2>1, ToSetMember
    <3>2. CASE i = 1
      BY <3>1, <3>2, <1>4
    <3>3. CASE i # 1
      <4>1. i - 1 \in 1..Len(chain) /\ chain[i - 1] = x
        BY <3>1, <3>3, <1>5
      <4> QED BY <4>1, <1>3, ToSetMember
    <3> QED BY <3>2, <3>3
  <2>2. p \in ToSet(chain')
    <3>1. 1 \in 1..Len(chain')
      BY <1>3, <1>4
    <3> QED BY <3>1, <1>4, ToSetMember
  <2>3. ASSUME NEW x \in ToSet(chain) PROVE x \in ToSet(chain')
    <3>1. PICK j \in 1..Len(chain) : chain[j] = x
      BY <1>3, <2>3, ToSetMember
    <3>2. j + 1 \in 1..Len(chain')
      BY <1>3, <1>4
    <3> QED BY <3>1, <3>2, <1>4, ToSetMember
  <2> QED BY <2>1, <2>2, <2>3
<1>7. DOMAIN live' = DOMAIN live \ {q} /\ \A r \in DOMAIN live' : live'[r] = live[r]
  BY <1>2
<1>8. \A r \in DOMAIN live : r - META = p => r = q
  <2>1. META \in Int /\ DOMAIN live \subseteq Nat
    BY HMallocAssumption DEF META, TypeOK
  <2> QED BY <2>1
<1>9. Blocks' = Blocks
  <2>1. {r - META : r \in DOMAIN live} = {r - META : r \in DOMAIN live'} \union {p}
    BY <1>7
  <2> QED BY <2>1, <1>2, <1>6 DEF Blocks
<1>10. /\ mem \in [Addr -> Int]
       /\ mem' = [mem EXCEPT ![p + WORD] = IF chain = <<>> THEN 0 ELSE chain[1] - p]
       /\ chain # <<>> => chain[1] \in Addr /\ chain[1] \in Int /\ 1 \in 1..Len(chain)
  <2>1. CASE chain = <<>>
    BY <2>1, <1>2 DEF TypeOK, ListIsChain
  <2>2. CASE chain # <<>>
    <3>1. 1 \in 1..Len(chain) /\ free_list = chain[1]
      BY <2>2, <1>3, EmptySeq DEF ListIsChain
    <3>2. free_list \in Addr /\ free_list \in Int
      BY <3>1, <1>3, HMallocAssumption DEF Addr
    <3>3. free_list # NULL
      BY <3>2, HMallocAssumption DEF Addr, NULL
    <3>4. /\ free_list - p \in Int /\ -INTMAX - 1 <= free_list - p
          /\ free_list - p <= INTMAX
      BY <1>1, <3>2, HMallocAssumption DEF Addr, HeapFits
    <3>5. ToInt(free_list - p) = chain[1] - p
      BY <3>1, <3>4, ToIntExact
    <3> QED BY <2>2, <3>1, <3>2, <3>3, <3>5, <1>2 DEF TypeOK
  <2> QED BY <2>1, <2>2
<1>11. /\ mem' \in [Addr -> Int]
       /\ mem'[p + WORD] = IF chain = <<>> THEN 0 ELSE chain[1] - p
  <2>1. (IF chain = <<>> THEN 0 ELSE chain[1] - p) \in Int
    BY <1>1, <1>10
  <2> QED BY <2>1, <1>1, <1>10
<1>12. \A r \in Blocks : mem'[r] = mem[r] /\ (r # p => mem'[r + WORD] = mem[r + WORD])
  <2> SUFFICES ASSUME NEW r \in Blocks
               PROVE  mem'[r] = mem[r] /\ (r # p => mem'[r + WORD] = mem[r + WORD])
    OBVIOUS
  <2>1. /\ r \in Addr /\ r + WORD \in Addr /\ r # p + WORD
        /\ r # p => r + WORD # p + WORD
    BY <1>1, MetadataApart
  <2> QED BY <2>1, <1>10, <1>11
<1>13. BlocksApart'
  <2>1. brk' \in Int /\ brk <= brk'
    BY <1>2, HMallocAssumption DEF TypeOK
  <2> QED BY <2>1, <1>9, <1>12, BlocksApartKept
<1>14. ASSUME NEW i \in 1..Len(chain')
       PROVE  mem'[chain'[i] + WORD] =
                IF i = Len(chain') THEN 0 ELSE chain'[i + 1] - chain'[i]
  <2>1. CASE i = 1
    <3>1. CASE chain = <<>>
      <4>1. i = Len(chain')
        BY <2>1, <3>1, <1>4
      <4> QED BY <2>1, <3>1, <4>1, <1>4, <1>11
    <3>2. CASE chain # <<>>
      <4>1. 1 \in 1..Len(chain)
        BY <3>2, <1>10
      <4>2. i # Len(chain')
        BY <2>1, <4>1, <1>3, <1>4
      <4>3. chain'[1 + 1] = chain[1]
        BY <4>1, <1>4
      <4> QED BY <2>1, <3>2, <4>2, <4>3, <1>4, <1>11
    <3> QED BY <3>1, <3>2
  <2>2. CASE i # 1
    <3>1. i - 1 \in 1..Len(chain) /\ chain'[i] = chain[i - 1]
      BY <2>2, <1>5
    <3>2. chain[i - 1] \in Blocks /\ chain[i - 1] # p
      BY <3>1, <1>1, <1>3, ToSetMember
    <3>3. mem'[chain[i - 1] + WORD] = mem[chain[i - 1] + WORD]
      BY <3>2, <1>12
    <3>4. mem[chain[i - 1] + WORD] =
            IF i - 1 = Len(chain) THEN 0 ELSE chain[(i - 1) + 1] - chain[i - 1]
      BY <3>1, MembersAreBlocks DEF ListIsChain, Offset
    <3>5. /\ i - 1 = Len(chain) <=> i = Len(chain') 
          /\ (i - 1) + 1 = i
      BY <1>3, <1>4
    <3>6. i # Len(chain') => i \in 1..Len(chain)
      BY <1>3, <1>4
    <3>7. i # Len(chain') => chain'[i + 1] = chain[i]
      BY <3>6, <1>4
    <3> QED BY <3>1, <3>3, <3>4, <3>5, <3>7
  <2> QED BY <2>1, <2>2
<1>15. ASSUME NEW i \in 1..Len(chain'), NEW j \in 1..Len(chain'), chain'[i] = chain'[j]
       PROVE  i = j
  <2>1. \A n \in 1..Len(chain) : chain[n] # p
    BY <1>1, <1>3, ToSetMember
  <2>2. i \in Int /\ j \in Int
    OBVIOUS
  <2>3. CASE i = 1 \/ j = 1
    BY <2>1, <2>3, <1>4, <1>5, <1>15
  <2>4. CASE i # 1 /\ j # 1
    <3>1. /\ i - 1 \in 1..Len(chain) /\ j - 1 \in 1..Len(chain)
          /\ chain[i - 1] = chain[j - 1]
      BY <2>4, <1>5, <1>15
    <3>2. i - 1 = j - 1
      BY <3>1, MembersAreBlocks DEF ListIsChain
    <3> QED BY <2>2, <3>2
  <2> QED BY <2>3, <2>4
<1>16. ListIsChain'
  <2>1. DOMAIN chain' = 1..Len(chain')
    BY <1>4, LenProperties
  <2>2. chain' # <<>> /\ free_list' = chain'[1]
    BY <1>2, <1>3, <1>4, EmptySeq
  <2> QED BY <2>1, <2>2, <1>14, <1>15 DEF ListIsChain, Offset
<1>17. OwnedOnce'
  <2>1. ASSUME NEW r \in DOMAIN live'
        PROVE  r - META \notin ToSet(chain)' /\ live'[r] <= mem'[r - META]
    BY <1>6, <1>7, <1>8, <1>12, MembersAreBlocks DEF OwnedOnce, Size
  <2> QED BY <2>1, <1>2 DEF OwnedOnce, Size
<1>18. TypeOK'
  <2>1. live' \in [DOMAIN live' -> 0..INTMAX] /\ DOMAIN live' \subseteq Nat
    BY <1>2, <1>7 DEF TypeOK
  <2>2. zeroed' \subseteq DOMAIN live'
    BY <1>2, <1>7 DEF TypeOK
  <2> QED BY <1>1, <1>2, <1>4, <1>11, <2>1, <2>2 DEF TypeOK
<1>19. SearchIsFirstFit' /\ TraverseInOrder'
  BY <1>2 DEF SearchIsFirstFit, TraverseInOrder
<1> QED BY <1>6, <1>9, <1>12, <1>13, <1>16, <1>17, <1>18, <1>19

(* The caller's stores land in its own areas; other code takes new cells. *)
LEMMA CallerKeeps ==
  ASSUME IInv,
         \/ \E q \in DOMAIN live : \E a \in Usable(q), v \in Data : CallerWrites(q, a, v)
         \/ \E n \in Foreign : ForeignSbrk(n)
  PROVE  /\ IInv' /\ Blocks' = Blocks
         /\ \A p \in Blocks : mem'[p] = mem[p]
<1> USE DEF IInv, HeapInv
<1>1. ASSUME NEW q \in DOMAIN live, NEW a \in Usable(q), NEW v \in Data, CallerWrites(q, a, v)
      PROVE  IInv' /\ Blocks' = Blocks /\ \A p \in Blocks : mem'[p] = mem[p]
  <2>1. /\ pc = "idle" /\ mem' = [mem EXCEPT ![a] = v] /\ zeroed' = zeroed \ {q}
        /\ UNCHANGED <<brk, free_list, pc, op, bytes, cur, prev, index, live, chain>>
    BY <1>1 DEF CallerWrites, thread
  <2>2. q - META \in Blocks /\ live[q] <= Size(q - META)
    BY MembersAreBlocks DEF OwnedOnce
  <2>3. a \in AreaOf(q - META)
    <3>1. q \in Int /\ live[q] \in Int /\ META \in Int /\ Size(q - META) \in Nat
      BY <2>2, MetadataApart, HMallocAssumption DEF META, TypeOK
    <3>2. a \in q .. q + live[q] - 1
      BY <1>1 DEF Usable
    <3> QED BY <2>2, <3>1, <3>2 DEF AreaOf
  <2>4. \A b \in Addr \ AreaOf(q - META) : mem'[b] = mem[b]
    BY <2>1, <2>3 DEF TypeOK
  <2>5. Blocks' = Blocks
    BY <2>1 DEF Blocks
  <2>6. BlocksApart' /\ ListIsChain' /\ \A r \in Blocks : mem'[r] = mem[r]
    BY <2>1, <2>2, <2>4, <2>5, StoreKeepsHeap
  <2>7. OwnedOnce'
    BY <2>1, <2>6, MembersAreBlocks DEF OwnedOnce, Size
  <2>8. TypeOK'
    <3>1. mem' \in [Addr -> Int]
      BY <2>1, HMallocAssumption DEF TypeOK
    <3> QED BY <2>1, <3>1 DEF TypeOK
  <2> QED BY <2>1, <2>5, <2>6, <2>7, <2>8 DEF SearchIsFirstFit, TraverseInOrder
<1>2. ASSUME NEW n \in Foreign, ForeignSbrk(n)
      PROVE  IInv' /\ Blocks' = Blocks /\ \A p \in Blocks : mem'[p] = mem[p]
  <2>1. /\ pc = "idle" /\ brk' = brk + n /\ brk + n <= HEAPMAX
        /\ UNCHANGED <<mem, free_list, pc, op, bytes, cur, prev, index, live, zeroed, chain>>
    BY <1>2 DEF ForeignSbrk, thread
  <2>2. brk' \in HEAPBASE..HEAPMAX /\ brk <= brk'
    BY <2>1, HMallocAssumption DEF TypeOK
  <2>3. Blocks' = Blocks
    BY <2>1 DEF Blocks
  <2>4. BlocksApart'
    <3>1. brk' \in Int
      BY <2>2, HMallocAssumption
    <3> QED BY <2>1, <2>2, <2>3, <3>1, BlocksApartKept
  <2>5. ListIsChain' /\ OwnedOnce'
    BY <2>1 DEF ListIsChain, OwnedOnce, Offset, Size
  <2>6. TypeOK' /\ SearchIsFirstFit' /\ TraverseInOrder'
    BY <2>1, <2>2 DEF TypeOK, SearchIsFirstFit, TraverseInOrder
  <2> QED BY <2>1, <2>3, <2>4, <2>5, <2>6
<1> QED BY <1>1, <1>2

LEMMA StutterKeeps ==
  ASSUME IInv, UNCHANGED vars
  PROVE  IInv'
<1>1. Blocks' = Blocks
  BY DEF Blocks, vars, thread
<1>2. BlocksApart'
  BY <1>1 DEF IInv, HeapInv, BlocksApart, Size, vars
<1>3. ListIsChain' /\ OwnedOnce'
  BY DEF IInv, HeapInv, ListIsChain, OwnedOnce, Offset, Size, vars, thread
<1>4. TypeOK' /\ SearchIsFirstFit' /\ TraverseInOrder'
  BY DEF IInv, TypeOK, SearchIsFirstFit, TraverseInOrder, Size, vars, thread
<1> QED BY <1>2, <1>3, <1>4 DEF IInv, HeapInv

--------------------------------------------------------------------------------
LEMMA InitHolds == Init => IInv
<1> SUFFICES ASSUME Init PROVE IInv
  OBVIOUS
<1>1. Blocks = {}
  BY DEF Init, Blocks, ToSet
<1>2. HeapInv /\ SearchIsFirstFit /\ TraverseInOrder
  BY <1>1 DEF Init, HeapInv, BlocksApart, ListIsChain, OwnedOnce,
              SearchIsFirstFit, TraverseInOrder
<1>3. TypeOK
  <2>1. mem \in [Addr -> Int] /\ brk \in HEAPBASE..HEAPMAX /\ bytes \in 0..INTMAX
    BY HMallocAssumption DEF Init
  <2> QED BY <2>1 DEF Init, TypeOK
<1> QED BY <1>2, <1>3 DEF IInv

LEMMA NextKeeps ==
  ASSUME IInv, HeapFits, [Next]_vars
  PROVE  IInv'
<1>1. CASE Step
  BY <1>1, AdvanceKeeps, GiveUpKeeps, TakeKeeps, ExtendKeeps, FaultKeeps, ClearKeeps,
     TraverseKeeps DEF Step
<1>2. CASE \E n \in Requests : Call("hmalloc", n) \/ Call("hcalloc", n)
  BY <1>2, CallKeeps
<1>3. CASE \E q \in DOMAIN live : hfree(q)
  BY <1>3, FreeKeeps
<1>4. CASE Traverse
  BY <1>4, TraverseKeeps
<1>5. CASE \/ \E q \in DOMAIN live : \E a \in Usable(q), v \in Data : CallerWrites(q, a, v)
           \/ \E n \in Foreign : ForeignSbrk(n)
  BY <1>5, CallerKeeps
<1>6. CASE UNCHANGED vars
  BY <1>6, StutterKeeps
<1> QED BY <1>1, <1>2, <1>3, <1>4, <1>5, <1>6 DEF Next, Caller

(* The whole invariant holds in every state of every execution. *)
THEOREM InvariantHolds ==
  ASSUME HeapFits
  PROVE  Spec => []IInv
<1>1. IInv /\ [Next]_vars => IInv'
  BY NextKeeps
<1> QED BY <1>1, InitHolds, PTL DEF Spec

(* Type correctness. *)
THEOREM TypeCorrect ==
  ASSUME HeapFits
  PROVE  Spec => []TypeOK
BY InvariantHolds, PTL DEF IInv

(* hmalloc never hands out memory that overlaps another area or metadata. *)
THEOREM BlocksNeverOverlap ==
  ASSUME HeapFits
  PROVE  Spec => [](BlocksApart /\ OwnedOnce)
BY InvariantHolds, PTL DEF IInv, HeapInv

(* No block is the caller's and free at once, none is handed out twice, and
   each is as long as was asked. *)
THEOREM OwnershipExclusive ==
  ASSUME HeapFits
  PROVE  Spec => []OwnedOnce
BY InvariantHolds, PTL DEF IInv, HeapInv

(* The free list is at every moment exactly the freed blocks, newest first. *)
THEOREM FreeListIsChain ==
  ASSUME HeapFits
  PROVE  Spec => []ListIsChain
BY InvariantHolds, PTL DEF IInv, HeapInv

(* hmalloc asks the system for memory only when no free block is big enough. *)
THEOREM FirstFitSearch ==
  ASSUME HeapFits
  PROVE  Spec => []SearchIsFirstFit
BY InvariantHolds, PTL DEF IInv

(* traverse visits the free areas in list order, index and area together. *)
THEOREM TraversalInOrder ==
  ASSUME HeapFits
  PROVE  Spec => []TraverseInOrder
BY InvariantHolds, PTL DEF IInv

--------------------------------------------------------------------------------
(* The caller's part of an area lies inside the area, below the break, and
   meets neither metadata nor another area. *)
LEMMA UsableCells ==
  ASSUME TypeOK, BlocksApart, OwnedOnce, NEW q \in DOMAIN live, NEW a \in Usable(q)
  PROVE  /\ a \in Addr /\ a \in Int /\ a < brk /\ q - META \in Blocks
         /\ \A r \in Blocks : a # r /\ a # r + WORD
         /\ \A r \in Blocks : r # q - META => a \notin AreaOf(r)
<1>1. q - META \in Blocks /\ live[q] <= Size(q - META)
  BY MembersAreBlocks DEF OwnedOnce
<1>2. /\ q \in Int /\ live[q] \in Int /\ META \in Int /\ META >= 0 /\ brk \in Int
      /\ Size(q - META) \in Nat /\ q - META \in Int
  BY <1>1, MetadataApart, HMallocAssumption DEF META, TypeOK
<1>3. a \in Int /\ q <= a /\ a < q + live[q]
  BY <1>2 DEF Usable
<1>4. a \in AreaOf(q - META)
  BY <1>1, <1>2, <1>3 DEF AreaOf
<1>5. a < brk
  <2>1. (q - META) + META + Size(q - META) <= brk
    BY <1>1 DEF BlocksApart
  <2> QED BY <2>1, <1>1, <1>2, <1>3
<1>6. ASSUME NEW r \in Blocks, r # q - META
      PROVE  a \notin AreaOf(r)
  <2>1. \/ r + META + Size(r) <= q - META
        \/ (q - META) + META + Size(q - META) <= r
    BY <1>1, <1>6 DEF BlocksApart
  <2>2. r \in Int /\ Size(r) \in Nat
    BY MetadataApart
  <2> QED BY <2>1, <2>2, <1>1, <1>2, <1>3 DEF AreaOf
<1> QED BY <1>1, <1>3, <1>4, <1>5, <1>6, MetadataApart

(* No call changes an area that stays the caller's. *)
LEMMA CallsKeepAreas ==
  ASSUME IInv, NEW q \in DOMAIN live, q \in DOMAIN live', NEW a \in Usable(q),
         \/ Step \/ Traverse
         \/ \E n \in Requests : Call("hmalloc", n) \/ Call("hcalloc", n)
         \/ \E r \in DOMAIN live : hfree(r)
         \/ \E n \in Foreign : ForeignSbrk(n)
  PROVE  mem'[a] = mem[a]
<1> USE DEF IInv, HeapInv
<1>1. /\ a \in Addr /\ a \in Int /\ a < brk /\ q - META \in Blocks /\ mem \in [Addr -> Int]
      /\ \A r \in Blocks : a # r /\ a # r + WORD
      /\ \A r \in Blocks : r # q - META => a \notin AreaOf(r)
  BY UsableCells DEF TypeOK
<1>2. CASE Take
  <2>1. CASE UnlinkOnly \/ UnlinkHead
    BY <2>1 DEF UnlinkOnly, UnlinkHead
  <2>2. CASE UnlinkLast \/ UnlinkInner
    <3>1. prev # NULL /\ pc = "search"
      BY <1>2, <2>2 DEF UnlinkLast, UnlinkInner, Take
    <3>2. prev \in Blocks
      <4>1. PICK k \in 1..Len(chain) : prev = IF k = 1 THEN NULL ELSE chain[k - 1]
        BY <3>1, SearchPosition
      <4>2. k # 1 => k - 1 \in 1..Len(chain)
        BY MembersAreBlocks
      <4> QED BY <3>1, <4>1, <4>2, MembersAreBlocks
    <3> QED BY <2>2, <3>2, <1>1 DEF UnlinkLast, UnlinkInner
  <2> QED BY <1>2, <2>1, <2>2 DEF Take
<1>3. CASE Extend
  <2>1. a # brk /\ a # brk + WORD
    BY <1>1, HMallocAssumption DEF TypeOK
  <2> QED BY <1>1, <1>3, <2>1 DEF Extend
<1>4. CASE Clear
  <2>1. cur \in Blocks /\ cur + META \notin DOMAIN live /\ cur \in Int
    BY <1>4, MetadataApart DEF Clear, Blocks, OwnedOnce
  <2>2. cur # q - META
    BY <2>1, HMallocAssumption DEF META, TypeOK
  <2> QED BY <2>1, <2>2, <1>1, <1>4 DEF Clear
<1>5. CASE \E r \in DOMAIN live : hfree(r)
  BY <1>1, <1>5, MembersAreBlocks DEF hfree
<1>6. CASE \/ Advance \/ GiveUp \/ ExtendFaults \/ Traverse \/ TraverseNext \/ TraverseEnd
           \/ \E n \in Requests : Call("hmalloc", n) \/ Call("hcalloc", n)
           \/ \E n \in Foreign : ForeignSbrk(n)
  BY <1>6 DEF Advance, GiveUp, ExtendFaults, Traverse, TraverseNext, TraverseEnd,
              Call, ForeignSbrk
<1> QED BY <1>2, <1>3, <1>4, <1>5, <1>6 DEF Step

(* What a caller stored stays there: only its own stores change its areas. *)
THEOREM AreasBelongToCallers ==
  ASSUME HeapFits
  PROVE  Spec => AreasAreTheCallers
<1>1. IInv /\ [Next]_vars =>
        [ \/ \E q \in DOMAIN live : \E a \in Usable(q), v \in Data : CallerWrites(q, a, v)
          \/ \A q \in DOMAIN live \intersect DOMAIN live' :
               \A a \in Usable(q) : mem'[a] = mem[a] ]_vars
  BY CallsKeepAreas DEF Next, Caller
<1> QED BY <1>1, InvariantHolds, PTL DEF Spec, AreasAreTheCallers

(* A pointer about to be handed out is no one's yet. *)
LEMMA FreshPointer ==
  ASSUME IInv
  PROVE  /\ pc = "search" => cur + META \notin DOMAIN live
         /\ pc = "extend" => brk + META \notin DOMAIN live
<1> USE DEF IInv, HeapInv
<1>1. ASSUME pc = "search" PROVE cur + META \notin DOMAIN live
  <2>1. cur \in ToSet(chain) /\ cur \in Int
    BY <1>1, SearchPosition, MembersAreBlocks, MetadataApart, ToSetMember
  <2>2. (cur + META) - META = cur
    BY <2>1, HMallocAssumption DEF META
  <2> QED BY <2>1, <2>2 DEF OwnedOnce
<1>2. brk + META \notin DOMAIN live
  <2>1. (brk + META) - META = brk /\ brk \in Int /\ META \in Nat \ {0}
    BY HMallocAssumption DEF META, TypeOK
  <2>2. ASSUME brk \in Blocks PROVE FALSE
    <3>1. Size(brk) \in Nat /\ brk + META + Size(brk) <= brk
      BY <2>2, MetadataApart DEF BlocksApart
    <3> QED BY <2>1, <3>1
  <2> QED BY <2>1, <2>2, MembersAreBlocks
<1> QED BY <1>1, <1>2

(* While a pointer stays the caller's, so does the length it was asked with. *)
LEMMA LengthsKept ==
  ASSUME IInv, [Next]_vars, NEW q \in DOMAIN live, q \in DOMAIN live'
  PROVE  live'[q] = live[q]
<1>1. CASE Take \/ Extend \/ Clear
  <2>1. UNCHANGED live \/ \E p \in {cur, brk} : HandOver(p + META) /\ p + META \notin DOMAIN live
    BY <1>1, FreshPointer DEF Take, Extend, Clear, Return, IInv, HeapInv, OwnedOnce
  <2> QED BY <2>1 DEF HandOver
<1>2. CASE \/ Advance \/ GiveUp \/ ExtendFaults \/ TraverseNext \/ TraverseEnd
           \/ Caller \/ UNCHANGED vars
  BY <1>2 DEF Advance, GiveUp, ExtendFaults, TraverseNext, TraverseEnd,
              Caller, Call, hfree, Traverse, CallerWrites, ForeignSbrk, vars
<1> QED BY <1>1, <1>2 DEF Next, Step

(* Only hcalloc's clearing makes a pointer count as zeroed. *)
LEMMA ZeroedOnlyByClear ==
  ASSUME [Next]_vars, ~Clear, NEW q \in zeroed'
  PROVE  q \in zeroed
BY DEF Next, Step, Caller, Take, Extend, Advance, GiveUp, ExtendFaults, TraverseNext,
       TraverseEnd, Call, hfree, Traverse, CallerWrites, ForeignSbrk, vars

(* A caller that writes in one of its areas leaves its other areas alone. *)
LEMMA WritesKeepOtherAreas ==
  ASSUME IInv, NEW r \in DOMAIN live, NEW b \in Usable(r), NEW v \in Data,
         CallerWrites(r, b, v),
         NEW q \in DOMAIN live, q # r, NEW a \in Usable(q)
  PROVE  mem'[a] = mem[a]
<1> USE DEF IInv, HeapInv
<1>1. q - META \in Blocks /\ r - META \in Blocks /\ live[r] <= Size(r - META)
  BY MembersAreBlocks DEF OwnedOnce
<1>2. /\ r \in Int /\ q \in Int /\ live[r] \in Int /\ META \in Int
      /\ Size(r - META) \in Nat
  <2>1. r \in Nat /\ q \in Nat /\ live[r] \in 0..INTMAX
    BY DEF TypeOK
  <2>2. META \in Int /\ INTMAX \in Nat
    BY HMallocAssumption DEF META
  <2>3. Size(r - META) \in Nat
    BY <1>1, MetadataApart
  <2> QED BY <2>1, <2>2, <2>3
<1>3. r - META # q - META
  BY <1>2
<1>4. a \in Addr /\ a \notin AreaOf(r - META)
  BY <1>1, <1>3, UsableCells
<1>5. b \in AreaOf(r - META)
  BY <1>1, <1>2 DEF Usable, AreaOf
<1> QED BY <1>4, <1>5 DEF CallerWrites, TypeOK

(* What hcalloc cleared reads as zero until the caller writes there. *)
THEOREM ClearedAreasStayZero ==
  ASSUME HeapFits
  PROVE  Spec => []ZeroedStaysZero
<1>1. Init => ZeroedStaysZero
  BY DEF Init, ZeroedStaysZero
<1>2. ASSUME IInv, IInv', ZeroedStaysZero, [Next]_vars,
             NEW q \in zeroed', NEW a \in q .. q + live'[q] - 1
      PROVE  mem'[a] = 0
  <2>1. CASE Clear /\ q = cur + META
    <3>1. /\ cur \in Blocks /\ bytes <= Size(cur) /\ live'[q] = bytes
          /\ mem' = [b \in Addr |-> IF b \in AreaOf(cur) THEN 0 ELSE mem[b]]
      BY <1>2, <2>1 DEF Clear, HandOver, Blocks, IInv, HeapInv, OwnedOnce
    <3>2. /\ cur \in Int /\ Size(cur) \in Nat /\ AreaOf(cur) \subseteq Addr
          /\ bytes \in Int /\ META \in Int
      <4>1. /\ cur \in Int /\ Size(cur) \in Nat /\ AreaOf(cur) \subseteq Addr
        BY <1>2, <3>1, MetadataApart DEF IInv, HeapInv
      <4>2. bytes \in 0..INTMAX
        BY <1>2 DEF IInv, TypeOK
      <4> QED BY <4>1, <4>2, HMallocAssumption DEF META
    <3>3. a \in AreaOf(cur)
      BY <1>2, <2>1, <3>1, <3>2 DEF AreaOf
    <3> QED BY <3>1, <3>2, <3>3
  <2>2. CASE ~(Clear /\ q = cur + META)
    <3>1. q \in zeroed
      BY <1>2, <2>2, ZeroedOnlyByClear DEF Clear
    <3>2. q \in DOMAIN live /\ q \in DOMAIN live'
      BY <1>2, <3>1 DEF IInv, TypeOK
    <3>3. a \in Usable(q)
      BY <1>2, <3>2, LengthsKept DEF Usable
    <3>4. mem[a] = 0
      BY <1>2, <3>1, <3>3 DEF ZeroedStaysZero
    <3>5. CASE UNCHANGED vars
      BY <3>4, <3>5 DEF vars
    <3>6. CASE \E r \in DOMAIN live : \E b \in Usable(r), v \in Data : CallerWrites(r, b, v)
      <4>1. PICK r \in DOMAIN live : \E b \in Usable(r), v \in Data : CallerWrites(r, b, v)
        BY <3>6
      <4>2. q # r
        BY <1>2, <4>1 DEF CallerWrites
      <4>3. mem'[a] = mem[a]
        BY <1>2, <3>2, <3>3, <4>1, <4>2, WritesKeepOtherAreas
      <4> QED BY <3>4, <4>3
    <3>7. CASE \/ Step \/ Traverse
               \/ \E n \in Requests : Call("hmalloc", n) \/ Call("hcalloc", n)
               \/ \E r \in DOMAIN live : hfree(r)
               \/ \E n \in Foreign : ForeignSbrk(n)
      <4>1. mem'[a] = mem[a]
        BY <1>2, <3>2, <3>3, <3>7, CallsKeepAreas
      <4> QED BY <3>4, <4>1
    <3> QED BY <1>2, <3>5, <3>6, <3>7 DEF Next, Caller
  <2> QED BY <2>1, <2>2
<1>3. IInv /\ IInv' /\ ZeroedStaysZero /\ [Next]_vars => ZeroedStaysZero'
  BY <1>2 DEF ZeroedStaysZero, Usable
<1> QED BY <1>1, <1>3, InvariantHolds, PTL DEF Spec
--------------------------------------------------------------------------------
(***************************************************************************)
(* The allocator implements FirstFit: the pool is the chain of free blocks *)
(* and what is held is every other block, seen as areas.                   *)
(***************************************************************************)
Pool == [i \in DOMAIN chain |-> AsArea(chain[i])]
Held == {AsArea(p) : p \in Blocks \ ToSet(chain)}

(* A search is for a number somebody asked for. *)
Asked == pc \in {"search", "extend"} => bytes \in Requests

LEMMA SearchesAreAsked ==
  Spec => []Asked
<1>1. Init => Asked
  BY DEF Init, Asked
<1>2. ASSUME Asked, [Next]_vars PROVE Asked'
  <2>1. CASE Advance \/ GiveUp \/ ExtendFaults \/ TraverseNext \/ TraverseEnd \/ Clear
    BY <1>2, <2>1 DEF Asked, Advance, GiveUp, ExtendFaults, TraverseNext, TraverseEnd, Clear,
                      EndCall
  <2>2. CASE Take \/ Extend
    BY <2>2 DEF Asked, Take, Extend, Return, EndCall
  <2>3. CASE Caller
    BY <1>2, <2>3 DEF Asked, Caller, Call, hfree, Traverse, CallerWrites, ForeignSbrk, thread
  <2>4. CASE UNCHANGED vars
    BY <1>2, <2>4 DEF Asked, vars, thread
  <2> QED BY <1>2, <2>1, <2>2, <2>3, <2>4 DEF Next, Step
<1> QED BY <1>1, <1>2, PTL DEF Spec

(* The pool as a sequence of areas. *)
LEMMA PoolOfChain ==
  ASSUME IInv
  PROVE  /\ Pool \in Seq([addr : Int, len : Int]) /\ Len(Pool) = Len(chain)
         /\ DOMAIN Pool = 1..Len(chain)
         /\ \A i \in 1..Len(chain) : Pool[i] = AsArea(chain[i])
         /\ ToSet(Pool) = {AsArea(p) : p \in ToSet(chain)}
<1>1. /\ Len(chain) \in Nat /\ DOMAIN chain = 1..Len(chain)
      /\ \A i \in 1..Len(chain) : chain[i] \in Int /\ Size(chain[i]) \in Int
  BY MembersAreBlocks, MetadataApart DEF IInv, HeapInv
<1>2. META \in Int
  BY HMallocAssumption DEF META
<1>3. Pool \in [1..Len(chain) -> [addr : Int, len : Int]]
  BY <1>1, <1>2 DEF Pool, AsArea
<1>4. Pool \in Seq([addr : Int, len : Int])
  BY <1>1, <1>3, SeqDef
<1>5. Len(Pool) = Len(chain)
  BY <1>1, <1>3, <1>4, LenProperties
<1>6. ToSet(Pool) = {AsArea(p) : p \in ToSet(chain)}
  BY <1>1 DEF ToSet, Pool
<1> QED BY <1>1, <1>3, <1>4, <1>5, <1>6 DEF Pool

(* The same of the next state. *)
PoolShape ==
  /\ Pool \in Seq([addr : Int, len : Int]) /\ Len(Pool) = Len(chain)
  /\ \A i \in 1..Len(chain) : Pool[i] = [addr |-> chain[i] + META, len |-> mem[chain[i]]]

LEMMA PoolShapeNext == IInv' => PoolShape'
<1>1. IInv => PoolShape
  BY PoolOfChain DEF PoolShape, AsArea, Size
<1> QED BY <1>1, PTL

(* Blocks at different places are different areas. *)
LEMMA AreasDiffer ==
  ASSUME IInv, NEW p \in Blocks, NEW r \in Blocks, AsArea(p) = AsArea(r)
  PROVE  p = r
<1>1. p \in Int /\ r \in Int /\ META \in Int
  BY MetadataApart, HMallocAssumption DEF IInv, HeapInv, META
<1>2. p + META = r + META
  BY DEF AsArea
<1> QED BY <1>1, <1>2

(* A block whose length a step keeps is the same area after it. *)
LEMMA AreaKept ==
  ASSUME NEW p, mem'[p] = mem[p]
  PROVE  [addr |-> p + META, len |-> Size(p)'] = AsArea(p)
BY DEF AsArea, Size

(* Two sequences of one length that agree everywhere. *)
LEMMA SameSequence ==
  ASSUME NEW S, NEW s \in Seq(S), NEW t \in Seq(S), Len(s) = Len(t),
         \A i \in 1..Len(s) : s[i] = t[i]
  PROVE  s = t
<1>1. /\ s \in [1..Len(s) -> S] /\ t \in [1..Len(t) -> S]
  BY LenProperties
<1> QED BY <1>1

(* A step that keeps the blocks, their lengths and the chain is none for the
   caller. *)
LEMMA QuietStep ==
  ASSUME IInv, Blocks' = Blocks, UNCHANGED chain, \A p \in Blocks : mem'[p] = mem[p]
  PROVE  UNCHANGED <<Pool, Held>>
<1>1. \A i \in DOMAIN chain : chain[i] \in Blocks
  BY MembersAreBlocks DEF IInv
<1>2. Pool' = Pool
  BY <1>1, AreaKept DEF Pool, AsArea
<1>3. Held' = Held
  BY AreaKept DEF Held, AsArea
<1> QED BY <1>2, <1>3

(* The first fit of the search is the first fit of the pool. *)
LEMMA TakeReuses ==
  ASSUME IInv, IInv', HeapFits, Take
  PROVE  Promise!Reuse(bytes)
<1>1. /\ Blocks' = Blocks /\ \A p \in Blocks : mem'[p] = mem[p]
      /\ ToSet(chain)' = ToSet(chain) \ {cur}
  BY TakeKeeps
<1>2. PICK k \in 1..Len(chain) :
        /\ cur = chain[k] /\ chain' = RemoveAt(chain, k)
        /\ \A i \in 1..k-1 : Size(chain[i]) < bytes
  BY TakeKeeps
<1>3. /\ Len(chain) \in Nat /\ k \in Int /\ 1 <= k /\ k <= Len(chain)
      /\ chain \in Seq(Addr)
      /\ \A i \in 1..Len(chain) : chain[i] \in Blocks /\ Size(chain[i]) \in Int
      /\ bytes \in Int /\ cur \in ToSet(chain)
  <2>1. /\ Len(chain) \in Nat /\ chain \in Seq(Addr)
        /\ \A i \in 1..Len(chain) : chain[i] \in Blocks
    BY MembersAreBlocks DEF IInv
  <2>2. \A i \in 1..Len(chain) : Size(chain[i]) \in Int
    BY <2>1, MetadataApart DEF IInv, HeapInv
  <2>3. bytes \in 0..INTMAX /\ INTMAX \in Nat
    BY HMallocAssumption DEF IInv, TypeOK
  <2> QED BY <1>2, <2>1, <2>2, <2>3, ToSetMember
<1>4. k \in Promise!Fits(bytes) /\ \A j \in Promise!Fits(bytes) : k <= j
  <2>1. Promise!Fits(bytes) = {i \in 1..Len(chain) : Size(chain[i]) >= bytes}
    BY PoolOfChain DEF Promise!Fits, Pool, AsArea
  <2>2. k \in Promise!Fits(bytes)
    BY <1>2, <2>1 DEF Take
  <2>3. ASSUME NEW j \in Promise!Fits(bytes) PROVE k <= j
    <3>1. j \in 1..Len(chain) /\ Size(chain[j]) >= bytes /\ j \in Int
      BY <1>3, <2>1
    <3>2. ~(j \in 1..k-1)
      BY <1>2, <1>3, <3>1
    <3> QED BY <1>3, <3>1, <3>2
  <2> QED BY <2>2, <2>3
<1>5. Held' = Held \union {Pool[k]}
  <2>1. Pool[k] = AsArea(cur) /\ cur \in Blocks
    BY <1>2, <1>3, PoolOfChain
  <2>2. Held' = {AsArea(p) : p \in Blocks \ (ToSet(chain) \ {cur})}
    BY <1>1, AreaKept DEF Held, AsArea
  <2> QED BY <1>3, <2>1, <2>2 DEF Held
<1>6. Pool' = RemoveAt(Pool, k)
  <2> DEFINE S == [addr : Int, len : Int]
  <2>1. /\ Pool \in Seq(S) /\ Len(Pool) = Len(chain)
        /\ \A i \in 1..Len(chain) : Pool[i] = AsArea(chain[i])
    BY PoolOfChain
  <2>2. /\ Pool' \in Seq(S) /\ Len(Pool') = Len(chain')
        /\ \A i \in 1..Len(chain') : Pool'[i] = [addr |-> chain'[i] + META, len |-> mem'[chain'[i]]]
    BY PoolShapeNext DEF PoolShape
  <2>3. /\ RemoveAt(Pool, k) \in Seq(S) /\ Len(RemoveAt(Pool, k)) = Len(chain) - 1
        /\ \A j \in 1..Len(chain)-1 :
             RemoveAt(Pool, k)[j] = IF j < k THEN Pool[j] ELSE Pool[j + 1]
    <3> HIDE DEF S
    <3> QED BY <2>1, RemoveAtProperties
  <2>4. /\ Len(chain') = Len(chain) - 1
        /\ \A j \in 1..Len(chain)-1 : chain'[j] = IF j < k THEN chain[j] ELSE chain[j + 1]
    BY <1>2, <1>3, RemoveAtProperties
  <2>5. ASSUME NEW j \in 1..Len(chain)-1 PROVE Pool'[j] = RemoveAt(Pool, k)[j]
    <3>1. j \in 1..Len(chain) /\ j + 1 \in 1..Len(chain)
      BY <1>3
    <3>2. PICK i \in 1..Len(chain) : chain'[j] = chain[i] /\ RemoveAt(Pool, k)[j] = Pool[i]
      BY <2>3, <2>4, <3>1
    <3>3. Pool'[j] = [addr |-> chain[i] + META, len |-> mem'[chain[i]]]
      BY <2>2, <2>4, <3>2
    <3>4. mem'[chain[i]] = mem[chain[i]]
      BY <1>1, <1>3
    <3> QED BY <2>1, <3>2, <3>3, <3>4 DEF AsArea, Size
  <2> HIDE DEF S
  <2> QED BY <2>2, <2>3, <2>4, <2>5, SameSequence
<1> QED BY <1>4, <1>5, <1>6
   DEF Promise!Reuse, Promise!RemoveAt, RemoveAt, Pool, Held

(* A block at the break is apart from every area there is. *)
LEMMA ExtendGrows ==
  ASSUME IInv, Extend
  PROVE  Promise!Grow(bytes)
<1>1. /\ Blocks' = Blocks \union {brk} /\ brk \in Addr /\ brk + META <= HEAPMAX
      /\ mem'[brk] = bytes /\ \A p \in Blocks : mem'[p] = mem[p]
      /\ UNCHANGED chain
  BY ExtendKeeps DEF Extend
<1>2. /\ META \in Nat \ {0} /\ brk \in Int /\ HEAPBASE \in Int /\ HEAPMAX \in Int
      /\ HEAPBASE <= brk /\ bytes \in Int /\ bytes >= 0
  <2>1. bytes \in 0..INTMAX /\ INTMAX \in Nat
    BY HMallocAssumption DEF IInv, TypeOK
  <2> QED BY <1>1, <2>1, HMallocAssumption DEF META, Addr
<1>3. Promise!Fits(bytes) = {}
  <2>1. Promise!Fits(bytes) = {i \in 1..Len(chain) : Size(chain[i]) >= bytes}
    BY PoolOfChain DEF Promise!Fits, Pool, AsArea
  <2>2. \A i \in 1..Len(chain) : Size(chain[i]) < bytes /\ Size(chain[i]) \in Int
    BY MembersAreBlocks, MetadataApart DEF IInv, HeapInv, SearchIsFirstFit, Extend
  <2> QED BY <1>2, <2>1, <2>2
<1> DEFINE new == [addr |-> brk + META, len |-> bytes]
<1>4. brk + META \in HEAPBASE + META .. HEAPMAX
  BY <1>1, <1>2
<1>5. ASSUME NEW p \in Blocks
      PROVE  Promise!Apart(new, AsArea(p)) /\ p # brk
  <2>1. p \in Int /\ Size(p) \in Nat /\ p + META + Size(p) <= brk
    BY MetadataApart DEF IInv, HeapInv, BlocksApart
  <2>2. p + META # brk + META /\ p + META + Size(p) <= brk + META /\ p # brk
    BY <1>2, <2>1
  <2> QED BY <2>2 DEF Promise!Apart, AsArea
<1>6. \A b \in Held \union ToSet(Pool) : Promise!Apart(new, b)
  <2>1. ToSet(Pool) = {AsArea(p) : p \in ToSet(chain)}
    BY PoolOfChain
  <2> QED BY <1>5, <2>1 DEF Held, Blocks
<1>7. Held' = Held \union {new}
  <2>1. ToSet(chain)' = ToSet(chain) /\ brk \notin ToSet(chain)
    BY <1>1, <1>5 DEF Blocks
  <2>2. Blocks' \ ToSet(chain)' = (Blocks \ ToSet(chain)) \union {brk}
    BY <1>1, <2>1
  <2>3. Held' = {[addr |-> p + META, len |-> mem'[p]] : p \in (Blocks \ ToSet(chain)) \union {brk}}
    BY <2>2 DEF Held, AsArea, Size
  <2> QED BY <1>1, <2>3 DEF Held, AsArea, Size
<1>8. Pool' = Pool
  <2>1. \A i \in DOMAIN chain : mem'[chain[i]] = mem[chain[i]]
    BY <1>1, MembersAreBlocks DEF IInv
  <2> QED BY <1>1, <2>1 DEF Pool, AsArea, Size
<1> QED BY <1>3, <1>4, <1>6, <1>7, <1>8
   DEF Promise!Grow, Promise!ToSet, ToSet, Pool, Held

(* hfree gives back the area it is called with, which becomes the newest. *)
LEMMA FreeFrees ==
  ASSUME IInv, IInv', HeapFits, NEW q \in DOMAIN live, hfree(q)
  PROVE  AsArea(q - META) \in Held /\ Promise!Free(AsArea(q - META))
<1> DEFINE p == q - META
<1>1. /\ Blocks' = Blocks /\ \A r \in Blocks : mem'[r] = mem[r]
      /\ ToSet(chain)' = ToSet(chain) \union {p} /\ chain' = Cons(p, chain)
  BY FreeKeeps DEF hfree
<1>2. /\ p \in Blocks /\ p \notin ToSet(chain) /\ p \in Addr /\ chain \in Seq(Addr)
      /\ Len(chain) \in Nat /\ \A i \in 1..Len(chain) : chain[i] \in Blocks
  BY MembersAreBlocks, MetadataApart DEF IInv, HeapInv, OwnedOnce
<1> HIDE DEF p
<1>3. AsArea(p) \in Held
  BY <1>2 DEF Held
<1>4. Held' = Held \ {AsArea(p)}
  <2>1. Held' = {AsArea(r) : r \in (Blocks \ ToSet(chain)) \ {p}}
    BY <1>1, AreaKept DEF Held, AsArea
  <2> QED BY <1>2, <2>1, AreasDiffer DEF Held
<1>5. Pool' = Cons(AsArea(p), Pool)
  <2> DEFINE S == [addr : Int, len : Int]
  <2>1. /\ Pool \in Seq(S) /\ Len(Pool) = Len(chain)
        /\ \A i \in 1..Len(chain) : Pool[i] = AsArea(chain[i])
    BY PoolOfChain
  <2>2. /\ Pool' \in Seq(S) /\ Len(Pool') = Len(chain')
        /\ \A i \in 1..Len(chain') : Pool'[i] = [addr |-> chain'[i] + META, len |-> mem'[chain'[i]]]
    BY PoolShapeNext DEF PoolShape
  <2>3. AsArea(p) \in S
    <3>1. p \in Int /\ Size(p) \in Int /\ META \in Int
      BY <1>2, MetadataApart, HMallocAssumption DEF IInv, HeapInv, META
    <3> QED BY <3>1 DEF AsArea
  <2>4. /\ Cons(AsArea(p), Pool) \in Seq(S) /\ Len(Cons(AsArea(p), Pool)) = Len(chain) + 1
        /\ Cons(AsArea(p), Pool)[1] = AsArea(p)
        /\ \A j \in 1..Len(chain) : Cons(AsArea(p), Pool)[j + 1] = Pool[j]
    <3> HIDE DEF S
    <3>1. AsArea(p) \in S /\ Pool \in Seq(S)
      BY <2>1, <2>3
    <3>2. /\ Cons(AsArea(p), Pool) \in Seq(S) /\ Len(Cons(AsArea(p), Pool)) = Len(Pool) + 1
          /\ Cons(AsArea(p), Pool)[1] = AsArea(p)
          /\ \A j \in 1..Len(Pool) : Cons(AsArea(p), Pool)[j + 1] = Pool[j]
      BY <3>1, ConsProperties
    <3> QED BY <2>1, <3>2
  <2>5. /\ Len(chain') = Len(chain) + 1 /\ chain'[1] = p
        /\ \A j \in 1..Len(chain) : chain'[j + 1] = chain[j]
    <3>1. p \in Addr /\ chain \in Seq(Addr) /\ chain' = Cons(p, chain)
      BY <1>1, <1>2
    <3> QED BY <3>1, ConsProperties
  <2>6. ASSUME NEW i \in 1..Len(chain)+1 PROVE Pool'[i] = Cons(AsArea(p), Pool)[i]
    <3>1. CASE i = 1
      <4>1. Pool'[1] = [addr |-> p + META, len |-> mem'[p]]
        BY <1>2, <2>2, <2>5
      <4> QED BY <3>1, <4>1, <1>1, <1>2, <2>4 DEF AsArea, Size
    <3>2. CASE i # 1
      <4>1. PICK j \in 1..Len(chain) : i = j + 1
        <5>1. i - 1 \in 1..Len(chain) /\ i = (i - 1) + 1
          BY <1>2, <3>2
        <5> QED BY <5>1
      <4>2. Pool'[i] = [addr |-> chain[j] + META, len |-> mem'[chain[j]]]
        BY <2>2, <2>5, <4>1
      <4>3. mem'[chain[j]] = mem[chain[j]]
        BY <1>1, <1>2
      <4> QED BY <2>1, <2>4, <4>1, <4>2, <4>3 DEF AsArea, Size
    <3> QED BY <3>1, <3>2
  <2> HIDE DEF S
  <2> QED BY <2>2, <2>4, <2>5, <2>6, SameSequence
<1>6. AsArea(p) \in Held /\ Promise!Free(AsArea(p))
  BY <1>3, <1>4, <1>5 DEF Promise!Free, Promise!Cons, Cons, Pool, Held
<1> QED BY <1>6 DEF p

(* Every other step leaves the caller's view as it is. *)
LEMMA OtherStepsQuiet ==
  ASSUME IInv,
         \/ Advance \/ GiveUp \/ ExtendFaults \/ Clear \/ TraverseNext \/ TraverseEnd
         \/ \E n \in Requests : Call("hmalloc", n) \/ Call("hcalloc", n)
         \/ Traverse
         \/ \E q \in DOMAIN live : \E a \in Usable(q), v \in Data : CallerWrites(q, a, v)
         \/ \E n \in Foreign : ForeignSbrk(n)
         \/ UNCHANGED vars
  PROVE  UNCHANGED <<Pool, Held>>
<1>1. Blocks' = Blocks /\ UNCHANGED chain /\ \A p \in Blocks : mem'[p] = mem[p]
  <2>1. CASE \/ Advance \/ GiveUp \/ ExtendFaults \/ TraverseNext \/ TraverseEnd \/ Traverse
             \/ \E n \in Requests : Call("hmalloc", n) \/ Call("hcalloc", n)
    BY <2>1 DEF Blocks, Advance, GiveUp, ExtendFaults, TraverseNext, TraverseEnd, EndCall,
                Traverse, Call
  <2>2. CASE Clear
    BY <2>2, ClearKeeps DEF Clear
  <2>3. CASE \/ \E q \in DOMAIN live : \E a \in Usable(q), v \in Data : CallerWrites(q, a, v)
             \/ \E n \in Foreign : ForeignSbrk(n)
    BY <2>3, CallerKeeps DEF CallerWrites, ForeignSbrk
  <2>4. CASE UNCHANGED vars
    BY <2>4 DEF Blocks, vars, thread
  <2> QED BY <2>1, <2>2, <2>3, <2>4
<1> QED BY <1>1, QuietStep

(* A step of the allocator is a step of the promise, or none. *)
LEMMA StepKeepsPromise ==
  ASSUME IInv, IInv', HeapFits, Asked, [Next]_vars
  PROVE  [Promise!Next]_<<Pool, Held>>
<1>1. CASE Take
  BY <1>1, TakeReuses DEF Take, Asked, Promise!Next
<1>2. CASE Extend
  BY <1>2, ExtendGrows DEF Extend, Asked, Promise!Next
<1>3. CASE \E q \in DOMAIN live : hfree(q)
  <2>1. PICK q \in DOMAIN live : hfree(q)
    BY <1>3
  <2> QED BY <2>1, FreeFrees DEF Promise!Next, Held
<1>4. CASE \/ Advance \/ GiveUp \/ ExtendFaults \/ Clear \/ TraverseNext \/ TraverseEnd
           \/ \E n \in Requests : Call("hmalloc", n) \/ Call("hcalloc", n)
           \/ Traverse
           \/ \E q \in DOMAIN live : \E a \in Usable(q), v \in Data : CallerWrites(q, a, v)
           \/ \E n \in Foreign : ForeignSbrk(n)
           \/ UNCHANGED vars
  BY <1>4, OtherStepsQuiet
<1> QED BY <1>1, <1>2, <1>3, <1>4 DEF Next, Step, Caller

(* The allocator keeps the promise of its comments (hmalloc.c:58-61, 70-84,
   103-110, 134-137): the pool newest first, the first area that fits reused whole, and the
   heap grown by what was asked, apart from all else, only when none fits. *)
THEOREM AllocatorKeepsPromise ==
  ASSUME HeapFits
  PROVE  Spec => ImplementsFirstFit
<1>1. Init => Promise!Init
  BY DEF Init, Promise!Init, Blocks, ToSet
<1>2. IInv /\ IInv' /\ Asked /\ [Next]_vars => [Promise!Next]_<<Pool, Held>>
  BY StepKeepsPromise
<1>3. [Promise!Next]_<<Pool, Held>> <=> [Promise!Next]_(Promise!poolVars)
  BY DEF Promise!poolVars, Pool, Held
<1> QED BY <1>1, <1>2, <1>3, InvariantHolds, SearchesAreAsked, PTL
        DEF Spec, ImplementsFirstFit, Promise!Spec
================================================================================
