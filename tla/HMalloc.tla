-------------------------------- MODULE HMalloc --------------------------------
(***************************************************************************)
(* Program1_HuskyMalloc/hmalloc.c: hmalloc, hcalloc, hfree and traverse    *)
(* over the bytes of the heap.                                             *)
(*                                                                         *)
(* A block is two metadata words, the length of the area and the distance  *)
(* to the next free block (0: there is none), then the area itself.  The   *)
(* free list is the only structure and it lives in those words, so every   *)
(* property below is about what the words spell.  The loops of hmalloc and *)
(* traverse are modelled one iteration a step; everything else of a call   *)
(* is one step, the process having a single thread.                        *)
(*                                                                         *)
(* An int store at p changes mem[p] only: cells p+1 .. p+WORD-1 belong to  *)
(* the same word, and no area shares them (BlocksApart).                   *)
(***************************************************************************)
EXTENDS Integers, Sequences, SequencesExt

CONSTANTS
  WORD,      (* sizeof(int)                                             *)
  HEAPBASE,  (* the program break when the process starts               *)
  HEAPMAX,   (* the highest break the system grants (bounds the model)  *)
  INTMAX,    (* INT_MAX: offsets and sizes are ints                     *)
  Requests,  (* values of bytes_to_allocate                             *)
  Data,      (* values the caller stores                                *)
  Foreign    (* sbrk() amounts of other code of the process (stdio)     *)

ASSUME HMallocAssumption ==
  /\ WORD \in Nat \ {0}
  /\ HEAPBASE \in Nat \ {0}
  /\ HEAPMAX \in Nat /\ HEAPBASE <= HEAPMAX
  /\ INTMAX \in Nat /\ 2 * WORD <= INTMAX
  /\ Requests \subseteq 0..INTMAX
  /\ Data \subseteq Int
  /\ Foreign \subseteq Nat

VARIABLES
  mem,        (* contents of the cells HEAPBASE .. HEAPMAX-1               *)
  brk,        (* the program break                                         *)
  free_list,  (* address of the first free block, or NULL                  *)
  pc,         (* what the thread is executing                              *)
  op,         (* the call in progress                                      *)
  bytes,      (* its bytes_to_allocate                                     *)
  cur,        (* currentNode (in "clear", the block being cleared)         *)
  prev,       (* previous                                                  *)
  index,      (* traverse's index                                          *)
  live,       (* the caller: pointers it owns |-> bytes it asked for       *)
  zeroed,     (* history: hcalloc'ed pointers the caller has not written   *)
  chain       (* history: the blocks freed and not reused, newest first    *)

thread == <<pc, op, bytes, cur, prev, index>>
vars == <<mem, brk, free_list, thread, live, zeroed, chain>>

NULL == 0
META == 2 * WORD
Addr == HEAPBASE .. HEAPMAX - 1

(* Storing x in an int keeps its low bits, as a signed number. *)
ToInt(x) ==
  IF -INTMAX - 1 <= x /\ x <= INTMAX
  THEN x
  ELSE ((x + INTMAX + 1) % (2 * INTMAX + 2)) - INTMAX - 1

Size(p)   == mem[p]
Offset(p) == mem[p + WORD]

(* The cells of a block's area, and the cells of the caller's part of it. *)
AreaOf(p) == p + META .. p + META + Size(p) - 1
Usable(q) == q .. q + live[q] - 1

--------------------------------------------------------------------------------
Init ==
  /\ mem = [a \in Addr |-> 0]
  /\ brk = HEAPBASE
  /\ free_list = NULL
  /\ pc = "idle" /\ op = "none" /\ bytes = 0
  /\ cur = NULL /\ prev = NULL /\ index = 0
  /\ live = <<>> /\ zeroed = {} /\ chain = <<>>

(* hmalloc(n), or hcalloc(n), which starts by calling it. *)
Call(o, n) ==
  /\ pc = "idle"
  /\ op' = o /\ bytes' = n
  /\ cur' = free_list /\ prev' = NULL
  /\ pc' = IF free_list = NULL THEN "extend" ELSE "search"
  /\ UNCHANGED <<mem, brk, free_list, index, live, zeroed, chain>>

(* Mistake: previous moves and currentNode does not. *)
AdvanceStays ==
  /\ pc = "search" /\ Size(cur) < bytes /\ Offset(cur) # 0
  /\ prev' = cur
  /\ UNCHANGED <<mem, brk, free_list, pc, op, bytes, cur, index, live, zeroed, chain>>

(* One iteration of the while loop: this block is too small, go on. *)
Advance ==
  /\ pc = "search" /\ Size(cur) < bytes /\ Offset(cur) # 0
  /\ prev' = cur
  /\ cur' = cur + Offset(cur)
  /\ UNCHANGED <<mem, brk, free_list, pc, op, bytes, index, live, zeroed, chain>>

(* Mistake: line 83 left out, the last block is never used. *)
GiveUpUnasked ==
  /\ pc = "search" /\ Offset(cur) = 0
  /\ pc' = "extend"
  /\ UNCHANGED <<mem, brk, free_list, op, bytes, cur, prev, index, live, zeroed, chain>>

(* The loop ends at the last block, which is too small as well. *)
GiveUp ==
  /\ pc = "search" /\ Size(cur) < bytes /\ Offset(cur) = 0
  /\ pc' = "extend"
  /\ UNCHANGED <<mem, brk, free_list, op, bytes, cur, prev, index, live, zeroed, chain>>

(* A call that ends takes its local variables with it. *)
EndCall == /\ pc' = "idle" /\ op' = "none" /\ bytes' = 0
           /\ cur' = NULL /\ prev' = NULL /\ index' = 0

HandOver(q) == live' = [r \in DOMAIN live \union {q} |->
                          IF r = q THEN bytes ELSE live[r]]

(* hmalloc returns p + META to its caller, or to hcalloc, which clears. *)
Return(p) ==
  \/ /\ op = "hcalloc" /\ pc' = "clear" /\ cur' = p
     /\ UNCHANGED <<op, bytes, prev, index, live>>
  \/ op = "hmalloc" /\ EndCall /\ HandOver(p + META)

(* Mistakes: the head becomes the offset itself; the last block stays linked. *)
UnlinkHeadToOffset == /\ prev = NULL /\ Offset(cur) # 0
                      /\ free_list' = Offset(cur) /\ UNCHANGED mem
UnlinkLastNot      == /\ prev # NULL /\ Offset(cur) = 0
                      /\ UNCHANGED <<mem, free_list>>

(* The four ways a block leaves the list. *)
UnlinkOnly  == /\ prev = NULL /\ Offset(cur) = 0
               /\ free_list' = NULL /\ UNCHANGED mem
UnlinkHead  == /\ prev = NULL /\ Offset(cur) # 0
               /\ free_list' = cur + Offset(cur) /\ UNCHANGED mem
UnlinkLast  == /\ prev # NULL /\ Offset(cur) = 0
               /\ mem' = [mem EXCEPT ![prev + WORD] = 0] /\ UNCHANGED free_list
UnlinkInner == /\ prev # NULL /\ Offset(cur) # 0
               /\ mem' = [mem EXCEPT ![prev + WORD] = ToInt(@ + Offset(cur))]
               /\ UNCHANGED free_list

(* Mistake: a block one byte too short is taken. *)
TakeShort ==
  /\ pc = "search" /\ Size(cur) >= bytes - 1
  /\ UnlinkOnly \/ UnlinkHead \/ UnlinkLast \/ UnlinkInner
  /\ chain' = RemoveFirst(chain, cur)
  /\ Return(cur)
  /\ UNCHANGED <<brk, zeroed>>

Take ==
  /\ pc = "search" /\ Size(cur) >= bytes
  /\ UnlinkOnly \/ UnlinkHead \/ UnlinkLast \/ UnlinkInner
  /\ chain' = RemoveFirst(chain, cur)
  /\ Return(cur)
  /\ UNCHANGED <<brk, zeroed>>

(* Mistakes: room for one metadata word only; the metadata counted in the
   length. *)
ExtendOneWord ==
  LET bytesNeeded == ToInt(bytes + WORD)
  IN  /\ pc = "extend" /\ bytesNeeded > 0 /\ brk + bytesNeeded <= HEAPMAX
      /\ brk' = brk + bytesNeeded
      /\ mem' = [mem EXCEPT ![brk] = bytes, ![brk + WORD] = 0]
      /\ Return(brk)
      /\ UNCHANGED <<free_list, zeroed, chain>>
ExtendCountsMeta ==
  LET bytesNeeded == ToInt(bytes + META)
  IN  /\ pc = "extend" /\ bytesNeeded > 0 /\ brk + bytesNeeded <= HEAPMAX
      /\ brk' = brk + bytesNeeded
      /\ mem' = [mem EXCEPT ![brk] = bytesNeeded, ![brk + WORD] = 0]
      /\ Return(brk)
      /\ UNCHANGED <<free_list, zeroed, chain>>

(* sbrk(bytesNeeded) and addMetaData. *)
Extend ==
  LET bytesNeeded == ToInt(bytes + META)
  IN  /\ pc = "extend" /\ bytesNeeded > 0 /\ brk + bytesNeeded <= HEAPMAX
      /\ brk' = brk + bytesNeeded
      /\ mem' = [mem EXCEPT ![brk] = bytes, ![brk + WORD] = 0]
      /\ Return(brk)
      /\ UNCHANGED <<free_list, zeroed, chain>>

(* sbrk refuses: there is no room, or bytesNeeded wrapped to a negative number
   that would put the break below the start of the heap.  Its result is not
   tested and addMetaData stores through it, (void* )-1: SIGSEGV. *)
ExtendFaults ==
  LET bytesNeeded == ToInt(bytes + META)
  IN  /\ pc = "extend" /\ (bytesNeeded < 0 \/ brk + bytesNeeded > HEAPMAX)
      /\ pc' = "crashed"
      /\ UNCHANGED <<mem, brk, free_list, op, bytes, cur, prev, index, live, zeroed, chain>>

(* Mistake: the loop stops one byte early. *)
ClearShort ==
  LET q == cur + META
  IN  /\ pc = "clear"
      /\ mem' = [a \in Addr |-> IF a \in AreaOf(cur) /\ a + 1 \in AreaOf(cur)
                                THEN 0 ELSE mem[a]]
      /\ HandOver(q)
      /\ zeroed' = zeroed \union {q}
      /\ EndCall
      /\ UNCHANGED <<brk, free_list, chain>>

(* hcalloc clears the whole area, which may be longer than what was asked. *)
Clear ==
  LET q == cur + META
  IN  /\ pc = "clear"
      /\ mem' = [a \in Addr |-> IF a \in AreaOf(cur) THEN 0 ELSE mem[a]]
      /\ HandOver(q)
      /\ zeroed' = zeroed \union {q}
      /\ EndCall
      /\ UNCHANGED <<brk, free_list, chain>>

(* Mistake: the offset of the only free block is not reset. *)
hfreeKeepsOffset(q) ==
  LET p == q - META
  IN  /\ pc = "idle" /\ q \in DOMAIN live
      /\ mem' = [mem EXCEPT ![p + WORD] =
                   IF free_list = NULL THEN @ ELSE ToInt(free_list - p)]
      /\ free_list' = p
      /\ live' = [r \in DOMAIN live \ {q} |-> live[r]]
      /\ zeroed' = zeroed \ {q}
      /\ chain' = Cons(p, chain)
      /\ UNCHANGED <<brk, thread>>

hfree(q) ==
  LET p == q - META
  IN  /\ pc = "idle" /\ q \in DOMAIN live
      /\ mem' = [mem EXCEPT ![p + WORD] =
                   IF free_list = NULL THEN 0 ELSE ToInt(free_list - p)]
      /\ free_list' = p
      /\ live' = [r \in DOMAIN live \ {q} |-> live[r]]
      /\ zeroed' = zeroed \ {q}
      /\ chain' = Cons(p, chain)
      /\ UNCHANGED <<brk, thread>>

(* traverse(): index and cur say which area is printed; an empty list
   returns at once and changes nothing. *)
Traverse ==
  /\ pc = "idle" /\ free_list # NULL
  /\ pc' = "traverse" /\ cur' = free_list /\ index' = 0
  /\ UNCHANGED <<mem, brk, free_list, op, bytes, prev, live, zeroed, chain>>

TraverseNext ==
  /\ pc = "traverse" /\ Offset(cur) # 0
  /\ cur' = cur + Offset(cur) /\ index' = index + 1
  /\ UNCHANGED <<mem, brk, free_list, pc, op, bytes, prev, live, zeroed, chain>>

TraverseEnd ==
  /\ pc = "traverse" /\ Offset(cur) = 0
  /\ EndCall
  /\ UNCHANGED <<mem, brk, free_list, live, zeroed, chain>>

--------------------------------------------------------------------------------
(* The caller stores v in an area it owns, within what it asked for. *)
CallerWrites(q, a, v) ==
  /\ pc = "idle" /\ q \in DOMAIN live /\ a \in Usable(q)
  /\ mem' = [mem EXCEPT ![a] = v]
  /\ zeroed' = zeroed \ {q}
  /\ UNCHANGED <<brk, free_list, thread, live, chain>>

(* Other code of the process moves the break (printf allocates its buffer). *)
ForeignSbrk(n) ==
  /\ pc = "idle" /\ brk + n <= HEAPMAX
  /\ brk' = brk + n
  /\ UNCHANGED <<mem, free_list, thread, live, zeroed, chain>>

Step == \/ Advance \/ GiveUp \/ Take \/ Extend \/ ExtendFaults \/ Clear
        \/ TraverseNext \/ TraverseEnd

Caller == \/ \E n \in Requests : Call("hmalloc", n) \/ Call("hcalloc", n)
          \/ \E q \in DOMAIN live : hfree(q)
          \/ Traverse
          \/ \E q \in DOMAIN live : \E a \in Usable(q), v \in Data : CallerWrites(q, a, v)
          \/ \E n \in Foreign : ForeignSbrk(n)

Next == Step \/ Caller

(* The thread executes the call it is in; nothing forces a caller to call. *)
Spec == Init /\ [][Next]_vars /\ WF_vars(Step)

--------------------------------------------------------------------------------
(* Every block the heap is made of: the caller's, the free ones, and the one
   hcalloc has obtained and not yet returned. *)
Blocks == {q - META : q \in DOMAIN live} \union ToSet(chain)
            \union (IF pc = "clear" THEN {cur} ELSE {})

(* The types of the variables (mem covers the heap, pointers are addresses). *)
TypeOK ==
  /\ mem \in [Addr -> Int]
  /\ brk \in HEAPBASE..HEAPMAX
  /\ free_list \in Addr \union {NULL}
  /\ pc \in {"idle", "search", "extend", "clear", "traverse", "crashed"}
  /\ op \in {"none", "hmalloc", "hcalloc"}
  /\ bytes \in 0..INTMAX
  /\ cur \in Addr \union {NULL} /\ prev \in Addr \union {NULL}
  /\ index \in Nat
  /\ DOMAIN live \subseteq Nat /\ live \in [DOMAIN live -> 0..INTMAX]
  /\ zeroed \subseteq DOMAIN live
  /\ chain \in Seq(Addr)

(* Each block lies between the start of the heap and the break, whole, and no
   two blocks share a cell: what hmalloc hands out never overlaps other
   areas or any metadata (hmalloc.c:63-111). *)
BlocksApart ==
  /\ \A p \in Blocks : /\ p \in Addr /\ Size(p) >= 0
                       /\ p + META + Size(p) <= brk
  /\ \A p, r \in Blocks : p # r => \/ p + META + Size(p) <= r
                                  \/ r + META + Size(r) <= p

(* free_list and the offsets in the metadata spell exactly the blocks freed
   and not reused, newest first, and then end: no freed area is lost, none is
   listed twice, there is no cycle (hmalloc.c:56-61, 134-137). *)
ListIsChain ==
  /\ free_list = IF chain = <<>> THEN NULL ELSE chain[1]
  /\ \A i \in DOMAIN chain :
       Offset(chain[i]) = IF i = Len(chain) THEN 0 ELSE chain[i + 1] - chain[i]
  /\ \A i, j \in DOMAIN chain : chain[i] = chain[j] => i = j

(* A block is never the caller's and free at once, nor handed out twice, and
   the caller's area is at least as long as it asked (hmalloc.c:58-61). *)
OwnedOnce ==
  /\ \A q \in DOMAIN live : q - META \notin ToSet(chain) /\ live[q] <= Size(q - META)
  /\ pc = "clear" => /\ cur \notin ToSet(chain) /\ cur + META \notin DOMAIN live
                      /\ bytes <= Size(cur)

(* The search follows the list in order with previous one behind currentNode,
   every block passed over was too small, and it reaches sbrk only when no
   free area is big enough (hmalloc.c:70-84). *)
SearchIsFirstFit ==
  /\ pc = "search" =>
       \E k \in DOMAIN chain :
         /\ cur = chain[k]
         /\ prev = IF k = 1 THEN NULL ELSE chain[k - 1]
         /\ \A i \in 1..k-1 : Size(chain[i]) < bytes
  /\ pc = "extend" => \A i \in DOMAIN chain : Size(chain[i]) < bytes

(* traverse prints free area number index, so it prints each area of the pool
   exactly once and in list order (hmalloc.c:13-16, 31-39). *)
TraverseInOrder ==
  pc = "traverse" => /\ index + 1 \in DOMAIN chain /\ cur = chain[index + 1]

(* What the caller asked hcalloc for reads as zero until it writes there
   itself, whatever else is allocated, freed or written (hmalloc.c:114). *)
ZeroedStaysZero == \A q \in zeroed : \A a \in Usable(q) : mem[a] = 0

(* No call ever changes a cell of an area that stays the caller's: only the
   caller's own stores do. *)
AreasAreTheCallers ==
  [][ \/ \E q \in DOMAIN live : \E a \in Usable(q), v \in Data : CallerWrites(q, a, v)
      \/ \A q \in DOMAIN live \intersect DOMAIN live' :
           \A a \in Usable(q) : mem'[a] = mem[a] ]_vars

(* Every call returns: the searches of hmalloc and traverse end (or the
   process dies on a refused sbrk), the thread being scheduled. *)
CallsReturn == pc \in {"search", "extend", "clear", "traverse"} ~> pc \in {"idle", "crashed"}

(* The metadata and the search implement the caller's view of the allocator. *)
AsArea(p) == [addr |-> p + META, len |-> Size(p)]
Promise == INSTANCE FirstFit WITH
  Addr <- HEAPBASE + META .. HEAPMAX,
  pool <- [i \in DOMAIN chain |-> AsArea(chain[i])],
  held <- {AsArea(p) : p \in Blocks \ ToSet(chain)}
ImplementsFirstFit == Promise!Spec
================================================================================
