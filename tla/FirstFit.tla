------------------------------- MODULE FirstFit -------------------------------
(***************************************************************************)
(* What the comments of hmalloc.c promise a caller, with no address        *)
(* arithmetic, no metadata and no traversal: freed areas are kept in one   *)
(* pool, the most recently freed first; a request is served by the first   *)
(* pooled area that is big enough, and by a new area, apart from every     *)
(* other, only when none is.                                               *)
(***************************************************************************)
EXTENDS Integers, Sequences, SequencesExt

CONSTANTS
  Addr,     (* where an area may begin             *)
  Requests  (* the numbers of bytes a caller asks  *)

VARIABLES
  pool,     (* the free areas, most recently freed first *)
  held      (* the areas callers own                     *)

poolVars == <<pool, held>>

Area == [addr : Addr, len : Nat]

Apart(a, b) ==
  /\ a.addr # b.addr
  /\ \/ a.addr + a.len <= b.addr
     \/ b.addr + b.len <= a.addr

Fits(n) == {i \in DOMAIN pool : pool[i].len >= n}

Init == pool = <<>> /\ held = {}

(* The first area of the pool that fits changes hands, whole. *)
Reuse(n) ==
  \E i \in Fits(n) :
    /\ \A j \in Fits(n) : i <= j
    /\ held' = held \union {pool[i]}
    /\ pool' = RemoveAt(pool, i)

(* No pooled area fits: the heap grows by exactly what was asked. *)
Grow(n) ==
  /\ Fits(n) = {}
  /\ \E a \in Addr :
       LET new == [addr |-> a, len |-> n]
       IN  /\ \A b \in held \union ToSet(pool) : Apart(new, b)
           /\ held' = held \union {new}
  /\ UNCHANGED pool

Free(a) ==
  /\ a \in held
  /\ held' = held \ {a}
  /\ pool' = Cons(a, pool)

Next ==
  \/ \E n \in Requests : Reuse(n) \/ Grow(n)
  \/ \E a \in held : Free(a)

Spec == Init /\ [][Next]_poolVars
===============================================================================
