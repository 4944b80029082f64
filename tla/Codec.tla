--------------------------------- MODULE Codec ---------------------------------
(***************************************************************************)
(* Program3_Compression: czy and dzy with the codes that pass between them *)
(* as records.  Both keep the last W symbols; a symbol that is among them  *)
(* is coded by its distance, alone or with a count of repetitions.         *)
(*                                                                         *)
(* BitCodec spells the codes in bits and bytes and implements this module. *)
(***************************************************************************)
EXTENDS Integers, Sequences, SequencesExt

CONSTANTS
  FIELD,    (* bits of a position and of a count: 3               *)
  Symbols,  (* the bytes that occur in the input                  *)
  MAXLEN    (* symbols of input (bounds the model)                *)

ASSUME CodecAssumption == FIELD \in Nat \ {0} /\ Symbols \subseteq Nat /\ MAXLEN \in Nat

VARIABLES
  pc,         (* czy: where it next calls readByte, or "done"            *)
  byteRead,   (* the symbol being coded                                  *)
  unique,     (* uniqueResult: its position among the last W             *)
  repeats,    (* how often it was seen again, after the second time      *)
  last,       (* finalReadCharOnRepeated, if isLastRepeated, else NONE   *)
  window, count,    (* buffer and count of czy.c                         *)
  taken,      (* history: the input read                                 *)
  codes,      (* the codes written                                       *)
  dwindow, dcount,  (* buffer and count of dzy.c                         *)
  decoded,    (* how many codes dzy has read                             *)
  out         (* what dzy has written                                    *)

czy == <<pc, byteRead, unique, repeats, last, window, count, taken, codes>>
dzy == <<dwindow, dcount, decoded, out>>
codecVars == <<czy, dzy>>

(* The weight of a bit shifted by n places: 2 ^ n, defined so that a proof can
   unfold it. *)
Power[n \in Nat] == IF n = 0 THEN 1 ELSE 2 * Power[n - 1]

W    == Power[FIELD]
NONE == -1

Raw(b)    == [form |-> "raw", byte |-> b]
Once(p)   == [form |-> "once", pos |-> p]
Run(p, n) == [form |-> "run", pos |-> p, count |-> n]

(* buffer[(count - (i + 1)) % 8]; the wrap of an unsigned count at 2^32, a
   multiple of 8, changes none of these indices. *)
At(w, c, i) == w[(c - (i + 1)) % W]

(* Mistake: the ninth slot back is asked, which is the latest. *)
checkUniquenessFar(b) ==
  LET found == {i \in 0..W : At(window, count, i) = b}
  IN  IF found = {} THEN NONE ELSE CHOOSE i \in found : \A j \in found : i >= j

checkUniqueness(b) ==
  LET found == {i \in 0..W-1 : At(window, count, i) = b}
  IN  IF found = {} THEN NONE ELSE CHOOSE i \in found : \A j \in found : i <= j

(* addToBuffer, n times. *)
Added(w, c, b, n) == [j \in 0..W-1 |-> IF \E k \in 0..n-1 : (c + k) % W = j THEN b ELSE w[j]]

addToBuffer(b, n) == window' = Added(window, count, b, n) /\ count' = count + n

--------------------------------------------------------------------------------
(* czy *)

Read(b) == Len(taken) < MAXLEN /\ taken' = Append(taken, b)
Put(c)  == codes' = Append(codes, c)

(* The top of the loop, with the symbol to code: it goes out as it is, or the
   next one decides how it is coded. *)
Code(b) ==
  \/ /\ checkUniqueness(b) = NONE
     /\ Put(Raw(b)) /\ addToBuffer(b, 1) /\ last' = NONE
     /\ UNCHANGED <<pc, byteRead, unique, repeats>>
  \/ /\ checkUniqueness(b) # NONE
     /\ byteRead' = b /\ unique' = checkUniqueness(b) /\ pc' = "second"
     /\ UNCHANGED <<repeats, last, window, count, codes>>

ReadSymbol(b) == pc = "top" /\ last = NONE /\ Read(b) /\ Code(b)
UseLast       == pc = "top" /\ last # NONE /\ Code(last) /\ UNCHANGED taken
EndAtTop ==
  /\ pc = "top" /\ last = NONE /\ pc' = "done"
  /\ UNCHANGED <<byteRead, unique, repeats, last, window, count, taken, codes>>

(* Mistake: the symbol that is not repeated is not added. *)
SecondDiffersUnadded(b) ==
  /\ pc = "second" /\ b # byteRead /\ Read(b)
  /\ Put(Once(unique))
  /\ last' = b /\ pc' = "top"
  /\ UNCHANGED <<byteRead, unique, repeats, window, count>>

SecondDiffers(b) ==
  /\ pc = "second" /\ b # byteRead /\ Read(b)
  /\ Put(Once(unique)) /\ addToBuffer(byteRead, 1)
  /\ last' = b /\ pc' = "top"
  /\ UNCHANGED <<byteRead, unique, repeats>>

SecondRepeats ==
  /\ pc = "second" /\ Read(byteRead)
  /\ addToBuffer(byteRead, 2) /\ repeats' = 0 /\ pc' = "repeats"
  /\ UNCHANGED <<byteRead, unique, last, codes>>

EndAtSecond ==
  /\ pc = "second" /\ pc' = "done"
  /\ Put(Once(unique))
  /\ UNCHANGED <<byteRead, unique, repeats, last, window, count, taken>>

(* Mistake: the symbol past the longest run is dropped. *)
RepeatsAgainDrops ==
  /\ pc = "repeats" /\ Read(byteRead)
  /\ addToBuffer(byteRead, 1)
  /\ IF repeats + 1 = W
     THEN Put(Run(unique, W - 1)) /\ last' = NONE /\ pc' = "top" /\ UNCHANGED repeats
     ELSE repeats' = repeats + 1 /\ UNCHANGED <<last, pc, codes>>
  /\ UNCHANGED <<byteRead, unique>>

(* One more of the same.  W of them do not fit the field: the run is cut and
   the last of them, though added to the window, is coded again. *)
RepeatsAgain ==
  /\ pc = "repeats" /\ Read(byteRead)
  /\ addToBuffer(byteRead, 1)
  /\ IF repeats + 1 = W
     THEN Put(Run(unique, W - 1)) /\ last' = byteRead /\ pc' = "top" /\ UNCHANGED repeats
     ELSE repeats' = repeats + 1 /\ UNCHANGED <<last, pc, codes>>
  /\ UNCHANGED <<byteRead, unique>>

RepeatsNoMore(b) ==
  /\ pc = "repeats" /\ b # byteRead /\ Read(b)
  /\ Put(Run(unique, repeats)) /\ last' = b /\ pc' = "top"
  /\ UNCHANGED <<byteRead, unique, repeats, window, count>>

EndAtRepeats ==
  /\ pc = "repeats" /\ pc' = "done"
  /\ Put(Run(unique, repeats))
  /\ UNCHANGED <<byteRead, unique, repeats, last, window, count, taken>>

Czy ==
  \/ \E b \in Symbols : ReadSymbol(b) \/ SecondDiffers(b) \/ RepeatsNoMore(b)
  \/ UseLast \/ SecondRepeats \/ RepeatsAgain
  \/ EndAtTop \/ EndAtSecond \/ EndAtRepeats

--------------------------------------------------------------------------------
(* dzy *)

Symbol(c)  == IF c.form = "raw" THEN c.byte ELSE At(dwindow, dcount, c.pos)
Copies(c)  == IF c.form = "run" THEN c.count + 2 ELSE 1

(* A code becomes Copies of Symbol, on the output and in the window. *)
Decode(c) ==
  /\ out' = out \o [k \in 1..Copies(c) |-> Symbol(c)]
  /\ dwindow' = Added(dwindow, dcount, Symbol(c), Copies(c))
  /\ dcount' = dcount + Copies(c)
  /\ decoded' = decoded + 1

DecodeNext == decoded < Len(codes) /\ Decode(codes[decoded + 1]) /\ UNCHANGED czy

--------------------------------------------------------------------------------
Init ==
  /\ pc = "top" /\ byteRead = 0 /\ unique = 0 /\ repeats = 0 /\ last = NONE
  /\ window = [j \in 0..W-1 |-> 0] /\ count = 0
  /\ taken = <<>> /\ codes = <<>>
  /\ dwindow = [j \in 0..W-1 |-> 0] /\ dcount = 0
  /\ decoded = 0 /\ out = <<>>

Next == (Czy /\ UNCHANGED dzy) \/ DecodeNext

Spec == Init /\ [][Next]_codecVars
================================================================================
