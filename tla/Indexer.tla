-------------------------------- MODULE Indexer --------------------------------
(***************************************************************************)
(* indexer.c: writes the index of a text file, one descriptor per line, at *)
(* the end of whatever index there is. The files it shares with recordio.c *)
(* are declared here. A descriptor is written whole or not at all: eight   *)
(* bytes at a multiple of eight lie in one block of the disk.              *)
(***************************************************************************)
EXTENDS Integers, Sequences, FiniteSetsExt

CONSTANTS
  Texts,     (* the texts the data file may hold at first   *)
  NL,        (* the newline byte                            *)
  FAULTS,    (* the disk may refuse a write, or take only its first bytes *)
  MAXRUNS    (* bound: how often the indexer is run         *)

ASSUME TextsAreBytes == Texts \subseteq Seq(Nat) /\ NL \in Nat /\ MAXRUNS \in Nat
ASSUME FaultsOrNone == FAULTS \in BOOLEAN

VARIABLES
  made,      (* which of the files "data" and "index" exist *)
  data,      (* the bytes of the data file                  *)
  index,     (* the descriptors of the index file           *)
  indexer,   (* its pc, its place in the text, the size of the line found, runs so far *)
  careful,   (* history: the bytes of every record went where the record is, all
                of them, and no record lies over another *)
  lost       (* history: the indexer could not write a descriptor *)

indexerVars == <<made, data, index, indexer, careful, lost>>

Span(r) == {k \in 1..Len(data) : r.position < k /\ k <= r.position + r.length}

(* Bytes first .. first + n - 1 (from 0) lie in none of these records. *)
Untaken(places, first, n) ==
  \A i \in places :
    \/ first + n <= index[i].position
    \/ index[i].position + index[i].length <= first

InitIndexer ==
  /\ \/ made = {} /\ data = <<>>
     \/ made = {"data"} /\ data \in Texts
  /\ index = <<>>
  /\ indexer = [pc |-> "off", at |-> 0, size |-> 0, runs |-> 0]
  /\ careful = TRUE /\ lost = FALSE

(* Started on a file that is not there, it creates an index all the same;
   every read then fails. The loop that looks for a newline ends only if the
   byte it never filled happens to be one. *)
StartIndexer ==
  /\ indexer.pc = "off" /\ indexer.runs < MAXRUNS
  /\ made' = made \union {"index"}
  /\ \E pc \in IF "data" \in made THEN {"line"} ELSE {"off", "stuck"} :
       indexer' = [pc |-> pc, at |-> 0, size |-> 0, runs |-> indexer.runs + 1]
  /\ UNCHANGED <<data, index, careful, lost>>

(* Mistake: the newline is not part of the line. *)
LineSizeWithoutNewline(at) ==
  LET ends == {n \in 1 .. Len(data) - at : data[at + n] = NL}
  IN  IF ends = {} THEN Len(data) - at ELSE Max({1, Min(ends) - 1})

(* The bytes up to the next newline, that one included, or to the end. *)
LineSize(at) ==
  LET ends == {n \in 1 .. Len(data) - at : data[at + n] = NL}
  IN  IF ends = {} THEN Len(data) - at ELSE Min(ends)

(* Mistake: the end of the file does not end the line. *)
FindLineOnly ==
  /\ indexer.pc = "line"
  /\ \E k \in indexer.at + 1 .. Len(data) : data[k] = NL
  /\ indexer' = [indexer EXCEPT !.pc = "found", !.size = LineSize(indexer.at)]
  /\ UNCHANGED <<made, data, index, careful, lost>>

(* The inner loop, and the read of what it counted. *)
FindLine ==
  /\ indexer.pc = "line" /\ LineSize(indexer.at) > 0
  /\ indexer' = [indexer EXCEPT !.pc = "found", !.size = LineSize(indexer.at)]
  /\ UNCHANGED <<made, data, index, careful, lost>>

(* A descriptor that cannot be written is lost, and the outer loop goes on with
   the next line. *)
WriteLine ==
  /\ indexer.pc = "found"
  /\ \/ /\ index' = Append(index, [position |-> indexer.at, length |-> indexer.size])
        /\ careful' = (careful /\ Untaken(DOMAIN index, indexer.at, indexer.size))
        /\ UNCHANGED lost
     \/ FAULTS /\ lost' = TRUE /\ UNCHANGED <<index, careful>>
  /\ indexer' = [indexer EXCEPT !.pc = "line", !.at = @ + indexer.size, !.size = 0]
  /\ UNCHANGED <<made, data>>

EndIndexer ==
  /\ indexer.pc = "line" /\ LineSize(indexer.at) = 0
  /\ indexer' = [indexer EXCEPT !.pc = "off"]
  /\ UNCHANGED <<made, data, index, careful, lost>>

(* It is killed: what it wrote stays, the place it was at is forgotten. *)
KillIndexer ==
  /\ indexer.pc # "off"
  /\ indexer' = [indexer EXCEPT !.pc = "off", !.at = 0, !.size = 0]
  /\ UNCHANGED <<made, data, index, careful, lost>>
================================================================================
