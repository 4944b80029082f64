------------------------------ MODULE RecordFile -------------------------------
(***************************************************************************)
(* What recordio.c promises the program that uses it: a file is a sequence *)
(* of records, a handle is a place in it. No bytes, no index, no           *)
(* descriptors. A write has a beginning, a middle and an end, at any of    *)
(* which the program may die and between which the indexer may find a      *)
(* record.                                                                 *)
(***************************************************************************)
EXTENDS Integers, Sequences, SequencesExt

CONSTANTS
  Handle,    (* what rio_open may return          *)
  Buffer,    (* what the program may write        *)
  Shown(_),  (* a record as rio_read delivers it  *)
  Failed,    (* the answer of a call that failed  *)
  Nothing    (* no write is under way             *)

VARIABLES
  records,   (* the contents of the records, in order     *)
  cursor,    (* for every open handle, how many records lie before its place *)
  answer,    (* what the last call returned               *)
  writing    (* the write under way: its handle, its buffer, whether the record
                is new, and whether the buffer has been put in the file     *)

fileVars == <<records, cursor, answer, writing>>

Move(h, p) == cursor' = [cursor EXCEPT ![h] = p]

Init == records = <<>> /\ cursor = <<>> /\ answer = Failed /\ writing = Nothing

Open ==
  /\ writing = Nothing
  /\ \/ \E h \in Handle \ DOMAIN cursor :
          /\ cursor' = [g \in DOMAIN cursor \union {h} |-> IF g = h THEN 0 ELSE cursor[g]]
          /\ answer' = [val |-> h, text |-> <<>>]
     \/ answer' = Failed /\ UNCHANGED cursor
  /\ UNCHANGED <<records, writing>>

Close(h) ==
  /\ writing = Nothing
  /\ cursor' = [g \in DOMAIN cursor \ {h} |-> cursor[g]]
  /\ answer' = [val |-> 0, text |-> <<>>]
  /\ UNCHANGED <<records, writing>>

(* The program ends, or dies in the middle of a write. *)
Exit ==
  /\ cursor' = <<>> /\ answer' = Failed /\ writing' = Nothing
  /\ UNCHANGED records

Read(h) ==
  /\ writing = Nothing
  /\ IF cursor[h] < Len(records)
     THEN LET r == records[cursor[h] + 1]
          IN  Move(h, cursor[h] + 1) /\ answer' = [val |-> Len(r), text |-> Shown(r)]
     ELSE answer' = [val |-> 0, text |-> <<>>] /\ UNCHANGED cursor
  /\ UNCHANGED <<records, writing>>

(* A write behind the last record makes one; any other needs one that is not
   shorter than its buffer. *)
Begin(h, b) ==
  /\ writing = Nothing
  /\ cursor[h] < Len(records) => Len(b) <= Len(records[cursor[h] + 1])
  /\ writing' = [handle |-> h, buffer |-> b, new |-> cursor[h] >= Len(records), put |-> FALSE]
  /\ UNCHANGED <<records, cursor, answer>>

(* The buffer covers the first bytes of the record it replaces. *)
Put ==
  /\ writing # Nothing /\ ~writing.put
  /\ writing' = [writing EXCEPT !.put = TRUE]
  /\ IF writing.new THEN UNCHANGED records
     ELSE LET k == cursor[writing.handle] + 1
              b == writing.buffer
          IN  /\ k \in DOMAIN records /\ Len(b) <= Len(records[k])
              /\ records' = [records EXCEPT ![k] = b \o SubSeq(@, Len(b) + 1, Len(@))]
  /\ UNCHANGED <<cursor, answer>>

(* The buffer is the record: one more, or the one at the handle's place. A new
   one takes the place of a record that was found there meanwhile. *)
Finish ==
  /\ writing # Nothing /\ writing.put
  /\ LET h == writing.handle
         b == writing.buffer
     IN  /\ \/ cursor[h] = Len(records) /\ records' = Append(records, b)
            \/ cursor[h] < Len(records) /\ records' = [records EXCEPT ![cursor[h] + 1] = b]
         /\ Move(h, cursor[h] + 1)
         /\ answer' = [val |-> Len(b), text |-> <<>>]
  /\ writing' = Nothing

(* A write that fails leaves every record alone; it may have passed one. *)
Refuse(h) ==
  /\ writing = Nothing \/ (writing.handle = h /\ (writing.put => writing.new))
  /\ Move(h, cursor[h]) \/ (cursor[h] < Len(records) /\ Move(h, cursor[h] + 1))
  /\ answer' = Failed /\ writing' = Nothing
  /\ UNCHANGED records

Seek(h) ==
  /\ writing = Nothing
  /\ \/ answer'.val >= 0 /\ answer'.text = <<>> /\ Move(h, answer'.val)
     \/ answer' = Failed /\ UNCHANGED cursor
  /\ UNCHANGED <<records, writing>>

(* The indexer finds one more record, whatever is in it. *)
Find ==
  /\ records' # <<>> /\ Front(records') = records
  /\ UNCHANGED <<cursor, answer, writing>>

Next ==
  \/ Open \/ Exit \/ Find \/ Put \/ Finish
  \/ \E h \in DOMAIN cursor :
       \/ Close(h) \/ Read(h) \/ Refuse(h) \/ Seek(h)
       \/ \E b \in Buffer : Begin(h, b)

Spec == Init /\ [][Next]_fileVars
================================================================================
