------------------------------- MODULE MCRecordIO -------------------------------
(* RecordIO for TLC. *)
EXTENDS RecordIO

(* Two lines, the last one not ended. *)
SomeTexts == {<<7, NL, 7>>}

(* Bound: once the indexer has run not all the descriptors are taken, with four
   of them one handle is open. *)
OneHandleBesideIndexer == indexer.runs = 0 \/ Free # {}

(* No step and no property reads what the last call returned, only what the next
   one returns: states that differ in it alone are one. *)
ButForAnswer == <<indexerVars, fds, handles, writes, call, cut>>
=================================================================================
