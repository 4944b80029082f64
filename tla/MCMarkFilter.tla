------------------------------ MODULE MCMarkFilter ------------------------------
(* MarkFilter for TLC. *)
EXTENDS MarkFilter

AllLines == {"/i", "/o", "/c", "/m", "/k", "/?", "//", "text"}
=================================================================================
