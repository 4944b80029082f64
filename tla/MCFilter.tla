-------------------------------- MODULE MCFilter --------------------------------
(* Filter for TLC. *)
EXTENDS Filter

AllLines == {"/i", "/o", "/c", "/m", "/k", "/?", "//", "text"}
SomePages == -1 .. 2
=================================================================================
