------------------------------ MODULE MCRpcSession ------------------------------
(* RpcSession for TLC: sixteen-valued bytes, so that a call stays a few bytes. *)
EXTENDS RpcSession, Bitwise

(* The calls of pgm1.c and pgm2.c and of their commented tests: mode 0777 does
   not survive the wire, the other arguments do; the path leaves room for its
   NUL, and the write is one that overruns. *)
ProgramCalls ==
  { [op |-> "open",  args |-> <<2, 31>>,   data |-> <<1, 6>>],
    [op |-> "close", args |-> <<5>>,       data |-> <<>>],
    [op |-> "read",  args |-> <<5, 2>>,    data |-> <<>>],
    [op |-> "write", args |-> <<5, 2>>,    data |-> <<6, 6>>],
    [op |-> "lseek", args |-> <<5, 5, 1>>, data |-> <<>>],
    [op |-> "pipe",  args |-> <<>>,        data |-> <<>>],
    [op |-> "dup2",  args |-> <<5, 1>>,    data |-> <<>>] }

(* A write of half a byte's range: its count does not survive the wire. *)
LongWrite == { [op |-> "write", args |-> <<5, HALF>>, data |-> [i \in 1..HALF |-> 6]] }

(* The commented test of pgm2.c:57-58. *)
DupCall == { [op |-> "dup2", args |-> <<5, 1>>, data |-> <<>>] }

(* Decode is the OR of the sign-extended chars, as 16-bit ints. *)
Samples == [1..4 -> {0, 1, 7, 8, 15}]
Or16(w) ==
  LET part(i) == (Signed(w[i]) * BASE ^ (4 - i)) % (BASE ^ 4)
  IN  ((part(1) | part(2)) | part(3)) | part(4)
ASSUME DecodeIsOr == BASE = 16 => \A w \in Samples : Decode(w) % (BASE ^ 4) = Or16(w)
================================================================================
