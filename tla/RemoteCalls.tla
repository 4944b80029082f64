------------------------------ MODULE RemoteCalls ------------------------------
(***************************************************************************)
(* What the stubs of r_client.c promise a program linked with them: a      *)
(* remote call is made on the server once, in the order of the calls, and  *)
(* its result is what the call returns; a program that ends leaves at most *)
(* its last call to be served.                                             *)
(***************************************************************************)
EXTENDS Sequences

CONSTANTS
  Call,    (* the calls a program can make        *)
  Result   (* what serving a call can come to     *)

VARIABLES
  phase,   (* ready, called, served: the program; over, abandoned: it ended *)
  issued,  (* the calls the program made, in order                          *)
  served,  (* the calls made on the server, in order                        *)
  answers  (* the results the program got, in order                         *)

remoteVars == <<phase, issued, served, answers>>

Init == phase = "ready" /\ issued = <<>> /\ served = <<>> /\ answers = <<>>

Issue(c) ==
  /\ phase = "ready" /\ phase' = "called"
  /\ issued' = Append(issued, c)
  /\ UNCHANGED <<served, answers>>

Serve(r) ==
  /\ \/ phase = "called" /\ phase' = "served"
     \/ phase = "abandoned" /\ phase' = "over"
  /\ served' = Append(served, [call |-> issued[Len(issued)], result |-> r])
  /\ UNCHANGED <<issued, answers>>

Return ==
  /\ phase = "served" /\ phase' = "ready"
  /\ answers' = Append(answers, served[Len(served)].result)
  /\ UNCHANGED <<issued, served>>

End ==
  /\ \/ phase \in {"ready", "served"} /\ phase' = "over"
     \/ phase = "called" /\ phase' = "abandoned"
  /\ UNCHANGED <<issued, served, answers>>

Next == (\E c \in Call : Issue(c)) \/ (\E r \in Result : Serve(r)) \/ Return \/ End

Spec == Init /\ [][Next]_remoteVars
================================================================================
