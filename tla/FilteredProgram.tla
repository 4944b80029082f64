---------------------------- MODULE FilteredProgram ----------------------------
(***************************************************************************)
(* What both filters stand between: the program they run as a child, with  *)
(* its three pipes, and the keyboard. A pipe is finite; the program works  *)
(* on one thing at a time, so that while it waits to write it does not     *)
(* read.                                                                   *)
(***************************************************************************)
EXTENDS Integers, Sequences, FiniteSets

CONSTANTS
  CAP,       (* what a pipe holds: bytes of output, or lines of input *)
  Lines      (* what may be typed: commands and lines of text      *)

ASSUME CapPositive == CAP \in Nat \ {0}

VARIABLES
  life,      (* none, running, writing, zombie, reaped: the child   *)
  out,       (* bytes the child printed and the filter has not read *)
  err,       (* how many bytes it complained of are not read either *)
  inp,       (* lines the filter passed on and the child has not read *)
  keyboard   (* the line typed and not yet read, or Nothing         *)

programVars == <<life, out, err, inp, keyboard>>

Byte == {"x", "newline"}
Nothing == "nothing"
EndOfFile == "end of file"
Alive == life \in {"running", "writing"}

InitProgram ==
  /\ out = <<>> /\ err = 0 /\ inp = 0 /\ keyboard = Nothing

StartPrinting ==
  /\ life = "running" /\ life' = "writing"
  /\ UNCHANGED <<out, err, inp, keyboard>>

PrintByte(b) ==
  /\ life = "writing" /\ Len(out) < CAP
  /\ out' = Append(out, b) /\ life' = "running"
  /\ UNCHANGED <<err, inp, keyboard>>

Complain ==
  /\ life = "running" /\ err < CAP /\ err' = err + 1
  /\ UNCHANGED <<life, out, inp, keyboard>>

TakeInput ==
  /\ life = "running" /\ inp > 0 /\ inp' = inp - 1
  /\ UNCHANGED <<life, out, err, keyboard>>

End ==
  /\ life = "running" /\ life' = "zombie"
  /\ UNCHANGED <<out, err, inp, keyboard>>

Type(line) ==
  /\ keyboard = Nothing /\ keyboard' = line
  /\ UNCHANGED <<life, out, err, inp>>

(* kill(2): the signal ends the child, or not. *)
Signal == life' \in IF Alive THEN {life, "zombie"} ELSE {life}

(* waitpid(2), WNOHANG: the first call after the death collects it. *)
Waitpid == life' = IF life = "zombie" THEN "reaped" ELSE life
Gone == life \in {"none", "reaped"}

(* read(0): the end of the file stays where it is. *)
ReadLine == keyboard' = IF keyboard = EndOfFile THEN EndOfFile ELSE Nothing

(* write(2) to the child waits while the pipe is full. *)
PassOn == inp < CAP /\ inp' = inp + 1

Environment ==
  \/ StartPrinting \/ Complain \/ TakeInput \/ End
  \/ \E b \in Byte : PrintByte(b)
  \/ \E line \in Lines \union {EndOfFile} : Type(line)

ProgramTypeOK ==
  /\ life \in {"none", "running", "writing", "zombie", "reaped"}
  /\ out \in UNION {[1..n -> Byte] : n \in 0..CAP}
  /\ err \in 0..CAP /\ inp \in 0..CAP
  /\ keyboard \in Lines \union {Nothing, EndOfFile}
================================================================================
