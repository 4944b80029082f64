------------------------ MODULE FilteredProgramProofs ------------------------
(***************************************************************************)
(* What the proofs about both filters need of the program and its pipes:   *)
(* a pipe as a bounded sequence, and what a step of the program or of the  *)
(* user may do to it.                                                      *)
(***************************************************************************)
EXTENDS FilteredProgram, SequenceTheorems, TLAPS

(* What a pipe holds is a sequence of at most CAP bytes. *)
LEMMA PipeContents ==
  ASSUME NEW s
  PROVE  s \in UNION {[1..n -> Byte] : n \in 0..CAP} <=> s \in Seq(Byte) /\ Len(s) <= CAP
<1>1. CAP \in Nat
  BY CapPositive
<1>2. ASSUME s \in Seq(Byte), Len(s) <= CAP
      PROVE  s \in UNION {[1..n -> Byte] : n \in 0..CAP}
  <2>1. Len(s) \in 0..CAP /\ s \in [1..Len(s) -> Byte]
    BY <1>1, <1>2, LenProperties
  <2> QED BY <2>1
<1>3. ASSUME NEW n \in 0..CAP, s \in [1..n -> Byte]
      PROVE  s \in Seq(Byte) /\ Len(s) <= CAP
  <2>1. n \in Nat /\ n <= CAP
    BY <1>1
  <2>2. s \in Seq(Byte)
    BY <1>3, <2>1, SeqDef
  <2>3. Len(s) = n
    BY <1>3, <2>1, <2>2, LenProperties
  <2> QED BY <2>1, <2>2, <2>3
<1> QED BY <1>2, <1>3

(* The type of the pipe with that in its place. *)
LEMMA ProgramTypes ==
  ProgramTypeOK <=>
    /\ life \in {"none", "running", "writing", "zombie", "reaped"}
    /\ out \in Seq(Byte) /\ Len(out) <= CAP /\ Len(out) \in Nat
    /\ err \in 0..CAP /\ inp \in 0..CAP
    /\ keyboard \in Lines \union {Nothing, EndOfFile}
BY PipeContents, LenProperties DEF ProgramTypeOK

(* The same of the states after a step. *)
LEMMA ProgramTypesNext ==
  ProgramTypeOK' <=>
    /\ life' \in {"none", "running", "writing", "zombie", "reaped"}
    /\ out' \in Seq(Byte) /\ Len(out') <= CAP /\ Len(out') \in Nat
    /\ err' \in 0..CAP /\ inp' \in 0..CAP
    /\ keyboard' \in Lines \union {Nothing, EndOfFile}
BY PipeContents, LenProperties DEF ProgramTypeOK

(* The program and the user act within the types; what the program printed
   stays in the pipe and only more is added; the dead stay dead. *)
LEMMA EnvironmentOnly ==
  ASSUME ProgramTypeOK, Environment
  PROVE  /\ ProgramTypeOK'
         /\ out' = out \/ (out' # <<>> /\ Len(out') = Len(out) + 1)
         /\ ~Alive => ~Alive'
<1> USE CapPositive, ProgramTypes
<1>1. CASE StartPrinting \/ Complain \/ End
  BY <1>1, ProgramTypesNext DEF StartPrinting, Complain, End, Alive
<1>2. CASE TakeInput
  BY <1>2, ProgramTypesNext DEF TakeInput, Alive
<1>3. CASE \E line \in Lines \union {EndOfFile} : Type(line)
  BY <1>3, ProgramTypesNext DEF Type, Alive
<1>4. ASSUME NEW b \in Byte, PrintByte(b)
      PROVE  /\ ProgramTypeOK'
             /\ out' # <<>> /\ Len(out') = Len(out) + 1
             /\ ~Alive => ~Alive'
  <2>1. out' \in Seq(Byte) /\ Len(out') = Len(out) + 1
    BY <1>4, AppendProperties DEF PrintByte
  <2>2. out' # <<>>
    BY <2>1
  <2> QED BY <1>4, <2>1, <2>2, ProgramTypesNext DEF PrintByte, Alive
<1> QED BY <1>1, <1>2, <1>3, <1>4 DEF Environment

(* Reading one byte shortens what is in the pipe by one. *)
LEMMA OneByteRead ==
  ASSUME ProgramTypeOK, out # <<>>
  PROVE  /\ Tail(out) \in Seq(Byte) /\ Len(Tail(out)) = Len(out) - 1
         /\ Len(out) > 0
BY ProgramTypes, HeadTailProperties, EmptySeq
================================================================================
