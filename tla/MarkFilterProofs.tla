---------------------------- MODULE MarkFilterProofs ----------------------------
(***************************************************************************)
(* Proofs about MarkFilter for every pipe, every page and every command:   *)
(* its types, what a drain leaves behind, and that no child outlives it.   *)
(***************************************************************************)
EXTENDS MarkFilter, FilteredProgramProofs

(***************************************************************************)
(* The inductive invariant.  What is left of what was owed is the older    *)
(* part of the pipe, and the last length read tells whether anything was:  *)
(* only that makes length, looked at after the loop, say what more means.  *)
(***************************************************************************)
DrainInv ==
  /\ pc = "drain" => owed <= Len(out) /\ (lines > 0 => length = 1)
  /\ pc = "more" /\ maxText > 0 /\ (length = 0 \/ ~OutReadable) => owed = 0
IInv == TypeOK /\ PageKept /\ NoOrphans /\ DrainInv

(* Types of the numbers. *)
LEMMA NumberTypes ==
  ASSUME TypeOK
  PROVE  /\ maxText \in Nat /\ lines \in Nat /\ length \in {0, 1}
         /\ owed \in Int /\ owed >= 0 /\ owed <= CAP
         /\ CAP \in Nat /\ 0 \in 0..CAP /\ inp \in Int
BY CapPositive, PagesAreNatural DEF TypeOK, ProgramTypeOK

(* The type invariant without the set of flags. *)
LEMMA Types ==
  TypeOK <=>
    /\ ProgramTypeOK
    /\ pc \in {"start", "select", "stdin", "out", "drain", "more", "err", "wait",
               "prompt", "gone"}
    /\ mode \in {"command", "input", "both"} /\ maxText \in Pages
    /\ ioModeShouldPrint \in BOOLEAN /\ more \in BOOLEAN /\ skipPrompt \in BOOLEAN
    /\ hasPrintedInputPrompt \in BOOLEAN /\ childHasDied \in BOOLEAN /\ handled \in BOOLEAN
    /\ ready \subseteq {"keyboard", "err", "out"}
    /\ lines \in Nat /\ length \in {0, 1} /\ owed \in 0..CAP
BY DEF TypeOK

LEMMA TypesNext ==
  TypeOK' <=>
    /\ ProgramTypeOK'
    /\ pc' \in {"start", "select", "stdin", "out", "drain", "more", "err", "wait",
               "prompt", "gone"}
    /\ mode' \in {"command", "input", "both"} /\ maxText' \in Pages
    /\ ioModeShouldPrint' \in BOOLEAN /\ more' \in BOOLEAN /\ skipPrompt' \in BOOLEAN
    /\ hasPrintedInputPrompt' \in BOOLEAN /\ childHasDied' \in BOOLEAN /\ handled' \in BOOLEAN
    /\ ready' \subseteq {"keyboard", "err", "out"}
    /\ lines' \in Nat /\ length' \in {0, 1} /\ owed' \in 0..CAP
BY DEF TypeOK

--------------------------------------------------------------------------------
LEMMA InitHolds == Init => IInv
<1> SUFFICES ASSUME Init PROVE IInv
  OBVIOUS
<1>1. out \in Seq(Byte) /\ Len(out) = 0
  BY EmptySeq DEF Init, InitProgram
<1>2. 0 <= CAP /\ 0 \in 0..CAP
  BY CapPositive
<1>3. ProgramTypeOK
  BY <1>1, <1>2, ProgramTypes DEF Init, InitProgram
<1>4. TypeOK
  BY <1>2, <1>3, Types DEF Init
<1>5. PageKept /\ NoOrphans /\ DrainInv
  BY DEF Init, PageKept, NoOrphans, DrainInv
<1> QED BY <1>4, <1>5 DEF IInv

(* The parts of the loop that only look and go on. *)
LEMMA LookingKeeps ==
  ASSUME IInv, Start \/ Select \/ StdErr \/ Obituary \/ Prompt
  PROVE  IInv'
<1> USE DEF IInv
<1>1. CASE Start
  <2>1. TypeOK'
    BY <1>1, Types, TypesNext, ProgramTypes, ProgramTypesNext DEF Start, display, prompt, programVars
  <2> QED BY <1>1, <2>1 DEF Start, PageKept, NoOrphans, DrainInv
<1>2. CASE Select
  <2>1. TypeOK'
    BY <1>2, Types, TypesNext, ProgramTypes, ProgramTypesNext
       DEF Select, display, prompt, programVars, Readable
  <2> QED BY <1>2, <2>1 DEF Select, PageKept, NoOrphans, DrainInv
<1>3. CASE StdErr
  <2>1. TypeOK'
    <3>1. 0 \in 0..CAP
      BY CapPositive
    <3> QED BY <1>3, <3>1, Types, TypesNext, ProgramTypes, ProgramTypesNext DEF StdErr, display, prompt
  <2> QED BY <1>3, <2>1 DEF StdErr, PageKept, NoOrphans, DrainInv
<1>4. CASE Obituary
  <2>1. TypeOK'
    BY <1>4, Types, TypesNext, ProgramTypes, ProgramTypesNext DEF Obituary, display, Waitpid
  <2> QED BY <1>4, <2>1 DEF Obituary, PageKept, NoOrphans, DrainInv
<1>5. CASE Prompt
  <2>1. TypeOK'
    BY <1>5, NumberTypes, Types, TypesNext, ProgramTypes, ProgramTypesNext DEF Prompt, programVars
  <2> QED BY <1>5, <2>1 DEF Prompt, PageKept, NoOrphans, DrainInv
<1> QED BY <1>1, <1>2, <1>3, <1>4, <1>5

(* A command keeps the types; the signal of /k can only end the child. *)
LEMMA CommandTypes ==
  ASSUME TypeOK, NEW line, Command(line) \/ SendLine(line), inp' = inp \/ SendLine(line)
  PROVE  /\ life' \in {"none", "running", "writing", "zombie", "reaped"}
         /\ inp' \in 0..CAP
         /\ mode' \in {"command", "input", "both"} /\ maxText' \in Pages
         /\ ioModeShouldPrint' \in BOOLEAN /\ skipPrompt' \in BOOLEAN
         /\ hasPrintedInputPrompt' \in BOOLEAN
<1> USE Types, ProgramTypes
<1>1. CASE SendLine(line)
  <2>1. inp' = inp \/ (inp < CAP /\ inp' = inp + 1)
    BY <1>1 DEF SendLine, PassOn
  <2>2. inp' \in 0..CAP
    BY <2>1, CapPositive
  <2> QED BY <1>1, <2>2 DEF SendLine
<1>2. CASE Command(line)
  BY <1>1, <1>2 DEF Command, EnterBoth, Signal, Alive
<1> QED BY <1>1, <1>2

(* A line read; writing it to a child nobody listens in is the end. *)
LEMMA StdInKeeps ==
  ASSUME IInv, StdIn
  PROVE  IInv'
<1> USE DEF IInv
<1>1. CASE "keyboard" \notin ready
  <2>1. TypeOK'
    BY <1>1, Types, TypesNext, ProgramTypes, ProgramTypesNext DEF StdIn, prompt, programVars
  <2> QED BY <1>1, <2>1 DEF StdIn, PageKept, NoOrphans, DrainInv
<1>2. CASE "keyboard" \in ready
  <2>1. PICK line \in IF keyboard = EndOfFile THEN Lines ELSE {keyboard} :
               \/ Command(line) /\ pc' = "out" /\ UNCHANGED inp
               \/ SendLine(line)
               \/ /\ line = "text" /\ mode = "command" /\ pc' = "out"
                  /\ UNCHANGED <<life, inp, mode, maxText, ioModeShouldPrint,
                                 skipPrompt, hasPrintedInputPrompt>>
    BY <1>2 DEF StdIn
  <2>2. /\ life' \in {"none", "running", "writing", "zombie", "reaped"}
        /\ inp' \in 0..CAP
        /\ mode' \in {"command", "input", "both"} /\ maxText' \in Pages
        /\ ioModeShouldPrint' \in BOOLEAN /\ skipPrompt' \in BOOLEAN
        /\ hasPrintedInputPrompt' \in BOOLEAN
    BY <2>1, CommandTypes, Types, ProgramTypes
  <2>3. pc' = "out" \/ (pc' = "gone" /\ ~Alive /\ life' = life)
    BY <2>1 DEF SendLine
  <2>4. /\ keyboard' \in Lines \union {Nothing, EndOfFile}
        /\ UNCHANGED <<out, err, childHasDied, ready, more, lines, length, handled, owed>>
    BY <1>2, ProgramTypes, Types DEF StdIn, ReadLine
  <2>5. TypeOK'
    BY <2>2, <2>3, <2>4, Types, TypesNext, ProgramTypes, ProgramTypesNext
  <2> QED BY <2>3, <2>4, <2>5 DEF PageKept, NoOrphans, DrainInv, Alive
<1> QED BY <1>1, <1>2

LEMMA StdOutKeeps ==
  ASSUME IInv, StdOut
  PROVE  IInv'
<1> USE DEF IInv, StdOut
<1>1. Len(out) \in 0..CAP /\ Len(out) \in Nat
  BY Types, ProgramTypes, NumberTypes
<1>2. TypeOK'
  <2>1. ProgramTypeOK'
    BY Types, ProgramTypes, ProgramTypesNext DEF programVars
  <2>2. CASE "out" \in ready
    BY <1>1, <2>1, <2>2, Types, TypesNext DEF prompt
  <2>3. CASE "out" \notin ready
    BY <2>1, <2>3, Types, TypesNext DEF prompt
  <2> QED BY <2>2, <2>3
<1>3. maxText' \in Nat
  BY NumberTypes
<1>4. PageKept' /\ NoOrphans' /\ DrainInv'
  BY <1>1, <1>3 DEF PageKept, NoOrphans, DrainInv, programVars
<1> QED BY <1>2, <1>4

(* One turn of the loop of a drain: a byte, or the end of the pipe. *)
LEMMA DrainByteKeeps ==
  ASSUME IInv, DrainByte
  PROVE  IInv'
<1> USE DEF IInv, DrainByte
<1>1. /\ lines \in Nat /\ maxText \in Nat /\ lines < maxText
      /\ owed \in Int /\ owed >= 0 /\ owed <= CAP /\ CAP \in Nat
      /\ owed <= Len(out) /\ Len(out) \in Nat
  BY NumberTypes, Types, ProgramTypes DEF PageOpen, DrainInv
<1>2. CASE out = <<>>
  <2>1. owed = 0
    BY <1>1, <1>2, EmptySeq
  <2>2. TypeOK'
    BY <1>2, Types, TypesNext, ProgramTypes, ProgramTypesNext DEF prompt
  <2> QED BY <1>1, <1>2, <2>1, <2>2 DEF PageKept, NoOrphans, DrainInv
<1>3. CASE out # <<>>
  <2>1. /\ out' \in Seq(Byte) /\ Len(out') = Len(out) - 1 /\ Len(out') \in Nat
        /\ Len(out') <= CAP
    <3>1. out' = Tail(out) /\ ProgramTypeOK
      BY <1>3, Types
    <3>2. /\ Tail(out) \in Seq(Byte) /\ Len(Tail(out)) = Len(out) - 1 /\ Len(out) > 0
          /\ Len(out) <= CAP
      BY <1>3, <3>1, OneByteRead, ProgramTypes
    <3> QED BY <1>1, <3>1, <3>2
  <2>2. /\ lines' \in Nat /\ lines' <= maxText /\ owed' \in 0..CAP
        /\ owed' <= Len(out')
    BY <1>1, <1>3, <2>1
  <2>3. TypeOK'
    BY <1>3, <2>1, <2>2, Types, TypesNext, ProgramTypes, ProgramTypesNext DEF prompt
  <2> QED BY <1>1, <1>3, <2>2, <2>3 DEF PageKept, NoOrphans, DrainInv
<1> QED BY <1>2, <1>3

(* A drain ends because the page is full, and then a byte was read, or because
   nothing is there. *)
LEMMA DrainEndsKeeps ==
  ASSUME IInv, DrainEnds
  PROVE  IInv'
<1> USE DEF IInv, DrainEnds
<1>1. TypeOK'
  BY Types, TypesNext, ProgramTypes, ProgramTypesNext DEF prompt, display, programVars
<1>2. /\ lines \in Nat /\ maxText \in Nat /\ owed \in Int /\ owed >= 0
      /\ owed <= Len(out)
  BY NumberTypes, Types, ProgramTypes DEF DrainInv
<1>3. ASSUME maxText > 0, length = 0 \/ ~OutReadable PROVE owed = 0
  <2>1. ~OutReadable
    BY <1>2, <1>3 DEF PageOpen, DrainInv
  <2> QED BY <1>2, <2>1, EmptySeq DEF OutReadable
<1>4. PageKept' /\ NoOrphans' /\ DrainInv'
  BY <1>2, <1>3 DEF PageKept, NoOrphans, DrainInv, OutReadable, Alive, display, programVars
<1> QED BY <1>1, <1>4

LEMMA AfterDrainKeeps ==
  ASSUME IInv, AfterDrain
  PROVE  IInv'
<1> USE DEF IInv, AfterDrain
<1>1. TypeOK'
  BY Types, TypesNext, ProgramTypes, ProgramTypesNext DEF prompt, programVars, More, OutReadable
<1>2. length \in {0, 1}
  BY Types
<1>3. PageKept' /\ NoOrphans' /\ DrainInv'
  BY <1>2 DEF PageKept, NoOrphans, DrainInv, More, OutReadable, Alive, programVars
<1> QED BY <1>1, <1>3

(* The handler of SIGINT ends the child with the filter. *)
LEMMA killChildKeeps ==
  ASSUME IInv, killChild
  PROVE  IInv'
<1> USE DEF IInv, killChild
<1>1. TypeOK'
  BY Types, TypesNext, ProgramTypes, ProgramTypesNext DEF prompt, display
<1>2. PageKept' /\ NoOrphans' /\ DrainInv'
  BY DEF PageKept, NoOrphans, DrainInv, Alive, display
<1> QED BY <1>1, <1>2

(* What is readable stays so: the program only adds to the pipe, or dies. *)
LEMMA AroundKeeps ==
  ASSUME IInv, Around
  PROVE  IInv'
<1> USE DEF IInv, Around
<1>1. /\ ProgramTypeOK' /\ (out' = out \/ (out' # <<>> /\ Len(out') = Len(out) + 1))
      /\ ~Alive => ~Alive'
  BY EnvironmentOnly, Types
<1>2. TypeOK'
  BY <1>1, Types, TypesNext DEF prompt, display
<1>3. Len(out) \in Nat /\ owed \in Int
  BY ProgramTypes, NumberTypes, Types
<1>4. OutReadable => OutReadable'
  BY <1>1 DEF OutReadable
<1>5. pc = "drain" => owed <= Len(out')
  BY <1>1, <1>3 DEF DrainInv
<1>6. PageKept' /\ NoOrphans' /\ DrainInv'
  BY <1>4, <1>5 DEF PageKept, NoOrphans, DrainInv, display
<1> QED BY <1>2, <1>6

LEMMA StutterKeeps ==
  ASSUME IInv, UNCHANGED vars
  PROVE  IInv'
<1>1. TypeOK'
  BY Types, TypesNext, ProgramTypes, ProgramTypesNext DEF IInv, vars
<1>2. PageKept' /\ NoOrphans' /\ DrainInv'
  BY DEF IInv, vars, PageKept, NoOrphans, DrainInv, OutReadable, Alive
<1> QED BY <1>1, <1>2 DEF IInv

(* The invariant holds in every reachable state. *)
THEOREM InvariantHolds == Spec => []IInv
<1>1. IInv /\ [Next]_vars => IInv'
  BY LookingKeeps, StdInKeeps, StdOutKeeps, DrainByteKeeps, DrainEndsKeeps,
     AfterDrainKeeps, killChildKeeps, AroundKeeps, StutterKeeps DEF Next, FilterStep
<1> QED BY <1>1, InitHolds, PTL DEF Spec

(* The types of the variables, in every state. *)
THEOREM TypeCorrect == Spec => []TypeOK
<1>1. IInv => TypeOK
  BY DEF IInv
<1> QED BY <1>1, InvariantHolds, PTL

(* What a drain leaves behind (filter.c:227-250), whatever the child does
   meanwhile. *)
THEOREM DrainKeepsPage == Spec => []PageKept
<1>1. IInv => PageKept
  BY DEF IInv
<1> QED BY <1>1, InvariantHolds, PTL

(* Once the handler is installed no child outlives the filter (filter.c:22-24). *)
THEOREM ChildNeverOrphaned == Spec => []NoOrphans
<1>1. IInv => NoOrphans
  BY DEF IInv
<1> QED BY <1>1, InvariantHolds, PTL
================================================================================
