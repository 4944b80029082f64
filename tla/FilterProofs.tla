------------------------------ MODULE FilterProofs ------------------------------
(***************************************************************************)
(* Proofs about Filter for every pipe, every page and every command: its   *)
(* types and what a drain leaves behind.                                   *)
(***************************************************************************)
EXTENDS Filter, FilteredProgramProofs

(***************************************************************************)
(* The inductive invariant.  PageKept speaks of the end of a drain, and of *)
(* the flags of the round it took place in; that it holds then depends on  *)
(* what is true byte after byte (DisplayInv) and on which flags a round    *)
(* without a typed line can have (ModeInv).                                *)
(***************************************************************************)
DisplayInv ==
  /\ pc \in {"select", "errors", "keyboard", "cancel"} => lines = 0 /\ owed = 0
  /\ pc \in {"errors", "keyboard", "cancel", "drain"} => ~flags.switch /\ ~flags.more
  /\ pc = "drain" =>
       /\ owed <= Len(out)
       /\ ~raced /\ maxLine > 0 /\ out # <<>> => lines < maxLine
ModeInv ==
  /\ pc # "select" /\ "keyboard" \notin ready => ~flags.skip /\ flags.called = flags.output
  /\ pc = "drain" \/ (pc \in {"wait", "prompt"} /\ flags.switch) => flags.output
IInv == TypeOK /\ PageKept /\ DisplayInv /\ ModeInv

Flags == [skip : BOOLEAN, output : BOOLEAN, called : BOOLEAN,
          switch : BOOLEAN, more : BOOLEAN]

(* maxLine is a number, the two counters are natural. *)
LEMMA NumberTypes ==
  ASSUME TypeOK
  PROVE  /\ maxLine \in Int /\ lines \in Int /\ lines >= 0
         /\ owed \in Int /\ owed >= 0 /\ owed <= CAP
         /\ CAP \in Nat /\ inp \in Int
BY CapPositive, PagesAreNumbers DEF TypeOK, ProgramTypeOK

--------------------------------------------------------------------------------
LEMMA InitHolds == Init => IInv
<1> SUFFICES ASSUME Init PROVE IInv
  OBVIOUS
<1>1. ProgramTypeOK
  <2>1. out \in Seq(Byte) /\ Len(out) = 0
    BY EmptySeq DEF Init, InitProgram
  <2>2. 0 <= CAP /\ 0 \in 0..CAP
    BY CapPositive
  <2> QED BY <2>1, <2>2, ProgramTypes DEF Init, InitProgram
<1>2. TypeOK
  <2>1. 0 \in 0..CAP
    BY CapPositive
  <2> QED BY <1>1, <2>1 DEF Init, TypeOK
<1>3. PageKept /\ DisplayInv /\ ModeInv
  BY NumberTypes, <1>2 DEF Init, PageKept, DisplayInv, ModeInv
<1> QED BY <1>2, <1>3 DEF IInv

LEMMA SelectKeeps ==
  ASSUME IInv, Select
  PROVE  IInv'
<1> USE DEF IInv, Select
<1>1. TypeOK'
  BY ProgramTypes, ProgramTypesNext DEF TypeOK, Readable
<1>2. PageKept'
  BY DEF PageKept, DisplayInv, TypeOK
<1>3. DisplayInv'
  BY DEF DisplayInv
<1>4. ModeInv'
  BY DEF ModeInv
<1> QED BY <1>1, <1>2, <1>3, <1>4

(* A line of the keyboard may change the mode, the page, and the flags that
   say a command was called; it is handled with no display under way. *)
LEMMA LineHandled ==
  ASSUME TypeOK, HandleStdIn
  PROVE  /\ life' \in {"none", "running", "writing", "zombie", "reaped"}
         /\ inp' \in 0..CAP /\ keyboard' \in Lines \union {Nothing, EndOfFile}
         /\ mode' \in {"command", "input", "output"} /\ maxLine' \in Pages \ {0}
         /\ flags' \in Flags
         /\ flags'.switch = flags.switch /\ flags'.more = flags.more
         /\ flags'.output = flags.output
<1> USE DEF TypeOK, ProgramTypeOK, Flags
<1>1. keyboard' \in Lines \union {Nothing, EndOfFile}
  BY DEF HandleStdIn, ReadLine
<1>2. ASSUME PassOn PROVE inp' \in 0..CAP
  BY <1>2, CapPositive DEF PassOn
<1>3. CASE HandleCommand(keyboard)
  BY <1>1, <1>2, <1>3 DEF HandleCommand, Called, NewPage, Signal, Alive
<1>4. CASE ~HandleCommand(keyboard)
  BY <1>1, <1>2, <1>4 DEF HandleStdIn
<1> QED BY <1>3, <1>4

LEMMA ErrorsKeep ==
  ASSUME IInv, CopyError \/ ErrorsEnd
  PROVE  IInv'
<1> USE DEF IInv
<1>1. CASE CopyError
  <2>1. err' \in 0..CAP
    BY <1>1, ProgramTypes, CapPositive DEF CopyError, TypeOK
  <2>2. TypeOK'
    BY <1>1, <2>1, ProgramTypes, ProgramTypesNext DEF CopyError, TypeOK
  <2>3. PageKept' /\ DisplayInv' /\ ModeInv'
    BY <1>1 DEF CopyError, PageKept, DisplayInv, ModeInv
  <2> QED BY <2>2, <2>3
<1>2. CASE ErrorsEnd
  <2>1. TypeOK'
    BY <1>2, ProgramTypes, ProgramTypesNext DEF ErrorsEnd, programVars, TypeOK
  <2>2. PageKept' /\ DisplayInv' /\ ModeInv'
    BY <1>2 DEF ErrorsEnd, programVars, PageKept, DisplayInv, ModeInv
  <2> QED BY <2>1, <2>2
<1> QED BY <1>1, <1>2

LEMMA KeyboardKeeps ==
  ASSUME IInv, Keyboard
  PROVE  IInv'
<1> USE DEF IInv
<1>1. /\ life' \in {"none", "running", "writing", "zombie", "reaped"}
      /\ inp' \in 0..CAP /\ keyboard' \in Lines \union {Nothing, EndOfFile}
      /\ mode' \in {"command", "input", "output"} /\ maxLine' \in Pages \ {0}
      /\ flags' \in Flags
      /\ flags'.switch = flags.switch /\ flags'.more = flags.more
      /\ flags'.output = flags.output
  BY LineHandled DEF Keyboard, TypeOK, ProgramTypeOK, Flags
<1>2. TypeOK'
  <2>1. ProgramTypeOK'
    BY <1>1, ProgramTypes, ProgramTypesNext DEF Keyboard, TypeOK
  <2> QED BY <1>1, <2>1 DEF Keyboard, TypeOK, Flags
<1>3. maxLine' \in Int
  BY <1>1, PagesAreNumbers
<1>4. PageKept'
  BY <1>1, <1>3 DEF Keyboard, PageKept, DisplayInv
<1>5. DisplayInv'
  BY <1>1 DEF Keyboard, DisplayInv
<1>6. ModeInv'
  BY DEF Keyboard, ModeInv
<1> QED BY <1>2, <1>4, <1>5, <1>6

LEMMA CancelKeeps ==
  ASSUME IInv, CancelOrDrain
  PROVE  IInv'
<1> USE DEF IInv, CancelOrDrain
<1>1. /\ flags' = [flags EXCEPT !.skip = flags'.skip]
      /\ flags' \in Flags /\ flags'.switch = flags.switch /\ flags'.more = flags.more
      /\ flags'.output = flags.output /\ flags'.called = flags.called
      /\ flags'.skip => flags.skip
  BY DEF TypeOK, Flags
<1>2. Len(out) \in 0..CAP /\ maxLine \in Int
  BY ProgramTypes, NumberTypes DEF TypeOK
<1>3. TypeOK'
  BY <1>1, <1>2, ProgramTypes, ProgramTypesNext DEF TypeOK, Flags
<1>4. PageKept'
  BY <1>1, <1>2 DEF PageKept, DisplayInv
<1>5. DisplayInv'
  BY <1>1, <1>2 DEF DisplayInv
<1>6. ModeInv'
  BY <1>1, <1>2 DEF ModeInv, DisplayInv
<1> QED BY <1>3, <1>4, <1>5, <1>6

(* Byte after byte: what was owed is the older part of what is left; the
   drain goes on past a full page only when nothing is left. *)
LEMMA DrainByteKeeps ==
  ASSUME IInv, DrainByte
  PROVE  IInv'
<1> USE DEF IInv, DrainByte
<1> DEFINE full == lines' >= maxLine /\ out' # <<>>
<1>1. /\ out' \in Seq(Byte) /\ Len(out') = Len(out) - 1 /\ Len(out') \in Nat
      /\ Len(out') <= CAP
      /\ maxLine \in Int /\ lines \in Int /\ owed \in Int /\ owed >= 0 /\ lines >= 0
      /\ owed <= CAP /\ CAP \in Nat /\ Len(out) \in Nat
  BY ProgramTypes, NumberTypes, OneByteRead, CapPositive DEF TypeOK
<1>2. /\ flags' \in Flags /\ flags'.switch = full /\ flags'.more = full
      /\ flags'.output = flags.output /\ flags'.called = flags.called
      /\ flags'.skip = flags.skip
  BY DEF TypeOK, Flags
<1>3. lines' \in Nat /\ lines' \in {lines, lines + 1} /\ owed' \in 0..CAP
  BY <1>1
<1>4. TypeOK'
  BY <1>1, <1>2, <1>3, ProgramTypes, ProgramTypesNext DEF TypeOK, Flags
<1>5. owed' <= Len(out') /\ owed' >= 0
  BY <1>1 DEF DisplayInv
<1>6. ~raced /\ maxLine > 0 => lines < maxLine
  BY DEF DisplayInv
<1>7. CASE full
  <2>1. pc' = "wait" /\ flags'.switch /\ flags'.more /\ out' # <<>>
    BY <1>2, <1>7
  <2>2. ~raced /\ maxLine > 0 => lines' <= maxLine
    BY <1>1, <1>3, <1>6
  <2> QED BY <2>1, <2>2, <1>4, <1>2 DEF PageKept, DisplayInv, ModeInv
<1>8. CASE ~full
  <2>1. pc' = "drain" /\ ~flags'.switch /\ ~flags'.more
    BY <1>2, <1>8
  <2>2. ~raced /\ maxLine > 0 => lines' <= maxLine
    BY <1>1, <1>3, <1>6
  <2>3. ~raced /\ maxLine > 0 /\ out' # <<>> => lines' < maxLine
    BY <1>1, <1>3, <1>8
  <2> QED BY <2>1, <2>2, <2>3, <1>4, <1>5, <1>2 DEF PageKept, DisplayInv, ModeInv
<1> QED BY <1>7, <1>8

(* A drain that ends with nothing left owes nothing. *)
LEMMA DrainEndsKeeps ==
  ASSUME IInv, DrainEnds
  PROVE  IInv'
<1> USE DEF IInv, DrainEnds
<1>1. Len(out) = 0 /\ owed = 0
  BY NumberTypes, EmptySeq DEF DisplayInv
<1>2. /\ flags' \in Flags /\ flags'.switch /\ flags'.more = flags.more
      /\ flags'.output = flags.output /\ flags'.called = flags.called
      /\ flags'.skip = flags.skip
  BY DEF TypeOK, Flags
<1>3. TypeOK'
  BY <1>2, ProgramTypes, ProgramTypesNext DEF TypeOK, Flags
<1>4. PageKept'
  BY <1>1, <1>2 DEF PageKept, DisplayInv
<1>5. DisplayInv' /\ ModeInv'
  BY <1>1, <1>2 DEF DisplayInv, ModeInv
<1> QED BY <1>3, <1>4, <1>5

LEMMA ObituaryKeeps ==
  ASSUME IInv, Obituary
  PROVE  IInv'
<1> USE DEF IInv, Obituary
<1>1. TypeOK'
  BY ProgramTypes, ProgramTypesNext DEF TypeOK, Waitpid
<1>2. PageKept' /\ DisplayInv' /\ ModeInv'
  BY DEF PageKept, DisplayInv, ModeInv
<1> QED BY <1>1, <1>2

(* The round that drained and read no line ends in command mode. *)
LEMMA PromptKeeps ==
  ASSUME IInv, Prompt
  PROVE  IInv'
<1> USE DEF IInv, Prompt
<1>1. TypeOK'
  <2>1. 0 \in 0..CAP
    BY CapPositive
  <2> QED BY <2>1, ProgramTypes, ProgramTypesNext DEF TypeOK
<1>2. PageKept'
  BY NumberTypes DEF PageKept, ModeInv, DisplayInv
<1>3. DisplayInv' /\ ModeInv'
  BY DEF DisplayInv, ModeInv
<1> QED BY <1>1, <1>2, <1>3

(* What the program prints meanwhile only adds to the pipe, and a drain it
   adds to is a race. *)
LEMMA AroundKeeps ==
  ASSUME IInv, Around
  PROVE  IInv'
<1> USE DEF IInv, Around
<1>1. /\ ProgramTypeOK' /\ (out' = out \/ (out' # <<>> /\ Len(out') = Len(out) + 1))
  BY EnvironmentOnly DEF TypeOK
<1>2. TypeOK'
  BY <1>1 DEF TypeOK
<1>3. Len(out) \in Nat /\ owed \in Int
  BY ProgramTypes, NumberTypes DEF TypeOK
<1>4. PageKept'
  BY <1>1 DEF PageKept
<1>5. DisplayInv'
  <2>1. ASSUME pc = "drain" PROVE owed <= Len(out')
    BY <1>1, <1>3, <2>1 DEF DisplayInv
  <2>2. ASSUME pc = "drain", ~raced' PROVE out' = out /\ ~raced
    BY <2>2
  <2> QED BY <2>1, <2>2 DEF DisplayInv
<1>6. ModeInv'
  BY DEF ModeInv
<1> QED BY <1>2, <1>4, <1>5, <1>6

LEMMA StutterKeeps ==
  ASSUME IInv, UNCHANGED vars
  PROVE  IInv'
BY ProgramTypes, ProgramTypesNext
   DEF IInv, vars, TypeOK, PageKept, DisplayInv, ModeInv

(* The invariant holds in every reachable state. *)
THEOREM InvariantHolds == Spec => []IInv
<1>1. IInv /\ [Next]_vars => IInv'
  BY SelectKeeps, ErrorsKeep, KeyboardKeeps, CancelKeeps, DrainByteKeeps, DrainEndsKeeps, ObituaryKeeps,
     PromptKeeps, AroundKeeps, StutterKeeps DEF Next, FilterStep
<1> QED BY <1>1, InitHolds, PTL DEF Spec

(* The types: no pipe holds more than it can, every flag is one or zero. *)
THEOREM TypeCorrect == Spec => []TypeOK
<1>1. IInv => TypeOK
  BY DEF IInv
<1> QED BY <1>1, InvariantHolds, PTL

(* What a drain leaves behind (filter.c:332-387), for pages and pipes of any
   size: all displayed or "more" and something is there, the page kept unless
   the child raced, and command mode back. *)
THEOREM DrainKeepsPage == Spec => []PageKept
<1>1. IInv => PageKept
  BY DEF IInv
<1> QED BY <1>1, InvariantHolds, PTL
================================================================================
