--------------------------------- MODULE Filter --------------------------------
(***************************************************************************)
(* Program5_Filter/filter.c: the loop of the filter, one step for each of  *)
(* its parts, with the program and the user acting in between. The filter  *)
(* keeps both ends of every pipe open, so no pipe ever ends.               *)
(***************************************************************************)
EXTENDS FilteredProgram

CONSTANTS Pages   (* the numbers given to /m, negative ones too; 0 is what atoi makes of no number *)

ASSUME PagesAreNumbers == Pages \subseteq Int

VARIABLES
  pc,            (* the part of the loop the filter is in             *)
  mode,          (* command, input or output                          *)
  maxLine,       (* lines displayed at a time                         *)
  ready,         (* what select found readable                        *)
  flags,         (* skiploop, outputcalled, commandCalled, switchToCommand, more *)
  lines,         (* newlines displayed by this drain                  *)
  childHasDied,  (* the obituary was printed                          *)
  owed,          (* history: bytes there when the drain began, still there *)
  raced          (* history: the child printed while the drain went on *)

filterVars == <<pc, mode, maxLine, ready, flags, lines, childHasDied, owed, raced>>
vars == <<life, out, err, inp, keyboard, pc, mode, maxLine, ready, flags, lines,
          childHasDied, owed, raced>>

(* fork may fail: the loop runs all the same, with no child. *)
Init ==
  /\ InitProgram /\ life \in {"running", "none"}
  /\ pc = "select" /\ mode = "command" /\ maxLine \in Pages \ {0}
  /\ ready = {}
  /\ flags = [skip |-> FALSE, output |-> FALSE, called |-> FALSE,
              switch |-> FALSE, more |-> FALSE]
  /\ lines = 0 /\ childHasDied = FALSE /\ owed = 0 /\ raced = FALSE

Readable ==
  (IF keyboard # Nothing THEN {"keyboard"} ELSE {})
    \union (IF err > 0 THEN {"err"} ELSE {})
    \union (IF mode = "output" /\ out # <<>> THEN {"out"} ELSE {})

(* The child's output is waited for in output mode only. *)
Select ==
  /\ pc = "select" /\ Readable # {}
  /\ ready' = Readable
  /\ flags' = [skip |-> FALSE, output |-> flags.skip, called |-> flags.skip,
               switch |-> FALSE, more |-> FALSE]
  /\ pc' = "errors"
  /\ UNCHANGED <<life, out, err, inp, keyboard, mode, maxLine, lines, childHasDied, owed, raced>>

Called(valid) == flags' = [flags EXCEPT !.called = valid]

(* Mistake: what is not a number is taken for the page. *)
AnyPage(n) == n

(* atoi makes 0 of what is not a number, and 0 is refused. *)
NewPage(n) == IF n = 0 THEN maxLine ELSE n

(* What the keyboard has is a command. *)
HandleCommand(line) ==
  \/ /\ line = "/i" /\ mode' = "input"
     /\ Called(TRUE) /\ UNCHANGED <<life, inp, maxLine>>
  \/ /\ line = "/o" /\ mode' = "output"
     /\ flags' = [flags EXCEPT !.called = TRUE, !.skip = TRUE]
     /\ UNCHANGED <<life, inp, maxLine>>
  \/ /\ line = "/c" /\ mode' = "command"
     /\ Called(TRUE) /\ UNCHANGED <<life, inp, maxLine>>
  \/ /\ line = "/m"
     /\ \E n \in Pages : maxLine' = NewPage(n)
     /\ Called(TRUE) /\ UNCHANGED <<life, inp, mode>>
  \/ /\ line = "/k" /\ Signal
     /\ Called(TRUE) /\ UNCHANGED <<inp, mode, maxLine>>
  \/ /\ line = "//" /\ PassOn
     /\ Called(TRUE) /\ UNCHANGED <<life, mode, maxLine>>
  \/ /\ line = "/?"
     /\ Called(FALSE) /\ UNCHANGED <<life, inp, mode, maxLine>>

Commands == {"/i", "/o", "/c", "/m", "/k", "/?"}

(* In command mode a line that is no command is dropped; in the other modes it
   is passed on, and so is a line that begins with two slashes. *)
HandleStdIn ==
  /\ ReadLine
  /\ \/ /\ keyboard \in Commands \/ (keyboard = "//" /\ mode = "command")
        /\ HandleCommand(keyboard)
     \/ /\ keyboard \in {"text", "//"} /\ mode # "command"
        /\ PassOn /\ UNCHANGED <<life, mode, maxLine, flags>>
     \/ /\ keyboard = EndOfFile \/ (keyboard = "text" /\ mode = "command")
        /\ UNCHANGED <<life, inp, mode, maxLine, flags>>

(* What the child complains of is copied byte by byte, for as long as there is
   another one. *)
CopyError ==
  /\ pc = "errors" /\ "err" \in ready /\ err > 0
  /\ err' = err - 1
  /\ UNCHANGED <<life, out, inp, keyboard, pc, mode, maxLine, ready, flags, lines,
                 childHasDied, owed, raced>>

ErrorsEnd ==
  /\ pc = "errors" /\ ("err" \notin ready \/ err = 0)
  /\ pc' = "keyboard"
  /\ UNCHANGED <<programVars, mode, maxLine, ready, flags, lines, childHasDied, owed, raced>>

(* Then one line is handled. *)
Keyboard ==
  /\ pc = "keyboard"
  /\ IF "keyboard" \in ready THEN HandleStdIn
     ELSE UNCHANGED <<life, inp, keyboard, mode, maxLine, flags>>
  /\ pc' = "cancel"
  /\ UNCHANGED <<out, err, ready, lines, childHasDied, owed, raced>>

(* /o skips to the next round, unless there is nothing to display. A drain
   takes place only in the round after /o. *)
CancelOrDrain ==
  /\ pc = "cancel"
  /\ flags' = [flags EXCEPT !.skip = @ /\ out # <<>>]
  /\ pc' = IF "out" \in ready /\ mode = "output" /\ flags.output THEN "drain" ELSE "wait"
  /\ lines' = 0 /\ owed' = Len(out) /\ raced' = FALSE
  /\ UNCHANGED <<life, out, err, inp, keyboard, mode, maxLine, ready, childHasDied>>

(* Mistake: the page is one line longer. *)
DrainByteTooMany ==
  LET full == lines' > maxLine /\ out' # <<>>
  IN  /\ pc = "drain" /\ out # <<>>
      /\ out' = Tail(out)
      /\ lines' = IF Head(out) = "newline" /\ lines <= maxLine THEN lines + 1 ELSE lines
      /\ owed' = IF owed > 0 THEN owed - 1 ELSE 0
      /\ flags' = [flags EXCEPT !.switch = full, !.more = full]
      /\ pc' = IF full THEN "wait" ELSE "drain"
      /\ UNCHANGED <<life, err, inp, keyboard, mode, maxLine, ready, childHasDied, raced>>

(* Mistake: as in HandleChildOut, which nothing calls: read is not preceded by
   poll and waits for the page to fill. *)
DrainBlocks ==
  /\ pc = "drain" /\ out = <<>> /\ lines >= maxLine
  /\ flags' = [flags EXCEPT !.switch = TRUE]
  /\ pc' = "wait"
  /\ UNCHANGED <<life, out, err, inp, keyboard, mode, maxLine, ready, lines, childHasDied, owed, raced>>

(* One byte: after it the drain stops if the page is full and, at this moment,
   there is more. Beyond the page newlines are no longer counted (bound). *)
DrainByte ==
  LET full == lines' >= maxLine /\ out' # <<>>
  IN  /\ pc = "drain" /\ out # <<>>
      /\ out' = Tail(out)
      /\ lines' = IF Head(out) = "newline" /\ lines <= maxLine THEN lines + 1 ELSE lines
      /\ owed' = IF owed > 0 THEN owed - 1 ELSE 0
      /\ flags' = [flags EXCEPT !.switch = full, !.more = full]
      /\ pc' = IF full THEN "wait" ELSE "drain"
      /\ UNCHANGED <<life, err, inp, keyboard, mode, maxLine, ready, childHasDied, raced>>

DrainEnds ==
  /\ pc = "drain" /\ out = <<>>
  /\ flags' = [flags EXCEPT !.switch = TRUE]
  /\ pc' = "wait"
  /\ UNCHANGED <<life, out, err, inp, keyboard, mode, maxLine, ready, lines, childHasDied, owed, raced>>

(* Mistake: the death is looked for while the child is drained only. *)
ObituaryAtDrain ==
  /\ pc = "wait" /\ pc' = "prompt"
  /\ IF flags.switch THEN Waitpid /\ childHasDied' = (childHasDied \/ Gone)
     ELSE UNCHANGED <<life, childHasDied>>
  /\ UNCHANGED <<out, err, inp, keyboard, mode, maxLine, ready, flags, lines, owed, raced>>

(* waitpid fails once the death has been collected, one round before. *)
Obituary ==
  /\ pc = "wait" /\ pc' = "prompt"
  /\ Waitpid
  /\ childHasDied' = (childHasDied \/ Gone)
  /\ UNCHANGED <<out, err, inp, keyboard, mode, maxLine, ready, flags, lines, owed, raced>>

(* Command mode comes back only with a prompt. *)
Prompt ==
  /\ pc = "prompt" /\ pc' = "select"
  /\ mode' = IF flags.called /\ ~flags.skip /\ flags.switch THEN "command" ELSE mode
  /\ lines' = 0 /\ owed' = 0 /\ raced' = FALSE
  /\ UNCHANGED <<life, out, err, inp, keyboard, maxLine, ready, flags, childHasDied>>

FilterStep ==
  \/ Select \/ CopyError \/ ErrorsEnd \/ Keyboard
  \/ CancelOrDrain \/ DrainByte \/ DrainEnds \/ Obituary \/ Prompt

Around ==
  /\ Environment
  /\ raced' = (raced \/ (pc = "drain" /\ out' # out))
  /\ UNCHANGED <<pc, mode, maxLine, ready, flags, lines, childHasDied, owed>>

Next == FilterStep \/ Around

Spec == Init /\ [][Next]_vars /\ WF_vars(FilterStep)
--------------------------------------------------------------------------------
TypeOK ==
  /\ ProgramTypeOK
  /\ pc \in {"select", "errors", "keyboard", "cancel", "drain", "wait", "prompt"}
  /\ mode \in {"command", "input", "output"} /\ maxLine \in Pages \ {0}
  /\ ready \subseteq {"keyboard", "err", "out"}
  /\ flags \in [skip : BOOLEAN, output : BOOLEAN, called : BOOLEAN,
                switch : BOOLEAN, more : BOOLEAN]
  /\ lines \in Nat /\ owed \in 0..CAP
  /\ childHasDied \in BOOLEAN /\ raced \in BOOLEAN

(* What a drain leaves behind (filter.c:332-387): without "more" all that was
   there when it began is displayed, with it something is there; the page is
   kept, if it has any lines (atoi takes a minus sign, too), unless the child
   prints between two polls; and the filter is back in command mode, unless a
   line typed in that very round was read before the drain. *)
PageKept ==
  /\ flags.switch /\ ~flags.more => owed = 0
  /\ flags.more => out # <<>> /\ flags.switch
  /\ ~raced /\ maxLine > 0 => lines <= maxLine
  /\ pc = "select" /\ flags.switch /\ "keyboard" \notin ready => mode = "command"

(* The loop (filter.c:273-389) comes back to select, and to the user, for ever.
   Three things can hold it up, and each needs the child's part in it: a line for
   a child that does not read, into a full pipe (165, 193-207); a child that never
   stops complaining (310-317); a child that never stops printing, with no newline
   or never more than a byte ahead of the drain (339-359). *)
FilterReturns ==
  \/ []<>(pc = "select")
  \/ <>[](pc = "keyboard" /\ inp = CAP)
  \/ <>[](pc = "errors") /\ []<><<Complain>>_err
  \/ <>[](pc = "drain") /\ []<><<\E b \in Byte : PrintByte(b)>>_out

(* A child that died is announced (filter.c:366-376) as long as something keeps
   waking select: the first round collects the death, the second announces it. *)
ObituaryComes == []<>(pc = "prompt") => (life = "zombie" ~> childHasDied)
================================================================================
