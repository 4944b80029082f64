------------------------------- MODULE MarkFilter ------------------------------
(***************************************************************************)
(* mark_program5/filter.c: the other filter, part by part of its loop. It  *)
(* closes the ends of the pipes it does not use, so that a pipe of a dead  *)
(* child ends: reading finds the end at once, and writing is fatal.        *)
(***************************************************************************)
EXTENDS FilteredProgram

CONSTANTS Pages   (* the numbers given to /m; 0 is what atoi makes of no number *)

ASSUME PagesAreNatural == Pages \subseteq Nat

VARIABLES
  pc,               (* the part of the program the filter is in, or gone  *)
  mode,             (* command, input or both                             *)
  maxText,          (* lines displayed at a time                          *)
  ioModeShouldPrint,
  more, skipPrompt, hasPrintedInputPrompt, childHasDied,
  ready,            (* what select found readable                         *)
  lines,            (* newlines displayed by this drain                   *)
  length,           (* what read returned last; at first anything         *)
  handled,          (* the handler of SIGINT is installed                 *)
  owed              (* history: bytes there when the drain began, still there *)

display == <<maxText, ioModeShouldPrint, more, lines, length, owed>>
prompt == <<skipPrompt, hasPrintedInputPrompt, childHasDied>>
vars == <<life, out, err, inp, keyboard, pc, mode, maxText, ioModeShouldPrint, more,
          skipPrompt, hasPrintedInputPrompt, childHasDied, ready, lines, length,
          handled, owed>>

Init ==
  /\ InitProgram /\ life \in {"running", "none"}
  /\ pc = "start" /\ mode = "command" /\ maxText \in Pages \ {0}
  /\ ioModeShouldPrint \in BOOLEAN   (* not initialised *)
  /\ more = FALSE /\ skipPrompt = FALSE /\ hasPrintedInputPrompt = FALSE
  /\ childHasDied = FALSE /\ ready = {} /\ lines = 0 /\ length = 0
  /\ handled = FALSE /\ owed = 0

(* The child runs already. *)
Start ==
  /\ pc = "start" /\ pc' = "select" /\ handled' = TRUE
  /\ UNCHANGED <<programVars, mode, display, prompt, ready>>

(* poll(2) and select(2) report the end of a pipe, too. *)
OutReadable == out # <<>> \/ ~Alive

(* The lowest free numbers, when 0, 1 and 2 are open; select is asked of the
   first 6 only, so that the child's errors are never found, nor their end. *)
Descriptor == [keyboard |-> 0, out |-> 5, err |-> 7]
Watched(d) == Descriptor[d] < 6

(* Mistake: the output is read only when something else wakes the filter. *)
ReadableByOthers == {d \in {"keyboard"} : keyboard # Nothing /\ Watched(d)}

Readable ==
  {d \in {"keyboard", "out", "err"} :
     /\ Watched(d)
     /\ CASE d = "keyboard" -> keyboard # Nothing
          [] d = "out" -> mode = "both" /\ ioModeShouldPrint /\ OutReadable
          [] d = "err" -> err > 0 \/ ~Alive}

Select ==
  /\ pc = "select" /\ Readable # {}
  /\ ready' = Readable /\ pc' = "stdin"
  /\ UNCHANGED <<programVars, mode, display, prompt, handled>>

(* Mistake: the mode is the character before the letter. *)
EnterSlash(line) ==
  /\ line = "/o" /\ mode' = "/"
  /\ ioModeShouldPrint' = TRUE /\ skipPrompt' = TRUE
  /\ UNCHANGED <<life, maxText, hasPrintedInputPrompt>>

EnterBoth(line) ==
  /\ line = "/o" /\ mode' = "both"
  /\ ioModeShouldPrint' = TRUE /\ skipPrompt' = TRUE
  /\ UNCHANGED <<life, maxText, hasPrintedInputPrompt>>

Command(line) ==
  \/ EnterBoth(line)
  \/ /\ line = "/i" /\ mode' = "input" /\ hasPrintedInputPrompt' = FALSE
     /\ UNCHANGED <<life, maxText, ioModeShouldPrint, skipPrompt>>
  \/ /\ line = "/m" /\ maxText' \in Pages
     /\ UNCHANGED <<life, mode, ioModeShouldPrint, skipPrompt, hasPrintedInputPrompt>>
  \/ /\ line = "/k" /\ Signal
     /\ UNCHANGED <<mode, maxText, ioModeShouldPrint, skipPrompt, hasPrintedInputPrompt>>
  \/ /\ line \in {"/c", "/?"} /\ mode' = IF line = "/c" THEN "command" ELSE mode
     /\ UNCHANGED <<life, maxText, ioModeShouldPrint, skipPrompt, hasPrintedInputPrompt>>

(* To the child, in any mode when it begins with two slashes. Of nothing read,
   nothing is written; a pipe nobody can read any more ends the filter. *)
SendLine(line) ==
  /\ line = "//" \/ (line = "text" /\ mode # "command")
  /\ \/ keyboard = EndOfFile /\ pc' = "out" /\ UNCHANGED inp
     \/ keyboard # EndOfFile /\ Alive /\ PassOn /\ pc' = "out"
     \/ keyboard # EndOfFile /\ ~Alive /\ pc' = "gone" /\ UNCHANGED inp
  /\ UNCHANGED <<life, mode, maxText, ioModeShouldPrint, skipPrompt, hasPrintedInputPrompt>>

(* At the end of the input the line is whatever the buffer, never filled,
   happens to hold. *)
StdIn ==
  /\ pc = "stdin"
  /\ IF "keyboard" \notin ready
     THEN pc' = "out" /\ UNCHANGED <<programVars, mode, maxText, ioModeShouldPrint, prompt>>
     ELSE /\ \E line \in IF keyboard = EndOfFile THEN Lines ELSE {keyboard} :
               \/ Command(line) /\ pc' = "out" /\ UNCHANGED inp
               \/ SendLine(line)
               \/ /\ line = "text" /\ mode = "command" /\ pc' = "out"
                  /\ UNCHANGED <<life, inp, mode, maxText, ioModeShouldPrint,
                                 skipPrompt, hasPrintedInputPrompt>>
          /\ ReadLine
          /\ UNCHANGED <<out, err, childHasDied>>
  /\ UNCHANGED <<ready, more, lines, length, handled, owed>>

StdOut ==
  /\ pc = "out"
  /\ IF "out" \in ready
     THEN /\ pc' = "drain" /\ lines' = 0 /\ length' \in {0, 1} /\ owed' = Len(out)
          /\ UNCHANGED more
     ELSE /\ pc' = "err" /\ more' = FALSE
          /\ UNCHANGED <<lines, length, owed>>
  /\ UNCHANGED <<programVars, mode, maxText, ioModeShouldPrint, prompt, ready, handled>>

(* Mistake: one line too many. *)
PageOpenTooLong == lines <= maxText

PageOpen == lines < maxText

DrainByte ==
  /\ pc = "drain" /\ PageOpen /\ OutReadable
  /\ IF out = <<>> THEN length' = 0 /\ pc' = "more" /\ UNCHANGED <<out, lines, owed>>
     ELSE /\ length' = 1 /\ out' = Tail(out)
          /\ lines' = lines + (IF Head(out) = "newline" THEN 1 ELSE 0)
          /\ owed' = IF owed > 0 THEN owed - 1 ELSE 0
          /\ UNCHANGED pc
  /\ UNCHANGED <<life, err, inp, keyboard, mode, maxText, ioModeShouldPrint, more, prompt,
                 ready, handled>>

DrainEnds ==
  /\ pc = "drain" /\ (~PageOpen \/ ~OutReadable)
  /\ pc' = "more"
  /\ UNCHANGED <<programVars, mode, display, prompt, ready, handled>>

(* With a page of no lines length is still what it was. *)
More == length = 1 /\ OutReadable

AfterDrain ==
  /\ pc = "more" /\ pc' = "err"
  /\ more' = More /\ ioModeShouldPrint' = FALSE
  /\ UNCHANGED <<programVars, mode, maxText, lines, length, owed, prompt, ready, handled>>

(* One read, of more than the pipe is given to hold here. *)
StdErr ==
  /\ pc = "err" /\ pc' = "wait"
  /\ err' = IF "err" \in ready THEN 0 ELSE err
  /\ UNCHANGED <<life, out, inp, keyboard, mode, display, prompt, ready, handled>>

Obituary ==
  /\ pc = "wait" /\ pc' = "prompt"
  /\ Waitpid
  /\ childHasDied' = (childHasDied \/ Gone)
  /\ UNCHANGED <<out, err, inp, keyboard, mode, display, skipPrompt, hasPrintedInputPrompt,
                 ready, handled>>

Prompt ==
  /\ pc = "prompt" /\ pc' = "select"
  /\ hasPrintedInputPrompt' = (hasPrintedInputPrompt \/ (mode = "input" /\ ~skipPrompt))
  /\ skipPrompt' = FALSE
  /\ ready' = {} /\ lines' = 0 /\ length' = 0 /\ owed' = 0
  /\ UNCHANGED <<programVars, mode, maxText, ioModeShouldPrint, more, childHasDied, handled>>

(* Mistake: the filter goes and leaves the child. *)
LeaveChild ==
  /\ pc # "gone" /\ pc' = "gone"
  /\ UNCHANGED <<programVars, mode, display, prompt, ready, handled>>

(* SIGINT, at any time. Before the handler is installed it is simply fatal. *)
killChild ==
  /\ pc # "gone" /\ pc' = "gone"
  /\ life' = IF handled /\ Alive THEN "zombie" ELSE life
  /\ UNCHANGED <<out, err, inp, keyboard, mode, display, prompt, ready, handled>>

FilterStep ==
  \/ Start \/ Select \/ StdIn \/ StdOut \/ DrainByte \/ DrainEnds \/ AfterDrain
  \/ StdErr \/ Obituary \/ Prompt

Around ==
  /\ pc # "gone" /\ Environment
  /\ UNCHANGED <<pc, mode, display, prompt, ready, handled>>

Next == FilterStep \/ killChild \/ Around

Spec == Init /\ [][Next]_vars /\ WF_vars(FilterStep)
--------------------------------------------------------------------------------
TypeOK ==
  /\ ProgramTypeOK
  /\ pc \in {"start", "select", "stdin", "out", "drain", "more", "err", "wait", "prompt", "gone"}
  /\ mode \in {"command", "input", "both"} /\ maxText \in Pages
  /\ {ioModeShouldPrint, more, skipPrompt, hasPrintedInputPrompt, childHasDied, handled}
       \subseteq BOOLEAN
  /\ ready \subseteq {"keyboard", "err", "out"}
  /\ lines \in Nat /\ length \in {0, 1} /\ owed \in 0..CAP

(* What a drain leaves behind (filter.c:227-250): never more lines than the
   page; and, for a page of at least one line, without "more" all that was there
   when it began is displayed, while with it something is there or the pipe is
   at its end, which poll cannot tell apart. *)
PageKept ==
  /\ pc \in {"drain", "more"} => lines <= maxText
  /\ pc = "err" /\ "out" \in ready /\ maxText > 0 =>
       /\ ~more => owed = 0
       /\ more => OutReadable

(* filter.c:22-24, "in order to make sure the child is killed as well": once
   the handler is installed the filter, stopped by SIGINT or by writing to the
   pipe of a dead child, leaves no child alive behind. *)
NoOrphans == pc = "gone" /\ handled => ~Alive

(* Output asked for by /o is displayed when it comes (filter.c:129-131, 172,
   227), however late, as long as the filter is in that mode; a child that does
   not read what it is sent may hold the filter up (220). *)
OutputComes ==
  mode = "both" /\ ioModeShouldPrint /\ out # <<>> ~>
    \/ mode # "both" \/ ~ioModeShouldPrint
    \/ pc \in {"drain", "gone"} \/ (pc = "stdin" /\ inp = CAP)
================================================================================
