----------------------------- MODULE Script -----------------------------
(***************************************************************************)
(* What an event's script promises, without frames, budgets and yields:    *)
(* the commands of Game_Interpreter in the order the script gives them,    *)
(* one call stack, nothing repeated and nothing left out.                  *)
(*                                                                         *)
(* A command is a record [op, arg]; the operations stand for the commands  *)
(* that treat the interpreter's loop alike:                                *)
(*   plain  most commands               say    ShowMessage                 *)
(*   wait   Wait (arg frames)           yield  an AsyncOp is started       *)
(*   jump   JumpToLabel, EndLoop (arg)  fetch  GetPictureInfo: YieldRepeat *)
(*   call   CallEvent (arg: a routine)  menu   a scene is requested        *)
(*   end    EndEventProcessing          flip   ControlSwitches             *)
(*   if     ConditionalBranch on the switch (arg: where its else part is)   *)
(***************************************************************************)
EXTENDS Integers, Sequences

CONSTANTS Routines,   \* lists of commands: event pages and common events
          Code,       \* the commands of each
          PageFor,    \* the page the event shows for each value of a switch
          CallLimit   \* call_stack_limit

VARIABLES
  main,     \* main_flag: the foreground interpreter, or a parallel event's
  flag,     \* the switch that the pages depend on
  page,     \* the page of the event
  stack,    \* _state.stack: a routine and the index of its next command
  message,  \* the message window: "none", "own" (this script's) or "other"
  loaded    \* whether the picture has arrived

vars == <<main, flag, page, stack, message, loaded>>

Top        == stack[Len(stack)]
Done(f)    == f.i > Len(Code[f.r])
Command(f) == Code[f.r][f.i]
Goto(s, i) == [s EXCEPT ![Len(s)].i = i]
Past(s)    == Goto(s, s[Len(s)].i + 1)
Entry(r)   == [r |-> r, i |-> 1]
Drop(s)    == SubSeq(s, 1, Len(s) - 1)

(* What a command makes of the stack.  CallEvent increments the caller and *)
(* pushes; ending a script moves its index behind the last command.        *)
After(s) ==
  LET f == s[Len(s)]
      c == Command(f)
  IN CASE c.op = "jump" -> Goto(s, c.arg)
       [] c.op = "call" -> Append(Past(s), Entry(c.arg))
       [] c.op = "if"   -> IF flag THEN Past(s) ELSE Goto(s, c.arg)
       [] c.op = "end"  -> Goto(s, Len(Code[f.r]) + 1)
       [] OTHER         -> Past(s)

(* What OnFinishStackFrame makes of it: the base frame of a parallel event  *)
(* starts over, every other frame is popped.                               *)
Returned(s) == IF ~main /\ Len(s) = 1 THEN Goto(s, 1) ELSE Drop(s)

-----------------------------------------------------------------------------

Init == /\ main \in BOOLEAN /\ flag \in BOOLEAN
        /\ page = PageFor[flag]
        /\ stack = <<>> /\ message = "none" /\ loaded = FALSE

Start == /\ stack = <<>>
         /\ stack' = <<Entry(page)>>
         /\ UNCHANGED <<main, flag, page, message, loaded>>

(* The foreground script goes on while its event turns to another page.    *)
PageMayTurn == page' = page \/ (main /\ page' = PageFor[flag])

(* A command runs when no message holds the script up, only from the page  *)
(* the switches select, and GetPictureInfo only with the picture.          *)
Step ==
  /\ stack # <<>> /\ ~Done(Top)
  /\ message # "own" /\ (main => message = "none")
  /\ ~main => page = PageFor[flag]
  /\ LET op == Command(Top).op IN
       /\ op = "fetch" => loaded
       /\ op = "say" => message = "none"
       /\ op = "call" => Len(stack) <= CallLimit
       /\ message' = IF op = "say" THEN "own" ELSE message
       /\ flag' = IF op = "flip" THEN ~flag ELSE flag
  /\ stack' = After(stack) /\ PageMayTurn
  /\ UNCHANGED <<main, loaded>>

Return == /\ stack # <<>> /\ Done(Top)
          /\ stack' = Returned(stack) /\ PageMayTurn
          /\ UNCHANGED <<main, flag, message, loaded>>

(* The event turns to another page: its parallel script is given up.       *)
TurnPage == /\ page # PageFor[flag]
            /\ page' = PageFor[flag]
            /\ \/ main /\ UNCHANGED <<stack, message>>
               \/ /\ ~main /\ stack' = <<>>
                  /\ message' = IF message = "own" THEN "other" ELSE message
            /\ UNCHANGED <<main, flag, loaded>>

(* The rest of the game *)
Surroundings ==
  /\ \/ flag' = ~flag /\ UNCHANGED <<message, loaded>>
     \/ message' \in {"none", "other"} /\ UNCHANGED <<flag, loaded>>
     \/ loaded' = TRUE /\ UNCHANGED <<flag, message>>
  /\ UNCHANGED <<main, page, stack>>

Next == Start \/ Step \/ Return \/ TurnPage \/ Surroundings

ScriptSpec == Init /\ [][Next]_vars
=============================================================================
