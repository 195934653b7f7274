-------------------------- MODULE Interpreter ---------------------------
(***************************************************************************)
(* Game_Interpreter::Update (game_interpreter.cpp): the loop that runs an   *)
(* event's commands, frame after frame, until something makes it stop: a   *)
(* requested scene, an AsyncOp, a message, a wait, the end of the script,  *)
(* or loop_limit iterations.  One action is one iteration of the loop; the *)
(* parallel interpreter of a map event belongs to Game_Event::Update.      *)
(***************************************************************************)
EXTENDS Integers, Sequences

CONSTANTS Routines, Code, PageFor,   \* see Script
          CallLimit,                 \* call_stack_limit
          LoopLimit,                 \* loop_limit
          MaxIntrusions,             \* bound: how often others interfere
          ScenesMeet,                \* bound: may a scene be requested when a
                                     \* picture is asked for?
          Patience                   \* bound: iterations within which a picture
                                     \* arrives (beyond LoopLimit: unbounded)

ASSUME InterpreterAssumption ==
  /\ CallLimit \in Nat \ {0} /\ LoopLimit \in Nat \ {0}
  /\ ScenesMeet \in BOOLEAN
  /\ MaxIntrusions \in Nat /\ Patience \in Nat \ {0}
  /\ PageFor \in [BOOLEAN -> Routines]

(* Labels, branches and ends of loops are looked for in the same script,   *)
(* and an event that does not exist is not called.                         *)
ASSUME ScriptsAssumption ==
  \A r \in Routines :
    /\ Len(Code[r]) \in Nat
    /\ \A n \in 1 .. Len(Code[r]) :
         LET c == Code[r][n] IN
         /\ c.op \in {"jump", "if"} => c.arg \in 1 .. Len(Code[r]) + 1
         /\ c.op = "call" => c.arg \in Routines

VARIABLES
  main, flag, page, stack, message, loaded,   \* see Script
  show,        \* _state.show_message
  wait,        \* _state.wait_time
  async,       \* _async_op: "none", "yield" or "repeat"
  loopCount,   \* loop_count
  needRefresh, \* Game_Map's need_refresh
  requested,   \* Scene::instance->HasRequestedScene()
  suspended,   \* whether the update returned an AsyncOp, and is resumed
  pc,          \* "idle", "loop" or "error" (Output::Error ends the program)
  executed,    \* not in the code: commands executed in this Update
  intrusions   \* not in the code: what others have done so far

script == <<main, flag, page, stack, message, loaded>>
vars   == <<script, show, wait, async, loopCount, needRefresh, requested,
            suspended, pc, executed, intrusions>>

(* A command that is to be repeated has not been executed yet.             *)
StepBack == [stack EXCEPT ![Len(stack)].i = @ - 1]
AsScript == IF pc = "loop" /\ async = "repeat" THEN StepBack ELSE stack

Order == INSTANCE Script WITH stack <- AsScript

Top     == stack[Len(stack)]
Done    == Top.i > Len(Code[Top.r])
Command == Code[Top.r][Top.i]
Asks    == stack # <<>> /\ ~Done /\ Command.op = "fetch" /\ ~loaded

-----------------------------------------------------------------------------

Init == /\ main \in BOOLEAN /\ flag \in BOOLEAN
        /\ page = PageFor[flag]
        /\ stack = <<>> /\ message = "none" /\ loaded = FALSE
        /\ show = FALSE /\ wait = 0 /\ async = "none"
        /\ loopCount = 0 /\ executed = 0
        /\ needRefresh = FALSE /\ requested = FALSE
        /\ suspended = FALSE /\ pc = "idle" /\ intrusions = 0

(* Game_Interpreter::Push for a script that is not running, and the start  *)
(* of Update: only a resumed one keeps its loop count.                     *)
Enter ==
  /\ pc = "idle" /\ pc' = "loop"
  /\ async = "repeat" /\ ~loaded => loopCount < Patience
  /\ requested /\ Asks => ScenesMeet
  /\ stack' = IF stack = <<>> THEN <<[r |-> page, i |-> 1]>> ELSE stack
  /\ loopCount' = IF ~suspended THEN 0 ELSE loopCount
  /\ async' = "none" /\ executed' = 0
  /\ UNCHANGED <<main, flag, page, message, loaded, show, wait, needRefresh,
                 requested, suspended, intrusions>>

(* Game_Map::Refresh and Game_Event::RefreshPage: a new page clears the    *)
(* event's own interpreter, never the foreground one.                      *)
Turns == needRefresh /\ page # PageFor[flag]

Refresh(s, w, sh, a) ==
  /\ needRefresh' = FALSE
  /\ page' = IF needRefresh THEN PageFor[flag] ELSE page
  /\ IF Turns /\ ~main
       THEN /\ stack' = <<>> /\ wait' = 0 /\ show' = FALSE /\ async' = "none"
            /\ message' = IF message = "own" THEN "other" ELSE message
       ELSE /\ stack' = s /\ wait' = w /\ show' = sh /\ async' = a
            /\ UNCHANGED message

(* The loop is left, and the map refreshed behind it.                      *)
Leave(s, w, sh) ==
  /\ pc' = "idle"
  /\ Refresh(s, w, sh, async)
  /\ suspended' = (async' # "none")
  /\ UNCHANGED <<main, flag, loaded, loopCount, requested, executed,
                 intrusions>>

-----------------------------------------------------------------------------
(* The tests at the head of an iteration, in their order *)

AtLimit  == loopCount >= LoopLimit
AtScene1 == loopCount > 1 /\ requested            \* mutant of AtScene
AtScene  == loopCount > 0 /\ requested
AtAsync  == async # "none"
Talking  == message # "none" /\ (main \/ show)

LimitStop == /\ pc = "loop" /\ AtLimit
             /\ Leave(stack, wait, show)

SceneStop == /\ pc = "loop" /\ ~AtLimit /\ AtScene
             /\ Leave(stack, wait, show)

AsyncStop ==
  /\ pc = "loop" /\ ~AtLimit /\ ~AtScene /\ AtAsync
  /\ Leave(IF async = "repeat" THEN StepBack ELSE stack, wait, show)

Free == pc = "loop" /\ ~AtLimit /\ ~AtScene /\ ~AtAsync

MessageStop == /\ Free /\ Talking
               /\ Leave(stack, wait, show)

WaitForever == /\ Free /\ ~Talking /\ wait > 0        \* mutant of WaitStop
               /\ Leave(stack, wait, FALSE)
WaitStop == /\ Free /\ ~Talking /\ wait > 0
            /\ Leave(stack, wait - 1, FALSE)

(* Past the tests the script may run.  A page that was turned meanwhile    *)
(* has cleared it, and it stops.                                           *)
Running == Free /\ ~Talking /\ wait = 0

PageStop ==
  /\ Running /\ ~main /\ Turns
  /\ Leave(stack, 0, FALSE)

Goes == Running /\ (main \/ ~Turns)

Uncounted == /\ loopCount' = loopCount            \* mutant of Iterated
             /\ page' = IF needRefresh THEN PageFor[flag] ELSE page
             /\ UNCHANGED <<main, loaded, suspended, intrusions>>
(* An iteration ends with ++loop_count.  It has refreshed the map.         *)
Iterated == /\ loopCount' = loopCount + 1
            /\ page' = IF needRefresh THEN PageFor[flag] ELSE page
            /\ UNCHANGED <<main, loaded, suspended, intrusions>>

-----------------------------------------------------------------------------
(* OnFinishStackFrame: after the base frame the loop is left.              *)
FinishFrame ==
  /\ Goes /\ Done
  /\ IF Len(stack) > 1
       THEN /\ Iterated
            /\ stack' = Order!Drop(stack)
            /\ needRefresh' = FALSE /\ show' = FALSE
            /\ UNCHANGED <<flag, message, wait, async, requested, pc, executed>>
       ELSE Leave(Order!Returned(stack), 0, FALSE)

-----------------------------------------------------------------------------
(* ExecuteCommand.  The index is incremented unless the command has set it. *)

Incremented(s) == [s EXCEPT ![Len(s)].i = @ + 1]

(* The caller's frame is fetched again by its index after a call.          *)
CalledLate(r) == Incremented(Append(stack, [r |-> r, i |-> 1])) \* mutant
Called(r)     == Append(Incremented(stack), [r |-> r, i |-> 1])

Execute(ops) == /\ Goes /\ ~Done /\ Command.op \in ops
                /\ executed' = IF executed > LoopLimit THEN executed ELSE executed + 1

Continue(s) == Iterated /\ stack' = s /\ UNCHANGED pc

Plain == /\ Execute({"plain"})
         /\ Continue(Incremented(stack))
         /\ show' = FALSE /\ needRefresh' = FALSE
         /\ UNCHANGED <<flag, message, wait, async, requested>>

Wait == /\ Execute({"wait"})
        /\ Continue(Incremented(stack))
        /\ wait' = Command.arg
        /\ show' = FALSE /\ needRefresh' = FALSE
        /\ UNCHANGED <<flag, message, async, requested>>

Jump == /\ Execute({"jump"})
        /\ Continue([stack EXCEPT ![Len(stack)].i = Command.arg])
        /\ show' = FALSE /\ needRefresh' = FALSE
        /\ UNCHANGED <<flag, message, wait, async, requested>>

ConditionalBranch ==
  /\ Execute({"if"})
  /\ Continue(IF flag THEN Incremented(stack)
                      ELSE [stack EXCEPT ![Len(stack)].i = Command.arg])
  /\ show' = FALSE /\ needRefresh' = FALSE
  /\ UNCHANGED <<flag, message, wait, async, requested>>

EndEventProcessing ==
  /\ Execute({"end"})
  /\ Continue([stack EXCEPT ![Len(stack)].i = Len(Code[Top.r]) + 1])
  /\ show' = FALSE /\ needRefresh' = FALSE
  /\ UNCHANGED <<flag, message, wait, async, requested>>

(* Push ends the program when the stack is too deep already.               *)
CallEvent ==
  /\ Execute({"call"}) /\ Len(stack) <= CallLimit
  /\ Continue(Called(Command.arg))
  /\ show' = FALSE /\ needRefresh' = FALSE
  /\ UNCHANGED <<flag, message, wait, async, requested>>

CallTooDeep ==
  /\ Execute({"call"}) /\ Len(stack) > CallLimit
  /\ pc' = "error"
  /\ UNCHANGED <<script, show, wait, async, loopCount, needRefresh, requested,
                 suspended, intrusions>>

ControlSwitches ==
  /\ Execute({"flip"})
  /\ Continue(Incremented(stack))
  /\ flag' = ~flag /\ needRefresh' = TRUE
  /\ show' = FALSE
  /\ UNCHANGED <<message, wait, async, requested>>

Yield == /\ Execute({"yield"})
         /\ Continue(Incremented(stack))
         /\ async' = "yield"
         /\ show' = FALSE /\ needRefresh' = FALSE
         /\ UNCHANGED <<flag, message, wait, requested>>

(* CommandManiacGetPictureInfo                                             *)
Fetch == /\ Execute({"fetch"})
         /\ Continue(Incremented(stack))
         /\ async' = IF loaded THEN "none" ELSE "repeat"
         /\ show' = FALSE /\ needRefresh' = FALSE
         /\ UNCHANGED <<flag, message, wait, requested>>

(* A command that returns false leaves the loop: ShowMessage while another *)
(* message is shown (it is tried again), a scene once it is requested.     *)
ShowMessage ==
  /\ Execute({"say"}) /\ message = "none"
  /\ Continue(Incremented(stack))
  /\ message' = "own" /\ show' = TRUE
  /\ needRefresh' = FALSE
  /\ UNCHANGED <<flag, wait, async, requested>>

Refused == /\ Goes /\ ~Done
           /\ Command.op \in {"say", "menu"} /\ message # "none"
           /\ Leave(stack, 0, FALSE)

OpenScene ==
  /\ Execute({"menu"}) /\ message = "none"
  /\ stack' = Incremented(stack)
  /\ requested' = TRUE
  /\ page' = IF needRefresh THEN PageFor[flag] ELSE page
  /\ needRefresh' = FALSE /\ show' = FALSE /\ pc' = "idle"
  /\ UNCHANGED <<main, flag, message, loaded, wait, async, loopCount,
                 suspended, intrusions>>

-----------------------------------------------------------------------------
(* The rest of the game, between two updates.  Other events may flip the   *)
(* switch, show a message or request a scene; the scenes come and go, the  *)
(* player closes messages, pictures arrive, and the map is refreshed.      *)

Between == /\ pc = "idle"
           /\ UNCHANGED <<main, wait, loopCount, suspended, pc, executed>>

Intrude == /\ Between /\ intrusions < MaxIntrusions
           /\ intrusions' = intrusions + 1
           /\ \/ /\ flag' = ~flag /\ needRefresh' = TRUE
                 /\ UNCHANGED <<message, requested>>
              \/ /\ message = "none" /\ message' = "other"
                 /\ UNCHANGED <<flag, needRefresh, requested>>
              \/ /\ ~requested /\ requested' = TRUE
                 /\ UNCHANGED <<flag, needRefresh, message>>
           /\ UNCHANGED <<page, stack, loaded, show, async>>

CloseMessage == /\ Between /\ message # "none" /\ message' = "none"
                /\ UNCHANGED <<flag, page, stack, loaded, show, async,
                               needRefresh, requested, intrusions>>

(* Scene::MainFunction takes the request when the frame is over.           *)
ChangeScene == /\ Between /\ requested /\ requested' = FALSE
               /\ UNCHANGED <<flag, page, stack, message, loaded, show, async,
                              needRefresh, intrusions>>

PictureArrives == /\ Between /\ ~loaded /\ loaded' = TRUE
                  /\ UNCHANGED <<flag, page, stack, message, show, async,
                                 needRefresh, requested, intrusions>>

RefreshElsewhere ==
  /\ pc = "idle" /\ needRefresh
  /\ Refresh(stack, wait, show, async)
  /\ UNCHANGED <<main, flag, loaded, loopCount, requested, suspended, pc,
                 executed, intrusions>>

-----------------------------------------------------------------------------

Stops    == LimitStop \/ SceneStop \/ AsyncStop \/ MessageStop \/ WaitStop
              \/ PageStop
Commands == Plain \/ Wait \/ Jump \/ ConditionalBranch \/ EndEventProcessing \/ CallEvent
              \/ CallTooDeep \/ ControlSwitches \/ Yield \/ Fetch
              \/ ShowMessage \/ Refused \/ OpenScene
Update   == Enter \/ Stops \/ FinishFrame \/ Commands

Ended == pc = "error" /\ UNCHANGED vars

Next == Update \/ Intrude \/ CloseMessage \/ ChangeScene \/ PictureArrives
          \/ RefreshElsewhere \/ Ended

Spec == Init /\ [][Next]_vars

(* The game runs frame after frame; the player closes messages and the     *)
(* scenes he opened, and what was requested arrives.                       *)
FairSpec == /\ Spec /\ WF_vars(Update) /\ SF_vars(CloseMessage)
            /\ SF_vars(ChangeScene) /\ SF_vars(PictureArrives)

-----------------------------------------------------------------------------
(* Properties *)

(* The stack has at most call_stack_limit + 1 frames, with indices inside   *)
(* their scripts, and an update at most loop_limit iterations.             *)
TypeOK ==
  /\ page \in Routines /\ message \in {"none", "own", "other"}
  /\ Len(stack) <= CallLimit + 1
  /\ \A n \in 1 .. Len(stack) : stack[n].i \in 1 .. Len(Code[stack[n].r]) + 1
  /\ loopCount \in 0 .. LoopLimit /\ executed <= loopCount + 1
  /\ async \in {"none", "yield", "repeat"}
  /\ pc \in {"idle", "loop", "error"}

(* Budgets, yields, waits, messages and page changes only interrupt a      *)
(* script: its commands run in the order of the script, none twice and     *)
(* none left out, none past a message it shows, none of a page that the    *)
(* switches no longer select.                                              *)
ImplementsScript == Order!ScriptSpec

(* While a scene is requested an interpreter executes at most one command  *)
(* (game_interpreter.cpp:370).                                             *)
OneCommandForScene ==
  [][executed' > executed /\ requested => executed = 0]_vars

(* MakeYieldRepeat: "Yield for one frame and repeat the command"            *)
(* (async_op.h:79).  The index is back at the command when Update returns.  *)
YieldRepeatRepeats ==
  [][pc = "loop" /\ async = "repeat" /\ pc' = "idle" /\ async' # "none"
       => stack' = StepBack]_vars

(* A script that never stops by itself does not freeze the game.           *)
UpdateReturns == pc = "loop" ~> pc # "loop"

(* Whatever a script waits for, it goes on some day, unless a call too     *)
(* deep has ended the program.                                             *)
ScriptGoesOn == []<><<stack' # stack>>_vars \/ <>[](pc = "error")
=============================================================================
