--------------------------- MODULE SceneStack ---------------------------
(***************************************************************************)
(* The scene stack (scene.cpp) and what the scenes do to it.  A frame runs *)
(* Scene::MainFunction of the scene on top: while a transition, a delay or *)
(* an important file is pending the scene waits, else its continuation is  *)
(* called, then the scene is started or continued if it has just come to   *)
(* the top, or updated.  When it is no longer on top it fades out.         *)
(*                                                                         *)
(* The module models a release build: an assert does not stop it.          *)
(***************************************************************************)
EXTENDS Integers, Sequences, FiniteSets

CONSTANTS
  Modes,      \* how the program is started: a subset of AllModes
  MaxScenes   \* bound on the stack

AllModes == {"title",      \* show_title
             "hidden",     \* no title screen, or --new-game
             "load",       \* --load-game-id
             "battle"}     \* --battle-test

ASSUME SceneStackAssumption ==
  Modes \subseteq AllModes /\ MaxScenes \in Nat

VARIABLES
  mode, project,  \* the command line; whether the directory holds a game
  instances,      \* Scene::instances
  op,             \* push_pop_operation
  init,           \* MainFunction's static
  transition,     \* "shown", "erased", or on the way: "showing", "erasing"
  files,          \* AsyncHandler::IsImportantFilePending()
  exitFlag, resetFlag,
  stage,          \* what MainFunction does next
  left,           \* Scene::instance # this
  played,         \* not in the code: a game has begun since ResetGameObjects
  entered,        \* not in the code: "yes" when Start or Continue was called
                  \* since the scene on top came there, "left" when they
                  \* left the scene, else "no"
  did             \* not in the code: what the last step did

vars == <<mode, project, instances, op, init, transition, files, exitFlag,
          resetFlag, stage, left, played, entered, did>>
start == <<mode, project>>

-----------------------------------------------------------------------------
(* The stack.  A scene has been started (initialized), delays the next      *)
(* frames (delay_frames), has a continuation, and, if it is the title, has *)
(* to reset the game when it is shown again (restart_title_cache).         *)

New(t) == [type |-> t, ready |-> FALSE, delay |-> t = "Map", cont |-> "none",
           restart |-> FALSE]

Top(s)      == s[Len(s)]
Below(s)    == SubSeq(s, 1, Len(s) - 1)
Types(s)    == {s[n].type : n \in DOMAIN s}
With(s, field, value) == [s EXCEPT ![Len(s)] = [@ EXCEPT ![field] = value]]

Push(s, t)     == Append(s, New(t))
ReplacePushed(s, t) == Push(s, t)                    \* mutant of Replace
Replace(s, t)  == Push(Below(s), t)
PopUntil(s, t) ==
  IF t \in Types(s)
    THEN SubSeq(s, 1, CHOOSE n \in DOMAIN s :
                        s[n].type = t /\ \A k \in n + 1 .. Len(s) : s[k].type # t)
    ELSE s

Active(t)        == t \in {"showing", "erasing"}
Erase(t)         == IF t = "erased" THEN t ELSE "erasing"
Pending(t, f, s) == Active(t) \/ f \/ Top(s).delay

(* SetupNewGame and LoadSavegame tell the title that a game has begun.     *)
NotTold(s) == s                                      \* mutant of OnGameStart
OnGameStart(s) ==
  [n \in DOMAIN s |-> IF s[n].type = "Title" THEN [s[n] EXCEPT !.restart = TRUE]
                                             ELSE s[n]]

LoadSavegame(s) == Push(PopUntil(OnGameStart(s), "Title"), "Map")

ReturnsFromMap(s) == "Title" \in Types(s) /\ Top(s).type = "Map"  \* mutant
CanReturn(s) == "Title" \in Types(s) /\ Top(s).type # "Title"
ReturnToTitle(s) == With(PopUntil(s, "Title"), "delay", TRUE)

-----------------------------------------------------------------------------

Init == /\ mode \in Modes /\ project \in BOOLEAN
        /\ instances = <<New("Null"), New("Logo")>>
        /\ op = "pushed" /\ init = FALSE
        /\ transition = "erased" /\ files = FALSE
        /\ exitFlag = FALSE /\ resetFlag = FALSE
        /\ stage = "frame" /\ left = FALSE
        /\ played = FALSE /\ entered = "no" /\ did = "nothing"

(* The scene on top changes, or stays.                                     *)
Goes(s, o) == /\ Len(s) <= MaxScenes
              /\ instances' = s /\ op' = o
              /\ left' = TRUE /\ entered' = "no"
Stays      == UNCHANGED <<instances, op, left, entered>>

MayAskForFiles == files' \in {files, TRUE}

(* Scene::CheckSceneExit: an event returns to the title or ends the game.  *)
SceneExits(s) ==
  \/ /\ CanReturn(s)
     /\ Goes(ReturnToTitle(s), "popped") /\ UNCHANGED exitFlag
  \/ /\ "GameBrowser" \in Types(s)
     /\ Goes(PopUntil(s, "GameBrowser"), "popped") /\ UNCHANGED exitFlag
  \/ /\ "GameBrowser" \notin Types(s)
     /\ instances' = s /\ exitFlag' = TRUE
     /\ UNCHANGED <<op, left, entered>>

(* The map's update is suspended by an AsyncOp, a teleport or a file, and   *)
(* goes on when nothing is pending: "map" with events still to run, "call" *)
(* with the scene they asked for.                                          *)
Suspends(s) ==
  /\ instances' \in {With(s, "cont", c) : c \in {"map", "call"}}
  /\ transition' \in {transition, "showing", "erasing"}
  /\ MayAskForFiles /\ (Active(transition') \/ files')
  /\ UNCHANGED <<left, exitFlag>>

Called == {"Menu", "Battle", "Shop", "Name", "Save", "Load", "Gameover", "Debug"}

-----------------------------------------------------------------------------
(* MainFunction while something is pending: only the transition, or the    *)
(* delay, goes on.  An exit is heeded here too, and the scene that is      *)
(* left does not fade out.                                                 *)

Waiting == stage = "frame" /\ Pending(transition, files, instances)

NotHeeded == instances                               \* mutant of Heeded
Heeded == IF exitFlag THEN PopUntil(instances, "Null") ELSE instances

Await ==
  /\ Waiting /\ did' = "wait"
  /\ LET s == Heeded IN
       /\ op' = IF exitFlag THEN "popped" ELSE op
       /\ entered' = IF Top(s) = Top(instances) THEN entered ELSE "no"
       /\ IF Active(transition)
            THEN /\ transition' = IF transition = "showing" THEN "shown" ELSE "erased"
                 /\ instances' = s
            ELSE /\ instances' = With(s, "delay", FALSE)
                 /\ UNCHANGED transition
  /\ UNCHANGED <<start, init, files, exitFlag, resetFlag, stage, left, played>>

(* OnFinishAsync *)
Resume ==
  /\ stage = "frame" /\ ~Pending(transition, files, instances)
  /\ did' = "resume"
  /\ LET rest == With(instances, "cont", "none")
         cont == Top(instances).cont
     IN \/ /\ cont = "none"
           /\ Stays /\ UNCHANGED <<transition, files, exitFlag>>
        \/ /\ cont = "in"
           /\ instances' = rest /\ transition' \in {"showing", transition}
           /\ UNCHANGED <<op, left, entered, files, exitFlag>>
        \/ /\ cont = "map"
           /\ \/ SceneExits(rest) /\ MayAskForFiles /\ UNCHANGED transition
              \/ Suspends(rest) /\ Active(transition') /\ UNCHANGED <<op, entered>>
        \/ /\ cont \in {"map", "call"} /\ UNCHANGED <<transition, files, exitFlag>>
           /\ \/ \E t \in Called : Goes(Push(rest, t), "pushed")
              \/ instances' = rest /\ UNCHANGED <<op, left, entered>>
  /\ stage' = IF left' THEN "close"
              ELSE IF Pending(transition', files', instances') THEN "frame" ELSE "main"
  /\ UNCHANGED <<start, init, resetFlag, played>>

-----------------------------------------------------------------------------
(* The scene has come to the top: Start, or Continue if it was started     *)
(* before.  Any change of the stack by them is forgotten.                  *)

StartsAlways == op \in {"pushed", "popped"}          \* mutant of Starts
Starts == op = "pushed" \/ (op = "popped" /\ ~Top(instances).ready)

(* Scene_Title::Continue                                                   *)
Restarts == op = "popped" /\ Top(instances).ready /\ Top(instances).restart

Ready(s) == [s EXCEPT ![Len(s)].ready = @ \/ Starts, ![Len(s)].restart = @ /\ ~Restarts]

EnterStays ==
  LET s == Ready(instances) IN
  \/ Top(s).type = "Map" /\ Suspends(s)
  \/ /\ ~(Top(s).type = "Map" /\ Starts)
     /\ MayAskForFiles /\ UNCHANGED <<left, exitFlag>>
     /\ CASE transition # "erased" -> instances' = s /\ UNCHANGED transition
          [] transition = "erased" /\ files' ->
               instances' = With(s, "cont", "in") /\ UNCHANGED transition
          [] OTHER -> instances' = s /\ transition' \in {"showing", "shown", "erased"}

(* CheckSceneExit in a map's first PreUpdate, EndBattle for an invalid     *)
(* troop, an invalid item or skill in Scene_ActorTarget, the cancel key in *)
(* the Update that Scene_Import::Start calls.                              *)
EnterLeaves ==
  LET s == Ready(instances)
      t == Top(s).type
  IN /\ UNCHANGED <<left, files>>
     /\ transition' \in {transition, "showing"}
     /\ \/ /\ t = "Map" /\ CanReturn(s)
           /\ instances' = ReturnToTitle(s) /\ UNCHANGED exitFlag
        \/ /\ t = "Map" /\ "GameBrowser" \in Types(s)
           /\ instances' = PopUntil(s, "GameBrowser") /\ UNCHANGED exitFlag
        \/ /\ Starts
           /\ \/ t \in {"Battle", "ActorTarget"}
              \/ t = "Load" /\ Top(Below(s)).type = "Title"
           /\ instances' = Below(s) /\ UNCHANGED exitFlag

Enter ==
  /\ stage = "main" /\ ~init
  /\ did' = IF Starts THEN "start" ELSE "continue"
  /\ \/ EnterStays /\ entered' = "yes"
     \/ EnterLeaves /\ entered' = "left"
  /\ played' = (played /\ ~(Top(instances).type = "Title" /\ Restarts))
  /\ op' = "none" /\ init' = TRUE /\ stage' = "frame"
  /\ UNCHANGED <<start, resetFlag>>

-----------------------------------------------------------------------------
(* Player::Update: the exit and reset flags come first.                    *)

Updating == stage = "main" /\ init
Closes   == stage' = "close"

ExitAll ==
  /\ Updating /\ exitFlag /\ Closes /\ did' = "exit"
  /\ IF Top(instances).type = "Null" THEN Stays
     ELSE Goes(PopUntil(instances, "Null"), "popped")
  /\ UNCHANGED <<start, init, transition, files, exitFlag, resetFlag, played>>

Reset ==
  /\ Updating /\ ~exitFlag /\ resetFlag /\ CanReturn(instances)
  /\ Closes /\ did' = "reset" /\ resetFlag' = FALSE
  /\ Goes(ReturnToTitle(instances), "popped")
  /\ UNCHANGED <<start, init, transition, files, exitFlag, played>>

(* Scene::Update of the scene t *)
Updates(t) ==
  /\ Updating /\ ~exitFlag /\ ~(resetFlag /\ CanReturn(instances))
  /\ Top(instances).type = t
  /\ resetFlag' = FALSE /\ Closes
  /\ MayAskForFiles
  /\ UNCHANGED <<start, init>>

Plainly == did' = "update" /\ UNCHANGED <<transition, played, exitFlag>>

(* Player::LoadSavegame, from any scene but the map                        *)
Loads(s) == /\ did' = "load" /\ played' = TRUE
            /\ transition' = Erase(transition)
            /\ Goes(LoadSavegame(s), "pushed")
            /\ UNCHANGED exitFlag

UpdateNull == Updates("Null") /\ Stays /\ Plainly

UpdateLogo ==
  /\ Updates("Logo")
  /\ \/ Stays /\ Plainly
     \/ ~project /\ Goes(Replace(instances, "GameBrowser"), "pushed") /\ Plainly
     \/ project /\ mode # "load" /\ Goes(Replace(instances, "Title"), "pushed") /\ Plainly
     \/ project /\ mode = "load" /\ Loads(Replace(instances, "Title"))

(* BootGame creates the game's objects anew.                               *)
UpdateGameBrowser ==
  /\ Updates("GameBrowser")
  /\ \/ Stays /\ Plainly
     \/ Goes(Below(instances), "popped") /\ Plainly
     \/ /\ Goes(Push(instances, "Title"), "pushed")
        /\ did' = "boot" /\ played' = FALSE /\ UNCHANGED <<transition, exitFlag>>

(* Player::SetupNewGame; test play then asks for a save.                   *)
SetupNewGame ==
  LET s == Push(OnGameStart(instances), "Map") IN
  /\ did' = "new game" /\ played' = TRUE
  /\ Goes(s, "pushed") \/ (mode = "hidden" /\ Goes(Push(s, "Load"), "pushed"))
  /\ UNCHANGED <<transition, exitFlag>>

UpdateTitle ==
  /\ Updates("Title")
  /\ \/ mode = "battle" /\ Goes(Replace(instances, "Battle"), "pushed") /\ Plainly
     \/ mode = "hidden" /\ SetupNewGame
     \/ /\ mode \in {"title", "load"}
        /\ \/ Stays /\ Plainly
           \/ SetupNewGame
           \/ Goes(Push(instances, "Load"), "pushed") /\ Plainly
           \/ /\ Goes(Below(instances), "popped") /\ did' = "update"
              /\ transition' = Erase(transition) /\ UNCHANGED <<played, exitFlag>>

(* Scene_Load and Scene_Import, which has its scene type                   *)
UpdateLoad ==
  /\ Updates("Load")
  /\ \/ Stays /\ Plainly
     \/ Goes(Below(instances), "popped") /\ Plainly
     \/ Loads(instances)

UpdateMap ==
  /\ Updates("Map") /\ did' = "update" /\ UNCHANGED played
  /\ \/ SceneExits(instances) /\ UNCHANGED transition
     \/ Suspends(instances) /\ UNCHANGED <<op, entered>>
     \/ /\ Stays \/ \E t \in Called : Goes(Push(instances, t), "pushed")
        /\ UNCHANGED <<transition, exitFlag>>

(* The scenes of the menu and the ones that only return                    *)
Opens == [Menu |-> {"Item", "Skill", "Equip", "Status", "Order", "Save", "Debug", "End"},
          Item |-> {"ActorTarget", "Teleport"}, Skill |-> {"ActorTarget", "Teleport"},
          Equip |-> {}, Status |-> {}, Order |-> {}, ActorTarget |-> {},
          Teleport |-> {}, Save |-> {}, Shop |-> {}, Name |-> {}, End |-> {}]

UpdateMenus == \E t \in DOMAIN Opens :
  /\ Updates(t) /\ Plainly
  /\ \/ Stays
     \/ Goes(Below(instances), "popped")
     \/ \E o \in Opens[t] : Goes(Push(instances, o), "pushed")
     \/ t \in {"Equip", "Status"} /\ Goes(Replace(instances, t), "pushed")
     \/ /\ t \in {"Item", "Skill", "Teleport"}
        /\ Goes(PopUntil(instances, "Map"), "popped")
     \/ t = "End" /\ CanReturn(instances) /\ Goes(ReturnToTitle(instances), "popped")

UpdateGameover ==
  /\ Updates("Gameover") /\ Plainly
  /\ Stays \/ (CanReturn(instances) /\ Goes(ReturnToTitle(instances), "popped"))

InBattle == "Battle" \in Types(instances)

UpdateDebug ==
  LET home == PopUntil(instances, IF InBattle THEN "Battle" ELSE "Map") IN
  /\ Updates("Debug") /\ Plainly
  /\ \/ Stays
     \/ Goes(Below(instances), "popped")
     \/ Goes(home, "popped")
     \/ Goes(Push(instances, "Load"), "pushed")
     \/ ~InBattle /\ \E t \in {"Save", "Battle"} : Goes(Push(home, t), "pushed")

(* EndBattle: a defeat without a handler is followed by the game over.     *)
EndBattle(s) ==
  /\ did' = "end battle"
  /\ UNCHANGED <<transition, played, exitFlag>>
  /\ \/ Goes(Below(s), "popped")
     \/ "Map" \in Types(s) /\ Goes(Push(Below(s), "Gameover"), "pushed")

(* UpdateEvents may have pushed the game over (s) when UpdateTimers ends   *)
(* the battle, or the debug key is pressed.                                *)
TimerEnds(s) ==
  /\ did' = "end battle" /\ UNCHANGED <<transition, played, exitFlag>>
  /\ IF s = instances
       THEN Goes(Below(s), "popped")
       ELSE instances' = Below(s) /\ op' = "popped" /\ UNCHANGED <<left, entered>>

UpdateBattle ==
  /\ Updates("Battle")
  /\ \/ SceneExits(instances) /\ did' = "update" /\ UNCHANGED <<transition, played>>
     \/ EndBattle(instances)
     \/ \E s \in {instances, Push(instances, "Gameover")} :
          \/ TimerEnds(s)
          \/ Goes(Push(s, "Debug"), "pushed") /\ Plainly
          \/ s = instances /\ Stays /\ Plainly
          \/ s # instances /\ Goes(s, "pushed") /\ Plainly

UpdateScene == UpdateNull \/ UpdateLogo \/ UpdateGameBrowser \/ UpdateTitle
                 \/ UpdateLoad \/ UpdateMap \/ UpdateMenus \/ UpdateGameover
                 \/ UpdateDebug \/ UpdateBattle

-----------------------------------------------------------------------------
(* The end of MainFunction: a scene that is no longer on top fades out,    *)
(* unless a transition is under way.  A battle may end without a fade.     *)

KeepsInit == init                                    \* mutant of InitAfter
InitAfter == init /\ ~left

Shutdown ==
  /\ stage = "close" /\ stage' = "frame"
  /\ init' = InitAfter /\ left' = FALSE /\ did' = "close"
  /\ IF left /\ transition = "shown" THEN transition' \in {"erasing", "erased", "shown"}
                                     ELSE UNCHANGED transition
  /\ UNCHANGED <<start, instances, op, files, exitFlag, resetFlag, played, entered>>

(* MainLoop ends the program when the Null scene is on top.                *)
Exit ==
  /\ stage = "frame" /\ ~Active(transition) /\ Top(instances).type = "Null"
  /\ stage' = "ended" /\ did' = "nothing"
  /\ UNCHANGED <<start, instances, op, init, transition, files, exitFlag,
                 resetFlag, left, played, entered>>

(* The window is closed, the reset key pressed, a download ends.           *)
Outside ==
  /\ stage = "frame" /\ did' = "nothing"
  /\ \/ ~exitFlag /\ exitFlag' = TRUE /\ UNCHANGED <<resetFlag, files>>
     \/ ~resetFlag /\ resetFlag' = TRUE /\ UNCHANGED <<exitFlag, files>>
  /\ UNCHANGED <<start, instances, op, init, transition, stage, left, played, entered>>

FilesArrive ==
  /\ stage = "frame" /\ files /\ files' = FALSE /\ did' = "nothing"
  /\ UNCHANGED <<start, instances, op, init, transition, exitFlag, resetFlag,
                 stage, left, played, entered>>

MainFunction == Await \/ Resume \/ Enter \/ ExitAll \/ Reset \/ UpdateScene
                  \/ Shutdown

Next == MainFunction \/ Exit \/ Outside \/ FilesArrive

Spec == Init /\ [][Next]_vars

(* The main loop runs, with its test for the end after every few frames,   *)
(* and the files it waits for arrive (AsyncFiles).                         *)
FairSpec == Spec /\ WF_vars(MainFunction) /\ SF_vars(Exit) /\ SF_vars(FilesArrive)

-----------------------------------------------------------------------------
(* Properties *)

SceneTypes == DOMAIN Opens \cup {"Null", "Logo", "GameBrowser", "Title", "Load",
                                 "Map", "Battle", "Gameover", "Debug"}

TypeOK ==
  /\ instances # <<>>
  /\ \A n \in DOMAIN instances :
       /\ instances[n].type \in SceneTypes
       /\ instances[n].cont \in {"none", "in", "map", "call"}
       /\ instances[n].restart => instances[n].type = "Title"
  /\ op \in {"none", "pushed", "popped"}
  /\ stage \in {"frame", "main", "close", "ended"}
  /\ transition \in {"shown", "erased", "showing", "erasing"}
  /\ entered \in {"no", "yes", "left"}
  /\ ~init /\ stage = "main" => op # "none"

(* Scene::DebugValidate: the stack starts with the Null scene and holds no *)
(* two scenes of a type ("Multiple scenes of type").  A battle test has no *)
(* title scene that a game could be loaded above.                          *)
DebugValidate ==
  /\ instances[1].type = "Null"
  /\ mode # "battle" => Cardinality(Types(instances)) = Len(instances)

(* A stack that is well formed however scenes of different times pushed    *)
(* and popped on it.                                                       *)
ValidStack == TypeOK /\ DebugValidate

(* A scene is started once, however many scenes were pushed above or       *)
(* popped before it came to the top (scene.h:296).                         *)
StartedOnce ==
  [][did' = "start" => ~Top(instances).ready]_vars

(* No scene is updated before Start or Continue were called for it, unless *)
(* the scene above it was left by its own Start or Continue.               *)
Updated == did' \in {"update", "new game", "load", "end battle", "boot"}
EnteredFirst ==
  [][Updated => entered # "no" \/ Top(instances).type = "Null"]_vars

(* A new game starts from reset game objects, whatever was played before   *)
(* the title was entered again, unless that was loaded at the start.       *)
FreshAfterTitle ==
  [][did' = "new game" /\ mode # "load" /\ entered = "yes" => ~played]_vars

(* Closing the window ends the program, whatever is going on.              *)
ExitEnds == exitFlag ~> stage = "ended"

(* The reset key leads to the title screen, or out of the game, unless the *)
(* game's events suspend the map for ever.                                 *)
ResetReturns ==
  []<>Updating =>
    (resetFlag /\ "Title" \in Types(instances)
       ~> Top(instances).type \in {"Title", "Null", "GameBrowser"})
=============================================================================
