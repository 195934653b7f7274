--------------------------- MODULE MapUpdate ----------------------------
(***************************************************************************)
(* Game_Map::Update and the functions it calls: one update of the map, how *)
(* it is suspended when an event interpreter or the message box starts an  *)
(* asynchronous operation, and how Scene_Map takes it up again once the    *)
(* operation is done, through the MapUpdateAsyncContext.                   *)
(*                                                                         *)
(* What the events do is data: an interpreter run is the number of loop    *)
(* iterations it uses up and the AsyncOp it ends with, if any.             *)
(***************************************************************************)
EXTENDS Naturals, Sequences

CONSTANTS Maps, NumCommon, EventsOf,
          LoopLimit,   \* Game_Interpreter::loop_limit
          MaxLoads,    \* bound: savegames loaded from within one frame
          MaxDrops     \* bound: AsyncOps dropped by Game_Map::MakeWay

ASSUME MapsAssumption == Maps # {}
ASSUME CommonAssumption == NumCommon \in Nat
ASSUME EventsAssumption ==
  /\ EventsOf \in [Maps -> Seq(Nat \ {0})]
  /\ \A m \in Maps : \A i, j \in 1 .. Len(EventsOf[m]) :
       EventsOf[m][i] = EventsOf[m][j] => i = j
ASSUME LimitAssumption == LoopLimit \in Nat \ {0} /\ MaxLoads \in Nat
ASSUME DropsAssumption == MaxDrops \in Nat

VARIABLES
  map,        \* Game_Map::map_info.map_id
  kind,       \* which entry point is running: "none", "pre", "full" or "fg"
  pc,         \* where Game_Map::Update stands
  k,          \* position in the event loop, 0 before the loop is entered
  resume,     \* resume_ce or resume_ev
  actx,       \* MapUpdateAsyncContext: who was suspended
  op,         \* actx.async_op, "none" when actx is inactive
  last,       \* the last unit of work started in this frame
  loopCount,  \* Game_Interpreter::loop_count of the interpreter in use
  fgRunning,  \* GetInterpreter().IsRunning()
  loads,      \* savegames loaded in this frame
  switched,   \* the map was replaced while this frame was suspended
  owed,       \* AsyncOps started and not performed
  drops       \* AsyncOps that events pushed aside have started

vars == <<map, kind, pc, k, resume, actx, op, last, loopCount, fgRunning,
          loads, switched, owed, drops>>

Frame == INSTANCE MapFrame

Kinds == {"pre", "full", "fg"}
None  == <<"none", 0>>
NoCtx == [at |-> "none", id |-> 0]
CtxOffByOne(at, id) == [at |-> at, id |-> id + 1]  \* mutant of Ctx
Ctx(at, id) == [at |-> at, id |-> id]

(* "wait" stands for the operations that only take time: show and erase    *)
(* screen, inn, save, yield.  "exit" is ReturnToTitle and ExitGame.        *)
Ops == {"wait", "teleport", "load", "exit"}
OpsNow == IF loads < MaxLoads THEN Ops ELSE Ops \ {"load"}

NumEvents == Len(EventsOf[map])

Active     == actx.at # "none"
GateOpen(at) == TRUE                               \* mutant of Gate
Gate(at)   == actx.at \in {"none", at}

(***************************************************************************)
(* A run of Game_Interpreter::Update that starts with loop_count = c: the  *)
(* counter values it can end with, and those it can end with after it has  *)
(* executed at least one command, as starting an operation takes.          *)
(***************************************************************************)
Quiet(c)  == c .. LoopLimit
Works(c)  == (c + 1) .. LoopLimit

(* interpreter->Update(!resume_async): a resumed interpreter keeps its     *)
(* loop counter, any other starts from 0.                                  *)
StartCountReset(resumed) == 0                      \* mutant of StartCount
StartCount(resumed) == IF resumed THEN loopCount ELSE 0

(* Mutant of Suspend: the caller ignores the AsyncOp. *)
SuspendIgnored(at, id, o) == owed' = owed + 1 /\ UNCHANGED <<actx, op, pc>>

(* The AsyncOp o is handed up to Scene_Map::OnAsyncSuspend. *)
Suspend(at, id, o) == /\ actx' = Ctx(at, id)
                      /\ op' = o
                      /\ owed' = owed + 1
                      /\ pc' = "suspended"

(***************************************************************************)
(* A character that moves calls Game_Map::MakeWay, which updates the       *)
(* events standing in its way, each of which may run its interpreter, and  *)
(* ignores the AsyncOps they return.  The next Update of their interpreter *)
(* clears it: nobody performs them any more.                               *)
(***************************************************************************)
PushAside(most) ==
  \E n \in 0 .. MaxDrops - drops :
    /\ n <= most
    /\ drops' = drops + n
    /\ owed' = owed + n

-----------------------------------------------------------------------------

Init == /\ map \in Maps
        /\ kind = "none" /\ pc = "idle"
        /\ k = 0 /\ resume = 0
        /\ actx = NoCtx /\ op = "none"
        /\ last = None
        /\ loopCount = 0
        /\ fgRunning = FALSE
        /\ loads = 0 /\ switched = FALSE
        /\ owed = 0 /\ drops = 0

(* Scene_Map calls one of its three entry points with an empty context. *)
Begin(kd) ==
  /\ pc = "idle"
  /\ kind' = kd
  /\ pc' = IF kd = "fg" THEN "foreground" ELSE "common"
  /\ k' = 0 /\ resume' = 0 /\ last' = None
  /\ loads' = 0 /\ switched' = FALSE
  /\ UNCHANGED <<map, actx, op, loopCount, fgRunning, owed, drops>>

-----------------------------------------------------------------------------
(* UpdateCommonEvents *)

EnterCommon ==
  /\ pc = "common" /\ k = 0
  /\ IF Gate("common")
       THEN k' = 1 /\ resume' = actx.id /\ pc' = pc
       ELSE k' = 0 /\ pc' = "map" /\ UNCHANGED resume
  /\ UNCHANGED <<map, kind, actx, op, last, loopCount, fgRunning, loads,
                 switched, owed, drops>>

SkipCommon ==
  /\ pc = "common" /\ k \in 1 .. NumCommon
  /\ resume # 0 /\ resume # k
  /\ k' = k + 1
  /\ UNCHANGED <<map, kind, pc, resume, actx, op, last, loopCount, fgRunning,
                 loads, switched, owed, drops>>

(* Game_CommonEvent::Update(resume_async) *)
RunCommon ==
  /\ pc = "common" /\ k \in 1 .. NumCommon
  /\ resume \in {0, k}
  /\ resume' = 0
  /\ last' = IF resume = 0 THEN <<"common", k>> ELSE last
  /\ LET c == StartCount(resume # 0) IN
       \/ /\ loopCount' \in Quiet(c)
          /\ k' = k + 1
          /\ UNCHANGED <<pc, actx, op, owed>>
       \/ /\ loopCount' \in Works(c)
          /\ \E o \in OpsNow : Suspend("common", k, o)
          /\ UNCHANGED k
  /\ UNCHANGED <<map, kind, fgRunning, loads, switched, drops>>

DoneCommon ==
  /\ pc = "common" /\ k = NumCommon + 1
  /\ actx' = NoCtx /\ op' = "none"
  /\ pc' = "map" /\ k' = 0 /\ resume' = 0
  /\ UNCHANGED <<map, kind, last, loopCount, fgRunning, loads, switched, owed,
                 drops>>

-----------------------------------------------------------------------------
(* UpdateMapEvents *)

EnterMapEvents ==
  /\ pc = "map" /\ k = 0
  /\ IF Gate("map")
       THEN k' = 1 /\ resume' = actx.id /\ pc' = pc
       ELSE k' = 0 /\ pc' = "world" /\ UNCHANGED resume
  /\ UNCHANGED <<map, kind, actx, op, last, loopCount, fgRunning, loads,
                 switched, owed, drops>>

SkipMapEvent ==
  /\ pc = "map" /\ k \in 1 .. NumEvents
  /\ resume # 0 /\ resume # EventsOf[map][k]
  /\ k' = k + 1
  /\ UNCHANGED <<map, kind, pc, resume, actx, op, last, loopCount, fgRunning,
                 loads, switched, owed, drops>>

(* Game_Event::Update(resume_async): first the parallel interpreter, then  *)
(* Game_Character::Update, in which the event may push others aside.  A    *)
(* vehicle teleport from a parallel map event is a fatal error.            *)
RunMapEvent ==
  /\ pc = "map" /\ k \in 1 .. NumEvents
  /\ LET ev == EventsOf[map][k]
         c  == StartCount(resume # 0) IN
       /\ resume \in {0, ev}
       /\ last' = IF resume = 0 THEN <<"map", ev>> ELSE last
       /\ \/ /\ loopCount' \in Quiet(c)
             /\ k' = k + 1
             /\ PushAside(NumEvents - 1)
             /\ UNCHANGED <<pc, actx, op>>
          \/ /\ loopCount' \in Works(c)
             /\ \E o \in OpsNow \ {"teleport"} : Suspend("map", ev, o)
             /\ UNCHANGED <<k, drops>>
  /\ resume' = 0
  /\ UNCHANGED <<map, kind, fgRunning, loads, switched>>

(* A pre-update returns here. *)
DoneMapEvents ==
  /\ pc = "map" /\ k = NumEvents + 1
  /\ actx' = NoCtx /\ op' = "none"
  /\ pc' = IF kind = "pre" THEN "done" ELSE "world"
  /\ k' = 0 /\ resume' = 0
  /\ UNCHANGED <<map, kind, last, loopCount, fgRunning, loads, switched, owed,
                 drops>>

-----------------------------------------------------------------------------
(* The rest of Game_Map::Update *)

(* MultiplayerUpdate, the party, the vehicles of this map. *)
World ==
  /\ pc = "world"
  /\ IF Active THEN UNCHANGED <<last, owed, drops>>
               ELSE last' = <<"world", 0>> /\ PushAside(NumEvents)
  /\ pc' = "message"
  /\ UNCHANGED <<map, kind, k, resume, actx, op, loopCount, fgRunning, loads,
                 switched>>

(* UpdateMessage: the message box cannot resume, so a context that names   *)
(* it means that it already ran to its end.                                *)
Message ==
  /\ pc = "message"
  /\ \/ /\ actx.at \notin {"none", "message"}
        /\ pc' = "timers"
        /\ UNCHANGED <<last, actx, op, owed>>
     \/ /\ actx.at = "message"
        /\ pc' = "timers" /\ actx' = NoCtx /\ op' = "none"
        /\ UNCHANGED <<last, owed>>
     \/ /\ ~Active
        /\ last' = <<"message", 0>>
        /\ \/ pc' = "timers" /\ UNCHANGED <<actx, op, owed>>
           \/ Suspend("message", 0, "wait")
  /\ UNCHANGED <<map, kind, k, resume, loopCount, fgRunning, loads, switched,
                 drops>>

(* UpdateTimers, Game_Screen::Update, Game_Pictures::Update *)
Timers ==
  /\ pc = "timers"
  /\ last' = IF Active THEN last ELSE <<"timers", 0>>
  /\ pc' = "foreground"
  /\ UNCHANGED <<map, kind, k, resume, actx, op, loopCount, fgRunning, loads,
                 switched, owed, drops>>

(* The first interp.Update of UpdateForegroundEvents runs the event left   *)
(* over from the last frame, or the one that was suspended.                *)
Foreground ==
  /\ pc = "foreground"
  /\ LET resumed == actx.at = "fg"
         c == StartCount(resumed) IN
       /\ last' = IF resumed THEN last ELSE <<"foreground", 0>>
       /\ \/ /\ IF fgRunning
                  THEN /\ loopCount' \in Quiet(c)
                       /\ fgRunning' \in IF c < LoopLimit THEN BOOLEAN
                                                         ELSE {TRUE}
                  ELSE loopCount' = c /\ UNCHANGED fgRunning
             /\ pc' = "fgloop"
             /\ UNCHANGED <<actx, op, owed>>
          \/ /\ fgRunning
             /\ loopCount' \in Works(c)
             /\ \E o \in OpsNow : Suspend("fg", 0, o)
             /\ UNCHANGED fgRunning
  /\ UNCHANGED <<map, kind, k, resume, loads, switched, drops>>

(* One turn of the while loop: a waiting common or map event is pushed on  *)
(* the cleared interpreter and run without resetting the loop counter.     *)
RunForeground ==
  /\ pc = "fgloop"
  /\ ~fgRunning /\ loopCount < LoopLimit
  /\ \/ /\ \/ loopCount' \in Quiet(loopCount) /\ fgRunning' = TRUE
           \/ loopCount' \in Works(loopCount) /\ fgRunning' = FALSE
        /\ UNCHANGED <<pc, actx, op, owed>>
     \/ /\ loopCount' \in Works(loopCount)
        /\ fgRunning' = TRUE
        /\ \E o \in OpsNow : Suspend("fg", 0, o)
  /\ UNCHANGED <<map, kind, k, resume, last, loads, switched, drops>>

(* The loop ends: something still runs, the limit is reached, no event is  *)
(* waiting, or a scene was requested.                                      *)
DoneForeground ==
  /\ pc = "fgloop"
  /\ actx' = NoCtx /\ op' = "none"
  /\ pc' = IF kind = "fg" THEN "done" ELSE "parallax"
  /\ UNCHANGED <<map, kind, k, resume, last, loopCount, fgRunning, loads,
                 switched, owed, drops>>

Parallax ==
  /\ pc = "parallax"
  /\ last' = <<"parallax", 0>>
  /\ pc' = "done"
  /\ UNCHANGED <<map, kind, k, resume, actx, op, loopCount, fgRunning, loads,
                 switched, owed, drops>>

Return ==
  /\ pc = "done"
  /\ kind' = "none" /\ pc' = "idle"
  /\ UNCHANGED <<map, k, resume, actx, op, last, loopCount, fgRunning, loads,
                 switched, owed, drops>>

-----------------------------------------------------------------------------
(* Scene_Map::OnAsyncSuspend *)

Reenter == /\ pc' = IF kind = "fg" THEN "foreground" ELSE "common"
           /\ k' = 0 /\ resume' = 0
           /\ owed' = owed - 1

(* The operation takes its time and the continuation calls Update(actx). *)
PerformWait ==
  /\ pc = "suspended" /\ op = "wait"
  /\ Reenter
  /\ UNCHANGED <<map, kind, actx, op, last, loopCount, fgRunning, loads,
                 switched, drops>>

(* PerformAsyncTeleport: Game_Map::Setup runs only for another map. *)
PerformTeleport ==
  /\ pc = "suspended" /\ op = "teleport"
  /\ map' \in Maps
  /\ switched' = (switched \/ map' # map)
  /\ Reenter
  /\ UNCHANGED <<kind, actx, op, last, loopCount, fgRunning, loads, drops>>

(* Player::LoadSavegame on the map scene replaces the map, its events with *)
(* their interpreters, and the state of the foreground interpreter.        *)
PerformLoad ==
  /\ pc = "suspended" /\ op = "load"
  /\ loads' = loads + 1
  /\ map' \in Maps
  /\ switched' = TRUE
  /\ fgRunning' \in BOOLEAN
  /\ loopCount' = IF actx.at = "map" THEN 0 ELSE loopCount
  /\ Reenter
  /\ UNCHANGED <<kind, actx, op, last, drops>>

(* Scene::CheckSceneExit: no continuation is kept. *)
PerformExit ==
  /\ pc = "suspended" /\ op = "exit"
  /\ kind' = "none" /\ pc' = "idle"
  /\ k' = 0 /\ resume' = 0
  /\ actx' = NoCtx /\ op' = "none"
  /\ owed' = owed - 1
  /\ UNCHANGED <<map, last, loopCount, fgRunning, loads, switched, drops>>

Perform == PerformWait \/ PerformTeleport \/ PerformLoad \/ PerformExit

-----------------------------------------------------------------------------

UpdateStep ==
  \/ EnterCommon \/ SkipCommon \/ RunCommon \/ DoneCommon
  \/ EnterMapEvents \/ SkipMapEvent \/ RunMapEvent \/ DoneMapEvents
  \/ World \/ Message \/ Timers
  \/ Foreground \/ RunForeground \/ DoneForeground
  \/ Parallax \/ Return

Next == (\E kd \in Kinds : Begin(kd)) \/ UpdateStep \/ Perform

Spec == Init /\ [][Next]_vars

(***************************************************************************)
(* The game thread keeps running, transitions and requests end, and the    *)
(* title screen is reached or the game exits: every step of an update and  *)
(* every operation is weakly fair.  Starting a frame is not.               *)
(***************************************************************************)
FairSpec == Spec /\ WF_vars(UpdateStep) /\ WF_vars(Perform)

-----------------------------------------------------------------------------
(* Properties *)

Pcs == {"idle", "common", "map", "world", "message", "timers", "foreground",
        "fgloop", "parallax", "done", "suspended"}
Contexts == {"none", "common", "map", "message", "fg"}

(* The range of every variable of Game_Map::Update. *)
TypeOK ==
  /\ map \in Maps
  /\ kind \in Kinds \cup {"none"}
  /\ pc \in Pcs
  /\ k \in Nat /\ resume \in Nat
  /\ actx \in [at : Contexts, id : Nat]
  /\ op \in Ops \cup {"none"}
  /\ last \in Frame!Unit
  /\ loopCount \in 0 .. LoopLimit
  /\ fgRunning \in BOOLEAN
  /\ loads \in 0 .. MaxLoads
  /\ switched \in BOOLEAN
  /\ drops \in 0 .. MaxDrops
  /\ owed \in 0 .. MaxDrops + 1

(* An event that was suspended is found again when its loop is resumed:    *)
(* otherwise UpdateCommonEvents and UpdateMapEvents silently skip it and   *)
(* everything behind it.  It can only be missed if the map was replaced.   *)
NoSkippedResume ==
  /\ pc = "common" /\ k > NumCommon => resume = 0
  /\ pc = "map" /\ k > NumEvents /\ ~switched => resume = 0

(* A resumed interpreter goes on with the loop counter it had: however     *)
(* often it is suspended, the budget of loop_limit iterations is not       *)
(* renewed within one unit of work (loading a game makes new interpreters).*)
BudgetNotRenewed ==
  [][kind # "none" /\ kind' = kind /\ last' = last /\ loads' = loads
       => loopCount' >= loopCount]_vars

(* "When an async operation starts, the entire game loop is supposed to    *)
(* suspend, perform the async operation, and then resume" (async_op.h):    *)
(* so it does, however often the frame is suspended, resumed, moved to     *)
(* another map or loaded, and on every way out of the frame, but for the   *)
(* operations of events that had to make way (game_map.cpp:531), each of   *)
(* which is lost.                                                          *)
LostOnlyToMakeWay == pc = "idle" => owed = drops

(* However often a frame is suspended, it runs each unit once and in order *)
(* and goes on where it left: it implements MapFrame.                      *)
RunsEachUnitOnce == Frame!FSpec

(* Every frame ends, although events may suspend it again and again.       *)
FrameEnds == kind # "none" ~> kind = "none"
=============================================================================
