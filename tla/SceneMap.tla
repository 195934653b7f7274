------------------------------ MODULE SceneMap ------------------------------
(***************************************************************************)
(* Scene_Map: when the map is updated, when a teleport is carried out and  *)
(* when a requested scene is opened, around the events of ForegroundEvents. *)
(* An update of the map has one of four callers, kept in stage:            *)
(*   start  Start2, before the first frame of the scene                    *)
(*   full   Update, UpdateStage1 and UpdateStage2, a frame                 *)
(*   pre    FinishPendingTeleport2, the first update on a new map          *)
(*   fg     FinishPendingTeleport3, which lets the teleporting event go on *)
(***************************************************************************)
EXTENDS ForegroundEvents

VARIABLES
  tp \* TeleportParams: run_foreground_events, defer_recursive_teleports

sceneVars == <<vars, tp>>

Pending == target # NoTarget

NoParams == [run |-> FALSE, defer |-> FALSE]
Deferred == [run |-> FALSE, defer |-> TRUE]
Params(t, deferred) == [run |-> t.type = "foreground", defer |-> deferred]

-----------------------------------------------------------------------------

Init == /\ map \in Maps /\ holds \in BOOLEAN
        /\ ev = Created(map) /\ needRefresh = FALSE
        /\ moving = FALSE
        /\ requested = FALSE /\ target = NoTarget
        /\ stack = <<>> /\ loopCount = 0
        /\ stage = "start" /\ pc = "events" /\ k = 1
        /\ tp = NoParams

UpdateMap == Update /\ UNCHANGED tp

(* Update, UpdateStage1                                                    *)
BeginFrame ==
  /\ pc = "idle" /\ EnterEvents("full") /\ tp' = NoParams
  /\ UNCHANGED <<map, holds, moving, requested, target, stack, loopCount>>

NeverAgain == FALSE                                \* mutant of TeleportsOn
(* A teleport that was reserved during the update before is carried out at *)
(* once, unless a skill began the teleports.                               *)
TeleportsOn == Pending /\ (stage \in {"pre", "fg"} => ~tp.defer)

(* What follows an update: UpdateStage2, the rest of Start2, of            *)
(* FinishPendingTeleport2 and of FinishPendingTeleport3                    *)
Returned ==
  /\ pc = "returned"
  /\ IF TeleportsOn
       THEN /\ pc' = "teleport" /\ UNCHANGED stage
            /\ tp' = IF stage \in {"pre", "fg"} THEN tp
                                                ELSE Params(target, FALSE)
       ELSE /\ IF stage = "pre" /\ tp.run
                 THEN pc' = "foreground" /\ stage' = "fg"
                 ELSE pc' = "calling" /\ UNCHANGED stage
            /\ UNCHANGED tp
  /\ UNCHANGED <<map, holds, needRefresh, ev, moving, requested, target,
                 stack, loopCount, k>>

(* FinishPendingTeleport: PerformTeleport                                  *)
PerformTeleport ==
  /\ pc = "teleport" /\ pc' = "preupdate"
  /\ IF target.map = map
       THEN /\ moving' = FALSE
            /\ UNCHANGED <<map, ev, needRefresh, stack>>
       ELSE SetupMap(target.map) /\ stack' = OnMapChange(stack)
  /\ target' = NoTarget
  /\ UNCHANGED <<holds, requested, loopCount, stage, k, tp>>

(* PreUpdate *)
BeginPreUpdate ==
  /\ pc = "preupdate" /\ EnterEvents("pre")
  /\ UNCHANGED <<map, holds, moving, requested, target, stack, loopCount, tp>>

(* OnAsyncSuspend, PerformAsyncTeleport: the frames keep their event ids,  *)
(* and a teleport that was pending stays so.                               *)
PerformAsyncTeleport ==
  /\ pc = "suspended" /\ pc' = "resume"
  /\ \E m \in Maps \ {map} : SetupMap(m)
  /\ stack' = [n \in 1 .. Len(stack) |-> [stack[n] EXCEPT !.quick = TRUE]]
  /\ UNCHANGED <<holds, requested, target, loopCount, stage, k, tp>>

(* UpdateSceneCalling *)
UpdateSceneCalling ==
  /\ pc = "calling"
  /\ pc' = IF requested THEN "scene" ELSE "idle"
  /\ requested' = FALSE
  /\ UNCHANGED <<map, holds, needRefresh, ev, moving, target, stack,
                 loopCount, stage, k, tp>>

(* The other scene ends, perhaps with a teleport or escape skill that was  *)
(* used there, and Continue sees to it.                                    *)
Continue ==
  /\ pc = "scene"
  /\ \/ UNCHANGED target
     \/ \E m \in TeleportsTo.skill : target' = [map |-> m, type |-> "skill"]
  /\ IF target' # NoTarget
       THEN /\ pc' = "teleport"
            /\ tp' = Params(target', target'.type = "skill")
       ELSE pc' = "idle" /\ UNCHANGED tp
  /\ UNCHANGED <<map, holds, needRefresh, ev, moving, requested, stack,
                 loopCount, stage, k>>

Scene == \/ BeginFrame \/ Returned \/ PerformTeleport \/ BeginPreUpdate
         \/ PerformAsyncTeleport \/ UpdateSceneCalling \/ Continue

(* Output::Error has ended the program.                                    *)
Ended == pc = "error" /\ UNCHANGED sceneVars

Next == UpdateMap \/ Scene \/ Ended

Spec == Init /\ [][Next]_sceneVars

Foregrounds == Foreground \/ Start \/ DrainDone
FinishEvent == FinishBase \/ FinishInvalid
Players == PlayerMoves \/ PlayerWaits \/ PlayerStarts \/ PlayerActs

(* Frame follows frame.  An event's commands are run again and again until *)
(* they are done, and in the end nothing holds them up.                    *)
FairSpec ==
  /\ Spec
  /\ WF_sceneVars(Scene)
  /\ WF_sceneVars((UpdateEvent \/ EventsDone \/ Players \/ Timers \/ Foregrounds)
                  /\ UNCHANGED tp)
  /\ WF_sceneVars((Stops \/ Plain \/ FinishCalled \/ FinishEvent)
                  /\ UNCHANGED tp)
  /\ SF_sceneVars(Plain /\ UNCHANGED tp)
  /\ SF_sceneVars(FinishCalled /\ UNCHANGED tp)
  /\ SF_sceneVars(FinishEvent /\ UNCHANGED tp)

-----------------------------------------------------------------------------
(* Properties *)

(* Every variable has a value of its type, the events are those of the map *)
(* with pages of theirs, and stack and loop count keep their limits.       *)
TypeOK ==
  /\ map \in Maps /\ DOMAIN ev = Ids(map)
  /\ \A e \in Ids(map) : ev[e].page \in {PageOf[map][e][b] : b \in BOOLEAN}
  /\ Len(stack) <= CallDepth /\ loopCount \in 0 .. LoopLimit
  /\ target.map \in Maps \cup {"none"}

(* An event that the game has paused for its commands waits for them or    *)
(* runs them; the one exception is an event that ran on top of a common    *)
(* event (game_map.cpp:1154), whose end nobody reports.                    *)
PausedIsCalled ==
  \A e \in Ids(map) :
    ev[e].paused /\ ev[e].active =>
      \/ ev[e].waiting \/ ev[e].onTop
      \/ \E n \in DOMAIN stack : stack[n].id = e

(* A page that was triggered is the one that runs: the event waits with    *)
(* the page it was called on, and no page is out of date unless a refresh  *)
(* is due.                                                                 *)
RunsWhatWasCalled ==
  \A e \in Ids(map) :
    /\ ev[e].waiting => ev[e].called = ev[e].page
    /\ ev[e].page = PageOf[map][e][holds] \/ needRefresh

(* The frames of the foreground name events of this map, or none, so that  *)
(* the end of an event is reported to that event and never to another      *)
(* map's (game_interpreter.cpp:829); only after a vehicle has taken the    *)
(* party to another map they do not.                                       *)
OwnFrames ==
  /\ \A n \in DOMAIN stack :
       stack[n].id = 0 \/ stack[n].home = map \/ stack[n].quick
  /\ pc = "error" => stack[1].quick

(* What the events, their flags and the stack of the foreground have to    *)
(* agree on at every point of a frame.                                     *)
ForegroundOK == TypeOK /\ PausedIsCalled /\ RunsWhatWasCalled /\ OwnFrames

(* A frame begins with no teleport overlooked and no scene forgotten; what *)
(* a parallel event reserves after a skill has teleported waits one frame. *)
NothingOverlooked ==
  pc = "idle" => /\ ~requested
                 /\ Pending => tp = Deferred /\ stage = "pre"

(* UpdateForegroundEvents comes to its end whatever the events do.         *)
ForegroundReturns ==
  pc \in {"foreground", "drain", "run"} ~> pc \in {"returned", "error"}

(* The event that comes last gets its turn, or is not called any more,     *)
(* however busy the common events are, unless those before it keep waiting *)
(* or parallel events and skills never stop teleporting, which cuts frames *)
(* short before their foreground events.                                   *)
Last   == EventsOf[map][Len(EventsOf[map])]
Served ==
  <>[](/\ \A e \in Ids(map) \ {Last} : ~ev[e].waiting
       /\ target.type \in {"none", "foreground"}) =>
    (ev[Last].waiting ~> ~ev[Last].waiting \/ pc = "error")
=============================================================================
