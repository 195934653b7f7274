-------------------------- MODULE ForegroundEvents --------------------------
(***************************************************************************)
(* How events come to run in the foreground: a map event is triggered by   *)
(* itself, by the player or by running into him and then waits, a common   *)
(* event waits while its switch is on, and at the end of each frame        *)
(* Game_Map::UpdateForegroundEvents takes them up one after the other.     *)
(*                                                                         *)
(* The commands of an event are data: a run does anything that matters to  *)
(* those who wait, any number of times and in any order.                   *)
(***************************************************************************)
EXTENDS Integers, Sequences, FiniteSetsExt

CONSTANTS Maps, EventsOf,  \* see MapFrame
          PageOf,     \* the page an event shows on a map, by the conditions
          Common,     \* for each common event when its switch is on
          TeleportsTo, \* the maps that each type of teleport leads to
          CallDepth,  \* bound: frames on the stack
          LoopLimit   \* Game_Interpreter::loop_limit

ASSUME EventsAssumption ==
  /\ Maps # {} /\ EventsOf \in [Maps -> Seq(Nat \ {0})]
  /\ TeleportsTo \in [{"parallel", "foreground", "skill"} -> SUBSET Maps]
  /\ CallDepth \in Nat /\ CallDepth >= 2 /\ LoopLimit \in Nat \ {0}

VARIABLES
  map,         \* Game_Map::map_info.map_id
  holds,       \* what the conditions of pages and common events depend on
  needRefresh, \* need_refresh
  ev,          \* the map events: page, active, waiting, paused
  moving,      \* ~Game_Player::IsStopping()
  requested,   \* Scene::instance->HasRequestedScene()
  target,      \* Game_Player::teleport_target: its map and type
  stack,       \* the foreground interpreter's _state.stack
  loopCount,   \* its loop_count
  stage,       \* who updates the map, see SceneMap
  pc, k        \* where the update stands, and its event loop

vars == <<map, holds, needRefresh, ev, moving, requested, target, stack,
          loopCount, stage, pc, k>>

NoTarget == [map |-> "none", type |-> "none"]
NoPage  == [trigger |-> "none", same |-> FALSE, commands |-> FALSE]
Ids(m)  == {EventsOf[m][i] : i \in 1 .. Len(EventsOf[m])}

(* Where the player is: away from events, at one, before one.  Routes and  *)
(* parallel events move everything about, so a check may find him anywhere. *)
Spots   == {<<"away", 0>>} \cup ({"here", "before"} \X Ids(map))

-----------------------------------------------------------------------------
(* Game_Event *)

(* Not in the code: called, the page that was triggered, and onTop, whether *)
(* it was taken up on top of a common event.                               *)
Created(m) ==
  [e \in Ids(m) |-> [page |-> PageOf[m][e][holds], called |-> NoPage,
                     active |-> TRUE, waiting |-> FALSE, paused |-> FALSE,
                     onTop |-> FALSE]]

(* RefreshPage: a new page, or none, forgets that the event was triggered. *)
TurnTo(r, p) ==
  IF p = r.page /\ p # NoPage THEN r
  ELSE [r EXCEPT !.page = p, !.waiting = FALSE, !.paused = FALSE,
                 !.called = NoPage, !.onTop = FALSE]

(* Game_Map::Refresh, if it is due *)
Refreshed(evs) ==
  IF needRefresh THEN [e \in DOMAIN evs |-> TurnTo(evs[e], PageOf[map][e][holds])]
                 ELSE evs

(* ScheduleForegroundExecution *)
Scheduled(r) ==
  IF r.active /\ ~r.waiting /\ r.page.commands
    THEN [r EXCEPT !.waiting = TRUE, !.paused = TRUE, !.called = r.page,
                   !.onTop = FALSE]
    ELSE r

ScheduleAll(evs, spot, same, triggers) ==
  [e \in DOMAIN evs |->
     IF /\ spot[2] = e /\ evs[e].page.same = same /\ evs[e].active
        /\ evs[e].page.trigger \in triggers
       THEN Scheduled(evs[e]) ELSE evs[e]]

(* Game_Player::CheckEventTriggerHere, CheckEventTriggerThere               *)
TriggerHere(s, evs, triggers) ==
  IF s[1] = "here" THEN ScheduleAll(evs, s, FALSE, triggers) ELSE evs
TriggerThere(s, evs, triggers) ==
  IF s[1] = "before" THEN ScheduleAll(evs, s, TRUE, triggers) ELSE evs

(* Game_CommonEvent::IsWaitingForegroundExecution                          *)
CommonWaits(c) == holds \in Common[c]

(* Game_Map::IsAnyEventStarting                                            *)
AnyEventStarting(evs) ==
  \/ \E e \in DOMAIN evs : /\ evs[e].waiting /\ evs[e].active
                           /\ evs[e].page.commands
  \/ \E c \in DOMAIN Common : CommonWaits(c)

-----------------------------------------------------------------------------

(* Game_Map::Update begins: UpdateMapEvents                                *)
EnterEvents(st) == /\ stage' = st /\ pc' = "events" /\ k' = 1
                   /\ ev' = Refreshed(ev) /\ needRefresh' = FALSE

(* A parallel event, of which there may be any: its interpreter refreshes  *)
(* the map before it returns.  A switch in a move route does the same.     *)
ParallelEvent ==
  /\ pc = "events"
  /\ \/ /\ holds' = ~holds
        /\ ev' = [e \in DOMAIN ev |-> TurnTo(ev[e], PageOf[map][e][~holds])]
        /\ UNCHANGED <<requested, target>>
     \/ requested' = TRUE /\ UNCHANGED <<holds, ev, target>>
     \/ \E m \in TeleportsTo.parallel : target' = [map |-> m, type |-> "parallel"]
        /\ UNCHANGED <<holds, ev, requested>>
  /\ UNCHANGED <<map, needRefresh, moving, stack, loopCount, stage, pc,
                 k>>

Running == stack # <<>>

(* Game_Event::UpdateNextMovementAction, of an event that is not moving:   *)
(* a route that was set, CheckEventAutostart, CheckEventCollision, and its *)
(* own way.  On a route and on its own way it may walk into the player     *)
(* (CheckCollisonOnMoveFailure); the route asks neither whether the event  *)
(* is paused nor whether it waits.                                         *)
Autostarted(r) == IF r.page.trigger = "auto" THEN Scheduled(r) ELSE r

Collided(s, e, r) ==
  IF /\ r.page.trigger = "collision" /\ ~r.page.same /\ ~Running
     /\ s = <<"here", e>>
    THEN Scheduled(r) ELSE r

Bumped(s, e, r) ==
  IF /\ r.page.trigger = "collision" /\ r.page.same /\ ~Running
     /\ s = <<"before", e>>
    THEN Scheduled(r) ELSE r

UpdateEvent ==
  /\ pc = "events" /\ k \in 1 .. Len(EventsOf[map])
  /\ k' = k + 1
  /\ LET e == EventsOf[map][k] IN
       IF ~ev[e].active \/ ev[e].page = NoPage THEN UNCHANGED ev
       ELSE \/ UNCHANGED ev                         \* it is moving
            \/ \E s \in Spots : \E routed \in {ev[e], Bumped(s, e, ev[e])} :
                 LET r == Collided(s, e, Autostarted(routed)) IN
                 \/ ev' = [ev EXCEPT ![e] = r]
                 \/ /\ ~r.paused /\ ~Running         \* it walks
                    /\ ev' = [ev EXCEPT ![e] = Bumped(s, e, r)]
  /\ UNCHANGED <<map, holds, needRefresh, moving, requested, target, stack,
                 loopCount, stage, pc>>

EventsDone ==
  /\ pc = "events" /\ k > Len(EventsOf[map])
  /\ pc' = (IF stage = "full" THEN "player" ELSE "returned") /\ k' = 0
  /\ UNCHANGED <<map, holds, needRefresh, ev, moving, requested, target,
                 stack, loopCount, stage>>

-----------------------------------------------------------------------------
(* Game_Player::Update *)

PlayerDone ==
  /\ pc = "player" /\ pc' = "timers"
  /\ UNCHANGED <<map, holds, needRefresh, target, stack, loopCount, stage, k>>

(* UpdateMovement: the end of a step triggers events whatever is running.  *)
PlayerMoves ==
  /\ PlayerDone /\ moving
  /\ \/ UNCHANGED <<ev, moving>>
     \/ /\ moving' = FALSE
        /\ \E s \in Spots : ev' = TriggerHere(s, ev, {"touch", "collision"})
  /\ UNCHANGED requested

(* Game_Player::Move: the ground may kill the party, which is a game over. *)
Walks == /\ moving' = TRUE
         /\ requested' \in {requested, TRUE}

(* UpdateNextMovementAction returns: an event is running, the player is    *)
(* paused, in the airship, reads a message or is on a route, on which he   *)
(* walks even while an event is running.                                   *)
PlayerWaits == /\ PlayerDone /\ ~moving /\ UNCHANGED ev
               /\ Walks \/ UNCHANGED <<moving, requested>>

(* IsEncounterCalling, IsMenuCalling                                       *)
PlayerCalls == /\ PlayerDone /\ ~moving /\ ~Running
               /\ requested' = TRUE
               /\ UNCHANGED <<ev, moving>>

Here(s) == TriggerHere(s, ev, {"collision"})
Free(s) == ~moving /\ ~Running /\ ~AnyEventStarting(Here(s))

PlayerStarts == /\ PlayerDone /\ ~moving /\ ~Running
                /\ \E s \in Spots : ev' = Here(s)
                /\ UNCHANGED <<moving, requested>>

PlayerWalks == /\ PlayerDone /\ Walks
               /\ \E s \in Spots : Free(s) /\ ev' = Here(s)

(* A step that is not possible, the decision key (CheckActionEvent), both. *)
Blocked(s, evs) == TriggerThere(s, evs, {"touch", "collision"})
Decided(s, evs) ==
  LET faced == TriggerThere(s, evs, {"touch", "collision"}) IN
  TriggerThere(s, TriggerHere(s, faced, {"action"}), {"action"})

PlayerActs ==
  /\ PlayerDone
  /\ \E s \in Spots :
       /\ Free(s)
       /\ ev' \in {Blocked(s, Here(s)), Decided(s, Here(s)),
                   Decided(s, Blocked(s, Here(s)))}
  /\ UNCHANGED <<moving, requested>>

(* Game_Party::UpdateTimers: a second of a timer that pages depend on.     *)
Timers ==
  /\ pc = "timers" /\ pc' = "foreground"
  /\ \/ UNCHANGED <<holds, needRefresh>>
     \/ holds' = ~holds /\ needRefresh' = TRUE
  /\ UNCHANGED <<map, ev, moving, requested, target, stack, loopCount, stage,
                 k>>

-----------------------------------------------------------------------------
(* Game_Map::UpdateForegroundEvents *)

(* The first interp.Update(!resume_fg).  It sets loop_count back unless an  *)
(* AsyncOp came between; here the end of the loop does, for nothing reads   *)
(* the count before the next.                                              *)
Foreground ==
  /\ pc \in {"foreground", "resume"}
  /\ pc' = IF Running THEN "run" ELSE "drain"
  /\ UNCHANGED <<map, holds, needRefresh, ev, moving, requested, target,
                 stack, loopCount, stage, k>>

Frame(e) == [id |-> e, home |-> map, quick |-> FALSE, begun |-> FALSE]

WaitingEvents == {i \in 1 .. Len(EventsOf[map]) : ev[EventsOf[map][i]].waiting}
Startable     == {i \in WaitingEvents : ev[EventsOf[map][i]].active}
Passed        == {EventsOf[map][i] : i \in {j \in WaitingEvents :
                                              \A l \in Startable : j < l}}

CommonStarts == \E c \in DOMAIN Common : CommonWaits(c)

OnlyAlone(S) == IF S = {} \/ CommonStarts THEN 0 ELSE EventsOf[map][Min(S)]
                                                   \* mutant of FirstOf
FirstOf(S)   == IF S = {} THEN 0 ELSE EventsOf[map][Min(S)]

(* One common event and one map event are taken up together, the map event *)
(* on top; waiting events that are erased are passed over and forgotten.   *)
Pushed == (IF CommonStarts THEN <<Frame(0)>> ELSE <<>>)
            \o (IF FirstOf(Startable) = 0 THEN <<>>
                                          ELSE <<Frame(FirstOf(Startable))>>)

RenewedCount == 0                                  \* mutant of KeptCount
KeptCount    == loopCount   \* Update(false)

AtLimit == loopCount >= LoopLimit
AtScene == requested /\ loopCount > 0

Start ==
  /\ pc = "drain" /\ ~Running /\ ~AtLimit /\ ~AtScene
  /\ stack' = Pushed
  /\ loopCount' = IF Pushed = <<>> THEN 0 ELSE KeptCount
  /\ ev' = [e \in DOMAIN ev |->
              IF e \in Passed \cup {FirstOf(Startable)}
                THEN [ev[e] EXCEPT !.waiting = FALSE, !.called = NoPage,
                                   !.onTop = Len(Pushed) = 2]
                ELSE ev[e]]
  /\ pc' = IF Pushed = <<>> THEN "returned" ELSE "run"
  /\ UNCHANGED <<map, holds, needRefresh, moving, requested, target, stage,
                 k>>

DrainDone ==
  /\ pc = "drain" /\ (Running \/ AtLimit \/ AtScene)
  /\ pc' = "returned" /\ loopCount' = 0
  /\ UNCHANGED <<map, holds, needRefresh, ev, moving, requested, target,
                 stack, stage, k>>

-----------------------------------------------------------------------------
(* Game_Interpreter::Update of the foreground interpreter                  *)

Top  == stack[Len(stack)]
Drop == SubSeq(stack, 1, Len(stack) - 1)
R    == Refreshed(ev)

InLoop == /\ pc = "run"
          /\ UNCHANGED <<map, moving, stage, k>>

(* The loop is left with the map refreshed.                                *)
Leaves == /\ InLoop /\ pc' = "drain" /\ needRefresh' = FALSE
          /\ UNCHANGED <<holds, loopCount>>

(* The limit, a requested scene, or something that the event waits for: a  *)
(* message, a vehicle, the end of a wait.                                  *)
Stops == /\ Leaves /\ ev' = R
         /\ UNCHANGED <<requested, target, stack>>

Goes == InLoop /\ ~AtLimit /\ ~AtScene

NotTold(e)  == R                                   \* mutant of Finished
(* OnFinishForegroundEvent                                                 *)
Finished(e) == [R EXCEPT ![e].paused = FALSE, ![e].onTop = FALSE]

(* OnFinishStackFrame of the base frame: the event it names is told.       *)
FinishBase ==
  /\ Goes /\ Leaves /\ Len(stack) = 1 /\ Top.begun
  /\ Top.id \in Ids(map) \cup {0}
  /\ ev' = IF Top.id = 0 THEN R ELSE Finished(Top.id)
  /\ stack' = <<>>
  /\ UNCHANGED <<requested, target>>

(* Output::Error: no such event                                            *)
FinishInvalid ==
  /\ Goes /\ Len(stack) = 1 /\ Top.begun
  /\ Top.id \notin Ids(map) \cup {0}
  /\ pc' = "error"
  /\ UNCHANGED <<holds, needRefresh, ev, requested, target, stack, loopCount>>

Iterates == /\ Goes /\ loopCount' = loopCount + 1 /\ UNCHANGED pc

FinishCalled ==
  /\ Iterates /\ Len(stack) > 1 /\ Top.begun
  /\ stack' = Drop
  /\ ev' = R /\ needRefresh' = FALSE
  /\ UNCHANGED <<holds, requested, target>>

(* ExecuteCommand: no list of commands is empty.                           *)
Begun == [stack EXCEPT ![Len(stack)].begun = TRUE]

Plain == /\ Iterates /\ stack' = Begun
         /\ ev' = R /\ needRefresh' = FALSE
         /\ UNCHANGED <<holds, requested, target>>

ControlSwitches ==
  /\ Iterates /\ stack' = Begun
  /\ holds' = ~holds /\ needRefresh' = TRUE /\ ev' = R
  /\ UNCHANGED <<requested, target>>

EraseEvent ==
  /\ Iterates /\ stack' = Begun
  /\ Top.id \in Ids(map)
  /\ ev' = [R EXCEPT ![Top.id].active = FALSE] /\ needRefresh' = FALSE
  /\ UNCHANGED <<holds, requested, target>>

CallEvent ==
  /\ Iterates /\ Len(stack) < CallDepth
  /\ \E e \in Ids(map) \cup {0} : stack' = Append(Begun, Frame(e))
  /\ ev' = R /\ needRefresh' = FALSE
  /\ UNCHANGED <<holds, requested, target>>

(* A menu, shop or battle; a teleport: the command leaves the loop.        *)
OpenScene == /\ Goes /\ Leaves /\ stack' = Begun
             /\ requested' = TRUE /\ ev' = R
             /\ UNCHANGED target

Teleport == /\ Goes /\ Leaves /\ stack' = Begun
            /\ \E m \in TeleportsTo.foreground : target' = [map |-> m, type |-> "foreground"]
            /\ ev' = R
            /\ UNCHANGED requested

(* SetVehicleLocation to another map with the party on board: an AsyncOp.  *)
SetVehicleLocation ==
  /\ Goes /\ stack' = Begun
  /\ ev' = R /\ needRefresh' = FALSE
  /\ loopCount' = loopCount + 1 /\ pc' = "suspended"
  /\ UNCHANGED <<holds, requested, target>>

-----------------------------------------------------------------------------

(* Game_Player::MoveTo another map: Game_Map::Setup creates its events.     *)
SetupMap(m) ==
  /\ map' = m /\ ev' = Created(m) /\ needRefresh' = TRUE
  /\ moving' = FALSE

(* Game_Interpreter_Map::OnMapChange                                       *)
OnMapChange(s) == [n \in 1 .. Len(s) |-> [s[n] EXCEPT !.id = 0]]

Update == \/ ParallelEvent \/ UpdateEvent \/ EventsDone
          \/ PlayerMoves \/ PlayerWaits \/ PlayerCalls \/ PlayerStarts
          \/ PlayerWalks \/ PlayerActs \/ Timers
          \/ Foreground \/ Start \/ DrainDone
          \/ Stops \/ FinishBase \/ FinishInvalid \/ FinishCalled
          \/ Plain \/ ControlSwitches \/ EraseEvent \/ CallEvent
          \/ OpenScene \/ Teleport \/ SetVehicleLocation
=============================================================================
