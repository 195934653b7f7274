------------------------------ MODULE Vehicles ------------------------------
(***************************************************************************)
(* The player and his vehicles (game_player.cpp, game_vehicle.cpp): he     *)
(* boards a boat or ship that he faces by a step onto it and leaves it by  *)
(* a step ashore, he boards the airship where it stands, it ascends,       *)
(* descends and lands where it can; and events, teleports and skills move  *)
(* him and the vehicles at any moment in between.                          *)
(*                                                                         *)
(* A map is a strip of cells; a step takes any number of frames.  A frame  *)
(* is: parallel events, Player::Update in two parts, the foreground event, *)
(* a teleport with the pre-update of its map, a scene.                     *)
(***************************************************************************)
EXTENDS Integers, Sequences

CONSTANTS Maps,
          Terrain,     \* the cells of each map: "land", "sea" or "rock"
          Harbour,     \* where the vehicles are at the start
          Origin,      \* where the party is at the start
          SkillTargets, \* Game_Targets: where skills lead to
          Height,      \* frames of an ascent or descent
          MaxCommands  \* bound: commands of events and moves of ships, in all

Ships      == {"boat", "ship"}
VehicleSet == Ships \cup {"airship"}
Nowhere    == [map |-> "none", x |-> 0]
Places     == UNION {{[map |-> m, x |-> i] : i \in 1 .. Len(Terrain[m])} : m \in Maps}

ASSUME VehiclesAssumption ==
  /\ "none" \notin Maps /\ Maps # {}
  /\ Terrain \in [Maps -> Seq({"land", "sea", "rock"})]
  /\ Harbour \in [VehicleSet -> Places \cup {Nowhere}]
  /\ Origin \in Places /\ Terrain[Origin.map][Origin.x] = "land"
  /\ SkillTargets \subseteq Places
  /\ Height \in Nat \ {0} /\ MaxCommands \in Nat

VARIABLES
  at, dir, moving,      \* the player's place, direction and ~IsStopping()
  vehicle, aboard, boarding, unboarding, flying,  \* his data() of that name
  speed, preboardSpeed, \* his move speed and preboard_move_speed
  song, beforeSong,     \* the current music and before_vehicle_music
  berth,                \* where the vehicles are
  up, down, airborne,   \* the airship: remaining ascent, descent, flying
  target,               \* teleport_target
  running, menu,        \* the foreground event runs, a menu is requested
  pc,                   \* the part of the frame
  astray,               \* not in the code: has the party been put where, or
                        \* told to board when, it should not?
  commands              \* bound: how many there have been since the start

body    == <<at, dir, moving>>
ride    == <<vehicle, aboard, boarding, unboarding, flying, speed,
             preboardSpeed, song, beforeSong>>
air     == <<up, down, airborne>>
around  == <<target, running, menu>>
control == <<pc, astray, commands>>
vars    == <<body, ride, berth, air, around, control>>

On(p)     == Terrain[p.map][p.x]
Toward(d) == [at EXCEPT !.x = at.x + d]
Front     == Toward(dir)
IsSea(p)  == p \in Places /\ On(p) = "sea"
IsLand(p) == p \in Places /\ On(p) = "land"
Wrecks(p) == \E v \in Ships : berth[v] = p

(* The ships of the game's database are at sea, if anywhere.               *)
ASSUME HarbourAtSea == \A v \in Ships : Harbour[v] = Nowhere \/ IsSea(Harbour[v])

(* Where the game's author would put a party that rides v.                 *)
Fits(v, p) == CASE v = "none" -> IsLand(p) [] v \in Ships -> IsSea(p)
                [] OTHER -> p \in Places

-----------------------------------------------------------------------------

Init == /\ at = Origin /\ dir \in {-1, 1} /\ moving = FALSE
        /\ vehicle = "none" /\ flying = FALSE
        /\ aboard = FALSE /\ boarding = FALSE /\ unboarding = FALSE
        /\ speed = "walk" /\ preboardSpeed = "walk"
        /\ song = at.map /\ beforeSong = "none"
        /\ berth = Harbour /\ up = 0 /\ down = 0 /\ airborne = FALSE
        /\ target = Nowhere /\ running = FALSE /\ menu = FALSE
        /\ pc = "parallel" /\ astray = FALSE /\ commands = 0

-----------------------------------------------------------------------------
(* GetOnOffVehicle and its parts *)

Mounts(v) == /\ vehicle' = v /\ preboardSpeed' = speed
             /\ beforeSong' = song /\ song' = v

GetOnAirship ==
  /\ ~aboard /\ berth["airship"] = at /\ ~moving
  /\ Mounts("airship") /\ aboard' = TRUE /\ speed' = "airship"
  /\ flying' = TRUE
  /\ IF airborne THEN UNCHANGED air                         \* StartAscent
                 ELSE up' = Height /\ airborne' = TRUE /\ UNCHANGED down
  /\ UNCHANGED <<body, boarding, unboarding, berth>>

AtFront == IF berth["ship"] = Front THEN "ship" ELSE "boat"

(* The party steps onto the ship, unless it is under way already.          *)
GetOnShip ==
  /\ ~aboard /\ ~(berth["airship"] = at /\ ~moving)
  /\ Wrecks(Front) /\ IsLand(at)
  /\ Mounts(AtFront) /\ boarding' = TRUE
  /\ at' = IF moving THEN at ELSE Front
  /\ moving' = TRUE
  /\ UNCHANGED <<dir, aboard, unboarding, flying, speed, berth, air>>

Turned   == aboard /\ vehicle = "airship"
Landable == IsLand(Front)

GetOffAirship ==
  /\ Turned /\ up = 0 /\ down = 0
  /\ down' = IF airborne THEN Height ELSE 0                 \* StartDescent
  /\ UNCHANGED <<body, ride, berth, up, airborne>>

GetOffShip ==
  /\ aboard /\ vehicle \in Ships /\ Landable
  /\ aboard' = FALSE /\ unboarding' = TRUE /\ vehicle' = "none"
  /\ speed' = preboardSpeed /\ song' = beforeSong
  /\ at' = IF moving THEN at ELSE Front
  /\ moving' = TRUE
  /\ UNCHANGED <<dir, boarding, flying, preboardSpeed, beforeSong, berth, air>>

(* No vehicle, no way off, or an event that stands in the way.             *)
GetsNowhere == UNCHANGED <<body, ride, berth, air>>

GetOnOff == GetOnAirship \/ GetOnShip \/ GetOffAirship \/ GetOffShip \/ GetsNowhere

StaysOnFoot == vehicle = "none"                    \* mutant of StaysOn
StaysOn     == ~aboard

(* ForceGetOffVehicle                                                      *)
ForcedOff ==
  IF StaysOn THEN UNCHANGED <<ride, air>>
  ELSE /\ up' = 0 /\ down' = 0
       /\ airborne' = (airborne /\ vehicle # "airship")
       /\ flying' = FALSE /\ aboard' = FALSE /\ unboarding' = TRUE
       /\ vehicle' = "none" /\ speed' = preboardSpeed /\ song' = beforeSong
       /\ UNCHANGED <<boarding, preboardSpeed, beforeSong>>

-----------------------------------------------------------------------------
(* MoveTo: the vehicle comes along whether or not the party is aboard, and *)
(* another map brings its music (PlayBgm).                                 *)

Brought(v, p)    == IF v = "none" THEN berth ELSE [berth EXCEPT ![v] = p]

AlwaysPlayed == TRUE                               \* mutant of Plays
Plays == ~aboard

MovedTo(p) ==
  /\ at' = p /\ moving' = FALSE /\ UNCHANGED dir
  /\ berth' = Brought(vehicle, p)
  /\ song' = IF p.map # at.map /\ Plays THEN p.map ELSE song
  /\ beforeSong' = IF p.map # at.map /\ ~Plays THEN p.map ELSE beforeSong
  /\ UNCHANGED <<vehicle, aboard, boarding, unboarding, flying, speed,
                 preboardSpeed>>

Misplaces(p) == boarding \/ ~Fits(vehicle, p)

-----------------------------------------------------------------------------
(* Commands of events: any that a parallel event executes, or that the     *)
(* foreground event executes while the party is not between the two.       *)

Blocked == boarding \/ unboarding \/ (vehicle = "airship" /\ (up > 0 \/ down > 0))

Executes ==
  /\ commands < MaxCommands /\ commands' = commands + 1
  /\ \/ pc \in {"parallel", "pre"}
     \/ pc = "foreground" /\ running /\ ~Blocked
  /\ UNCHANGED <<running, pc>>

EnterExitVehicle ==
  /\ Executes /\ GetOnOff
  /\ astray' = (astray \/ moving)
  /\ UNCHANGED <<target, menu>>

ReserveTeleport ==
  /\ Executes /\ target' \in Places
  /\ UNCHANGED <<body, ride, berth, air, menu, astray>>

OpenMenu ==
  /\ Executes /\ menu' = TRUE
  /\ UNCHANGED <<body, ride, berth, air, target, astray>>

(* SetVehicleLocation moves the party along with its vehicle, to another    *)
(* map at once by an AsyncOp; for a party on foot v = "none" stands.       *)
SetVehicleLocation ==
  /\ Executes
  /\ \E p \in Places, v \in VehicleSet \cup {"none"} :
       IF v = vehicle
         THEN /\ MovedTo(p) /\ UNCHANGED air
              /\ astray' = (astray \/ Misplaces(p))
         ELSE /\ v # "none"
              /\ berth' = [berth EXCEPT ![v] = p]
              /\ astray' = (astray \/ (v \in Ships /\ ~IsSea(p)))
              /\ UNCHANGED <<body, ride, air>>
  /\ UNCHANGED <<target, menu>>

Commands == EnterExitVehicle \/ ReserveTeleport \/ OpenMenu \/ SetVehicleLocation

-----------------------------------------------------------------------------
(* Game_Player::Update *)

ParallelDone == /\ pc = "parallel" /\ pc' = "player"
                /\ UNCHANGED <<body, ride, berth, air, around, astray, commands>>

UpdateDone == /\ pc = "player" /\ pc' = "complete"
              /\ UNCHANGED <<around, astray, commands>>

StepGoesOn == /\ UpdateDone /\ moving
              /\ moving' \in BOOLEAN
              /\ UNCHANGED <<at, dir, ride, berth, air>>

InFlight == /\ vehicle = "airship" /\ airborne /\ (up > 0 \/ down > 0)

CanLand == IsLand(berth["airship"]) /\ ~Wrecks(berth["airship"])

(* UpdateAirship; where it cannot land, for an event stands there if for   *)
(* nothing else, the airship ascends again.                                *)
Ascends == /\ UpdateDone /\ ~moving /\ InFlight /\ up > 0
           /\ up' = up - 1
           /\ UNCHANGED <<body, ride, berth, down, airborne>>

Descends == /\ UpdateDone /\ ~moving /\ InFlight /\ up = 0 /\ down > 1
            /\ down' = down - 1
            /\ UNCHANGED <<body, ride, berth, up, airborne>>

LandsAnyway == TRUE                                \* mutant of MayLand
MayLand     == CanLand

Alights    == /\ aboard' = FALSE /\ flying' = FALSE

Lands == /\ UpdateDone /\ ~moving /\ InFlight /\ up = 0 /\ down = 1
         /\ MayLand
         /\ down' = 0 /\ airborne' = FALSE
         /\ Alights /\ vehicle' = "none"
         /\ speed' = preboardSpeed /\ song' = beforeSong
         /\ UNCHANGED <<body, boarding, unboarding, preboardSpeed, beforeSong,
                        berth, up>>

CannotLand == /\ UpdateDone /\ ~moving /\ InFlight /\ up = 0 /\ down = 1
              /\ down' = 0 /\ up' = Height
              /\ UNCHANGED <<body, ride, berth, airborne>>

Acts == UpdateDone /\ ~moving /\ ~InFlight

(* MakeWay for the party on foot, in a boat or ship, in the airship        *)
Passable(p) ==
  IF aboard /\ vehicle = "airship" THEN p \in Places
  ELSE /\ IF aboard /\ vehicle \in Ships THEN IsSea(p) ELSE IsLand(p)
       /\ \A v \in Ships \ {vehicle} : berth[v] # p

(* The arrow keys, or a route that an event has set: Move.  An event may   *)
(* stand in the way.                                                       *)
Walks == /\ Acts /\ dir' \in {-1, 1}
         /\ \/ UNCHANGED <<at, moving>>
            \/ /\ Passable(Toward(dir')) /\ at' = Toward(dir') /\ moving' = TRUE
         /\ UNCHANGED <<ride, berth, air>>

PressesDecision == Acts /\ ~running /\ GetOnOff

MenuCalled ==
  /\ pc = "player" /\ pc' = "complete" /\ ~moving /\ ~InFlight /\ ~running
  /\ menu' = TRUE
  /\ UNCHANGED <<body, ride, berth, air, target, running, astray, commands>>

(* The second part: boarding and unboarding are complete when the step     *)
(* has ended, and the vehicle follows its rider.                           *)
CompletedLate == ~moving /\ ~unboarding            \* mutant of Completed
Completed     == ~moving

Synced == IF aboard' /\ vehicle # "none" THEN [berth EXCEPT ![vehicle] = at]
                                         ELSE berth

Completes ==
  /\ pc = "complete" /\ ~(Completed /\ boarding /\ vehicle = "none")
  /\ pc' = "foreground"
  /\ IF Completed
       THEN /\ aboard' = (aboard \/ boarding)
            /\ boarding' = FALSE /\ unboarding' = FALSE
            /\ speed' = IF boarding THEN vehicle ELSE speed
       ELSE UNCHANGED <<aboard, boarding, unboarding, speed>>
  /\ berth' = Synced
  /\ UNCHANGED <<body, vehicle, flying, preboardSpeed, song, beforeSong, air,
                 around, astray, commands>>

(* GetVehicle() is null and is used.                                       *)
NoVehicle == /\ pc = "complete" /\ Completed /\ boarding /\ vehicle = "none"
             /\ pc' = "error"
             /\ UNCHANGED <<body, ride, berth, air, around, astray, commands>>

(* A boat or ship that nobody is aboard moves by a route of its own.       *)
Drifts ==
  /\ pc = "foreground" /\ commands < MaxCommands /\ commands' = commands + 1
  /\ \E v \in Ships, d \in {-1, 1} :
       LET p == [berth[v] EXCEPT !.x = @ + d] IN
       /\ berth[v].map = at.map /\ ~(aboard /\ vehicle = v)
       /\ IsSea(p) /\ ~Wrecks(p) /\ (vehicle = "none" => at # p)
       /\ berth' = [berth EXCEPT ![v] = p]
  /\ UNCHANGED <<body, ride, air, around, pc, astray>>

-----------------------------------------------------------------------------
(* The rest of the frame *)

EventStarts == /\ pc = "foreground" /\ ~running /\ running' = TRUE
               /\ commands < MaxCommands
               /\ UNCHANGED <<body, ride, berth, air, target, menu, control>>

FrameEnds == /\ pc = "foreground" /\ (running => Blocked)
             /\ pc' = IF target # Nowhere THEN "teleport" ELSE "scene"
             /\ UNCHANGED <<body, ride, berth, air, around, astray, commands>>

EventEnds == /\ pc = "foreground" /\ running /\ ~Blocked /\ running' = FALSE
             /\ UNCHANGED <<body, ride, berth, air, target, menu, control>>

(* PerformTeleport                                                         *)
PerformTeleport ==
  /\ pc = "teleport" /\ pc' = "pre"
  /\ MovedTo(target) /\ target' = Nowhere
  /\ astray' = (astray \/ Misplaces(target))
  /\ UNCHANGED <<air, running, menu, commands>>

(* A teleport reserved meanwhile follows at once or, after a skill, later.  *)
PreUpdated == /\ pc = "pre"
              /\ \/ target # Nowhere /\ pc' = "teleport"
                 \/ pc' = "scene"
              /\ UNCHANGED <<body, ride, berth, air, around, astray, commands>>

SceneEnds == /\ pc = "scene" /\ pc' = "parallel" /\ menu' = FALSE
             /\ UNCHANGED <<body, ride, berth, air, target, running, astray,
                            commands>>

(* A teleport or escape skill of the menu                                  *)
UseSkill ==
  /\ pc = "scene" /\ menu /\ pc' = "teleport" /\ menu' = FALSE
  /\ ForcedOff /\ target' \in SkillTargets
  /\ UNCHANGED <<body, berth, running, astray, commands>>

Ended == pc = "error" /\ UNCHANGED vars

PlayerUpdate == StepGoesOn \/ Ascends \/ Descends \/ Lands \/ CannotLand
                  \/ Walks \/ PressesDecision \/ MenuCalled

Frame == ParallelDone \/ PlayerUpdate \/ Completes \/ NoVehicle \/ FrameEnds
           \/ EventEnds \/ PerformTeleport \/ PreUpdated \/ SceneEnds

Next == Frame \/ Commands \/ Drifts \/ EventStarts \/ UseSkill \/ Ended

Spec == Init /\ [][Next]_vars

(* Frames follow each other, and a step ends.                              *)
FairSpec == /\ Spec /\ WF_vars(Frame)
            /\ SF_vars(StepGoesOn /\ ~moving')

-----------------------------------------------------------------------------
(* Properties *)

(* Every variable has a value of its type.                                 *)
TypeOK ==
  /\ at \in Places /\ dir \in {-1, 1}
  /\ vehicle \in VehicleSet \cup {"none"}
  /\ {moving, aboard, boarding, unboarding, flying, airborne, running, menu,
      astray} \subseteq BOOLEAN
  /\ speed \in VehicleSet \cup {"walk"} /\ preboardSpeed \in VehicleSet \cup {"walk"}
  /\ berth \in [VehicleSet -> Places \cup {Nowhere}]
  /\ up \in 0 .. Height /\ down \in 0 .. Height
  /\ target \in Places \cup {Nowhere} /\ commands \in 0 .. MaxCommands

(* Whoever is aboard is where his vehicle is, whatever moved him or it, as *)
(* soon as an update is complete.                                          *)
TogetherAboard == aboard /\ pc # "complete" => berth[vehicle] = at

(* The party flies if and only if the airship does, with the party aboard, *)
(* and it ascends or descends only in the air and never both at once.      *)
FliesAboard ==
  /\ flying <=> airborne
  /\ airborne => vehicle = "airship" /\ aboard
  /\ up + down > 0 => airborne /\ (up = 0 \/ down = 0)

(* On foot the party walks at its own pace, however it left the vehicle.   *)
OnFootAgain ==
  /\ ~aboard => speed = "walk"
  /\ vehicle = "none" => ~aboard
  /\ vehicle # "none" => preboardSpeed = "walk"

(* On foot the map's music plays, or a vehicle's while it is ridden with   *)
(* the music of the map it is on kept for later, through every change of   *)
(* maps; only a party that is moved or told to board in the middle of a    *)
(* boarding step (game_player.cpp:539) hears something else.               *)
OwnMusic ==
  ~astray => IF vehicle = "none" THEN song = at.map
                                 ELSE song = vehicle /\ beforeSong = at.map

(* Nobody is left on foot in the sea and no ship ashore, unless an event   *)
(* puts them there or has the party board in the middle of a step.         *)
NotStranded ==
  ~astray /\ pc # "teleport" =>
    /\ Fits(vehicle, at)
    /\ \A v \in Ships : berth[v] = Nowhere \/ IsSea(berth[v])

(* No boarding is completed without a vehicle, which is a null pointer,    *)
(* but for a party that was moved in the middle of boarding.               *)
BoardsVehicle == boarding => vehicle # "none" \/ astray

(* All of this together: what the fields of the player, which the code     *)
(* keeps apart, must agree on at every point of a frame.                   *)
Riding == /\ TypeOK /\ TogetherAboard /\ FliesAboard /\ OnFootAgain
          /\ BoardsVehicle

(* The foreground event, which waits for boarding, unboarding, ascents and *)
(* descents (game_interpreter.cpp:389), goes on in the end, however events *)
(* have interfered: they do so MaxCommands times.  (An event that moves    *)
(* the party or a vehicle in every frame may hold the foreground for ever.) *)
Released == running ~> ~running \/ pc = "error"
=============================================================================
