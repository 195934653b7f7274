------------------------------- MODULE Rounds -------------------------------
(***************************************************************************)
(* What a battle promises, whatever its windows, events and messages do:   *)
(* rounds in which each battler acts once, and one outcome.                *)
(***************************************************************************)
CONSTANTS Actors, Enemies, NoOne

VARIABLES
  phase,    \* commands are given, a round goes on, or how the battle is decided
  present,  \* the battlers that can be acted upon
  able,     \* those of them that act again some day
  toAct,    \* who has still to act in this round
  acting,   \* whose turn it is
  surprise, \* the party has the first strike
  gained,   \* how often experience, money and items were given
  outcome

vars == <<phase, present, able, toAct, acting, surprise, gained, outcome>>

Init == /\ phase = "command" /\ present \in SUBSET (Actors \cup Enemies)
        /\ able \in SUBSET present /\ toAct = {} /\ acting = NoOne
        /\ surprise \in BOOLEAN /\ gained = 0 /\ outcome = "none"

Between == phase \in {"command", "round"} /\ acting = NoOne

(* Everybody who is there acts; no enemy does before the first strike has  *)
(* passed, and no actor after an attempt to flee has failed.               *)
BeginRound ==
  /\ phase \in {"command", "fleeing"} /\ phase' = "round"
  /\ \E members \in SUBSET Actors :
       /\ IF phase = "command" THEN present \cap Actors \subseteq members
                               ELSE members = {}
       /\ toAct' = members \cup (IF surprise THEN {} ELSE Enemies)
  /\ toAct' # {}
  /\ UNCHANGED <<present, able, acting, surprise, gained, outcome>>

(* Who is gone when his turn comes loses it, nobody else does.             *)
BeginTurn ==
  /\ phase = "round" /\ acting = NoOne
  /\ acting' \in toAct \cap present
  /\ toAct' \subseteq toAct \ {acting'}
  /\ (toAct \ (toAct' \cup {acting'})) \cap present = {}
  /\ UNCHANGED <<phase, present, able, surprise, gained, outcome>>

Skip ==
  /\ phase = "round" /\ acting = NoOne
  /\ toAct' \subseteq toAct /\ (toAct \ toAct') \cap present = {}
  /\ UNCHANGED <<phase, present, able, acting, surprise, gained, outcome>>

EndTurn ==
  /\ acting # NoOne /\ acting' = NoOne
  /\ UNCHANGED <<phase, present, able, toAct, surprise, gained, outcome>>

EndRound ==
  /\ phase = "round" /\ acting = NoOne /\ toAct = {}
  /\ phase' = "command" /\ surprise' = FALSE
  /\ UNCHANGED <<present, able, toAct, acting, gained, outcome>>

(* Actions and events take battlers away and bring them in.                *)
Change ==
  /\ phase # "won"
  /\ present' \in SUBSET (Actors \cup Enemies) /\ able' \in SUBSET present'
  /\ UNCHANGED <<phase, toAct, acting, surprise, gained, outcome>>

Decide ==
  /\ Between /\ toAct' = {}
  /\ \/ phase' = "won" /\ present \cap Enemies = {}
     \/ phase' = "lost" /\ able \cap Actors = {}
     \/ phase' = "fleeing"
  /\ UNCHANGED <<present, able, acting, surprise, gained, outcome>>

Gain ==
  /\ phase = "won" /\ gained = 0 /\ gained' = 1
  /\ UNCHANGED <<phase, present, able, toAct, acting, surprise, outcome>>

(* An event, or a timer that has run out, may end the battle at any time,  *)
(* and a game over leaves it without an outcome.                           *)
Finish ==
  /\ phase # "over" /\ phase' = "over"
  /\ \/ outcome' = "Victory" /\ phase = "won" /\ gained = 1
     \/ outcome' = "Defeat" /\ phase = "lost"
     \/ outcome' = "Escape" /\ phase = "fleeing"
     \/ outcome' \in {"Abort", "none"}
  /\ toAct' = {} /\ acting' = NoOne
  /\ present' \in SUBSET (Actors \cup Enemies) /\ able' \in SUBSET present'
  /\ UNCHANGED <<surprise, gained>>

Next == \/ BeginRound \/ BeginTurn \/ Skip \/ EndTurn \/ EndRound
        \/ Change \/ Decide \/ Gain \/ Finish

Spec == Init /\ [][Next]_vars
=============================================================================
