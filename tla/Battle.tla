------------------------------- MODULE Battle -------------------------------
(***************************************************************************)
(* Scene_Battle_Rpg2k with what it uses of Scene_Battle, of the battle     *)
(* interpreter and of the battle algorithms: the frame, the commands of    *)
(* the party, the rounds, the targets of an action and the end.            *)
(*                                                                         *)
(* Hit points, points of magic and the numbers of an effect are left out:  *)
(* a battler is well or in one condition that restricts him, an action may *)
(* change that or not, and pages do not. Conditions of pages, escape chances, agility  *)
(* and the AI are choices. Windows, messages and animations are left out:  *)
(* a step that waits for them is followed by a new frame, in which a timer *)
(* of the battle may run out; the waits of one action are taken as one.    *)
(***************************************************************************)
EXTENDS Naturals, Sequences, FiniteSets, SequencesExt

CONSTANTS
  Actors,       \* all actors
  Party,        \* those in the party when the battle starts, a sequence
  Troop,        \* the enemies, a sequence
  Ambush,       \* enemies that are hidden at first
  AutoBattlers, \* actors that fight on their own
  Types,        \* the kinds of action each battler takes
  Agility,      \* of each battler, with what is added by chance left out
  AttackAll,    \* battlers whose weapon strikes the whole other side
  Preemptive,   \* battlers whose attack comes before all else
  Inflicted,    \* on each battler, by an attack or a skill
  Pages,        \* of the troop
  Effects,      \* the commands of these pages
  MaxCommands,  \* bound: that do something, in one run of a page
  MaxStrays,    \* bound: calls of EndBattle that do not leave the battle
  Repeats,      \* how often an attack may strike
  NoOne

Enemies == ToSet(Troop)
Battlers == Actors \cup Enemies

Distinct(q) == \A i, j \in DOMAIN q : q[i] = q[j] => i = j
Sides == {"actors", "enemies"}
(* Asleep: does nothing, but may recover; stone: does nothing for good;    *)
(* confused: attacks his own side; provoked: attacks the other one.        *)
Conditions == {"well", "asleep", "stone", "confused", "provoked", "dead"}

(* The party holds up to four actors, each enemy is one of its own, and    *)
(* only enemies escape one by one.                                         *)
ASSUME BattleAssumption ==
  /\ Party \in Seq(Actors) /\ Len(Party) <= 4 /\ Distinct(Party)
  /\ Troop \in Seq(Enemies) /\ Distinct(Troop) /\ Actors \cap Enemies = {}
  /\ Ambush \subseteq Enemies
  /\ \A a \in Actors : "Escape" \notin Types[a]
  /\ Inflicted \in [Battlers -> SUBSET Conditions] /\ Agility \in [Battlers -> Nat]
  /\ AttackAll \subseteq Actors /\ Preemptive \subseteq Actors
  /\ NoOne \notin Battlers \cup Sides \cup Pages /\ Battlers \cap Sides = {}
  /\ Effects \subseteq {"leave", "join", "hide", "show", "flee", "gameover", "terminate"}
  /\ MaxCommands \in Nat /\ MaxStrays \in Nat /\ Repeats \subseteq Nat

VARIABLES
  state, previous_state, substate,
  actor_index, \* how many actors were asked: the last of them is active_actor
  battle_actions, \* the queue, of battlers
  algo,      \* GetBattleAlgorithm
  turn,      \* pending_battle_action: its step, targets left and repeats left
  first_strike,
  party, hidden, cond,
  page, left, executed, force_flee, \* the battle interpreter; left counts commands
  op,        \* what its commands ask of the scene
  pc, message, \* where in the frame; a message of the scene is open
  top,       \* the scene on top
  ends, result, spoils

scene == <<state, previous_state, substate>>
queue == <<battle_actions, algo>>
members == <<party, hidden, cond>>
events == <<page, left, executed, force_flee, op>>
outcome == <<top, ends, result, spoils>>
vars == <<scene, actor_index, queue, turn, first_strike, members, events,
          pc, message, outcome>>

-----------------------------------------------------------------------------
(* Battlers and their targets *)

Exists(b) == /\ b \notin hidden /\ cond[b] # "dead"
             /\ b \in Actors => b \in ToSet(party)
PartyOf(b) == IF b \in Actors THEN party ELSE Troop
FoesOf(b) == IF b \in Actors THEN Troop ELSE party
Active(p) == {b \in ToSet(p) : Exists(b)}

CanAct(b) == cond[b] \notin {"asleep", "stone", "dead"}
IsControllable(a) == cond[a] = "well" /\ a \notin AutoBattlers
Won == Active(Troop) = {}
Lost == \A a \in ToSet(party) : cond[a] \in {"stone", "dead"}

NoAlgo == [type |-> "null", target |-> NoOne]
None == [type |-> "None", target |-> NoOne]
(* IsTargetValid: a skill does not ask whether its target is in the party, *)
(* and one that cures death may be used on the dead.                       *)
IsTargetValid(type, b) ==
  CASE type = "Skill" -> b \notin hidden /\ cond[b] # "dead"
    [] type = "Cure" -> b \notin hidden
    [] OTHER -> Exists(b)

(* TargetNext: the targets from the next valid one on                      *)
FromValid(type, ts) ==
  LET ok == {i \in 1 .. Len(ts) : IsTargetValid(type, ts[i])}
  IN IF ok = {} THEN <<>>
     ELSE SubSeq(ts, CHOOSE i \in ok : \A j \in ok : i <= j, Len(ts))

Chosen(a) == CASE a.target = "actors" -> party
               [] a.target = "enemies" -> Troop
               [] OTHER -> <<a.target>>

(* GetNextActiveBattler, as a sequence of at most one                      *)
NextActive(b) ==
  LET p == PartyOf(b)
      at == {i \in 1 .. Len(p) : p[i] = b}
  IN IF at = {} THEN <<>>
     ELSE LET i == CHOOSE i \in at : TRUE
              rest == FromValid("Normal", SubSeq(p, i + 1, Len(p))
                                          \o SubSeq(p, 1, i - 1))
          IN SubSeq(rest, 1, 1)

(* AlgorithmBase::Start: a single target that is gone is replaced, unless  *)
(* the weapon of b strikes the target's whole side (Normal::vStart).       *)
StrikesAll(b, a) == a.type = "Normal" /\ a.target \notin Sides /\ b \in AttackAll
Started(b, a) ==
  LET ts == FromValid(a.type, IF StrikesAll(b, a) THEN PartyOf(a.target) ELSE Chosen(a))
  IN IF ts # <<>> \/ a.target \in Sides THEN ts ELSE NextActive(a.target)

(* The actions a battler may take: on a member of one side, on a whole     *)
(* side, or on himself.                                                    *)
Actions(b, types, foes, friends) ==
  LET A(names, targets) == [type : types \cap names, target : targets]
      them == IF b \in Actors THEN "enemies" ELSE "actors"
      wide == {n \in {"Normal", "Skill"} :
                 IF n = "Normal" THEN n \in types /\ b \in AttackAll ELSE "All" \in types}
  IN A({"Skill"}, foes) \cup A({"Cure"}, friends) \cup A({"Defend", "Escape"}, {b})
       \cup (IF b \in AttackAll THEN {} ELSE A({"Normal"}, foes))
       \cup [type : wide, target : {them}]

(* SetStateRestrictedAction, and what SelectNextActor does alike           *)
Restricted(b) ==
  IF ~CanAct(b) THEN {None}
  ELSE [type : {"Normal"},
        target : Active(IF cond[b] = "provoked" THEN FoesOf(b) ELSE PartyOf(b))]

EnemyActions(e) ==
  IF cond[e] # "well" THEN Restricted(e)
  ELSE Actions(e, Types[e], Active(party), Enemies)

UncontrolledActions(a) ==
  IF cond[a] # "well" THEN Restricted(a)
  ELSE {None} \cup Actions(a, Types[a], Active(Troop), ToSet(party))

-----------------------------------------------------------------------------
(* States of the scene *)

(* The state before is asked for only where a target is chosen.            *)
Choosing == {"SelectEnemyTarget", "SelectAllyTarget"}
SetState(s) == /\ state' = s /\ substate' = "begin"
               /\ previous_state' = IF s \in Choosing THEN state ELSE "Start"
SetSubState(sub) == substate' = sub /\ UNCHANGED <<state, previous_state>>

NoTurn == [step |-> "none", action |-> NoAlgo, targets |-> <<>>, repeat |-> 1, done |-> 0]

(* EndBattle pops whatever scene is on top then.  Its assertion that this  *)
(* is the battle is not part of a release build.                           *)
EndBattle(r, scene_on_top) ==
  /\ ends' = ends + 1 /\ result' = r
  /\ top' = IF scene_on_top = "gameover" THEN "battle" ELSE "below"

(* The scene is destroyed at the end of the frame: Game_Battle::Quit.      *)
Quit ==
  /\ pc' = "ended"
  /\ battle_actions' = <<>> /\ algo' = [b \in Battlers |-> NoAlgo] /\ turn' = NoTurn
  /\ page' = NoOne /\ left' = 0 /\ executed' = {} /\ force_flee' = FALSE
  /\ hidden' = {}
  /\ cond' = [b \in Battlers |-> IF b \in Actors /\ cond[b] = "dead" THEN "dead" ELSE "well"]

Init ==
  /\ state = "Start" /\ previous_state = "Start" /\ substate = "begin"
  /\ actor_index = 0 /\ battle_actions = <<>>
  /\ algo = [b \in Battlers |-> NoAlgo] /\ turn = NoTurn
  /\ first_strike \in BOOLEAN
  /\ party = Party /\ hidden = Ambush /\ cond = [b \in Battlers |-> "well"]
  /\ page = NoOne /\ left = 0 /\ executed = {} /\ force_flee = FALSE /\ op = "none"
  /\ pc = "events" /\ message = FALSE
  /\ top = "battle" /\ ends = 0 /\ result = "none" /\ spoils = 0

-----------------------------------------------------------------------------
(* The frame: UpdateBattleState *)

Running == page # NoOne
NeverAsked == TRUE             \* mutant of StillOnTop
StillOnTop == top = "battle"

(* A command of a page.  What it asks of the scene ends its turn.          *)
Effect(e) ==
  CASE e = "leave" -> /\ \E i \in DOMAIN party : party' = RemoveAt(party, i)
                      /\ UNCHANGED <<hidden, cond, force_flee, op>>
    [] e = "join" -> /\ Len(party) < 4
                     /\ \E a \in Actors \ ToSet(party) : party' = Append(party, a)
                     /\ UNCHANGED <<hidden, cond, force_flee, op>>
    [] e = "hide" -> /\ \E bs \in {Active(Troop)} \cup {{b} : b \in Active(Troop)} :
                          hidden' = hidden \cup bs
                     /\ UNCHANGED <<party, cond, force_flee, op>>
    [] e = "show" -> /\ \E b \in hidden : hidden' = hidden \ {b}
                     /\ UNCHANGED <<party, cond, force_flee, op>>
    [] e = "flee" -> force_flee' = TRUE /\ UNCHANGED <<members, op>>
    [] e \in {"gameover", "terminate"} -> op' = e /\ UNCHANGED <<members, force_flee>>

PageCommand ==
  /\ pc = "events" /\ Running /\ op = "none" /\ left > 0 /\ left' = left - 1
  /\ \E e \in Effects : Effect(e)
  /\ UNCHANGED <<scene, actor_index, queue, turn, first_strike, page, executed,
                 pc, message, outcome>>

PageEnds ==
  /\ pc = "events" /\ Running /\ op = "none" /\ page' = NoOne /\ left' = 0
  /\ UNCHANGED <<scene, actor_index, queue, turn, first_strike, members,
                 executed, force_flee, op, pc, message, outcome>>

MessageClosed ==
  /\ pc = "events" /\ message /\ message' = FALSE
  /\ UNCHANGED <<scene, actor_index, queue, turn, first_strike, members,
                 events, pc, outcome>>

(* UpdateEvents, when the interpreter has done its part of the frame       *)
EventsDone ==
  /\ IF force_flee /\ state # "Escape" THEN SetState("Escape")
                                       ELSE UNCHANGED scene
  /\ op' = "none"

(* A game over is pushed above the battle before the timers are asked: one *)
(* that runs out in that frame ends the battle, but pops the game over.    *)
UpdateBattleState ==
  /\ pc = "events" /\ StillOnTop /\ EventsDone
  /\ LET now == IF op = "gameover" THEN "gameover" ELSE top
         going_on == UNCHANGED <<queue, turn, hidden, cond, page, left, executed, force_flee>>
     IN \/ op = "terminate" /\ EndBattle("Abort", now) /\ Quit
        \/ op # "terminate" /\ pc' = "loop" /\ top' = now
           /\ going_on /\ UNCHANGED <<ends, result>>
        \/ op = "none" /\ EndBattle("Abort", now) /\ Quit
        \/ op = "gameover" /\ ends < MaxStrays /\ EndBattle("Abort", now)
           /\ pc' = "events" /\ going_on
  /\ UNCHANGED <<actor_index, first_strike, party, message, spoils>>

-----------------------------------------------------------------------------
(* The loop of Update: what it does before the next step of the scene *)

Waiting == message \/ Running

LoopLeft ==
  /\ pc = "loop"
  /\ \/ ~StillOnTop /\ Quit
     \/ /\ StillOnTop /\ Waiting /\ pc' = "events"
        /\ UNCHANGED <<queue, turn, hidden, cond, page, left, executed, force_flee>>
  /\ UNCHANGED <<scene, actor_index, first_strike, party, op, message, outcome>>

(* ProcessSceneAction is called in this state.                             *)
In(s, sub) == /\ pc = "loop" /\ StillOnTop /\ ~Waiting
              /\ state = s /\ substate = sub

Continues == pc' = "loop"
NextFrame == pc' = "events"

(* CheckBattleEndAndScheduleEvents: go on only if the battle is not        *)
(* decided and no page is to be run                                        *)
Decided == /\ Lost \/ Won
           /\ SetState(IF Lost THEN "Defeat" ELSE "Victory")
           /\ UNCHANGED events
RunAgain == /\ ~Lost /\ ~Won /\ page' \in Pages /\ left' = MaxCommands
            /\ UNCHANGED <<scene, executed, force_flee, op>> \* mutant of Scheduled
Scheduled == /\ ~Lost /\ ~Won
             /\ \E p \in Pages \ executed :
                  page' = p /\ left' = MaxCommands /\ executed' = executed \cup {p}
             /\ UNCHANGED <<scene, force_flee, op>>
NothingHappens == ~Lost /\ ~Won /\ UNCHANGED events

-----------------------------------------------------------------------------
(* The commands of the party *)

Start ==
  /\ In("Start", "begin") /\ SetState("SelectOption") /\ NextFrame
  /\ UNCHANGED <<actor_index, queue, turn, first_strike, members, events,
                 message, outcome>>

SelectOptionBegin ==
  /\ In("SelectOption", "begin") /\ Continues
  /\ \/ (Decided \/ Scheduled)
     \/ /\ NothingHappens
        /\ IF \E a \in ToSet(party) : IsControllable(a)
             THEN SetSubState("input") ELSE SetState("SelectActor")
  /\ UNCHANGED <<actor_index, queue, turn, first_strike, members,
                 message, outcome>>

(* Nothing is pressed, or one of the options chosen.                       *)
SelectOption ==
  /\ In("SelectOption", "input") /\ NextFrame
  /\ \/ UNCHANGED scene
     \/ \E s \in {"SelectActor", "AutoBattle", "Escape"} : SetState(s)
  /\ UNCHANGED <<actor_index, queue, turn, first_strike, members, events,
                 message, outcome>>

(* Those in the domain of f get new actions.                               *)
With(f, given) == [b \in Battlers |-> IF b \in DOMAIN f THEN f[b] ELSE given[b]]

(* CreateEnemyActions, CreateExecutionOrder and NextTurn, after which each *)
(* page may be run again                                                   *)
EnemiesToAct == IF first_strike THEN <<>> ELSE Troop
(* The faster come first, by agility with an amount added by chance, and   *)
(* an attack that is preemptive before all else.                           *)
Slowest(b, al) == Agility[b] + IF b \in Preemptive /\ al[b].type = "Normal" THEN 9999 ELSE 0
Fastest(b, al) == Slowest(b, al) + Agility[b] \div 4 + 3
Orders(q, al) ==
  {o \in {[i \in DOMAIN q |-> q[p[i]]] : p \in Bijection(DOMAIN q, DOMAIN q)} :
     \A i, j \in DOMAIN q : i < j => Fastest(o[i], al) >= Slowest(o[j], al)}
BeginRound(asked, given) ==
  /\ SetState("Battle")
  /\ \E f \in [ToSet(EnemiesToAct) -> UNION {EnemyActions(e) : e \in Enemies}] :
       /\ \A e \in DOMAIN f : f[e] \in EnemyActions(e)
       /\ algo' = With(f, given)
       /\ battle_actions' \in Orders(asked \o EnemiesToAct, With(f, given))
  /\ executed' = {} /\ UNCHANGED <<page, left, force_flee, op>>

(* SelectNextActor: who cannot be commanded gets his action at once.       *)
SelectNextActor(auto) ==
  LET behind == actor_index + 1 .. Len(party)
      asked == {j \in behind : ~auto /\ IsControllable(party[j])}
      next == IF asked = {} THEN Len(party) + 1
              ELSE CHOOSE j \in asked : \A k \in asked : j <= k
      others == SubSeq(party, actor_index + 1, next - 1)
  IN \E f \in [ToSet(others) -> UNION {UncontrolledActions(a) : a \in ToSet(others)}] :
       /\ \A a \in DOMAIN f : f[a] \in UncontrolledActions(a)
       /\ IF asked = {}
            THEN /\ BeginRound(battle_actions \o others, With(f, algo))
                 /\ actor_index' = Len(party)
            ELSE /\ SetState("SelectCommand")
                 /\ actor_index' = next
                 /\ battle_actions' = battle_actions \o others
                 /\ algo' = With(f, algo) /\ UNCHANGED events

SelectActor ==
  /\ \/ In("SelectActor", "begin") /\ SelectNextActor(FALSE)
     \/ In("AutoBattle", "begin") /\ SelectNextActor(TRUE)
  /\ Continues
  /\ UNCHANGED <<turn, first_strike, members, message, outcome>>

(* A mutant of SelectPreviousActor                                         *)
KeepsActions ==
  LET before == {j \in 1 .. actor_index - 1 : IsControllable(party[j])}
  IN /\ SetState(IF before = {} THEN "SelectOption" ELSE "SelectActor")
     /\ actor_index' = IF before = {} THEN 0
                       ELSE (CHOOSE j \in before : \A k \in before : j >= k) - 1
     /\ UNCHANGED queue

(* SelectPreviousActor: the actors up to the last one that can be asked    *)
(* again lose their actions.                                               *)
SelectPreviousActor ==
  LET before == {j \in 1 .. actor_index - 1 : IsControllable(party[j])}
      again == IF before = {} THEN 1
               ELSE CHOOSE j \in before : \A k \in before : j >= k
      dropped == ToSet(SubSeq(battle_actions, again, Len(battle_actions)))
  IN /\ SetState(IF before = {} THEN "SelectOption" ELSE "SelectActor")
     /\ actor_index' = again - 1
     /\ battle_actions' = SubSeq(battle_actions, 1, again - 1)
     /\ algo' = [b \in Battlers |-> IF b \in dropped THEN NoAlgo ELSE algo[b]]

(* ActionSelectedCallback                                                  *)
ActionSelected(a) ==
  LET b == party[actor_index]
  IN /\ algo' = [algo EXCEPT ![b] = a]
     /\ battle_actions' = Append(battle_actions, b)
     /\ SetState("SelectActor") /\ UNCHANGED actor_index

Self == party[actor_index]
OwnAction(types) ==
  \E a \in Actions(Self, types, {}, {}) : ActionSelected(a)
Menu(s) == SetState(s) /\ UNCHANGED <<actor_index, queue>>

SelectCommand ==
  /\ In("SelectCommand", "begin") /\ NextFrame
  /\ \/ \E s \in {"SelectEnemyTarget", "SelectSkill", "SelectItem"} :
          (s = "SelectEnemyTarget" => Self \notin AttackAll) /\ Menu(s)
     \/ OwnAction(Types[Self])
     \/ SelectPreviousActor
  /\ UNCHANGED <<turn, first_strike, members, events, message, outcome>>

(* ItemSelected, SkillSelected and AssignSkill                             *)
SelectSkillOrItem ==
  /\ In("SelectSkill", "begin") \/ In("SelectItem", "begin")
  /\ NextFrame
  /\ \/ "Skill" \in Types[Self] /\ Menu("SelectEnemyTarget")
     \/ "Cure" \in Types[Self] /\ Menu("SelectAllyTarget")
     \/ Menu("SelectCommand")
     \/ OwnAction(Types[Self] \ {"Defend", "Normal"})
  /\ UNCHANGED <<turn, first_strike, members, events, message, outcome>>

(* EnemySelected, AllySelected, or back to where the choice was made       *)
SelectTarget ==
  /\ \/ /\ In("SelectEnemyTarget", "begin")
        /\ \E e \in Active(Troop) :
             ActionSelected([type |-> IF previous_state = "SelectCommand"
                                        THEN "Normal" ELSE "Skill", target |-> e])
     \/ /\ In("SelectAllyTarget", "begin")
        /\ \E a \in ToSet(party) : ActionSelected([type |-> "Cure", target |-> a])
     \/ /\ In("SelectEnemyTarget", "begin") \/ In("SelectAllyTarget", "begin")
        /\ Menu(previous_state)
  /\ NextFrame
  /\ UNCHANGED <<turn, first_strike, members, events, message, outcome>>

-----------------------------------------------------------------------------
(* A round *)

(* RemoveCurrentAction, for the first n of the queue                       *)
RemoveActions(n) ==
  /\ battle_actions' = SubSeq(battle_actions, n + 1, Len(battle_actions))
  /\ algo' = [b \in Battlers |-> IF b \in ToSet(SubSeq(battle_actions, 1, n))
                                   THEN NoAlgo ELSE algo[b]]

NobodyGone == 0                \* mutant of Gone

(* Those at the front that are dead or gone lose their turn.               *)
Gone ==
  LET there == {i \in DOMAIN battle_actions : Exists(battle_actions[i])}
  IN IF there = {} THEN Len(battle_actions)
     ELSE (CHOOSE i \in there : \A j \in there : i <= j) - 1

(* AddState and RemoveStates: whose restriction changes forgets the action *)
(* he was given; one under way goes on.                                    *)
Becomes(b, c, given) ==
  /\ cond' = [cond EXCEPT ![b] = c]
  /\ algo' = IF c = cond[b] \/ given[b] = NoAlgo THEN given ELSE [given EXCEPT ![b] = None]

(* PrepareBattleAction: the action as it is possible now.  The turn begins *)
(* in the same call; who is not well may recover (BattleStateHeal).        *)
Prepared(b, a) ==
  IF cond[b] # "well" THEN Restricted(b)
  ELSE IF a.type \in {"Skill", "Cure"} THEN {a, None} ELSE {a}
Healed(b) == {cond[b]} \cup (IF cond[b] = "stone" THEN {} ELSE {"well"})

PreAction ==
  /\ In("Battle", "begin") /\ Continues
  /\ \/ (Decided \/ Scheduled) /\ RemoveActions(Gone) /\ UNCHANGED <<turn, cond>>
     \/ /\ NothingHappens /\ Gone = Len(battle_actions)
        /\ RemoveActions(Gone) /\ SetSubState("post") /\ UNCHANGED <<turn, cond>>
     \/ /\ NothingHappens /\ Gone < Len(battle_actions) /\ SetSubState("action")
        /\ battle_actions' = SubSeq(battle_actions, Gone + 1, Len(battle_actions))
        /\ LET b == battle_actions[Gone + 1]
               gone == ToSet(SubSeq(battle_actions, 1, Gone))
               given(a) == [c \in Battlers |-> IF c = b THEN a
                                               ELSE IF c \in gone THEN NoAlgo ELSE algo[c]]
           IN \E a \in Prepared(b, algo[b]) :
                /\ turn' = [NoTurn EXCEPT !.step = IF a.type = "None" THEN "Finished"
                                                                      ELSE "Usage",
                                          !.action = a]
                /\ \E c \in Healed(b) : Becomes(b, c, given(a))
  /\ UNCHANGED <<actor_index, first_strike, party, hidden, message, outcome>>

Source == Head(battle_actions)
Action == turn.action
Step(s) == In("Battle", "action") /\ turn.step = s

(* ReflectTargets, of a skill that meets a valid target of the other side  *)
Reflected(ts) ==
  IF Action.type = "Skill" /\ \E i \in DOMAIN ts : (ts[i] \in Actors) # (Source \in Actors)
  THEN {FromValid("Skill", IF Action.target \in Sides THEN PartyOf(Source)
                                                      ELSE <<Source>>)}
  ELSE {}

ActionUsage ==
  /\ Step("Usage") /\ NextFrame
  /\ \E ts \in {Started(Source, Action)} \cup Reflected(Started(Source, Action)),
        n \in IF Action.type = "Normal" THEN Repeats ELSE {1} :
       turn' = [turn EXCEPT !.step = "Execute", !.targets = ts, !.repeat = n, !.done = 0]
  /\ UNCHANGED <<scene, actor_index, queue, first_strike, members,
                 events, message, outcome>>

(* Execute and the steps that apply its effects: it fails, or does         *)
(* something to the target                                                 *)
ActionExecute ==
  /\ Step("Execute") /\ turn.targets # <<>> /\ Continues
  /\ turn' = [turn EXCEPT !.step = "Finished"]
  /\ \/ UNCHANGED <<hidden, cond, algo>>
     \/ /\ Action.type \in {"Normal", "Skill"} /\ UNCHANGED hidden
        /\ \E c \in Inflicted[Head(turn.targets)] : Becomes(Head(turn.targets), c, algo)
     \/ /\ Action.type = "Cure" /\ UNCHANGED hidden
        /\ Becomes(Head(turn.targets), "well", algo)
     \/ /\ Action.type = "Escape" /\ UNCHANGED <<cond, algo>>
        /\ hidden' = hidden \cup {Source}
  /\ UNCHANGED <<scene, actor_index, battle_actions, first_strike, party,
                 events, message, outcome>>

(* The target that GetTarget returns is null: the program ends.            *)
NoTarget ==
  /\ In("Battle", "action") /\ turn.step = "Execute" /\ turn.targets = <<>>
  /\ pc' = "crashed"
  /\ UNCHANGED <<scene, actor_index, queue, turn, first_strike, members,
                 events, message, outcome>>

(* RepeatNext, TargetNext, or the end of the turn                          *)
ActionFinished ==
  LET ts == turn.targets
      more == ts # <<>> /\ turn.done + 1 < turn.repeat /\ IsTargetValid(Action.type, Head(ts))
      rest == IF ts = <<>> THEN <<>> ELSE FromValid(Action.type, Tail(ts))
  IN /\ Step("Finished") /\ Continues
     /\ \/ /\ more /\ turn' = [turn EXCEPT !.step = "Execute", !.done = @ + 1]
           /\ UNCHANGED <<scene, queue>>
        \/ /\ ~more /\ rest # <<>>
           /\ turn' = [turn EXCEPT !.step = "Execute", !.targets = rest, !.done = 0]
           /\ UNCHANGED <<scene, queue>>
        \/ /\ ~more /\ rest = <<>>
           /\ turn' = NoTurn /\ SetSubState("begin") /\ RemoveActions(1)
     /\ UNCHANGED <<actor_index, first_strike, members, events, message,
                    outcome>>

(* Everybody acted.                                                        *)
Post ==
  /\ In("Battle", "post") /\ SetState("SelectOption") /\ NextFrame
  /\ actor_index' = 0 /\ first_strike' = FALSE
  /\ UNCHANGED <<queue, turn, members, events, message, outcome>>

-----------------------------------------------------------------------------
(* The end *)

(* Experience, money and items are given, then told.                       *)
VictoryBegin ==
  /\ In("Victory", "begin") /\ SetSubState("end") /\ Continues
  /\ spoils' = spoils + 1 /\ message' = TRUE
  /\ UNCHANGED <<actor_index, queue, turn, first_strike, members, events,
                 top, ends, result>>

DefeatBegin ==
  /\ In("Defeat", "begin") /\ SetSubState("end") /\ Continues /\ message' = TRUE
  /\ UNCHANGED <<actor_index, queue, turn, first_strike, members, events,
                 outcome>>

TryEscape ==
  /\ In("Escape", "begin") /\ NextFrame
  /\ \/ SetSubState("success")
     \/ ~first_strike /\ ~force_flee /\ SetSubState("failure")
  /\ UNCHANGED <<actor_index, queue, turn, first_strike, members, events,
                 message, outcome>>

EscapeFailed ==
  /\ In("Escape", "failure") /\ Continues
  /\ BeginRound(battle_actions, algo)
  /\ UNCHANGED <<actor_index, turn, first_strike, members, message,
                 outcome>>

End ==
  /\ \/ In("Victory", "end") /\ EndBattle("Victory", top) /\ Quit
     \/ In("Defeat", "end") /\ EndBattle("Defeat", top) /\ Quit
     \/ /\ In("Escape", "success") /\ EndBattle("Escape", top) /\ Continues
        /\ UNCHANGED <<queue, turn, hidden, cond, page, left, executed, force_flee>>
  /\ UNCHANGED <<scene, actor_index, first_strike, party, op, message, spoils>>

(* The scene is not updated any more.                                      *)
Over == pc \in {"ended", "crashed"} /\ UNCHANGED vars

Next ==
  \/ PageCommand \/ PageEnds \/ MessageClosed \/ UpdateBattleState
  \/ LoopLeft \/ Start \/ SelectOptionBegin \/ SelectOption
  \/ SelectActor \/ SelectCommand \/ SelectSkillOrItem \/ SelectTarget
  \/ PreAction \/ ActionUsage \/ ActionExecute \/ NoTarget
  \/ ActionFinished \/ Post \/ VictoryBegin \/ DefeatBegin \/ TryEscape
  \/ EscapeFailed \/ End \/ Over

Spec == Init /\ [][Next]_vars

(* The frame goes on and the loop takes its steps.  A page comes to its    *)
(* end, a message is read and the key that holds the messages is let go.   *)
Fairness ==
  /\ WF_vars(UpdateBattleState \/ LoopLeft \/ PreAction \/ ActionUsage
             \/ ActionExecute \/ NoTarget \/ ActionFinished \/ Post
             \/ VictoryBegin \/ DefeatBegin \/ End)
  /\ SF_vars(PageEnds \/ MessageClosed)

FairSpec == Spec /\ Fairness

-----------------------------------------------------------------------------
TypeOK ==
  /\ battle_actions \in Seq(Battlers) /\ party \in Seq(Actors)
  /\ actor_index \in 0 .. 4 /\ hidden \subseteq Enemies
  /\ cond \in [Battlers -> Conditions]
  /\ executed \subseteq Pages /\ page \in Pages \cup {NoOne}
  /\ pc \in {"events", "loop", "ended", "crashed"} /\ spoils \in 0 .. 1

(* CreateExecutionOrder warns of a battler with several actions and        *)
(* ProcessBattleAction of one with none.                                   *)
OneActionEach ==
  /\ Distinct(battle_actions)
  /\ \A b \in Battlers : b \in ToSet(battle_actions) <=> algo[b] # NoAlgo

(* While commands are given the queue holds the actors asked so far.       *)
Left == pc \in {"ended", "crashed"}
Asking == state \notin {"Start", "SelectOption", "Battle", "Victory", "Defeat", "Escape"}
AskedInOrder ==
  /\ Asking /\ ~Left =>
       battle_actions =
         SubSeq(party, 1, IF state \in {"SelectActor", "AutoBattle"} THEN actor_index
                                                                     ELSE actor_index - 1)
  /\ state \in {"Start", "SelectOption"} /\ ~Left => battle_actions = <<>> /\ actor_index = 0

(* Pages run before a turn or a round, never in the middle of an action or *)
(* of a choice, unless the party is made to flee.                          *)
BetweenTurns ==
  Running => /\ substate = "begin"
             /\ state \in {"SelectOption", "Battle"} \/ (state = "Escape" /\ force_flee)

(* Whoever acts is there (the assertion of ProcessBattleActionBegin), and  *)
(* so is his target, unless an actor who was chosen has left the party.    *)
ActingThere == turn.step = "Usage" => Exists(Source)
TargetThere == turn.step = "Execute" /\ turn.targets = <<>> =>
                 Action.target \in Actors \ ToSet(party)

(* The commands, the queue and the pages of a battle are kept apart as     *)
(* Scene_Battle_Rpg2k relies on.                                           *)
Orderly == /\ TypeOK /\ OneActionEach /\ AskedInOrder /\ BetweenTurns
           /\ ActingThere /\ TargetThere

(* A skill has a target when it is executed: the assertion of its vExecute. *)
SkillHasTarget ==
  turn.step = "Execute" /\ Action.type \in {"Skill", "Cure"} => turn.targets # <<>>

(* A battle is left at most once: whoever ends it, by a turn, a page or a  *)
(* timer, nothing is told or given after it has been left, a call that     *)
(* does not leave it pops the game over of a page of that very frame, and  *)
(* a victory is told after its spoils.                                     *)
LeftOnce ==
  [][/\ top # "battle" => UNCHANGED outcome
     /\ ends' # ends => /\ ends' = ends + 1
                        /\ top' = "below" \/ (top' = "battle" /\ op = "gameover")
                        /\ result' = "Victory" => spoils = 1]_vars

(* A round that has begun comes to its end, whoever dies, leaves or is     *)
(* hidden in it, and a battle that is decided is left.                     *)
Busy == state \in {"Battle", "Victory", "Defeat"} /\ ~Left
RoundEnds == Busy ~> ~Busy

Fighting == state = "Battle" /\ top = "battle"
InTurn == Fighting /\ substate = "action"
Phase == IF top # "battle" THEN "over"
         ELSE CASE state = "Battle" -> "round"
                [] state = "Victory" -> "won"
                [] state = "Defeat" -> "lost"
                [] state = "Escape" -> "fleeing"
                [] OTHER -> "command"
Present == {b \in Battlers : Exists(b)}
Able == {b \in Present : cond[b] # "stone"}
ToAct == IF InTurn THEN ToSet(Tail(battle_actions))
         ELSE IF Fighting THEN ToSet(battle_actions) ELSE {}
Turner == IF InTurn THEN Source ELSE NoOne
Promise == INSTANCE Rounds WITH
  phase <- Phase, present <- Present, able <- Able, toAct <- ToAct, acting <- Turner,
  surprise <- first_strike, gained <- spoils,
  outcome <- IF top = "battle" THEN "none" ELSE result

(* The scene keeps the promise of a battle fought in rounds.               *)
ImplementsRounds == Promise!Spec
=============================================================================
