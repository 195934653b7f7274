---------------------------- MODULE BattleProofs ----------------------------
(***************************************************************************)
(* Proofs about Battle, for any party, troop, ways to act and pages, and   *)
(* any number of commands of a page: the queue, the commands of the party  *)
(* and the pages are kept apart, the battle is left once, and it is fought *)
(* in rounds as Rounds promises.                                           *)
(*                                                                         *)
(* The invariant says what the scene relies on and tests nowhere: that the *)
(* queue is empty wherever a round may begin that asks nobody, that nobody *)
(* is made to flee in the middle of a choice or a turn, that the battle is *)
(* not decided while commands are given, and that the action of a turn was *)
(* possible when the turn began.                                           *)
(***************************************************************************)
EXTENDS Battle, SequenceTheorems, WellFoundedInduction, TLAPS

-----------------------------------------------------------------------------
(* Sequences without repetition *)

(* The elements of a sequence and of its parts                             *)
LEMMA InSet ==
  ASSUME NEW S, NEW q \in Seq(S)
  PROVE  /\ ToSet(q) \subseteq S /\ Len(q) \in Nat /\ DOMAIN q = 1 .. Len(q)
         /\ \A x : x \in ToSet(q) <=> \E i \in 1 .. Len(q) : q[i] = x
  BY DEF ToSet

LEMMA PartOf ==
  ASSUME NEW S, NEW q \in Seq(S), NEW m \in 1 .. Len(q) + 1, NEW n \in m - 1 .. Len(q)
  PROVE  /\ SubSeq(q, m, n) \in Seq(S) /\ Len(SubSeq(q, m, n)) = n - m + 1
         /\ \A i \in 1 .. n - m + 1 : /\ SubSeq(q, m, n)[i] = q[m + i - 1]
                                      /\ m + i - 1 \in 1 .. Len(q)
         /\ \A x : x \in ToSet(SubSeq(q, m, n)) <=> \E i \in m .. n : q[i] = x
         /\ Distinct(q) => Distinct(SubSeq(q, m, n))
<1> DEFINE s == SubSeq(q, m, n)
           d == n - m + 1
<1>1. Len(q) \in Nat /\ m \in Int /\ n \in Int /\ m \in Nat /\ d \in Nat
  OBVIOUS
<1>2. \A i \in m .. n : i \in 1 .. Len(q)
  BY <1>1
<1>3. \A i \in m .. n : q[i] \in S
  BY <1>2
<1>4. s \in Seq(S) /\ Len(s) = IF m <= n THEN n - m + 1 ELSE 0
  BY <1>1, <1>3, SubSeqProperties
<1>5. \A i \in 1 .. n - m + 1 : s[i] = q[m + i - 1]
  BY <1>1, <1>3, SubSeqProperties
<1>6. Len(s) = d
  BY <1>1, <1>4
<1> HIDE DEF s
<1>7. \A i \in 1 .. d : m + i - 1 \in 1 .. Len(q) /\ m + i - 1 \in m .. n
  BY <1>1
<1>8. \A i \in m .. n : i - m + 1 \in 1 .. d /\ m + (i - m + 1) - 1 = i
  BY <1>1
<1>9. \A x : x \in ToSet(s) <=> \E i \in m .. n : q[i] = x
  <2>1. \A x : x \in ToSet(s) <=> \E i \in 1 .. d : s[i] = x
    BY <1>4, <1>6, InSet
  <2>2. ASSUME NEW i \in m .. n PROVE \E j \in 1 .. d : s[j] = q[i]
    BY <1>5, <1>8
  <2>3. ASSUME NEW j \in 1 .. d PROVE \E i \in m .. n : q[i] = s[j]
    BY <1>5, <1>7
  <2> QED BY <2>1, <2>2, <2>3
<1>10. ASSUME Distinct(q) PROVE Distinct(s)
  <2> SUFFICES ASSUME NEW i \in 1 .. d, NEW j \in 1 .. d, s[i] = s[j] PROVE i = j
    BY <1>4, <1>6, LenProperties DEF Distinct
  <2>1. q[m + i - 1] = q[m + j - 1] BY <1>5
  <2>2. m + i - 1 = m + j - 1 BY <1>7, <1>10, <2>1, LenProperties DEF Distinct
  <2> QED BY <2>2, <1>1
<1> QED BY <1>4, <1>5, <1>6, <1>7, <1>9, <1>10 DEF s

LEMMA Joined ==
  ASSUME NEW S, NEW p \in Seq(S), NEW q \in Seq(S)
  PROVE  /\ p \o q \in Seq(S)
         /\ ToSet(p \o q) = ToSet(p) \cup ToSet(q)
         /\ Distinct(p) /\ Distinct(q) /\ ToSet(p) \cap ToSet(q) = {} => Distinct(p \o q)
<1> DEFINE r == p \o q
           m == Len(p)
           n == Len(q)
<1>1. /\ r \in Seq(S) /\ Len(r) = m + n /\ m \in Nat /\ n \in Nat
      /\ \A i \in 1 .. m + n : r[i] = IF i <= m THEN p[i] ELSE q[i - m]
  BY ConcatProperties
<1>2. DOMAIN p = 1 .. m /\ DOMAIN q = 1 .. n
  OBVIOUS
<1> HIDE DEF r, m, n
<1>3. DOMAIN r = 1 .. m + n BY <1>1, LenProperties
<1>4. \A i \in 1 .. m : i \in 1 .. m + n /\ r[i] = p[i]
  BY <1>1
<1>5. \A i \in 1 .. n : i + m \in 1 .. m + n /\ ~(i + m <= m) /\ (i + m) - m = i
  BY <1>1
<1>6. \A i \in 1 .. n : r[i + m] = q[i]
  BY <1>1, <1>5
<1>7. \A i \in 1 .. m + n : i \in 1 .. m \/ (i - m \in 1 .. n /\ r[i] = q[i - m] /\ (i - m) + m = i)
  BY <1>1
<1>8. ToSet(r) = ToSet(p) \cup ToSet(q)
  BY <1>2, <1>3, <1>4, <1>5, <1>6, <1>7 DEF ToSet
<1>9. ASSUME Distinct(p), Distinct(q), ToSet(p) \cap ToSet(q) = {},
             NEW i \in 1 .. m + n, NEW j \in 1 .. m + n, r[i] = r[j]
      PROVE  i = j
  <2>1. \A k \in 1 .. m : r[k] \in ToSet(p) BY <1>2, <1>4 DEF ToSet
  <2>2. \A k \in 1 .. m + n : k \notin 1 .. m => r[k] \in ToSet(q)
    BY <1>2, <1>7 DEF ToSet
  <2>3. CASE i \in 1 .. m /\ j \in 1 .. m
    BY <2>3, <1>2, <1>4, <1>9 DEF Distinct
  <2>4. CASE i \notin 1 .. m /\ j \notin 1 .. m
    <3>1. i - m = j - m BY <2>4, <1>2, <1>7, <1>9 DEF Distinct
    <3> QED BY <3>1, <2>4, <1>7
  <2> QED BY <2>1, <2>2, <2>3, <2>4, <1>9
<1> QED BY <1>1, <1>3, <1>8, <1>9 DEF Distinct, r

(* Orders: the same battlers in another order                              *)
LEMMA OrderedIs ==
  ASSUME NEW S, NEW q \in Seq(S), NEW al, NEW o \in Orders(q, al)
  PROVE  o \in Seq(S) /\ ToSet(o) = ToSet(q) /\ (Distinct(q) => Distinct(o))
<1> DEFINE D == 1 .. Len(q)
<1>1. Len(q) \in Nat /\ DOMAIN q = D /\ \A i \in D : q[i] \in S
  OBVIOUS
<1>2. PICK p \in Bijection(D, D) : o = [i \in D |-> q[p[i]]]
  BY <1>1 DEF Orders
<1>3. /\ p \in [D -> D] /\ \A i, j \in D : p[i] = p[j] => i = j
      /\ \A t \in D : \E i \in D : p[i] = t
  BY <1>2 DEF Bijection, Injection, Surjection, IsInjective
<1>4. o \in [D -> S] /\ DOMAIN o = D BY <1>1, <1>2, <1>3
<1>5. o \in Seq(S) BY <1>1, <1>4
<1> HIDE DEF D
<1>6. \A i \in D : o[i] = q[p[i]] /\ p[i] \in D BY <1>2, <1>3
<1>7. ToSet(o) = ToSet(q) BY <1>1, <1>3, <1>4, <1>6 DEF ToSet
<1>8. Distinct(q) => Distinct(o) BY <1>1, <1>3, <1>4, <1>6 DEF Distinct
<1> QED BY <1>5, <1>7, <1>8

LEMMA LeastOf ==
  ASSUME NEW S \in SUBSET Nat, S # {}
  PROVE  LET c == CHOOSE x \in S : \A y \in S : x <= y
         IN  c \in S /\ \A y \in S : c <= y
<1>1. OpToRel(<, Nat) = {p \in Nat \X Nat : p[1] < p[2]}
  BY DEF OpToRel
<1>2. PICK x \in S : \A y \in S : ~ (<<y, x>> \in OpToRel(<, Nat))
  BY NatLessThanWellFounded, WFMin
<1>3. ASSUME NEW y \in S PROVE x <= y
  <2>1. <<y, x>> \in Nat \X Nat /\ <<y, x>> \notin {p \in Nat \X Nat : p[1] < p[2]}
    BY <1>1, <1>2
  <2>2. ~ (y < x) BY <2>1
  <2> QED BY <2>2
<1> QED BY <1>3

LEMMA GreatestOf ==
  ASSUME NEW n \in Nat, NEW S \in SUBSET (1 .. n), S # {}
  PROVE  LET c == CHOOSE x \in S : \A y \in S : x >= y
         IN  c \in S /\ \A y \in S : c >= y
<1> DEFINE T == {n - x : x \in S}
<1>1. T \in SUBSET Nat /\ T # {}
  <2>1. ASSUME NEW x \in S PROVE n - x \in Nat BY x \in 1 .. n
  <2> QED BY <2>1
<1>2. PICK z \in T : \A y \in T : z <= y BY <1>1, LeastOf
<1>3. PICK x \in S : z = n - x BY <1>2
<1>4. ASSUME NEW y \in S PROVE x >= y
  <2>1. n - x <= n - y BY <1>2, <1>3
  <2>2. x \in Nat /\ y \in Nat OBVIOUS
  <2> QED BY <2>1, <2>2
<1> QED BY <1>4

(* One more at the end, and one less anywhere                              *)
LEMMA Appended ==
  ASSUME NEW S, NEW q \in Seq(S), NEW e \in S, e \notin ToSet(q), Distinct(q)
  PROVE  /\ Append(q, e) \in Seq(S) /\ Len(Append(q, e)) = Len(q) + 1
         /\ Distinct(Append(q, e)) /\ ToSet(Append(q, e)) = ToSet(q) \cup {e}
<1> DEFINE r == Append(q, e)
           n == Len(q)
<1>1. /\ r \in Seq(S) /\ Len(r) = n + 1 /\ n \in Nat /\ r[n + 1] = e
      /\ \A i \in 1 .. n : r[i] = q[i]
  OBVIOUS
<1>2. DOMAIN q = 1 .. n OBVIOUS
<1> HIDE DEF r, n
<1>3. DOMAIN r = 1 .. n + 1 BY <1>1, LenProperties
<1>4. \A i \in 1 .. n + 1 : i \in 1 .. n \/ i = n + 1 BY <1>1
<1>5. \A i \in 1 .. n : i \in 1 .. n + 1 BY <1>1
<1>6. n + 1 \in 1 .. n + 1 BY <1>1
<1>7. ToSet(r) = ToSet(q) \cup {e} BY <1>1, <1>2, <1>3, <1>4, <1>5, <1>6 DEF ToSet
<1>8. \A i \in 1 .. n : q[i] # e BY <1>2 DEF ToSet
<1>9. Distinct(r) BY <1>1, <1>2, <1>3, <1>4, <1>8 DEF Distinct
<1> QED BY <1>1, <1>7, <1>9 DEF r, n

LEMMA Removed ==
  ASSUME NEW S, NEW q \in Seq(S), NEW i \in DOMAIN q, Distinct(q)
  PROVE  /\ RemoveAt(q, i) \in Seq(S) /\ Len(RemoveAt(q, i)) <= Len(q)
         /\ Distinct(RemoveAt(q, i))
<1> DEFINE p == SubSeq(q, 1, i - 1)
           r == SubSeq(q, i + 1, Len(q))
<1>1. Len(q) \in Nat /\ DOMAIN q = 1 .. Len(q) /\ i \in 1 .. Len(q) OBVIOUS
<1>2. /\ 1 \in 1 .. Len(q) + 1 /\ i - 1 \in 1 - 1 .. Len(q)
      /\ i + 1 \in 1 .. Len(q) + 1 /\ Len(q) \in (i + 1) - 1 .. Len(q)
  BY <1>1
<1>3. /\ p \in Seq(S) /\ Len(p) = i - 1 /\ Distinct(p)
      /\ \A x : x \in ToSet(p) <=> \E k \in 1 .. i - 1 : q[k] = x
  <2>1. /\ p \in Seq(S) /\ Len(p) = (i - 1) - 1 + 1
        /\ \A x : x \in ToSet(p) <=> \E k \in 1 .. i - 1 : q[k] = x
    BY <1>2, PartOf
  <2>2. Distinct(p) BY <1>2, PartOf
  <2> QED BY <1>1, <2>1, <2>2
<1>4. /\ r \in Seq(S) /\ Len(r) = Len(q) - i /\ Distinct(r)
      /\ \A x : x \in ToSet(r) <=> \E k \in i + 1 .. Len(q) : q[k] = x
  <2>1. /\ r \in Seq(S) /\ Len(r) = Len(q) - (i + 1) + 1
        /\ \A x : x \in ToSet(r) <=> \E k \in i + 1 .. Len(q) : q[k] = x
    BY <1>2, PartOf
  <2>2. Distinct(r) BY <1>2, PartOf
  <2> QED BY <1>1, <2>1, <2>2
<1>5. RemoveAt(q, i) = p \o r BY DEF RemoveAt
<1> HIDE DEF p, r
<1>6. ToSet(p) \cap ToSet(r) = {}
  <2> SUFFICES ASSUME NEW j \in 1 .. i - 1, NEW k \in i + 1 .. Len(q), q[j] = q[k] PROVE FALSE
    BY <1>3, <1>4
  <2>1. j \in 1 .. Len(q) /\ k \in 1 .. Len(q) /\ j # k BY <1>1
  <2> QED BY <1>1, <2>1 DEF Distinct
<1>7. Len(p \o r) = Len(p) + Len(r) BY <1>3, <1>4, ConcatProperties
<1> QED BY <1>1, <1>3, <1>4, <1>5, <1>6, <1>7, Joined

-----------------------------------------------------------------------------
(* The invariant *)

States == {"Start", "SelectOption", "SelectActor", "AutoBattle", "SelectCommand",
           "SelectSkill", "SelectItem", "SelectEnemyTarget", "SelectAllyTarget",
           "Battle", "Victory", "Defeat", "Escape"}
Substates == {"begin", "input", "action", "post", "end", "success", "failure"}
Kinds == [type : {"null", "None", "Normal", "Skill", "Cure", "Defend", "Escape"},
          target : Battlers \cup Sides \cup {NoOne}]
Turns == [step : {"none", "Usage", "Execute", "Finished"}, action : Kinds,
          targets : Seq(Battlers), repeat : Nat, done : Nat]

(* The actions a battler may be given.                                     *)
Possible(b) == [type : {"Normal", "Skill", "Cure"}, target : Battlers]
                 \cup [type : {"Defend"} \cup (IF b \in Enemies THEN {"Escape"} ELSE {}),
                       target : {b}]
                 \cup [type : {"Normal", "Skill"}, target : Sides]

(* Queues and tables of actions that belong to each other                  *)
Fits(q, al) ==
  /\ q \in Seq(Battlers) /\ Distinct(q)
  /\ al = [b \in Battlers |-> al[b]]
  /\ \A b \in Battlers : al[b] \in Possible(b) \cup {NoAlgo, None}
  /\ \A b \in Battlers : b \in ToSet(q) <=> al[b] # NoAlgo

Typed ==
  /\ TypeOK /\ Len(party) <= 4 /\ Distinct(party)
  /\ state \in States /\ substate \in Substates /\ turn \in Turns
  /\ first_strike \in BOOLEAN /\ force_flee \in BOOLEAN /\ message \in BOOLEAN
  /\ op \in {"none", "gameover", "terminate"} /\ left \in Nat

Queued == Fits(battle_actions, algo)

(* While an actor is asked, he is in the party, and the scene knows where  *)
(* a choice of a target came from.                                         *)
Commands ==
  /\ AskedInOrder
  /\ Asking /\ ~Left =>
       /\ actor_index <= Len(party)
       /\ state \notin {"SelectActor", "AutoBattle"} => actor_index >= 1
       /\ state \in Choosing => previous_state \in {"SelectCommand", "SelectSkill", "SelectItem"}

(* Commands are given in a battle that is not decided.                     *)
Undecided ==
  /\ ~Left
  /\ \/ Asking
     \/ state = "SelectOption" /\ substate = "input"
     \/ state = "Escape" /\ ~force_flee
  => ~Lost /\ ~Won

(* Who escapes by his own choice leaves no queue behind; the party is made *)
(* to flee between turns, and the scene follows in the same frame.         *)
Fleeing ==
  ~Left =>
    /\ state = "Escape" /\ ~force_flee => battle_actions = <<>>
    /\ state = "Escape" /\ substate = "failure" => ~force_flee /\ ~first_strike
    /\ force_flee /\ state # "Escape" =>
         pc = "events" /\ substate = "begin" /\ state \in {"SelectOption", "Battle"}

(* A turn is under way only in its substate, and was possible when it      *)
(* began.                                                                  *)
Acting ==
  /\ state = "Battle" /\ substate = "post" /\ ~Left => battle_actions = <<>>
  /\ turn.step # "none" => /\ state = "Battle" /\ substate = "action"
                           /\ battle_actions # <<>> /\ pc # "ended"
  /\ turn.step # "none" => Action \in Possible(Source) \cup {None}
  /\ turn.step = "Usage" => Exists(Source) /\ ~Lost /\ ~Won /\ Action # None
  /\ TargetThere

Scored ==
  spoils = IF state = "Victory" /\ substate = "end" THEN 1 ELSE 0

IInv == /\ Typed /\ Queued /\ Commands /\ BetweenTurns /\ Undecided /\ Fleeing
        /\ Acting /\ Scored

(* What is so while the scene takes a step                                 *)
LEMMA InIs ==
  ASSUME IInv, NEW s, NEW sub, In(s, sub)
  PROVE  /\ pc = "loop" /\ top = "battle" /\ page = NoOne /\ ~message
         /\ ~Left /\ state = s /\ substate = sub
         /\ s # "Escape" => ~force_flee
  BY DEF IInv, In, StillOnTop, Waiting, Running, Left, Fleeing

(* Nothing fits an empty queue but a table without actions.                *)
LEMMA NobodyFits ==
  ASSUME NEW al, al = [b \in Battlers |-> NoAlgo]
  PROVE  Fits(<<>>, al)
<1>1. <<>> \in Seq(Battlers) /\ DOMAIN <<>> = {} /\ Distinct(<<>>)
  BY DEF Distinct
<1>2. \A b \in Battlers : b \notin ToSet(<<>>)
  BY <1>1, InSet, EmptySeq
<1>3. al = [b \in Battlers |-> al[b]] /\ \A b \in Battlers : al[b] = NoAlgo
  OBVIOUS
<1> QED BY <1>1, <1>2, <1>3 DEF Fits

LEMMA Initially == Init => IInv
<1> SUFFICES ASSUME Init PROVE IInv OBVIOUS
<1>1. Queued BY NobodyFits DEF Init, Queued
<1>2. Typed
  <2>1. <<>> \in Seq(Battlers) OBVIOUS
  <2>2. cond \in [Battlers -> Conditions] BY DEF Init, Conditions
  <2>3. turn \in Turns BY <2>1 DEF Init, NoTurn, NoAlgo, Kinds, Turns
  <2>4. /\ Party \in Seq(Actors) /\ Len(Party) <= 4 /\ Distinct(Party)
        /\ Ambush \subseteq Enemies
    BY BattleAssumption
  <2>5. first_strike \in BOOLEAN /\ force_flee \in BOOLEAN /\ message \in BOOLEAN
    BY Zenon DEF Init
  <2>6. TypeOK BY <2>1, <2>2, <2>4 DEF Init, TypeOK
  <2> QED BY <2>3, <2>4, <2>5, <2>6 DEF Init, Typed, States, Substates
<1>3. Commands BY DEF Init, Commands, AskedInOrder, Asking, Left, Choosing
<1>4. BetweenTurns BY DEF Init, BetweenTurns, Running
<1>5. Undecided BY DEF Init, Undecided, Asking
<1>6. Fleeing BY DEF Init, Fleeing
<1>7. Acting BY DEF Init, Acting, NoTurn, TargetThere
<1>8. Scored BY DEF Init, Scored
<1> QED BY <1>1, <1>2, <1>3, <1>4, <1>5, <1>6, <1>7, <1>8 DEF IInv

-----------------------------------------------------------------------------
(* The frame and the pages *)

LEMMA PageCommands ==
  ASSUME IInv, PageCommand
  PROVE  IInv'
<1>1. /\ pc = "events" /\ page # NoOne /\ left > 0 /\ left' = left - 1
      /\ UNCHANGED <<state, previous_state, substate, actor_index, battle_actions, algo,
                     turn, first_strike, page, executed, pc, message, top, ends, result,
                     spoils>>
  BY DEF PageCommand, Running, scene, queue, outcome
<1>2. /\ substate = "begin"
      /\ state \in {"SelectOption", "Battle"} \/ (state = "Escape" /\ force_flee)
  BY <1>1 DEF IInv, BetweenTurns, Running
<1>3. PICK e \in Effects : Effect(e) BY DEF PageCommand
<1>4. /\ party' \in Seq(Actors) /\ Len(party') <= 4 /\ Distinct(party')
      /\ hidden' \subseteq Enemies /\ cond' = cond
      /\ force_flee' \in BOOLEAN /\ (force_flee => force_flee') /\ op' \in {"none", "gameover", "terminate"}
  <2>1. /\ party \in Seq(Actors) /\ Len(party) <= 4 /\ Distinct(party) /\ hidden \subseteq Enemies
        /\ op \in {"none", "gameover", "terminate"} /\ force_flee \in BOOLEAN
    BY DEF IInv, Typed, TypeOK
  <2>2. CASE e = "leave"
    <3>1. PICK i \in DOMAIN party : party' = RemoveAt(party, i) BY <1>3, <2>2 DEF Effect
    <3> QED BY <1>3, <2>1, <2>2, <3>1, Removed DEF Effect
  <2>3. CASE e = "join"
    <3>1. PICK a \in Actors \ ToSet(party) : party' = Append(party, a)
      BY <1>3, <2>3 DEF Effect
    <3>2. Len(party) < 4 BY <1>3, <2>3 DEF Effect
    <3> QED BY <1>3, <2>1, <2>3, <3>1, <3>2, Appended, InSet DEF Effect
  <2>4. CASE e = "hide" BY <1>3, <2>1, <2>4 DEF Effect, Active, Enemies
  <2>5. CASE e = "show" BY <1>3, <2>1, <2>5 DEF Effect
  <2>6. CASE e = "flee" BY <1>3, <2>1, <2>6 DEF Effect, members
  <2>7. CASE e \in {"gameover", "terminate"} BY <1>3, <2>1, <2>7 DEF Effect, members
  <2> QED BY <2>2, <2>3, <2>4, <2>5, <2>6, <2>7, BattleAssumption
<1>5. Typed' BY <1>1, <1>4 DEF IInv, Typed, TypeOK
<1>6. Queued' BY <1>1 DEF IInv, Queued
<1>7. Commands' BY <1>1, <1>2 DEF IInv, Commands, AskedInOrder, Asking, Left, Choosing
<1>8. BetweenTurns' BY <1>1, <1>2, <1>4 DEF BetweenTurns, Running
<1>9. Undecided' BY <1>1, <1>2, <1>4 DEF Undecided, Asking
<1>10. Fleeing' BY <1>1, <1>2, <1>4 DEF IInv, Fleeing, Left
<1>11. Acting' BY <1>1, <1>2 DEF IInv, Acting, TargetThere, Left
<1>12. Scored' BY <1>1 DEF IInv, Scored
<1> QED BY <1>5, <1>6, <1>7, <1>8, <1>9, <1>10, <1>11, <1>12 DEF IInv

(* A page or a message that ends disturbs nothing.                         *)
LEMMA SameButPages ==
  ASSUME IInv, page' \in {page, NoOne}, left' \in {left, 0}, message' \in {message, FALSE},
         UNCHANGED <<state, previous_state, substate, actor_index, battle_actions, algo, turn,
                     first_strike, party, hidden, cond, executed, force_flee, op, pc, top,
                     ends, result, spoils>>
  PROVE  IInv'
<1>1. Typed'
  <2>1. message \in BOOLEAN BY DEF IInv, Typed
  <2>2. message' \in BOOLEAN BY Zenon, <2>1
  <2> QED BY <2>2 DEF IInv, Typed, TypeOK
<1>2. Queued' BY DEF IInv, Queued
<1>3. Commands' BY DEF IInv, Commands, AskedInOrder, Asking, Left, Choosing
<1>4. BetweenTurns' BY DEF IInv, BetweenTurns, Running
<1>5. Undecided' BY DEF IInv, Undecided, Asking, Left, Lost, Won, Active, Exists
<1>6. Fleeing' BY DEF IInv, Fleeing, Left
<1>7. Acting'
  BY DEF IInv, Acting, TargetThere, Left, Lost, Won, Active, Exists, Source, Action
<1>8. Scored' BY DEF IInv, Scored
<1> QED BY <1>1, <1>2, <1>3, <1>4, <1>5, <1>6, <1>7, <1>8 DEF IInv

LEMMA PageEnding ==
  ASSUME IInv, PageEnds \/ MessageClosed
  PROVE  IInv'
<1>1. /\ UNCHANGED <<state, previous_state, substate, actor_index, battle_actions, algo, turn,
                     first_strike, party, hidden, cond, executed, force_flee, op, pc, top,
                     ends, result, spoils>>
      /\ page' \in {page, NoOne} /\ left' \in {left, 0} /\ message' \in {message, FALSE}
  BY DEF PageEnds, MessageClosed, scene, queue, members, events, outcome
<1> QED BY <1>1, SameButPages

(* Nothing but the score outlives a battle that is left.                   *)
LEMMA Quits ==
  ASSUME IInv, Quit, UNCHANGED <<actor_index, first_strike, party, message>>, op' \in {op, "none"},
         state' \in States, substate' \in Substates, spoils' = spoils, Scored'
  PROVE  IInv'
<1>1. /\ pc' = "ended" /\ battle_actions' = <<>> /\ algo' = [b \in Battlers |-> NoAlgo]
      /\ turn' = NoTurn /\ page' = NoOne /\ left' = 0 /\ executed' = {} /\ force_flee' = FALSE
      /\ hidden' = {} /\ \A b \in Battlers : cond'[b] \in Conditions
      /\ cond' = [b \in Battlers |-> cond'[b]]
  BY DEF Quit, Conditions
<1>2. Left' BY <1>1 DEF Left
<1>3. Queued' BY <1>1, NobodyFits DEF Queued
<1>4. Typed'
  <2>1. cond' \in [Battlers -> Conditions] BY <1>1
  <2>2. turn' \in Turns /\ battle_actions' \in Seq(Battlers)
    BY <1>1 DEF NoTurn, NoAlgo, Kinds, Turns
  <2>3. TypeOK' BY <1>1, <2>1, <2>2 DEF IInv, Typed, TypeOK
  <2>4. force_flee' \in BOOLEAN BY Zenon, <1>1
  <2> QED BY <1>1, <2>2, <2>3, <2>4 DEF IInv, Typed
<1>5. Commands' BY <1>2, <1>1 DEF Commands, AskedInOrder, Asking
<1>6. BetweenTurns' BY <1>1 DEF BetweenTurns, Running
<1>7. Undecided' /\ Fleeing' BY <1>2 DEF Undecided, Fleeing
<1>8. Acting' BY <1>1, <1>2 DEF Acting, TargetThere, NoTurn
<1> QED BY <1>3, <1>4, <1>5, <1>6, <1>7, <1>8 DEF IInv

LEMMA Updates ==
  ASSUME IInv, UpdateBattleState
  PROVE  IInv'
<1>1. /\ pc = "events" /\ top = "battle" /\ ~Left /\ op' = "none" /\ EventsDone
      /\ UNCHANGED <<actor_index, first_strike, party, message, spoils>>
  BY DEF UpdateBattleState, StillOnTop, Left, EventsDone
<1> DEFINE Flees == /\ force_flee /\ state \in {"SelectOption", "Battle"} /\ substate = "begin"
                    /\ state' = "Escape" /\ substate' = "begin"
           Stays == /\ force_flee => state = "Escape"
                    /\ UNCHANGED <<state, substate, previous_state>>
<1>2. Flees \/ Stays
  <2>1. CASE force_flee /\ state # "Escape"
    BY <1>1, <2>1 DEF EventsDone, SetState, IInv, Fleeing
  <2>2. CASE ~(force_flee /\ state # "Escape")
    BY <1>1, <2>2 DEF EventsDone, scene
  <2> QED BY <2>1, <2>2
<1>3. state' \in States /\ substate' \in Substates
  BY <1>2 DEF IInv, Typed, States, Substates
<1>4. CASE Quit
  <2>1. Scored' BY <1>1, <1>2 DEF IInv, Scored
  <2> QED BY <1>1, <1>3, <1>4, <2>1, Quits
<1>5. CASE /\ pc' = "loop" \/ (pc' = "events" /\ op = "gameover")
           /\ UNCHANGED <<queue, turn, hidden, cond, page, left, executed, force_flee>>
  <2>1. Typed' BY <1>1, <1>3, <1>5 DEF IInv, Typed, TypeOK, queue
  <2>2. Queued' BY <1>5 DEF IInv, Queued, queue
  <2>3. Commands'
    BY <1>1, <1>2, <1>5 DEF IInv, Commands, AskedInOrder, Asking, Left, Choosing, queue
  <2>4. BetweenTurns' BY <1>2, <1>5 DEF IInv, BetweenTurns, Running
  <2>5. Undecided'
    BY <1>1, <1>2, <1>5 DEF IInv, Undecided, Asking, Left, Lost, Won, Active, Exists
  <2>6. Fleeing' BY <1>1, <1>2, <1>5 DEF IInv, Fleeing, Left, queue
  <2>7. Acting'
    BY <1>1, <1>2, <1>5 DEF IInv, Acting, TargetThere, Left, Lost, Won, Active, Exists, Source,
                            Action, queue
  <2>8. Scored' BY <1>1, <1>2, <1>5 DEF IInv, Scored
  <2> QED BY <2>1, <2>2, <2>3, <2>4, <2>5, <2>6, <2>7, <2>8 DEF IInv
<1> QED BY <1>4, <1>5 DEF UpdateBattleState

LEMMA LoopLeaves ==
  ASSUME IInv, LoopLeft
  PROVE  IInv'
<1>1. /\ pc = "loop" /\ ~Left
      /\ UNCHANGED <<state, previous_state, substate, actor_index, first_strike, party, op,
                     message, top, ends, result, spoils>>
  BY DEF LoopLeft, Left, scene, outcome
<1>2. CASE Quit
  <2>1. Scored' BY <1>1 DEF IInv, Scored
  <2>2. state' \in States /\ substate' \in Substates BY <1>1 DEF IInv, Typed
  <2> QED BY <1>1, <1>2, <2>1, <2>2, Quits
<1>3. CASE /\ pc' = "events"
           /\ UNCHANGED <<queue, turn, hidden, cond, page, left, executed, force_flee>>
  <2>1. Typed' BY <1>1, <1>3 DEF IInv, Typed, TypeOK, queue
  <2>2. Queued' BY <1>3 DEF IInv, Queued, queue
  <2>3. Commands'
    BY <1>1, <1>3 DEF IInv, Commands, AskedInOrder, Asking, Left, Choosing, queue
  <2>4. BetweenTurns' BY <1>1, <1>3 DEF IInv, BetweenTurns, Running
  <2>5. Undecided' BY <1>1, <1>3 DEF IInv, Undecided, Asking, Left, Lost, Won, Active, Exists
  <2>6. Fleeing' BY <1>1, <1>3 DEF IInv, Fleeing, Left, queue
  <2>7. Acting'
    BY <1>1, <1>3 DEF IInv, Acting, TargetThere, Left, Lost, Won, Active, Exists, Source,
                      Action, queue
  <2>8. Scored' BY <1>1 DEF IInv, Scored
  <2> QED BY <2>1, <2>2, <2>3, <2>4, <2>5, <2>6, <2>7, <2>8 DEF IInv
<1> QED BY <1>2, <1>3 DEF LoopLeft

-----------------------------------------------------------------------------
(* The commands of the party *)

LEMMA Starts ==
  ASSUME IInv, Start
  PROVE  IInv'
<1>1. /\ pc = "loop" /\ page = NoOne /\ state = "Start" /\ ~Left /\ ~force_flee
      /\ pc' = "events" /\ state' = "SelectOption" /\ substate' = "begin"
      /\ UNCHANGED <<actor_index, battle_actions, algo, turn, first_strike, party, hidden, cond,
                     page, left, executed, force_flee, op, message, spoils>>
  BY InIs DEF Start, SetState, NextFrame, queue, members, events, outcome
<1>2. Typed' BY <1>1 DEF IInv, Typed, TypeOK, States, Substates
<1>3. Queued' BY <1>1 DEF IInv, Queued
<1>4. Commands' BY <1>1 DEF IInv, Commands, AskedInOrder, Asking, Left
<1>5. BetweenTurns' BY <1>1 DEF BetweenTurns, Running
<1>6. Undecided' BY <1>1 DEF Undecided, Asking
<1>7. Fleeing' BY <1>1 DEF Fleeing
<1>8. Acting' BY <1>1 DEF IInv, Acting, TargetThere
<1>9. Scored' BY <1>1 DEF IInv, Scored
<1> QED BY <1>2, <1>3, <1>4, <1>5, <1>6, <1>7, <1>8, <1>9 DEF IInv

(* CheckBattleEndAndScheduleEvents                                         *)
LEMMA ChecksEnd ==
  ASSUME Decided \/ Scheduled
  PROVE  \/ /\ state' \in {"Victory", "Defeat"} /\ substate' = "begin" /\ UNCHANGED events
            /\ state' = "Victory" => Won
            /\ state' = "Defeat" => Lost
         \/ /\ ~Lost /\ ~Won /\ page' \in Pages /\ left' = MaxCommands
            /\ executed' \subseteq executed \cup Pages
            /\ UNCHANGED <<state, substate, previous_state, force_flee, op>>
  BY DEF Decided, Scheduled, SetState, scene

LEMMA OptionsBegin ==
  ASSUME IInv, SelectOptionBegin
  PROVE  IInv'
<1>1. /\ pc = "loop" /\ page = NoOne /\ state = "SelectOption" /\ substate = "begin" /\ ~Left
      /\ ~force_flee /\ pc' = "loop" /\ battle_actions = <<>> /\ actor_index = 0
      /\ turn.step = "none" /\ spoils = 0
      /\ UNCHANGED <<actor_index, battle_actions, algo, turn, first_strike, party, hidden, cond,
                     message, spoils>>
  BY InIs DEF SelectOptionBegin, Continues, queue, members, outcome, IInv, Commands,
              AskedInOrder, Acting, Scored, Typed, Turns
<1> DEFINE Ends  == /\ state' \in {"Victory", "Defeat"} /\ substate' = "begin" /\ UNCHANGED events
           Runs  == /\ page' \in Pages /\ left' = MaxCommands /\ executed' \subseteq executed \cup Pages
                    /\ UNCHANGED <<state, substate, force_flee, op>>
           Asks  == /\ ~Lost /\ ~Won /\ UNCHANGED events
                    /\ \/ state' = "SelectOption" /\ substate' = "input"
                       \/ state' = "SelectActor" /\ substate' = "begin"
<1>2. Ends \/ Runs \/ Asks
  <2>1. CASE Decided \/ Scheduled BY <2>1, ChecksEnd
  <2>2. CASE ~(Decided \/ Scheduled)
    BY <1>1, <2>2 DEF SelectOptionBegin, NothingHappens, SetState, SetSubState
  <2> QED BY <2>1, <2>2
<1>3. /\ state' \in {"Victory", "Defeat", "SelectOption", "SelectActor"}
      /\ substate' \in {"begin", "input"} /\ UNCHANGED <<force_flee, op>>
      /\ page' = NoOne \/ (substate' = "begin" /\ state' = "SelectOption")
      /\ page' \in Pages \cup {NoOne} /\ left' \in Nat /\ executed' \subseteq Pages
      /\ state' = "SelectActor" \/ substate' = "input" => ~Lost /\ ~Won
  BY <1>1, <1>2, BattleAssumption DEF events, IInv, Typed, TypeOK
<1>4. Typed' BY <1>1, <1>3 DEF IInv, Typed, TypeOK, States, Substates
<1>5. Queued' BY <1>1 DEF IInv, Queued
<1>6. Commands'
  <2>1. SubSeq(party', 1, 0) = <<>> BY SubSeqEmpty
  <2>2. Len(party') \in Nat BY <1>4, LenProperties DEF Typed, TypeOK
  <2> QED BY <1>1, <1>3, <2>1, <2>2 DEF Commands, AskedInOrder, Asking, Left, Choosing
<1>7. BetweenTurns' BY <1>3 DEF BetweenTurns, Running
<1>8. Undecided' BY <1>1, <1>3 DEF Undecided, Asking, Lost, Won, Active, Exists
<1>9. Fleeing' BY <1>1, <1>3 DEF Fleeing
<1>10. Acting' BY <1>1, <1>3 DEF Acting, TargetThere
<1>11. Scored' BY <1>1, <1>3, <1>2 DEF IInv, Scored
<1> QED BY <1>4, <1>5, <1>6, <1>7, <1>8, <1>9, <1>10, <1>11 DEF IInv

LEMMA OptionsChosen ==
  ASSUME IInv, SelectOption
  PROVE  IInv'
<1>1. /\ pc = "loop" /\ page = NoOne /\ state = "SelectOption" /\ substate = "input" /\ ~Left
      /\ ~force_flee /\ pc' = "events" /\ battle_actions = <<>> /\ actor_index = 0
      /\ turn.step = "none" /\ ~Lost /\ ~Won
      /\ UNCHANGED <<actor_index, battle_actions, algo, turn, first_strike, party, hidden, cond,
                     page, left, executed, force_flee, op, message, spoils>>
  BY InIs DEF SelectOption, NextFrame, queue, members, events, outcome, IInv, Commands,
              AskedInOrder, Acting, Undecided, Typed, Turns
<1>2. \/ state' = "SelectOption" /\ substate' = "input"
      \/ state' \in {"SelectActor", "AutoBattle", "Escape"} /\ substate' = "begin"
  BY <1>1 DEF SelectOption, SetState, scene
<1>3. Typed' BY <1>1, <1>2 DEF IInv, Typed, TypeOK, States, Substates
<1>4. Queued' BY <1>1 DEF IInv, Queued
<1>5. Commands'
  <2>1. SubSeq(party', 1, 0) = <<>> BY SubSeqEmpty
  <2>2. Len(party') \in Nat BY <1>3, LenProperties DEF Typed, TypeOK
  <2> QED BY <1>1, <1>2, <2>1, <2>2 DEF Commands, AskedInOrder, Asking, Left, Choosing
<1>6. BetweenTurns' BY <1>1 DEF BetweenTurns, Running
<1>7. Undecided' BY <1>1 DEF Undecided, Lost, Won, Active, Exists
<1>8. Fleeing' BY <1>1, <1>2 DEF Fleeing
<1>9. Acting' BY <1>1, <1>2 DEF Acting, TargetThere
<1>10. Scored' BY <1>1, <1>2 DEF IInv, Scored
<1> QED BY <1>3, <1>4, <1>5, <1>6, <1>7, <1>8, <1>9, <1>10 DEF IInv

(* What a battler is given is possible for him.                            *)
LEMMA ActionsPossible ==
  ASSUME NEW b \in Battlers, NEW types, NEW foes \in SUBSET Battlers,
         NEW friends \in SUBSET Battlers, b \in Actors => "Escape" \notin types
  PROVE  Actions(b, types, foes, friends) \subseteq Possible(b)
<1> DEFINE A(names, targets) == [type : types \cap names, target : targets]
           them == IF b \in Actors THEN "enemies" ELSE "actors"
           wide == {n \in {"Normal", "Skill"} :
                      IF n = "Normal" THEN n \in types /\ b \in AttackAll ELSE "All" \in types}
<1>1. /\ A({"Normal"}, foes) \subseteq Possible(b) /\ A({"Skill"}, foes) \subseteq Possible(b)
      /\ A({"Cure"}, friends) \subseteq Possible(b)
      /\ A({"Defend", "Escape"}, {b}) \subseteq Possible(b)
  BY DEF Possible, Battlers
<1>2. [type : wide, target : {them}] \subseteq Possible(b)
  <2>1. them \in Sides /\ wide \subseteq {"Normal", "Skill"} BY DEF Sides
  <2> HIDE DEF them, wide
  <2> QED BY <2>1 DEF Possible
<1> QED BY <1>1, <1>2 DEF Actions

LEMMA PartiesAre ==
  ASSUME Typed
  PROVE  /\ ToSet(party) \subseteq Actors /\ ToSet(Troop) = Enemies
         /\ Actors \subseteq Battlers /\ Enemies \subseteq Battlers
         /\ \A b \in Battlers : /\ Active(PartyOf(b)) \subseteq Battlers
                                /\ Active(FoesOf(b)) \subseteq Battlers
         /\ Active(party) \subseteq Battlers /\ Active(Troop) \subseteq Battlers
<1>1. ToSet(party) \subseteq Actors BY InSet DEF Typed, TypeOK
<1> QED BY <1>1 DEF Enemies, Battlers, Active, PartyOf, FoesOf

LEMMA RestrictedPossible ==
  ASSUME Typed, NEW b \in Battlers
  PROVE  Restricted(b) \subseteq Possible(b) \cup {None}
<1>1. /\ [type : {"Normal"}, target : Active(PartyOf(b))] \subseteq Possible(b)
      /\ [type : {"Normal"}, target : Active(FoesOf(b))] \subseteq Possible(b)
  BY PartiesAre DEF Possible
<1> QED BY <1>1 DEF Restricted

LEMMA GivenPossible ==
  ASSUME Typed
  PROVE  /\ \A e \in Enemies : EnemyActions(e) \subseteq Possible(e) \cup {None}
         /\ \A a \in Actors : UncontrolledActions(a) \subseteq Possible(a) \cup {None}
<1>1. ASSUME NEW e \in Enemies PROVE EnemyActions(e) \subseteq Possible(e) \cup {None}
  <2>1. Actions(e, Types[e], Active(party), Enemies) \subseteq Possible(e)
    BY PartiesAre, ActionsPossible, BattleAssumption
  <2> QED BY <2>1, PartiesAre, RestrictedPossible DEF EnemyActions
<1>2. ASSUME NEW a \in Actors PROVE UncontrolledActions(a) \subseteq Possible(a) \cup {None}
  <2>1. Actions(a, Types[a], Active(Troop), ToSet(party)) \subseteq Possible(a)
    BY PartiesAre, ActionsPossible, BattleAssumption
  <2> QED BY <2>1, PartiesAre, RestrictedPossible DEF UncontrolledActions
<1> QED BY <1>1, <1>2

LEMMA NoAlgoImpossible ==
  ASSUME NEW b, NEW a \in Possible(b) \cup {None}
  PROVE  a # NoAlgo
  BY DEF Possible, None, NoAlgo

(* Those who are asked last join the queue.                                *)
LEMMA QueueGrows ==
  ASSUME NEW q, NEW al, Fits(q, al), NEW p \in Seq(Battlers), Distinct(p),
         ToSet(q) \cap ToSet(p) = {},
         NEW f, DOMAIN f = ToSet(p), \A b \in ToSet(p) : f[b] \in Possible(b) \cup {None}
  PROVE  Fits(q \o p, With(f, al)) /\ ToSet(q \o p) = ToSet(q) \cup ToSet(p)
<1>1. q \in Seq(Battlers) /\ Distinct(q) BY DEF Fits
<1>2. /\ q \o p \in Seq(Battlers) /\ ToSet(q \o p) = ToSet(q) \cup ToSet(p) /\ Distinct(q \o p)
  BY <1>1, Joined
<1>3. /\ With(f, al) = [b \in Battlers |-> With(f, al)[b]]
      /\ \A b \in Battlers : With(f, al)[b] = IF b \in ToSet(p) THEN f[b] ELSE al[b]
  BY DEF With
<1>4. \A b \in Battlers : With(f, al)[b] \in Possible(b) \cup {NoAlgo, None}
  BY <1>3 DEF Fits
<1>5. \A b \in Battlers : b \in ToSet(q \o p) <=> With(f, al)[b] # NoAlgo
  BY <1>2, <1>3, NoAlgoImpossible DEF Fits
<1> QED BY <1>2, <1>3, <1>4, <1>5 DEF Fits

(* The enemies join it, and it is put in the order of agility.             *)
LEMMA RoundBegins ==
  ASSUME IInv, NEW q, NEW al, Fits(q, al), ToSet(q) \subseteq Actors, BeginRound(q, al)
  PROVE  /\ Fits(battle_actions', algo')
         /\ ToSet(battle_actions') = ToSet(q) \cup (IF first_strike THEN {} ELSE Enemies)
         /\ state' = "Battle" /\ substate' = "begin" /\ executed' = {}
         /\ UNCHANGED <<page, left, force_flee, op>>
<1> DEFINE es == EnemiesToAct
<1>1. Typed /\ Troop \in Seq(Battlers) /\ Distinct(Troop)
  <2>1. Troop \in Seq(Enemies) /\ Distinct(Troop) BY BattleAssumption
  <2>2. Troop \in Seq(Battlers) BY <2>1, SeqMonotonic DEF Battlers
  <2> QED BY <2>1, <2>2 DEF IInv
<1>2. /\ es \in Seq(Battlers) /\ Distinct(es)
      /\ ToSet(es) = IF first_strike THEN {} ELSE Enemies
  <2>1. <<>> \in Seq(Battlers) /\ Distinct(<<>>) /\ ToSet(<<>>) = {}
    BY DEF Distinct, ToSet
  <2> QED BY <1>1, <2>1, PartiesAre DEF EnemiesToAct
<1>3. ToSet(q) \cap ToSet(es) = {} BY <1>2, BattleAssumption
<1> HIDE DEF es
<1>4. PICK f \in [ToSet(es) -> UNION {EnemyActions(e) : e \in Enemies}] :
        /\ \A e \in DOMAIN f : f[e] \in EnemyActions(e)
        /\ algo' = With(f, al)
        /\ battle_actions' \in Orders(q \o es, With(f, al))
  BY DEF BeginRound, es
<1>5. DOMAIN f = ToSet(es) /\ \A b \in ToSet(es) : f[b] \in Possible(b) \cup {None}
  BY <1>1, <1>2, <1>4, GivenPossible
<1>6. Fits(q \o es, algo') /\ ToSet(q \o es) = ToSet(q) \cup ToSet(es)
  BY <1>2, <1>3, <1>4, <1>5, QueueGrows
<1>7. q \o es \in Seq(Battlers) /\ Distinct(q \o es) BY <1>6 DEF Fits
<1>8. battle_actions' \in Orders(q \o es, With(f, al)) BY <1>4
<1>9. /\ battle_actions' \in Seq(Battlers) /\ Distinct(battle_actions')
      /\ ToSet(battle_actions') = ToSet(q \o es)
  BY <1>7, <1>8, OrderedIs
<1>10. Fits(battle_actions', algo') BY <1>6, <1>9 DEF Fits
<1> QED BY <1>2, <1>6, <1>9, <1>10 DEF BeginRound, SetState

(* SelectNextActor: whom it passes over, and who is asked next             *)
Behind == actor_index + 1 .. Len(party)
Asked(auto) == {j \in Behind : ~auto /\ IsControllable(party[j])}
NextAsked(auto) == IF Asked(auto) = {} THEN Len(party) + 1
                   ELSE CHOOSE j \in Asked(auto) : \A k \in Asked(auto) : j <= k
PassedOver(auto) == SubSeq(party, actor_index + 1, NextAsked(auto) - 1)

LEMMA NextActorIs ==
  ASSUME IInv, NEW auto \in BOOLEAN, state \in {"SelectActor", "AutoBattle"}, ~Left
  PROVE  LET n == NextAsked(auto)
             o == PassedOver(auto)
         IN  /\ n \in actor_index + 1 .. Len(party) + 1
             /\ Asked(auto) # {} => n \in 1 .. Len(party)
             /\ o \in Seq(Battlers) /\ Distinct(o) /\ ToSet(o) \subseteq ToSet(party)
             /\ ToSet(battle_actions) \cap ToSet(o) = {}
             /\ battle_actions \o o = SubSeq(party, 1, n - 1)
             /\ Asked(auto) = {} => battle_actions \o o = party
<1> DEFINE n == NextAsked(auto)
           o == PassedOver(auto)
           i == actor_index
<1>1. /\ party \in Seq(Actors) /\ Distinct(party) /\ Len(party) \in Nat
      /\ i \in Nat /\ i <= Len(party) /\ battle_actions = SubSeq(party, 1, i)
      /\ Typed
  <2>1. i \in 0 .. 4 /\ party \in Seq(Actors) /\ Distinct(party) BY DEF IInv, Typed, TypeOK
  <2> QED BY <2>1, LenProperties DEF IInv, Commands, AskedInOrder, Asking
<1>2. n \in i + 1 .. Len(party) + 1 /\ (Asked(auto) # {} => n \in i + 1 .. Len(party))
  <2>1. CASE Asked(auto) = {} BY <1>1, <2>1 DEF NextAsked
  <2>2. CASE Asked(auto) # {}
    <3>1. Asked(auto) \in SUBSET Nat BY <1>1 DEF Asked, Behind
    <3>2. n \in Asked(auto) BY <2>2, <3>1, LeastOf DEF NextAsked
    <3>3. n \in i + 1 .. Len(party) BY <3>2 DEF Asked, Behind
    <3> QED BY <1>1, <3>3
  <2> QED BY <2>1, <2>2
<1> HIDE DEF n, i
<1>3. /\ i + 1 \in 1 .. Len(party) + 1 /\ n - 1 \in (i + 1) - 1 .. Len(party)
      /\ 1 \in 1 .. Len(party) + 1 /\ i \in 1 - 1 .. Len(party) /\ n - 1 \in i .. Len(party)
      /\ n \in Int
  BY <1>1, <1>2
<1>4. o = SubSeq(party, i + 1, n - 1) BY DEF PassedOver, n, i
<1> HIDE DEF o
<1>5. /\ o \in Seq(Actors)
      /\ \A x : x \in ToSet(o) <=> \E k \in i + 1 .. n - 1 : party[k] = x
  BY <1>1, <1>3, <1>4, PartOf
<1>6. Distinct(o) BY <1>1, <1>3, <1>4, PartOf
<1>7. \A x : x \in ToSet(battle_actions) <=> \E k \in 1 .. i : party[k] = x
  BY <1>1, <1>3, PartOf
<1>8. /\ \A k \in 1 .. i : k \in 1 .. Len(party)
      /\ \A k \in i + 1 .. n - 1 : k \in 1 .. Len(party)
      /\ \A j \in 1 .. i, k \in i + 1 .. n - 1 : j # k
  BY <1>1, <1>3
<1>9. DOMAIN party = 1 .. Len(party) BY <1>1
<1>10. ToSet(o) \subseteq ToSet(party) BY <1>5, <1>8, <1>9 DEF ToSet
<1>11. ToSet(battle_actions) \cap ToSet(o) = {} BY <1>1, <1>5, <1>7, <1>8, <1>9 DEF Distinct
<1>12. battle_actions \o o = SubSeq(party, 1, n - 1)
  BY <1>1, <1>3, <1>4, ConcatAdjacentSubSeq
<1>13. ASSUME Asked(auto) = {} PROVE battle_actions \o o = party
  <2>1. n = Len(party) + 1 BY <1>13 DEF n, NextAsked
  <2>2. n - 1 = Len(party) BY <1>1, <2>1
  <2> QED BY <1>1, <1>12, <2>2, SubSeqFull
<1>14. o \in Seq(Battlers) BY <1>5, SeqMonotonic DEF Battlers
<1>15. Asked(auto) # {} => n \in 1 .. Len(party) BY <1>1, <1>2
<1> QED BY <1>2, <1>6, <1>10, <1>11, <1>12, <1>13, <1>14, <1>15 DEF n, o, i

LEMMA NextActors ==
  ASSUME IInv, NEW auto \in BOOLEAN, state \in {"SelectActor", "AutoBattle"}, ~Left,
         SelectNextActor(auto)
  PROVE  \/ /\ state' = "Battle" /\ substate' = "begin" /\ executed' = {}
            /\ actor_index' = Len(party)
            /\ Fits(battle_actions', algo')
            /\ ToSet(battle_actions') = ToSet(party) \cup (IF first_strike THEN {} ELSE Enemies)
            /\ UNCHANGED <<page, left, force_flee, op>>
         \/ /\ state' = "SelectCommand" /\ substate' = "begin"
            /\ actor_index' \in 1 .. Len(party)
            /\ Fits(battle_actions', algo')
            /\ battle_actions' = SubSeq(party, 1, actor_index' - 1)
            /\ UNCHANGED events
<1> DEFINE n == NextAsked(auto)
           o == PassedOver(auto)
<1>1. /\ Asked(auto) # {} => n \in 1 .. Len(party)
      /\ o \in Seq(Battlers) /\ Distinct(o) /\ ToSet(o) \subseteq ToSet(party)
      /\ ToSet(battle_actions) \cap ToSet(o) = {}
      /\ battle_actions \o o = SubSeq(party, 1, n - 1)
      /\ Asked(auto) = {} => battle_actions \o o = party
  BY NextActorIs
<1>2. PICK f \in [ToSet(o) -> UNION {UncontrolledActions(a) : a \in ToSet(o)}] :
        /\ \A a \in DOMAIN f : f[a] \in UncontrolledActions(a)
        /\ IF Asked(auto) = {}
             THEN /\ BeginRound(battle_actions \o o, With(f, algo))
                  /\ actor_index' = Len(party)
             ELSE /\ SetState("SelectCommand") /\ actor_index' = n
                  /\ battle_actions' = battle_actions \o o
                  /\ algo' = With(f, algo) /\ UNCHANGED events
  BY DEF SelectNextActor, PassedOver, NextAsked, Asked, Behind
<1> HIDE DEF n, o
<1>3. Typed /\ ToSet(party) \subseteq Actors /\ Fits(battle_actions, algo)
  BY PartiesAre DEF IInv, Queued
<1>4. DOMAIN f = ToSet(o) /\ \A b \in ToSet(o) : f[b] \in Possible(b) \cup {None}
  BY <1>1, <1>2, <1>3, GivenPossible
<1>5. Fits(battle_actions \o o, With(f, algo))
  BY <1>1, <1>3, <1>4, QueueGrows
<1>6. CASE Asked(auto) = {}
  <2>1. ToSet(battle_actions \o o) \subseteq Actors BY <1>1, <1>3, <1>6
  <2>2. BeginRound(battle_actions \o o, With(f, algo)) BY <1>2, <1>6
  <2>3. /\ Fits(battle_actions', algo')
        /\ ToSet(battle_actions') = ToSet(battle_actions \o o)
                                      \cup (IF first_strike THEN {} ELSE Enemies)
        /\ state' = "Battle" /\ substate' = "begin" /\ executed' = {}
        /\ UNCHANGED <<page, left, force_flee, op>>
    BY <1>5, <2>1, <2>2, RoundBegins
  <2> QED BY <1>1, <1>2, <1>6, <2>3
<1>7. CASE Asked(auto) # {} BY <1>1, <1>2, <1>5, <1>7 DEF SetState
<1> QED BY <1>6, <1>7

LEMMA SelectsActor ==
  ASSUME IInv, SelectActor
  PROVE  IInv'
<1>1. /\ pc = "loop" /\ page = NoOne /\ state \in {"SelectActor", "AutoBattle"} /\ ~Left
      /\ ~force_flee /\ turn.step = "none" /\ ~Lost /\ ~Won /\ pc' = "loop"
      /\ UNCHANGED <<turn, first_strike, party, hidden, cond, message, spoils>>
  <2>1. /\ pc = "loop" /\ page = NoOne /\ state \in {"SelectActor", "AutoBattle"} /\ ~Left
        /\ ~force_flee
    <3>1. CASE In("SelectActor", "begin") BY <3>1, InIs
    <3>2. CASE In("AutoBattle", "begin") BY <3>2, InIs
    <3> QED BY <3>1, <3>2 DEF SelectActor
  <2>2. turn.step = "none" /\ ~Lost /\ ~Won
    BY <2>1 DEF IInv, Acting, Undecided, Asking, Typed, Turns
  <2> QED BY <2>1, <2>2 DEF SelectActor, Continues, members, outcome
<1>2. \/ /\ state' = "Battle" /\ substate' = "begin" /\ executed' = {}
         /\ actor_index' = Len(party) /\ Fits(battle_actions', algo')
         /\ UNCHANGED <<page, left, force_flee, op>>
      \/ /\ state' = "SelectCommand" /\ substate' = "begin"
         /\ actor_index' \in 1 .. Len(party) /\ Fits(battle_actions', algo')
         /\ battle_actions' = SubSeq(party, 1, actor_index' - 1)
         /\ UNCHANGED <<page, left, executed, force_flee, op>>
  <2>1. SelectNextActor(FALSE) \/ SelectNextActor(TRUE) BY DEF SelectActor
  <2> QED BY <1>1, <2>1, NextActors DEF events
<1>3. Queued' BY <1>2 DEF Queued
<1>4. Len(party) \in Nat /\ Len(party) <= 4
  <2>1. party \in Seq(Actors) /\ Len(party) <= 4 BY DEF IInv, Typed, TypeOK
  <2> QED BY <2>1, LenProperties
<1>5. Typed'
  <2>0. actor_index' \in {Len(party)} \cup 1 .. Len(party) BY <1>2
  <2>1. actor_index' \in 0 .. 4 BY <2>0, <1>4
  <2>2. battle_actions' \in Seq(Battlers) BY <1>2 DEF Fits
  <2>3. TypeOK' BY <1>1, <1>2, <2>1, <2>2 DEF IInv, Typed, TypeOK
  <2> QED BY <1>1, <1>2, <2>3 DEF IInv, Typed, States, Substates
<1>6. Commands' BY <1>1, <1>2, <1>4 DEF Commands, AskedInOrder, Asking, Choosing
<1>7. BetweenTurns' BY <1>1, <1>2 DEF BetweenTurns, Running
<1>8. Undecided' BY <1>1, <1>2 DEF Undecided, Asking, Lost, Won, Active, Exists
<1>9. Fleeing' BY <1>1, <1>2 DEF Fleeing
<1>10. Acting' BY <1>1, <1>2 DEF Acting, TargetThere
<1>11. Scored' BY <1>1, <1>2 DEF IInv, Scored
<1> QED BY <1>3, <1>5, <1>6, <1>7, <1>8, <1>9, <1>10, <1>11 DEF IInv

(* The two parts of a queue that is cut after n battlers                   *)
LEMMA CutIs ==
  ASSUME NEW S, NEW q \in Seq(S), Distinct(q), NEW n \in 0 .. Len(q)
  PROVE  LET front == SubSeq(q, 1, n)
             rest == SubSeq(q, n + 1, Len(q))
         IN  /\ front \in Seq(S) /\ Len(front) = n /\ Distinct(front)
             /\ rest \in Seq(S) /\ Len(rest) = Len(q) - n /\ Distinct(rest)
             /\ ToSet(q) = ToSet(front) \cup ToSet(rest)
             /\ ToSet(front) \cap ToSet(rest) = {}
             /\ \A i \in 1 .. n : front[i] = q[i]
             /\ \A i \in 1 .. Len(q) - n : rest[i] = q[n + i]
<1> DEFINE front == SubSeq(q, 1, n)
           rest == SubSeq(q, n + 1, Len(q))
<1>1. /\ Len(q) \in Nat /\ DOMAIN q = 1 .. Len(q) /\ n \in Nat
      /\ 1 \in 1 .. Len(q) + 1 /\ n \in 1 - 1 .. Len(q)
      /\ n + 1 \in 1 .. Len(q) + 1 /\ Len(q) \in (n + 1) - 1 .. Len(q)
      /\ n - 1 + 1 = n /\ Len(q) - (n + 1) + 1 = Len(q) - n
      /\ \A i \in 1 .. n : 1 + i - 1 = i
      /\ \A i \in 1 .. Len(q) - n : (n + 1) + i - 1 = n + i
  OBVIOUS
<1>2. /\ front \in Seq(S) /\ Len(front) = n - 1 + 1
      /\ \A x : x \in ToSet(front) <=> \E i \in 1 .. n : q[i] = x
      /\ \A i \in 1 .. n - 1 + 1 : front[i] = q[1 + i - 1]
  BY <1>1, PartOf
<1>3. /\ rest \in Seq(S) /\ Len(rest) = Len(q) - (n + 1) + 1
      /\ \A x : x \in ToSet(rest) <=> \E i \in n + 1 .. Len(q) : q[i] = x
      /\ \A i \in 1 .. Len(q) - (n + 1) + 1 : rest[i] = q[(n + 1) + i - 1]
  <2>0. n + 1 \in 1 .. Len(q) + 1 /\ Len(q) \in (n + 1) - 1 .. Len(q) BY <1>1
  <2>1. rest \in Seq(S) /\ Len(rest) = Len(q) - (n + 1) + 1 BY <2>0, PartOf
  <2>2. \A x : x \in ToSet(rest) <=> \E i \in n + 1 .. Len(q) : q[i] = x BY <1>1, PartOf
  <2>3. \A i \in 1 .. Len(q) - (n + 1) + 1 : rest[i] = q[(n + 1) + i - 1] BY <1>1, PartOf
  <2> QED BY <2>1, <2>2, <2>3
<1>4. Distinct(front) /\ Distinct(rest) BY <1>1, PartOf
<1> HIDE DEF front, rest
<1>5. /\ \A i \in 1 .. Len(q) : i \in 1 .. n \/ i \in n + 1 .. Len(q)
      /\ \A i \in 1 .. n : i \in 1 .. Len(q)
      /\ \A i \in n + 1 .. Len(q) : i \in 1 .. Len(q)
      /\ \A i \in 1 .. n, j \in n + 1 .. Len(q) : i # j
  BY <1>1
<1>6. \A x : x \in ToSet(q) <=> \E i \in 1 .. Len(q) : q[i] = x BY InSet
<1>7. ToSet(q) = ToSet(front) \cup ToSet(rest) BY <1>2, <1>3, <1>5, <1>6
<1>8. ToSet(front) \cap ToSet(rest) = {}
  <2> SUFFICES ASSUME NEW i \in 1 .. n, NEW j \in n + 1 .. Len(q), q[i] = q[j] PROVE FALSE
    <3>1. \A x : x \in ToSet(front) <=> \E i \in 1 .. n : q[i] = x BY <1>2
    <3>2. \A x : x \in ToSet(rest) <=> \E i \in n + 1 .. Len(q) : q[i] = x BY <1>3
    <3> QED BY <3>1, <3>2
  <2> QED BY <1>1, <1>5 DEF Distinct
<1>9. Len(front) = n /\ Len(rest) = Len(q) - n BY <1>1, <1>2, <1>3
<1>10. /\ \A i \in 1 .. n : front[i] = q[i]
       /\ \A i \in 1 .. Len(q) - n : rest[i] = q[n + i]
  BY <1>1, <1>2, <1>3
<1> QED BY <1>2, <1>3, <1>4, <1>7, <1>8, <1>9, <1>10 DEF front, rest

(* Those that leave a queue lose their actions.                            *)
LEMMA QueueShrinks ==
  ASSUME NEW q, NEW al, Fits(q, al), NEW n \in 0 .. Len(q)
  PROVE  LET front == SubSeq(q, 1, n)
             rest == SubSeq(q, n + 1, Len(q))
         IN  /\ Fits(rest, [b \in Battlers |-> IF b \in ToSet(front) THEN NoAlgo ELSE al[b]])
             /\ Fits(front, [b \in Battlers |-> IF b \in ToSet(rest) THEN NoAlgo ELSE al[b]])
<1> DEFINE front == SubSeq(q, 1, n)
           rest == SubSeq(q, n + 1, Len(q))
           al1 == [b \in Battlers |-> IF b \in ToSet(front) THEN NoAlgo ELSE al[b]]
           al2 == [b \in Battlers |-> IF b \in ToSet(rest) THEN NoAlgo ELSE al[b]]
<1>1. q \in Seq(Battlers) /\ Distinct(q) BY DEF Fits
<1>2. /\ front \in Seq(Battlers) /\ Distinct(front) /\ rest \in Seq(Battlers) /\ Distinct(rest)
      /\ ToSet(q) = ToSet(front) \cup ToSet(rest) /\ ToSet(front) \cap ToSet(rest) = {}
  BY <1>1, CutIs
<1> HIDE DEF front, rest
<1>3. /\ al1 = [b \in Battlers |-> al1[b]] /\ al2 = [b \in Battlers |-> al2[b]]
      /\ \A b \in Battlers : al1[b] = IF b \in ToSet(front) THEN NoAlgo ELSE al[b]
      /\ \A b \in Battlers : al2[b] = IF b \in ToSet(rest) THEN NoAlgo ELSE al[b]
  OBVIOUS
<1> HIDE DEF al1, al2
<1>4. Fits(rest, al1) BY <1>2, <1>3 DEF Fits
<1>5. Fits(front, al2) BY <1>2, <1>3 DEF Fits
<1> QED BY <1>4, <1>5 DEF front, rest, al1, al2

(* What commands change, whatever is chosen                                *)
AskingOne == {"SelectCommand", "SelectSkill", "SelectItem", "SelectEnemyTarget", "SelectAllyTarget"}

LEMMA Commanding ==
  ASSUME IInv, state \in AskingOne, pc = "loop", page = NoOne, pc' = "events",
         UNCHANGED <<turn, first_strike, party, hidden, cond, page, left, executed, force_flee, op,
                     message, spoils>>,
         substate' = "begin", state' \in AskingOne \cup {"SelectActor", "SelectOption"},
         Queued', actor_index' \in 0 .. 4, Commands'
  PROVE  IInv'
<1>1. turn.step = "none" /\ ~force_flee /\ ~Lost /\ ~Won /\ ~Left /\ spoils = 0
  BY DEF IInv, Acting, Undecided, Fleeing, Asking, Left, Typed, Turns, AskingOne, Scored
<1>2. Typed'
  <2>1. battle_actions' \in Seq(Battlers) BY DEF Queued, Fits
  <2>2. TypeOK' BY <2>1 DEF IInv, Typed, TypeOK
  <2> QED BY <2>2 DEF IInv, Typed, States, Substates, AskingOne
<1>3. BetweenTurns' BY DEF BetweenTurns, Running
<1>4. Undecided' BY <1>1 DEF Undecided, Lost, Won, Active, Exists
<1>5. Fleeing' BY <1>1 DEF Fleeing, AskingOne
<1>6. Acting' BY <1>1 DEF Acting, TargetThere, AskingOne
<1>7. Scored' BY <1>1 DEF IInv, Scored, AskingOne
<1> QED BY <1>2, <1>3, <1>4, <1>5, <1>6, <1>7 DEF IInv

(* The party and the queue while an actor is asked                         *)
LEMMA AskedOne ==
  ASSUME IInv, state \in AskingOne, ~Left
  PROVE  /\ party \in Seq(Actors) /\ Distinct(party) /\ Len(party) \in Nat /\ Len(party) <= 4
         /\ actor_index \in 1 .. Len(party)
         /\ battle_actions = SubSeq(party, 1, actor_index - 1)
         /\ Self \in Actors /\ Self \in Battlers /\ Fits(battle_actions, algo)
<1>1. /\ party \in Seq(Actors) /\ Distinct(party) /\ Len(party) <= 4 /\ actor_index \in 0 .. 4
      /\ Fits(battle_actions, algo)
  BY DEF IInv, Typed, TypeOK, Queued
<1>2. /\ actor_index <= Len(party) /\ actor_index >= 1
      /\ battle_actions = SubSeq(party, 1, actor_index - 1)
  BY DEF IInv, Commands, AskedInOrder, Asking, AskingOne
<1>3. Len(party) \in Nat BY <1>1
<1>4. actor_index \in 1 .. Len(party) BY <1>1, <1>2, <1>3
<1> QED BY <1>1, <1>2, <1>3, <1>4 DEF Self, Battlers

LEMMA GivesAction ==
  ASSUME IInv, state \in AskingOne, ~Left, NEW a \in Possible(Self), ActionSelected(a),
         UNCHANGED party
  PROVE  Queued' /\ Commands' /\ actor_index' \in 0 .. 4
<1> DEFINE i == actor_index
           b == party[i]
<1>1. /\ party \in Seq(Actors) /\ Distinct(party) /\ Len(party) \in Nat /\ Len(party) <= 4
      /\ i \in 1 .. Len(party) /\ battle_actions = SubSeq(party, 1, i - 1)
      /\ b \in Actors /\ b \in Battlers /\ Fits(battle_actions, algo) /\ b = Self
  BY AskedOne DEF Self
<1>2. /\ algo' = [algo EXCEPT ![b] = a] /\ battle_actions' = Append(battle_actions, b)
      /\ state' = "SelectActor" /\ actor_index' = i
  BY DEF ActionSelected, SetState
<1> HIDE DEF b
<1>3. /\ 1 \in 1 .. Len(party) + 1 /\ i - 1 \in 1 - 1 .. Len(party) /\ i \in 1 .. Len(party)
      /\ i \in 0 .. 4 /\ \A k \in 1 .. i - 1 : k \in 1 .. Len(party) /\ k # i
  BY <1>1
<1>4. b \notin ToSet(battle_actions)
  <2>1. \A x : x \in ToSet(battle_actions) <=> \E k \in 1 .. i - 1 : party[k] = x
    <3>1. \A m \in 1 .. Len(party) + 1 : \A n \in m - 1 .. Len(party) :
            \A x : x \in ToSet(SubSeq(party, m, n)) <=> \E k \in m .. n : party[k] = x
      BY <1>1, PartOf
    <3>2. 1 \in 1 .. Len(party) + 1 /\ i - 1 \in 1 - 1 .. Len(party) BY <1>3
    <3>3. \A x : x \in ToSet(SubSeq(party, 1, i - 1)) <=> \E k \in 1 .. i - 1 : party[k] = x
      BY <3>1, <3>2
    <3> QED BY <1>1, <3>3
  <2>2. DOMAIN party = 1 .. Len(party) BY <1>1
  <2> QED BY <1>1, <1>3, <2>1, <2>2 DEF Distinct, b
<1>5. Append(battle_actions, b) = SubSeq(party, 1, i)
  <2>1. 1 \in 1 .. Len(party) /\ i \in 1 .. Len(party) BY <1>1
  <2>2. SubSeq(party, 1, i) = SubSeq(party, 1, i - 1) \o <<party[i]>>
    BY <1>1, <2>1, SubSeqRecursiveSecond
  <2>3. battle_actions \in Seq(Battlers) BY <1>1 DEF Fits
  <2>4. Append(battle_actions, b) = battle_actions \o <<b>>
    BY <1>1, <2>3, AppendIsConcat
  <2> QED BY <1>1, <2>2, <2>4 DEF b
<1>6. Fits(Append(battle_actions, b), [algo EXCEPT ![b] = a])
  <2>1. battle_actions \in Seq(Battlers) /\ Distinct(battle_actions) BY <1>1 DEF Fits
  <2>2. /\ Append(battle_actions, b) \in Seq(Battlers) /\ Distinct(Append(battle_actions, b))
        /\ ToSet(Append(battle_actions, b)) = ToSet(battle_actions) \cup {b}
    <3>1. b \in Battlers BY <1>1
    <3> QED BY <1>4, <2>1, <3>1, Appended
  <2>3. algo = [c \in Battlers |-> algo[c]] BY <1>1 DEF Fits
  <2> DEFINE al == [algo EXCEPT ![b] = a]
  <2>4. al = [c \in Battlers |-> al[c]] /\ \A c \in Battlers : al[c] = IF c = b THEN a ELSE algo[c]
    BY <2>3
  <2>5. a # NoAlgo BY <1>1, NoAlgoImpossible
  <2> HIDE DEF al
  <2>6. Fits(Append(battle_actions, b), al) BY <1>1, <2>2, <2>4, <2>5 DEF Fits
  <2> QED BY <2>6 DEF al
<1>7. Queued' BY <1>2, <1>6 DEF Queued
<1>8. Commands' BY <1>1, <1>2, <1>3, <1>5 DEF Commands, AskedInOrder, Asking, Choosing
<1> QED BY <1>2, <1>3, <1>7, <1>8

LEMMA AsksAgain ==
  ASSUME IInv, state \in AskingOne, ~Left, SelectPreviousActor, UNCHANGED party
  PROVE  Queued' /\ Commands' /\ actor_index' \in 0 .. 4
<1> DEFINE i == actor_index
           before == {j \in 1 .. i - 1 : IsControllable(party[j])}
           again == IF before = {} THEN 1
                    ELSE CHOOSE j \in before : \A k \in before : j >= k
           n == again - 1
           q == battle_actions
<1>1. /\ party \in Seq(Actors) /\ Distinct(party) /\ Len(party) \in Nat /\ Len(party) <= 4
      /\ i \in 1 .. Len(party) /\ q = SubSeq(party, 1, i - 1) /\ Fits(q, algo)
  BY AskedOne
<1>2. /\ state' = (IF before = {} THEN "SelectOption" ELSE "SelectActor")
      /\ actor_index' = again - 1
      /\ battle_actions' = SubSeq(q, 1, again - 1)
      /\ algo' = [b \in Battlers |-> IF b \in ToSet(SubSeq(q, again, Len(q)))
                                       THEN NoAlgo ELSE algo[b]]
  BY DEF SelectPreviousActor, SetState
<1>3. again \in 1 .. i /\ (before = {} => again = 1)
  <2>1. CASE before = {} BY <1>1, <2>1
  <2>2. CASE before # {}
    <3>1. i - 1 \in Nat /\ before \in SUBSET (1 .. i - 1) BY <1>1
    <3>2. again \in before BY <2>2, <3>1, GreatestOf
    <3>3. again \in 1 .. i - 1 BY <3>1, <3>2
    <3> QED BY <1>1, <2>2, <3>3
  <2> QED BY <2>1, <2>2
<1> HIDE DEF before, again, q, i
<1>4. /\ 1 \in 1 .. Len(party) + 1 /\ i - 1 \in 1 - 1 .. Len(party) /\ n \in 1 - 1 .. Len(party)
      /\ i - 1 = (i - 1) - 1 + 1 /\ n \in 0 .. i - 1 /\ n + 1 = again
      /\ n \in 0 .. 4 /\ n <= Len(party) /\ n - 1 + 1 = n /\ i - 1 - 1 + 1 = i - 1
  BY <1>1, <1>3
<1>5. /\ q \in Seq(Actors) /\ Len(q) = i - 1 - 1 + 1 /\ Distinct(q)
      /\ \A k \in 1 .. i - 1 - 1 + 1 : q[k] = party[1 + k - 1]
  <2>1. /\ q \in Seq(Actors) /\ Len(q) = i - 1 - 1 + 1
        /\ \A k \in 1 .. i - 1 - 1 + 1 : q[k] = party[1 + k - 1]
    BY <1>1, <1>4, PartOf
  <2>2. Distinct(q) BY <1>1 DEF Fits
  <2> QED BY <2>1, <2>2
<1>6. Len(q) = i - 1 /\ n \in 0 .. Len(q) BY <1>4, <1>5
<1>7. /\ SubSeq(q, 1, n) \in Seq(Actors) /\ Len(SubSeq(q, 1, n)) = n
      /\ \A k \in 1 .. n : SubSeq(q, 1, n)[k] = q[k]
  BY <1>5, <1>6, CutIs
<1>8. /\ SubSeq(party, 1, n) \in Seq(Actors) /\ Len(SubSeq(party, 1, n)) = n - 1 + 1
      /\ \A k \in 1 .. n - 1 + 1 : SubSeq(party, 1, n)[k] = party[1 + k - 1]
  BY <1>1, <1>4, PartOf
<1>9. SubSeq(q, 1, n) = SubSeq(party, 1, n)
  <2>1. ASSUME NEW k \in 1 .. n PROVE SubSeq(q, 1, n)[k] = SubSeq(party, 1, n)[k]
    <3>1. k \in 1 .. n - 1 + 1 /\ k \in 1 .. i - 1 - 1 + 1 /\ 1 + k - 1 = k
      BY <1>1, <1>4
    <3> QED BY <1>5, <1>7, <1>8, <3>1
  <2>2. Len(SubSeq(q, 1, n)) = Len(SubSeq(party, 1, n)) BY <1>4, <1>7, <1>8
  <2> QED BY <1>7, <1>8, <2>1, <2>2, SeqEqual
<1>10. Fits(SubSeq(q, 1, n), [b \in Battlers |-> IF b \in ToSet(SubSeq(q, n + 1, Len(q)))
                                                   THEN NoAlgo ELSE algo[b]])
  <2>1. Fits(q, algo) BY <1>1
  <2> QED BY <1>6, <2>1, QueueShrinks
<1>11. Queued' BY <1>2, <1>4, <1>10 DEF Queued
<1>12. battle_actions' = SubSeq(party, 1, n) /\ actor_index' = n BY <1>2, <1>9
<1>13. CASE before = {}
  <2>1. n = 0 BY <1>3, <1>13
  <2>2. SubSeq(party, 1, n) = <<>> BY <2>1, SubSeqEmpty
  <2>3. state' = "SelectOption" BY <1>2, <1>13
  <2>4. Commands'
    BY <1>12, <2>1, <2>2, <2>3 DEF Commands, AskedInOrder, Asking, Choosing
  <2> QED BY <1>4, <1>11, <1>12, <2>4
<1>14. CASE before # {}
  <2>1. state' = "SelectActor" BY <1>2, <1>14
  <2>2. Commands'
    BY <1>4, <1>12, <2>1 DEF Commands, AskedInOrder, Asking, Choosing
  <2> QED BY <1>4, <1>11, <1>12, <2>2
<1> QED BY <1>13, <1>14

LEMMA ChangesMenu ==
  ASSUME IInv, state \in AskingOne, ~Left, NEW s \in AskingOne, Menu(s), UNCHANGED party,
         s \in Choosing => state \in {"SelectCommand", "SelectSkill", "SelectItem"}
  PROVE  Queued' /\ Commands' /\ actor_index' \in 0 .. 4
<1>1. /\ UNCHANGED <<actor_index, battle_actions, algo>> /\ state' = s
      /\ s \in Choosing => previous_state' = state
  BY DEF Menu, SetState, queue
<1>2. /\ actor_index \in 1 .. Len(party) /\ Len(party) \in Nat /\ Len(party) <= 4
      /\ battle_actions = SubSeq(party, 1, actor_index - 1)
  BY AskedOne
<1>3. Queued' BY <1>1 DEF IInv, Queued
<1>4. actor_index <= Len(party) /\ actor_index >= 1 /\ actor_index \in 0 .. 4 BY <1>2
<1>5. Commands' BY <1>1, <1>2, <1>4 DEF Commands, AskedInOrder, Asking, AskingOne
<1> QED BY <1>1, <1>3, <1>4, <1>5

LEMMA Chooses ==
  ASSUME IInv, SelectCommand \/ SelectSkillOrItem \/ SelectTarget
  PROVE  /\ IInv'
         /\ state \in AskingOne /\ state' \in AskingOne \cup {"SelectActor", "SelectOption"}
<1>1. state \in AskingOne /\ pc = "loop" /\ page = NoOne /\ ~Left
  <2>1. CASE In("SelectCommand", "begin") BY <2>1, InIs DEF AskingOne
  <2>2. CASE In("SelectSkill", "begin") BY <2>2, InIs DEF AskingOne
  <2>3. CASE In("SelectItem", "begin") BY <2>3, InIs DEF AskingOne
  <2>4. CASE In("SelectEnemyTarget", "begin") BY <2>4, InIs DEF AskingOne
  <2>5. CASE In("SelectAllyTarget", "begin") BY <2>5, InIs DEF AskingOne
  <2> QED
    BY <2>1, <2>2, <2>3, <2>4, <2>5 DEF SelectCommand, SelectSkillOrItem, SelectTarget
<1>2. /\ pc' = "events"
      /\ UNCHANGED <<turn, first_strike, party, hidden, cond, page, left, executed, force_flee, op,
                     message, spoils>>
  BY DEF SelectCommand, SelectSkillOrItem, SelectTarget, NextFrame, members, events, outcome
<1>3. Typed /\ Self \in Battlers /\ Self \in Actors BY <1>1, AskedOne DEF IInv
<1> DEFINE Menus == \E s \in AskingOne :
                      /\ Menu(s)
                      /\ s \in Choosing => state \in {"SelectCommand", "SelectSkill", "SelectItem"}
           Gives == \E a \in Possible(Self) : ActionSelected(a)
<1>4. OwnAction(Types[Self]) \/ OwnAction(Types[Self] \ {"Defend", "Normal"}) => Gives
  <2> SUFFICES ASSUME NEW types \in {Types[Self], Types[Self] \ {"Defend", "Normal"}},
                      OwnAction(types)
               PROVE  Gives
    OBVIOUS
  <2>1. "Escape" \notin types BY <1>3, BattleAssumption
  <2>2. Actions(Self, types, {}, {}) \subseteq Possible(Self)
    BY <1>3, <2>1, ActionsPossible
  <2> QED BY <2>2 DEF OwnAction
<1>5. Menus \/ Gives \/ SelectPreviousActor
  <2>1. CASE SelectCommand
    <3>1. state = "SelectCommand" BY <2>1, InIs DEF SelectCommand
    <3>2. CASE \E s \in {"SelectEnemyTarget", "SelectSkill", "SelectItem"} : Menu(s)
      BY <3>1, <3>2 DEF AskingOne
    <3> QED BY <2>1, <1>4, <3>2 DEF SelectCommand
  <2>2. CASE SelectSkillOrItem
    <3>1. state \in {"SelectSkill", "SelectItem"}
      <4>1. CASE In("SelectSkill", "begin") BY <4>1, InIs
      <4>2. CASE In("SelectItem", "begin") BY <4>2, InIs
      <4> QED BY <2>2, <4>1, <4>2 DEF SelectSkillOrItem
    <3>2. CASE \E s \in {"SelectEnemyTarget", "SelectAllyTarget", "SelectCommand"} : Menu(s)
      BY <3>1, <3>2 DEF AskingOne
    <3> QED BY <2>2, <1>4, <3>2 DEF SelectSkillOrItem
  <2>3. CASE SelectTarget
    <3>1. \A e \in Active(Troop) : \A type \in {"Normal", "Skill"} :
            [type |-> type, target |-> e] \in Possible(Self)
      BY <1>3, PartiesAre DEF Possible
    <3>2. \A a \in ToSet(party) : [type |-> "Cure", target |-> a] \in Possible(Self)
      BY <1>3, PartiesAre DEF Possible
    <3>3. ASSUME NEW e \in Active(Troop),
                 ActionSelected([type |-> IF previous_state = "SelectCommand"
                                            THEN "Normal" ELSE "Skill", target |-> e])
          PROVE  Gives
      <4>1. [type |-> IF previous_state = "SelectCommand" THEN "Normal" ELSE "Skill",
             target |-> e] \in Possible(Self)
        BY <3>1
      <4> QED BY <3>3, <4>1
    <3>4. ASSUME NEW a \in ToSet(party), ActionSelected([type |-> "Cure", target |-> a])
          PROVE  Gives
      BY <3>2, <3>4
    <3>5. ASSUME In("SelectEnemyTarget", "begin") \/ In("SelectAllyTarget", "begin"),
                 Menu(previous_state)
          PROVE  Menus
      <4>1. state \in Choosing
        <5>1. CASE In("SelectEnemyTarget", "begin") BY <5>1, InIs DEF Choosing
        <5>2. CASE In("SelectAllyTarget", "begin") BY <5>2, InIs DEF Choosing
        <5> QED BY <3>5, <5>1, <5>2
      <4>2. previous_state \in {"SelectCommand", "SelectSkill", "SelectItem"}
        BY <1>1, <4>1 DEF IInv, Commands, Asking, AskingOne
      <4> QED BY <3>5, <4>2 DEF AskingOne, Choosing
    <3> QED BY <2>3, <3>3, <3>4, <3>5 DEF SelectTarget
  <2> QED BY <2>1, <2>2, <2>3
<1>6. CASE Menus
  <2>1. PICK s \in AskingOne :
          /\ Menu(s)
          /\ s \in Choosing => state \in {"SelectCommand", "SelectSkill", "SelectItem"}
    BY <1>6
  <2>2. Queued' /\ Commands' /\ actor_index' \in 0 .. 4 BY <1>1, <1>2, <2>1, ChangesMenu
  <2>3. state' = s /\ substate' = "begin" BY <2>1 DEF Menu, SetState
  <2> QED BY <1>1, <1>2, <2>2, <2>3, Commanding
<1>7. CASE Gives
  <2>1. PICK a \in Possible(Self) : ActionSelected(a) BY <1>7
  <2>2. Queued' /\ Commands' /\ actor_index' \in 0 .. 4 BY <1>1, <1>2, <2>1, GivesAction
  <2>3. state' = "SelectActor" /\ substate' = "begin" BY <2>1 DEF ActionSelected, SetState
  <2> QED BY <1>1, <1>2, <2>2, <2>3, Commanding
<1>8. CASE SelectPreviousActor
  <2>1. Queued' /\ Commands' /\ actor_index' \in 0 .. 4 BY <1>1, <1>2, <1>8, AsksAgain
  <2>2. state' \in {"SelectOption", "SelectActor"} /\ substate' = "begin"
    BY <1>8 DEF SelectPreviousActor, SetState
  <2> QED BY <1>1, <1>2, <2>1, <2>2, Commanding
<1> QED BY <1>5, <1>6, <1>7, <1>8

-----------------------------------------------------------------------------
(* Targets *)

LEMMA ValidIs ==
  ASSUME NEW type, NEW ts \in Seq(Battlers)
  PROVE  /\ FromValid(type, ts) \in Seq(Battlers)
         /\ FromValid(type, ts) = <<>> => \A i \in 1 .. Len(ts) : ~IsTargetValid(type, ts[i])
<1> DEFINE ok == {i \in 1 .. Len(ts) : IsTargetValid(type, ts[i])}
           c == CHOOSE i \in ok : \A j \in ok : i <= j
<1>1. Len(ts) \in Nat OBVIOUS
<1>2. CASE ok = {}
  <2>1. FromValid(type, ts) = <<>> BY <1>2 DEF FromValid
  <2> QED BY <1>2, <2>1
<1>3. CASE ok # {}
  <2>1. ok \in SUBSET Nat BY <1>1
  <2>2. c \in ok BY <1>3, <2>1, LeastOf
  <2>3. FromValid(type, ts) = SubSeq(ts, c, Len(ts)) BY <1>3 DEF FromValid
  <2>4. c \in 1 .. Len(ts) BY <2>2
  <2> HIDE DEF c
  <2>5. c \in 1 .. Len(ts) + 1 /\ Len(ts) \in c - 1 .. Len(ts) BY <1>1, <2>4
  <2>6. SubSeq(ts, c, Len(ts)) \in Seq(Battlers) /\ Len(SubSeq(ts, c, Len(ts))) = Len(ts) - c + 1
    BY <2>5, PartOf
  <2>7. Len(ts) - c + 1 # 0 BY <1>1, <2>4
  <2>8. Len(<<>>) = 0 OBVIOUS
  <2>9. SubSeq(ts, c, Len(ts)) # <<>> BY <2>6, <2>7, <2>8
  <2> QED BY <2>3, <2>6, <2>9
<1> QED BY <1>2, <1>3

LEMMA OneTarget ==
  ASSUME NEW type, NEW b \in Battlers
  PROVE  /\ FromValid(type, <<b>>) \in Seq(Battlers)
         /\ FromValid(type, <<b>>) = <<>> => ~IsTargetValid(type, b)
<1>1. <<b>> \in Seq(Battlers) /\ Len(<<b>>) = 1 /\ <<b>>[1] = b /\ 1 \in 1 .. 1 OBVIOUS
<1> DEFINE ts == <<b>>
<1> HIDE DEF ts
<1>2. /\ FromValid(type, ts) \in Seq(Battlers)
      /\ FromValid(type, ts) = <<>> => \A i \in 1 .. Len(ts) : ~IsTargetValid(type, ts[i])
  BY <1>1, ValidIs DEF ts
<1>3. Len(ts) = 1 /\ ts[1] = b BY <1>1 DEF ts
<1>4. FromValid(type, ts) = <<>> => ~IsTargetValid(type, ts[1]) BY <1>1, <1>2, <1>3
<1> QED BY <1>2, <1>3, <1>4 DEF ts

LEMMA PartyIs ==
  ASSUME Typed, NEW b \in Battlers
  PROVE  PartyOf(b) \in Seq(Battlers)
<1>1. party \in Seq(Battlers)
  <2>1. party \in Seq(Actors) BY DEF Typed, TypeOK
  <2> QED BY <2>1, SeqMonotonic DEF Battlers
<1>2. Troop \in Seq(Battlers)
  <2>1. Troop \in Seq(Enemies) BY BattleAssumption
  <2> QED BY <2>1, SeqMonotonic DEF Battlers
<1> QED BY <1>1, <1>2 DEF PartyOf

(* Somebody else of the party takes the place of a target that is gone.    *)
LEMMA NextIs ==
  ASSUME Typed, NEW b \in Battlers
  PROVE  /\ NextActive(b) \in Seq(Battlers)
         /\ NextActive(b) = <<>> /\ b \in ToSet(PartyOf(b))
              => \A c \in ToSet(PartyOf(b)) : c # b => ~Exists(c)
<1> DEFINE p == PartyOf(b)
           at == {i \in 1 .. Len(p) : p[i] = b}
<1>1. p \in Seq(Battlers) /\ Len(p) \in Nat BY PartyIs
<1>2. CASE at = {}
  <2>1. NextActive(b) = <<>> BY <1>2 DEF NextActive
  <2>2. b \notin ToSet(p) BY <1>1, <1>2, InSet
  <2> QED BY <2>1, <2>2
<1>3. CASE at # {}
  <2> DEFINE i == CHOOSE i \in at : TRUE
             after == SubSeq(p, i + 1, Len(p))
             before == SubSeq(p, 1, i - 1)
             others == after \o before
             rest == FromValid("Normal", others)
  <2>1. i \in 1 .. Len(p) /\ p[i] = b BY <1>3
  <2>2. NextActive(b) = SubSeq(rest, 1, 1) BY <1>3 DEF NextActive
  <2> HIDE DEF p, i
  <2>3. /\ i + 1 \in 1 .. Len(p) + 1 /\ Len(p) \in (i + 1) - 1 .. Len(p)
        /\ 1 \in 1 .. Len(p) + 1 /\ i - 1 \in 1 - 1 .. Len(p)
    BY <1>1, <2>1
  <2>4. after \in Seq(Battlers) /\ \A x : x \in ToSet(after) <=> \E k \in i + 1 .. Len(p) : p[k] = x
    BY <1>1, <2>3, PartOf
  <2>5. before \in Seq(Battlers) /\ \A x : x \in ToSet(before) <=> \E k \in 1 .. i - 1 : p[k] = x
    BY <1>1, <2>3, PartOf
  <2> HIDE DEF after, before
  <2>6. others \in Seq(Battlers) /\ ToSet(others) = ToSet(after) \cup ToSet(before)
    BY <2>4, <2>5, Joined
  <2> HIDE DEF others
  <2>7. rest \in Seq(Battlers)
        /\ (rest = <<>> => \A k \in 1 .. Len(others) : ~IsTargetValid("Normal", others[k]))
    BY <2>6, ValidIs
  <2> HIDE DEF rest
  <2>8. CASE rest = <<>>
    <3>1. SubSeq(rest, 1, 1) = <<>>
      <4>1. Len(rest) = 0 BY <2>8
      <4> QED BY <2>8
    <3>2. ASSUME NEW c \in ToSet(p), c # b PROVE ~Exists(c)
      <4>1. PICK k \in 1 .. Len(p) : p[k] = c BY <1>1, InSet
      <4>2. k \in i + 1 .. Len(p) \/ k \in 1 .. i - 1 BY <1>1, <2>1, <3>2, <4>1
      <4>3. c \in ToSet(others) BY <2>4, <2>5, <2>6, <4>1, <4>2
      <4>4. PICK m \in 1 .. Len(others) : others[m] = c BY <2>6, <4>3, InSet
      <4>5. ~IsTargetValid("Normal", c) BY <2>7, <2>8, <4>4
      <4> QED BY <4>5 DEF IsTargetValid
    <3>3. <<>> \in Seq(Battlers) OBVIOUS
    <3> QED BY <2>2, <3>1, <3>2, <3>3 DEF p
  <2>9. CASE rest # <<>>
    <3>1. Len(rest) \in Nat \ {0} BY <2>7, <2>9
    <3>2. 1 \in 1 .. Len(rest) + 1 /\ 1 \in 1 - 1 .. Len(rest) BY <3>1
    <3>3. SubSeq(rest, 1, 1) \in Seq(Battlers) /\ Len(SubSeq(rest, 1, 1)) = 1 - 1 + 1
      BY <2>7, <3>2, PartOf
    <3>4. ASSUME SubSeq(rest, 1, 1) = <<>> PROVE FALSE
      <4>1. Len(<<>>) = 0 OBVIOUS
      <4>2. Len(SubSeq(rest, 1, 1)) = 0 BY Zenon, <3>4, <4>1
      <4>3. Len(SubSeq(rest, 1, 1)) = 1 - 1 + 1 BY <3>3
      <4> HIDE DEF rest
      <4> QED BY Z3, <4>2, <4>3
    <3> QED BY <2>2, <3>3, <3>4
  <2> QED BY <2>8, <2>9
<1> QED BY <1>2, <1>3

(* While the battle is not decided there is somebody on each side.         *)
LEMMA BothSides ==
  ASSUME Typed, ~Lost, ~Won
  PROVE  (\E a \in ToSet(party) : Exists(a)) /\ (\E e \in ToSet(Troop) : Exists(e))
<1>1. PICK a \in ToSet(party) : cond[a] \notin {"stone", "dead"} BY DEF Lost
<1>2. a \in Actors /\ a \notin hidden
  BY PartiesAre, BattleAssumption DEF Typed, TypeOK
<1>3. Exists(a) BY <1>1, <1>2 DEF Exists
<1>4. \E e \in ToSet(Troop) : Exists(e) BY DEF Won, Active
<1> QED BY <1>3, <1>4

(* A possible action of somebody who is there meets a target, unless it    *)
(* was meant for an actor who has left.                                    *)
LEMMA StartedIs ==
  ASSUME Typed, ~Lost, ~Won, NEW b \in Battlers, Exists(b), NEW a \in Possible(b)
  PROVE  /\ Started(b, a) \in Seq(Battlers)
         /\ Started(b, a) = <<>> => a.target \in Actors \ ToSet(party)
<1> DEFINE ts == FromValid(a.type, Chosen(a))
<1>1. PICK x \in ToSet(party), y \in ToSet(Troop) : Exists(x) /\ Exists(y) BY BothSides
<1>2. party \in Seq(Battlers) /\ Troop \in Seq(Battlers)
  <2>1. PICK e \in Enemies : TRUE BY <1>1, PartiesAre
  <2>2. x \in Actors /\ e \notin Actors /\ e \in Battlers /\ x \in Battlers
    BY <1>1, <2>1, PartiesAre, BattleAssumption
  <2> QED BY <2>2, PartyIs DEF PartyOf
<1>3. \A c : Exists(c) => \A type : IsTargetValid(type, c) BY DEF IsTargetValid, Exists
<1>4. CASE a.target \in Sides
  <2>1. Chosen(a) \in {party, Troop} BY <1>4 DEF Chosen, Sides
  <2>2. \E k \in 1 .. Len(Chosen(a)) : Exists(Chosen(a)[k])
    BY <1>1, <1>2, <2>1, InSet
  <2>3. ts \in Seq(Battlers) /\ ts # <<>> BY <1>2, <1>3, <2>1, <2>2, ValidIs
  <2>4. ~StrikesAll(b, a) BY <1>4 DEF StrikesAll
  <2> QED BY <1>4, <2>3, <2>4 DEF Started
<1>5. CASE StrikesAll(b, a)
  <2> DEFINE all == FromValid(a.type, PartyOf(a.target))
  <2>1. a.target \notin Sides BY <1>5 DEF StrikesAll
  <2>2. PartyOf(a.target) \in {party, Troop} BY DEF PartyOf
  <2>3. \E k \in 1 .. Len(PartyOf(a.target)) : Exists(PartyOf(a.target)[k])
    BY <1>1, <1>2, <2>2, InSet
  <2>4. all \in Seq(Battlers) /\ all # <<>> BY <1>2, <1>3, <2>2, <2>3, ValidIs
  <2>5. Started(b, a) = IF all # <<>> THEN all ELSE NextActive(a.target)
    BY <1>5, <2>1 DEF Started
  <2> QED BY <2>4, <2>5
<1>6. CASE a.target \notin Sides /\ ~StrikesAll(b, a)
  <2> DEFINE t == a.target
  <2>1. t \in Battlers BY <1>6 DEF Possible
  <2>2. Chosen(a) = <<t>> BY <1>6 DEF Chosen, Sides
  <2>4. ts \in Seq(Battlers) /\ (ts = <<>> => ~IsTargetValid(a.type, t))
    BY <2>1, <2>2, OneTarget
  <2>5. NextActive(t) \in Seq(Battlers) BY <2>1, NextIs
  <2>6. ASSUME ts = <<>>, NextActive(t) = <<>> PROVE t \in Actors \ ToSet(party)
    <3>1. ~Exists(t) BY <1>3, <2>4, <2>6
    <3>2. CASE t \in Actors
      <4> SUFFICES ASSUME t \in ToSet(party) PROVE FALSE BY <3>2
      <4>1. PartyOf(t) = party BY <3>2 DEF PartyOf
      <4> QED BY <1>1, <2>1, <2>6, <3>1, <4>1, NextIs
    <3>3. CASE t \notin Actors
      <4>1. PartyOf(t) = Troop /\ t \in ToSet(Troop)
        BY <2>1, <3>3, PartiesAre DEF PartyOf, Battlers
      <4> QED BY <1>1, <2>1, <2>6, <3>1, <4>1, NextIs
    <3> QED BY <3>2, <3>3
  <2>7. Started(b, a) = IF ts # <<>> THEN ts ELSE NextActive(t) BY <1>6 DEF Started
  <2> QED BY <2>4, <2>5, <2>6, <2>7
<1> QED BY <1>4, <1>5, <1>6

(* A reflected skill meets at least the one who used it.                   *)
LEMMA ReflectedIs ==
  ASSUME Typed, Source \in Battlers, Exists(Source), NEW us, NEW ts \in Reflected(us)
  PROVE  ts \in Seq(Battlers) /\ ts # <<>>
<1>1. IsTargetValid("Skill", Source) BY DEF IsTargetValid, Exists
<1>2. Source \in ToSet(PartyOf(Source))
  BY PartiesAre DEF PartyOf, Exists, Battlers
<1>3. PartyOf(Source) \in Seq(Battlers) BY PartyIs
<1>4. FromValid("Skill", PartyOf(Source)) \in Seq(Battlers)
      /\ FromValid("Skill", PartyOf(Source)) # <<>>
  BY <1>1, <1>2, <1>3, ValidIs, InSet
<1>5. FromValid("Skill", <<Source>>) \in Seq(Battlers) /\ FromValid("Skill", <<Source>>) # <<>>
  BY <1>1, OneTarget
<1> QED BY <1>4, <1>5 DEF Reflected

-----------------------------------------------------------------------------
(* A round *)

(* Gone: those before the first that is there                              *)
LEMMA GoneIs ==
  ASSUME battle_actions \in Seq(Battlers)
  PROVE  /\ Gone \in 0 .. Len(battle_actions)
         /\ \A i \in 1 .. Gone : ~Exists(battle_actions[i])
         /\ Gone < Len(battle_actions) => /\ Gone + 1 \in 1 .. Len(battle_actions)
                                          /\ Exists(battle_actions[Gone + 1])
<1> DEFINE q == battle_actions
           there == {i \in DOMAIN q : Exists(q[i])}
           c == CHOOSE i \in there : \A j \in there : i <= j
<1>1. Len(q) \in Nat /\ DOMAIN q = 1 .. Len(q) OBVIOUS
<1>2. CASE there = {}
  <2>1. Gone = Len(q) BY <1>2 DEF Gone
  <2> QED BY <1>1, <1>2, <2>1
<1>3. CASE there # {}
  <2>1. there \in SUBSET Nat BY <1>1
  <2>2. c \in there /\ \A j \in there : c <= j BY <1>3, <2>1, LeastOf
  <2>3. Gone = c - 1 BY <1>3 DEF Gone
  <2>4. c \in 1 .. Len(q) /\ Exists(q[c]) BY <1>1, <2>2
  <2>5. \A j \in 1 .. Len(q) : j < c => ~Exists(q[j])
    <3> SUFFICES ASSUME NEW j \in 1 .. Len(q), j < c, Exists(q[j]) PROVE FALSE OBVIOUS
    <3>1. c <= j BY <1>1, <2>2
    <3> QED BY <2>4, <3>1
  <2> HIDE DEF c, there
  <2>6. c - 1 \in 0 .. Len(q) /\ (c - 1) + 1 = c /\ \A i \in 1 .. c - 1 : i \in 1 .. Len(q) /\ i < c
    BY <1>1, <2>4
  <2> QED BY <2>3, <2>4, <2>5, <2>6
<1> QED BY <1>2, <1>3

(* What RemoveActions leaves of the queue                                  *)
LEMMA ActionsRemoved ==
  ASSUME Queued, NEW n \in 0 .. Len(battle_actions), RemoveActions(n)
  PROVE  /\ Queued'
         /\ battle_actions' = SubSeq(battle_actions, n + 1, Len(battle_actions))
         /\ ToSet(battle_actions') \subseteq ToSet(battle_actions)
         /\ ToSet(battle_actions) \ ToSet(battle_actions')
              = ToSet(SubSeq(battle_actions, 1, n))
         /\ n = Len(battle_actions) => battle_actions' = <<>>
<1> DEFINE q == battle_actions
           front == SubSeq(q, 1, n)
           rest == SubSeq(q, n + 1, Len(q))
<1>1. /\ battle_actions' = rest
      /\ algo' = [b \in Battlers |-> IF b \in ToSet(front) THEN NoAlgo ELSE algo[b]]
  BY DEF RemoveActions
<1>2. Fits(q, algo) /\ q \in Seq(Battlers) /\ Distinct(q) BY DEF Queued, Fits
<1>3. Fits(rest, [b \in Battlers |-> IF b \in ToSet(front) THEN NoAlgo ELSE algo[b]])
  BY <1>2, QueueShrinks
<1>4. Queued' BY <1>1, <1>3 DEF Queued
<1>5. ToSet(q) = ToSet(front) \cup ToSet(rest) /\ ToSet(front) \cap ToSet(rest) = {}
  BY <1>2, CutIs
<1>6. n = Len(q) => rest = <<>>
  <2>1. Len(q) \in Nat BY <1>2
  <2> SUFFICES ASSUME n = Len(q) PROVE rest = <<>> OBVIOUS
  <2>2. n + 1 \in Int /\ Len(q) \in Int /\ Len(q) < n + 1 BY <2>1
  <2> QED BY <2>2, SubSeqEmpty
<1> QED BY <1>1, <1>4, <1>5, <1>6

LEMMA KindsAre ==
  ASSUME NEW b \in Battlers, NEW a \in Possible(b) \cup {None}
  PROVE  a \in Kinds
  BY DEF Possible, None, Kinds

(* The table of actions when it is b's turn, and he does a                 *)
TurnTable(b, a) ==
  [c \in Battlers |-> IF c = b THEN a
                      ELSE IF c \in ToSet(SubSeq(battle_actions, 1, Gone)) THEN NoAlgo ELSE algo[c]]

(* What the beginning of a turn makes of the queue                         *)
LEMMA TurnBegins ==
  ASSUME Typed, Queued, Gone < Len(battle_actions),
         battle_actions' = SubSeq(battle_actions, Gone + 1, Len(battle_actions)),
         NEW b, b = battle_actions[Gone + 1],
         NEW a \in Prepared(b, algo[b])
  PROVE  /\ Fits(battle_actions', TurnTable(b, a)) /\ b \in Battlers /\ Exists(b) /\ battle_actions' # <<>>
         /\ Source' = b /\ a \in Possible(b) \cup {None}
         /\ b \in ToSet(battle_actions) /\ b \in ToSet(battle_actions')
<1> DEFINE q == battle_actions
           n == Gone
           front == SubSeq(q, 1, n)
           rest == SubSeq(q, n + 1, Len(q))
           al == [c \in Battlers |-> IF c \in ToSet(front) THEN NoAlgo ELSE algo[c]]
<1>1. Fits(q, algo) /\ q \in Seq(Battlers) /\ Distinct(q) BY DEF Queued, Fits
<1>2. n \in 0 .. Len(q) /\ n + 1 \in 1 .. Len(q) /\ Exists(b) BY <1>1, GoneIs
<1> HIDE DEF n
<1>3. /\ rest \in Seq(Battlers) /\ Len(rest) = Len(q) - n
      /\ \A i \in 1 .. Len(q) - n : rest[i] = q[n + i]
  BY <1>1, <1>2, CutIs
<1>4. 1 \in 1 .. Len(q) - n /\ Len(q) - n # 0 BY <1>1, <1>2
<1> HIDE DEF front, rest
<1>5. b = q[n + 1] /\ rest[1] = b /\ rest # <<>> /\ Head(rest) = b
  <2>1. b = q[n + 1] /\ rest[1] = b BY <1>3, <1>4 DEF n
  <2>2. ASSUME rest = <<>> PROVE FALSE
    <3>1. Len(<<>>) = 0 OBVIOUS
    <3> QED BY <1>3, <1>4, <2>2, <3>1
  <2> QED BY <1>3, <2>1, <2>2
<1>6. b \in Battlers /\ b \in ToSet(q) /\ b \in ToSet(rest)
  <2>1. 1 \in 1 .. Len(rest) BY <1>3, <1>4
  <2> QED BY <1>1, <1>2, <1>3, <1>5, <2>1, InSet
<1>7. algo[b] # NoAlgo /\ algo[b] \in Possible(b) \cup {None} BY <1>1, <1>6 DEF Fits
<1>8. a \in Possible(b) \cup {None}
  BY <1>6, <1>7, RestrictedPossible DEF Prepared
<1>9. a # NoAlgo BY <1>8, NoAlgoImpossible
<1>10. Fits(rest, al) BY <1>1, <1>2, QueueShrinks DEF front, rest
<1> DEFINE t == TurnTable(b, a)
<1>11. t = [c \in Battlers |-> t[c]] /\ \A c \in Battlers : t[c] = IF c = b THEN a ELSE al[c]
  BY DEF n, front, TurnTable
<1>12. battle_actions' = rest BY DEF n, rest
<1> HIDE DEF al, t
<1>13. Fits(rest, t) BY <1>6, <1>8, <1>9, <1>10, <1>11 DEF Fits
<1>14. Source' = b BY <1>5, <1>12 DEF Source
<1> QED BY <1>2, <1>5, <1>6, <1>8, <1>12, <1>13, <1>14 DEF t

(* Whose condition changes may lose his action, but not his turn.          *)
LEMMA BecomesFits ==
  ASSUME NEW q, NEW given, Fits(q, given), NEW b \in Battlers, NEW c, Becomes(b, c, given)
  PROVE  Fits(q, algo')
<1>1. algo' = given \/ (given[b] # NoAlgo /\ algo' = [given EXCEPT ![b] = None])
  BY DEF Becomes
<1>2. CASE algo' = given BY <1>2
<1>3. CASE given[b] # NoAlgo /\ algo' = [given EXCEPT ![b] = None]
  <2>1. None # NoAlgo BY DEF None, NoAlgo
  <2>2. given = [d \in Battlers |-> given[d]] BY DEF Fits
  <2> DEFINE al == [given EXCEPT ![b] = None]
  <2>3. /\ al = [d \in Battlers |-> al[d]]
        /\ \A d \in Battlers : al[d] = IF d = b THEN None ELSE given[d]
    BY <2>2
  <2> HIDE DEF al
  <2>4. Fits(q, al) BY <1>3, <2>1, <2>3 DEF Fits
  <2> QED BY <1>3, <2>4 DEF al
<1> QED BY <1>1, <1>2, <1>3

(* Nobody comes or goes when somebody recovers who is not dead.            *)
LEMMA SamePresent ==
  ASSUME Typed, UNCHANGED <<party, hidden>>, NEW b \in Battlers, Exists(b),
         NEW c \in Healed(b), cond' = [cond EXCEPT ![b] = c]
  PROVE  /\ \A d \in Battlers : Exists(d)' <=> Exists(d)
         /\ Lost' <=> Lost
         /\ Won' <=> Won
         /\ cond' \in [Battlers -> Conditions]
         /\ \A d \in Battlers : cond'[d] = "stone" <=> cond[d] = "stone"
<1>1. cond \in [Battlers -> Conditions] BY DEF Typed, TypeOK
<1>2. \A d \in Battlers : /\ cond'[d] = "dead" <=> cond[d] = "dead"
                          /\ cond'[d] = "stone" <=> cond[d] = "stone"
  BY <1>1 DEF Exists, Healed
<1>3. \A d \in Battlers : Exists(d)' <=> Exists(d) BY <1>2 DEF Exists
<1>4. ToSet(party) \subseteq Battlers /\ ToSet(Troop) \subseteq Battlers BY PartiesAre
<1>5. Lost' <=> Lost BY <1>2, <1>4 DEF Lost
<1>6. Won' <=> Won BY <1>3, <1>4 DEF Won, Active
<1>7. cond' \in [Battlers -> Conditions] BY <1>1 DEF Conditions, Healed
<1> QED BY <1>2, <1>3, <1>5, <1>6, <1>7

(* Between turns: nobody acts, and the battle is decided, a page is run or *)
(* everybody has acted.                                                    *)
LEMMA NoTurnFollows ==
  ASSUME IInv, state = "Battle", ~force_flee, turn.step = "none", spoils = 0,
         UNCHANGED <<actor_index, first_strike, party, hidden, cond, turn, message, force_flee, op,
                     spoils>>,
         pc' \in {"loop", "events"}, Queued', left' \in Nat, executed' \subseteq Pages,
         \/ state' \in {"Victory", "Defeat"} /\ substate' = "begin" /\ page' = NoOne
         \/ state' = "Battle" /\ substate' = "begin" /\ page' \in Pages \cup {NoOne}
         \/ /\ state' = "Battle" /\ substate' = "post" /\ page' = NoOne
            /\ battle_actions' = <<>>
  PROVE  IInv'
<1>1. Typed'
  <2>1. battle_actions' \in Seq(Battlers) BY DEF Queued, Fits
  <2>2. TypeOK' BY <2>1 DEF IInv, Typed, TypeOK
  <2> QED BY <2>2 DEF IInv, Typed, States, Substates
<1>2. Commands' BY DEF Commands, AskedInOrder, Asking
<1>3. BetweenTurns' BY DEF BetweenTurns, Running
<1>4. Undecided' BY DEF Undecided, Asking
<1>5. Fleeing' BY DEF Fleeing
<1>6. Acting' BY DEF Acting, TargetThere
<1>7. Scored' BY DEF IInv, Scored
<1> QED BY <1>1, <1>2, <1>3, <1>4, <1>5, <1>6, <1>7 DEF IInv

LEMMA PreActions ==
  ASSUME IInv, PreAction
  PROVE  IInv'
<1>1. /\ pc = "loop" /\ page = NoOne /\ ~Left /\ state = "Battle" /\ substate = "begin"
      /\ ~force_flee /\ pc' = "loop" /\ turn.step = "none" /\ spoils = 0
      /\ UNCHANGED <<actor_index, first_strike, party, hidden, message, spoils>>
  <2>1. /\ pc = "loop" /\ page = NoOne /\ ~Left /\ state = "Battle" /\ substate = "begin"
        /\ ~force_flee
    <3>1. In("Battle", "begin") BY DEF PreAction
    <3> QED BY <3>1, InIs
  <2>2. turn.step = "none" /\ spoils = 0 BY <2>1 DEF IInv, Acting, Typed, Turns, Scored
  <2> QED BY <2>1, <2>2 DEF PreAction, Continues, outcome
<1>2. Typed /\ Queued /\ battle_actions \in Seq(Battlers) BY DEF IInv, Queued, Fits
<1>3. Gone \in 0 .. Len(battle_actions) BY <1>2, GoneIs
<1> DEFINE Ends == /\ state' \in {"Victory", "Defeat"} /\ substate' = "begin" /\ page' = NoOne
           Runs == /\ state' = "Battle" /\ substate' = "begin" /\ page' \in Pages
           Done == /\ state' = "Battle" /\ substate' = "post" /\ page' = NoOne
                   /\ battle_actions' = <<>>
<1>4. CASE (Decided \/ Scheduled) /\ RemoveActions(Gone) /\ UNCHANGED <<turn, cond>>
  <2>1. Queued' BY <1>2, <1>3, <1>4, ActionsRemoved
  <2>2. /\ Ends \/ Runs
        /\ left' \in Nat /\ executed' \subseteq Pages /\ UNCHANGED <<force_flee, op>>
    BY <1>1, <1>2, <1>4, ChecksEnd, BattleAssumption DEF events, Typed, TypeOK
  <2> QED BY <1>1, <1>4, <2>1, <2>2, NoTurnFollows
<1>5. CASE /\ NothingHappens /\ Gone = Len(battle_actions)
           /\ RemoveActions(Gone) /\ SetSubState("post") /\ UNCHANGED <<turn, cond>>
  <2>1. Queued' /\ battle_actions' = <<>> BY <1>2, <1>3, <1>5, ActionsRemoved
  <2>2. /\ Done
        /\ left' \in Nat /\ executed' \subseteq Pages /\ UNCHANGED <<force_flee, op>>
    BY <1>1, <1>2, <1>5, <2>1 DEF NothingHappens, SetSubState, events, Typed, TypeOK
  <2> QED BY <1>1, <1>5, <2>1, <2>2, NoTurnFollows
<1>6. CASE /\ NothingHappens /\ Gone < Len(battle_actions) /\ SetSubState("action")
           /\ battle_actions' = SubSeq(battle_actions, Gone + 1, Len(battle_actions))
           /\ LET b == battle_actions[Gone + 1]
                  gone == ToSet(SubSeq(battle_actions, 1, Gone))
                  given(a) == [c \in Battlers |-> IF c = b THEN a
                                                  ELSE IF c \in gone THEN NoAlgo ELSE algo[c]]
              IN \E a \in Prepared(b, algo[b]) :
                   /\ turn' = [NoTurn EXCEPT !.step = IF a.type = "None" THEN "Finished"
                                                                         ELSE "Usage",
                                             !.action = a]
                   /\ \E c \in Healed(b) : Becomes(b, c, given(a))
  <2> DEFINE b == battle_actions[Gone + 1]
  <2>1. PICK a \in Prepared(b, algo[b]), c \in Healed(b) :
          /\ turn' = [NoTurn EXCEPT !.step = IF a.type = "None" THEN "Finished" ELSE "Usage",
                                    !.action = a]
          /\ Becomes(b, c, TurnTable(b, a))
    BY <1>6 DEF TurnTable
  <2>0. /\ b = battle_actions[Gone + 1] /\ Gone < Len(battle_actions)
        /\ battle_actions' = SubSeq(battle_actions, Gone + 1, Len(battle_actions))
    BY <1>6
  <2> HIDE DEF b
  <2>2. /\ Queued' /\ b \in Battlers /\ Exists(b) /\ battle_actions' # <<>>
        /\ Source' = b /\ a \in Possible(b) \cup {None}
    <3>1. /\ Fits(battle_actions', TurnTable(b, a)) /\ b \in Battlers /\ Exists(b)
          /\ battle_actions' # <<>> /\ Source' = b /\ a \in Possible(b) \cup {None}
      BY <1>2, <2>0, <2>1, TurnBegins
    <3>2. Fits(battle_actions', algo') BY <2>1, <3>1, BecomesFits
    <3> QED BY <3>1, <3>2 DEF Queued
  <2>3. /\ \A d \in Battlers : Exists(d)' <=> Exists(d)
        /\ (Lost' <=> Lost) /\ (Won' <=> Won) /\ cond' \in [Battlers -> Conditions]
    <3>1. cond' = [cond EXCEPT ![b] = c] BY <2>1 DEF Becomes
    <3> QED BY <1>1, <1>2, <2>1, <2>2, <3>1, SamePresent
  <2>4. /\ state' = "Battle" /\ substate' = "action" /\ ~Lost /\ ~Won
        /\ UNCHANGED <<page, left, executed, force_flee, op>>
    BY <1>1, <1>6 DEF NothingHappens, SetSubState, events
  <2>5. /\ turn'.step = (IF a.type = "None" THEN "Finished" ELSE "Usage") /\ turn' \in Turns
        /\ Action' = a
    <3> DEFINE s == IF a.type = "None" THEN "Finished" ELSE "Usage"
    <3>1. s \in {"none", "Usage", "Execute", "Finished"} OBVIOUS
    <3>2. turn' = [NoTurn EXCEPT !.step = s, !.action = a] BY <2>1
    <3> HIDE DEF s
    <3>3. <<>> \in Seq(Battlers) OBVIOUS
    <3>4. a \in Kinds BY <2>2, KindsAre
    <3>5. turn'.step = s /\ turn' \in Turns /\ turn'.action = a
      BY <3>1, <3>2, <3>3, <3>4 DEF NoTurn, Turns
    <3> QED BY <3>5 DEF s, Action
  <2>6. turn'.step = "Usage" => a # None BY <2>5 DEF None
  <2>7. Typed'
    <3>1. battle_actions' \in Seq(Battlers) BY <2>2 DEF Queued, Fits
    <3>2. TypeOK' BY <1>1, <1>2, <2>3, <2>4, <3>1 DEF Typed, TypeOK
    <3> QED BY <1>1, <1>2, <2>4, <2>5, <3>2 DEF Typed, States, Substates
  <2>8. Commands' BY <2>4 DEF Commands, AskedInOrder, Asking
  <2>9. BetweenTurns' BY <1>1, <2>4 DEF BetweenTurns, Running
  <2>10. Undecided' BY <2>4 DEF Undecided, Asking
  <2>11. Fleeing' BY <1>1, <2>4 DEF Fleeing
  <2>12. Exists(Source)' BY <2>2, <2>3 DEF Exists
  <2>13. Acting'
    BY <1>1, <2>2, <2>3, <2>4, <2>5, <2>6, <2>12 DEF Acting, TargetThere
  <2>14. Scored' BY <1>1, <2>4 DEF IInv, Scored
  <2> QED BY <2>2, <2>7, <2>8, <2>9, <2>10, <2>11, <2>13, <2>14 DEF IInv
<1> QED BY <1>4, <1>5, <1>6 DEF PreAction

-----------------------------------------------------------------------------
(* A turn *)

(* What is so in a turn, and stays so                                      *)
LEMMA InTurnIs ==
  ASSUME IInv, NEW s \in {"Usage", "Execute", "Finished"}, Step(s)
  PROVE  /\ pc = "loop" /\ page = NoOne /\ ~Left /\ state = "Battle" /\ substate = "action"
         /\ ~force_flee /\ turn.step = s /\ battle_actions # <<>> /\ Typed /\ Queued
         /\ Source \in Battlers /\ Source \in ToSet(battle_actions)
         /\ Action \in Possible(Source) \cup {None}
<1>1. /\ pc = "loop" /\ page = NoOne /\ ~Left /\ state = "Battle" /\ substate = "action"
      /\ ~force_flee /\ turn.step = s
  BY InIs DEF Step
<1>2. /\ battle_actions # <<>> /\ Typed /\ Queued
      /\ Action \in Possible(Source) \cup {None}
  BY <1>1 DEF IInv, Acting
<1>3. battle_actions \in Seq(Battlers) BY <1>2 DEF Queued, Fits
<1>4. 1 \in 1 .. Len(battle_actions) /\ Head(battle_actions) = battle_actions[1]
  BY <1>2, <1>3
<1>5. Source \in ToSet(battle_actions) /\ Source \in Battlers BY <1>3, <1>4, InSet DEF Source
<1> QED BY <1>1, <1>2, <1>5

LEMMA TurnGoesOn ==
  ASSUME IInv, state = "Battle", substate = "action", ~force_flee, battle_actions # <<>>,
         UNCHANGED <<state, previous_state, substate, actor_index, battle_actions,
                     first_strike, party, page, left, executed, force_flee, op, message,
                     spoils>>,
         turn.step # "none", turn'.action = turn.action, Queued',
         page = NoOne, pc' \in {"loop", "events", "crashed"},
         hidden' \subseteq Enemies, cond' \in [Battlers -> Conditions],
         turn' \in Turns, turn'.step \in {"Execute", "Finished"}, TargetThere'
  PROVE  IInv'
<1>1. Typed'
  <2>1. TypeOK' BY DEF IInv, Typed, TypeOK
  <2> QED BY <2>1 DEF IInv, Typed
<1>2. Action' \in Possible(Source)' \cup {None}
  BY DEF IInv, Acting, Action, Source, Possible, Battlers
<1>3. Commands' BY DEF Commands, AskedInOrder, Asking
<1>4. BetweenTurns' BY DEF BetweenTurns, Running
<1>5. Undecided' BY DEF Undecided, Asking
<1>6. Fleeing' BY DEF Fleeing
<1>7. Acting' BY <1>2 DEF Acting
<1>8. Scored' BY DEF IInv, Scored
<1> QED BY <1>1, <1>2, <1>3, <1>4, <1>5, <1>6, <1>7, <1>8 DEF IInv

LEMMA Uses ==
  ASSUME IInv, ActionUsage
  PROVE  IInv'
<1>1. Step("Usage") BY DEF ActionUsage
<1>2. /\ pc = "loop" /\ page = NoOne /\ ~Left /\ state = "Battle" /\ substate = "action"
      /\ ~force_flee /\ turn.step = "Usage" /\ battle_actions # <<>> /\ Typed
      /\ Source \in Battlers
  BY <1>1, InTurnIs
<1>3. Exists(Source) /\ ~Lost /\ ~Won /\ Action \in Possible(Source) /\ Queued
  BY <1>2 DEF IInv, Acting
<1>4. PICK ts \in {Started(Source, Action)} \cup Reflected(Started(Source, Action)),
           n \in (IF Action.type = "Normal" THEN Repeats ELSE {1}) :
        turn' = [turn EXCEPT !.step = "Execute", !.targets = ts, !.repeat = n, !.done = 0]
  BY DEF ActionUsage
<1>5. /\ pc' = "events"
      /\ UNCHANGED <<state, previous_state, substate, actor_index, battle_actions, algo,
                     first_strike, party, hidden, cond, page, left, executed, force_flee, op,
                     message, spoils>>
  BY DEF ActionUsage, NextFrame, scene, queue, members, events, outcome
<1>6. ts \in Seq(Battlers) /\ (ts = <<>> => Action.target \in Actors \ ToSet(party))
  BY <1>2, <1>3, StartedIs, ReflectedIs
<1>7. n \in Nat
  <2>1. CASE Action.type = "Normal" BY <1>4, <2>1, BattleAssumption
  <2>2. CASE Action.type # "Normal" BY <1>4, <2>2
  <2> QED BY <2>1, <2>2
<1>8. /\ turn' \in Turns /\ turn'.step = "Execute" /\ turn'.targets = ts
      /\ turn'.action = turn.action
  <2>1. turn \in Turns BY <1>2 DEF Typed
  <2> QED BY <1>4, <1>6, <1>7, <2>1 DEF Turns
<1>9. TargetThere' BY <1>5, <1>6, <1>8 DEF TargetThere, Action, Source
<1>10. hidden \subseteq Enemies /\ cond \in [Battlers -> Conditions] BY <1>2 DEF Typed, TypeOK
<1>11. Queued' BY <1>3, <1>5 DEF Queued
<1> QED BY <1>2, <1>5, <1>8, <1>9, <1>10, <1>11, TurnGoesOn

LEMMA Executes ==
  ASSUME IInv, ActionExecute
  PROVE  IInv'
<1>1. Step("Execute") BY DEF ActionExecute
<1>2. /\ pc = "loop" /\ page = NoOne /\ ~Left /\ state = "Battle" /\ substate = "action"
      /\ ~force_flee /\ battle_actions # <<>> /\ Typed /\ Queued /\ Source \in Battlers
      /\ Source \in ToSet(battle_actions) /\ turn.step = "Execute"
      /\ Action \in Possible(Source) \cup {None}
  BY <1>1, InTurnIs
<1>3. /\ pc' = "loop" /\ turn' = [turn EXCEPT !.step = "Finished"]
      /\ UNCHANGED <<state, previous_state, substate, actor_index, battle_actions,
                     first_strike, party, page, left, executed, force_flee, op, message,
                     spoils>>
  BY DEF ActionExecute, Continues, scene, events, outcome
<1>4. turn \in Turns /\ hidden \subseteq Enemies /\ cond \in [Battlers -> Conditions]
  BY <1>2 DEF Typed, TypeOK
<1>5. turn' \in Turns /\ turn'.step = "Finished" /\ turn'.action = turn.action
  BY <1>3, <1>4 DEF Turns
<1>6. Head(turn.targets) \in Battlers
  <2>1. turn.targets # <<>> /\ turn.targets \in Seq(Battlers)
    BY <1>4 DEF ActionExecute, Turns
  <2> QED BY <2>1
<1>7. Action.type = "Escape" => Source \in Enemies
  <2>1. None.type # "Escape" BY DEF None
  <2> QED BY <1>2, <2>1 DEF Possible
<1> DEFINE t == Head(turn.targets)
<1>8. \/ UNCHANGED <<hidden, cond, algo>>
      \/ UNCHANGED hidden /\ \E c \in Conditions : Becomes(t, c, algo)
      \/ Action.type = "Escape" /\ UNCHANGED <<cond, algo>> /\ hidden' = hidden \cup {Source}
  <2>1. Inflicted[t] \subseteq Conditions /\ "well" \in Conditions
    BY <1>6, BattleAssumption DEF Conditions
  <2> QED BY <2>1 DEF ActionExecute
<1>9. TargetThere' BY <1>5 DEF TargetThere
<1>10. hidden' \subseteq Enemies /\ cond' \in [Battlers -> Conditions] /\ Queued'
  <2>1. CASE UNCHANGED <<hidden, cond, algo>> BY <1>2, <1>3, <1>4, <2>1 DEF Queued
  <2>2. ASSUME UNCHANGED hidden, NEW c \in Conditions, Becomes(t, c, algo)
        PROVE  hidden' \subseteq Enemies /\ cond' \in [Battlers -> Conditions] /\ Queued'
    <3>1. t \in Battlers BY <1>6
    <3> HIDE DEF t
    <3>2. cond' \in [Battlers -> Conditions] BY <1>4, <2>2, <3>1 DEF Becomes
    <3>3. Fits(battle_actions, algo') BY <1>2, <2>2, <3>1, BecomesFits DEF Queued
    <3> QED BY <1>3, <1>4, <2>2, <3>2, <3>3 DEF Queued
  <2>3. CASE Action.type = "Escape" /\ UNCHANGED <<cond, algo>> /\ hidden' = hidden \cup {Source}
    BY <1>2, <1>3, <1>4, <1>7, <2>3 DEF Queued
  <2> QED BY <1>8, <2>1, <2>2, <2>3
<1> QED BY <1>2, <1>3, <1>5, <1>9, <1>10, TurnGoesOn

LEMMA Crashes ==
  ASSUME IInv, NoTarget
  PROVE  IInv'
<1>1. Step("Execute") BY DEF NoTarget, Step
<1>2. /\ page = NoOne /\ state = "Battle" /\ substate = "action" /\ ~force_flee
      /\ battle_actions # <<>> /\ Typed /\ Queued
  BY <1>1, InTurnIs
<1>3. /\ pc' = "crashed" /\ turn.step = "Execute"
      /\ UNCHANGED <<state, previous_state, substate, actor_index, battle_actions, algo, turn,
                     first_strike, party, hidden, cond, page, left, executed, force_flee, op,
                     message, spoils>>
  BY DEF NoTarget, scene, queue, members, events, outcome
<1>4. TargetThere' BY <1>3 DEF IInv, Acting, TargetThere, Action, Source
<1>5. turn \in Turns /\ hidden \subseteq Enemies /\ cond \in [Battlers -> Conditions]
  BY <1>2 DEF Typed, TypeOK
<1>6. Queued' BY <1>2, <1>3 DEF Queued
<1> QED BY <1>2, <1>3, <1>4, <1>5, <1>6, TurnGoesOn

LEMMA Finishes ==
  ASSUME IInv, ActionFinished
  PROVE  IInv'
<1> DEFINE ts == turn.targets
           more == /\ ts # <<>> /\ turn.done + 1 < turn.repeat
                   /\ IsTargetValid(Action.type, Head(ts))
           rest == IF ts = <<>> THEN <<>> ELSE FromValid(Action.type, Tail(ts))
<1>1. Step("Finished") BY DEF ActionFinished
<1>2. /\ pc = "loop" /\ page = NoOne /\ ~Left /\ state = "Battle" /\ substate = "action"
      /\ ~force_flee /\ battle_actions # <<>> /\ Typed /\ Queued /\ turn.step = "Finished"
  BY <1>1, InTurnIs
<1>3. /\ pc' = "loop"
      /\ UNCHANGED <<actor_index, first_strike, party, hidden, cond, page, left, executed,
                     force_flee, op, message, spoils>>
  BY DEF ActionFinished, Continues, members, events, outcome
<1>4. turn \in Turns /\ hidden \subseteq Enemies /\ cond \in [Battlers -> Conditions]
      /\ ts \in Seq(Battlers) /\ turn.done + 1 \in Nat
  BY <1>2 DEF Typed, TypeOK, Turns
<1>5. \/ /\ more /\ turn' = [turn EXCEPT !.step = "Execute", !.done = @ + 1]
         /\ UNCHANGED <<scene, queue>>
      \/ /\ rest # <<>>
         /\ turn' = [turn EXCEPT !.step = "Execute", !.targets = rest, !.done = 0]
         /\ UNCHANGED <<scene, queue>>
      \/ turn' = NoTurn /\ SetSubState("begin") /\ RemoveActions(1)
  BY DEF ActionFinished
<1>6. CASE /\ more /\ turn' = [turn EXCEPT !.step = "Execute", !.done = @ + 1]
           /\ UNCHANGED <<scene, queue>>
  <2>1. /\ turn' \in Turns /\ turn'.step = "Execute" /\ turn'.targets = ts /\ ts # <<>>
        /\ turn'.action = turn.action
    BY <1>4, <1>6 DEF Turns
  <2>2. TargetThere' BY <2>1 DEF TargetThere
  <2>3. Queued' BY <1>2, <1>6 DEF Queued, queue
  <2> QED BY <1>2, <1>3, <1>4, <1>6, <2>1, <2>2, <2>3, TurnGoesOn DEF scene, queue
<1>7. CASE /\ rest # <<>>
           /\ turn' = [turn EXCEPT !.step = "Execute", !.targets = rest, !.done = 0]
           /\ UNCHANGED <<scene, queue>>
  <2>1. rest \in Seq(Battlers)
    <3>1. ts # <<>> => Tail(ts) \in Seq(Battlers) BY <1>4
    <3> QED BY <1>7, <3>1, ValidIs
  <2> HIDE DEF rest
  <2>2. /\ turn' \in Turns /\ turn'.step = "Execute" /\ turn'.targets = rest
        /\ turn'.action = turn.action
    BY <1>4, <1>7, <2>1 DEF Turns
  <2>3. TargetThere' BY <1>7, <2>2 DEF TargetThere
  <2>4. Queued' BY <1>2, <1>7 DEF Queued, queue
  <2> QED BY <1>2, <1>3, <1>4, <1>7, <2>2, <2>3, <2>4, TurnGoesOn DEF scene, queue
<1>8. CASE turn' = NoTurn /\ SetSubState("begin") /\ RemoveActions(1)
  <2>1. battle_actions \in Seq(Battlers) BY <1>2 DEF Queued, Fits
  <2>2. 1 \in 0 .. Len(battle_actions) BY <1>2, <2>1
  <2>3. Queued' BY <1>2, <1>8, <2>2, ActionsRemoved
  <2>4. state' = "Battle" /\ substate' = "begin" BY <1>2, <1>8 DEF SetSubState
  <2>5. turn'.step = "none" /\ turn' \in Turns
    <3>1. <<>> \in Seq(Battlers) OBVIOUS
    <3> QED BY <1>8, <3>1 DEF NoTurn, NoAlgo, Kinds, Turns
  <2>6. Typed'
    <3>1. battle_actions' \in Seq(Battlers) BY <2>3 DEF Queued, Fits
    <3>2. TypeOK' BY <1>2, <1>3, <3>1 DEF Typed, TypeOK
    <3> QED BY <1>2, <1>3, <2>4, <2>5, <3>2 DEF Typed, States, Substates
  <2>7. Commands' BY <2>4 DEF Commands, AskedInOrder, Asking
  <2>8. BetweenTurns' BY <2>4 DEF BetweenTurns, Running
  <2>9. Undecided' BY <2>4 DEF Undecided, Asking
  <2>10. Fleeing' BY <1>2, <1>3, <2>4 DEF Fleeing
  <2>11. Acting' BY <2>4, <2>5 DEF Acting, TargetThere
  <2>12. Scored' BY <1>2, <1>3, <2>4 DEF IInv, Scored
  <2> QED BY <2>3, <2>6, <2>7, <2>8, <2>9, <2>10, <2>11, <2>12 DEF IInv
<1> QED BY <1>5, <1>6, <1>7, <1>8

LEMMA RoundEnded ==
  ASSUME IInv, Post
  PROVE  IInv'
<1>1. /\ pc = "loop" /\ page = NoOne /\ ~Left /\ state = "Battle" /\ substate = "post"
      /\ ~force_flee /\ battle_actions = <<>> /\ turn.step = "none" /\ spoils = 0
  <2>1. /\ pc = "loop" /\ page = NoOne /\ ~Left /\ state = "Battle" /\ substate = "post"
        /\ ~force_flee
    BY InIs DEF Post
  <2> QED BY <2>1 DEF IInv, Acting, Typed, Turns, Scored
<1>2. /\ pc' = "events" /\ state' = "SelectOption" /\ substate' = "begin" /\ actor_index' = 0
      /\ first_strike' = FALSE
      /\ UNCHANGED <<battle_actions, algo, turn, party, hidden, cond, page, left, executed,
                     force_flee, op, message, spoils>>
  BY DEF Post, SetState, NextFrame, queue, members, events, outcome
<1>3. Typed'
  <2>1. first_strike' \in BOOLEAN BY Zenon, <1>2
  <2>2. TypeOK' BY <1>2 DEF IInv, Typed, TypeOK
  <2> QED BY <1>2, <2>1, <2>2 DEF IInv, Typed, States, Substates
<1>4. Queued' BY <1>2 DEF IInv, Queued
<1>5. Commands' BY <1>1, <1>2 DEF Commands, AskedInOrder, Asking
<1>6. BetweenTurns' BY <1>1, <1>2 DEF BetweenTurns, Running
<1>7. Undecided' BY <1>2 DEF Undecided, Asking
<1>8. Fleeing' BY <1>1, <1>2 DEF Fleeing
<1>9. Acting' BY <1>1, <1>2 DEF Acting, TargetThere
<1>10. Scored' BY <1>1, <1>2 DEF IInv, Scored
<1> QED BY <1>3, <1>4, <1>5, <1>6, <1>7, <1>8, <1>9, <1>10 DEF IInv

-----------------------------------------------------------------------------
(* The end *)

LEMMA Announces ==
  ASSUME IInv, VictoryBegin \/ DefeatBegin
  PROVE  IInv'
<1>1. /\ pc = "loop" /\ page = NoOne /\ ~Left /\ state \in {"Victory", "Defeat"} /\ substate = "begin"
      /\ ~force_flee
  <2>1. CASE In("Victory", "begin") BY <2>1, InIs
  <2>2. CASE In("Defeat", "begin") BY <2>2, InIs
  <2> QED BY <2>1, <2>2 DEF VictoryBegin, DefeatBegin
<1>2. turn.step = "none" BY <1>1 DEF IInv, Acting, Typed, Turns
<1>3. /\ pc' = "loop" /\ substate' = "end" /\ state' = state /\ message' = TRUE
      /\ spoils' = IF state = "Victory" THEN spoils + 1 ELSE spoils
      /\ UNCHANGED <<actor_index, battle_actions, algo, turn, first_strike, party, hidden, cond,
                     page, left, executed, force_flee, op>>
  BY InIs DEF VictoryBegin, DefeatBegin, SetSubState, Continues, queue, members, events, outcome
<1>4. Scored' BY <1>1, <1>3 DEF IInv, Scored
<1>5. Typed'
  <2>1. message' \in BOOLEAN BY Zenon, <1>3
  <2>2. spoils' \in 0 .. 1 BY <1>4 DEF Scored
  <2>3. TypeOK' BY <1>3, <2>2 DEF IInv, Typed, TypeOK
  <2> QED BY <1>3, <2>1, <2>3 DEF IInv, Typed, Substates
<1>6. Queued' BY <1>3 DEF IInv, Queued
<1>7. Commands' BY <1>1, <1>3 DEF Commands, AskedInOrder, Asking
<1>8. BetweenTurns' BY <1>1, <1>3 DEF BetweenTurns, Running
<1>9. Undecided' BY <1>1, <1>3 DEF Undecided, Asking
<1>10. Fleeing' BY <1>1, <1>3 DEF Fleeing
<1>11. Acting' BY <1>1, <1>2, <1>3 DEF Acting, TargetThere
<1> QED BY <1>4, <1>5, <1>6, <1>7, <1>8, <1>9, <1>10, <1>11 DEF IInv

LEMMA TriesEscape ==
  ASSUME IInv, TryEscape
  PROVE  IInv'
<1>1. pc = "loop" /\ page = NoOne /\ ~Left /\ state = "Escape" /\ substate = "begin"
  BY InIs DEF TryEscape
<1>2. turn.step = "none" /\ spoils = 0 BY <1>1 DEF IInv, Acting, Typed, Turns, Scored
<1>3. /\ pc' = "events" /\ state' = "Escape"
      /\ \/ substate' = "success"
         \/ substate' = "failure" /\ ~first_strike /\ ~force_flee
      /\ UNCHANGED <<actor_index, battle_actions, algo, turn, first_strike, party, hidden, cond,
                     page, left, executed, force_flee, op, message, spoils>>
  BY <1>1 DEF TryEscape, SetSubState, NextFrame, queue, members, events, outcome
<1>4. Typed'
  <2>1. TypeOK' BY <1>3 DEF IInv, Typed, TypeOK
  <2> QED BY <1>3, <2>1 DEF IInv, Typed, States, Substates
<1>5. Queued' BY <1>3 DEF IInv, Queued
<1>6. Commands' BY <1>3 DEF Commands, AskedInOrder, Asking
<1>7. BetweenTurns' BY <1>1, <1>3 DEF BetweenTurns, Running
<1>8. Undecided'
  BY <1>1, <1>3 DEF IInv, Undecided, Asking, Left, Lost, Won, Active, Exists
<1>9. Fleeing' BY <1>1, <1>3 DEF IInv, Fleeing
<1>10. Acting' BY <1>2, <1>3 DEF Acting, TargetThere
<1>11. Scored' BY <1>2, <1>3 DEF IInv, Scored
<1> QED BY <1>4, <1>5, <1>6, <1>7, <1>8, <1>9, <1>10, <1>11 DEF IInv

LEMMA FailsToEscape ==
  ASSUME IInv, EscapeFailed
  PROVE  IInv' /\ ToSet(battle_actions') = Enemies /\ Enemies # {}
<1>1. pc = "loop" /\ page = NoOne /\ ~Left /\ state = "Escape" /\ substate = "failure"
  BY InIs DEF EscapeFailed
<1>2. /\ turn.step = "none" /\ spoils = 0 /\ ~force_flee /\ ~first_strike
      /\ battle_actions = <<>> /\ ~Won
  BY <1>1 DEF IInv, Acting, Typed, Turns, Scored, Fleeing, Undecided
<1>3. ToSet(battle_actions) = {} BY <1>2 DEF ToSet
<1>4. /\ Fits(battle_actions', algo') /\ ToSet(battle_actions') = Enemies
      /\ state' = "Battle" /\ substate' = "begin" /\ executed' = {}
      /\ UNCHANGED <<page, left, force_flee, op>>
  <2>1. Fits(battle_actions, algo) BY DEF IInv, Queued
  <2>2. BeginRound(battle_actions, algo) BY DEF EscapeFailed
  <2>3. ToSet(battle_actions) \subseteq Actors BY <1>3
  <2>4. /\ Fits(battle_actions', algo')
        /\ ToSet(battle_actions') = ToSet(battle_actions)
                                      \cup (IF first_strike THEN {} ELSE Enemies)
        /\ state' = "Battle" /\ substate' = "begin" /\ executed' = {}
        /\ UNCHANGED <<page, left, force_flee, op>>
    BY <2>1, <2>2, <2>3, RoundBegins
  <2> QED BY <1>2, <1>3, <2>4
<1>5. /\ pc' = "loop"
      /\ UNCHANGED <<actor_index, turn, first_strike, party, hidden, cond, message,
                     spoils>>
  BY DEF EscapeFailed, Continues, members, outcome
<1>6. Typed'
  <2>1. battle_actions' \in Seq(Battlers) BY <1>4 DEF Fits
  <2>2. TypeOK' BY <1>4, <1>5, <2>1 DEF IInv, Typed, TypeOK
  <2> QED BY <1>4, <1>5, <2>2 DEF IInv, Typed, States, Substates
<1>7. Queued' BY <1>4 DEF Queued
<1>8. Commands' BY <1>4 DEF Commands, AskedInOrder, Asking
<1>9. BetweenTurns' BY <1>4 DEF BetweenTurns
<1>10. Undecided' BY <1>4 DEF Undecided, Asking
<1>11. Fleeing' BY <1>2, <1>4 DEF Fleeing
<1>12. Acting' BY <1>2, <1>4, <1>5 DEF Acting, TargetThere
<1>13. Scored' BY <1>2, <1>4, <1>5 DEF IInv, Scored
<1>14. Enemies # {} BY <1>2 DEF Won, Active, Enemies
<1> QED BY <1>4, <1>6, <1>7, <1>8, <1>9, <1>10, <1>11, <1>12, <1>13, <1>14 DEF IInv

LEMMA BattleEnds ==
  ASSUME IInv, End
  PROVE  IInv'
<1>1. /\ UNCHANGED <<state, previous_state, substate, actor_index, first_strike, party, op,
                     message, spoils>>
  BY DEF End, scene
<1>2. CASE Quit
  <2>1. Scored' BY <1>1 DEF IInv, Scored
  <2>2. state' \in States /\ substate' \in Substates BY <1>1 DEF IInv, Typed
  <2> QED BY <1>1, <1>2, <2>1, <2>2, Quits
<1>3. CASE /\ In("Escape", "success") /\ Continues
           /\ UNCHANGED <<queue, turn, hidden, cond, page, left, executed, force_flee>>
  <2>1. /\ pc = "loop" /\ page = NoOne /\ ~Left /\ state = "Escape" /\ substate = "success"
    BY <1>3, InIs
  <2>2. pc' = "loop" BY <1>3 DEF Continues
  <2>3. Typed' BY <1>1, <1>3, <2>2 DEF IInv, Typed, TypeOK, queue
  <2>4. Queued' BY <1>3 DEF IInv, Queued, queue
  <2>5. Commands' BY <1>1, <2>1 DEF Commands, AskedInOrder, Asking
  <2>6. BetweenTurns' BY <1>3, <2>1 DEF BetweenTurns, Running
  <2>7. Undecided'
    BY <1>1, <1>3, <2>1 DEF IInv, Undecided, Asking, Left, Lost, Won, Active, Exists
  <2>8. Fleeing' BY <1>1, <1>3, <2>1 DEF IInv, Fleeing, queue
  <2>9. Acting'
    <3>1. turn'.step = "none" BY <1>3, <2>1 DEF IInv, Acting, Typed, Turns
    <3> QED BY <1>1, <2>1, <3>1 DEF Acting, TargetThere
  <2>10. Scored' BY <1>1, <2>1, <2>2 DEF IInv, Scored
  <2> QED BY <2>3, <2>4, <2>5, <2>6, <2>7, <2>8, <2>9, <2>10 DEF IInv
<1> QED BY <1>2, <1>3 DEF End

LEMMA Stutters ==
  ASSUME IInv, UNCHANGED vars
  PROVE  IInv'
<1>1. /\ UNCHANGED <<state, previous_state, substate, actor_index, battle_actions, algo, turn,
                     first_strike, party, hidden, cond, executed, force_flee, op, pc, top,
                     ends, result, spoils>>
      /\ page' = page /\ left' = left /\ message' = message
  BY DEF vars, scene, queue, members, events, outcome
<1>2. page' \in {page, NoOne} /\ left' \in {left, 0} /\ message' \in {message, FALSE} BY <1>1
<1> QED BY <1>1, <1>2, SameButPages

LEMMA Inductive == IInv /\ [Next]_vars => IInv'
<1> SUFFICES ASSUME IInv, [Next]_vars PROVE IInv' OBVIOUS
<1>1. CASE PageCommand BY <1>1, PageCommands
<1>2. CASE PageEnds \/ MessageClosed BY <1>2, PageEnding
<1>3. CASE UpdateBattleState BY <1>3, Updates
<1>4. CASE LoopLeft BY <1>4, LoopLeaves
<1>5. CASE Start BY <1>5, Starts
<1>6. CASE SelectOptionBegin BY <1>6, OptionsBegin
<1>7. CASE SelectOption BY <1>7, OptionsChosen
<1>8. CASE SelectActor BY <1>8, SelectsActor
<1>9. CASE SelectCommand \/ SelectSkillOrItem \/ SelectTarget BY <1>9, Chooses
<1>10. CASE PreAction BY <1>10, PreActions
<1>11. CASE ActionUsage BY <1>11, Uses
<1>12. CASE ActionExecute BY <1>12, Executes
<1>13. CASE NoTarget BY <1>13, Crashes
<1>14. CASE ActionFinished BY <1>14, Finishes
<1>15. CASE Post BY <1>15, RoundEnded
<1>16. CASE VictoryBegin \/ DefeatBegin BY <1>16, Announces
<1>17. CASE TryEscape BY <1>17, TriesEscape
<1>18. CASE EscapeFailed BY <1>18, FailsToEscape
<1>19. CASE End BY <1>19, BattleEnds
<1>20. CASE Over \/ UNCHANGED vars BY <1>20, Stutters DEF Over
<1> QED
  BY <1>1, <1>2, <1>3, <1>4, <1>5, <1>6, <1>7, <1>8, <1>9, <1>10, <1>11, <1>12, <1>13, <1>14,
     <1>15, <1>16, <1>17, <1>18, <1>19, <1>20 DEF Next

-----------------------------------------------------------------------------
(* The promise of Rounds, step by step *)

(* No outcome but that of a timer is known before the battle is left.      *)
Unknown == top = "battle" => result \in {"none", "Abort"}

LEMMA OnlyTwoEnd ==
  ASSUME [Next]_vars, ~UpdateBattleState, ~End
  PROVE  UNCHANGED <<top, ends, result>>
  BY DEF Next, PageCommand, PageEnds, MessageClosed, LoopLeft, Start, SelectOptionBegin,
         SelectOption, SelectActor, SelectCommand, SelectSkillOrItem, SelectTarget, PreAction,
         ActionUsage, ActionExecute, NoTarget, ActionFinished, Post, VictoryBegin, DefeatBegin,
         TryEscape, EscapeFailed, Over, vars, outcome

LEMMA StaysUnknown == IInv /\ Unknown /\ [Next]_vars => Unknown'
<1> SUFFICES ASSUME IInv, Unknown, [Next]_vars PROVE Unknown' OBVIOUS
<1>1. CASE ~UpdateBattleState /\ ~End BY <1>1, OnlyTwoEnd DEF Unknown
<1>2. CASE UpdateBattleState
  BY <1>2 DEF UpdateBattleState, StillOnTop, EndBattle, Unknown
<1>3. CASE End
  <2>1. top = "battle" BY <1>3 DEF End, In, StillOnTop
  <2> QED BY <1>3, <2>1 DEF End, EndBattle, Unknown
<1> QED BY <1>1, <1>2, <1>3

(* What Rounds sees of the scene while the battle goes on                  *)
LEMMA ViewIs ==
  ASSUME top = "battle"
  PROVE  /\ state = "Battle" => Phase = "round"
         /\ state = "Victory" => Phase = "won"
         /\ state = "Defeat" => Phase = "lost"
         /\ state = "Escape" => Phase = "fleeing"
         /\ state \notin {"Battle", "Victory", "Defeat", "Escape"} => Phase = "command"
         /\ state # "Battle" => ToAct = {} /\ Turner = NoOne
         /\ state = "Battle" /\ substate # "action" =>
              ToAct = ToSet(battle_actions) /\ Turner = NoOne
         /\ state = "Battle" /\ substate = "action" =>
              ToAct = ToSet(Tail(battle_actions)) /\ Turner = Source
  BY DEF Phase, ToAct, Turner, InTurn, Fighting

(* ... and when it is over                                                 *)
LEMMA OverIs ==
  ASSUME top # "battle"
  PROVE  Phase = "over" /\ ToAct = {} /\ Turner = NoOne
<1>1. ~Fighting /\ ~InTurn BY DEF Fighting, InTurn
<1> QED BY <1>1 DEF Phase, ToAct, Turner

(* Whoever is not moved by a step is there as before.                      *)
LEMMA SamePresence ==
  ASSUME UNCHANGED <<party, hidden, cond>>
  PROVE  UNCHANGED Present /\ UNCHANGED Able /\ (Lost' <=> Lost) /\ (Won' <=> Won)
  BY DEF Present, Able, Exists, Lost, Won, Active

Told == IF top = "battle" THEN "none" ELSE result
Seen == <<Phase, ToAct, Turner, first_strike, spoils, Told>>

(* A step that Rounds does not see, and one that changes only who is there *)
LEMMA Unseen ==
  ASSUME UNCHANGED Seen, UNCHANGED Present, UNCHANGED Able
  PROVE  UNCHANGED Promise!vars
  BY DEF Seen, Told, Promise!vars

LEMMA Changed ==
  ASSUME UNCHANGED Seen, Phase # "won"
  PROVE  Promise!Next
<1>1. Present' \in SUBSET (Actors \cup Enemies) /\ Able' \in SUBSET Present'
  BY DEF Present, Able, Battlers
<1> QED BY <1>1 DEF Seen, Told, Promise!Next, Promise!Change

(* Nothing of what Rounds sees changes as long as the scene stays in its   *)
(* state and the queue stays as it is.                                     *)
LEMMA SameView ==
  ASSUME UNCHANGED <<state, substate, battle_actions, first_strike, spoils, Told>>,
         top = "battle" <=> top' = "battle"
  PROVE  UNCHANGED Seen
<1>1. UNCHANGED <<Fighting, InTurn>> BY DEF Fighting, InTurn
<1>2. UNCHANGED Phase BY DEF Phase
<1>3. UNCHANGED ToAct BY <1>1 DEF ToAct
<1>4. UNCHANGED Turner BY <1>1 DEF Turner, Source
<1> QED BY <1>2, <1>3, <1>4 DEF Seen, Told

(* Nor while commands are given.                                           *)
LEMMA SameCommand ==
  ASSUME UNCHANGED <<first_strike, spoils>>, top = "battle", top' = "battle",
         state \notin {"Battle", "Victory", "Defeat", "Escape"},
         state' \notin {"Battle", "Victory", "Defeat", "Escape"}
  PROVE  UNCHANGED Seen
<1>1. Phase = "command" /\ ToAct = {} /\ Turner = NoOne BY ViewIs
<1>2. Phase' = "command" /\ ToAct' = {} /\ Turner' = NoOne
  BY DEF Phase, ToAct, Turner, InTurn, Fighting
<1> QED BY <1>1, <1>2 DEF Seen, Told

(* The battle is decided between two turns.                                *)
LEMMA Deciding ==
  ASSUME top = "battle", top' = "battle",
         state \notin {"Victory", "Defeat", "Escape"}, substate # "action",
         \/ state' = "Victory" /\ Won
         \/ state' = "Defeat" /\ Lost
         \/ state' = "Escape",
         UNCHANGED <<party, hidden, cond, first_strike, spoils>>
  PROVE  Promise!Next
<1>1. Phase \in {"command", "round"} /\ Turner = NoOne BY ViewIs
<1>2. /\ ToAct' = {} /\ Turner' = NoOne
      /\ state' = "Victory" => Phase' = "won"
      /\ state' = "Defeat" => Phase' = "lost"
      /\ state' = "Escape" => Phase' = "fleeing"
  BY DEF Phase, ToAct, Turner, InTurn, Fighting
<1>3. Present' = Present /\ Able' = Able BY SamePresence
<1>4. Won => Present \cap Enemies = {} BY DEF Won, Active, Present, Enemies
<1>5. Lost => Able \cap Actors = {} BY DEF Lost, Able, Present, Exists
<1>6. Told = "none" /\ Told' = "none" BY DEF Told
<1>7. Promise!Decide
  BY <1>1, <1>2, <1>3, <1>4, <1>5, <1>6 DEF Promise!Decide, Promise!Between, Told
<1> QED BY <1>7 DEF Promise!Next

(* The battle is left.                                                     *)
LEMMA Leaving ==
  ASSUME top = "battle", top' # "battle",
         \/ result' = "Victory" /\ state = "Victory" /\ spoils = 1
         \/ result' = "Defeat" /\ state = "Defeat"
         \/ result' = "Escape" /\ state = "Escape"
         \/ result' \in {"Abort", "none"},
         UNCHANGED <<first_strike, spoils>>
  PROVE  Promise!Next
<1>1. /\ state = "Victory" => Phase = "won"
      /\ state = "Defeat" => Phase = "lost"
      /\ state = "Escape" => Phase = "fleeing"
  BY ViewIs
<1>2. Phase' = "over" /\ ToAct' = {} /\ Turner' = NoOne
  <2>1. ~Fighting' /\ ~InTurn' BY DEF Fighting, InTurn
  <2> QED BY <2>1 DEF Phase, ToAct, Turner
<1>3. Present' \in SUBSET (Actors \cup Enemies) /\ Able' \in SUBSET Present'
  BY DEF Present, Able, Battlers
<1>4. Phase # "over" BY DEF Phase
<1>5. Promise!Finish BY <1>1, <1>2, <1>3, <1>4 DEF Promise!Finish
<1> QED BY <1>5 DEF Promise!Next

Kept == Promise!Next \/ UNCHANGED Promise!vars

LEMMA FrameKept ==
  ASSUME IInv, Unknown, PageCommand \/ PageEnds \/ MessageClosed \/ UpdateBattleState \/ LoopLeft
  PROVE  Kept
<1>1. CASE PageCommand
  <2>1. UNCHANGED <<state, substate, battle_actions, first_strike, top, spoils, result>>
    BY <1>1 DEF PageCommand, scene, queue, outcome
  <2>2. UNCHANGED Seen BY <2>1, SameView DEF Told
  <2>3. state \in {"SelectOption", "Battle", "Escape"}
    BY <1>1 DEF PageCommand, IInv, BetweenTurns
  <2>4. Phase # "won" BY <2>3 DEF Phase
  <2> QED BY <2>2, <2>4, Changed DEF Kept
<1>2. CASE PageEnds \/ MessageClosed
  <2>1. /\ UNCHANGED <<state, substate, battle_actions, first_strike, top, spoils, result>>
        /\ UNCHANGED <<party, hidden, cond>>
    BY <1>2 DEF PageEnds, MessageClosed, scene, queue, members, outcome
  <2>2. UNCHANGED Seen BY <2>1, SameView DEF Told
  <2> QED BY <2>1, <2>2, SamePresence, Unseen DEF Kept
<1>3. CASE UpdateBattleState
  <2>1. top = "battle" /\ pc = "events" /\ EventsDone /\ UNCHANGED <<first_strike, spoils, party>>
    BY <1>3 DEF UpdateBattleState, StillOnTop
  <2>2. \/ top' # "battle" /\ result' \in {"none", "Abort"}
        \/ top' = "battle" /\ UNCHANGED <<queue, hidden, cond>>
    BY <1>3, <2>1 DEF UpdateBattleState, EndBattle, Unknown
  <2>3. CASE top' # "battle" BY <2>1, <2>2, <2>3, Leaving DEF Kept
  <2>4. CASE top' = "battle"
    <3>1. CASE force_flee /\ state # "Escape"
      <4>1. /\ state \in {"SelectOption", "Battle"} /\ substate = "begin" /\ state' = "Escape"
        BY <2>1, <3>1 DEF IInv, Fleeing, Left, EventsDone, SetState
      <4> QED BY <2>1, <2>2, <2>4, <4>1, Deciding DEF Kept
    <3>2. CASE ~(force_flee /\ state # "Escape")
      <4>1. UNCHANGED <<state, substate>> BY <2>1, <3>2 DEF EventsDone, scene
      <4>2. UNCHANGED Seen BY <2>1, <2>2, <2>4, <4>1, SameView DEF queue, Told
      <4> QED BY <2>1, <2>2, <2>4, <4>2, SamePresence, Unseen DEF Kept
    <3> QED BY <3>1, <3>2
  <2> QED BY <2>3, <2>4
<1>4. CASE LoopLeft
  <2>1. UNCHANGED <<state, substate, first_strike, party, top, result, spoils>>
    BY <1>4 DEF LoopLeft, scene, outcome
  <2>2. CASE top # "battle"
    <3>1. Phase = "over" /\ ToAct = {} /\ Turner = NoOne BY <2>2, OverIs
    <3>2. Phase' = "over" /\ ToAct' = {} /\ Turner' = NoOne
      BY <2>1, <2>2 DEF Phase, ToAct, Turner, InTurn, Fighting
    <3>3. UNCHANGED Seen BY <2>1, <3>1, <3>2 DEF Seen, Told
    <3> QED BY <3>1, <3>3, Changed DEF Kept
  <2>3. CASE top = "battle"
    <3>1. UNCHANGED <<queue, hidden, cond>> BY <1>4, <2>3 DEF LoopLeft, StillOnTop
    <3>2. UNCHANGED Seen BY <2>1, <3>1, SameView DEF queue, Told
    <3> QED BY <2>1, <3>1, <3>2, SamePresence, Unseen DEF Kept
  <2> QED BY <2>2, <2>3
<1> QED BY <1>1, <1>2, <1>3, <1>4

LEMMA CommandsKept ==
  ASSUME IInv,
         Start \/ SelectOption \/ SelectCommand \/ SelectSkillOrItem \/ SelectTarget
  PROVE  Kept
<1>1. /\ pc' = "events"
      /\ UNCHANGED <<first_strike, party, hidden, cond, top, spoils, result>>
  BY DEF Start, SelectOption, SelectCommand, SelectSkillOrItem, SelectTarget, NextFrame,
         members, outcome
<1> DEFINE Commanded == {"Start", "SelectOption", "SelectActor", "AutoBattle"} \cup AskingOne
<1>2. /\ top = "battle" /\ pc = "loop" /\ state \in Commanded
      /\ substate # "action" /\ state' \in Commanded \cup {"Escape"}
  <2>1. CASE Start BY <2>1, InIs DEF Start, SetState
  <2>2. CASE SelectOption BY <2>2, InIs DEF SelectOption, SetState, scene
  <2>3. CASE SelectCommand \/ SelectSkillOrItem \/ SelectTarget
    <3>1. top = "battle" /\ pc = "loop" /\ substate # "action"
      <4>1. ASSUME NEW s, In(s, "begin") PROVE top = "battle" /\ pc = "loop" /\ substate # "action"
        BY <4>1, InIs
      <4> QED BY <2>3, <4>1 DEF SelectCommand, SelectSkillOrItem, SelectTarget
    <3> QED BY <2>3, <3>1, Chooses
  <2> QED BY <2>1, <2>2, <2>3
<1>3. CASE state' \in Commanded
  <2>1. UNCHANGED Seen BY <1>1, <1>2, <1>3, SameCommand DEF AskingOne
  <2> QED BY <1>1, <2>1, SamePresence, Unseen DEF Kept
<1>4. CASE state' = "Escape"
  BY <1>1, <1>2, <1>4, Deciding DEF Kept, AskingOne
<1> QED BY <1>2, <1>3, <1>4

LEMMA OptionsKept ==
  ASSUME IInv, SelectOptionBegin
  PROVE  Kept
<1>1. /\ top = "battle" /\ pc = "loop" /\ state = "SelectOption" /\ substate = "begin"
      /\ pc' = "loop" /\ UNCHANGED <<first_strike, party, hidden, cond, top, spoils, result>>
  BY InIs DEF SelectOptionBegin, Continues, members, outcome
<1>2. \/ state' = "Victory" /\ Won
      \/ state' = "Defeat" /\ Lost
      \/ state' \in {"SelectOption", "SelectActor"}
  <2>1. CASE Decided \/ Scheduled BY <1>1, <2>1, ChecksEnd
  <2>2. CASE ~(Decided \/ Scheduled)
    BY <1>1, <2>2 DEF SelectOptionBegin, SetState, SetSubState
  <2> QED BY <2>1, <2>2
<1>3. CASE state' \in {"SelectOption", "SelectActor"}
  <2>1. UNCHANGED Seen BY <1>1, <1>3, SameCommand
  <2> QED BY <1>1, <2>1, SamePresence, Unseen DEF Kept
<1>4. CASE state' \notin {"SelectOption", "SelectActor"}
  BY <1>1, <1>2, <1>4, Deciding DEF Kept
<1> QED BY <1>3, <1>4

(* A round begins with those who were asked, or after an escape that       *)
(* failed, and with the enemies unless the party has the first strike.     *)
LEMMA Beginning ==
  ASSUME IInv, top = "battle", top' = "battle",
         UNCHANGED <<party, hidden, cond, first_strike, spoils>>,
         state \notin {"Battle", "Victory", "Defeat"},
         state' = "Battle", substate' = "begin", NEW who \in SUBSET Actors,
         IF state = "Escape" THEN who = {} ELSE Present \cap Actors \subseteq who,
         ToSet(battle_actions') = who \cup (IF first_strike THEN {} ELSE Enemies),
         ToSet(battle_actions') # {}
  PROVE  Kept
<1>1. /\ Phase = (IF state = "Escape" THEN "fleeing" ELSE "command")
      /\ Turner = NoOne
  BY ViewIs
<1>2. Phase' = "round" /\ ToAct' = ToSet(battle_actions') /\ Turner' = NoOne
  BY DEF Phase, ToAct, Turner, InTurn, Fighting
<1>3. Present' = Present /\ Able' = Able BY SamePresence
<1>4. Promise!BeginRound BY <1>1, <1>2, <1>3 DEF Promise!BeginRound, Told
<1> QED BY <1>4 DEF Kept, Promise!Next

LEMMA SelectionKept ==
  ASSUME IInv, SelectActor
  PROVE  Kept
<1>1. /\ top = "battle" /\ pc = "loop" /\ state \in {"SelectActor", "AutoBattle"} /\ ~Left
      /\ pc' = "loop" /\ UNCHANGED <<first_strike, party, hidden, cond, top, spoils, result>>
  <2>1. top = "battle" /\ pc = "loop" /\ state \in {"SelectActor", "AutoBattle"} /\ ~Left
    <3>1. CASE In("SelectActor", "begin") BY <3>1, InIs
    <3>2. CASE In("AutoBattle", "begin") BY <3>2, InIs
    <3> QED BY <3>1, <3>2 DEF SelectActor
  <2> QED BY <2>1 DEF SelectActor, Continues, members, outcome
<1>2. ~Lost /\ ToSet(party) \subseteq Actors
  BY <1>1, PartiesAre DEF IInv, Undecided, Asking
<1>3. \/ /\ state' = "Battle" /\ substate' = "begin"
         /\ ToSet(battle_actions') = ToSet(party) \cup (IF first_strike THEN {} ELSE Enemies)
      \/ state' = "SelectCommand"
  <2>1. SelectNextActor(FALSE) \/ SelectNextActor(TRUE) BY DEF SelectActor
  <2> QED BY <1>1, <2>1, NextActors
<1>4. CASE state' = "SelectCommand"
  <2>1. UNCHANGED Seen BY <1>1, <1>4, SameCommand
  <2> QED BY <1>1, <2>1, SamePresence, Unseen DEF Kept
<1>5. CASE state' # "SelectCommand"
  <2>1. Present \cap Actors \subseteq ToSet(party) BY DEF Present, Exists
  <2>2. ToSet(party) # {} BY <1>2 DEF Lost
  <2> QED BY <1>1, <1>2, <1>3, <1>5, <2>1, <2>2, Beginning
<1> QED BY <1>4, <1>5

LEMMA EscapeKept ==
  ASSUME IInv, TryEscape \/ EscapeFailed
  PROVE  Kept
<1>1. /\ top = "battle" /\ pc = "loop" /\ state = "Escape"
      /\ EscapeFailed => substate = "failure" /\ ~Left
  BY InIs DEF TryEscape, EscapeFailed
<1>2. CASE TryEscape
  <2>1. /\ pc' = "events" /\ state' = "Escape"
        /\ UNCHANGED <<first_strike, party, hidden, cond, top, spoils, result>>
    BY <1>1, <1>2 DEF TryEscape, SetSubState, NextFrame, members, outcome
  <2>2. Phase = "fleeing" /\ ToAct = {} /\ Turner = NoOne BY <1>1, ViewIs
  <2>3. Phase' = "fleeing" /\ ToAct' = {} /\ Turner' = NoOne
    BY <1>1, <2>1 DEF Phase, ToAct, Turner, InTurn, Fighting
  <2>4. UNCHANGED Seen BY <2>1, <2>2, <2>3 DEF Seen, Told
  <2> QED BY <2>1, <2>4, SamePresence, Unseen DEF Kept
<1>3. CASE EscapeFailed
  <2>1. /\ pc' = "loop" /\ state' = "Battle" /\ substate' = "begin"
        /\ UNCHANGED <<first_strike, party, hidden, cond, top, spoils, result>>
    BY <1>3 DEF EscapeFailed, BeginRound, SetState, Continues, members, outcome
  <2>2. ToSet(battle_actions') = Enemies /\ Enemies # {} BY <1>3, FailsToEscape
  <2>3. ~first_strike BY <1>1, <1>3 DEF IInv, Fleeing
  <2>4. ToSet(battle_actions') = {} \cup (IF first_strike THEN {} ELSE Enemies)
    BY <2>2, <2>3
  <2>5. {} \in SUBSET Actors OBVIOUS
  <2> QED BY <1>1, <2>1, <2>2, <2>4, <2>5, Beginning
<1> QED BY <1>2, <1>3

(* Those whose turn is passed over are gone.                               *)
LEMMA GonePassed ==
  ASSUME IInv
  PROVE  ToSet(SubSeq(battle_actions, 1, Gone)) \cap Present = {}
<1>1. battle_actions \in Seq(Battlers) BY DEF IInv, Typed, TypeOK
<1>2. Gone \in 0 .. Len(battle_actions) /\ \A i \in 1 .. Gone : ~Exists(battle_actions[i])
  BY <1>1, GoneIs
<1>3. \A x : x \in ToSet(SubSeq(battle_actions, 1, Gone)) <=>
               \E i \in 1 .. Gone : battle_actions[i] = x
  <2>1. 1 \in 1 .. Len(battle_actions) + 1 /\ Gone \in 1 - 1 .. Len(battle_actions)
    BY <1>1, <1>2
  <2> QED BY <1>1, <2>1, PartOf
<1> QED BY <1>2, <1>3 DEF Present

LEMMA Skipping ==
  ASSUME IInv, top = "battle", top' = "battle",
         state = "Battle", substate = "begin", state' = "Battle", substate' # "action",
         UNCHANGED <<party, hidden, cond, first_strike, spoils>>, RemoveActions(Gone)
  PROVE  Kept
<1>1. Queued /\ battle_actions \in Seq(Battlers) BY DEF IInv, Queued, Fits
<1>2. Gone \in 0 .. Len(battle_actions) BY <1>1, GoneIs
<1>3. /\ ToSet(battle_actions') \subseteq ToSet(battle_actions)
      /\ ToSet(battle_actions) \ ToSet(battle_actions') = ToSet(SubSeq(battle_actions, 1, Gone))
  BY <1>1, <1>2, ActionsRemoved
<1>4. Phase = "round" /\ ToAct = ToSet(battle_actions) /\ Turner = NoOne BY ViewIs
<1>5. Phase' = "round" /\ ToAct' = ToSet(battle_actions') /\ Turner' = NoOne
  BY DEF Phase, ToAct, Turner, InTurn, Fighting
<1>6. Present' = Present /\ Able' = Able BY SamePresence
<1>7. Promise!Skip BY <1>3, <1>4, <1>5, <1>6, GonePassed DEF Promise!Skip, Told
<1> QED BY <1>7 DEF Kept, Promise!Next

LEMMA HeadAndTail ==
  ASSUME NEW S, NEW q \in Seq(S), q # <<>>, Distinct(q)
  PROVE  ToSet(Tail(q)) = ToSet(q) \ {Head(q)} /\ Tail(q) = SubSeq(q, 2, Len(q))
<1> DEFINE t == Tail(q)
           r == SubSeq(q, 1 + 1, Len(q))
<1>1. /\ Len(q) \in Nat /\ Len(q) >= 1 /\ DOMAIN q = 1 .. Len(q) /\ 1 \in 0 .. Len(q)
      /\ Head(q) = q[1] /\ t \in Seq(S) /\ Len(t) = Len(q) - 1
      /\ \A i \in 1 .. Len(q) - 1 : t[i] = q[i + 1]
  OBVIOUS
<1>2. /\ r \in Seq(S) /\ Len(r) = Len(q) - 1
      /\ \A i \in 1 .. Len(q) - 1 : r[i] = q[1 + i]
  BY <1>1, CutIs
<1> HIDE DEF t, r
<1>3. t = r BY <1>1, <1>2, SeqEqual
<1>4. \A x : x \in ToSet(t) <=> \E i \in 1 .. Len(t) : t[i] = x
  BY <1>1, InSet
<1>5. \A i \in 1 .. Len(t) : i + 1 \in 1 .. Len(q) /\ i + 1 # 1 /\ t[i] = q[i + 1]
  BY <1>1
<1>6. \A i \in 1 .. Len(q) : i = 1 \/ (i - 1 \in 1 .. Len(t) /\ t[i - 1] = q[i])
  BY <1>1
<1>7. ASSUME NEW x \in ToSet(t) PROVE x \in ToSet(q) \ {Head(q)}
  <2>1. PICK i \in 1 .. Len(t) : t[i] = x BY <1>4
  <2>2. 1 \in 1 .. Len(q) BY <1>1
  <2> QED BY <1>1, <1>5, <2>1, <2>2, InSet DEF Distinct
<1>8. ASSUME NEW x \in ToSet(q) \ {Head(q)} PROVE x \in ToSet(t)
  <2>1. PICK i \in 1 .. Len(q) : q[i] = x BY InSet
  <2>2. i # 1 BY <1>1, <2>1
  <2> QED BY <1>4, <1>6, <2>1, <2>2
<1>9. 1 + 1 = 2 OBVIOUS
<1> QED BY <1>3, <1>7, <1>8, <1>9 DEF t, r

LEMMA TurnsKept ==
  ASSUME IInv, IInv', PreAction
  PROVE  Kept
<1>1. /\ top = "battle" /\ pc = "loop" /\ state = "Battle" /\ substate = "begin" /\ pc' = "loop"
      /\ UNCHANGED <<first_strike, party, hidden, top, spoils, result>>
  BY InIs DEF PreAction, Continues, outcome
<1>2. CASE (Decided \/ Scheduled) /\ RemoveActions(Gone) /\ UNCHANGED <<turn, cond>>
  <2>1. \/ state' = "Victory" /\ Won
        \/ state' = "Defeat" /\ Lost
        \/ state' = "Battle" /\ substate' = "begin"
    BY <1>1, <1>2, ChecksEnd
  <2>2. CASE state' = "Battle" BY <1>1, <1>2, <2>1, <2>2, Skipping
  <2>3. CASE state' # "Battle" BY <1>1, <1>2, <2>1, <2>3, Deciding DEF Kept
  <2> QED BY <2>2, <2>3
<1>3. CASE /\ NothingHappens /\ Gone = Len(battle_actions)
           /\ RemoveActions(Gone) /\ SetSubState("post") /\ UNCHANGED <<turn, cond>>
  <2>1. state' = "Battle" /\ substate' = "post" BY <1>1, <1>3 DEF SetSubState
  <2> QED BY <1>1, <1>3, <2>1, Skipping
<1>4. CASE /\ NothingHappens /\ Gone < Len(battle_actions) /\ SetSubState("action")
           /\ battle_actions' = SubSeq(battle_actions, Gone + 1, Len(battle_actions))
           /\ LET b == battle_actions[Gone + 1]
                  gone == ToSet(SubSeq(battle_actions, 1, Gone))
                  given(a) == [c \in Battlers |-> IF c = b THEN a
                                                  ELSE IF c \in gone THEN NoAlgo ELSE algo[c]]
              IN \E a \in Prepared(b, algo[b]) :
                   /\ turn' = [NoTurn EXCEPT !.step = IF a.type = "None" THEN "Finished"
                                                                         ELSE "Usage",
                                             !.action = a]
                   /\ \E c \in Healed(b) : Becomes(b, c, given(a))
  <2> DEFINE b == battle_actions[Gone + 1]
             q == battle_actions
  <2>1. PICK a \in Prepared(b, algo[b]), c \in Healed(b) : cond' = [cond EXCEPT ![b] = c]
    BY <1>4 DEF Becomes
  <2>2. /\ b = battle_actions[Gone + 1] /\ Gone < Len(battle_actions)
        /\ battle_actions' = SubSeq(battle_actions, Gone + 1, Len(battle_actions))
    BY <1>4
  <2>3. Typed /\ Queued /\ q \in Seq(Battlers) /\ Distinct(q) BY DEF IInv, Queued, Fits
  <2> HIDE DEF b
  <2>4. /\ b \in Battlers /\ Exists(b) /\ battle_actions' # <<>> /\ Source' = b
        /\ b \in ToSet(battle_actions)
    BY <2>1, <2>2, <2>3, TurnBegins
  <2>5. Present' = Present /\ Able' = Able
    <3>1. \A d \in Battlers : /\ Exists(d)' <=> Exists(d)
                              /\ cond'[d] = "stone" <=> cond[d] = "stone"
      BY <1>1, <2>1, <2>3, <2>4, SamePresent
    <3> QED BY <3>1 DEF Present, Able
  <2>6. /\ battle_actions' \in Seq(Battlers) /\ Distinct(battle_actions')
        /\ Head(battle_actions') = b
    BY <2>4 DEF IInv, Queued, Fits, Source
  <2>7. ToSet(Tail(battle_actions')) = ToSet(battle_actions') \ {b}
    BY <2>4, <2>6, HeadAndTail
  <2>8. /\ ToSet(q) = ToSet(SubSeq(q, 1, Gone)) \cup ToSet(battle_actions')
    <3>1. Gone \in 0 .. Len(q) BY <2>3, GoneIs
    <3> QED BY <2>2, <2>3, <3>1, CutIs
  <2>9. Phase = "round" /\ ToAct = ToSet(q) /\ Turner = NoOne BY <1>1, ViewIs
  <2>10. Phase' = "round" /\ ToAct' = ToSet(Tail(battle_actions')) /\ Turner' = b
    <3>1. state' = "Battle" /\ substate' = "action" BY <1>1, <1>4 DEF SetSubState
    <3> QED BY <1>1, <2>4, <3>1 DEF Phase, ToAct, Turner, InTurn, Fighting
  <2>11. b \in Present BY <2>4 DEF Present
  <2>12. Promise!BeginTurn
    BY <1>1, <2>4, <2>5, <2>7, <2>8, <2>9, <2>10, <2>11, GonePassed DEF Promise!BeginTurn, Told
  <2> QED BY <2>12 DEF Kept, Promise!Next
<1> QED BY <1>2, <1>3, <1>4 DEF PreAction

LEMMA ActionKept ==
  ASSUME IInv, ActionUsage \/ ActionExecute \/ NoTarget
  PROVE  Kept
<1>1. pc = "loop" /\ top = "battle" /\ state = "Battle"
  <2>1. Step("Usage") \/ Step("Execute") BY DEF ActionUsage, ActionExecute, NoTarget, Step
  <2> QED BY <2>1, InIs DEF Step
<1>2. /\ UNCHANGED <<state, substate, battle_actions, first_strike, top, spoils, result>>
      /\ pc' \in {"loop", "events", "crashed"}
  BY DEF ActionUsage, ActionExecute, NoTarget, scene, queue, outcome, Continues, NextFrame
<1>3. UNCHANGED Seen BY <1>1, <1>2, SameView DEF Told
<1>4. Phase # "won" BY <1>1 DEF Phase
<1> QED BY <1>3, <1>4, Changed DEF Kept

LEMMA FinishKept ==
  ASSUME IInv, ActionFinished
  PROVE  Kept
<1>1. Step("Finished") BY DEF ActionFinished
<1>2. /\ pc = "loop" /\ state = "Battle" /\ substate = "action" /\ battle_actions # <<>>
      /\ Queued /\ Source \in Battlers /\ top = "battle"
  BY <1>1, InTurnIs, InIs DEF Step
<1>3. pc' = "loop" /\ UNCHANGED <<first_strike, party, hidden, cond, top, spoils, result>>
  BY DEF ActionFinished, Continues, members, outcome
<1>4. CASE UNCHANGED <<scene, queue>>
  <2>1. UNCHANGED Seen BY <1>2, <1>3, <1>4, SameView DEF scene, queue, Told
  <2> QED BY <1>3, <2>1, SamePresence, Unseen DEF Kept
<1>5. CASE SetSubState("begin") /\ RemoveActions(1)
  <2>1. /\ battle_actions \in Seq(Battlers) /\ Distinct(battle_actions)
    BY <1>2 DEF Queued, Fits
  <2>2. battle_actions' = Tail(battle_actions)
    <3>1. battle_actions' = SubSeq(battle_actions, 1 + 1, Len(battle_actions))
      BY <1>5 DEF RemoveActions
    <3> QED BY <1>2, <2>1, <3>1, HeadAndTail
  <2>3. Phase = "round" /\ ToAct = ToSet(Tail(battle_actions)) /\ Turner = Source
    BY <1>2, ViewIs
  <2>4. state' = "Battle" /\ substate' = "begin" BY <1>2, <1>5 DEF SetSubState
  <2>5. Phase' = "round" /\ ToAct' = ToSet(battle_actions') /\ Turner' = NoOne
    BY <1>2, <1>3, <2>4 DEF Phase, ToAct, Turner, InTurn, Fighting
  <2>6. Source # NoOne BY <1>2, BattleAssumption
  <2>7. Present' = Present /\ Able' = Able BY <1>3, SamePresence
  <2>8. Promise!EndTurn BY <1>3, <2>2, <2>3, <2>5, <2>6, <2>7 DEF Promise!EndTurn, Told
  <2> QED BY <2>8 DEF Kept, Promise!Next
<1> QED BY <1>4, <1>5 DEF ActionFinished

LEMMA PostKept ==
  ASSUME IInv, Post
  PROVE  Kept
<1>1. pc = "loop" /\ top = "battle" /\ state = "Battle" /\ substate = "post" /\ ~Left
  BY InIs DEF Post
<1>2. /\ pc' = "events" /\ state' = "SelectOption" /\ first_strike' = FALSE
      /\ UNCHANGED <<party, hidden, cond, top, spoils, result>>
  BY DEF Post, SetState, NextFrame, members, outcome
<1>3. ToSet(battle_actions) = {} BY <1>1 DEF IInv, Acting, ToSet
<1>4. Phase = "round" /\ ToAct = {} /\ Turner = NoOne BY <1>1, <1>3, ViewIs
<1>5. Phase' = "command" /\ ToAct' = {} /\ Turner' = NoOne
  BY <1>1, <1>2 DEF Phase, ToAct, Turner, InTurn, Fighting
<1>6. Present' = Present /\ Able' = Able BY <1>2, SamePresence
<1>7. Promise!EndRound BY <1>2, <1>4, <1>5, <1>6 DEF Promise!EndRound, Told
<1> QED BY <1>7 DEF Kept, Promise!Next

LEMMA AnnouncementKept ==
  ASSUME IInv, VictoryBegin \/ DefeatBegin
  PROVE  Kept
<1>1. /\ pc' = "loop" /\ UNCHANGED <<state, first_strike, party, hidden, cond, top, result>>
  BY DEF VictoryBegin, DefeatBegin, SetSubState, Continues, members, outcome
<1>2. CASE VictoryBegin
  <2>1. pc = "loop" /\ top = "battle" /\ state = "Victory" /\ substate = "begin"
    BY <1>2, InIs DEF VictoryBegin
  <2>2. spoils = 0 /\ spoils' = 1 BY <1>2, <2>1 DEF VictoryBegin, IInv, Scored
  <2>3. Phase = "won" /\ ToAct = {} /\ Turner = NoOne BY <2>1, ViewIs
  <2>4. Phase' = "won" /\ ToAct' = {} /\ Turner' = NoOne
    BY <1>1, <2>1 DEF Phase, ToAct, Turner, InTurn, Fighting
  <2>5. Present' = Present /\ Able' = Able BY <1>1, SamePresence
  <2>6. Promise!Gain BY <1>1, <2>2, <2>3, <2>4, <2>5 DEF Promise!Gain, Told
  <2> QED BY <2>6 DEF Kept, Promise!Next
<1>3. CASE DefeatBegin
  <2>1. pc = "loop" /\ top = "battle" /\ state = "Defeat" BY <1>3, InIs DEF DefeatBegin
  <2>2. spoils' = spoils BY <1>3 DEF DefeatBegin, outcome
  <2>3. Phase = "lost" /\ ToAct = {} /\ Turner = NoOne BY <2>1, ViewIs
  <2>4. Phase' = "lost" /\ ToAct' = {} /\ Turner' = NoOne
    BY <1>1, <2>1 DEF Phase, ToAct, Turner, InTurn, Fighting
  <2>5. UNCHANGED Seen BY <1>1, <2>2, <2>3, <2>4 DEF Seen, Told
  <2> QED BY <1>1, <2>5, SamePresence, Unseen DEF Kept
<1> QED BY <1>2, <1>3

LEMMA EndKept ==
  ASSUME IInv, End
  PROVE  Kept
<1>1. UNCHANGED <<first_strike, spoils>> BY DEF End
<1>2. CASE In("Victory", "end") /\ EndBattle("Victory", top)
  <2>1. top = "battle" /\ state = "Victory" /\ substate = "end" BY <1>2, InIs
  <2>2. top' = "below" /\ result' = "Victory" /\ spoils = 1
    BY <1>2, <2>1 DEF EndBattle, IInv, Scored
  <2> QED BY <1>1, <2>1, <2>2, Leaving DEF Kept
<1>3. CASE In("Defeat", "end") /\ EndBattle("Defeat", top)
  <2>1. top = "battle" /\ state = "Defeat" BY <1>3, InIs
  <2>2. top' = "below" /\ result' = "Defeat" BY <1>3, <2>1 DEF EndBattle
  <2> QED BY <1>1, <2>1, <2>2, Leaving DEF Kept
<1>4. CASE In("Escape", "success") /\ EndBattle("Escape", top)
  <2>1. top = "battle" /\ state = "Escape" BY <1>4, InIs
  <2>2. top' = "below" /\ result' = "Escape" BY <1>4, <2>1 DEF EndBattle
  <2> QED BY <1>1, <2>1, <2>2, Leaving DEF Kept
<1> QED BY <1>2, <1>3, <1>4 DEF End

LEMMA StepKept == IInv /\ Unknown /\ IInv' /\ [Next]_vars => Kept
<1> SUFFICES ASSUME IInv, Unknown, IInv', [Next]_vars PROVE Kept OBVIOUS
<1>1. CASE PageCommand \/ PageEnds \/ MessageClosed \/ UpdateBattleState \/ LoopLeft
  BY <1>1, FrameKept
<1>2. CASE Start \/ SelectOption \/ SelectCommand \/ SelectSkillOrItem \/ SelectTarget
  BY <1>2, CommandsKept
<1>3. CASE SelectOptionBegin BY <1>3, OptionsKept
<1>4. CASE SelectActor BY <1>4, SelectionKept
<1>5. CASE PreAction BY <1>5, TurnsKept
<1>6. CASE ActionUsage \/ ActionExecute \/ NoTarget BY <1>6, ActionKept
<1>7. CASE ActionFinished BY <1>7, FinishKept
<1>8. CASE Post BY <1>8, PostKept
<1>9. CASE VictoryBegin \/ DefeatBegin BY <1>9, AnnouncementKept
<1>10. CASE TryEscape \/ EscapeFailed BY <1>10, EscapeKept
<1>11. CASE End BY <1>11, EndKept
<1>12. CASE Over \/ UNCHANGED vars
  <2>1. UNCHANGED <<state, substate, battle_actions, first_strike, top, spoils, result, pc,
                    party, hidden, cond>>
    BY <1>12 DEF Over, vars, scene, queue, members, outcome
  <2>2. UNCHANGED Seen BY <2>1, SameView DEF Told
  <2> QED BY <2>1, <2>2, SamePresence, Unseen DEF Kept
<1> QED
  BY <1>1, <1>2, <1>3, <1>4, <1>5, <1>6, <1>7, <1>8, <1>9, <1>10, <1>11, <1>12 DEF Next

-----------------------------------------------------------------------------
(* The theorems *)

(* The invariant holds in every battle.                                    *)
THEOREM SpecIInv == Spec => []IInv
<1> QED BY Initially, Inductive, PTL DEF Spec

(* For any party and troop and any pages: each battler has one action in   *)
(* the queue (CreateExecutionOrder and ProcessBattleAction warn of others), *)
(* the queue holds the actors asked so far, in their order, pages run only *)
(* between turns, whoever acts is there, and so is whom he acts upon,      *)
(* unless that was an actor who has left the party.                        *)
THEOREM BattleIsOrderly == Spec => []Orderly
<1>1. IInv => Orderly
  <2> SUFFICES ASSUME IInv PROVE Orderly OBVIOUS
  <2>1. TypeOK /\ AskedInOrder /\ BetweenTurns /\ ActingThere /\ TargetThere
    BY DEF IInv, Typed, Commands, Acting, ActingThere
  <2>2. OneActionEach BY DEF IInv, Queued, Fits, OneActionEach
  <2> QED BY <2>1, <2>2 DEF Orderly
<1> QED BY <1>1, SpecIInv, PTL

(* The battle is left once: nothing is told or given after it has been     *)
(* left, and a call of EndBattle (scene_battle.cpp:582) either leaves it,  *)
(* for a victory only when its spoils have been given, or takes back the   *)
(* game over that a page of that very frame has pushed.                    *)
THEOREM BattleLeftOnce == Spec => LeftOnce
<1> DEFINE Once == /\ top # "battle" => UNCHANGED outcome
                   /\ ends' # ends => /\ ends' = ends + 1
                                      /\ top' = "below" \/ (top' = "battle" /\ op = "gameover")
                                      /\ result' = "Victory" => spoils = 1
<1>1. IInv /\ Next => Once
  <2> SUFFICES ASSUME IInv, Next PROVE Once OBVIOUS
  <2>1. ASSUME top # "battle" PROVE UNCHANGED outcome
    <3>1. ASSUME NEW s, NEW sub, In(s, sub) PROVE FALSE BY <2>1, <3>1 DEF In, StillOnTop
    <3>2. PageCommand \/ PageEnds \/ MessageClosed \/ LoopLeft \/ Over
      BY <2>1, <3>1 DEF Next, UpdateBattleState, StillOnTop, Start, SelectOptionBegin,
         SelectOption, SelectActor, SelectCommand, SelectSkillOrItem, SelectTarget, PreAction,
         ActionUsage, ActionExecute, NoTarget, ActionFinished, Step, Post, VictoryBegin,
         DefeatBegin, TryEscape, EscapeFailed, End
    <3> QED BY <3>2 DEF PageCommand, PageEnds, MessageClosed, LoopLeft, Over, vars, outcome
  <2>2. ASSUME ends' # ends
        PROVE  /\ ends' = ends + 1
               /\ top' = "below" \/ (top' = "battle" /\ op = "gameover")
               /\ result' = "Victory" => spoils = 1
    <3>1. UpdateBattleState \/ End BY <2>2, OnlyTwoEnd
    <3>2. CASE UpdateBattleState
      BY <2>2, <3>2 DEF UpdateBattleState, StillOnTop, EndBattle
    <3>3. CASE End
      <4>1. ASSUME NEW s, NEW sub, In(s, sub)
            PROVE  top = "battle" /\ state = s /\ substate = sub
        BY <4>1, InIs
      <4> QED BY <3>3, <4>1 DEF End, EndBattle, IInv, Scored
    <3> QED BY <3>1, <3>2, <3>3
  <2> QED BY <2>1, <2>2
<1>2. IInv /\ [Next]_vars => [Once]_vars BY <1>1
<1> QED BY <1>2, SpecIInv, PTL DEF Spec, LeftOnce

(* Whatever its windows, pages, messages and timers do, the scene fights a *)
(* battle in rounds: each battler who is there acts once in each, none who *)
(* is gone does, no enemy acts in the first strike and no actor after an   *)
(* escape that failed, and the battle ends with the outcome it was decided *)
(* for, or is aborted, and spoils are given once.                          *)
THEOREM BattleInRounds == Spec => ImplementsRounds
<1>1. Init => Promise!Init
  <2> SUFFICES ASSUME Init PROVE Promise!Init OBVIOUS
  <2>1. Phase = "command" /\ ToAct = {} /\ Turner = NoOne
    BY DEF Init, Phase, ToAct, Turner, InTurn, Fighting
  <2>2. Present \in SUBSET (Actors \cup Enemies) /\ Able \in SUBSET Present
    BY DEF Present, Able, Battlers
  <2>3. first_strike \in BOOLEAN /\ spoils = 0 /\ top = "battle" BY DEF Init
  <2> QED BY <2>1, <2>2, <2>3 DEF Promise!Init
<1>2. Init => Unknown BY DEF Init, Unknown
<1>3. IInv /\ IInv' /\ Unknown /\ [Next]_vars => [Promise!Next]_(Promise!vars)
  BY StepKept DEF Kept
<1> QED
  BY <1>1, <1>2, <1>3, SpecIInv, StaysUnknown, PTL DEF Spec, ImplementsRounds, Promise!Spec

=============================================================================
