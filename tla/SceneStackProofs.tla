------------------------- MODULE SceneStackProofs -------------------------
(***************************************************************************)
(* Proofs about SceneStack, for every way to start the program and any     *)
(* depth of the stack: no two scenes of a type are on it, a scene is       *)
(* started once and before it is updated, and a new game starts from reset *)
(* game objects.                                                           *)
(*                                                                         *)
(* That a type is not pushed twice is not inductive by itself: what makes  *)
(* it so is an order of the types, in which each scene only opens scenes   *)
(* that come later.                                                        *)
(***************************************************************************)
EXTENDS SceneStack, SequenceTheorems, WellFoundedInduction, FiniteSetTheorems, TLAPS

AllTypes == {"Null", "Logo", "GameBrowser", "Title", "Map", "Menu", "Battle",
             "Shop", "Name", "Item", "Skill", "Equip", "Status", "Order", "End",
             "Gameover", "ActorTarget", "Teleport", "Debug", "Load", "Save"}

Rank(t) ==
  CASE t = "Null" -> 0
    [] t \in {"Logo", "GameBrowser"} -> 1
    [] t = "Title" -> 2
    [] t = "Map" -> 3
    [] t \in {"Menu", "Battle", "Shop", "Name"} -> 4
    [] t \in {"Item", "Skill", "Equip", "Status", "Order", "End", "Gameover"} -> 5
    [] t \in {"ActorTarget", "Teleport", "Debug"} -> 6
    [] OTHER -> 7

Conts  == {"none", "in", "map", "call"}
Scenes == [type : AllTypes, ready : BOOLEAN, delay : BOOLEAN, cont : Conts,
           restart : BOOLEAN]

(* A scene that only the map, or something above it, opens                 *)
OnMap(t) == Rank(t) >= 4 /\ t # "Load"

(* What holds of one scene, of any two, and of a scene and what it is on   *)
SceneOK(r) == /\ r.restart => r.type = "Title"
              /\ r.cont \in {"map", "call"} => r.type = "Map"
InOrder(s) ==
  /\ \A i, j \in 1 .. Len(s) : i < j => Rank(s[i].type) < Rank(s[j].type)
  /\ \A j \in 1 .. Len(s) :
       Rank(s[j].type) >= 3 => \E i \in 1 .. Len(s) : i < j /\ s[i].type = "Title"
  /\ \A j \in 1 .. Len(s) :
       OnMap(s[j].type) => \E i \in 1 .. Len(s) : i < j /\ s[i].type = "Map"

Plays(md) == md \in {"title", "hidden"}

StackOK(s, md) ==
  /\ s \in Seq(Scenes) /\ s # <<>> /\ s[1].type = "Null"
  /\ \A n \in 1 .. Len(s) : SceneOK(s[n])
  /\ md # "battle" => InOrder(s)
  /\ \A n \in 1 .. Len(s) : n < Len(s) =>
       s[n].type # "Logo" /\ (Plays(md) /\ s[n].type = "Title" => s[n].ready)

Told(s, md) == Plays(md) =>
  \A n \in 1 .. Len(s) : s[n].type = "Title" => s[n].ready /\ s[n].restart

Flags ==
  /\ {init, files, exitFlag, resetFlag, left, played} \subseteq BOOLEAN
  /\ op \in {"none", "pushed", "popped"}
  /\ stage \in {"frame", "main", "close", "ended"}
  /\ transition \in {"shown", "erased", "showing", "erasing"}
  /\ entered \in {"no", "yes", "left"}

(* Where the scene on top stands                                           *)
Entering ==
  /\ left => stage = "close"
  /\ ~init \/ left => op # "none"
  /\ op = "pushed" => ~Top(instances).ready /\ ~Top(instances).restart
  /\ init /\ ~left => entered # "no" \/ Top(instances).type = "Null"
  /\ Plays(mode) /\ Top(instances).type = "Title" /\ ~Top(instances).ready
       => op = "pushed" /\ (~init \/ left)
  /\ Plays(mode) /\ Top(instances).type = "Title" /\ entered = "yes"
       => ~Top(instances).restart

Playing ==
  /\ played => Told(instances, mode)
  /\ Top(instances).type = "Logo" => ~played

IInv == Flags /\ StackOK(instances, mode) /\ Entering /\ Playing

-----------------------------------------------------------------------------
(* Operations on the stack *)

LEMMA Ranks == \A t \in AllTypes : Rank(t) \in 0 .. 7
BY DEF AllTypes, Rank

LEMMA MinExists ==
  ASSUME NEW S \in SUBSET Nat, S # {}
  PROVE  \E x \in S : \A y \in S : x <= y
<1>1. OpToRel(<, Nat) = {p \in Nat \X Nat : p[1] < p[2]}
  BY DEF OpToRel
<1>2. PICK x \in S : \A y \in S : ~ (<<y, x>> \in OpToRel(<, Nat))
  BY NatLessThanWellFounded, WFMin
<1>3. ASSUME NEW y \in S PROVE x <= y
  <2>1. <<y, x>> \in Nat \X Nat /\ <<y, x>> \notin {p \in Nat \X Nat : p[1] < p[2]}
    BY <1>1, <1>2
  <2>2. ~ (y < x)
    BY <2>1
  <2> QED
    BY <2>2
<1> QED
  BY <1>3

LEMMA MaxExists ==
  ASSUME NEW n \in Nat, NEW S \in SUBSET (1 .. n), S # {}
  PROVE  \E x \in S : \A y \in S : y <= x
<1> DEFINE T == {n - x : x \in S}
<1>1. T \in SUBSET Nat /\ T # {}
  <2>1. ASSUME NEW x \in S PROVE n - x \in Nat
    BY x \in 1 .. n
  <2> QED
    BY <2>1
<1>2. PICK z \in T : \A y \in T : z <= y
  BY <1>1, MinExists
<1>3. PICK x \in S : z = n - x
  BY <1>2
<1>4. ASSUME NEW y \in S PROVE y <= x
  <2>1. n - x <= n - y
    BY <1>2, <1>3
  <2>2. x \in Nat /\ y \in Nat
    OBVIOUS
  <2> QED
    BY <2>1, <2>2
<1> QED
  BY <1>4

(* Scenes change, types do not.                                            *)
LEMMA SameTypes ==
  ASSUME NEW md, NEW s, StackOK(s, md), NEW q, q \in Seq(Scenes), Len(q) = Len(s),
         \A n \in 1 .. Len(s) : /\ q[n].type = s[n].type /\ SceneOK(q[n])
                                /\ n < Len(s) /\ s[n].ready => q[n].ready
  PROVE  StackOK(q, md)
<1>1. Len(s) \in Nat /\ s # <<>> /\ Len(s) # 0
  BY DEF StackOK
<1>2. q # <<>> /\ q[1].type = "Null"
  BY <1>1 DEF StackOK
<1>3. md # "battle" => InOrder(q)
  BY DEF StackOK, InOrder
<1> QED
  BY <1>2, <1>3 DEF StackOK

LEMMA PrefixOK ==
  ASSUME NEW md, NEW s, StackOK(s, md), NEW n \in 1 .. Len(s)
  PROVE  LET q == SubSeq(s, 1, n) IN
         /\ StackOK(q, md) /\ Len(q) = n /\ Top(q) = s[n]
         /\ \A i \in 1 .. n : q[i] = s[i]
<1> DEFINE q == SubSeq(s, 1, n)
<1>1. s \in Seq(Scenes) /\ Len(s) \in Nat /\ n \in Nat /\ n <= Len(s) /\ 1 <= n
  BY DEF StackOK
<1>2. q \in Seq(Scenes) /\ Len(q) = n /\ \A i \in 1 .. n : q[i] = s[i]
  BY <1>1
<1> HIDE DEF q
<1>3. q # <<>> /\ q[1].type = "Null" /\ Top(q) = s[n]
  BY <1>1, <1>2 DEF StackOK, Top
<1>4. ASSUME md # "battle" PROVE InOrder(q)
  <2>1. InOrder(s)
    BY <1>4 DEF StackOK
  <2>2. \A i \in 1 .. n : i \in 1 .. Len(s)
    BY <1>1
  <2>3. \A j \in 1 .. n, i \in 1 .. Len(s) : i < j => i \in 1 .. n
    BY <1>1
  <2> QED
    BY <1>2, <2>1, <2>2, <2>3 DEF InOrder
<1>5. \A i \in 1 .. n : i \in 1 .. Len(s) /\ (i < n => i < Len(s))
  BY <1>1
<1>6. StackOK(q, md)
  BY <1>2, <1>3, <1>4, <1>5 DEF StackOK
<1> QED
  BY <1>2, <1>3, <1>6 DEF q

LEMMA BelowOK ==
  ASSUME NEW md, NEW s, StackOK(s, md), Top(s).type # "Null"
  PROVE  /\ StackOK(Below(s), md) /\ Len(s) - 1 \in 1 .. Len(s)
         /\ Len(Below(s)) = Len(s) - 1 /\ Top(Below(s)) = s[Len(s) - 1]
         /\ \A i \in 1 .. Len(s) - 1 : Below(s)[i] = s[i]
<1>1. Len(s) \in Nat /\ Len(s) # 0
  BY DEF StackOK
<1>2. Len(s) # 1
  BY DEF StackOK, Top
<1>3. \A m \in Nat : m # 0 /\ m # 1 => m - 1 \in 1 .. m
  OBVIOUS
<1>4. Len(s) - 1 \in 1 .. Len(s)
  BY <1>1, <1>2, <1>3, Zenon
<1> QED
  BY <1>4, PrefixOK DEF Below

LEMMA PopUntilIsPrefix ==
  ASSUME NEW md, NEW s, StackOK(s, md), NEW t
  PROVE  \E n \in 1 .. Len(s) : /\ PopUntil(s, t) = SubSeq(s, 1, n)
                                /\ IF t \in Types(s) THEN s[n].type = t
                                                     ELSE n = Len(s)
<1>1. s \in Seq(Scenes) /\ Len(s) \in Nat /\ Len(s) # 0 /\ DOMAIN s = 1 .. Len(s)
  BY DEF StackOK
<1>2. CASE t \notin Types(s)
  <2>1. SubSeq(s, 1, Len(s)) = s
    BY <1>1
  <2>2. Len(s) \in 1 .. Len(s)
    BY <1>1
  <2> QED
    BY <1>2, <2>1, <2>2 DEF PopUntil
<1>3. CASE t \in Types(s)
  <2> DEFINE S == {n \in 1 .. Len(s) : s[n].type = t}
  <2>1. S \in SUBSET (1 .. Len(s)) /\ S # {}
    BY <1>1, <1>3 DEF Types
  <2>2. PICK x \in S : \A y \in S : y <= x
    BY <1>1, <2>1, MaxExists
  <2>3. \A k \in x + 1 .. Len(s) : k \in 1 .. Len(s) /\ ~(k <= x)
    BY <1>1, <2>2
  <2>4. \E n \in DOMAIN s : s[n].type = t /\ \A k \in n + 1 .. Len(s) : s[k].type # t
    BY <1>1, <2>2, <2>3
  <2> DEFINE c == CHOOSE n \in DOMAIN s :
                    s[n].type = t /\ \A k \in n + 1 .. Len(s) : s[k].type # t
  <2>5. c \in DOMAIN s /\ s[c].type = t
    BY <2>4
  <2>6. PopUntil(s, t) = SubSeq(s, 1, c)
    BY <1>3 DEF PopUntil
  <2> HIDE DEF c
  <2> QED
    BY <1>1, <1>3, <2>5, <2>6
<1> QED
  BY <1>2, <1>3

LEMMA PopUntilOK ==
  ASSUME NEW md, NEW s, StackOK(s, md), NEW t
  PROVE  LET q == PopUntil(s, t) IN
         /\ StackOK(q, md) /\ Len(q) \in 1 .. Len(s)
         /\ \A i \in 1 .. Len(q) : q[i] = s[i]
         /\ IF t \in Types(s) THEN Top(q).type = t ELSE q = s
<1>1. PICK n \in 1 .. Len(s) : /\ PopUntil(s, t) = SubSeq(s, 1, n)
                               /\ IF t \in Types(s) THEN s[n].type = t
                                                    ELSE n = Len(s)
  BY PopUntilIsPrefix
<1>2. t \notin Types(s) => PopUntil(s, t) = s
  BY DEF PopUntil
<1> QED
  BY <1>1, <1>2, PrefixOK

LEMMA PushOK ==
  ASSUME NEW md, NEW s, StackOK(s, md), NEW t \in AllTypes,
         Top(s).type # "Logo",
         Plays(md) /\ Top(s).type = "Title" => Top(s).ready,
         md # "battle" => /\ Rank(Top(s).type) < Rank(t)
                          /\ Rank(t) >= 3 => "Title" \in Types(s)
                          /\ OnMap(t) => "Map" \in Types(s)
  PROVE  /\ StackOK(Push(s, t), md) /\ Len(Push(s, t)) = Len(s) + 1
         /\ Top(Push(s, t)) = New(t)
         /\ \A i \in 1 .. Len(s) : Push(s, t)[i] = s[i]
<1> DEFINE q == Push(s, t)
<1>1. /\ s \in Seq(Scenes) /\ Len(s) \in Nat /\ Len(s) # 0
      /\ DOMAIN s = 1 .. Len(s) /\ \A n \in 1 .. Len(s) : s[n] \in Scenes
  BY DEF StackOK
<1>2. New(t) \in Scenes /\ SceneOK(New(t)) /\ New(t).type = t
  BY DEF New, Scenes, Conts, SceneOK
<1>3. /\ q \in Seq(Scenes) /\ Len(q) = Len(s) + 1 /\ q[Len(s) + 1] = New(t)
      /\ \A i \in 1 .. Len(s) : q[i] = s[i]
  BY <1>1, <1>2 DEF Push
<1> HIDE DEF q
<1>4. /\ \A i \in 1 .. Len(q) : i \in 1 .. Len(s) \/ i = Len(s) + 1
      /\ \A i \in 1 .. Len(s) : i < Len(s) + 1 /\ i \in 1 .. Len(q)
      /\ \A i \in 1 .. Len(s) : i < Len(s) \/ i = Len(s)
      /\ Len(s) + 1 \in 1 .. Len(q) /\ 1 \in 1 .. Len(s)
  <2> DEFINE m == Len(s)
  <2>1. Len(q) = m + 1 /\ m \in Nat /\ m # 0
    BY <1>1, <1>3
  <2> HIDE DEF m
  <2>2. /\ \A i \in 1 .. m + 1 : i \in 1 .. m \/ i = m + 1
        /\ \A i \in 1 .. m : i < m + 1 /\ i \in 1 .. m + 1
        /\ \A i \in 1 .. m : i < m \/ i = m
        /\ m + 1 \in 1 .. m + 1 /\ 1 \in 1 .. m
    BY <2>1
  <2> QED
    BY <2>1, <2>2 DEF m
<1>5. ASSUME md # "battle" PROVE InOrder(q)
  <2>1. InOrder(s) /\ Rank(s[Len(s)].type) < Rank(t)
    BY <1>5 DEF StackOK, Top
  <2>2. \A i \in 1 .. Len(s) : Rank(s[i].type) \in Nat /\ Rank(t) \in Nat
    BY <1>1, Ranks DEF Scenes
  <2>3. \A i \in 1 .. Len(s) : Rank(s[i].type) < Rank(t)
    <3>1. Len(s) \in 1 .. Len(s)
      BY <1>1
    <3>2. ASSUME NEW i \in 1 .. Len(s), i < Len(s)
          PROVE  Rank(s[i].type) < Rank(s[Len(s)].type)
      BY <2>1, <3>1, <3>2 DEF InOrder
    <3>3. ASSUME NEW i \in 1 .. Len(s)
          PROVE  Rank(s[i].type) < Rank(t)
      <4>1. Rank(s[Len(s)].type) \in Nat /\ Rank(s[i].type) \in Nat /\ Rank(t) \in Nat
        BY <2>2, <3>1
      <4> QED
        BY <1>4, <2>1, <3>2, <4>1
    <3> QED
      BY <3>3
  <2>4. \A i, j \in 1 .. Len(q) : i < j => i \in 1 .. Len(s)
    BY <1>1, <1>3
  <2>5. \A i, j \in 1 .. Len(q) : i < j => Rank(q[i].type) < Rank(q[j].type)
    BY <1>2, <1>3, <1>4, <2>1, <2>3, <2>4 DEF InOrder
  <2>6. \A j \in 1 .. Len(q) :
          Rank(q[j].type) >= 3 => \E i \in 1 .. Len(q) : i < j /\ q[i].type = "Title"
    <3>1. Rank(t) >= 3 => \E i \in 1 .. Len(s) : s[i].type = "Title"
      BY <1>1, <1>5 DEF Types
    <3> QED
      BY <1>2, <1>3, <1>4, <2>1, <3>1 DEF InOrder
  <2>7. \A j \in 1 .. Len(q) :
          OnMap(q[j].type) => \E i \in 1 .. Len(q) : i < j /\ q[i].type = "Map"
    <3>1. OnMap(t) => \E i \in 1 .. Len(s) : s[i].type = "Map"
      BY <1>1, <1>5 DEF Types
    <3> QED
      BY <1>2, <1>3, <1>4, <2>1, <3>1 DEF InOrder
  <2> QED
    BY <2>5, <2>6, <2>7 DEF InOrder
<1>6. q # <<>> /\ q[1].type = "Null" /\ Top(q) = New(t)
  <2>1. q # <<>> /\ Top(q) = New(t)
    BY <1>1, <1>3 DEF Top
  <2>2. q[1] = s[1]
    BY <1>3, <1>4
  <2> QED
    BY <2>1, <2>2 DEF StackOK
<1>7. \A n \in 1 .. Len(q) : SceneOK(q[n])
  BY <1>2, <1>3, <1>4 DEF StackOK
<1>8. \A n \in 1 .. Len(q) : n < Len(q) =>
        q[n].type # "Logo" /\ (Plays(md) /\ q[n].type = "Title" => q[n].ready)
  <2>1. \A n \in 1 .. Len(q) : n < Len(q) => n \in 1 .. Len(s) /\ (n < Len(s) \/ n = Len(s))
    BY <1>1, <1>3
  <2> QED
    BY <1>3, <2>1 DEF StackOK, Top
<1>9. StackOK(q, md)
  BY <1>3, <1>5, <1>6, <1>7, <1>8 DEF StackOK
<1> QED
  BY <1>3, <1>6, <1>9 DEF q

LEMMA TopIsScene ==
  ASSUME NEW md, NEW s, StackOK(s, md)
  PROVE  /\ Top(s) \in Scenes /\ Len(s) \in 1 .. Len(s) /\ Top(s) = s[Len(s)]
         /\ SceneOK(Top(s)) /\ DOMAIN s = 1 .. Len(s) /\ Len(s) \in Nat
         /\ Top(s).type \in Types(s)
<1>1. s \in Seq(Scenes) /\ Len(s) \in Nat /\ Len(s) # 0
  BY DEF StackOK
<1>2. Len(s) \in 1 .. Len(s) /\ DOMAIN s = 1 .. Len(s)
  BY <1>1
<1> QED
  BY <1>1, <1>2 DEF StackOK, Top, Types

(* The scene on top changes, but remains of its type.                      *)
LEMMA SetTopOK ==
  ASSUME NEW md, NEW s, StackOK(s, md), NEW r \in Scenes,
         r.type = Top(s).type, SceneOK(r)
  PROVE  LET q == [s EXCEPT ![Len(s)] = r] IN
         /\ StackOK(q, md) /\ Len(q) = Len(s) /\ Top(q) = r
         /\ \A i \in 1 .. Len(s) : i # Len(s) => q[i] = s[i]
<1> DEFINE q == [s EXCEPT ![Len(s)] = r]
<1>1. s \in Seq(Scenes) /\ Len(s) \in Nat /\ Len(s) \in 1 .. Len(s)
  BY TopIsScene DEF StackOK
<1>2. /\ q \in [1 .. Len(s) -> Scenes]
      /\ \A i \in 1 .. Len(s) : q[i] = IF i = Len(s) THEN r ELSE s[i]
  BY <1>1
<1> HIDE DEF q
<1>3. q \in Seq(Scenes) /\ Len(q) = Len(s)
  BY <1>1, <1>2
<1>4. Top(q) = r /\ \A i \in 1 .. Len(s) : i # Len(s) => q[i] = s[i]
  BY <1>1, <1>2, <1>3 DEF Top
<1>5. \A n \in 1 .. Len(s) : /\ q[n].type = s[n].type /\ SceneOK(q[n])
                             /\ n < Len(s) /\ s[n].ready => q[n].ready
  BY <1>1, <1>2 DEF Top, StackOK
<1>6. StackOK(q, md)
  BY <1>3, <1>5, SameTypes
<1> QED
  BY <1>3, <1>4, <1>6 DEF q

(* q is s but for delays and continuations.                                *)
Alike(s, q) ==
  /\ Len(q) = Len(s)
  /\ \A i \in 1 .. Len(s) : /\ q[i].type = s[i].type /\ q[i].ready = s[i].ready
                            /\ q[i].restart = s[i].restart

LEMMA WithDelayOK ==
  ASSUME NEW md, NEW s, StackOK(s, md), NEW b \in BOOLEAN
  PROVE  StackOK(With(s, "delay", b), md) /\ Alike(s, With(s, "delay", b))
<1> DEFINE r == [Top(s) EXCEPT !["delay"] = b]
<1>1. Top(s) \in Scenes /\ SceneOK(Top(s)) /\ Top(s) = s[Len(s)]
  BY TopIsScene
<1>2. /\ r \in Scenes /\ r.type = Top(s).type /\ r.ready = Top(s).ready
      /\ r.restart = Top(s).restart /\ r.cont = Top(s).cont
  BY <1>1 DEF Scenes
<1>3. SceneOK(r)
  BY <1>1, <1>2 DEF SceneOK
<1>4. With(s, "delay", b) = [s EXCEPT ![Len(s)] = r]
  BY DEF With, Top
<1> HIDE DEF r
<1> QED
  BY <1>1, <1>2, <1>3, <1>4, SetTopOK DEF Alike, Top

LEMMA WithContOK ==
  ASSUME NEW md, NEW s, StackOK(s, md), NEW c \in Conts,
         c \in {"map", "call"} => Top(s).type = "Map"
  PROVE  StackOK(With(s, "cont", c), md) /\ Alike(s, With(s, "cont", c))
<1> DEFINE r == [Top(s) EXCEPT !["cont"] = c]
<1>1. Top(s) \in Scenes /\ SceneOK(Top(s)) /\ Top(s) = s[Len(s)]
  BY TopIsScene
<1>2. /\ r \in Scenes /\ r.type = Top(s).type /\ r.ready = Top(s).ready
      /\ r.restart = Top(s).restart /\ r.cont = c
  BY <1>1 DEF Scenes
<1>3. SceneOK(r)
  BY <1>1, <1>2 DEF SceneOK
<1>4. With(s, "cont", c) = [s EXCEPT ![Len(s)] = r]
  BY DEF With, Top
<1> HIDE DEF r
<1> QED
  BY <1>1, <1>2, <1>3, <1>4, SetTopOK DEF Alike, Top

LEMMA AlikeTop ==
  ASSUME NEW md, NEW s, NEW q, StackOK(s, md), StackOK(q, md), Alike(s, q)
  PROVE  /\ Top(q).type = Top(s).type /\ Top(q).ready = Top(s).ready
         /\ Top(q).restart = Top(s).restart /\ Types(q) = Types(s)
         /\ Told(s, md) => Told(q, md)
<1>1. /\ Len(s) \in 1 .. Len(s) /\ Top(s) = s[Len(s)] /\ DOMAIN s = 1 .. Len(s)
      /\ Top(q) = q[Len(q)] /\ DOMAIN q = 1 .. Len(q)
  BY TopIsScene
<1> QED
  BY <1>1 DEF Alike, Types, Told

LEMMA OnGameStartOK ==
  ASSUME NEW md, NEW s, StackOK(s, md)
  PROVE  LET q == OnGameStart(s) IN
         /\ StackOK(q, md) /\ Len(q) = Len(s) /\ Types(q) = Types(s)
         /\ Top(q).type = Top(s).type /\ Top(q).ready = Top(s).ready
         /\ \A i \in 1 .. Len(s) :
              /\ q[i].type = s[i].type /\ q[i].ready = s[i].ready
              /\ s[i].type = "Title" => q[i].restart
<1> DEFINE q == OnGameStart(s)
<1>1. s \in Seq(Scenes) /\ Len(s) \in Nat /\ DOMAIN s = 1 .. Len(s)
  BY DEF StackOK
<1>2. \A n \in 1 .. Len(s) : s[n] \in Scenes /\ SceneOK(s[n])
  BY <1>1 DEF StackOK
<1>3. /\ q = [n \in 1 .. Len(s) |-> q[n]]
      /\ \A n \in 1 .. Len(s) : q[n] = IF s[n].type = "Title"
                                         THEN [s[n] EXCEPT !.restart = TRUE] ELSE s[n]
  BY <1>1 DEF OnGameStart
<1> HIDE DEF q
<1>4. ASSUME NEW n \in 1 .. Len(s)
      PROVE  /\ q[n] \in Scenes /\ q[n].type = s[n].type /\ q[n].ready = s[n].ready
             /\ s[n].type = "Title" => q[n].restart
             /\ SceneOK(q[n])
  <2>1. CASE s[n].type = "Title"
    <3>1. q[n] = [s[n] EXCEPT !.restart = TRUE]
      BY <1>3, <2>1
    <3> QED
      BY <1>2, <2>1, <3>1 DEF Scenes, SceneOK
  <2>2. CASE s[n].type # "Title"
    BY <1>2, <1>3, <2>2
  <2> QED
    BY <2>1, <2>2
<1>5. q \in Seq(Scenes) /\ Len(q) = Len(s) /\ DOMAIN q = 1 .. Len(s)
  BY <1>1, <1>3, <1>4
<1>6. StackOK(q, md)
  BY <1>4, <1>5, SameTypes
<1>7. Types(q) = Types(s)
  BY <1>1, <1>4, <1>5 DEF Types
<1>8. Top(q).type = Top(s).type /\ Top(q).ready = Top(s).ready
  BY <1>4, <1>5, <1>6, TopIsScene
<1> QED
  BY <1>4, <1>5, <1>6, <1>7, <1>8 DEF q

(* Enter marks the scene on top as started.                                *)
LEMMA ReadyOK ==
  ASSUME NEW md, StackOK(instances, md), Flags
  PROVE  LET q == Ready(instances) IN
         /\ StackOK(q, md) /\ Len(q) = Len(instances)
         /\ Top(q).type = Top(instances).type
         /\ Top(q).ready = (Top(instances).ready \/ Starts)
         /\ Top(q).restart = (Top(instances).restart /\ ~Restarts)
         /\ \A i \in 1 .. Len(instances) : i # Len(instances) => q[i] = instances[i]
<1> DEFINE a == (Top(instances).ready \/ Starts)
           b == (Top(instances).restart /\ ~Restarts)
           r == [Top(instances) EXCEPT !.ready = a, !.restart = b]
<1>1. /\ Top(instances) \in Scenes /\ SceneOK(Top(instances))
      /\ Top(instances) = instances[Len(instances)]
      /\ instances \in Seq(Scenes) /\ Len(instances) \in 1 .. Len(instances)
  BY TopIsScene DEF StackOK
<1>2. a \in BOOLEAN /\ b \in BOOLEAN /\ (b => Top(instances).restart)
  BY Zenon
<1>3. Ready(instances) = [instances EXCEPT ![Len(instances)] = r]
  BY <1>1 DEF Ready
<1> HIDE DEF a, b
<1>4. /\ r \in Scenes /\ r.type = Top(instances).type /\ r.ready = a
      /\ r.restart = b /\ r.cont = Top(instances).cont
  BY <1>1, <1>2 DEF Scenes
<1>5. SceneOK(r)
  BY <1>1, <1>2, <1>4 DEF SceneOK
<1> HIDE DEF r
<1>6. LET q == [instances EXCEPT ![Len(instances)] = r] IN
      /\ StackOK(q, md) /\ Len(q) = Len(instances) /\ Top(q) = r
      /\ \A i \in 1 .. Len(instances) : i # Len(instances) => q[i] = instances[i]
  BY <1>4, <1>5, SetTopOK
<1>7. /\ StackOK(Ready(instances), md) /\ Len(Ready(instances)) = Len(instances)
      /\ Top(Ready(instances)) = r
      /\ \A i \in 1 .. Len(instances) : i # Len(instances) =>
           Ready(instances)[i] = instances[i]
  BY <1>3, <1>6
<1> QED
  BY <1>4, <1>7, Zenon DEF a, b

-----------------------------------------------------------------------------
(* A stack whose scene on top has been entered; pl: a game has begun       *)

Settled(s, pl) ==
  /\ StackOK(s, mode)
  /\ Plays(mode) /\ Top(s).type = "Title" => Top(s).ready
  /\ pl => Told(s, mode)
  /\ Top(s).type = "Logo" => ~pl

(* What the scene on top may leave behind when it goes                     *)
Goal(s, o, pl) ==
  /\ StackOK(s, mode)
  /\ o = "pushed" => ~Top(s).ready /\ ~Top(s).restart
  /\ Plays(mode) /\ Top(s).type = "Title" /\ ~Top(s).ready => o = "pushed"
  /\ pl => Told(s, mode)
  /\ Top(s).type = "Logo" => ~pl

LEMMA SettledIsGoal ==
  ASSUME NEW s, NEW pl, Settled(s, pl)
  PROVE  Goal(s, "popped", pl)
BY DEF Settled, Goal

LEMMA BelowSettles ==
  ASSUME NEW s, NEW pl, Settled(s, pl), Top(s).type # "Null"
  PROVE  Settled(Below(s), pl) /\ Top(Below(s)).type # "Logo"
<1>1. /\ StackOK(Below(s), mode) /\ Len(s) - 1 \in 1 .. Len(s)
      /\ Len(Below(s)) = Len(s) - 1 /\ Top(Below(s)) = s[Len(s) - 1]
      /\ \A i \in 1 .. Len(s) - 1 : Below(s)[i] = s[i]
  BY BelowOK DEF Settled
<1>2. Len(s) \in Nat
  BY TopIsScene DEF Settled
<1>3. Len(s) - 1 < Len(s) /\ \A i \in 1 .. Len(s) - 1 : i \in 1 .. Len(s)
  BY <1>2
<1>4. /\ s[Len(s) - 1].type # "Logo"
      /\ Plays(mode) /\ s[Len(s) - 1].type = "Title" => s[Len(s) - 1].ready
  BY <1>1, <1>3 DEF Settled, StackOK
<1>5. pl => Told(Below(s), mode)
  BY <1>1, <1>3 DEF Settled, Told
<1> QED
  BY <1>1, <1>4, <1>5 DEF Settled

LEMMA PopUntilSettles ==
  ASSUME NEW s, NEW pl, Settled(s, pl), NEW t
  PROVE  /\ Settled(PopUntil(s, t), pl)
         /\ IF t \in Types(s) THEN Top(PopUntil(s, t)).type = t ELSE PopUntil(s, t) = s
<1> DEFINE q == PopUntil(s, t)
<1>1. /\ StackOK(q, mode) /\ Len(q) \in 1 .. Len(s)
      /\ \A i \in 1 .. Len(q) : q[i] = s[i]
      /\ IF t \in Types(s) THEN Top(q).type = t ELSE q = s
  BY PopUntilOK DEF Settled
<1> HIDE DEF q
<1>2. /\ Len(s) \in Nat /\ Top(s) = s[Len(s)] /\ Top(q) = q[Len(q)]
      /\ Len(q) \in 1 .. Len(q) /\ Len(q) \in Nat
  BY <1>1, TopIsScene DEF Settled
<1>3. \A i \in 1 .. Len(q) : i \in 1 .. Len(s)
  BY <1>1, <1>2
<1>4. Top(q) = s[Len(q)]
  BY <1>1, <1>2
<1>5. CASE Len(q) = Len(s)
  <2>1. Top(q) = Top(s)
    BY <1>2, <1>4, <1>5
  <2> QED
    BY <1>1, <1>3, <2>1 DEF Settled, Told, q
<1>6. CASE Len(q) # Len(s)
  <2>1. Len(q) < Len(s)
    BY <1>1, <1>2, <1>6
  <2>2. /\ s[Len(q)].type # "Logo"
        /\ Plays(mode) /\ s[Len(q)].type = "Title" => s[Len(q)].ready
    BY <1>1, <2>1 DEF Settled, StackOK
  <2> QED
    BY <1>1, <1>3, <1>4, <2>2 DEF Settled, Told, q
<1> QED
  BY <1>5, <1>6

LEMMA DelaySettles ==
  ASSUME NEW s, NEW pl, Settled(s, pl), NEW b \in BOOLEAN
  PROVE  /\ Settled(With(s, "delay", b), pl)
         /\ Top(With(s, "delay", b)).type = Top(s).type
<1>1. StackOK(With(s, "delay", b), mode) /\ Alike(s, With(s, "delay", b))
  BY WithDelayOK DEF Settled
<1> QED
  BY <1>1, AlikeTop DEF Settled

LEMMA ReturnSettles ==
  ASSUME NEW s, NEW pl, Settled(s, pl)
  PROVE  Settled(ReturnToTitle(s), pl)
<1>1. Settled(PopUntil(s, "Title"), pl)
  BY PopUntilSettles
<1> QED
  BY <1>1, DelaySettles DEF ReturnToTitle

LEMMA PushSettles ==
  ASSUME NEW s, NEW pl, Settled(s, pl), NEW t \in AllTypes \ {"Logo"},
         Top(s).type # "Logo", t = "Title" => ~pl,
         mode # "battle" => /\ Rank(Top(s).type) < Rank(t)
                            /\ Rank(t) >= 3 => "Title" \in Types(s)
                            /\ OnMap(t) => "Map" \in Types(s)
  PROVE  /\ Goal(Push(s, t), "pushed", pl) /\ Top(Push(s, t)).type = t
         /\ t # "Title" \/ ~Plays(mode) => Settled(Push(s, t), pl)
<1> DEFINE q == Push(s, t)
<1>1. /\ StackOK(q, mode) /\ Len(q) = Len(s) + 1 /\ Top(q) = New(t)
      /\ \A i \in 1 .. Len(s) : q[i] = s[i]
  BY PushOK DEF Settled
<1>2. Len(s) \in Nat /\ Top(q) = q[Len(q)]
  BY <1>1, TopIsScene DEF Settled
<1> HIDE DEF q
<1>3. New(t).type = t /\ ~New(t).ready /\ ~New(t).restart
  BY DEF New
<1>4. pl => Told(q, mode)
  <2>1. \A i \in 1 .. Len(q) : i \in 1 .. Len(s) \/ i = Len(q)
    BY <1>1, <1>2
  <2> QED
    BY <1>1, <1>2, <1>3, <2>1 DEF Settled, Told
<1> QED
  BY <1>1, <1>3, <1>4 DEF Settled, Goal, q

(* What is on a stack by the scene on top of it                            *)
LEMMA InOrderTop ==
  ASSUME NEW s, NEW pl, Settled(s, pl), mode # "battle"
  PROVE  /\ Rank(Top(s).type) >= 2 => "Title" \in Types(s)
         /\ OnMap(Top(s).type) \/ Top(s).type = "Map" => "Map" \in Types(s)
<1>1. /\ Len(s) \in 1 .. Len(s) /\ Top(s) = s[Len(s)] /\ DOMAIN s = 1 .. Len(s)
      /\ Top(s).type \in Types(s) /\ Top(s) \in Scenes
  BY TopIsScene DEF Settled
<1>2. Top(s).type \in AllTypes
  BY <1>1 DEF Scenes
<1>3. Rank(Top(s).type) = 2 => Top(s).type = "Title"
  BY <1>2 DEF AllTypes, Rank
<1>4. Rank(Top(s).type) >= 2 => Rank(Top(s).type) = 2 \/ Rank(Top(s).type) >= 3
  BY <1>2, Ranks
<1>5. InOrder(s)
  BY DEF Settled, StackOK
<1> QED
  BY <1>1, <1>3, <1>4, <1>5 DEF InOrder, Types

(* A scene opens another one that comes later.                             *)
LEMMA OpenSettles ==
  ASSUME NEW s, NEW pl, Settled(s, pl), NEW t \in AllTypes \ {"Logo"},
         Rank(Top(s).type) < Rank(t), Rank(Top(s).type) >= 2,
         OnMap(t) => OnMap(Top(s).type) \/ Top(s).type = "Map"
  PROVE  /\ Goal(Push(s, t), "pushed", pl) /\ Settled(Push(s, t), pl)
         /\ Top(Push(s, t)).type = t
<1>1. Top(s).type # "Logo" /\ t # "Title"
  <2>1. Top(s).type \in AllTypes
    BY TopIsScene DEF Settled, Scenes
  <2> QED
    BY <2>1, Ranks DEF Rank
<1> QED
  BY <1>1, InOrderTop, PushSettles

LEMMA GameStartSettles ==
  ASSUME NEW s, NEW pl, Settled(s, pl), Top(s).type # "Logo"
  PROVE  /\ Settled(OnGameStart(s), TRUE) /\ Types(OnGameStart(s)) = Types(s)
         /\ Top(OnGameStart(s)).type = Top(s).type
<1> DEFINE q == OnGameStart(s)
<1>1. /\ StackOK(q, mode) /\ Len(q) = Len(s) /\ Types(q) = Types(s)
      /\ Top(q).type = Top(s).type /\ Top(q).ready = Top(s).ready
      /\ \A i \in 1 .. Len(s) : /\ q[i].type = s[i].type /\ q[i].ready = s[i].ready
                                /\ s[i].type = "Title" => q[i].restart
  BY OnGameStartOK DEF Settled
<1> HIDE DEF q
<1>2. Len(s) \in Nat /\ Top(s) = s[Len(s)]
  BY TopIsScene DEF Settled
<1>3. Told(q, mode)
  <2>1. \A i \in 1 .. Len(s) : i < Len(s) \/ i = Len(s)
    BY <1>2
  <2>2. \A i \in 1 .. Len(s) : Plays(mode) /\ s[i].type = "Title" => s[i].ready
    BY <1>2, <2>1 DEF Settled, StackOK
  <2> QED
    BY <1>1, <2>2 DEF Told
<1> QED
  BY <1>1, <1>3 DEF Settled, q

LEMMA LoadSettles ==
  ASSUME NEW s, NEW pl, Settled(s, pl), Top(s).type # "Logo",
         mode # "battle" => "Title" \in Types(s)
  PROVE  Goal(LoadSavegame(s), "pushed", TRUE)
<1> DEFINE g == OnGameStart(s)
           q == PopUntil(g, "Title")
<1>1. Settled(g, TRUE) /\ Types(g) = Types(s) /\ Top(g).type = Top(s).type
  BY GameStartSettles
<1>2. /\ Settled(q, TRUE)
      /\ IF "Title" \in Types(g) THEN Top(q).type = "Title" ELSE q = g
  BY <1>1, PopUntilSettles
<1>3. LoadSavegame(s) = Push(q, "Map")
  BY DEF LoadSavegame
<1> HIDE DEF g, q
<1>4. Top(q).type # "Logo"
  BY <1>1, <1>2
<1>5. ASSUME mode # "battle"
      PROVE  /\ Rank(Top(q).type) < Rank("Map") /\ "Title" \in Types(q)
             /\ ~OnMap("Map")
  <2>1. Top(q).type = "Title"
    BY <1>1, <1>2, <1>5
  <2>2. Top(q).type \in Types(q)
    BY <1>2, TopIsScene DEF Settled
  <2> QED
    BY <2>1, <2>2 DEF Rank, OnMap
<1>6. "Map" \in AllTypes \ {"Logo"}
  BY DEF AllTypes
<1> QED
  BY <1>2, <1>3, <1>4, <1>5, <1>6, PushSettles

-----------------------------------------------------------------------------
(* Steps *)

Transitions == {"shown", "erased", "showing", "erasing"}

(* The scene on top goes.                                                  *)
LEMMA GoesKeeps ==
  ASSUME IInv, NEW s, NEW o \in {"pushed", "popped"}, Goes(s, o),
         Goal(s, o, played'), UNCHANGED start, init' = init, stage' = "close",
         {files', exitFlag', resetFlag', played'} \subseteq BOOLEAN,
         transition' \in Transitions
  PROVE  IInv'
<1>1. /\ instances' = s /\ op' = o /\ left' = TRUE /\ entered' = "no" /\ mode' = mode
  BY DEF Goes, start
<1>2. Flags'
  BY <1>1 DEF IInv, Flags, Transitions
<1>3. StackOK(instances', mode')
  BY <1>1 DEF Goal
<1>4. Entering'
  BY <1>1 DEF Entering, Goal
<1>5. Playing'
  BY <1>1 DEF Playing, Goal
<1> QED
  BY <1>2, <1>3, <1>4, <1>5 DEF IInv

(* Only delays and continuations change.                                   *)
LEMMA AlikeKeeps ==
  ASSUME IInv, StackOK(instances', mode), Alike(instances, instances'),
         UNCHANGED <<start, op, init, left, entered, played>>,
         left => stage' = "close", stage' \in {"frame", "main", "close", "ended"},
         {files', exitFlag', resetFlag'} \subseteq BOOLEAN,
         transition' \in Transitions
  PROVE  IInv'
<1>1. mode' = mode
  BY DEF start
<1>2. Flags'
  BY DEF IInv, Flags, Transitions
<1>3. /\ Top(instances').type = Top(instances).type
      /\ Top(instances').ready = Top(instances).ready
      /\ Top(instances').restart = Top(instances).restart
      /\ Told(instances, mode) => Told(instances', mode)
  BY AlikeTop DEF IInv
<1>4. Entering'
  BY <1>1, <1>3 DEF IInv, Entering
<1>5. Playing'
  BY <1>1, <1>3 DEF IInv, Playing
<1> QED
  BY <1>1, <1>2, <1>4, <1>5 DEF IInv

LEMMA AlikeItself == ASSUME NEW s PROVE Alike(s, s)
BY DEF Alike

LEMMA StaysKeeps ==
  ASSUME IInv, instances' = instances, UNCHANGED <<start, op, init, left, entered, played>>,
         left => stage' = "close", stage' \in {"frame", "main", "close", "ended"},
         {files', exitFlag', resetFlag'} \subseteq BOOLEAN,
         transition' \in Transitions
  PROVE  IInv'
BY AlikeItself, AlikeKeeps DEF IInv

LEMMA FlagTypes ==
  ASSUME Flags
  PROVE  /\ transition \in Transitions /\ Erase(transition) \in Transitions
         /\ exitFlag \in BOOLEAN /\ resetFlag \in BOOLEAN /\ played \in BOOLEAN
         /\ MayAskForFiles => files' \in BOOLEAN
BY DEF Flags, Transitions, Erase, MayAskForFiles

LEMMA MapSettles ==
  ASSUME IInv, Top(instances).type = "Map"
  PROVE  Settled(instances, played)
BY DEF IInv, Playing, Settled

LEMMA UpdatingSettles ==
  ASSUME IInv, Updating
  PROVE  Settled(instances, played) /\ left = FALSE /\ init = TRUE
<1>1. ~left /\ init
  BY DEF IInv, Entering, Updating
<1>2. left \in BOOLEAN /\ init \in BOOLEAN
  BY DEF IInv, Flags
<1> QED
  BY <1>1, <1>2 DEF IInv, Entering, Playing, Settled

-----------------------------------------------------------------------------

LEMMA AwaitKeeps ==
  ASSUME IInv, Await
  PROVE  IInv'
<1>1. /\ UNCHANGED <<start, init, files, exitFlag, resetFlag, stage, left, played>>
      /\ stage = "frame" /\ left = FALSE
  <2>1. ~left /\ left \in BOOLEAN
    BY DEF IInv, Entering, Flags, Await, Waiting
  <2> QED
    BY <2>1 DEF Await, Waiting
<1>2. {files', exitFlag', resetFlag'} \subseteq BOOLEAN /\ transition' \in Transitions
  BY <1>1 DEF IInv, Flags, Await, Transitions
<1>3. CASE ~exitFlag
  <2>1. Heeded = instances /\ op' = op /\ entered' = entered
    BY <1>3 DEF Await, Heeded
  <2>2. instances' \in {instances, With(instances, "delay", FALSE)}
    BY <2>1 DEF Await
  <2>3. StackOK(instances', mode) /\ Alike(instances, instances')
    BY <2>2, WithDelayOK, AlikeItself DEF IInv
  <2> QED
    BY <1>1, <1>2, <2>1, <2>3, AlikeKeeps
<1>4. CASE exitFlag
  <2> DEFINE q == PopUntil(instances, "Null")
  <2>1. /\ instances' \in {q, With(q, "delay", FALSE)} /\ op' = "popped"
        /\ entered' \in {entered, "no"}
    BY <1>4 DEF Await, Heeded
  <2>2. "Null" \in Types(instances)
    <3>1. 1 \in DOMAIN instances
      BY TopIsScene DEF IInv
    <3> QED
      BY <3>1 DEF IInv, StackOK, Types
  <2>3. /\ StackOK(q, mode) /\ Len(q) \in 1 .. Len(instances)
        /\ \A i \in 1 .. Len(q) : q[i] = instances[i]
        /\ Top(q).type = "Null"
    BY <2>2, PopUntilOK DEF IInv
  <2> HIDE DEF q
  <2>4. played => Told(q, mode)
    <3>1. Len(instances) \in Nat
      BY TopIsScene DEF IInv
    <3>2. \A i \in 1 .. Len(q) : i \in 1 .. Len(instances)
      BY <2>3, <3>1
    <3> QED
      BY <2>3, <3>2 DEF IInv, Playing, Told
  <2>5. StackOK(instances', mode) /\ Alike(q, instances')
    BY <2>1, <2>3, WithDelayOK, AlikeItself
  <2>6. Top(instances').type = "Null" /\ (played => Told(instances', mode))
    BY <2>3, <2>4, <2>5, AlikeTop
  <2>7. mode' = mode
    BY <1>1 DEF start
  <2>8. Flags'
    BY <1>1, <1>2, <2>1 DEF IInv, Flags, Transitions
  <2> QED
    BY <1>1, <2>1, <2>5, <2>6, <2>7, <2>8 DEF IInv, Entering, Playing
<1> QED
  BY <1>3, <1>4

(* The map is left by its events, or suspended.                            *)
LEMMA SceneExitsKeeps ==
  ASSUME IInv, NEW s, Settled(s, played), Alike(instances, s), SceneExits(s),
         UNCHANGED <<start, init, played>>, ~left,
         stage' = "close" \/ (left' = left /\ stage' \in {"frame", "main", "close"}),
         {files', resetFlag'} \subseteq BOOLEAN, transition' \in Transitions
  PROVE  IInv'
<1>1. exitFlag' \in BOOLEAN
  BY DEF SceneExits, IInv, Flags
<1>2. played' = played /\ played \in BOOLEAN
  BY DEF IInv, Flags
<1>3. CASE Goes(ReturnToTitle(s), "popped") \/ Goes(PopUntil(s, "GameBrowser"), "popped")
  <2>1. stage' = "close"
    BY <1>3 DEF Goes
  <2>2. Settled(ReturnToTitle(s), played) /\ Settled(PopUntil(s, "GameBrowser"), played)
    BY ReturnSettles, PopUntilSettles
  <2>3. /\ Goal(ReturnToTitle(s), "popped", played')
        /\ Goal(PopUntil(s, "GameBrowser"), "popped", played')
    BY <1>2, <2>2, SettledIsGoal
  <2> QED
    BY <1>1, <1>2, <1>3, <2>1, <2>3, GoesKeeps
<1>4. CASE instances' = s /\ UNCHANGED <<op, left, entered>>
  BY <1>1, <1>4, AlikeKeeps DEF Settled
<1> QED
  BY <1>3, <1>4 DEF SceneExits

LEMMA SuspendsOK ==
  ASSUME NEW s, StackOK(s, mode), Top(s).type = "Map", Suspends(s), Flags
  PROVE  /\ StackOK(instances', mode) /\ Alike(s, instances')
         /\ transition' \in Transitions /\ files' \in BOOLEAN
         /\ UNCHANGED <<left, exitFlag>>
<1>1. PICK c \in {"map", "call"} : instances' = With(s, "cont", c)
  BY DEF Suspends
<1>2. StackOK(instances', mode) /\ Alike(s, instances')
  BY <1>1, WithContOK DEF Conts
<1> QED
  BY <1>2, FlagTypes DEF Suspends, Transitions

LEMMA AlikeTwice ==
  ASSUME NEW s, NEW q, NEW r, Alike(s, q), Alike(q, r)
  PROVE  Alike(s, r)
BY DEF Alike

LEMMA ResumeKeeps ==
  ASSUME IInv, Resume
  PROVE  IInv'
<1> DEFINE rest == With(instances, "cont", "none")
           cont == Top(instances).cont
<1>1. /\ UNCHANGED <<start, init, resetFlag, played>> /\ stage = "frame"
      /\ stage' = IF left' THEN "close"
                  ELSE IF Pending(transition', files', instances') THEN "frame" ELSE "main"
      /\ left = FALSE
  <2>1. ~left /\ left \in BOOLEAN
    BY DEF IInv, Entering, Flags, Resume
  <2> QED
    BY <2>1 DEF Resume
<1>2. /\ StackOK(rest, mode) /\ Alike(instances, rest)
  BY WithContOK DEF IInv, Conts
<1>3. /\ exitFlag \in BOOLEAN /\ resetFlag' \in BOOLEAN /\ files \in BOOLEAN
      /\ transition \in Transitions /\ played' = played
  BY <1>1 DEF IInv, Flags, Transitions
<1>4. /\ SceneOK(Top(instances)) /\ Top(rest).type = Top(instances).type
  BY <1>2, AlikeTop, TopIsScene DEF IInv
<1>5. ASSUME cont \in {"map", "call"}
      PROVE  Top(instances).type = "Map" /\ Top(rest).type = "Map" /\ Settled(rest, played)
  <2>1. Top(instances).type = "Map" /\ Top(rest).type = "Map"
    BY <1>4, <1>5 DEF SceneOK
  <2>2. Told(instances, mode) => Told(rest, mode)
    BY <1>2, AlikeTop DEF IInv
  <2> HIDE DEF rest
  <2> QED
    BY <1>2, <2>1, <2>2 DEF IInv, Playing, Settled
<1> HIDE DEF rest, cont
<1>6. CASE cont = "none" /\ Stays /\ UNCHANGED <<transition, files, exitFlag>>
  BY <1>1, <1>3, <1>6, StaysKeeps DEF Stays
<1>7. CASE /\ instances' = rest /\ transition' \in {"showing", transition}
           /\ UNCHANGED <<op, left, entered, files, exitFlag>>
  BY <1>1, <1>2, <1>3, <1>7, AlikeKeeps DEF Transitions
<1>8. CASE cont = "map" /\ SceneExits(rest) /\ MayAskForFiles /\ UNCHANGED transition
  <2>1. files' \in BOOLEAN
    BY <1>8, FlagTypes DEF IInv
  <2>2. stage' = "close" \/ (left' = left /\ stage' \in {"frame", "main", "close"})
    <3>1. left' = TRUE \/ left' = left
      BY <1>8 DEF SceneExits, Goes
    <3> QED
      BY <1>1, <3>1
  <2> QED
    BY <1>1, <1>2, <1>3, <1>5, <1>8, <2>1, <2>2, SceneExitsKeeps
<1>9. CASE cont = "map" /\ Suspends(rest) /\ UNCHANGED <<op, entered>>
  <2>1. /\ StackOK(instances', mode) /\ Alike(rest, instances')
        /\ transition' \in Transitions /\ files' \in BOOLEAN
        /\ UNCHANGED <<left, exitFlag>>
    BY <1>2, <1>5, <1>9, SuspendsOK DEF IInv
  <2>2. Alike(instances, instances')
    BY <1>2, <2>1, AlikeTwice
  <2> QED
    BY <1>1, <1>3, <1>9, <2>1, <2>2, AlikeKeeps
<1>10. CASE /\ cont \in {"map", "call"} /\ UNCHANGED <<transition, files, exitFlag>>
            /\ \E t \in Called : Goes(Push(rest, t), "pushed")
  <2>1. PICK t \in Called : Goes(Push(rest, t), "pushed")
    BY <1>10
  <2>2. /\ t \in AllTypes \ {"Logo"} /\ Rank("Map") < Rank(t) /\ Rank("Map") >= 2
    BY DEF Called, AllTypes, Rank
  <2>3. Goal(Push(rest, t), "pushed", played)
    BY <1>5, <1>10, <2>2, OpenSettles
  <2>4. stage' = "close"
    BY <1>1, <2>1 DEF Goes
  <2>5. {files', exitFlag', resetFlag', played'} \subseteq BOOLEAN
    BY <1>3, <1>10 DEF IInv, Flags
  <2> QED
    BY <1>1, <1>3, <1>10, <2>1, <2>3, <2>4, <2>5, GoesKeeps
<1> QED
  BY <1>6, <1>7, <1>8, <1>9, <1>10 DEF Resume, rest, cont

(* Start or Continue leave the scene on top ready, and a title that had to *)
(* reset the game has done so.                                             *)
LEMMA EnteredSettles ==
  ASSUME IInv, stage = "main", ~init,
         NEW pl, pl = (played /\ ~(Top(instances).type = "Title" /\ Restarts))
  PROVE  /\ Settled(Ready(instances), pl)
         /\ Plays(mode) /\ Top(instances).type = "Title" => ~Top(Ready(instances)).restart
<1> DEFINE q == Ready(instances)
<1>1. /\ StackOK(q, mode) /\ Len(q) = Len(instances)
      /\ Top(q).type = Top(instances).type
      /\ Top(q).ready = (Top(instances).ready \/ Starts)
      /\ Top(q).restart = (Top(instances).restart /\ ~Restarts)
      /\ \A i \in 1 .. Len(instances) : i # Len(instances) => q[i] = instances[i]
  BY ReadyOK DEF IInv
<1> HIDE DEF q
<1>2. /\ Len(instances) \in 1 .. Len(instances)
      /\ Top(instances) = instances[Len(instances)] /\ Top(q) = q[Len(q)]
  BY <1>1, TopIsScene DEF IInv
<1>3. op \in {"pushed", "popped"}
  BY DEF IInv, Flags, Entering
<1>4. Plays(mode) /\ Top(q).type = "Title" => Top(q).ready
  BY <1>1 DEF IInv, Entering, Starts
<1>5. pl => Told(q, mode)
  <2>1. ASSUME pl, Plays(mode), NEW i \in 1 .. Len(q), q[i].type = "Title"
        PROVE  q[i].ready /\ q[i].restart
    <3>1. Told(instances, mode)
      BY <2>1 DEF IInv, Playing
    <3>2. CASE i # Len(instances)
      BY <1>1, <2>1, <3>1, <3>2 DEF Told
    <3>3. CASE i = Len(instances)
      <4>1. Top(instances).ready /\ Top(instances).restart /\ Top(instances).type = "Title"
        BY <1>1, <1>2, <2>1, <3>1, <3>3 DEF Told
      <4>2. ~Restarts
        BY <2>1, <4>1
      <4> QED
        BY <1>1, <1>2, <3>3, <4>1, <4>2
    <3> QED
      BY <3>2, <3>3
  <2> QED
    BY <2>1 DEF Told
<1>6. Top(q).type = "Logo" => ~pl
  BY <1>1 DEF IInv, Playing
<1>7. ASSUME Plays(mode), Top(instances).type = "Title"
      PROVE  ~Top(q).restart
  <2>1. CASE op = "pushed"
    BY <1>1, <2>1 DEF IInv, Entering
  <2>2. CASE op = "popped"
    <3>1. Top(instances).ready
      BY <1>7, <2>2 DEF IInv, Entering
    <3> QED
      BY <1>1, <2>2, <3>1 DEF Restarts
  <2> QED
    BY <1>3, <2>1, <2>2
<1> QED
  BY <1>1, <1>4, <1>5, <1>6, <1>7 DEF Settled, q

LEMMA AlikeSettles ==
  ASSUME NEW s, NEW q, NEW pl, Settled(s, pl), StackOK(q, mode), Alike(s, q)
  PROVE  Settled(q, pl)
BY AlikeTop DEF Settled

LEMMA EnterStaysOK ==
  ASSUME EnterStays, Flags, NEW pl, Settled(Ready(instances), pl)
  PROVE  /\ Settled(instances', pl) /\ Alike(Ready(instances), instances')
         /\ transition' \in Transitions /\ files' \in BOOLEAN
         /\ UNCHANGED <<left, exitFlag>>
<1> DEFINE s == Ready(instances)
<1> HIDE DEF s
<1>1. StackOK(s, mode) /\ Settled(s, pl)
  BY DEF Settled, s
<1>2. CASE Top(s).type = "Map" /\ Suspends(s)
  BY <1>1, <1>2, SuspendsOK, AlikeSettles DEF s
<1>3. CASE /\ MayAskForFiles /\ UNCHANGED <<left, exitFlag>>
           /\ CASE transition # "erased" -> instances' = s /\ UNCHANGED transition
                [] transition = "erased" /\ files' ->
                     instances' = With(s, "cont", "in") /\ UNCHANGED transition
                [] OTHER -> instances' = s /\ transition' \in {"showing", "shown", "erased"}
  <2>1. files' \in BOOLEAN
    BY <1>3, FlagTypes
  <2>2. /\ instances' \in {s, With(s, "cont", "in")}
        /\ transition' \in {transition, "showing", "shown", "erased"}
    BY <1>3
  <2>3. transition' \in Transitions
    BY <2>2, FlagTypes DEF Transitions
  <2>4. StackOK(instances', mode) /\ Alike(s, instances')
    BY <1>1, <2>2, WithContOK, AlikeItself DEF Conts
  <2> QED
    BY <1>1, <1>3, <2>1, <2>3, <2>4, AlikeSettles DEF s
<1> QED
  BY <1>2, <1>3 DEF EnterStays, s

LEMMA EnterLeavesOK ==
  ASSUME EnterLeaves, Flags, NEW pl, Settled(Ready(instances), pl)
  PROVE  /\ Settled(instances', pl) /\ transition' \in Transitions
         /\ files' \in BOOLEAN /\ UNCHANGED left /\ exitFlag' \in BOOLEAN
<1> DEFINE s == Ready(instances)
<1> HIDE DEF s
<1>1. Settled(s, pl)
  BY DEF s
<1>2. transition' \in Transitions /\ files' \in BOOLEAN /\ UNCHANGED left
  BY DEF EnterLeaves, Flags, Transitions
<1>3. exitFlag' = exitFlag
  BY DEF EnterLeaves
<1>4. \/ instances' = ReturnToTitle(s)
      \/ instances' = PopUntil(s, "GameBrowser")
      \/ instances' = Below(s) /\ Top(s).type \in {"Battle", "ActorTarget", "Load"}
  BY DEF EnterLeaves, s
<1>5. Settled(instances', pl)
  BY <1>1, <1>4, ReturnSettles, PopUntilSettles, BelowSettles
<1> QED
  BY <1>2, <1>3, <1>5 DEF Flags

LEMMA EnterKeeps ==
  ASSUME IInv, Enter
  PROVE  IInv'
<1> DEFINE pl == (played /\ ~(Top(instances).type = "Title" /\ Restarts))
<1>1. /\ stage = "main" /\ ~init /\ op' = "none" /\ init' = TRUE /\ stage' = "frame"
      /\ mode' = mode /\ resetFlag' = resetFlag /\ played' = pl
  BY DEF Enter, start
<1>2. played' \in BOOLEAN
  <2>1. pl \in BOOLEAN
    BY Zenon
  <2> QED
    BY <1>1, <2>1
<1> HIDE DEF pl
<1>3. /\ Settled(Ready(instances), pl)
      /\ Plays(mode) /\ Top(instances).type = "Title" => ~Top(Ready(instances)).restart
  BY <1>1, EnteredSettles DEF pl
<1>4. /\ Settled(instances', pl) /\ entered' \in {"yes", "left"}
      /\ transition' \in Transitions /\ files' \in BOOLEAN /\ UNCHANGED left
      /\ exitFlag' \in BOOLEAN
      /\ entered' = "yes" => Alike(Ready(instances), instances')
  <2>1. CASE EnterStays /\ entered' = "yes"
    BY <1>3, <2>1, EnterStaysOK DEF IInv, Flags
  <2>2. CASE EnterLeaves /\ entered' = "left"
    BY <1>3, <2>2, EnterLeavesOK DEF IInv
  <2> QED
    BY <2>1, <2>2 DEF Enter
<1>5. ~left' /\ left' \in BOOLEAN
  BY <1>1, <1>4 DEF IInv, Flags, Entering
<1>6. Flags'
  BY <1>1, <1>2, <1>4, <1>5 DEF IInv, Flags, Transitions
<1>7. entered' = "yes" /\ Plays(mode) /\ Top(instances').type = "Title"
        => ~Top(instances').restart
  <2>1. ASSUME entered' = "yes", Plays(mode), Top(instances').type = "Title"
        PROVE  ~Top(instances').restart
    <3>1. /\ Top(instances').type = Top(Ready(instances)).type
          /\ Top(instances').restart = Top(Ready(instances)).restart
      BY <1>3, <1>4, <2>1, AlikeTop DEF Settled
    <3>2. Top(Ready(instances)).type = Top(instances).type
      BY ReadyOK DEF IInv
    <3> QED
      BY <1>3, <2>1, <3>1, <3>2
  <2> QED
    BY <2>1
<1>8. Entering'
  BY <1>1, <1>4, <1>5, <1>7 DEF Entering, Settled
<1>9. Playing' /\ StackOK(instances', mode)
  BY <1>1, <1>4 DEF Playing, Settled
<1> QED
  BY <1>1, <1>6, <1>8, <1>9 DEF IInv

-----------------------------------------------------------------------------
(* The updates: a scene that is updated has been entered.                  *)

LEMMA UpdateGoes ==
  ASSUME IInv, NEW t, Updates(t), NEW s, NEW o \in {"pushed", "popped"}, Goes(s, o),
         Goal(s, o, played'), UNCHANGED exitFlag, played' \in BOOLEAN,
         transition' \in Transitions
  PROVE  IInv'
<1>1. files' \in BOOLEAN /\ exitFlag' \in BOOLEAN
  BY FlagTypes DEF IInv, Updates
<1> QED
  BY <1>1, GoesKeeps DEF Updates, Closes

LEMMA PlainGoes ==
  ASSUME IInv, NEW t, Updates(t), NEW s, NEW o \in {"pushed", "popped"}, Goes(s, o),
         Goal(s, o, played), Plainly
  PROVE  IInv'
<1>1. played' = played /\ played' \in BOOLEAN /\ transition' \in Transitions
  BY FlagTypes DEF IInv, Plainly
<1>2. Goal(s, o, played')
  BY <1>1
<1> QED
  BY <1>1, <1>2, UpdateGoes DEF Plainly

LEMMA PlainStays ==
  ASSUME IInv, NEW t, Updates(t), Stays, Plainly
  PROVE  IInv'
<1>1. files' \in BOOLEAN /\ exitFlag' \in BOOLEAN /\ transition' \in Transitions
  BY FlagTypes DEF IInv, Updates, Plainly
<1> QED
  BY <1>1, StaysKeeps DEF Stays, Plainly, Updates, Closes

LEMMA UpdatesSettles ==
  ASSUME IInv, NEW t, Updates(t)
  PROVE  /\ Settled(instances, played) /\ Top(instances).type = t /\ played \in BOOLEAN
         /\ Top(instances) \in Scenes
BY UpdatingSettles, TopIsScene DEF Updates, IInv, Flags

LEMMA PopsSettles ==
  ASSUME NEW s, NEW pl, Settled(s, pl)
  PROVE  /\ Top(s).type # "Null" => Goal(Below(s), "popped", pl)
         /\ \A t : Goal(PopUntil(s, t), "popped", pl)
         /\ Goal(ReturnToTitle(s), "popped", pl)
BY BelowSettles, PopUntilSettles, ReturnSettles, SettledIsGoal

LEMMA ExitAllKeeps ==
  ASSUME IInv, ExitAll
  PROVE  IInv'
<1>1. /\ UNCHANGED <<start, init, transition, files, exitFlag, resetFlag, played>>
      /\ stage' = "close" /\ Settled(instances, played)
  BY UpdatingSettles DEF ExitAll, Closes
<1>2. {files', exitFlag', resetFlag', played'} \subseteq BOOLEAN /\ transition' \in Transitions
  BY <1>1 DEF IInv, Flags, Transitions
<1>3. CASE Stays
  BY <1>1, <1>2, <1>3, StaysKeeps DEF Stays
<1>4. CASE Goes(PopUntil(instances, "Null"), "popped")
  <2>1. Goal(PopUntil(instances, "Null"), "popped", played')
    BY <1>1, PopsSettles
  <2> QED
    BY <1>1, <1>2, <1>4, <2>1, GoesKeeps
<1> QED
  BY <1>3, <1>4 DEF ExitAll

LEMMA ResetKeeps ==
  ASSUME IInv, Reset
  PROVE  IInv'
<1>1. /\ UNCHANGED <<start, init, transition, files, exitFlag, played>> /\ resetFlag' = FALSE
      /\ stage' = "close" /\ Settled(instances, played)
      /\ Goes(ReturnToTitle(instances), "popped")
  BY UpdatingSettles DEF Reset, Closes
<1>2. {files', exitFlag', resetFlag', played'} \subseteq BOOLEAN /\ transition' \in Transitions
  BY <1>1 DEF IInv, Flags, Transitions
<1>3. Goal(ReturnToTitle(instances), "popped", played')
  BY <1>1, PopsSettles
<1> QED
  BY <1>1, <1>2, <1>3, GoesKeeps

(* LoadSavegame, from the scenes above the title                           *)
LEMMA LoadsKeeps ==
  ASSUME IInv, NEW t, Updates(t), NEW s, NEW pl, Settled(s, pl), Top(s).type # "Logo",
         mode # "battle" => "Title" \in Types(s), Loads(s)
  PROVE  IInv'
<1>1. played' = TRUE /\ transition' \in Transitions /\ Goal(LoadSavegame(s), "pushed", played')
  BY LoadSettles, FlagTypes DEF Loads, IInv
<1> QED
  BY <1>1, UpdateGoes DEF Loads

(* A scene is replaced by one that comes later, or by itself.              *)
LEMMA ReplaceSettles ==
  ASSUME NEW s, NEW pl, Settled(s, pl), Top(s).type # "Null",
         NEW t \in AllTypes \ {"Logo"}, t = "Title" => ~pl,
         mode # "battle" =>
           /\ Rank(Top(s).type) <= Rank(t)
           /\ Rank(t) >= 3 => Rank(Top(s).type) >= 3
           /\ OnMap(t) => OnMap(Top(s).type)
  PROVE  /\ Goal(Replace(s, t), "pushed", pl) /\ Top(Replace(s, t)).type = t
         /\ t # "Title" \/ ~Plays(mode) => Settled(Replace(s, t), pl)
         /\ t \in Types(Replace(s, t))
<1> DEFINE b == Below(s)
<1>1. /\ StackOK(b, mode) /\ Len(s) - 1 \in 1 .. Len(s)
      /\ Len(b) = Len(s) - 1 /\ Top(b) = s[Len(s) - 1]
      /\ \A i \in 1 .. Len(s) - 1 : b[i] = s[i]
  BY BelowOK DEF Settled
<1>2. Settled(b, pl) /\ Top(b).type # "Logo"
  BY BelowSettles
<1> HIDE DEF b
<1>3. /\ Len(s) \in 1 .. Len(s) /\ Top(s) = s[Len(s)] /\ Top(s) \in Scenes
      /\ DOMAIN b = 1 .. Len(b) /\ Top(b) \in Scenes /\ Len(s) \in Nat
  BY <1>1, TopIsScene DEF Settled
<1>4. ASSUME mode # "battle"
      PROVE  /\ Rank(Top(b).type) < Rank(t)
             /\ Rank(t) >= 3 => "Title" \in Types(b)
             /\ OnMap(t) => "Map" \in Types(b)
  <2>1. InOrder(s) /\ Len(s) - 1 < Len(s)
    BY <1>3, <1>4 DEF Settled, StackOK
  <2>2. Rank(Top(b).type) < Rank(Top(s).type)
    BY <1>1, <1>3, <2>1 DEF InOrder
  <2>3. Rank(Top(b).type) \in Nat /\ Rank(Top(s).type) \in Nat /\ Rank(t) \in Nat
    BY <1>3, Ranks DEF Scenes
  <2>4. \A i \in 1 .. Len(s) : i < Len(s) => i \in 1 .. Len(s) - 1
    BY <1>3
  <2>5. ASSUME NEW i \in 1 .. Len(s), i < Len(s)
        PROVE  s[i].type \in Types(b)
    BY <1>1, <1>3, <2>4, <2>5 DEF Types
  <2>6. Rank(t) >= 3 => "Title" \in Types(b)
    BY <1>3, <1>4, <2>1, <2>5 DEF InOrder
  <2>7. OnMap(t) => "Map" \in Types(b)
    BY <1>3, <1>4, <2>1, <2>5 DEF InOrder
  <2>8. Rank(Top(b).type) < Rank(t)
    BY <1>4, <2>2, <2>3
  <2> QED
    BY <2>6, <2>7, <2>8
<1>5. /\ Goal(Push(b, t), "pushed", pl) /\ Top(Push(b, t)).type = t
      /\ t # "Title" \/ ~Plays(mode) => Settled(Push(b, t), pl)
  BY <1>2, <1>4, PushSettles
<1>6. t \in Types(Push(b, t))
  <2>1. StackOK(Push(b, t), mode)
    BY <1>5 DEF Goal
  <2> QED
    BY <1>5, <2>1, TopIsScene
<1> QED
  BY <1>5, <1>6 DEF Replace, b

LEMMA UpdateNullKeeps ==
  ASSUME IInv, UpdateNull
  PROVE  IInv'
BY PlainStays DEF UpdateNull

LEMMA UpdateLogoKeeps ==
  ASSUME IInv, UpdateLogo
  PROVE  IInv'
<1>1. Updates("Logo") /\ Settled(instances, played) /\ Top(instances).type = "Logo"
  BY UpdatesSettles DEF UpdateLogo
<1>2. /\ Rank("Logo") <= Rank("GameBrowser") /\ ~(Rank("GameBrowser") >= 3)
      /\ Rank("Logo") <= Rank("Title") /\ ~(Rank("Title") >= 3)
      /\ ~OnMap("GameBrowser") /\ ~OnMap("Title") /\ ~played
      /\ {"GameBrowser", "Title"} \subseteq AllTypes \ {"Logo"}
  BY <1>1 DEF Rank, OnMap, Settled, AllTypes
<1>3. CASE Stays /\ Plainly
  BY <1>1, <1>3, PlainStays
<1>4. CASE Goes(Replace(instances, "GameBrowser"), "pushed") /\ Plainly
  <2>1. Goal(Replace(instances, "GameBrowser"), "pushed", played)
    BY <1>1, <1>2, ReplaceSettles
  <2> QED
    BY <1>1, <1>4, <2>1, PlainGoes
<1>5. CASE Goes(Replace(instances, "Title"), "pushed") /\ Plainly
  <2>1. Goal(Replace(instances, "Title"), "pushed", played)
    BY <1>1, <1>2, ReplaceSettles
  <2> QED
    BY <1>1, <1>5, <2>1, PlainGoes
<1>6. CASE mode = "load" /\ Loads(Replace(instances, "Title"))
  <2>1. ~Plays(mode)
    BY <1>6 DEF Plays
  <2>2. /\ Settled(Replace(instances, "Title"), played)
        /\ Top(Replace(instances, "Title")).type # "Logo"
        /\ "Title" \in Types(Replace(instances, "Title"))
    BY <1>1, <1>2, <2>1, ReplaceSettles
  <2> QED
    BY <1>1, <1>6, <2>2, LoadsKeeps
<1> QED
  BY <1>3, <1>4, <1>5, <1>6 DEF UpdateLogo

LEMMA UpdateGameBrowserKeeps ==
  ASSUME IInv, UpdateGameBrowser
  PROVE  IInv'
<1>1. /\ Updates("GameBrowser") /\ Settled(instances, played)
      /\ Top(instances).type = "GameBrowser"
  BY UpdatesSettles DEF UpdateGameBrowser
<1>2. CASE Stays /\ Plainly
  BY <1>1, <1>2, PlainStays
<1>3. CASE Goes(Below(instances), "popped") /\ Plainly
  BY <1>1, <1>3, PopsSettles, PlainGoes
<1>4. CASE /\ Goes(Push(instances, "Title"), "pushed")
           /\ did' = "boot" /\ played' = FALSE /\ UNCHANGED <<transition, exitFlag>>
  <2>1. Settled(instances, FALSE)
    BY <1>1 DEF Settled
  <2>2. /\ Rank("GameBrowser") < Rank("Title") /\ ~(Rank("Title") >= 3)
        /\ ~OnMap("Title") /\ "Title" \in AllTypes \ {"Logo"}
    BY DEF Rank, OnMap, AllTypes
  <2>3. Goal(Push(instances, "Title"), "pushed", FALSE)
    BY <1>1, <2>1, <2>2, PushSettles
  <2>4. transition' \in Transitions
    BY <1>4, FlagTypes DEF IInv
  <2>5. Goal(Push(instances, "Title"), "pushed", played') /\ played' \in BOOLEAN
    BY <1>4, <2>3
  <2> QED
    BY <1>1, <1>4, <2>4, <2>5, UpdateGoes
<1> QED
  BY <1>2, <1>3, <1>4 DEF UpdateGameBrowser

LEMMA SetupNewGameKeeps ==
  ASSUME IInv, Updates("Title"), SetupNewGame
  PROVE  IInv'
<1> DEFINE s == Push(OnGameStart(instances), "Map")
<1>1. Settled(instances, played) /\ Top(instances).type = "Title"
  BY UpdatesSettles
<1>2. Settled(OnGameStart(instances), TRUE) /\ Top(OnGameStart(instances)).type = "Title"
  BY <1>1, GameStartSettles
<1>3. /\ Rank("Title") < Rank("Map") /\ Rank("Title") >= 2 /\ Rank("Map") < Rank("Load")
      /\ Rank("Map") >= 2 /\ ~OnMap("Map") /\ ~OnMap("Load")
      /\ {"Map", "Load"} \subseteq AllTypes \ {"Logo"}
  BY DEF Rank, OnMap, AllTypes
<1>4. Goal(s, "pushed", TRUE) /\ Settled(s, TRUE) /\ Top(s).type = "Map"
  BY <1>2, <1>3, OpenSettles
<1> HIDE DEF s
<1>5. Goal(Push(s, "Load"), "pushed", TRUE)
  BY <1>3, <1>4, OpenSettles
<1>6. played' = TRUE /\ UNCHANGED <<transition, exitFlag>>
      /\ (Goes(s, "pushed") \/ Goes(Push(s, "Load"), "pushed"))
  BY DEF SetupNewGame, s
<1>7. transition' \in Transitions /\ played' \in BOOLEAN
  BY <1>6, FlagTypes DEF IInv
<1>8. Goal(s, "pushed", played') /\ Goal(Push(s, "Load"), "pushed", played')
  BY <1>4, <1>5, <1>6
<1> QED
  BY <1>6, <1>7, <1>8, UpdateGoes

LEMMA UpdateTitleKeeps ==
  ASSUME IInv, UpdateTitle
  PROVE  IInv'
<1>1. Updates("Title") /\ Settled(instances, played) /\ Top(instances).type = "Title"
      /\ played \in BOOLEAN
  BY UpdatesSettles DEF UpdateTitle
<1>2. CASE mode = "battle" /\ Goes(Replace(instances, "Battle"), "pushed") /\ Plainly
  <2>1. "Battle" \in AllTypes \ {"Logo"}
    BY DEF AllTypes
  <2>2. Goal(Replace(instances, "Battle"), "pushed", played)
    BY <1>1, <1>2, <2>1, ReplaceSettles
  <2> QED
    BY <1>1, <1>2, <2>2, PlainGoes
<1>3. CASE SetupNewGame
  BY <1>1, <1>3, SetupNewGameKeeps
<1>4. CASE Stays /\ Plainly
  BY <1>1, <1>4, PlainStays
<1>5. CASE Goes(Push(instances, "Load"), "pushed") /\ Plainly
  <2>1. /\ Rank("Title") < Rank("Load") /\ Rank("Title") >= 2 /\ ~OnMap("Load")
        /\ "Load" \in AllTypes \ {"Logo"}
    BY DEF Rank, OnMap, AllTypes
  <2>2. Goal(Push(instances, "Load"), "pushed", played)
    BY <1>1, <2>1, OpenSettles
  <2> QED
    BY <1>1, <1>5, <2>2, PlainGoes
<1>6. CASE /\ Goes(Below(instances), "popped") /\ transition' = Erase(transition)
           /\ UNCHANGED <<played, exitFlag>>
  <2>1. transition' \in Transitions /\ played' = played
    BY <1>6, FlagTypes DEF IInv
  <2>2. Goal(Below(instances), "popped", played')
    BY <1>1, <2>1, PopsSettles
  <2> QED
    BY <1>1, <1>6, <2>1, <2>2, UpdateGoes
<1> QED
  BY <1>2, <1>3, <1>4, <1>5, <1>6 DEF UpdateTitle

LEMMA UpdateLoadKeeps ==
  ASSUME IInv, UpdateLoad
  PROVE  IInv'
<1>1. Updates("Load") /\ Settled(instances, played) /\ Top(instances).type = "Load"
  BY UpdatesSettles DEF UpdateLoad
<1>2. mode # "battle" => "Title" \in Types(instances)
  BY <1>1, InOrderTop DEF Rank
<1>3. CASE Stays /\ Plainly
  BY <1>1, <1>3, PlainStays
<1>4. CASE Goes(Below(instances), "popped") /\ Plainly
  BY <1>1, <1>4, PopsSettles, PlainGoes
<1>5. CASE Loads(instances)
  BY <1>1, <1>2, <1>5, LoadsKeeps
<1> QED
  BY <1>3, <1>4, <1>5 DEF UpdateLoad

LEMMA UpdateMapKeeps ==
  ASSUME IInv, UpdateMap
  PROVE  IInv'
<1>1. /\ Updates("Map") /\ Settled(instances, played) /\ Top(instances).type = "Map"
      /\ UNCHANGED <<start, init, played>> /\ stage' = "close" /\ resetFlag' = FALSE
      /\ files' \in BOOLEAN /\ played' \in BOOLEAN /\ ~left
      /\ exitFlag \in BOOLEAN /\ transition \in Transitions
  <2>1. Updates("Map") /\ UNCHANGED played
    BY DEF UpdateMap
  <2> QED
    BY <2>1, UpdatesSettles, UpdatingSettles, FlagTypes DEF Updates, Closes, IInv
<1>2. CASE SceneExits(instances) /\ UNCHANGED transition
  BY <1>1, <1>2, AlikeItself, SceneExitsKeeps
<1>3. CASE Suspends(instances) /\ UNCHANGED <<op, entered>>
  <2>1. /\ StackOK(instances', mode) /\ Alike(instances, instances')
        /\ transition' \in Transitions /\ UNCHANGED <<left, exitFlag>>
    BY <1>1, <1>3, SuspendsOK DEF Settled, IInv
  <2> QED
    BY <1>1, <1>3, <2>1, AlikeKeeps
<1>4. CASE /\ Stays \/ \E t \in Called : Goes(Push(instances, t), "pushed")
           /\ UNCHANGED <<transition, exitFlag>>
  <2>1. CASE Stays
    BY <1>1, <1>4, <2>1, StaysKeeps DEF Stays
  <2>2. CASE \E t \in Called : Goes(Push(instances, t), "pushed")
    <3>1. PICK t \in Called : Goes(Push(instances, t), "pushed")
      BY <2>2
    <3>2. t \in AllTypes \ {"Logo"} /\ Rank("Map") < Rank(t) /\ Rank("Map") >= 2
      BY DEF Called, AllTypes, Rank
    <3>3. Goal(Push(instances, t), "pushed", played)
      BY <1>1, <3>2, OpenSettles
    <3>4. Goal(Push(instances, t), "pushed", played')
      BY <1>1, <3>3
    <3> QED
      BY <1>1, <1>4, <3>1, <3>4, UpdateGoes
  <2> QED
    BY <1>4, <2>1, <2>2
<1> QED
  BY <1>2, <1>3, <1>4 DEF UpdateMap

(* What the menu opens comes later and is on the map.                      *)
LEMMA OpensRise ==
  \A t \in DOMAIN Opens :
    /\ t \in AllTypes /\ t # "Null" /\ OnMap(t) /\ Rank(t) >= 2
    /\ Rank(t) <= Rank(t) /\ Rank(t) >= 3
    /\ \A o \in Opens[t] : o \in AllTypes \ {"Logo"} /\ Rank(t) < Rank(o)
<1>1. DOMAIN Opens = {"Menu", "Item", "Skill", "Equip", "Status", "Order", "ActorTarget",
                      "Teleport", "Save", "Shop", "Name", "End"}
  BY DEF Opens
<1>2. /\ Opens["Menu"] = {"Item", "Skill", "Equip", "Status", "Order", "Save", "Debug", "End"}
      /\ Opens["Item"] = {"ActorTarget", "Teleport"}
      /\ Opens["Skill"] = {"ActorTarget", "Teleport"}
      /\ \A t \in DOMAIN Opens : t \notin {"Menu", "Item", "Skill"} => Opens[t] = {}
  BY DEF Opens
<1>3. ASSUME NEW t \in DOMAIN Opens
      PROVE  t \in AllTypes /\ t # "Null" /\ OnMap(t) /\ Rank(t) >= 4
  BY <1>1, <1>3 DEF AllTypes, OnMap, Rank
<1>4. \A t \in DOMAIN Opens : Rank(t) \in Nat
  BY <1>3, Ranks
<1>5. ASSUME NEW t \in DOMAIN Opens, NEW o \in Opens[t]
      PROVE  o \in AllTypes \ {"Logo"} /\ Rank(t) < Rank(o)
  <2>1. CASE t = "Menu"
    BY <1>2, <2>1 DEF AllTypes, Rank
  <2>2. CASE t \in {"Item", "Skill"}
    BY <1>2, <2>2 DEF AllTypes, Rank
  <2> QED
    BY <1>2, <2>1, <2>2
<1> QED
  BY <1>3, <1>4, <1>5

LEMMA UpdateMenusKeeps ==
  ASSUME IInv, UpdateMenus
  PROVE  IInv'
<1>1. PICK t \in DOMAIN Opens :
        /\ Updates(t) /\ Plainly
        /\ \/ Stays
           \/ Goes(Below(instances), "popped")
           \/ \E o \in Opens[t] : Goes(Push(instances, o), "pushed")
           \/ t \in {"Equip", "Status"} /\ Goes(Replace(instances, t), "pushed")
           \/ /\ t \in {"Item", "Skill", "Teleport"}
              /\ Goes(PopUntil(instances, "Map"), "popped")
           \/ t = "End" /\ CanReturn(instances) /\ Goes(ReturnToTitle(instances), "popped")
  BY DEF UpdateMenus
<1>2. Settled(instances, played) /\ Top(instances).type = t
  BY <1>1, UpdatesSettles
<1>3. CASE Stays
  BY <1>1, <1>3, PlainStays
<1>4. CASE \/ Goes(Below(instances), "popped") \/ Goes(PopUntil(instances, "Map"), "popped")
           \/ Goes(ReturnToTitle(instances), "popped")
  <2>1. /\ Goal(Below(instances), "popped", played)
        /\ Goal(PopUntil(instances, "Map"), "popped", played)
        /\ Goal(ReturnToTitle(instances), "popped", played)
    BY <1>2, OpensRise, PopsSettles
  <2> QED
    BY <1>1, <1>4, <2>1, PlainGoes
<1>5. CASE \E o \in Opens[t] : Goes(Push(instances, o), "pushed")
  <2>1. PICK o \in Opens[t] : Goes(Push(instances, o), "pushed")
    BY <1>5
  <2>2. Goal(Push(instances, o), "pushed", played)
    BY <1>2, OpensRise, OpenSettles
  <2> QED
    BY <1>1, <2>1, <2>2, PlainGoes
<1>6. CASE t \in {"Equip", "Status"} /\ Goes(Replace(instances, t), "pushed")
  <2>1. t \in AllTypes \ {"Logo"} /\ t # "Title"
    BY <1>6, OpensRise
  <2>2. Goal(Replace(instances, t), "pushed", played)
    BY <1>2, <2>1, OpensRise, ReplaceSettles
  <2> QED
    BY <1>1, <1>6, <2>2, PlainGoes
<1> QED
  BY <1>1, <1>3, <1>4, <1>5, <1>6

LEMMA UpdateGameoverKeeps ==
  ASSUME IInv, UpdateGameover
  PROVE  IInv'
<1>1. Updates("Gameover") /\ Plainly /\ Settled(instances, played)
  BY UpdatesSettles DEF UpdateGameover
<1>2. Goal(ReturnToTitle(instances), "popped", played)
  BY <1>1, PopsSettles
<1> QED
  BY <1>1, <1>2, PlainStays, PlainGoes DEF UpdateGameover

LEMMA UpdateDebugKeeps ==
  ASSUME IInv, UpdateDebug
  PROVE  IInv'
<1> DEFINE home == PopUntil(instances, IF InBattle THEN "Battle" ELSE "Map")
<1>1. Updates("Debug") /\ Plainly /\ Settled(instances, played) /\ Top(instances).type = "Debug"
  BY UpdatesSettles DEF UpdateDebug
<1>2. Goal(Below(instances), "popped", played) /\ Goal(home, "popped", played)
  BY <1>1, PopsSettles
<1>3. CASE Stays
  BY <1>1, <1>3, PlainStays
<1>4. CASE Goes(Below(instances), "popped") \/ Goes(home, "popped")
  BY <1>1, <1>2, <1>4, PlainGoes
<1>5. CASE Goes(Push(instances, "Load"), "pushed")
  <2>1. /\ Rank("Debug") < Rank("Load") /\ Rank("Debug") >= 2 /\ ~OnMap("Load")
        /\ "Load" \in AllTypes \ {"Logo"}
    BY DEF Rank, OnMap, AllTypes
  <2>2. Goal(Push(instances, "Load"), "pushed", played)
    BY <1>1, <2>1, OpenSettles
  <2> QED
    BY <1>1, <1>5, <2>2, PlainGoes
<1>6. CASE ~InBattle /\ \E t \in {"Save", "Battle"} : Goes(Push(home, t), "pushed")
  <2>1. PICK t \in {"Save", "Battle"} : Goes(Push(home, t), "pushed")
    BY <1>6
  <2>2. home = PopUntil(instances, "Map")
    BY <1>6
  <2> HIDE DEF home
  <2>3. /\ Settled(home, played)
        /\ IF "Map" \in Types(instances) THEN Top(home).type = "Map" ELSE home = instances
    BY <1>1, <2>2, PopUntilSettles
  <2>4. mode # "battle" => "Map" \in Types(instances)
    BY <1>1, InOrderTop DEF OnMap, Rank
  <2>5. /\ Rank("Map") < Rank(t) /\ Rank("Map") >= 2 /\ ~(t = "Title")
        /\ t \in AllTypes \ {"Logo"}
    BY DEF Rank, AllTypes
  <2>6. mode # "battle" => /\ Top(home).type = "Map" /\ "Title" \in Types(home)
                           /\ "Map" \in Types(home)
    BY <2>3, <2>4, <2>5, InOrderTop
  <2>7. Goal(Push(home, t), "pushed", played)
    BY <1>1, <2>3, <2>5, <2>6, PushSettles
  <2> QED
    BY <1>1, <2>1, <2>7, PlainGoes
<1> QED
  BY <1>3, <1>4, <1>5, <1>6 DEF UpdateDebug

(* The game over that the battle's events pushed is popped again.          *)
LEMMA PoppedAgain ==
  ASSUME IInv, Updates("Battle"), instances' = instances, op' = "popped",
         UNCHANGED <<transition, played, exitFlag, left, entered>>
  PROVE  IInv'
<1>1. /\ mode' = mode /\ init' = init /\ stage' = "close" /\ resetFlag' = FALSE
      /\ files' \in BOOLEAN /\ Top(instances).type = "Battle"
  BY FlagTypes DEF Updates, Closes, start, IInv
<1>2. Flags'
  BY <1>1 DEF IInv, Flags
<1> QED
  BY <1>1, <1>2 DEF IInv, Entering, Playing

LEMMA UpdateBattleKeeps ==
  ASSUME IInv, UpdateBattle
  PROVE  IInv'
<1> DEFINE over == Push(instances, "Gameover")
<1>1. /\ Updates("Battle") /\ Settled(instances, played) /\ Top(instances).type = "Battle"
      /\ played \in BOOLEAN /\ transition \in Transitions
  BY UpdatesSettles, FlagTypes DEF UpdateBattle, IInv
<1>2. /\ Rank("Battle") <= Rank("Gameover") /\ Rank("Battle") < Rank("Gameover")
      /\ Rank("Battle") >= 3 /\ Rank("Battle") >= 2 /\ OnMap("Battle") /\ OnMap("Gameover")
      /\ Rank("Battle") < Rank("Debug") /\ Rank("Gameover") < Rank("Debug")
      /\ Rank("Gameover") >= 2 /\ {"Gameover", "Debug"} \subseteq AllTypes \ {"Logo"}
  BY DEF Rank, OnMap, AllTypes
<1>3. /\ Goal(over, "pushed", played) /\ Settled(over, played) /\ Top(over).type = "Gameover"
  BY <1>1, <1>2, OpenSettles
<1>4. Goal(Push(instances, "Debug"), "pushed", played)
  BY <1>1, <1>2, OpenSettles
<1>5. Goal(Push(over, "Debug"), "pushed", played)
  <2> HIDE DEF over
  <2> QED
    BY <1>2, <1>3, OpenSettles
<1>6. /\ Goal(Below(instances), "popped", played)
      /\ Goal(Push(Below(instances), "Gameover"), "pushed", played)
  BY <1>1, <1>2, PopsSettles, ReplaceSettles DEF Replace
<1>7. Below(over) = instances
  BY <1>1 DEF Push, Below, Settled, StackOK
<1> HIDE DEF over
<1>8. CASE SceneExits(instances) /\ UNCHANGED <<transition, played>>
  <2>1. /\ UNCHANGED <<start, init>> /\ stage' = "close" /\ resetFlag' = FALSE
        /\ files' \in BOOLEAN /\ ~left /\ transition' = transition
    BY <1>1, <1>8, UpdatingSettles, FlagTypes DEF Updates, Closes, IInv
  <2> QED
    BY <1>1, <1>8, <2>1, AlikeItself, SceneExitsKeeps
<1>9. CASE /\ UNCHANGED <<transition, played, exitFlag>>
           /\ \/ Goes(Below(instances), "popped")
              \/ Goes(Push(Below(instances), "Gameover"), "pushed")
  <2>1. /\ Goal(Below(instances), "popped", played')
        /\ Goal(Push(Below(instances), "Gameover"), "pushed", played')
        /\ played' \in BOOLEAN /\ transition' \in Transitions
    BY <1>1, <1>6, <1>9
  <2> QED
    BY <1>1, <1>9, <2>1, UpdateGoes
<1>10. CASE /\ UNCHANGED <<transition, played, exitFlag, left, entered>>
            /\ instances' = Below(over) /\ op' = "popped"
  BY <1>1, <1>7, <1>10, PoppedAgain
<1>11. CASE /\ Plainly
            /\ \/ Goes(Push(instances, "Debug"), "pushed") \/ Goes(Push(over, "Debug"), "pushed")
               \/ Goes(over, "pushed")
  BY <1>1, <1>3, <1>4, <1>5, <1>11, PlainGoes
<1>12. CASE Stays /\ Plainly
  BY <1>1, <1>12, PlainStays
<1>13. CASE EndBattle(instances)
  BY <1>9, <1>13 DEF EndBattle
<1>14. CASE TimerEnds(instances) \/ TimerEnds(over)
  BY <1>9, <1>10, <1>14 DEF TimerEnds
<1> QED
  BY <1>8, <1>11, <1>12, <1>13, <1>14 DEF UpdateBattle, over

LEMMA ShutdownKeeps ==
  ASSUME IInv, Shutdown
  PROVE  IInv'
<1>1. /\ UNCHANGED <<start, instances, op, files, exitFlag, resetFlag, played, entered>>
      /\ init' = (init /\ ~left) /\ left' = FALSE /\ stage' = "frame" /\ mode' = mode
      /\ transition' \in {"erasing", "erased", "shown", transition}
  BY DEF Shutdown, InitAfter, start
<1>2. init' \in BOOLEAN
  BY <1>1, Zenon
<1>3. Flags'
  BY <1>1, <1>2 DEF IInv, Flags
<1>4. Entering'
  BY <1>1 DEF IInv, Entering
<1> QED
  BY <1>1, <1>3, <1>4 DEF IInv, Playing

LEMMA ExitKeeps ==
  ASSUME IInv, Exit
  PROVE  IInv'
<1>1. stage' = "ended" /\ ~left
  BY DEF Exit, IInv, Entering
<1> QED
  BY <1>1, StaysKeeps, FlagTypes DEF Exit, IInv, Flags

LEMMA OutsideKeeps ==
  ASSUME IInv, Outside \/ FilesArrive
  PROVE  IInv'
<1>1. stage' = "frame" /\ ~left /\ {files', exitFlag', resetFlag'} \subseteq BOOLEAN
  BY DEF Outside, FilesArrive, IInv, Entering, Flags
<1>2. UNCHANGED <<start, instances, op, init, transition, left, played, entered>>
  BY DEF Outside, FilesArrive
<1> QED
  BY <1>1, <1>2, StaysKeeps, FlagTypes DEF IInv

LEMMA StutterKeeps ==
  ASSUME IInv, UNCHANGED vars
  PROVE  IInv'
<1>1. /\ mode' = mode /\ Top(instances') = Top(instances)
      /\ UNCHANGED <<instances, op, init, left, entered, played, stage>>
  BY DEF vars, start
<1> QED
  BY <1>1 DEF IInv, Flags, Entering, Playing, vars

LEMMA InitOK ==
  ASSUME Init
  PROVE  IInv
<1>1. /\ instances = <<New("Null"), New("Logo")>> /\ Len(instances) = 2
      /\ instances[1] = New("Null") /\ instances[2] = New("Logo")
  BY DEF Init
<1>2. \A t \in {"Null", "Logo"} : /\ New(t) \in Scenes /\ SceneOK(New(t)) /\ New(t).type = t
                                 /\ ~New(t).ready /\ ~New(t).restart
  BY DEF New, Scenes, AllTypes, Conts, SceneOK
<1>3. instances \in Seq(Scenes) /\ instances # <<>>
  BY <1>1, <1>2
<1>4. \A n \in 1 .. Len(instances) : n = 1 \/ n = 2
  BY <1>1
<1>5. Rank("Null") < Rank("Logo") /\ ~(Rank("Null") >= 3) /\ ~(Rank("Logo") >= 3)
      /\ ~OnMap("Null") /\ ~OnMap("Logo")
  BY DEF Rank, OnMap
<1>6. InOrder(instances)
  <2>1. ~(1 < 1) /\ ~(2 < 2) /\ ~(2 < 1)
    OBVIOUS
  <2> QED
    BY <1>1, <1>2, <1>4, <1>5, <2>1 DEF InOrder
<1>7. StackOK(instances, mode)
  <2>1. \A n \in 1 .. Len(instances) : n < Len(instances) => n = 1
    BY <1>1, <1>4
  <2> QED
    BY <1>1, <1>2, <1>3, <1>4, <1>6, <2>1 DEF StackOK
<1>8. Top(instances) = New("Logo")
  BY <1>1 DEF Top
<1> QED
  BY <1>2, <1>7, <1>8 DEF IInv, Flags, Entering, Playing, Init

LEMMA NextKeeps ==
  ASSUME IInv, [Next]_vars
  PROVE  IInv'
<1>1. CASE UpdateScene
  BY <1>1, UpdateNullKeeps, UpdateLogoKeeps, UpdateGameBrowserKeeps, UpdateTitleKeeps,
     UpdateLoadKeeps, UpdateMapKeeps, UpdateMenusKeeps, UpdateGameoverKeeps,
     UpdateDebugKeeps, UpdateBattleKeeps
     DEF UpdateScene
<1>2. CASE MainFunction
  BY <1>1, <1>2, AwaitKeeps, ResumeKeeps, EnterKeeps, ExitAllKeeps, ResetKeeps,
     ShutdownKeeps
     DEF MainFunction
<1>3. CASE Exit \/ Outside \/ FilesArrive
  BY <1>3, ExitKeeps, OutsideKeeps
<1> QED
  BY <1>2, <1>3, StutterKeeps DEF Next

LEMMA Invariance == Spec => []IInv
BY InitOK, NextKeeps, PTL DEF Spec

-----------------------------------------------------------------------------
(* The properties *)

(* Types that come in order are different.                                 *)
LEMMA NoTwoOfAType ==
  ASSUME NEW md, NEW s, StackOK(s, md), InOrder(s)
  PROVE  Cardinality(Types(s)) = Len(s)
<1> DEFINE I == 1 .. Len(s)
           f == [n \in I |-> s[n].type]
<1>1. /\ Len(s) \in Nat /\ DOMAIN s = I /\ \A n \in I : s[n].type \in AllTypes
  <2>1. s \in Seq(Scenes) /\ \A r \in Scenes : r.type \in AllTypes
    BY DEF StackOK, Scenes
  <2> QED
    BY <2>1, TopIsScene
<1>2. f \in Surjection(I, Types(s))
  BY <1>1 DEF Surjection, Types
<1>3. ASSUME NEW a \in I, NEW b \in I, a < b
      PROVE  s[a].type # s[b].type
  <2>1. Rank(s[a].type) < Rank(s[b].type)
    BY <1>3 DEF InOrder
  <2>2. Rank(s[b].type) \in Nat
    BY <1>1, Ranks
  <2> QED
    BY <2>1, <2>2
<1>4. \A a, b \in I : a < b \/ b < a \/ a = b
  BY <1>1
<1>5. f \in Injection(I, Types(s))
  BY <1>2, <1>3, <1>4 DEF Injection, IsInjective, Surjection
<1>6. IsFiniteSet(I) /\ Cardinality(I) = Len(s)
  BY <1>1, FS_Interval
<1> HIDE DEF I, f
<1> QED
  BY <1>2, <1>5, <1>6, FS_Surjection

(* However scenes of different times push, replace and pop scenes          *)
(* (scene.cpp:245-333), the stack starts with the Null scene and holds no  *)
(* two scenes of a type: Scene::DebugValidate never complains.             *)
THEOREM StackIsValid == Spec => []ValidStack
<1>1. IInv => ValidStack
  <2>1. ASSUME IInv PROVE TypeOK
    <3>1. /\ DOMAIN instances = 1 .. Len(instances) /\ instances # <<>>
          /\ \A n \in 1 .. Len(instances) : instances[n] \in Scenes /\ SceneOK(instances[n])
      BY <2>1, TopIsScene DEF IInv, StackOK
    <3>2. \A r \in Scenes : /\ r.type \in SceneTypes /\ r.cont \in {"none", "in", "map", "call"}
      BY DEF Scenes, AllTypes, Conts, SceneTypes, Opens
    <3> QED
      BY <2>1, <3>1, <3>2 DEF TypeOK, IInv, Flags, Entering, SceneOK
  <2>2. ASSUME IInv PROVE DebugValidate
    BY <2>2, NoTwoOfAType DEF IInv, StackOK, DebugValidate
  <2> QED
    BY <2>1, <2>2 DEF ValidStack
<1> QED
  BY <1>1, Invariance, PTL

(* What the last step did names the action that took it.                   *)
LEMMA DidSay ==
  ASSUME Next
  PROVE  /\ did' = "start" => stage = "main" /\ ~init /\ Starts
         /\ Updated => Updating
         /\ did' = "new game" => /\ Updating /\ Top(instances).type = "Title"
                                 /\ mode \in {"hidden", "title", "load"}
<1>1. CASE UpdateScene
  <2>1. Updating
    BY <1>1 DEF UpdateScene, UpdateNull, UpdateLogo, UpdateGameBrowser, UpdateTitle,
      UpdateLoad, UpdateMap, UpdateMenus, UpdateGameover, UpdateDebug, UpdateBattle, Updates
  <2>2. did' # "start"
    BY <1>1 DEF UpdateScene, UpdateNull, UpdateLogo, UpdateGameBrowser, UpdateTitle,
      UpdateLoad, UpdateMap, UpdateMenus, UpdateGameover, UpdateDebug, UpdateBattle,
      Plainly, Loads, SetupNewGame, EndBattle, TimerEnds
  <2>3. ~UpdateTitle => did' # "new game"
    BY <1>1 DEF UpdateScene, UpdateNull, UpdateLogo, UpdateGameBrowser,
      UpdateLoad, UpdateMap, UpdateMenus, UpdateGameover, UpdateDebug, UpdateBattle,
      Plainly, Loads, EndBattle, TimerEnds
  <2>4. UpdateTitle /\ did' = "new game" =>
          Top(instances).type = "Title" /\ mode \in {"hidden", "title", "load"}
    BY DEF UpdateTitle, Updates, Plainly
  <2> QED
    BY <2>1, <2>2, <2>3, <2>4
<1>2. CASE Enter
  BY <1>2 DEF Enter, Updated
<1>3. CASE Await \/ Resume \/ ExitAll \/ Reset \/ Shutdown \/ Exit \/ Outside \/ FilesArrive
  BY <1>3 DEF Await, Resume, ExitAll, Reset, Shutdown, Exit, Outside, FilesArrive, Updated
<1> QED
  BY <1>1, <1>2, <1>3 DEF Next, MainFunction

(* Scene::MainFunction starts a scene that was not started before, however *)
(* many scenes were above it before it came to the top (scene.cpp:154-183).*)
THEOREM SceneStartsOnce == Spec => StartedOnce
<1>1. IInv /\ [Next]_vars => [did' = "start" => ~Top(instances).ready]_vars
  <2>1. ASSUME IInv, Next, did' = "start" PROVE ~Top(instances).ready
    BY <2>1, DidSay DEF IInv, Entering, Starts
  <2> QED
    BY <2>1
<1> QED
  BY <1>1, Invariance, PTL DEF Spec, StartedOnce

(* Scene::MainFunction updates a scene only after it called Start or       *)
(* Continue for it (scene.cpp:154-186), or for the scene above that went.  *)
THEOREM SceneEntersFirst == Spec => EnteredFirst
<1>1. IInv /\ [Next]_vars =>
        [Updated => entered # "no" \/ Top(instances).type = "Null"]_vars
  <2>1. ASSUME IInv, Next, Updated
        PROVE  entered # "no" \/ Top(instances).type = "Null"
    BY <2>1, DidSay, UpdatingSettles DEF IInv, Entering
  <2> QED
    BY <2>1
<1> QED
  BY <1>1, Invariance, PTL DEF Spec, EnteredFirst

(* Scene_Title::Continue resets the game's objects whenever a game has     *)
(* begun since (scene_title.cpp:77-88): a new game, in a play that is not  *)
(* started with a saved game, finds none of the last one.                  *)
THEOREM NewGameIsFresh == Spec => FreshAfterTitle
<1>1. IInv /\ [Next]_vars =>
        [did' = "new game" /\ mode # "load" /\ entered = "yes" => ~played]_vars
  <2>1. ASSUME IInv, Next, did' = "new game", mode # "load", entered = "yes", played
        PROVE  FALSE
    <3>1. Plays(mode) /\ Top(instances).type = "Title"
      BY <2>1, DidSay DEF Plays
    <3>2. ~Top(instances).restart
      BY <2>1, <3>1 DEF IInv, Entering
    <3>3. Told(instances, mode)
      BY <2>1 DEF IInv, Playing
    <3>4. Len(instances) \in 1 .. Len(instances) /\ Top(instances) = instances[Len(instances)]
      BY <2>1, TopIsScene DEF IInv
    <3> QED
      BY <3>1, <3>2, <3>3, <3>4 DEF Told
  <2> QED
    BY <2>1
<1> QED
  BY <1>1, Invariance, PTL DEF Spec, FreshAfterTitle

=============================================================================
