------------------------ MODULE RemoteCharacters ------------------------
(***************************************************************************)
(* The other players on the map: what their games send when they move      *)
(* (Game_Player::Move, Game_Character::Jump), the packets on their way,    *)
(* and the characters this game keeps for them (multiplayercharacter.cpp,  *)
(* datapacketshandler.cpp).  The server is not part of the repository: it  *)
(* relays packets in order.                                                *)
(*                                                                         *)
(* Places are the tiles of a corridor 0 .. Width - 1.  Every packet has a  *)
(* serial number that the code does not have.                              *)
(***************************************************************************)
EXTENDS Integers, Sequences, SequencesExt

CONSTANTS Ids,        \* the other players
          Width,      \* tiles
          Capacity,   \* MOVE_QUEUE_CAPACITY
          StepTime,   \* updates that a step or jump takes
          MaxSends    \* bound: how often the players act

ASSUME RemoteAssumption ==
  /\ Width \in Nat \ {0} /\ Capacity \in Nat \ {0}
  /\ StepTime \in Nat \ {0} /\ MaxSends \in Nat

VARIABLES
  place,   \* where each player stands in his own game
  lastAct, \* how he got there: "walk", "jump" or "unsent"
  wire,    \* the packets that were sent and not handled yet, in order
  chars,   \* MultiplayerCharacter::characters: a record, or NoChar
  sends    \* how often the players have acted

vars == <<place, lastAct, wire, chars, sends>>

Tiles  == 0 .. Width - 1
Acts   == {"walk", "jump", "unsent"}
NoChar == [x |-> -1]

(***************************************************************************)
(* A character: its tile, moveQueue, how long it is still moving, and three *)
(* values the code does not have: the serial of the tile it stands on, the  *)
(* last position it was told, and whether a jump overtook queued positions. *)
(***************************************************************************)
NewChar(x) == [x |-> x, queue |-> <<>>, left |-> 0,
               serial |-> 0, told |-> 0, overtaken |-> FALSE]

Exists(id) == chars[id] # NoChar
AtRest(c)  == c.left = 0

PushDropNewest(q, e) == IF Len(q) = Capacity THEN q ELSE Append(q, e)
(* MultiplayerMove: the oldest position is given up. *)
PushMove(q, e) ==
  LET q1 == Append(q, e) IN IF Len(q1) > Capacity THEN Tail(q1) ELSE q1

-----------------------------------------------------------------------------

Init == /\ place \in [Ids -> Tiles]
        /\ lastAct = [id \in Ids |-> "unsent"]
        /\ wire = <<>>
        /\ chars = [id \in Ids |-> NoChar]
        /\ sends = 0

-----------------------------------------------------------------------------
(* The other players.  Only walking and jumping are reported. *)

Act(id, how, x) == /\ sends < MaxSends
                   /\ sends' = sends + 1
                   /\ place' = [place EXCEPT ![id] = x]
                   /\ lastAct' = [lastAct EXCEPT ![id] = how]
                   /\ UNCHANGED chars

Send(type, id, x) ==
  wire' = Append(wire, [type |-> type, id |-> id, x |-> x, n |-> sends + 1])

Walk(id) == \E x \in Tiles \cap {place[id] - 1, place[id] + 1} :
              Act(id, "walk", x) /\ Send("position", id, x)

JumpTo(id) == \E x \in Tiles : Act(id, "jump", x) /\ Send("jump", id, x)

(* Game_Player::MoveTo within the map sends nothing, and Move returns      *)
(* before it sends when the player is in the airship.                      *)
MoveUnsent(id) == \E x \in Tiles \ {place[id]} :
                    Act(id, "unsent", x) /\ UNCHANGED wire

(* The server reports who comes and who goes, and "inmap" like "connect". *)
Report(id) == /\ sends < MaxSends /\ sends' = sends + 1
              /\ \E type \in {"connect", "disconnect"} : Send(type, id, 0)
              /\ UNCHANGED <<place, lastAct, chars>>

-----------------------------------------------------------------------------
(* onMessage and HandleDataPacket, for the next packet *)

(* MakeCharacter puts a new character where the own player stands, in the  *)
(* place of the one with the same id, if there is one.                     *)
Connect(p) == \E own \in Tiles :
                chars' = [chars EXCEPT ![p.id] = NewChar(own)]

Disconnect(p) == chars' = [chars EXCEPT ![p.id] = NoChar]

Position(p) ==
  LET c == chars[p.id]
      e == [x |-> p.x, n |-> p.n]
  IN chars' = IF Exists(p.id)
                THEN [chars EXCEPT ![p.id].queue = PushMove(c.queue, e),
                                   ![p.id].told = p.n]
                ELSE chars

(* Game_Character::Jump does nothing to a character that is moving. *)
Jump(p) ==
  LET c == chars[p.id]
  IN chars' = IF Exists(p.id) /\ AtRest(c)
                THEN [chars EXCEPT ![p.id].x = p.x,
                                   ![p.id].left = StepTime,
                                   ![p.id].serial = p.n,
                                   ![p.id].overtaken =
                                       c.overtaken \/ c.queue # <<>>]
                ELSE chars

Handle ==
  /\ wire # <<>>
  /\ LET p == Head(wire) IN
       \/ p.type = "connect" /\ Connect(p)
       \/ p.type = "disconnect" /\ Disconnect(p)
       \/ p.type = "position" /\ Position(p)
       \/ p.type = "jump" /\ Jump(p)
  /\ wire' = Tail(wire)
  /\ UNCHANGED <<place, lastAct, sends>>

(* ChangeMap, when this game enters another map *)
ClearCharacters == /\ chars' = [id \in Ids |-> NoChar]
                   /\ UNCHANGED <<place, lastAct, wire, sends>>

-----------------------------------------------------------------------------
(* MultiplayerCharacter::Update.  A position next to the character is      *)
(* walked to, any other is jumped to at once; the character does not react *)
(* to its own tile.                                                        *)

Moved(c) == [c EXCEPT !.left = IF @ > 0 THEN @ - 1 ELSE 0]

TakeLast(c) ==                                        \* mutant of TakeMove
  LET e == Last(c.queue) IN
  [c EXCEPT !.x = e.x, !.queue = Front(@), !.serial = e.n]
TakeMove(c) ==
  LET e == Head(c.queue) IN
  [c EXCEPT !.x = e.x,
            !.left = IF e.x \in {c.x - 1, c.x + 1} THEN StepTime ELSE 0,
            !.queue = Tail(@),
            !.serial = e.n]

UpdateStuck(c) ==                                     \* mutant of Update
  LET m == Moved(c) IN
  IF AtRest(m) /\ m.queue # <<>>
    THEN LET e == Head(m.queue) IN
         IF e.x \in {m.x - 1, m.x, m.x + 1} THEN TakeMove(m) ELSE m
    ELSE m
Update(c) ==
  LET m == Moved(c) IN
  IF AtRest(m) /\ m.queue # <<>> THEN TakeMove(m) ELSE m

UpdateCharacters ==
  /\ chars' = [id \in Ids |-> IF Exists(id) THEN Update(chars[id]) ELSE NoChar]
  /\ UNCHANGED <<place, lastAct, wire, sends>>

-----------------------------------------------------------------------------

Next == \/ \E id \in Ids : Walk(id) \/ JumpTo(id) \/ MoveUnsent(id) \/ Report(id)
        \/ Handle \/ ClearCharacters \/ UpdateCharacters

Spec == Init /\ [][Next]_vars

(* MultiplayerUpdate runs in every frame and handles what has arrived. *)
FairSpec == Spec /\ WF_vars(Handle) /\ WF_vars(UpdateCharacters)

-----------------------------------------------------------------------------
(* Properties *)

Settled(id) == /\ \A i \in 1 .. Len(wire) : wire[i].id # id
               /\ Exists(id)
               /\ AtRest(chars[id]) /\ chars[id].queue = <<>>

(* Characters stand on tiles of the map and remember a bounded number of    *)
(* positions.                                                               *)
TypeOK ==
  /\ place \in [Ids -> Tiles] /\ lastAct \in [Ids -> Acts]
  /\ sends \in 0 .. MaxSends
  /\ \A id \in Ids : Exists(id) =>
       /\ chars[id].x \in Tiles
       /\ chars[id].left \in 0 .. StepTime
       /\ Len(chars[id].queue) <= Capacity

(* When everything a player sent was handled and his character has come to  *)
(* rest, it stands where he stands, however many positions were given up on *)
(* the way; provided his last movement was a step, and the character was    *)
(* there to be told of it (jumps may be dropped, other movements are never sent). *)
Converges ==
  \A id \in Ids :
    Settled(id) /\ chars[id].told # 0 /\ lastAct[id] = "walk"
      => chars[id].x = place[id]

(* A character is where it should be, and never off the map meanwhile or   *)
(* with more positions to come than it can remember.                       *)
Faithful == TypeOK /\ Converges

(* A character never goes back to a position its player has left before the *)
(* one it shows, unless a jump has overtaken the positions in its queue.    *)
InOrder ==
  [][\A id \in Ids :
       Exists(id) /\ Exists(id)' /\ ~chars[id].overtaken
         => \/ chars'[id].serial >= chars[id].serial
            \/ chars'[id] \in {NewChar(x) : x \in Tiles}]_vars

(* A character that has positions to visit comes to rest: nothing keeps it  *)
(* moving once its player stops sending.                                    *)
ComesToRest ==
  \A id \in Ids : Exists(id) ~> (Settled(id) \/ ~Exists(id))
=============================================================================
