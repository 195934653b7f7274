------------------------- MODULE MultiplayerProofs -------------------------
(***************************************************************************)
(* Proofs about what arrives over the wire: the ring of packets that the   *)
(* threads of the multiplayer part share (PacketQueue), the characters that *)
(* the packets move (RemoteCharacters), and the files that are downloaded  *)
(* while the game runs (AsyncFiles).                                       *)
(*                                                                         *)
(* The ring, for every capacity and any number of packets: the size never  *)
(* wraps, whatever the threads do to each other; and as long as they do    *)
(* not collide and nothing is overrun, the size is exact and the packets   *)
(* are handled whole and in order.  RingInv has one part for each of these *)
(* claims.  Sound relates the registers of the two threads to the size;    *)
(* Exact counts the packets that a thread has moved but not yet accounted  *)
(* for; Placed says in which slot each waiting packet lies, counted from   *)
(* the pop cursor.                                                         *)
(*                                                                         *)
(* The characters, for any players, any width of the map and any capacity  *)
(* of moveQueue: a character never goes back to a position its player has  *)
(* left (unless a jump overtook the queue), its queue is bounded, and when *)
(* all that a player who walks has sent is handled the character stands    *)
(* where he stands.  IInv has a part for each: Ordered says that the       *)
(* serials grow from what a character shows, through its queue, to what is *)
(* on the wire; Arriving, that where a walker stands is in his last packet *)
(* or, when it has been handled, at the end of his character's queue.      *)
(*                                                                         *)
(* The files, for any files, any clients and any number of bindings: a     *)
(* handler is called at most once, only for the last file its client asked *)
(* for, and a file that has arrived keeps its result.  That a handler is   *)
(* called once is not inductive: Waiting says that who waits and has not   *)
(* been passed by has not been called, waits at one place only, and that   *)
(* the numbers not given out yet belong to nobody.                         *)
(***************************************************************************)
EXTENDS RemoteCharacters, PacketQueue, AsyncFiles, TLAPS

-----------------------------------------------------------------------------
(* The ring *)

Clean == ~raced /\ ~overrun

Sound ==
  /\ netPc \in {"idle", "copying", "load", "store"} => size <= CAP
  /\ netPc = "copying" => pushed < MaxPackets
  /\ netPc = "store" => netReg <= CAP
  /\ mainPc \in {"dec", "store"} =>
       size >= 1 /\ mainReg >= 1 /\ (netPc = "clampStore" => netReg >= 1)
  /\ netPc = "clampStore" /\ netReg = 0 => size = 0

Exact ==
  Clean =>
    /\ size = pushed - popped - (IF netPc \in {"load", "store"} THEN 1 ELSE 0)
                              - (IF mainPc = "take" THEN 1 ELSE 0)
    /\ Occupied + (IF netPc = "copying" THEN 1 ELSE 0) <= CAP

(* The slot d places after the pop cursor. *)
Slot(d) == IF pop + d < CAP THEN pop + d ELSE pop + d - CAP

Placed ==
  Clean =>
    /\ push = Slot(pushed - popped)
    /\ \A d \in 0 .. pushed - popped - 1 : slots[Slot(d)] = popped + 1 + d
    /\ Dispatching => cur = Slot(CAP - 1) /\ slots[cur] = popped
    /\ mainPc = "handling" => first = popped
    /\ Len(handled) = popped - (IF Dispatching THEN 1 ELSE 0)

RingInv == RingTypeOK /\ Sound /\ Exact /\ Placed /\ PacketsInOrder

-----------------------------------------------------------------------------

USE CapacityAssumption, WordAssumption, ArrivalsAssumption

LEMMA NextSlotIs ==
  ASSUME NEW s \in Slots
  PROVE  /\ NextSlot(s) = IF s + 1 < CAP THEN s + 1 ELSE 0
         /\ NextSlot(s) \in Slots
<1>1. (s + 1) % CAP = IF s + 1 = CAP THEN 0 ELSE s + 1
  BY DEF Slots
<1> QED BY <1>1 DEF NextSlot, Slots

(* The decrement does not wrap when it starts from a positive size. *)
LEMMA Decrement ==
  ASSUME NEW n \in 1 .. CAP + 1
  PROVE  (n + Word - 1) % Word = n - 1
<1> DEFINE w == Word
<1>1. n - 1 \in 0 .. w - 1 /\ w \in Nat \ {0}
  OBVIOUS
<1>2. \A x \in 0 .. w - 1 : (x + w) % w = x
  <2> HIDE DEF w
  <2> QED BY <1>1
<1>3. n + Word - 1 = (n - 1) + w
  OBVIOUS
<1> QED BY <1>1, <1>2, <1>3

(* A copy that keeps the queue clean had a free slot to go to. *)
LEMMA RoomToCopy ==
  ASSUME RingTypeOK, NetCopy, Clean'
  PROVE  Clean /\ Occupied < CAP
<1>1. Occupied \in Int
  BY DEF RingTypeOK, Occupied
<1>2. Clean /\ ~(Occupied >= CAP)
  <2> HIDE DEF Occupied
  <2> QED BY Zenon DEF Clean, NetCopy
<1> QED BY <1>1, <1>2

LEMMA InitInv == ASSUME RingInit PROVE RingInv
<1> USE DEF RingInit, Slots, Contents
<1>1. RingTypeOK
  <2>1. raced \in BOOLEAN /\ overrun \in BOOLEAN
    OBVIOUS
  <2>2. handled \in Seq(Contents)
    OBVIOUS
  <2>3. slots \in [Slots -> Contents]
    OBVIOUS
  <2> QED BY <2>1, <2>2, <2>3 DEF RingTypeOK
<1>2. Sound
  BY DEF Sound
<1>3. Exact
  <2>1. ~Dispatching
    BY DEF Dispatching
  <2>2. Occupied = 0
    BY <2>1 DEF Occupied
  <2>3. size = 0 /\ pushed = 0 /\ popped = 0 /\ netPc = "idle" /\ mainPc = "idle"
    OBVIOUS
  <2>4. /\ size = pushed - popped - (IF netPc \in {"load", "store"} THEN 1 ELSE 0)
                                   - (IF mainPc = "take" THEN 1 ELSE 0)
        /\ Occupied + (IF netPc = "copying" THEN 1 ELSE 0) <= CAP
    <3>1. /\ (IF netPc \in {"load", "store"} THEN 1 ELSE 0) = 0
          /\ (IF netPc = "copying" THEN 1 ELSE 0) = 0
          /\ (IF mainPc = "take" THEN 1 ELSE 0) = 0
      BY <2>3
    <3>2. size = pushed - popped - 0 - 0 /\ Occupied + 0 <= CAP
      BY <2>2, <2>3
    <3> QED BY <3>1, <3>2, Zenon
  <2> QED BY <2>4, Zenon DEF Exact
<1>4. Placed
  <2>1. ~Dispatching
    BY DEF Dispatching
  <2>2. Slot(0) = 0 /\ Len(handled) = 0
    BY DEF Slot
  <2>3. push = 0 /\ pushed = 0 /\ popped = 0 /\ mainPc = "idle"
    OBVIOUS
  <2>4. \A d \in 0 .. pushed - popped - 1 : FALSE
    BY <2>3
  <2>5. push = Slot(pushed - popped) /\ mainPc # "handling"
        /\ Len(handled) = popped - (IF Dispatching THEN 1 ELSE 0)
    <3>1. (IF Dispatching THEN 1 ELSE 0) = 0 /\ pushed - popped = 0
      BY <2>1, <2>3
    <3> HIDE DEF RingInit, Slot
    <3> QED BY <2>2, <2>3, <3>1
  <2> HIDE DEF RingInit
  <2> QED BY <2>1, <2>4, <2>5, Zenon DEF Placed
<1>5. PacketsInOrder
  BY DEF PacketsInOrder
<1> QED BY <1>1, <1>2, <1>3, <1>4, <1>5 DEF RingInv

LEMMA NextTypes == ASSUME RingTypeOK, Sound, RingNext PROVE RingTypeOK'
<1> USE DEF RingTypeOK, Sound, Slots, Contents, Partial, Clamp, netVars, mainVars
<1>1. CASE NetCopy
  BY <1>1 DEF NetCopy
<1>2. CASE NetCopied
  <2>1. push' \in Slots
    BY <1>2, NextSlotIs DEF NetCopied
  <2>2. pushed' \in 0 .. MaxPackets /\ slots' \in [Slots -> Contents]
    BY <1>2 DEF NetCopied
  <2> QED BY <1>2, <2>1, <2>2 DEF NetCopied
<1>3. CASE NetLoad
  BY <1>3 DEF NetLoad
<1>4. CASE NetStore
  BY <1>4 DEF NetStore
<1>5. CASE NetClampLoad
  BY <1>5 DEF NetClampLoad
<1>6. CASE NetClampStore
  BY <1>6 DEF NetClampStore
<1>7. CASE MainEnter
  BY <1>7 DEF MainEnter
<1>8. CASE MainTest
  BY <1>8 DEF MainTest
<1>9. CASE MainReload
  BY <1>9 DEF MainReload
<1>10. CASE MainStore
  <2>1. mainReg \in 1 .. CAP + 1
    BY <1>10 DEF MainStore
  <2>2. size' = mainReg - 1
    BY <1>10, <2>1, Decrement DEF MainStore
  <2>3. raced' \in BOOLEAN
    BY <1>10 DEF MainStore
  <2> QED BY <1>10, <2>1, <2>2, <2>3 DEF MainStore
<1>11. CASE MainTake
  <2>1. pop' \in Slots /\ popped' \in Nat
    BY <1>11, NextSlotIs DEF MainTake
  <2> QED BY <1>11, <2>1 DEF MainTake
<1>12. CASE MainRead
  BY <1>12 DEF MainRead
<1>13. CASE MainHandled
  BY <1>13 DEF MainHandled
<1> QED
  BY <1>1, <1>2, <1>3, <1>4, <1>5, <1>6, <1>7,
     <1>8, <1>9, <1>10, <1>11, <1>12, <1>13
     DEF RingNext, Net, ConnectionUpdate

LEMMA NextSound == ASSUME RingTypeOK, Sound, RingNext PROVE Sound'
<1> USE DEF RingTypeOK, Sound, Clamp, netVars, mainVars
<1>1. CASE NetCopy
  BY <1>1 DEF NetCopy
<1>2. CASE NetCopied
  BY <1>2 DEF NetCopied
<1>3. CASE NetLoad
  BY <1>3 DEF NetLoad
<1>4. CASE NetStore
  BY <1>4 DEF NetStore
<1>5. CASE NetClampLoad
  BY <1>5 DEF NetClampLoad
<1>6. CASE NetClampStore
  BY <1>6 DEF NetClampStore
<1>7. CASE MainEnter
  BY <1>7 DEF MainEnter
<1>8. CASE MainTest
  BY <1>8 DEF MainTest
<1>9. CASE MainReload
  BY <1>9 DEF MainReload
<1>10. CASE MainStore
  BY <1>10, Decrement DEF MainStore
<1>11. CASE MainTake
  BY <1>11 DEF MainTake
<1>12. CASE MainRead
  BY <1>12 DEF MainRead
<1>13. CASE MainHandled
  BY <1>13 DEF MainHandled
<1> QED
  BY <1>1, <1>2, <1>3, <1>4, <1>5, <1>6, <1>7,
     <1>8, <1>9, <1>10, <1>11, <1>12, <1>13
     DEF RingNext, Net, ConnectionUpdate

LEMMA NextExact == ASSUME RingTypeOK, Sound, Exact, RingNext PROVE Exact'
<1> USE DEF RingTypeOK, Sound, Exact, Clean, Occupied, Dispatching, netVars, mainVars
<1>1. CASE NetCopy
  <2> SUFFICES ASSUME Clean' PROVE Exact'
    BY DEF Exact
  <2>1. Clean /\ Occupied < CAP
    BY <1>1, RoomToCopy
  <2> QED BY <1>1, <2>1 DEF NetCopy
<1>2. CASE NetCopied
  BY <1>2 DEF NetCopied
<1>3. CASE NetLoad
  BY <1>3 DEF NetLoad
<1>4. CASE NetStore
  <2> SUFFICES ASSUME Clean' PROVE Exact'
    BY DEF Exact
  <2>1. Clean /\ size = netReg
    BY <1>4 DEF NetStore
  <2>2. pushed - popped <= CAP
    BY <2>1
  <2> QED BY <1>4, <2>1, <2>2 DEF NetStore, Clamp
<1>5. CASE NetClampLoad
  BY <1>5 DEF NetClampLoad
<1>6. CASE NetClampStore
  <2> SUFFICES ASSUME Clean' PROVE Exact'
    BY DEF Exact
  <2>1. Clean /\ size = netReg
    BY <1>6 DEF NetClampStore
  <2>2. pushed - popped <= CAP
    BY <2>1
  <2> QED BY <1>6, <2>1, <2>2 DEF NetClampStore, Clamp
<1>7. CASE MainEnter
  BY <1>7 DEF MainEnter
<1>8. CASE MainTest
  BY <1>8 DEF MainTest
<1>9. CASE MainReload
  BY <1>9 DEF MainReload
<1>10. CASE MainStore
  <2> SUFFICES ASSUME Clean' PROVE Exact'
    BY DEF Exact
  <2>1. Clean /\ size = mainReg
    BY <1>10 DEF MainStore
  <2>2. mainReg \in 1 .. CAP + 1
    BY <1>10 DEF MainStore
  <2>3. size' = size - 1
    BY <1>10, <2>1, <2>2, Decrement DEF MainStore
  <2> QED BY <1>10, <2>1, <2>3 DEF MainStore
<1>11. CASE MainTake
  BY <1>11 DEF MainTake
<1>12. CASE MainRead
  BY <1>12 DEF MainRead
<1>13. CASE MainHandled
  BY <1>13 DEF MainHandled
<1> QED
  BY <1>1, <1>2, <1>3, <1>4, <1>5, <1>6, <1>7,
     <1>8, <1>9, <1>10, <1>11, <1>12, <1>13
     DEF RingNext, Net, ConnectionUpdate

LEMMA NextPlaced == ASSUME RingTypeOK, Sound, Exact, Placed, RingNext PROVE Placed'
<1> USE DEF RingTypeOK, Sound, Exact, Placed, Clean, Occupied, Dispatching, Slot, Slots, netVars, mainVars
<1>1. CASE NetCopy
  <2> SUFFICES ASSUME Clean' PROVE Placed'
    BY DEF Placed
  <2>1. Clean /\ Occupied < CAP
    BY <1>1, RoomToCopy
  <2>2. pushed - popped \in 0 .. CAP
    BY <1>1, <2>1 DEF NetCopy
  <2>3. \A d \in 0 .. pushed - popped - 1 : Slot(d) # push /\ Slot(d) \in Slots
    BY <2>1, <2>2
  <2>4. Dispatching => cur # push
    BY <2>1, <2>2
  <2>5. UNCHANGED <<pushed, popped, pop, push, cur, first, mainPc, handled>>
    BY <1>1 DEF NetCopy
  <2>6. \A x \in Slots : x # push => slots'[x] = slots[x]
    BY <1>1 DEF NetCopy
  <2> QED BY <2>1, <2>3, <2>4, <2>5, <2>6
<1>2. CASE NetCopied
  <2> SUFFICES ASSUME Clean' PROVE Placed'
    BY DEF Placed
  <2>1. Clean
    BY <1>2 DEF NetCopied
  <2>2. pushed - popped \in 0 .. CAP - 1 /\ (Dispatching => pushed - popped < CAP - 1)
    BY <1>2, <2>1 DEF NetCopied
  <2>3. /\ pushed' = pushed + 1 /\ slots' = [slots EXCEPT ![push] = pushed + 1]
        /\ push' = (IF push + 1 < CAP THEN push + 1 ELSE 0)
        /\ UNCHANGED <<popped, pop, cur, first, mainPc, handled>>
    BY <1>2, NextSlotIs DEF NetCopied
  <2>4. push' = Slot(pushed + 1 - popped)
    BY <2>1, <2>2, <2>3
  <2>5. \A d \in 0 .. pushed - popped - 1 : Slot(d) # push /\ Slot(d) \in Slots
    BY <2>1, <2>2
  <2>6. Dispatching => cur # push
    BY <2>1, <2>2
  <2>7. \A d \in 0 .. pushed - popped : slots'[Slot(d)] = popped + 1 + d
    <3> TAKE d \in 0 .. pushed - popped
    <3>1. CASE d = pushed - popped
      BY <2>1, <2>3, <3>1
    <3>2. CASE d # pushed - popped
      <4>1. d \in 0 .. pushed - popped - 1
        BY <2>2, <3>2
      <4> QED BY <2>1, <2>3, <2>5, <4>1
    <3> QED BY <3>1, <3>2
  <2> QED BY <2>1, <2>3, <2>4, <2>6, <2>7
<1>3. CASE NetLoad
  BY <1>3 DEF NetLoad
<1>4. CASE NetStore
  BY <1>4 DEF NetStore
<1>5. CASE NetClampLoad
  BY <1>5 DEF NetClampLoad
<1>6. CASE NetClampStore
  BY <1>6 DEF NetClampStore
<1>7. CASE MainEnter
  BY <1>7 DEF MainEnter
<1>8. CASE MainTest
  BY <1>8 DEF MainTest
<1>9. CASE MainReload
  BY <1>9 DEF MainReload
<1>10. CASE MainStore
  BY <1>10 DEF MainStore
<1>11. CASE MainTake
  <2> SUFFICES ASSUME Clean' PROVE Placed'
    BY DEF Placed
  <2>1. Clean
    BY <1>11 DEF MainTake
  <2>2. pushed - popped \in 1 .. CAP
    BY <1>11, <2>1 DEF MainTake
  <2>3. /\ cur' = pop /\ pop' = (IF pop + 1 < CAP THEN pop + 1 ELSE 0)
        /\ popped' = popped + 1 /\ mainPc' = "dispatch" /\ mainPc = "take"
        /\ UNCHANGED <<slots, push, pushed, handled>>
    BY <1>11, NextSlotIs DEF MainTake
  <2>4. push' = Slot(pushed - popped)'
    BY <2>1, <2>2, <2>3
  <2>5. \A d \in 0 .. pushed - popped - 2 : Slot(d)' = Slot(d + 1)
    BY <2>2, <2>3
  <2>6. \A d \in 0 .. pushed - popped - 2 :
          slots[Slot(d + 1)] = popped + 1 + (d + 1)
    <3> TAKE d \in 0 .. pushed - popped - 2
    <3>1. d + 1 \in 0 .. pushed - popped - 1
      BY <2>2
    <3> HIDE DEF Slot
    <3> QED BY <2>1, <3>1 DEF Placed
  <2>7. slots[pop] = popped + 1
    <3>1. 0 \in 0 .. pushed - popped - 1 /\ Slot(0) = pop
      BY <2>2
    <3>2. slots[Slot(0)] = popped + 1 + 0
      <4> HIDE DEF Slot
      <4> QED BY <2>1, <3>1 DEF Placed
    <3> QED BY <3>1, <3>2
  <2>8. Slot(CAP - 1)' = pop
    BY <2>3
  <2>9. \A d \in 0 .. pushed' - popped' - 1 : slots'[Slot(d)'] = popped' + 1 + d
    <3> HIDE DEF Slot
    <3> QED BY <2>2, <2>3, <2>5, <2>6
  <2>10. Len(handled) = popped
    BY <2>1, <2>3
  <2> HIDE DEF Slot
  <2> QED BY <2>3, <2>4, <2>7, <2>8, <2>9, <2>10 DEF Placed
<1>12. CASE MainRead
  BY <1>12 DEF MainRead
<1>13. CASE MainHandled
  BY <1>13 DEF MainHandled
<1> QED
  BY <1>1, <1>2, <1>3, <1>4, <1>5, <1>6, <1>7,
     <1>8, <1>9, <1>10, <1>11, <1>12, <1>13
     DEF RingNext, Net, ConnectionUpdate

LEMMA NextInOrder == ASSUME RingTypeOK, Placed, PacketsInOrder, RingNext PROVE PacketsInOrder'
<1> USE DEF RingTypeOK, PacketsInOrder, Clean, netVars, mainVars
<1>1. CASE NetCopy
  BY <1>1 DEF NetCopy
<1>2. CASE NetCopied
  BY <1>2 DEF NetCopied
<1>3. CASE NetLoad
  BY <1>3 DEF NetLoad
<1>4. CASE NetStore
  BY <1>4 DEF NetStore
<1>5. CASE NetClampLoad
  BY <1>5 DEF NetClampLoad
<1>6. CASE NetClampStore
  BY <1>6 DEF NetClampStore
<1>7. CASE MainEnter
  BY <1>7 DEF MainEnter
<1>8. CASE MainTest
  BY <1>8 DEF MainTest
<1>9. CASE MainReload
  BY <1>9 DEF MainReload
<1>10. CASE MainStore
  BY <1>10 DEF MainStore
<1>11. CASE MainTake
  BY <1>11 DEF MainTake
<1>12. CASE MainRead
  BY <1>12 DEF MainRead
<1>13. CASE MainHandled
  BY <1>13 DEF MainHandled, Placed, Dispatching
<1> QED
  BY <1>1, <1>2, <1>3, <1>4, <1>5, <1>6, <1>7,
     <1>8, <1>9, <1>10, <1>11, <1>12, <1>13
     DEF RingNext, Net, ConnectionUpdate

LEMMA StutterInv == ASSUME RingInv, UNCHANGED ringVars PROVE RingInv'
  BY DEF ringVars, netVars, mainVars, RingInv, RingTypeOK, Sound, Exact, Placed, PacketsInOrder,
         Clean, Occupied, Dispatching, Slot, Slots

(* The ring's invariant, with all the parts it needs to be inductive.      *)
THEOREM RingInductive == RingSpec => []RingInv
<1>1. ASSUME RingInv, [RingNext]_ringVars PROVE RingInv'
  <2>1. CASE RingNext
    BY <1>1, <2>1, NextTypes, NextSound, NextExact, NextPlaced, NextInOrder
       DEF RingInv
  <2>2. CASE UNCHANGED ringVars
    BY <1>1, <2>2, StutterInv
  <2> QED BY <1>1, <2>1, <2>2
<1> QED BY <1>1, InitInv, PTL DEF RingSpec

(* packetQueueSize never wraps below zero, and both cursors stay inside     *)
(* receiveBuffer, however the two threads interleave.                       *)
THEOREM RingTypesCorrect == RingSpec => []RingTypeOK
<1>1. RingInv => RingTypeOK
  BY DEF RingInv
<1> QED BY <1>1, RingInductive, PTL

(* Without a collision and without an overrun, packetQueueSize is the       *)
(* number of packets that wait.                                             *)
THEOREM CountIsExact == RingSpec => []CountExact
<1>1. ASSUME RingInv PROVE CountExact
  <2>1. netPc \in {"idle", "copying"} => netPc \notin {"load", "store"}
    OBVIOUS
  <2>2. pushed \in Int /\ popped \in Int
    BY <1>1 DEF RingInv, RingTypeOK
  <2> QED BY <1>1, <2>1, <2>2 DEF RingInv, Exact, Clean, CountExact
<1> QED BY <1>1, RingInductive, PTL

(* Without a collision and without an overrun, onMessage is given the       *)
(* packets whole and in the order in which they arrived.                    *)
THEOREM HandledInOrder == RingSpec => []PacketsInOrder
<1>1. RingInv => PacketsInOrder
  BY DEF RingInv
<1> QED BY <1>1, RingInductive, PTL

-----------------------------------------------------------------------------
(* The characters *)

Entries == [x : Tiles, n : Nat]
Packets == [type : {"position", "jump", "connect", "disconnect"}, id : Ids,
            x : Tiles, n : Nat]
Chars   == [x : Tiles, queue : Seq(Entries), left : 0 .. StepTime,
            serial : Nat, told : Nat, overtaken : BOOLEAN]

Bounded(c) == Len(c.queue) <= Capacity

Shape ==
  /\ place \in [Ids -> Tiles] /\ lastAct \in [Ids -> Acts]
  /\ sends \in 0 .. MaxSends
  /\ wire \in Seq(Packets)
  /\ chars \in [Ids -> Chars \cup {NoChar}]
  /\ \A id \in Ids : Exists(id) => Bounded(chars[id])

Sorted(q)    == \A i, j \in 1 .. Len(q) : i < j => q[i].n < q[j].n
Before(c, n) == c.serial < n /\ \A k \in 1 .. Len(c.queue) : c.queue[k].n < n
Forward(c)   == /\ Sorted(c.queue)
                /\ ~c.overtaken => \A k \in 1 .. Len(c.queue) : c.serial <= c.queue[k].n

Ordered ==
  /\ Sorted(wire) /\ \A i \in 1 .. Len(wire) : 0 < wire[i].n /\ wire[i].n <= sends
  /\ \A id \in Ids : Exists(id) =>
       /\ Forward(chars[id])
       /\ \A i \in 1 .. Len(wire) : Before(chars[id], wire[i].n)
       /\ Before(chars[id], sends + 1)

(* Where a character will be when it has visited all positions it knows.   *)
Goal(c)       == IF c.queue = <<>> THEN c.x ELSE c.queue[Len(c.queue)].x
Told(id)      == \A i \in 1 .. Len(wire) : wire[i].id # id
LastOf(id, i) == wire[i].id = id /\ \A j \in i + 1 .. Len(wire) : wire[j].id # id

Arriving ==
  \A id \in Ids : lastAct[id] = "walk" =>
    /\ \A i \in 1 .. Len(wire) : LastOf(id, i) =>
         \/ wire[i].type \in {"connect", "disconnect"}
         \/ wire[i].type = "position" /\ wire[i].x = place[id]
    /\ Told(id) /\ Exists(id) /\ chars[id].told # 0 => Goal(chars[id]) = place[id]

IInv == Shape /\ Ordered /\ Arriving

-----------------------------------------------------------------------------

USE RemoteAssumption

LEMMA NoCharIsNone == NoChar \notin Chars
BY DEF NoChar, Chars, Tiles

LEMMA NewCharIs ==
  ASSUME NEW x \in Tiles
  PROVE  /\ NewChar(x) \in Chars /\ Bounded(NewChar(x)) /\ Forward(NewChar(x))
         /\ NewChar(x).told = 0 /\ NewChar(x).serial = 0
         /\ \A n \in Nat : n > 0 => Before(NewChar(x), n)
BY DEF NewChar, Chars, Bounded, Forward, Sorted, Before

LEMMA ElementIn ==
  ASSUME NEW S, NEW q \in Seq(S), NEW i \in 1 .. Len(q)
  PROVE  q[i] \in S
OBVIOUS

LEMMA EmptySeq ==
  ASSUME NEW S, NEW q \in Seq(S), Len(q) = 0
  PROVE  q = <<>>
OBVIOUS

LEMMA OnTheWire ==
  ASSUME Shape, NEW i \in 1 .. Len(wire)
  PROVE  wire[i] \in Packets /\ wire[i].n \in Nat
<1>1. wire[i] \in Packets BY ElementIn DEF Shape
<1> QED BY <1>1 DEF Packets

LEMMA InTheQueue ==
  ASSUME NEW c \in Chars, NEW k \in 1 .. Len(c.queue)
  PROVE  c.queue[k] \in Entries /\ c.queue[k].n \in Nat
<1>1. c.queue \in Seq(Entries) BY DEF Chars
<1>2. c.queue[k] \in Entries BY <1>1, ElementIn
<1> QED BY <1>2 DEF Entries

(* What MultiplayerMove leaves in a queue: the new position, last, and all  *)
(* others or all but the oldest.                                           *)
LEMMA PushMoveIs ==
  ASSUME NEW q \in Seq(Entries), NEW e \in Entries, Len(q) <= Capacity
  PROVE  /\ PushMove(q, e) \in Seq(Entries)
         /\ Len(PushMove(q, e)) <= Capacity
         /\ PushMove(q, e) # <<>>
         /\ PushMove(q, e)[Len(PushMove(q, e))] = e
         /\ \E d \in {0, 1} :
              /\ Len(PushMove(q, e)) = Len(q) + 1 - d
              /\ \A k \in 1 .. Len(q) - d : PushMove(q, e)[k] = q[k + d]
<1> DEFINE q1 == Append(q, e)
<1>1. /\ q1 \in Seq(Entries) /\ Len(q1) = Len(q) + 1 /\ q1[Len(q) + 1] = e
      /\ \A k \in 1 .. Len(q) : q1[k] = q[k]
      /\ Len(q) \in Nat
  OBVIOUS
<1> HIDE DEF q1
<1>2. CASE Len(q1) <= Capacity
  <2>1. PushMove(q, e) = q1 BY <1>2, <1>1 DEF PushMove, q1
  <2> QED BY <2>1, <1>1, <1>2
<1>3. CASE Len(q1) > Capacity
  <2>1. PushMove(q, e) = Tail(q1) BY <1>3, <1>1 DEF PushMove, q1
  <2>2. /\ Tail(q1) \in Seq(Entries) /\ Len(Tail(q1)) = Len(q)
        /\ \A k \in 1 .. Len(q) : Tail(q1)[k] = q1[k + 1]
    BY <1>1
  <2>3. Len(q) = Capacity /\ Len(q) >= 1 BY <1>1, <1>3
  <2>4. Tail(q1)[Len(q)] = e /\ \A k \in 1 .. Len(q) - 1 : Tail(q1)[k] = q[k + 1]
    BY <2>2, <2>3, <1>1
  <2>5. Len(Tail(q1)) = Len(q) + 1 - 1 /\ Tail(q1) # <<>> BY <2>2, <2>3, <1>1
  <2>6. Tail(q1)[Len(Tail(q1))] = e BY <2>2, <2>4
  <2> QED BY <2>1, <2>2, <2>3, <2>4, <2>5, <2>6
<1> QED BY <1>1, <1>2, <1>3

LEMMA Initially == Init => IInv
<1> SUFFICES ASSUME Init PROVE IInv OBVIOUS
<1>1. Shape
  <2>1. place \in [Ids -> Tiles] /\ wire \in Seq(Packets) BY DEF Init
  <2>2. lastAct \in [Ids -> Acts] BY DEF Init, Acts
  <2>3. chars \in [Ids -> Chars \cup {NoChar}] /\ \A id \in Ids : ~Exists(id)
    BY DEF Init, Exists
  <2>4. sends \in 0 .. MaxSends BY DEF Init
  <2> QED BY <2>1, <2>2, <2>3, <2>4 DEF Shape
<1>2. Ordered BY DEF Init, Ordered, Sorted, Exists
<1>3. Arriving BY DEF Init, Arriving
<1> QED BY <1>1, <1>2, <1>3 DEF IInv

-----------------------------------------------------------------------------
(* The other players *)

(* Whatever a player or the server sends comes after all that was sent.    *)
LEMMA Sends ==
  ASSUME IInv, NEW id \in Ids, NEW p \in Packets,
         sends < MaxSends, sends' = sends + 1, UNCHANGED chars,
         wire' = Append(wire, p), p.id = id, p.n = sends + 1,
         place' \in [Ids -> Tiles], lastAct' \in [Ids -> Acts],
         \A o \in Ids \ {id} : place'[o] = place[o] /\ lastAct'[o] = lastAct[o],
         lastAct'[id] = "walk" => \/ p.type \in {"connect", "disconnect"}
                                  \/ p.type = "position" /\ p.x = place'[id]
  PROVE  IInv'
<1> DEFINE L == Len(wire)
<1>1. /\ wire' \in Seq(Packets) /\ Len(wire') = L + 1 /\ wire'[L + 1] = p
      /\ \A i \in 1 .. L : wire'[i] = wire[i]
      /\ L \in Nat /\ sends \in Nat
  BY DEF IInv, Shape
<1>2. Shape' BY <1>1 DEF IInv, Shape, Exists
<1> HIDE DEF L
<1>3. Ordered'
  <2>1. \A i \in 1 .. Len(wire') : 0 < wire'[i].n /\ wire'[i].n <= sends'
    <3> SUFFICES ASSUME NEW i \in 1 .. L + 1 PROVE 0 < wire'[i].n /\ wire'[i].n <= sends'
      BY <1>1
    <3>1. CASE i = L + 1 BY <3>1, <1>1
    <3>2. CASE i \in 1 .. L
      <4>1. wire[i].n <= sends /\ 0 < wire[i].n BY <3>2 DEF IInv, Ordered, L
      <4>2. wire[i].n \in Nat BY <3>2, OnTheWire DEF IInv, L
      <4> QED BY <4>1, <4>2, <3>2, <1>1
    <3> QED BY <3>1, <3>2, <1>1
  <2>2. Sorted(wire')
    <3> SUFFICES ASSUME NEW i \in 1 .. L + 1, NEW j \in 1 .. L + 1, i < j
                 PROVE  wire'[i].n < wire'[j].n
      BY <1>1 DEF Sorted
    <3>1. i \in 1 .. L /\ wire'[i] = wire[i] BY <1>1
    <3>2. CASE j = L + 1
      <4>1. wire[i].n <= sends BY <3>1 DEF IInv, Ordered, L
      <4>2. wire[i].n \in Nat BY <3>1, OnTheWire DEF IInv, L
      <4> QED BY <4>1, <4>2, <3>1, <3>2, <1>1
    <3>3. CASE j \in 1 .. L BY <3>1, <3>3, <1>1 DEF IInv, Ordered, Sorted, L
    <3> QED BY <3>2, <3>3, <1>1
  <2>3. ASSUME NEW o \in Ids, Exists(o)
        PROVE  /\ Forward(chars[o])
               /\ \A i \in 1 .. Len(wire') : Before(chars[o], wire'[i].n)
               /\ Before(chars[o], sends' + 1)
    <3>1. chars[o] \in Chars BY <2>3 DEF IInv, Shape, Exists
    <3>2. /\ Forward(chars[o]) /\ Before(chars[o], sends + 1)
          /\ \A i \in 1 .. L : Before(chars[o], wire[i].n)
      BY <2>3 DEF IInv, Ordered, L
    <3>3. ASSUME NEW i \in 1 .. L + 1 PROVE Before(chars[o], wire'[i].n)
      BY <3>2, <1>1
    <3>4. Before(chars[o], sends' + 1)
      <4>1. chars[o].serial \in Nat BY <3>1 DEF Chars
      <4>2. \A k \in 1 .. Len(chars[o].queue) : chars[o].queue[k].n \in Nat
        BY <3>1, InTheQueue
      <4>3. /\ chars[o].serial < sends + 1
            /\ \A k \in 1 .. Len(chars[o].queue) : chars[o].queue[k].n < sends + 1
        BY <3>2 DEF Before
      <4>4. sends' = sends + 1 /\ sends \in Nat BY <1>1
      <4>5. chars[o].serial < sends' + 1 BY <4>1, <4>3, <4>4
      <4>6. \A k \in 1 .. Len(chars[o].queue) : chars[o].queue[k].n < sends' + 1
        BY <4>2, <4>3, <4>4
      <4> QED BY <4>5, <4>6 DEF Before
    <3> QED BY <3>2, <3>3, <3>4, <1>1
  <2> QED BY <2>1, <2>2, <2>3 DEF Ordered, Exists
<1>4. Arriving'
  <2> SUFFICES ASSUME NEW o \in Ids, lastAct'[o] = "walk"
               PROVE  /\ \A i \in 1 .. Len(wire') : LastOf(o, i)' =>
                           \/ wire'[i].type \in {"connect", "disconnect"}
                           \/ wire'[i].type = "position" /\ wire'[i].x = place'[o]
                      /\ Told(o)' /\ Exists(o) /\ chars[o].told # 0
                           => Goal(chars[o]) = place'[o]
    BY DEF Arriving, Exists
  <2>1. CASE o = id
    <3>1. L + 1 \in 1 .. Len(wire') /\ wire'[L + 1].id = id BY <1>1
    <3>2. ~Told(o)' BY <3>1, <2>1 DEF Told
    <3>3. ASSUME NEW i \in 1 .. Len(wire'), LastOf(o, i)' PROVE i = L + 1
      BY <3>1, <3>3, <2>1, <1>1 DEF LastOf
    <3> QED BY <3>2, <3>3, <2>1, <1>1
  <2>2. CASE o # id
    <3>1. lastAct[o] = "walk" /\ place'[o] = place[o] BY <2>2
    <3>2. Told(o)' => Told(o) BY <1>1 DEF Told, L
    <3>3. ASSUME NEW i \in 1 .. Len(wire'), LastOf(o, i)'
          PROVE  i \in 1 .. L /\ LastOf(o, i) /\ wire'[i] = wire[i]
      <4>1. i # L + 1 BY <3>3, <2>2, <1>1 DEF LastOf
      <4>2. i \in 1 .. L /\ wire'[i] = wire[i] BY <4>1, <1>1
      <4>3. \A j \in i + 1 .. L : wire[j].id # o
        <5> SUFFICES ASSUME NEW j \in i + 1 .. L PROVE wire[j].id # o OBVIOUS
        <5>1. j \in i + 1 .. Len(wire') /\ wire'[j] = wire[j] BY <4>2, <1>1
        <5> QED BY <5>1, <3>3 DEF LastOf
      <4> QED BY <4>2, <4>3, <3>3 DEF LastOf, L
    <3> QED BY <3>1, <3>2, <3>3 DEF IInv, Arriving, L
  <2> QED BY <2>1, <2>2
<1> QED BY <1>2, <1>3, <1>4 DEF IInv

LEMMA MovesUnsent ==
  ASSUME IInv, NEW id \in Ids, MoveUnsent(id)
  PROVE  IInv'
<1>1. PICK x \in Tiles : Act(id, "unsent", x) /\ UNCHANGED wire BY DEF MoveUnsent
<1>2. /\ sends < MaxSends /\ sends' = sends + 1 /\ UNCHANGED <<chars, wire>>
      /\ place' = [place EXCEPT ![id] = x] /\ lastAct' = [lastAct EXCEPT ![id] = "unsent"]
  BY <1>1 DEF Act
<1>3. sends \in Nat BY DEF IInv, Shape
<1>4. Shape' BY <1>2 DEF IInv, Shape, Acts, Exists
<1>5. Ordered'
  <2>1. \A i \in 1 .. Len(wire) : wire[i].n \in Nat BY OnTheWire DEF IInv
  <2>2. ASSUME NEW o \in Ids, Exists(o) PROVE Before(chars[o], sends + 1 + 1)
    <3>1. chars[o] \in Chars /\ Before(chars[o], sends + 1)
      BY <2>2 DEF IInv, Shape, Ordered, Exists
    <3>2. chars[o].serial \in Nat BY <3>1 DEF Chars
    <3>3. \A k \in 1 .. Len(chars[o].queue) : chars[o].queue[k].n \in Nat
      BY <3>1, InTheQueue
    <3> QED BY <3>1, <3>2, <3>3, <1>3 DEF Before
  <2>3. Sorted(wire') /\ \A i \in 1 .. Len(wire') : 0 < wire'[i].n /\ wire'[i].n <= sends'
    <3>1. Sorted(wire) /\ \A i \in 1 .. Len(wire) : 0 < wire[i].n /\ wire[i].n <= sends
      BY DEF IInv, Ordered
    <3>2. wire' = wire /\ sends' = sends + 1 BY <1>2
    <3>3. \A i \in 1 .. Len(wire') : 0 < wire'[i].n /\ wire'[i].n <= sends'
      BY <3>1, <3>2, <2>1, <1>3
    <3> QED BY <3>1, <3>2, <3>3
  <2>4. ASSUME NEW o \in Ids, Exists(o)'
        PROVE  /\ Forward(chars'[o])
               /\ \A i \in 1 .. Len(wire') : Before(chars'[o], wire'[i].n)
               /\ Before(chars'[o], sends' + 1)
    <3>1. chars' = chars /\ wire' = wire /\ sends' = sends + 1 BY <1>2
    <3>2. Exists(o) BY <2>4, <3>1 DEF Exists
    <3>3. Forward(chars[o]) /\ \A i \in 1 .. Len(wire) : Before(chars[o], wire[i].n)
      BY <3>2 DEF IInv, Ordered
    <3> QED BY <3>1, <3>2, <3>3, <2>2
  <2> QED BY <2>3, <2>4 DEF Ordered
<1>6. Arriving'
  <2>1. \A o \in Ids : lastAct'[o] = "walk" =>
          lastAct[o] = "walk" /\ place'[o] = place[o]
    BY <1>2 DEF IInv, Shape
  <2> QED BY <1>2, <2>1 DEF IInv, Arriving, Told, LastOf, Exists
<1> QED BY <1>4, <1>5, <1>6 DEF IInv

-----------------------------------------------------------------------------
(* This game *)

(* What a packet may make of the character it is for, so that handling it  *)
(* keeps the invariant.                                                    *)
Fits(c, n) == /\ c \in Chars /\ Bounded(c) /\ Forward(c)
              /\ \A m \in Nat : m > n => Before(c, m)

LEMMA Takes ==
  ASSUME IInv, NEW id \in Ids, NEW c, wire # <<>>, id = Head(wire).id,
         c = NoChar \/ Fits(c, Head(wire).n),
         chars' = [chars EXCEPT ![id] = c], wire' = Tail(wire),
         UNCHANGED <<place, lastAct, sends>>,
         lastAct[id] = "walk" /\ c # NoChar /\ c.told # 0 /\ LastOf(id, 1)
           => Goal(c) = place[id]
  PROVE  IInv'
<1> DEFINE L == Len(wire)
<1>1. /\ L \in Nat /\ L >= 1 /\ Head(wire) = wire[1]
      /\ wire' \in Seq(Packets) /\ Len(wire') = L - 1
      /\ \A i \in 1 .. L - 1 : wire'[i] = wire[i + 1]
      /\ sends \in Nat
  BY DEF IInv, Shape
<1>2. /\ chars' \in [Ids -> Chars \cup {NoChar}] /\ chars'[id] = c
      /\ \A o \in Ids \ {id} : chars'[o] = chars[o]
  BY DEF IInv, Shape, Fits
<1>3. Shape' BY <1>1, <1>2 DEF IInv, Shape, Exists, Fits
<1>4. \A i \in 1 .. L : wire[i].n \in Nat /\ wire[1].n <= wire[i].n /\ wire[i].n <= sends
  <2> SUFFICES ASSUME NEW i \in 1 .. L
               PROVE  wire[i].n \in Nat /\ wire[1].n <= wire[i].n /\ wire[i].n <= sends
    OBVIOUS
  <2>1. 1 \in 1 .. L BY <1>1
  <2>2. wire[i].n \in Nat /\ wire[1].n \in Nat BY <2>1, OnTheWire DEF IInv
  <2>3. i = 1 \/ wire[1].n < wire[i].n BY <2>1 DEF IInv, Ordered, Sorted
  <2>4. wire[i].n <= sends BY DEF IInv, Ordered
  <2> QED BY <2>2, <2>3, <2>4
<1> HIDE DEF L
<1>5. \A i \in 1 .. L - 1 : /\ i + 1 \in 1 .. L /\ wire[i + 1].n > wire[1].n
                            /\ wire'[i].n = wire[i + 1].n
  <2> SUFFICES ASSUME NEW i \in 1 .. L - 1
               PROVE  /\ i + 1 \in 1 .. L /\ wire[i + 1].n > wire[1].n
                      /\ wire'[i].n = wire[i + 1].n
    OBVIOUS
  <2>1. i + 1 \in 1 .. L /\ 1 \in 1 .. L /\ 1 < i + 1 BY <1>1
  <2>2. wire[1].n < wire[i + 1].n BY <2>1 DEF IInv, Ordered, Sorted, L
  <2> QED BY <2>1, <2>2, <1>1, <1>4
<1>6. Ordered'
  <2>1. \A i \in 1 .. L - 1 : 0 < wire'[i].n /\ wire'[i].n <= sends
    BY <1>5 DEF IInv, Ordered, L
  <2>2. ASSUME NEW i \in 1 .. L - 1, NEW j \in 1 .. L - 1, i < j
        PROVE  wire'[i].n < wire'[j].n
    <3>1. i + 1 \in 1 .. L /\ j + 1 \in 1 .. L /\ i + 1 < j + 1 BY <2>2, <1>1
    <3>2. wire[i + 1].n < wire[j + 1].n BY <3>1 DEF IInv, Ordered, Sorted, L
    <3> QED BY <3>2, <1>5
  <2>3. ASSUME NEW o \in Ids, Exists(o)'
        PROVE  /\ Forward(chars'[o])
               /\ \A i \in 1 .. L - 1 : Before(chars'[o], wire'[i].n)
               /\ Before(chars'[o], sends + 1)
    <3>1. CASE o = id
      <4>1. Fits(chars'[o], wire[1].n) BY <3>1, <2>3, <1>2, <1>1 DEF Exists
      <4>2. wire[1].n < sends + 1 /\ sends + 1 \in Nat BY <1>4, <1>1
      <4>3. ASSUME NEW i \in 1 .. L - 1 PROVE Before(chars'[o], wire'[i].n)
        <5>1. wire'[i].n \in Nat /\ wire'[i].n > wire[1].n BY <1>4, <1>5
        <5> QED BY <4>1, <5>1 DEF Fits
      <4> QED BY <4>1, <4>2, <4>3 DEF Fits
    <3>2. CASE o # id
      <4>1. Exists(o) /\ chars'[o] = chars[o] BY <3>2, <2>3, <1>2 DEF Exists
      <4> QED BY <4>1, <1>5 DEF IInv, Ordered, L
    <3> QED BY <3>1, <3>2
  <2> QED BY <2>1, <2>2, <2>3, <1>1 DEF Ordered, Sorted
<1>7. Arriving'
  <2>0. Len(wire') = L - 1 /\ lastAct' = lastAct /\ place' = place BY <1>1
  <2> SUFFICES ASSUME NEW o \in Ids, lastAct[o] = "walk"
               PROVE  /\ \A i \in 1 .. L - 1 : LastOf(o, i)' =>
                           \/ wire'[i].type \in {"connect", "disconnect"}
                           \/ wire'[i].type = "position" /\ wire'[i].x = place[o]
                      /\ Told(o)' /\ Exists(o)' /\ chars'[o].told # 0
                           => Goal(chars'[o]) = place[o]
    BY <2>0 DEF Arriving
  <2>1. ASSUME NEW i \in 1 .. L - 1, LastOf(o, i)' PROVE LastOf(o, i + 1)
    <3>1. wire[i + 1].id = o BY <2>1, <1>1 DEF LastOf
    <3>2. ASSUME NEW j \in i + 1 + 1 .. L PROVE wire[j].id # o
      <4>1. L \in Nat BY <1>1
      <4>2. i \in Nat /\ j \in Nat /\ 1 <= i /\ i + 2 <= j /\ j <= L BY <3>2, <4>1
      <4>3. j - 1 \in i + 1 .. L - 1 /\ j - 1 \in 1 .. L - 1 /\ j - 1 + 1 = j BY <4>1, <4>2
      <4>4. wire'[j - 1] = wire[j] BY <4>3, <1>1
      <4>5. wire'[j - 1].id # o BY <2>0, <2>1, <4>3 DEF LastOf
      <4> QED BY <4>4, <4>5
    <3> QED BY <3>1, <3>2 DEF LastOf, L
  <2>2. ASSUME Told(o)' PROVE \A j \in 2 .. L : wire[j].id # o
    <3> SUFFICES ASSUME NEW j \in 2 .. L PROVE wire[j].id # o OBVIOUS
    <3>1. j - 1 \in 1 .. L - 1 /\ j - 1 + 1 = j BY <1>1
    <3>2. wire'[j - 1] = wire[j] BY <3>1, <1>1
    <3>3. wire'[j - 1].id # o BY <3>1, <2>2, <1>1 DEF Told
    <3> QED BY <3>2, <3>3
  <2>3. ASSUME Told(o)', Exists(o)', chars'[o].told # 0
        PROVE  Goal(chars'[o]) = place[o]
    <3>1. CASE o = id
      <4>1. LastOf(id, 1) BY <2>2, <2>3, <3>1, <1>1 DEF LastOf, L
      <4> QED BY <4>1, <2>3, <3>1, <1>2 DEF Exists
    <3>2. CASE o # id
      <4>1. Told(o) BY <2>2, <2>3, <3>2, <1>1 DEF Told, L
      <4> QED BY <4>1, <2>3, <3>2, <1>2 DEF IInv, Arriving, Exists
    <3> QED BY <3>1, <3>2
  <2>4. ASSUME NEW i \in 1 .. L - 1, LastOf(o, i)'
        PROVE  \/ wire'[i].type \in {"connect", "disconnect"}
               \/ wire'[i].type = "position" /\ wire'[i].x = place[o]
    <3>1. LastOf(o, i + 1) /\ i + 1 \in 1 .. L BY <2>1, <2>4, <1>5
    <3>2. wire'[i] = wire[i + 1] BY <1>1
    <3> QED BY <3>1, <3>2 DEF IInv, Arriving, L
  <2> QED BY <2>3, <2>4
<1> QED BY <1>3, <1>6, <1>7 DEF IInv

(* The next packet, and the character it is for.                           *)
LEMMA NextPacket ==
  ASSUME IInv, wire # <<>>
  PROVE  /\ Head(wire) \in Packets /\ Head(wire).n \in Nat
         /\ Head(wire).id \in Ids /\ Head(wire) = wire[1] /\ 1 \in 1 .. Len(wire)
         /\ LET c == chars[Head(wire).id] IN
              Exists(Head(wire).id) => Fits(c, Head(wire).n) /\ Before(c, Head(wire).n)
<1> DEFINE id == Head(wire).id
           c  == chars[id]
<1>1. /\ Head(wire) = wire[1] /\ 1 \in 1 .. Len(wire)
      /\ Head(wire) \in Packets /\ Head(wire).n \in Nat /\ Head(wire).id \in Ids
  <2>1. wire \in Seq(Packets) BY DEF IInv, Shape
  <2>2. Head(wire) = wire[1] /\ 1 \in 1 .. Len(wire) BY <2>1
  <2> QED BY <2>2, OnTheWire DEF IInv, Packets
<1>2. ASSUME Exists(id) PROVE Fits(c, Head(wire).n) /\ Before(c, Head(wire).n)
  <2>1. c \in Chars /\ Bounded(c) /\ Forward(c) /\ Before(c, Head(wire).n)
    BY <1>1, <1>2 DEF IInv, Shape, Ordered, Exists
  <2>2. ASSUME NEW m \in Nat, m > Head(wire).n PROVE Before(c, m)
    <3>1. c.serial \in Nat BY <2>1 DEF Chars
    <3>2. \A k \in 1 .. Len(c.queue) : c.queue[k].n \in Nat BY <2>1, InTheQueue
    <3>3. Head(wire).n \in Nat BY <1>1
    <3>4. ASSUME NEW v \in Nat, v < Head(wire).n PROVE v < m
      BY <2>2, <3>3, <3>4
    <3> HIDE DEF c, id
    <3> QED BY <2>1, <3>1, <3>2, <3>4 DEF Before
  <2> QED BY <2>1, <2>2 DEF Fits
<1> QED BY <1>1, <1>2

LEMMA Ignored ==
  ASSUME IInv, wire # <<>>, UNCHANGED chars,
         wire' = Tail(wire), UNCHANGED <<place, lastAct, sends>>,
         lastAct[Head(wire).id] = "walk" /\ Exists(Head(wire).id)
           => ~LastOf(Head(wire).id, 1)
  PROVE  IInv'
<1> DEFINE id == Head(wire).id
<1>1. id \in Ids /\ (Exists(id) => Fits(chars[id], Head(wire).n)) BY NextPacket
<1>2. chars' = [chars EXCEPT ![id] = chars[id]] BY <1>1 DEF IInv, Shape
<1> QED BY <1>1, <1>2, Takes DEF Exists

LEMMA Positions ==
  ASSUME IInv, wire # <<>>, Head(wire).type = "position", Position(Head(wire)),
         wire' = Tail(wire), UNCHANGED <<place, lastAct, sends>>
  PROVE  IInv'
<1> DEFINE p == Head(wire)
           c == chars[p.id]
           e == [x |-> p.x, n |-> p.n]
           q == PushMove(c.queue, e)
           d == [c EXCEPT !.queue = q, !.told = p.n]
<1>1. /\ p \in Packets /\ p.n \in Nat /\ p.id \in Ids /\ p = wire[1] /\ 1 \in 1 .. Len(wire)
      /\ Exists(p.id) => Fits(c, p.n) /\ Before(c, p.n)
  BY NextPacket
<1>2. CASE ~Exists(p.id)
  <2>1. UNCHANGED chars BY <1>2 DEF Position
  <2> QED BY <2>1, <1>2, Ignored
<1>3. CASE Exists(p.id)
  <2>1. c \in Chars /\ Bounded(c) /\ Forward(c) /\ Before(c, p.n)
    BY <1>1, <1>3 DEF Fits
  <2>2. e \in Entries /\ c.queue \in Seq(Entries) BY <1>1, <2>1 DEF Entries, Packets, Chars
  <2>3. chars' = [chars EXCEPT ![p.id] = d]
    BY <1>1, <1>3, <2>1 DEF Position, Chars, IInv, Shape
  <2>4. /\ q \in Seq(Entries) /\ Len(q) <= Capacity /\ q # <<>> /\ q[Len(q)] = e
        /\ \E r \in {0, 1} : /\ Len(q) = Len(c.queue) + 1 - r
                             /\ \A k \in 1 .. Len(c.queue) - r : q[k] = c.queue[k + r]
    BY <2>1, <2>2, PushMoveIs DEF Bounded
  <2>5. /\ d \in Chars /\ d.queue = q /\ d.serial = c.serial
        /\ d.overtaken = c.overtaken /\ d.x = c.x
    BY <2>1, <2>4, <1>1 DEF Chars
  <2>6. PICK r \in {0, 1} : /\ Len(q) = Len(c.queue) + 1 - r
                            /\ \A k \in 1 .. Len(c.queue) - r : q[k] = c.queue[k + r]
    BY <2>4
  <2>7. Len(c.queue) \in Nat /\ c.serial \in Nat BY <2>1, <2>2 DEF Chars
  <2>8. \A k \in 1 .. Len(c.queue) : c.queue[k].n \in Nat /\ c.queue[k].n < p.n
    BY <2>1, InTheQueue DEF Before
  <2> DEFINE N == Len(c.queue)
  <2>17. Len(q) = N + 1 - r /\ N \in Nat /\ r \in 0 .. 1 BY <2>6, <2>7
  <2> HIDE DEF q, d, N
  <2>9. ASSUME NEW k \in 1 .. Len(q)
        PROVE  \/ k = Len(q) /\ q[k].n = p.n
               \/ /\ k < Len(q) /\ k + r \in 1 .. Len(c.queue)
                  /\ q[k].n = c.queue[k + r].n
    <3>1. CASE k = Len(q) BY <3>1, <2>4
    <3>2. CASE k # Len(q)
      <4>1. k \in 1 .. N - r /\ k + r \in 1 .. N /\ k < Len(q) BY <3>2, <2>17
      <4> QED BY <4>1, <2>6 DEF N
    <3> QED BY <3>1, <3>2
  <2>10. Sorted(q)
    <3> SUFFICES ASSUME NEW i \in 1 .. Len(q), NEW j \in 1 .. Len(q), i < j
                 PROVE  q[i].n < q[j].n
      BY DEF Sorted
    <3>1. i + r \in 1 .. Len(c.queue) /\ q[i].n = c.queue[i + r].n BY <2>9
    <3>2. CASE j = Len(q) BY <3>1, <3>2, <2>8, <2>9
    <3>3. CASE j # Len(q)
      <4>1. j + r \in 1 .. Len(c.queue) /\ q[j].n = c.queue[j + r].n BY <3>3, <2>9
      <4>3. i + r < j + r BY <2>17
      <4>2. c.queue[i + r].n < c.queue[j + r].n BY <2>1, <3>1, <4>1, <4>3 DEF Forward, Sorted
      <4> QED BY <3>1, <4>1, <4>2
    <3> QED BY <3>2, <3>3
  <2>11. Forward(d)
    <3>1. ASSUME ~c.overtaken, NEW k \in 1 .. Len(q) PROVE c.serial <= q[k].n
      BY <3>1, <1>1, <2>1, <2>7, <2>8, <2>9 DEF Forward, Before
    <3> QED BY <3>1, <2>5, <2>10 DEF Forward
  <2>12. ASSUME NEW m \in Nat, m > p.n PROVE Before(d, m)
    <3>1. ASSUME NEW k \in 1 .. Len(q) PROVE q[k].n < m
      <4>1. CASE q[k].n = p.n BY <4>1, <2>12
      <4>3. CASE k + r \in 1 .. Len(c.queue) /\ q[k].n = c.queue[k + r].n
        <5>1. q[k].n \in Nat /\ q[k].n < p.n BY <4>3, <2>8
        <5> QED BY <5>1, <2>12, <1>1
      <4> QED BY <4>1, <4>3, <2>9
    <3>2. c.serial < m BY <2>12, <1>1, <2>1, <2>7 DEF Before
    <3> QED BY <3>1, <3>2, <2>5 DEF Before
  <2>13. Fits(d, p.n) BY <2>4, <2>5, <2>11, <2>12 DEF Fits, Bounded
  <2>14. ASSUME lastAct[p.id] = "walk", LastOf(p.id, 1) PROVE Goal(d) = place[p.id]
    <3>1. p.x = place[p.id] BY <2>14, <1>1 DEF IInv, Arriving
    <3> QED BY <3>1, <2>4, <2>5 DEF Goal
  <2> QED BY <1>1, <2>3, <2>13, <2>14, Takes
<1> QED BY <1>2, <1>3

LEMMA Jumps ==
  ASSUME IInv, wire # <<>>, Head(wire).type = "jump", Jump(Head(wire)),
         wire' = Tail(wire), UNCHANGED <<place, lastAct, sends>>
  PROVE  IInv'
<1> DEFINE p == Head(wire)
           c == chars[p.id]
           b == c.overtaken \/ c.queue # <<>>
           d == [c EXCEPT !.x = p.x, !.left = StepTime, !.serial = p.n, !.overtaken = b]
<1>1. /\ p \in Packets /\ p.n \in Nat /\ p.id \in Ids /\ p = wire[1] /\ 1 \in 1 .. Len(wire)
      /\ Exists(p.id) => Fits(c, p.n) /\ Before(c, p.n)
  BY NextPacket
<1>2. lastAct[p.id] = "walk" => ~LastOf(p.id, 1) BY <1>1 DEF IInv, Arriving
<1>3. CASE ~(Exists(p.id) /\ AtRest(c))
  <2>1. UNCHANGED chars BY <1>3 DEF Jump
  <2> QED BY <2>1, <1>2, Ignored
<1>4. CASE Exists(p.id) /\ AtRest(c)
  <2>1. c \in Chars /\ Bounded(c) /\ Forward(c) /\ Before(c, p.n)
    BY <1>1, <1>4 DEF Fits
  <2>2. chars' = [chars EXCEPT ![p.id] = d]
    BY <1>1, <1>4, <2>1 DEF Jump, Chars, IInv, Shape
  <2>7. b \in BOOLEAN BY <2>1 DEF Chars
  <2>3. /\ d \in Chars /\ d.queue = c.queue /\ d.serial = p.n
        /\ d.overtaken = b
    <3>1. p.x \in Tiles BY <1>1 DEF Packets
    <3>2. d = [c EXCEPT !.x = p.x, !.left = StepTime, !.serial = p.n, !.overtaken = b]
      OBVIOUS
    <3> HIDE DEF b, c, p, d
    <3>3. c \in Chars /\ b \in BOOLEAN /\ p.n \in Nat BY <2>1, <2>7, <1>1
    <3>4. /\ DOMAIN c = {"x", "queue", "left", "serial", "told", "overtaken"}
          /\ c.queue \in Seq(Entries) /\ c.told \in Nat
      BY <3>3 DEF Chars
    <3>6. d.overtaken = b BY <3>2, <3>4, Z3
    <3>7. d.overtaken \in BOOLEAN BY <3>3, <3>6, Zenon
    <3>8. d.x = p.x /\ d.left = StepTime /\ d.told = c.told BY <3>2, <3>4
    <3>9. d.queue = c.queue /\ d.serial = p.n BY <3>2, <3>4
    <3>10. d \in Chars
      <4>1. StepTime \in 0 .. StepTime OBVIOUS
      <4>3. d = [x |-> d.x, queue |-> d.queue, left |-> d.left, serial |-> d.serial,
                 told |-> d.told, overtaken |-> d.overtaken]
        BY <3>2, <3>3 DEF Chars
      <4> QED BY <4>1, <4>3, <3>1, <3>3, <3>4, <3>7, <3>8, <3>9 DEF Chars
    <3> QED BY <3>6, <3>9, <3>10, Zenon
  <2> HIDE DEF d
  <2>4. Forward(d)
    <3>1. ~d.overtaken => c.queue = <<>> BY <2>3, Zenon
    <3>2. c.queue = <<>> => Len(c.queue) = 0 OBVIOUS
    <3> QED BY <3>1, <3>2, <2>1, <2>3 DEF Forward
  <2>5. ASSUME NEW m \in Nat, m > p.n PROVE Before(d, m)
    <3>1. Before(c, m) BY <2>5, <1>1, <1>4 DEF Fits
    <3> QED BY <3>1, <2>3, <2>5 DEF Before
  <2>6. Fits(d, p.n) BY <2>1, <2>3, <2>4, <2>5 DEF Fits, Bounded
  <2> QED BY <1>1, <1>2, <2>2, <2>6, Takes
<1> QED BY <1>3, <1>4

LEMMA Handles ==
  ASSUME IInv, Handle
  PROVE  IInv'
<1> DEFINE p == Head(wire)
<1>1. wire # <<>> /\ wire' = Tail(wire) /\ UNCHANGED <<place, lastAct, sends>>
  BY DEF Handle
<1>2. p.id \in Ids /\ p.n \in Nat BY <1>1, NextPacket
<1>3. CASE p.type = "connect" /\ Connect(p)
  <2>1. PICK own \in Tiles : chars' = [chars EXCEPT ![p.id] = NewChar(own)]
    BY <1>3 DEF Connect
  <2>2. Fits(NewChar(own), p.n) /\ NewChar(own).told = 0
    BY <1>2, NewCharIs DEF Fits
  <2> QED BY <1>1, <1>2, <2>1, <2>2, Takes
<1>4. CASE p.type = "disconnect" /\ Disconnect(p)
  BY <1>1, <1>2, <1>4, Takes DEF Disconnect
<1>5. CASE p.type = "position" /\ Position(p) BY <1>1, <1>5, Positions
<1>6. CASE p.type = "jump" /\ Jump(p) BY <1>1, <1>6, Jumps
<1> QED BY <1>3, <1>4, <1>5, <1>6 DEF Handle

LEMMA Clears ==
  ASSUME IInv, ClearCharacters
  PROVE  IInv'
<1>1. /\ chars' \in [Ids -> Chars \cup {NoChar}] /\ \A id \in Ids : ~Exists(id)'
      /\ UNCHANGED <<place, lastAct, wire, sends>>
  BY DEF ClearCharacters, Exists
<1>2. Shape' BY <1>1 DEF IInv, Shape
<1>3. Ordered' BY <1>1 DEF IInv, Ordered
<1>4. Arriving' BY <1>1 DEF IInv, Arriving, Told, LastOf
<1> QED BY <1>2, <1>3, <1>4 DEF IInv

(* What an update of a character keeps.                                    *)
LEMMA UpdateIs ==
  ASSUME NEW c \in Chars, Bounded(c), Forward(c)
  PROVE  /\ Update(c) \in Chars /\ Bounded(Update(c)) /\ Forward(Update(c))
         /\ Update(c).told = c.told /\ Update(c).overtaken = c.overtaken
         /\ Goal(Update(c)) = Goal(c)
         /\ \A n \in Nat : Before(c, n) => Before(Update(c), n)
         /\ ~c.overtaken => Update(c).serial >= c.serial
<1> DEFINE m == Moved(c)
           u == TakeMove(m)
<1>1. /\ m \in Chars /\ m.queue = c.queue /\ m.x = c.x /\ m.serial = c.serial
      /\ m.told = c.told
  <2> DEFINE l == IF c.left > 0 THEN c.left - 1 ELSE 0
  <2>1. c.left \in 0 .. StepTime BY DEF Chars
  <2>2. l \in 0 .. StepTime BY <2>1
  <2>3. m = [c EXCEPT !.left = l] BY DEF Moved, Chars
  <2> HIDE DEF l, m
  <2>4. m \in Chars BY <2>2, <2>3 DEF Chars
  <2> QED BY <2>3, <2>4 DEF Chars
<1>2. m.overtaken = c.overtaken BY DEF Moved, Chars
<1>3. /\ c.queue \in Seq(Entries) /\ Len(c.queue) \in Nat /\ c.serial \in Nat
      /\ m.serial >= c.serial
  BY <1>1 DEF Chars
<1> HIDE DEF m
<1>4. CASE ~(AtRest(m) /\ m.queue # <<>>)
  <2>1. Update(c) = m BY <1>4 DEF Update, m
  <2> QED BY <2>1, <1>1, <1>2, <1>3 DEF Bounded, Forward, Before, Goal
<1>5. CASE AtRest(m) /\ m.queue # <<>>
  <2> DEFINE q == c.queue
  <2>1. Update(c) = u BY <1>5 DEF Update, m
  <2>2. /\ Head(q) = q[1] /\ Tail(q) \in Seq(Entries) /\ Len(Tail(q)) = Len(q) - 1
        /\ \A k \in 1 .. Len(q) - 1 : Tail(q)[k] = q[k + 1] /\ k + 1 \in 1 .. Len(q)
        /\ 1 \in 1 .. Len(q) /\ Len(q) \in 1 .. Len(q)
    BY <1>1, <1>3, <1>5
  <2>3. q[1] \in Entries /\ \A k \in 1 .. Len(q) : q[k].n \in Nat BY <2>2, InTheQueue
  <2>4. /\ u \in Chars /\ u.queue = Tail(q) /\ u.x = q[1].x /\ u.serial = q[1].n
        /\ u.told = c.told
    <3>1. q[1].x \in Tiles /\ q[1].n \in Nat BY <2>3 DEF Entries
    <3>2. m.queue = q /\ Head(q) = q[1] BY <1>1, <2>2
    <3> HIDE DEF q
    <3>3. \E l \in {0, StepTime} :
            u = [m EXCEPT !.x = q[1].x, !.left = l, !.queue = Tail(q), !.serial = q[1].n]
      BY <3>2 DEF TakeMove
    <3>4. \A l \in {0, StepTime} : l \in 0 .. StepTime OBVIOUS
    <3> QED BY <1>1, <2>2, <3>1, <3>3, <3>4 DEF Chars
  <2>5. u.overtaken = c.overtaken BY <1>1, <1>2 DEF TakeMove, Chars
  <2> HIDE DEF q, u
  <2>6. Bounded(u) BY <2>2, <2>4 DEF Bounded, q
  <2>7. \A k \in 1 .. Len(q) - 1 : q[1].n < Tail(q)[k].n
    BY <2>2 DEF Forward, Sorted, q
  <2>8. Sorted(Tail(q))
    <3> SUFFICES ASSUME NEW i \in 1 .. Len(q) - 1, NEW j \in 1 .. Len(q) - 1, i < j
                 PROVE  Tail(q)[i].n < Tail(q)[j].n
      BY <2>2 DEF Sorted
    <3>1. i + 1 \in 1 .. Len(q) /\ j + 1 \in 1 .. Len(q) /\ i + 1 < j + 1 BY <2>2
    <3>2. q[i + 1].n < q[j + 1].n BY <3>1 DEF Forward, Sorted, q
    <3> QED BY <3>2, <2>2
  <2>9. Forward(u)
    <3>1. \A k \in 1 .. Len(q) - 1 : q[1].n <= Tail(q)[k].n
      <4> SUFFICES ASSUME NEW k \in 1 .. Len(q) - 1 PROVE q[1].n <= Tail(q)[k].n OBVIOUS
      <4>1. Tail(q)[k] = q[k + 1] /\ k + 1 \in 1 .. Len(q) BY <2>2
      <4>2. Tail(q)[k].n \in Nat /\ q[1].n \in Nat BY <4>1, <2>2, <2>3
      <4> QED BY <4>2, <2>7
    <3> QED BY <3>1, <2>2, <2>4, <2>8 DEF Forward
  <2>10. Goal(u) = Goal(c)
    <3>1. CASE Len(q) = 1
      <4>2. Tail(q) \in Seq(Entries) /\ Len(Tail(q)) = 0 BY <3>1, <2>2
      <4>1. Tail(q) = <<>> BY ONLY <4>2, EmptySeq
      <4> QED BY <4>1, <3>1, <1>1, <1>5, <2>4 DEF Goal, q
    <3>2. CASE Len(q) # 1
      <4>3. Len(q) \in Nat /\ Len(q) # 1 /\ Len(q) >= 1 BY <3>2, <1>3, <2>2 DEF q
      <4>4. Tail(q) # <<>>
        <5>1. Len(Tail(q)) # 0 BY <4>3, <2>2
        <5>2. Len(<<>>) = 0 OBVIOUS
        <5> QED BY <5>1, <5>2, Zenon
      <4>1. Len(q) - 1 \in 1 .. Len(q) - 1 /\ Tail(q) # <<>> /\ Len(q) - 1 + 1 = Len(q)
        BY <4>3, <4>4
      <4>2. Tail(q)[Len(q) - 1] = q[Len(q)] BY <4>1, <2>2
      <4> QED BY <4>1, <4>2, <1>1, <1>5, <2>2, <2>4 DEF Goal, q
    <3> QED BY <3>1, <3>2
  <2>11. ASSUME NEW n \in Nat, Before(c, n) PROVE Before(u, n)
    <3>1. \A k \in 1 .. Len(q) : q[k].n < n BY <2>11 DEF Before, q
    <3> QED BY <3>1, <2>2, <2>4 DEF Before
  <2>12. ~c.overtaken => u.serial >= c.serial
    <3>1. ~c.overtaken => c.serial <= q[1].n BY <2>2 DEF Forward, q
    <3>2. q[1].n \in Nat BY <2>2, <2>3
    <3> QED BY <3>1, <3>2, <1>3, <2>4
  <2> QED BY <2>1, <2>4, <2>5, <2>6, <2>9, <2>10, <2>11, <2>12
<1> QED BY <1>4, <1>5

LEMMA Updates ==
  ASSUME IInv, UpdateCharacters
  PROVE  IInv'
<1>1. UNCHANGED <<place, lastAct, wire, sends>> BY DEF UpdateCharacters
<1>2. ASSUME NEW id \in Ids
      PROVE  \/ ~Exists(id) /\ chars'[id] = NoChar
             \/ /\ Exists(id) /\ chars'[id] = Update(chars[id])
                /\ chars[id] \in Chars /\ Bounded(chars[id]) /\ Forward(chars[id])
  BY DEF UpdateCharacters, IInv, Shape, Ordered, Exists
<1>3. ASSUME NEW id \in Ids, Exists(id)'
      PROVE  /\ Exists(id) /\ chars'[id] = Update(chars[id])
             /\ chars'[id] \in Chars /\ Bounded(chars'[id]) /\ Forward(chars'[id])
             /\ chars'[id].told = chars[id].told /\ Goal(chars'[id]) = Goal(chars[id])
             /\ \A n \in Nat : Before(chars[id], n) => Before(chars'[id], n)
  BY <1>2, <1>3, UpdateIs DEF Exists
<1>4. Shape'
  <2>1. \A id \in Ids : chars'[id] \in Chars \cup {NoChar} BY <1>3 DEF Exists
  <2>2. chars' \in [Ids -> Chars \cup {NoChar}] BY <2>1 DEF UpdateCharacters
  <2> QED BY <1>1, <1>3, <2>2 DEF IInv, Shape
<1>5. Ordered'
  <2>1. \A i \in 1 .. Len(wire) : wire[i].n \in Nat BY OnTheWire DEF IInv
  <2>2. sends + 1 \in Nat BY DEF IInv, Shape
  <2>3. ASSUME NEW id \in Ids, Exists(id)'
        PROVE  /\ Forward(chars'[id]) /\ Before(chars'[id], sends + 1)
               /\ \A i \in 1 .. Len(wire) : Before(chars'[id], wire[i].n)
    BY <1>3, <2>1, <2>2, <2>3 DEF IInv, Ordered
  <2> QED BY <1>1, <2>3 DEF IInv, Ordered
<1>6. Arriving' BY <1>1, <1>3 DEF IInv, Arriving, Told, LastOf
<1> QED BY <1>4, <1>5, <1>6 DEF IInv

LEMMA Inductive == IInv /\ [Next]_vars => IInv'
<1> SUFFICES ASSUME IInv, [Next]_vars PROVE IInv' OBVIOUS
<1>1. sends \in Nat /\ place \in [Ids -> Tiles] /\ lastAct \in [Ids -> Acts]
  BY DEF IInv, Shape
<1>2. ASSUME NEW id \in Ids, NEW x \in Tiles, NEW how \in {"walk", "jump"},
             NEW type \in {"position", "jump"}, how = "walk" => type = "position",
             Act(id, how, x), Send(type, id, x)
      PROVE  IInv'
  <2> DEFINE p == [type |-> type, id |-> id, x |-> x, n |-> sends + 1]
  <2>1. p \in Packets BY <1>1 DEF Packets
  <2>2. /\ place' = [place EXCEPT ![id] = x] /\ lastAct' = [lastAct EXCEPT ![id] = how]
        /\ sends < MaxSends /\ sends' = sends + 1 /\ UNCHANGED chars
        /\ wire' = Append(wire, p)
    BY <1>2 DEF Act, Send
  <2>3. /\ place' \in [Ids -> Tiles] /\ lastAct' \in [Ids -> Acts]
        /\ place'[id] = x /\ lastAct'[id] = how
        /\ \A o \in Ids \ {id} : place'[o] = place[o] /\ lastAct'[o] = lastAct[o]
    BY <1>1, <2>2 DEF Acts
  <2>4. p.id = id /\ p.n = sends + 1 /\ p.type = type /\ p.x = x OBVIOUS
  <2> HIDE DEF p
  <2> QED BY <1>2, <2>1, <2>2, <2>3, <2>4, Sends
<1>3. ASSUME NEW id \in Ids, Walk(id) PROVE IInv' BY <1>2, <1>3 DEF Walk
<1>4. ASSUME NEW id \in Ids, JumpTo(id) PROVE IInv' BY <1>2, <1>4 DEF JumpTo
<1>5. ASSUME NEW id \in Ids, MoveUnsent(id) PROVE IInv' BY <1>5, MovesUnsent
<1>6. ASSUME NEW id \in Ids, Report(id) PROVE IInv'
  <2>1. PICK type \in {"connect", "disconnect"} : Send(type, id, 0)
    BY <1>6 DEF Report
  <2> DEFINE p == [type |-> type, id |-> id, x |-> 0, n |-> sends + 1]
  <2>2. /\ sends < MaxSends /\ sends' = sends + 1
        /\ UNCHANGED <<place, lastAct, chars>> /\ wire' = Append(wire, p)
    BY <1>6, <2>1 DEF Report, Send
  <2>3. p \in Packets BY <1>1 DEF Packets, Tiles
  <2>4. p.id = id /\ p.n = sends + 1 /\ p.type \in {"connect", "disconnect"} OBVIOUS
  <2> HIDE DEF p
  <2> QED BY <1>1, <2>2, <2>3, <2>4, Sends
<1>7. CASE UNCHANGED vars
  BY <1>7 DEF vars, IInv, Shape, Ordered, Arriving, Exists, Told, LastOf
<1> QED BY <1>3, <1>4, <1>5, <1>6, <1>7, Handles, Clears, Updates DEF Next

(* The invariant of the characters, their queues and the wire.             *)
THEOREM SpecIInv == Spec => []IInv
BY Initially, Inductive, PTL DEF Spec

(* Characters stand on tiles of the map, hold no more positions than       *)
(* MOVE_QUEUE_CAPACITY, and end where their player has walked to.          *)
THEOREM CharactersFaithful == Spec => []Faithful
<1>1. IInv => TypeOK BY DEF IInv, Shape, TypeOK, Chars, Bounded, Exists
<1>2. IInv => Converges
  <2> SUFFICES ASSUME IInv, NEW id \in Ids, Settled(id), chars[id].told # 0,
                      lastAct[id] = "walk"
               PROVE  chars[id].x = place[id]
    BY DEF Converges
  <2>1. Told(id) /\ Exists(id) /\ chars[id].queue = <<>> BY DEF Settled, Told
  <2> QED BY <2>1 DEF IInv, Arriving, Goal
<1> QED BY <1>1, <1>2, SpecIInv, PTL DEF Faithful

(* No character goes back to a position its player left before the one it  *)
(* shows, unless a jump overtook the queue (MultiplayerCharacter::Update,  *)
(* handleJumpPacket).                                                      *)
THEOREM NeverGoBack == Spec => InOrder
<1> DEFINE A == \A id \in Ids :
                  Exists(id) /\ Exists(id)' /\ ~chars[id].overtaken
                    => \/ chars'[id].serial >= chars[id].serial
                       \/ chars'[id] \in {NewChar(x) : x \in Tiles}
<1>1. IInv /\ [Next]_vars => [A]_vars
  <2> SUFFICES ASSUME IInv, Next, NEW id \in Ids, Exists(id), Exists(id)',
                      ~chars[id].overtaken
               PROVE  \/ chars'[id].serial >= chars[id].serial
                      \/ chars'[id] \in {NewChar(x) : x \in Tiles}
    BY DEF vars
  <2>1. chars[id] \in Chars /\ Bounded(chars[id]) /\ Forward(chars[id])
    BY DEF IInv, Shape, Ordered, Exists
  <2>2. chars[id].serial \in Nat BY <2>1 DEF Chars
  <2>3. CASE chars'[id] = chars[id] BY <2>2, <2>3
  <2>4. CASE Handle
    <3> DEFINE p == Head(wire)
    <3>1. /\ wire # <<>> /\ p.n \in Nat /\ p.id \in Ids
          /\ Exists(p.id) => Before(chars[p.id], p.n)
      BY <2>4, NextPacket DEF Handle
    <3>2. chars \in [Ids -> Chars \cup {NoChar}] BY DEF IInv, Shape
    <3> HIDE DEF p
    <3>3. CASE p.id # id
      <4>1. chars'[id] = chars[id]
        BY <3>2, <3>3, <2>4 DEF Handle, Connect, Disconnect, Position, Jump, p
      <4> QED BY <4>1, <2>3
    <3>4. CASE p.id = id
      <4>1. CASE Connect(p) BY <4>1, <3>2, <3>4 DEF Connect
      <4>2. CASE Disconnect(p) BY <4>2, <3>2, <3>4 DEF Disconnect, Exists
      <4>3. CASE Position(p)
        <5>1. chars'[id].serial = chars[id].serial
          BY <4>3, <3>2, <3>4, <2>1 DEF Position, Chars
        <5> QED BY <5>1, <2>2
      <4>4. CASE Jump(p)
        <5>1. chars'[id].serial = chars[id].serial \/ chars'[id].serial = p.n
          BY <4>4, <3>2, <3>4, <2>1 DEF Jump, Chars
        <5> QED BY <5>1, <2>2, <3>1, <3>4 DEF Before
      <4> QED BY <4>1, <4>2, <4>3, <4>4, <2>4 DEF Handle, p
    <3> QED BY <3>3, <3>4
  <2>5. CASE UpdateCharacters
    <3>1. chars'[id] = Update(chars[id]) BY <2>5 DEF UpdateCharacters
    <3> QED BY <3>1, <2>1, UpdateIs
  <2>6. CASE ClearCharacters BY <2>6 DEF ClearCharacters, Exists
  <2> QED BY <2>3, <2>4, <2>5, <2>6
        DEF Next, Walk, JumpTo, MoveUnsent, Report, Act
<1> QED BY SpecIInv, <1>1, PTL DEF Spec, InOrder

-----------------------------------------------------------------------------
(* The files *)

States == {"none", "pending", "success", "failure"}

FilesShape ==
  /\ web \in BOOLEAN
  /\ listeners \in [Files -> Seq(Bindings)]
  /\ calls \in [Bindings -> Seq(BOOLEAN)]
  /\ serial \in [Files -> Nat]
  /\ flying \subseteq [f : Files, n : Nat]

(* No request is walked twice, and one that is not walked has passed none  *)
(* of its listeners.                                                       *)
Walks ==
  /\ \A i, j \in 1 .. Len(walk) : walk[i] = walk[j] => i = j
  /\ \A f \in Files : /\ passed[f] <= Len(listeners[f])
                      /\ ~BeingWalked(f) => passed[f] = 0

Waiting ==
  /\ \A f \in Files : \A i \in 1 .. Len(listeners[f]) :
       /\ listeners[f][i] < nextId
       /\ i > passed[f] => calls[listeners[f][i]] = <<>>
  /\ \A f, g \in Files :
       \A i \in 1 .. Len(listeners[f]), j \in 1 .. Len(listeners[g]) :
         listeners[f][i] = listeners[g][j] => f = g /\ i = j
  /\ \A b \in Bindings : b >= nextId => calls[b] = <<>> /\ owner[b] = None

(* The binding a client holds is its own, and the last it made.            *)
Owners ==
  \A c \in Clients : requestId[c] # None =>
    /\ owner[requestId[c]] = c
    /\ \A b \in Bindings : owner[b] = c => b <= requestId[c]

FilesIInv == FilesTypeOK /\ FilesShape /\ Walks /\ Waiting /\ Owners /\ OneShot

-----------------------------------------------------------------------------

USE AsyncFilesAssumption

LEMMA Appended ==
  ASSUME NEW S, NEW s \in Seq(S), NEW e \in S
  PROVE  /\ Append(s, e) \in Seq(S)
         /\ Len(s) \in Nat /\ Len(Append(s, e)) = Len(s) + 1
         /\ Append(s, e)[Len(s) + 1] = e
         /\ \A i \in 1 .. Len(s) : Append(s, e)[i] = s[i]
  OBVIOUS

LEMMA WalkGrows ==
  ASSUME walk \in Seq(Files), NEW f \in Files, ~BeingWalked(f),
         walk' = Append(walk, f),
         \A i, j \in 1 .. Len(walk) : walk[i] = walk[j] => i = j
  PROVE  /\ walk' \in Seq(Files)
         /\ \A i, j \in 1 .. Len(walk') : walk'[i] = walk'[j] => i = j
         /\ \A g \in Files : BeingWalked(g)' <=> BeingWalked(g) \/ g = f
<1>1. /\ walk' \in Seq(Files) /\ Len(walk) \in Nat /\ Len(walk') = Len(walk) + 1
      /\ walk'[Len(walk) + 1] = f
      /\ \A i \in 1 .. Len(walk) : walk'[i] = walk[i]
  BY Appended
<1>2. \A i \in 1 .. Len(walk) : walk[i] # f BY DEF BeingWalked, ToSet
<1>3. ASSUME NEW i \in 1 .. Len(walk'), NEW j \in 1 .. Len(walk'), walk'[i] = walk'[j]
      PROVE  i = j
  <2>1. CASE i \in 1 .. Len(walk) /\ j \in 1 .. Len(walk) BY <1>1, <1>3, <2>1
  <2>2. CASE i = Len(walk) + 1 \/ j = Len(walk) + 1 BY <1>1, <1>2, <1>3, <2>2
  <2> QED BY <1>1, <1>3, <2>1, <2>2
<1>4. ASSUME NEW g \in Files PROVE BeingWalked(g)' <=> BeingWalked(g) \/ g = f
  <2>1. ASSUME BeingWalked(g) \/ g = f PROVE \E i \in 1 .. Len(walk') : walk'[i] = g
    <3>1. CASE g = f BY <1>1, <3>1
    <3>2. CASE BeingWalked(g)
      <4>1. PICK i \in 1 .. Len(walk) : walk[i] = g BY <3>2 DEF BeingWalked, ToSet
      <4> QED BY <1>1, <4>1
    <3> QED BY <2>1, <3>1, <3>2
  <2>2. ASSUME NEW i \in 1 .. Len(walk'), walk'[i] = g PROVE BeingWalked(g) \/ g = f
    <3>1. CASE i = Len(walk) + 1 BY <1>1, <2>2, <3>1
    <3>2. CASE i \in 1 .. Len(walk) BY <1>1, <2>2, <3>2 DEF BeingWalked, ToSet
    <3> QED BY <1>1, <2>2, <3>1, <3>2
  <2>3. BeingWalked(g)' <=> \E i \in 1 .. Len(walk') : walk'[i] = g
    BY <1>1 DEF BeingWalked, ToSet
  <2> QED BY <2>1, <2>2, <2>3
<1> QED BY <1>1, <1>3, <1>4

LEMMA WalkShrinks ==
  ASSUME walk \in Seq(Files), walk # <<>>, walk' = Front(walk),
         \A i, j \in 1 .. Len(walk) : walk[i] = walk[j] => i = j
  PROVE  /\ Last(walk) \in Files /\ BeingWalked(Last(walk))
         /\ walk' \in Seq(Files)
         /\ \A i, j \in 1 .. Len(walk') : walk'[i] = walk'[j] => i = j
         /\ \A g \in Files : BeingWalked(g)' <=> BeingWalked(g) /\ g # Last(walk)
<1>1. /\ Len(walk) \in Nat /\ Len(walk) > 0
      /\ Last(walk) = walk[Len(walk)] /\ Last(walk) \in Files
  BY DEF Last
<1>2. /\ walk' \in Seq(Files) /\ Len(walk') = Len(walk) - 1
      /\ \A i \in 1 .. Len(walk) - 1 : walk'[i] = walk[i]
  <2> DEFINE n == Len(walk) - 1
  <2>1. n \in Nat /\ n <= Len(walk) /\ walk' = SubSeq(walk, 1, n) BY <1>1 DEF Front
  <2>2. \A i \in 1 .. n : walk[i] \in Files BY <1>1, <2>1
  <2> HIDE DEF n
  <2>3. walk' = [i \in 1 .. n |-> walk[i]] BY <2>1
  <2>4. walk' \in Seq(Files) BY <2>1, <2>2, <2>3
  <2>5. Len(walk') = n BY <2>1, <2>3
  <2>6. \A i \in 1 .. n : walk'[i] = walk[i] BY <2>3
  <2> QED BY <2>4, <2>5, <2>6 DEF n
<1>3. \A g : BeingWalked(g) <=> \E i \in 1 .. Len(walk) : walk[i] = g
  BY DEF BeingWalked, ToSet
<1>4. \A g : BeingWalked(g)' <=> \E i \in 1 .. Len(walk') : walk'[i] = g
  BY <1>2 DEF BeingWalked, ToSet
<1>5. ASSUME NEW g \in Files PROVE BeingWalked(g)' <=> BeingWalked(g) /\ g # Last(walk)
  <2>1. ASSUME NEW i \in 1 .. Len(walk'), walk'[i] = g
        PROVE  BeingWalked(g) /\ g # Last(walk)
    BY <1>1, <1>2, <1>3, <2>1
  <2>2. ASSUME NEW i \in 1 .. Len(walk), walk[i] = g, g # Last(walk)
        PROVE  \E j \in 1 .. Len(walk') : walk'[j] = g
    BY <1>1, <1>2, <2>2
  <2> QED BY <1>3, <1>4, <2>1, <2>2
<1>6. \A i, j \in 1 .. Len(walk') : walk'[i] = walk'[j] => i = j BY <1>1, <1>2
<1> QED BY <1>1, <1>2, <1>3, <1>5, <1>6

(* A result is a result, and one that is there already stays.              *)
LEMMA ResultKept ==
  ASSUME FilesTypeOK, NEW f \in Files, NEW success \in BOOLEAN
  PROVE  /\ Result(f, success) \in BOOLEAN
         /\ Done(Result(f, success)) \in {"success", "failure"}
         /\ IsReady(f) => Done(Result(f, success)) = state[f]
BY DEF Result, Done, IsReady, FilesTypeOK

LEMMA FilesInitially == FilesInit => FilesIInv
<1> SUFFICES ASSUME FilesInit PROVE FilesIInv OBVIOUS
<1>1. FilesTypeOK
  <2>1. 1 \in 1 .. MaxBinds + 1 BY SMT
  <2>2. requestId \in [Clients -> Bindings \cup {None}] BY DEF FilesInit
  <2>3. state \in [Files -> States] /\ \A f \in Files : listeners[f] = <<>>
    BY DEF FilesInit, States
  <2>4. owner \in [Bindings -> Clients \cup {None}] BY DEF FilesInit
  <2>5. walk \in Seq(Files) /\ passed \in [Files -> Nat] /\ inHandler \in BOOLEAN
    <3>1. walk \in Seq(Files) BY DEF FilesInit
    <3>2. passed \in [Files -> Nat] BY DEF FilesInit
    <3>3. inHandler \in BOOLEAN BY DEF FilesInit
    <3> QED BY <3>1, <3>2, <3>3
  <2> QED BY <2>1, <2>2, <2>3, <2>4, <2>5 DEF FilesInit, FilesTypeOK, States
<1>2. FilesShape BY DEF FilesInit, FilesShape
<1>3. Walks BY DEF FilesInit, Walks
<1>4. Waiting BY DEF FilesInit, Waiting
<1>5. Owners BY DEF FilesInit, Owners
<1>6. OneShot BY DEF FilesInit, OneShot
<1> QED BY <1>1, <1>2, <1>3, <1>4, <1>5, <1>6 DEF FilesIInv

(* A request that is not being walked may finish: its walk begins.         *)
LEMMA Finishes ==
  ASSUME FilesIInv, NEW f \in Files, NEW ls \in Seq(Bindings),
         NEW success \in BOOLEAN, DownloadDone(f, ls, success),
         ~BeingWalked(f)
  PROVE  /\ state' \in [Files -> States]
         /\ listeners' = [listeners EXCEPT ![f] = ls]
         /\ walk' \in Seq(Files) /\ passed' \in [Files -> Nat] /\ inHandler' \in BOOLEAN
         /\ \A g \in Files :
              listeners'[g] # <<>> => state'[g] = "pending" \/ BeingWalked(g)'
         /\ Walks' /\ UNCHANGED passed
<1> USE DEF FilesIInv
<1>1. /\ state' = [state EXCEPT ![f] = Done(Result(f, success))]
      /\ listeners' = [listeners EXCEPT ![f] = ls]
      /\ walk' = Append(walk, f) /\ inHandler' = FALSE /\ UNCHANGED passed
  BY DEF DownloadDone
<1>2. Done(Result(f, success)) \in States BY ResultKept DEF States
<1>3. state' \in [Files -> States] BY <1>1, <1>2 DEF FilesTypeOK, States
<1>4. /\ walk' \in Seq(Files)
      /\ \A i, j \in 1 .. Len(walk') : walk'[i] = walk'[j] => i = j
      /\ \A g \in Files : BeingWalked(g)' <=> BeingWalked(g) \/ g = f
  BY <1>1, WalkGrows DEF FilesTypeOK, Walks
<1>5. ASSUME NEW g \in Files, listeners'[g] # <<>>
      PROVE  state'[g] = "pending" \/ BeingWalked(g)'
  BY <1>1, <1>4, <1>5 DEF FilesTypeOK, FilesShape
<1>6. ASSUME NEW g \in Files
      PROVE  /\ passed'[g] <= Len(listeners'[g])
             /\ ~BeingWalked(g)' => passed'[g] = 0
  <2>1. CASE g = f
    <3>1. listeners'[f] = ls /\ Len(ls) \in Nat /\ passed'[f] = 0
      BY <1>1 DEF FilesShape, Walks
    <3> QED BY <2>1, <3>1
  <2>2. CASE g # f
    <3>1. listeners'[g] = listeners[g] /\ passed'[g] = passed[g]
      BY <1>1, <2>2 DEF FilesShape
    <3>2. BeingWalked(g)' <=> BeingWalked(g) BY <1>4, <2>2
    <3> QED BY <3>1, <3>2 DEF Walks
  <2> QED BY <2>1, <2>2
<1>7. passed' \in [Files -> Nat] /\ inHandler' \in BOOLEAN BY <1>1 DEF FilesTypeOK
<1> QED BY <1>1, <1>3, <1>4, <1>5, <1>6, <1>7 DEF Walks

(* A client that asks is given the next number, and waits last.            *)
LEMMA Joined ==
  ASSUME FilesIInv, NEW c \in Clients, NEW f \in Files,
         nextId \in Bindings, nextId' = nextId + 1,
         listeners' = [listeners EXCEPT ![f] = Append(listeners[f], nextId)],
         requestId' = [requestId EXCEPT ![c] = nextId],
         owner' = [owner EXCEPT ![nextId] = c],
         UNCHANGED <<calls, passed>>
  PROVE  /\ nextId' \in 1 .. MaxBinds + 1
         /\ requestId' \in [Clients -> Bindings \cup {None}]
         /\ owner' \in [Bindings -> Clients \cup {None}]
         /\ listeners' \in [Files -> Seq(Bindings)]
         /\ Waiting' /\ Owners' /\ OneShot'
<1> DEFINE ls == Append(listeners[f], nextId)
<1> USE DEF FilesIInv
<1>1. /\ nextId' \in 1 .. MaxBinds + 1 /\ nextId' > nextId
      /\ nextId' \in Int /\ nextId \in Int /\ nextId # None
  BY DEF Bindings, None
<1>2. /\ requestId' \in [Clients -> Bindings \cup {None}]
      /\ owner' \in [Bindings -> Clients \cup {None}]
  BY DEF FilesTypeOK
<1>3. /\ listeners[f] \in Seq(Bindings) /\ passed[f] <= Len(listeners[f])
      /\ passed[f] \in Nat
  BY DEF FilesShape, Walks, FilesTypeOK
<1>4. /\ ls \in Seq(Bindings) /\ Len(listeners[f]) \in Nat
      /\ Len(ls) = Len(listeners[f]) + 1
      /\ ls[Len(listeners[f]) + 1] = nextId
      /\ \A i \in 1 .. Len(listeners[f]) : ls[i] = listeners[f][i]
  BY <1>3, Appended
<1>5. /\ listeners'[f] = ls
      /\ \A g \in Files \ {f} : listeners'[g] = listeners[g]
      /\ listeners' \in [Files -> Seq(Bindings)]
  BY <1>4 DEF FilesShape
<1> HIDE DEF ls
(* Every listener but the new one was there before, at the same place.     *)
<1>6. ASSUME NEW g \in Files, NEW i \in 1 .. Len(listeners'[g])
      PROVE  \/ g = f /\ i = Len(listeners[f]) + 1 /\ listeners'[g][i] = nextId
             \/ /\ i \in 1 .. Len(listeners[g])
                /\ listeners'[g][i] = listeners[g][i]
                /\ listeners[g][i] < nextId /\ listeners[g][i] \in Int
  <2>1. ASSUME i \in 1 .. Len(listeners[g])
        PROVE  listeners[g][i] < nextId /\ listeners[g][i] \in Int
    <3>1. listeners[g] \in Seq(Bindings) BY DEF FilesShape
    <3>2. listeners[g][i] \in Bindings BY <2>1, <3>1
    <3>3. listeners[g][i] < nextId BY <2>1 DEF Waiting
    <3> QED BY <3>2, <3>3 DEF Bindings
  <2>2. CASE g = f BY <1>4, <1>5, <1>6, <2>1, <2>2
  <2>3. CASE g # f BY <1>5, <1>6, <2>1, <2>3
  <2> QED BY <2>2, <2>3
<1>7. Waiting'
  <2>1. ASSUME NEW g \in Files, NEW i \in 1 .. Len(listeners'[g])
        PROVE  /\ listeners'[g][i] < nextId'
               /\ i > passed'[g] => calls'[listeners'[g][i]] = <<>>
    <3>1. calls[nextId] = <<>> BY <1>1 DEF Waiting
    <3>2. passed'[g] = passed[g] /\ calls' = calls OBVIOUS
    <3> QED BY <3>1, <3>2, <1>1, <1>6, <2>1 DEF Waiting
  <2>2. ASSUME NEW g \in Files, NEW h \in Files,
               NEW i \in 1 .. Len(listeners'[g]), NEW j \in 1 .. Len(listeners'[h]),
               listeners'[g][i] = listeners'[h][j]
        PROVE  g = h /\ i = j
    <3>1. CASE listeners'[g][i] = nextId BY <1>1, <1>6, <2>2, <3>1
    <3>2. CASE listeners'[g][i] # nextId
      <4>1. /\ i \in 1 .. Len(listeners[g]) /\ listeners'[g][i] = listeners[g][i]
            /\ j \in 1 .. Len(listeners[h]) /\ listeners'[h][j] = listeners[h][j]
        BY <1>6, <2>2, <3>2
      <4> QED BY <4>1, <2>2 DEF Waiting
    <3> QED BY <3>1, <3>2
  <2>3. ASSUME NEW b \in Bindings, b >= nextId' PROVE calls'[b] = <<>> /\ owner'[b] = None
    <3>1. b >= nextId /\ b # nextId BY <1>1, <2>3 DEF Bindings
    <3> QED BY <3>1 DEF Waiting, FilesTypeOK
  <2> QED BY <2>1, <2>2, <2>3 DEF Waiting
<1>8. Owners'
  <2> SUFFICES ASSUME NEW d \in Clients, requestId'[d] # None
               PROVE  /\ owner'[requestId'[d]] = d
                      /\ \A b \in Bindings : owner'[b] = d => b <= requestId'[d]
    BY DEF Owners
  <2>1. /\ owner'[nextId] = c
        /\ \A b \in Bindings \ {nextId} : owner'[b] = owner[b]
    BY DEF FilesTypeOK
  <2>2. CASE d = c
    <3>1. requestId'[d] = nextId BY <2>2 DEF FilesTypeOK
    <3>2. ASSUME NEW b \in Bindings, owner'[b] = c PROVE b <= nextId
      <4>1. CASE b = nextId BY <4>1, <1>1
      <4>2. CASE b # nextId
        <5>1. owner[b] = c /\ c # None BY <2>1, <3>2, <4>2 DEF None
        <5> QED BY <5>1, <1>1 DEF Waiting, Bindings
      <4> QED BY <4>1, <4>2
    <3> QED BY <2>1, <2>2, <3>1, <3>2
  <2>3. CASE d # c
    <3>1. requestId'[d] = requestId[d] /\ requestId[d] \in Bindings
      BY <2>3 DEF FilesTypeOK
    <3>2. owner[requestId[d]] = d BY <3>1 DEF Owners
    <3>3. requestId[d] # nextId
      <4>1. owner[nextId] = None BY <1>1 DEF Waiting
      <4> QED BY <4>1, <3>2 DEF None
    <3>4. ASSUME NEW b \in Bindings, owner'[b] = d PROVE b <= requestId[d]
      <4>1. b # nextId /\ owner[b] = d BY <2>1, <2>3, <3>4
      <4> QED BY <4>1, <3>1 DEF Owners
    <3> QED BY <2>1, <3>1, <3>2, <3>3, <3>4
  <2> QED BY <2>2, <2>3
<1> QED BY <1>1, <1>2, <1>5, <1>7, <1>8 DEF OneShot

LEMMA Requested ==
  ASSUME FilesIInv, NEW c \in Clients, NEW f \in Files, Request(c, f)
  PROVE  FilesIInv'
<1> DEFINE ls == Append(listeners[f], nextId)
<1> USE DEF FilesIInv
<1>1. /\ nextId \in Bindings /\ nextId' = nextId + 1
      /\ requestId' = [requestId EXCEPT ![c] = nextId]
      /\ owner' = [owner EXCEPT ![nextId] = c]
      /\ UNCHANGED <<web, calls, orphans, strayed>>
      /\ important' \subseteq Files
      /\ ~BeingWalked(f)
  BY DEF Request, FilesTypeOK
<1>2. \/ /\ state' = [state EXCEPT ![f] = "pending"]
         /\ listeners' = [listeners EXCEPT ![f] = ls]
         /\ UNCHANGED <<walk, passed, inHandler>>
      \/ DownloadDone(f, ls, TRUE)
  <2>1. state[f] = "pending" /\ UNCHANGED state => state' = [state EXCEPT ![f] = "pending"]
    BY DEF FilesTypeOK
  <2> QED BY <2>1 DEF Request, walkVars
<1>3. serial' \in [Files -> Nat] /\ flying' \subseteq [f : Files, n : Nat]
  <2>1. CASE StartsDownload(f)
    <3>1. /\ serial' = [serial EXCEPT ![f] = @ + 1]
          /\ flying' = flying \cup {[f |-> f, n |-> serial[f] + 1]}
      BY <2>1 DEF Request
    <3> QED BY <3>1 DEF FilesShape
  <2>2. CASE ~StartsDownload(f) BY <2>2 DEF Request, FilesShape
  <2> QED BY <2>1, <2>2
<1>4. /\ UNCHANGED passed
      /\ listeners' = [listeners EXCEPT ![f] = ls]
  BY <1>2 DEF DownloadDone
<1>5. /\ nextId' \in 1 .. MaxBinds + 1
      /\ requestId' \in [Clients -> Bindings \cup {None}]
      /\ owner' \in [Bindings -> Clients \cup {None}]
      /\ listeners' \in [Files -> Seq(Bindings)]
      /\ Waiting' /\ Owners' /\ OneShot'
  BY <1>1, <1>4, Joined
<1>6. ls \in Seq(Bindings)
  BY <1>1 DEF FilesShape
<1> HIDE DEF ls
<1>7. /\ state' \in [Files -> States]
      /\ walk' \in Seq(Files) /\ passed' \in [Files -> Nat] /\ inHandler' \in BOOLEAN
      /\ \A g \in Files :
           listeners'[g] # <<>> => state'[g] = "pending" \/ BeingWalked(g)'
      /\ Walks'
  <2>1. CASE DownloadDone(f, ls, TRUE) BY <1>1, <1>6, <2>1, Finishes
  <2>2. CASE /\ state' = [state EXCEPT ![f] = "pending"]
             /\ listeners' = [listeners EXCEPT ![f] = ls]
             /\ UNCHANGED <<walk, passed, inHandler>>
    <3>1. state' \in [Files -> States] BY <2>2 DEF FilesTypeOK, States
    <3>2. \A g : BeingWalked(g)' <=> BeingWalked(g) BY <2>2 DEF BeingWalked
    <3>3. \A g \in Files : listeners'[g] = IF g = f THEN ls ELSE listeners[g]
      BY <2>2 DEF FilesShape
    <3>4. \A g \in Files : listeners'[g] # <<>> => state'[g] = "pending" \/ BeingWalked(g)'
      BY <2>2, <3>2, <3>3 DEF FilesTypeOK
    <3>5. passed[f] = 0 /\ Len(ls) \in Nat BY <1>1, <1>6 DEF Walks
    <3>6. Walks' BY <2>2, <3>2, <3>3, <3>5 DEF Walks
    <3>7. walk' \in Seq(Files) /\ passed' \in [Files -> Nat] /\ inHandler' \in BOOLEAN
      BY <2>2 DEF FilesTypeOK
    <3> QED BY <3>1, <3>4, <3>6, <3>7
  <2> QED BY <1>2, <2>1, <2>2
<1> QED BY <1>1, <1>3, <1>5, <1>7 DEF FilesTypeOK, FilesShape, States

(* A download, awaited or not, that finishes a request.                    *)
LEMMA Answers ==
  ASSUME FilesIInv, Idle, NEW f \in Files, NEW success \in BOOLEAN,
         DownloadDone(f, listeners[f], success),
         UNCHANGED <<web, important, requestId, nextId, serial, owner, calls>>,
         flying' \subseteq flying, strayed' \in BOOLEAN
  PROVE  FilesIInv'
<1> USE DEF FilesIInv
<1>1. listeners[f] \in Seq(Bindings) BY DEF FilesShape
<1>2. ~BeingWalked(f) BY DEF Idle, BeingWalked, ToSet
<1>3. /\ state' \in [Files -> States]
      /\ listeners' = [listeners EXCEPT ![f] = listeners[f]]
      /\ walk' \in Seq(Files) /\ passed' \in [Files -> Nat] /\ inHandler' \in BOOLEAN
      /\ \A g \in Files :
           listeners'[g] # <<>> => state'[g] = "pending" \/ BeingWalked(g)'
      /\ Walks' /\ UNCHANGED passed
  BY <1>1, <1>2, Finishes
<1>4. listeners' = listeners BY <1>3 DEF FilesShape
<1>5. UNCHANGED <<listeners, passed, nextId, calls, owner, requestId>> BY <1>3, <1>4
<1>6. Waiting'
  <2>1. Waiting OBVIOUS
  <2> HIDE DEF FilesIInv
  <2>2. /\ listeners' = listeners /\ passed' = passed /\ nextId' = nextId
        /\ calls' = calls /\ owner' = owner
    BY <1>5
  <2> QED BY <2>1, <2>2 DEF Waiting
<1>7. Owners' /\ OneShot' BY <1>5, Zenon DEF Owners, OneShot
<1> QED BY <1>3, <1>4, <1>6, <1>7 DEF FilesTypeOK, FilesShape, States

(* The next listener has not been called; no other listener is it.         *)
LEMMA NextCalled ==
  ASSUME FilesIInv, CallNext
  PROVE  FilesIInv'
<1> DEFINE f == Last(walk)
           n == passed[f] + 1
           b == listeners[f][n]
<1> USE DEF FilesIInv
<1>1. f \in Files /\ BeingWalked(f)
  <2>1. walk \in Seq(Files) /\ walk # <<>> BY DEF CallNext, FilesTypeOK
  <2> QED BY <2>1 DEF Last, BeingWalked, ToSet
<1>2. /\ n <= Len(listeners[f])
      /\ passed' = [passed EXCEPT ![f] = n]
      /\ inHandler' = Called(n, b)
      /\ calls' = IF Called(n, b) THEN [calls EXCEPT ![b] = Append(@, state[f] = "success")]
                                  ELSE calls
      /\ UNCHANGED <<web, state, important, listeners, requestId, nextId, walk, flying,
                     serial, owner, orphans, strayed>>
  BY DEF CallNext
<1>3. passed[f] \in Nat /\ listeners[f] \in Seq(Bindings)
  BY <1>1 DEF FilesTypeOK, FilesShape
<1>4. n \in 1 .. Len(listeners[f]) /\ n > passed[f] BY <1>2, <1>3
<1>5. b \in Bindings /\ calls[b] = <<>> /\ b < nextId
  BY <1>1, <1>3, <1>4 DEF Waiting
<1>6. \A g : BeingWalked(g)' <=> BeingWalked(g) BY <1>2 DEF BeingWalked
<1> HIDE DEF f, n, b
<1>7. /\ calls' \in [Bindings -> Seq(BOOLEAN)]
      /\ \A d \in Bindings : d # b => calls'[d] = calls[d]
      /\ Len(calls'[b]) <= 1
  <2>1. CASE Called(n, b)
    <3>1. calls' = [calls EXCEPT ![b] = Append(<<>>, state[f] = "success")]
      BY <1>2, <1>5, <2>1
    <3>2. (state[f] = "success") \in BOOLEAN OBVIOUS
    <3>3. /\ Append(<<>>, state[f] = "success") \in Seq(BOOLEAN)
          /\ Len(Append(<<>>, state[f] = "success")) = 1
      BY <3>2
    <3> QED BY <1>5, <3>1, <3>3 DEF FilesShape
  <2>2. CASE ~Called(n, b) BY <1>2, <1>5, <2>2 DEF FilesShape, OneShot
  <2> QED BY <2>1, <2>2
<1>8. inHandler' \in BOOLEAN /\ passed' \in [Files -> Nat]
  <2>1. inHandler' \in BOOLEAN BY <1>2 DEF Called
  <2> QED BY <1>2, <1>1, <1>3, <1>4, <2>1 DEF FilesTypeOK
<1>9. FilesTypeOK'
  BY <1>2, <1>6, <1>8 DEF FilesTypeOK
<1>10. FilesShape' BY <1>2, <1>7 DEF FilesShape
<1>11. \A g \in Files : passed'[g] = IF g = f THEN n ELSE passed[g]
  BY <1>2 DEF FilesTypeOK
<1>12. Walks' BY <1>1, <1>2, <1>6, <1>11 DEF Walks
<1>13. Waiting'
  <2>1. ASSUME NEW g \in Files, NEW i \in 1 .. Len(listeners[g]), i > passed'[g]
        PROVE  calls'[listeners[g][i]] = <<>>
    <3>1. listeners[g] \in Seq(Bindings) /\ passed[g] \in Nat
      BY DEF FilesShape, FilesTypeOK
    <3>2. listeners[g][i] \in Bindings /\ i > passed[g]
      BY <2>1, <3>1, <1>3, <1>4, <1>11
    <3>3. listeners[g][i] # b
      <4>1. SUFFICES ASSUME listeners[g][i] = b PROVE FALSE OBVIOUS
      <4>2. g = f /\ i = n BY <1>1, <1>4, <4>1, <2>1 DEF Waiting, b
      <4> QED BY <4>2, <2>1, <1>4, <1>11
    <3> QED BY <3>2, <3>3, <1>7, <2>1 DEF Waiting
  <2>2. ASSUME NEW d \in Bindings, d >= nextId PROVE calls'[d] = <<>> /\ owner[d] = None
    <3>1. d # b BY <2>2, <1>5 DEF Bindings, FilesTypeOK
    <3> QED BY <3>1, <2>2, <1>7 DEF Waiting
  <2> QED BY <1>2, <2>1, <2>2 DEF Waiting
<1>14. Owners' BY <1>2 DEF Owners
<1>15. OneShot'
  <2> SUFFICES ASSUME NEW d \in Bindings PROVE Len(calls'[d]) <= 1 BY DEF OneShot
  <2> QED BY <1>7 DEF OneShot
<1> QED BY <1>9, <1>10, <1>12, <1>13, <1>14, <1>15

LEMMA WalkEnds ==
  ASSUME FilesIInv, CallsEnd
  PROVE  FilesIInv'
<1> DEFINE f == Last(walk)
<1> USE DEF FilesIInv
<1>1. /\ walk # <<>> /\ walk' = Front(walk) /\ inHandler' \in BOOLEAN
      /\ passed' = [passed EXCEPT ![f] = 0]
      /\ listeners' = [listeners EXCEPT ![f] = <<>>]
      /\ UNCHANGED <<web, state, important, requestId, nextId, flying, serial, owner,
                     calls, orphans, strayed>>
  BY DEF CallsEnd, Cleared
<1>2. /\ f \in Files /\ BeingWalked(f) /\ walk' \in Seq(Files)
      /\ \A i, j \in 1 .. Len(walk') : walk'[i] = walk'[j] => i = j
      /\ \A g \in Files : BeingWalked(g)' <=> BeingWalked(g) /\ g # f
  BY <1>1, WalkShrinks DEF FilesTypeOK, Walks
<1> HIDE DEF f
<1>3. /\ \A g \in Files : listeners'[g] = IF g = f THEN <<>> ELSE listeners[g]
      /\ \A g \in Files : passed'[g] = IF g = f THEN 0 ELSE passed[g]
      /\ listeners' \in [Files -> Seq(Bindings)]
      /\ passed' \in [Files -> Nat]
  <2>1. listeners \in [Files -> Seq(Bindings)] /\ <<>> \in Seq(Bindings)
    BY DEF FilesShape
  <2>2. passed \in [Files -> Nat] /\ 0 \in Nat BY DEF FilesTypeOK
  <2>3. listeners' \in [Files -> Seq(Bindings)] BY <1>1, <2>1, Zenon
  <2>4. passed' \in [Files -> Nat] BY <1>1, <2>2, Zenon
  <2>5. \A g \in Files : listeners'[g] = IF g = f THEN <<>> ELSE listeners[g]
    BY <1>1, <2>1, Zenon
  <2>6. \A g \in Files : passed'[g] = IF g = f THEN 0 ELSE passed[g]
    BY <1>1, <2>2, Zenon
  <2> QED BY <2>3, <2>4, <2>5, <2>6
<1>4. FilesTypeOK'
  <2>1. \A g \in Files : listeners'[g] # <<>> => state'[g] = "pending" \/ BeingWalked(g)'
    BY <1>1, <1>2, <1>3 DEF FilesTypeOK
  <2> QED BY <1>1, <1>2, <1>3, <2>1 DEF FilesTypeOK
<1>5. FilesShape' BY <1>1, <1>3 DEF FilesShape
<1>6. Walks'
  <2>1. ASSUME NEW g \in Files
        PROVE  /\ passed'[g] <= Len(listeners'[g])
               /\ ~BeingWalked(g)' => passed'[g] = 0
    <3>1. CASE g = f BY <1>3, <3>1
    <3>2. CASE g # f BY <1>2, <1>3, <3>2 DEF Walks
    <3> QED BY <3>1, <3>2
  <2> QED BY <1>2, <2>1 DEF Walks
<1>7. Waiting'
  <2>1. \A g \in Files : \A i \in 1 .. Len(listeners'[g]) :
          i \in 1 .. Len(listeners[g]) /\ g # f /\ listeners'[g] = listeners[g]
    BY <1>3
  <2>2. ASSUME NEW g \in Files, NEW i \in 1 .. Len(listeners'[g])
        PROVE  /\ listeners'[g][i] < nextId'
               /\ i > passed'[g] => calls'[listeners'[g][i]] = <<>>
    <3>1. g # f /\ listeners'[g] = listeners[g] /\ passed'[g] = passed[g] BY <2>1, <1>3
    <3> QED BY <3>1, <1>1, <2>2 DEF Waiting
  <2>3. ASSUME NEW g \in Files, NEW h \in Files,
               NEW i \in 1 .. Len(listeners'[g]), NEW j \in 1 .. Len(listeners'[h]),
               listeners'[g][i] = listeners'[h][j]
        PROVE  g = h /\ i = j
    BY <2>1, <2>3 DEF Waiting
  <2> QED BY <1>1, <2>2, <2>3 DEF Waiting
<1>8. Owners' /\ OneShot' BY <1>1 DEF Owners, OneShot
<1> QED BY <1>4, <1>5, <1>6, <1>7, <1>8

LEMMA ClearsAll ==
  ASSUME FilesIInv, ClearRequests
  PROVE  FilesIInv'
<1> USE DEF FilesIInv, ClearRequests, walkVars
<1>1. \A f \in Files : listeners'[f] = <<>> OBVIOUS
<1>2. walk = <<>> /\ walk' = <<>> /\ passed' = passed BY DEF Idle
<1>3. \A f \in Files : passed[f] = 0 BY <1>2 DEF Walks, BeingWalked, ToSet
<1>4. FilesTypeOK' BY <1>1, <1>2 DEF FilesTypeOK
<1>5. FilesShape' BY DEF FilesShape
<1>6. Walks' BY <1>1, <1>2, <1>3 DEF Walks
<1>7. Waiting' BY <1>1 DEF Waiting
<1> QED BY <1>4, <1>5, <1>6, <1>7 DEF OneShot, Owners

LEMMA Dropped ==
  ASSUME FilesIInv, NEW c \in Clients, Drop(c)
  PROVE  FilesIInv'
<1> USE DEF FilesIInv
<1>1. /\ requestId' = [requestId EXCEPT ![c] = None]
      /\ UNCHANGED <<web, state, important, listeners, nextId, walk, passed, inHandler,
                     flying, serial, owner, calls, orphans, strayed>>
  BY DEF Drop, walkVars
<1>2. requestId' \in [Clients -> Bindings \cup {None}] BY <1>1 DEF FilesTypeOK
<1>3. Owners'
  <2>1. \A d \in Clients : requestId'[d] # None => requestId'[d] = requestId[d]
    BY <1>1 DEF FilesTypeOK
  <2> QED BY <1>1, <2>1 DEF Owners
<1>4. FilesTypeOK' BY <1>1, <1>2 DEF FilesTypeOK, BeingWalked
<1>5. Walks' BY <1>1 DEF Walks, BeingWalked
<1> QED BY <1>1, <1>3, <1>4, <1>5 DEF FilesShape, Waiting, OneShot

-----------------------------------------------------------------------------

LEMMA FilesInductive == FilesIInv /\ [FilesNext]_filesVars => FilesIInv'
<1> SUFFICES ASSUME FilesIInv, [FilesNext]_filesVars PROVE FilesIInv' OBVIOUS
<1>1. ASSUME NEW c \in Clients, NEW f \in Files, Request(c, f) PROVE FilesIInv'
  BY <1>1, Requested
<1>2. ASSUME NEW c \in Clients, Drop(c) PROVE FilesIInv'
  BY <1>2, Dropped
<1>3. CASE Download
  <2>1. PICK d \in flying, success \in BOOLEAN :
          /\ DownloadDone(d.f, listeners[d.f], success)
          /\ flying' = flying \ {d}
          /\ UNCHANGED <<web, important, requestId, nextId, serial, owner, calls,
                         strayed>>
    BY <1>3 DEF Download
  <2>2. d.f \in Files /\ flying' \subseteq flying /\ strayed' \in BOOLEAN /\ Idle
    BY <1>3, <2>1 DEF FilesIInv, FilesShape, FilesTypeOK, Download
  <2> QED BY <2>1, <2>2, Answers
<1>4. CASE StrayDownload
  <2>1. PICK d \in flying :
          /\ strayed' = TRUE /\ flying' = flying \ {d}
          /\ \/ UNCHANGED <<state, listeners, walkVars>>
             \/ \E f \in Files, success \in BOOLEAN :
                  DownloadDone(f, listeners[f], success)
          /\ UNCHANGED <<web, important, requestId, nextId, serial, owner, calls,
                         orphans>>
    BY <1>4 DEF StrayDownload
  <2>2. flying' \subseteq flying /\ strayed' \in BOOLEAN /\ Idle
    BY <1>4, <2>1 DEF StrayDownload
  <2>3. CASE UNCHANGED <<state, listeners, walkVars>>
    <3>1. UNCHANGED <<state, listeners, walk, passed, inHandler>> BY <2>3 DEF walkVars
    <3> QED BY <2>1, <2>2, <3>1 DEF FilesIInv, FilesTypeOK, FilesShape, Walks, Waiting,
                                    Owners, OneShot, BeingWalked
  <2>4. CASE \E f \in Files, success \in BOOLEAN :
               DownloadDone(f, listeners[f], success)
    BY <2>1, <2>2, <2>4, Answers
  <2> QED BY <2>1, <2>3, <2>4
<1>5. CASE ClearRequests BY <1>5, ClearsAll
<1>6. CASE CallNext BY <1>6, NextCalled
<1>7. CASE CallsEnd BY <1>7, WalkEnds
<1>8. CASE UNCHANGED filesVars
  BY <1>8 DEF filesVars, walkVars, FilesIInv, FilesTypeOK, FilesShape, Walks, Waiting,
              Owners, OneShot, BeingWalked
<1> QED BY <1>1, <1>2, <1>3, <1>4, <1>5, <1>6, <1>7, <1>8 DEF FilesNext

(* The invariant of the requests, their listeners and the handlers called. *)
THEOREM FilesSpecIInv == FilesSpec => []FilesIInv
BY FilesInitially, FilesInductive, PTL DEF FilesSpec

(* "The event handler is only invoked once (one-shot)", and no handler is  *)
(* left behind at a request that is finished (AsyncHandler, CallListeners).*)
THEOREM HandlersCalledOnce == FilesSpec => []CalledOnce
<1>1. FilesIInv => CalledOnce BY DEF FilesIInv, CalledOnce
<1> QED BY FilesSpecIInv, <1>1, PTL

(* A client hears of the last file it asked for and of no older one, also  *)
(* when it asked in a handler that was called before (CallListeners, Bind).*)
THEOREM OnlyNewest == FilesSpec => NewestWins
<1> DEFINE N(b) == /\ owner[b] \in Clients
                   /\ \A b2 \in Bindings : owner[b2] = owner[b] => b2 <= b
           A == \A b \in Bindings : calls'[b] # calls[b] => N(b)
<1>1. ASSUME FilesIInv, CallNext, NEW b \in Bindings, calls'[b] # calls[b]
      PROVE  b \in Held(requestId)
  BY <1>1 DEF CallNext, Called, FilesIInv, FilesShape
<1>2. ASSUME FilesIInv, NEW b \in Bindings, b \in Held(requestId)
      PROVE  N(b)
  <2>1. PICK c \in Clients : requestId[c] = b /\ b # None BY <1>2 DEF Held
  <2> QED BY <1>2, <2>1 DEF FilesIInv, Owners
<1>3. FilesIInv /\ [FilesNext]_filesVars => [A]_filesVars
  <2> SUFFICES ASSUME FilesIInv, FilesNext, NEW b \in Bindings, calls'[b] # calls[b]
               PROVE  N(b)
    BY DEF filesVars
  <2>1. CallNext
    BY DEF FilesNext, Request, Drop, Download, StrayDownload, ClearRequests, CallsEnd
  <2> QED BY <2>1, <1>1, <1>2
<1> QED BY FilesSpecIInv, <1>3, PTL DEF FilesSpec, NewestWins

(* A file that has arrived, or failed to, keeps its result until the       *)
(* requests are cleared, whatever else arrives (DownloadDone).             *)
THEOREM AnswersKept == FilesSpec => SameAnswer
<1> DEFINE A == \A f \in Files : IsReady(f) /\ IsReady(f)' => state'[f] = state[f]
<1>1. ASSUME FilesIInv, NEW g \in Files, NEW ls, NEW success \in BOOLEAN,
             DownloadDone(g, ls, success),
             NEW f \in Files, IsReady(f)
      PROVE  state'[f] = state[f]
  <2>1. state' = [state EXCEPT ![g] = Done(Result(g, success))]
    BY <1>1 DEF DownloadDone
  <2>2. f = g => Done(Result(g, success)) = state[f] BY <1>1, ResultKept DEF FilesIInv
  <2> QED BY <1>1, <2>1, <2>2 DEF FilesIInv, FilesTypeOK
<1>2. FilesIInv /\ [FilesNext]_filesVars => [A]_filesVars
  <2> SUFFICES ASSUME FilesIInv, FilesNext, NEW f \in Files, IsReady(f), IsReady(f)'
               PROVE  state'[f] = state[f]
    BY DEF filesVars
  <2>1. ASSUME NEW c \in Clients, NEW g \in Files, Request(c, g) PROVE state'[f] = state[f]
    <3>1. CASE StartsDownload(g)
      <4>1. f # g BY <3>1 DEF StartsDownload, IsReady
      <4>2. state' = [state EXCEPT ![g] = "pending"] BY <2>1, <3>1 DEF Request
      <4> QED BY <4>1, <4>2 DEF FilesIInv, FilesTypeOK
    <3>2. CASE ~StartsDownload(g)
      <4>1. \/ UNCHANGED state
            \/ DownloadDone(g, Append(listeners[g], nextId), TRUE)
        BY <2>1, <3>2 DEF Request
      <4> QED BY <4>1, <1>1
    <3> QED BY <3>1, <3>2
  <2>2. CASE Download
    <3>1. PICK d \in flying, success \in BOOLEAN :
            DownloadDone(d.f, listeners[d.f], success)
      BY <2>2 DEF Download
    <3>2. d.f \in Files BY DEF FilesIInv, FilesShape
    <3> QED BY <3>1, <3>2, <1>1
  <2>3. CASE StrayDownload
    <3>1. CASE UNCHANGED state BY <3>1
    <3>2. ASSUME NEW g \in Files, NEW success \in BOOLEAN,
                 DownloadDone(g, listeners[g], success)
          PROVE  state'[f] = state[f]
      BY <3>2, <1>1
    <3> QED BY <2>3, <3>1, <3>2 DEF StrayDownload
  <2>4. CASE ClearRequests BY <2>4 DEF ClearRequests, IsReady
  <2> QED BY <2>1, <2>2, <2>3, <2>4 DEF FilesNext, Drop, CallNext, CallsEnd
<1> QED BY FilesSpecIInv, <1>2, PTL DEF FilesSpec, SameAnswer

=============================================================================
