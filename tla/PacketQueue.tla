-------------------------- MODULE PacketQueue ---------------------------
(***************************************************************************)
(* The queue of received packets in multiplayer/connection.cpp.  The       *)
(* WebSocket thread pushes in onMessageAsync, the game thread pops in      *)
(* ConnectionUpdate, and nothing orders their accesses: one action is one  *)
(* access to shared memory.  packetQueueSize is read and written by both.  *)
(*                                                                         *)
(* A build may keep a value in a register where the source names the       *)
(* variable twice: both the optimised and the unoptimised order of the     *)
(* accesses are steps of the model.                                        *)
(***************************************************************************)
EXTENDS Integers, Sequences

CONSTANTS CAP,         \* PACKETS_QUEUE_CAPACITY
          Word,        \* 2^32: packetQueueSize is unsigned
          MaxPackets   \* bound: packets that arrive

ASSUME CapacityAssumption == CAP \in Nat \ {0}
ASSUME WordAssumption == Word \in Nat /\ Word > CAP + 2
ASSUME ArrivalsAssumption == MaxPackets \in Nat

VARIABLES
  slots,     \* receiveBuffer, with the lengths of receiveByteLength
  push,      \* packetQueuePushCursor, used by the WebSocket thread only
  pop,       \* packetQueuePopCursor, used by the game thread only
  size,      \* packetQueueSize
  netPc, netReg,    \* where the WebSocket thread is, and its copy of size
  mainPc, mainReg,  \* where the game thread is, and its copy of size
  cur, first,       \* the slot onMessage works on, and what it read there
  pushed, popped,   \* how many packets were pushed and popped so far
  handled,          \* what onMessage was given, in order
  raced,     \* a store to size ignored a store of the other thread
  overrun    \* a packet was copied over one that was not handled yet

netVars  == <<push, netPc, netReg, pushed>>
mainVars == <<pop, mainPc, mainReg, cur, first, popped, handled>>
ringVars == <<slots, size, raced, overrun, netVars, mainVars>>

Slots == 0 .. CAP - 1

(* Packets are numbered as they arrive.  0 is a slot that was never        *)
(* written; a memcpy in progress leaves Partial, and so does a packet that *)
(* changed while onMessage was reading it.                                 *)
Partial == -1
Contents == -1 .. MaxPackets

NextSlot(s) == (s + 1) % CAP

Clamp(n) == IF n > CAP THEN CAP ELSE n

(* The packet taken last stays in its slot until onMessage returns. *)
Dispatching == mainPc \in {"dispatch", "handling"}
Occupied == pushed - popped + (IF Dispatching THEN 1 ELSE 0)

-----------------------------------------------------------------------------

RingInit == /\ slots = [s \in Slots |-> 0]
        /\ push = 0 /\ pop = 0 /\ size = 0
        /\ netPc = "idle" /\ netReg = 0
        /\ mainPc = "idle" /\ mainReg = 0
        /\ cur = 0 /\ first = 0
        /\ pushed = 0 /\ popped = 0
        /\ handled = <<>>
        /\ raced = FALSE /\ overrun = FALSE

-----------------------------------------------------------------------------
(* onMessageAsync, on the WebSocket thread *)

(* memcpy starts: whatever the slot held is gone. *)
NetCopy ==
  /\ netPc = "idle" /\ pushed < MaxPackets
  /\ slots' = [slots EXCEPT ![push] = Partial]
  /\ overrun' = (overrun \/ Occupied >= CAP)
  /\ netPc' = "copying"
  /\ UNCHANGED <<size, raced, push, netReg, pushed, mainVars>>

NetCopied ==
  /\ netPc = "copying"
  /\ slots' = [slots EXCEPT ![push] = pushed + 1]
  /\ pushed' = pushed + 1
  /\ push' = NextSlot(push)
  /\ netPc' = "load"
  /\ UNCHANGED <<size, raced, overrun, netReg, mainVars>>

(* packetQueueSize++ *)
NetLoad ==
  /\ netPc = "load"
  /\ netReg' = size
  /\ netPc' = "store"
  /\ UNCHANGED <<slots, size, raced, overrun, push, pushed, mainVars>>

(* An optimised build stores the clamped value at once. *)
NetStore ==
  /\ netPc = "store"
  /\ \/ size' = netReg + 1 /\ netPc' = "clampLoad"
     \/ size' = Clamp(netReg + 1) /\ netPc' = "idle"
  /\ raced' = (raced \/ size # netReg)
  /\ UNCHANGED <<slots, overrun, push, netReg, pushed, mainVars>>

(* packetQueueSize = packetQueueSize > CAP ? CAP : packetQueueSize *)
NetClampLoad ==
  /\ netPc = "clampLoad"
  /\ netReg' = size
  /\ netPc' = "clampStore"
  /\ UNCHANGED <<slots, size, raced, overrun, push, pushed, mainVars>>

NetClampStore ==
  /\ netPc = "clampStore"
  /\ size' = Clamp(netReg)
  /\ raced' = (raced \/ size # netReg)
  /\ netPc' = "idle"
  /\ UNCHANGED <<slots, overrun, push, netReg, pushed, mainVars>>

Net == NetCopy \/ NetCopied \/ NetLoad \/ NetStore \/ NetClampLoad \/ NetClampStore

-----------------------------------------------------------------------------
(* ConnectionUpdate, on the game thread, once in every frame *)

MainEnter ==
  /\ mainPc = "idle"
  /\ mainPc' = "test"
  /\ UNCHANGED <<slots, size, raced, overrun, pop, mainReg, cur, first,
                 popped, handled, netVars>>

(* Mutant of MainTest: it waits for packets instead of returning. *)
MainTestWaits ==
  /\ mainPc = "test"
  /\ mainReg' = size
  /\ mainPc' = IF size > 0 THEN "dec" ELSE "test"
  /\ UNCHANGED <<slots, size, raced, overrun, pop, cur, first, popped,
                 handled, netVars>>

(* while (packetQueueSize > 0) *)
MainTest ==
  /\ mainPc = "test"
  /\ mainReg' = size
  /\ mainPc' = IF size > 0 THEN "dec" ELSE "idle"
  /\ UNCHANGED <<slots, size, raced, overrun, pop, cur, first, popped,
                 handled, netVars>>

(* An unoptimised build loads the size again for the decrement. *)
MainReload ==
  /\ mainPc = "dec"
  /\ mainReg' = size
  /\ mainPc' = "store"
  /\ UNCHANGED <<slots, size, raced, overrun, pop, cur, first, popped,
                 handled, netVars>>

(* Mutant of MainStore: the packet stays in the queue. *)
MainStoreForgotten ==
  /\ mainPc \in {"dec", "store"}
  /\ mainPc' = "take"
  /\ UNCHANGED <<size, raced, slots, overrun, pop, mainReg, cur, first,
                 popped, handled, netVars>>

(* packetQueueSize-- *)
MainStore ==
  /\ mainPc \in {"dec", "store"}
  /\ size' = (mainReg + Word - 1) % Word
  /\ raced' = (raced \/ size # mainReg)
  /\ mainPc' = "take"
  /\ UNCHANGED <<slots, overrun, pop, mainReg, cur, first, popped, handled,
                 netVars>>

(* Mutant of MainTake: the cursor is advanced first. *)
MainTakeNext ==
  /\ mainPc = "take"
  /\ cur' = NextSlot(pop)
  /\ pop' = NextSlot(pop)
  /\ popped' = popped + 1
  /\ mainPc' = "dispatch"
  /\ UNCHANGED <<slots, size, raced, overrun, mainReg, first, handled, netVars>>

MainTake ==
  /\ mainPc = "take"
  /\ cur' = pop
  /\ pop' = NextSlot(pop)
  /\ popped' = popped + 1
  /\ mainPc' = "dispatch"
  /\ UNCHANGED <<slots, size, raced, overrun, mainReg, first, handled, netVars>>

(* onMessage reads the slot in place, without copying it first. *)
MainRead ==
  /\ mainPc = "dispatch"
  /\ first' = slots[cur]
  /\ mainPc' = "handling"
  /\ UNCHANGED <<slots, size, raced, overrun, pop, mainReg, cur, popped,
                 handled, netVars>>

MainHandled ==
  /\ mainPc = "handling"
  /\ handled' = Append(handled, IF slots[cur] = first THEN first ELSE Partial)
  /\ mainPc' = "test"
  /\ UNCHANGED <<slots, size, raced, overrun, pop, mainReg, cur, first,
                 popped, netVars>>

ConnectionUpdate == \/ MainTest \/ MainReload \/ MainStore
                    \/ MainTake \/ MainRead \/ MainHandled

RingNext == Net \/ MainEnter \/ ConnectionUpdate

RingSpec == RingInit /\ [][RingNext]_ringVars

(* A frame that entered ConnectionUpdate keeps running.  Nothing is assumed *)
(* of the WebSocket thread, nor that there is a next frame.                 *)
FairRingSpec == RingSpec /\ WF_ringVars(ConnectionUpdate)

-----------------------------------------------------------------------------
(* Properties *)

(* Whatever the threads do to each other, packetQueueSize never wraps below *)
(* 0 nor exceeds the capacity by more than the increment not yet clamped,   *)
(* and both cursors stay inside the buffer.                                 *)
RingTypeOK ==
  /\ slots \in [Slots -> Contents]
  /\ push \in Slots /\ pop \in Slots /\ cur \in Slots
  /\ size \in 0 .. CAP + 1
  /\ netPc \in {"idle", "copying", "load", "store", "clampLoad", "clampStore"}
  /\ mainPc \in {"idle", "test", "dec", "store", "take", "dispatch", "handling"}
  /\ netReg \in 0 .. CAP + 1 /\ mainReg \in 0 .. CAP + 1
  /\ first \in Contents
  /\ pushed \in 0 .. MaxPackets /\ popped \in Nat
  /\ handled \in Seq(Contents)
  /\ raced \in BOOLEAN /\ overrun \in BOOLEAN

(* As long as the threads' updates of the size did not collide and no       *)
(* packet was overrun, the size is the number of packets waiting: none is   *)
(* left behind and none is popped that did not arrive.                      *)
CountExact ==
  (~raced /\ ~overrun /\ netPc \in {"idle", "copying"} /\ mainPc # "take")
    => size = pushed - popped

(* The handler sees every packet once, whole and in the order of arrival,   *)
(* unless the size was raced or more than CAP packets were waiting, the one *)
(* being handled included: onMessage reads the slot after it was released.  *)
PacketsInOrder ==
  (~raced /\ ~overrun) => handled = [i \in 1 .. Len(handled) |-> i]

(* ConnectionUpdate drains the queue and returns, so the frame goes on,     *)
(* even if the size was raced: what arrives is finite here.                 *)
UpdateReturns == mainPc # "idle" ~> mainPc = "idle"
=============================================================================
