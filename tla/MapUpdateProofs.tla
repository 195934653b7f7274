------------------------ MODULE MapUpdateProofs -------------------------
(***************************************************************************)
(* Proofs about MapUpdate, for any maps, events and limits: its types, that*)
(* no suspended event is skipped, that the loop budget is not renewed, and *)
(* that it implements MapFrame.                                            *)
(*                                                                         *)
(* The inductive invariant ties the place the code stands at to the unit   *)
(* MapFrame runs next: Succ(last) is what the code is about to start, or,  *)
(* while a context is active, last is the unit the context names.          *)
(***************************************************************************)
EXTENDS MapUpdate, TLAPS

NextUnit == Frame!Succ(last, map, kind)

(* A context that has yet to be resumed names the unit that was suspended. *)
Unresumed == pc = "suspended" \/ k = 0 \/ resume # 0

CtxOK ==
  /\ actx.at = "common" => /\ actx.id \in 1 .. NumCommon
                           /\ Unresumed => last = <<"common", actx.id>>
  /\ actx.at = "map" => /\ actx.id # 0
                        /\ Unresumed => last = <<"map", actx.id>>
                        /\ switched \/ Frame!Holds(map, actx.id)
  /\ actx.at = "message" => last = <<"message", 0>>
  /\ actx.at = "fg" => last = <<"foreground", 0>>
  /\ actx.at = "none" => actx.id = 0 /\ op = "none"

KindOK ==
  /\ kind = "none" <=> pc = "idle"
  /\ pc = "idle" => actx.at = "none"
  /\ kind = "fg" => /\ pc \in {"foreground", "fgloop", "done", "suspended"}
                    /\ actx.at \in {"none", "fg"}
  /\ kind = "pre" => /\ pc \in {"common", "map", "done", "suspended"}
                     /\ actx.at \in {"none", "common", "map"}

CommonOK ==
  pc = "common" =>
    /\ k <= NumCommon + 1
    /\ k = 0 /\ actx.at = "none" => last = None
    /\ k > 0 => /\ actx.at \in {"none", "common"}
                /\ resume = 0 => last = IF k = 1 THEN None
                                                 ELSE <<"common", k - 1>>
                /\ resume # 0 => /\ resume = actx.id
                                 /\ actx.at = "common"
                                 /\ k <= resume

MapEventsOK ==
  pc = "map" =>
    /\ k <= NumEvents + 1
    /\ actx.at # "common"
    /\ k = 0 /\ actx.at = "none" => NextUnit = Frame!EventAt(map, 1, kind)
    /\ k > 0 => /\ actx.at \in {"none", "map"}
                /\ resume = 0 => NextUnit = Frame!EventAt(map, k, kind)
                /\ resume # 0 =>
                     /\ resume = actx.id
                     /\ actx.at = "map"
                     /\ \A i \in 1 .. NumEvents :
                          EventsOf[map][i] = resume => k <= i

RestOK ==
  /\ pc = "world" => /\ actx.at \in {"none", "message", "fg"}
                     /\ actx.at = "none" => NextUnit = <<"world", 0>>
  /\ pc = "message" => /\ actx.at \in {"none", "message", "fg"}
                       /\ actx.at = "none" => last = <<"world", 0>>
  /\ pc = "timers" => /\ actx.at \in {"none", "fg"}
                      /\ actx.at = "none" => last = <<"message", 0>>
  /\ pc = "foreground" => /\ actx.at \in {"none", "fg"}
                          /\ actx.at = "none" => NextUnit = <<"foreground", 0>>
  /\ pc = "fgloop" => last = <<"foreground", 0>>
  /\ pc = "parallax" => /\ kind = "full"
                        /\ actx.at = "none" /\ last = <<"foreground", 0>>
  /\ pc = "done" => actx.at = "none" /\ NextUnit = Frame!End
  /\ pc = "suspended" => actx.at # "none" /\ op # "none"

OwedOK ==
  /\ owed = IF pc = "suspended" THEN drops + 1 ELSE drops
  /\ pc = "suspended" /\ op = "load" => loads < MaxLoads

IInv == TypeOK /\ CtxOK /\ KindOK /\ CommonOK /\ MapEventsOK /\ RestOK /\ OwedOK

-----------------------------------------------------------------------------

USE MapsAssumption, CommonAssumption, EventsAssumption, LimitAssumption,
    DropsAssumption

(* The events of a map are distinct, so each has one place in the loop. *)
LEMMA IndexOfEvent ==
  ASSUME NEW m \in Maps, NEW i \in 1 .. Len(EventsOf[m])
  PROVE  /\ Frame!Holds(m, EventsOf[m][i])
         /\ Frame!IndexOf(m, EventsOf[m][i]) = i
<1>1. Frame!Holds(m, EventsOf[m][i])
  BY DEF Frame!Holds
<1>2. \E j \in 1 .. Len(EventsOf[m]) : EventsOf[m][j] = EventsOf[m][i]
  OBVIOUS
<1>3. Frame!IndexOf(m, EventsOf[m][i]) \in 1 .. Len(EventsOf[m])
      /\ EventsOf[m][Frame!IndexOf(m, EventsOf[m][i])] = EventsOf[m][i]
  BY <1>2 DEF Frame!IndexOf
<1> QED BY <1>1, <1>3, EventsAssumption

(* The unit that follows each kind of unit. *)
LEMMA SuccUnits ==
  ASSUME NEW m, NEW kd, NEW i
  PROVE  /\ Frame!Succ(<<"common", i>>, m, kd) = Frame!AfterCommon(m, i, kd)
         /\ Frame!Succ(<<"map", i>>, m, kd) = Frame!AfterEvent(m, i, kd)
         /\ Frame!Succ(<<"world", 0>>, m, kd) = <<"message", 0>>
         /\ Frame!Succ(<<"message", 0>>, m, kd) = <<"timers", 0>>
         /\ Frame!Succ(<<"timers", 0>>, m, kd) = <<"foreground", 0>>
         /\ Frame!Succ(<<"foreground", 0>>, m, kd)
              = IF kd = "fg" THEN Frame!End ELSE <<"parallax", 0>>
         /\ Frame!Succ(<<"parallax", 0>>, m, kd) = Frame!End
  BY DEF Frame!Succ

LEMMA SuccNone ==
  ASSUME NEW m, NEW kd
  PROVE  Frame!Succ(None, m, kd) = IF kd = "fg" THEN <<"foreground", 0>>
                                   ELSE Frame!AfterCommon(m, 0, kd)
  BY DEF Frame!Succ, None

LEMMA SuccEvent ==
  ASSUME NEW m \in Maps, NEW kd, NEW i \in 1 .. Len(EventsOf[m])
  PROVE  Frame!Succ(<<"map", EventsOf[m][i]>>, m, kd)
           = Frame!EventAt(m, i + 1, kd)
<1> DEFINE id == EventsOf[m][i]
<1>1. Frame!Succ(<<"map", id>>, m, kd) = Frame!AfterEvent(m, id, kd)
  BY SuccUnits, Zenon
<1>2. Frame!Holds(m, id) /\ Frame!IndexOf(m, id) = i
  BY IndexOfEvent
<1>3. Frame!AfterEvent(m, id, kd) = Frame!EventAt(m, i + 1, kd)
  BY <1>2, Zenon DEF Frame!AfterEvent
<1> QED BY <1>1, <1>3, Zenon

(* The last event of a frame's loop is followed by what AfterEvents says. *)
LEMMA PastEvents ==
  ASSUME NEW m \in Maps, NEW kd, NEW i \in Nat, i > Len(EventsOf[m])
  PROVE  Frame!EventAt(m, i, kd) = Frame!AfterEvents(kd)
  BY DEF Frame!EventAt

(* What the first run of the foreground interpreter can lead to. *)
LEMMA ForegroundOutcome ==
  ASSUME Foreground
  PROVE  /\ pc = "foreground"
         /\ last' = IF actx.at = "fg" THEN last ELSE <<"foreground", 0>>
         /\ \/ pc' = "fgloop" /\ UNCHANGED <<actx, op, owed>>
            \/ \E o \in OpsNow : Suspend("fg", 0, o)
         /\ UNCHANGED <<map, kind, k, resume, loads, switched, drops>>
<1> HIDE DEF OpsNow
<1> QED BY Zenon DEF Foreground

LEMMA CommonOutcome ==
  ASSUME RunCommon
  PROVE  /\ pc = "common" /\ k \in 1 .. NumCommon
         /\ resume' = 0
         /\ last' = IF resume = 0 THEN <<"common", k>> ELSE last
         /\ \/ k' = k + 1 /\ UNCHANGED <<pc, actx, op, owed>>
            \/ \E o \in OpsNow : Suspend("common", k, o)
         /\ UNCHANGED <<map, kind, fgRunning, loads, switched>>
<1> HIDE DEF OpsNow
<1> QED BY Zenon DEF RunCommon

LEMMA MessageOutcome ==
  ASSUME Message
  PROVE  /\ pc = "message"
         /\ \/ pc' = "timers" /\ actx.at \notin {"none", "message"}
               /\ UNCHANGED <<last, actx, op>>
            \/ pc' = "timers" /\ actx' = NoCtx /\ actx.at = "message"
               /\ UNCHANGED last
            \/ pc' = "timers" /\ last' = <<"message", 0>>
               /\ ~Active /\ UNCHANGED <<actx, op>>
            \/ Suspend("message", 0, "wait")
         /\ UNCHANGED <<map, kind>>
  BY Zenon DEF Message

LEMMA MapEventOutcome ==
  ASSUME RunMapEvent
  PROVE  /\ pc = "map" /\ k \in 1 .. NumEvents
         /\ resume' = 0
         /\ last' = IF resume = 0 THEN <<"map", EventsOf[map][k]>> ELSE last
         /\ \/ k' = k + 1 /\ UNCHANGED <<pc, actx, op>>
            \/ \E o \in OpsNow : Suspend("map", EventsOf[map][k], o)
         /\ UNCHANGED <<map, kind, fgRunning, loads, switched>>
<1> HIDE DEF OpsNow
<1>1. \A o \in OpsNow \ {"teleport"} : o \in OpsNow
  OBVIOUS
<1> QED BY <1>1, Zenon DEF RunMapEvent

(* A suspended update has an operation to wait for, and knows who started it. *)
LEMMA SuspendOutcome ==
  ASSUME NEW at \in Contexts \ {"none"}, NEW id,
         \E o \in OpsNow : Suspend(at, id, o)
  PROVE  /\ actx' = Ctx(at, id) /\ actx'.at = at /\ actx'.id = id
         /\ op' # "none" /\ pc' = "suspended" /\ owed' = owed + 1
  BY DEF Suspend, Ctx, OpsNow, Ops

LEMMA InitTypes == ASSUME Init PROVE TypeOK
<1> USE DEF Init, None, NoCtx
<1>1. map \in Maps /\ k \in Nat /\ resume \in Nat
  OBVIOUS
<1>2. kind \in Kinds \cup {"none"} /\ pc \in Pcs /\ op \in Ops \cup {"none"}
  BY DEF Kinds, Pcs, Ops
<1>3. actx \in [at : Contexts, id : Nat]
  BY DEF Contexts
<1>4. last \in Frame!Unit
  BY DEF Frame!Unit
<1>5. loopCount \in 0 .. LoopLimit /\ loads \in 0 .. MaxLoads /\ owed \in 0 .. MaxDrops + 1
  OBVIOUS
<1>6. fgRunning \in BOOLEAN /\ switched \in BOOLEAN
  OBVIOUS
<1> QED BY <1>1, <1>2, <1>3, <1>4, <1>5, <1>6 DEF TypeOK

LEMMA NextTypes == ASSUME TypeOK, OwedOK, Next PROVE TypeOK'
<1> USE DEF TypeOK, None, NoCtx, Ctx, Kinds, Pcs, Ops, OpsNow, Contexts, Suspend,
            Frame!Unit, Frame!Stages, Reenter, StartCount, Quiet, Works, OwedOK
<1>0. ASSUME NEW kd \in Kinds, Begin(kd) PROVE TypeOK'
  <2>1. /\ fgRunning' \in BOOLEAN /\ switched' \in BOOLEAN
        /\ kind' \in Kinds \cup {"none"} /\ pc' \in Pcs
    BY <1>0 DEF Begin
  <2>2. /\ map' \in Maps /\ k' \in Nat /\ resume' \in Nat /\ loads' \in 0 .. MaxLoads
        /\ last' \in Frame!Unit /\ loopCount' \in 0 .. LoopLimit
    BY <1>0 DEF Begin
  <2> QED BY <1>0, <2>1, <2>2 DEF Begin
<1>1. CASE EnterCommon
  BY <1>1 DEF EnterCommon, PushAside, NumEvents
<1>2. CASE SkipCommon
  BY <1>2 DEF SkipCommon, PushAside, NumEvents
<1>3. CASE RunCommon
  BY <1>3 DEF RunCommon, PushAside, NumEvents
<1>4. CASE DoneCommon
  BY <1>4 DEF DoneCommon, PushAside, NumEvents
<1>5. CASE EnterMapEvents
  BY <1>5 DEF EnterMapEvents, PushAside, NumEvents
<1>6. CASE SkipMapEvent
  BY <1>6 DEF SkipMapEvent, PushAside, NumEvents
<1>7. CASE RunMapEvent
  <2> DEFINE ev == EventsOf[map][k]
  <2> ev \in Nat
    BY <1>7 DEF RunMapEvent, NumEvents
  <2>1. fgRunning' \in BOOLEAN /\ switched' \in BOOLEAN
    BY <1>7 DEF RunMapEvent
  <2>2. last' \in Frame!Unit /\ k' \in Nat /\ resume' \in Nat
    BY <1>7 DEF RunMapEvent
  <2>3. CASE /\ loopCount' \in Quiet(StartCount(resume # 0))
             /\ PushAside(NumEvents - 1)
             /\ UNCHANGED <<pc, actx, op>>
    <3>1. pc # "suspended" /\ owed = drops
      BY <1>7 DEF RunMapEvent
    <3>2. drops' \in 0 .. MaxDrops /\ owed' \in 0 .. MaxDrops + 1
      BY <2>3, <3>1 DEF PushAside
    <3>3. loopCount' \in 0 .. LoopLimit
      BY <2>3
    <3> QED BY <1>7, <2>1, <2>2, <2>3, <3>2, <3>3 DEF RunMapEvent
  <2>4. CASE /\ loopCount' \in Works(StartCount(resume # 0))
             /\ \E o \in OpsNow \ {"teleport"} : Suspend("map", ev, o)
             /\ UNCHANGED <<k, drops>>
    <3>0. owed = drops
      BY <1>7 DEF RunMapEvent
    <3>1. loopCount' \in 0 .. LoopLimit
      BY <2>4
    <3>2. owed' = owed + 1
      BY <2>4
    <3>3. drops' = drops
      BY <2>4
    <3>4. actx' \in [at : Contexts, id : Nat] /\ op' \in Ops /\ pc' \in Pcs
      BY <2>4
    <3> QED BY <1>7, <2>1, <2>2, <3>0, <3>1, <3>2, <3>3, <3>4 DEF RunMapEvent
  <2> QED BY <1>7, <2>3, <2>4 DEF RunMapEvent
<1>8. CASE DoneMapEvents
  BY <1>8 DEF DoneMapEvents, PushAside, NumEvents
<1>9. CASE World
  BY <1>9 DEF World, PushAside, NumEvents
<1>10. CASE Message
  BY <1>10 DEF Message, PushAside, NumEvents
<1>11. CASE Timers
  BY <1>11 DEF Timers, PushAside, NumEvents
<1>12. CASE Foreground
  <2> DEFINE c == StartCount(actx.at = "fg")
  <2>0. c \in 0 .. LoopLimit
    OBVIOUS
  <2>1. fgRunning' \in BOOLEAN
    BY <1>12, Zenon DEF Foreground, TypeOK
  <2>2. switched' \in BOOLEAN
    BY <1>12 DEF Foreground
  <2>3. last' \in Frame!Unit
    BY <1>12 DEF Foreground
  <2>4. \/ /\ loopCount' \in Quiet(c) \/ loopCount' = c
           /\ pc' = "fgloop" /\ UNCHANGED <<actx, op, owed>>
        \/ /\ loopCount' \in Works(c)
           /\ \E o \in OpsNow : Suspend("fg", 0, o)
    <3> HIDE DEF c, OpsNow
    <3> QED BY <1>12, Zenon DEF Foreground, c
  <2>5. /\ actx' \in [at : Contexts, id : Nat] /\ loopCount' \in 0 .. LoopLimit
        /\ op' \in Ops \cup {"none"} /\ pc' \in Pcs
        /\ owed' \in 0 .. MaxDrops + 1
    BY <1>12, <2>0, <2>4 DEF Foreground
  <2> QED BY <1>12, <2>1, <2>2, <2>3, <2>5 DEF Foreground
<1>13. CASE RunForeground
  <2>1. /\ fgRunning' \in BOOLEAN /\ switched' \in BOOLEAN
    BY <1>13, Zenon DEF RunForeground
  <2>4. loopCount' \in 0 .. LoopLimit
    BY <1>13 DEF RunForeground
  <2>2. /\ last' \in Frame!Unit
        /\ actx' \in [at : Contexts, id : Nat]
        /\ op' \in Ops \cup {"none"} /\ pc' \in Pcs
    BY <1>13 DEF RunForeground, NumEvents
  <2>3. owed' \in 0 .. MaxDrops + 1 /\ loads' \in 0 .. MaxLoads
    BY <1>13 DEF RunForeground, PushAside
  <2> QED BY <1>13, <2>1, <2>2, <2>3, <2>4 DEF RunForeground
<1>14. CASE DoneForeground
  BY <1>14 DEF DoneForeground, PushAside, NumEvents
<1>15. CASE Parallax
  BY <1>15 DEF Parallax, PushAside, NumEvents
<1>16. CASE Return
  BY <1>16 DEF Return, PushAside, NumEvents
<1>17. CASE PerformWait
  BY <1>17 DEF PerformWait, PushAside, NumEvents
<1>18. CASE PerformTeleport
  BY <1>18 DEF PerformTeleport, PushAside, NumEvents
<1>19. CASE PerformLoad
  <2>1. /\ fgRunning' \in BOOLEAN /\ switched' \in BOOLEAN
        /\ loopCount' \in 0 .. LoopLimit
    BY <1>19 DEF PerformLoad
  <2>2. /\ last' \in Frame!Unit
        /\ actx' \in [at : Contexts, id : Nat]
        /\ op' \in Ops \cup {"none"} /\ pc' \in Pcs
    BY <1>19 DEF PerformLoad, NumEvents
  <2>3. owed' \in 0 .. MaxDrops + 1 /\ loads' \in 0 .. MaxLoads
    BY <1>19 DEF PerformLoad, PushAside
  <2> QED BY <1>19, <2>1, <2>2, <2>3 DEF PerformLoad
<1>20. CASE PerformExit
  BY <1>20 DEF PerformExit, PushAside, NumEvents
<1> QED
  BY <1>0, <1>1, <1>2, <1>3, <1>4, <1>5, <1>6, <1>7, <1>8, <1>9, <1>10, <1>11, <1>12, <1>13, <1>14, <1>15, <1>16, <1>17, <1>18, <1>19, <1>20 DEF Next, UpdateStep, Perform

LEMMA NextCtxOK == ASSUME IInv, Next PROVE CtxOK'
<1> USE DEF IInv, TypeOK, None, NoCtx, Ctx, NumEvents, Suspend, Reenter, Gate,
            Active, OpsNow
<1>0. ASSUME NEW kd \in Kinds, Begin(kd) PROVE CtxOK'
  BY <1>0 DEF Begin, Kinds, CtxOK, Unresumed, KindOK, RestOK, CommonOK, MapEventsOK, Ops
<1>1. CASE EnterCommon
  BY <1>1 DEF EnterCommon, CtxOK, Unresumed, KindOK, RestOK, CommonOK, MapEventsOK, Ops
<1>2. CASE SkipCommon
  BY <1>2 DEF SkipCommon, CtxOK, Unresumed, KindOK, RestOK, CommonOK, MapEventsOK, Ops
<1>3. CASE RunCommon
  BY <1>3 DEF RunCommon, CtxOK, Unresumed, KindOK, RestOK, CommonOK, MapEventsOK, Ops
<1>4. CASE DoneCommon
  BY <1>4 DEF DoneCommon, CtxOK, Unresumed, KindOK, RestOK, CommonOK, MapEventsOK, Ops
<1>5. CASE EnterMapEvents
  BY <1>5 DEF EnterMapEvents, CtxOK, Unresumed, KindOK, RestOK, CommonOK, MapEventsOK, Ops
<1>6. CASE SkipMapEvent
  BY <1>6 DEF SkipMapEvent, CtxOK, Unresumed, KindOK, RestOK, CommonOK, MapEventsOK, Ops
<1>7. CASE RunMapEvent
  <2> HIDE DEF Suspend, OpsNow
  <2> DEFINE ev == EventsOf[map][k]
  <2>0. k \in 1 .. NumEvents /\ UNCHANGED <<map, switched>>
    BY <1>7, MapEventOutcome
  <2>1. Frame!Holds(map, ev) /\ ev \in Nat \ {0}
    BY <2>0, IndexOfEvent
  <2>2. CASE \E o \in OpsNow : Suspend("map", ev, o)
    <3>1. actx' = Ctx("map", ev)
      BY <2>2, SuspendOutcome DEF Contexts
    <3>2. last' = <<"map", ev>>
      BY <1>7 DEF RunMapEvent, MapEventsOK, CtxOK, Unresumed
    <3> QED BY <2>0, <2>1, <3>1, <3>2 DEF CtxOK, Frame!Holds
  <2>3. CASE UNCHANGED <<pc, actx, op>> /\ k' = k + 1
    <3>1. actx.at \in {"none", "map"} /\ resume' = 0 /\ pc = "map"
      BY <1>7, MapEventOutcome DEF MapEventsOK
    <3>2. ~Unresumed'
      BY <2>0, <2>3, <3>1 DEF Unresumed
    <3> QED BY <2>0, <2>3, <3>1, <3>2 DEF CtxOK, Frame!Holds
  <2> QED BY <1>7, <2>2, <2>3, MapEventOutcome, Zenon
<1>8. CASE DoneMapEvents
  BY <1>8 DEF DoneMapEvents, CtxOK, Unresumed, KindOK, RestOK, CommonOK, MapEventsOK, Ops
<1>9. CASE World
  BY <1>9 DEF World, CtxOK, Unresumed, KindOK, RestOK, CommonOK, MapEventsOK, Ops
<1>10. CASE Message
  BY <1>10 DEF Message, CtxOK, Unresumed, KindOK, RestOK, CommonOK, MapEventsOK, Ops
<1>11. CASE Timers
  BY <1>11 DEF Timers, CtxOK, Unresumed, KindOK, RestOK, CommonOK, MapEventsOK, Ops
<1>12. CASE Foreground
  BY <1>12, ForegroundOutcome, SuccUnits DEF CtxOK, Unresumed, KindOK, RestOK
<1>13. CASE RunForeground
  BY <1>13 DEF RunForeground, CtxOK, Unresumed, KindOK, RestOK, CommonOK, MapEventsOK, Ops
<1>14. CASE DoneForeground
  BY <1>14 DEF DoneForeground, CtxOK, Unresumed, KindOK, RestOK, CommonOK, MapEventsOK, Ops
<1>15. CASE Parallax
  BY <1>15 DEF Parallax, CtxOK, Unresumed, KindOK, RestOK, CommonOK, MapEventsOK, Ops
<1>16. CASE Return
  BY <1>16 DEF Return, CtxOK, Unresumed, KindOK, RestOK, CommonOK, MapEventsOK, Ops
<1>17. CASE PerformWait
  BY <1>17 DEF PerformWait, CtxOK, Unresumed, KindOK, RestOK, CommonOK, MapEventsOK, Ops
<1>18. CASE PerformTeleport
  BY <1>18 DEF PerformTeleport, CtxOK, Unresumed, KindOK, RestOK, CommonOK, MapEventsOK, Ops
<1>19. CASE PerformLoad
  BY <1>19 DEF PerformLoad, CtxOK, Unresumed, KindOK, RestOK, CommonOK, MapEventsOK, Ops
<1>20. CASE PerformExit
  BY <1>20 DEF PerformExit, CtxOK, Unresumed, KindOK, RestOK, CommonOK, MapEventsOK, Ops
<1> QED
  BY <1>0, <1>1, <1>2, <1>3, <1>4, <1>5, <1>6, <1>7, <1>8, <1>9, <1>10, <1>11, <1>12, <1>13, <1>14, <1>15, <1>16, <1>17, <1>18, <1>19, <1>20 DEF Next, UpdateStep, Perform

LEMMA NextKindOK == ASSUME IInv, Next PROVE KindOK'
<1> USE DEF IInv, TypeOK, None, NoCtx, Ctx, NumEvents, Suspend, Reenter, Gate,
            Active, OpsNow
<1>0. ASSUME NEW kd \in Kinds, Begin(kd) PROVE KindOK'
  BY <1>0 DEF Begin, Kinds, KindOK, RestOK, Kinds, CommonOK, MapEventsOK
<1>1. CASE EnterCommon
  BY <1>1 DEF EnterCommon, KindOK, RestOK, Kinds, CommonOK, MapEventsOK
<1>2. CASE SkipCommon
  BY <1>2 DEF SkipCommon, KindOK, RestOK, Kinds, CommonOK, MapEventsOK
<1>3. CASE RunCommon
  BY <1>3 DEF RunCommon, KindOK, RestOK, Kinds, CommonOK, MapEventsOK
<1>4. CASE DoneCommon
  BY <1>4 DEF DoneCommon, KindOK, RestOK, Kinds, CommonOK, MapEventsOK
<1>5. CASE EnterMapEvents
  BY <1>5 DEF EnterMapEvents, KindOK, RestOK, Kinds, CommonOK, MapEventsOK
<1>6. CASE SkipMapEvent
  BY <1>6 DEF SkipMapEvent, KindOK, RestOK, Kinds, CommonOK, MapEventsOK
<1>7. CASE RunMapEvent
  BY <1>7 DEF RunMapEvent, KindOK, RestOK, Kinds, CommonOK, MapEventsOK
<1>8. CASE DoneMapEvents
  BY <1>8 DEF DoneMapEvents, KindOK, RestOK, Kinds, CommonOK, MapEventsOK
<1>9. CASE World
  BY <1>9 DEF World, KindOK, RestOK, Kinds, CommonOK, MapEventsOK
<1>10. CASE Message
  BY <1>10 DEF Message, KindOK, RestOK, Kinds, CommonOK, MapEventsOK
<1>11. CASE Timers
  BY <1>11 DEF Timers, KindOK, RestOK, Kinds, CommonOK, MapEventsOK
<1>12. CASE Foreground
  BY <1>12, ForegroundOutcome, SuccUnits DEF KindOK, Kinds
<1>13. CASE RunForeground
  BY <1>13 DEF RunForeground, KindOK, RestOK, Kinds, CommonOK, MapEventsOK
<1>14. CASE DoneForeground
  BY <1>14 DEF DoneForeground, KindOK, RestOK, Kinds, CommonOK, MapEventsOK
<1>15. CASE Parallax
  BY <1>15 DEF Parallax, KindOK, RestOK, Kinds, CommonOK, MapEventsOK
<1>16. CASE Return
  BY <1>16 DEF Return, KindOK, RestOK, Kinds, CommonOK, MapEventsOK
<1>17. CASE PerformWait
  BY <1>17 DEF PerformWait, KindOK, RestOK, Kinds, CommonOK, MapEventsOK
<1>18. CASE PerformTeleport
  BY <1>18 DEF PerformTeleport, KindOK, RestOK, Kinds, CommonOK, MapEventsOK
<1>19. CASE PerformLoad
  BY <1>19 DEF PerformLoad, KindOK, RestOK, Kinds, CommonOK, MapEventsOK
<1>20. CASE PerformExit
  BY <1>20 DEF PerformExit, KindOK, RestOK, Kinds, CommonOK, MapEventsOK
<1> QED
  BY <1>0, <1>1, <1>2, <1>3, <1>4, <1>5, <1>6, <1>7, <1>8, <1>9, <1>10, <1>11, <1>12, <1>13, <1>14, <1>15, <1>16, <1>17, <1>18, <1>19, <1>20 DEF Next, UpdateStep, Perform

LEMMA NextCommonOK == ASSUME IInv, Next PROVE CommonOK'
<1> USE DEF IInv, TypeOK, None, NoCtx, Ctx, NumEvents, Suspend, Reenter, Gate,
            Active, OpsNow
<1>0. ASSUME NEW kd \in Kinds, Begin(kd) PROVE CommonOK'
  BY <1>0 DEF Begin, Kinds, CommonOK, CtxOK, KindOK, Unresumed, RestOK
<1>1. CASE EnterCommon
  BY <1>1 DEF EnterCommon, CommonOK, CtxOK, KindOK, Unresumed, RestOK
<1>2. CASE SkipCommon
  BY <1>2 DEF SkipCommon, CommonOK, CtxOK, KindOK, Unresumed, RestOK
<1>3. CASE RunCommon
  <2>1. CASE pc' = "common"
    <3>1. k' = k + 1 /\ resume' = 0 /\ UNCHANGED actx
      BY <1>3, <2>1 DEF RunCommon
    <3>2. last' = <<"common", k>>
      BY <1>3 DEF RunCommon, CommonOK, CtxOK, Unresumed
    <3>3. /\ k \in 1 .. NumCommon
          /\ actx.at \in {"none", "common"}
      BY <1>3 DEF RunCommon, CommonOK
    <3> HIDE DEF IInv, TypeOK
    <3> QED BY <3>1, <3>2, <3>3 DEF CommonOK
  <2>2. CASE pc' # "common"
    BY <2>2 DEF CommonOK
  <2> QED BY <2>1, <2>2
<1>4. CASE DoneCommon
  BY <1>4 DEF DoneCommon, CommonOK, CtxOK, KindOK, Unresumed, RestOK
<1>5. CASE EnterMapEvents
  BY <1>5 DEF EnterMapEvents, CommonOK, CtxOK, KindOK, Unresumed, RestOK
<1>6. CASE SkipMapEvent
  BY <1>6 DEF SkipMapEvent, CommonOK, CtxOK, KindOK, Unresumed, RestOK
<1>7. CASE RunMapEvent
  BY <1>7 DEF RunMapEvent, CommonOK, CtxOK, KindOK, Unresumed, RestOK
<1>8. CASE DoneMapEvents
  BY <1>8 DEF DoneMapEvents, CommonOK, CtxOK, KindOK, Unresumed, RestOK
<1>9. CASE World
  BY <1>9 DEF World, CommonOK, CtxOK, KindOK, Unresumed, RestOK
<1>10. CASE Message
  BY <1>10 DEF Message, CommonOK, CtxOK, KindOK, Unresumed, RestOK
<1>11. CASE Timers
  BY <1>11 DEF Timers, CommonOK, CtxOK, KindOK, Unresumed, RestOK
<1>12. CASE Foreground
  BY <1>12 DEF Foreground, CommonOK, CtxOK, KindOK, Unresumed, RestOK
<1>13. CASE RunForeground
  BY <1>13 DEF RunForeground, CommonOK, CtxOK, KindOK, Unresumed, RestOK
<1>14. CASE DoneForeground
  BY <1>14 DEF DoneForeground, CommonOK, CtxOK, KindOK, Unresumed, RestOK
<1>15. CASE Parallax
  BY <1>15 DEF Parallax, CommonOK, CtxOK, KindOK, Unresumed, RestOK
<1>16. CASE Return
  BY <1>16 DEF Return, CommonOK, CtxOK, KindOK, Unresumed, RestOK
<1>17. CASE PerformWait
  BY <1>17 DEF PerformWait, CommonOK, CtxOK, KindOK, Unresumed, RestOK
<1>18. CASE PerformTeleport
  BY <1>18 DEF PerformTeleport, CommonOK, CtxOK, KindOK, Unresumed, RestOK
<1>19. CASE PerformLoad
  BY <1>19 DEF PerformLoad, CommonOK, CtxOK, KindOK, Unresumed, RestOK
<1>20. CASE PerformExit
  BY <1>20 DEF PerformExit, CommonOK, CtxOK, KindOK, Unresumed, RestOK
<1> QED
  BY <1>0, <1>1, <1>2, <1>3, <1>4, <1>5, <1>6, <1>7, <1>8, <1>9, <1>10, <1>11, <1>12, <1>13, <1>14, <1>15, <1>16, <1>17, <1>18, <1>19, <1>20 DEF Next, UpdateStep, Perform

LEMMA NextMapEventsOK == ASSUME IInv, Next PROVE MapEventsOK'
<1> USE DEF IInv, TypeOK, None, NoCtx, Ctx, NumEvents, Suspend, Reenter, Gate,
            Active, OpsNow
<1>0. ASSUME NEW kd \in Kinds, Begin(kd) PROVE MapEventsOK'
  BY <1>0 DEF Begin, Kinds, MapEventsOK, CommonOK, CtxOK, KindOK, Unresumed, RestOK, NextUnit, Frame!Succ, Frame!AfterCommon, Frame!EventAt, Frame!AfterEvent
<1>1. CASE EnterCommon
  BY SMTT(40), <1>1 DEF EnterCommon, MapEventsOK, CommonOK, CtxOK, KindOK, Unresumed, RestOK, NextUnit, Frame!Succ, Frame!AfterCommon, Frame!EventAt, Frame!AfterEvent
<1>2. CASE SkipCommon
  BY <1>2 DEF SkipCommon, MapEventsOK, CommonOK, CtxOK, KindOK, Unresumed, RestOK, NextUnit, Frame!Succ, Frame!AfterCommon, Frame!EventAt, Frame!AfterEvent
<1>3. CASE RunCommon
  BY <1>3 DEF RunCommon, MapEventsOK, CommonOK, CtxOK, KindOK, Unresumed, RestOK, NextUnit, Frame!Succ, Frame!AfterCommon, Frame!EventAt, Frame!AfterEvent
<1>4. CASE DoneCommon
  <2>1. resume = 0 /\ k = NumCommon + 1
    BY <1>4 DEF DoneCommon, CommonOK, CtxOK
  <2>2. kind # "fg"
    BY <1>4 DEF DoneCommon, KindOK
  <2>3. NextUnit = Frame!EventAt(map, 1, kind)
    <3>1. CASE NumCommon = 0
      <4>1. last = None
        BY <1>4, <2>1, <3>1 DEF DoneCommon, CommonOK
      <4>2. NextUnit = Frame!AfterCommon(map, 0, kind)
        BY <4>1, <2>2, SuccNone, Zenon DEF NextUnit
      <4> QED BY <4>2, <3>1 DEF Frame!AfterCommon
    <3>2. CASE NumCommon # 0
      <4>1. last = <<"common", NumCommon>>
        BY <1>4, <2>1, <3>2 DEF DoneCommon, CommonOK
      <4>2. NextUnit = Frame!AfterCommon(map, NumCommon, kind)
        BY <4>1, SuccUnits, Zenon DEF NextUnit
      <4> QED BY <4>2 DEF Frame!AfterCommon
    <3> QED BY <3>1, <3>2
  <2> QED BY <1>4, <2>3 DEF DoneCommon, MapEventsOK, NextUnit
<1>5. CASE EnterMapEvents
  <2>1. UNCHANGED NextUnit
    BY <1>5 DEF EnterMapEvents, NextUnit
  <2> QED BY <1>5, <2>1 DEF EnterMapEvents, MapEventsOK, CtxOK
<1>6. CASE SkipMapEvent
  <2>1. UNCHANGED NextUnit
    BY <1>6 DEF SkipMapEvent, NextUnit
  <2>3. \A i \in 1 .. NumEvents : EventsOf[map][i] = resume => k + 1 <= i
    BY <1>6 DEF SkipMapEvent, MapEventsOK
  <2> QED BY <1>6, <2>1, <2>3 DEF SkipMapEvent, MapEventsOK
<1>7. CASE RunMapEvent
  <2>1. CASE pc' = "map"
    <3>1. /\ k' = k + 1 /\ resume' = 0
          /\ UNCHANGED <<actx, map, kind>>
          /\ k \in 1 .. NumEvents
      BY <1>7, <2>1 DEF RunMapEvent
    <3>2. last' = <<"map", EventsOf[map][k]>>
      BY <1>7 DEF RunMapEvent, MapEventsOK, CtxOK, Unresumed
    <3>3. NextUnit' = Frame!EventAt(map, k + 1, kind)
      BY <3>1, <3>2, SuccEvent DEF NextUnit
    <3> QED BY <1>7, <3>1, <3>3 DEF RunMapEvent, MapEventsOK
  <2>2. CASE pc' # "map"
    BY <2>2 DEF MapEventsOK
  <2> QED BY <2>1, <2>2
<1>8. CASE DoneMapEvents
  BY <1>8 DEF DoneMapEvents, MapEventsOK, CommonOK, CtxOK, KindOK, Unresumed, RestOK, NextUnit, Frame!Succ, Frame!AfterCommon, Frame!EventAt, Frame!AfterEvent
<1>9. CASE World
  BY <1>9 DEF World, MapEventsOK, CommonOK, CtxOK, KindOK, Unresumed, RestOK, NextUnit, Frame!Succ, Frame!AfterCommon, Frame!EventAt, Frame!AfterEvent
<1>10. CASE Message
  BY <1>10 DEF Message, MapEventsOK, CommonOK, CtxOK, KindOK, Unresumed, RestOK, NextUnit, Frame!Succ, Frame!AfterCommon, Frame!EventAt, Frame!AfterEvent
<1>11. CASE Timers
  BY <1>11 DEF Timers, MapEventsOK, CommonOK, CtxOK, KindOK, Unresumed, RestOK, NextUnit, Frame!Succ, Frame!AfterCommon, Frame!EventAt, Frame!AfterEvent
<1>12. CASE Foreground
  BY <1>12 DEF Foreground, MapEventsOK, CommonOK, CtxOK, KindOK, Unresumed, RestOK, NextUnit, Frame!Succ, Frame!AfterCommon, Frame!EventAt, Frame!AfterEvent
<1>13. CASE RunForeground
  BY <1>13 DEF RunForeground, MapEventsOK, CommonOK, CtxOK, KindOK, Unresumed, RestOK, NextUnit, Frame!Succ, Frame!AfterCommon, Frame!EventAt, Frame!AfterEvent
<1>14. CASE DoneForeground
  BY <1>14 DEF DoneForeground, MapEventsOK, CommonOK, CtxOK, KindOK, Unresumed, RestOK, NextUnit, Frame!Succ, Frame!AfterCommon, Frame!EventAt, Frame!AfterEvent
<1>15. CASE Parallax
  BY <1>15 DEF Parallax, MapEventsOK, CommonOK, CtxOK, KindOK, Unresumed, RestOK, NextUnit, Frame!Succ, Frame!AfterCommon, Frame!EventAt, Frame!AfterEvent
<1>16. CASE Return
  BY <1>16 DEF Return, MapEventsOK, CommonOK, CtxOK, KindOK, Unresumed, RestOK, NextUnit, Frame!Succ, Frame!AfterCommon, Frame!EventAt, Frame!AfterEvent
<1>17. CASE PerformWait
  BY <1>17 DEF PerformWait, MapEventsOK, CommonOK, CtxOK, KindOK, Unresumed, RestOK, NextUnit, Frame!Succ, Frame!AfterCommon, Frame!EventAt, Frame!AfterEvent
<1>18. CASE PerformTeleport
  BY <1>18 DEF PerformTeleport, MapEventsOK, CommonOK, CtxOK, KindOK, Unresumed, RestOK, NextUnit, Frame!Succ, Frame!AfterCommon, Frame!EventAt, Frame!AfterEvent
<1>19. CASE PerformLoad
  BY <1>19 DEF PerformLoad, MapEventsOK, CommonOK, CtxOK, KindOK, Unresumed, RestOK, NextUnit, Frame!Succ, Frame!AfterCommon, Frame!EventAt, Frame!AfterEvent
<1>20. CASE PerformExit
  BY <1>20 DEF PerformExit, MapEventsOK, CommonOK, CtxOK, KindOK, Unresumed, RestOK, NextUnit, Frame!Succ, Frame!AfterCommon, Frame!EventAt, Frame!AfterEvent
<1> QED
  BY <1>0, <1>1, <1>2, <1>3, <1>4, <1>5, <1>6, <1>7, <1>8, <1>9, <1>10, <1>11, <1>12, <1>13, <1>14, <1>15, <1>16, <1>17, <1>18, <1>19, <1>20 DEF Next, UpdateStep, Perform

LEMMA NextRestOK == ASSUME IInv, Next PROVE RestOK'
<1> USE DEF IInv, TypeOK, None, NoCtx, Ctx, NumEvents, Suspend, Reenter, Gate,
            Active, OpsNow
<1>0. ASSUME NEW kd \in Kinds, Begin(kd) PROVE RestOK'
  BY <1>0 DEF Begin, Kinds, RestOK, CommonOK, MapEventsOK, KindOK, CtxOK, Unresumed, NextUnit, Ops, Frame!Succ, Frame!AfterEvent, Frame!AfterEvents, Frame!EventAt, Frame!End, Frame!AfterCommon
<1>1. CASE EnterCommon
  BY <1>1 DEF EnterCommon, RestOK, CommonOK, MapEventsOK, KindOK, CtxOK, Unresumed, NextUnit, Ops, Frame!Succ, Frame!AfterEvent, Frame!AfterEvents, Frame!EventAt, Frame!End, Frame!AfterCommon
<1>2. CASE SkipCommon
  BY <1>2 DEF SkipCommon, RestOK, CommonOK, MapEventsOK, KindOK, CtxOK, Unresumed, NextUnit, Ops, Frame!Succ, Frame!AfterEvent, Frame!AfterEvents, Frame!EventAt, Frame!End, Frame!AfterCommon
<1>3. CASE RunCommon
  <2> HIDE DEF Suspend, OpsNow
  <2>1. pc' = "common" \/ (pc' = "suspended" /\ actx'.at # "none" /\ op' # "none")
    <3>1. CASE \E o \in OpsNow : Suspend("common", k, o)
      BY <3>1, SuspendOutcome DEF Contexts
    <3>2. CASE k' = k + 1 /\ UNCHANGED <<pc, actx, op, owed>>
      BY <1>3, <3>2 DEF RunCommon
    <3> HIDE DEF IInv
    <3> QED BY <1>3, <3>1, <3>2, CommonOutcome, Zenon
  <2> QED BY <2>1 DEF RestOK
<1>4. CASE DoneCommon
  BY <1>4 DEF DoneCommon, RestOK, CommonOK, MapEventsOK, KindOK, CtxOK, Unresumed, NextUnit, Ops, Frame!Succ, Frame!AfterEvent, Frame!AfterEvents, Frame!EventAt, Frame!End, Frame!AfterCommon
<1>5. CASE EnterMapEvents
  <2>1. UNCHANGED NextUnit
    BY <1>5 DEF EnterMapEvents, NextUnit
  <2>2. CASE pc' = "map"
    BY <2>2 DEF RestOK
  <2>3. CASE pc' = "world"
    <3>1. actx.at \in {"message", "fg"} /\ UNCHANGED actx
      BY <1>5, <2>3 DEF EnterMapEvents, MapEventsOK, Contexts
    <3> QED BY <2>3, <3>1 DEF RestOK
  <2> QED BY <1>5, <2>2, <2>3 DEF EnterMapEvents
<1>6. CASE SkipMapEvent
  BY <1>6 DEF SkipMapEvent, RestOK, CommonOK, MapEventsOK, KindOK, CtxOK, Unresumed, NextUnit, Ops, Frame!Succ, Frame!AfterEvent, Frame!AfterEvents, Frame!EventAt, Frame!End, Frame!AfterCommon
<1>7. CASE RunMapEvent
  <2> HIDE DEF Suspend, OpsNow
  <2>1. pc' = "map" \/ (pc' = "suspended" /\ actx'.at # "none" /\ op' # "none")
    <3>1. CASE \E o \in OpsNow : Suspend("map", EventsOf[map][k], o)
      BY <3>1, SuspendOutcome DEF Contexts
    <3>2. CASE k' = k + 1 /\ UNCHANGED <<pc, actx, op>>
      BY <1>7, <3>2 DEF RunMapEvent
    <3> HIDE DEF IInv
    <3> QED BY <1>7, <3>1, <3>2, MapEventOutcome, Zenon
  <2> QED BY <2>1 DEF RestOK
<1>8. CASE DoneMapEvents
  <2>1. UNCHANGED NextUnit
    BY <1>8 DEF DoneMapEvents, NextUnit
  <2>2. NextUnit = Frame!AfterEvents(kind)
    <3>1. CASE resume = 0
      BY <1>8, <3>1, PastEvents DEF DoneMapEvents, MapEventsOK
    <3>2. CASE resume # 0
      <4>1. last = <<"map", resume>> /\ ~Frame!Holds(map, resume)
        BY <1>8, <3>2 DEF DoneMapEvents, MapEventsOK, CtxOK, Unresumed,
                          Frame!Holds
      <4>2. NextUnit = Frame!AfterEvent(map, resume, kind)
        BY <4>1, SuccUnits, Zenon DEF NextUnit
      <4> QED BY <4>1, <4>2, Zenon DEF Frame!AfterEvent
    <3> QED BY <3>1, <3>2
  <2> QED BY <1>8, <2>1, <2>2 DEF DoneMapEvents, RestOK, Frame!AfterEvents
<1>9. CASE World
  BY <1>9 DEF World, RestOK, CommonOK, MapEventsOK, KindOK, CtxOK, Unresumed, NextUnit, Ops, Frame!Succ, Frame!AfterEvent, Frame!AfterEvents, Frame!EventAt, Frame!End, Frame!AfterCommon
<1>10. CASE Message
  BY <1>10, MessageOutcome DEF RestOK, CtxOK
<1>11. CASE Timers
  BY <1>11 DEF Timers, RestOK, CommonOK, MapEventsOK, KindOK, CtxOK, Unresumed, NextUnit, Ops, Frame!Succ, Frame!AfterEvent, Frame!AfterEvents, Frame!EventAt, Frame!End, Frame!AfterCommon
<1>12. CASE Foreground
  <2> HIDE DEF Suspend, OpsNow
  <2>1. last' = <<"foreground", 0>>
    BY <1>12, ForegroundOutcome DEF CtxOK
  <2>2. pc' = "fgloop" \/ (pc' = "suspended" /\ actx'.at # "none" /\ op' # "none")
    <3>1. CASE \E o \in OpsNow : Suspend("fg", 0, o)
      BY <3>1, SuspendOutcome DEF Contexts
    <3>2. CASE pc' = "fgloop" /\ UNCHANGED <<actx, op, owed>>
      BY <3>2
    <3> HIDE DEF IInv
    <3> QED BY <1>12, <3>1, <3>2, ForegroundOutcome, Zenon
  <2> QED BY <2>1, <2>2 DEF RestOK
<1>13. CASE RunForeground
  BY <1>13 DEF RunForeground, RestOK, CommonOK, MapEventsOK, KindOK, CtxOK, Unresumed, NextUnit, Ops, Frame!Succ, Frame!AfterEvent, Frame!AfterEvents, Frame!EventAt, Frame!End, Frame!AfterCommon
<1>14. CASE DoneForeground
  <2>1. NextUnit' = IF kind = "fg" THEN Frame!End ELSE <<"parallax", 0>>
    <3>1. last' = <<"foreground", 0>> /\ UNCHANGED <<map, kind>>
      BY <1>14 DEF DoneForeground, RestOK
    <3> QED BY <3>1, SuccUnits, Zenon DEF NextUnit
  <2> QED BY <1>14, <2>1 DEF DoneForeground, RestOK, KindOK, Kinds
<1>15. CASE Parallax
  BY <1>15 DEF Parallax, RestOK, CommonOK, MapEventsOK, KindOK, CtxOK, Unresumed, NextUnit, Ops, Frame!Succ, Frame!AfterEvent, Frame!AfterEvents, Frame!EventAt, Frame!End, Frame!AfterCommon
<1>16. CASE Return
  BY <1>16 DEF Return, RestOK, CommonOK, MapEventsOK, KindOK, CtxOK, Unresumed, NextUnit, Ops, Frame!Succ, Frame!AfterEvent, Frame!AfterEvents, Frame!EventAt, Frame!End, Frame!AfterCommon
<1>17. CASE PerformWait
  BY <1>17 DEF PerformWait, RestOK, CommonOK, MapEventsOK, KindOK, CtxOK, Unresumed, NextUnit, Ops, Frame!Succ, Frame!AfterEvent, Frame!AfterEvents, Frame!EventAt, Frame!End, Frame!AfterCommon
<1>18. CASE PerformTeleport
  BY <1>18 DEF PerformTeleport, RestOK, CommonOK, MapEventsOK, KindOK, CtxOK, Unresumed, NextUnit, Ops, Frame!Succ, Frame!AfterEvent, Frame!AfterEvents, Frame!EventAt, Frame!End, Frame!AfterCommon
<1>19. CASE PerformLoad
  BY <1>19 DEF PerformLoad, RestOK, CommonOK, MapEventsOK, KindOK, CtxOK, Unresumed, NextUnit, Ops, Frame!Succ, Frame!AfterEvent, Frame!AfterEvents, Frame!EventAt, Frame!End, Frame!AfterCommon
<1>20. CASE PerformExit
  BY <1>20 DEF PerformExit, RestOK, CommonOK, MapEventsOK, KindOK, CtxOK, Unresumed, NextUnit, Ops, Frame!Succ, Frame!AfterEvent, Frame!AfterEvents, Frame!EventAt, Frame!End, Frame!AfterCommon
<1> QED
  BY <1>0, <1>1, <1>2, <1>3, <1>4, <1>5, <1>6, <1>7, <1>8, <1>9, <1>10, <1>11, <1>12, <1>13, <1>14, <1>15, <1>16, <1>17, <1>18, <1>19, <1>20 DEF Next, UpdateStep, Perform

LEMMA NextOwedOK == ASSUME IInv, Next PROVE OwedOK'
<1> USE DEF IInv, TypeOK, None, NoCtx, Ctx, NumEvents, Suspend, Reenter, Gate,
            Active, OpsNow
<1>0. ASSUME NEW kd \in Kinds, Begin(kd) PROVE OwedOK'
  BY <1>0 DEF Begin, Kinds, OwedOK, RestOK, PushAside, Ops
<1>1. CASE EnterCommon
  BY <1>1 DEF EnterCommon, OwedOK, RestOK, PushAside, Ops
<1>2. CASE SkipCommon
  BY <1>2 DEF SkipCommon, OwedOK, RestOK, PushAside, Ops
<1>3. CASE RunCommon
  BY <1>3 DEF RunCommon, OwedOK, RestOK, PushAside, Ops
<1>4. CASE DoneCommon
  BY <1>4 DEF DoneCommon, OwedOK, RestOK, PushAside, Ops
<1>5. CASE EnterMapEvents
  BY <1>5 DEF EnterMapEvents, OwedOK, RestOK, PushAside, Ops
<1>6. CASE SkipMapEvent
  BY <1>6 DEF SkipMapEvent, OwedOK, RestOK, PushAside, Ops
<1>7. CASE RunMapEvent
  BY <1>7 DEF RunMapEvent, OwedOK, RestOK, PushAside, Ops
<1>8. CASE DoneMapEvents
  BY <1>8 DEF DoneMapEvents, OwedOK, RestOK, PushAside, Ops
<1>9. CASE World
  BY <1>9 DEF World, OwedOK, RestOK, PushAside, Ops
<1>10. CASE Message
  BY <1>10 DEF Message, OwedOK, RestOK, PushAside, Ops
<1>11. CASE Timers
  BY <1>11 DEF Timers, OwedOK, RestOK, PushAside, Ops
<1>12. CASE Foreground
  BY <1>12, ForegroundOutcome, SuccUnits DEF OwedOK, RestOK, Ops
<1>13. CASE RunForeground
  BY <1>13 DEF RunForeground, OwedOK, RestOK, PushAside, Ops
<1>14. CASE DoneForeground
  BY <1>14 DEF DoneForeground, OwedOK, RestOK, PushAside, Ops
<1>15. CASE Parallax
  BY <1>15 DEF Parallax, OwedOK, RestOK, PushAside, Ops
<1>16. CASE Return
  BY <1>16 DEF Return, OwedOK, RestOK, PushAside, Ops
<1>17. CASE PerformWait
  BY <1>17 DEF PerformWait, OwedOK, RestOK, PushAside, Ops
<1>18. CASE PerformTeleport
  BY <1>18 DEF PerformTeleport, OwedOK, RestOK, PushAside, Ops
<1>19. CASE PerformLoad
  BY <1>19 DEF PerformLoad, OwedOK, RestOK, PushAside, Ops
<1>20. CASE PerformExit
  BY <1>20 DEF PerformExit, OwedOK, RestOK, PushAside, Ops
<1> QED
  BY <1>0, <1>1, <1>2, <1>3, <1>4, <1>5, <1>6, <1>7, <1>8, <1>9, <1>10, <1>11, <1>12, <1>13, <1>14, <1>15, <1>16, <1>17, <1>18, <1>19, <1>20 DEF Next, UpdateStep, Perform

LEMMA InitInv == ASSUME Init PROVE IInv
<1> USE DEF Init, None, NoCtx
<1>1. TypeOK
  BY InitTypes
<1>2. CtxOK
  BY DEF CtxOK
<1>3. KindOK
  BY DEF KindOK
<1>4. CommonOK /\ MapEventsOK /\ RestOK
  BY DEF CommonOK, MapEventsOK, RestOK
<1>5. OwedOK
  BY DEF OwedOK
<1> QED BY <1>1, <1>2, <1>3, <1>4, <1>5 DEF IInv

LEMMA StutterInv == ASSUME IInv, UNCHANGED vars PROVE IInv'
  BY DEF vars, IInv, TypeOK, CtxOK, KindOK, CommonOK, MapEventsOK, RestOK,
         OwedOK, Unresumed, NextUnit, NumEvents, Frame!Holds

(* The inductive invariant: MapUpdate always knows where it stands in the  *)
(* frame, and whom it has to resume.                                       *)
THEOREM Inductive == Spec => []IInv
<1>1. ASSUME IInv, [Next]_vars PROVE IInv'
  <2>1. CASE Next
    <3>1. TypeOK'
      BY <1>1, <2>1, NextTypes DEF IInv
    <3> QED BY <1>1, <2>1, <3>1, NextCtxOK, NextKindOK, NextCommonOK,
               NextMapEventsOK, NextRestOK, NextOwedOK, Zenon DEF IInv
  <2>2. CASE UNCHANGED vars
    BY <1>1, <2>2, StutterInv
  <2> QED BY <1>1, <2>1, <2>2
<1> QED BY <1>1, InitInv, PTL DEF Spec

(* Every variable of Game_Map::Update keeps its range; in particular an    *)
(* interpreter never runs past loop_limit.                                 *)
THEOREM TypesCorrect == Spec => []TypeOK
<1>1. IInv => TypeOK
  BY DEF IInv
<1> QED BY <1>1, Inductive, PTL

(* A suspended common or map event is found again when its loop is         *)
(* resumed, unless the map was replaced in between: UpdateCommonEvents and *)
(* UpdateMapEvents never skip to the end of their list in silence.         *)
THEOREM SuspendedIsResumed == Spec => []NoSkippedResume
<1>1. ASSUME IInv PROVE NoSkippedResume
  <2>1. ASSUME pc = "common", k > NumCommon, resume # 0 PROVE FALSE
    <3>1. k <= resume /\ resume = actx.id /\ actx.at = "common"
      BY <1>1, <2>1 DEF IInv, TypeOK, CommonOK
    <3>2. actx.id \in 1 .. NumCommon
      BY <1>1, <3>1 DEF IInv, CtxOK
    <3> QED BY <1>1, <2>1, <3>1, <3>2 DEF IInv, TypeOK
  <2>2. ASSUME pc = "map", k > NumEvents, ~switched, resume # 0 PROVE FALSE
    <3>0. k > 0
      BY <1>1, <2>2 DEF IInv, TypeOK, NumEvents
    <3>1. /\ resume = actx.id /\ actx.at = "map"
          /\ \A i \in 1 .. NumEvents : EventsOf[map][i] = resume => k <= i
      BY <1>1, <2>2, <3>0 DEF IInv, MapEventsOK
    <3>2. \E i \in 1 .. NumEvents : EventsOf[map][i] = resume
      BY <1>1, <2>2, <3>1 DEF IInv, CtxOK, Frame!Holds, NumEvents
    <3>3. k \in Nat /\ NumEvents \in Nat
      BY <1>1 DEF IInv, TypeOK, NumEvents
    <3> QED BY <2>2, <3>1, <3>2, <3>3
  <2> QED BY <2>1, <2>2 DEF NoSkippedResume
<1> QED BY <1>1, Inductive, PTL

(* Whatever the maps, the events and the bounds, what was started and has  *)
(* not been performed when a frame is over was started by events that had  *)
(* to make way.                                                            *)
THEOREM OperationsPerformed == Spec => []LostOnlyToMakeWay
<1>1. IInv => LostOnlyToMakeWay
  BY DEF IInv, OwedOK, KindOK, LostOnlyToMakeWay
<1> QED BY <1>1, Inductive, PTL

(* A run that is not resumed starts the unit that follows the last one, and *)
(* so one this frame has not started yet.                                   *)
LEMMA CommonIsNext ==
  ASSUME IInv, RunCommon, resume = 0
  PROVE  NextUnit = <<"common", k>> /\ last # <<"common", k>>
<1>1. /\ pc = "common" /\ k \in 1 .. NumCommon /\ kind # "fg"
      /\ last = IF k = 1 THEN None ELSE <<"common", k - 1>>
  BY DEF IInv, TypeOK, RunCommon, CommonOK, KindOK
<1>2. CASE k = 1
  <2>1. NextUnit = Frame!AfterCommon(map, 0, kind)
    BY <1>1, <1>2, SuccNone DEF NextUnit
  <2> QED BY <1>1, <1>2, <2>1 DEF Frame!AfterCommon, None
<1>3. CASE k # 1
  <2>1. NextUnit = Frame!AfterCommon(map, k - 1, kind)
    BY <1>1, <1>3, SuccUnits DEF NextUnit
  <2> QED BY <1>1, <1>3, <2>1 DEF Frame!AfterCommon
<1> QED BY <1>2, <1>3

LEMMA MapEventIsNext ==
  ASSUME IInv, RunMapEvent, resume = 0
  PROVE  /\ NextUnit = <<"map", EventsOf[map][k]>>
         /\ last # <<"map", EventsOf[map][k]>>
<1>1. /\ map \in Maps /\ k \in 1 .. Len(EventsOf[map])
      /\ NextUnit = Frame!EventAt(map, k, kind)
  BY DEF IInv, TypeOK, RunMapEvent, MapEventsOK, NumEvents
<1>2. NextUnit = <<"map", EventsOf[map][k]>>
  BY <1>1 DEF Frame!EventAt
<1>3. ASSUME last = <<"map", EventsOf[map][k]>> PROVE FALSE
  <2>1. NextUnit = Frame!EventAt(map, k + 1, kind)
    BY <1>1, <1>3, SuccEvent DEF NextUnit
  <2>2. CASE k + 1 <= Len(EventsOf[map])
    <3>1. EventsOf[map][k + 1] = EventsOf[map][k]
      BY <1>1, <1>2, <2>1, <2>2 DEF Frame!EventAt
    <3>2. k + 1 \in 1 .. Len(EventsOf[map])
      BY <1>1, <2>2
    <3> QED BY <1>1, <3>1, <3>2, EventsAssumption
  <2>3. CASE ~(k + 1 <= Len(EventsOf[map]))
    BY <1>2, <2>1, <2>3 DEF Frame!EventAt, Frame!AfterEvents, Frame!End
  <2> QED BY <2>2, <2>3
<1> QED BY <1>2, <1>3

LEMMA ForegroundIsNext ==
  ASSUME IInv, Foreground, actx.at # "fg"
  PROVE  NextUnit = <<"foreground", 0>> /\ last # <<"foreground", 0>>
<1>1. NextUnit = <<"foreground", 0>>
  BY DEF IInv, Foreground, RestOK
<1>2. ASSUME last = <<"foreground", 0>> PROVE FALSE
  <2>1. NextUnit = IF kind = "fg" THEN Frame!End ELSE <<"parallax", 0>>
    BY <1>2, SuccUnits, Zenon DEF NextUnit
  <2> QED BY <1>1, <2>1 DEF Frame!End
<1> QED BY <1>1, <1>2

(* However often an event suspends itself, one unit of work never gets more *)
(* than loop_limit iterations: the counter only goes on.                    *)
THEOREM BudgetKept == Spec => BudgetNotRenewed
<1> DEFINE Kept == kind # "none" /\ kind' = kind /\ last' = last
                     /\ loads' = loads => loopCount' >= loopCount
<1>1. ASSUME IInv, Next PROVE Kept
  <2> SUFFICES ASSUME kind # "none", last' = last, loads' = loads
               PROVE  loopCount' >= loopCount
    OBVIOUS
  <2>0. loopCount \in 0 .. LoopLimit /\ loads \in Nat
    BY <1>1 DEF IInv, TypeOK
  <2>1. CASE RunCommon
    <3>1. resume # 0
      BY <1>1, <2>1, CommonIsNext DEF RunCommon
    <3> QED BY <2>0, <2>1, <3>1 DEF RunCommon, StartCount, Quiet, Works
  <2>2. CASE RunMapEvent
    <3>1. resume # 0
      BY <1>1, <2>2, MapEventIsNext DEF RunMapEvent
    <3> QED BY <2>0, <2>2, <3>1 DEF RunMapEvent, StartCount, Quiet, Works
  <2>3. CASE Foreground
    <3>1. actx.at = "fg"
      BY <1>1, <2>3, ForegroundIsNext, ForegroundOutcome
    <3> DEFINE c == StartCount(actx.at = "fg")
    <3>2. loopCount' \in Quiet(c) \/ loopCount' = c \/ loopCount' \in Works(c)
      <4> HIDE DEF c
      <4> QED BY <2>3, Zenon DEF Foreground, c
    <3>3. c = loopCount
      BY <3>1 DEF StartCount
    <3> QED BY <2>0, <3>2, <3>3 DEF Quiet, Works
  <2>4. CASE RunForeground
    BY <2>0, <2>4 DEF RunForeground, Quiet, Works
  <2>5. ASSUME NEW kd \in Kinds, Begin(kd) PROVE FALSE
    BY <1>1, <2>5 DEF Begin, IInv, KindOK
  <2>6. CASE PerformLoad
    BY <2>0, <2>6 DEF PerformLoad
  <2>7. CASE UNCHANGED loopCount
    BY <2>0, <2>7
  <2> QED
    BY <1>1, <2>1, <2>2, <2>3, <2>4, <2>5, <2>6, <2>7
       DEF Next, UpdateStep, Perform, EnterCommon, SkipCommon, DoneCommon,
           EnterMapEvents, SkipMapEvent, DoneMapEvents, World, Message, Timers,
           DoneForeground, Parallax, Return, PerformWait, PerformTeleport,
           PerformExit
<1>2. ASSUME IInv, [Next]_vars PROVE [Kept]_vars
  BY <1>1, <1>2
<1> QED BY <1>2, Inductive, PTL DEF Spec, BudgetNotRenewed

(* The detailed update implements MapFrame: suspended and resumed, switched *)
(* to another map or not, it runs every unit once and in order.             *)
THEOREM ImplementsFrame == Spec => RunsEachUnitOnce
<1> USE DEF Frame!fvars
<1>1. ASSUME Init PROVE Frame!FInit
  BY <1>1 DEF Init, Frame!FInit, None, Frame!None
<1>2. ASSUME IInv, Next PROVE [Frame!FNext]_<<map, kind, last>>
  <2>0. ASSUME kind # "none", NextUnit # Frame!End, last' = NextUnit,
               UNCHANGED <<map, kind>>
        PROVE  Frame!RunUnit
    BY <2>0 DEF NextUnit, Frame!RunUnit
  <2>1. ASSUME NEW kd \in Kinds, Begin(kd) PROVE Frame!BeginFrame
    BY <1>2, <2>1 DEF Begin, IInv, KindOK, None, Kinds, Frame!BeginFrame,
                      Frame!Kinds, Frame!None
  <2>2. CASE RunCommon
    <3>1. kind # "none" /\ UNCHANGED <<map, kind>>
      BY <1>2, <2>2 DEF IInv, KindOK, RunCommon
    <3>2. CASE resume = 0
      <4>1. NextUnit = <<"common", k>> /\ last' = <<"common", k>>
        BY <1>2, <2>2, <3>2, CommonIsNext, CommonOutcome
      <4> QED BY <2>0, <3>1, <4>1 DEF Frame!FNext, Frame!End
    <3>3. CASE resume # 0
      BY <2>2, <3>1, <3>3 DEF RunCommon
    <3> QED BY <3>2, <3>3
  <2>3. CASE RunMapEvent
    <3>1. kind # "none" /\ UNCHANGED <<map, kind>>
      BY <1>2, <2>3 DEF IInv, KindOK, RunMapEvent
    <3>2. CASE resume = 0
      <4>1. NextUnit = <<"map", EventsOf[map][k]>> /\ last' = NextUnit
        BY <1>2, <2>3, <3>2, MapEventIsNext, MapEventOutcome
      <4> QED BY <2>0, <3>1, <4>1 DEF Frame!FNext, Frame!End
    <3>3. CASE resume # 0
      BY <2>3, <3>1, <3>3 DEF RunMapEvent
    <3> QED BY <3>2, <3>3
  <2>4. CASE World
    <3>1. kind # "none" /\ UNCHANGED <<map, kind>>
      BY <1>2, <2>4 DEF IInv, KindOK, World
    <3>2. UNCHANGED last \/ (last' = NextUnit /\ NextUnit = <<"world", 0>>)
      BY <1>2, <2>4 DEF IInv, RestOK, World, Active
    <3> QED BY <2>0, <3>1, <3>2 DEF Frame!FNext, Frame!End
  <2>5. CASE Message
    <3>1. kind # "none" /\ UNCHANGED <<map, kind>>
      BY <1>2, <2>5 DEF IInv, KindOK, Message
    <3>2. CASE UNCHANGED last
      BY <3>1, <3>2
    <3>3. CASE actx.at = "none" /\ last' = <<"message", 0>>
      <4>1. last = <<"world", 0>>
        BY <1>2, <2>5, <3>3 DEF IInv, RestOK, Message
      <4>2. NextUnit = <<"message", 0>>
        BY <4>1, SuccUnits, Zenon DEF NextUnit
      <4> QED BY <2>0, <3>1, <3>3, <4>2 DEF Frame!FNext, Frame!End
    <3> QED BY <2>5, <3>2, <3>3 DEF Message, Active
  <2>6. CASE Timers
    <3>1. kind # "none" /\ UNCHANGED <<map, kind>>
      BY <1>2, <2>6 DEF IInv, KindOK, Timers
    <3>2. CASE actx.at = "none"
      <4>1. last = <<"message", 0>> /\ last' = <<"timers", 0>>
        BY <1>2, <2>6, <3>2 DEF IInv, RestOK, Timers, Active
      <4>2. NextUnit = <<"timers", 0>>
        BY <4>1, SuccUnits, Zenon DEF NextUnit
      <4> QED BY <2>0, <3>1, <4>1, <4>2 DEF Frame!FNext, Frame!End
    <3>3. CASE actx.at # "none"
      BY <2>6, <3>1, <3>3 DEF Timers, Active
    <3> QED BY <3>2, <3>3
  <2>7. CASE Foreground
    <3>1. kind # "none" /\ UNCHANGED <<map, kind>>
      BY <1>2, <2>7 DEF IInv, KindOK, Foreground
    <3>2. CASE actx.at # "fg"
      <4>1. NextUnit = <<"foreground", 0>> /\ last' = NextUnit
        BY <1>2, <2>7, <3>2, ForegroundIsNext, ForegroundOutcome
      <4> QED BY <2>0, <3>1, <4>1 DEF Frame!FNext, Frame!End
    <3>3. CASE actx.at = "fg"
      BY <2>7, <3>1, <3>3 DEF Foreground
    <3> QED BY <3>2, <3>3
  <2>8. CASE Parallax
    <3>1. /\ kind = "full" /\ UNCHANGED <<map, kind>>
          /\ last = <<"foreground", 0>> /\ last' = <<"parallax", 0>>
      BY <1>2, <2>8 DEF IInv, RestOK, Parallax
    <3>2. NextUnit = <<"parallax", 0>>
      BY <3>1, SuccUnits DEF NextUnit
    <3> QED BY <2>0, <3>1, <3>2 DEF Frame!FNext, Frame!End
  <2>9. CASE Return
    BY <1>2, <2>9 DEF Return, IInv, KindOK, RestOK, NextUnit, Frame!EndFrame,
                      Frame!FNext
  <2>10. CASE PerformTeleport \/ PerformLoad
    BY <2>10 DEF PerformTeleport, PerformLoad, Frame!SwitchMap, Frame!FNext
  <2>11. CASE PerformExit
    BY <1>2, <2>11 DEF PerformExit, IInv, KindOK, Frame!Abandon, Frame!FNext
  <2>12. CASE UNCHANGED <<map, kind, last>>
    BY <2>12
  <2> QED
    BY <1>2, <2>1, <2>2, <2>3, <2>4, <2>5, <2>6, <2>7, <2>8, <2>9, <2>10,
       <2>11, <2>12
       DEF Next, UpdateStep, Perform, EnterCommon, SkipCommon, DoneCommon,
           EnterMapEvents, SkipMapEvent, DoneMapEvents, RunForeground,
           DoneForeground, PerformWait, Frame!FNext
<1>3. ASSUME IInv, [Next]_vars PROVE [Frame!FNext]_<<map, kind, last>>
  BY <1>2, <1>3 DEF vars
<1> QED BY <1>1, <1>3, Inductive, PTL
        DEF Spec, RunsEachUnitOnce, Frame!FSpec
=============================================================================
