------------------------- MODULE SceneMapProofs -------------------------
(***************************************************************************)
(* Proofs about SceneMap and the ForegroundEvents within it, for any maps, *)
(* events, pages and common events: an event that is paused for its        *)
(* commands waits for them or runs them, on the page it was called on; the *)
(* end of a frame is reported to the event it belongs to; and no teleport  *)
(* and no scene is overlooked when a frame is over.                        *)
(*                                                                         *)
(* Two things make it inductive.  An event that is called by another may   *)
(* be on the stack without being paused, so that only the frame at the     *)
(* base accounts for a paused one; and the frames of this map name events  *)
(* that exist on it.                                                       *)
(***************************************************************************)
EXTENDS SceneMap, SequenceTheorems, WellFoundedInduction, TLAPS

Frames  == [id : Nat, home : Maps, quick : BOOLEAN, begun : BOOLEAN]
Targets == [map : Maps, type : {"parallel", "foreground", "skill"}]

Shaped(r) == r = [page |-> r.page, called |-> r.called, active |-> r.active,
                  waiting |-> r.waiting, paused |-> r.paused, onTop |-> r.onTop]

(* What the record r of event e of the map m, with the stack s, owes       *)
Accounted(m, e, r, s) ==
  /\ Shaped(r) /\ r.page \in {PageOf[m][e][b] : b \in BOOLEAN}
  /\ r.paused /\ r.active => r.waiting \/ r.onTop \/ (s # <<>> /\ s[1].id = e)
  /\ r.waiting => r.called = r.page

EventsOK(m, evs, s) ==
  /\ evs = [e \in Ids(m) |-> evs[e]]
  /\ \A e \in Ids(m) : Accounted(m, e, evs[e], s)

Current(m, h, evs) == \A e \in Ids(m) : evs[e].page = PageOf[m][e][h]

Belongs(m, f) == f.id = 0 \/ f.quick \/ (f.home = m /\ f.id \in Ids(m))
FramesOK(m, s) == /\ s \in Seq(Frames) /\ Len(s) <= CallDepth
                  /\ \A n \in 1 .. Len(s) : Belongs(m, s[n])

Shape == /\ map \in Maps /\ holds \in BOOLEAN /\ loopCount \in 0 .. LoopLimit
         /\ target \in Targets \cup {NoTarget}

(* The teleport that a frame may leave to the next                         *)
LeftForNext == Pending => tp = Deferred /\ stage = "pre"
Flow ==
  /\ tp \in {NoParams, Deferred, [run |-> TRUE, defer |-> FALSE]}
  /\ stage \in {"start", "full", "pre", "fg"}
  /\ pc \in {"run", "suspended"} => stack # <<>>
  /\ pc = "error" => stack[1].quick
  /\ pc = "teleport" => Pending
  /\ pc \in {"idle", "scene"} => ~requested
  /\ pc \in {"idle", "calling"} => LeftForNext
  /\ stage = "fg" /\ pc \notin {"teleport", "preupdate"} => tp.run

IInv == /\ Shape /\ EventsOK(map, ev, stack) /\ FramesOK(map, stack) /\ Flow
        /\ needRefresh \/ Current(map, holds, ev)

-----------------------------------------------------------------------------
(* What happens to one event                                               *)

LEMMA Limits == /\ CallDepth \in Nat /\ CallDepth >= 2
                /\ LoopLimit \in Nat \ {0} /\ Maps # {}
BY EventsAssumption DEF EventsAssumption

LEMMA EventIds == ASSUME NEW m \in Maps, NEW e \in Ids(m)
                  PROVE  e \in Nat /\ e # 0
<1>1. EventsOf[m] \in Seq(Nat \ {0})
  BY EventsAssumption DEF EventsAssumption
<1>2. PICK i \in 1 .. Len(EventsOf[m]) : e = EventsOf[m][i]
  BY DEF Ids
<1>3. EventsOf[m][i] \in Nat \ {0}
  BY <1>1, <1>2
<1> QED
  BY <1>2, <1>3

LEMMA ScheduledKeeps ==
  ASSUME NEW m, NEW e, NEW s, NEW r, Accounted(m, e, r, s)
  PROVE  Accounted(m, e, Scheduled(r), s) /\ Scheduled(r).page = r.page
<1>1. CASE r.active /\ ~r.waiting /\ r.page.commands
  <2>1. Scheduled(r) = [page |-> r.page, called |-> r.page,
                        active |-> r.active, waiting |-> TRUE,
                        paused |-> TRUE, onTop |-> FALSE]
    BY <1>1 DEF Scheduled, Accounted, Shaped
  <2> QED
    BY <2>1 DEF Accounted, Shaped
<1>2. CASE ~(r.active /\ ~r.waiting /\ r.page.commands)
  BY <1>2, Zenon DEF Scheduled
<1> QED
  BY <1>1, <1>2

LEMMA TurnToKeeps ==
  ASSUME NEW m, NEW e, NEW s, NEW r, Accounted(m, e, r, s),
         NEW p \in {PageOf[m][e][b] : b \in BOOLEAN}
  PROVE  Accounted(m, e, TurnTo(r, p), s) /\ TurnTo(r, p).page = p
<1>1. CASE p = r.page /\ p # NoPage
  BY <1>1, Zenon DEF TurnTo
<1>2. CASE ~(p = r.page /\ p # NoPage)
  <2>1. TurnTo(r, p) = [page |-> p, called |-> NoPage, active |-> r.active,
                        waiting |-> FALSE, paused |-> FALSE, onTop |-> FALSE]
    BY <1>2 DEF TurnTo, Accounted, Shaped
  <2> QED
    BY <2>1 DEF Accounted, Shaped
<1> QED
  BY <1>1, <1>2

LEMMA ErasedKeeps ==
  ASSUME NEW m, NEW e, NEW s, NEW r, Accounted(m, e, r, s),
         NEW q, q = [r EXCEPT !.active = FALSE]
  PROVE  Accounted(m, e, q, s) /\ q.page = r.page
<1>1. q = [page |-> r.page, called |-> r.called, active |-> FALSE,
           waiting |-> r.waiting, paused |-> r.paused, onTop |-> r.onTop]
  BY DEF Accounted, Shaped
<1> QED
  BY <1>1 DEF Accounted, Shaped

(* The two ways to lose a flag, by names of their own                      *)
Reported(r)   == [r EXCEPT !.paused = FALSE, !.onTop = FALSE]
TakenUp(r, b) == [r EXCEPT !.waiting = FALSE, !.called = NoPage, !.onTop = b]

LEMMA ReportedKeeps ==
  ASSUME NEW m, NEW e, NEW s, NEW r, Accounted(m, e, r, s), NEW s2
  PROVE  Accounted(m, e, Reported(r), s2) /\ Reported(r).page = r.page
<1> SUFFICES ASSUME NEW q, q = Reported(r)
             PROVE  Accounted(m, e, q, s2) /\ q.page = r.page
  BY Zenon
<1>1. q = [page |-> r.page, called |-> r.called, active |-> r.active,
           waiting |-> r.waiting, paused |-> FALSE, onTop |-> FALSE]
  BY DEF Accounted, Shaped, Reported
<1> QED
  BY <1>1 DEF Accounted, Shaped

LEMMA TakenUpKeeps ==
  ASSUME NEW m, NEW e, NEW s, NEW r, Accounted(m, e, r, s), NEW b, NEW s2,
         b \/ ~r.active \/ (s2 # <<>> /\ s2[1].id = e)
  PROVE  Accounted(m, e, TakenUp(r, b), s2) /\ TakenUp(r, b).page = r.page
<1> SUFFICES ASSUME NEW q, q = TakenUp(r, b)
             PROVE  Accounted(m, e, q, s2) /\ q.page = r.page
  BY Zenon
<1>1. q = [page |-> r.page, called |-> NoPage, active |-> r.active,
           waiting |-> FALSE, paused |-> r.paused, onTop |-> b]
  BY DEF Accounted, Shaped, TakenUp
<1> QED
  BY <1>1 DEF Accounted, Shaped

LEMMA AutostartedKeeps ==
  ASSUME NEW m, NEW e, NEW s, NEW r, Accounted(m, e, r, s)
  PROVE  Accounted(m, e, Autostarted(r), s) /\ Autostarted(r).page = r.page
BY ScheduledKeeps, Zenon DEF Autostarted

LEMMA CollidedKeeps ==
  ASSUME NEW m, NEW e, NEW s, NEW r, NEW t, Accounted(m, e, r, s)
  PROVE  Accounted(m, e, Collided(t, e, r), s) /\ Collided(t, e, r).page = r.page
BY ScheduledKeeps, Zenon DEF Collided

LEMMA BumpedKeeps ==
  ASSUME NEW m, NEW e, NEW s, NEW r, NEW t, Accounted(m, e, r, s)
  PROVE  Accounted(m, e, Bumped(t, e, r), s) /\ Bumped(t, e, r).page = r.page
BY ScheduledKeeps, Zenon DEF Bumped

(* What happens to all events of a map: triggered, they keep their pages.  *)
SamePages(m, evs, evs2) == \A e \in Ids(m) : evs2[e].page = evs[e].page

LEMMA ScheduleAllKeeps ==
  ASSUME NEW m, NEW s, NEW evs, NEW t, NEW same, NEW triggers,
         EventsOK(m, evs, s)
  PROVE  /\ EventsOK(m, ScheduleAll(evs, t, same, triggers), s)
         /\ SamePages(m, evs, ScheduleAll(evs, t, same, triggers))
<1> DEFINE out == ScheduleAll(evs, t, same, triggers)
<1>1. DOMAIN evs = Ids(m)
  BY DEF EventsOK
<1>2. out = [e \in Ids(m) |-> out[e]]
  BY <1>1 DEF ScheduleAll
<1>3. ASSUME NEW e \in Ids(m)
      PROVE  Accounted(m, e, out[e], s) /\ out[e].page = evs[e].page
  <2>1. out[e] = Scheduled(evs[e]) \/ out[e] = evs[e]
    BY <1>1, <1>3 DEF ScheduleAll
  <2>2. Accounted(m, e, evs[e], s)
    BY <1>3 DEF EventsOK
  <2>3. Accounted(m, e, Scheduled(evs[e]), s) /\ Scheduled(evs[e]).page = evs[e].page
    BY <2>2, ScheduledKeeps
  <2> HIDE DEF out
  <2> QED
    BY <2>1, <2>2, <2>3, Zenon
<1> HIDE DEF out
<1>4. EventsOK(m, out, s) /\ SamePages(m, evs, out)
  BY <1>2, <1>3, Zenon DEF EventsOK, SamePages
<1> QED
  BY <1>4 DEF out

LEMMA TriggerHereKeeps ==
  ASSUME NEW m, NEW s, NEW evs, NEW t, NEW triggers, EventsOK(m, evs, s)
  PROVE  /\ EventsOK(m, TriggerHere(t, evs, triggers), s)
         /\ SamePages(m, evs, TriggerHere(t, evs, triggers))
<1>1. CASE t[1] = "here"
  <2>1. TriggerHere(t, evs, triggers) = ScheduleAll(evs, t, FALSE, triggers)
    BY <1>1, Zenon DEF TriggerHere
  <2> QED
    BY <2>1, ScheduleAllKeeps
<1>2. CASE t[1] # "here"
  BY <1>2, Zenon DEF TriggerHere, SamePages
<1> QED
  BY <1>1, <1>2

LEMMA TriggerThereKeeps ==
  ASSUME NEW m, NEW s, NEW evs, NEW t, NEW triggers, EventsOK(m, evs, s)
  PROVE  /\ EventsOK(m, TriggerThere(t, evs, triggers), s)
         /\ SamePages(m, evs, TriggerThere(t, evs, triggers))
<1>1. CASE t[1] = "before"
  <2>1. TriggerThere(t, evs, triggers) = ScheduleAll(evs, t, TRUE, triggers)
    BY <1>1, Zenon DEF TriggerThere
  <2> QED
    BY <2>1, ScheduleAllKeeps
<1>2. CASE t[1] # "before"
  BY <1>2, Zenon DEF TriggerThere, SamePages
<1> QED
  BY <1>1, <1>2

LEMMA ActsKeep ==
  ASSUME NEW m, NEW s, NEW evs, NEW t, EventsOK(m, evs, s)
  PROVE  /\ EventsOK(m, Blocked(t, evs), s) /\ SamePages(m, evs, Blocked(t, evs))
         /\ EventsOK(m, Decided(t, evs), s) /\ SamePages(m, evs, Decided(t, evs))
<1>1. EventsOK(m, Blocked(t, evs), s) /\ SamePages(m, evs, Blocked(t, evs))
  BY TriggerThereKeeps, Zenon DEF Blocked
<1> DEFINE faced == TriggerThere(t, evs, {"touch", "collision"})
           stood == TriggerHere(t, faced, {"action"})
           acted == TriggerThere(t, stood, {"action"})
<1>2. EventsOK(m, faced, s) /\ SamePages(m, evs, faced)
  BY TriggerThereKeeps, Zenon
<1>3. EventsOK(m, stood, s) /\ SamePages(m, faced, stood)
  BY <1>2, TriggerHereKeeps, Zenon
<1>4. EventsOK(m, acted, s) /\ SamePages(m, stood, acted)
  BY <1>3, TriggerThereKeeps, Zenon
<1>5. Decided(t, evs) = acted
  BY Zenon DEF Decided
<1> HIDE DEF faced, stood, acted
<1>6. SamePages(m, evs, acted)
  BY <1>2, <1>3, <1>4, Zenon DEF SamePages
<1> QED
  BY <1>1, <1>4, <1>5, <1>6, Zenon

LEMMA CurrentStays ==
  ASSUME NEW m, NEW h, NEW evs, NEW evs2, SamePages(m, evs, evs2),
         Current(m, h, evs)
  PROVE  Current(m, h, evs2)
BY Zenon DEF Current, SamePages

(* A refresh brings every page up to date, and a new map starts with them. *)
LEMMA TurnedKeeps ==
  ASSUME NEW m, NEW s, NEW evs, NEW h \in BOOLEAN, EventsOK(m, evs, s)
  PROVE  LET out == [e \in DOMAIN evs |-> TurnTo(evs[e], PageOf[m][e][h])]
         IN  EventsOK(m, out, s) /\ Current(m, h, out)
<1> DEFINE out == [e \in DOMAIN evs |-> TurnTo(evs[e], PageOf[m][e][h])]
<1>1. DOMAIN evs = Ids(m)
  BY DEF EventsOK
<1>2. out = [e \in Ids(m) |-> out[e]]
  BY <1>1
<1>3. ASSUME NEW e \in Ids(m)
      PROVE  Accounted(m, e, out[e], s) /\ out[e].page = PageOf[m][e][h]
  <2>1. out[e] = TurnTo(evs[e], PageOf[m][e][h])
    BY <1>1, <1>3
  <2>2. Accounted(m, e, evs[e], s)
    BY <1>3 DEF EventsOK
  <2>3. PageOf[m][e][h] \in {PageOf[m][e][b] : b \in BOOLEAN}
    OBVIOUS
  <2> HIDE DEF out
  <2> QED
    BY <2>1, <2>2, <2>3, TurnToKeeps
<1> HIDE DEF out
<1>4. EventsOK(m, out, s) /\ Current(m, h, out)
  BY <1>2, <1>3, Zenon DEF EventsOK, Current
<1> QED
  BY <1>4 DEF out

LEMMA RefreshedKeeps ==
  ASSUME Shape, EventsOK(map, ev, stack), needRefresh \/ Current(map, holds, ev)
  PROVE  EventsOK(map, Refreshed(ev), stack) /\ Current(map, holds, Refreshed(ev))
<1>1. CASE needRefresh
  BY <1>1, TurnedKeeps, Zenon DEF Refreshed, Shape
<1>2. CASE ~needRefresh
  BY <1>2, Zenon DEF Refreshed
<1> QED
  BY <1>1, <1>2

LEMMA CreatedKeeps ==
  ASSUME Shape, NEW m, NEW s
  PROVE  EventsOK(m, Created(m), s) /\ Current(m, holds, Created(m))
<1>1. ASSUME NEW e \in Ids(m)
      PROVE  Accounted(m, e, Created(m)[e], s)
  <2>1. Created(m)[e] = [page |-> PageOf[m][e][holds], called |-> NoPage,
                         active |-> TRUE, waiting |-> FALSE,
                         paused |-> FALSE, onTop |-> FALSE]
    BY <1>1 DEF Created
  <2>2. holds \in BOOLEAN
    BY DEF Shape
  <2> QED
    BY <2>1, <2>2 DEF Accounted, Shaped
<1>2. Created(m) = [e \in Ids(m) |-> Created(m)[e]]
  BY DEF Created
<1>3. Current(m, holds, Created(m))
  BY DEF Current, Created
<1> QED
  BY <1>1, <1>2, <1>3, Zenon DEF EventsOK

-----------------------------------------------------------------------------
(* An update of the map, up to the events of the foreground                *)

(* Most steps leave the map and the stack alone.                           *)
LEMMA StackStays ==
  ASSUME IInv, UNCHANGED <<map, stack>>, Shape', Flow',
         EventsOK(map, ev', stack), needRefresh' \/ Current(map, holds', ev')
  PROVE  IInv'
<1>1. FramesOK(map, stack)'
  BY DEF IInv
<1> QED
  BY <1>1 DEF IInv

(* ... and many of them the rest of what Shape is about.                   *)
LEMMA ShapeStays ==
  ASSUME Shape, UNCHANGED <<map, holds, loopCount, target>>
  PROVE  Shape'
BY DEF Shape

LEMMA EnterKeeps ==
  ASSUME IInv, NEW st \in {"full", "pre"}, EnterEvents(st),
         UNCHANGED <<map, holds, requested, target, stack, loopCount>>,
         tp' \in {NoParams, tp}
  PROVE  IInv'
<1>1. EventsOK(map, ev', stack) /\ Current(map, holds', ev')
  BY RefreshedKeeps DEF EnterEvents, IInv
<1>2. Flow'
  BY DEF IInv, Flow, EnterEvents, NoParams
<1> QED
  BY <1>1, <1>2, ShapeStays, StackStays DEF IInv

LEMMA ParallelEventKeeps ==
  ASSUME IInv, ParallelEvent, tp' = tp
  PROVE  IInv'
<1>1. Flow'
  BY DEF IInv, Flow, ParallelEvent, LeftForNext, Pending
<1>2. CASE UNCHANGED <<holds, ev>>
  <2>1. Shape'
    <3>1. target' \in Targets \cup {NoTarget}
      <4>1. TeleportsTo.parallel \subseteq Maps
        BY EventsAssumption DEF EventsAssumption
      <4>2. CASE target' = target
        BY <4>2 DEF IInv, Shape
      <4>3. CASE \E m \in TeleportsTo.parallel :
                   target' = [map |-> m, type |-> "parallel"]
        BY <4>1, <4>3 DEF Targets
      <4> QED
        BY <4>2, <4>3 DEF ParallelEvent
    <3> QED
      BY <1>2, <3>1 DEF IInv, Shape, ParallelEvent
  <2> QED
    BY <1>1, <1>2, <2>1, StackStays DEF IInv, ParallelEvent
<1>3. CASE /\ holds' = ~holds
           /\ ev' = [e \in DOMAIN ev |-> TurnTo(ev[e], PageOf[map][e][~holds])]
           /\ UNCHANGED <<requested, target>>
  <2>1. (~holds) \in BOOLEAN
    BY Zenon
  <2>2. EventsOK(map, ev', stack) /\ Current(map, ~holds, ev')
    BY <1>3, <2>1, TurnedKeeps, Zenon DEF IInv
  <2>3. Shape'
    BY <1>3, <2>1 DEF IInv, Shape, ParallelEvent
  <2>4. Current(map, holds', ev')
    BY <1>3, <2>2, Zenon
  <2>5. UNCHANGED <<map, stack>>
    BY DEF ParallelEvent
  <2> QED
    BY <1>1, <2>2, <2>3, <2>4, <2>5, StackStays, Zenon
<1> QED
  BY <1>2, <1>3 DEF ParallelEvent

LEMMA OneEventKeeps ==
  ASSUME NEW m, NEW s, NEW evs, EventsOK(m, evs, s), NEW e \in Ids(m),
         NEW r, Accounted(m, e, r, s), r.page = evs[e].page
  PROVE  /\ EventsOK(m, [evs EXCEPT ![e] = r], s)
         /\ SamePages(m, evs, [evs EXCEPT ![e] = r])
<1> DEFINE out == [evs EXCEPT ![e] = r]
<1>1. evs = [i \in Ids(m) |-> evs[i]]
  BY DEF EventsOK
<1>2. out = [i \in Ids(m) |-> out[i]]
  BY <1>1
<1>3. \A i \in Ids(m) : out[i] = IF i = e THEN r ELSE evs[i]
  BY <1>1
<1> HIDE DEF out
<1>4. EventsOK(m, out, s) /\ SamePages(m, evs, out)
  BY <1>2, <1>3 DEF EventsOK, SamePages
<1> QED
  BY <1>4 DEF out

LEMMA UpdateEventKeeps ==
  ASSUME IInv, UpdateEvent, tp' = tp
  PROVE  IInv'
<1> DEFINE e == EventsOf[map][k]
<1>1. e \in Ids(map)
  BY DEF UpdateEvent, Ids
<1>2. Accounted(map, e, ev[e], stack)
  BY <1>1 DEF IInv, EventsOK
<1>3. EventsOK(map, ev', stack) /\ SamePages(map, ev, ev')
  <2>1. CASE ev' = ev
    BY <2>1 DEF IInv, SamePages
  <2>2. ASSUME NEW t, NEW routed \in {ev[e], Bumped(t, e, ev[e])}, NEW r,
               r = Collided(t, e, Autostarted(routed)),
               \/ ev' = [ev EXCEPT ![e] = r]
               \/ ev' = [ev EXCEPT ![e] = Bumped(t, e, r)]
        PROVE  EventsOK(map, ev', stack) /\ SamePages(map, ev, ev')
    <3>0. Accounted(map, e, routed, stack) /\ routed.page = ev[e].page
      BY <1>2, BumpedKeeps
    <3>1. /\ Accounted(map, e, Autostarted(routed), stack)
          /\ Autostarted(routed).page = ev[e].page
      BY <3>0, AutostartedKeeps
    <3>2. Accounted(map, e, r, stack) /\ r.page = ev[e].page
      BY <2>2, <3>1, CollidedKeeps
    <3>3. /\ Accounted(map, e, Bumped(t, e, r), stack)
          /\ Bumped(t, e, r).page = ev[e].page
      BY <3>2, BumpedKeeps
    <3> HIDE DEF e
    <3> QED
      BY <1>1, <2>2, <3>2, <3>3, OneEventKeeps DEF IInv
  <2> HIDE DEF e
  <2>3. \/ ev' = ev
        \/ \E t : \E routed \in {ev[e], Bumped(t, e, ev[e])} :
             LET r == Collided(t, e, Autostarted(routed))
             IN  \/ ev' = [ev EXCEPT ![e] = r]
                 \/ ev' = [ev EXCEPT ![e] = Bumped(t, e, r)]
    BY Zenon DEF UpdateEvent, e
  <2> QED
    BY <2>1, <2>2, <2>3, Zenon
<1>4. needRefresh' \/ Current(map, holds', ev')
  BY <1>3, CurrentStays DEF IInv, UpdateEvent
<1>5. Flow'
  BY DEF IInv, Flow, UpdateEvent, LeftForNext, Pending
<1> QED
  BY <1>3, <1>4, <1>5, ShapeStays, StackStays DEF IInv, UpdateEvent

LEMMA EventsDoneKeeps ==
  ASSUME IInv, EventsDone, tp' = tp
  PROVE  IInv'
<1>1. Flow'
  BY DEF IInv, Flow, EventsDone, LeftForNext, Pending
<1> QED
  BY <1>1, ShapeStays, StackStays DEF IInv, EventsDone

(* The player triggers events, which keep their pages, and no more.        *)
LEMMA PlayersKeep ==
  ASSUME IInv, tp' = tp,
         \/ PlayerMoves \/ PlayerWaits \/ PlayerCalls \/ PlayerStarts
         \/ PlayerWalks \/ PlayerActs
  PROVE  IInv'
<1>1. EventsOK(map, ev', stack) /\ SamePages(map, ev, ev')
  <2>1. EventsOK(map, ev, stack) /\ SamePages(map, ev, ev)
    BY DEF IInv, SamePages
  <2>2. \A t, triggers : /\ EventsOK(map, TriggerHere(t, ev, triggers), stack)
                         /\ SamePages(map, ev, TriggerHere(t, ev, triggers))
    BY <2>1, TriggerHereKeeps
  <2>3. CASE PlayerMoves \/ PlayerWaits \/ PlayerCalls \/ PlayerStarts \/ PlayerWalks
    BY <2>1, <2>2, <2>3, Zenon
       DEF PlayerMoves, PlayerWaits, PlayerCalls, PlayerStarts, PlayerWalks, Here
  <2>4. CASE PlayerActs
    <3>1. PICK t : ev' \in {Blocked(t, Here(t)), Decided(t, Here(t)),
                            Decided(t, Blocked(t, Here(t)))}
      BY <2>4 DEF PlayerActs
    <3>2. EventsOK(map, Here(t), stack) /\ SamePages(map, ev, Here(t))
      BY <2>2, Zenon DEF Here
    <3>3. /\ EventsOK(map, Blocked(t, Here(t)), stack)
          /\ SamePages(map, Here(t), Blocked(t, Here(t)))
          /\ EventsOK(map, Decided(t, Here(t)), stack)
          /\ SamePages(map, Here(t), Decided(t, Here(t)))
      BY <3>2, ActsKeep
    <3>4. /\ EventsOK(map, Decided(t, Blocked(t, Here(t))), stack)
          /\ SamePages(map, Blocked(t, Here(t)), Decided(t, Blocked(t, Here(t))))
      BY <3>3, ActsKeep
    <3>5. EventsOK(map, ev', stack)
      BY <3>1, <3>3, <3>4
    <3>6. SamePages(map, ev, ev')
      BY <3>1, <3>2, <3>3, <3>4 DEF SamePages
    <3> QED
      BY <3>5, <3>6
  <2> QED
    BY <2>3, <2>4
<1>2. PlayerDone /\ requested' \in {requested, TRUE}
  BY DEF PlayerMoves, PlayerWaits, PlayerCalls, PlayerStarts, PlayerWalks, PlayerActs, Walks
<1>3. needRefresh' \/ Current(map, holds', ev')
  BY <1>1, <1>2, CurrentStays DEF IInv, PlayerDone
<1>4. Flow'
  BY <1>2 DEF IInv, Flow, PlayerDone, LeftForNext, Pending
<1> QED
  BY <1>1, <1>2, <1>3, <1>4, ShapeStays, StackStays DEF IInv, PlayerDone

LEMMA TimersKeep ==
  ASSUME IInv, Timers, tp' = tp
  PROVE  IInv'
<1>1. Flow'
  BY DEF IInv, Flow, Timers, LeftForNext, Pending
<1>2. Shape'
  BY DEF IInv, Shape, Timers
<1>3. needRefresh' \/ Current(map, holds', ev')
  BY Zenon DEF IInv, Timers
<1> QED
  BY <1>1, <1>2, <1>3, StackStays DEF IInv, Timers

LEMMA ForegroundKeeps ==
  ASSUME IInv, Foreground, tp' = tp
  PROVE  IInv'
<1>1. Flow'
  BY DEF IInv, Flow, Foreground, Running, LeftForNext, Pending
<1> QED
  BY <1>1, ShapeStays, StackStays DEF IInv, Foreground

LEMMA DrainDoneKeeps ==
  ASSUME IInv, DrainDone, tp' = tp
  PROVE  IInv'
<1>1. Flow'
  BY DEF IInv, Flow, DrainDone, LeftForNext, Pending
<1>2. Shape'
  BY Limits DEF IInv, Shape, DrainDone
<1> QED
  BY <1>1, <1>2, StackStays DEF IInv, DrainDone

-----------------------------------------------------------------------------
(* The stack of the foreground                                             *)

(* It is the frame at the base that answers for a paused event.            *)
LEMMA BaseAnswers ==
  ASSUME NEW m, NEW evs, NEW s, NEW s2, EventsOK(m, evs, s),
         s # <<>> => s2 # <<>> /\ s2[1].id = s[1].id
  PROVE  EventsOK(m, evs, s2)
BY DEF EventsOK, Accounted

LEMMA BegunKeeps ==
  ASSUME FramesOK(map, stack), stack # <<>>
  PROVE  /\ FramesOK(map, Begun) /\ Begun # <<>> /\ Len(Begun) = Len(stack)
         /\ Begun[1].id = stack[1].id /\ Begun[1].quick = stack[1].quick
<1>1. /\ stack \in Seq(Frames) /\ Len(stack) \in 1 .. Len(stack)
      /\ 1 \in 1 .. Len(stack)
  BY DEF FramesOK
<1>2. \A n \in 1 .. Len(stack) : stack[n] \in Frames
  BY <1>1
<1> DEFINE last == Len(stack)
           f == [stack[last] EXCEPT !.begun = TRUE]
<1>3. Begun = [stack EXCEPT ![last] = f] /\ f \in Frames /\ last \in 1 .. Len(stack)
  BY <1>1, <1>2 DEF Begun, Frames
<1>4. stack \in [1 .. Len(stack) -> Frames]
  BY <1>1
<1>5. f.id = stack[last].id /\ f.quick = stack[last].quick /\ f.home = stack[last].home
  BY <1>2 DEF Frames
<1> HIDE DEF f, last
<1>6. Begun \in [1 .. Len(stack) -> Frames]
  BY <1>3, <1>4
<1>7. \A n \in 1 .. Len(stack) : Begun[n] = IF n = last THEN f ELSE stack[n]
  BY <1>3, <1>4
<1>8. \A n \in 1 .. Len(stack) :
        /\ Begun[n] \in Frames /\ Begun[n].id = stack[n].id
        /\ Begun[n].quick = stack[n].quick /\ Begun[n].home = stack[n].home
  BY <1>2, <1>7, <1>3, <1>5
<1> HIDE DEF Begun
<1>9. Begun \in Seq(Frames) /\ Len(Begun) = Len(stack)
  BY <1>1, <1>6
<1>10. \A n \in 1 .. Len(Begun) : Belongs(map, Begun[n])
  BY <1>8, <1>9 DEF FramesOK, Belongs
<1>11. FramesOK(map, Begun)
  BY <1>9, <1>10 DEF FramesOK
<1> QED
  BY <1>1, <1>8, <1>9, <1>11

LEMMA PushKeeps ==
  ASSUME NEW m, NEW s, NEW f \in Frames, FramesOK(m, s), Len(s) < CallDepth,
         Belongs(m, f)
  PROVE  FramesOK(m, Append(s, f))
<1>1. s \in Seq(Frames)
  BY DEF FramesOK
<1>2. Append(s, f) \in Seq(Frames) /\ Len(Append(s, f)) = Len(s) + 1
  BY <1>1
<1>3. \A n \in 1 .. Len(s) + 1 :
        Append(s, f)[n] = IF n = Len(s) + 1 THEN f ELSE s[n]
  BY <1>1
<1>4. Len(s) + 1 <= CallDepth
  BY <1>1, Limits
<1>5. \A n \in 1 .. Len(s) + 1 : n # Len(s) + 1 => n \in 1 .. Len(s)
  BY <1>1
<1>6. \A n \in 1 .. Len(Append(s, f)) : Belongs(m, Append(s, f)[n])
  BY <1>2, <1>3, <1>5 DEF FramesOK
<1> QED
  BY <1>2, <1>4, <1>6 DEF FramesOK

LEMMA DropKeeps ==
  ASSUME FramesOK(map, stack), Len(stack) > 1
  PROVE  /\ FramesOK(map, Drop) /\ Drop # <<>>
         /\ Drop[1] = stack[1]
<1>1. stack \in Seq(Frames) /\ Len(stack) \in Nat
  BY DEF FramesOK
<1>2. /\ Drop \in Seq(Frames) /\ Len(Drop) = Len(stack) - 1
      /\ \A n \in 1 .. Len(stack) - 1 : Drop[n] = stack[n]
  BY <1>1 DEF Drop
<1>3. Len(Drop) <= CallDepth /\ 1 \in 1 .. Len(stack) - 1
  BY <1>1, <1>2, Limits DEF FramesOK
<1>4. \A n \in 1 .. Len(stack) - 1 : n \in 1 .. Len(stack)
  BY <1>1
<1>5. FramesOK(map, Drop)
  BY <1>2, <1>3, <1>4 DEF FramesOK
<1>6. Len(Drop) # 0
  BY <1>1, <1>2
<1> QED
  BY <1>2, <1>3, <1>5, <1>6

LEMMA FrameBelongs ==
  ASSUME map \in Maps, NEW e \in Ids(map) \cup {0}
  PROVE  Frame(e) \in Frames /\ Belongs(map, Frame(e))
BY EventIds DEF Frame, Frames, Belongs

LEMMA RenamedKeeps ==
  ASSUME FramesOK(map, stack), NEW m
  PROVE  FramesOK(m, OnMapChange(stack)) /\ Len(OnMapChange(stack)) = Len(stack)
<1> DEFINE out == OnMapChange(stack)
<1>1. stack \in Seq(Frames) /\ Len(stack) \in Nat
  BY DEF FramesOK
<1>2. \A n \in 1 .. Len(stack) : stack[n] \in Frames
  BY <1>1
<1>3. /\ out = [n \in 1 .. Len(stack) |-> out[n]]
      /\ \A n \in 1 .. Len(stack) : out[n] = [stack[n] EXCEPT !.id = 0]
  BY DEF OnMapChange
<1>4. \A n \in 1 .. Len(stack) : out[n] \in Frames /\ out[n].id = 0
  BY <1>2, <1>3 DEF Frames
<1> HIDE DEF out
<1>5. out \in Seq(Frames) /\ Len(out) = Len(stack)
  BY <1>1, <1>3, <1>4
<1>6. FramesOK(m, out)
  BY <1>4, <1>5 DEF FramesOK, Belongs
<1> QED
  BY <1>5, <1>6 DEF out

LEMMA QuickKeeps ==
  ASSUME FramesOK(map, stack), NEW m
  PROVE  LET out == [n \in 1 .. Len(stack) |-> [stack[n] EXCEPT !.quick = TRUE]]
         IN  FramesOK(m, out) /\ Len(out) = Len(stack)
<1> DEFINE out == [n \in 1 .. Len(stack) |-> [stack[n] EXCEPT !.quick = TRUE]]
<1>1. stack \in Seq(Frames) /\ Len(stack) \in Nat
  BY DEF FramesOK
<1>2. \A n \in 1 .. Len(stack) : stack[n] \in Frames
  BY <1>1
<1>3. /\ out = [n \in 1 .. Len(stack) |-> out[n]]
      /\ \A n \in 1 .. Len(stack) : out[n] = [stack[n] EXCEPT !.quick = TRUE]
  OBVIOUS
<1>4. \A n \in 1 .. Len(stack) : out[n] \in Frames /\ out[n].quick
  BY <1>2, <1>3 DEF Frames
<1> HIDE DEF out
<1>5. out \in Seq(Frames) /\ Len(out) = Len(stack)
  BY <1>1, <1>3, <1>4
<1>6. FramesOK(m, out)
  BY <1>4, <1>5 DEF FramesOK, Belongs
<1> QED
  BY <1>5, <1>6 DEF out

-----------------------------------------------------------------------------
(* The interpreter *)

LEMMA RKeeps ==
  ASSUME IInv
  PROVE  EventsOK(map, R, stack) /\ Current(map, holds, R)
BY RefreshedKeeps DEF IInv, R

(* A command leaves a frame at the base and the events in order.           *)
LEMMA CommandKeeps ==
  ASSUME IInv, InLoop, tp' = tp, pc' \in {"run", "drain", "suspended"},
         FramesOK(map, stack'), stack' # <<>>, stack'[1].id = stack[1].id,
         loopCount' \in 0 .. LoopLimit, holds' \in BOOLEAN,
         target' \in Targets \cup {NoTarget},
         EventsOK(map, ev', stack), needRefresh' \/ Current(map, holds', ev')
  PROVE  IInv'
<1>1. UNCHANGED <<map, stage, tp>> /\ pc = "run"
  BY DEF InLoop
<1>2. EventsOK(map, ev', stack')
  BY BaseAnswers
<1>3. Flow'
  BY <1>1 DEF IInv, Flow
<1>4. Shape'
  BY <1>1 DEF IInv, Shape
<1> QED
  BY <1>1, <1>2, <1>3, <1>4 DEF IInv

LEMMA StopsKeeps ==
  ASSUME IInv, Stops, tp' = tp
  PROVE  IInv'
<1>1. stack # <<>> /\ InLoop /\ pc' = "drain"
  BY DEF IInv, Flow, Stops, Leaves, InLoop
<1>2. /\ FramesOK(map, stack') /\ stack' = stack
      /\ loopCount' \in 0 .. LoopLimit /\ holds' \in BOOLEAN
      /\ target' \in Targets \cup {NoTarget}
  BY DEF IInv, Shape, Stops, Leaves
<1>3. EventsOK(map, ev', stack) /\ Current(map, holds', ev')
  BY RKeeps, Zenon DEF Stops, Leaves
<1> QED
  BY <1>1, <1>2, <1>3, CommandKeeps

(* What the commands have in common                                        *)
LEMMA BegunAgain ==
  ASSUME IInv, InLoop
  PROVE  /\ stack # <<>> /\ stack \in Seq(Frames)
         /\ FramesOK(map, Begun) /\ Begun # <<>> /\ Len(Begun) = Len(stack)
         /\ Begun[1].id = stack[1].id
BY BegunKeeps DEF IInv, Flow, InLoop, FramesOK

LEMMA CountStays ==
  ASSUME IInv, ~AtLimit
  PROVE  loopCount + 1 \in 0 .. LoopLimit
BY Limits DEF IInv, Shape, AtLimit

LEMMA LoopsKeep ==
  ASSUME IInv, tp' = tp, stack' = Begun,
         Plain \/ ControlSwitches \/ OpenScene \/ Teleport \/ SetVehicleLocation
  PROVE  IInv'
<1>1. InLoop /\ ~AtLimit /\ loopCount' \in {loopCount, loopCount + 1}
  BY DEF Plain, ControlSwitches, OpenScene, Teleport, SetVehicleLocation,
         Iterates, Goes, Leaves
<1>2. pc' \in {"run", "drain", "suspended"}
  BY DEF Plain, ControlSwitches, OpenScene, Teleport, SetVehicleLocation,
         Iterates, Goes, Leaves, InLoop
<1>3. loopCount' \in 0 .. LoopLimit
  BY <1>1, CountStays DEF IInv, Shape
<1>4. holds' \in BOOLEAN
  <2>1. holds' = holds \/ holds' = ~holds
    BY DEF Plain, ControlSwitches, OpenScene, Teleport, SetVehicleLocation, Leaves
  <2>2. (~holds) \in BOOLEAN
    BY Zenon
  <2>3. holds \in BOOLEAN
    BY DEF IInv, Shape
  <2> QED
    BY <2>1, <2>2, <2>3, Zenon
<1>5. target' \in Targets \cup {NoTarget}
  <2>1. target \in Targets \cup {NoTarget}
    BY DEF IInv, Shape
  <2>2. CASE Teleport
    <3>1. TeleportsTo.foreground \subseteq Maps
      BY EventsAssumption DEF EventsAssumption
    <3> QED
      BY <2>2, <3>1 DEF Teleport, Targets
  <2> QED
    BY <2>1, <2>2 DEF Plain, ControlSwitches, OpenScene, SetVehicleLocation
<1>6. ev' = R
  BY DEF Plain, ControlSwitches, OpenScene, Teleport, SetVehicleLocation
<1>7. holds' = holds \/ needRefresh' = TRUE
  BY DEF Plain, ControlSwitches, OpenScene, Teleport, SetVehicleLocation, Leaves
<1>8. EventsOK(map, ev', stack) /\ (needRefresh' \/ Current(map, holds', ev'))
  BY <1>6, <1>7, RKeeps, Zenon
<1> QED
  BY <1>1, <1>2, <1>3, <1>4, <1>5, <1>8, BegunAgain, CommandKeeps

LEMMA CallEventKeeps ==
  ASSUME IInv, CallEvent, tp' = tp
  PROVE  IInv'
<1>1. InLoop /\ ~AtLimit /\ loopCount' = loopCount + 1 /\ pc' = "run"
  BY DEF CallEvent, Iterates, Goes, InLoop
<1>2. PICK e \in Ids(map) \cup {0} : stack' = Append(Begun, Frame(e))
  BY DEF CallEvent
<1>3. Frame(e) \in Frames /\ Belongs(map, Frame(e))
  BY FrameBelongs DEF IInv, Shape
<1>4. FramesOK(map, stack')
  BY <1>1, <1>2, <1>3, BegunAgain, PushKeeps DEF CallEvent
<1>5. stack' # <<>> /\ stack'[1].id = stack[1].id
  <2>1. Begun \in Seq(Frames) /\ Begun # <<>>
    BY <1>1, BegunAgain DEF FramesOK
  <2>2. stack' # <<>> /\ stack'[1] = Begun[1]
    BY <1>2, <1>3, <2>1
  <2> QED
    BY <1>1, <2>2, BegunAgain
<1>6. loopCount' \in 0 .. LoopLimit /\ holds' \in BOOLEAN
  BY <1>1, CountStays DEF IInv, Shape, CallEvent
<1>7. target' \in Targets \cup {NoTarget}
  BY DEF IInv, Shape, CallEvent
<1>8. EventsOK(map, ev', stack) /\ Current(map, holds', ev')
  BY RKeeps, Zenon DEF CallEvent
<1> QED
  BY <1>1, <1>4, <1>5, <1>6, <1>7, <1>8, CommandKeeps

LEMMA FinishCalledKeeps ==
  ASSUME IInv, FinishCalled, tp' = tp
  PROVE  IInv'
<1>1. InLoop /\ ~AtLimit /\ loopCount' = loopCount + 1 /\ pc' = "run"
  BY DEF FinishCalled, Iterates, Goes, InLoop
<1>2. FramesOK(map, stack') /\ stack' # <<>> /\ stack'[1].id = stack[1].id
  BY DropKeeps DEF IInv, FinishCalled
<1>3. loopCount' \in 0 .. LoopLimit /\ holds' \in BOOLEAN
  BY <1>1, CountStays DEF IInv, Shape, FinishCalled
<1>4. target' \in Targets \cup {NoTarget}
  BY DEF IInv, Shape, FinishCalled
<1>5. EventsOK(map, ev', stack) /\ Current(map, holds', ev')
  BY RKeeps, Zenon DEF FinishCalled
<1> QED
  BY <1>1, <1>2, <1>3, <1>4, <1>5, CommandKeeps

(* An erased event owes nothing.                                           *)
LEMMA EraseEventKeeps ==
  ASSUME IInv, EraseEvent, tp' = tp
  PROVE  IInv'
<1> DEFINE e == Top.id
           r == [R[e] EXCEPT !.active = FALSE]
<1>1. InLoop /\ ~AtLimit /\ loopCount' = loopCount + 1 /\ pc' = "run"
  BY DEF EraseEvent, Iterates, Goes, InLoop
<1>2. e \in Ids(map) /\ ev' = [R EXCEPT ![e] = r]
  BY DEF EraseEvent
<1>3. EventsOK(map, R, stack) /\ Current(map, holds, R)
  BY RKeeps
<1>4. Accounted(map, e, R[e], stack)
  BY <1>2, <1>3 DEF EventsOK
<1> HIDE DEF e
<1>5. Accounted(map, e, r, stack) /\ r.page = R[e].page
  BY <1>4, ErasedKeeps
<1> HIDE DEF r
<1>6. EventsOK(map, ev', stack) /\ SamePages(map, R, ev')
  BY <1>2, <1>3, <1>5, OneEventKeeps
<1>7. Current(map, holds', ev')
  <2>1. holds' = holds
    BY DEF EraseEvent
  <2> QED
    BY <1>3, <1>6, <2>1, CurrentStays
<1>8. loopCount' \in 0 .. LoopLimit /\ holds' \in BOOLEAN
  BY <1>1, CountStays DEF IInv, Shape, EraseEvent
<1>9. target' \in Targets \cup {NoTarget} /\ stack' = Begun
  BY DEF IInv, Shape, EraseEvent
<1> QED
  BY <1>1, <1>6, <1>7, <1>8, <1>9, BegunAgain, CommandKeeps

(* The base is done, and its event is told.                                *)
LEMMA ToldKeeps ==
  ASSUME NEW m, NEW s, NEW evs, EventsOK(m, evs, s), NEW e, s[1].id = e,
         e \in Ids(m), NEW q,
         q = [evs EXCEPT ![e].paused = FALSE, ![e].onTop = FALSE]
  PROVE  EventsOK(m, q, <<>>) /\ SamePages(m, evs, q)
<1>1. DOMAIN evs = Ids(m) /\ \A i \in Ids(m) : Accounted(m, i, evs[i], s)
  BY DEF EventsOK
<1>2. q = [i \in Ids(m) |-> q[i]] /\ \A i \in Ids(m) \ {e} : q[i] = evs[i]
  BY <1>1
<1>3. q[e] = [evs[e] EXCEPT !.paused = FALSE, !.onTop = FALSE]
  BY <1>1
<1>4. Accounted(m, e, q[e], <<>>) /\ q[e].page = evs[e].page
  <2>1. q[e] = Reported(evs[e])
    BY <1>3 DEF Reported
  <2> QED
    BY <1>1, <2>1, ReportedKeeps
<1>5. \A i \in Ids(m) \ {e} : Accounted(m, i, q[i], <<>>) /\ q[i].page = evs[i].page
  BY <1>1, <1>2 DEF Accounted
<1>6. \A i \in Ids(m) : Accounted(m, i, q[i], <<>>) /\ q[i].page = evs[i].page
  BY <1>4, <1>5
<1> QED
  BY <1>2, <1>6, Zenon DEF EventsOK, SamePages

LEMMA NoFrames == ASSUME NEW m PROVE FramesOK(m, <<>>)
BY Limits DEF FramesOK

LEMMA FinishBaseKeeps ==
  ASSUME IInv, FinishBase, tp' = tp
  PROVE  IInv'
<1>1. /\ InLoop /\ pc = "run" /\ pc' = "drain" /\ UNCHANGED <<map, stage, tp>>
      /\ UNCHANGED <<holds, loopCount, requested, target>> /\ stack' = <<>>
  BY DEF FinishBase, Leaves, InLoop
<1>2. Top = stack[1]
  BY DEF FinishBase, Top
<1>3. EventsOK(map, R, stack) /\ Current(map, holds, R)
  BY RKeeps
<1>4. EventsOK(map, ev', <<>>) /\ SamePages(map, R, ev')
  <2>1. CASE Top.id = 0
    <3>1. ev' = R
      BY <2>1 DEF FinishBase
    <3>2. \A e \in Ids(map) : stack[1].id # e
      BY <1>2, <2>1, EventIds DEF IInv, Shape
    <3>3. EventsOK(map, R, <<>>)
      BY <1>3, <3>2 DEF EventsOK, Accounted
    <3> QED
      BY <3>1, <3>3 DEF SamePages
  <2>2. CASE Top.id # 0
    <3>1. Top.id \in Ids(map)
      BY <2>2 DEF FinishBase
    <3>2. ev' = [R EXCEPT ![Top.id].paused = FALSE, ![Top.id].onTop = FALSE]
      BY <2>2 DEF FinishBase, Finished
    <3> QED
      BY <1>2, <1>3, <3>1, <3>2, ToldKeeps
  <2> QED
    BY <2>1, <2>2
<1>5. Current(map, holds', ev')
  BY <1>1, <1>3, <1>4, CurrentStays
<1>6. EventsOK(map, ev', stack') /\ FramesOK(map, stack')
  BY <1>1, <1>4, NoFrames
<1>7. Flow'
  BY <1>1 DEF IInv, Flow
<1>8. Shape'
  BY <1>1, ShapeStays DEF IInv
<1> QED
  BY <1>1, <1>5, <1>6, <1>7, <1>8 DEF IInv

LEMMA FinishInvalidKeeps ==
  ASSUME IInv, FinishInvalid, tp' = tp
  PROVE  IInv'
<1>1. /\ pc = "run" /\ pc' = "error" /\ UNCHANGED <<map, stage, tp>>
      /\ UNCHANGED <<holds, needRefresh, ev, requested, target, stack, loopCount>>
  BY DEF FinishInvalid, Goes, InLoop
<1>2. stack[1].quick
  <2>1. Top = stack[1] /\ 1 \in 1 .. Len(stack)
    BY DEF FinishInvalid, Top
  <2>2. Belongs(map, stack[1])
    BY <2>1 DEF IInv, FramesOK
  <2> QED
    BY <2>1, <2>2 DEF FinishInvalid, Belongs
<1>3. Flow'
  BY <1>1, <1>2 DEF IInv, Flow
<1> QED
  BY <1>1, <1>3, ShapeStays, StackStays DEF IInv

-----------------------------------------------------------------------------
(* The events that wait are taken up.                                      *)

LEMMA MinIsMember ==
  ASSUME NEW S \in SUBSET Nat, S # {}
  PROVE  Min(S) \in S /\ \A y \in S : Min(S) <= y
<1>1. OpToRel(<, Nat) = {p \in Nat \X Nat : p[1] < p[2]}
  BY DEF OpToRel
<1>2. PICK x \in S : \A y \in S : ~ (<<y, x>> \in OpToRel(<, Nat))
  BY NatLessThanWellFounded, WFMin
<1>3. \A y \in S : x <= y
  <2>1. ASSUME NEW y \in S PROVE x <= y
    <3>1. <<y, x>> \in Nat \X Nat /\ <<y, x>> \notin {p \in Nat \X Nat : p[1] < p[2]}
      BY <1>1, <1>2
    <3>2. ~ (y < x)
      BY <3>1
    <3> QED
      BY <3>2
  <2> QED
    BY <2>1
<1> QED
  BY <1>3 DEF Min

LEMMA First ==
  /\ Startable = {} => FirstOf(Startable) = 0
  /\ Startable # {} => /\ FirstOf(Startable) = EventsOf[map][Min(Startable)]
                       /\ Min(Startable) \in Startable
                       /\ FirstOf(Startable) \in Ids(map)
<1>1. Startable \in SUBSET (1 .. Len(EventsOf[map]))
  BY DEF Startable, WaitingEvents
<1>2. Startable \in SUBSET Nat
  BY <1>1
<1>3. Startable # {} => Min(Startable) \in Startable
  BY <1>2, MinIsMember
<1>4. /\ Startable = {} => FirstOf(Startable) = 0
      /\ Startable # {} => FirstOf(Startable) = EventsOf[map][Min(Startable)]
  BY Zenon DEF FirstOf
<1>5. Startable # {} => EventsOf[map][Min(Startable)] \in Ids(map)
  BY <1>1, <1>3 DEF Ids
<1> QED
  BY <1>3, <1>4, <1>5

(* An event that is passed over has been erased.                           *)
LEMMA PassedAreErased ==
  ASSUME NEW e \in Passed
  PROVE  ~ev[e].active
<1>1. PICK j \in WaitingEvents : /\ \A l \in Startable : j < l
                                 /\ e = EventsOf[map][j]
  BY DEF Passed
<1>2. j \in Nat
  BY DEF WaitingEvents
<1>3. j \notin Startable
  BY <1>1, <1>2
<1> QED
  BY <1>1, <1>3 DEF Startable

LEMMA StartKeeps ==
  ASSUME IInv, Start, tp' = tp
  PROVE  IInv'
<1> DEFINE f   == FirstOf(Startable)
           two == Len(Pushed) = 2
<1>1. /\ pc = "drain" /\ stack = <<>> /\ stack' = Pushed
      /\ UNCHANGED <<map, holds, needRefresh, moving, requested, target, stage, tp>>
      /\ loopCount' = IF Pushed = <<>> THEN 0 ELSE loopCount
      /\ pc' = IF Pushed = <<>> THEN "returned" ELSE "run"
  BY DEF Start, Running, KeptCount
<1>2. f = 0 \/ f \in Ids(map)
  BY First
<1>3. map \in Maps
  BY DEF IInv, Shape
<1>4. f # 0 => f \in Ids(map) /\ f \in Nat
  BY <1>2, <1>3, EventIds
<1> HIDE DEF f
<1>5. /\ CommonStarts /\ f # 0 => Pushed = <<Frame(0), Frame(f)>>
      /\ CommonStarts /\ f = 0 => Pushed = <<Frame(0)>>
      /\ ~CommonStarts /\ f # 0 => Pushed = <<Frame(f)>>
      /\ ~CommonStarts /\ f = 0 => Pushed = <<>>
  <2>1. Pushed = (IF CommonStarts THEN <<Frame(0)>> ELSE <<>>)
                   \o (IF f = 0 THEN <<>> ELSE <<Frame(f)>>)
    BY DEF Pushed, f
  <2>2. \A x, y : <<x>> \o <<y>> = <<x, y>>
    <3>1. \A x, y : <<x>> \o <<y>> = Append(<<x>>, y)
      OBVIOUS
    <3>2. \A x, y : <<x, y>> = Append(<<x>>, y)
      OBVIOUS
    <3> QED
      BY <3>1, <3>2, Zenon
  <2>3. \A x : <<x>> \o <<>> = <<x>>
    OBVIOUS
  <2>4. \A x : <<>> \o <<x>> = <<x>>
    OBVIOUS
  <2>5. <<>> \o <<>> = <<>>
    OBVIOUS
  <2> QED
    BY <2>1, <2>2, <2>3, <2>4, <2>5, Zenon
<1>6. FramesOK(map, Pushed)
  <2>1. Frame(0) \in Frames /\ Belongs(map, Frame(0))
    BY <1>3, FrameBelongs
  <2>2. f # 0 => Frame(f) \in Frames /\ Belongs(map, Frame(f))
    BY <1>3, <1>4, FrameBelongs
  <2>3. FramesOK(map, <<>>)
    BY NoFrames
  <2>4. FramesOK(map, <<Frame(0)>>)
    BY <2>1, Limits DEF FramesOK
  <2>5. f # 0 => FramesOK(map, <<Frame(f)>>)
    BY <2>2, Limits DEF FramesOK
  <2>6. f # 0 => FramesOK(map, <<Frame(0), Frame(f)>>)
    BY <2>1, <2>2, Limits DEF FramesOK
  <2> QED
    BY <1>5, <2>3, <2>4, <2>5, <2>6
<1>7. f # 0 => two \/ (Pushed # <<>> /\ Pushed[1].id = f)
  <2>1. CASE CommonStarts
    BY <1>5, <2>1
  <2>2. CASE ~CommonStarts
    BY <1>5, <2>2 DEF Frame
  <2> QED
    BY <2>1, <2>2
<1> HIDE DEF two
<1>8. DOMAIN ev = Ids(map) /\ \A e \in Ids(map) : Accounted(map, e, ev[e], stack)
  BY DEF IInv, EventsOK
<1>9. ev' = [e \in Ids(map) |->
               IF e \in Passed \cup {f}
                 THEN [ev[e] EXCEPT !.waiting = FALSE, !.called = NoPage, !.onTop = two]
                 ELSE ev[e]]
  BY <1>8 DEF Start, f, two
<1>10. ASSUME NEW e \in Ids(map)
       PROVE  Accounted(map, e, ev'[e], stack') /\ ev'[e].page = ev[e].page
  <2>1. CASE e \in Passed \cup {f}
    <3>1. ev'[e] = [ev[e] EXCEPT !.waiting = FALSE, !.called = NoPage, !.onTop = two]
      BY <1>9, <2>1
    <3>2. two \/ ~ev[e].active \/ (stack' # <<>> /\ stack'[1].id = e)
      <4>1. CASE e \in Passed
        BY <4>1, PassedAreErased
      <4>2. CASE e = f
        BY <1>1, <1>3, <1>7, <4>2, EventIds
      <4> QED
        BY <2>1, <4>1, <4>2
    <3>3. ev'[e] = TakenUp(ev[e], two)
      BY <3>1 DEF TakenUp
    <3> QED
      BY <1>8, <1>10, <3>2, <3>3, TakenUpKeeps
  <2>2. CASE e \notin Passed \cup {f}
    <3>1. ev'[e] = ev[e]
      BY <1>9, <2>2
    <3> QED
      BY <1>1, <1>8, <3>1 DEF Accounted
  <2> QED
    BY <2>1, <2>2
<1>11. ev' = [e \in Ids(map) |-> ev'[e]]
  BY <1>9
<1>12. EventsOK(map, ev', stack')
  BY <1>10, <1>11, Zenon DEF EventsOK
<1>13. SamePages(map, ev, ev')
  BY <1>10 DEF SamePages
<1>14. needRefresh' \/ Current(map, holds', ev')
  BY <1>1, <1>13, CurrentStays DEF IInv
<1>15. Shape'
  BY <1>1, Limits DEF IInv, Shape
<1>16. Flow'
  BY <1>1 DEF IInv, Flow, LeftForNext, Pending
<1> QED
  BY <1>1, <1>6, <1>12, <1>14, <1>15, <1>16 DEF IInv

-----------------------------------------------------------------------------
(* The scene *)

LEMMA ReturnedKeeps ==
  ASSUME IInv, Returned
  PROVE  IInv'
<1>1. /\ UNCHANGED <<map, holds, needRefresh, ev, stack, loopCount, target, requested>>
      /\ pc = "returned"
  BY DEF Returned
<1>2. CASE TeleportsOn
  <2>1. /\ pc' = "teleport" /\ stage' = stage
        /\ stage \in {"pre", "fg"} => tp' = tp
        /\ stage \notin {"pre", "fg"} => tp' = Params(target, FALSE)
    BY <1>2 DEF Returned
  <2>2. Params(target, FALSE) \in {NoParams, [run |-> TRUE, defer |-> FALSE]}
    BY DEF Params, NoParams
  <2>3. Pending
    BY <1>2 DEF TeleportsOn
  <2>4. Flow'
    BY <1>1, <2>1, <2>2, <2>3 DEF IInv, Flow, Pending
  <2> QED
    BY <1>1, <2>4, ShapeStays, StackStays DEF IInv
<1>3. CASE ~TeleportsOn
  <2>1. tp' = tp
    BY <1>3 DEF Returned
  <2>2. CASE stage = "pre" /\ tp.run
    <3>1. pc' = "foreground" /\ stage' = "fg"
      BY <1>3, <2>2 DEF Returned
    <3>2. Flow'
      BY <1>1, <2>1, <2>2, <3>1 DEF IInv, Flow
    <3> QED
      BY <1>1, <3>2, ShapeStays, StackStays DEF IInv
  <2>3. CASE ~(stage = "pre" /\ tp.run)
    <3>1. pc' = "calling" /\ stage' = stage
      BY <1>3, <2>3 DEF Returned
    <3>2. LeftForNext
      BY <1>1, <1>3, <2>3
         DEF IInv, Flow, LeftForNext, TeleportsOn, NoParams, Deferred
    <3>3. Flow'
      BY <1>1, <2>1, <2>3, <3>1, <3>2 DEF IInv, Flow, LeftForNext, Pending
    <3> QED
      BY <1>1, <3>3, ShapeStays, StackStays DEF IInv
  <2> QED
    BY <2>2, <2>3
<1> QED
  BY <1>2, <1>3

LEMMA SameBase ==
  ASSUME NEW evs, NEW m, NEW s, NEW s2, EventsOK(m, evs, s), s2 = s
  PROVE  EventsOK(m, evs, s2)
OBVIOUS

LEMMA PerformTeleportKeeps ==
  ASSUME IInv, PerformTeleport
  PROVE  IInv'
<1>1. /\ pc = "teleport" /\ pc' = "preupdate" /\ target' = NoTarget
      /\ UNCHANGED <<holds, requested, loopCount, stage, tp>>
  BY DEF PerformTeleport
<1>2. Flow'
  BY <1>1 DEF IInv, Flow
<1>3. CASE target.map = map
  <2>1. UNCHANGED <<map, ev, needRefresh, stack>>
    BY <1>3 DEF PerformTeleport
  <2>2. Shape'
    BY <1>1, <2>1 DEF IInv, Shape
  <2> QED
    BY <1>1, <1>2, <2>1, <2>2, StackStays DEF IInv
<1>4. CASE target.map # map
  <2>1. /\ map' = target.map /\ ev' = Created(target.map) /\ needRefresh' = TRUE
        /\ stack' = OnMapChange(stack)
    BY <1>4 DEF PerformTeleport, SetupMap
  <2>2. Shape'
    BY <1>1, <2>1 DEF IInv, Shape, Flow, Pending, Targets
  <2>3. EventsOK(map', ev', stack')
    BY <2>1, CreatedKeeps DEF IInv
  <2>4. FramesOK(map', stack')
    BY <2>1, RenamedKeeps DEF IInv
  <2> QED
    BY <1>2, <2>1, <2>2, <2>3, <2>4 DEF IInv
<1> QED
  BY <1>3, <1>4

LEMMA PerformAsyncTeleportKeeps ==
  ASSUME IInv, PerformAsyncTeleport
  PROVE  IInv'
<1>1. /\ pc = "suspended" /\ pc' = "resume"
      /\ UNCHANGED <<holds, requested, target, loopCount, stage, tp>>
      /\ stack' = [n \in 1 .. Len(stack) |-> [stack[n] EXCEPT !.quick = TRUE]]
  BY DEF PerformAsyncTeleport
<1>2. PICK m \in Maps : map' = m /\ ev' = Created(m) /\ needRefresh' = TRUE
  BY DEF PerformAsyncTeleport, SetupMap
<1>3. FramesOK(map', stack')
  BY <1>1, QuickKeeps, Zenon DEF IInv
<1>4. EventsOK(map', ev', stack')
  BY <1>2, CreatedKeeps DEF IInv
<1>5. Shape'
  BY <1>1, <1>2 DEF IInv, Shape
<1>6. Flow'
  BY <1>1 DEF IInv, Flow
<1> QED
  BY <1>2, <1>3, <1>4, <1>5, <1>6 DEF IInv

LEMMA SceneCallingKeeps ==
  ASSUME IInv, UpdateSceneCalling
  PROVE  IInv'
<1>1. Flow'
  BY DEF IInv, Flow, UpdateSceneCalling, LeftForNext, Pending
<1> QED
  BY <1>1, ShapeStays, StackStays DEF IInv, UpdateSceneCalling

LEMMA ContinueKeeps ==
  ASSUME IInv, Continue
  PROVE  IInv'
<1>1. /\ UNCHANGED <<map, holds, needRefresh, ev, stack, loopCount, requested, stage>>
      /\ pc = "scene"
  BY DEF Continue
<1>2. target' \in Targets \cup {NoTarget}
  <2>1. TeleportsTo.skill \subseteq Maps
    BY EventsAssumption DEF EventsAssumption
  <2>2. CASE target' = target
    BY <2>2 DEF IInv, Shape
  <2>3. CASE \E m \in TeleportsTo.skill : target' = [map |-> m, type |-> "skill"]
    BY <2>1, <2>3 DEF Targets
  <2> QED
    BY <2>2, <2>3 DEF Continue
<1>3. Shape'
  BY <1>1, <1>2 DEF IInv, Shape
<1>4. Flow'
  <2>1. CASE target' # NoTarget
    <3>1. pc' = "teleport" /\ tp' = Params(target', target'.type = "skill")
      BY <2>1 DEF Continue
    <3>2. tp' \in {NoParams, Deferred, [run |-> TRUE, defer |-> FALSE]}
      BY <3>1 DEF Params, NoParams, Deferred
    <3> QED
      BY <1>1, <2>1, <3>1, <3>2 DEF IInv, Flow, Pending
  <2>2. CASE target' = NoTarget
    <3>1. pc' = "idle" /\ tp' = tp
      BY <2>2 DEF Continue
    <3> QED
      BY <1>1, <2>2, <3>1 DEF IInv, Flow, LeftForNext, Pending
  <2> QED
    BY <2>1, <2>2
<1> QED
  BY <1>1, <1>3, <1>4, StackStays DEF IInv

-----------------------------------------------------------------------------

LEMMA InitOK == Init => IInv
<1> SUFFICES ASSUME Init PROVE IInv
  OBVIOUS
<1>1. Shape
  BY Limits DEF Init, Shape
<1>2. EventsOK(map, ev, stack) /\ Current(map, holds, ev)
  BY <1>1, CreatedKeeps DEF Init
<1>3. FramesOK(map, stack)
  BY NoFrames DEF Init
<1>4. Flow
  BY DEF Init, Flow, NoParams, LeftForNext, Pending
<1> QED
  BY <1>1, <1>2, <1>3, <1>4 DEF IInv

LEMMA NextKeeps == IInv /\ [Next]_sceneVars => IInv'
<1> SUFFICES ASSUME IInv, [Next]_sceneVars PROVE IInv'
  OBVIOUS
<1>1. CASE UpdateMap
  <2> USE <1>1 DEF UpdateMap
  <2>1. CASE ParallelEvent \/ UpdateEvent \/ EventsDone
    BY <2>1, ParallelEventKeeps, UpdateEventKeeps, EventsDoneKeeps
  <2>2. CASE \/ PlayerMoves \/ PlayerWaits \/ PlayerCalls \/ PlayerStarts
             \/ PlayerWalks \/ PlayerActs \/ Timers
    BY <2>2, PlayersKeep, TimersKeep
  <2>3. CASE Foreground \/ Start \/ DrainDone
    BY <2>3, ForegroundKeeps, StartKeeps, DrainDoneKeeps
  <2>4. CASE Stops \/ FinishBase \/ FinishInvalid \/ FinishCalled
    BY <2>4, StopsKeeps, FinishBaseKeeps, FinishInvalidKeeps, FinishCalledKeeps
  <2>5. CASE Plain \/ ControlSwitches \/ OpenScene \/ Teleport \/ SetVehicleLocation
    <3>1. stack' = Begun
      BY <2>5 DEF Plain, ControlSwitches, OpenScene, Teleport, SetVehicleLocation
    <3> QED
      BY <2>5, <3>1, LoopsKeep
  <2>6. CASE EraseEvent \/ CallEvent
    BY <2>6, EraseEventKeeps, CallEventKeeps
  <2> QED
    BY <2>1, <2>2, <2>3, <2>4, <2>5, <2>6 DEF Update
<1>2. CASE Scene
  <2>1. CASE BeginFrame
    BY <2>1, EnterKeeps DEF BeginFrame
  <2>2. CASE BeginPreUpdate
    BY <2>2, EnterKeeps DEF BeginPreUpdate
  <2> QED
    BY <1>2, <2>1, <2>2, ReturnedKeeps, PerformTeleportKeeps,
       PerformAsyncTeleportKeeps, SceneCallingKeeps, ContinueKeeps DEF Scene
<1>3. CASE UNCHANGED sceneVars
  <2>1. Shape' /\ Flow'
    BY <1>3 DEF IInv, Shape, Flow, LeftForNext, Pending, sceneVars, vars
  <2>2. UNCHANGED <<map, holds, needRefresh, ev, stack>>
    BY <1>3 DEF sceneVars, vars
  <2> QED
    BY <2>1, <2>2, StackStays DEF IInv
<1> QED
  BY <1>1, <1>2, <1>3 DEF Next, Ended

LEMMA Invariance == Spec => []IInv
BY InitOK, NextKeeps, PTL DEF Spec

LEMMA IInvImpliesAgreement == IInv => ForegroundOK
<1> SUFFICES ASSUME IInv PROVE ForegroundOK
  OBVIOUS
<1>1. DOMAIN ev = Ids(map) /\ \A e \in Ids(map) : Accounted(map, e, ev[e], stack)
  BY DEF IInv, EventsOK
<1>2. TypeOK
  <2>1. target.map \in Maps \cup {"none"}
    BY DEF IInv, Shape, Targets, NoTarget
  <2>2. Len(stack) <= CallDepth
    BY DEF IInv, FramesOK
  <2>3. \A e \in Ids(map) : ev[e].page \in {PageOf[map][e][b] : b \in BOOLEAN}
    BY <1>1 DEF Accounted
  <2> QED
    BY <1>1, <2>1, <2>2, <2>3 DEF IInv, Shape, TypeOK
<1>3. PausedIsCalled
  <2>1. stack # <<>> => 1 \in DOMAIN stack
    BY DEF IInv, FramesOK
  <2> QED
    BY <1>1, <2>1 DEF Accounted, PausedIsCalled
<1>4. RunsWhatWasCalled
  BY <1>1 DEF IInv, Accounted, Current, RunsWhatWasCalled
<1>5. OwnFrames
  <2>1. DOMAIN stack = 1 .. Len(stack)
    BY DEF IInv, FramesOK
  <2> QED
    BY <2>1 DEF IInv, FramesOK, Belongs, Flow, OwnFrames
<1> QED
  BY <1>2, <1>3, <1>4, <1>5 DEF ForegroundOK

(***************************************************************************)
(* Whatever the maps, the events with their pages, the common events and   *)
(* the order in which they are triggered, taken up, erased, called and     *)
(* carried to other maps: an event that is paused for its commands waits   *)
(* for them or runs them, it waits with the page it was called on, and the *)
(* frames of the interpreter name events of this map                       *)
(* (Game_Map::UpdateForegroundEvents, Game_Event, OnFinishStackFrame).     *)
(***************************************************************************)
THEOREM ForegroundAgrees == Spec => []ForegroundOK
BY Invariance, IInvImpliesAgreement, PTL

(***************************************************************************)
(* Scene_Map begins a frame with no scene requested, and with no teleport  *)
(* but the one that a skill's teleport has put off (UpdateStage2,          *)
(* FinishPendingTeleport2 and 3, UpdateSceneCalling).                      *)
(***************************************************************************)
THEOREM NothingIsOverlooked == Spec => []NothingOverlooked
<1>1. IInv => NothingOverlooked
  BY DEF IInv, Flow, LeftForNext, NothingOverlooked
<1> QED
  BY <1>1, Invariance, PTL

=============================================================================
