---------------------------- MODULE MapFrame ----------------------------
(***************************************************************************)
(* What one update of the map promises, without saying how an update that  *)
(* had to wait for an asynchronous operation is taken up again.            *)
(*                                                                         *)
(* A frame is a list of units of work: every common event, every event of  *)
(* the current map, then the party and the vehicles, the message box, the  *)
(* timers, the foreground interpreter and the parallax.  A frame runs its  *)
(* units once each, in that order, and nothing is left out.  The map may   *)
(* be replaced between two units (quick teleport, load); the frame then    *)
(* goes on with the unit that follows the last one it ran, in the events   *)
(* of the new map.                                                         *)
(***************************************************************************)
EXTENDS Naturals, Sequences

CONSTANTS Maps,       \* the maps of the game
          NumCommon,  \* the common events are 1 .. NumCommon
          EventsOf    \* [Maps -> the ids of a map's events in map order]

VARIABLES map,   \* the current map
          kind,  \* "none", or the frame being run: "pre", "full" or "fg"
          last   \* the last unit this frame has started

fvars == <<map, kind, last>>

Kinds == {"pre", "full", "fg"}

None == <<"none", 0>>
End  == <<"end", 0>>

Stages == {"world", "message", "timers", "foreground", "parallax"}
Unit == {"none", "common", "map"} \X Nat \cup Stages \X {0}

(***************************************************************************)
(* The unit that comes after u.  A pre-update (kind "pre") stops after the *)
(* map events; kind "fg" is the foreground interpreter alone.              *)
(***************************************************************************)
AfterEvents(kd) == IF kd = "pre" THEN End ELSE <<"world", 0>>

EventAt(m, i, kd) ==
  IF i <= Len(EventsOf[m]) THEN <<"map", EventsOf[m][i]>> ELSE AfterEvents(kd)

Holds(m, id) == \E i \in 1 .. Len(EventsOf[m]) : EventsOf[m][i] = id
IndexOf(m, id) == CHOOSE i \in 1 .. Len(EventsOf[m]) : EventsOf[m][i] = id

AfterEvent(m, id, kd) ==
  IF Holds(m, id) THEN EventAt(m, IndexOf(m, id) + 1, kd) ELSE AfterEvents(kd)

AfterCommon(m, i, kd) ==
  IF i < NumCommon THEN <<"common", i + 1>> ELSE EventAt(m, 1, kd)

Succ(u, m, kd) ==
  CASE u[1] = "none"       -> IF kd = "fg" THEN <<"foreground", 0>>
                                           ELSE AfterCommon(m, 0, kd)
    [] u[1] = "common"     -> AfterCommon(m, u[2], kd)
    [] u[1] = "map"        -> AfterEvent(m, u[2], kd)
    [] u[1] = "world"      -> <<"message", 0>>
    [] u[1] = "message"    -> <<"timers", 0>>
    [] u[1] = "timers"     -> <<"foreground", 0>>
    [] u[1] = "foreground" -> IF kd = "fg" THEN End ELSE <<"parallax", 0>>
    [] OTHER               -> End

-----------------------------------------------------------------------------

FInit == map \in Maps /\ kind = "none" /\ last = None

BeginFrame == /\ kind = "none"
              /\ kind' \in Kinds
              /\ last' = None
              /\ UNCHANGED map

RunUnit == /\ kind # "none"
           /\ Succ(last, map, kind) # End
           /\ last' = Succ(last, map, kind)
           /\ UNCHANGED <<map, kind>>

EndFrame == /\ kind # "none"
            /\ Succ(last, map, kind) = End
            /\ kind' = "none"
            /\ UNCHANGED <<map, last>>

(* The map is replaced while the frame waits. *)
SwitchMap == /\ map' \in Maps
             /\ UNCHANGED <<kind, last>>

(* Leaving the map for good (return to title, exit) drops the frame. *)
Abandon == /\ kind # "none"
           /\ kind' = "none"
           /\ UNCHANGED <<map, last>>

FNext == BeginFrame \/ RunUnit \/ EndFrame \/ SwitchMap \/ Abandon

FSpec == FInit /\ [][FNext]_fvars
=============================================================================
