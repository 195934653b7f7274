------------------------- MODULE VehiclesProofs -------------------------
(***************************************************************************)
(* Proofs about Vehicles, for any maps, any skills and any height of the   *)
(* airship: what the fields of the player and of his vehicle agree on,     *)
(* which music plays, and that nobody is stranded.                         *)
(*                                                                         *)
(* None of the three is inductive.  What they rest on is Boarding: a party *)
(* that is between land and its vehicle, or has a vehicle but is not       *)
(* aboard, is in the middle of the step that boards it, unless a teleport  *)
(* broke into that step.  Afloat is NotStranded without its exception for  *)
(* the frame of a teleport, which holds for the ships.                     *)
(***************************************************************************)
EXTENDS Vehicles, TLAPS

Boarding ==
  /\ vehicle = "airship" => aboard
  /\ pc = "teleport" => target \in Places
  /\ ~astray => /\ vehicle # "none" => aboard \/ boarding
                /\ boarding => ~aboard /\ (moving \/ pc = "complete")

ShipsAfloat == \A v \in Ships : berth[v] = Nowhere \/ IsSea(berth[v])
Afloat      == ~astray => ShipsAfloat /\ (pc # "teleport" => Fits(vehicle, at))

IInv == Riding /\ Boarding /\ OwnMusic /\ Afloat

-----------------------------------------------------------------------------
(* Places *)

(* A place is a cell of a map and never Nowhere; the cell beside it is on  *)
(* the same map.                                                           *)
LEMMA PlaceFacts ==
  ASSUME NEW p \in Places
  PROVE  /\ p # Nowhere
         /\ \A n : [p EXCEPT !.x = n].map = p.map /\ [p EXCEPT !.x = n] # Nowhere
  <1>1. PICK S \in {{[map |-> m, x |-> i] : i \in 1 .. Len(Terrain[m])} : m \in Maps} :
          p \in S
    BY Zenon DEF Places
  <1>2. PICK m \in Maps : S = {[map |-> m, x |-> i] : i \in 1 .. Len(Terrain[m])}
    OBVIOUS
  <1>3. m # "none"
    BY VehiclesAssumption
  <1>4. QED
    BY <1>1, <1>2, <1>3 DEF Nowhere

LEMMA FrontFacts ==
  ASSUME at \in Places, NEW d
  PROVE  Toward(d).map = at.map /\ Toward(d) # Nowhere
  BY PlaceFacts DEF Toward

(* What the type invariant says of the flags.                              *)
LEMMA Flags ==
  TypeOK => /\ moving \in BOOLEAN /\ aboard \in BOOLEAN /\ boarding \in BOOLEAN
            /\ unboarding \in BOOLEAN /\ flying \in BOOLEAN
            /\ airborne \in BOOLEAN /\ running \in BOOLEAN /\ menu \in BOOLEAN
            /\ astray \in BOOLEAN
  BY Zenon DEF TypeOK

LEMMA FlagsSuffice ==
  /\ moving \in BOOLEAN /\ aboard \in BOOLEAN /\ boarding \in BOOLEAN
  /\ unboarding \in BOOLEAN /\ flying \in BOOLEAN /\ airborne \in BOOLEAN
  /\ running \in BOOLEAN /\ menu \in BOOLEAN /\ astray \in BOOLEAN
  => {moving, aboard, boarding, unboarding, flying, airborne, running, menu,
      astray} \subseteq BOOLEAN
  BY Zenon

LEMMA Initially == Init => IInv
  <1> SUFFICES ASSUME Init PROVE IInv
    OBVIOUS
  <1> USE VehiclesAssumption DEF Init
  <1>1. TypeOK
    <2>1. {moving, aboard, boarding, unboarding, flying, airborne, running, menu,
           astray} \subseteq BOOLEAN
      BY Zenon
    <2>2. QED
      BY <2>1 DEF TypeOK
  <1>2. Riding
    <2>1. TogetherAboard /\ OnFootAgain /\ BoardsVehicle
      BY DEF TogetherAboard, OnFootAgain, BoardsVehicle
    <2>2. FliesAboard
      BY DEF FliesAboard
    <2>3. QED
      BY <1>1, <2>1, <2>2 DEF Riding
  <1>3. Boarding
    BY DEF Boarding
  <1>4. OwnMusic
    BY DEF OwnMusic
  <1>5. Afloat
    <2>1. ShipsAfloat
      BY HarbourAtSea DEF ShipsAfloat
    <2>2. Fits(vehicle, at)
      BY DEF Fits, IsLand, On, Ships
    <2>3. QED
      BY <2>1, <2>2 DEF Afloat
  <1>6. QED
    BY <1>2, <1>3, <1>4, <1>5 DEF IInv

(* Who gets on or off does so by pressing the decision key or by a command  *)
(* of an event, which is astray in the middle of a step.                   *)
MayGetOnOff ==
  /\ pc \in {"parallel", "pre", "player", "foreground"} /\ pc' \in {pc, "complete"}
  /\ UNCHANGED around
  /\ astray' \in BOOLEAN /\ (astray => astray') /\ (moving => astray')
  /\ commands' \in 0 .. MaxCommands

LEMMA GetOnAirshipKeeps ==
  ASSUME IInv, MayGetOnOff, GetOnAirship
  PROVE  IInv'
  <1> USE DEF IInv, Riding, MayGetOnOff, GetOnAirship, Mounts, body, air, around
  <1>1. TypeOK'
    <2>1. up' \in 0 .. Height /\ down' \in 0 .. Height /\ airborne' \in BOOLEAN
      <3>1. CASE airborne
        <4>1. up' = up /\ down' = down /\ airborne' = airborne
          BY <3>1, Zenon
        <4>2. QED
          BY <4>1, Flags DEF TypeOK
      <3>2. CASE ~airborne
        BY <3>2, VehiclesAssumption DEF TypeOK
      <3>3. QED
        BY <3>1, <3>2
    <2>2. {moving, aboard, boarding, unboarding, flying, airborne, running, menu,
           astray}' \subseteq BOOLEAN
      BY <2>1, Flags
    <2>3. QED
      BY <2>1, <2>2 DEF TypeOK, VehicleSet, Ships
  <1>2. (TogetherAboard /\ FliesAboard)'
    BY VehiclesAssumption, Flags
    DEF TypeOK, TogetherAboard, FliesAboard, OnFootAgain, VehicleSet, Ships
  <1>3. (OnFootAgain /\ BoardsVehicle /\ Boarding)'
    BY Flags
    DEF TypeOK, OnFootAgain, BoardsVehicle, FliesAboard, Boarding, VehicleSet, Ships
  <1>4. OwnMusic'
    BY Flags, FrontFacts DEF TypeOK, OwnMusic, Boarding, OnFootAgain, BoardsVehicle
  <1>5. Afloat'
    BY Flags, FrontFacts
    DEF TypeOK, Afloat, ShipsAfloat, Fits, IsLand, IsSea, On, Boarding, OnFootAgain,
        VehicleSet, Ships
  <1>6. QED
    BY <1>1, <1>2, <1>3, <1>4, <1>5

LEMMA GetOnShipKeeps ==
  ASSUME IInv, MayGetOnOff, GetOnShip
  PROVE  IInv'
  <1> USE DEF IInv, Riding, MayGetOnOff, GetOnShip, Mounts, AtFront, Wrecks, Front, air, around
  <1>1. TypeOK'
    BY VehiclesAssumption, Flags, FlagsSuffice, PlaceFacts, FrontFacts
    DEF TypeOK, VehicleSet, Ships, OnFootAgain
  <1>2. (TogetherAboard /\ FliesAboard)'
    BY VehiclesAssumption, Flags
    DEF TypeOK, TogetherAboard, FliesAboard, OnFootAgain, VehicleSet, Ships
  <1>3. (OnFootAgain /\ BoardsVehicle /\ Boarding)'
    BY Flags
    DEF TypeOK, OnFootAgain, BoardsVehicle, FliesAboard, Boarding, VehicleSet, Ships
  <1>4. OwnMusic'
    BY Flags, FrontFacts DEF TypeOK, OwnMusic, Boarding, OnFootAgain, BoardsVehicle
  <1>5. Afloat'
    BY Flags, FrontFacts
    DEF TypeOK, Afloat, ShipsAfloat, Fits, IsLand, IsSea, On, Boarding, OnFootAgain,
        VehicleSet, Ships
  <1>6. QED
    BY <1>1, <1>2, <1>3, <1>4, <1>5

LEMMA GetOffAirshipKeeps ==
  ASSUME IInv, MayGetOnOff, GetOffAirship
  PROVE  IInv'
  <1> USE DEF IInv, Riding, MayGetOnOff, GetOffAirship, Turned, body, ride, around
  <1>1. TypeOK'
    BY VehiclesAssumption, Flags, FlagsSuffice, PlaceFacts, FrontFacts
    DEF TypeOK, VehicleSet, Ships, OnFootAgain
  <1>2. (TogetherAboard /\ FliesAboard)'
    BY VehiclesAssumption, Flags
    DEF TypeOK, TogetherAboard, FliesAboard, OnFootAgain, VehicleSet, Ships
  <1>3. (OnFootAgain /\ BoardsVehicle /\ Boarding)'
    BY Flags
    DEF TypeOK, OnFootAgain, BoardsVehicle, FliesAboard, Boarding, VehicleSet, Ships
  <1>4. OwnMusic'
    BY Flags, FrontFacts DEF TypeOK, OwnMusic, Boarding, OnFootAgain, BoardsVehicle
  <1>5. Afloat'
    BY Flags, FrontFacts
    DEF TypeOK, Afloat, ShipsAfloat, Fits, IsLand, IsSea, On, Boarding, OnFootAgain,
        VehicleSet, Ships
  <1>6. QED
    BY <1>1, <1>2, <1>3, <1>4, <1>5

LEMMA GetOffShipKeeps ==
  ASSUME IInv, MayGetOnOff, GetOffShip
  PROVE  IInv'
  <1> USE DEF IInv, Riding, MayGetOnOff, GetOffShip, Landable, Front, air, around
  <1>1. TypeOK'
    BY VehiclesAssumption, Flags, FlagsSuffice, PlaceFacts, FrontFacts
    DEF TypeOK, VehicleSet, Ships, OnFootAgain, IsLand
  <1>2. (TogetherAboard /\ FliesAboard)'
    BY VehiclesAssumption, Flags
    DEF TypeOK, TogetherAboard, FliesAboard, OnFootAgain, VehicleSet, Ships
  <1>3. (OnFootAgain /\ BoardsVehicle /\ Boarding)'
    BY Flags
    DEF TypeOK, OnFootAgain, BoardsVehicle, FliesAboard, Boarding, VehicleSet, Ships
  <1>4. OwnMusic'
    BY Flags, FrontFacts DEF TypeOK, OwnMusic, Boarding, OnFootAgain, BoardsVehicle
  <1>5. Afloat'
    BY Flags, FrontFacts
    DEF TypeOK, Afloat, ShipsAfloat, Fits, IsLand, IsSea, On, Boarding, OnFootAgain,
        VehicleSet, Ships
  <1>6. QED
    BY <1>1, <1>2, <1>3, <1>4, <1>5

LEMMA GetsNowhereKeeps ==
  ASSUME IInv, MayGetOnOff, GetsNowhere
  PROVE  IInv'
  <1> USE DEF IInv, Riding, MayGetOnOff, GetsNowhere, body, ride, air, around
  <1>1. TypeOK'
    BY VehiclesAssumption, Flags, FlagsSuffice, PlaceFacts, FrontFacts
    DEF TypeOK, VehicleSet, Ships, OnFootAgain
  <1>2. (TogetherAboard /\ FliesAboard)'
    BY VehiclesAssumption, Flags
    DEF TypeOK, TogetherAboard, FliesAboard, OnFootAgain, VehicleSet, Ships
  <1>3. (OnFootAgain /\ BoardsVehicle /\ Boarding)'
    BY Flags
    DEF TypeOK, OnFootAgain, BoardsVehicle, FliesAboard, Boarding, VehicleSet, Ships
  <1>4. OwnMusic'
    BY Flags, FrontFacts DEF TypeOK, OwnMusic, Boarding, OnFootAgain, BoardsVehicle
  <1>5. Afloat'
    BY Flags, FrontFacts
    DEF TypeOK, Afloat, ShipsAfloat, Fits, IsLand, IsSea, On, Boarding, OnFootAgain,
        VehicleSet, Ships
  <1>6. QED
    BY <1>1, <1>2, <1>3, <1>4, <1>5

(* Whoever or whatever moves the party                                     *)
Relocated(p) ==
  /\ MovedTo(p) /\ astray' = (astray \/ Misplaces(p))
  /\ UNCHANGED <<air, running, menu>> /\ target' \in {target, Nowhere}
  /\ pc # "complete" /\ pc' \notin {"complete", "teleport"}
  /\ commands' \in 0 .. MaxCommands

LEMMA RelocatedKeeps ==
  ASSUME IInv, NEW p \in Places, Relocated(p)
  PROVE  IInv'
  <1> USE DEF IInv, Riding, Relocated, MovedTo, Brought, Plays, Misplaces, air
  <1>1. TypeOK'
    <2>1. berth' \in [VehicleSet -> Places \cup {Nowhere}]
      BY DEF TypeOK, VehicleSet, Ships
    <2>2. astray' \in BOOLEAN
      BY Zenon
    <2>3. {moving, aboard, boarding, unboarding, flying, airborne, running, menu,
           astray}' \subseteq BOOLEAN
      BY <2>2, Flags
    <2>4. QED
      BY <2>1, <2>3 DEF TypeOK
  <1>2. (TogetherAboard /\ FliesAboard)'
    BY VehiclesAssumption, Flags
    DEF TypeOK, TogetherAboard, FliesAboard, OnFootAgain, VehicleSet, Ships
  <1>3. (OnFootAgain /\ BoardsVehicle /\ Boarding)'
    BY Flags
    DEF TypeOK, OnFootAgain, BoardsVehicle, FliesAboard, Boarding, VehicleSet, Ships
  <1>4. OwnMusic'
    BY Flags, FrontFacts DEF TypeOK, OwnMusic, Boarding, OnFootAgain, BoardsVehicle
  <1>5. Afloat'
    BY Flags, FrontFacts
    DEF TypeOK, Afloat, ShipsAfloat, Fits, IsLand, IsSea, On, Boarding, OnFootAgain,
        VehicleSet, Ships
  <1>6. QED
    BY <1>1, <1>2, <1>3, <1>4, <1>5

(* What only concerns the events, the menu or the part of the frame        *)
Apart ==
  /\ UNCHANGED <<body, ride, berth, air, astray>>
  /\ running' \in BOOLEAN /\ menu' \in BOOLEAN
  /\ target' \in Places \cup {Nowhere}
  /\ commands' \in 0 .. MaxCommands
  /\ pc = "complete" => vehicle = "none" /\ ~moving
  /\ pc = "teleport" => pc' = pc
  /\ pc' = "teleport" => target' \in Places

LEMMA ApartKeeps ==
  ASSUME IInv, Apart
  PROVE  IInv'
  <1> USE DEF IInv, Riding, Apart, body, ride, air
  <1>1. TypeOK'
    BY VehiclesAssumption, Flags, FlagsSuffice, PlaceFacts, FrontFacts
    DEF TypeOK, VehicleSet, Ships, OnFootAgain
  <1>2. (TogetherAboard /\ FliesAboard)'
    BY VehiclesAssumption, Flags
    DEF TypeOK, TogetherAboard, FliesAboard, OnFootAgain, VehicleSet, Ships
  <1>3. (OnFootAgain /\ BoardsVehicle /\ Boarding)'
    BY Flags
    DEF TypeOK, OnFootAgain, BoardsVehicle, FliesAboard, Boarding, VehicleSet, Ships
  <1>4. OwnMusic'
    BY Flags, FrontFacts DEF TypeOK, OwnMusic, Boarding, OnFootAgain, BoardsVehicle
  <1>5. Afloat'
    BY Flags, FrontFacts
    DEF TypeOK, Afloat, ShipsAfloat, Fits, IsLand, IsSea, On, Boarding, OnFootAgain,
        VehicleSet, Ships
  <1>6. QED
    BY <1>1, <1>2, <1>3, <1>4, <1>5

(* An event puts a vehicle somewhere that the party has nothing to do with. *)
LEMMA VehicleSetDownKeeps ==
  ASSUME IInv, Executes, NEW p \in Places, NEW v \in VehicleSet, v # vehicle,
         berth' = [berth EXCEPT ![v] = p],
         astray' = (astray \/ (v \in Ships /\ ~IsSea(p))),
         UNCHANGED <<body, ride, air, target, menu>>
  PROVE  IInv'
  <1> USE DEF IInv, Riding, Executes, body, ride, air
  <1>1. TypeOK'
    BY VehiclesAssumption, Flags, FlagsSuffice, PlaceFacts, FrontFacts
    DEF TypeOK, VehicleSet, Ships, OnFootAgain
  <1>2. (TogetherAboard /\ FliesAboard)'
    BY VehiclesAssumption, Flags
    DEF TypeOK, TogetherAboard, FliesAboard, OnFootAgain, VehicleSet, Ships
  <1>3. (OnFootAgain /\ BoardsVehicle /\ Boarding)'
    BY Flags
    DEF TypeOK, OnFootAgain, BoardsVehicle, FliesAboard, Boarding, VehicleSet, Ships
  <1>4. OwnMusic'
    BY Flags, FrontFacts DEF TypeOK, OwnMusic, Boarding, OnFootAgain, BoardsVehicle
  <1>5. Afloat'
    BY Flags, FrontFacts
    DEF TypeOK, Afloat, ShipsAfloat, Fits, IsLand, IsSea, On, Boarding, OnFootAgain,
        VehicleSet, Ships
  <1>6. QED
    BY <1>1, <1>2, <1>3, <1>4, <1>5

LEMMA StepGoesOnKeeps ==
  ASSUME IInv, StepGoesOn
  PROVE  IInv'
  <1> USE DEF IInv, Riding, StepGoesOn, UpdateDone, body, ride, air, around
  <1>1. TypeOK'
    BY VehiclesAssumption, Flags, FlagsSuffice, PlaceFacts, FrontFacts
    DEF TypeOK, VehicleSet, Ships, OnFootAgain
  <1>2. (TogetherAboard /\ FliesAboard)'
    BY VehiclesAssumption, Flags
    DEF TypeOK, TogetherAboard, FliesAboard, OnFootAgain, VehicleSet, Ships
  <1>3. (OnFootAgain /\ BoardsVehicle /\ Boarding)'
    BY Flags
    DEF TypeOK, OnFootAgain, BoardsVehicle, FliesAboard, Boarding, VehicleSet, Ships
  <1>4. OwnMusic'
    BY Flags, FrontFacts DEF TypeOK, OwnMusic, Boarding, OnFootAgain, BoardsVehicle
  <1>5. Afloat'
    BY Flags, FrontFacts
    DEF TypeOK, Afloat, ShipsAfloat, Fits, IsLand, IsSea, On, Boarding, OnFootAgain,
        VehicleSet, Ships
  <1>6. QED
    BY <1>1, <1>2, <1>3, <1>4, <1>5

LEMMA AscendsKeeps ==
  ASSUME IInv, Ascends
  PROVE  IInv'
  <1> USE DEF IInv, Riding, Ascends, UpdateDone, body, ride, air, around, InFlight
  <1>1. TypeOK'
    BY VehiclesAssumption, Flags, FlagsSuffice, PlaceFacts, FrontFacts
    DEF TypeOK, VehicleSet, Ships, OnFootAgain
  <1>2. (TogetherAboard /\ FliesAboard)'
    BY VehiclesAssumption, Flags
    DEF TypeOK, TogetherAboard, FliesAboard, OnFootAgain, VehicleSet, Ships
  <1>3. (OnFootAgain /\ BoardsVehicle /\ Boarding)'
    BY Flags
    DEF TypeOK, OnFootAgain, BoardsVehicle, FliesAboard, Boarding, VehicleSet, Ships
  <1>4. OwnMusic'
    BY Flags, FrontFacts DEF TypeOK, OwnMusic, Boarding, OnFootAgain, BoardsVehicle
  <1>5. Afloat'
    BY Flags, FrontFacts
    DEF TypeOK, Afloat, ShipsAfloat, Fits, IsLand, IsSea, On, Boarding, OnFootAgain,
        VehicleSet, Ships
  <1>6. QED
    BY <1>1, <1>2, <1>3, <1>4, <1>5

LEMMA DescendsKeeps ==
  ASSUME IInv, Descends
  PROVE  IInv'
  <1> USE DEF IInv, Riding, Descends, UpdateDone, body, ride, air, around, InFlight
  <1>1. TypeOK'
    BY VehiclesAssumption, Flags, FlagsSuffice, PlaceFacts, FrontFacts
    DEF TypeOK, VehicleSet, Ships, OnFootAgain
  <1>2. (TogetherAboard /\ FliesAboard)'
    BY VehiclesAssumption, Flags
    DEF TypeOK, TogetherAboard, FliesAboard, OnFootAgain, VehicleSet, Ships
  <1>3. (OnFootAgain /\ BoardsVehicle /\ Boarding)'
    BY Flags
    DEF TypeOK, OnFootAgain, BoardsVehicle, FliesAboard, Boarding, VehicleSet, Ships
  <1>4. OwnMusic'
    BY Flags, FrontFacts DEF TypeOK, OwnMusic, Boarding, OnFootAgain, BoardsVehicle
  <1>5. Afloat'
    BY Flags, FrontFacts
    DEF TypeOK, Afloat, ShipsAfloat, Fits, IsLand, IsSea, On, Boarding, OnFootAgain,
        VehicleSet, Ships
  <1>6. QED
    BY <1>1, <1>2, <1>3, <1>4, <1>5

LEMMA LandsKeeps ==
  ASSUME IInv, Lands
  PROVE  IInv'
  <1> USE DEF IInv, Riding, Lands, UpdateDone, body, ride, air, around, InFlight, MayLand, CanLand, Alights
  <1>1. TypeOK'
    BY VehiclesAssumption, Flags, FlagsSuffice, PlaceFacts, FrontFacts
    DEF TypeOK, VehicleSet, Ships, OnFootAgain
  <1>2. (TogetherAboard /\ FliesAboard)'
    BY VehiclesAssumption, Flags
    DEF TypeOK, TogetherAboard, FliesAboard, OnFootAgain, VehicleSet, Ships
  <1>3. (OnFootAgain /\ BoardsVehicle /\ Boarding)'
    BY Flags
    DEF TypeOK, OnFootAgain, BoardsVehicle, FliesAboard, Boarding, VehicleSet, Ships
  <1>4. OwnMusic'
    BY Flags, FrontFacts DEF TypeOK, OwnMusic, Boarding, OnFootAgain, BoardsVehicle
  <1>5. Afloat'
    <2>1. ASSUME ~astray PROVE IsLand(at)
      BY <2>1 DEF TogetherAboard, FliesAboard
    <2>2. QED
      BY <2>1, Flags
      DEF TypeOK, Afloat, ShipsAfloat, Fits, IsLand, IsSea, On, VehicleSet, Ships
  <1>6. QED
    BY <1>1, <1>2, <1>3, <1>4, <1>5

LEMMA CannotLandKeeps ==
  ASSUME IInv, CannotLand
  PROVE  IInv'
  <1> USE DEF IInv, Riding, CannotLand, UpdateDone, body, ride, air, around, InFlight
  <1>1. TypeOK'
    BY VehiclesAssumption, Flags, FlagsSuffice, PlaceFacts, FrontFacts
    DEF TypeOK, VehicleSet, Ships, OnFootAgain
  <1>2. (TogetherAboard /\ FliesAboard)'
    BY VehiclesAssumption, Flags
    DEF TypeOK, TogetherAboard, FliesAboard, OnFootAgain, VehicleSet, Ships
  <1>3. (OnFootAgain /\ BoardsVehicle /\ Boarding)'
    BY Flags
    DEF TypeOK, OnFootAgain, BoardsVehicle, FliesAboard, Boarding, VehicleSet, Ships
  <1>4. OwnMusic'
    BY Flags, FrontFacts DEF TypeOK, OwnMusic, Boarding, OnFootAgain, BoardsVehicle
  <1>5. Afloat'
    BY Flags, FrontFacts
    DEF TypeOK, Afloat, ShipsAfloat, Fits, IsLand, IsSea, On, Boarding, OnFootAgain,
        VehicleSet, Ships
  <1>6. QED
    BY <1>1, <1>2, <1>3, <1>4, <1>5

LEMMA WalksKeeps ==
  ASSUME IInv, Walks
  PROVE  IInv'
  <1> USE DEF IInv, Riding, Walks, UpdateDone, body, ride, air, around, Acts, Passable
  <1>1. TypeOK'
    <2>1. at' \in Places /\ moving' \in BOOLEAN
      BY Flags, Zenon DEF TypeOK, IsSea, IsLand
    <2>2. {moving, aboard, boarding, unboarding, flying, airborne, running, menu,
           astray}' \subseteq BOOLEAN
      BY <2>1, Flags
    <2>3. QED
      BY <2>1, <2>2 DEF TypeOK
  <1>2. (TogetherAboard /\ FliesAboard)'
    BY VehiclesAssumption, Flags
    DEF TypeOK, TogetherAboard, FliesAboard, OnFootAgain, VehicleSet, Ships
  <1>3. (OnFootAgain /\ BoardsVehicle /\ Boarding)'
    BY Flags
    DEF TypeOK, OnFootAgain, BoardsVehicle, FliesAboard, Boarding, VehicleSet, Ships
  <1>4. OwnMusic'
    BY Flags, FrontFacts DEF TypeOK, OwnMusic, Boarding, OnFootAgain, BoardsVehicle
  <1>5. Afloat'
    BY Flags, FrontFacts
    DEF TypeOK, Afloat, ShipsAfloat, Fits, IsLand, IsSea, On, Boarding, OnFootAgain,
        VehicleSet, Ships
  <1>6. QED
    BY <1>1, <1>2, <1>3, <1>4, <1>5

LEMMA CompletesKeeps ==
  ASSUME IInv, Completes
  PROVE  IInv'
  <1> USE DEF IInv, Riding, Completes, Completed, Synced, body, air, around
  <1>1. TypeOK'
    <2>1. berth' \in [VehicleSet -> Places \cup {Nowhere}]
      BY DEF TypeOK, VehicleSet, Ships
    <2>2. aboard' \in BOOLEAN /\ boarding' \in BOOLEAN /\ unboarding' \in BOOLEAN
      BY Flags, Zenon
    <2>3. {moving, aboard, boarding, unboarding, flying, airborne, running, menu,
           astray}' \subseteq BOOLEAN
      BY <2>2, Flags
    <2>4. speed' \in VehicleSet \cup {"walk"}
      BY DEF TypeOK
    <2>5. QED
      BY <2>1, <2>3, <2>4 DEF TypeOK
  <1>2. (TogetherAboard /\ FliesAboard)'
    BY VehiclesAssumption, Flags
    DEF TypeOK, TogetherAboard, FliesAboard, OnFootAgain, VehicleSet, Ships
  <1>3. (OnFootAgain /\ BoardsVehicle /\ Boarding)'
    BY Flags
    DEF TypeOK, OnFootAgain, BoardsVehicle, FliesAboard, Boarding, VehicleSet, Ships
  <1>4. OwnMusic'
    BY Flags, FrontFacts DEF TypeOK, OwnMusic, Boarding, OnFootAgain, BoardsVehicle
  <1>5. Afloat'
    BY Flags, FrontFacts
    DEF TypeOK, Afloat, ShipsAfloat, Fits, IsLand, IsSea, On, Boarding, OnFootAgain,
        VehicleSet, Ships
  <1>6. QED
    BY <1>1, <1>2, <1>3, <1>4, <1>5

LEMMA DriftsKeeps ==
  ASSUME IInv, Drifts
  PROVE  IInv'
  <1> USE DEF IInv, Riding, Drifts, body, ride, air, around
  <1>1. TypeOK'
    BY VehiclesAssumption, Flags, FlagsSuffice, PlaceFacts, FrontFacts
    DEF TypeOK, VehicleSet, Ships, OnFootAgain, IsSea, IsLand
  <1>2. (TogetherAboard /\ FliesAboard)'
    BY VehiclesAssumption, Flags
    DEF TypeOK, TogetherAboard, FliesAboard, OnFootAgain, VehicleSet, Ships
  <1>3. (OnFootAgain /\ BoardsVehicle /\ Boarding)'
    BY Flags
    DEF TypeOK, OnFootAgain, BoardsVehicle, FliesAboard, Boarding, VehicleSet, Ships
  <1>4. OwnMusic'
    BY Flags, FrontFacts DEF TypeOK, OwnMusic, Boarding, OnFootAgain, BoardsVehicle
  <1>5. Afloat'
    BY Flags, FrontFacts
    DEF TypeOK, Afloat, ShipsAfloat, Fits, IsLand, IsSea, On, Boarding, OnFootAgain,
        VehicleSet, Ships
  <1>6. QED
    BY <1>1, <1>2, <1>3, <1>4, <1>5

(* ForceGetOffVehicle leaves who is not aboard as he is.                   *)
Leaves ==
  /\ aboard /\ up' = 0 /\ down' = 0 /\ airborne' = FALSE /\ flying' = FALSE
  /\ aboard' = FALSE /\ unboarding' = TRUE /\ vehicle' = "none"
  /\ speed' = preboardSpeed /\ song' = beforeSong
  /\ UNCHANGED <<boarding, preboardSpeed, beforeSong>>

LEMMA ForcedOffCases ==
  ASSUME IInv, ForcedOff
  PROVE  UNCHANGED <<ride, air>> \/ Leaves
  <1> USE DEF ForcedOff, StaysOn
  <1>1. CASE ~aboard
    BY <1>1, Zenon
  <1>2. CASE aboard
    <2>1. ~(airborne /\ vehicle # "airship")
      BY Zenon DEF IInv, Riding, FliesAboard
    <2>2. QED
      BY <1>2, <2>1 DEF Leaves
  <1>3. QED
    BY <1>1, <1>2

LEMMA UseSkillKeeps ==
  ASSUME IInv, UseSkill
  PROVE  IInv'
  <1> USE DEF IInv, Riding, UseSkill, body
  <1>1. CASE UNCHANGED <<ride, air>>
    BY <1>1, ApartKeeps, VehiclesAssumption, Flags DEF Apart, TypeOK
  <1>2. CASE Leaves
    <2> USE <1>2 DEF Leaves
    <2>1. TypeOK'
      <3>1. {moving, aboard, boarding, unboarding, flying, airborne, running, menu,
             astray}' \subseteq BOOLEAN
        BY Flags
      <3>2. QED
        BY <3>1, VehiclesAssumption DEF TypeOK
    <2>2. (TogetherAboard /\ FliesAboard)'
      BY DEF TogetherAboard, FliesAboard
    <2>3. (OnFootAgain /\ BoardsVehicle /\ Boarding)'
      BY Flags, VehiclesAssumption DEF TypeOK, OnFootAgain, BoardsVehicle, Boarding
    <2>4. OwnMusic'
      BY Flags DEF OwnMusic, OnFootAgain
    <2>5. Afloat'
      BY DEF Afloat, ShipsAfloat, IsSea, On
    <2>6. QED
      BY <2>1, <2>2, <2>3, <2>4, <2>5
  <1>3. QED
    BY <1>1, <1>2, ForcedOffCases

-----------------------------------------------------------------------------
(* Every step *)

LEMMA GetOnOffKeeps ==
  ASSUME IInv, MayGetOnOff, GetOnOff
  PROVE  IInv'
  BY GetOnAirshipKeeps, GetOnShipKeeps, GetOffAirshipKeeps, GetOffShipKeeps,
     GetsNowhereKeeps DEF GetOnOff

LEMMA CommandsKeep ==
  ASSUME IInv, Commands
  PROVE  IInv'
  <1>0. /\ commands' \in 0 .. MaxCommands /\ astray \in BOOLEAN /\ moving \in BOOLEAN
        /\ running \in BOOLEAN /\ menu \in BOOLEAN /\ target \in Places \cup {Nowhere}
    BY Flags, VehiclesAssumption
    DEF IInv, Riding, TypeOK, Commands, EnterExitVehicle, ReserveTeleport, OpenMenu,
        SetVehicleLocation, Executes
  <1>1. CASE EnterExitVehicle
    <2>1. astray' \in BOOLEAN /\ (astray => astray') /\ (moving => astray')
      BY <1>0, <1>1, Zenon DEF EnterExitVehicle
    <2>2. MayGetOnOff
      BY <1>0, <1>1, <2>1 DEF EnterExitVehicle, Executes, MayGetOnOff, around
    <2>3. QED
      BY <1>1, <2>2, GetOnOffKeeps DEF EnterExitVehicle
  <1>2. CASE ReserveTeleport
    BY <1>0, <1>2, ApartKeeps DEF ReserveTeleport, Executes, Apart
  <1>3. CASE OpenMenu
    BY <1>0, <1>3, ApartKeeps DEF OpenMenu, Executes, Apart
  <1>4. CASE SetVehicleLocation
    <2>1. PICK p \in Places, v \in VehicleSet \cup {"none"} :
            IF v = vehicle
              THEN /\ MovedTo(p) /\ UNCHANGED air
                   /\ astray' = (astray \/ Misplaces(p))
              ELSE /\ v # "none"
                   /\ berth' = [berth EXCEPT ![v] = p]
                   /\ astray' = (astray \/ (v \in Ships /\ ~IsSea(p)))
                   /\ UNCHANGED <<body, ride, air>>
      BY <1>4, Zenon DEF SetVehicleLocation
    <2>2. CASE v = vehicle
      BY <1>0, <1>4, <2>1, <2>2, RelocatedKeeps DEF SetVehicleLocation, Executes, Relocated
    <2>3. CASE v # vehicle
      BY <1>4, <2>1, <2>3, VehicleSetDownKeeps DEF SetVehicleLocation
    <2>4. QED
      BY <2>2, <2>3
  <1>5. QED
    BY <1>1, <1>2, <1>3, <1>4 DEF Commands

LEMMA PlayerUpdateKeeps ==
  ASSUME IInv, PlayerUpdate
  PROVE  IInv'
  <1>1. CASE PressesDecision
    <2>1. MayGetOnOff
      BY <1>1, Flags DEF IInv, Riding, TypeOK, PressesDecision, Acts, UpdateDone,
                         MayGetOnOff, around
    <2>2. QED
      BY <1>1, <2>1, GetOnOffKeeps DEF PressesDecision
  <1>2. CASE MenuCalled
    BY <1>2, Flags, ApartKeeps DEF IInv, Riding, TypeOK, MenuCalled, Apart
  <1>3. QED
    BY <1>1, <1>2, StepGoesOnKeeps, AscendsKeeps, DescendsKeeps, LandsKeeps,
       CannotLandKeeps, WalksKeeps DEF PlayerUpdate

LEMMA FrameKeeps ==
  ASSUME IInv, Frame
  PROVE  IInv'
  <1> USE Flags DEF IInv, Riding, TypeOK
  <1>1. CASE ParallelDone
    BY <1>1, ApartKeeps DEF ParallelDone, Apart, around
  <1>2. CASE NoVehicle
    BY <1>2, ApartKeeps DEF NoVehicle, Completed, Apart, around
  <1>3. CASE FrameEnds
    BY <1>3, ApartKeeps DEF FrameEnds, Apart, around
  <1>4. CASE EventEnds
    BY <1>4, ApartKeeps DEF EventEnds, Apart, control
  <1>5. CASE PreUpdated
    BY <1>5, ApartKeeps DEF PreUpdated, Apart, around
  <1>6. CASE SceneEnds
    BY <1>6, ApartKeeps DEF SceneEnds, Apart
  <1>7. CASE PerformTeleport
    <2>1. target \in Places
      BY <1>7 DEF PerformTeleport, Boarding
    <2>2. Relocated(target)
      BY <1>7 DEF PerformTeleport, Relocated
    <2>3. QED
      BY <2>1, <2>2, RelocatedKeeps
  <1>8. QED
    BY <1>1, <1>2, <1>3, <1>4, <1>5, <1>6, <1>7, PlayerUpdateKeeps, CompletesKeeps
    DEF Frame

LEMMA Inductive == IInv /\ [Next]_vars => IInv'
  <1> SUFFICES ASSUME IInv, [Next]_vars PROVE IInv'
    OBVIOUS
  <1>1. CASE EventStarts
    BY <1>1, Flags, ApartKeeps DEF IInv, Riding, TypeOK, EventStarts, Apart, control
  <1>2. CASE UNCHANGED vars
    <2> USE <1>2 DEF vars, body, ride, air, around, control
    <2>1. Riding'
      BY DEF IInv, Riding, TypeOK, TogetherAboard, FliesAboard, OnFootAgain, BoardsVehicle
    <2>2. Boarding' /\ OwnMusic'
      BY DEF IInv, Boarding, OwnMusic
    <2>3. Afloat'
      BY DEF IInv, Afloat, ShipsAfloat, Fits, IsLand, IsSea, On
    <2>4. QED
      BY <2>1, <2>2, <2>3 DEF IInv
  <1>3. QED
    BY <1>1, <1>2, FrameKeeps, CommandsKeep, DriftsKeeps, UseSkillKeeps DEF Next, Ended

LEMMA SpecIInv == Spec => []IInv
  BY Initially, Inductive, PTL DEF Spec

-----------------------------------------------------------------------------

(* The fields that the player, his vehicle and the airship keep apart      *)
(* always agree: whoever is aboard is where his vehicle is, he flies       *)
(* exactly when the airship does, on foot he has his own speed, and no     *)
(* boarding ends without a vehicle (Game_Player::Update,                   *)
(* GetOnOffVehicle, ForceGetOffVehicle, MoveTo).                           *)
THEOREM FieldsAgree == Spec => []Riding
  BY SpecIInv, PTL DEF IInv

(* The map's music, or the vehicle's with the map's kept for later, unless *)
(* the party was moved within a boarding step (Game_Player::MoveTo).       *)
THEOREM MusicOfItsOwn == Spec => []OwnMusic
  BY SpecIInv, PTL DEF IInv

(* Boarding, landing, falling off by a skill, drifting ships: none leaves  *)
(* the party on foot in the sea, or a ship ashore.                         *)
THEOREM NobodyStranded == Spec => []NotStranded
  <1>1. IInv => NotStranded
    BY DEF IInv, Afloat, ShipsAfloat, NotStranded
  <1>2. QED
    BY <1>1, SpecIInv, PTL

=============================================================================
