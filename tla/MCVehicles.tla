---------------------------- MODULE MCVehicles ----------------------------
(* An island with a boat and the airship, and the coast of another map.    *)
EXTENDS Vehicles

TwoMaps == {"isle", "cape"}
TheirTerrain == [m \in TwoMaps |-> IF m = "isle" THEN <<"land", "sea", "land">>
                                                 ELSE <<"sea", "land">>]
Start == [v \in VehicleSet |->
            CASE v = "boat" -> [map |-> "isle", x |-> 2]
              [] v = "ship" -> Nowhere
              [] OTHER -> [map |-> "isle", x |-> 3]]
Shore == [map |-> "isle", x |-> 1]
Coast == {[map |-> "cape", x |-> 2]}
=============================================================================
