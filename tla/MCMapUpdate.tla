--------------------------- MODULE MCMapUpdate --------------------------
(* Two maps whose events overlap in one id only, and a third without any.  *)
EXTENDS MapUpdate

MCMaps == {"town", "cave", "void"}
MCEventsOf == [m \in MCMaps |-> CASE m = "town" -> <<1, 2>>
                                  [] m = "cave" -> <<2, 3>>
                                  [] OTHER      -> <<>>]
=============================================================================
