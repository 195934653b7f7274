----------------------------- MODULE MCSceneMap -----------------------------
(* Two maps that share an event id.  On the first a man, who is there      *)
(* while the switch is on, walks into the player, and a chest starts by    *)
(* itself or when it is stepped on; on the second somebody with the id of  *)
(* the chest can be talked to.  A common event runs while the switch is    *)
(* on.                                                                     *)
EXTENDS SceneMap, TLC

Page(t, s) == [trigger |-> t, same |-> s, commands |-> TRUE]

TwoMaps == {"town", "cave"}
TheirEvents == [m \in TwoMaps |-> IF m = "town" THEN <<1, 2>> ELSE <<2>>]
TheirPages ==
  [m \in TwoMaps |->
     IF m = "town"
       THEN (1 :> [b \in BOOLEAN |-> IF b THEN Page("collision", TRUE)
                                          ELSE NoPage])
         @@ (2 :> [b \in BOOLEAN |-> IF b THEN Page("auto", FALSE)
                                          ELSE Page("touch", FALSE)])
       ELSE (2 :> [b \in BOOLEAN |-> IF b THEN NoPage
                                          ELSE Page("action", FALSE)])]
Ways == [parallel |-> {"cave"}, foreground |-> TwoMaps, skill |-> {"town"}]
OneCommon == <<{TRUE}>>
=============================================================================
