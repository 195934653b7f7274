----------------------------- MODULE MCBattle -----------------------------
(* Two actors against a monster and another one that is hidden at first.   *)
EXTENDS Battle

Two == <<"a1", "a2">>
Monsters == <<"m1", "m2">>
Does == [b \in Battlers |-> CASE b = "a1" -> {"Normal", "Cure"}
                              [] b = "a2" -> {"Skill", "All"}
                              [] b = "m1" -> {"Normal"}
                              [] b = "m2" -> {"Escape"}]
(* Monsters that know nothing but skills *)
Casts == [b \in Battlers |-> CASE b = "m1" -> {"All"}
                               [] b = "m2" -> {"Skill"}
                               [] OTHER -> {"Normal"}]
Suffers == [b \in Battlers |-> CASE b = "a1" -> {"dead"}
                                 [] b = "a2" -> {"stone"}
                                 [] b = "m1" -> {"dead"}
                                 [] b = "m2" -> {"confused"}]
Fast == [b \in Battlers |-> CASE b = "a1" -> 8 [] b = "a2" -> 4
                              [] b = "m1" -> 30 [] b = "m2" -> 12]
=============================================================================
