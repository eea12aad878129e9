----------------------------- MODULE MCEnemies -----------------------------
(* Values of the constants of Enemies for model checking.  Health and      *)
(* power behave like the name, the longitude like the latitude, and are    *)
(* left out.                                                               *)
EXTENDS Enemies

CONSTANTS d1, d2                   \* the devices

MCFieldOrder == <<"name", "latitude">>
MCFields == {"name", "latitude"}
MCLocationFields == {"latitude"}

(* Users that stand still side by side, and enemies near both.             *)
MCPlaces == {"home"}
MCDistance == [pq \in MCPlaces \X MCPlaces |-> 0]

(* One device's timer finds an enemy, the other's user walks into battle.  *)
MCTickOfOne == d1 :> 1 @@ d2 :> 0
MCVisitOfOther == d1 :> 0 @@ d2 :> 1

MCOneEach == [d \in Devices |-> 1]
MCNone == [d \in Devices |-> 0]

Symmetry == Permutations(Devices)
=============================================================================
