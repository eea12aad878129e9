-------------------------------- MODULE Duel --------------------------------
(***************************************************************************)
(* What a battle promises: user and enemy strike in turn, the user first,  *)
(* until the enemy is defeated or the user escapes; a defeated enemy never *)
(* strikes again and pays one experience point.                            *)
(***************************************************************************)
EXTENDS Integers

CONSTANTS Enemies, UserHealth, UserPower, EnemyHealth, EnemyPower, StartExp

VARIABLES turn,         \* "map", or who strikes next, or "won"
          enemy,        \* the enemy fought last
          enemyHealth, userHealth,
          alive,        \* the enemies not yet defeated
          totalExp

duelVars == <<turn, enemy, enemyHealth, userHealth, alive, totalExp>>

Init ==
  /\ turn = "map"
  /\ enemy \in Enemies
  /\ enemyHealth = EnemyHealth /\ userHealth = UserHealth
  /\ alive = Enemies
  /\ totalExp = StartExp

Meet ==
  /\ turn = "map"
  /\ enemy' \in alive
  /\ turn' = "user"
  /\ UNCHANGED <<enemyHealth, userHealth, alive, totalExp>>

Strike ==
  /\ turn = "user"
  /\ enemyHealth' = enemyHealth - UserPower
  /\ enemyHealth' > 0
  /\ turn' = "enemy"
  /\ UNCHANGED <<enemy, userHealth, alive, totalExp>>

Defeat ==
  /\ turn = "user"
  /\ enemyHealth' = enemyHealth - UserPower
  /\ enemyHealth' <= 0
  /\ turn' = "won"
  /\ alive' = alive \ {enemy}
  /\ totalExp' = totalExp + 1
  /\ UNCHANGED <<enemy, userHealth>>

Answer ==
  /\ turn = "enemy"
  /\ userHealth' = userHealth - EnemyPower
  /\ turn' = "user"
  /\ UNCHANGED <<enemy, enemyHealth, alive, totalExp>>

(* Leaving the battle, won or not, forgets the damage done.                *)
Leave ==
  /\ turn # "map"
  /\ turn' = "map"
  /\ enemyHealth' = EnemyHealth /\ userHealth' = UserHealth
  /\ UNCHANGED <<enemy, alive, totalExp>>

Next == Meet \/ Strike \/ Defeat \/ Answer \/ Leave

(* The enemy's answer comes of itself; the user may stop at any time.      *)
Safe == Init /\ [][Next]_duelVars
Fair == WF_duelVars(Answer)
Spec == Safe /\ Fair
=============================================================================
