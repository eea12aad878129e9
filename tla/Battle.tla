------------------------------- MODULE Battle -------------------------------
(***************************************************************************)
(* Battles: MapVC's battleAction, GameScene.swift and the touch handling   *)
(* of its two ButtonNodes, on one device with several fingers (the game    *)
(* view has multipleTouchEnabled).                                         *)
(*                                                                         *)
(* GameScene keeps no state for whose turn it is: hiding the attack button *)
(* is what stops the user from attacking before the enemy has answered.  A *)
(* hidden node gets no new touches, but a finger that is down already      *)
(* still ends its touch there.                                             *)
(***************************************************************************)
EXTENDS Integers, FiniteSets

CONSTANTS Fingers,
          Enemies,
          UserHealth, UserPower, EnemyHealth, EnemyPower,   \* in tenths
          StartExp,
          MaxBattles    \* bound: battles started in a behaviour

ASSUME BattleAssumption ==
  /\ {UserHealth, UserPower, EnemyHealth, EnemyPower} \subseteq Nat \ {0}
  /\ StartExp \in Nat /\ MaxBattles \in Nat
  /\ IsFiniteSet(Enemies)

VARIABLES scene,        \* "map" or "battle": what the navigation controller shows
          on,           \* the button each finger's touch belongs to
          hidden,       \* attackButton.isHidden
          enemyHealth, userHealth,    \* currentEnemyHealth, currentUserHealth
          waits,        \* wait actions whose completion has not run
          enemy,        \* selectedEnemy
          alive,        \* the enemies in Firebase, as this device reads them
          totalExp,     \* the User object's
          battles

vars == <<scene, on, hidden, enemyHealth, userHealth, waits, enemy, alive, totalExp, battles>>

Buttons == {"attack", "escape"}

Init ==
  /\ scene = "map"
  /\ on = [f \in Fingers |-> "none"]
  /\ hidden = FALSE
  /\ enemyHealth = EnemyHealth /\ userHealth = UserHealth
  /\ waits = 0
  /\ enemy \in Enemies
  /\ alive = Enemies
  /\ totalExp = StartExp
  /\ battles = 0

(* didSelect and battleAction: a GameViewController with a new GameScene;  *)
(* its didMove sets both healths and adds a visible attack button.  The    *)
(* enemies on the map are those the last read of Firebase returned.        *)
StartBattle ==
  /\ scene = "map"
  /\ battles < MaxBattles
  /\ \A f \in Fingers : on[f] = "none"
  /\ enemy' \in alive
  /\ scene' = "battle"
  /\ hidden' = FALSE
  /\ enemyHealth' = EnemyHealth /\ userHealth' = UserHealth
  /\ waits' = 0
  /\ battles' = battles + 1
  /\ UNCHANGED <<on, alive, totalExp>>

PressHidden(f, button) ==          \* mutated: a hidden button takes touches
  /\ scene = "battle"
  /\ on[f] = "none"
  /\ on' = [on EXCEPT ![f] = button]
  /\ UNCHANGED <<scene, hidden, enemyHealth, userHealth, waits, enemy, alive, totalExp, battles>>

(* touchesBegan.                                                           *)
Press(f, button) ==
  /\ scene = "battle"
  /\ on[f] = "none"
  /\ button = "attack" => ~ hidden
  /\ on' = [on EXCEPT ![f] = button]
  /\ UNCHANGED <<scene, hidden, enemyHealth, userHealth, waits, enemy, alive, totalExp, battles>>

Lift(F, button) ==
  /\ F # {}
  /\ \A f \in F : on[f] = button
  /\ on' = [f \in Fingers |-> IF f \in F THEN "none" ELSE on[f]]

(* touchesEnded with the first touch outside the label, or touches that    *)
(* the system cancels (ButtonNode has no touchesCancelled).                *)
Slip(F, button) ==
  /\ Lift(F, button)
  /\ UNCHANGED <<scene, hidden, enemyHealth, userHealth, waits, enemy, alive, totalExp, battles>>

AttackKeepingButton ==             \* mutated: the button stays visible
  /\ enemyHealth' = enemyHealth - UserPower
  /\ IF enemyHealth' > 0
     THEN waits' = waits + 1 /\ UNCHANGED <<alive, totalExp>>
     ELSE alive' = alive \ {enemy} /\ totalExp' = totalExp + 1 /\ UNCHANGED waits
  /\ UNCHANGED hidden

AttackAlwaysAnswered ==            \* mutated: the wait is started in any case
  /\ enemyHealth' = enemyHealth - UserPower
  /\ hidden' = TRUE
  /\ waits' = waits + 1
  /\ IF enemyHealth' > 0 THEN UNCHANGED <<alive, totalExp>>
     ELSE alive' = alive \ {enemy} /\ totalExp' = totalExp + 1

(* The attack button's event: the enemy is hurt and the button hidden;     *)
(* then an enemy that is alive answers in a second ...                     *)
Attack ==
  /\ enemyHealth' = enemyHealth - UserPower
  /\ hidden' = TRUE
  /\ IF enemyHealth' > 0
     THEN waits' = waits + 1 /\ UNCHANGED <<alive, totalExp>>
     ELSE (* ... and one that is not is removed from Firebase and paid for. *)
          /\ alive' = alive \ {enemy}
          /\ totalExp' = totalExp + 1
          /\ UNCHANGED waits

(* touchesEnded with the first touch inside: one event, however many       *)
(* touches end together, and whatever has happened since they began.       *)
ReleaseAttack(F) ==
  /\ Lift(F, "attack")
  /\ Attack
  /\ UNCHANGED <<scene, userHealth, enemy, battles>>

(* escapeToMap pops the GameViewController.                                *)
ReleaseEscape(F) ==
  /\ scene = "battle"
  /\ Lift(F, "escape")
  /\ scene' = "map"
  /\ UNCHANGED <<hidden, enemyHealth, userHealth, waits, enemy, alive, totalExp, battles>>

RespondVisible ==                  \* mutated: skipped while the button is hidden
  /\ waits > 0 /\ ~ hidden
  /\ waits' = waits - 1
  /\ userHealth' = userHealth - EnemyPower
  /\ UNCHANGED <<scene, on, hidden, enemyHealth, enemy, alive, totalExp, battles>>

(* The completion of waitOne.  A scene that was left may still run it.     *)
Respond ==
  /\ waits > 0
  /\ waits' = waits - 1
  /\ userHealth' = userHealth - EnemyPower
  /\ hidden' = FALSE
  /\ UNCHANGED <<scene, on, enemyHealth, enemy, alive, totalExp, battles>>

Next ==
  \/ StartBattle
  \/ \E f \in Fingers, button \in Buttons : Press(f, button)
  \/ \E F \in SUBSET Fingers : \/ \E button \in Buttons : Slip(F, button)
                               \/ ReleaseAttack(F)
                               \/ ReleaseEscape(F)
  \/ Respond

(* SpriteKit runs the actions of the scene it presents.                    *)
Fairness == WF_vars(Respond /\ scene = "battle")

Spec == Init /\ [][Next]_vars
FairSpec == Spec /\ Fairness
-----------------------------------------------------------------------------
(* The properties. *)

(* Types of every variable (GameScene's fields and MapVC's selectedEnemy). *)
TypeOK ==
  /\ scene \in {"map", "battle"}
  /\ on \in [Fingers -> Buttons \cup {"none"}]
  /\ hidden \in BOOLEAN
  /\ enemyHealth \in Int /\ userHealth \in Int
  /\ waits \in Nat
  /\ enemy \in Enemies /\ alive \subseteq Enemies
  /\ totalExp \in Nat
  /\ battles \in 0..MaxBattles

(* "Ememy defeated! Give rewards" (GameScene.swift:165): every enemy that  *)
(* is gone was paid for exactly once.                                      *)
PaidOnce == totalExp = StartExp + Cardinality(Enemies \ alive)

(* "Wait one second and then Enemy attacks User, if Enemy is alive"        *)
(* (GameScene.swift:156).                                                  *)
DeadNeverStrike == [][userHealth' < userHealth => enemyHealth > 0]_vars

(* The code never asks whether the user is alive; with the numbers of      *)
(* SignupVC.swift:67 and MapVC.swift:379 no sequence of touches by any     *)
(* number of fingers takes the user's health to zero.                      *)
UserSurvives == userHealth > 0

(* With one finger the attack button says whose turn it is.                *)
turn ==
  IF scene = "map" THEN "map"
  ELSE IF ~ hidden THEN "user"
  ELSE IF waits > 0 THEN "enemy" ELSE "won"

D == INSTANCE Duel WITH
       enemyHealth <- IF scene = "map" THEN EnemyHealth ELSE enemyHealth,
       userHealth <- IF scene = "map" THEN UserHealth ELSE userHealth

(* With one finger the battle is a duel: strikes in turn, no strike of a   *)
(* defeated enemy, one reward, and nothing left of the damage in the next  *)
(* battle.                                                                 *)
IsDuel == D!Safe

(* The enemy answers, and the button comes back, in every battle the user  *)
(* stays in.                                                               *)
EnemyAnswers == D!Fair
=============================================================================
