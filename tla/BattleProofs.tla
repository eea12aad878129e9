---------------------------- MODULE BattleProofs ----------------------------
(***************************************************************************)
(* What holds of Battle for any numbers, enemies and battles.              *)
(*                                                                         *)
(*   1. types                                                              *)
(*   2. with one finger: an enemy is paid for once, a defeated enemy never *)
(*      strikes, and the battle implements Duel                            *)
(*   3. with any number of fingers: a user who would outlast the enemy     *)
(*      when striking in turn is never defeated                            *)
(***************************************************************************)
EXTENDS Battle, FiniteSetTheorems, TLAPS

-----------------------------------------------------------------------------
(* 1. Types. *)

(* BattleAssumption, number by number.                                     *)
LEMMA Numbers ==
  /\ UserHealth \in Nat /\ UserPower \in Nat /\ EnemyHealth \in Nat /\ EnemyPower \in Nat
  /\ UserHealth > 0 /\ UserPower > 0 /\ EnemyHealth > 0 /\ EnemyPower > 0
  /\ StartExp \in Nat /\ MaxBattles \in Nat
BY BattleAssumption

(* Every step keeps the types.                                             *)
LEMMA NextType == TypeOK /\ [Next]_vars => TypeOK'
<1> SUFFICES ASSUME TypeOK, [Next]_vars PROVE TypeOK' OBVIOUS
<1> USE DEF TypeOK
<1>1. CASE UNCHANGED vars BY <1>1 DEF vars
<1>2. CASE StartBattle
  <2>1. hidden' \in BOOLEAN BY <1>2, Zenon DEF StartBattle
  <2>2. enemyHealth' \in Int /\ userHealth' \in Int /\ waits' \in Nat /\ battles' \in 0..MaxBattles
    BY <1>2, Numbers DEF StartBattle
  <2>3. /\ scene' \in {"map", "battle"} /\ on' = on /\ enemy' \in Enemies
        /\ alive' = alive /\ totalExp' = totalExp
    BY <1>2 DEF StartBattle
  <2> QED BY <2>1, <2>2, <2>3, Zenon
<1>3. ASSUME NEW f \in Fingers, NEW button \in Buttons, Press(f, button) PROVE TypeOK'
  BY <1>3 DEF Press
<1>4. ASSUME NEW F \in SUBSET Fingers, NEW button \in Buttons, Slip(F, button) PROVE TypeOK'
  BY <1>4 DEF Slip, Lift
<1>5. ASSUME NEW F \in SUBSET Fingers, ReleaseAttack(F) PROVE TypeOK'
  BY <1>5, Numbers DEF ReleaseAttack, Attack, Lift
<1>6. ASSUME NEW F \in SUBSET Fingers, ReleaseEscape(F) PROVE TypeOK'
  BY <1>6 DEF ReleaseEscape, Lift
<1>7. CASE Respond
  <2>1. hidden' \in BOOLEAN BY <1>7, Zenon DEF Respond
  <2>2. userHealth' \in Int /\ waits' \in Nat BY <1>7, Numbers DEF Respond
  <2>3. UNCHANGED <<scene, on, enemyHealth, enemy, alive, totalExp, battles>>
    BY <1>7 DEF Respond
  <2>4. /\ scene' = scene /\ on' = on /\ enemyHealth' = enemyHealth /\ enemy' = enemy
        /\ alive' = alive /\ totalExp' = totalExp /\ battles' = battles
    BY <2>3, Zenon
  <2> QED BY <2>1, <2>2, <2>4, Zenon
<1> QED BY <1>1, <1>2, <1>3, <1>4, <1>5, <1>6, <1>7 DEF Next

(* The initial states have the types.                                      *)
LEMMA InitType == Init => TypeOK
<1> SUFFICES ASSUME Init PROVE TypeOK OBVIOUS
<1>1. hidden \in BOOLEAN BY Zenon DEF Init
<1>2. enemyHealth \in Int /\ userHealth \in Int /\ waits \in Nat /\ totalExp \in Nat
      /\ battles \in 0..MaxBattles
  BY Numbers DEF Init
<1>3. /\ scene \in {"map", "battle"} /\ on \in [Fingers -> Buttons \cup {"none"}]
      /\ enemy \in Enemies /\ alive \subseteq Enemies
  BY DEF Init
<1> QED BY <1>1, <1>2, <1>3, Zenon DEF TypeOK

(* TypeOK in every reachable state.                                        *)
THEOREM TypeCorrect == Spec => []TypeOK
BY InitType, NextType, PTL DEF Spec

-----------------------------------------------------------------------------
(* 2. One finger. *)

OneFinger == \A f, g \in Fingers : f = g

(* The attack button says whose turn it is: a finger is on it only while   *)
(* it is visible, it is visible only while the enemy is alive and owes no  *)
(* answer, and the enemy owes at most one.                                 *)
TurnInv ==
  /\ waits \in {0, 1}
  /\ waits = 1 => hidden /\ enemyHealth > 0
  /\ ~ hidden => waits = 0 /\ enemyHealth > 0
  /\ enemyHealth > 0 => enemy \in alive
  /\ \A f \in Fingers : on[f] = "attack" => ~ hidden /\ scene = "battle"
  /\ userHealth <= UserHealth

DuelInv == TypeOK /\ TurnInv /\ PaidOnce

(* The only finger is the one that is lifted.                              *)
LEMMA AllLifted ==
  ASSUME OneFinger, NEW F \in SUBSET Fingers, NEW button, Lift(F, button)
  PROVE  \A f \in Fingers : on[f] = button /\ on'[f] = "none"
BY DEF OneFinger, Lift

(* Every step keeps the turns and the reward.                              *)
LEMMA NextTurn == OneFinger /\ DuelInv /\ [Next]_vars => TurnInv' /\ PaidOnce'
<1> SUFFICES ASSUME OneFinger, DuelInv, [Next]_vars PROVE TurnInv' /\ PaidOnce' OBVIOUS
<1> USE DEF DuelInv
<1>1. CASE UNCHANGED vars BY <1>1 DEF vars, TurnInv, PaidOnce
<1>2. CASE StartBattle BY <1>2, Numbers DEF StartBattle, TurnInv, PaidOnce
<1>3. ASSUME NEW f \in Fingers, NEW button \in Buttons, Press(f, button)
      PROVE  TurnInv' /\ PaidOnce'
  BY <1>3 DEF Press, TurnInv, PaidOnce, TypeOK
<1>4. ASSUME NEW F \in SUBSET Fingers, NEW button \in Buttons, Slip(F, button)
      PROVE  TurnInv' /\ PaidOnce'
  BY <1>4, AllLifted DEF Slip, TurnInv, PaidOnce
<1>5. ASSUME NEW F \in SUBSET Fingers, ReleaseAttack(F)
      PROVE  TurnInv' /\ PaidOnce'
  <2>1. \A f \in Fingers : on'[f] = "none" BY <1>5, AllLifted DEF ReleaseAttack
  <2>2. PICK f \in Fingers : on[f] = "attack" BY <1>5 DEF ReleaseAttack, Lift
  <2>3. ~ hidden /\ waits = 0 /\ enemyHealth > 0 /\ enemy \in alive BY <2>2 DEF TurnInv
  <2>4. /\ enemyHealth' = enemyHealth - UserPower /\ hidden' = TRUE
        /\ enemy' = enemy
    BY <1>5 DEF ReleaseAttack, Attack
  <2>5. userHealth' = userHealth BY <1>5 DEF ReleaseAttack
  <2>6. CASE enemyHealth' > 0
    <3>1. waits' = waits + 1 /\ alive' = alive /\ totalExp' = totalExp
      BY <1>5, <2>6 DEF ReleaseAttack, Attack
    <3> QED BY <3>1, <2>1, <2>3, <2>4, <2>6, <2>5 DEF TurnInv, PaidOnce
  <2>7. CASE ~ (enemyHealth' > 0)
    <3>1. waits' = waits /\ alive' = alive \ {enemy} /\ totalExp' = totalExp + 1
      BY <1>5, <2>7 DEF ReleaseAttack, Attack
    <3>2. IsFiniteSet(Enemies \ alive) BY BattleAssumption, FS_Subset
    <3>3. Enemies \ alive' = (Enemies \ alive) \cup {enemy} BY <3>1 DEF TypeOK
    <3>4. Cardinality(Enemies \ alive') = Cardinality(Enemies \ alive) + 1
      BY <2>3, <3>2, <3>3, FS_AddElement
    <3>5. Cardinality(Enemies \ alive) \in Nat BY <3>2, FS_CardinalityType
    <3>6. PaidOnce' BY <3>1, <3>4, <3>5, BattleAssumption DEF PaidOnce
    <3>7. TurnInv' BY <3>1, <2>1, <2>3, <2>4, <2>7, <2>5 DEF TurnInv
    <3> QED BY <3>6, <3>7
  <2> QED BY <2>6, <2>7
<1>6. ASSUME NEW F \in SUBSET Fingers, ReleaseEscape(F)
      PROVE  TurnInv' /\ PaidOnce'
  BY <1>6, AllLifted DEF ReleaseEscape, TurnInv, PaidOnce
<1>7. CASE Respond
  <2>1. waits = 1 /\ hidden BY <1>7 DEF Respond, TurnInv
  <2>2. \A f \in Fingers : on[f] # "attack" BY <2>1 DEF TurnInv
  <2>3. userHealth' <= UserHealth BY <1>7, Numbers DEF Respond, TurnInv, TypeOK
  <2> QED BY <1>7, <2>1, <2>2, <2>3 DEF Respond, TurnInv, PaidOnce
<1> QED BY <1>1, <1>2, <1>3, <1>4, <1>5, <1>6, <1>7 DEF Next

(* No battle has begun and nothing has been paid for.                      *)
LEMMA InitTurn == Init => TurnInv /\ PaidOnce
<1> SUFFICES ASSUME Init PROVE TurnInv /\ PaidOnce OBVIOUS
<1>2. TurnInv BY Numbers DEF Init, TurnInv
<1>3. PaidOnce
  <2>1. Enemies \ alive = {} BY DEF Init
  <2> QED BY <2>1, FS_EmptySet, Numbers DEF Init, PaidOnce
<1> QED BY <1>2, <1>3

(* With one finger the three parts of DuelInv are inductive together.      *)
THEOREM DuelInvariant == ASSUME OneFinger PROVE Spec => []DuelInv
<1>1. Init => DuelInv BY InitType, InitTurn DEF DuelInv
<1>2. DuelInv /\ [Next]_vars => DuelInv' BY NextType, NextTurn DEF DuelInv
<1> QED BY <1>1, <1>2, PTL DEF Spec

(* Every enemy that is gone was paid for exactly once (GameScene.swift:166 *)
(* and 167), however often battles are left and started again.             *)
THEOREM PaidForOnce == ASSUME OneFinger PROVE Spec => []PaidOnce
<1>1. DuelInv => PaidOnce BY DEF DuelInv
<1> QED BY <1>1, DuelInvariant, PTL

(* A defeated enemy never strikes (GameScene.swift:156).                   *)
THEOREM DefeatedNeverStrike == ASSUME OneFinger PROVE Spec => DeadNeverStrike
<1>1. ASSUME DuelInv, [Next]_vars
      PROVE  [userHealth' < userHealth => enemyHealth > 0]_vars
  <2> SUFFICES ASSUME userHealth' < userHealth PROVE enemyHealth > 0 OBVIOUS
  <2>1. waits > 0
    <3>1. userHealth \in Int /\ userHealth <= UserHealth
      BY <1>1 DEF DuelInv, TypeOK, TurnInv
    <3> QED BY <1>1, <3>1, Numbers DEF Next, vars, StartBattle, Press, Slip, ReleaseAttack,
                              ReleaseEscape, Respond
  <2> QED BY <1>1, <2>1 DEF DuelInv, TurnInv
<1> QED BY <1>1, DuelInvariant, PTL DEF Spec, DeadNeverStrike

(* The initial states are those of Duel.                                   *)
LEMMA InitIsDuel == Init => D!Init
BY DEF Init, D!Init, turn

(* Every step of the battle is a step of the duel or changes none of its   *)
(* variables: touches and what becomes of a scene that was left.           *)
LEMMA NextIsDuel ==
  ASSUME OneFinger, DuelInv, [Next]_vars
  PROVE  [D!Next]_(D!duelVars)
<1> USE DEF DuelInv
<1>1. CASE UNCHANGED vars BY <1>1 DEF vars, D!duelVars, turn
<1>2. CASE StartBattle BY <1>2 DEF StartBattle, D!Next, D!Meet, turn
<1>3. ASSUME NEW f \in Fingers, NEW button \in Buttons, Press(f, button)
      PROVE  UNCHANGED D!duelVars
  BY <1>3 DEF Press, D!duelVars, turn
<1>4. ASSUME NEW F \in SUBSET Fingers, NEW button \in Buttons, Slip(F, button)
      PROVE  UNCHANGED D!duelVars
  BY <1>4 DEF Slip, D!duelVars, turn
<1>5. ASSUME NEW F \in SUBSET Fingers, ReleaseAttack(F)
      PROVE  D!Next
  <2>1. PICK f \in Fingers : on[f] = "attack" BY <1>5 DEF ReleaseAttack, Lift
  <2>2. ~ hidden /\ waits = 0 /\ scene = "battle" BY <2>1 DEF TurnInv
  <2>3. turn = "user" BY <2>2 DEF turn
  <2>4. /\ enemyHealth' = enemyHealth - UserPower /\ hidden' = TRUE
        /\ scene' = "battle" /\ enemy' = enemy /\ userHealth' = userHealth
    BY <1>5, <2>2 DEF ReleaseAttack, Attack
  <2>5. CASE enemyHealth' > 0
    <3>1. waits' = 1 /\ alive' = alive /\ totalExp' = totalExp
      BY <1>5, <2>2, <2>5 DEF ReleaseAttack, Attack
    <3>2. turn' = "enemy" BY <2>4, <3>1 DEF turn
    <3> QED BY <2>2, <2>3, <2>4, <2>5, <3>1, <3>2 DEF D!Next, D!Strike
  <2>6. CASE ~ (enemyHealth' > 0)
    <3>1. waits' = 0 /\ alive' = alive \ {enemy} /\ totalExp' = totalExp + 1
      BY <1>5, <2>2, <2>6 DEF ReleaseAttack, Attack
    <3>2. turn' = "won" BY <2>4, <3>1 DEF turn
    <3>3. enemyHealth' <= 0 BY <2>4, <2>6, Numbers DEF TypeOK
    <3> QED BY <2>2, <2>3, <2>4, <3>1, <3>2, <3>3 DEF D!Next, D!Defeat
  <2> QED BY <2>5, <2>6
<1>6. ASSUME NEW F \in SUBSET Fingers, ReleaseEscape(F)
      PROVE  D!Next
  BY <1>6 DEF ReleaseEscape, D!Next, D!Leave, turn
<1>7. CASE Respond /\ scene = "map" BY <1>7 DEF Respond, D!duelVars, turn
<1>8. CASE Respond /\ scene = "battle"
  <2>1. waits = 1 /\ hidden BY <1>8 DEF Respond, TurnInv
  <2> QED BY <1>8, <2>1 DEF Respond, D!Next, D!Answer, turn
<1>9. scene \in {"map", "battle"} BY DEF TypeOK
<1> QED BY <1>1, <1>2, <1>3, <1>4, <1>5, <1>6, <1>7, <1>8, <1>9 DEF Next

(* With one finger, GameScene plays the duel: strikes in turn, one answer  *)
(* to each attack the enemy survives, nothing after its defeat.            *)
THEOREM BattleImplementsDuel == ASSUME OneFinger PROVE Spec => IsDuel
<1>1. DuelInv /\ [Next]_vars => [D!Next]_(D!duelVars) BY NextIsDuel
<1> QED BY <1>1, InitIsDuel, DuelInvariant, PTL DEF Spec, IsDuel, D!Safe

-----------------------------------------------------------------------------
(* 3. Any number of fingers. *)

(* The user's health lasts at least as many of the enemy's strikes as the  *)
(* enemy's lasts of the user's.                                            *)
UserOutlasts == EnemyHealth * EnemyPower <= UserHealth * UserPower

(* After k attacks, a strikes of the enemy have been made and waits are to *)
(* come: no more than there were attacks, and no more than there can be    *)
(* attacks that leave the enemy alive.                                     *)
Struck(a, k) ==
  /\ enemyHealth = EnemyHealth - k * UserPower
  /\ userHealth = UserHealth - a * EnemyPower
  /\ a + waits <= k
  /\ (a + waits) * UserPower < EnemyHealth

SurvivalInv == \E a, k \in Nat : Struck(a, k)

(* Multiplication by a natural number is monotone, by a positive one       *)
(* strictly.                                                               *)
LEMMA Monotone ==
  ASSUME NEW x \in Int, NEW y \in Int, NEW z \in Nat
  PROVE  /\ x <= y => x * z <= y * z
         /\ x < y /\ z > 0 => x * z < y * z
OBVIOUS

(* Every step keeps the count of strikes.                                  *)
LEMMA NextSurvival == TypeOK /\ SurvivalInv /\ [Next]_vars => SurvivalInv'
<1> SUFFICES ASSUME TypeOK, SurvivalInv, [Next]_vars PROVE SurvivalInv' OBVIOUS
<1>0. PICK a \in Nat, k \in Nat : Struck(a, k) BY DEF SurvivalInv
<1>1. CASE UNCHANGED <<enemyHealth, userHealth, waits>>
  BY <1>0, <1>1 DEF SurvivalInv, Struck
<1>2. CASE StartBattle
  <2>1. enemyHealth' = EnemyHealth /\ userHealth' = UserHealth /\ waits' = 0
    BY <1>2 DEF StartBattle
  <2>2. Struck(0, 0)' BY <2>1, Numbers DEF Struck
  <2> QED BY <2>2 DEF SurvivalInv
<1>3. ASSUME NEW F \in SUBSET Fingers, ReleaseAttack(F) PROVE SurvivalInv'
  <2>1. enemyHealth' = enemyHealth - UserPower /\ userHealth' = userHealth
    BY <1>3 DEF ReleaseAttack, Attack
  <2>2. waits \in Nat BY DEF TypeOK
  <2>3. (k + 1) * UserPower = k * UserPower + UserPower BY Numbers
  <2>4. k * UserPower \in Nat BY Numbers
  <2>5. enemyHealth' = EnemyHealth - (k + 1) * UserPower
    BY <1>0, <2>1, <2>3, <2>4, Numbers DEF Struck
  <2>6. CASE enemyHealth' > 0
    <3>1. waits' = waits + 1 BY <1>3, <2>6 DEF ReleaseAttack, Attack
    <3>2. (a + waits + 1) * UserPower <= (k + 1) * UserPower
      BY <1>0, <2>2, Monotone, Numbers DEF Struck
    <3>3. (a + waits + 1) * UserPower \in Nat /\ (k + 1) * UserPower \in Nat
      BY <2>2, Numbers
    <3>4. (a + waits + 1) * UserPower < EnemyHealth
      BY <2>5, <2>6, <3>2, <3>3, Numbers
    <3>5. a + waits' = a + waits + 1 /\ a + waits' <= k + 1 BY <1>0, <2>2, <3>1 DEF Struck
    <3>6. (a + waits') * UserPower < EnemyHealth BY <3>4, <3>5
    <3>7. Struck(a, k + 1)' BY <1>0, <2>1, <2>5, <3>5, <3>6 DEF Struck
    <3> QED BY <3>7 DEF SurvivalInv
  <2>7. CASE ~ (enemyHealth' > 0)
    <3>1. waits' = waits BY <1>3, <2>7 DEF ReleaseAttack, Attack
    <3>2. a + waits' <= k + 1 BY <1>0, <2>2, <3>1 DEF Struck
    <3>3. Struck(a, k + 1)' BY <1>0, <2>1, <2>5, <3>1, <3>2 DEF Struck
    <3> QED BY <3>3 DEF SurvivalInv
  <2> QED BY <2>6, <2>7
<1>4. CASE Respond
  <2>1. waits' = waits - 1 /\ userHealth' = userHealth - EnemyPower /\ enemyHealth' = enemyHealth
    BY <1>4 DEF Respond
  <2>2. waits \in Nat BY DEF TypeOK
  <2>3. (a + 1) * EnemyPower = a * EnemyPower + EnemyPower /\ a * EnemyPower \in Nat BY Numbers
  <2>4. userHealth' = UserHealth - (a + 1) * EnemyPower
    BY <1>0, <2>1, <2>3, Numbers DEF Struck
  <2>5. (a + 1) + waits' = a + waits BY <2>1, <2>2
  <2>6. Struck(a + 1, k)' BY <1>0, <2>1, <2>4, <2>5 DEF Struck
  <2> QED BY <2>6 DEF SurvivalInv
<1> QED BY <1>1, <1>2, <1>3, <1>4 DEF Next, vars, Press, Slip, ReleaseEscape

(* Nobody has struck yet.                                                  *)
LEMMA InitSurvival == Init => SurvivalInv
<1> SUFFICES ASSUME Init PROVE Struck(0, 0) BY DEF SurvivalInv
<1> QED BY Numbers DEF Init, Struck

(* A user who can take every answer of a duel survives any number of       *)
(* them.                                                                   *)
LEMMA SurvivalImpliesSurvives ==
  ASSUME UserOutlasts, TypeOK, SurvivalInv
  PROVE  UserSurvives
<1>1. PICK a \in Nat, k \in Nat : Struck(a, k) BY DEF SurvivalInv
<1>2. waits \in Nat BY DEF TypeOK
<1>3. a * UserPower < EnemyHealth
  <2>1. a * UserPower <= (a + waits) * UserPower BY <1>2, Monotone, Numbers
  <2>2. a * UserPower \in Nat /\ (a + waits) * UserPower \in Nat BY <1>2, Numbers
  <2> QED BY <1>1, <2>1, <2>2, Numbers DEF Struck
<1>4. a * EnemyPower < UserHealth
  <2> SUFFICES ASSUME UserHealth <= a * EnemyPower PROVE FALSE
    BY Numbers
  <2>1. a * EnemyPower \in Nat /\ a * UserPower \in Nat BY Numbers
  <2>2. UserHealth * UserPower <= (a * EnemyPower) * UserPower BY <2>1, Monotone, Numbers
  <2>3. (a * UserPower) * EnemyPower < EnemyHealth * EnemyPower BY <1>3, <2>1, Monotone, Numbers
  <2>4. (a * EnemyPower) * UserPower = (a * UserPower) * EnemyPower BY Numbers
  <2>5. /\ (a * EnemyPower) * UserPower \in Int /\ EnemyHealth * EnemyPower \in Int
        /\ UserHealth * UserPower \in Int
    BY <2>1, Numbers
  <2> QED BY <2>2, <2>3, <2>4, <2>5 DEF UserOutlasts
<1>5. a * EnemyPower \in Nat BY Numbers
<1> QED BY <1>1, <1>4, <1>5, Numbers DEF Struck, UserSurvives

(* GameScene never checks the user's health; whatever any number of        *)
(* fingers do, it stays above zero when the user would outlast the enemy   *)
(* in turns, as with the numbers of the source (300 * 20 <= 500 * 32).     *)
THEOREM UserAlwaysSurvives == ASSUME UserOutlasts PROVE Spec => []UserSurvives
<1>1. Init => TypeOK /\ SurvivalInv BY InitType, InitSurvival
<1>2. (TypeOK /\ SurvivalInv) /\ [Next]_vars => (TypeOK /\ SurvivalInv)'
  BY NextType, NextSurvival
<1>3. TypeOK /\ SurvivalInv => UserSurvives BY SurvivalImpliesSurvives
<1> QED BY <1>1, <1>2, <1>3, PTL DEF Spec
=============================================================================
