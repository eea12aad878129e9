\* One finger, two enemies, three battles.
SPECIFICATION FairSpec
CONSTANTS
  Fingers = {f1}
  Enemies = {e1, e2}
  UserHealth <- MCUserHealth
  UserPower <- MCUserPower
  EnemyHealth <- MCEnemyHealth
  EnemyPower <- MCEnemyPower
  StartExp <- MCStartExp
  MaxBattles = 3
INVARIANTS
  PaidOnce
  UserSurvives
PROPERTIES
  DeadNeverStrike
  IsDuel
  EnemyAnswers
CHECK_DEADLOCK FALSE
