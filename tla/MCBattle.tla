------------------------------ MODULE MCBattle ------------------------------
(***************************************************************************)
(* Battle with the numbers of the source, in tenths: the user's health and *)
(* power (SignupVC.swift:67), the enemy's (MapVC.swift:379) and the        *)
(* experience a new account starts with (SignupVC.swift:67).               *)
(***************************************************************************)
EXTENDS Battle

MCUserHealth == 500
MCUserPower == 32
MCEnemyHealth == 300
MCEnemyPower == 20
MCStartExp == 10
=============================================================================
