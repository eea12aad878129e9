----------------------------- MODULE MCAccounts -----------------------------
(* Values of the constants of Accounts for model checking.  Two of the     *)
(* three numeric children (health, power, totalExp) behave like the third  *)
(* and are left out.                                                       *)
EXTENDS Accounts

MCFieldOrder == <<"username", "password", "totalExp">>
MCFields == {"username", "password", "totalExp"}
=============================================================================
