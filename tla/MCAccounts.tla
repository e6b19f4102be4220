------------------------------ MODULE MCAccounts ------------------------------
(* Instances of Accounts for TLC: two registrations share an address.      *)
EXTENDS Accounts, TLC

CONSTANTS s1, s2, s3, anna, bert

Addresses == s1 :> anna @@ s2 :> anna @@ s3 :> bert
=============================================================================
