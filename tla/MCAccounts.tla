------------------------------ MODULE MCAccounts ------------------------------
(* Instances of Accounts for TLC. *)
EXTENDS Accounts, TLC

(* Accounts, addresses, tokens and invitations are interchangeable, and no
   liveness is checked. *)
Interchangeable ==
  Permutations(Ids) \cup Permutations(Emails) \cup Permutations(Sessions)
    \cup Permutations(Invites)
=============================================================================
