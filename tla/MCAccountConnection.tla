-------------------------- MODULE MCAccountConnection --------------------------
(* Two rows of the same phone; rows and jobs are interchangeable. *)
EXTENDS AccountConnection, TLC

CONSTANTS a1, a2

SamePhone == a1 :> "phone" @@ a2 :> "phone"
Symmetry == Permutations(Jobs) \cup Permutations(Accounts)
=============================================================================
