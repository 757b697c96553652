----------------------------- MODULE MCInvitations -----------------------------
(* One task; its two users are interchangeable, and so are the jobs.         *)
EXTENDS Invitations, TLC

CONSTANTS u1, u2, t1

OneTask == u1 :> t1 @@ u2 :> t1
Symmetry == Permutations(Jobs) \cup Permutations(Users)
=============================================================================
