--------------------------- MODULE MCOrganization ---------------------------
(***************************************************************************)
(* One organization instance, three users, every role: every order of      *)
(* grants, demotions and revocations among three members.                  *)
(***************************************************************************)
EXTENDS Organization, TLC

UserSymmetry == Permutations(Users)
=============================================================================
