------------------------------- MODULE Roles -------------------------------
(***************************************************************************)
(* The role order every PayMesh contract decides by:                       *)
(*                                                                         *)
(*         Owner > Admin > { Finance, Hr } > Viewer                        *)
(*                                                                         *)
(* with Finance and Hr incomparable.  The same order is written twice in   *)
(* the repository, in Rust (contracts/common) and in TypeScript            *)
(* (packages/shared), and both translate to the operator HasAtLeast.       *)
(***************************************************************************)

Role == {"Owner", "Admin", "Finance", "Hr", "Viewer"}

\* What a member lookup answers for an address that holds no role.
NoRole == "NoRole"

HasAtLeast(self, minimum) ==
    \/ self = minimum
    \/ self = "Owner"
    \/ self = "Admin" /\ minimum # "Owner"
    \/ self \in {"Finance", "Hr"} /\ minimum = "Viewer"

CanMoveFunds(self) == self \in {"Owner", "Admin", "Finance"}

\* Organization.require_role over an optional role: nobody passes without one.
RoleSuffices(held, minimum) == held # NoRole /\ HasAtLeast(held, minimum)
=============================================================================
