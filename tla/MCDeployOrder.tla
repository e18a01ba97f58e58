--------------------------- MODULE MCDeployOrder ---------------------------
(***************************************************************************)
(* Three aliases and up to two dependencies each: every manifest with up   *)
(* to three contracts, valid or not, a name that is not declared included. *)
(***************************************************************************)
EXTENDS DeployOrder
=============================================================================
