-------------------------------- MODULE MCDeploy --------------------------------
(***************************************************************************)
(* A laptop and the runner, a tree of two files in two versions, one medium *)
(* and a role of two permissions.                                          *)
(***************************************************************************)
EXTENDS Deploy

CONSTANTS laptop, runner, m1

BothDeployers == {laptop, runner}
OneLaptop == {laptop}
TwoFiles  == {"compose.yaml", "contact"}
OneMedium == {m1}
=============================================================================
