---------------------------- MODULE MCGovernance ----------------------------
(***************************************************************************)
(* A small instance of Governance for TLC.                                 *)
(***************************************************************************)
EXTENDS Governance

CONSTANTS admin, multisig, other, token, feed

Named(kind, target, value) == [kind |-> kind, target |-> target, value |-> value]

\* The Timelock is the only ROLE_ADMIN and the only CONTROLLER.
MCInitialRoles ==
  {<<Timelock, "ROLE_ADMIN">>, <<Timelock, "CONTROLLER">>,
   <<admin, "TIMELOCK_ADMIN">>, <<multisig, "TIMELOCK_MULTISIG">>}

\* Roles that lead to more power, those that must not be left empty, and a change
\* of every other kind.
MCAnnouncements ==
  {Named("grantRole", other, "ROLE_ADMIN"),
   Named("revokeRole", Timelock, "ROLE_ADMIN"),
   Named("revokeRole", multisig, "TIMELOCK_MULTISIG"),
   Named("setFeeReceiver", other, "none"),
   Named("addOracleSigner", other, "none"),
   Named("removeOracleSigner", other, "none"),
   Named("setPriceFeed", token, feed),
   Named("setRealtimeFeed", token, feed)}
=============================================================================
