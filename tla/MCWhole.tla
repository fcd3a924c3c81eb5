------------------------------ MODULE MCWhole ------------------------------
(***************************************************************************)
(* An instance of AccountsSessions for TLC.  Clients call the handlers of  *)
(* sign-ups, or those of accounts, throughout a behaviour.                 *)
(***************************************************************************)
EXTENDS MCAccounts, AccountsSessions

VARIABLE flows  \* the handlers that clients call

WholeInit == SeenInit /\ flows \in {SignupFlow, SignedUpHandlers}

WholeNext ==
  /\ SeenNext
  /\ \A r \in Requests : request'[r].handler \in flows \union {"none"}
  /\ UNCHANGED flows

WholeSpec == WholeInit /\ [][WholeNext]_<<vars, seen, flows>>
=============================================================================
