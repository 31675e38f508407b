-------------------------- MODULE MCOpenAPICaller --------------------------
(***************************************************************************)
(* TLC instance of OpenAPICaller: two accounts, every kind of source.       *)
(***************************************************************************)
EXTENDS OpenAPICaller, TLC

MCKinds == {"static", "sts", "ecs", "uri", "external", "role", "sso"}
\* Processes differ only in their names, and so do accounts.
CallerSymmetry == Permutations(Commands) \cup Permutations(Accounts)
=============================================================================
