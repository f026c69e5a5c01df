-------------------------- MODULE MCRegistryHistory --------------------------
(***************************************************************************)
(* The instances of MCLnurlRegistry, with the history variables.           *)
(***************************************************************************)
EXTENDS RegistryHistory, MCLnurlRegistry

=============================================================================
