-------------------------- MODULE MCBrowserClient --------------------------
(***************************************************************************)
(* A small instance of BrowserClient for TLC.  Accounts, rows and tabs are *)
(* told apart only by equality, so permuting them is a symmetry; every     *)
(* property checked with it is a safety property.                          *)
(***************************************************************************)
EXTENDS BrowserClient, TLC

Symmetry ==
  Permutations(User) \cup Permutations(Session) \cup Permutations(Tab)

=============================================================================
