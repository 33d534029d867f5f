----------------------------- MODULE MCAccounts -----------------------------
(***************************************************************************)
(* Small instances of Accounts for TLC: two mailboxes, one of them spelled *)
(* in two ways, and two default roles.                                     *)
(***************************************************************************)
EXTENDS Accounts, TLC

CONSTANTS mail, Mail  \* two spellings of one address

MCLower == [x \in Login |-> IF x = Mail THEN mail ELSE x]

MCDefault == << {1}, {1, 2} >>

Symmetry == Permutations(User) \cup Permutations(Worker)

=============================================================================
