--------------------------- MODULE MCDiscordLinks ---------------------------
(***************************************************************************)
(* Small instances of DiscordLinks for TLC.  Users, identities, row ids    *)
(* and workers are told apart only by equality.                            *)
(***************************************************************************)
EXTENDS DiscordLinks, TLC

Symmetry ==
  Permutations(User) \cup Permutations(Discord)
    \cup Permutations(Link) \cup Permutations(Worker)

=============================================================================
