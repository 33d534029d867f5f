-------------------------- MODULE MCServiceRegistry --------------------------
(***************************************************************************)
(* A small instance of ServiceRegistry for TLC: two default services, of   *)
(* which one requires a permission, and one slug that is no default's.     *)
(***************************************************************************)
EXTENDS ServiceRegistry, TLC

CONSTANTS api, bot, other, discord

MCRequired == {{}, {discord}}

MCDefaults == << [slug |-> bot, required |-> {discord}],
                 [slug |-> api, required |-> {}] >>

Symmetry == Permutations(Service) \cup Permutations(Worker)

=============================================================================
