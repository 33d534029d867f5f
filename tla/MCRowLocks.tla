----------------------------- MODULE MCRowLocks -----------------------------
(***************************************************************************)
(* A small instance of RowLocks for TLC: enough rows of one account for    *)
(* two logout-alls and a rotation to want the same ones.  There is no      *)
(* symmetry: rows are ordered, and one of the properties is a liveness one.*)
(***************************************************************************)
EXTENDS RowLocks, TLC

(* Bound: behaviours are followed until an account is deactivated.  That    *)
(* only turns requests away before they write, and takes no lock here.      *)
AccountsActive == \A u \in User : active[u]

=============================================================================
