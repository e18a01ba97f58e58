-------------------------- MODULE MCIdentityStore --------------------------
(***************************************************************************)
(* Two names are enough for one default to take the place of another, two  *)
(* processes for commands to overlap.                                      *)
(***************************************************************************)
EXTENDS IdentityStore

Careful == [sequential |-> TRUE, relative |-> FALSE, faults |-> FALSE]
Failing == [sequential |-> TRUE, relative |-> FALSE, faults |-> TRUE]
Relative == [sequential |-> TRUE, relative |-> TRUE, faults |-> TRUE]
Overlapping == [sequential |-> FALSE, relative |-> FALSE, faults |-> FALSE]

MCSettings == {Careful, Failing, Relative, Overlapping}
MCCareful == {Careful}
=============================================================================
