------------------------- MODULE MCDependencyLock --------------------------
(***************************************************************************)
(* A dependency is named after the way it is declared.  Failures are       *)
(* combined with one process, two processes with a healthy network.        *)
(***************************************************************************)
EXTENDS DependencyLock

CONSTANTS p1, p2

KindIsName == [d \in Deps |-> d]

Setting(deps, procs, relative, faults) ==
    [deps |-> deps, procs |-> procs, relative |-> relative, faults |-> faults]

Moving == Setting({"tag", "rev"}, {p1}, FALSE, TRUE)
Branch == Setting({"branch"}, {p1}, FALSE, TRUE)
Fixed == Setting({"path", "version"}, {p1}, TRUE, TRUE)
Annotated == Setting({"annotated"}, {p1}, FALSE, TRUE)
Overlapping == Setting({"rev"}, {p1, p2}, FALSE, FALSE)

MCSettings == {Moving, Branch, Fixed, Annotated, Overlapping}
MCBranch == {Setting({"branch"}, {p1}, FALSE, FALSE)}
=============================================================================
