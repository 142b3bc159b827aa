-------------------------- MODULE MCDynamicRoutes --------------------------
(* Instances of DynamicRoutes for TLC. *)
EXTENDS DynamicRoutes, TLC

CONSTANTS c1, c2, c3, p1, p2, p3

\* Handlers are interchangeable: no action or property names one.
CallerSymmetry == Permutations(Callers)
=============================================================================
