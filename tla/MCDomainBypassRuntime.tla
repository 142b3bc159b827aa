----------------------- MODULE MCDomainBypassRuntime -----------------------
(* Instances of DomainBypassRuntime for TLC. *)
EXTENDS DomainBypassRuntime, TLC

CONSTANTS s1, s2, c1, c2, h1, h2

\* Requests are interchangeable, and so are the calls of Close.
CallSymmetry == Permutations(Handlers) \cup Permutations(Closers)
=============================================================================
