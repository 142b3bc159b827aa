--------------------------- MODULE MCBypassAnswers ---------------------------
(* Answers that need two dynamic routes, that a static rule covers in part,    *)
(* and that name the endpoint, whose route nobody may add.                     *)
EXTENDS BypassAnswers

CONSTANTS c1, c2, p1, p2, lan, endpoint

MCAnswers == {<<p2, p1>>, <<lan, p1>>, <<p1, endpoint>>}
=============================================================================
