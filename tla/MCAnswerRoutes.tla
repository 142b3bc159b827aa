--------------------------- MODULE MCAnswerRoutes ---------------------------
(* A bypassed name in two spellings, two more names and the root: aliases form  *)
(* chains and loops.                                                             *)
EXTENDS AnswerRoutes, TLC

CONSTANTS x1

MCSpellings == {"shop.", "SHOP.", "cdn.", "net.", "."}
MCCanonical == "shop." :> "shop" @@ "SHOP." :> "shop" @@ "cdn." :> "cdn" @@ "net." :> "net"
                   @@ "." :> ""
MCOwners == MCSpellings \ {"."}
=============================================================================
