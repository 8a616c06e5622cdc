----------------------------- MODULE MCOpening ------------------------------
(* Files of older releases for the model checker.                          *)
EXTENDS Opening, TLC

MCOlder == {
    <<>>,
    "consumers" :> "obsolete",
    "archived_deliveries" :> "obsolete",
    "archived_deliveries" :> "unindexable",
    "messages" :> "unindexable" @@ "consumers" :> "obsolete",
    "deliveries" :> "unprobed"}
=============================================================================
