-------------------------- MODULE MCReceiptBatches ---------------------------
(* Instances of ReceiptBatches for TLC.                                    *)
EXTENDS ReceiptBatches

CONSTANTS c1, c2

\* One consumer is handed out two messages, the other one of them.
MCEntries == {<<c1, 1>>, <<c1, 2>>, <<c2, 1>>}
=============================================================================
