----------------------------- MODULE MCReceipts -----------------------------
EXTENDS ReceiptsLiveness

CONSTANTS e1, e2

MCExecutor == {e1, e2}
MCCareful == {e1}
=============================================================================
