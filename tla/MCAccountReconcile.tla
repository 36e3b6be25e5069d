------------------------- MODULE MCAccountReconcile -------------------------
EXTENDS AccountReconcile

CONSTANTS nightly, page
=============================================================================
