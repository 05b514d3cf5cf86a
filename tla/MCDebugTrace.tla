---------------------------- MODULE MCDebugTrace ----------------------------
EXTENDS DebugTrace
=============================================================================
