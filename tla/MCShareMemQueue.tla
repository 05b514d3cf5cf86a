--------------------------- MODULE MCShareMemQueue ---------------------------
EXTENDS ShareMemQueue

CONSTANTS w1, r1, o1

OneWriter == {w1}
OneReader == {r1}
OneOther == {o1}
=============================================================================
