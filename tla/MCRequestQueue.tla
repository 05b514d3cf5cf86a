--------------------------- MODULE MCRequestQueue ---------------------------
EXTENDS RequestQueue

CONSTANTS c1, c2, w1, r1, r2

TwoClients == {c1, c2}
OneWorker == {w1}
TwoReqs == {r1, r2}
Garbage == {TRUE, FALSE}
=============================================================================
