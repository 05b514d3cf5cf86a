----------------------------- MODULE MCMsgQueue -----------------------------
EXTENDS MsgQueue, TLC

CONSTANTS s1, s2, r1, b1, b2, b3, b4

OneSender == {s1}
TwoSenders == {s1, s2}
OneReceiver == {r1}
ThreeBodies == {b1, b2, b3}
FourBodies == {b1, b2, b3, b4}
=============================================================================
