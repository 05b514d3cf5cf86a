----------------------------- MODULE MCCommQue -----------------------------
EXTENDS CommQue

CONSTANTS p1, c1

OneProducer == {p1}
OneConsumer == {c1}
=============================================================================
