----------------------------- MODULE MCJsonRpc -----------------------------
EXTENDS JsonRpc
=============================================================================
