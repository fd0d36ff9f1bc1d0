----------------------------- MODULE MCVarDims -----------------------------
EXTENDS VarDims
=============================================================================
