--------------------------- MODULE MCRequestPath ---------------------------
EXTENDS RequestPath
=============================================================================
