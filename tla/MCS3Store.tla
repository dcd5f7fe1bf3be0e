----------------------------- MODULE MCS3Store ------------------------------
EXTENDS S3Store

=============================================================================
