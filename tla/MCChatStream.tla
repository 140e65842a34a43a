---------------------------- MODULE MCChatStream ----------------------------
\* Module ChatStream for TLC.
EXTENDS ChatStream

CONSTANTS s1, s2, s3
=============================================================================
