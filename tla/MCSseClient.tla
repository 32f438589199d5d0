---------------------------- MODULE MCSseClient -----------------------------
EXTENDS SseClient
=============================================================================
