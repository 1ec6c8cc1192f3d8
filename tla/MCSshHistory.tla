---------------------------- MODULE MCSshHistory ----------------------------
\* Two connections, whose four records fill the outbox.
EXTENDS SshHistory
=============================================================================
