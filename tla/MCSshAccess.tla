---------------------------- MODULE MCSshAccess ----------------------------
\* Two containers of one user.
EXTENDS SshAccess
=============================================================================
