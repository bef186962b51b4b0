--------------------------- MODULE MCWindowsSetup ---------------------------
\* WindowsSetup for TLC: time in units of two seconds, dispose()'s limit rounded up.
EXTENDS WindowsSetup
=============================================================================
