--------------------------- MODULE MCLoggingPool ---------------------------
(* LoggingPool for TLC: the constants get their values in the .cfg file.   *)
EXTENDS LoggingPool
===========================================================================
