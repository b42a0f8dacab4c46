---------------------------- MODULE MCMainWindow ----------------------------
(* MainWindow for TLC: the constants get their values in the .cfg file.    *)
EXTENDS MainWindow
=============================================================================
