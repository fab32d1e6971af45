--------------------------- MODULE MC_LoaderThread ---------------------------
(* Loads for TLC, model values; what each of them is, is set in the .cfg.   *)
EXTENDS LoaderThread
CONSTANTS a, b, c
=============================================================================
