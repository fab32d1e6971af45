---------------------------- MODULE MC_RenderLoop ----------------------------
(* ThreadedRenderLoop with its inductive invariant, for TLC.  Windows are    *)
(* strings, and what each run lets go wrong or be called is in its .cfg.     *)
EXTENDS RenderLoopInv
=============================================================================
