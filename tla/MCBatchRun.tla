----------------------------- MODULE MCBatchRun -----------------------------
(* A small instance of BatchRun for TLC.                                    *)
EXTENDS BatchRun
=============================================================================
