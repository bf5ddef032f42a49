-------------------------- MODULE MCAnalyzerAttempt --------------------------
(* AnalyzerAttempt for TLC; the bounds are in the .cfg files.              *)
EXTENDS AnalyzerAttempt
=============================================================================
