-------------------------- MODULE MCCodeAssessment --------------------------
(* Small instances of CodeAssessment for TLC.                               *)
EXTENDS CodeAssessment, TLC

\* threads are interchangeable (safety runs only)
ThreadSymmetry == Permutations(Thread)
=============================================================================
