------------------------ MODULE MCAssessmentProgress ------------------------
(* Small instances of AssessmentProgress for TLC.                                     *)
EXTENDS AssessmentProgress, TLC

\* threads and requests of the summary are interchangeable (safety runs only)
ThreadSymmetry == Permutations(Thread) \cup Permutations(Reader)
=============================================================================
