----------------------------- MODULE MCAttendance -----------------------------
(***************************************************************************)
(* Instances of Attendance.                                                *)
(***************************************************************************)
EXTENDS Attendance, TLC

WorkerSymmetry == Permutations(Worker)
===============================================================================
