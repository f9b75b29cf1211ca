------------------------------ MODULE MCSched ------------------------------
(***************************************************************************)
(* The instance of Sched for TLC.                                          *)
(***************************************************************************)
EXTENDS Sched

CONSTANTS B

\* Two tasks start on CPU 0, and one of them may be moved.
MCFile == << <<0, 1, 1, 1>>, <<0, 1>>, <<1, 1, B>>, <<0, 2>> >>
=============================================================================
