-------------------------- MODULE MCQualification ---------------------------
(***************************************************************************)
(* Three rounds one second apart; a round's queries may take longer than   *)
(* the skew the alignment allows.                                          *)
(***************************************************************************)
EXTENDS Qualification

\* The condition under which rounds pair up, and the least coverage the command
\* line admits.
ASSUME RoundsAreFew == NobodyStaysAlone /\ MinCoverage >= 90
=============================================================================
