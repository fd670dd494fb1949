-------------------------- MODULE MCInterviewRounds --------------------------
(* The instances of InterviewRounds that TLC checks. *)
EXTENDS InterviewRounds
=============================================================================
