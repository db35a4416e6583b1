------------------------------- MODULE MCJobs -------------------------------
(* A job that is run by the schedule (s1, s2) and by hand (m1), beside a     *)
(* server and one other command.                                             *)
EXTENDS Jobs, TLC

CONSTANTS s1, s2, m1, command

MCScheduled == {s1, s2}
MCOnce == {s1}
MCManual == {m1}
MCCommands == {command}
=============================================================================
