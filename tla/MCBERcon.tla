------------------------------ MODULE MCBERcon ------------------------------
(* BERcon on two rcons and three jobs, one of which is complete.             *)
EXTENDS BERcon

Job(id, time, text, certain) ==
    [id |-> id, time |-> time, text |-> text, certain |-> certain]

MCJobs == {Job(1, TRUE, TRUE, TRUE), Job(2, TRUE, FALSE, TRUE), Job(3, FALSE, FALSE, TRUE)}
=============================================================================
