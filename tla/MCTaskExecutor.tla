-------------------------- MODULE MCTaskExecutor --------------------------
(* TLC instance of TaskExecutor: three submissions, two of them of one id, *)
(* and one of these two may be retried.                                    *)
EXTENDS TaskExecutor

MCJobs == 1 .. 3
MCTaskIds == {"a", "b"}
MCTaskOf == [j \in MCJobs |-> IF j = 1 THEN "b" ELSE "a"]
MCMaxRetries == [j \in MCJobs |-> IF j = 2 THEN 1 ELSE 0]

=============================================================================
