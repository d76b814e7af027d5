---------------------------- MODULE MCThreadPool ----------------------------
(* A pool of two workers; the driver adds two jobs, the first of which adds *)
(* a third.                                                                 *)
EXTENDS ThreadPool, TLC
CONSTANTS w1, w2, j1, j2, j3

MCWorkers  == {w1, w2}
MCJobs     == {j1, j2, j3}
MCFirst    == <<j1, j2>>
MCChild    == (j1 :> j3) @@ (j2 :> None) @@ (j3 :> None)
MCThrowing == {j2}
MCNoThrow  == {}
=============================================================================
