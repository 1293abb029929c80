---------------------------- MODULE MCWorkerPool ----------------------------
(* WorkerPool with a queue of one, two workers and more requests than both *)
(* can hold, so that a 503, a full pool and a drain after Stop all happen. *)
EXTENDS WorkerPool

CONSTANTS s1, s2, s3, s4, a1, w1, w2, ok

MCRequests == {s1, s2, s3, s4, a1}
MCAsyncRequests == {a1}
MCWorkers == {w1, w2}

=============================================================================
