---------------------------- MODULE MCAnalysisQueue ----------------------------
(***************************************************************************)
(* Small instances of AnalysisQueue: which user each task is made for, and *)
(* the worker process each cleanup loop runs in.                           *)
(***************************************************************************)
EXTENDS AnalysisQueue

CONSTANTS u1, t1, t2, w1, w2, c1

Owners1 == (t1 :> u1)
Owners2 == (t1 :> u1) @@ (t2 :> u1)
OneLoop == (c1 :> w1)
NoLoop == <<>>

\* Two tasks of one user are treated alike.
TasksAlike == Permutations({t1, t2})

================================================================================
