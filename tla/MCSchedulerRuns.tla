--------------------------- MODULE MCSchedulerRuns ---------------------------
(* Instances of SchedulerRuns: two runs, of one job or of two. *)
EXTENDS SchedulerRuns, TLC

CONSTANTS r1, r2, j1, j2

MCRuns2 == {r1, r2}
MCJobs1 == {j1}
MCJobs2 == {j1, j2}
MCJobOf1 == [r \in MCRuns2 |-> j1]
MCJobOf2 == [r \in MCRuns2 |-> IF r = r1 THEN j1 ELSE j2]
MCSymmetry == Permutations({r1, r2})
=============================================================================
