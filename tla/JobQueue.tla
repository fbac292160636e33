------------------------------ MODULE JobQueue ------------------------------
(***************************************************************************)
(* What the cleanup pipeline promises the transaction that queues a job: a *)
(* committed job is executed at least once before it counts as done, may   *)
(* be executed again until then, is never executed once it is done or      *)
(* dead-lettered, and that end is final.                                   *)
(***************************************************************************)
EXTENDS Naturals

CONSTANT Jobs

VARIABLES
    job,    \* how each job stands
    runs    \* executions of its side effect

vars == <<job, runs>>

Init ==
    /\ job \in [Jobs -> {"none", "owed"}]
    /\ runs = [j \in Jobs |-> 0]

Enqueue(j) ==
    /\ job[j] = "none"
    /\ job' = [job EXCEPT ![j] = "owed"]
    /\ UNCHANGED runs

Execute(j) ==
    /\ job[j] = "owed"
    /\ runs' = [runs EXCEPT ![j] = @ + 1]
    /\ UNCHANGED job

Complete(j) ==
    /\ job[j] = "owed"
    /\ runs[j] > 0
    /\ job' = [job EXCEPT ![j] = "done"]
    /\ UNCHANGED runs

GiveUp(j) ==
    /\ job[j] = "owed"
    /\ job' = [job EXCEPT ![j] = "dead"]
    /\ UNCHANGED runs

Next == \E j \in Jobs : Enqueue(j) \/ Execute(j) \/ Complete(j) \/ GiveUp(j)

Spec == Init /\ [][Next]_vars
=============================================================================
