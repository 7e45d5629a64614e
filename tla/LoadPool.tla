------------------------------ MODULE LoadPool ------------------------------
(***************************************************************************)
(* The pool of a fibre cache that runs sync loaders off their caller's     *)
(* thread.  Workers start on demand and leave after a second without work; *)
(* three counters, read and written apart from the job channel, decide     *)
(* whether a submission needs a new worker.  Jobs are alike and counted.   *)
(* The channel is the unbounded MPMC one, taken as an atomic queue here.   *)
(***************************************************************************)
EXTENDS Naturals, FiniteSets

CONSTANTS
    Submitters,  \* threads that submit
    Threads,     \* threads the pool may spawn: more than MaxWorkers
    MaxWorkers,  \* MAX_WORKERS
    MaxJobs      \* bound on the submissions of a behaviour

VARIABLES
    jobs,     \* jobs in the channel
    count,    \* [workers, idle, queued]
    sub,      \* submitter -> where it is in submit, and the count it took
    worker,   \* thread -> where it is in worker
    made      \* submissions so far

vars == <<jobs, count, sub, worker, made>>

At(pc) == {w \in Threads : worker[w] = pc}

\* submit: count, send, then look whether an idle worker is left for this job.
Submit(s) ==
    \/ /\ sub[s].pc = "ready" /\ made < MaxJobs
       /\ made' = made + 1
       /\ count' = [count EXCEPT !.queued = @ + 1]
       /\ sub' = [sub EXCEPT ![s] = [pc |-> "send", queued |-> count.queued + 1]]
       /\ UNCHANGED <<jobs, worker>>
    \/ /\ sub[s].pc = "send"
       /\ jobs' = jobs + 1
       /\ sub' = [sub EXCEPT ![s].pc = "look"]
       /\ UNCHANGED <<count, worker, made>>
    \/ /\ sub[s].pc = "look"
       /\ sub' = [sub EXCEPT ![s] = IF sub[s].queued <= count.idle
                                    THEN [pc |-> "ready", queued |-> 0]
                                    ELSE [pc |-> "claim", queued |-> 0]]
       /\ UNCHANGED <<jobs, count, worker, made>>

\* A submission that saw no idle worker spawns one, up to MAX_WORKERS.
Spawn(s) ==
    /\ sub[s].pc = "claim"
    /\ sub' = [sub EXCEPT ![s].pc = "ready"]
    /\ \/ /\ count.workers >= MaxWorkers /\ UNCHANGED <<count, worker>>
       \/ /\ count.workers < MaxWorkers
          /\ count' = [count EXCEPT !.workers = @ + 1]
          /\ \E w \in At("none") : worker' = [worker EXCEPT ![w] = "start"]
    /\ UNCHANGED <<jobs, made>>

Moves(w, here, there) == worker[w] = here /\ worker' = [worker EXCEPT ![w] = there]

\* Counted idle, then recv_timeout: a job, or a timeout with none there.
Receive(w) ==
    /\ \/ /\ Moves(w, "start", "recv")
          /\ count' = [count EXCEPT !.idle = @ + 1] /\ UNCHANGED jobs
       \/ /\ Moves(w, "recv", "taken") /\ jobs > 0
          /\ jobs' = jobs - 1 /\ UNCHANGED count
       \/ Moves(w, "recv", "timeout") /\ jobs = 0 /\ UNCHANGED <<jobs, count>>
       \/ /\ Moves(w, "taken", "counted")
          /\ count' = [count EXCEPT !.idle = @ - 1] /\ UNCHANGED jobs
       \/ /\ Moves(w, "counted", "running")
          /\ count' = [count EXCEPT !.queued = @ - 1] /\ UNCHANGED jobs
    /\ UNCHANGED <<sub, made>>

\* After a timeout: no longer idle, no longer a worker, one last look.
Leave(w) ==
    /\ \/ /\ Moves(w, "timeout", "leave")
          /\ count' = [count EXCEPT !.idle = @ - 1] /\ UNCHANGED jobs
       \/ /\ Moves(w, "leave", "last")
          /\ count' = [count EXCEPT !.workers = @ - 1] /\ UNCHANGED jobs
       \/ Moves(w, "last", "none") /\ jobs = 0 /\ UNCHANGED <<jobs, count>>
       \/ /\ Moves(w, "last", "late") /\ jobs > 0
          /\ jobs' = jobs - 1 /\ UNCHANGED count
       \/ /\ Moves(w, "late", "counted")
          /\ count' = [count EXCEPT !.workers = @ + 1] /\ UNCHANGED jobs
    /\ UNCHANGED <<sub, made>>

JobEnds(w) == Moves(w, "running", "start") /\ UNCHANGED <<jobs, count, sub, made>>

Init ==
    /\ jobs = 0 /\ made = 0
    /\ count = [workers |-> 0, idle |-> 0, queued |-> 0]
    /\ sub = [s \in Submitters |-> [pc |-> "ready", queued |-> 0]]
    /\ worker = [w \in Threads |-> "none"]

Next == \/ \E s \in Submitters : Submit(s) \/ Spawn(s)
        \/ \E w \in Threads : Receive(w) \/ Leave(w) \/ JobEnds(w)

Spec == Init /\ [][Next]_vars

-----------------------------------------------------------------------------
Settled == /\ \A s \in Submitters : sub[s].pc = "ready"
           /\ \A w \in Threads : worker[w] \in {"none", "recv", "running"}

(***************************************************************************)
(* No job is left to a pool that went home: with no submission and no      *)
(* worker between two steps, a job in the channel has a worker waiting for *)
(* it or running another, and the counters agree with the threads.  ("A    *)
(* job sent after the timeout saw no idle worker to take it",              *)
(* load_pool.rs:65.)                                                       *)
(***************************************************************************)
PoolNotStuck ==
    Settled => /\ jobs > 0 => At("recv") \cup At("running") # {}
               /\ count.queued = jobs
               /\ count.idle = Cardinality(At("recv"))
               /\ count.workers = Cardinality(At("recv") \cup At("running"))
=============================================================================
