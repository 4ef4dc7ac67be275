------------------------------ MODULE JobGraph ------------------------------
(***************************************************************************)
(* The job graph of a compiled-target campaign (o2t/agent/campaign.py).    *)
(*                                                                         *)
(* A manifest declares jobs, the jobs each one requires and which of them  *)
(* are required.  A job that ran has a record, "completed" or "failed";    *)
(* every other status is derived from the records.  The operators take     *)
(* the dependency function req \in [J -> SUBSET J] and the record statuses *)
(* st \in [J -> RecordStatus] as parameters, so the same definitions serve *)
(* a campaign with one fixed manifest and the check over every small graph.*)
(*                                                                         *)
(* The program computes blocked jobs and the required closure by recursion *)
(* over the graph.  Here they are least sets closed under one rule, which  *)
(* is what proofs need; JobGraphCode holds the recursions, the run "graph" *)
(* checks the two against each other and JobGraphProofs proves them equal. *)
(***************************************************************************)

RecordStatus == {"none", "completed", "failed"}

JobStatus == {"completed", "failed", "blocked", "ready", "pending"}

AllCompleted(st, S) == \A d \in S : st[d] = "completed"

\* Faulty variants of Ready: a pending job runs, a settled job runs again, and
\* a failed job is retried.
ReadyEarly(req, st, j) == st[j] = "none" /\ \A d \in req[j] : st[d] # "failed"
ReadyAgain(req, st, j) == AllCompleted(st, req[j])
ReadyRetry(req, st, j) == st[j] # "completed" /\ AllCompleted(st, req[j])

\* A job may run: it has no record and all it requires completed.
Ready(req, st, j) == st[j] = "none" /\ AllCompleted(st, req[j])

BlockClosed(req, st, S) ==
  \A j \in DOMAIN req :
    (st[j] = "none" /\ \E d \in req[j] : st[d] = "failed" \/ d \in S) => j \in S

\* Faulty variant: only a direct dependency blocks.
BlockedDirectly(req, st) ==
  {j \in DOMAIN req : st[j] = "none" /\ \E d \in req[j] : st[d] = "failed"}

\* The jobs without a record that a failure upstream keeps from ever running.
Blocked(req, st) ==
  {j \in DOMAIN req : /\ st[j] = "none"
                      /\ \A S \in SUBSET DOMAIN req : BlockClosed(req, st, S) => j \in S}

StatusOf(req, st, j) ==
  CASE st[j] # "none"           -> st[j]
    [] j \in Blocked(req, st)   -> "blocked"
    [] Ready(req, st, j)        -> "ready"
    [] OTHER                    -> "pending"

RequiresClosed(req, S) == \A j \in S : req[j] \subseteq S

\* The required jobs and everything they depend on.
Needed(req, must) ==
  {j \in DOMAIN req : \A S \in SUBSET DOMAIN req :
                        (must \subseteq S /\ RequiresClosed(req, S)) => j \in S}

\* The needed jobs that can still run, now or later.
Remaining(req, st, must) ==
  {j \in Needed(req, must) : StatusOf(req, st, j) \in {"ready", "pending"}}

JobsComplete(req, st, must) == AllCompleted(st, Needed(req, must))

\* What a resumed checkpoint must satisfy: a completed job never precedes
\* one it requires.
DependencyClosed(req, st) ==
  \A j \in DOMAIN req : st[j] = "completed" => AllCompleted(st, req[j])

\* No non-empty set of jobs in which each one requires another of the set.
Acyclic(req) ==
  \A S \in SUBSET DOMAIN req : S # {} => \E j \in S : req[j] \cap S = {}
=============================================================================
