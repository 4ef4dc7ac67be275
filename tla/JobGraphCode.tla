---------------------------- MODULE JobGraphCode ----------------------------
(***************************************************************************)
(* The recursions of campaign.py over the job graph, as the code writes    *)
(* them: the depth-first cycle check of _validate, status and required.    *)
(* A small state machine then settles ready jobs in every order over every *)
(* graph on Jobs, so that the declarative operators of JobGraph are        *)
(* compared with the recursions in every reachable set of records.         *)
(*                                                                         *)
(* Each recursion is a recursive function; its body is an operator that is *)
(* given the function.  A list of jobs is a set of which First is taken    *)
(* until none is left: the order in a manifest is arbitrary.               *)
(***************************************************************************)
EXTENDS JobGraph, FiniteSets

CONSTANT Jobs

ASSUME JobsAssumption == IsFiniteSet(Jobs)

VARIABLES req, must, st
vars == <<req, must, st>>

First(names) == CHOOSE n \in names : TRUE

-----------------------------------------------------------------------------
\* visit of _validate: depth first, `visiting` holds the path, `visited` the
\* finished jobs.  The ValueError of a cycle leaves every call.
Raise == [cyclic |-> TRUE, visited |-> {}]
Done(visited) == [cyclic |-> FALSE, visited |-> visited]

\* Faulty variant: a job is marked visited when it is entered.
VisitMarkedEarly(g, visitAll, n, visiting, visited) ==
  IF n \in visited THEN Done(visited)
  ELSE visitAll[<<g[n], visiting \cup {n}, visited \cup {n}>>]

Visit(g, visitAll, n, visiting, visited) ==
  IF n \in visiting THEN Raise
  ELSE IF n \in visited THEN Done(visited)
  ELSE LET below == visitAll[<<g[n], visiting \cup {n}, visited>>]
       IN  IF below.cyclic THEN Raise ELSE Done(below.visited \cup {n})

VisitEach(g, visitAll, names, visiting, visited) ==
  IF names = {} THEN Done(visited)
  ELSE LET n == First(names)
           one == Visit(g, visitAll, n, visiting, visited)
       IN  IF one.cyclic THEN Raise ELSE visitAll[<<names \ {n}, visiting, one.visited>>]

VisitAll(g) ==
  LET visitAll[a \in (SUBSET Jobs) \X (SUBSET Jobs) \X (SUBSET Jobs)] ==
        VisitEach(g, visitAll, a[1], a[2], a[3])
  IN  visitAll

\* A dependency that names no job is refused as well (117-118): a graph on Jobs has
\* none.
Validates(g) == ~VisitAll(g)[<<Jobs, {}, {}>>].cyclic

\* Faulty variant: a blocked dependency does not block.
StatusDirect(g, records, status, n) ==
  IF records[n] # "none" THEN records[n]
  ELSE LET dependencies == {status[d] : d \in g[n]}
       IN  IF "failed" \in dependencies THEN "blocked"
           ELSE IF dependencies \subseteq {"completed"} THEN "ready" ELSE "pending"

StatusFrom(g, records, status, n) ==
  IF records[n] # "none" THEN records[n]
  ELSE LET dependencies == {status[d] : d \in g[n]}
       IN  IF dependencies \cap {"failed", "blocked"} # {} THEN "blocked"
           ELSE IF dependencies \subseteq {"completed"} THEN "ready" ELSE "pending"

StatusCode(g, records) ==
  LET status[n \in Jobs] == StatusFrom(g, records, status, n) IN status

\* add of required: depth first, skipping a job already in `needed`.
\* Faulty variant: the dependencies of a dependency are left out.
AddShallow(g, addAll, names, needed) ==
  IF names = {} THEN needed
  ELSE LET n == First(names)
       IN  addAll[<<names \ {n}, needed \cup {n} \cup g[n]>>]

AddEach(g, addAll, names, needed) ==
  IF names = {} THEN needed
  ELSE LET n == First(names)
       IN  addAll[<<names \ {n}, IF n \in needed THEN needed
                                 ELSE addAll[<<g[n], needed \cup {n}>>]>>]

AddAll(g) ==
  LET addAll[a \in (SUBSET Jobs) \X (SUBSET Jobs)] == AddEach(g, addAll, a[1], a[2])
  IN  addAll

RequiredCode(g, required) == AddAll(g)[<<required, {}>>]

-----------------------------------------------------------------------------
Graphs == [Jobs -> SUBSET Jobs]

\* Manifests that reach the cycle check (any graph on Jobs, any non-empty required
\* set), with the records of a fresh campaign.
Init == /\ req \in Graphs
        /\ must \in (SUBSET Jobs) \ {{}}
        /\ st = [j \in Jobs |-> "none"]

\* campaign-step on a job the program calls ready.
Settle(j) == /\ Validates(req)
             /\ StatusCode(req, st)[j] = "ready"
             /\ \E outcome \in {"completed", "failed"} : st' = [st EXCEPT ![j] = outcome]
             /\ UNCHANGED <<req, must>>

Next == \E j \in Jobs : Settle(j)

Spec == Init /\ [][Next]_vars

-----------------------------------------------------------------------------
\* The depth-first search accepts a manifest exactly when its graph is acyclic
\* (campaign.py _validate): status and required then recurse without end only
\* on manifests the constructor refused.
ValidatesIffAcyclic == Validates(req) <=> Acyclic(req)

\* Every status the recursion of Campaign.status returns is the one the least
\* fixed point gives, whichever jobs have settled and in whichever order.
StatusAgrees ==
  Acyclic(req) => \A j \in Jobs : StatusCode(req, st)[j] = StatusOf(req, st, j)

\* Campaign.required is the least set holding the required jobs and closed
\* under `requires`, shared dependencies visited once included.
RequiredAgrees == RequiredCode(req, must) = Needed(req, must)

\* The conclude gate never waits on nothing: while a required job is ready or
\* pending, some needed job is ready, so the model always has a job to step.
GateHasWork ==
  Acyclic(req) =>
    (Remaining(req, st, must) # {} => \E j \in Needed(req, must) : Ready(req, st, j))
=============================================================================
