--------------------------- MODULE JobGraphProofs ---------------------------
(***************************************************************************)
(* Theorems about JobGraphCode, for every finite set of jobs: the three    *)
(* recursions of campaign.py end and compute what JobGraph says.           *)
(*                                                                         *)
(* A recursive function is the one solution of its equation.  That there   *)
(* is one is shown by giving it; that there is no other by a least         *)
(* counterexample, in the order in which the recursion descends.           *)
(***************************************************************************)
EXTENDS JobGraphCode, Induction, FiniteSetTheorems, TLAPS

-----------------------------------------------------------------------------
(* Types. *)

TypeInv == /\ req \in Graphs
           /\ must \subseteq Jobs
           /\ st \in [Jobs -> RecordStatus]

LEMMA TypeInvariant == Spec => []TypeInv
<1>1. Init => TypeInv
  BY DEF Init, TypeInv, RecordStatus
<1>2. TypeInv /\ [Next]_vars => TypeInv'
  BY DEF TypeInv, Next, Settle, vars, RecordStatus
<1> QED
  BY <1>1, <1>2, PTL DEF Spec

-----------------------------------------------------------------------------
(* status. *)

\* Blocked is closed under its rule, and a job is in it for a reason.
LEMMA BlockedFixed ==
  ASSUME NEW g \in Graphs, NEW s \in [Jobs -> RecordStatus], NEW n \in Jobs
  PROVE  n \in Blocked(g, s) <=>
           /\ s[n] = "none"
           /\ \E d \in g[n] : s[d] = "failed" \/ d \in Blocked(g, s)
<1> DEFINE B == Blocked(g, s)
<1>0. DOMAIN g = Jobs /\ \A j \in Jobs : g[j] \subseteq Jobs
  BY DEF Graphs
<1>1. BlockClosed(g, s, B)
  <2> SUFFICES ASSUME NEW j \in Jobs, s[j] = "none",
                      NEW d \in g[j], s[d] = "failed" \/ d \in B
               PROVE  j \in B
    BY <1>0 DEF BlockClosed
  <2>1. ASSUME NEW S \in SUBSET Jobs, BlockClosed(g, s, S) PROVE j \in S
    <3>1. d \in B => d \in S
      BY <1>0, <2>1 DEF Blocked
    <3> QED
      BY <1>0, <2>1, <3>1 DEF BlockClosed
  <2> QED
    BY <1>0, <2>1 DEF Blocked
<1>2. ASSUME n \in B, \A d \in g[n] : ~(s[d] = "failed" \/ d \in B) PROVE FALSE
  <2> DEFINE S == B \ {n}
  <2>1. BlockClosed(g, s, S)
    <3> SUFFICES ASSUME NEW j \in Jobs, s[j] = "none",
                        NEW d \in g[j], s[d] = "failed" \/ d \in S
                 PROVE  j \in S
      BY <1>0 DEF BlockClosed
    <3>1. j \in B
      BY <1>0, <1>1 DEF BlockClosed
    <3>2. j # n
      BY <1>2
    <3> QED
      BY <3>1, <3>2
  <2>2. S \in SUBSET DOMAIN g
    BY <1>0 DEF Blocked
  <2>3. n \in S
    BY <1>2, <2>1, <2>2 DEF Blocked
  <2> QED
    BY <2>3
<1>3. n \in B => s[n] = "none"
  BY DEF Blocked
<1> QED
  BY <1>0, <1>1, <1>2, <1>3 DEF BlockClosed

LEMMA StatusForms ==
  ASSUME NEW g \in Graphs, NEW s \in [Jobs -> RecordStatus], NEW n \in Jobs
  PROVE  /\ s[n] # "none" => StatusOf(g, s, n) = s[n]
         /\ n \in Blocked(g, s) => s[n] = "none" /\ StatusOf(g, s, n) = "blocked"
         /\ s[n] = "none" /\ n \notin Blocked(g, s) =>
              StatusOf(g, s, n) = IF AllCompleted(s, g[n]) THEN "ready" ELSE "pending"
<1> DEFINE B == n \in Blocked(g, s)
           Go == AllCompleted(s, g[n])
<1>0. g[n] \subseteq Jobs
  BY DEF Graphs
<1>1. B => s[n] = "none" /\ ~Go
  <2>1. SUFFICES ASSUME B PROVE s[n] = "none" /\ ~Go
    OBVIOUS
  <2>2. PICK d \in g[n] : s[d] = "failed" \/ d \in Blocked(g, s)
    BY <2>1, BlockedFixed
  <2>3. s[d] # "completed"
    BY <2>2 DEF Blocked
  <2> QED
    BY <2>1, <2>3 DEF AllCompleted, Blocked
<1>2. StatusOf(g, s, n) = CASE s[n] # "none" -> s[n]
                            [] B -> "blocked"
                            [] (s[n] = "none" /\ Go) -> "ready"
                            [] OTHER -> "pending"
  BY DEF StatusOf, Ready
<1> HIDE DEF B, Go
<1>3. CASE s[n] # "none"
  BY <1>1, <1>2, <1>3 DEF B
<1>4. CASE B
  BY <1>1, <1>2, <1>4 DEF B
<1>5. CASE s[n] = "none" /\ ~B
  <2>1. CASE Go
    BY <1>2, <1>5, <2>1 DEF B, Go
  <2>2. CASE ~Go
    BY <1>2, <1>5, <2>2 DEF B, Go
  <2> QED
    BY <2>1, <2>2
<1> QED
  BY <1>3, <1>4, <1>5

LEMMA StatusCases ==
  ASSUME NEW g \in Graphs, NEW s \in [Jobs -> RecordStatus], NEW n \in Jobs
  PROVE  /\ StatusOf(g, s, n) = "completed" <=> s[n] = "completed"
         /\ StatusOf(g, s, n) = "failed" <=> s[n] = "failed"
         /\ StatusOf(g, s, n) = "blocked" <=> n \in Blocked(g, s)
         /\ StatusOf(g, s, n) \in {"ready", "pending"} <=>
              s[n] = "none" /\ n \notin Blocked(g, s)
<1>1. s[n] \in {"none", "completed", "failed"}
  BY DEF RecordStatus
<1> QED
  BY <1>1, StatusForms

\* StatusOf solves the equation of the recursion, on every graph.
LEMMA StatusSolves ==
  ASSUME NEW g \in Graphs, NEW s \in [Jobs -> RecordStatus], NEW f,
         \A j \in Jobs : f[j] = StatusOf(g, s, j), NEW n \in Jobs
  PROVE  StatusOf(g, s, n) = StatusFrom(g, s, f, n)
<1> DEFINE D == {f[d] : d \in g[n]}
<1>0. g[n] \subseteq Jobs
  BY DEF Graphs
<1>1. CASE s[n] # "none"
  BY <1>1, StatusForms DEF StatusFrom
<1>2. CASE s[n] = "none"
  <2>1. D \cap {"failed", "blocked"} # {} <=> n \in Blocked(g, s)
    <3>1. D \cap {"failed", "blocked"} # {} <=>
            \E d \in g[n] : StatusOf(g, s, d) \in {"failed", "blocked"}
      BY <1>0
    <3>2. \A d \in g[n] : StatusOf(g, s, d) \in {"failed", "blocked"} <=>
                           (s[d] = "failed" \/ d \in Blocked(g, s))
      BY <1>0, StatusCases
    <3> HIDE DEF D
    <3> QED
      BY <1>2, <3>1, <3>2, BlockedFixed
  <2>2. D \subseteq {"completed"} <=> AllCompleted(s, g[n])
    BY <1>0, StatusCases DEF AllCompleted
  <2>3. StatusFrom(g, s, f, n) =
          IF D \cap {"failed", "blocked"} # {} THEN "blocked"
          ELSE IF D \subseteq {"completed"} THEN "ready" ELSE "pending"
    BY <1>2 DEF StatusFrom
  <2>4. StatusOf(g, s, n) = IF n \in Blocked(g, s) THEN "blocked"
                            ELSE IF AllCompleted(s, g[n]) THEN "ready" ELSE "pending"
    BY <1>2, StatusForms
  <2> HIDE DEF D
  <2> QED
    BY <2>1, <2>2, <2>3, <2>4
<1> QED
  BY <1>1, <1>2

\* On an acyclic graph nothing else does.
LEMMA StatusUnique ==
  ASSUME NEW g \in Graphs, Acyclic(g), NEW s \in [Jobs -> RecordStatus], NEW f,
         f = [n \in Jobs |-> StatusFrom(g, s, f, n)]
  PROVE  \A n \in Jobs : f[n] = StatusOf(g, s, n)
<1> DEFINE Bad == {n \in Jobs : f[n] # StatusOf(g, s, n)}
           o == [n \in Jobs |-> StatusOf(g, s, n)]
<1> SUFFICES ASSUME Bad # {} PROVE FALSE
  OBVIOUS
<1>1. PICK n \in Bad : g[n] \cap Bad = {}
  BY DEF Acyclic, Graphs
<1>2. \A d \in g[n] : f[d] = o[d]
  BY <1>1 DEF Graphs
<1>3. f[n] = StatusFrom(g, s, f, n)
  BY <1>1
<1>4. {f[d] : d \in g[n]} = {o[d] : d \in g[n]}
  BY <1>2
<1>5. StatusFrom(g, s, f, n) = StatusFrom(g, s, o, n)
  BY <1>4 DEF StatusFrom
<1>6. StatusFrom(g, s, o, n) = StatusOf(g, s, n)
  BY <1>1, StatusSolves
<1> QED
  BY <1>1, <1>3, <1>5, <1>6

LEMMA StatusIsStatusOf ==
  ASSUME NEW g \in Graphs, Acyclic(g), NEW s \in [Jobs -> RecordStatus], NEW n \in Jobs
  PROVE  StatusCode(g, s)[n] = StatusOf(g, s, n)
<1> DEFINE o == [j \in Jobs |-> StatusOf(g, s, j)]
           f == CHOOSE h : h = [j \in Jobs |-> StatusFrom(g, s, h, j)]
<1>1. \A j \in Jobs : o[j] = StatusFrom(g, s, o, j)
  BY StatusSolves
<1>2. o = [j \in Jobs |-> StatusFrom(g, s, o, j)]
  BY <1>1
<1>3. f = [j \in Jobs |-> StatusFrom(g, s, f, j)]
  <2> HIDE DEF o
  <2> QED
    BY <1>2
<1>4. StatusCode(g, s) = f
  BY DEF StatusCode
<1> HIDE DEF f
<1> QED
  BY <1>3, <1>4, StatusUnique

\* Campaign.status (campaign.py 142-148) returns the status of the least fixed
\* point, for every acyclic graph and whatever has settled: a failure blocks
\* from any distance, and nothing else does.
THEOREM StatusIsLeast == Spec => []StatusAgrees
<1>1. TypeInv => StatusAgrees
  BY StatusIsStatusOf DEF TypeInv, StatusAgrees
<1> QED
  BY <1>1, TypeInvariant, PTL

-----------------------------------------------------------------------------
(* The gate. *)

\* While something needed remains, something needed is ready: of the remaining
\* jobs, one that requires no other of them (conclude, campaign.py 290).
THEOREM GateNeverStarves == Spec => []GateHasWork
<1>1. ASSUME TypeInv, Acyclic(req), Remaining(req, st, must) # {}
      PROVE  \E j \in Needed(req, must) : Ready(req, st, j)
  <2> DEFINE R == Remaining(req, st, must)
  <2>0. DOMAIN req = Jobs /\ \A j \in Jobs : req[j] \subseteq Jobs
    BY <1>1 DEF TypeInv, Graphs
  <2>1. R \in SUBSET Jobs /\ Needed(req, must) \subseteq Jobs
    BY <2>0 DEF Remaining, Needed
  <2>2. PICK j \in R : req[j] \cap R = {}
    BY <1>1, <2>0, <2>1 DEF Acyclic
  <2>3. j \in Needed(req, must) /\ StatusOf(req, st, j) \in {"ready", "pending"} /\ j \in Jobs
    BY <2>1 DEF Remaining
  <2>4. ASSUME NEW d \in req[j] PROVE d \in Needed(req, must)
    <3>1. ASSUME NEW S \in SUBSET Jobs, must \subseteq S, RequiresClosed(req, S)
          PROVE  d \in S
      <4>1. j \in S
        BY <2>0, <2>3, <3>1 DEF Needed
      <4> QED
        BY <3>1, <4>1 DEF RequiresClosed
    <3> QED
      BY <2>0, <2>3, <3>1 DEF Needed
  <2>5. \A d \in req[j] : StatusOf(req, st, d) \notin {"ready", "pending"}
    BY <2>2, <2>4 DEF Remaining
  <2>6. st[j] = "none" /\ j \notin Blocked(req, st)
    BY <1>1, <2>3, StatusCases DEF TypeInv
  <2>7. \A d \in req[j] : st[d] # "failed" /\ d \notin Blocked(req, st)
    BY <1>1, <2>3, <2>6, BlockedFixed DEF TypeInv
  <2>8. \A d \in req[j] : st[d] # "none"
    BY <1>1, <2>0, <2>3, <2>5, <2>7, StatusCases DEF TypeInv
  <2>9. \A d \in req[j] : st[d] = "completed"
    BY <1>1, <2>0, <2>3, <2>7, <2>8 DEF TypeInv, RecordStatus
  <2> QED
    BY <2>3, <2>6, <2>9 DEF Ready, AllCompleted
<1>2. TypeInv => GateHasWork
  BY <1>1 DEF GateHasWork
<1> QED
  BY <1>2, TypeInvariant, PTL
-----------------------------------------------------------------------------
(* required. *)

\* What add makes of `needed`: the least set that holds it and `names`, and with
\* every job it adds the dependencies of that job.
GrownClosed(g, names, needed, S) ==
  needed \subseteq S /\ names \subseteq S /\ \A k \in S \ needed : g[k] \subseteq S

Grown(g, names, needed) ==
  {j \in Jobs : \A S \in SUBSET Jobs : GrownClosed(g, names, needed, S) => j \in S}

LEMMA GrownIsClosed ==
  ASSUME NEW g \in Graphs, NEW names \in SUBSET Jobs, NEW needed \in SUBSET Jobs
  PROVE  /\ Grown(g, names, needed) \in SUBSET Jobs
         /\ GrownClosed(g, names, needed, Grown(g, names, needed))
<1> DEFINE G == Grown(g, names, needed)
<1>1. \A k \in Jobs : g[k] \subseteq Jobs
  BY DEF Graphs
<1>2. needed \subseteq G /\ names \subseteq G /\ G \subseteq Jobs
  BY DEF Grown, GrownClosed
<1>3. ASSUME NEW k \in G \ needed PROVE g[k] \subseteq G
  BY <1>1, <1>3 DEF Grown, GrownClosed
<1> QED
  BY <1>2, <1>3 DEF GrownClosed

LEMMA GrownIsLeast ==
  ASSUME NEW g, NEW names, NEW needed, NEW S \in SUBSET Jobs, GrownClosed(g, names, needed, S)
  PROVE  Grown(g, names, needed) \subseteq S
BY DEF Grown

\* Grown solves the equation of the recursion.
LEMMA GrownNothing ==
  ASSUME NEW g \in Graphs, NEW needed \in SUBSET Jobs
  PROVE  Grown(g, {}, needed) = needed
<1>1. GrownClosed(g, {}, needed, needed)
  BY DEF GrownClosed
<1>2. needed \subseteq Grown(g, {}, needed)
  BY GrownIsClosed DEF GrownClosed
<1> QED
  BY <1>1, <1>2, GrownIsLeast

LEMMA GrownKnown ==
  ASSUME NEW g \in Graphs, NEW names \in SUBSET Jobs, NEW needed \in SUBSET Jobs,
         NEW n \in needed
  PROVE  Grown(g, names \ {n}, needed) = Grown(g, names, needed)
<1>1. \A S \in SUBSET Jobs :
        GrownClosed(g, names \ {n}, needed, S) <=> GrownClosed(g, names, needed, S)
  BY DEF GrownClosed
<1> QED
  BY <1>1 DEF Grown

LEMMA GrownStep ==
  ASSUME NEW g \in Graphs, NEW names \in SUBSET Jobs, NEW needed \in SUBSET Jobs,
         NEW n \in names, n \notin needed
  PROVE  Grown(g, names \ {n}, Grown(g, g[n], needed \cup {n})) = Grown(g, names, needed)
<1> DEFINE one == Grown(g, g[n], needed \cup {n})
           all == Grown(g, names \ {n}, one)
           K == Grown(g, names, needed)
<1>0. g[n] \in SUBSET Jobs /\ needed \cup {n} \in SUBSET Jobs /\ names \ {n} \in SUBSET Jobs
  BY DEF Graphs
<1>1. one \in SUBSET Jobs /\ GrownClosed(g, g[n], needed \cup {n}, one)
  BY <1>0, GrownIsClosed
<1> HIDE DEF one
<1>2. all \in SUBSET Jobs /\ GrownClosed(g, names \ {n}, one, all)
  BY <1>0, <1>1, GrownIsClosed
<1>3. K \in SUBSET Jobs /\ GrownClosed(g, names, needed, K)
  BY GrownIsClosed
<1>4. one \subseteq K
  <2>1. GrownClosed(g, g[n], needed \cup {n}, K)
    BY <1>3 DEF GrownClosed
  <2> HIDE DEF K
  <2> QED
    BY <1>3, <2>1, GrownIsLeast DEF one
<1>5. all \subseteq K
  <2>1. GrownClosed(g, names \ {n}, one, K)
    BY <1>1, <1>3, <1>4 DEF GrownClosed
  <2> HIDE DEF K
  <2> QED
    BY <1>3, <2>1, GrownIsLeast
<1>6. K \subseteq all
  <2>1. \A k \in one \ needed : g[k] \subseteq one
    BY <1>1 DEF GrownClosed
  <2>2. GrownClosed(g, names, needed, all)
    <3> HIDE DEF all
    <3> QED
      BY <1>1, <1>2, <2>1 DEF GrownClosed
  <2> HIDE DEF all
  <2> QED
    BY <1>2, <2>2, GrownIsLeast
<1> QED
  BY <1>5, <1>6 DEF one

AddArgs == (SUBSET Jobs) \X (SUBSET Jobs)
GrownAll(g) == [a \in AddArgs |-> Grown(g, a[1], a[2])]

LEMMA FirstIsOne == ASSUME NEW names, names # {} PROVE First(names) \in names
BY DEF First

LEMMA GrownSolves ==
  ASSUME NEW g \in Graphs
  PROVE  GrownAll(g) = [a \in AddArgs |-> AddEach(g, GrownAll(g), a[1], a[2])]
<1> DEFINE o == GrownAll(g)
<1> SUFFICES ASSUME NEW names \in SUBSET Jobs, NEW needed \in SUBSET Jobs
             PROVE  Grown(g, names, needed) = AddEach(g, o, names, needed)
  BY DEF GrownAll, AddArgs
<1>0. \A x \in SUBSET Jobs, y \in SUBSET Jobs : o[<<x, y>>] = Grown(g, x, y)
  BY DEF GrownAll, AddArgs
<1> HIDE DEF o
<1>1. CASE names = {}
  BY <1>1, GrownNothing DEF AddEach
<1>2. CASE names # {}
  <2> DEFINE n == First(names)
  <2>1. n \in names /\ n \in Jobs /\ g[n] \in SUBSET Jobs
    BY <1>2, FirstIsOne DEF Graphs
  <2>2. AddEach(g, o, names, needed) =
          o[<<names \ {n}, IF n \in needed THEN needed ELSE o[<<g[n], needed \cup {n}>>]>>]
    BY <1>2 DEF AddEach
  <2> HIDE DEF n
  <2>3. CASE n \in needed
    BY <1>0, <2>2, <2>3, GrownKnown
  <2>4. CASE n \notin needed
    <3>1. o[<<g[n], needed \cup {n}>>] = Grown(g, g[n], needed \cup {n})
      BY <1>0, <2>1
    <3>2. Grown(g, g[n], needed \cup {n}) \in SUBSET Jobs
      BY <2>1, GrownIsClosed
    <3> DEFINE one == Grown(g, g[n], needed \cup {n})
    <3>3. AddEach(g, o, names, needed) = o[<<names \ {n}, one>>]
      BY <2>2, <2>4, <3>1
    <3>4. o[<<names \ {n}, one>>] = Grown(g, names \ {n}, one)
      BY <1>0, <3>2
    <3>5. Grown(g, names \ {n}, one) = Grown(g, names, needed)
      BY <2>1, <2>4, GrownStep
    <3> QED
      BY <3>3, <3>4, <3>5
  <2> QED
    BY <2>3, <2>4
<1> QED
  BY <1>1, <1>2

LEMMA Sizes ==
  ASSUME NEW S \in SUBSET Jobs
  PROVE  IsFiniteSet(S) /\ Cardinality(S) \in Nat
BY JobsAssumption, FS_Subset, FS_CardinalityType

LEMMA Smaller ==
  ASSUME NEW S \in SUBSET Jobs, NEW T \in SUBSET S, S # T
  PROVE  Cardinality(T) < Cardinality(S)
<1>1. IsFiniteSet(S) /\ Cardinality(S) \in Nat /\ Cardinality(T) \in Nat
  BY Sizes
<1>2. Cardinality(T) <= Cardinality(S) /\ (Cardinality(T) = Cardinality(S) => S = T)
  BY <1>1, FS_Subset
<1> QED
  BY <1>1, <1>2

\* Nothing else does: each call adds a job to `needed` or leaves a shorter list.
LEMMA GrownUnique ==
  ASSUME NEW g \in Graphs, NEW f, f = [a \in AddArgs |-> AddEach(g, f, a[1], a[2])]
  PROVE  \A a \in AddArgs : f[a] = GrownAll(g)[a]
<1> DEFINE o == GrownAll(g)
           Bad == {a \in AddArgs : f[a] # o[a]}
           p == [a \in AddArgs |-> Cardinality(Jobs \ a[2])]
           q == [a \in AddArgs |-> Cardinality(a[1])]
<1> SUFFICES ASSUME Bad # {} PROVE FALSE
  OBVIOUS
<1>1. p \in [AddArgs -> Nat] /\ q \in [AddArgs -> Nat]
  BY Sizes DEF AddArgs
<1>2. PICK a \in Bad : \A b \in Bad : p[a] < p[b] \/ (p[a] = p[b] /\ q[a] <= q[b])
  <2>1. \A a \in Bad : p[a] \in Nat /\ q[a] \in Nat
    BY <1>1
  <2> HIDE DEF Bad, p, q
  <2> QED
    BY <2>1, LeastPair
<1> DEFINE names == a[1]
           needed == a[2]
<1>3. names \in SUBSET Jobs /\ needed \in SUBSET Jobs /\ a = <<names, needed>> /\ a \in AddArgs
  BY DEF AddArgs
<1>4. f[a] # o[a] /\ f[a] = AddEach(g, f, names, needed) /\ o[a] = AddEach(g, o, names, needed)
  BY GrownSolves
<1> HIDE DEF names, needed
<1>5. \A x \in SUBSET Jobs, y \in SUBSET Jobs : o[<<x, y>>] = Grown(g, x, y)
  BY DEF GrownAll, AddArgs
<1>6. ASSUME NEW x \in SUBSET Jobs, NEW y \in SUBSET Jobs, needed \subseteq y,
             y # needed \/ (x \subseteq names /\ x # names)
      PROVE  f[<<x, y>>] = o[<<x, y>>]
  <2> DEFINE b == <<x, y>>
  <2>1. b \in AddArgs /\ b[1] = x /\ b[2] = y
    BY DEF AddArgs
  <2>2. p[a] = Cardinality(Jobs \ needed) /\ p[b] = Cardinality(Jobs \ y)
        /\ q[a] = Cardinality(names) /\ q[b] = Cardinality(x)
    BY <1>3, <2>1 DEF names, needed
  <2>3. p[a] \in Nat /\ p[b] \in Nat /\ q[a] \in Nat /\ q[b] \in Nat
    BY <1>1, <1>3, <2>1
  <2>4. y # needed => p[b] < p[a]
    <3>1. y # needed => Jobs \ y # Jobs \ needed /\ (Jobs \ y) \in SUBSET (Jobs \ needed)
      BY <1>3, <1>6
    <3> QED
      BY <2>2, <3>1, Smaller
  <2>5. x \subseteq names /\ x # names => q[b] < q[a]
    BY <1>3, <2>2, Smaller
  <2>6. y = needed => p[b] = p[a]
    BY <2>2
  <2>7. b \notin Bad
    <3> SUFFICES ASSUME b \in Bad PROVE FALSE
      OBVIOUS
    <3>1. p[a] < p[b] \/ (p[a] = p[b] /\ q[a] <= q[b])
      BY <1>2
    <3> HIDE DEF p, q, b, Bad
    <3> QED
      BY <1>6, <2>3, <2>4, <2>5, <2>6, <3>1
  <2> QED
    BY <2>1, <2>7
<1> HIDE DEF Bad, o, p, q
<1>7. CASE names = {}
  BY <1>4, <1>7 DEF AddEach
<1>8. CASE names # {}
  <2> DEFINE n == First(names)
  <2>1. n \in names /\ n \in Jobs /\ g[n] \in SUBSET Jobs
    BY <1>3, <1>8, FirstIsOne DEF Graphs
  <2>2. \A h : AddEach(g, h, names, needed) =
          h[<<names \ {n}, IF n \in needed THEN needed ELSE h[<<g[n], needed \cup {n}>>]>>]
    BY <1>8 DEF AddEach
  <2> HIDE DEF n
  <2>3. CASE n \in needed
    BY <1>3, <1>4, <1>6, <2>1, <2>2, <2>3
  <2>4. CASE n \notin needed
    <3> DEFINE one == o[<<g[n], needed \cup {n}>>]
    <3>1. f[<<g[n], needed \cup {n}>>] = one
      BY <1>3, <1>6, <2>1, <2>4
    <3>2. one = Grown(g, g[n], needed \cup {n})
      BY <1>3, <1>5, <2>1
    <3>3. one \in SUBSET Jobs /\ needed \cup {n} \subseteq one
      BY <1>3, <2>1, <3>2, GrownIsClosed DEF GrownClosed
    <3> HIDE DEF one
    <3>4. f[<<names \ {n}, one>>] = o[<<names \ {n}, one>>]
      BY <1>3, <1>6, <2>1, <2>4, <3>3
    <3> QED
      BY <1>4, <2>2, <2>4, <3>1, <3>4 DEF one
  <2> QED
    BY <2>3, <2>4
<1> QED
  BY <1>7, <1>8

LEMMA RequiredIsNeeded ==
  ASSUME NEW g \in Graphs, NEW required \in SUBSET Jobs
  PROVE  RequiredCode(g, required) = Needed(g, required)
<1> DEFINE o == GrownAll(g)
           f == CHOOSE h : h = [a \in AddArgs |-> AddEach(g, h, a[1], a[2])]
<1>1. f = [a \in AddArgs |-> AddEach(g, f, a[1], a[2])]
  <2>1. o = [a \in AddArgs |-> AddEach(g, o, a[1], a[2])]
    BY GrownSolves
  <2> HIDE DEF o
  <2> QED
    BY <2>1
<1>2. AddAll(g) = f
  BY DEF AddAll, AddArgs
<1> HIDE DEF f
<1>3. <<required, {}>> \in AddArgs
  BY DEF AddArgs
<1>4. RequiredCode(g, required) = Grown(g, required, {})
  <2>1. f[<<required, {}>>] = GrownAll(g)[<<required, {}>>]
    BY <1>1, <1>3, GrownUnique
  <2>2. GrownAll(g)[<<required, {}>>] = Grown(g, required, {})
    BY <1>3 DEF GrownAll
  <2> QED
    BY <1>2, <2>1, <2>2 DEF RequiredCode
<1>5. DOMAIN g = Jobs
  BY DEF Graphs
<1>6. \A S : GrownClosed(g, required, {}, S) <=> required \subseteq S /\ RequiresClosed(g, S)
  BY DEF GrownClosed, RequiresClosed
<1> QED
  BY <1>4, <1>5, <1>6 DEF Grown, Needed

\* Campaign.required (campaign.py 150-161) returns the least set that holds the
\* required jobs and is closed under `requires`, cyclic or not; the proof takes
\* the dependencies in whatever order First does.
THEOREM RequiredIsLeast == Spec => []RequiredAgrees
<1>1. TypeInv => RequiredAgrees
  BY RequiredIsNeeded DEF TypeInv, RequiredAgrees
<1> QED
  BY <1>1, TypeInvariant, PTL
-----------------------------------------------------------------------------
(* The cycle check of _validate. *)

\* What a visit reaches from `names` without entering U, the visited jobs that
\* are not on the path; and a cycle within a set of jobs.
ReachClosed(g, names, U, S) ==
  names \subseteq S \cup U /\ \A k \in S : g[k] \subseteq S \cup U

Reach(g, names, U) ==
  {j \in Jobs \ U : \A S \in SUBSET (Jobs \ U) : ReachClosed(g, names, U, S) => j \in S}

Circular(g, R) == \E S \in SUBSET R : S # {} /\ \A j \in S : g[j] \cap S # {}

LEMMA ReachIsClosed ==
  ASSUME NEW g \in Graphs, NEW names \in SUBSET Jobs, NEW U \in SUBSET Jobs
  PROVE  /\ Reach(g, names, U) \in SUBSET (Jobs \ U)
         /\ ReachClosed(g, names, U, Reach(g, names, U))
<1> DEFINE R == Reach(g, names, U)
<1>1. \A k \in Jobs : g[k] \subseteq Jobs
  BY DEF Graphs
<1>2. names \subseteq R \cup U /\ R \subseteq Jobs \ U
  BY DEF Reach, ReachClosed
<1>3. ASSUME NEW k \in R PROVE g[k] \subseteq R \cup U
  BY <1>1, <1>3 DEF Reach, ReachClosed
<1> QED
  BY <1>2, <1>3 DEF ReachClosed

LEMMA ReachIsLeast ==
  ASSUME NEW g, NEW names, NEW U, NEW S \in SUBSET (Jobs \ U), ReachClosed(g, names, U, S)
  PROVE  Reach(g, names, U) \subseteq S
BY DEF Reach

\* A job that is reached from its own dependencies lies on a cycle: of the jobs
\* that cannot be kept apart from it, each requires another one.
LEMMA ReachedFromItself ==
  ASSUME NEW g \in Graphs, NEW U \in SUBSET Jobs, NEW n \in Jobs \ U, n \in Reach(g, g[n], U)
  PROVE  Circular(g, Reach(g, g[n], U))
<1> DEFINE R == Reach(g, g[n], U)
           Z == {k \in R : \E T \in SUBSET (R \ {n}) : k \in T /\ \A x \in T : g[x] \subseteq T \cup U}
           S == R \ Z
<1>0. g[n] \in SUBSET Jobs
  BY DEF Graphs
<1>1. R \in SUBSET (Jobs \ U) /\ g[n] \subseteq R \cup U /\ \A k \in R : g[k] \subseteq R \cup U
  BY <1>0, ReachIsClosed DEF ReachClosed
<1> SUFFICES ASSUME ~Circular(g, R) PROVE FALSE
  OBVIOUS
<1>2. n \in S
  OBVIOUS
<1>3. PICK j \in S : g[j] \cap S = {}
  <2>1. S \in SUBSET R /\ S # {}
    BY <1>2
  <2> HIDE DEF S, R
  <2> QED
    BY <2>1 DEF Circular
<1>4. g[j] \subseteq Z \cup U
  BY <1>1, <1>3
<1>5. \A k \in Z : g[k] \subseteq Z \cup U
  <2> SUFFICES ASSUME NEW k \in Z, NEW d \in g[k], d \notin U PROVE d \in Z
    OBVIOUS
  <2>1. PICK T \in SUBSET (R \ {n}) : k \in T /\ \A x \in T : g[x] \subseteq T \cup U
    OBVIOUS
  <2>2. d \in T
    BY <2>1
  <2> QED
    BY <2>1, <2>2
<1>6. Z \in SUBSET (R \ {n})
  OBVIOUS
<1>7. CASE j = n
  <2>1. ReachClosed(g, g[n], U, Z)
    BY <1>4, <1>5, <1>7 DEF ReachClosed
  <2>2. Z \in SUBSET (Jobs \ U)
    BY <1>1, <1>6
  <2> HIDE DEF Z
  <2>3. R \subseteq Z
    BY <2>1, <2>2, ReachIsLeast
  <2> QED
    BY <1>6, <2>3
<1>8. CASE j # n
  <2> DEFINE T == Z \cup {j}
  <2>1. T \in SUBSET (R \ {n}) /\ j \in T
    BY <1>6, <1>8
  <2>2. \A x \in T : g[x] \subseteq T \cup U
    BY <1>4, <1>5
  <2>3. j \in R
    OBVIOUS
  <2> HIDE DEF T
  <2>4. j \in Z
    BY <2>1, <2>2, <2>3
  <2> QED
    BY <2>4
<1> QED
  BY <1>7, <1>8

LEMMA ReachNothing ==
  ASSUME NEW g \in Graphs, NEW U \in SUBSET Jobs
  PROVE  Reach(g, {}, U) = {}
<1>1. ReachClosed(g, {}, U, {})
  BY DEF ReachClosed
<1> QED
  BY <1>1, ReachIsLeast

LEMMA ReachKnown ==
  ASSUME NEW g \in Graphs, NEW names \in SUBSET Jobs, NEW U \in SUBSET Jobs, NEW n \in U
  PROVE  Reach(g, names \ {n}, U) = Reach(g, names, U)
<1>1. \A S \in SUBSET (Jobs \ U) :
        ReachClosed(g, names \ {n}, U, S) <=> ReachClosed(g, names, U, S)
  BY DEF ReachClosed
<1> QED
  BY <1>1 DEF Reach

\* What the visit of n itself reaches.
Below(g, n, U) == Reach(g, g[n], U) \cup {n}

\* A visit of n reaches what its dependencies reach, n, and what the rest of the
\* list reaches without entering those.
ReachUnfolds(g, names, U, n) ==
  /\ Below(g, n, U) \in SUBSET (Jobs \ U)
  /\ Reach(g, names, U)
       = Below(g, n, U) \cup Reach(g, names \ {n}, U \cup Below(g, n, U))

LEMMA ReachStep ==
  ASSUME NEW g \in Graphs, NEW names \in SUBSET Jobs, NEW U \in SUBSET Jobs,
         NEW n \in Jobs, n \in names, n \notin U
  PROVE  ReachUnfolds(g, names, U, n)
<1> DEFINE R1 == Reach(g, g[n], U)
           below == R1 \cup {n}
           V == U \cup below
           R2 == Reach(g, names \ {n}, V)
           R == Reach(g, names, U)
<1>0. g[n] \in SUBSET Jobs /\ names \ {n} \in SUBSET Jobs /\ n \in Jobs
  BY DEF Graphs
<1>1. R1 \in SUBSET (Jobs \ U) /\ ReachClosed(g, g[n], U, R1)
  BY <1>0, ReachIsClosed
<1>2. below \in SUBSET (Jobs \ U) /\ V \in SUBSET Jobs
  BY <1>0, <1>1
<1>3. \A k \in below : g[k] \subseteq below \cup U
  BY <1>1 DEF ReachClosed
<1>4. R2 \in SUBSET (Jobs \ V) /\ ReachClosed(g, names \ {n}, V, R2)
  BY <1>0, <1>2, ReachIsClosed
<1>5. R \in SUBSET (Jobs \ U) /\ ReachClosed(g, names, U, R)
  BY ReachIsClosed
<1>6. R \subseteq below \cup R2
  <2>1. ReachClosed(g, names, U, below \cup R2)
    <3> HIDE DEF R2
    <3> QED
      BY <1>3, <1>4 DEF ReachClosed
  <2>2. below \cup R2 \in SUBSET (Jobs \ U)
    BY <1>2, <1>4
  <2> HIDE DEF R2
  <2> QED
    BY <2>1, <2>2, ReachIsLeast
<1>7. below \subseteq R
  <2>1. ReachClosed(g, g[n], U, R)
    BY <1>0, <1>5 DEF ReachClosed
  <2>2. n \in R
    BY <1>0, <1>5 DEF ReachClosed
  <2> HIDE DEF R
  <2>3. R1 \subseteq R
    BY <1>5, <2>1, ReachIsLeast
  <2> QED
    BY <2>2, <2>3
<1>8. R2 \subseteq R
  <2>1. R \ V \in SUBSET (Jobs \ V)
    BY <1>5
  <2>2. ReachClosed(g, names \ {n}, V, R \ V)
    <3> HIDE DEF R
    <3> QED
      BY <1>5 DEF ReachClosed
  <2>3. R2 \subseteq R \ V
    <3> DEFINE Rest == R \ V
    <3>1. Rest \in SUBSET (Jobs \ V) /\ ReachClosed(g, names \ {n}, V, Rest)
      BY <2>1, <2>2
    <3> HIDE DEF Rest, V
    <3>2. R2 \subseteq Rest
      BY <3>1, ReachIsLeast
    <3> QED
      BY <3>2 DEF Rest
  <2> QED
    BY <2>3
<1> QED
  BY <1>2, <1>6, <1>7, <1>8 DEF Below, ReachUnfolds

\* A cycle of what is reached lies in what the visit of n reached or in the rest:
\* what the visit reached requires nothing outside itself and U.
LEMMA CircularStep ==
  ASSUME NEW g \in Graphs, NEW U \in SUBSET Jobs, NEW n \in Jobs \ U,
         NEW R1 \in SUBSET (Jobs \ U), R1 = Reach(g, g[n], U), n \notin R1,
         NEW R2 \in SUBSET (Jobs \ U), Circular(g, R1 \cup {n} \cup R2)
  PROVE  Circular(g, R1) \/ Circular(g, R2)
<1>0. g[n] \in SUBSET Jobs
  BY DEF Graphs
<1>1. g[n] \subseteq R1 \cup U /\ \A k \in R1 : g[k] \subseteq R1 \cup U
  BY <1>0, ReachIsClosed DEF ReachClosed
<1>2. PICK S \in SUBSET (R1 \cup {n} \cup R2) : S # {} /\ \A j \in S : g[j] \cap S # {}
  BY DEF Circular
<1>3. \A j \in S : j \notin U
  OBVIOUS
<1>4. CASE S \cap (R1 \cup {n}) = {}
  BY <1>2, <1>4 DEF Circular
<1>5. CASE S \cap (R1 \cup {n}) # {}
  <2> DEFINE T == S \cap R1
  <2>1. \A j \in S \cap (R1 \cup {n}) : g[j] \cap T # {}
    BY <1>1, <1>2, <1>3
  <2>2. T # {}
    BY <1>5, <2>1
  <2>3. T \in SUBSET R1 /\ \A j \in T : g[j] \cap T # {}
    BY <2>1
  <2> HIDE DEF T
  <2> QED
    BY <2>2, <2>3 DEF Circular
<1> QED
  BY <1>4, <1>5

LEMMA CircularGrows ==
  ASSUME NEW g, NEW R, NEW Q, Q \subseteq R, Circular(g, Q)
  PROVE  Circular(g, R)
BY DEF Circular
\* What the visit of a list returns: a cycle, or the visited jobs with what it reached.
Met(g, names, visiting, visited) ==
  LET R == Reach(g, names, visited \ visiting)
  IN  IF R \cap visiting # {} \/ Circular(g, R) THEN Raise ELSE Done(visited \cup R)

VisitArgs == (SUBSET Jobs) \X (SUBSET Jobs) \X (SUBSET Jobs)
MetAll(g) == [a \in VisitArgs |-> Met(g, a[1], a[2], a[3])]

LEMMA MetVisited ==
  ASSUME NEW g \in Graphs, NEW names \in SUBSET Jobs, NEW P \in SUBSET Jobs,
         NEW V \in SUBSET Jobs
  PROVE  /\ Met(g, names, P, V).cyclic \in BOOLEAN
         /\ Met(g, names, P, V).visited \in SUBSET Jobs
<1> DEFINE R == Reach(g, names, V \ P)
<1>1. R \in SUBSET Jobs
  BY ReachIsClosed
<1> HIDE DEF R
<1>2. Met(g, names, P, V) = IF R \cap P # {} \/ Circular(g, R) THEN Raise ELSE Done(V \cup R)
  BY DEF Met, R
<1> QED
  BY <1>1, <1>2 DEF Raise, Done

\* Met solves the equation of the recursion: the visit of the first job, case by case.
LEMMA MetNothing ==
  ASSUME NEW g \in Graphs, NEW P \in SUBSET Jobs, NEW V \in SUBSET Jobs
  PROVE  Met(g, {}, P, V) = Done(V)
<1>1. Reach(g, {}, V \ P) = {}
  BY ReachNothing
<1>2. ~Circular(g, {})
  BY DEF Circular
<1> QED
  BY <1>1, <1>2 DEF Met

LEMMA MetPath ==
  ASSUME NEW g \in Graphs, NEW names \in SUBSET Jobs, NEW P \in SUBSET Jobs,
         NEW V \in SUBSET Jobs, NEW n \in names, n \in P
  PROVE  Met(g, names, P, V) = Raise
<1>1. n \in Reach(g, names, V \ P)
  BY ReachIsClosed DEF ReachClosed
<1> QED
  BY <1>1 DEF Met

LEMMA MetKnown ==
  ASSUME NEW g \in Graphs, NEW names \in SUBSET Jobs, NEW P \in SUBSET Jobs,
         NEW V \in SUBSET Jobs, NEW n \in V \ P
  PROVE  Met(g, names \ {n}, P, V) = Met(g, names, P, V)
<1>1. Reach(g, names \ {n}, V \ P) = Reach(g, names, V \ P)
  BY ReachKnown
<1> QED
  BY <1>1 DEF Met

MetUnfolds(g, names, P, V, n) ==
  Met(g, names, P, V) =
    IF Met(g, g[n], P \cup {n}, V).cyclic THEN Raise
    ELSE Met(g, names \ {n}, P, Met(g, g[n], P \cup {n}, V).visited \cup {n})

LEMMA MetStep ==
  ASSUME NEW g \in Graphs, NEW names \in SUBSET Jobs, NEW P \in SUBSET Jobs,
         NEW V \in SUBSET Jobs, NEW n \in Jobs, n \in names, n \notin P, n \notin V
  PROVE  MetUnfolds(g, names, P, V, n)
<1> DEFINE below == Met(g, g[n], P \cup {n}, V)
           U == V \ P
           R1 == Reach(g, g[n], U)
           one == R1 \cup {n}
           R2 == Reach(g, names \ {n}, U \cup one)
           R == Reach(g, names, U)
<1>0. g[n] \in SUBSET Jobs /\ names \ {n} \in SUBSET Jobs /\ n \in Jobs /\ n \in Jobs \ U
      /\ U \in SUBSET Jobs /\ V \ (P \cup {n}) = U
  BY DEF Graphs
<1>1. below = IF R1 \cap (P \cup {n}) # {} \/ Circular(g, R1) THEN Raise ELSE Done(V \cup R1)
  BY <1>0 DEF Met
<1>2. Met(g, names, P, V) = IF R \cap P # {} \/ Circular(g, R) THEN Raise ELSE Done(V \cup R)
  BY DEF Met
<1>3. R1 \in SUBSET (Jobs \ U)
  BY <1>0, ReachIsClosed
<1>4. one \in SUBSET (Jobs \ U) /\ R = one \cup R2
  <2>1. n \notin U /\ one = Below(g, n, U)
    BY <1>0 DEF Below
  <2> HIDE DEF U, one, below, R, R1, R2
  <2>2. ReachUnfolds(g, names, U, n)
    BY <1>0, <2>1, ReachStep
  <2> QED
    BY <2>1, <2>2 DEF R, R2, ReachUnfolds
<1>5. R2 \in SUBSET (Jobs \ (U \cup one))
  <2>1. U \cup one \in SUBSET Jobs
    BY <1>0, <1>4
  <2> HIDE DEF one, U
  <2> QED
    BY <1>0, <2>1, ReachIsClosed
<1>6. n \in R1 => Circular(g, R1)
  BY <1>0, ReachedFromItself
<1> HIDE DEF R, R1, R2
<1>7. CASE R1 \cap (P \cup {n}) # {} \/ Circular(g, R1)
  <2>1. below = Raise
    BY <1>1, <1>7
  <2>2. R1 \cap P # {} \/ Circular(g, R1)
    BY <1>6, <1>7
  <2>3. R \cap P # {} \/ Circular(g, R)
    BY <1>4, <2>2, CircularGrows
  <2> QED
    BY <1>2, <2>1, <2>3 DEF Raise, MetUnfolds
<1>8. CASE ~(R1 \cap (P \cup {n}) # {} \/ Circular(g, R1))
  <2> DEFINE V2 == below.visited \cup {n}
  <2>1. below = Done(V \cup R1)
    BY <1>1, <1>8
  <2>2. ~below.cyclic /\ V2 = V \cup one
    BY <2>1 DEF Done
  <2>3. V2 \ P = U \cup one
    BY <1>8, <2>2
  <2>4. Met(g, names \ {n}, P, V2)
          = IF R2 \cap P # {} \/ Circular(g, R2) THEN Raise ELSE Done(V2 \cup R2)
    BY <2>3 DEF Met, R2
  <2>5. R \cap P = R2 \cap P
    BY <1>4, <1>8
  <2>6. Circular(g, R) <=> Circular(g, R2)
    <3>1. Circular(g, R2) => Circular(g, R)
      BY <1>4, CircularGrows
    <3>2. Circular(g, R) => Circular(g, R1) \/ Circular(g, R2)
      <4>1. R = R1 \cup {n} \cup R2
        BY <1>4
      <4>2. R2 \in SUBSET (Jobs \ U) /\ n \notin R1 /\ R1 = Reach(g, g[n], U)
        BY <1>5, <1>8 DEF R1
      <4> HIDE DEF U
      <4> QED
        BY <1>0, <1>3, <4>1, <4>2, CircularStep
    <3> QED
      BY <1>8, <3>1, <3>2
  <2>7. V2 \cup R2 = V \cup R
    BY <1>4, <2>2
  <2> QED
    BY <1>2, <2>2, <2>4, <2>5, <2>6, <2>7 DEF MetUnfolds
<1> QED
  BY <1>7, <1>8

LEMMA MetSolves ==
  ASSUME NEW g \in Graphs
  PROVE  MetAll(g) = [a \in VisitArgs |-> VisitEach(g, MetAll(g), a[1], a[2], a[3])]
<1> DEFINE o == MetAll(g)
<1> SUFFICES ASSUME NEW names \in SUBSET Jobs, NEW P \in SUBSET Jobs, NEW V \in SUBSET Jobs
             PROVE  Met(g, names, P, V) = VisitEach(g, o, names, P, V)
  BY DEF MetAll, VisitArgs
<1>0. \A x \in SUBSET Jobs, y \in SUBSET Jobs, z \in SUBSET Jobs :
        o[<<x, y, z>>] = Met(g, x, y, z)
  BY DEF MetAll, VisitArgs
<1> HIDE DEF o
<1>1. CASE names = {}
  BY <1>1, MetNothing DEF VisitEach
<1>2. CASE names # {}
  <2> DEFINE n == First(names)
             one == Visit(g, o, n, P, V)
  <2>1. n \in names /\ n \in Jobs /\ g[n] \in SUBSET Jobs /\ names \ {n} \in SUBSET Jobs
        /\ P \cup {n} \in SUBSET Jobs
    BY <1>2, FirstIsOne DEF Graphs
  <2>2. VisitEach(g, o, names, P, V) =
          IF one.cyclic THEN Raise ELSE o[<<names \ {n}, P, one.visited>>]
    BY <1>2 DEF VisitEach
  <2> HIDE DEF n
  <2>3. CASE n \in P
    <3>1. one = Raise /\ Raise.cyclic
      BY <2>3 DEF Visit, Raise
    <3>2. Met(g, names, P, V) = Raise
      BY <2>1, <2>3, MetPath
    <3> HIDE DEF one
    <3> QED
      BY <2>2, <3>1, <3>2
  <2>4. CASE n \notin P /\ n \in V
    <3>1. one = Done(V)
      BY <2>4 DEF Visit
    <3>2. ~one.cyclic /\ one.visited = V
      BY <3>1 DEF Done
    <3>3. Met(g, names \ {n}, P, V) = Met(g, names, P, V)
      BY <2>4, MetKnown
    <3> HIDE DEF one
    <3> QED
      BY <1>0, <2>1, <2>2, <3>2, <3>3
  <2>5. CASE n \notin P /\ n \notin V
    <3> DEFINE below == Met(g, g[n], P \cup {n}, V)
    <3>1. one = IF below.cyclic THEN Raise ELSE Done(below.visited \cup {n})
      <4>1. o[<<g[n], P \cup {n}, V>>] = below
        BY <1>0, <2>1
      <4> QED
        BY <2>5, <4>1 DEF Visit
    <3>2. Met(g, names, P, V) = IF below.cyclic THEN Raise
                                ELSE Met(g, names \ {n}, P, below.visited \cup {n})
      <4> HIDE DEF below, one
      <4>1. MetUnfolds(g, names, P, V, n)
        BY <2>1, <2>5, MetStep
      <4> QED
        BY <4>1 DEF below, MetUnfolds
    <3>3. below.visited \cup {n} \in SUBSET Jobs
      BY <2>1, MetVisited
    <3> HIDE DEF below, one
    <3>4. CASE below.cyclic
      BY <2>2, <3>1, <3>2, <3>4 DEF Raise
    <3>5. CASE ~below.cyclic
      <4>1. ~one.cyclic /\ one.visited = below.visited \cup {n}
        BY <3>1, <3>5 DEF Done
      <4>2. o[<<names \ {n}, P, one.visited>>]
              = Met(g, names \ {n}, P, below.visited \cup {n})
        BY <1>0, <2>1, <3>3, <4>1
      <4> QED
        BY <2>2, <3>2, <3>5, <4>1, <4>2
    <3> QED
      BY <3>4, <3>5
  <2> QED
    BY <2>3, <2>4, <2>5
<1> QED
  BY <1>1, <1>2

\* Nothing else does: each call is one deeper on the path or has a shorter list.
LEMMA MetUnique ==
  ASSUME NEW g \in Graphs, NEW f,
         f = [a \in VisitArgs |-> VisitEach(g, f, a[1], a[2], a[3])]
  PROVE  \A a \in VisitArgs : f[a] = MetAll(g)[a]
<1> DEFINE o == MetAll(g)
           Bad == {a \in VisitArgs : f[a] # o[a]}
           p == [a \in VisitArgs |-> Cardinality(Jobs \ a[2])]
           q == [a \in VisitArgs |-> Cardinality(a[1])]
<1> SUFFICES ASSUME Bad # {} PROVE FALSE
  OBVIOUS
<1>1. p \in [VisitArgs -> Nat] /\ q \in [VisitArgs -> Nat]
  BY Sizes DEF VisitArgs
<1>2. PICK a \in Bad : \A b \in Bad : p[a] < p[b] \/ (p[a] = p[b] /\ q[a] <= q[b])
  <2>1. \A a \in Bad : p[a] \in Nat /\ q[a] \in Nat
    BY <1>1
  <2> HIDE DEF Bad, p, q
  <2> QED
    BY <2>1, LeastPair
<1> DEFINE names == a[1]
           P == a[2]
           V == a[3]
<1>3. names \in SUBSET Jobs /\ P \in SUBSET Jobs /\ V \in SUBSET Jobs
      /\ a = <<names, P, V>> /\ a \in VisitArgs
  BY DEF VisitArgs
<1>4. f[a] # o[a] /\ f[a] = VisitEach(g, f, names, P, V) /\ o[a] = VisitEach(g, o, names, P, V)
  BY MetSolves
<1> HIDE DEF names, P, V
<1>5. \A x \in SUBSET Jobs, y \in SUBSET Jobs, z \in SUBSET Jobs :
        o[<<x, y, z>>] = Met(g, x, y, z)
  BY DEF MetAll, VisitArgs
<1>6. ASSUME NEW x \in SUBSET Jobs, NEW y \in SUBSET Jobs, NEW z \in SUBSET Jobs, P \subseteq y,
             y # P \/ (x \subseteq names /\ x # names)
      PROVE  f[<<x, y, z>>] = o[<<x, y, z>>]
  <2> DEFINE b == <<x, y, z>>
  <2>1. b \in VisitArgs /\ b[1] = x /\ b[2] = y
    BY DEF VisitArgs
  <2>2. p[a] = Cardinality(Jobs \ P) /\ p[b] = Cardinality(Jobs \ y)
        /\ q[a] = Cardinality(names) /\ q[b] = Cardinality(x)
    BY <1>3, <2>1 DEF names, P
  <2>3. p[a] \in Nat /\ p[b] \in Nat /\ q[a] \in Nat /\ q[b] \in Nat
    BY <1>1, <1>3, <2>1
  <2>4. y # P => p[b] < p[a]
    <3>1. y # P => Jobs \ y # Jobs \ P /\ (Jobs \ y) \in SUBSET (Jobs \ P)
      BY <1>3, <1>6
    <3>2. y # P => Cardinality(Jobs \ y) < Cardinality(Jobs \ P)
      BY <3>1, Smaller
    <3> HIDE DEF p, b
    <3> QED
      BY <2>2, <3>2
  <2>5. x \subseteq names /\ x # names => q[b] < q[a]
    BY <1>3, <2>2, Smaller
  <2>6. y = P => p[b] = p[a]
    BY <2>2
  <2>7. b \notin Bad
    <3> SUFFICES ASSUME b \in Bad PROVE FALSE
      OBVIOUS
    <3>1. p[a] < p[b] \/ (p[a] = p[b] /\ q[a] <= q[b])
      BY <1>2
    <3> HIDE DEF p, q, b, Bad
    <3> QED
      BY <1>6, <2>3, <2>4, <2>5, <2>6, <3>1
  <2> QED
    BY <2>1, <2>7
<1> HIDE DEF Bad, o, p, q
<1>7. CASE names = {}
  BY <1>4, <1>7 DEF VisitEach
<1>8. CASE names # {}
  <2> DEFINE n == First(names)
             one == Visit(g, o, n, P, V)
  <2>1. n \in names /\ n \in Jobs /\ g[n] \in SUBSET Jobs /\ names \ {n} \in SUBSET Jobs
        /\ P \cup {n} \in SUBSET Jobs
    BY <1>3, <1>8, FirstIsOne DEF Graphs
  <2>2. \A h : VisitEach(g, h, names, P, V) =
                 IF Visit(g, h, n, P, V).cyclic THEN Raise
                 ELSE h[<<names \ {n}, P, Visit(g, h, n, P, V).visited>>]
    BY <1>8 DEF VisitEach
  <2> HIDE DEF n
  <2>3. n \notin P => f[<<g[n], P \cup {n}, V>>] = o[<<g[n], P \cup {n}, V>>]
    BY <1>3, <1>6, <2>1
  <2>4. Visit(g, f, n, P, V) = one
    BY <2>3 DEF Visit
  <2>5. ~one.cyclic => one.visited \in SUBSET Jobs
    <3>1. o[<<g[n], P \cup {n}, V>>].visited \in SUBSET Jobs
      <4>1. o[<<g[n], P \cup {n}, V>>] = Met(g, g[n], P \cup {n}, V)
        BY <1>3, <1>5, <2>1
      <4>2. Met(g, g[n], P \cup {n}, V).visited \in SUBSET Jobs
        BY <1>3, <2>1, MetVisited
      <4> QED
        BY <4>1, <4>2
    <3> QED
      BY <1>3, <2>1, <3>1 DEF Visit, Raise, Done
  <2> HIDE DEF one
  <2>6. CASE one.cyclic
    BY <1>4, <2>2, <2>4, <2>6 DEF one
  <2>7. CASE ~one.cyclic
    <3>1. f[<<names \ {n}, P, one.visited>>] = o[<<names \ {n}, P, one.visited>>]
      BY <1>3, <1>6, <2>1, <2>5, <2>7
    <3>2. VisitEach(g, f, names, P, V) = f[<<names \ {n}, P, one.visited>>]
      BY <2>2, <2>4, <2>7
    <3>3. VisitEach(g, o, names, P, V) = o[<<names \ {n}, P, one.visited>>]
      BY <2>2, <2>7 DEF one
    <3> QED
      BY <1>4, <3>1, <3>2, <3>3
  <2> QED
    BY <2>6, <2>7
<1> QED
  BY <1>7, <1>8

LEMMA ValidatesIsAcyclic ==
  ASSUME NEW g \in Graphs
  PROVE  Validates(g) <=> Acyclic(g)
<1> DEFINE o == MetAll(g)
           f == CHOOSE h : h = [a \in VisitArgs |-> VisitEach(g, h, a[1], a[2], a[3])]
           R == Reach(g, Jobs, {})
<1>1. f = [a \in VisitArgs |-> VisitEach(g, f, a[1], a[2], a[3])]
  <2>1. o = [a \in VisitArgs |-> VisitEach(g, o, a[1], a[2], a[3])]
    BY MetSolves
  <2> HIDE DEF o
  <2> QED
    BY <2>1
<1>2. VisitAll(g) = f
  BY DEF VisitAll, VisitArgs
<1> HIDE DEF f
<1>3. <<Jobs, {}, {}>> \in VisitArgs
  BY DEF VisitArgs
<1>4. VisitAll(g)[<<Jobs, {}, {}>>] = Met(g, Jobs, {}, {})
  <2>1. f[<<Jobs, {}, {}>>] = MetAll(g)[<<Jobs, {}, {}>>]
    BY <1>1, <1>3, MetUnique
  <2>2. MetAll(g)[<<Jobs, {}, {}>>] = Met(g, Jobs, {}, {})
    BY <1>3 DEF MetAll
  <2> QED
    BY <1>2, <2>1, <2>2
<1>5. R = Jobs
  <2>1. R \in SUBSET (Jobs \ {}) /\ ReachClosed(g, Jobs, {}, R)
    BY ReachIsClosed
  <2> HIDE DEF R
  <2> QED
    BY <2>1 DEF ReachClosed
<1>6. Met(g, Jobs, {}, {}) = IF Circular(g, Jobs) THEN Raise ELSE Done(Jobs)
  <2>1. Met(g, Jobs, {}, {}) = IF R \cap {} # {} \/ Circular(g, R) THEN Raise ELSE Done({} \cup R)
    <3>1. {} \ {} = {}
      OBVIOUS
    <3> QED
      BY <3>1 DEF Met
  <2> HIDE DEF R
  <2> QED
    BY <1>5, <2>1
<1>7. Circular(g, Jobs) <=> ~Acyclic(g)
  BY DEF Circular, Acyclic, Graphs
<1> QED
  BY <1>4, <1>6, <1>7 DEF Validates, Raise, Done

\* The depth-first search of _validate (campaign.py 112-130) refuses exactly the
\* manifests whose graph has a cycle: what it remembers as visited never hides
\* one, and a shared dependency is not one.  Of First only FirstIsOne is used, so
\* the order of the jobs in a manifest does not matter.
THEOREM CycleCheckIsExact == Spec => []ValidatesIffAcyclic
<1>1. TypeInv => ValidatesIffAcyclic
  BY ValidatesIsAcyclic DEF TypeInv, ValidatesIffAcyclic
<1> QED
  BY <1>1, TypeInvariant, PTL
=============================================================================
