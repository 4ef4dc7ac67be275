----------------------------- MODULE TraceCheck -----------------------------
(***************************************************************************)
(* The native call tracer of o2t/agent/check_runner.py (class Trace).      *)
(*                                                                         *)
(* A checker calls the symbol of two libraries, BEFORE and AFTER, in any   *)
(* order.  The tracer keeps the outputs of each side in one queue per      *)
(* input and pairs them first in, first out; its report is what            *)
(* validate_candidate believes instead of the checker.                     *)
(*                                                                         *)
(* An input is one of Inputs (its JSON text is the key of the program), an *)
(* output one of Outputs, and Same is equal_values, which within one ulp   *)
(* need not be transitive.  A call the tracer refuses (wrong arity, input  *)
(* outside the declared domain, cap) changes nothing and raises in the     *)
(* checker's process.  log is an observation: every output, in order.      *)
(***************************************************************************)
EXTENDS Naturals, Sequences, FiniteSets

CONSTANTS Inputs, Outputs,
          Same,          \* pairs of outputs that equal_values accepts
          Requirements,  \* ids of the input coverage requirements
          Slots,         \* requirement -> lanes counted: each lane, or one for "any"
          Hits,          \* input -> requirement -> lanes whose predicate it matches
          CallCap        \* the 400000 of Trace.call

Sides == {"before", "after"}

ASSUME TraceAssumption ==
  /\ IsFiniteSet(Inputs)
  /\ Same \subseteq Outputs \X Outputs
  /\ \A k \in Inputs, r \in Requirements : Hits[k][r] \subseteq Slots[r]
  /\ CallCap \in Nat

VARIABLES pending,     \* input -> queue of each side
          calls,       \* calls of each side
          pairs, mismatches,
          unique,      \* inputs with a pair
          witness,     \* the first pair that differs
          coverage,    \* requirement -> lane -> distinct paired inputs that match
          log          \* input -> outputs of each side, in the order of the calls

traceVars == <<pending, calls, pairs, mismatches, unique, witness, coverage, log>>

NoWitness == [none |-> TRUE]
Quiet == [k \in Inputs |-> [side \in Sides |-> <<>>]]

ZeroCalls == [side \in Sides |-> 0]
ZeroCoverage == [r \in Requirements |-> [l \in Slots[r] |-> 0]]

TraceStart == /\ pending = Quiet /\ calls = ZeroCalls
              /\ pairs = 0 /\ mismatches = 0
              /\ unique = {} /\ witness = NoWitness
              /\ coverage = ZeroCoverage
              /\ log = Quiet

\* The process ends and its Trace with it; the next one has its own.
TraceEnds == /\ pending' = Quiet /\ calls' = ZeroCalls
             /\ pairs' = 0 /\ mismatches' = 0
             /\ unique' = {} /\ witness' = NoWitness
             /\ coverage' = ZeroCoverage
             /\ log' = Quiet

\* Faulty variant: the newest output of a side is paired first.
TakenLast(queue) == [got |-> queue[Len(queue)], rest |-> SubSeq(queue, 1, Len(queue) - 1)]

Taken(queue) == [got |-> Head(queue), rest |-> Tail(queue)]

\* The first pair of an input counts towards the coverage.
Covers(k) == coverage' = IF k \in unique THEN coverage
                         ELSE [r \in Requirements |-> [l \in Slots[r] |->
                                 coverage[r][l] + IF l \in Hits[k][r] THEN 1 ELSE 0]]

Compared(k, before, after) ==
  IF <<before, after>> \in Same
  THEN UNCHANGED <<mismatches, witness>>
  ELSE /\ mismatches' = mismatches + 1
       /\ witness' = IF witness = NoWitness
                     THEN [input |-> k, before |-> before, after |-> after] ELSE witness

Pair(k, b, a) == /\ pending' = [pending EXCEPT ![k] =
                      [side \in Sides |-> IF side = "before" THEN b.rest ELSE a.rest]]
                 /\ pairs' = pairs + 1
                 /\ Covers(k)
                 /\ unique' = unique \cup {k}
                 /\ Compared(k, b.got, a.got)

\* Faulty variant: the cap lets one call more through.
CappedLate == calls["before"] + calls["after"] > CallCap

Capped == calls["before"] + calls["after"] >= CallCap

\* Trace.call: the library answered `out` for the input k.  One step stands for a
\* checker that calls from one thread: the library runs (128) without the
\* interpreter's lock, so several threads could each pass the cap (122) before
\* any of them is counted (130).
Call(side, k, out) ==
  /\ ~Capped
  /\ calls' = [calls EXCEPT ![side] = @ + 1]
  /\ log' = [log EXCEPT ![k][side] = Append(@, out)]
  /\ LET q == [pending[k] EXCEPT ![side] = Append(@, out)]
     IN IF q["before"] # <<>> /\ q["after"] # <<>>
        THEN Pair(k, Taken(q["before"]), Taken(q["after"]))
        ELSE /\ pending' = [pending EXCEPT ![k] = q]
             /\ UNCHANGED <<pairs, mismatches, unique, witness, coverage>>

\* unpaired_calls of the report is not 0.
Unpaired == pending # Quiet

Covered(minimum) == \A r \in Requirements : \A l \in Slots[r] : coverage[r][l] >= minimum[r]

-----------------------------------------------------------------------------
PairsOf(k) == {i \in 1..CallCap : i <= Len(log[k]["before"]) /\ i <= Len(log[k]["after"])}

PairedCalls == {p \in Inputs \X (1..CallCap) : p[2] \in PairsOf(p[1])}

Differing == {p \in PairedCalls :
                <<log[p[1]]["before"][p[2]], log[p[1]]["after"][p[2]]>> \notin Same}

\* Only the longer side of an input waits, with its latest calls.
Waiting(k, side, other) ==
  pending[k][side] = SubSeq(log[k][side], Len(log[k][other]) + 1, Len(log[k][side]))

\* The counters and the queues of the tracer (check_runner.py 117-151) say of
\* every sequence of calls, batched, interleaved or cut short, what the log
\* says: the i-th BEFORE call on an input is paired with the i-th AFTER call on
\* it, what is left over is what has no partner, a pair that differs is
\* counted, an input is counted once, and the witness is a pair that happened.
TraceAgreesWithLog ==
  /\ \A k \in Inputs : Waiting(k, "before", "after") /\ Waiting(k, "after", "before")
  /\ pairs = Cardinality(PairedCalls)
  /\ mismatches = Cardinality(Differing)
  /\ unique = {k \in Inputs : log[k]["before"] # <<>> /\ log[k]["after"] # <<>>}
  /\ \A r \in Requirements : \A l \in Slots[r] :
       coverage[r][l] = Cardinality({k \in unique : l \in Hits[k][r]})
  /\ IF Differing = {} THEN witness = NoWitness
     ELSE \E p \in Differing :
            witness = [input |-> p[1], before |-> log[p[1]]["before"][p[2]],
                       after |-> log[p[1]]["after"][p[2]]]
=============================================================================
