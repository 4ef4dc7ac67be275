-------------------------- MODULE ValidationProofs --------------------------
(***************************************************************************)
(* Theorems about Validation for every set of inputs, libraries, planted   *)
(* defects and requirements, and every number of rewritten files.          *)
(*                                                                         *)
(* First the tracer: it agrees with the calls it saw, for every set of     *)
(* inputs, every comparison of outputs and every cap.                      *)
(***************************************************************************)
EXTENDS Validation, FiniteSetTheorems, SequenceTheorems, TLAPS

-----------------------------------------------------------------------------
(* The tracer. *)

TraceTypeOK == /\ log \in [Inputs -> [Sides -> Seq(Outputs)]]
               /\ pending \in [Inputs -> [Sides -> Seq(Outputs)]]
               /\ calls \in [Sides -> Nat]
               /\ calls["before"] + calls["after"] <= CallCap
               /\ pairs \in Nat /\ pairs <= calls["before"] + calls["after"]
               /\ mismatches \in 0..pairs
               /\ \A k \in Inputs, s \in Sides : Len(log[k][s]) <= calls[s]

Surplus(k, s, o) == IF Len(log[k][s]) > Len(log[k][o]) THEN Len(log[k][s]) - Len(log[k][o]) ELSE 0

\* What waits on a side are the calls the other side has no partner for.
QueueHolds(k, s, o) ==
  /\ Len(pending[k][s]) = Surplus(k, s, o)
  /\ \A i \in 1..Len(pending[k][s]) : pending[k][s][i] = log[k][s][Len(log[k][o]) + i]

QueuesHold == \A k \in Inputs, s \in Sides, o \in Sides : s # o => QueueHolds(k, s, o)

WitnessHappened ==
  IF Differing = {} THEN witness = NoWitness
  ELSE \E p \in Differing :
         witness = [input |-> p[1], before |-> log[p[1]]["before"][p[2]],
                    after |-> log[p[1]]["after"][p[2]]]

CoverageCounts == \A r \in Requirements : \A l \in Slots[r] :
                    coverage[r][l] = Cardinality({k \in unique : l \in Hits[k][r]})

TraceCounts == /\ pairs = Cardinality(PairedCalls)
               /\ mismatches = Cardinality(Differing)
               /\ unique = {k \in Inputs : log[k]["before"] # <<>> /\ log[k]["after"] # <<>>}
               /\ CoverageCounts
               /\ WitnessHappened

TraceInv == TraceTypeOK /\ QueuesHold /\ TraceCounts

\* The paired calls are finitely many.
LEMMA PairedCallsFinite == IsFiniteSet(PairedCalls) /\ IsFiniteSet(Differing)
<1>1. IsFiniteSet(1..CallCap)
  BY FS_Interval, TraceAssumption
<1>2. IsFiniteSet(Inputs \X (1..CallCap))
  BY <1>1, FS_Product, TraceAssumption
<1>3. PairedCalls \in SUBSET (Inputs \X (1..CallCap)) /\ Differing \in SUBSET PairedCalls
  BY DEF PairedCalls, Differing
<1> QED
  BY <1>2, <1>3, FS_Subset

\* A tracer that has seen no call agrees with the empty log.
LEMMA TraceStartHolds ==
  ASSUME TraceStart
  PROVE  TraceInv
<1>1. \A k \in Inputs, s \in Sides : log[k][s] = <<>> /\ pending[k][s] = <<>>
  BY DEF TraceStart, Quiet
<1>2. TraceTypeOK
  <2>1. log \in [Inputs -> [Sides -> Seq(Outputs)]] /\ pending \in [Inputs -> [Sides -> Seq(Outputs)]]
    BY DEF TraceStart, Quiet
  <2>2. calls \in [Sides -> Nat] /\ calls["before"] + calls["after"] <= CallCap
    BY TraceAssumption DEF TraceStart, ZeroCalls, Sides
  <2>3. \A k \in Inputs, s \in Sides : Len(log[k][s]) <= calls[s]
    BY <1>1 DEF TraceStart, ZeroCalls
  <2>4. pairs \in Nat /\ pairs <= calls["before"] + calls["after"] /\ mismatches \in 0..pairs
    BY DEF TraceStart, ZeroCalls, Sides
  <2> QED
    BY <2>1, <2>2, <2>3, <2>4 DEF TraceTypeOK
<1>3. QueuesHold
  <2> SUFFICES ASSUME NEW k \in Inputs, NEW s \in Sides, NEW o \in Sides
               PROVE  QueueHolds(k, s, o)
    BY DEF QueuesHold
  <2>1. Len(log[k][s]) = 0 /\ Len(log[k][o]) = 0 /\ Len(pending[k][s]) = 0
    BY <1>1
  <2>2. Surplus(k, s, o) = 0
    BY <2>1 DEF Surplus
  <2> QED
    BY <2>1, <2>2 DEF QueueHolds
<1>4. PairedCalls = {} /\ Differing = {}
  BY <1>1 DEF PairedCalls, PairsOf, Differing, Sides
<1>5. unique = {} /\ {k \in Inputs : log[k]["before"] # <<>> /\ log[k]["after"] # <<>>} = {}
  BY <1>1 DEF TraceStart, Sides
<1>6. CoverageCounts
  BY <1>5, FS_EmptySet DEF CoverageCounts, TraceStart, ZeroCoverage
<1>7. TraceCounts
  BY <1>4, <1>5, <1>6, FS_EmptySet DEF TraceCounts, WitnessHappened, TraceStart
<1> QED
  BY <1>2, <1>3, <1>7 DEF TraceInv

-----------------------------------------------------------------------------
(* One call. *)

\* The side a call is not on.
Other(side) == IF side = "before" THEN "after" ELSE "before"

\* What a call does to the log and to the queues.
LEMMA CallTypes ==
  ASSUME TraceInv, NEW side \in Sides, NEW k \in Inputs, NEW out \in Outputs, Call(side, k, out)
  PROVE  /\ TraceTypeOK'
         /\ log'[k][side] = Append(log[k][side], out)
         /\ log'[k][Other(side)] = log[k][Other(side)]
         /\ \A j \in Inputs : j # k => log'[j] = log[j]
<1> DEFINE q == [pending[k] EXCEPT ![side] = Append(@, out)]
           both == q["before"] # <<>> /\ q["after"] # <<>>
<1>1. log' = [log EXCEPT ![k][side] = Append(@, out)] /\ calls' = [calls EXCEPT ![side] = @ + 1]
  BY DEF Call
<1>2. log \in [Inputs -> [Sides -> Seq(Outputs)]] /\ pending \in [Inputs -> [Sides -> Seq(Outputs)]]
  BY DEF TraceInv, TraceTypeOK
<1>3. Append(log[k][side], out) \in Seq(Outputs) /\ Append(pending[k][side], out) \in Seq(Outputs)
  BY <1>2
<1>4. log' \in [Inputs -> [Sides -> Seq(Outputs)]]
  BY <1>1, <1>2, <1>3
<1>5. pending' \in [Inputs -> [Sides -> Seq(Outputs)]]
  <2>1. q \in [Sides -> Seq(Outputs)]
    BY <1>2, <1>3
  <2>2. CASE both
    <3> DEFINE rest == [s \in Sides |-> IF s = "before" THEN Tail(q["before"]) ELSE Tail(q["after"])]
    <3>1. pending' = [pending EXCEPT ![k] = rest]
      BY <2>2 DEF Call, Pair, Taken
    <3>2. Tail(q["before"]) \in Seq(Outputs) /\ Tail(q["after"]) \in Seq(Outputs)
      BY <2>1, <2>2, HeadTailProperties DEF Sides
    <3>3. rest \in [Sides -> Seq(Outputs)]
      BY <3>2
    <3> QED
      BY <1>2, <3>1, <3>3
  <2>3. CASE ~both
    <3>1. pending' = [pending EXCEPT ![k] = q]
      BY <2>3 DEF Call
    <3> QED
      BY <1>2, <2>1, <3>1
  <2> QED
    BY <2>2, <2>3
<1>6. calls' \in [Sides -> Nat]
  BY <1>1 DEF TraceInv, TraceTypeOK
<1>7. calls'["before"] + calls'["after"] <= CallCap
  BY <1>1, TraceAssumption DEF TraceInv, TraceTypeOK, Call, Capped, Sides
<1>8. /\ log'[k][side] = Append(log[k][side], out)
      /\ log'[k][Other(side)] = log[k][Other(side)]
      /\ \A j \in Inputs : j # k => log'[j] = log[j]
  BY <1>1, <1>2 DEF Other, Sides
<1>9. \A j \in Inputs, s \in Sides : Len(log'[j][s]) <= calls'[s]
  <2> SUFFICES ASSUME NEW j \in Inputs, NEW s \in Sides
               PROVE  Len(log'[j][s]) <= calls'[s]
    OBVIOUS
  <2>0. calls \in [Sides -> Nat]
    BY DEF TraceInv, TraceTypeOK
  <2>1. calls'[s] = calls[s] + (IF s = side THEN 1 ELSE 0) /\ calls[s] \in Nat
    BY <1>1, <2>0
  <2>2. Len(log[j][s]) <= calls[s] /\ Len(log[j][s]) \in Nat
    BY <1>2 DEF TraceInv, TraceTypeOK
  <2>3. Len(log'[j][s]) = Len(log[j][s]) \/ (s = side /\ Len(log'[j][s]) = Len(log[j][s]) + 1)
    BY <1>1, <1>2, <1>3
  <2> QED
    BY <2>1, <2>2, <2>3
<1>10. pairs' \in Nat /\ pairs' <= calls'["before"] + calls'["after"] /\ mismatches' \in 0..pairs'
  <2>1. /\ pairs \in Nat /\ pairs <= calls["before"] + calls["after"] /\ mismatches \in 0..pairs
        /\ calls \in [Sides -> Nat]
    BY DEF TraceInv, TraceTypeOK
  <2>2. calls'["before"] + calls'["after"] = calls["before"] + calls["after"] + 1
    BY <1>1, <2>1 DEF Sides
  <2>3. \/ pairs' = pairs + 1 /\ mismatches' \in {mismatches, mismatches + 1}
        \/ pairs' = pairs /\ mismatches' = mismatches
    BY DEF Call, Pair, Compared
  <2>4. calls["before"] \in Nat /\ calls["after"] \in Nat
    BY <2>1 DEF Sides
  <2> QED
    BY <2>1, <2>2, <2>3, <2>4
<1> QED
  BY <1>4, <1>5, <1>6, <1>7, <1>8, <1>9, <1>10 DEF TraceTypeOK

\* The call answers one that waits on the other side.
Answers(k, side) == Len(log[k][Other(side)]) > Len(log[k][side])

\* The queues and what is paired, by whether a call waits on the other side.
LEMMA CallPairs ==
  ASSUME TraceInv, NEW side \in Sides, NEW k \in Inputs, NEW out \in Outputs, Call(side, k, out)
  PROVE  LET o == Other(side)
             n == Len(log[k][side]) + 1
         IN /\ \A j \in Inputs : j # k => pending'[j] = pending[j]
            /\ Answers(k, side) =>
                 /\ pending[k][side] = <<>> /\ pending[k][o] # <<>>
                 /\ pending'[k][side] = <<>> /\ pending'[k][o] = Tail(pending[k][o])
                 /\ n \in 1..Len(log'[k]["before"]) /\ n \in 1..Len(log'[k]["after"])
                 /\ pairs' = pairs + 1
                 /\ Covers(k)
                 /\ unique' = unique \cup {k}
                 /\ Compared(k, log'[k]["before"][n], log'[k]["after"][n])
            /\ ~Answers(k, side) =>
                 /\ pending[k][o] = <<>>
                 /\ pending'[k][side] = Append(pending[k][side], out) /\ pending'[k][o] = <<>>
                 /\ UNCHANGED <<pairs, mismatches, unique, witness, coverage>>
<1> DEFINE o == Other(side)
           n == Len(log[k][side]) + 1
           q == [pending[k] EXCEPT ![side] = Append(@, out)]
           both == q["before"] # <<>> /\ q["after"] # <<>>
<1>1. log \in [Inputs -> [Sides -> Seq(Outputs)]] /\ pending \in [Inputs -> [Sides -> Seq(Outputs)]]
  BY DEF TraceInv, TraceTypeOK
<1>2. o \in Sides /\ o # side /\ Sides = {side, o}
  BY DEF Other, Sides
<1>3. QueueHolds(k, o, side) /\ QueueHolds(k, side, o)
  BY <1>2 DEF TraceInv, QueuesHold
<1>4. /\ log'[k][side] = Append(log[k][side], out)
      /\ log'[k][o] = log[k][o]
  BY CallTypes
<1>5. /\ log[k][side] \in Seq(Outputs) /\ log[k][o] \in Seq(Outputs)
      /\ pending[k][side] \in Seq(Outputs) /\ pending[k][o] \in Seq(Outputs)
  BY <1>1, <1>2
<1>6. q[side] = Append(pending[k][side], out) /\ q[o] = pending[k][o] /\ q[side] # <<>>
  BY <1>1, <1>2, <1>5, AppendProperties
<1>7. both <=> pending[k][o] # <<>>
  BY <1>2, <1>6 DEF Other, Sides
<1>8. Answers(k, side) <=> pending[k][o] # <<>>
  <2>1. Len(pending[k][o]) = 0 <=> pending[k][o] = <<>>
    BY <1>5, EmptySeq
  <2>2. Len(pending[k][o]) = IF Len(log[k][o]) > Len(log[k][side])
                             THEN Len(log[k][o]) - Len(log[k][side]) ELSE 0
    BY <1>3 DEF QueueHolds, Surplus
  <2>3. Len(log[k][o]) \in Nat /\ Len(log[k][side]) \in Nat
    BY <1>5, LenProperties
  <2> QED
    BY <2>1, <2>2, <2>3 DEF Answers
<1>9. CASE Answers(k, side)
  <2>1. /\ pending' = [pending EXCEPT ![k] =
                 [s \in Sides |-> IF s = "before" THEN Tail(q["before"]) ELSE Tail(q["after"])]]
        /\ pairs' = pairs + 1
        /\ Covers(k)
        /\ unique' = unique \cup {k}
        /\ Compared(k, Head(q["before"]), Head(q["after"]))
    BY <1>7, <1>8, <1>9 DEF Call, Pair, Taken
  <2>2. pending[k][side] = <<>> /\ pending[k][o] # <<>>
    <3>1. Len(pending[k][side]) = 0
      BY <1>3, <1>5, <1>9, LenProperties DEF QueueHolds, Surplus, Answers
    <3> QED
      BY <3>1, <1>5, <1>8, <1>9, EmptySeq
  <2>3. pending'[k][side] = Tail(q[side]) /\ pending'[k][o] = Tail(q[o])
    BY <1>1, <1>2, <2>1 DEF Sides
  <2>4. q[side] = <<out>> /\ Tail(q[side]) = <<>> /\ Head(q[side]) = out
    BY <1>6, <2>2
  <2>5. /\ n \in 1..Len(log'[k][side]) /\ log'[k][side][n] = out
        /\ n \in 1..Len(log'[k][o])
    BY <1>4, <1>5, <1>9, AppendProperties, LenProperties DEF Answers
  <2>6. Head(q[o]) = log'[k][o][n]
    <3>1. 1 \in 1..Len(pending[k][o])
      BY <2>2, <1>5, EmptySeq
    <3>2. pending[k][o][1] = log[k][o][Len(log[k][side]) + 1]
      BY <3>1, <1>3 DEF QueueHolds
    <3>3. Head(pending[k][o]) = pending[k][o][1]
      BY <1>5, <2>2
    <3> QED
      BY <3>2, <3>3, <1>4, <1>6
  <2>7. Compared(k, log'[k]["before"][n], log'[k]["after"][n])
    BY <1>2, <2>1, <2>4, <2>5, <2>6 DEF Sides, Other
  <2>8. n \in 1..Len(log'[k]["before"]) /\ n \in 1..Len(log'[k]["after"])
    BY <1>2, <2>5 DEF Sides, Other
  <2>9. \A j \in Inputs : j # k => pending'[j] = pending[j]
    BY <1>1, <2>1
  <2> QED
    BY <1>6, <1>9, <2>1, <2>2, <2>3, <2>4, <2>7, <2>8, <2>9
<1>10. CASE ~Answers(k, side)
  <2>1. /\ pending' = [pending EXCEPT ![k] = q]
        /\ UNCHANGED <<pairs, mismatches, unique, witness, coverage>>
    BY <1>7, <1>8, <1>10 DEF Call
  <2>2. pending'[k][side] = q[side] /\ pending'[k][o] = q[o]
    BY <1>1, <2>1
  <2>3. \A j \in Inputs : j # k => pending'[j] = pending[j]
    BY <1>1, <2>1
  <2> QED
    BY <1>6, <1>8, <1>10, <2>1, <2>2, <2>3
<1> QED
  BY <1>9, <1>10

\* Facts of arithmetic that the provers find with plain names only.
LEMMA NothingLeft == \A a, b \in Nat : b <= a /\ ~(a > b) => a - b = 0
OBVIOUS

LEMMA NextIndex == \A a, b, i \in Nat : b = a + 1 => a + (i + 1) = b + i
OBVIOUS

LEMMA IndexWithin == \A a, b, n \in Nat : n = a - b => \A i \in 1..n : b + i \in 1..a
OBVIOUS

\* The queues still hold what has no partner.
LEMMA CallKeepsQueues ==
  ASSUME TraceInv, NEW side \in Sides, NEW k \in Inputs, NEW out \in Outputs, Call(side, k, out)
  PROVE  QueuesHold'
<1> DEFINE o == Other(side)
<1>1. log \in [Inputs -> [Sides -> Seq(Outputs)]] /\ pending \in [Inputs -> [Sides -> Seq(Outputs)]]
  BY DEF TraceInv, TraceTypeOK
<1>2. o \in Sides /\ o # side /\ Sides = {side, o}
  BY DEF Other, Sides
<1>3. QueueHolds(k, o, side) /\ QueueHolds(k, side, o)
  BY <1>2 DEF TraceInv, QueuesHold
<1>4. /\ log'[k][side] = Append(log[k][side], out)
      /\ log'[k][o] = log[k][o]
      /\ \A j \in Inputs : j # k => log'[j] = log[j]
  BY CallTypes
<1>5. /\ log[k][side] \in Seq(Outputs) /\ log[k][o] \in Seq(Outputs)
      /\ pending[k][side] \in Seq(Outputs) /\ pending[k][o] \in Seq(Outputs)
  BY <1>1, <1>2
<1>6. /\ Len(log[k][side]) \in Nat /\ Len(log[k][o]) \in Nat
      /\ Len(log'[k][side]) = Len(log[k][side]) + 1
      /\ Len(log'[k][o]) = Len(log[k][o])
      /\ \A i \in 1..Len(log[k][side]) : log'[k][side][i] = log[k][side][i]
      /\ log'[k][side][Len(log[k][side]) + 1] = out
  BY <1>4, <1>5, AppendProperties, LenProperties
<1>L. /\ Len(log[k][side]) \in Nat /\ Len(log[k][o]) \in Nat
      /\ Len(log'[k][side]) = Len(log[k][side]) + 1
      /\ Len(log'[k][o]) = Len(log[k][o])
  BY <1>6
<1>N. Len(pending[k][side]) \in Nat /\ Len(pending[k][o]) \in Nat
  BY <1>5, LenProperties
<1>P. /\ Len(pending[k][o]) = IF Len(log[k][o]) > Len(log[k][side])
                               THEN Len(log[k][o]) - Len(log[k][side]) ELSE 0
      /\ Len(pending[k][side]) = IF Len(log[k][side]) > Len(log[k][o])
                                  THEN Len(log[k][side]) - Len(log[k][o]) ELSE 0
  BY <1>3 DEF QueueHolds, Surplus
<1>7. QueueHolds(k, o, side)' /\ QueueHolds(k, side, o)'
  <2>1. CASE Answers(k, side)
    <3>1. pending'[k][side] = <<>> /\ pending'[k][o] = Tail(pending[k][o]) /\ pending[k][o] # <<>>
      BY <2>1, CallPairs
    <3>2. /\ Len(pending'[k][o]) = Len(pending[k][o]) - 1
          /\ \A i \in 1..Len(pending'[k][o]) : pending'[k][o][i] = pending[k][o][i + 1]
          /\ Len(pending[k][o]) \in Nat
      BY <3>1, <1>5, HeadTailProperties, LenProperties
    <3>3. Len(log[k][o]) > Len(log[k][side])
      BY <2>1 DEF Answers
    <3>4. Len(pending[k][o]) = Len(log[k][o]) - Len(log[k][side])
      BY <3>3, <1>P, <1>L, <1>N
    <3>5. QueueHolds(k, side, o)'
      BY <3>1, <3>3, <1>6 DEF QueueHolds, Surplus
    <3>6. Len(pending'[k][o]) = Surplus(k, o, side)'
      <4>1. Len(log'[k][o]) > Len(log'[k][side]) \/ Len(log'[k][o]) = Len(log'[k][side])
        BY <3>3, <1>L
      <4>2. Len(pending'[k][o]) = Len(log'[k][o]) - Len(log'[k][side])
        BY <3>2, <3>4, <1>L, <1>N
      <4>3. CASE Len(log'[k][o]) > Len(log'[k][side])
        BY <4>2, <4>3 DEF Surplus
      <4>4. CASE Len(log'[k][o]) = Len(log'[k][side])
        BY <4>2, <4>4, <1>L, <1>N DEF Surplus
      <4> QED
        BY <4>1, <4>3, <4>4
    <3>7. ASSUME NEW i \in 1..Len(pending'[k][o])
          PROVE  pending'[k][o][i] = log'[k][o][Len(log'[k][side]) + i]
      <4>1. i + 1 \in 1..Len(pending[k][o]) /\ pending'[k][o][i] = pending[k][o][i + 1]
        BY <3>2
      <4>2. pending[k][o][i + 1] = log[k][o][Len(log[k][side]) + (i + 1)]
        BY <4>1, <1>3 DEF QueueHolds
      <4>3. i \in Nat /\ Len(log'[k][side]) \in Nat
        BY <1>L
      <4>4. Len(log[k][side]) + (i + 1) = Len(log'[k][side]) + i
        BY <4>3, <1>L, NextIndex
      <4> QED
        BY <4>1, <4>2, <4>4, <1>4
    <3> QED
      BY <3>5, <3>6, <3>7 DEF QueueHolds
  <2>2. CASE ~Answers(k, side)
    <3>1. /\ pending[k][o] = <<>> /\ pending'[k][o] = <<>>
          /\ pending'[k][side] = Append(pending[k][side], out)
      BY <2>2, CallPairs
    <3>2. /\ Len(pending'[k][side]) = Len(pending[k][side]) + 1
          /\ \A i \in 1..Len(pending[k][side]) : pending'[k][side][i] = pending[k][side][i]
          /\ pending'[k][side][Len(pending[k][side]) + 1] = out
          /\ Len(pending[k][side]) \in Nat
      BY <3>1, <1>5, AppendProperties, LenProperties
    <3>3. Len(log[k][o]) <= Len(log[k][side])
      BY <2>2, <1>6 DEF Answers
    <3>4. Len(pending[k][side]) = Len(log[k][side]) - Len(log[k][o])
      <4>1. CASE Len(log[k][side]) > Len(log[k][o])
        BY <4>1, <1>P
      <4>2. CASE ~(Len(log[k][side]) > Len(log[k][o]))
        BY <4>2, <3>3, <1>P, <1>L, NothingLeft
      <4> QED
        BY <4>1, <4>2
    <3>5. QueueHolds(k, o, side)'
      BY <3>1, <3>3, <1>6 DEF QueueHolds, Surplus
    <3>6. Len(pending'[k][side]) = Surplus(k, side, o)'
      <4>1. Len(log'[k][side]) > Len(log'[k][o])
        BY <3>3, <1>L
      <4>2. Len(pending'[k][side]) = Len(log'[k][side]) - Len(log'[k][o])
        BY <3>2, <3>4, <1>L, <1>N
      <4> QED
        BY <4>1, <4>2 DEF Surplus
    <3>7. ASSUME NEW i \in 1..Len(pending'[k][side])
          PROVE  pending'[k][side][i] = log'[k][side][Len(log'[k][o]) + i]
      <4>1. CASE i = Len(pending[k][side]) + 1
        <5>1. Len(log'[k][o]) + i = Len(log[k][side]) + 1
          BY <4>1, <3>4, <1>6
        <5> QED
          BY <4>1, <5>1, <3>2, <1>6
      <4>2. CASE i # Len(pending[k][side]) + 1
        <5>1. i \in 1..Len(pending[k][side])
          BY <4>2, <3>2
        <5>2. pending'[k][side][i] = log[k][side][Len(log[k][o]) + i]
          BY <5>1, <3>2, <1>3 DEF QueueHolds
        <5>3. Len(log[k][o]) + i \in 1..Len(log[k][side])
          BY <5>1, <3>4, <1>L, <1>N, IndexWithin
        <5> QED
          BY <5>2, <5>3, <1>6
      <4> QED
        BY <4>1, <4>2
    <3> QED
      BY <3>5, <3>6, <3>7 DEF QueueHolds
  <2> QED
    BY <2>1, <2>2
<1>8. \A j \in Inputs : j # k => pending'[j] = pending[j]
  BY CallPairs
<1>9. ASSUME NEW j \in Inputs, NEW s \in Sides, NEW t \in Sides, s # t
      PROVE  QueueHolds(j, s, t)'
  <2>1. CASE j = k
    BY <2>1, <1>2, <1>7, <1>9
  <2>2. CASE j # k
    <3>1. QueueHolds(j, s, t)
      BY <1>9 DEF TraceInv, QueuesHold
    <3> QED
      BY <3>1, <2>2, <1>4, <1>8 DEF QueueHolds, Surplus
  <2> QED
    BY <2>1, <2>2
<1> QED
  BY <1>9 DEF QueuesHold

\* What a call pairs, and that what was paired before it is as it was.
LEMMA CallAddsPair ==
  ASSUME TraceInv, NEW side \in Sides, NEW k \in Inputs, NEW out \in Outputs, Call(side, k, out)
  PROVE  LET n == Len(log[k][side]) + 1
         IN /\ <<k, n>> \notin PairedCalls
            /\ PairedCalls' = IF Answers(k, side) THEN PairedCalls \cup {<<k, n>>} ELSE PairedCalls
            /\ \A p \in PairedCalls : /\ log'[p[1]]["before"][p[2]] = log[p[1]]["before"][p[2]]
                                      /\ log'[p[1]]["after"][p[2]] = log[p[1]]["after"][p[2]]
<1> DEFINE o == Other(side)
           n == Len(log[k][side]) + 1
<1>1. log \in [Inputs -> [Sides -> Seq(Outputs)]] /\ CallCap \in Nat
  BY TraceAssumption DEF TraceInv, TraceTypeOK
<1>2. o \in Sides /\ o # side /\ Sides = {side, o} /\ Sides = {"before", "after"}
  BY DEF Other, Sides
<1>3. /\ log'[k][side] = Append(log[k][side], out)
      /\ log'[k][o] = log[k][o]
      /\ \A j \in Inputs : j # k => log'[j] = log[j]
  BY CallTypes
<1>4. log[k][side] \in Seq(Outputs) /\ log[k][o] \in Seq(Outputs)
  BY <1>1, <1>2
<1>5. /\ Len(log[k][side]) \in Nat /\ Len(log[k][o]) \in Nat /\ n \in Nat
      /\ Len(log'[k][side]) = n
      /\ Len(log'[k][o]) = Len(log[k][o])
  BY <1>3, <1>4, AppendProperties, LenProperties
<1>6. \A i \in 1..Len(log[k][side]) : log'[k][side][i] = log[k][side][i]
  BY <1>3, <1>4, AppendProperties
<1>7. n <= CallCap
  <2>1. /\ Len(log'[k][side]) <= calls'[side]
        /\ calls' \in [Sides -> Nat]
        /\ calls'["before"] + calls'["after"] <= CallCap
    BY CallTypes DEF TraceTypeOK
  <2>2. calls'["before"] \in Nat /\ calls'["after"] \in Nat /\ (side = "before" \/ side = "after")
    BY <2>1, <1>2
  <2> QED
    BY <2>1, <2>2, <1>1, <1>5
<1>8. /\ PairsOf(k) = {i \in 1..CallCap : i <= Len(log[k][side]) /\ i <= Len(log[k][o])}
      /\ PairsOf(k)' = {i \in 1..CallCap : i <= Len(log'[k][side]) /\ i <= Len(log'[k][o])}
  BY <1>2 DEF PairsOf, Other, Sides
<1>9. n \notin PairsOf(k)
  BY <1>5, <1>8
<1>10. PairsOf(k)' = IF Answers(k, side) THEN PairsOf(k) \cup {n} ELSE PairsOf(k)
  <2>1. CASE Answers(k, side)
    <3>1. n <= Len(log[k][o]) /\ n \in 1..CallCap
      BY <2>1, <1>1, <1>5, <1>7 DEF Answers
    <3>2. ASSUME NEW i \in 1..CallCap
          PROVE  (i <= Len(log'[k][side]) /\ i <= Len(log'[k][o]))
                   <=> (i <= Len(log[k][side]) /\ i <= Len(log[k][o])) \/ i = n
      BY <3>1, <1>1, <1>5
    <3> QED
      BY <2>1, <3>1, <3>2, <1>8
  <2>2. CASE ~Answers(k, side)
    <3>1. Len(log[k][o]) <= Len(log[k][side])
      BY <2>2, <1>5 DEF Answers
    <3>2. ASSUME NEW i \in 1..CallCap
          PROVE  (i <= Len(log'[k][side]) /\ i <= Len(log'[k][o]))
                   <=> (i <= Len(log[k][side]) /\ i <= Len(log[k][o]))
      BY <3>1, <1>1, <1>5
    <3> QED
      BY <2>2, <3>2, <1>8
  <2> QED
    BY <2>1, <2>2
<1>11. \A j \in Inputs : j # k => PairsOf(j)' = PairsOf(j)
  BY <1>3 DEF PairsOf
<1>12. <<k, n>> \notin PairedCalls
  BY <1>9 DEF PairedCalls
<1>13. PairedCalls' = IF Answers(k, side) THEN PairedCalls \cup {<<k, n>>} ELSE PairedCalls
  <2>1. Answers(k, side) => n \in 1..CallCap
    BY <1>1, <1>5, <1>7
  <2>2. \A p \in Inputs \X (1..CallCap) :
          p[2] \in PairsOf(p[1])' <=> p[2] \in PairsOf(p[1]) \/ (Answers(k, side) /\ p[1] = k /\ p[2] = n)
    BY <1>10, <1>11
  <2>3. PairedCalls' = {p \in Inputs \X (1..CallCap) : p[2] \in PairsOf(p[1])'}
    BY DEF PairedCalls
  <2>4. CASE Answers(k, side)
    BY <2>1, <2>2, <2>3, <2>4 DEF PairedCalls
  <2>5. CASE ~Answers(k, side)
    BY <2>2, <2>3, <2>5 DEF PairedCalls
  <2> QED
    BY <2>4, <2>5
<1>14. ASSUME NEW p \in PairedCalls, NEW s \in Sides
       PROVE  log'[p[1]][s][p[2]] = log[p[1]][s][p[2]]
  <2>1. p[1] \in Inputs /\ p[2] \in PairsOf(p[1])
    BY DEF PairedCalls
  <2>2. CASE p[1] # k
    BY <2>1, <2>2, <1>3
  <2>3. CASE p[1] = k /\ s = side
    <3>1. p[2] \in 1..Len(log[k][side])
      BY <2>1, <2>3, <1>1, <1>5, <1>8
    <3> QED
      BY <2>3, <3>1, <1>6
  <2>4. CASE p[1] = k /\ s # side
    BY <2>4, <1>2, <1>3
  <2> QED
    BY <2>2, <2>3, <2>4
<1> QED
  BY <1>2, <1>12, <1>13, <1>14

\* The counters still count, and the witness is still a pair that happened.
LEMMA CallKeepsCounts ==
  ASSUME TraceInv, NEW side \in Sides, NEW k \in Inputs, NEW out \in Outputs, Call(side, k, out)
  PROVE  TraceCounts'
<1> DEFINE n == Len(log[k][side]) + 1
           new == <<k, n>>
           b == log'[k]["before"][n]
           a == log'[k]["after"][n]
<1>1. /\ pairs = Cardinality(PairedCalls)
      /\ mismatches = Cardinality(Differing)
      /\ unique = {j \in Inputs : log[j]["before"] # <<>> /\ log[j]["after"] # <<>>}
      /\ CoverageCounts
      /\ WitnessHappened
  BY DEF TraceInv, TraceCounts
<1>2. /\ new \notin PairedCalls
      /\ PairedCalls' = IF Answers(k, side) THEN PairedCalls \cup {new} ELSE PairedCalls
      /\ \A p \in PairedCalls : /\ log'[p[1]]["before"][p[2]] = log[p[1]]["before"][p[2]]
                                /\ log'[p[1]]["after"][p[2]] = log[p[1]]["after"][p[2]]
  BY CallAddsPair
<1>3. Differing' = {p \in PairedCalls' : <<log'[p[1]]["before"][p[2]], log'[p[1]]["after"][p[2]]>> \notin Same}
  BY DEF Differing
<1>4. IsFiniteSet(PairedCalls) /\ IsFiniteSet(Differing)
  BY PairedCallsFinite
<1>5. Differing' = IF Answers(k, side) /\ <<b, a>> \notin Same THEN Differing \cup {new} ELSE Differing
  <2>1. CASE Answers(k, side)
    <3>1. PairedCalls' = PairedCalls \cup {new} /\ new[1] = k /\ new[2] = n
      BY <1>2, <2>1
    <3> QED
      BY <3>1, <1>2, <1>3, <2>1 DEF Differing
  <2>2. CASE ~Answers(k, side)
    BY <1>2, <1>3, <2>2 DEF Differing
  <2> QED
    BY <2>1, <2>2
<1>6. new \notin Differing
  BY <1>2 DEF Differing
<1>7. /\ Answers(k, side) => pairs' = pairs + 1 /\ Covers(k) /\ unique' = unique \cup {k} /\ Compared(k, b, a)
      /\ ~Answers(k, side) => UNCHANGED <<pairs, mismatches, unique, witness, coverage>>
  BY CallPairs
<1>8. pairs' = Cardinality(PairedCalls')
  BY <1>1, <1>2, <1>4, <1>7, FS_AddElement
<1>9. mismatches' = Cardinality(Differing')
  BY <1>1, <1>4, <1>5, <1>6, <1>7, FS_AddElement DEF Compared
<1>10. unique' = {j \in Inputs : log'[j]["before"] # <<>> /\ log'[j]["after"] # <<>>}
  <2>1. log \in [Inputs -> [Sides -> Seq(Outputs)]] /\ Other(side) \in Sides
    BY DEF TraceInv, TraceTypeOK, Other, Sides
  <2>2. /\ log'[k][side] = Append(log[k][side], out)
        /\ log'[k][Other(side)] = log[k][Other(side)]
        /\ \A j \in Inputs : j # k => log'[j] = log[j]
    BY CallTypes
  <2>3. log[k][side] \in Seq(Outputs) /\ log[k][Other(side)] \in Seq(Outputs)
    BY <2>1
  <2>4. /\ log'[k][side] # <<>>
        /\ Answers(k, side) => log[k][Other(side)] # <<>>
    BY <2>2, <2>3, AppendProperties, LenProperties, EmptySeq DEF Answers
  <2>5. ~Answers(k, side) => (log[k][Other(side)] # <<>> => log[k][side] # <<>>)
    BY <2>3, LenProperties, EmptySeq DEF Answers
  <2>6. Sides = {side, Other(side)} /\ Sides = {"before", "after"}
    BY DEF Other, Sides
  <2>7. \A j \in Inputs : /\ (log[j]["before"] # <<>> /\ log[j]["after"] # <<>>)
                               <=> (log[j][side] # <<>> /\ log[j][Other(side)] # <<>>)
                          /\ (log'[j]["before"] # <<>> /\ log'[j]["after"] # <<>>)
                               <=> (log'[j][side] # <<>> /\ log'[j][Other(side)] # <<>>)
    BY DEF Other, Sides
  <2> QED
    BY <1>1, <1>7, <2>2, <2>4, <2>5, <2>7
<1>11. CoverageCounts'
  <2> SUFFICES ASSUME NEW r \in Requirements, NEW l \in Slots[r]
               PROVE  coverage'[r][l] = Cardinality({j \in unique' : l \in Hits[j][r]})
    BY DEF CoverageCounts
  <2> DEFINE C == {j \in unique : l \in Hits[j][r]}
             D == {j \in unique' : l \in Hits[j][r]}
  <2>1. coverage[r][l] = Cardinality(C)
    BY <1>1 DEF CoverageCounts
  <2>2. IsFiniteSet(C)
    <3>1. C \in SUBSET Inputs
      BY <1>1
    <3> QED
      BY <3>1, FS_Subset, TraceAssumption
  <2>3. CASE ~Answers(k, side) \/ k \in unique
    <3>1. coverage' = coverage /\ unique' = unique
      BY <2>3, <1>7 DEF Covers
    <3> QED
      BY <3>1, <2>1
  <2>4. CASE Answers(k, side) /\ k \notin unique
    <3>1. coverage'[r][l] = coverage[r][l] + (IF l \in Hits[k][r] THEN 1 ELSE 0)
      BY <2>4, <1>7 DEF Covers
    <3>2. D = IF l \in Hits[k][r] THEN C \cup {k} ELSE C
      BY <2>4, <1>7
    <3>3. k \notin C /\ Cardinality(C) \in Nat
      BY <2>2, <2>4, FS_CardinalityType
    <3>4. CASE l \in Hits[k][r]
      <4>1. coverage'[r][l] = Cardinality(C) + 1
        BY <3>1, <3>4, <2>1
      <4>2. D = C \cup {k}
        BY <3>2, <3>4
      <4> HIDE DEF C, D
      <4>3. Cardinality(C \cup {k}) = Cardinality(C) + 1
        BY <3>3, <2>2, FS_AddElement
      <4>4. coverage'[r][l] = Cardinality(D)
        BY <4>1, <4>2, <4>3
      <4> QED
        BY <4>4 DEF D
    <3>5. CASE l \notin Hits[k][r]
      <4>1. coverage'[r][l] = coverage[r][l] /\ D = C
        BY <3>1, <3>2, <3>5, <2>1, <3>3
      <4> QED
        BY <4>1, <2>1
    <3> QED
      BY <3>4, <3>5
  <2> QED
    BY <2>3, <2>4
<1>12. WitnessHappened'
  <2>1. ASSUME NEW p \in Differing
        PROVE  /\ p \in Differing'
               /\ log'[p[1]]["before"][p[2]] = log[p[1]]["before"][p[2]]
               /\ log'[p[1]]["after"][p[2]] = log[p[1]]["after"][p[2]]
    BY <1>2, <1>5 DEF Differing
  <2>2. CASE witness' = witness /\ (Differing = {} => Differing' = {})
    BY <1>1, <2>1, <2>2 DEF WitnessHappened
  <2>3. CASE /\ Answers(k, side) /\ <<b, a>> \notin Same /\ Differing = {}
    <3>1. witness' = [input |-> k, before |-> b, after |-> a]
      BY <1>1, <1>7, <2>3 DEF Compared, WitnessHappened
    <3>2. new \in Differing' /\ new[1] = k /\ new[2] = n
      BY <1>5, <2>3
    <3> QED
      BY <3>1, <3>2 DEF WitnessHappened
  <2>4. CASE Answers(k, side) /\ <<b, a>> \notin Same /\ Differing # {}
    <3>1. witness # NoWitness
      BY <1>1, <2>4 DEF WitnessHappened, NoWitness
    <3>2. witness' = witness
      BY <1>7, <2>4, <3>1 DEF Compared
    <3> QED
      BY <2>2, <2>4, <3>2
  <2>5. CASE ~Answers(k, side) \/ <<b, a>> \in Same
    <3>1. witness' = witness /\ Differing' = Differing
      BY <1>5, <1>7, <2>5 DEF Compared
    <3> QED
      BY <2>2, <3>1
  <2> QED
    BY <2>3, <2>4, <2>5
<1> QED
  BY <1>8, <1>9, <1>10, <1>11, <1>12 DEF TraceCounts

\* A call keeps the tracer's invariant.
LEMMA CallKeepsTrace ==
  ASSUME TraceInv, NEW side \in Sides, NEW k \in Inputs, NEW out \in Outputs, Call(side, k, out)
  PROVE  TraceInv'
BY CallTypes, CallKeepsQueues, CallKeepsCounts DEF TraceInv

\* A step that is not the tracer's keeps it.
LEMMA TraceFrame ==
  ASSUME TraceInv, UNCHANGED traceVars
  PROVE  TraceInv'
<1>1. TraceTypeOK'
  BY DEF TraceInv, TraceTypeOK, traceVars
<1>2. QueuesHold'
  BY DEF TraceInv, QueuesHold, QueueHolds, Surplus, traceVars
<1>3. PairedCalls' = PairedCalls
  BY DEF PairedCalls, PairsOf, traceVars
<1>4. Differing' = Differing
  BY <1>3 DEF Differing, traceVars
<1>5. CoverageCounts'
  BY DEF TraceInv, TraceCounts, CoverageCounts, traceVars
<1>6. WitnessHappened'
  BY <1>4 DEF TraceInv, TraceCounts, WitnessHappened, traceVars
<1>7. TraceCounts'
  BY <1>3, <1>4, <1>5, <1>6 DEF TraceInv, TraceCounts, traceVars
<1> QED
  BY <1>1, <1>2, <1>7 DEF TraceInv

\* The next tracer starts with it.
LEMMA TraceEndsHolds == TraceEnds => TraceInv'
<1>1. TraceStart => TraceInv
  BY TraceStartHolds
<1>2. TraceEnds => TraceStart'
  BY DEF TraceEnds, TraceStart, Quiet, ZeroCalls, ZeroCoverage
<1> QED
  BY <1>1, <1>2, PTL

\* The invariant says that the tracer agrees with the log.
LEMMA TraceInvAgrees ==
  ASSUME TraceInv
  PROVE  TraceAgreesWithLog
<1>1. ASSUME NEW k \in Inputs, NEW s \in Sides, NEW o \in Sides, s # o
      PROVE  Waiting(k, s, o)
  <2> DEFINE m == Len(log[k][o]) + 1
             n == Len(log[k][s])
             sub == SubSeq(log[k][s], m, n)
  <2>1. log[k][s] \in Seq(Outputs) /\ log[k][o] \in Seq(Outputs) /\ pending[k][s] \in Seq(Outputs)
    BY DEF TraceInv, TraceTypeOK
  <2>2. QueueHolds(k, s, o)
    BY <1>1 DEF TraceInv, QueuesHold
  <2>3. m \in Int /\ n \in Int /\ n \in Nat /\ Len(log[k][o]) \in Nat /\ Len(pending[k][s]) \in Nat
    BY <2>1, LenProperties
  <2>4. \A i \in m..n : log[k][s][i] \in Outputs
    BY <2>1, <2>3, ElementOfSeq
  <2>M. m = Len(log[k][o]) + 1
    OBVIOUS
  <2> HIDE DEF m, n
  <2>5. /\ sub \in Seq(Outputs)
        /\ Len(sub) = IF m <= n THEN n - m + 1 ELSE 0
        /\ \A i \in 1..(n - m + 1) : sub[i] = log[k][s][m + i - 1]
    BY <2>3, <2>4, SubSeqProperties
  <2>6. Len(pending[k][s]) = IF n > Len(log[k][o]) THEN n - Len(log[k][o]) ELSE 0
    BY <2>2 DEF QueueHolds, Surplus, n
  <2>7. Len(sub) = Len(pending[k][s])
    <3>1. CASE m <= n
      <4>1. n > Len(log[k][o]) /\ n - Len(log[k][o]) = n - m + 1
        BY <3>1, <2>3, <2>M
      <4> QED
        BY <3>1, <4>1, <2>5, <2>6
    <3>2. CASE ~(m <= n)
      <4>1. ~(n > Len(log[k][o]))
        BY <3>2, <2>3, <2>M
      <4> QED
        BY <3>2, <4>1, <2>5, <2>6
    <3> QED
      BY <3>1, <3>2
  <2>8. ASSUME NEW i \in 1..Len(pending[k][s])
        PROVE  pending[k][s][i] = sub[i]
    <3>1. pending[k][s][i] = log[k][s][Len(log[k][o]) + i]
      BY <2>2 DEF QueueHolds
    <3>2. i \in 1..(n - m + 1) /\ m + i - 1 = Len(log[k][o]) + i
      BY <2>3, <2>6, <2>M
    <3> QED
      BY <3>1, <3>2, <2>5
  <2>9. pending[k][s] = sub
    BY <2>1, <2>5, <2>7, <2>8, SeqEqual
  <2> QED
    BY <2>9 DEF Waiting, m, n
<1>2. "before" \in Sides /\ "after" \in Sides
  BY DEF Sides
<1> QED
  BY <1>1, <1>2 DEF TraceAgreesWithLog, TraceInv, TraceCounts, CoverageCounts, WitnessHappened

-----------------------------------------------------------------------------
(* The modes. *)

\* The modes are the two fixed ones and then the controls, all different.
LEMMA ModesFacts ==
  /\ Len(Controls) \in Nat /\ Len(Modes) = Len(Controls) + 2
  /\ DOMAIN Modes = 1..Len(Modes) /\ DOMAIN Controls = 1..Len(Controls)
  /\ Len(Controls) > 0
  /\ Modes[1] = "identity" /\ Modes[2] = "baseline"
  /\ \A i \in DOMAIN Modes : i > 2 => i - 2 \in DOMAIN Controls /\ Modes[i] = Controls[i - 2]
  /\ \A i, j \in DOMAIN Modes : Modes[i] = Modes[j] => i = j
<1> DEFINE Names == {"identity", "baseline"} \cup ControlNames
<1>0. Controls \in Seq(ControlNames)
  BY ValidationAssumption
<1>1. Controls \in Seq(Names) /\ <<"identity", "baseline">> \in Seq(Names)
  BY <1>0, SeqMonotonic
<1>2. /\ Len(Controls) \in Nat /\ DOMAIN Controls = 1..Len(Controls)
      /\ Len(<<"identity", "baseline">>) = 2
  BY <1>1, LenProperties
<1>3. /\ Modes \in Seq(Names)
      /\ Len(Modes) = 2 + Len(Controls)
      /\ \A i \in 1..(2 + Len(Controls)) :
           Modes[i] = IF i <= 2 THEN <<"identity", "baseline">>[i] ELSE Controls[i - 2]
  BY <1>1, <1>2, ConcatProperties DEF Modes
<1>4. DOMAIN Modes = 1..Len(Modes) /\ Len(Modes) \in Nat
  BY <1>3, LenProperties
<1>5. Modes[1] = "identity" /\ Modes[2] = "baseline"
  BY <1>2, <1>3
<1>6. ASSUME NEW i \in DOMAIN Modes, i > 2
      PROVE  i - 2 \in DOMAIN Controls /\ Modes[i] = Controls[i - 2]
  BY <1>2, <1>3, <1>4, <1>6
<1>7. Len(Controls) > 0
  BY <1>2, ValidationAssumption DEF ControlNames
<1>8. ASSUME NEW i \in DOMAIN Modes, NEW j \in DOMAIN Modes, Modes[i] = Modes[j]
      PROVE  i = j
  <2>1. \A h \in DOMAIN Controls : Controls[h] \notin {"identity", "baseline"}
    BY ValidationAssumption DEF ControlNames
  <2>2. i \in Int /\ j \in Int /\ (i = 1 \/ i = 2 \/ i > 2) /\ (j = 1 \/ j = 2 \/ j > 2)
    BY <1>2, <1>3, <1>4
  <2>3. CASE i > 2 /\ j > 2
    <3>1. i - 2 = j - 2
      BY <1>6, <1>8, <2>3, ValidationAssumption
    <3> QED
      BY <2>2, <3>1
  <2>4. CASE ~(i > 2 /\ j > 2)
    BY <1>5, <1>6, <1>8, <2>1, <2>2, <2>4
  <2> QED
    BY <2>3, <2>4
<1> QED
  BY <1>2, <1>3, <1>4, <1>5, <1>6, <1>7, <1>8

\* The file copied for a side of a mode is one of the libraries.
LEMMA OriginIsLibrary ==
  ASSUME NEW mode \in ModeNames, NEW side \in Sides
  PROVE  Origin(mode, side) \in Files /\ Origin(mode, side) \notin {"tool", "fixture"}
<1>1. CASE mode \in {"identity", "baseline"} \/ side = "before"
  BY <1>1 DEF Origin, SourceAfter, Files
<1>2. CASE mode \notin {"identity", "baseline"} /\ side # "before"
  <2>1. PICK i \in DOMAIN Modes : mode = Modes[i]
    BY DEF ModeNames
  <2>2. i > 2 /\ Modes[i] = Controls[i - 2] /\ i - 2 \in DOMAIN Controls
    BY <1>2, <2>1, ModesFacts
  <2>3. mode \in ControlNames
    BY <2>1, <2>2 DEF ControlNames
  <2>4. Origin(mode, side) = mode
    BY <1>2 DEF Origin, SourceAfter
  <2> QED
    BY <2>3, <2>4, ValidationAssumption DEF Files
<1> QED
  BY <1>1, <1>2

-----------------------------------------------------------------------------
(* Types. *)

AnyContent == {Missing} \cup Texts \cup Bytes
Verdicts == {"unseen", "thin", "agree", "differ"}
Steps == {"hash", "copy", "check", "replay", "verify", "fixture", "broken", "recheck",
          "originals", "done"}

BookTypeOK ==
  /\ pc \in Steps /\ at \in DOMAIN Modes
  /\ status \in {"rejected", "accepted", "raised"}
  /\ content \in [Files -> AnyContent] /\ hashes \in [Files -> AnyContent]
  /\ \A f \in Files : content[f] \in Contents(f) /\ hashes[f] \in Contents(f)
  /\ copies \in [ModeNames -> [Sides -> Bytes \cup {Missing}]]
  /\ observed \in [ModeNames -> Verdicts]
  /\ strayed \subseteq Places /\ touched \subseteq Places /\ retouched \subseteq touched

\* The mode at hand is one of the modes.
LEMMA ModeIsName ==
  ASSUME BookTypeOK
  PROVE  Mode \in ModeNames
BY DEF BookTypeOK, Mode, ModeNames

LEMMA InitTypes == Init => BookTypeOK
<1> SUFFICES ASSUME Init PROVE BookTypeOK
  OBVIOUS
<1>1. content \in [Files -> AnyContent] /\ \A f \in Files : content[f] \in Contents(f)
  BY ValidationAssumption DEF Init, AnyContent
<1>2. at \in DOMAIN Modes
  BY ModesFacts DEF Init
<1> QED
  BY <1>1, <1>2 DEF Init, BookTypeOK, Steps, Verdicts

\* A step that rejects or raises.
LEMMA EndKeepsTypes ==
  ASSUME BookTypeOK, Reject \/ Raise, observed' \in [ModeNames -> Verdicts],
         strayed' \subseteq Places, UNCHANGED <<touched, retouched>>
  PROVE  BookTypeOK'
BY DEF BookTypeOK, Reject, Raise, bookVars, Steps

\* A step that goes on.
LEMMA GoToKeepsTypes ==
  ASSUME BookTypeOK, NEW step \in Steps, NEW index \in DOMAIN Modes, GoTo(step, index),
         observed' \in [ModeNames -> Verdicts],
         strayed' \subseteq Places, UNCHANGED <<touched, retouched>>
  PROVE  BookTypeOK'
BY DEF BookTypeOK, GoTo, bookVars

LEMMA NextTypes ==
  ASSUME BookTypeOK, [Next]_vars
  PROVE  BookTypeOK'
<1> USE DEF Steps
<1>1. /\ observed \in [ModeNames -> Verdicts] /\ strayed \subseteq Places
      /\ at \in DOMAIN Modes /\ Mode \in ModeNames
  BY ModeIsName DEF BookTypeOK
<1>2. \A f \in {"tool", "fixture"} : Runs(f) => strayed' \subseteq Places
  BY <1>1 DEF Runs, Places, Files
<1>4. \A mode \in ModeNames, sides \in SUBSET Sides : Strays(mode, sides) \subseteq Places
  BY DEF Strays, Places, Copies
<1>5. CASE Hash
  <2>1. Raise \/ GoTo("copy", 1)
    BY <1>5 DEF Hash
  <2>2. UNCHANGED seenVars /\ 1 \in DOMAIN Modes
    BY <1>5, ModesFacts DEF Hash
  <2> QED
    BY <1>1, <2>1, <2>2, EndKeepsTypes, GoToKeepsTypes DEF seenVars
<1>6. CASE Copy
  <2>1. CASE Reject /\ UNCHANGED strayed
    BY <1>1, <1>6, <2>1, EndKeepsTypes DEF Copy
  <2>2. CASE ~(Reject /\ UNCHANGED strayed)
    <3> DEFINE two == [side \in Sides |-> content[Origin(Mode, side)]]
    <3>1. copies' = [copies EXCEPT ![Mode] = two] /\ pc' = "check" /\ Runs("tool")
          /\ UNCHANGED <<at, status, content, hashes, observed, touched, retouched>>
      BY <1>6, <2>2 DEF Copy
    <3>2. two \in [Sides -> Bytes \cup {Missing}]
      BY <1>1, OriginIsLibrary DEF BookTypeOK, Contents
    <3> QED
      BY <1>1, <1>2, <3>1, <3>2 DEF BookTypeOK
  <2> QED
    BY <2>1, <2>2
<1>7. ASSUME NEW side \in Sides, NEW k \in Inputs, NEW out \in Outputs, CheckerCalls(side, k, out)
      PROVE  BookTypeOK'
  <2>1. /\ UNCHANGED <<pc, at, bookVars, observed, touched, retouched>>
        /\ strayed' = strayed \cup Strays(Mode, {side})
    BY <1>7 DEF CheckerCalls
  <2>2. strayed' \subseteq Places
    BY <1>1, <1>4, <2>1
  <2> QED
    BY <2>1, <2>2 DEF BookTypeOK, bookVars
<1>8. ASSUME NEW report \in Reports, CheckerExits(report)
      PROVE  BookTypeOK'
  <2>1. Reject \/ GoTo("verify", at) \/ GoTo("replay", at)
    BY <1>8 DEF CheckerExits
  <2>2. observed' \in [ModeNames -> Verdicts]
    BY <1>1, <1>8 DEF CheckerExits, Amount, Verdicts
  <2>3. UNCHANGED <<strayed, touched, retouched>>
    BY <1>8 DEF CheckerExits
  <2> QED
    BY <1>1, <2>1, <2>2, <2>3, EndKeepsTypes, GoToKeepsTypes
<1>9. ASSUME NEW k \in Inputs, NEW before \in Outputs, NEW after \in Outputs, NEW claim \in Claims,
             Replay(k, before, after, claim)
      PROVE  BookTypeOK'
  <2>1. Reject \/ Raise \/ GoTo("verify", at)
    BY <1>9 DEF Replay
  <2>2. strayed' \subseteq Places /\ UNCHANGED <<observed, touched, retouched>>
    BY <1>1, <1>4, <1>9 DEF Replay
  <2> QED
    BY <1>1, <2>1, <2>2, EndKeepsTypes, GoToKeepsTypes
<1>10. CASE Verify
  <2>1. Reject \/ (at < Len(Modes) /\ GoTo("copy", at + 1)) \/ GoTo("fixture", 1)
    BY <1>10 DEF Verify
  <2>2. UNCHANGED seenVars /\ 1 \in DOMAIN Modes /\ (at < Len(Modes) => at + 1 \in DOMAIN Modes)
    BY <1>1, <1>10, ModesFacts DEF Verify
  <2> QED
    BY <1>1, <2>1, <2>2, EndKeepsTypes, GoToKeepsTypes DEF seenVars
<1>11. ASSUME NEW passes \in BOOLEAN, FixtureRuns(passes) \/ BrokenFixtureRuns(passes)
       PROVE  BookTypeOK'
  <2>1. Reject \/ (at < Len(Controls) /\ GoTo("fixture", at + 1)) \/ GoTo("broken", 1) \/ GoTo("recheck", 1)
    BY <1>11 DEF FixtureRuns, BrokenFixtureRuns
  <2>2. strayed' \subseteq Places /\ UNCHANGED <<observed, touched, retouched>>
    BY <1>2, <1>11 DEF FixtureRuns, BrokenFixtureRuns
  <2>3. 1 \in DOMAIN Modes /\ (at < Len(Controls) => at + 1 \in DOMAIN Modes)
    BY <1>1, ModesFacts
  <2> QED
    BY <1>1, <2>1, <2>2, <2>3, EndKeepsTypes, GoToKeepsTypes
<1>12. CASE NoAnswer \/ FixtureGone \/ TimesOut
  BY <1>1, <1>12, EndKeepsTypes DEF NoAnswer, FixtureGone, TimesOut, seenVars
<1>13. CASE RecheckCopies
  <2>1. (Reject \/ GoTo("originals", 1)) /\ UNCHANGED seenVars /\ 1 \in DOMAIN Modes
    BY <1>13, ModesFacts DEF RecheckCopies
  <2> QED
    BY <1>1, <2>1, EndKeepsTypes, GoToKeepsTypes DEF seenVars
<1>14. CASE Decide
  <2>1. CASE Reject
    BY <1>1, <1>14, <2>1, EndKeepsTypes DEF Decide, seenVars
  <2>2. CASE ~Reject
    BY <1>14, <2>2 DEF Decide, BookTypeOK, seenVars
  <2> QED
    BY <2>1, <2>2
<1>15. ASSUME NEW f \in Files, NEW new \in Contents(f), EditFile(f, new)
       PROVE  BookTypeOK'
  <2>1. <<f, "file">> \in Places /\ new \in AnyContent
    BY DEF Places, Contents, AnyContent
  <2>2. /\ content' = [content EXCEPT ![f] = new]
        /\ touched' = touched \cup {<<f, "file">>}
        /\ retouched' = retouched \cup (touched \cap {<<f, "file">>})
        /\ UNCHANGED <<pc, at, status, hashes, copies, observed, strayed>>
    BY <1>15 DEF EditFile, MayEdit
  <2> QED
    BY <2>1, <2>2 DEF BookTypeOK
<1>16. ASSUME NEW mode \in ModeNames, NEW side \in Sides, NEW new \in Bytes \cup {Missing},
              EditCopy(mode, side, new)
       PROVE  BookTypeOK'
  <2>1. <<mode, side>> \in Places
    BY DEF Places, Copies
  <2>2. /\ copies' = [copies EXCEPT ![mode][side] = new]
        /\ touched' = touched \cup {<<mode, side>>}
        /\ retouched' = retouched \cup (touched \cap {<<mode, side>>})
        /\ UNCHANGED <<pc, at, status, hashes, content, observed, strayed>>
    BY <1>16 DEF EditCopy, MayEdit
  <2> QED
    BY <2>1, <2>2 DEF BookTypeOK
<1>17. CASE UNCHANGED vars
  BY <1>17 DEF vars, bookVars, seenVars, BookTypeOK
<1>18. ASSUME NEW mode \in ModeNames, NEW side \in Sides, FixtureLoads(mode, side)
       PROVE  BookTypeOK'
  <2>1. /\ UNCHANGED <<pc, at, bookVars, observed, touched, retouched>>
        /\ strayed' = strayed \cup Strays(mode, {side})
    BY <1>18 DEF FixtureLoads
  <2>2. strayed' \subseteq Places
    BY <1>1, <1>4, <2>1
  <2> QED
    BY <2>1, <2>2 DEF BookTypeOK, bookVars
<1>19. CASE FixtureRunsChecker
  <2>1. UNCHANGED <<pc, at, bookVars, observed, touched, retouched>> /\ strayed' \subseteq Places
    BY <1>2, <1>19 DEF FixtureRunsChecker
  <2> QED
    BY <2>1 DEF BookTypeOK, bookVars
<1> QED
  BY <1>5, <1>6, <1>7, <1>8, <1>9, <1>10, <1>11, <1>12, <1>13, <1>14, <1>15, <1>16, <1>17, <1>18, <1>19
     DEF Next, Validator, Subprocess, Edit

-----------------------------------------------------------------------------
(* The tracer inside the validation. *)

LEMMA NextTrace ==
  ASSUME TraceInv, [Next]_vars
  PROVE  TraceInv'
<1>1. ASSUME NEW side \in Sides, NEW k \in Inputs, NEW out \in Outputs, CheckerCalls(side, k, out)
      PROVE  TraceInv'
  <2>1. Call(side, k, out)
    BY <1>1 DEF CheckerCalls
  <2> QED
    BY <2>1, CallKeepsTrace
<1>2. CASE Verify
  BY <1>2, TraceEndsHolds DEF Verify
<1>3. CASE UNCHANGED traceVars
  BY <1>3, TraceFrame
<1>4. \/ UNCHANGED traceVars \/ Verify
      \/ \E side \in Sides, k \in Inputs, out \in Outputs : CheckerCalls(side, k, out)
  BY DEF Next, Validator, Subprocess, Edit, vars, Hash, Copy, RecheckCopies, Decide, FixtureGone,
         TimesOut, CheckerExits, NoAnswer, Replay, FixtureLoads, FixtureRunsChecker, FixtureRuns,
         BrokenFixtureRuns, EditFile, EditCopy
<1> QED
  BY <1>1, <1>2, <1>3, <1>4

-----------------------------------------------------------------------------
(* What the runs have shown. *)

\* The steps after the last run.
Late == {"fixture", "broken", "recheck", "originals"}

\* What the calls of a mode must amount to.
Proven(mode) == /\ mode = "identity" => observed[mode] = "agree"
                /\ mode = "baseline" => observed[mode] \in {"agree", "differ"}
                /\ mode \in ControlNames => observed[mode] = "differ"

\* The modes that are behind.
Behind(i) == pc \in Late \/ (pc \in {"copy", "check", "replay", "verify"} /\ i < at)

SeenInv ==
  /\ pc \in {"replay", "verify"} => observed[Mode] = IF mismatches = 0 THEN "agree" ELSE "differ"
  /\ \A i \in DOMAIN Modes : Behind(i) => Proven(Modes[i])
  /\ status = "accepted" => pc = "done" /\ \A i \in DOMAIN Modes : Proven(Modes[i])

\* The tests of lines 82-97 believe a report only of a run whose calls, as the
\* log has them, are enough.
LEMMA BelievedIsEnough ==
  ASSUME TraceInv, NEW report \in Reports, Believable(report)
  PROVE  Amount = IF mismatches = 0 THEN "agree" ELSE "differ"
<1>1. TraceAgreesWithLog
  BY TraceInvAgrees
<1>2. \A k \in Inputs : k \in unique <=> PairsOf(k) # {}
  <2> SUFFICES ASSUME NEW k \in Inputs
               PROVE  k \in unique <=> PairsOf(k) # {}
    OBVIOUS
  <2> DEFINE b == Len(log[k]["before"])
             a == Len(log[k]["after"])
  <2>1. /\ log[k]["before"] \in Seq(Outputs) /\ log[k]["after"] \in Seq(Outputs)
        /\ b <= calls["before"] /\ a <= calls["after"]
        /\ calls["before"] \in Nat /\ calls["after"] \in Nat
        /\ calls["before"] + calls["after"] <= CallCap
    BY DEF TraceInv, TraceTypeOK, Sides
  <2>2. a \in Nat /\ b \in Nat /\ (log[k]["before"] # <<>> <=> b > 0) /\ (log[k]["after"] # <<>> <=> a > 0)
    BY <2>1, LenProperties, EmptySeq
  <2>3. k \in unique <=> b > 0 /\ a > 0
    BY <1>1, <2>2 DEF TraceAgreesWithLog
  <2>4. PairsOf(k) = {i \in 1..CallCap : i <= b /\ i <= a}
    BY DEF PairsOf
  <2> HIDE DEF a, b
  <2>5. b > 0 /\ a > 0 => 1 \in PairsOf(k)
    BY <2>1, <2>2, <2>4, TraceAssumption
  <2>6. PairsOf(k) # {} => b > 0 /\ a > 0
    BY <2>2, <2>4, TraceAssumption
  <2> QED
    BY <2>3, <2>5, <2>6
<1>3. unique \subseteq Inputs
  BY <1>1 DEF TraceAgreesWithLog
<1>4. {k \in Inputs : PairsOf(k) # {}} = unique
  BY <1>2, <1>3
<1>5. Enough
  <2>1. ASSUME NEW r \in Requirements, NEW l \in Slots[r]
        PROVE  Cardinality({k \in Inputs : PairsOf(k) # {} /\ l \in Hits[k][r]}) >= Least[r]
    <3>1. {k \in Inputs : PairsOf(k) # {} /\ l \in Hits[k][r]} = {k \in unique : l \in Hits[k][r]}
      BY <1>4
    <3>2. coverage[r][l] = Cardinality({k \in unique : l \in Hits[k][r]})
      BY <1>1 DEF TraceAgreesWithLog
    <3>3. coverage[r][l] >= Least[r]
      BY DEF Believable, Covered
    <3> QED
      BY <3>1, <3>2, <3>3
  <2>2. Cardinality({k \in Inputs : PairsOf(k) # {}}) >= Minimum
    BY <1>4 DEF Believable
  <2> QED
    BY <2>1, <2>2 DEF Enough
<1>6. mismatches = 0 <=> Differing = {}
  BY <1>1, PairedCallsFinite, FS_EmptySet DEF TraceAgreesWithLog
<1> QED
  BY <1>5, <1>6 DEF Amount

LEMMA InitSeen == Init => SeenInv
BY DEF Init, SeenInv, Behind, Late

\* A step that only goes from one step of the validation to the next, with
\* nothing more behind than before.
LEMMA GoOnKeepsSeen ==
  ASSUME BookTypeOK, SeenInv, UNCHANGED <<observed, status>>, status # "accepted" \/ pc' = "done",
         pc' \notin {"replay", "verify"},
         \A i \in DOMAIN Modes : Behind(i)' => Proven(Modes[i])
  PROVE  SeenInv'
BY DEF SeenInv, Proven, Behind, Late

LEMMA NextSeen ==
  ASSUME BookTypeOK, TraceInv, SeenInv, [Next]_vars
  PROVE  SeenInv'
<1>1. at \in DOMAIN Modes /\ observed \in [ModeNames -> Verdicts]
      /\ \A i \in DOMAIN Modes : Modes[i] \in ModeNames
  BY DEF BookTypeOK, ModeNames
<1>2. pc # "done" => status # "accepted"
  BY DEF SeenInv
<1>3. ASSUME Reject \/ Raise, pc # "done"
      PROVE  SeenInv'
  BY <1>2, <1>3 DEF Reject, Raise, bookVars, SeenInv, Behind, Late
<1>4. CASE Hash
  <2>1. CASE GoTo("copy", 1)
    <3>1. UNCHANGED <<observed, status>> /\ pc' = "copy" /\ at' = 1 /\ pc = "hash"
      BY <1>4, <2>1 DEF Hash, GoTo, bookVars, seenVars
    <3>2. \A i \in DOMAIN Modes : ~Behind(i)'
      BY <3>1, ModesFacts DEF Behind, Late
    <3> QED
      BY <3>1, <3>2, <1>2, GoOnKeepsSeen
  <2>2. CASE Raise
    BY <1>3, <1>4, <2>2 DEF Hash
  <2> QED
    BY <1>4, <2>1, <2>2 DEF Hash
<1>5. CASE Copy
  <2>1. CASE Reject
    BY <1>3, <1>5, <2>1 DEF Copy
  <2>2. CASE ~Reject
    <3>1. UNCHANGED <<observed, status, at>> /\ pc' = "check" /\ pc = "copy"
      BY <1>5, <2>2 DEF Copy
    <3>2. \A i \in DOMAIN Modes : Behind(i)' => Behind(i)
      BY <3>1 DEF Behind, Late
    <3> QED
      BY <3>1, <3>2, <1>2, GoOnKeepsSeen DEF SeenInv
  <2> QED
    BY <2>1, <2>2
<1>6. ASSUME NEW side \in Sides, NEW k \in Inputs, NEW out \in Outputs, CheckerCalls(side, k, out)
      PROVE  SeenInv'
  BY <1>6 DEF CheckerCalls, bookVars, SeenInv, Proven, Behind, Late
<1>7. ASSUME NEW report \in Reports, CheckerExits(report)
      PROVE  SeenInv'
  <2>1. CASE Reject
    BY <1>3, <1>7, <2>1 DEF CheckerExits
  <2>2. CASE ~Reject
    <3>1. /\ Believable(report) /\ pc = "check" /\ pc' \in {"replay", "verify"}
          /\ UNCHANGED <<at, status, mismatches>>
          /\ observed' = [observed EXCEPT ![Mode] = Amount]
      BY <1>7, <2>2 DEF CheckerExits, GoTo, bookVars, traceVars
    <3>2. observed'[Mode] = IF mismatches = 0 THEN "agree" ELSE "differ"
      BY <1>1, <3>1, BelievedIsEnough DEF Mode
    <3>3. Mode' = Mode
      BY <3>1 DEF Mode
    <3>4. ASSUME NEW i \in DOMAIN Modes, Behind(i)'
          PROVE  Proven(Modes[i])'
      <4>1. Behind(i) /\ i < at
        BY <3>1, <3>4 DEF Behind, Late
      <4>2. Modes[i] # Mode
        BY <1>1, <4>1, ModesFacts DEF Mode
      <4>3. observed'[Modes[i]] = observed[Modes[i]]
        BY <1>1, <3>1, <4>2
      <4> QED
        BY <4>1, <4>3 DEF SeenInv, Proven
    <3> QED
      BY <1>2, <3>1, <3>2, <3>3, <3>4 DEF SeenInv
  <2> QED
    BY <2>1, <2>2
<1>8. ASSUME NEW k \in Inputs, NEW before \in Outputs, NEW after \in Outputs, NEW claim \in Claims,
             Replay(k, before, after, claim)
      PROVE  SeenInv'
  <2>1. CASE Reject \/ Raise
    BY <1>3, <1>8, <2>1 DEF Replay
  <2>2. CASE ~(Reject \/ Raise)
    <3>1. pc = "replay" /\ pc' = "verify" /\ UNCHANGED <<at, status, observed, mismatches>>
      BY <1>8, <2>2 DEF Replay, GoTo, bookVars, traceVars
    <3> QED
      BY <1>2, <3>1 DEF SeenInv, Behind, Proven, Mode, Late
  <2> QED
    BY <2>1, <2>2
<1>9. CASE Verify
  <2>1. CASE Reject
    BY <1>3, <1>9, <2>1 DEF Verify
  <2>2. CASE ~Reject
    <3>1. /\ pc = "verify" /\ Tells(Mode) /\ UNCHANGED <<observed, status>>
          /\ \/ at < Len(Modes) /\ pc' = "copy" /\ at' = at + 1
             \/ ~(at < Len(Modes)) /\ pc' = "fixture"
      BY <1>9, <2>2 DEF Verify, GoTo, bookVars, seenVars
    <3>2. observed[Mode] = IF mismatches = 0 THEN "agree" ELSE "differ"
      BY <3>1 DEF SeenInv
    <3>3. mismatches \in Nat
      BY DEF TraceInv, TraceTypeOK
    <3>4. Proven(Mode)
      BY <3>1, <3>2, <3>3 DEF Proven, Tells
    <3>5. ASSUME NEW i \in DOMAIN Modes, Behind(i)'
          PROVE  Proven(Modes[i])
      <4>1. i < at \/ i = at
        BY <1>1, <3>1, <3>5, ModesFacts DEF Behind, Late
      <4> QED
        BY <3>1, <3>4, <4>1 DEF Mode, SeenInv, Behind
    <3> QED
      BY <1>2, <3>1, <3>5, GoOnKeepsSeen
  <2> QED
    BY <2>1, <2>2
<1>10. ASSUME NEW passes \in BOOLEAN, FixtureRuns(passes) \/ BrokenFixtureRuns(passes)
       PROVE  SeenInv'
  <2>1. CASE Reject
    BY <1>3, <1>10, <2>1 DEF FixtureRuns, BrokenFixtureRuns
  <2>2. CASE ~Reject
    <3>1. pc \in Late /\ pc' \in Late /\ UNCHANGED <<observed, status>>
      BY <1>10, <2>2 DEF FixtureRuns, BrokenFixtureRuns, GoTo, bookVars, Late
    <3> QED
      BY <1>2, <3>1, GoOnKeepsSeen DEF SeenInv, Behind, Late
  <2> QED
    BY <2>1, <2>2
<1>11. CASE NoAnswer \/ FixtureGone \/ TimesOut
  BY <1>3, <1>11 DEF NoAnswer, FixtureGone, TimesOut, Timed
<1>12. CASE RecheckCopies
  <2>1. CASE Reject
    BY <1>3, <1>12, <2>1 DEF RecheckCopies
  <2>2. CASE ~Reject
    <3>1. pc \in Late /\ pc' \in Late /\ UNCHANGED <<observed, status>>
      BY <1>12, <2>2 DEF RecheckCopies, GoTo, bookVars, seenVars, Late
    <3> QED
      BY <1>2, <3>1, GoOnKeepsSeen DEF SeenInv, Behind, Late
  <2> QED
    BY <2>1, <2>2
<1>13. CASE Decide
  <2>1. CASE Reject
    BY <1>3, <1>13, <2>1 DEF Decide
  <2>2. CASE ~Reject
    <3>1. pc = "originals" /\ pc' = "done" /\ UNCHANGED observed
      BY <1>13, <2>2 DEF Decide, seenVars
    <3> QED
      BY <3>1 DEF SeenInv, Behind, Proven, Late
  <2> QED
    BY <2>1, <2>2
<1>14. ASSUME NEW f \in Files, NEW new \in Contents(f), EditFile(f, new)
       PROVE  SeenInv'
  BY <1>14 DEF EditFile, traceVars, SeenInv, Behind, Proven, Mode, Late
<1>15. ASSUME NEW mode \in ModeNames, NEW side \in Sides, NEW new \in Bytes \cup {Missing},
              EditCopy(mode, side, new)
       PROVE  SeenInv'
  BY <1>15 DEF EditCopy, traceVars, SeenInv, Behind, Proven, Mode, Late
<1>16. CASE UNCHANGED vars
  BY <1>16 DEF vars, bookVars, seenVars, traceVars, SeenInv, Behind, Proven, Mode, Late
<1>17. ASSUME NEW mode \in ModeNames, NEW side \in Sides, FixtureLoads(mode, side)
       PROVE  SeenInv'
  BY <1>17 DEF FixtureLoads, bookVars, traceVars, SeenInv, Behind, Proven, Mode, Late
<1>18. CASE FixtureRunsChecker
  BY <1>18 DEF FixtureRunsChecker, bookVars, traceVars, SeenInv, Behind, Proven, Mode, Late
<1> QED
  BY <1>4, <1>5, <1>6, <1>7, <1>8, <1>9, <1>10, <1>11, <1>12, <1>13, <1>14, <1>15, <1>16, <1>17, <1>18
     DEF Next, Validator, Subprocess, Edit

-----------------------------------------------------------------------------
(* What the digests show. *)

File(f) == <<f, "file">>

Differs(f) == content[f] # hashes[f]

Put(mode, side) == copies[mode][side] # Missing

Off(mode, side) == copies[mode][side] # hashes[Origin(mode, side)]

SourceDiffers(mode, side) == \/ Differs(Origin(mode, side))
                             \/ File(Origin(mode, side)) \in retouched

\* A file that is not as hashed was rewritten; one that ran so still is not,
\* or was rewritten again.
FilesTold == \A f \in Files :
  /\ Differs(f) => File(f) \in touched
  /\ File(f) \in strayed => File(f) \in retouched \/ Differs(f)

\* A copy that is not as hashed and that nobody rewrote has its bytes from a
\* file that was not either.
CopiesTold == \A mode \in ModeNames, side \in Sides :
  /\ <<mode, side>> \notin touched /\ Put(mode, side) /\ Off(mode, side) => SourceDiffers(mode, side)
  /\ <<mode, side>> \in strayed =>
       /\ <<mode, side>> \in retouched \/ Off(mode, side) \/ SourceDiffers(mode, side)
       /\ <<mode, side>> \notin touched => Put(mode, side)

\* No bytes of a mode that is ahead have run.
Ahead(i) == pc \in {"copy", "check", "replay", "verify"} /\ (i > at \/ (i = at /\ pc = "copy"))
AheadUnrun == \A i \in DOMAIN Modes, side \in Sides : Ahead(i) => <<Modes[i], side>> \notin strayed

Untouched == /\ hashes = content /\ strayed = {} /\ touched = {} /\ retouched = {}
             /\ \A mode \in ModeNames, side \in Sides : ~Put(mode, side)

HashInv ==
  /\ pc = "hash" => Untouched
  /\ pc \notin {"hash", "done"} => FilesTold /\ CopiesTold /\ AheadUnrun
  /\ pc = "originals" => \A mode \in ModeNames : AsHashed(mode)
  /\ status = "accepted" => pc = "done" /\ AcceptedRanHashedBytes

\* A file and a copy are different places.
LEMMA PlacesApart ==
  ASSUME NEW f, NEW mode \in ModeNames, NEW side \in Sides
  PROVE  File(f) # <<mode, side>>
BY DEF File, Sides

LEMMA InitHash == Init => HashInv
<1> SUFFICES ASSUME Init PROVE HashInv
  OBVIOUS
<1>1. Untouched
  BY DEF Init, Untouched, Put
<1> QED
  BY <1>1 DEF Init, HashInv

\* A step that ends the validation without accepting.
LEMMA EndKeepsHash ==
  ASSUME HashInv, pc # "done", Reject \/ Raise
  PROVE  HashInv'
BY DEF HashInv, Reject, Raise, bookVars

\* A step to a later step that runs nothing and changes no file.
LEMMA GoOnKeepsHash ==
  ASSUME HashInv, pc \notin {"hash", "done"}, NEW step, NEW index, GoTo(step, index),
         step \notin {"hash", "done"},
         step = "originals" => \A mode \in ModeNames : AsHashed(mode),
         AheadUnrun', UNCHANGED <<strayed, touched, retouched>>
  PROVE  HashInv'
<1>1. FilesTold' /\ CopiesTold'
  BY DEF HashInv, GoTo, bookVars, FilesTold, CopiesTold, Differs, Put, Off, SourceDiffers
<1>2. pc' = step /\ status' # "accepted"
  BY DEF HashInv, GoTo, bookVars
<1>3. step = "originals" => \A mode \in ModeNames : AsHashed(mode)'
  BY DEF AsHashed, GoTo, bookVars
<1> QED
  BY <1>1, <1>2, <1>3 DEF HashInv

\* A step that runs the bytes of a file, or of copies.
LEMMA RunKeepsHash ==
  ASSUME BookTypeOK, HashInv, pc \notin {"hash", "done"}, pc' \notin {"hash", "originals", "done"},
         UNCHANGED <<status, content, hashes, copies, touched, retouched>>,
         NEW ran \in SUBSET Places, strayed' = strayed \cup ran,
         \A f \in Files : File(f) \in ran => Differs(f),
         \A mode \in ModeNames, side \in Sides :
           <<mode, side>> \in ran => Off(mode, side) /\ Put(mode, side),
         AheadUnrun'
  PROVE  HashInv'
<1>1. FilesTold'
  BY DEF HashInv, FilesTold, Differs
<1>2. CopiesTold'
  BY DEF HashInv, CopiesTold, Put, Off, SourceDiffers, Differs
<1> QED
  BY <1>1, <1>2 DEF HashInv

\* Rewriting a file.
LEMMA EditFileKeepsHash ==
  ASSUME BookTypeOK, HashInv, NEW f \in Files, NEW new \in Contents(f), EditFile(f, new)
  PROVE  HashInv'
<1>1. /\ content' = [content EXCEPT ![f] = new]
      /\ touched' = touched \cup {File(f)}
      /\ retouched' = retouched \cup (touched \cap {File(f)})
      /\ pc \notin {"hash", "done"}
      /\ UNCHANGED <<pc, at, status, hashes, copies, strayed>>
  BY DEF EditFile, MayEdit, File
<1>2. content \in [Files -> AnyContent]
  BY DEF BookTypeOK
<1>3. \A g \in Files : g # f => (Differs(g)' <=> Differs(g)) /\ File(g) # File(f)
  BY <1>1, <1>2 DEF Differs, File
<1>4. FilesTold /\ CopiesTold /\ AheadUnrun
  BY <1>1 DEF HashInv
<1>5. Differs(f) => File(f) \in retouched'
  BY <1>1, <1>4 DEF FilesTold
<1>6. FilesTold'
  <2> SUFFICES ASSUME NEW g \in Files
               PROVE  /\ Differs(g)' => File(g) \in touched'
                      /\ File(g) \in strayed' => File(g) \in retouched' \/ Differs(g)'
    BY DEF FilesTold
  <2>1. CASE g = f
    BY <1>1, <1>4, <1>5, <2>1 DEF FilesTold
  <2>2. CASE g # f
    BY <1>1, <1>3, <1>4, <2>2 DEF FilesTold
  <2> QED
    BY <2>1, <2>2
<1>7. ASSUME NEW mode \in ModeNames, NEW side \in Sides
      PROVE  /\ Put(mode, side)' <=> Put(mode, side)
             /\ Off(mode, side)' <=> Off(mode, side)
             /\ SourceDiffers(mode, side) => SourceDiffers(mode, side)'
             /\ <<mode, side>> \in touched' <=> <<mode, side>> \in touched
  <2>1. Origin(mode, side) \in Files
    BY OriginIsLibrary
  <2>2. Origin(mode, side)' = Origin(mode, side)
    BY DEF Origin, SourceAfter
  <2>3. SourceDiffers(mode, side) => SourceDiffers(mode, side)'
    BY <1>1, <1>3, <1>5, <2>1 DEF SourceDiffers
  <2>4. <<mode, side>> # File(f)
    BY PlacesApart
  <2> QED
    BY <1>1, <2>3, <2>4 DEF Put, Off
<1>8. CopiesTold'
  <2> SUFFICES ASSUME NEW mode \in ModeNames, NEW side \in Sides
               PROVE  /\ <<mode, side>> \notin touched' /\ Put(mode, side)' /\ Off(mode, side)'
                           => SourceDiffers(mode, side)'
                      /\ <<mode, side>> \in strayed' =>
                           /\ \/ <<mode, side>> \in retouched'
                              \/ Off(mode, side)'
                              \/ SourceDiffers(mode, side)'
                           /\ <<mode, side>> \notin touched' => Put(mode, side)'
    BY DEF CopiesTold
  <2> QED
    BY <1>1, <1>4, <1>7 DEF CopiesTold
<1>9. AheadUnrun'
  BY <1>1, <1>4 DEF AheadUnrun, Ahead
<1>10. \A mode \in ModeNames : AsHashed(mode)' <=> AsHashed(mode)
  BY <1>1 DEF AsHashed
<1> QED
  BY <1>1, <1>6, <1>8, <1>9, <1>10 DEF HashInv

\* Rewriting a copy.
LEMMA EditCopyKeepsHash ==
  ASSUME BookTypeOK, HashInv, NEW mode \in ModeNames, NEW side \in Sides,
         NEW new \in Bytes \cup {Missing}, EditCopy(mode, side, new)
  PROVE  HashInv'
<1>1. /\ copies' = [copies EXCEPT ![mode][side] = new]
      /\ touched' = touched \cup {<<mode, side>>}
      /\ retouched' = retouched \cup (touched \cap {<<mode, side>>})
      /\ pc \in Timed
      /\ UNCHANGED <<pc, at, status, hashes, content, strayed>>
  BY DEF EditCopy, MayEdit
<1>2. copies \in [ModeNames -> [Sides -> Bytes \cup {Missing}]]
  BY DEF BookTypeOK
<1>3. pc \notin {"hash", "done", "originals"} /\ FilesTold /\ CopiesTold /\ AheadUnrun
  BY <1>1 DEF HashInv, Timed
<1>4. \A f \in Files : /\ Differs(f)' <=> Differs(f)
                       /\ File(f) \in touched' <=> File(f) \in touched
                       /\ File(f) \in retouched' <=> File(f) \in retouched
  BY <1>1, PlacesApart DEF Differs
<1>5. FilesTold'
  BY <1>1, <1>3, <1>4 DEF FilesTold
<1>6. ASSUME NEW m \in ModeNames, NEW s \in Sides
      PROVE  /\ <<m, s>> \notin touched' /\ Put(m, s)' /\ Off(m, s)' => SourceDiffers(m, s)'
             /\ <<m, s>> \in strayed' =>
                  /\ <<m, s>> \in retouched' \/ Off(m, s)' \/ SourceDiffers(m, s)'
                  /\ <<m, s>> \notin touched' => Put(m, s)'
  <2>1. SourceDiffers(m, s)' <=> SourceDiffers(m, s)
    BY <1>4, OriginIsLibrary DEF SourceDiffers
  <2>2. CASE m = mode /\ s = side
    <3>1. <<m, s>> \in touched'
      BY <1>1, <2>2
    <3>2. ASSUME <<m, s>> \in strayed, <<m, s>> \notin touched
          PROVE  <<m, s>> \in retouched \/ SourceDiffers(m, s)
      BY <1>3, <3>2 DEF CopiesTold
    <3>3. <<m, s>> \in touched => <<m, s>> \in retouched'
      BY <1>1, <2>2
    <3> QED
      BY <1>1, <2>1, <3>1, <3>2, <3>3
  <2>3. CASE ~(m = mode /\ s = side)
    <3>1. copies'[m][s] = copies[m][s]
      BY <1>1, <1>2, <2>3
    <3>2. /\ Put(m, s)' <=> Put(m, s)
          /\ Off(m, s)' <=> Off(m, s)
      BY <1>1, <3>1 DEF Put, Off
    <3>3. /\ <<m, s>> \in touched' <=> <<m, s>> \in touched
          /\ <<m, s>> \in retouched' <=> <<m, s>> \in retouched
      BY <1>1, <2>3
    <3> QED
      BY <1>1, <1>3, <2>1, <3>2, <3>3 DEF CopiesTold
  <2> QED
    BY <2>2, <2>3
<1>7. CopiesTold'
  BY <1>6 DEF CopiesTold
<1>8. AheadUnrun'
  BY <1>1, <1>3 DEF AheadUnrun, Ahead
<1> QED
  BY <1>1, <1>3, <1>5, <1>7, <1>8 DEF HashInv

LEMMA NextHash ==
  ASSUME BookTypeOK, HashInv, [Next]_vars
  PROVE  HashInv'
<1>1. at \in DOMAIN Modes /\ Mode \in ModeNames /\ strayed \subseteq Places
  BY ModeIsName DEF BookTypeOK
<1>2. pc \notin {"hash", "done"} => FilesTold /\ CopiesTold /\ AheadUnrun
  BY DEF HashInv
<1>3. CASE Hash
  <2>1. CASE GoTo("copy", 1)
    <3>1. /\ pc = "hash" /\ pc' = "copy" /\ at' = 1
          /\ UNCHANGED <<status, content, hashes, copies, strayed, touched, retouched>>
      BY <1>3, <2>1 DEF Hash, GoTo, bookVars, seenVars
    <3>2. Untouched /\ status # "accepted"
      BY <3>1 DEF HashInv
    <3>3. FilesTold'
      BY <3>1, <3>2 DEF FilesTold, Untouched, Differs
    <3>4. CopiesTold'
      BY <3>1, <3>2 DEF CopiesTold, Untouched, Put
    <3>5. AheadUnrun'
      BY <3>1, <3>2 DEF AheadUnrun, Untouched
    <3> QED
      BY <3>1, <3>2, <3>3, <3>4, <3>5 DEF HashInv
  <2>2. CASE Raise
    BY <1>3, <2>2, EndKeepsHash DEF Hash
  <2> QED
    BY <1>3, <2>1, <2>2 DEF Hash
<1>4. CASE Copy
  <2> DEFINE two == [side \in Sides |-> content[Origin(Mode, side)]]
  <2>1. CASE Reject
    BY <1>4, <2>1, EndKeepsHash DEF Copy
  <2>2. CASE ~Reject
    <3>1. /\ pc = "copy" /\ pc' = "check"
          /\ ~(Missing \in {two[side] : side \in Sides} \/ content["tool"] = Missing)
          /\ copies' = [copies EXCEPT ![Mode] = two]
          /\ strayed' = strayed \cup {File(h) : h \in {g \in {"tool"} : Differs(g)}}
          /\ UNCHANGED <<at, status, content, hashes, touched, retouched>>
      BY <1>4, <2>2 DEF Copy, Runs, File, Differs
    <3>2. FilesTold /\ CopiesTold /\ AheadUnrun
      BY <1>2, <3>1
    <3>3. FilesTold'
      <4>1. \A f \in Files : File(f) \in strayed' => File(f) \in strayed \/ Differs(f)
        BY <3>1 DEF File
      <4>2. \A f \in Files : Differs(f)' <=> Differs(f)
        BY <3>1 DEF Differs
      <4> QED
        BY <3>1, <3>2, <4>1, <4>2 DEF FilesTold
    <3>4. ASSUME NEW m \in ModeNames, NEW s \in Sides
          PROVE  <<m, s>> \in strayed' <=> <<m, s>> \in strayed
      BY <3>1, PlacesApart
    <3>5. ASSUME NEW s \in Sides
          PROVE  <<Mode, s>> \notin strayed
      BY <1>1, <3>1, <3>2 DEF AheadUnrun, Ahead, Mode
    <3>6. copies \in [ModeNames -> [Sides -> Bytes \cup {Missing}]]
      BY DEF BookTypeOK
    <3>7. ASSUME NEW m \in ModeNames, NEW s \in Sides
          PROVE  /\ <<m, s>> \notin touched' /\ Put(m, s)' /\ Off(m, s)' => SourceDiffers(m, s)'
                 /\ <<m, s>> \in strayed' =>
                      /\ <<m, s>> \in retouched' \/ Off(m, s)' \/ SourceDiffers(m, s)'
                      /\ <<m, s>> \notin touched' => Put(m, s)'
      <4>1. SourceDiffers(m, s)' <=> SourceDiffers(m, s)
        BY <3>1 DEF SourceDiffers, Differs
      <4>2. CASE m = Mode
        <5>1. copies'[m][s] = content[Origin(m, s)]
          BY <1>1, <3>1, <3>6, <4>2
        <5>2. Off(m, s)' => SourceDiffers(m, s)'
          BY <3>1, <4>1, <5>1 DEF Off, SourceDiffers, Differs
        <5>3. <<m, s>> \notin strayed'
          BY <3>4, <3>5, <4>2
        <5> QED
          BY <5>2, <5>3
      <4>3. CASE m # Mode
        <5>1. copies'[m] = copies[m]
          BY <3>1, <3>6, <4>3
        <5>2. (Put(m, s)' <=> Put(m, s)) /\ (Off(m, s)' <=> Off(m, s))
          BY <3>1, <5>1 DEF Put, Off
        <5> QED
          BY <3>1, <3>2, <3>4, <4>1, <5>2 DEF CopiesTold
      <4> QED
        BY <4>2, <4>3
    <3>8. CopiesTold'
      BY <3>7 DEF CopiesTold
    <3>9. AheadUnrun'
      <4> SUFFICES ASSUME NEW i \in DOMAIN Modes, NEW s \in Sides, Ahead(i)'
                   PROVE  <<Modes[i], s>> \notin strayed'
        BY DEF AheadUnrun
      <4>1. Ahead(i) /\ Modes[i] \in ModeNames
        BY <3>1 DEF Ahead, ModeNames
      <4> QED
        BY <3>2, <3>4, <4>1 DEF AheadUnrun
    <3> QED
      BY <3>1, <3>3, <3>8, <3>9 DEF HashInv
  <2> QED
    BY <2>1, <2>2
<1>5. ASSUME NEW sides \in SUBSET Sides, pc \in {"check", "replay"}, pc' \in {"check", "verify"},
             \A s \in sides : Libraries[s] # Missing,
             strayed' = strayed \cup Strays(Mode, sides),
             UNCHANGED <<at, bookVars, touched, retouched>>
      PROVE  HashInv'
  <2>1. \A m \in ModeNames, s \in Sides :
          <<m, s>> \in Strays(Mode, sides) => m = Mode /\ s \in sides /\ Off(m, s) /\ Put(m, s)
    BY <1>1, <1>5 DEF Strays, Off, Put, Libraries
  <2>2. \A f \in Files : File(f) \notin Strays(Mode, sides)
    BY <1>1, PlacesApart DEF Strays
  <2>3. Strays(Mode, sides) \in SUBSET Places
    BY <1>1 DEF Strays, Places, Copies
  <2>4. AheadUnrun'
    <3> SUFFICES ASSUME NEW i \in DOMAIN Modes, NEW s \in Sides, Ahead(i)'
                 PROVE  <<Modes[i], s>> \notin strayed'
      BY DEF AheadUnrun
    <3>1. Ahead(i) /\ i > at /\ Modes[i] \in ModeNames
      BY <1>1, <1>5, ModesFacts DEF Ahead, ModeNames
    <3>2. Modes[i] # Mode
      BY <1>1, <3>1, ModesFacts DEF Mode
    <3> QED
      BY <1>2, <1>5, <2>1, <3>1, <3>2 DEF AheadUnrun
  <2> QED
    BY <1>5, <2>1, <2>2, <2>3, <2>4, RunKeepsHash DEF bookVars
<1>6. ASSUME NEW side \in Sides, NEW k \in Inputs, NEW out \in Outputs, CheckerCalls(side, k, out)
      PROVE  HashInv'
  <2>1. /\ pc = "check" /\ Libraries[side] # Missing /\ strayed' = strayed \cup Strays(Mode, {side})
        /\ UNCHANGED <<pc, at, bookVars, touched, retouched>>
    BY <1>6 DEF CheckerCalls
  <2> QED
    BY <1>5, <2>1
<1>7. ASSUME NEW report \in Reports, CheckerExits(report)
      PROVE  HashInv'
  <2>1. CASE Reject
    BY <1>7, <2>1, EndKeepsHash DEF CheckerExits
  <2>2. CASE ~Reject
    <3>1. PICK step \in {"verify", "replay"} : GoTo(step, at)
      BY <1>7, <2>2 DEF CheckerExits
    <3>2. pc = "check" /\ UNCHANGED <<strayed, touched, retouched>>
      BY <1>7 DEF CheckerExits
    <3>3. AheadUnrun'
      BY <1>2, <3>1, <3>2 DEF AheadUnrun, Ahead, GoTo
    <3> QED
      BY <3>1, <3>2, <3>3, GoOnKeepsHash
  <2> QED
    BY <2>1, <2>2
<1>8. ASSUME NEW k \in Inputs, NEW before \in Outputs, NEW after \in Outputs, NEW claim \in Claims,
             Replay(k, before, after, claim)
      PROVE  HashInv'
  <2>1. CASE Reject \/ Raise
    BY <1>8, <2>1, EndKeepsHash DEF Replay
  <2>2. CASE ~(Reject \/ Raise)
    <3>1. /\ pc = "replay" /\ pc' = "verify" /\ \A s \in Sides : Libraries[s] # Missing
          /\ strayed' = strayed \cup Strays(Mode, Sides) /\ UNCHANGED <<at, bookVars, touched, retouched>>
      BY <1>8, <2>2 DEF Replay, GoTo
    <3> QED
      BY <1>5, <3>1
  <2> QED
    BY <2>1, <2>2
<1>9. CASE Verify
  <2>1. CASE Reject
    BY <1>9, <2>1, EndKeepsHash DEF Verify
  <2>2. CASE ~Reject
    <3>1. /\ pc = "verify" /\ UNCHANGED <<strayed, touched, retouched>>
          /\ GoTo("copy", at + 1) \/ GoTo("fixture", 1)
      BY <1>9, <2>2 DEF Verify, seenVars
    <3>2. AheadUnrun'
      <4>1. CASE GoTo("copy", at + 1)
        <5> SUFFICES ASSUME NEW i \in DOMAIN Modes, NEW s \in Sides, Ahead(i)'
                     PROVE  <<Modes[i], s>> \notin strayed
          BY <3>1 DEF AheadUnrun
        <5>1. i > at
          BY <1>1, <4>1, ModesFacts DEF Ahead, GoTo
        <5>2. Ahead(i)
          BY <3>1, <5>1 DEF Ahead
        <5> QED
          BY <1>2, <3>1, <5>2 DEF AheadUnrun
      <4>2. CASE GoTo("fixture", 1)
        BY <4>2 DEF AheadUnrun, Ahead, GoTo
      <4> QED
        BY <3>1, <4>1, <4>2
    <3> QED
      BY <3>1, <3>2, GoOnKeepsHash
  <2> QED
    BY <2>1, <2>2
<1>10. ASSUME NEW passes \in BOOLEAN, FixtureRuns(passes) \/ BrokenFixtureRuns(passes)
       PROVE  HashInv'
  <2>1. CASE Reject
    BY <1>10, <2>1, EndKeepsHash DEF FixtureRuns, BrokenFixtureRuns
  <2>2. CASE ~Reject
    <3> DEFINE ran == {File(h) : h \in {g \in {"fixture"} : Differs(g)}}
    <3>1. /\ pc \in {"fixture", "broken"} /\ pc' \in {"fixture", "broken", "recheck"}
          /\ UNCHANGED <<status, content, hashes, copies, touched, retouched>>
      BY <1>10, <2>2 DEF FixtureRuns, BrokenFixtureRuns, GoTo, bookVars
    <3>2. strayed' = strayed \cup ran
      BY <1>10 DEF FixtureRuns, BrokenFixtureRuns, Runs, File, Differs
    <3>3. ran \in SUBSET Places
      BY DEF File, Places, Files
    <3>4. \A f \in Files : File(f) \in ran => Differs(f)
      BY DEF File
    <3>5. \A m \in ModeNames, s \in Sides : <<m, s>> \notin ran
      BY PlacesApart
    <3>6. AheadUnrun'
      BY <3>1 DEF AheadUnrun, Ahead
    <3> HIDE DEF ran
    <3> QED
      BY <3>1, <3>2, <3>3, <3>4, <3>5, <3>6, RunKeepsHash
  <2> QED
    BY <2>1, <2>2
<1>11. CASE NoAnswer \/ FixtureGone \/ TimesOut
  BY <1>11, EndKeepsHash DEF NoAnswer, FixtureGone, TimesOut, Timed
<1>12. CASE RecheckCopies
  <2>1. CASE Reject
    BY <1>12, <2>1, EndKeepsHash DEF RecheckCopies
  <2>2. CASE ~Reject
    <3>1. /\ pc = "recheck" /\ GoTo("originals", 1) /\ \A mode \in ModeNames : AsHashed(mode)
          /\ UNCHANGED <<strayed, touched, retouched>>
      BY <1>12, <2>2 DEF RecheckCopies, seenVars
    <3>2. AheadUnrun'
      BY <3>1 DEF AheadUnrun, Ahead, GoTo
    <3> QED
      BY <3>1, <3>2, GoOnKeepsHash
  <2> QED
    BY <2>1, <2>2
<1>13. CASE Decide
  <2>1. CASE Reject
    BY <1>13, <2>1, EndKeepsHash DEF Decide
  <2>2. CASE ~Reject
    <3>1. /\ pc = "originals" /\ pc' = "done" /\ StillAsHashed
          /\ UNCHANGED <<content, hashes, copies, strayed, touched, retouched>>
      BY <1>13, <2>2 DEF Decide, seenVars
    <3>2. FilesTold /\ CopiesTold /\ \A mode \in ModeNames : AsHashed(mode)
      BY <3>1 DEF HashInv
    <3>3. ASSUME NEW place \in strayed
          PROVE  {place, SourceOf(place)} \cap retouched # {}
      <4>1. CASE place \in Copies
        <5>1. PICK m \in ModeNames, s \in Sides : place = <<m, s>>
          BY <4>1 DEF Copies
        <5>2. ~Off(m, s)
          BY <3>2, <5>1 DEF AsHashed, Off
        <5>3. ~Differs(Origin(m, s))
          BY <3>1, OriginIsLibrary DEF StillAsHashed, Differs
        <5>4. place \in retouched \/ File(Origin(m, s)) \in retouched
          BY <3>2, <5>1, <5>2, <5>3 DEF CopiesTold, SourceDiffers
        <5>5. SourceOf(place) = File(Origin(m, s))
          BY <4>1, <5>1 DEF SourceOf, File
        <5> QED
          BY <5>4, <5>5
      <4>2. CASE place \notin Copies
        <5>1. PICK f \in Files : place = File(f)
          BY <1>1, <4>2 DEF Places, File
        <5>2. ~Differs(f)
          BY <3>1 DEF StillAsHashed, Differs
        <5> QED
          BY <3>2, <5>1, <5>2 DEF FilesTold
      <4> QED
        BY <4>1, <4>2
    <3>4. AcceptedRanHashedBytes'
      <4>1. \A place \in strayed' : {place, SourceOf(place)} \cap retouched' # {}
        BY <3>1, <3>3
      <4>2. \A f \in Files : content'[f] = hashes'[f]
        BY <3>1 DEF StillAsHashed
      <4> QED
        BY <4>1, <4>2 DEF AcceptedRanHashedBytes, SourceOf, Origin, SourceAfter
    <3> QED
      BY <3>1, <3>4 DEF HashInv
  <2> QED
    BY <2>1, <2>2
<1>14. ASSUME NEW f \in Files, NEW new \in Contents(f), EditFile(f, new)
       PROVE  HashInv'
  BY <1>14, EditFileKeepsHash
<1>15. ASSUME NEW mode \in ModeNames, NEW side \in Sides, NEW new \in Bytes \cup {Missing},
              EditCopy(mode, side, new)
       PROVE  HashInv'
  BY <1>15, EditCopyKeepsHash
<1>16. CASE UNCHANGED vars
  BY <1>16 DEF vars, bookVars, seenVars, HashInv, Untouched, FilesTold, CopiesTold, AheadUnrun, Ahead,
     AsHashed, AcceptedRanHashedBytes, Differs, Put, Off, SourceDiffers
<1>17. ASSUME NEW mode \in ModeNames, NEW side \in Sides, FixtureLoads(mode, side)
       PROVE  HashInv'
  <2>1. /\ pc \in {"fixture", "broken"} /\ Put(mode, side)
        /\ strayed' = strayed \cup Strays(mode, {side})
        /\ UNCHANGED <<pc, status, content, hashes, copies, touched, retouched>>
    BY <1>17 DEF FixtureLoads, Put, bookVars
  <2>2. Strays(mode, {side}) \in SUBSET Places
    BY DEF Strays, Places, Copies
  <2>3. \A f \in Files : File(f) \notin Strays(mode, {side})
    BY PlacesApart DEF Strays
  <2>4. \A m \in ModeNames, s \in Sides :
          <<m, s>> \in Strays(mode, {side}) => Off(m, s) /\ Put(m, s)
    BY <2>1 DEF Strays, Off
  <2>5. AheadUnrun'
    BY <2>1 DEF AheadUnrun, Ahead
  <2> QED
    BY <2>1, <2>2, <2>3, <2>4, <2>5, RunKeepsHash
<1>18. CASE FixtureRunsChecker
  <2> DEFINE ran == {File(h) : h \in {g \in {"tool"} : Differs(g)}}
  <2>1. /\ pc = "fixture" /\ strayed' = strayed \cup ran
        /\ UNCHANGED <<pc, status, content, hashes, copies, touched, retouched>>
    BY <1>18 DEF FixtureRunsChecker, Runs, File, Differs, bookVars
  <2>2. ran \in SUBSET Places
    BY DEF File, Places, Files
  <2>3. \A f \in Files : File(f) \in ran => Differs(f)
    BY DEF File
  <2>4. \A m \in ModeNames, s \in Sides : <<m, s>> \notin ran
    BY PlacesApart
  <2>5. AheadUnrun'
    BY <2>1 DEF AheadUnrun, Ahead
  <2> HIDE DEF ran
  <2> QED
    BY <2>1, <2>2, <2>3, <2>4, <2>5, RunKeepsHash
<1> QED
  BY <1>3, <1>4, <1>6, <1>7, <1>8, <1>9, <1>10, <1>11, <1>12, <1>13, <1>14, <1>15, <1>16, <1>17, <1>18
     DEF Next, Validator, Subprocess, Edit

-----------------------------------------------------------------------------
(* The theorems. *)

ValidationInv == BookTypeOK /\ TraceInv /\ SeenInv /\ HashInv

LEMMA InvHolds == Spec => []ValidationInv
<1>1. Init => ValidationInv
  BY InitTypes, InitSeen, InitHash, TraceStartHolds DEF Init, ValidationInv
<1>2. ValidationInv /\ [Next]_vars => ValidationInv'
  BY NextTypes, NextTrace, NextSeen, NextHash DEF ValidationInv
<1> QED
  BY <1>1, <1>2, PTL DEF Spec

\* The types, and that the tracer lets no call through beyond its cap.
THEOREM TypesHold == Spec => []TypeOK
<1>1. ValidationInv => TypeOK
  <2> SUFFICES ASSUME ValidationInv PROVE TypeOK
    OBVIOUS
  <2>1. /\ calls \in [Sides -> Nat] /\ calls["before"] + calls["after"] <= CallCap
        /\ pairs \in Nat /\ pairs <= calls["before"] + calls["after"] /\ mismatches \in 0..pairs
        /\ CallCap \in Nat
    BY TraceAssumption DEF ValidationInv, TraceInv, TraceTypeOK
  <2>2. calls["before"] \in 0..CallCap /\ calls["after"] \in 0..CallCap
    BY <2>1 DEF Sides
  <2>3. calls \in [Sides -> 0..CallCap] /\ pairs \in 0..CallCap
    BY <2>1, <2>2 DEF Sides
  <2>4. unique \subseteq Inputs
    BY DEF ValidationInv, TraceInv, TraceCounts
  <2> QED
    BY <2>1, <2>3, <2>4 DEF ValidationInv, BookTypeOK, TypeOK, Steps, Verdicts
<1> QED
  BY <1>1, InvHolds, PTL

\* The tracer's counters, queues and witness agree with the calls it saw,
\* whatever their number, order and outputs.
THEOREM TracerAgrees == Spec => []TraceAgreesWithLog
<1>1. ValidationInv => TraceAgreesWithLog
  BY TraceInvAgrees DEF ValidationInv
<1> QED
  BY <1>1, InvHolds, PTL

\* A candidate is accepted only after enough calls of every mode, agreement of
\* the library with itself, and a difference for every planted defect.
THEOREM AcceptedIsEarned == Spec => []AcceptedSawEveryDefect
<1>1. ValidationInv => AcceptedSawEveryDefect
  <2> SUFFICES ASSUME ValidationInv, status = "accepted" PROVE AcceptedSawEveryDefect
    BY DEF AcceptedSawEveryDefect
  <2>1. \A i \in DOMAIN Modes : Proven(Modes[i])
    BY DEF ValidationInv, SeenInv
  <2>2. 1 \in DOMAIN Modes /\ 2 \in DOMAIN Modes
    BY ModesFacts
  <2>3. observed["identity"] = "agree" /\ observed["baseline"] \in {"agree", "differ"}
    BY <2>1, <2>2, ModesFacts DEF Proven
  <2>4. ASSUME NEW mode \in ControlNames
        PROVE  observed[mode] = "differ"
    <3>1. PICK j \in DOMAIN Controls : mode = Controls[j]
      BY DEF ControlNames
    <3>2. j + 2 \in DOMAIN Modes /\ j + 2 > 2 /\ (j + 2) - 2 = j
      BY ModesFacts
    <3>3. Modes[j + 2] = mode
      BY <3>1, <3>2, ModesFacts
    <3> QED
      BY <2>1, <3>2, <3>3 DEF Proven
  <2> QED
    BY <2>3, <2>4 DEF AcceptedSawEveryDefect
<1> QED
  BY <1>1, InvHolds, PTL

\* What ran during an accepted validation, the checker, the fixture and every copy
\* that either of them loads, is what was hashed, unless the place or the file it
\* copies was rewritten twice (bytes put back before the digests are read).
THEOREM AcceptedIsWhatRan == Spec => []AcceptedRanHashedBytes
<1>1. ValidationInv => AcceptedRanHashedBytes
  BY DEF ValidationInv, HashInv, AcceptedRanHashedBytes
<1> QED
  BY <1>1, InvHolds, PTL
=============================================================================
