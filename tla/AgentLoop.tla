----------------------------- MODULE AgentLoop ------------------------------
(***************************************************************************)
(* The bounded agent loop of o2t/agent/loop.py (run_pass_agent) over the   *)
(* budgeted client of o2t/agent/llm.py.                                    *)
(*                                                                         *)
(* One turn asks the model for an action and runs its handler.  The loop   *)
(* stops when the handler concluded, at the step cap, when the budget is   *)
(* spent, or after two turns in a row that brought nothing: an invalid     *)
(* reply or an (action, args, observation) already seen.                   *)
(*                                                                         *)
(* A reply is abstracted to the signature its handling produces; what a    *)
(* handler does to the rest of the state is added by the module that       *)
(* extends this one.                                                       *)
(***************************************************************************)
EXTENDS Naturals, Sequences

CONSTANTS MaxSteps,   \* --max-steps-per-pass
          Budget      \* --budget, the calls one client may make

ASSUME LoopAssumption == MaxSteps \in Nat /\ Budget \in Nat

VARIABLES used,       \* client.used
          steps,      \* state.steps
          strikes,    \* state.invalid_strikes
          seen,       \* state.seen, the signatures already produced
          status,     \* state.status
          evidence    \* state.evidence, one kind of entry per turn

loopVars == <<used, steps, strikes, seen, status, evidence>>

EvidenceKind == {"invalid", "repeat", "new"}
Stopped == {"concluded", "budget-exhausted", "degraded", "step-cap"}

LoopStart == /\ steps = 0
             /\ strikes = 0
             /\ seen = {}
             /\ status = "running"
             /\ evidence = <<>>

\* Faulty variant: a call is made on a spent budget.
CallingUnbudgeted == status = "running" /\ steps < MaxSteps

Calling == status = "running" /\ steps < MaxSteps /\ used < Budget

\* client.call and state.steps += 1
Spend == used' = used + 1 /\ steps' = steps + 1

\* Faulty variant: one strike too many.
StrikeLate(after) == /\ strikes' = strikes + 1
                     /\ status' = IF strikes + 1 > 2 THEN "degraded" ELSE after

\* The second strike in a row degrades the loop, whatever the handler set.
Strike(after) == /\ strikes' = strikes + 1
                 /\ status' = IF strikes + 1 >= 2 THEN "degraded" ELSE after

\* No reply, a reply that is not JSON, an unknown action or invalid arguments.
InvalidReply == /\ Calling
                /\ Spend
                /\ Strike("running")
                /\ evidence' = Append(evidence, "invalid")
                /\ UNCHANGED seen

\* Faulty variant: the strikes are reset by any valid reply, before the
\* observation is compared with those seen.
TurnResetFirst(sig, after) ==
  /\ Calling
  /\ Spend
  /\ strikes' = IF sig \in seen THEN 1 ELSE 0
  /\ status' = after
  /\ evidence' = Append(evidence, IF sig \in seen THEN "repeat" ELSE "new")
  /\ seen' = seen \cup {sig}

\* A valid reply whose handling gave the signature sig and left the loop in
\* the status `after`.
Turn(sig, after) ==
  /\ Calling
  /\ Spend
  /\ IF sig \in seen
     THEN /\ Strike(after)
          /\ evidence' = Append(evidence, "repeat")
          /\ UNCHANGED seen
     ELSE /\ strikes' = 0
          /\ status' = after
          /\ evidence' = Append(evidence, "new")
          /\ seen' = seen \cup {sig}

\* Faulty variant: the cap is one step off, and `steps` never passes it.
StepCapOffByOne == /\ status = "running"
                   /\ steps > MaxSteps
                   /\ status' = "step-cap"
                   /\ UNCHANGED <<used, steps, strikes, seen, evidence>>

StepCap == /\ status = "running"
           /\ steps >= MaxSteps
           /\ status' = "step-cap"
           /\ UNCHANGED <<used, steps, strikes, seen, evidence>>

BudgetGone == /\ status = "running"
              /\ steps < MaxSteps
              /\ used >= Budget
              /\ status' = "budget-exhausted"
              /\ UNCHANGED <<used, steps, strikes, seen, evidence>>

-----------------------------------------------------------------------------
LoopTypeOK == /\ used \in Nat
              /\ steps \in Nat
              /\ strikes \in 0..2
              /\ status \in Stopped \cup {"running", "resumed-complete"}
              /\ evidence \in Seq(EvidenceKind)
=============================================================================
