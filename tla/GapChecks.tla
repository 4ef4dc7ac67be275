----------------------------- MODULE GapChecks ------------------------------
(***************************************************************************)
(* Supplemental native checks of a campaign (o2t/agent/gap_checks.py): the *)
(* state they add to it and what is derived from that state.               *)
(*                                                                         *)
(* The report job's JSON result names the formal cases that stay open      *)
(* ("gaps").  The agent selects a gap whose native libraries were built    *)
(* and stages candidate checkers for it; each validated candidate is one   *)
(* attempt.  The handlers, which also write the checkpoint, are actions of *)
(* Campaign.                                                               *)
(*                                                                         *)
(* records[j] is [status, hash, rev]; only the content of the report job's *)
(* output is looked into, by the constants Found and BadShape.             *)
(***************************************************************************)
EXTENDS Naturals, Sequences

CONSTANTS Jobs,
          Contents,      \* what an output file can hold
          ReportJob,     \* gap_checks.report_job
          GapNames,      \* names a report can list as unsettled
          Cases,         \* gap_checks.cases: the gaps with a native binding
          Natives,       \* case -> the jobs that build its native libraries
          Found,         \* content of the report -> the gaps it lists
          BadShape,      \* contents that are JSON, but not a list of cases
          MaxAttempts,   \* gap_checks.max_attempts
          GapRequired,   \* gap_checks.required
          NoGap          \* selected is None

ASSUME GapAssumption ==
  /\ ReportJob \in Jobs
  /\ Cases \subseteq GapNames
  /\ NoGap \notin GapNames
  /\ Natives \in [Cases -> SUBSET Jobs]
  /\ Found \in [Contents -> SUBSET GapNames]
  /\ BadShape \subseteq Contents
  /\ MaxAttempts \in Nat \ {0}
  /\ GapRequired \in BOOLEAN

VARIABLES attempts,   \* validated candidates, in order
          selected    \* the gap being worked on

Verdicts == {"accepted", "rejected"}

Reported(rec) == rec[ReportJob].status = "completed"

\* gaps() raises ValueError on a completed report of the wrong shape.
GapsRaise(rec) == Reported(rec) /\ rec[ReportJob].hash \in BadShape

Gaps(rec) == IF Reported(rec) THEN Found[rec[ReportJob].hash] ELSE {}

Available(rec, g) == g \in Cases /\ \A n \in Natives[g] : rec[n].status = "completed"

AvailableGaps(rec) == {g \in Gaps(rec) : Available(rec, g)}

AnyAccepted(att) == \E i \in DOMAIN att : att[i].verdict = "accepted"

GapStatus(rec, att) ==
  CASE ~Reported(rec)           -> "waiting"
    [] Reported(rec) /\ Gaps(rec) = {}
                                -> "not-applicable"
    [] Gaps(rec) # {} /\ AnyAccepted(att)
                                -> "accepted"
    [] Gaps(rec) # {} /\ ~AnyAccepted(att) /\ AvailableGaps(rec) = {}
                                -> "unavailable"
    [] AvailableGaps(rec) # {} /\ ~AnyAccepted(att) /\ Len(att) >= MaxAttempts
                                -> "exhausted"
    [] OTHER                    -> "open"

GapsComplete(rec, att) ==
  GapRequired => GapStatus(rec, att) \in {"accepted", "not-applicable"}

\* Faulty variant: one attempt is enough, whatever its verdict.
MustContinueOnce(rec, att) ==
  GapRequired /\ GapStatus(rec, att) = "open" /\ Len(att) = 0

MustContinue(rec, att) == GapRequired /\ GapStatus(rec, att) = "open"

AttemptsLeft == selected # NoGap /\ Len(attempts) < MaxAttempts
=============================================================================
