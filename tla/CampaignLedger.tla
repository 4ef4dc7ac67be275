--------------------------- MODULE CampaignLedger ---------------------------
(***************************************************************************)
(* What a campaign promises about the work it has recorded, however many   *)
(* sessions, crashes and resumes it took: a job settles at most once, and  *)
(* only after everything it requires completed; the gap-check attempts are *)
(* a log that only grows, up to its limit, and each entry was validated    *)
(* when the report and the libraries of its gap were complete.             *)
(***************************************************************************)
EXTENDS Naturals, Sequences

CONSTANTS Jobs, Requires, ReportJob, Natives, MaxAttempts

VARIABLES ledger,   \* job -> how it settled
          log       \* the attempts

Completed(S) == \A d \in S : ledger[d] = "completed"

Init == /\ ledger = [j \in Jobs |-> "none"]
        /\ log = <<>>

Settle(j) == /\ ledger[j] = "none"
             /\ Completed(Requires[j])
             /\ \E outcome \in {"completed", "failed"} :
                  ledger' = [ledger EXCEPT ![j] = outcome]
             /\ UNCHANGED log

Validate(a) == /\ Len(log) < MaxAttempts
               /\ Completed({ReportJob} \cup Natives[a.gap])
               /\ log' = Append(log, a)
               /\ UNCHANGED ledger

\* The new entry may be any attempt: it is the one at the end of log'.
Next == \/ \E j \in Jobs : Settle(j)
        \/ log' # <<>> /\ Validate(log'[Len(log')])

Spec == Init /\ [][Next]_<<ledger, log>>
=============================================================================
