---------------------------- MODULE ReceivablesRules ----------------------------
(***************************************************************************)
(* The accounts-receivable rules: escalation and its triggers              *)
(* (app/agents/policy.py), and the follow-up draft, its confidence and     *)
(* whether a person must look at it (app/agents/editor.py).                *)
(***************************************************************************)
EXTENDS FinanceCase

\* EscalationLevel, in order
Level == <<"none", "low", "medium", "high">>

\* A missing number counts as 0 (`or 0').
Number(n) == IF n = None THEN 0 ELSE n

\* is_payment_claim_case
PaymentClaim(c) == c.type = "payment_confirmation" \/ c.claim

\* Slip: a payment claim is looked at after the days.
EscalationClaimLast(days, reminders, claim) ==
    CASE days > 45 \/ reminders >= 3 -> 4
      [] days <= 45 /\ reminders < 3 /\ (days >= 22 \/ reminders >= 2) -> 3
      [] OTHER -> IF days >= 8 \/ reminders >= 1 \/ claim THEN 2 ELSE 1

\* Slip: more than 22 days, where the trigger counts from the 22nd.
EscalationStrict(days, reminders, claim) ==
    IF claim THEN 2
    ELSE IF days > 45 \/ reminders >= 3 THEN 4
    ELSE IF days > 22 \/ reminders >= 2 THEN 3
    ELSE IF days >= 8 \/ reminders >= 1 THEN 2
    ELSE 1

\* resolve_escalation_level, as a position in Level.
Escalation(days, reminders, claim) ==
    IF claim THEN 2
    ELSE IF days > 45 \/ reminders >= 3 THEN 4
    ELSE IF days >= 22 \/ reminders >= 2 THEN 3
    ELSE IF days >= 8 \/ reminders >= 1 THEN 2
    ELSE 1

EscalationOf(c) ==
    Escalation(Number(c.days), Number(c.reminders), PaymentClaim(c))

\* The trigger codes assess_accounts_receivable gives for the days; high from 45 on.
DaysTrigger(days) ==
    IF days >= 45 THEN 4 ELSE IF days >= 22 THEN 3 ELSE IF days >= 8 THEN 2 ELSE 1

\* The trigger codes that a decision reads; the codes of days and reminders, of
\* the customer's tone and of the level itself are for the reader.
Triggers(c) ==
    (IF PaymentClaim(c) THEN {"payment_claim_without_proof"} ELSE {})
      \cup (IF Number(c.reminders) >= 3 THEN {"repeated_reminders_high"} ELSE {})
      \cup (IF c.dispute THEN {"dispute_language_detected"} ELSE {})
      \cup (IF "due_date" \in c.listed THEN {"missing_due_date"} ELSE {})
      \cup (IF "invoice_number" \in c.listed THEN {"missing_invoice_number"} ELSE {})

Incomplete(c) == Triggers(c) \cap {"missing_due_date", "missing_invoice_number"} # {}

\* _estimate_confidence of the editor; always within its bounds of 45 and 99.
ReceivablesConfidence(c, hits) ==
    90 + (IF PaymentClaim(c) THEN 3 ELSE 0)
       - (IF EscalationOf(c) >= 3 THEN 4 ELSE 0)
       - (IF hits < 2 THEN 8 ELSE 0)
       - (IF Incomplete(c) THEN 7 ELSE 0)
       - (IF c.dispute THEN 5 ELSE 0)
       - (IF Number(c.reminders) >= 3 THEN 3 ELSE 0)

\* Slip: a dispute lowers the confidence and does no more.
ReceivablesReviewUndisputed(c, confidence) ==
    confidence < 78 \/ PaymentClaim(c) \/ EscalationOf(c) >= 3 \/ Incomplete(c)

\* _requires_ar_human_review
ReceivablesReview(c, confidence) ==
    \/ confidence < 78
    \/ c.dispute \/ PaymentClaim(c)
    \/ EscalationOf(c) >= 3
    \/ Incomplete(c)

\* The language of a draft
Draft == {"first reminder", "second reminder", "demand", "ultimatum", "proof request"}

\* The four drafts and the one for a payment claim (_build_followup_draft and
\* _build_followup_draft_tts choose alike).
Language(c) ==
    IF PaymentClaim(c) THEN "proof request"
    ELSE <<"first reminder", "second reminder", "demand", "ultimatum">>[EscalationOf(c)]

================================================================================
