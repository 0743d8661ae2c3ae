---------------------------- MODULE HumanReviewGate ----------------------------
(***************************************************************************)
(* The decision on a case (app/agents/decision.py, app/agents/editor.py),  *)
(* the gate that says whether a person must act on it                      *)
(* (app/orchestrator/agent_trace.py), and what the review queue makes of   *)
(* the two (app/orchestrator/engine.py).                                   *)
(***************************************************************************)
EXTENDS PolicyRetrieval

Severity == {Level[i] : i \in DOMAIN Level}

DecisionRecord ==
    [outcome : {"approve", "review", "reject", "missing_info"} \cup Severity,
     confidence : 45 .. 99, review : BOOLEAN, language : Draft \cup {None},
     cited : SUBSET (PayablesSection \cup ReceivablesSection \cup Vendors \cup Customers)]

GateRecord ==
    [required : BOOLEAN, blocking : BOOLEAN,
     status : {"Approved", "Returned for Info", "Rejected", "Needs Review", "Escalated"}]

\* decide_accounts_payable
PayablesDecision(c, hits, section) ==
    LET codes == Anomalies(c, PolicyOf(section))
        confidence == PayablesConfidence(codes, Cardinality(hits))
    IN  [outcome |-> Recommendation(codes), confidence |-> confidence,
         review |-> PayablesReview(codes, confidence), language |-> None,
         cited |-> Cited(Required(c, codes), hits)]

\* draft_accounts_receivable
ReceivablesDecision(c, hits) ==
    LET confidence == ReceivablesConfidence(c, Cardinality(hits))
    IN  [outcome |-> Level[EscalationOf(c)], confidence |-> confidence,
         review |-> ReceivablesReview(c, confidence), language |-> Language(c),
         cited |-> Cited(Required(c, {}), hits)]

\* _is_blocking_review
Blocking(d, hits) ==
    \/ hits = {} \/ d.confidence < 75
    \/ d.outcome \in {"reject", "missing_info", "high"}

\* _review_queue_status
QueueStatus(d, required) ==
    IF ~required THEN "Approved"
    ELSE IF d.outcome = "missing_info" THEN "Returned for Info"
    ELSE IF d.outcome = "reject" THEN "Rejected"
    ELSE IF d.outcome = "high" THEN "Escalated"
    ELSE "Needs Review"

\* build_human_review_gate: the reason codes ask for a review, but the
\* decision has the last word on it.
Gate(d, hits) ==
    [required |-> d.review,
     blocking |-> d.review /\ Blocking(d, hits),
     status |-> QueueStatus(d, d.review)]

================================================================================
