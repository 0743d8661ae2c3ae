----------------------------- MODULE WorkflowEngine -----------------------------
(***************************************************************************)
(* One run of the finance workflow, as the worker's processor starts it    *)
(* (app/worker/processor.py, app/orchestrator/engine.py): the upload is    *)
(* staged, read, extracted, routed, grounded, decided and gated, the       *)
(* staged copy is removed, and the processor has a result, a permanent     *)
(* failure, or an exception that the worker retries.                       *)
(***************************************************************************)
EXTENDS ExtractorAgent, HumanReviewGate

CONSTANT MaxPages  \* pages of a PDF, for TLC

VARIABLES
    staged,   \* the copy under a temporary name: "no", "partial" or "whole"
    initial,  \* the hits of a first search that is not enough
    hits,     \* the hits that are kept
    grounded, \* the repair report's success
    section,  \* the vendor section that was read last
    decision,
    gate,
    outcome   \* how `process' ends

engineVars == <<staged, initial, hits, grounded, section, decision, gate, outcome>>
vars == <<phase, extractorVars, engineVars>>

Phase == {"accept", "stage", "read", "extract", "request", "repair", "validate",
          "route", "search", "heal", "decide", "review", "clean", "raised", "done"}

TypeOK ==
    /\ phase \in Phase
    /\ asked \in {None, "json_schema", "json_object"} /\ text \in BOOLEAN
    /\ payload \in Payload \cup {None}
    /\ attempt \in 0 .. MaxRetries /\ calls \in Nat
    /\ lastMode \in {None, "heuristic", "llm", "llm_json_object_fallback"}
    /\ history \in Seq(Metadata) /\ recorded \in Seq(Metadata)
    /\ staged \in {"no", "partial", "whole"}
    /\ phase \in {"heal", "decide", "review"} =>
         initial \subseteq Relevant(payload) /\ hits \subseteq Relevant(payload)
    /\ grounded \in BOOLEAN /\ section \in Vendors \cup {None}
    /\ decision \in DecisionRecord \cup {None} /\ gate \in GateRecord \cup {None}
    /\ outcome \in {None, "result", "permanent", "retry"}

Init ==
    /\ phase = "accept"
    /\ ExtractorInit
    /\ staged = "no" /\ initial = {} /\ hits = {} /\ grounded = FALSE
    /\ section = None /\ decision = None /\ gate = None /\ outcome = None

\* InvoiceFlowDocumentProcessor.process: the content type is checked first.
Accept ==
    /\ phase = "accept"
    /\ \/ phase' = "stage" /\ UNCHANGED outcome
       \/ phase' = "done" /\ outcome' = "permanent"
    /\ UNCHANGED <<extractorVars, staged, initial, hits, grounded, section, decision, gate>>

\* run_workflow_from_upload: a copy whose write fails is not removed again.
Stage ==
    /\ phase = "stage"
    /\ \/ staged' = "whole" /\ phase' = "read" /\ UNCHANGED outcome
       \/ staged' = "partial" /\ phase' = "done" /\ outcome' = "retry"
    /\ UNCHANGED <<extractorVars, initial, hits, grounded, section, decision, gate>>

\* How a page of a PDF got its text (_read_pdf): from the page itself, from the
\* images on it when the page has none, or not at all.
PageMethods == UNION {[1 .. n -> {"native", "ocr", "none"}] : n \in 0 .. MaxPages}

\* The knowledge index is loaded, or built and saved, then read_document_text.
\* An IngestionError is permanent for the processor, any other exception, of a
\* reader or of the index, is retried.
Read ==
    /\ phase = "read"
    /\ \/ /\ \/ \E pages \in PageMethods : text' = (\E i \in DOMAIN pages : pages[i] # "none")
             \/ text' \in BOOLEAN  \* a text file, or an image after OCR
          /\ phase' = "extract" /\ UNCHANGED outcome
       \/ /\ phase' = "raised" /\ outcome' \in {"permanent", "retry"}
          /\ UNCHANGED text
    /\ UNCHANGED <<asked, payload, attempt, lastMode, history, recorded, calls,
                   staged, initial, hits, grounded, section, decision, gate>>

Extract == ExtractorStep /\ UNCHANGED engineVars

\* route_workflow depends on the document type alone.
Route ==
    /\ phase = "route" /\ phase' = "search"
    /\ UNCHANGED <<extractorVars, engineVars>>

\* assemble_grounded_policy_context, the first search.
Search ==
    /\ phase = "search"
    /\ \E first \in FirstSearches(payload) :
         IF Missing(payload, first) = {}
         THEN hits' = first /\ grounded' = TRUE /\ phase' = "decide" /\ UNCHANGED initial
         ELSE initial' = first /\ phase' = "heal" /\ UNCHANGED <<hits, grounded>>
    /\ UNCHANGED <<extractorVars, staged, section, decision, gate, outcome>>

\* Slip: the report looks at what was found, not at what was kept.
HealReportsFound ==
    /\ phase = "heal"
    /\ \E repair \in SUBSET Relevant(payload) :
         /\ Cardinality(repair) <= Greater(TopK, Cardinality(Inferred(payload)))
         /\ hits' \in Merges(initial, initial \cup repair)
         /\ grounded' = (Missing(payload, initial \cup repair) = {})
    /\ phase' = "decide" /\ initial' = {}
    /\ UNCHANGED <<extractorVars, staged, section, decision, gate, outcome>>

\* repair_retrieval_if_needed: one search more, whatever it brings.
Heal ==
    /\ phase = "heal"
    /\ \E repair \in SUBSET Relevant(payload) :
         /\ Cardinality(repair) <= Greater(TopK, Cardinality(Inferred(payload)))
         /\ hits' \in Merges(initial, initial \cup repair)
         /\ grounded' = (Missing(payload, hits') = {})
    /\ phase' = "decide" /\ initial' = {}
    /\ UNCHANGED <<extractorVars, staged, section, decision, gate, outcome>>

Decide ==
    /\ phase = "decide"
    /\ IF IsInvoice(payload)
       THEN \E s \in VendorSections(payload, hits) :
              /\ section' = s
              /\ decision' = PayablesDecision(payload, hits, s)
       ELSE /\ UNCHANGED section
            /\ decision' = ReceivablesDecision(payload, hits)
    /\ phase' = "review"
    /\ UNCHANGED <<extractorVars, staged, initial, hits, grounded, gate, outcome>>

Review ==
    /\ phase = "review"
    /\ gate' = Gate(decision, hits)
    /\ outcome' = "result" /\ phase' = "clean"
    /\ UNCHANGED <<extractorVars, staged, initial, hits, grounded, section, decision>>

\* A stage after the extraction raises: a type there is no route for, an index
\* that lacks what a search needs, a reminder about an infinite amount (int(inf)),
\* a decision or a gate that its schema rejects.
StageRaises ==
    /\ phase \in {"route", "search", "heal", "decide", "review"}
    /\ phase' = "raised"
    /\ UNCHANGED <<extractorVars, engineVars>>

\* An exception passes the finally clause; what the reader has not classified
\* is retried.
Raise ==
    /\ phase = "raised" /\ phase' = "clean"
    /\ outcome' = IF outcome = None THEN "retry" ELSE outcome
    /\ UNCHANGED <<extractorVars, staged, initial, hits, grounded, section, decision, gate>>

\* Slip: an exception passes without the clean-up.
CleanAfterResult ==
    /\ phase = "clean" /\ phase' = "done"
    /\ staged' = IF outcome = "result" THEN "no" ELSE staged
    /\ UNCHANGED <<extractorVars, initial, hits, grounded, section, decision, gate, outcome>>

Clean ==
    /\ phase = "clean" /\ phase' = "done" /\ staged' = "no"
    /\ UNCHANGED <<extractorVars, initial, hits, grounded, section, decision, gate, outcome>>

Next ==
    \/ Accept \/ Stage \/ Read \/ Extract \/ Route \/ Search \/ Heal
    \/ Decide \/ Review \/ StageRaises \/ Raise \/ Clean

\* The thread goes on, and no stage has to raise.
Progress ==
    \/ Accept \/ Stage \/ Read \/ (ExtractorGoes /\ UNCHANGED engineVars)
    \/ Route \/ Search \/ Heal \/ Decide \/ Review \/ Raise \/ Clean

Spec == Init /\ [][Next]_vars /\ WF_vars(Progress)

--------------------------------------------------------------------------------

Finished == outcome = "result"
Listed == payload.exact /\ payload.vendor # None

\* The vendor's own terms do without an order: exempt services, or an amount up
\* to the vendor's limit (kb/vendor_terms.md), 3,000 where none is given.  The
\* two documents contradict each other here: AP-APPROVAL-002 has 3,000 for all
\* vendors, VENDOR-002 has 5,000, and the code follows the vendor's terms.
PurchaseOrderWaived ==
    \/ Master[payload.vendor].exempt
    \/ payload.amount <= (IF Master[payload.vendor].poAbove = None THEN 3000
                          ELSE Master[payload.vendor].poAbove)

\* An invoice of a listed vendor whose policy sections were all found is
\* released without a person only if it passes the checks of AP-POLICY-003
\* against that vendor's master data, and its lines add up.  Between the rule and
\* the release lie two searches, the choice of a section, the anomalies and the
\* gate.  The order is the one that the vendor's own terms ask for: an invoice of
\* VENDOR-002 of 3,001 to 5,000 is released without one, which AP-APPROVAL-002
\* does not allow, so the property is not AP-APPROVAL-002.
ApprovalMeetsPolicy ==
    Finished /\ IsInvoice(payload) /\ Listed /\ grounded /\ gate.status = "Approved" =>
      /\ RequiredFields("invoice") \subseteq payload.filled
      /\ payload.amount \in 0 .. 5000
      /\ "po_number" \in payload.filled \/ PurchaseOrderWaived
      /\ payload.terms \in {None, Master[payload.vendor].terms}
           \/ Master[payload.vendor].terms = None
      /\ payload.duplicate = "no" /\ ~payload.void /\ payload.items # "differ"

\* A purchase order stands behind every approval above 3,000, or the terms of the
\* vendor itself do without it, where every section looked for was found:
\* kb/approval_matrix.md, AP-APPROVAL-002, with the limits of kb/vendor_terms.md,
\* so weaker than AP-APPROVAL-002 for a vendor with a limit of its own.
PurchaseOrderRule ==
    Finished /\ grounded /\ IsInvoice(payload) /\ decision.outcome = "approve"
             /\ payload.amount > 3000 /\ "po_number" \notin payload.filled =>
      payload.vendor # None /\ PurchaseOrderWaived

\* A reminder that nobody looks at is a first or a second one to a customer who
\* has neither claimed a payment nor disputed the invoice, about an invoice whose
\* number and due date are known: AR-ESCALATION-001, AR-POLICY-001.
AutomaticReminderIsMild ==
    Finished /\ ~IsInvoice(payload) /\ ~gate.required =>
      /\ ~PaymentClaim(payload) /\ ~payload.dispute
      /\ Number(payload.days) <= 21 /\ Number(payload.reminders) <= 1
      /\ {"invoice_number", "due_date"} \subseteq payload.filled
      /\ decision.language \in {"first reminder", "second reminder"}

\* A customer who says that the invoice is paid gets no collections language and
\* no escalation, however late the payment; a person sees the answer first:
\* AR-ESCALATION-002.
ClaimIsNeverChased ==
    Finished /\ ~IsInvoice(payload) /\ PaymentClaim(payload) =>
      /\ decision.language = "proof request"
      /\ gate.status = "Needs Review"

\* The decision cites the sections it was required to find and rests on.  An
\* invoice with a missing order, a duplicate and an amount above the threshold
\* has one section too many, and a reminder may rest on a template that was not
\* looked for.
DecisionCitesItsRules ==
    Finished /\ grounded =>
      CASE IsInvoice(payload) ->
             LET needed == Required(payload, Anomalies(payload, PolicyOf(section)))
             IN  {needed[i] : i \in DOMAIN needed \cap 1 .. CiteLimit}
                   \subseteq decision.cited \cup
                     (IF payload.duplicate = "warning" THEN {"AP-APPROVAL-003"} ELSE {})
        [] payload.type = "payment_confirmation" ->
             {"AR-ESCALATION-002", "AR-TEMPLATE-004"} \cup PartySection(payload)
               \subseteq decision.cited
        [] OTHER ->
             PartySection(payload) \cup
               (IF PaymentClaim(payload) THEN {} ELSE {"AR-ESCALATION-001"})
               \subseteq decision.cited

\* The level is never milder than the trigger that the days give, except for a
\* payment claim, and for exactly 45 days, which one comparison counts as high
\* and the other as medium.
LevelAgreesWithTriggers ==
    Finished /\ ~IsInvoice(payload) /\ ~PaymentClaim(payload)
             /\ payload.days \notin {None, 45} =>
      EscalationOf(payload) >= DaysTrigger(payload.days)

\* Without a model, a document that has no text goes back for information, as a
\* blocking review.
UnreadableIsReturned ==
    Finished /\ ~text /\ lastMode = "heuristic" =>
      gate.blocking /\ gate.status = "Returned for Info"

\* The audit trail of a result shows every answer of the model, and the mode it
\* names tells whether the fallback was used.
AuditIsComplete ==
    Finished =>
      /\ recorded = history
      /\ (lastMode = "llm_json_object_fallback") <=>
           (\E i \in DOMAIN recorded : recorded[i].fallback)
      /\ lastMode = "heuristic" <=> calls = 0

\* A copy that was staged in full is gone when the run is over, whatever was
\* raised in between.
StagedCopyIsRemoved == phase = "done" => staged # "whole"

\* Every run comes to an end.
WorkflowEnds == <>(phase = "done")

================================================================================
