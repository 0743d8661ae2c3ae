---------------------------- MODULE PolicyRetrieval ----------------------------
(***************************************************************************)
(* Grounding (app/agents/research.py, app/rag): which policy sections a    *)
(* case needs, which ones a search and one repair search bring, and which  *)
(* ones a decision cites.  The ranking is left open: a search may return   *)
(* any sections, as many as it was asked for at most.  Only sections that  *)
(* the rules can tell apart have names; `Others' stands for the rest.      *)
(***************************************************************************)
EXTENDS PayablesRules, ReceivablesRules, Sequences

CONSTANTS
    Others,       \* sections no rule names
    InitialHits,  \* the hits of the first search, min(5, top_k)
    TopK,         \* the hits that are kept, top_k
    CiteLimit     \* the sections a decision cites, 4

ASSUME RetrievalAssumption ==
    /\ InitialHits \in Nat \ {0} /\ TopK \in Nat /\ CiteLimit \in Nat
    /\ InitialHits <= TopK

IsInvoice(c) == c.type = "invoice"

\* The section on the vendor or the customer; exact: the listed name itself.
PartySection(c) ==
    IF IsInvoice(c) THEN (IF c.exact /\ c.vendor # None THEN {c.vendor} ELSE {})
    ELSE IF c.customer # None THEN {c.customer} ELSE {}

\* A marker such as "overdue days: 22" is found in front of further digits, too.
Begins(number, marker) ==
    number # None /\ \E power \in {1, 10, 100} : number \div power = marker

\* Slip: the purchase-order policy is looked up only when there is an order.
InferredWithOrder(c) ==
    {"AP-APPROVAL-001", "AP-POLICY-003"}
      \cup Flag("po_number" \in c.filled, "AP-APPROVAL-002")
      \cup Flag(c.duplicate = "excerpt", "AP-APPROVAL-003")

InferredForInvoice(c) ==
    {"AP-APPROVAL-001", "AP-POLICY-003"}
      \cup Flag("po_number" \notin c.filled, "AP-APPROVAL-002")
      \cup Flag(c.duplicate = "excerpt", "AP-APPROVAL-003")

InferredForEmail(c) ==
    {"AR-ESCALATION-001"} \cup
    IF c.type = "payment_confirmation" THEN {"AR-ESCALATION-002", "AR-TEMPLATE-004"}
    ELSE IF Begins(c.reminders, 2) \/ Begins(c.days, 22) \/ Begins(c.days, 45)
         THEN {"AR-TEMPLATE-003"}
    ELSE {"AR-TEMPLATE-001"}

\* infer_required_policy_source_ids
Inferred(c) ==
    (IF IsInvoice(c) THEN InferredForInvoice(c) ELSE InferredForEmail(c))
      \cup PartySection(c)

\* The sections of the rules a decision rests on
PayablesSection == {"AP-APPROVAL-001", "AP-APPROVAL-002", "AP-APPROVAL-003", "AP-POLICY-003"}
ReceivablesSection == {"AR-ESCALATION-001", "AR-ESCALATION-002", "AR-TEMPLATE-001",
                       "AR-TEMPLATE-002", "AR-TEMPLATE-003", "AR-TEMPLATE-004"}

\* _required_ap_source_ids and _required_ar_source_ids without the party, in order.
RequiredForInvoice(codes) ==
    (IF Recommendation(codes) = "approve" \/ "approval_threshold" \in codes
     THEN <<"AP-APPROVAL-001">> ELSE <<>>)
      \o (IF "missing_po" \in codes THEN <<"AP-APPROVAL-002">> ELSE <<>>)
      \o (IF "duplicate_invoice" \in codes THEN <<"AP-APPROVAL-003">> ELSE <<>>)
      \o <<"AP-POLICY-003">>

RequiredForEmail(c) ==
    IF PaymentClaim(c) THEN <<"AR-ESCALATION-002", "AR-TEMPLATE-004">>
    ELSE CASE EscalationOf(c) = 1 -> <<"AR-ESCALATION-001", "AR-TEMPLATE-001">>
           [] EscalationOf(c) = 2 -> <<"AR-ESCALATION-001", "AR-TEMPLATE-002">>
           [] OTHER -> <<"AR-ESCALATION-001", "AR-TEMPLATE-003">>

Required(c, codes) ==
    (IF IsInvoice(c) THEN RequiredForInvoice(codes) ELSE RequiredForEmail(c))
      \o (IF PartySection(c) = {} THEN <<>>
          ELSE <<CHOOSE s \in PartySection(c) : TRUE>>)

\* _select_ordered_evidence, the required sections it selects.  The rest of the
\* citation is filled up with other hits.
Cited(required, hits) ==
    {required[i] : i \in {j \in DOMAIN required :
        /\ required[j] \in hits
        /\ Cardinality({k \in 1 .. j : required[k] \in hits}) <= CiteLimit}}

\* The vendors whose sections may be read for the case: its own under any
\* spelling, and any at all when the query names none of them.
VendorsRead(c) == IF c.vendor # None THEN {c.vendor} ELSE Vendors

\* extract_vendor_policy: the last hit it reads wins, so any of them may.
VendorSections(c, hits) ==
    IF hits \cap VendorsRead(c) = {} THEN {None} ELSE hits \cap VendorsRead(c)

\* The sections whose presence the rules can tell for the case.
Relevant(c) ==
    Others \cup Inferred(c)
      \cup IF IsInvoice(c)
           THEN VendorsRead(c) \cup Flag(c.duplicate # "no", "AP-APPROVAL-003")
           ELSE {RequiredForEmail(c)[i] : i \in DOMAIN RequiredForEmail(c)}

\* query_knowledge_index for the first search: the query always has words that
\* occur in the knowledge base.
FirstSearches(c) ==
    {h \in SUBSET Relevant(c) : h # {} /\ Cardinality(h) <= InitialHits}

\* _merge_hits: the first hits stay, the new ones follow as far as there is room.
Merges(initial, found) ==
    {kept \in SUBSET found :
        /\ initial \subseteq kept
        /\ Cardinality(kept) = Lesser(TopK, Cardinality(found))}

Missing(c, hits) == Inferred(c) \ hits

================================================================================
