----------------------------- MODULE PayablesRules -----------------------------
(***************************************************************************)
(* The accounts-payable rules: anomalies (app/agents/policy.py), and the   *)
(* recommendation, its confidence and whether a person must look at it     *)
(* (app/agents/decision.py).  Amounts are whole units of currency,         *)
(* confidences are hundredths.                                             *)
(***************************************************************************)
EXTENDS FinanceCase, FiniteSets

CONSTANT Master  \* kb/vendor_terms.md: [Vendors -> VendorPolicy]

\* VendorPolicy; `poAbove' is po_required_above.
VendorPolicy == [terms : Terms \cup {None}, poAbove : Nat \cup {None},
                 exempt : BOOLEAN]

ASSUME MasterAssumption == Master \in [Vendors -> VendorPolicy]

DefaultPolicy == [terms |-> None, poAbove |-> None, exempt |-> FALSE]

\* extract_vendor_policy for the vendor section it ends up with.
PolicyOf(section) == IF section = None THEN DefaultPolicy ELSE Master[section]

RequiresPurchaseOrder(amount, policy) ==
    /\ ~policy.exempt
    /\ amount # None =>
         amount > (IF policy.poAbove = None THEN 3000 ELSE policy.poAbove)

\* _is_ap_field_missing
IsMissing(c, field) == field \in c.listed \/ field \notin c.filled

\* REQUIRED_AP_FIELD_CHECKS
MissingCode == [vendor_name    |-> "missing_vendor_name",
                invoice_number |-> "missing_invoice_number",
                due_date       |-> "missing_due_date",
                amount         |-> "missing_amount",
                currency       |-> "missing_currency"]
MissingCodes == {MissingCode[f] : f \in DOMAIN MissingCode} \cup {"missing_po"}

TermsMismatch(c, policy) ==
    /\ c.terms # None /\ policy.terms # None
    /\ c.terms # policy.terms

Flag(condition, code) == IF condition THEN {code} ELSE {}

MissingFields(c) == {MissingCode[f] : f \in {g \in DOMAIN MissingCode : IsMissing(c, g)}}

\* assess_accounts_payable: the codes of the anomalies.
Anomalies(c, policy) ==
    MissingFields(c)
      \cup Flag(/\ RequiresPurchaseOrder(c.amount, policy)
                /\ "po_number" \notin c.filled, "missing_po")
      \cup Flag(c.duplicate # "no", "duplicate_invoice")
      \cup Flag(TermsMismatch(c, policy), "terms_mismatch")
      \cup Flag(c.void, "invalid_invoice")
      \cup Flag(c.amount # None /\ c.items = "differ", "amount_mismatch")
      \cup Flag(c.amount # None /\ c.amount > 5000, "approval_threshold")

\* The number of reason codes: each anomaly has one, a terms mismatch two.
ReasonCount(codes) ==
    Cardinality(codes) + IF "terms_mismatch" \in codes THEN 1 ELSE 0

\* _resolve_ap_recommendation
Recommendation(codes) ==
    IF "invalid_invoice" \in codes THEN "reject"
    ELSE IF codes \cap MissingCodes # {} THEN "missing_info"
    ELSE IF codes \cap {"duplicate_invoice", "terms_mismatch",
                        "approval_threshold"} # {} THEN "review"
    ELSE "approve"

Lesser(a, b) == IF a < b THEN a ELSE b
Greater(a, b) == IF a > b THEN a ELSE b

\* round(base, 2), clamped
Clamped(hundredths) == Greater(45, Lesser(hundredths, 99))

\* _estimate_confidence; `hits' is the number of retrieved sections.
PayablesConfidence(codes, hits) ==
    Clamped(92 - Lesser(6 * Cardinality(codes), 18)
               - (IF hits < 2 THEN 8 ELSE 0)
               - Lesser(ReasonCount(codes), 4)
               + (IF Recommendation(codes) = "approve" THEN 2 ELSE 0))

\* _requires_ap_human_review: an anomaly of medium or high severity does.
PayablesReview(codes, confidence) ==
    \/ confidence < 75
    \/ Recommendation(codes) # "approve"
    \/ codes \ {"approval_threshold"} # {}

================================================================================
