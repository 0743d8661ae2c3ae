------------------------------ MODULE FinanceCase ------------------------------
(***************************************************************************)
(* The extraction schema (app/schemas/invoice.py): one invoice or one      *)
(* e-mail about an unpaid invoice, as the rules of the workflow see it.    *)
(* A text is what the rules can tell of it: a field is filled or not, a    *)
(* marker is found in the excerpt or not, terms are compared as values.    *)
(***************************************************************************)
EXTENDS Integers

CONSTANTS
    None,       \* Python's None
    Vendors,    \* the vendors of kb/vendor_terms.md, and the sections on them
    Customers,  \* the customers of the same file
    Terms       \* payment terms

ASSUME NoneAssumption ==
    None \notin {"heuristic", "json_schema", "json_object", "result"}

\* DocumentType
EmailType == {"overdue_email", "payment_confirmation"}
DocumentType == {"invoice"} \cup EmailType

FieldName == {"vendor_name", "customer_name", "invoice_number", "due_date",
              "amount", "currency", "po_number"}

\* An invoice.  `exact': the vendor's name is the listed one, and not a longer
\* one that contains it.  `items' compares the sum of the line totals with the
\* amount; `duplicate' says where a duplicate marker was found; `void' that the
\* excerpt calls the invoice void or cancelled.  `listed' is missing_fields.
Invoice ==
    [type : {"invoice"}, filled : SUBSET FieldName, listed : SUBSET FieldName,
     amount : Int \cup {None}, vendor : Vendors \cup {None}, exact : BOOLEAN,
     terms : Terms \cup {None}, items : {"none", "equal", "differ"},
     duplicate : {"no", "excerpt", "warning"}, void : BOOLEAN]

\* An e-mail; `days' and `reminders' are the numbers its excerpt gives,
\* `claim' and `dispute' the markers found in it.
Email ==
    [type : EmailType, filled : SUBSET FieldName, listed : SUBSET FieldName,
     amount : Int \cup {None}, customer : Customers \cup {None},
     days : Nat \cup {None}, reminders : Nat \cup {None},
     claim : BOOLEAN, dispute : BOOLEAN]

\* InvoiceExtraction, before validation; an amount is filled when it is not None.
Payload == {p \in Invoice \cup Email : "amount" \in p.filled <=> p.amount # None}

\* _compute_missing_fields
RequiredFields(type) ==
    {"invoice_number", "amount", "currency", "due_date",
     IF type = "invoice" THEN "vendor_name" ELSE "customer_name"}

\* _normalize_payload: the fields computed to be missing join the listed ones.
Normalized(p) == [p EXCEPT !.listed = @ \cup (RequiredFields(p.type) \ p.filled)]

\* The schema: a number in `amount' is not negative.
SchemaValid(p) == p.amount # None => p.amount >= 0

\* What the heuristics make of a document without text.
BlankInvoice ==
    [type |-> "invoice", filled |-> {}, listed |-> {}, amount |-> None,
     vendor |-> None, exact |-> FALSE, terms |-> None, items |-> "none",
     duplicate |-> "no", void |-> FALSE]

================================================================================
