---------------------------- MODULE MCWorkflowEngine ----------------------------
(* The workflow over invoices and e-mails around every limit of the rules.    *)
EXTENDS WorkflowEngine, TLC

CONSTANTS blue, lumina, aster, net15, net30, net45

\* kb/vendor_terms.md, VENDOR-002 and VENDOR-003: the two that do not have the
\* limit an invoice without a vendor section has.
MCMaster ==
    blue :> [terms |-> net45, poAbove |-> 5000, exempt |-> FALSE] @@
    lumina :> [terms |-> net15, poAbove |-> None, exempt |-> TRUE]

\* A complete invoice in its vendor's terms, with or without an order.
CleanInvoice(v, a, ordered) ==
    [type |-> "invoice",
     filled |-> IF ordered THEN FieldName ELSE FieldName \ {"po_number"},
     listed |-> {}, amount |-> a, vendor |-> v, exact |-> v # None,
     terms |-> IF v = None THEN None ELSE Master[v].terms, items |-> "equal",
     duplicate |-> "no", void |-> FALSE]

\* What may be wrong with it besides.
Flawed(i) ==
    {i, [i EXCEPT !.exact = FALSE], [i EXCEPT !.void = TRUE],
     [i EXCEPT !.filled = @ \ {"vendor_name"}, !.vendor = None, !.exact = FALSE],
     [i EXCEPT !.filled = @ \ {"amount"}, !.amount = None],
     [i EXCEPT !.items = "differ"], [i EXCEPT !.items = "none"]}
      \cup {[i EXCEPT !.filled = @ \ {f}] : f \in {"invoice_number", "due_date", "currency"}}
      \cup {[i EXCEPT !.terms = t] : t \in {None, net15, net30}}
      \cup {[i EXCEPT !.duplicate = d] : d \in {"excerpt", "warning"}}

Invoices ==
    {CleanInvoice(v, a, ordered) :
        v \in Vendors \cup {None}, a \in {-1, 3000, 3001, 5000, 5001}, ordered \in BOOLEAN}
      \cup UNION {Flawed(CleanInvoice(v, a, ordered)) :
        v \in Vendors \cup {None}, a \in {3000, 5001}, ordered \in BOOLEAN}

PlainEmail(days, reminders) ==
    [type |-> "overdue_email", filled |-> FieldName \ {"vendor_name", "po_number"},
     listed |-> {}, amount |-> 3000, customer |-> aster,
     days |-> days, reminders |-> reminders, claim |-> FALSE, dispute |-> FALSE]

Special(m) ==
    {m, [m EXCEPT !.type = "payment_confirmation"], [m EXCEPT !.claim = TRUE],
     [m EXCEPT !.dispute = TRUE], [m EXCEPT !.claim = TRUE, !.dispute = TRUE],
     [m EXCEPT !.customer = None],
     [m EXCEPT !.claim = TRUE, !.dispute = TRUE, !.filled = @ \ {"due_date"}]}
      \cup {[m EXCEPT !.filled = @ \ {f}] : f \in {"invoice_number", "due_date"}}

Emails ==
    {PlainEmail(d, r) : d \in {None, 7, 8, 21, 22, 45, 46}, r \in {None, 0, 1, 2, 3}}
      \cup UNION {Special(PlainEmail(d, r)) : d \in {None, 21, 46}, r \in {None, 1, 3}}

MCDocuments == Invoices \cup Emails

\* A model may answer with a clean invoice, say that a field it filled is
\* missing, make up an amount, or write a first reminder's data.
MCModelPayloads ==
    {CleanInvoice(blue, 3000, TRUE),
     [CleanInvoice(lumina, 5001, FALSE) EXCEPT !.listed = {"currency"}],
     CleanInvoice(blue, -1, TRUE), PlainEmail(7, 0)}

================================================================================
