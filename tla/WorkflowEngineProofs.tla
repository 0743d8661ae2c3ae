------------------------- MODULE WorkflowEngineProofs -------------------------
(***************************************************************************)
(* What a finished workflow promises, proved for every master file, every  *)
(* document, every answer of the model and every result of the two         *)
(* searches.  The stages hand their results on; the invariant says what    *)
(* each of them has made of the payload when the next one begins.          *)
(***************************************************************************)
EXTENDS WorkflowEngine, FiniteSetTheorems, SequenceTheorems, TLAPS

------------------------------------------------------------------------------
(* The invariant *)

\* A payload whose required fields are filled or listed as missing.
Prepared(p) == p \in Payload /\ RequiredFields(p.type) \ p.filled \subseteq p.listed

Extracted == phase \in {"route", "search", "heal", "decide", "review"} \/ Finished

PayloadInv ==
    /\ phase = "validate" => Prepared(payload)
    /\ Extracted => Prepared(payload) /\ SchemaValid(payload)

\* A document without text is a blank invoice to the heuristics.
BlankInv ==
    (phase = "validate" \/ Extracted) /\ ~text /\ lastMode = "heuristic" =>
        payload = Normalized(BlankInvoice)

\* Nothing has an outcome before the end, and an exception is no result.
OutcomeInv ==
    /\ phase \notin {"raised", "clean", "done"} => outcome = None
    /\ phase = "raised" => outcome # "result"

GroundedInv ==
    phase \in {"decide", "review"} \/ Finished =>
        (grounded => Missing(payload, hits) = {})

\* The decision is the one the rules make of the payload and the hits.
DecisionInv ==
    phase = "review" \/ Finished =>
        IF IsInvoice(payload)
        THEN /\ section \in VendorSections(payload, hits)
             /\ decision = PayablesDecision(payload, hits, section)
        ELSE decision = ReceivablesDecision(payload, hits)

GateInv == Finished => gate = Gate(decision, hits)

StagedInv ==
    /\ phase = "accept" => staged = "no"
    /\ StagedCopyIsRemoved

\* The mode, the calls and the two histories tell the same story.
Silent == lastMode = "heuristic" /\ calls = 0 /\ asked = None /\ recorded = <<>> /\ history = <<>>
Spoken ==
    /\ lastMode \in {"llm", "llm_json_object_fallback"} /\ calls > 0
    /\ recorded = history
    /\ lastMode = "llm_json_object_fallback" <=> \E i \in DOMAIN recorded : recorded[i].fallback
AuditInv ==
    /\ calls \in Nat /\ history \in Seq(Metadata) /\ recorded \in Seq(Metadata)
    /\ phase \in {"accept", "stage", "read", "extract"} =>
           calls = 0 /\ asked = None /\ recorded = <<>> /\ history = <<>>
    /\ phase = "request" => lastMode = "llm" /\ recorded = <<>> /\ history = <<>>
                            /\ asked \in {"json_schema", "json_object"}
    /\ phase = "repair" => Spoken
    /\ phase = "validate" \/ Extracted => Silent \/ Spoken

Inv ==
    /\ phase \in Phase
    /\ PayloadInv /\ BlankInv /\ OutcomeInv /\ GroundedInv /\ DecisionInv /\ GateInv
    /\ StagedInv /\ AuditInv

------------------------------------------------------------------------------
(* Payloads *)

\* None is no name of the program.
LEMMA NoneIsNoString ==
  /\ None # "result" /\ None # "heuristic"
  /\ None # "json_schema" /\ None # "json_object"
BY NoneAssumption

\* The fields of a payload, whatever its type.
LEMMA PayloadFields ==
  ASSUME NEW p \in Payload
  PROVE  /\ p.type \in DocumentType /\ p.filled \subseteq FieldName /\ p.listed \subseteq FieldName
         /\ p.amount \in Int \cup {None}
         /\ "amount" \in p.filled <=> p.amount # None
         /\ IsInvoice(p) => p \in Invoice
         /\ ~IsInvoice(p) => p \in Email
<1>1. CASE p \in Invoice
  BY <1>1 DEF Payload, Invoice, DocumentType, IsInvoice
<1>2. CASE p \in Email
  BY <1>2 DEF Payload, Email, EmailType, DocumentType, IsInvoice
<1>3. QED
  BY <1>1, <1>2 DEF Payload

\* More listed fields make a payload of a payload.
LEMMA ListedMore ==
  ASSUME NEW p \in Payload, NEW more \in SUBSET FieldName
  PROVE  /\ [p EXCEPT !.listed = @ \cup more] \in Payload
         /\ [p EXCEPT !.listed = @ \cup more].type = p.type
         /\ [p EXCEPT !.listed = @ \cup more].filled = p.filled
         /\ [p EXCEPT !.listed = @ \cup more].listed = p.listed \cup more
<1>1. CASE p \in Invoice
  <2>1. [p EXCEPT !.listed = @ \cup more] \in Invoice
    BY <1>1 DEF Invoice
  <2>2. QED
    BY <1>1, <2>1 DEF Invoice, Payload
<1>2. CASE p \in Email
  <2>1. [p EXCEPT !.listed = @ \cup more] \in Email
    BY <1>2 DEF Email
  <2>2. QED
    BY <1>2, <2>1 DEF Email, Payload
<1>3. QED
  BY <1>1, <1>2 DEF Payload

\* Required fields are fields.
LEMMA RequiredAreFields == \A t : RequiredFields(t) \subseteq FieldName
BY DEF RequiredFields, FieldName

\* Normalizing prepares a payload.
LEMMA NormalizedIsPrepared ==
  ASSUME NEW p \in Payload PROVE Prepared(Normalized(p))
BY ListedMore, RequiredAreFields DEF Normalized, Prepared

\* What a local repair makes of a payload is prepared.
LEMMA RepairIsPrepared ==
  ASSUME NEW p \in Payload, NEW q \in LocalRepairs(p) PROVE Prepared(q)
<1>1. PICK t \in DocumentType :
          q = Normalized([p EXCEPT !.listed = @ \cup (RequiredFields(t) \ p.filled)])
  BY DEF LocalRepairs
<1>2. [p EXCEPT !.listed = @ \cup (RequiredFields(t) \ p.filled)] \in Payload
  BY ListedMore, RequiredAreFields
<1>3. QED
  BY <1>1, <1>2, NormalizedIsPrepared

\* A blank invoice is a payload that satisfies the schema.
LEMMA BlankIsValid ==
  /\ BlankInvoice \in Payload
  /\ SchemaValid(Normalized(BlankInvoice))
<1>1. BlankInvoice \in Invoice
  BY DEF BlankInvoice, Invoice
<1>2. BlankInvoice \in Payload
  BY <1>1 DEF Payload, BlankInvoice
<1>3. Normalized(BlankInvoice).amount = None
  BY DEF Normalized, BlankInvoice
<1>4. QED
  BY <1>2, <1>3 DEF SchemaValid

------------------------------------------------------------------------------
(* Steps *)

\* The stages before, and the stages after, the extraction.
Before == Accept \/ Stage \/ Read
After == \/ Route \/ Search \/ Heal \/ Decide \/ Review
         \/ StageRaises \/ Raise \/ Clean

\* Control: which phase and which outcome follow which, and what becomes of the
\* staged copy.
LEMMA ControlStep ==
  ASSUME Inv, [Next]_vars
  PROVE  (phase \in Phase)' /\ OutcomeInv' /\ StagedInv'
<1> USE NoneIsNoString DEF Inv, OutcomeInv, StagedInv, StagedCopyIsRemoved, Phase
<1>1. CASE Before
  BY <1>1 DEF Before, Accept, Stage, Read
<1>2. CASE Extract
  <2>1. /\ UNCHANGED <<staged, outcome>>
        /\ phase \in {"extract", "request", "repair", "validate"}
        /\ phase' \in {"request", "repair", "validate", "route", "raised"}
    BY <1>2 DEF Extract, engineVars, ExtractorStep, ExtractorGoes, ExtractWithHeuristics, ExtractWithModel,
       Request, Answered, GatewayFails, RepairWithModel, Validate, ExtractionRaises
  <2>2. QED
    BY <2>1
<1>3. CASE After
  BY <1>3 DEF After, Route, Search, Heal, Decide, Review, StageRaises, Raise, Clean,
     extractorVars, engineVars
<1>4. CASE UNCHANGED vars
  BY <1>4 DEF vars, engineVars
<1>5. QED
  BY <1>1, <1>2, <1>3, <1>4 DEF Next, Before, After

\* What the stages after the extraction leave alone; the payload was extracted
\* before, or there is none.
LEMMA AfterKeeps ==
  ASSUME Inv, After \/ UNCHANGED vars
  PROVE  /\ UNCHANGED extractorVars
         /\ phase' # "validate" \/ phase = "validate"
         /\ Extracted' => Extracted
<1>1. UNCHANGED extractorVars /\ (phase' # "validate" \/ phase = "validate")
  BY DEF After, Route, Search, Heal, Decide, Review, StageRaises, Raise, Clean,
     engineVars, vars
<1>2. Extracted' => Extracted
  BY NoneIsNoString DEF After, Route, Search, Heal, Decide, Review, StageRaises,
     Raise, Clean, Inv,
     OutcomeInv, Extracted, Finished, vars, engineVars
<1>3. QED
  BY <1>1, <1>2

\* Before the extraction nothing is a payload, and nothing is finished.
LEMMA BeforeKeeps ==
  ASSUME Inv, Before
  PROVE  /\ UNCHANGED <<asked, payload, attempt, lastMode, history, recorded, calls>>
         /\ phase' \in {"stage", "read", "extract", "raised", "done"} /\ ~Extracted'
         /\ phase \in {"accept", "stage", "read"}
BY NoneIsNoString DEF Before, Accept, Stage, Read, Inv, OutcomeInv, Extracted, Finished,
   extractorVars

\* The steps of the extractor, one by one.
LEMMA ExtractKeeps ==
  ASSUME Inv, Extract
  PROVE  /\ UNCHANGED engineVars /\ UNCHANGED text /\ outcome = None /\ ~Finished'
         /\ \/ ExtractWithHeuristics \/ ExtractWithModel \/ Request
            \/ RepairWithModel \/ Validate \/ ExtractionRaises
         /\ phase' \in {"request", "repair", "validate", "route", "raised"}
<1>1. /\ UNCHANGED engineVars /\ UNCHANGED text
      /\ phase \in {"extract", "request", "repair", "validate"}
      /\ phase' \in {"request", "repair", "validate", "route", "raised"}
  BY DEF Extract, ExtractorStep, ExtractorGoes, ExtractWithHeuristics, ExtractWithModel,
     Request, Answered, GatewayFails, RepairWithModel, Validate, ExtractionRaises,
     extractorVars
<1>2. QED
  BY <1>1, NoneIsNoString DEF Extract, ExtractorStep, ExtractorGoes, Inv, OutcomeInv, Finished, engineVars

\* Payloads: each one is normalized before it is validated, and only a valid
\* one leaves the extractor.
LEMMA PayloadStep ==
  ASSUME Inv, [Next]_vars
  PROVE  PayloadInv' /\ BlankInv'
<1>1. CASE After \/ UNCHANGED vars
  BY <1>1, AfterKeeps DEF Inv, PayloadInv, BlankInv, extractorVars
<1>2. CASE Before
  BY <1>2, BeforeKeeps DEF PayloadInv, BlankInv
<1>3. CASE Extract
  <2>0. /\ text' = text /\ ~Finished' /\ ~Finished
        /\ phase' \in {"request", "repair", "validate", "route", "raised"}
    BY <1>3, ExtractKeeps, NoneIsNoString DEF Finished
  <2>1. CASE ExtractWithHeuristics
    <3>1. /\ phase' = "validate" /\ payload' \in PayloadsOfText
      BY <2>1 DEF ExtractWithHeuristics
    <3>2. Prepared(payload')
      BY <3>1, NormalizedIsPrepared, BlankIsValid, ExtractorAssumption DEF PayloadsOfText
    <3>3. ~text => payload' = Normalized(BlankInvoice)
      BY <3>1 DEF PayloadsOfText
    <3>4. QED
      BY <2>0, <3>1, <3>2, <3>3 DEF PayloadInv, BlankInv, Extracted, Prepared, SchemaValid
  <2>2. CASE ExtractWithModel
    BY <2>0, <2>2 DEF ExtractWithModel, PayloadInv, BlankInv, Extracted
  <2>3. CASE Request \/ RepairWithModel
    <3>1. /\ phase' \in {"validate", "repair", "raised"}
          /\ phase' = "validate" => \E p \in ModelPayloads : payload' = Normalized(p)
      BY <2>3 DEF Request, RepairWithModel, Answered, GatewayFails
    <3>2. phase' = "validate" => Prepared(payload')
      BY <3>1, NormalizedIsPrepared, ExtractorAssumption
    <3>3. phase' = "validate" => lastMode' # "heuristic"
      BY <2>3 DEF Request, RepairWithModel, Answered, GatewayFails, Inv, AuditInv, Spoken
    <3>4. QED
      BY <2>0, <3>1, <3>2, <3>3 DEF PayloadInv, BlankInv, Extracted, Prepared, SchemaValid
  <2>4. CASE Validate
    <3>1. Prepared(payload) /\ lastMode' = lastMode
      BY <2>4 DEF Validate, Inv, PayloadInv
    <3>2. \/ SchemaValid(payload) /\ phase' = "route" /\ payload' = payload
          \/ ~SchemaValid(payload) /\ phase' \in {"raised", "repair"}
          \/ ~SchemaValid(payload) /\ phase' = "validate" /\ payload' \in LocalRepairs(payload)
      BY <2>4 DEF Validate
    <3>3. payload' \in LocalRepairs(payload) => Prepared(payload')
      BY <3>1, RepairIsPrepared DEF Prepared
    <3>4. PayloadInv'
      BY <2>0, <3>1, <3>2, <3>3 DEF PayloadInv, Extracted, Prepared, SchemaValid
    <3>5. ~text /\ lastMode = "heuristic" =>
              payload = Normalized(BlankInvoice) /\ SchemaValid(payload)
      BY <2>4, BlankIsValid DEF Validate, Inv, BlankInv
    <3>6. BlankInv'
      BY <2>0, <3>1, <3>2, <3>5 DEF BlankInv, Extracted
    <3>7. QED
      BY <3>4, <3>6
  <2>5. CASE ExtractionRaises
    BY <2>0, <2>5 DEF ExtractionRaises, PayloadInv, BlankInv, Extracted
  <2>6. QED
    BY <1>3, <2>1, <2>2, <2>3, <2>4, <2>5, ExtractKeeps
<1>4. QED
  BY <1>1, <1>2, <1>3 DEF Next, Before, After

\* What Answers does to the two histories.
LEMMA AnswersKeep ==
  ASSUME NEW entry \in Metadata, history \in Seq(Metadata), recorded = history, Answers(entry)
  PROVE  /\ recorded' = history' /\ recorded' \in Seq(Metadata)
         /\ (\E i \in DOMAIN recorded' : recorded'[i].fallback) <=>
                entry.fallback \/ \E i \in DOMAIN recorded : recorded[i].fallback
<1>1. /\ recorded' = Append(recorded, entry) /\ history' = recorded'
      /\ recorded \in Seq(Metadata)
  BY DEF Answers
<1>2. /\ recorded' \in Seq(Metadata) /\ Len(recorded') = Len(recorded) + 1
      /\ recorded'[Len(recorded) + 1] = entry
      /\ \A i \in 1 .. Len(recorded) : recorded'[i] = recorded[i]
  BY <1>1
<1>3. DOMAIN recorded = 1 .. Len(recorded) /\ DOMAIN recorded' = 1 .. Len(recorded')
  BY <1>1, <1>2
<1>4. Len(recorded) \in Nat
  BY <1>1
<1>5. QED
  BY <1>1, <1>2, <1>3, <1>4

\* What a failed call does to them.
LEMMA FailureKeeps ==
  ASSUME NEW entry \in Metadata, history \in Seq(Metadata), recorded \in Seq(Metadata),
         GatewayFails(entry)
  PROVE  phase' = "raised" /\ recorded' \in Seq(Metadata) /\ history' \in Seq(Metadata)
<1>1. phase' = "raised" /\ recorded' = recorded /\ history' = Append(history, entry)
  BY DEF GatewayFails
<1>2. Append(history, entry) \in Seq(Metadata)
  OBVIOUS
<1>3. QED
  BY <1>1, <1>2

\* Audit: what the model answered is recorded, in every order of answers,
\* fallbacks and repairs.
LEMMA AuditStep ==
  ASSUME Inv, [Next]_vars
  PROVE  AuditInv'
<1>1. CASE After \/ UNCHANGED vars
  <2>1. /\ UNCHANGED extractorVars /\ (Extracted' => Extracted)
        /\ phase' \notin {"accept", "stage", "read", "extract", "request", "repair", "validate"}
           \/ phase' = phase
    BY <1>1, AfterKeeps DEF After, Route, Search, Heal, Decide, Review, StageRaises, Raise, Clean,
     engineVars, vars
  <2>2. QED
    BY <2>1 DEF Inv, AuditInv, Silent, Spoken, extractorVars
<1>2. CASE Before
  BY <1>2, BeforeKeeps DEF Inv, AuditInv
<1>3. CASE Extract
  <2>0. /\ ~Finished' /\ ~Finished /\ AuditInv
        /\ phase' \in {"request", "repair", "validate", "route", "raised"}
    BY <1>3, ExtractKeeps, NoneIsNoString DEF Finished, Inv
  <2>1. CASE ExtractWithHeuristics
    BY <2>0, <2>1 DEF ExtractWithHeuristics, AuditInv, Silent, Extracted
  <2>2. CASE ExtractWithModel
    <3>1. /\ UNCHANGED <<history, recorded, calls>> /\ lastMode' = "llm"
          /\ \/ phase' = "raised"
             \/ phase' = "request" /\ asked' \in {"json_schema", "json_object"}
      BY <2>2 DEF ExtractWithModel, Setting
    <3>2. phase = "extract"
      BY <2>2 DEF ExtractWithModel
    <3>3. QED
      BY <2>0, <3>1, <3>2 DEF AuditInv, Extracted
  <2>3. CASE Request
    <3>1. /\ calls \in Nat /\ recorded = <<>> /\ history = <<>> /\ lastMode = "llm"
          /\ asked \in {"json_schema", "json_object"}
          /\ history \in Seq(Metadata) /\ recorded \in Seq(Metadata)
      BY <2>0, <2>3 DEF Request, AuditInv
    <3>2. /\ calls' \in Nat /\ calls' > 0
          /\ \/ Answered(asked, FALSE) \/ Answered("json_object", TRUE)
             \/ GatewayFails(Entry("json_object", FALSE, "failed"))
             \/ phase' = "raised" /\ UNCHANGED <<history, recorded>>
      <4>1. \/ calls' = calls + 1 /\ Answered(asked, FALSE)
            \/ calls' = calls + 1 /\ GatewayFails(Entry("json_object", FALSE, "failed"))
            \/ calls' = calls + 2 /\ Answered("json_object", TRUE)
            \/ /\ calls' = calls + 2 /\ phase' = "raised"
               /\ UNCHANGED <<history, recorded>>
        BY <2>3 DEF Request
      <4>2. calls + 1 \in Nat /\ calls + 1 > 0 /\ calls + 2 \in Nat /\ calls + 2 > 0
        BY <3>1
      <4>3. QED
        BY <4>1, <4>2
    <3>3. ASSUME NEW format \in {"json_schema", "json_object"}, NEW fallback \in BOOLEAN,
                 NEW error \in {"none", "failed", "empty", "not_json"}
          PROVE  /\ Entry(format, fallback, error) \in Metadata
                 /\ Entry(format, fallback, error).fallback = fallback
      BY DEF Entry, Metadata
    <3>4. ASSUME NEW format \in {"json_schema", "json_object"}, NEW fallback \in BOOLEAN,
                 Answered(format, fallback)
          PROVE  AuditInv'
      <4>1. CASE GatewayFails(Entry(format, fallback, "empty"))
        <5>1. /\ phase' = "raised" /\ recorded' \in Seq(Metadata) /\ history' \in Seq(Metadata)
          BY <3>1, <3>3, <4>1, FailureKeeps
        <5>2. QED
          BY <2>0, <3>2, <5>1 DEF AuditInv, Extracted
      <4>2. ASSUME NEW error \in {"none", "not_json"}, Answers(Entry(format, fallback, error)),
                   phase' \in {"validate", "repair"},
                   lastMode' = IF fallback THEN "llm_json_object_fallback" ELSE lastMode
            PROVE  AuditInv'
        <5>1. /\ recorded' = history' /\ recorded' \in Seq(Metadata)
              /\ (\E i \in DOMAIN recorded' : recorded'[i].fallback) <=>
                    fallback \/ \E i \in DOMAIN recorded : recorded[i].fallback
          BY <3>1, <3>3, <4>2, AnswersKeep
        <5>2. ~\E i \in DOMAIN recorded : recorded[i].fallback
          BY <3>1
        <5>3. Spoken'
          BY <3>1, <3>2, <4>2, <5>1, <5>2 DEF Spoken
        <5>4. QED
          BY <2>0, <3>2, <4>2, <5>1, <5>3 DEF AuditInv, Extracted
      <4>3. QED
        BY <3>4, <4>1, <4>2 DEF Answered
    <3>5. CASE GatewayFails(Entry("json_object", FALSE, "failed"))
      <4>1. /\ phase' = "raised" /\ recorded' \in Seq(Metadata) /\ history' \in Seq(Metadata)
        BY <3>1, <3>3, <3>5, FailureKeeps
      <4>2. QED
        BY <2>0, <3>2, <4>1 DEF AuditInv, Extracted
    <3>6. CASE phase' = "raised" /\ UNCHANGED <<history, recorded>>
      BY <2>0, <3>1, <3>2, <3>6 DEF AuditInv, Extracted
    <3>7. QED
      BY <3>1, <3>2, <3>4, <3>5, <3>6
  <2>4. CASE RepairWithModel
    <3>1. /\ calls \in Nat /\ history \in Seq(Metadata) /\ recorded \in Seq(Metadata) /\ Spoken
          /\ calls' = calls + 1
      BY <2>0, <2>4 DEF RepairWithModel, AuditInv
    <3>2. ASSUME NEW error \in {"none", "failed", "empty", "not_json"}
          PROVE  /\ Entry("json_object", FALSE, error) \in Metadata
                 /\ Entry("json_object", FALSE, error).fallback = FALSE
      BY DEF Entry, Metadata
    <3>3. ASSUME NEW error \in {"failed", "empty"}, GatewayFails(Entry("json_object", FALSE, error))
          PROVE  AuditInv'
      <4>1. /\ phase' = "raised" /\ recorded' \in Seq(Metadata) /\ history' \in Seq(Metadata)
        BY <3>1, <3>2, <3>3, FailureKeeps
      <4>2. QED
        BY <2>0, <3>1, <4>1 DEF AuditInv, Extracted
    <3>4. ASSUME NEW error \in {"none", "not_json"}, Answers(Entry("json_object", FALSE, error)),
                 phase' \in {"validate", "raised"}, lastMode' = lastMode
          PROVE  AuditInv'
      <4>1. /\ recorded' = history' /\ recorded' \in Seq(Metadata)
            /\ (\E i \in DOMAIN recorded' : recorded'[i].fallback) <=>
                   \E i \in DOMAIN recorded : recorded[i].fallback
        BY <3>1, <3>2, <3>4, AnswersKeep DEF Spoken
      <4>2. Spoken'
        BY <3>1, <3>4, <4>1 DEF Spoken
      <4>3. QED
        BY <2>0, <3>1, <3>4, <4>1, <4>2 DEF AuditInv, Extracted
    <3>5. QED
      BY <2>4, <3>3, <3>4 DEF RepairWithModel
  <2>5. CASE Validate
    <3>1. /\ UNCHANGED <<asked, lastMode, history, recorded, calls>>
          /\ phase' \in {"route", "raised", "repair", "validate"}
          /\ phase' = "repair" => asked # None
      BY <2>5 DEF Validate
    <3>2. Silent \/ Spoken
      BY <2>0, <2>5 DEF Validate, AuditInv
    <3>3. (Silent => Silent') /\ (Spoken => Spoken')
      BY <3>1 DEF Silent, Spoken
    <3>4. phase' = "repair" => Spoken'
      BY <3>1, <3>2, <3>3 DEF Silent
    <3>5. QED
      BY <2>0, <3>1, <3>2, <3>3, <3>4 DEF AuditInv, Extracted
  <2>6. CASE ExtractionRaises
    BY <2>0, <2>6 DEF ExtractionRaises, extractorVars, AuditInv, Extracted
  <2>7. QED
    BY <1>3, <2>1, <2>2, <2>3, <2>4, <2>5, <2>6, ExtractKeeps
<1>4. QED
  BY <1>1, <1>2, <1>3 DEF Next, Before, After

\* Decisions: from the searches to the gate every stage works on the payload and
\* the hits that the next one sees.
LEMMA DecisionStep ==
  ASSUME Inv, [Next]_vars
  PROVE  GroundedInv' /\ DecisionInv' /\ GateInv'
<1> USE NoneIsNoString
<1>1. CASE Before \/ Extract
  <2>1. ~Extracted' \/ (phase' = "route" /\ ~Finished')
    BY <1>1, BeforeKeeps, ExtractKeeps DEF Extracted
  <2>2. phase' \notin {"decide", "review"} /\ ~Finished'
    BY <2>1 DEF Extracted
  <2>3. QED
    BY <2>2 DEF GroundedInv, DecisionInv, GateInv
<1>2. CASE Route \/ Search \/ Heal
  <2>1. ~Finished' /\ phase' # "review"
    BY <1>2 DEF Route, Search, Heal, Inv, OutcomeInv, Finished, engineVars
  <2>2. payload' = payload
    BY <1>2 DEF Route, Search, Heal, extractorVars
  <2>3. phase' = "decide" => (grounded' => Missing(payload', hits') = {})
    BY <1>2, <2>2 DEF Route, Search, Heal, Missing
  <2>4. QED
    BY <2>1, <2>3 DEF GroundedInv, DecisionInv, GateInv
<1>3. CASE Decide
  <2>1. /\ ~Finished' /\ phase = "decide"
        /\ UNCHANGED <<payload, hits, grounded>>
    BY <1>3 DEF Decide, Inv, OutcomeInv, Finished, extractorVars
  <2>2. IF IsInvoice(payload)
        THEN /\ section' \in VendorSections(payload, hits)
             /\ decision' = PayablesDecision(payload, hits, section')
        ELSE decision' = ReceivablesDecision(payload, hits)
    BY <1>3 DEF Decide
  <2>3. DecisionInv'
    BY <2>1, <2>2 DEF DecisionInv
  <2>4. QED
    BY <2>1, <2>3 DEF Inv, GroundedInv, GateInv
<1>4. CASE Review
  <2>1. /\ phase = "review" /\ gate' = Gate(decision, hits)
        /\ UNCHANGED <<payload, hits, grounded, section, decision>>
    BY <1>4 DEF Review, extractorVars
  <2>2. QED
    BY <2>1 DEF Inv, GroundedInv, DecisionInv, GateInv
<1>5. CASE StageRaises \/ Raise \/ Clean \/ UNCHANGED vars
  <2>1. /\ UNCHANGED <<payload, hits, grounded, section, decision, gate>>
        /\ Finished' => Finished
        /\ phase' \in {"decide", "review"} => phase' = phase
    BY <1>5 DEF StageRaises, Raise, Clean, Inv, OutcomeInv, Finished, vars, extractorVars, engineVars
  <2>2. QED
    BY <2>1 DEF Inv, GroundedInv, DecisionInv, GateInv
<1>6. QED
  BY <1>1, <1>2, <1>3, <1>4, <1>5 DEF Next, Before

------------------------------------------------------------------------------
(* The theorems *)

\* The invariant holds in every reachable state.
THEOREM InvHolds == Spec => []Inv
<1>1. Init => Inv
  BY NoneIsNoString DEF Init, ExtractorInit, Inv, Phase, PayloadInv, BlankInv, OutcomeInv,
     GroundedInv, DecisionInv, GateInv, StagedInv, StagedCopyIsRemoved, AuditInv,
     Extracted, Finished
<1>2. Inv /\ [Next]_vars => Inv'
  BY ControlStep, PayloadStep, AuditStep, DecisionStep DEF Inv
<1>3. QED
  BY <1>1, <1>2, PTL DEF Spec

\* No exception leaves a whole copy of an upload behind.
THEOREM CopyIsRemoved == Spec => []StagedCopyIsRemoved
<1>1. Inv => StagedCopyIsRemoved
  BY DEF Inv, StagedInv
<1>2. QED
  BY <1>1, InvHolds, PTL

\* The audit trail is complete after every sequence of answers and repairs.
THEOREM AuditHolds == Spec => []AuditIsComplete
<1>1. Inv => AuditIsComplete
  <2> SUFFICES ASSUME Inv, Finished
               PROVE  /\ recorded = history
                      /\ (lastMode = "llm_json_object_fallback") <=>
                           (\E i \in DOMAIN recorded : recorded[i].fallback)
                      /\ lastMode = "heuristic" <=> calls = 0
    BY DEF AuditIsComplete
  <2>1. Silent \/ Spoken
    BY DEF Inv, AuditInv, Extracted
  <2>2. CASE Silent
    BY <2>2 DEF Silent
  <2>3. CASE Spoken
    <3>1. calls \in Nat
      BY DEF Inv, AuditInv
    <3>2. QED
      BY <2>3, <3>1 DEF Spoken
  <2>4. QED
    BY <2>1, <2>2, <2>3
<1>2. QED
  BY <1>1, InvHolds, PTL

\* Where every section that was looked for was kept, the section that was read
\* is the vendor's own, whatever else the searches brought.
LEMMA OwnSectionIsRead ==
  ASSUME Inv, Finished, IsInvoice(payload), Listed, grounded
  PROVE  section = payload.vendor
<1>1. section \in VendorSections(payload, hits) /\ Missing(payload, hits) = {}
  BY DEF Inv, DecisionInv, GroundedInv
<1>2. PartySection(payload) = {payload.vendor}
  BY DEF Listed, PartySection
<1>3. payload.vendor \in hits
  BY <1>1, <1>2 DEF Missing, Inferred
<1>4. VendorSections(payload, hits) = {payload.vendor}
  BY <1>3 DEF VendorSections, VendorsRead, Listed
<1>5. QED
  BY <1>1, <1>4

\* An approved invoice has no anomaly: a threshold is no approval, and every
\* other code asks for a person.
LEMMA ApprovedHasNoAnomaly ==
  ASSUME Inv, Finished, IsInvoice(payload), gate.status = "Approved"
  PROVE  Anomalies(payload, PolicyOf(section)) = {}
<1> DEFINE codes == Anomalies(payload, PolicyOf(section))
           confidence == PayablesConfidence(codes, Cardinality(hits))
<1>1. gate = Gate(decision, hits) /\ decision = PayablesDecision(payload, hits, section)
  BY DEF Inv, GateInv, DecisionInv
<1>2. ~decision.review
  BY <1>1 DEF Gate, QueueStatus
<1>3. ~PayablesReview(codes, confidence)
  BY <1>1, <1>2 DEF PayablesDecision
<1>4. Recommendation(codes) = "approve" /\ codes \subseteq {"approval_threshold"}
  BY <1>3 DEF PayablesReview
<1>5. "approval_threshold" \notin codes
  BY <1>4 DEF Recommendation
<1>6. QED
  BY <1>4, <1>5

\* What an invoice without an anomaly is.
LEMMA NoAnomaly ==
  ASSUME NEW c \in Invoice, "amount" \in c.filled <=> c.amount # None,
         NEW policy, Anomalies(c, policy) = {}
  PROVE  /\ RequiredFields("invoice") \subseteq c.filled
         /\ c.amount # None /\ ~(c.amount > 5000)
         /\ "po_number" \in c.filled \/ ~RequiresPurchaseOrder(c.amount, policy)
         /\ ~TermsMismatch(c, policy)
         /\ c.duplicate = "no" /\ ~c.void /\ c.items # "differ"
<1>1. /\ MissingFields(c) = {}
      /\ ~(RequiresPurchaseOrder(c.amount, policy) /\ "po_number" \notin c.filled)
      /\ ~(c.duplicate # "no")
      /\ ~TermsMismatch(c, policy)
      /\ ~c.void
      /\ ~(c.amount # None /\ c.items = "differ")
      /\ ~(c.amount # None /\ c.amount > 5000)
  BY DEF Anomalies, Flag
<1>2. DOMAIN MissingCode = RequiredFields("invoice")
  BY DEF MissingCode, RequiredFields
<1>3. \A f \in RequiredFields("invoice") : f \in c.filled
  BY <1>1, <1>2 DEF MissingFields, IsMissing
<1>4. c.amount # None
  BY <1>3 DEF RequiredFields
<1>5. QED
  BY <1>1, <1>3, <1>4

\* What is not greater is at most as great.
LEMMA NotGreater ==
  ASSUME NEW x \in Int, NEW y \in Nat, ~(x > y) PROVE x <= y
OBVIOUS

\* Whatever the searches bring and however they are ranked, no invoice of a
\* listed vendor is released against the policy.
THEOREM ApprovalHolds == Spec => []ApprovalMeetsPolicy
<1>1. Inv => ApprovalMeetsPolicy
  <2> SUFFICES ASSUME Inv, Finished, IsInvoice(payload), Listed, grounded,
                      gate.status = "Approved"
               PROVE  /\ RequiredFields("invoice") \subseteq payload.filled
                      /\ payload.amount \in 0 .. 5000
                      /\ "po_number" \in payload.filled \/ PurchaseOrderWaived
                      /\ payload.terms \in {None, Master[payload.vendor].terms}
                           \/ Master[payload.vendor].terms = None
                      /\ payload.duplicate = "no" /\ ~payload.void /\ payload.items # "differ"
    BY DEF ApprovalMeetsPolicy
  <2>1. payload \in Payload /\ SchemaValid(payload)
    BY DEF Inv, PayloadInv, Extracted, Prepared
  <2>2. /\ payload \in Invoice /\ payload.amount \in Int \cup {None}
        /\ "amount" \in payload.filled <=> payload.amount # None
    BY <2>1, PayloadFields
  <2>3. payload.vendor \in Vendors /\ payload.vendor # None
    BY <2>2 DEF Listed, Invoice
  <2>4. PolicyOf(section) = Master[payload.vendor]
    BY <2>3, OwnSectionIsRead DEF PolicyOf
  <2>5. Anomalies(payload, Master[payload.vendor]) = {}
    BY <2>4, ApprovedHasNoAnomaly
  <2>6. /\ RequiredFields("invoice") \subseteq payload.filled
        /\ payload.amount # None /\ ~(payload.amount > 5000)
        /\ "po_number" \in payload.filled
             \/ ~RequiresPurchaseOrder(payload.amount, Master[payload.vendor])
        /\ ~TermsMismatch(payload, Master[payload.vendor])
        /\ payload.duplicate = "no" /\ ~payload.void /\ payload.items # "differ"
    BY <2>2, <2>5, NoAnomaly
  <2>7. payload.amount \in 0 .. 5000
    <3>1. payload.amount \in Int
      BY <2>2, <2>6
    <3>2. payload.amount >= 0
      BY <2>1, <2>6 DEF SchemaValid
    <3>3. PICK x \in Int : x = payload.amount
      BY <3>1
    <3>4. x >= 0 /\ ~(x > 5000)
      BY <2>6, <3>2, <3>3
    <3>5. x \in 0 .. 5000
      BY <3>4
    <3>6. QED
      BY <3>3, <3>5
  <2>8. ~RequiresPurchaseOrder(payload.amount, Master[payload.vendor]) => PurchaseOrderWaived
    <3> DEFINE policy == Master[payload.vendor]
               limit == IF policy.poAbove = None THEN 3000 ELSE policy.poAbove
    <3>1. limit \in Nat
      <4>1. policy.poAbove \in Nat \cup {None}
        BY <2>3, MasterAssumption DEF VendorPolicy
      <4>2. QED
        BY <4>1
    <3>2. ~RequiresPurchaseOrder(payload.amount, policy)
            => policy.exempt \/ ~(payload.amount > limit)
      BY DEF RequiresPurchaseOrder
    <3>3. ~(payload.amount > limit) => payload.amount <= limit
      <4> HIDE DEF limit
      <4>1. payload.amount \in Int
        BY <2>2, <2>6
      <4>2. QED
        BY <3>1, <4>1, NotGreater
    <3>4. policy.exempt \/ payload.amount <= limit => PurchaseOrderWaived
      BY DEF PurchaseOrderWaived
    <3>5. QED
      BY <3>2, <3>3, <3>4
  <2>9. QED
    BY <2>6, <2>7, <2>8 DEF TermsMismatch
<1>2. QED
  BY <1>1, InvHolds, PTL

\* What a payables decision and a receivables decision are made of.
LEMMA ReceivablesCase ==
  ASSUME Inv, Finished, ~IsInvoice(payload)
  PROVE  /\ payload \in Email /\ Prepared(payload)
         /\ decision = ReceivablesDecision(payload, hits)
         /\ gate = Gate(decision, hits)
BY PayloadFields DEF Inv, PayloadInv, DecisionInv, GateInv, Extracted, Prepared

\* The numbers of an e-mail, and the level they give.
LEMMA EmailNumbers ==
  ASSUME NEW c \in Email
  PROVE  /\ Number(c.days) \in Nat /\ Number(c.reminders) \in Nat
         /\ EscalationOf(c) \in 1 .. 4
BY DEF Email, Number, EscalationOf, Escalation

\* A customer who claims to have paid is asked for a proof and never chased,
\* whatever else the e-mail says.
THEOREM ClaimsAreNotChased == Spec => []ClaimIsNeverChased
<1>1. Inv => ClaimIsNeverChased
  <2> SUFFICES ASSUME Inv, Finished, ~IsInvoice(payload), PaymentClaim(payload)
               PROVE  decision.language = "proof request" /\ gate.status = "Needs Review"
    BY DEF ClaimIsNeverChased
  <2> DEFINE confidence == ReceivablesConfidence(payload, Cardinality(hits))
  <2>1. decision = ReceivablesDecision(payload, hits) /\ gate = Gate(decision, hits)
    BY ReceivablesCase
  <2>2. EscalationOf(payload) = 2
    BY DEF EscalationOf, Escalation
  <2>3. Level[2] = "low"
    BY DEF Level
  <2>4. ReceivablesReview(payload, confidence)
    BY DEF ReceivablesReview
  <2>5. decision.outcome = "low" /\ decision.language = "proof request" /\ decision.review
    BY <2>1, <2>2, <2>3, <2>4 DEF ReceivablesDecision, Language
  <2>6. QED
    BY <2>1, <2>5 DEF Gate, QueueStatus
<1>2. QED
  BY <1>1, InvHolds, PTL

\* No reminder beyond the second, and none of an incomplete or disputed case,
\* leaves without a person.
THEOREM RemindersAreMild == Spec => []AutomaticReminderIsMild
<1>1. Inv => AutomaticReminderIsMild
  <2> SUFFICES ASSUME Inv, Finished, ~IsInvoice(payload), ~gate.required
               PROVE  /\ ~PaymentClaim(payload) /\ ~payload.dispute
                      /\ Number(payload.days) <= 21 /\ Number(payload.reminders) <= 1
                      /\ {"invoice_number", "due_date"} \subseteq payload.filled
                      /\ decision.language \in {"first reminder", "second reminder"}
    BY DEF AutomaticReminderIsMild
  <2> DEFINE confidence == ReceivablesConfidence(payload, Cardinality(hits))
  <2>1. /\ payload \in Email /\ Prepared(payload)
        /\ decision = ReceivablesDecision(payload, hits) /\ gate = Gate(decision, hits)
    BY ReceivablesCase
  <2>2. ~decision.review
    BY <2>1 DEF Gate
  <2>3. ~ReceivablesReview(payload, confidence)
    BY <2>1, <2>2 DEF ReceivablesDecision
  <2>4. /\ ~PaymentClaim(payload) /\ ~payload.dispute
        /\ ~(EscalationOf(payload) >= 3) /\ ~Incomplete(payload)
    BY <2>3 DEF ReceivablesReview
  <2>5. Number(payload.days) \in Nat /\ Number(payload.reminders) \in Nat
        /\ EscalationOf(payload) \in {1, 2}
    BY <2>1, <2>4, EmailNumbers
  <2>6. Number(payload.days) <= 21 /\ Number(payload.reminders) <= 1
    BY <2>4, <2>5 DEF EscalationOf, Escalation
  <2>7. "due_date" \notin payload.listed /\ "invoice_number" \notin payload.listed
    BY <2>4 DEF Incomplete, Triggers
  <2>8. {"invoice_number", "due_date"} \subseteq payload.filled
    BY <2>1, <2>7 DEF Prepared, RequiredFields
  <2>9. decision.language \in {"first reminder", "second reminder"}
    <3>1. decision.language = Language(payload)
      BY <2>1 DEF ReceivablesDecision
    <3>2. CASE EscalationOf(payload) = 1
      <4>1. Language(payload) = <<"first reminder", "second reminder", "demand", "ultimatum">>[1]
        BY <2>4, <3>2 DEF Language
      <4>2. QED
        BY <3>1, <4>1
    <3>3. CASE EscalationOf(payload) = 2
      <4>1. Language(payload) = <<"first reminder", "second reminder", "demand", "ultimatum">>[2]
        BY <2>4, <3>3 DEF Language
      <4>2. QED
        BY <3>1, <4>1
    <3>4. QED
      BY <2>5, <3>2, <3>3
  <2>10. QED
    BY <2>4, <2>6, <2>8, <2>9
<1>2. QED
  BY <1>1, InvHolds, PTL

\* The level and the triggers tell one story for every number of days but 45.
THEOREM LevelsAgree == Spec => []LevelAgreesWithTriggers
<1>1. Inv => LevelAgreesWithTriggers
  <2> SUFFICES ASSUME Inv, Finished, ~IsInvoice(payload), ~PaymentClaim(payload),
                      payload.days \notin {None, 45}
               PROVE  EscalationOf(payload) >= DaysTrigger(payload.days)
    BY DEF LevelAgreesWithTriggers
  <2>1. payload \in Email
    BY ReceivablesCase
  <2>2. Number(payload.days) = payload.days /\ payload.days \in Nat \ {45}
        /\ Number(payload.reminders) \in Nat
    BY <2>1, EmailNumbers DEF Number, Email
  <2>3. QED
    BY <2>2 DEF EscalationOf, Escalation, DaysTrigger
<1>2. QED
  BY <1>1, InvHolds, PTL

\* A missing required field is an anomaly, with the code of that field.
LEMMA MissingIsAnomaly ==
  ASSUME NEW c, NEW policy, NEW f \in DOMAIN MissingCode, IsMissing(c, f)
  PROVE  MissingCode[f] \in Anomalies(c, policy)
<1>1. MissingCode[f] \in MissingFields(c)
  BY DEF MissingFields
<1>2. QED
  BY <1>1 DEF Anomalies

\* A document nobody could read is never decided upon by the heuristics.
THEOREM UnreadableGoesBack == Spec => []UnreadableIsReturned
<1>1. Inv => UnreadableIsReturned
  <2> SUFFICES ASSUME Inv, Finished, ~text, lastMode = "heuristic"
               PROVE  gate.blocking /\ gate.status = "Returned for Info"
    BY DEF UnreadableIsReturned
  <2> DEFINE codes == Anomalies(payload, PolicyOf(section))
             confidence == PayablesConfidence(codes, Cardinality(hits))
  <2>1. payload = Normalized(BlankInvoice)
    BY DEF Inv, BlankInv, Extracted
  <2>2. payload.type = "invoice" /\ payload.filled = {} /\ ~payload.void
    BY <2>1 DEF Normalized, BlankInvoice
  <2>3. decision = PayablesDecision(payload, hits, section) /\ gate = Gate(decision, hits)
    BY <2>2 DEF Inv, DecisionInv, GateInv, IsInvoice
  <2>4. "missing_amount" \in codes /\ "invalid_invoice" \notin codes
    <3>1. "amount" \in DOMAIN MissingCode /\ MissingCode["amount"] = "missing_amount"
          /\ IsMissing(payload, "amount")
      BY <2>2 DEF MissingCode, IsMissing
    <3>2. \A f \in DOMAIN MissingCode : MissingCode[f] # "invalid_invoice"
      BY DEF MissingCode
    <3>3. "missing_amount" \in codes
      BY <3>1, MissingIsAnomaly
    <3>4. "invalid_invoice" \notin codes
      BY <2>2, <3>2 DEF Anomalies, MissingFields, Flag
    <3>5. QED
      BY <3>3, <3>4
  <2>5. Recommendation(codes) = "missing_info"
    BY <2>4 DEF Recommendation, MissingCodes, MissingCode
  <2>6. decision.review /\ decision.outcome = "missing_info"
    BY <2>3, <2>5 DEF PayablesDecision, PayablesReview
  <2>7. QED
    BY <2>3, <2>6 DEF Gate, Blocking, QueueStatus
<1>2. QED
  BY <1>1, InvHolds, PTL

------------------------------------------------------------------------------
(* Citations *)

\* Of the sections a decision is required to cite, those among the first ones
\* that were found are cited.
LEMMA FirstAreCited ==
  ASSUME NEW required, NEW found, NEW i \in DOMAIN required, i \in Nat,
         i <= CiteLimit, required[i] \in found
  PROVE  required[i] \in Cited(required, found)
<1> DEFINE before == {k \in 1 .. i : required[k] \in found}
<1>1. IsFiniteSet(1 .. i) /\ Cardinality(1 .. i) <= i
  <2>1. /\ IsFiniteSet(1 .. i)
        /\ Cardinality(1 .. i) = IF 1 > i THEN 0 ELSE i - 1 + 1
    <3>1. 1 \in Int /\ i \in Int
      OBVIOUS
    <3>2. QED
      BY <3>1, FS_Interval
  <2>2. QED
    BY <2>1
<1>2. IsFiniteSet(before) /\ Cardinality(before) <= Cardinality(1 .. i)
  <2>1. before \in SUBSET (1 .. i)
    OBVIOUS
  <2>2. QED
    BY <1>1, <2>1, FS_Subset
<1>3. Cardinality(before) <= CiteLimit
  <2>1. Cardinality(before) \in Nat /\ Cardinality(1 .. i) \in Nat
    BY <1>1, <1>2, FS_CardinalityType
  <2>2. QED
    BY <1>1, <1>2, <2>1, RetrievalAssumption
<1>4. QED
  BY <1>3 DEF Cited

\* A section on the party is one.
LEMMA PartyIsNamed ==
  ASSUME NEW c
  PROVE  (IF PartySection(c) = {} THEN <<>> ELSE <<CHOOSE s \in PartySection(c) : TRUE>>)
             \in Seq(PartySection(c))
<1>1. CASE PartySection(c) = {}
  BY <1>1
<1>2. CASE PartySection(c) # {}
  <2>1. (CHOOSE s \in PartySection(c) : TRUE) \in PartySection(c)
    BY <1>2
  <2>2. QED
    BY <1>2, <2>1
<1>3. QED
  BY <1>1, <1>2

\* What an invoice's decision is required to cite, given the anomalies.
LEMMA RequiredOfInvoice ==
  ASSUME NEW c, IsInvoice(c), NEW codes, NEW A, PartySection(c) \subseteq A,
         {"AP-APPROVAL-001", "AP-POLICY-003"} \subseteq A,
         "missing_po" \in codes => "AP-APPROVAL-002" \in A,
         "duplicate_invoice" \in codes => "AP-APPROVAL-003" \in A
  PROVE  Required(c, codes) \in Seq(A)
<1> DEFINE threshold == IF Recommendation(codes) = "approve" \/ "approval_threshold" \in codes
                        THEN <<"AP-APPROVAL-001">> ELSE <<>>
           order == IF "missing_po" \in codes THEN <<"AP-APPROVAL-002">> ELSE <<>>
           duplicate == IF "duplicate_invoice" \in codes THEN <<"AP-APPROVAL-003">> ELSE <<>>
           party == IF PartySection(c) = {} THEN <<>>
                    ELSE <<CHOOSE s \in PartySection(c) : TRUE>>
<1>1. threshold \in Seq(A) /\ order \in Seq(A) /\ duplicate \in Seq(A)
      /\ <<"AP-POLICY-003">> \in Seq(A)
  OBVIOUS
<1>2. party \in Seq(A)
  BY PartyIsNamed
<1>3. Required(c, codes) = (((threshold \o order) \o duplicate) \o <<"AP-POLICY-003">>) \o party
  BY DEF Required, RequiredForInvoice
<1> HIDE DEF threshold, order, duplicate, party
<1>4. threshold \o order \in Seq(A)
  BY <1>1, ConcatProperties
<1>5. (threshold \o order) \o duplicate \in Seq(A)
  BY <1>1, <1>4, ConcatProperties
<1>6. ((threshold \o order) \o duplicate) \o <<"AP-POLICY-003">> \in Seq(A)
  BY <1>1, <1>5, ConcatProperties
<1>7. QED
  BY <1>2, <1>3, <1>6, ConcatProperties

\* The two sections of the rules behind a letter.
LEMMA EmailSections ==
  ASSUME NEW c
  PROVE  /\ RequiredForEmail(c) \in Seq(ReceivablesSection)
         /\ Len(RequiredForEmail(c)) = 2
<1>1. PICK a \in ReceivablesSection, b \in ReceivablesSection : RequiredForEmail(c) = <<a, b>>
  <2>1. CASE PaymentClaim(c)
    BY <2>1 DEF RequiredForEmail, ReceivablesSection
  <2>2. CASE ~PaymentClaim(c) /\ EscalationOf(c) = 1
    BY <2>2 DEF RequiredForEmail, ReceivablesSection
  <2>3. CASE ~PaymentClaim(c) /\ EscalationOf(c) = 2
    BY <2>3 DEF RequiredForEmail, ReceivablesSection
  <2>4. CASE ~PaymentClaim(c) /\ EscalationOf(c) \notin {1, 2}
    BY <2>4 DEF RequiredForEmail, ReceivablesSection
  <2>5. QED
    BY <2>1, <2>2, <2>3, <2>4
<1>2. QED
  BY <1>1

\* What an e-mail's decision is required to cite: two sections of the rules and
\* the one on the customer.
LEMMA RequiredOfEmail ==
  ASSUME NEW c \in Email, NEW codes, ~IsInvoice(c)
  PROVE  /\ {1, 2} \subseteq DOMAIN Required(c, codes)
         /\ Required(c, codes)[1] = RequiredForEmail(c)[1]
         /\ Required(c, codes)[2] = RequiredForEmail(c)[2]
         /\ \A s \in PartySection(c) : 3 \in DOMAIN Required(c, codes)
                                       /\ Required(c, codes)[3] = s
<1> DEFINE party == IF PartySection(c) = {} THEN <<>>
                    ELSE <<CHOOSE s \in PartySection(c) : TRUE>>
           A == ReceivablesSection \cup PartySection(c)
<1>1. RequiredForEmail(c) \in Seq(A) /\ Len(RequiredForEmail(c)) = 2
  <2>1. ReceivablesSection \subseteq A
    OBVIOUS
  <2> HIDE DEF A
  <2>2. QED
    BY <2>1, EmailSections
<1>3. party \in Seq(A)
  <2>1. PartySection(c) \subseteq A
    OBVIOUS
  <2> HIDE DEF A
  <2>2. QED
    BY <2>1, PartyIsNamed
<1>4. Required(c, codes) = RequiredForEmail(c) \o party
  BY DEF Required
<1>5. ASSUME NEW s \in PartySection(c) PROVE Len(party) = 1 /\ party[1] = s
  <2>1. PartySection(c) = {s}
    BY DEF PartySection
  <2>2. QED
    BY <2>1
<1> HIDE DEF party, A
<1>6. /\ Required(c, codes) \in Seq(A)
      /\ Len(Required(c, codes)) = 2 + Len(party)
      /\ \A i \in 1 .. 2 + Len(party) : Required(c, codes)[i] =
             IF i <= 2 THEN RequiredForEmail(c)[i] ELSE party[i - 2]
  <2>1. ASSUME NEW S, NEW s \in Seq(S), NEW t \in Seq(S), Len(s) = 2
        PROVE  /\ s \o t \in Seq(S) /\ Len(s \o t) = 2 + Len(t)
               /\ \A i \in 1 .. 2 + Len(t) :
                      (s \o t)[i] = IF i <= 2 THEN s[i] ELSE t[i - 2]
    <3>1. /\ s \o t \in Seq(S) /\ Len(s \o t) = Len(s) + Len(t)
          /\ \A i \in 1 .. Len(s) + Len(t) :
                 (s \o t)[i] = IF i <= Len(s) THEN s[i] ELSE t[i - Len(s)]
      BY ConcatProperties, Zenon
    <3>2. QED
      BY <2>1, <3>1
  <2>2. QED
    BY <1>1, <1>3, <1>4, <2>1
<1>7. Len(party) \in Nat /\ DOMAIN Required(c, codes) = 1 .. 2 + Len(party)
  BY <1>3, <1>6, LenProperties
<1>8. /\ {1, 2} \subseteq DOMAIN Required(c, codes)
      /\ Required(c, codes)[1] = RequiredForEmail(c)[1]
      /\ Required(c, codes)[2] = RequiredForEmail(c)[2]
  <2>1. 1 \in 1 .. 2 + Len(party) /\ 2 \in 1 .. 2 + Len(party)
    BY <1>7
  <2>2. QED
    BY <1>6, <1>7, <2>1
<1>9. ASSUME NEW s \in PartySection(c)
      PROVE  3 \in DOMAIN Required(c, codes) /\ Required(c, codes)[3] = s
  <2>1. Len(party) = 1 /\ party[1] = s
    BY <1>5
  <2>2. DOMAIN Required(c, codes) = 1 .. 3 /\ Required(c, codes)[3] = party[3 - 2]
    BY <1>6, <1>7, <2>1
  <2>3. QED
    BY <2>1, <2>2
<1>10. QED
  BY <1>8, <1>9

\* Two anomalies that call for sections of their own, and what they say of the
\* invoice.
LEMMA AnomaliesTell ==
  ASSUME NEW c, NEW policy
  PROVE  /\ "missing_po" \in Anomalies(c, policy) => "po_number" \notin c.filled
         /\ "duplicate_invoice" \in Anomalies(c, policy) => c.duplicate # "no"
<1>1. "missing_po" \notin MissingFields(c) /\ "duplicate_invoice" \notin MissingFields(c)
  BY DEF MissingFields, MissingCode
<1>2. QED
  BY <1>1 DEF Anomalies, Flag

\* The sections a grounded invoice is required to cite were found, but for the
\* one on duplicates when the warning alone tells of one.
LEMMA InvoiceSectionsFound ==
  ASSUME NEW c \in Invoice, NEW policy, NEW found, Missing(c, found) = {},
         NEW i \in DOMAIN Required(c, Anomalies(c, policy))
  PROVE  /\ i \in Nat
         /\ \/ Required(c, Anomalies(c, policy))[i] \in found
            \/ /\ c.duplicate = "warning"
               /\ Required(c, Anomalies(c, policy))[i] = "AP-APPROVAL-003"
<1> DEFINE codes == Anomalies(c, policy)
           exception == IF c.duplicate = "warning" THEN {"AP-APPROVAL-003"} ELSE {}
           A == found \cup exception
<1>1. IsInvoice(c) /\ c.duplicate \in {"no", "excerpt", "warning"}
  BY DEF Invoice, IsInvoice
<1>2. InferredForInvoice(c) \cup PartySection(c) \subseteq found
  BY <1>1 DEF Missing, Inferred
<1>3. /\ PartySection(c) \subseteq A
      /\ {"AP-APPROVAL-001", "AP-POLICY-003"} \subseteq A
  BY <1>2 DEF InferredForInvoice
<1>4. "missing_po" \in codes => "AP-APPROVAL-002" \in A
  BY <1>2, AnomaliesTell DEF InferredForInvoice, Flag
<1>5. "duplicate_invoice" \in codes => "AP-APPROVAL-003" \in A
  BY <1>1, <1>2, AnomaliesTell DEF InferredForInvoice, Flag
<1> HIDE DEF codes, A
<1>6. Required(c, codes) \in Seq(A)
  BY <1>1, <1>3, <1>4, <1>5, RequiredOfInvoice
<1>7. i \in Nat /\ Required(c, codes)[i] \in A
  BY <1>6, LenProperties DEF codes
<1>8. QED
  BY <1>7 DEF codes, A

\* A decision made with every section that was looked for cites, as far as the
\* limit of four goes, the sections its rules rest on, whatever else the two
\* searches brought.  Three citations are needed for an e-mail.
THEOREM CitationsHold ==
  ASSUME CiteLimit >= 3
  PROVE  Spec => []DecisionCitesItsRules
<1>1. Inv => DecisionCitesItsRules
  <2> SUFFICES ASSUME Inv, Finished, grounded PROVE DecisionCitesItsRules
    BY DEF DecisionCitesItsRules
  <2>0. Missing(payload, hits) = {} /\ payload \in Payload /\ CiteLimit \in Nat
    BY RetrievalAssumption DEF Inv, GroundedInv, PayloadInv, Extracted, Prepared
  <2>1. CASE IsInvoice(payload)
    <3> DEFINE needed == Required(payload, Anomalies(payload, PolicyOf(section)))
               exception == IF payload.duplicate = "warning"
                            THEN {"AP-APPROVAL-003"} ELSE {}
    <3>1. decision.cited = Cited(needed, hits) /\ payload \in Invoice
      BY <2>0, <2>1, PayloadFields DEF Inv, DecisionInv, PayablesDecision
    <3>2. ASSUME NEW i \in DOMAIN needed \cap 1 .. CiteLimit
          PROVE  needed[i] \in decision.cited \cup exception
      <4>1. i \in Nat /\ (needed[i] \in hits \/ needed[i] \in exception)
        BY <2>0, <3>1, <3>2, InvoiceSectionsFound
      <4>2. i \in DOMAIN needed /\ i <= CiteLimit
        BY <2>0, <3>2
      <4> HIDE DEF needed, exception
      <4>3. QED
        BY <3>1, <4>1, <4>2, FirstAreCited
    <3>3. {needed[i] : i \in DOMAIN needed \cap 1 .. CiteLimit}
              \subseteq decision.cited \cup exception
      <4> HIDE DEF needed, exception
      <4>1. QED
        BY <3>2
    <3>4. payload.type # "payment_confirmation"
      BY <2>1 DEF IsInvoice
    <3>5. QED
      BY <2>1, <3>3, <3>4 DEF DecisionCitesItsRules
  <2>2. CASE ~IsInvoice(payload)
    <3> DEFINE needed == Required(payload, {})
    <3>1. /\ payload \in Email /\ decision.cited = Cited(needed, hits)
          /\ payload.type \in EmailType
      BY <2>2, ReceivablesCase DEF ReceivablesDecision, Email
    <3>2. InferredForEmail(payload) \cup PartySection(payload) \subseteq hits
      BY <2>0, <2>2 DEF Missing, Inferred
    <3>3. /\ {1, 2} \subseteq DOMAIN needed
          /\ needed[1] = RequiredForEmail(payload)[1]
          /\ needed[2] = RequiredForEmail(payload)[2]
          /\ \A s \in PartySection(payload) : 3 \in DOMAIN needed /\ needed[3] = s
      BY <2>2, <3>1, RequiredOfEmail
    <3> HIDE DEF needed
    <3>4. ASSUME NEW i \in {1, 2, 3}, i \in DOMAIN needed, needed[i] \in hits
          PROVE  needed[i] \in decision.cited
      <4>1. i \in Nat /\ i <= CiteLimit
        BY <2>0
      <4>2. QED
        BY <3>1, <3>4, <4>1, FirstAreCited
    <3>5. PartySection(payload) \subseteq decision.cited
      BY <3>2, <3>3, <3>4
    <3>6. CASE payload.type = "payment_confirmation"
      <4>1. needed[1] = "AR-ESCALATION-002" /\ needed[2] = "AR-TEMPLATE-004"
        BY <3>3, <3>6 DEF RequiredForEmail, PaymentClaim
      <4>2. {"AR-ESCALATION-002", "AR-TEMPLATE-004"} \subseteq hits
        BY <3>2, <3>6 DEF InferredForEmail
      <4>3. {"AR-ESCALATION-002", "AR-TEMPLATE-004"} \subseteq decision.cited
        BY <3>3, <3>4, <4>1, <4>2
      <4>4. QED
        BY <2>2, <3>5, <3>6, <4>3 DEF DecisionCitesItsRules
    <3>7. CASE payload.type # "payment_confirmation"
      <4>1. ~PaymentClaim(payload) => "AR-ESCALATION-001" \in decision.cited
        <5>1. SUFFICES ASSUME ~PaymentClaim(payload)
                       PROVE  needed[1] = "AR-ESCALATION-001"
                              /\ "AR-ESCALATION-001" \in hits
          BY <3>3, <3>4
        <5>2. RequiredForEmail(payload)[1] = "AR-ESCALATION-001"
          <6>1. CASE EscalationOf(payload) = 1
            BY <5>1, <6>1 DEF RequiredForEmail
          <6>2. CASE EscalationOf(payload) = 2
            BY <5>1, <6>2 DEF RequiredForEmail
          <6>3. CASE EscalationOf(payload) \notin {1, 2}
            BY <5>1, <6>3 DEF RequiredForEmail
          <6>4. QED
            BY <6>1, <6>2, <6>3
        <5>3. QED
          BY <3>2, <3>3, <5>2 DEF InferredForEmail
      <4>2. QED
        BY <2>2, <3>5, <3>7, <4>1 DEF DecisionCitesItsRules
    <3>8. QED
      BY <3>6, <3>7
  <2>3. QED
    BY <2>1, <2>2
<1>2. QED
  BY <1>1, InvHolds, PTL

------------------------------------------------------------------------------
(* Types *)

\* Finitely many anomalies are found.
LEMMA AnomaliesAreFinite ==
  ASSUME NEW c, NEW policy
  PROVE  IsFiniteSet(Anomalies(c, policy))
<1> DEFINE missing == {} \cup {MissingCode["vendor_name"]} \cup {MissingCode["invoice_number"]}
                         \cup {MissingCode["due_date"]} \cup {MissingCode["amount"]}
                         \cup {MissingCode["currency"]}
           all == missing \cup {"missing_po"} \cup {"duplicate_invoice"} \cup {"terms_mismatch"}
                    \cup {"invalid_invoice"} \cup {"amount_mismatch"}
                    \cup {"approval_threshold"}
<1>1. ASSUME NEW S, NEW x, NEW y, NEW z, IsFiniteSet(S)
      PROVE  IsFiniteSet(S \cup {x} \cup {y} \cup {z})
  <2>1. IsFiniteSet(S \cup {x})
    BY <1>1, FS_AddElement
  <2>2. IsFiniteSet((S \cup {x}) \cup {y})
    BY <2>1, FS_AddElement
  <2>3. QED
    BY <2>2, FS_AddElement
<1>2. IsFiniteSet({} \cup {MissingCode["vendor_name"]} \cup {MissingCode["invoice_number"]}
                     \cup {MissingCode["due_date"]})
  BY <1>1, FS_EmptySet
<1>3. IsFiniteSet(missing)
  <2>1. IsFiniteSet(({} \cup {MissingCode["vendor_name"]} \cup {MissingCode["invoice_number"]}
                     \cup {MissingCode["due_date"]}) \cup {MissingCode["amount"]})
    BY <1>2, FS_AddElement
  <2>2. QED
    BY <2>1, FS_AddElement
<1>4. MissingFields(c) \subseteq missing
  BY DEF MissingFields, MissingCode
<1> HIDE DEF missing
<1>5. IsFiniteSet(missing \cup {"missing_po"} \cup {"duplicate_invoice"} \cup {"terms_mismatch"})
  BY <1>1, <1>3
<1>6. IsFiniteSet(all)
  BY <1>1, <1>5
<1>7. Anomalies(c, policy) \in SUBSET all
  BY <1>4 DEF Anomalies, Flag
<1>8. QED
  BY <1>6, <1>7, FS_Subset

\* Nothing is cited that was not required.
LEMMA CitedAreRequired ==
  ASSUME NEW A, NEW required \in Seq(A), NEW found
  PROVE  Cited(required, found) \subseteq A
<1>1. \A j \in DOMAIN required : required[j] \in A
  BY LenProperties
<1>2. QED
  BY <1>1 DEF Cited

\* The decision on an invoice is well typed, and its confidence stays between
\* 45 and 99.
LEMMA PayablesTyped ==
  ASSUME NEW c \in Invoice, NEW found, NEW s
  PROVE  PayablesDecision(c, found, s) \in DecisionRecord
<1> DEFINE codes == Anomalies(c, PolicyOf(s))
           confidence == PayablesConfidence(codes, Cardinality(found))
           A == PayablesSection \cup ReceivablesSection \cup Vendors \cup Customers
<1>1. IsInvoice(c) /\ PartySection(c) \subseteq Vendors
  BY DEF Invoice, IsInvoice, PartySection
<1>2. Cited(Required(c, codes), found) \in SUBSET A
  <2>1. /\ PartySection(c) \subseteq A
        /\ {"AP-APPROVAL-001", "AP-POLICY-003", "AP-APPROVAL-002", "AP-APPROVAL-003"}
             \subseteq A
    BY <1>1 DEF PayablesSection
  <2> HIDE DEF codes, A
  <2>2. Required(c, codes) \in Seq(A)
    BY <1>1, <2>1, RequiredOfInvoice
  <2>3. QED
    BY <2>2, CitedAreRequired
<1>3. confidence \in 45 .. 99
  <2>1. Cardinality(codes) \in Nat
    BY AnomaliesAreFinite, FS_CardinalityType
  <2> HIDE DEF codes
  <2>2. QED
    BY <2>1 DEF confidence, PayablesConfidence, ReasonCount, Clamped, Greater, Lesser
<1>4. Recommendation(codes) \in {"approve", "review", "reject", "missing_info"}
  BY DEF Recommendation
<1>5. PayablesReview(codes, confidence) \in BOOLEAN
  BY DEF PayablesReview
<1> HIDE DEF codes, confidence
<1>6. PayablesDecision(c, found, s) =
        [outcome |-> Recommendation(codes), confidence |-> confidence,
         review |-> PayablesReview(codes, confidence), language |-> None,
         cited |-> Cited(Required(c, codes), found)]
  BY DEF PayablesDecision, codes, confidence
<1>7. QED
  BY <1>2, <1>3, <1>4, <1>5, <1>6 DEF DecisionRecord

\* So is the draft to a customer.
LEMMA ReceivablesTyped ==
  ASSUME NEW c \in Email, NEW found
  PROVE  ReceivablesDecision(c, found) \in DecisionRecord
<1> DEFINE confidence == ReceivablesConfidence(c, Cardinality(found))
<1>1. ~IsInvoice(c) /\ PartySection(c) \subseteq Customers
  BY DEF Email, EmailType, IsInvoice, PartySection
<1>2. EscalationOf(c) \in 1 .. 4
  BY EmailNumbers
<1>3. Cited(Required(c, {}), found)
          \in SUBSET (PayablesSection \cup ReceivablesSection \cup Vendors \cup Customers)
  <2>1. Required(c, {}) \in Seq(ReceivablesSection \cup PartySection(c))
    <3> DEFINE A == ReceivablesSection \cup PartySection(c)
               party == IF PartySection(c) = {} THEN <<>>
                        ELSE <<CHOOSE s \in PartySection(c) : TRUE>>
    <3>1. ReceivablesSection \subseteq A /\ PartySection(c) \subseteq A
      OBVIOUS
    <3>2. Required(c, {}) = RequiredForEmail(c) \o party
      BY <1>1 DEF Required
    <3>3. party \in Seq(PartySection(c))
      BY PartyIsNamed
    <3> HIDE DEF A, party
    <3>4. RequiredForEmail(c) \in Seq(A) /\ party \in Seq(A)
      BY <3>1, <3>3, EmailSections
    <3>5. Required(c, {}) \in Seq(A)
      BY <3>2, <3>4, ConcatProperties
    <3>6. QED
      BY <3>5 DEF A
  <2>2. Cited(Required(c, {}), found) \subseteq ReceivablesSection \cup PartySection(c)
    BY <2>1, CitedAreRequired
  <2>3. QED
    BY <1>1, <2>2
<1>4. confidence \in 45 .. 99
  BY DEF ReceivablesConfidence
<1>5. Level[EscalationOf(c)] \in Severity
  BY <1>2 DEF Severity, Level
<1>6. ReceivablesReview(c, confidence) \in BOOLEAN
  BY DEF ReceivablesReview
<1>7. Language(c) \in Draft
  <2>1. CASE PaymentClaim(c)
    BY <2>1 DEF Language, Draft
  <2>2. CASE ~PaymentClaim(c) /\ EscalationOf(c) = 1
    BY <2>2 DEF Language, Draft
  <2>3. CASE ~PaymentClaim(c) /\ EscalationOf(c) = 2
    BY <2>3 DEF Language, Draft
  <2>4. CASE ~PaymentClaim(c) /\ EscalationOf(c) = 3
    BY <2>4 DEF Language, Draft
  <2>5. CASE ~PaymentClaim(c) /\ EscalationOf(c) = 4
    BY <2>5 DEF Language, Draft
  <2>6. QED
    BY <1>2, <2>1, <2>2, <2>3, <2>4, <2>5
<1> HIDE DEF confidence
<1>8. ReceivablesDecision(c, found) =
        [outcome |-> Level[EscalationOf(c)], confidence |-> confidence,
         review |-> ReceivablesReview(c, confidence), language |-> Language(c),
         cited |-> Cited(Required(c, {}), found)]
  BY DEF ReceivablesDecision, confidence
<1>9. QED
  BY <1>3, <1>4, <1>5, <1>6, <1>7, <1>8 DEF DecisionRecord

\* The gate on a well-typed decision is well typed.
LEMMA GateTyped ==
  ASSUME NEW d \in DecisionRecord, NEW found
  PROVE  Gate(d, found) \in GateRecord
BY DEF Gate, GateRecord, DecisionRecord, QueueStatus

\* What the searches have found before, while and after they run.
FoundInv ==
    /\ phase \notin {"heal", "raised", "clean", "done"} => initial = {}
    /\ phase = "heal" => initial \subseteq Relevant(payload)
    /\ phase \notin {"decide", "review", "raised", "clean", "done"} => hits = {}
    /\ phase \in {"decide", "review"} => hits \subseteq Relevant(payload)

\* The parts of TypeOK that the extractor writes, and those the engine writes.
ExtractorTyped ==
    /\ asked \in {None, "json_schema", "json_object"} /\ text \in BOOLEAN
    /\ payload \in Payload \cup {None} /\ attempt \in 0 .. MaxRetries
    /\ lastMode \in {None, "heuristic", "llm", "llm_json_object_fallback"}
EngineTyped ==
    /\ staged \in {"no", "partial", "whole"}
    /\ grounded \in BOOLEAN /\ section \in Vendors \cup {None}
    /\ decision \in DecisionRecord \cup {None} /\ gate \in GateRecord \cup {None}
    /\ outcome \in {None, "result", "permanent", "retry"}

\* The extractor keeps to its types.
LEMMA ExtractorTypes ==
  ASSUME Inv, ExtractorTyped, [Next]_vars
  PROVE  ExtractorTyped'
<1>1. CASE After \/ UNCHANGED vars
  BY <1>1, AfterKeeps DEF ExtractorTyped, extractorVars
<1>2. CASE Before
  <2>1. text' \in BOOLEAN
    BY <1>2 DEF Before, Accept, Stage, Read, extractorVars, ExtractorTyped
  <2>2. QED
    BY <1>2, <2>1, BeforeKeeps DEF ExtractorTyped
<1>3. CASE ExtractWithHeuristics
  <2>1. payload' \in PayloadsOfText /\ lastMode' = "heuristic"
        /\ UNCHANGED <<asked, text, attempt>>
    BY <1>3 DEF ExtractWithHeuristics
  <2>2. payload' \in Payload
    BY <2>1, NormalizedIsPrepared, BlankIsValid, ExtractorAssumption DEF PayloadsOfText, Prepared
  <2>3. QED
    BY <2>1, <2>2 DEF ExtractorTyped
<1>4. CASE ExtractWithModel
  <2>1. asked' = asked \/ asked' \in {"json_schema", "json_object"}
    BY <1>4 DEF ExtractWithModel, Setting
  <2>2. lastMode' = "llm" /\ UNCHANGED <<text, payload, attempt>>
    BY <1>4 DEF ExtractWithModel
  <2>3. QED
    BY <2>1, <2>2 DEF ExtractorTyped
<1>5. CASE Request \/ RepairWithModel
  <2>1. UNCHANGED <<asked, text, attempt>>
    BY <1>5 DEF Request, RepairWithModel
  <2>2. payload' = payload \/ \E p \in ModelPayloads : payload' = Normalized(p)
    BY <1>5 DEF Request, RepairWithModel, Answered, GatewayFails
  <2>3. lastMode' \in {lastMode, "llm_json_object_fallback"}
    BY <1>5 DEF Request, RepairWithModel, Answered, GatewayFails
  <2>4. payload' \in Payload \cup {None}
    BY <2>2, NormalizedIsPrepared, ExtractorAssumption DEF Prepared, ExtractorTyped
  <2>5. QED
    BY <2>1, <2>3, <2>4 DEF ExtractorTyped
<1>6. CASE Validate
  <2>1. UNCHANGED <<asked, text, lastMode>> /\ Prepared(payload)
    BY <1>6 DEF Validate, Inv, PayloadInv
  <2>2. payload' = payload \/ payload' \in LocalRepairs(payload)
    BY <1>6 DEF Validate
  <2>3. payload' \in Payload
    BY <2>1, <2>2, RepairIsPrepared DEF Prepared
  <2>4. attempt' \in 0 .. MaxRetries
    <3>1. attempt' = attempt \/ (~(attempt >= MaxRetries) /\ attempt' = attempt + 1)
          \/ (attempt < MaxRetries /\ attempt' = attempt + 1)
      BY <1>6 DEF Validate
    <3>2. QED
      BY <3>1, ExtractorAssumption DEF ExtractorTyped
  <2>5. QED
    BY <2>1, <2>3, <2>4 DEF ExtractorTyped
<1>7. CASE ExtractionRaises
  BY <1>7 DEF ExtractionRaises, extractorVars, ExtractorTyped
<1>8. QED
  BY <1>1, <1>2, <1>3, <1>4, <1>5, <1>6, <1>7 DEF Next, Before, After, Extract, ExtractorStep, ExtractorGoes

\* So does the engine.
LEMMA EngineTypes ==
  ASSUME Inv, ExtractorTyped, EngineTyped, [Next]_vars
  PROVE  EngineTyped'
<1>1. CASE Before \/ Route \/ StageRaises \/ Raise \/ Clean \/ UNCHANGED vars
  BY <1>1 DEF Before, Accept, Stage, Read, Route, StageRaises, Raise, Clean, EngineTyped, engineVars, vars
<1>2. CASE Extract
  BY <1>2 DEF Extract, EngineTyped, engineVars
<1>3. CASE Search \/ Heal
  BY <1>3 DEF Search, Heal, EngineTyped
<1>4. CASE Decide
  <2>1. /\ payload \in Payload /\ UNCHANGED <<staged, grounded, gate, outcome>>
    BY <1>4 DEF Decide, Inv, PayloadInv, Extracted, Prepared
  <2>2. section' \in Vendors \cup {None} /\ decision' \in DecisionRecord
    <3>1. CASE IsInvoice(payload)
      <4>1. PICK s \in VendorSections(payload, hits) :
                section' = s /\ decision' = PayablesDecision(payload, hits, s)
        BY <1>4, <3>1 DEF Decide
      <4>2. payload \in Invoice
        BY <2>1, <3>1, PayloadFields
      <4>3. VendorSections(payload, hits) \subseteq Vendors \cup {None}
        BY <4>2 DEF VendorSections, VendorsRead, Invoice
      <4>4. QED
        BY <4>1, <4>2, <4>3, PayablesTyped
    <3>2. CASE ~IsInvoice(payload)
      <4>1. payload \in Email
        BY <2>1, <3>2, PayloadFields
      <4>2. section' = section /\ decision' = ReceivablesDecision(payload, hits)
        BY <1>4, <3>2 DEF Decide
      <4>3. QED
        BY <4>1, <4>2, ReceivablesTyped DEF EngineTyped
    <3>3. QED
      BY <3>1, <3>2
  <2>3. QED
    BY <2>1, <2>2 DEF EngineTyped
<1>5. CASE Review
  <2>1. decision \in DecisionRecord
    <3>1. CASE IsInvoice(payload)
      BY <1>5, <3>1, PayloadFields, PayablesTyped
      DEF Review, Inv, PayloadInv, DecisionInv, Extracted, Prepared
    <3>2. CASE ~IsInvoice(payload)
      BY <1>5, <3>2, PayloadFields, ReceivablesTyped
      DEF Review, Inv, PayloadInv, DecisionInv, Extracted, Prepared
    <3>3. QED
      BY <3>1, <3>2
  <2>2. gate' \in GateRecord
    BY <1>5, <2>1, GateTyped DEF Review
  <2>3. QED
    BY <1>5, <2>2 DEF Review, EngineTyped
<1>6. QED
  BY <1>1, <1>2, <1>3, <1>4, <1>5 DEF Next, Before

\* Every step keeps FoundInv: only sections relevant to the case are found, and
\* a second search adds to what the first one has brought.
LEMMA FoundStep ==
  ASSUME Inv, FoundInv, [Next]_vars
  PROVE  FoundInv'
<1>1. CASE Before
  <2>1. /\ phase' \in {"stage", "read", "extract", "raised", "done"}
        /\ phase \in {"accept", "stage", "read"} /\ UNCHANGED <<initial, hits>>
    BY <1>1, BeforeKeeps DEF Before, Accept, Stage, Read
  <2>2. QED
    BY <2>1 DEF FoundInv
<1>2. CASE Extract
  <2>1. /\ phase \in {"extract", "request", "repair", "validate"}
        /\ phase' \in {"request", "repair", "validate", "route", "raised"}
        /\ UNCHANGED <<initial, hits>>
    BY <1>2 DEF Extract, engineVars, ExtractorStep, ExtractorGoes, ExtractWithHeuristics, ExtractWithModel,
       Request, Answered, GatewayFails, RepairWithModel, Validate, ExtractionRaises
  <2>2. QED
    BY <2>1 DEF FoundInv
<1>3. CASE Route \/ Raise \/ Clean \/ UNCHANGED vars
  <2>1. /\ UNCHANGED <<initial, hits, payload>>
        /\ \/ phase = "route" /\ phase' = "search"
           \/ phase = "raised" /\ phase' = "clean"
           \/ phase = "clean" /\ phase' = "done"
           \/ phase' = phase
    BY <1>3 DEF Route, Raise, Clean, engineVars, extractorVars, vars
  <2>2. QED
    BY <2>1 DEF FoundInv
<1>7. CASE StageRaises
  <2>1. phase' = "raised" /\ UNCHANGED <<initial, hits, payload>>
    BY <1>7 DEF StageRaises, engineVars, extractorVars
  <2>2. QED
    BY <2>1 DEF FoundInv
<1>4. CASE Search
  <2>1. PICK first \in FirstSearches(payload) :
            IF Missing(payload, first) = {}
            THEN hits' = first /\ phase' = "decide" /\ UNCHANGED initial
            ELSE initial' = first /\ phase' = "heal" /\ UNCHANGED hits
    BY <1>4 DEF Search
  <2>2. first \subseteq Relevant(payload) /\ phase = "search" /\ payload' = payload
    BY <1>4 DEF Search, FirstSearches, extractorVars
  <2>3. QED
    BY <2>1, <2>2 DEF FoundInv
<1>5. CASE Heal
  <2>1. PICK repair \in SUBSET Relevant(payload) :
            hits' \in Merges(initial, initial \cup repair)
    BY <1>5 DEF Heal
  <2>2. /\ phase = "heal" /\ phase' = "decide" /\ initial' = {}
        /\ payload' = payload
    BY <1>5 DEF Heal, extractorVars
  <2>3. hits' \subseteq Relevant(payload)
    BY <2>1, <2>2 DEF Merges, FoundInv
  <2>4. QED
    BY <2>2, <2>3 DEF FoundInv
<1>6. CASE Decide \/ Review
  <2>1. /\ phase \in {"decide", "review"} /\ phase' \in {"review", "clean"}
        /\ UNCHANGED <<initial, hits, payload>>
    BY <1>6 DEF Decide, Review, extractorVars
  <2>2. QED
    BY <2>1 DEF FoundInv
<1>8. QED
  BY <1>1, <1>2, <1>3, <1>4, <1>5, <1>6, <1>7 DEF Next, Before

\* Every run of the workflow keeps to its types: the confidence of a decision
\* stays between 45 and 99 for any number of anomalies, validations are
\* repeated at most MaxRetries times, and only sections that matter to the
\* case are kept.
THEOREM TypeCorrect == Spec => []TypeOK
<1>1. Init => ExtractorTyped /\ EngineTyped /\ FoundInv
  <2> SUFFICES ASSUME Init PROVE ExtractorTyped /\ EngineTyped /\ FoundInv
    OBVIOUS
  <2>1. ExtractorTyped
    <3>1. 0 \in 0..MaxRetries
      BY ExtractorAssumption
    <3>2. QED
      BY <3>1 DEF Init, ExtractorInit, ExtractorTyped
  <2>2. EngineTyped
    BY DEF Init, EngineTyped
  <2>3. FoundInv
    BY DEF Init, FoundInv
  <2>4. QED
    BY <2>1, <2>2, <2>3
<1>2. Inv /\ (ExtractorTyped /\ EngineTyped /\ FoundInv) /\ [Next]_vars
          => (ExtractorTyped /\ EngineTyped /\ FoundInv)'
  BY ExtractorTypes, EngineTypes, FoundStep
<1>3. Inv /\ ExtractorTyped /\ EngineTyped /\ FoundInv => TypeOK
  BY DEF Inv, AuditInv, ExtractorTyped, EngineTyped, FoundInv, TypeOK
<1>4. QED
  BY <1>1, <1>2, <1>3, InvHolds, PTL DEF Spec

==============================================================================
