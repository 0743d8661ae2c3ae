---------------------------- MODULE ExtractorAgent ----------------------------
(***************************************************************************)
(* Extraction (app/agents/extractor.py) over the gateway to the model      *)
(* (app/llm/gateway.py): what is asked, what can go wrong with each call,  *)
(* validation with its repairs, and the metadata that is kept.             *)
(* `phase' is the control state it shares with the engine that calls it:   *)
(* extraction begins at "extract" and ends at "route", with a payload that *)
(* satisfies the schema, or at "raised".                                   *)
(***************************************************************************)
EXTENDS FinanceCase, Sequences

CONSTANTS
    Documents,     \* what the heuristics can read out of a text
    ModelPayloads, \* what the model can answer
    MaxRetries     \* max_validation_retries

ASSUME ExtractorAssumption ==
    /\ Documents \subseteq Payload /\ ModelPayloads \subseteq Payload
    /\ MaxRetries \in Nat

\* The extractor's mode, and the model it can reach: no key, a key without the
\* package, or a client that is asked for a schema or for any JSON object first.
Setting == [mode : {"auto", "heuristic", "llm"},
            model : {"absent", "unusable", "json_schema", "json_object"}]

\* LLMGatewayMetadata
Metadata == [format : {"json_schema", "json_object"}, fallback : BOOLEAN,
             error : {"none", "failed", "empty", "not_json"}]

VARIABLES
    phase,
    asked,    \* the response format the model is asked for, None without a model
    text,     \* the document has text
    payload,  \* the working payload, None before there is one
    attempt,  \* validations that failed and were followed by a repair
    lastMode, \* last_mode_used
    history,  \* the gateway's metadata_history
    recorded, \* the agent's llm_gateway_metadata, which the audit trail shows
    calls     \* requests made to the model

extractorVars == <<asked, text, payload, attempt, lastMode, history, recorded, calls>>

ExtractorInit ==
    /\ asked = None /\ text = FALSE
    /\ payload = None /\ attempt = 0 /\ lastMode = None
    /\ history = <<>> /\ recorded = <<>> /\ calls = 0

ByModel(s) == s.mode = "llm" \/ (s.mode = "auto" /\ s.model # "absent")

\* Slip: a document without text is read like any other.
PayloadsOfAnyText == {Normalized(d) : d \in Documents}

\* The payloads _extract_with_heuristics makes of the document.
PayloadsOfText ==
    IF text THEN {Normalized(d) : d \in Documents} ELSE {Normalized(BlankInvoice)}

ExtractWithHeuristics ==
    /\ phase = "extract" /\ \E s \in Setting : ~ByModel(s)
    /\ lastMode' = "heuristic"
    /\ \E p \in PayloadsOfText : payload' = p
    /\ phase' = "validate"
    /\ UNCHANGED <<asked, text, attempt, history, recorded, calls>>

\* Without a configuration, or without the package, nothing is called.
ExtractWithModel ==
    /\ phase = "extract"
    /\ \E s \in Setting :
         /\ ByModel(s)
         /\ IF s.model \in {"absent", "unusable"}
            THEN phase' = "raised" /\ UNCHANGED asked
            ELSE phase' = "request" /\ asked' = s.model
    /\ lastMode' = "llm"
    /\ UNCHANGED <<text, payload, attempt, history, recorded, calls>>

Entry(format, fallback, error) == [format |-> format, fallback |-> fallback, error |-> error]

\* call_json has raised LLMGatewayError; the gateway keeps the metadata.
GatewayFails(entry) ==
    /\ history' = Append(history, entry)
    /\ phase' = "raised"
    /\ UNCHANGED <<payload, lastMode, recorded>>

\* Slip: only a payload is worth recording.
AnswersUnrecorded(entry) ==
    /\ history' = Append(history, entry)
    /\ recorded' = IF entry.error = "none" THEN Append(recorded, entry) ELSE recorded

\* call_json has returned, with a payload or without.
Answers(entry) ==
    /\ history' = Append(history, entry)
    /\ recorded' = Append(recorded, entry)

\* _request_llm_extraction: an answer that is not JSON goes to the repair.
Answered(format, fallback) ==
    \/ GatewayFails(Entry(format, fallback, "empty"))
    \/ /\ \/ \E p \in ModelPayloads : /\ Answers(Entry(format, fallback, "none"))
                                      /\ payload' = Normalized(p)
                                      /\ phase' = "validate"
          \/ /\ Answers(Entry(format, fallback, "not_json"))
             /\ phase' = "repair"
             /\ UNCHANGED payload
       /\ lastMode' = IF fallback THEN "llm_json_object_fallback" ELSE lastMode

Request ==
    /\ phase = "request"
    /\ \/ calls' = calls + 1 /\ Answered(asked, FALSE)
       \/ /\ asked = "json_object"
          /\ calls' = calls + 1 /\ GatewayFails(Entry("json_object", FALSE, "failed"))
       \/ /\ asked = "json_schema"
          /\ calls' = calls + 2 /\ Answered("json_object", TRUE)
       \* the fallback raises what the client raises, and nothing is kept
       \/ /\ asked = "json_schema"
          /\ calls' = calls + 2 /\ phase' = "raised"
          /\ UNCHANGED <<payload, lastMode, history, recorded>>
    /\ UNCHANGED <<asked, text, attempt>>

\* _repair_payload_with_llm asks for any JSON object, and has no fallback.
RepairWithModel ==
    /\ phase = "repair"
    /\ calls' = calls + 1
    /\ \/ \E error \in {"failed", "empty"} :
            GatewayFails(Entry("json_object", FALSE, error))
       \/ /\ Answers(Entry("json_object", FALSE, "not_json"))
          /\ phase' = "raised" /\ UNCHANGED <<payload, lastMode>>
       \/ \E p \in ModelPayloads :
            /\ Answers(Entry("json_object", FALSE, "none"))
            /\ payload' = Normalized(p)
            /\ phase' = "validate" /\ UNCHANGED lastMode
    /\ UNCHANGED <<asked, text, attempt>>

\* _repair_payload_locally only finds more fields missing, for the type it
\* takes the text to have.
LocalRepairs(p) ==
    {Normalized([p EXCEPT !.listed = @ \cup (RequiredFields(t) \ p.filled)]) :
        t \in DocumentType}

\* Slip: only a repair by the model is an attempt.
ValidateUncounted ==
    /\ phase = "validate"
    /\ \/ SchemaValid(payload) /\ phase' = "route" /\ UNCHANGED <<payload, attempt>>
       \/ /\ ~SchemaValid(payload) /\ attempt >= MaxRetries
          /\ phase' = "raised" /\ UNCHANGED <<payload, attempt>>
       \/ /\ ~SchemaValid(payload) /\ attempt < MaxRetries
          /\ IF asked # None THEN attempt' = attempt + 1 /\ phase' = "repair" /\ UNCHANGED payload
             ELSE payload' \in LocalRepairs(payload) /\ UNCHANGED <<attempt, phase>>
    /\ UNCHANGED <<asked, text, lastMode, history, recorded, calls>>

\* Slip: one repair more than there are retries.
ValidateOnceMore ==
    /\ phase = "validate"
    /\ \/ SchemaValid(payload) /\ phase' = "route" /\ UNCHANGED <<payload, attempt>>
       \/ /\ ~SchemaValid(payload) /\ attempt > MaxRetries
          /\ phase' = "raised" /\ UNCHANGED <<payload, attempt>>
       \/ /\ ~SchemaValid(payload) /\ attempt <= MaxRetries
          /\ attempt' = attempt + 1
          /\ IF asked # None THEN phase' = "repair" /\ UNCHANGED payload
             ELSE payload' \in LocalRepairs(payload) /\ UNCHANGED phase
    /\ UNCHANGED <<asked, text, lastMode, history, recorded, calls>>

\* _validate_with_retry
Validate ==
    /\ phase = "validate"
    /\ \/ SchemaValid(payload) /\ phase' = "route" /\ UNCHANGED <<payload, attempt>>
       \/ /\ ~SchemaValid(payload) /\ attempt >= MaxRetries
          /\ phase' = "raised" /\ UNCHANGED <<payload, attempt>>
       \/ /\ ~SchemaValid(payload) /\ attempt < MaxRetries
          /\ attempt' = attempt + 1
          /\ IF asked # None THEN phase' = "repair" /\ UNCHANGED payload
             ELSE payload' \in LocalRepairs(payload) /\ UNCHANGED phase
    /\ UNCHANGED <<asked, text, lastMode, history, recorded, calls>>

\* Any of these may raise besides: a line item of the text that LineItem rejects,
\* a prompt file that cannot be read, an answer without choices.
ExtractionRaises ==
    /\ phase \in {"extract", "request", "repair", "validate"}
    /\ phase' = "raised"
    /\ UNCHANGED extractorVars

\* The extraction goes on by itself.
ExtractorGoes ==
    \/ ExtractWithHeuristics \/ ExtractWithModel
    \/ Request \/ RepairWithModel \/ Validate

ExtractorStep == ExtractorGoes \/ ExtractionRaises

================================================================================
