---------------------------- MODULE GeminiInvoke ----------------------------
(***************************************************************************)
(* One call of GeminiProvider for a PDF: the client it is routed to, the   *)
(* attempts of each client, the escalation from the relay to the official  *)
(* API and from the official parse model to the complex one, and the       *)
(* signature under which the caller caches the answer.                     *)
(***************************************************************************)
EXTENDS Naturals

CONSTANTS
    MaxRetries,     \* gemini_max_retries, at least 1
    Settings        \* the settings and documents a call may meet

Clients == {"relay", "parse", "complex"}

\* official: an official key is configured; relayKey: a relay key is;
\* escalate, complex: the two escalation flags; sameModel: parse and complex
\* name one model; large: the file is over the threshold; extract: extraction,
\* not classification; listed, lowValue: the schema is in
\* official_complex_escalation_doc_types, in LOW_VALUE_DOC_TYPES.
Setting == [official : BOOLEAN, relayKey : BOOLEAN, escalate : BOOLEAN,
            complex : BOOLEAN, sameModel : BOOLEAN, large : BOOLEAN,
            extract : BOOLEAN, listed : BOOLEAN, lowValue : BOOLEAN]

ASSUME GeminiConstants == MaxRetries \in Nat \ {0} /\ Settings \subseteq Setting

\* What a parsed answer amounts to: an empty "data", a confidence that is a
\* number or is not, and whether it passes the output schema.
Answer == {a \in [empty : BOOLEAN, confidence : {"low", "high", "text"}, valid : BOOLEAN] :
             a.confidence = "text" => ~a.valid}
NoAnswer == [empty |-> TRUE, confidence |-> "low", valid |-> FALSE]

Errors == {"llm_timeout", "llm_transport_error", "llm_parse_error",
           "llm_validation_error", "ValueError"}

VARIABLES
    set,        \* the settings of this call
    client,     \* the client being called
    phase,      \* why: "primary", "quality", "complex", "error"
    attempt,    \* the attempt of this client's loop, from 1
    sent,       \* HTTP requests sent through each client
    answer,     \* the answer of the last client that gave one
    result      \* "pending", "answer", or the error that leaves the provider

vars == <<set, client, phase, attempt, sent, answer, result>>

-----------------------------------------------------------------------------
(* Routing and signatures.  A faulty variant of a definition precedes it. *)

\* A fault: the official API is routed to whatever the size.
Primary_anySize(s) == IF s.official THEN "parse" ELSE "relay"

\* _route_primary: relay first, official parse for large files.
Primary(s) == IF s.large /\ s.official THEN "parse" ELSE "relay"

\* The client to escalate to, if there is one.
HasSecondary(s) == Primary(s) = "relay" /\ s.official

Escalates(s) == s.official /\ s.escalate

\* model_signature of the provider and model that an answer's meta names.  Parse
\* and complex have key and endpoint in common: with one model, one signature.
ModelSignature(c, s) == IF c = "parse" /\ s.sameModel THEN "complex" ELSE c

\* A fault: the lookup forgets the complex model.
LookupSignatures_noComplex(s) ==
    {ModelSignature(c, s) : c \in {d \in {"relay", "parse"} : d # "relay" => s.official}}

\* cache_model_signatures: where the caller looks for a cached answer.
LookupSignatures(s) ==
    {ModelSignature(c, s) : c \in {d \in Clients : /\ d # "relay" => s.official
                                                   /\ d = "complex" => s.complex}}

-----------------------------------------------------------------------------
(* Leaving a client *)

Call(c, why) == client' = c /\ phase' = why /\ attempt' = 1 /\ UNCHANGED <<set, result>>

Leave(r) == result' = r /\ UNCHANGED <<set, client, phase, attempt>>

\* A fault: the escalation is retried for as long as it fails.
OnError_again(code) ==
    IF Escalates(set) /\ HasSecondary(set)
      THEN Call("parse", "error")
      ELSE Leave(code)

\* The except clause of _invoke_json.  A call of the secondary made inside it
\* is not caught; one made for the quality of the relay's answer is.
OnError(code) ==
    IF phase # "error" /\ Escalates(set) /\ HasSecondary(set)
      THEN Call("parse", "error")
      ELSE Leave(code)

\* The gate to the complex model after the answer a of the primary.
WantsComplex(s, a) ==
    /\ s.official /\ s.complex /\ Primary(s) = "parse" /\ s.extract
    /\ s.listed \/ a.confidence = "low"
    /\ ~s.lowValue /\ ~s.sameModel

\* float(confidence) is reached and fails.
Confused(s, a) ==
    /\ a.confidence = "text" /\ s.extract
    /\ \/ a.empty /\ Escalates(s)
       \/ s.official /\ s.complex /\ Primary(s) = "parse" /\ ~s.listed

\* A fault: emptiness only counts with a low confidence.
WantsQuality_onlyLow(s, a) ==
    s.extract /\ a.empty /\ a.confidence = "low" /\ Escalates(s) /\ HasSecondary(s)

\* _should_escalate_on_extraction_quality: an empty extraction.
WantsQuality(s, a) == s.extract /\ a.empty /\ Escalates(s) /\ HasSecondary(s)

\* The answer is validated after _invoke_json: no escalation catches that.
Return(a) == Leave(IF a.valid THEN "answer" ELSE "llm_validation_error")

\* A client of _invoke_json gave the answer a.
OnAnswer(a) ==
    /\ answer' = a
    /\ \/ phase = "primary" /\ Confused(set, a) /\ Leave("ValueError")
       \/ /\ phase = "primary" /\ ~Confused(set, a)
          /\ \/ WantsQuality(set, a) /\ Call("parse", "quality")
             \/ WantsComplex(set, a) /\ Call("complex", "complex")
             \/ ~WantsQuality(set, a) /\ ~WantsComplex(set, a) /\ Return(a)
       \/ phase # "primary" /\ Return(a)

-----------------------------------------------------------------------------
(* The attempts of generate_content_with_meta *)

Init ==
    /\ set \in Settings
    /\ client = Primary(set) /\ phase = "primary" /\ attempt = 1
    /\ sent = [c \in Clients |-> 0]
    /\ answer = NoAnswer
    /\ result = "pending"

HasKey == client = "relay" => set.relayKey

\* A fault: a missing key starts the loop of attempts again.
NoKey_again ==
    /\ result = "pending" /\ ~HasKey
    /\ attempt' = (attempt % MaxRetries) + 1
    /\ UNCHANGED <<set, client, phase, sent, answer, result>>

\* _headers fails before a request is sent.
NoKey ==
    /\ result = "pending" /\ ~HasKey
    /\ OnError("llm_transport_error")
    /\ UNCHANGED <<sent, answer>>

Send == result = "pending" /\ HasKey /\ sent' = [sent EXCEPT ![client] = @ + 1]

\* A fault: one attempt too many.
Retry_oneMore ==
    /\ Send /\ attempt <= MaxRetries
    /\ attempt' = attempt + 1
    /\ UNCHANGED <<set, client, phase, answer, result>>

\* A timeout or a network failure: the next attempt, if there is one.
Retry ==
    /\ Send /\ attempt < MaxRetries
    /\ attempt' = attempt + 1
    /\ UNCHANGED <<set, client, phase, answer, result>>

\* The last attempt timed out or met a network failure.
Exhausted(code) ==
    /\ Send /\ attempt >= MaxRetries
    /\ OnError(code)
    /\ UNCHANGED answer

\* An HTTP error status ends the loop at once; so does a text that is empty or
\* is not a JSON object.
Rejected(code) == Send /\ OnError(code) /\ UNCHANGED answer

\* The body is not JSON: response.json raises what no clause catches.
Garbled == Send /\ Leave("ValueError") /\ UNCHANGED answer

Answered == Send /\ \E a \in Answer : OnAnswer(a)

Next ==
    \/ NoKey \/ Retry
    \/ \E code \in {"llm_timeout", "llm_transport_error"} : Exhausted(code)
    \/ \E code \in {"llm_transport_error", "llm_parse_error"} : Rejected(code)
    \/ Garbled \/ Answered

\* Each request has a timeout, so the coroutine is resumed after each of them.
Spec == Init /\ [][Next]_vars /\ WF_vars(Next)

-----------------------------------------------------------------------------
(* Correctness *)

\* Every variable has its type; no attempt beyond the last is ever begun.
TypeOK ==
    /\ set \in Settings
    /\ client \in Clients
    /\ phase \in {"primary", "quality", "complex", "error"}
    /\ attempt \in 1..MaxRetries
    /\ sent \in [Clients -> Nat]
    /\ answer \in Answer
    /\ result \in {"pending", "answer"} \cup Errors

\* One document costs at most MaxRetries requests to the relay and to the
\* complex model, never to all three models, and twice that to the parse model:
\* an escalation for an empty answer that fails is escalated again.
RequestsBounded ==
    /\ sent["relay"] <= MaxRetries /\ sent["complex"] <= MaxRetries
    /\ sent["parse"] <= 2 * MaxRetries
    /\ sent["complex"] > 0 => sent["relay"] = 0 /\ sent["parse"] <= MaxRetries

\* The caller caches an answer under the signature of the client that gave it,
\* where its next lookup, with the same settings, finds it.
AnswersAreFoundAgain ==
    result = "answer" => ModelSignature(client, set) \in LookupSignatures(set)

\* An extraction that found nothing is not taken from the relay where the
\* official API could be asked.
NoEmptyRelayAnswer ==
    result = "answer" /\ client = "relay" /\ set.extract /\ Escalates(set) => ~answer.empty

\* An official request is the last resort: a document that fits the relay costs
\* one only when escalation is on and the relay has no key, was asked, or both.
OfficialIsASecondChoice ==
    sent["parse"] + sent["complex"] > 0 /\ ~set.large =>
        set.escalate /\ (set.relayKey => sent["relay"] > 0)

\* Every call ends, with an answer or an error.
CallEnds == <>(result # "pending")
=============================================================================
