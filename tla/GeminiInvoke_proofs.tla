------------------------- MODULE GeminiInvoke_proofs -------------------------
(***************************************************************************)
(* Theorems about GeminiInvoke, for every number of retries and every set  *)
(* of settings and documents.                                              *)
(***************************************************************************)
EXTENDS GeminiInvoke, TLAPS

\* The requests that the attempts of the current client have sent, at most.
Tried == IF result = "pending" THEN attempt - 1 ELSE attempt

\* What each phase has sent: the induction needs to know which clients were
\* called before the current one, and that none of them is called twice but
\* the parse model, when its call for quality fails.
SentInPhase ==
    /\ phase = "primary" => /\ client = Primary(set)
                            /\ sent[client] <= Tried
                            /\ \A c \in Clients \ {client} : sent[c] = 0
    /\ phase = "quality" => /\ client = "parse" /\ HasSecondary(set) /\ set.escalate
                            /\ sent["relay"] <= MaxRetries
                            /\ sent["parse"] <= Tried /\ sent["complex"] = 0
                            /\ set.relayKey => sent["relay"] > 0
    /\ phase = "error" => /\ client = "parse" /\ HasSecondary(set) /\ set.escalate
                          /\ sent["relay"] <= MaxRetries
                          /\ sent["parse"] <= MaxRetries + Tried /\ sent["complex"] = 0
                          /\ set.relayKey => sent["relay"] > 0
    /\ phase = "complex" => /\ client = "complex" /\ Primary(set) = "parse"
                            /\ sent["relay"] = 0
                            /\ sent["parse"] <= MaxRetries
                            /\ sent["complex"] <= Tried

IInv == TypeOK /\ SentInPhase

\* The invariant gives the bound on requests and the order of providers.
LEMMA PhasesBound == IInv => RequestsBounded /\ OfficialIsASecondChoice
<1> SUFFICES ASSUME IInv PROVE RequestsBounded /\ OfficialIsASecondChoice
  OBVIOUS
<1> USE GeminiConstants DEF IInv, TypeOK, Clients
<1>1. Tried \in 0..MaxRetries
  BY DEF Tried
<1>2. set \in Setting
  OBVIOUS
<1>3. CASE phase = "primary"
  BY <1>1, <1>2, <1>3 DEF SentInPhase, Primary, Setting, RequestsBounded, OfficialIsASecondChoice
<1>4. CASE phase \in {"quality", "error"}
  BY <1>1, <1>2, <1>4 DEF SentInPhase, Primary, HasSecondary, Setting, RequestsBounded, OfficialIsASecondChoice
<1>5. CASE phase = "complex"
  BY <1>1, <1>2, <1>5 DEF SentInPhase, Primary, Setting, RequestsBounded, OfficialIsASecondChoice
<1>6. QED BY <1>3, <1>4, <1>5

-----------------------------------------------------------------------------
(* The invariant is inductive. *)

\* A call begins with its primary client and no request.
LEMMA InitPhase == Init => IInv
BY GeminiConstants DEF Init, IInv, TypeOK, SentInPhase, Primary, Clients, Tried, Answer, NoAnswer

\* A request of the current attempt is sent, or fails for want of a key.
LEMMA OnErrorKeeps ==
    ASSUME IInv, result = "pending", NEW code \in Errors, OnError(code),
           answer' \in Answer,
           \/ sent' = [sent EXCEPT ![client] = @ + 1]
           \/ sent' = sent /\ ~HasKey
    PROVE  IInv'
<1> USE GeminiConstants DEF Clients
<1>0. TypeOK /\ SentInPhase /\ set \in Setting
  BY DEF IInv, TypeOK
<1>s. sent' \in [Clients -> Nat]
  BY <1>0 DEF TypeOK
<1>1. CASE phase # "error" /\ Escalates(set) /\ HasSecondary(set)
  <2>1. client' = "parse" /\ phase' = "error" /\ attempt' = 1 /\ set' = set /\ result' = result
    BY <1>1 DEF OnError, Call
  <2>2. TypeOK'
    BY <1>0, <1>s, <2>1 DEF TypeOK
  <2>3. phase \in {"primary", "quality"}
    BY <1>0, <1>1 DEF TypeOK, SentInPhase, HasSecondary
  <2>4. CASE phase = "primary"
    <3>1. client = "relay" /\ sent["parse"] = 0 /\ sent["complex"] = 0 /\ sent["relay"] <= attempt - 1
      BY <1>0, <1>1, <2>4 DEF SentInPhase, HasSecondary, Tried
    <3>2. sent'["parse"] = 0 /\ sent'["complex"] = 0 /\ sent'["relay"] <= MaxRetries
      BY <1>0, <3>1 DEF TypeOK
    <3>3. set.relayKey => sent'["relay"] > 0
      BY <1>0, <3>1 DEF TypeOK, HasKey
    <3>4. QED BY <1>0, <1>1, <2>1, <2>2, <3>2, <3>3 DEF IInv, SentInPhase, Tried, Escalates, HasSecondary
  <2>5. CASE phase = "quality"
    <3>1. client = "parse" /\ sent["parse"] <= attempt - 1 /\ sent["complex"] = 0
          /\ sent["relay"] <= MaxRetries /\ (set.relayKey => sent["relay"] > 0)
      BY <1>0, <2>5 DEF SentInPhase, Tried
    <3>2. sent'["parse"] <= MaxRetries /\ sent'["complex"] = 0 /\ sent'["relay"] = sent["relay"]
      BY <1>0, <3>1 DEF TypeOK
    <3>3. QED BY <1>0, <1>1, <2>1, <2>2, <3>1, <3>2 DEF IInv, SentInPhase, Tried, Escalates, HasSecondary
  <2>6. QED BY <2>3, <2>4, <2>5
<1>2. CASE ~(phase # "error" /\ Escalates(set) /\ HasSecondary(set))
  <2>1. result' = code /\ UNCHANGED <<set, client, phase, attempt>>
    BY <1>2 DEF OnError, Leave
  <2>2. TypeOK'
    BY <1>0, <1>s, <2>1 DEF TypeOK
  <2>3. Tried = attempt - 1 /\ Tried' = attempt
    BY <2>1 DEF Tried, Errors
  <2>4. SentInPhase'
    BY <1>0, <2>1, <2>3 DEF TypeOK, SentInPhase, HasSecondary, Primary
  <2>5. QED BY <2>2, <2>4 DEF IInv
<1>3. QED BY <1>1, <1>2

\* A request was sent and the call is over.
LEMMA LeaveKeeps ==
    ASSUME IInv, Send, NEW r \in {"answer"} \cup Errors, Leave(r), answer' \in Answer
    PROVE  IInv'
<1> USE GeminiConstants DEF Clients
<1>1. TypeOK /\ SentInPhase /\ result = "pending"
  BY DEF IInv, Send
<1>2. result' = r /\ UNCHANGED <<set, client, phase, attempt>>
      /\ sent' = [sent EXCEPT ![client] = @ + 1]
  BY DEF Leave, Send
<1>3. TypeOK'
  BY <1>1, <1>2 DEF TypeOK
<1>4. Tried = attempt - 1 /\ Tried' = attempt
  BY <1>1, <1>2 DEF Tried, Errors
<1>5. SentInPhase'
  BY <1>1, <1>2, <1>4 DEF TypeOK, SentInPhase, HasSecondary, Primary
<1>6. QED BY <1>3, <1>5 DEF IInv

\* The primary's answer makes the provider call a second client.
LEMMA AnsweredKeeps ==
    ASSUME IInv, Send, NEW a \in Answer, OnAnswer(a)
    PROVE  IInv'
<1> USE GeminiConstants DEF Clients
<1>0. TypeOK /\ SentInPhase /\ result = "pending" /\ set \in Setting /\ answer' \in Answer
      /\ sent' = [sent EXCEPT ![client] = @ + 1] /\ HasKey
  BY DEF IInv, TypeOK, Send, OnAnswer
<1>1. CASE phase = "primary" /\ WantsQuality(set, a) /\ Call("parse", "quality")
  <2>1. client = "relay" /\ sent["relay"] <= attempt - 1 /\ sent["parse"] = 0 /\ sent["complex"] = 0
    BY <1>0, <1>1 DEF SentInPhase, WantsQuality, HasSecondary, Tried
  <2>2. sent'["relay"] <= MaxRetries /\ sent'["relay"] > 0 /\ sent'["parse"] = 0 /\ sent'["complex"] = 0
    BY <1>0, <2>1 DEF TypeOK
  <2>3. client' = "parse" /\ phase' = "quality" /\ attempt' = 1 /\ set' = set /\ result' = result
    BY <1>1 DEF Call
  <2>4. TypeOK'
    BY <1>0, <2>3 DEF TypeOK
  <2>5. HasSecondary(set) /\ set.escalate
    BY <1>1 DEF WantsQuality, Escalates
  <2>6. SentInPhase'
    BY <1>0, <2>2, <2>3, <2>5 DEF SentInPhase, HasSecondary, Tried, Primary
  <2>7. QED BY <2>4, <2>6 DEF IInv
<1>2. CASE phase = "primary" /\ WantsComplex(set, a) /\ Call("complex", "complex")
  <2>1. client = "parse" /\ sent["parse"] <= attempt - 1 /\ sent["relay"] = 0 /\ sent["complex"] = 0
    BY <1>0, <1>2 DEF SentInPhase, WantsComplex, Tried
  <2>2. sent'["parse"] <= MaxRetries /\ sent'["relay"] = 0 /\ sent'["complex"] = 0
    BY <1>0, <2>1 DEF TypeOK
  <2>3. client' = "complex" /\ phase' = "complex" /\ attempt' = 1 /\ set' = set /\ result' = result
    BY <1>2 DEF Call
  <2>4. TypeOK'
    BY <1>0, <2>3 DEF TypeOK
  <2>5. SentInPhase'
    BY <1>0, <1>2, <2>2, <2>3 DEF SentInPhase, WantsComplex, Tried, Primary
  <2>6. QED BY <2>4, <2>5 DEF IInv
<1>3. CASE Leave("ValueError") \/ Return(a)
  <2>1. PICK r \in {"answer"} \cup Errors : Leave(r)
    BY <1>3 DEF Return, Errors
  <2>2. QED BY <1>0, <2>1, LeaveKeeps
<1>4. QED BY <1>1, <1>2, <1>3 DEF OnAnswer

\* Every step keeps the invariant: one case per action.
LEMMA StepKeeps == IInv /\ [Next]_vars => IInv'
<1> SUFFICES ASSUME IInv, [Next]_vars PROVE IInv'
  OBVIOUS
<1> USE GeminiConstants
<1>0. TypeOK /\ answer \in Answer
  BY DEF IInv, TypeOK
<1>1. CASE NoKey
  BY <1>0, <1>1, OnErrorKeeps DEF NoKey, Errors
<1>2. CASE Retry
  <2>1. result = "pending" /\ attempt < MaxRetries /\ attempt' = attempt + 1
        /\ sent' = [sent EXCEPT ![client] = @ + 1] /\ UNCHANGED <<set, client, phase, answer, result>>
    BY <1>2 DEF Retry, Send
  <2>2. TypeOK'
    BY <1>0, <2>1 DEF TypeOK, Clients
  <2>3. Tried = attempt - 1 /\ Tried' = attempt
    BY <2>1, <1>0 DEF Tried, TypeOK
  <2>4. SentInPhase'
    BY <1>0, <2>1, <2>3 DEF IInv, TypeOK, SentInPhase, HasSecondary, Primary, Clients
  <2>5. QED BY <2>2, <2>4 DEF IInv
<1>3. CASE \E code \in {"llm_timeout", "llm_transport_error"} : Exhausted(code)
  BY <1>0, <1>3, OnErrorKeeps DEF Exhausted, Send, Errors
<1>4. CASE \E code \in {"llm_transport_error", "llm_parse_error"} : Rejected(code)
  BY <1>0, <1>4, OnErrorKeeps DEF Rejected, Send, Errors
<1>5. CASE Garbled
  BY <1>0, <1>5, LeaveKeeps DEF Garbled, Errors
<1>6. CASE Answered
  BY <1>6, AnsweredKeeps DEF Answered
<1>7. CASE UNCHANGED vars
  BY <1>7 DEF vars, IInv, TypeOK, SentInPhase, HasSecondary, Primary, Tried
<1>8. QED BY <1>1, <1>2, <1>3, <1>4, <1>5, <1>6, <1>7 DEF Next

\* Every variable keeps its type (the attempt counter its bound).
THEOREM InvokeTypes == Spec => []TypeOK
<1>1. IInv => TypeOK
  BY DEF IInv
<1>2. QED BY <1>1, InitPhase, StepKeeps, PTL DEF Spec

\* One document costs a bounded number of requests (generate_content_with_meta's
\* attempts under _invoke_json's escalations), whatever the settings.
THEOREM RequestBound == Spec => []RequestsBounded
BY PhasesBound, InitPhase, StepKeeps, PTL DEF Spec

\* The official API is asked about a small document only after the relay, and
\* only when escalation is on (_route_primary and _should_escalate_on_error).
THEOREM OfficialComesSecond == Spec => []OfficialIsASecondChoice
BY PhasesBound, InitPhase, StepKeeps, PTL DEF Spec

-----------------------------------------------------------------------------
(* What the answer was asked for *)

\* The complex model is called under its own flag only, and an answer that is
\* returned from the primary is not one that wants a second opinion.
AnswerInPhase ==
    /\ phase = "complex" => set.official /\ set.complex
    /\ result = "answer" /\ phase = "primary" => ~WantsQuality(set, answer)

LEMMA InitAnswer == Init => AnswerInPhase
BY DEF Init, AnswerInPhase

LEMMA AnswerStep == IInv /\ AnswerInPhase /\ [Next]_vars => AnswerInPhase'
<1> SUFFICES ASSUME IInv, AnswerInPhase, [Next]_vars PROVE AnswerInPhase'
  OBVIOUS
<1>1. ASSUME NEW code \in Errors, OnError(code), result = "pending" PROVE AnswerInPhase'
  BY <1>1 DEF OnError, Call, Leave, Errors, AnswerInPhase
<1>2. CASE NoKey
  BY <1>1, <1>2 DEF NoKey, Errors
<1>3. CASE Retry
  BY <1>3 DEF Retry, Send, AnswerInPhase
<1>4. CASE \E code \in {"llm_timeout", "llm_transport_error"} : Exhausted(code)
  BY <1>1, <1>4 DEF Exhausted, Send, Errors
<1>5. CASE \E code \in {"llm_transport_error", "llm_parse_error"} : Rejected(code)
  BY <1>1, <1>5 DEF Rejected, Send, Errors
<1>6. CASE Garbled
  BY <1>6 DEF Garbled, Leave, AnswerInPhase
<1>7. ASSUME NEW a \in Answer, Send, OnAnswer(a) PROVE AnswerInPhase'
  <2>1. answer' = a /\ result = "pending"
    BY <1>7 DEF OnAnswer, Send
  <2>2. CASE phase = "primary" /\ Confused(set, a) /\ Leave("ValueError")
    BY <2>1, <2>2 DEF Leave, AnswerInPhase
  <2>3. CASE Call("parse", "quality")
    BY <2>1, <2>3 DEF Call, AnswerInPhase
  <2>4. CASE WantsComplex(set, a) /\ Call("complex", "complex")
    BY <2>1, <2>4 DEF Call, WantsComplex, AnswerInPhase
  <2>5. CASE ~WantsQuality(set, a) /\ Return(a)
    BY <2>1, <2>5 DEF Return, Leave, WantsQuality, Escalates, HasSecondary, Primary, AnswerInPhase
  <2>6. CASE phase # "primary" /\ Return(a)
    BY <2>1, <2>6 DEF Return, Leave, AnswerInPhase
  <2>7. QED BY <1>7, <2>2, <2>3, <2>4, <2>5, <2>6 DEF OnAnswer
<1>8. CASE UNCHANGED vars
  BY <1>8 DEF vars, AnswerInPhase, WantsQuality, Escalates, HasSecondary, Primary
<1>9. QED BY <1>2, <1>3, <1>4, <1>5, <1>6, <1>7, <1>8 DEF Next, Answered

\* A client is called only where the lookup of the next call has its signature.
LEMMA LookupCovers == IInv /\ AnswerInPhase => AnswersAreFoundAgain
<1> SUFFICES ASSUME IInv, AnswerInPhase
             PROVE  ModelSignature(client, set) \in LookupSignatures(set)
  BY DEF AnswersAreFoundAgain
<1>0. client \in Clients /\ phase \in {"primary", "quality", "complex", "error"} /\ SentInPhase
  BY DEF IInv, TypeOK
<1>1. client # "relay" => set.official
  BY <1>0 DEF SentInPhase, AnswerInPhase, Primary, HasSecondary
<1>2. client = "complex" => set.complex
  BY <1>0 DEF SentInPhase, AnswerInPhase, Primary
<1>3. client \in {d \in Clients : /\ d # "relay" => set.official
                                  /\ d = "complex" => set.complex}
  BY <1>0, <1>1, <1>2
<1>4. QED BY <1>3 DEF LookupSignatures

\* The relay is asked in the primary phase only.
LEMMA RelayIsPrimary == IInv /\ AnswerInPhase => NoEmptyRelayAnswer
<1> SUFFICES ASSUME IInv, AnswerInPhase, result = "answer", client = "relay",
                    set.extract, Escalates(set)
             PROVE  ~answer.empty
  BY DEF NoEmptyRelayAnswer
<1>1. phase = "primary" /\ Primary(set) = "relay"
  BY DEF IInv, TypeOK, SentInPhase
<1>2. QED BY <1>1 DEF AnswerInPhase, WantsQuality, HasSecondary, Escalates

LEMMA AnswersAlways == Spec => [](IInv /\ AnswerInPhase)
BY InitPhase, StepKeeps, InitAnswer, AnswerStep, PTL DEF Spec

\* An answer is cached under a signature that cache_model_signatures of the
\* same settings contains, through whichever clients the call went.
THEOREM FoundAgain == Spec => []AnswersAreFoundAgain
BY AnswersAlways, LookupCovers, PTL

\* An empty extraction of the relay never leaves _invoke_json where escalation
\* to the official API is possible.
THEOREM RelayAnswersSomething == Spec => []NoEmptyRelayAnswer
BY AnswersAlways, RelayIsPrimary, PTL

-----------------------------------------------------------------------------
(* The call runs out of steps.  CallEnds needs fairness; what it needs of the *)
(* code is that no path of escalations and attempts goes on for ever.         *)

\* How many clients the present phase and those after it can still call.
ClientsLeft == CASE phase = "primary" -> 3 [] phase \in {"quality", "complex"} -> 2 [] OTHER -> 1

\* A bound on the steps that the call can still take.
StepsLeft == IF result = "pending" THEN ClientsLeft * MaxRetries + 1 - attempt ELSE 0

\* A step that stays with its client uses up an attempt, one that calls the
\* next client begins a later phase, and one that leaves is the last.
StepsRunOut == [][StepsLeft' \in Nat /\ StepsLeft' < StepsLeft]_vars

\* The bound is a number, which is positive while the call goes on.
LEMMA StepsLeftBound ==
    ASSUME IInv
    PROVE  /\ StepsLeft \in Nat
           /\ result = "pending" => StepsLeft > (ClientsLeft - 1) * MaxRetries
                                 /\ StepsLeft > 0
<1> USE GeminiConstants
<1>1. attempt \in 1..MaxRetries /\ MaxRetries \in Nat \ {0}
      /\ phase \in {"primary", "quality", "complex", "error"}
  BY DEF IInv, TypeOK
<1>2. CASE phase = "primary"
  BY <1>1, <1>2 DEF StepsLeft, ClientsLeft
<1>3. CASE phase \in {"quality", "complex"}
  BY <1>1, <1>3 DEF StepsLeft, ClientsLeft
<1>4. CASE phase = "error"
  BY <1>1, <1>4 DEF StepsLeft, ClientsLeft
<1>5. QED BY <1>1, <1>2, <1>3, <1>4

\* A call of a client in a later phase.
LEMMA CallLowers ==
    ASSUME IInv, result = "pending", NEW c, NEW why, Call(c, why),
           \/ phase = "primary" /\ why \in {"quality", "complex", "error"}
           \/ phase = "quality" /\ why = "error"
    PROVE  StepsLeft' \in Nat /\ StepsLeft' < StepsLeft
<1> USE GeminiConstants
<1>1. MaxRetries \in Nat \ {0} /\ result' = "pending" /\ attempt' = 1 /\ phase' = why
  BY DEF Call
<1>2. StepsLeft \in Nat /\ StepsLeft > (ClientsLeft - 1) * MaxRetries
  BY StepsLeftBound
<1>3. StepsLeft' = ClientsLeft' * MaxRetries
  <2>1. StepsLeft' = ClientsLeft' * MaxRetries + 1 - 1
    BY <1>1 DEF StepsLeft
  <2>2. ClientsLeft' \in {1, 2}
    BY <1>1 DEF ClientsLeft
  <2>3. QED BY <1>1, <2>1, <2>2
<1>4. CASE phase = "primary" /\ why \in {"quality", "complex"}
  BY <1>1, <1>2, <1>3, <1>4 DEF ClientsLeft
<1>5. CASE phase = "primary" /\ why = "error"
  BY <1>1, <1>2, <1>3, <1>5 DEF ClientsLeft
<1>6. CASE phase = "quality" /\ why = "error"
  BY <1>1, <1>2, <1>3, <1>6 DEF ClientsLeft
<1>7. QED BY <1>4, <1>5, <1>6

\* Leaving the provider with a result.
LEMMA LeaveLowers ==
    ASSUME IInv, result = "pending", NEW r, r # "pending", Leave(r)
    PROVE  StepsLeft' \in Nat /\ StepsLeft' < StepsLeft
<1>1. StepsLeft' = 0
  BY DEF Leave, StepsLeft
<1>2. QED BY <1>1, StepsLeftBound

\* Every step of the call lowers the bound: one case per action.
LEMMA StepLowers == IInv /\ [Next]_vars => [StepsLeft' \in Nat /\ StepsLeft' < StepsLeft]_vars
<1> SUFFICES ASSUME IInv, Next PROVE StepsLeft' \in Nat /\ StepsLeft' < StepsLeft
  BY DEF vars
<1>1. ASSUME NEW code \in Errors, OnError(code), result = "pending"
      PROVE  StepsLeft' \in Nat /\ StepsLeft' < StepsLeft
  <2>1. CASE Leave(code)
    BY <1>1, <2>1, LeaveLowers DEF Errors
  <2>2. CASE phase # "error" /\ HasSecondary(set) /\ Call("parse", "error")
    <3>1. phase \in {"primary", "quality"}
      BY <2>2 DEF IInv, TypeOK, SentInPhase, HasSecondary
    <3>2. QED BY <1>1, <2>2, <3>1, CallLowers
  <2>3. QED BY <1>1, <2>1, <2>2 DEF OnError
<1>2. CASE NoKey
  BY <1>1, <1>2 DEF NoKey, Errors
<1>3. CASE Retry
  <2>1. result = "pending" /\ attempt' = attempt + 1 /\ UNCHANGED <<phase, result>>
    BY <1>3 DEF Retry, Send
  <2>2. attempt \in 1..MaxRetries /\ MaxRetries \in Nat \ {0} /\ attempt < MaxRetries
    BY <1>3, GeminiConstants DEF IInv, TypeOK, Retry
  <2>3. ClientsLeft' = ClientsLeft /\ ClientsLeft \in {1, 2, 3}
    BY <2>1 DEF ClientsLeft
  <2>4. StepsLeft = ClientsLeft * MaxRetries + 1 - attempt
        /\ StepsLeft' = ClientsLeft * MaxRetries + 1 - (attempt + 1)
    BY <2>1, <2>3 DEF StepsLeft
  <2>5. QED BY <2>2, <2>3, <2>4
<1>4. CASE \E code \in {"llm_timeout", "llm_transport_error"} : Exhausted(code)
  BY <1>1, <1>4 DEF Exhausted, Send, Errors
<1>5. CASE \E code \in {"llm_transport_error", "llm_parse_error"} : Rejected(code)
  BY <1>1, <1>5 DEF Rejected, Send, Errors
<1>6. CASE Garbled
  BY <1>6, LeaveLowers DEF Garbled, Send
<1>7. ASSUME NEW a \in Answer, Send, OnAnswer(a)
      PROVE  StepsLeft' \in Nat /\ StepsLeft' < StepsLeft
  <2>0. result = "pending"
    BY <1>7 DEF Send
  <2>1. CASE \E r \in {"answer"} \cup Errors : Leave(r)
    BY <2>0, <2>1, LeaveLowers DEF Errors
  <2>2. CASE phase = "primary" /\ (Call("parse", "quality") \/ Call("complex", "complex"))
    BY <2>0, <2>2, CallLowers
  <2>3. QED BY <1>7, <2>1, <2>2 DEF OnAnswer, Return, Errors
<1>8. QED BY <1>2, <1>3, <1>4, <1>5, <1>6, <1>7 DEF Next, Answered

\* Whatever fails, _invoke_json and generate_content_with_meta are done after
\* 3 * MaxRetries steps at most: each lowers StepsLeft, which begins there.
THEOREM CallsRunOut == Spec => StepsLeft = 3 * MaxRetries /\ StepsRunOut
<1>1. Init => StepsLeft = 3 * MaxRetries
  <2>1. Init => StepsLeft = 3 * MaxRetries + 1 - 1
    BY DEF Init, StepsLeft, ClientsLeft
  <2>2. QED BY <2>1, GeminiConstants
<1>2. QED BY <1>1, InitPhase, StepKeeps, StepLowers, PTL DEF Spec, StepsRunOut
=============================================================================
