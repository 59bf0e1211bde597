------------------------------ MODULE AiAnswers -------------------------------
(***************************************************************************)
(* AiAnalyticsService.ask, the two providers it may ask and its cache of   *)
(* answers: a Map in the memory of the process, which keeps the order of   *)
(* insertion.  The business goes on while the provider thinks.             *)
(***************************************************************************)
EXTENDS Requests, SequencesExt

CONSTANTS
    Question,   \* questions, trimmed and in lower case
    Facts,      \* what buildBusinessContext may find in the database
    Setups,     \* environments the process is started with: [provider, caches]
    MaxSize     \* the 100 of setCachedResult

ASSUME AiAssumption ==
    /\ MaxSize \in Nat
    /\ Setups \subseteq [provider : {"GEMINI", "OPENAI", "RULE_BASED"}, caches : BOOLEAN]

VARIABLES
    setup,      \* resolveConfiguredProvider and cacheEnabled: fixed by the environment
    facts,      \* what the database holds
    cache,      \* entries [key, answer, expired], oldest insertion first
    asking      \* the question of r, the context read for it and the answer, or None

aiVars == <<setup, facts, cache, asking>>

\* What is answered: about which question and which context, and by whom.
Answer(question, context, source) ==
    [question |-> question, context |-> context, source |-> source]

\* Faulty variant: the context is not part of the key.
FaultyCacheKey(question, context) == <<question>>

\* buildCacheKey: the provider and its model are those of the environment, and
\* generatedAt is left out.
CacheKey(question, context) == <<question, context>>

EntriesOf(key) == {i \in DOMAIN cache : cache[i].key = key}

-----------------------------------------------------------------------------
\* Sales, purchases and the rest of the day.
BusinessGoesOn(f) ==
    /\ f # facts
    /\ facts' = f
    /\ UNCHANGED <<pc, setup, cache, asking>>

\* An entry reaches the end of its time to live.
Expire(i) ==
    /\ i \in DOMAIN cache
    /\ ~cache[i].expired
    /\ cache' = [cache EXCEPT ![i].expired = TRUE]
    /\ UNCHANGED <<pc, setup, facts, asking>>

-----------------------------------------------------------------------------
(* ask: buildBusinessContext, then getCachedResult without an await *)

Asking(q, reply) == [question |-> q, context |-> facts, reply |-> reply]

\* No provider is configured, or one without a key: answerWithRules.
AskRules(r, q) ==
    /\ setup.provider = "RULE_BASED"
    /\ Step(r, "idle", "answer")
    /\ asking' = [asking EXCEPT ![r] = Asking(q, Answer(q, facts, "RULE_BASED"))]
    /\ UNCHANGED <<setup, facts, cache>>

\* A live entry is the answer.
AskCache(r, q) ==
    /\ setup.caches
    /\ Step(r, "idle", "answer")
    /\ \E i \in EntriesOf(CacheKey(q, facts)) :
         /\ ~cache[i].expired
         /\ asking' = [asking EXCEPT ![r] = Asking(q, cache[i].answer)]
    /\ UNCHANGED <<setup, facts, cache>>

\* There is none: an expired one is deleted, and the provider is asked.
AskCloud(r, q) ==
    LET entries == EntriesOf(CacheKey(q, facts))
    IN  /\ setup.provider # "RULE_BASED"
        /\ \/ (~setup.caches \/ entries = {}) /\ UNCHANGED cache
           \/ /\ setup.caches
              /\ \E i \in entries : cache[i].expired /\ cache' = RemoveAt(cache, i)
        /\ Step(r, "idle", "askProvider")
        /\ asking' = [asking EXCEPT ![r] = Asking(q, None)]
        /\ UNCHANGED <<setup, facts>>

\* setCachedResult: the size is tested before the insertion, and a key that is
\* there already keeps its place.
Remember(entries, key, answer) ==
    LET kept  == IF Len(entries) > MaxSize THEN Tail(entries) ELSE entries
        entry == [key |-> key, answer |-> answer, expired |-> FALSE]
        same  == {i \in DOMAIN kept : kept[i].key = key}
    IN  IF same = {} THEN Append(kept, entry)
                     ELSE [i \in DOMAIN kept |-> IF i \in same THEN entry ELSE kept[i]]

\* The provider answers in time: with text, or without any, for which it puts
\* a sentence of its own.  Either way the mode is CLOUD_AI, and ask caches it.
CloudAnswers(r, sentence) ==
    LET a == asking[r]
        given == Answer(a.question, a.context, sentence)
    IN  /\ Step(r, "askProvider", "answer")
        /\ asking' = [asking EXCEPT ![r].reply = given]
        /\ cache' = IF setup.caches THEN Remember(cache, CacheKey(a.question, a.context), given)
                                    ELSE cache
        /\ UNCHANGED <<setup, facts>>

GeminiAnswers(r) ==
    /\ setup.provider = "GEMINI"
    /\ \E sentence \in {"text", "Gemini no devolvio contenido util."} : CloudAnswers(r, sentence)

OpenAiAnswers(r) ==
    /\ setup.provider = "OPENAI"
    /\ \E sentence \in {"text", "OpenAI no devolvio contenido util."} : CloudAnswers(r, sentence)

\* The mode is RULE_BASED_FALLBACK: answerWithRules had read the same context,
\* and nothing is cached.
CloudFails(r) ==
    LET a == asking[r]
    IN  /\ Step(r, "askProvider", "answer")
        /\ asking' = [asking EXCEPT ![r].reply = Answer(a.question, a.context, "RULE_BASED")]
        /\ UNCHANGED <<setup, facts, cache>>

\* A status that is not 2xx, the abort at the timeout, an unreachable host; the
\* client library of OpenAI throws for each of them.
GeminiFails(r) == setup.provider = "GEMINI" /\ CloudFails(r)
OpenAiFails(r) == setup.provider = "OPENAI" /\ CloudFails(r)

\* The audit entry, whose failure is ignored, and the answer; or a crash.
EndAsk(r) ==
    /\ pc[r] \in {"askProvider", "answer"}
    /\ pc' = [pc EXCEPT ![r] = "idle"]
    /\ asking' = [asking EXCEPT ![r] = None]
    /\ UNCHANGED <<setup, facts, cache>>

\* The Map is lost with the process, and the next one reads its environment.
RestartAi(s) ==
    /\ cache # <<>> \/ setup # s
    /\ \A r \in Request : asking[r] = None
    /\ setup' = s
    /\ cache' = <<>>
    /\ UNCHANGED <<pc, facts, asking>>

-----------------------------------------------------------------------------
StartAsk(r) == \E q \in Question : AskRules(r, q) \/ AskCache(r, q) \/ AskCloud(r, q)

AskStep(r) ==
    \/ GeminiAnswers(r) \/ GeminiFails(r)
    \/ OpenAiAnswers(r) \/ OpenAiFails(r)
    \/ EndAsk(r)

AiEnvironment ==
    \/ \E f \in Facts : BusinessGoesOn(f)
    \/ \E i \in DOMAIN cache : Expire(i)
    \/ \E s \in Setups : RestartAi(s)

\* The environment states nothing yet.
AiInit ==
    /\ setup = [provider |-> "RULE_BASED", caches |-> TRUE]
    /\ facts \in Facts
    /\ cache = <<>>
    /\ asking = [r \in Request |-> None]

-----------------------------------------------------------------------------
(* Properties *)

\* Whatever was sold or bought while the provider was thinking, and whoever
\* asked first, an answer is about the question put and the figures read for
\* it: a cached answer about other figures is never served.
AnswersFitTheQuestion ==
    \A r \in Request : asking[r] # None /\ asking[r].reply # None =>
      /\ asking[r].reply.question = asking[r].question
      /\ asking[r].reply.context = asking[r].context
=============================================================================
