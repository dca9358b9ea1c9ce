----------------------------- MODULE PublicChat -----------------------------
(***************************************************************************)
(* The website chat: web/api.py admits a question (switch or token, then   *)
(* the rate limit), a thread of its own runs public_chat.run_public_chat,  *)
(* and a pool of few workers calls the AI provider.  What is asked and     *)
(* answered is left out, and so is all but one client address.             *)
(***************************************************************************)
EXTENDS Integers, Sequences, SequencesExt, FiniteSets

CONSTANTS
  Questions,
  Workers,    \* JARVIS_PUBLIC_CHAT_WORKERS
  Rpm,        \* questions a minute ("rpm" of the chat)
  FormRpm,    \* requests a minute of the other public routes
  Window,     \* ticks of the rate limit's minute
  TokenTTL,   \* ticks a list of tokens is cached
  MaxChanges, \* bound: switches, revocations and provider changes together
  MaxForms    \* bound: other requests of the same client

VARIABLES
  config,      \* public_chat_config.json: enabled, fallback
  provider,    \* the AI provider is ready
  token,       \* the file of API tokens lists the client's token
  cache,       \* _TOKEN_CACHE: its age and whether the token is in it
  revoked,     \* ticks since the token left the file
  bucket,      \* _RATE_BUCKETS of the client: ages of what was let in
  ask,         \* question -> where it is, or how it was answered
  fallback,    \* question -> cfg["fallback"] as its thread read it
  queue, busy, \* futures that wait in the executor and that run
  changes, forms

chatVars == <<config, provider, token, cache, revoked, bucket, ask, fallback,
              queue, busy, changes, forms>>

ASSUME ChatAssumption ==
  /\ IsFiniteSet(Questions) /\ Workers \in Nat \ {0}
  /\ Rpm \in Nat \ {0} /\ FormRpm \in Nat \ {0}
  /\ Window \in Nat \ {0} /\ TokenTTL \in Nat
  /\ MaxChanges \in Nat /\ MaxForms \in Nat

(* A reply (of the AI, the local fallback or the guard) or an error.       *)
Outcomes == {"reply", "error"}
NoCache == [age |-> TokenTTL, valid |-> FALSE]

ChatTypeOK ==
  /\ config \in [enabled : BOOLEAN, fallback : BOOLEAN]
  /\ {provider, token} \subseteq BOOLEAN
  /\ cache \in [age : 0..TokenTTL, valid : BOOLEAN]
  /\ revoked \in 0..(TokenTTL + 1)
  /\ Range(bucket) \subseteq 0..(Window - 1)
  /\ Len(bucket) <= IF Rpm > FormRpm THEN Rpm ELSE FormRpm
  /\ ask \in [Questions -> {"none", "new", "admitted", "checked", "asking"}
                             \union Outcomes]
  /\ fallback \in [Questions -> BOOLEAN]
  /\ Range(queue) \union busy \subseteq Questions
  /\ Cardinality(busy) <= Workers /\ Range(queue) \intersect busy = {}
  /\ queue # << >> => Cardinality(busy) + Len(queue) <= Cardinality(Questions)
  /\ changes \in 0..MaxChanges /\ forms \in 0..MaxForms

ChatInit ==
  /\ config \in [enabled : BOOLEAN, fallback : BOOLEAN]
  /\ provider = TRUE /\ token = TRUE /\ cache = NoCache /\ revoked = 0
  /\ bucket = << >> /\ ask = [q \in Questions |-> "none"]
  /\ fallback = [q \in Questions |-> FALSE]
  /\ queue = << >> /\ busy = {} /\ changes = 0 /\ forms = 0

Settings == <<config, provider, token, changes>>
Pool == <<queue, busy>>
Answer(q, outcome) == ask' = [ask EXCEPT ![q] = outcome]

-----------------------------------------------------------------------------
(* The HTTP handlers.                                                      *)

(* _rate_check: one bucket for all routes, each with a limit of its own; a *)
(* request that is refused is not counted.                                 *)
RateCheck(limit) == Len(bucket) < limit /\ bucket' = Append(bucket, 0)

(* Mutant: each use of the cached list renews it.                          *)
LoadTokensSliding ==
  cache' = IF cache.valid /\ cache.age < TokenTTL
           THEN [cache EXCEPT !.age = 0] ELSE [age |-> 0, valid |-> token]

(* _load_tokens; a list with no token in it is not cached.                 *)
LoadTokens ==
  cache' = IF cache.valid /\ cache.age < TokenTTL
           THEN cache ELSE [age |-> 0, valid |-> token]

(* A visitor types a question.                                             *)
Type(q) ==
  /\ ask[q] = "none" /\ Answer(q, "new")
  /\ UNCHANGED <<Settings, cache, revoked, bucket, fallback, Pool, forms>>

(* The chat is switched on.  A client that is over its limit asks again.   *)
Ask(q) ==
  /\ ask[q] = "new" /\ config.enabled
  /\ RateCheck(Rpm) /\ Answer(q, "admitted")
  /\ UNCHANGED <<Settings, cache, revoked, fallback, Pool, forms>>

(* It is off: the request needs a token.                                   *)
AskByToken(q) ==
  /\ ask[q] = "new" /\ ~config.enabled /\ LoadTokens
  /\ \/ ~cache'.valid /\ Answer(q, "error") /\ UNCHANGED bucket
     \/ cache'.valid /\ RateCheck(Rpm) /\ Answer(q, "admitted")
     \/ cache'.valid /\ Len(bucket) >= Rpm /\ UNCHANGED <<ask, bucket>>
  /\ UNCHANGED <<Settings, revoked, fallback, Pool, forms>>

(* Enquiries, sign-ups and registry updates of the same address.           *)
SubmitForm ==
  /\ forms < MaxForms /\ forms' = forms + 1 /\ RateCheck(FormRpm)
  /\ UNCHANGED <<Settings, cache, revoked, ask, fallback, Pool>>

-----------------------------------------------------------------------------
(* run_public_chat, in a thread.                                           *)

(* The configuration is read again: a question that a token let in while   *)
(* the chat is off is answered with 503.                                   *)
ReadConfig(q) ==
  /\ ask[q] = "admitted" /\ fallback' = [fallback EXCEPT ![q] = config.fallback]
  /\ \/ config.enabled /\ \E to \in {"checked", "reply"} : Answer(q, to)
     \/ ~config.enabled /\ Answer(q, "error")
  /\ UNCHANGED <<Settings, cache, revoked, bucket, Pool, forms>>

WithoutAi(q) == Answer(q, IF fallback[q] THEN "reply" ELSE "error")

(* The provider's status, then the prompt, then the call.                  *)
Submit(q) ==
  /\ ask[q] = "checked"
  /\ IF provider
     THEN Answer(q, "asking") /\ queue' = Append(queue, q)
     ELSE WithoutAi(q) /\ queue' = queue
  /\ UNCHANGED <<Settings, cache, revoked, bucket, fallback, busy, forms>>

(* Mutant: the thread waits for the result without a timeout.              *)
WaitForProvider(q) == FALSE

(* future.result gives up after its timeout.  cancel takes a waiting future*)
(* back; one that runs goes on and keeps its worker.                       *)
TimeOut(q) ==
  /\ ask[q] = "asking" /\ WithoutAi(q)
  /\ queue' = RemoveFirst(queue, q)
  /\ UNCHANGED <<Settings, cache, revoked, bucket, fallback, busy, forms>>

TakeCall ==
  /\ queue # << >> /\ Cardinality(busy) < Workers
  /\ busy' = busy \union {Head(queue)} /\ queue' = Tail(queue)
  /\ UNCHANGED <<Settings, cache, revoked, bucket, ask, fallback, forms>>

(* The provider answers or fails; a late answer is dropped.                *)
CallEnds(q) ==
  /\ q \in busy /\ busy' = busy \ {q}
  /\ IF ask[q] = "asking" THEN Answer(q, "reply") \/ WithoutAi(q) ELSE ask' = ask
  /\ UNCHANGED <<Settings, cache, revoked, bucket, fallback, queue, forms>>

-----------------------------------------------------------------------------
(* The operator, and time.                                                 *)

ChangeSettings ==
  /\ changes < MaxChanges /\ changes' = changes + 1
  /\ \/ /\ config' \in [enabled : BOOLEAN, fallback : BOOLEAN] /\ config' # config
        /\ UNCHANGED <<provider, token, revoked>>
     \/ provider' = ~provider /\ UNCHANGED <<config, token, revoked>>
     \/ /\ token' = ~token /\ revoked' = 0 /\ UNCHANGED <<config, provider>>
  /\ UNCHANGED <<cache, bucket, ask, fallback, Pool, forms>>

(* The oldest requests come first in the bucket and leave the window.      *)
Tick ==
  /\ \E k \in 0..Len(bucket) :
       /\ \A i \in DOMAIN bucket : i <= k <=> bucket[i] + 1 >= Window
       /\ bucket' = [i \in 1..(Len(bucket) - k) |-> bucket[i + k] + 1]
  /\ cache' = [cache EXCEPT !.age = IF @ < TokenTTL THEN @ + 1 ELSE @]
  /\ revoked' = IF ~token /\ revoked <= TokenTTL THEN revoked + 1 ELSE revoked
  /\ UNCHANGED <<Settings, ask, fallback, Pool, forms>>

ThreadStep(q) == ReadConfig(q) \/ Submit(q) \/ TimeOut(q)

ChatNext ==
  \/ \E q \in Questions :
       Type(q) \/ Ask(q) \/ AskByToken(q) \/ ThreadStep(q) \/ CallEnds(q)
  \/ SubmitForm \/ TakeCall \/ ChangeSettings \/ Tick

(* Threads run and clients who are over their limit ask again.  Nothing is *)
(* assumed of the provider: a call may take for ever.                      *)
ChatFairness ==
  /\ \A q \in Questions :
       WF_chatVars(ThreadStep(q)) /\ SF_chatVars(Ask(q) \/ AskByToken(q))
  /\ WF_chatVars(TakeCall) /\ WF_chatVars(Tick)

ChatSpec == ChatInit /\ [][ChatNext]_chatVars /\ ChatFairness

-----------------------------------------------------------------------------
(* Properties.                                                             *)

(* Every question is answered in the end: providers that never return,     *)
(* a pool they have used up, a full rate limit and a configuration that    *)
(* changes between its two readings do not leave a visitor waiting.        *)
EveryQuestionAnswered ==
  \A q \in Questions : ask[q] = "new" ~> ask[q] \in Outcomes

(* A token that was taken out of the file lets nobody in once the cached   *)
(* list is too old, however often it is used meanwhile.                    *)
RevokedTokenStops ==
  [][\A q \in Questions :
       (ask[q] = "new" /\ ask'[q] = "admitted" /\ ~config.enabled) =>
         token \/ revoked < TokenTTL]_chatVars

=============================================================================
