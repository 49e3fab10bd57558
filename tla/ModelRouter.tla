----------------------------- MODULE ModelRouter -----------------------------
(***************************************************************************)
(* Completions through the model router (ai/router.py), each made by an    *)
(* agent inside a request that starts a workflow, and their telemetry      *)
(* (services/observer.py).  The request keeps its database connection      *)
(* while the call runs, and the observer takes a second one from the same  *)
(* pool for every record: calls meet in the pool.                          *)
(***************************************************************************)
EXTENDS ProviderChain, FiniteSets

CONSTANTS Calls,       \* the completions, one to a request
          Configs,     \* the settings a process may be started with
          Capacity,    \* database_pool_size + database_max_overflow
          MaxRetries,  \* llm_max_retries
          Usages,      \* the token counts an answer may carry
          None         \* no provider, no reason, no error

ASSUME RouterAssumption ==
  /\ Configs \subseteq Settings
  /\ Capacity \in Nat \ {0}
  /\ MaxRetries \in Nat
  /\ Usages \subseteq Usage
  /\ None \notin Provider \cup {"unavailable", "unreachable", "bad_answer"}

VARIABLES
  settings,     \* what the process was started with
  pc,           \* pc[c] is what call c is doing
  index,        \* index[c] is the position in the chain the loop is at
  tries,        \* tries[c] counts the failed posts to the current provider
  attempts,     \* attempts[c] lists the reasons of the failures so far
  outcome,      \* outcome[c] is what complete() returned or raised
  emitted,      \* emitted[c] lists the records handed to the observer
  modelCalls,   \* modelCalls[c]: positions in emitted[c] stored in model_calls
  costs,        \* costs[c]: those that also have a row in cost_tracking
  connections   \* the pool's connections in use: <<call, user>>

vars == <<settings, pc, index, tries, attempts, outcome, emitted,
          modelCalls, costs, connections>>

chain == ChainNames(settings)

Reason == {"unavailable", "unreachable", "bad_answer"}

(* CompletionResult, or the exception in its place; "refused" is the       *)
(* request that timed out waiting for a connection of its own.             *)
Outcome == [kind : {"pending", "completed", "exhausted", "escaped", "refused"},
            provider : Provider \cup {None},
            used_fallback : BOOLEAN,
            fallback_reason : Reason \cup {None}]

Without(kind) == [kind |-> kind, provider |-> None, used_fallback |-> FALSE,
                  fallback_reason |-> None]

(* What the records tell; cost is in 10^-6 USD.                            *)
ModelCallRecord == [provider : Provider, used_fallback : BOOLEAN,
                    fallback_reason : Reason \cup {None}, success : BOOLEAN,
                    error : Reason \cup {None}, usage : Usage, cost : Nat]

Init == /\ settings \in Configs
        /\ pc = [c \in Calls |-> "idle"]
        /\ index = [c \in Calls |-> 1]
        /\ tries = [c \in Calls |-> 0]
        /\ attempts = [c \in Calls |-> <<>>]
        /\ outcome = [c \in Calls |-> Without("pending")]
        /\ emitted = [c \in Calls |-> <<>>]
        /\ modelCalls = [c \in Calls |-> {}]
        /\ costs = [c \in Calls |-> {}]
        /\ connections = {}

GoTo(c, place) == pc' = [pc EXCEPT ![c] = place]

-----------------------------------------------------------------------------
(* The connection pool.                                                    *)

PoolHasRoom == Cardinality(connections) < Capacity

CheckOut(c, user) == /\ PoolHasRoom
                     /\ connections' = connections \cup {<<c, user>>}

CheckIn(c, user) == connections' = connections \ {<<c, user>>}

(* A request that starts a workflow has its first statement wait for a     *)
(* connection, and keeps it until it ends.                                 *)
Arrive(c) == /\ pc[c] = "idle"
             /\ GoTo(c, "connecting")
             /\ UNCHANGED <<settings, index, tries, attempts, outcome, emitted,
                            modelCalls, costs, connections>>

Connect(c) == /\ pc[c] = "connecting"
              /\ CheckOut(c, "request")
              /\ GoTo(c, "asking")
              /\ UNCHANGED <<settings, index, tries, attempts, outcome, emitted,
                             modelCalls, costs>>

ConnectTimeout(c) ==
  /\ pc[c] = "connecting"
  /\ ~PoolHasRoom
  /\ outcome' = [outcome EXCEPT ![c] = Without("refused")]
  /\ GoTo(c, "done")
  /\ UNCHANGED <<settings, index, tries, attempts, emitted, modelCalls, costs,
                 connections>>

(* The agent has its answer, or its error, and the request ends.           *)
Leave(c) == /\ pc[c] = "leaving"
            /\ CheckIn(c, "request")
            /\ GoTo(c, "done")
            /\ UNCHANGED <<settings, index, tries, attempts, outcome, emitted,
                           modelCalls, costs>>

-----------------------------------------------------------------------------
(* The router's loop over the chain.                                       *)

CurrentProvider(c) == chain[index[c]]

Emit(c, record) == /\ emitted' = [emitted EXCEPT ![c] = Append(@, record)]
                   /\ GoTo(c, "emitting")

(* A failure costs nothing; its prompt is estimated, to a positive number. *)
FailureRecord(c, reason) ==
  [provider |-> CurrentProvider(c), used_fallback |-> index[c] > 1,
   fallback_reason |-> None, success |-> FALSE, error |-> reason,
   usage |-> [prompt |-> 1, completion |-> 0], cost |-> 0]

(* Variant: the failure of a provider is not among the attempts.           *)
FailUnlisted(c, reason) ==
  /\ Emit(c, FailureRecord(c, reason))
  /\ UNCHANGED <<settings, index, tries, attempts, outcome, modelCalls, costs,
                 connections>>

(* The current provider is given up: one more attempt, one failure record. *)
Fail(c, reason) ==
  /\ attempts' = [attempts EXCEPT ![c] = Append(@, reason)]
  /\ Emit(c, FailureRecord(c, reason))
  /\ UNCHANGED <<settings, index, tries, outcome, modelCalls, costs,
                 connections>>

(* is_available says yes; or it says no, or raises.                        *)
AskReady(c) == /\ pc[c] = "asking"
               /\ TRUE \in Readiness(CurrentProvider(c))
               /\ tries' = [tries EXCEPT ![c] = 0]
               /\ GoTo(c, "calling")
               /\ UNCHANGED <<settings, index, attempts, outcome, emitted,
                              modelCalls, costs, connections>>

AskUnready(c) == /\ pc[c] = "asking"
                 /\ FALSE \in Readiness(CurrentProvider(c))
                 /\ Fail(c, "unavailable")

(* Variant: the limit on attempts taken for a limit on retries.            *)
RetryOnceMore(c) ==
  /\ pc[c] = "calling"
  /\ Remote(CurrentProvider(c))
  /\ tries[c] <= MaxRetries
  /\ tries' = [tries EXCEPT ![c] = @ + 1]
  /\ UNCHANGED <<settings, pc, index, attempts, outcome, emitted, modelCalls,
                 costs, connections>>

(* A post that times out or cannot reach its server is repeated ...        *)
Retry(c) == /\ pc[c] = "calling"
            /\ Remote(CurrentProvider(c))
            /\ tries[c] < MaxRetries
            /\ tries' = [tries EXCEPT ![c] = @ + 1]
            /\ UNCHANGED <<settings, pc, index, attempts, outcome, emitted,
                           modelCalls, costs, connections>>

(* ... at most MaxRetries times.                                           *)
Unreachable(c) == /\ pc[c] = "calling"
                  /\ Remote(CurrentProvider(c))
                  /\ tries[c] = MaxRetries
                  /\ Fail(c, "unreachable")

(* An HTTP error, a body that is no JSON or has no choices: at once.       *)
BadAnswer(c) == /\ pc[c] = "calling"
                /\ Remote(CurrentProvider(c))
                /\ Fail(c, "bad_answer")

(* A usage that is null, a token count that is no number, a text that is   *)
(* no string: the result is built outside the try statements, and what is  *)
(* raised there is no LLMProviderError, so the router does not catch it.   *)
Escape(c) == /\ pc[c] = "calling"
             /\ Remote(CurrentProvider(c))
             /\ outcome' = [outcome EXCEPT ![c] = Without("escaped")]
             /\ GoTo(c, "leaving")
             /\ UNCHANGED <<settings, index, tries, attempts, emitted,
                            modelCalls, costs, connections>>

(* Variant: the reason of the first failure, not of the latest.            *)
FirstReason(c) == IF index[c] = 1 THEN None ELSE attempts[c][1]

(* previous_error, kept only for a fallback.                               *)
FallbackReason(c) ==
  IF index[c] = 1 THEN None ELSE attempts[c][Len(attempts[c])]

Answered(c) == [kind |-> "completed", provider |-> CurrentProvider(c),
                used_fallback |-> index[c] > 1,
                fallback_reason |-> FallbackReason(c)]

SuccessRecord(c, u, cost) ==
  [provider |-> CurrentProvider(c), used_fallback |-> index[c] > 1,
   fallback_reason |-> FallbackReason(c), success |-> TRUE, error |-> None,
   usage |-> u, cost |-> cost]

(* The provider answers: the result is annotated, a success is recorded.   *)
Complete(c) ==
  /\ pc[c] = "calling"
  /\ outcome' = [outcome EXCEPT ![c] = Answered(c)]
  /\ \E u \in Usages : \E cost \in EstimateCost(CurrentProvider(c), u) :
       Emit(c, SuccessRecord(c, u, cost))
  /\ UNCHANGED <<settings, index, tries, attempts, modelCalls, costs,
                 connections>>

(* Back from the observer: return the result, or try the next provider, or *)
(* raise ModelRouterError when there is none.                              *)
Proceed(c) ==
  \/ /\ outcome[c].kind = "completed"
     /\ GoTo(c, "leaving")
     /\ UNCHANGED <<index, outcome>>
  \/ /\ outcome[c].kind = "pending"
     /\ index[c] < Len(chain)
     /\ index' = [index EXCEPT ![c] = @ + 1]
     /\ GoTo(c, "asking")
     /\ UNCHANGED outcome
  \/ /\ outcome[c].kind = "pending"
     /\ index[c] = Len(chain)
     /\ outcome' = [outcome EXCEPT ![c] = Without("exhausted")]
     /\ GoTo(c, "leaving")
     /\ UNCHANGED index

-----------------------------------------------------------------------------
(* The observer, in a session of its own.                                  *)

OpenSession(c) == /\ pc[c] = "emitting"
                  /\ CheckOut(c, "observer")
                  /\ GoTo(c, "storing")
                  /\ UNCHANGED <<settings, index, tries, attempts, outcome,
                                 emitted, modelCalls, costs>>

(* Variant: a session that waits for a connection as long as it takes.     *)
WaitForever(c) == FALSE /\ UNCHANGED vars

(* No connection in time: the exception is swallowed, the record lost.     *)
SessionTimeout(c) == /\ pc[c] = "emitting"
                     /\ ~PoolHasRoom
                     /\ Proceed(c)
                     /\ UNCHANGED <<settings, tries, attempts, emitted,
                                    modelCalls, costs, connections>>

Latest(c) == emitted[c][Len(emitted[c])]

(* The second row, for a success with a positive estimate.                 *)
StoreCost(c) ==
  costs' = [costs EXCEPT ![c] =
              IF Latest(c).success /\ Latest(c).cost > 0
                THEN @ \cup {Len(emitted[c])} ELSE @]

(* Both rows in one commit.                                                *)
Store(c) == /\ pc[c] = "storing"
            /\ modelCalls' = [modelCalls EXCEPT ![c] = @ \cup {Len(emitted[c])}]
            /\ StoreCost(c)
            /\ CheckIn(c, "observer")
            /\ Proceed(c)
            /\ UNCHANGED <<settings, tries, attempts, emitted>>

(* Variant: the connection of a failed session is never given back.        *)
StoreFailsLeaking(c) == /\ pc[c] = "storing"
                        /\ Proceed(c)
                        /\ UNCHANGED <<settings, tries, attempts, emitted,
                                       modelCalls, costs, connections>>

(* The database refuses: swallowed, and the session is closed all the same. *)
StoreFails(c) == /\ pc[c] = "storing"
                 /\ CheckIn(c, "observer")
                 /\ Proceed(c)
                 /\ UNCHANGED <<settings, tries, attempts, emitted, modelCalls,
                                costs>>

-----------------------------------------------------------------------------
Step(c) == \/ Connect(c) \/ ConnectTimeout(c)
           \/ AskReady(c) \/ AskUnready(c)
           \/ Retry(c) \/ Unreachable(c) \/ BadAnswer(c) \/ Escape(c)
           \/ Complete(c)
           \/ OpenSession(c) \/ SessionTimeout(c) \/ Store(c) \/ StoreFails(c)
           \/ Leave(c)

Next == \E c \in Calls : Arrive(c) \/ Step(c)

Spec == Init /\ [][Next]_vars

(* A request that came in is carried on: every wait, for a provider or for *)
(* a connection, ends by its timeout if nothing else ends it.              *)
FairSpec == Spec /\ \A c \in Calls : WF_vars(Step(c))
-----------------------------------------------------------------------------
(* Properties.                                                             *)

Place == {"idle", "connecting", "asking", "calling", "emitting", "storing",
          "leaving", "done"}

(* Every variable holds what its code counterpart may hold.                *)
TypeOK == /\ settings \in Configs
          /\ pc \in [Calls -> Place]
          /\ index \in [Calls -> 1 .. Len(chain)]
          /\ tries \in [Calls -> 0 .. MaxRetries]
          /\ attempts \in [Calls -> Seq(Reason)]
          /\ outcome \in [Calls -> Outcome]
          /\ emitted \in [Calls -> Seq(ModelCallRecord)]
          /\ modelCalls \in [Calls -> SUBSET Nat]
          /\ costs \in [Calls -> SUBSET Nat]
          /\ connections \subseteq Calls \X {"request", "observer"}

Ended(c) == outcome[c].kind \in {"completed", "exhausted", "escaped"}

(* "Never silently switch models without traceability" (router.py): the    *)
(* records of a call list the providers in the order of the chain, each    *)
(* with the reason it was passed over, and the last one, if it is a        *)
(* success, is the provider of the result with the reason the result       *)
(* gives.                                                                  *)
RecordOf(c, i) ==
  LET r == emitted[c][i]
  IN  /\ r.provider = chain[i]
      /\ r.used_fallback = (i > 1)
      /\ IF i <= Len(attempts[c])
           THEN ~r.success /\ r.error = attempts[c][i] /\ r.cost = 0
           ELSE /\ r.success
                /\ outcome[c] = [kind |-> "completed", provider |-> r.provider,
                                 used_fallback |-> r.used_fallback,
                                 fallback_reason |-> r.fallback_reason]

StoryOf(c) ==
  /\ Len(emitted[c]) = Len(attempts[c])
       + (IF outcome[c].kind = "completed" THEN 1 ELSE 0)
  /\ \A i \in 1 .. Len(emitted[c]) : RecordOf(c, i)

RecordsTellTheStory == \A c \in Calls : StoryOf(c)

(* What is stored is one of the records handed over; a cost row stands     *)
(* beside a stored success; and a stored success without one costs at most *)
(* half of the smallest amount the table can show.                         *)
TrackedCosts(c) ==
  /\ costs[c] \subseteq modelCalls[c]
  /\ modelCalls[c] \subseteq 1 .. Len(emitted[c])
  /\ \A i \in modelCalls[c] :
       LET r == emitted[c][i]
           exact == ExactCost(r.provider, r.usage)
       IN  IF i \in costs[c]
             THEN r.success /\ r.cost > 0 /\ 100 * r.cost - exact <= 50
                            /\ exact - 100 * r.cost <= 50
             ELSE r.success => exact <= 50

CostsAreTracked == \A c \in Calls : TrackedCosts(c)

(* The pool's connections in use are those of the requests under way and   *)
(* of the observer's open sessions, and never more than it may open: no    *)
(* path through router or observer keeps one.                              *)
InUse ==
  {<<c, "request">> : c \in {d \in Calls : pc[d] \in
     {"asking", "calling", "emitting", "storing", "leaving"}}}
  \cup {<<c, "observer">> : c \in {d \in Calls : pc[d] = "storing"}}

ConnectionsAccounted == /\ connections = InUse
                        /\ Cardinality(connections) <= Capacity

(* Where the loop is tells how many providers failed and whether the call  *)
(* is decided.                                                             *)
LoopShape(c) ==
  /\ pc[c] \in {"idle", "connecting"} =>
       outcome[c] = Without("pending") /\ attempts[c] = <<>> /\ index[c] = 1
  /\ pc[c] \in {"asking", "calling"} =>
       outcome[c] = Without("pending") /\ Len(attempts[c]) = index[c] - 1
  /\ pc[c] \in {"emitting", "storing"} =>
       \/ outcome[c] = Without("pending") /\ Len(attempts[c]) = index[c]
       \/ outcome[c].kind = "completed"
  /\ pc[c] \in {"leaving", "done"} => outcome[c].kind # "pending"
  /\ IF outcome[c].kind = "completed"
       THEN Len(attempts[c]) = index[c] - 1
       ELSE outcome[c] = Without(outcome[c].kind)

(* The cost in a success record is the exact one, rounded.                 *)
EstimatesAreClose(c) ==
  \A i \in 1 .. Len(emitted[c]) :
    LET r == emitted[c][i]
        exact == ExactCost(r.provider, r.usage)
    IN  r.success => /\ 100 * r.cost - exact <= 50
                     /\ exact - 100 * r.cost <= 50

(* The inductive invariant of the module's theorems: the properties above  *)
(* and what they rest on.                                                  *)
RouterIInv == /\ TypeOK
              /\ IsFiniteSet(connections)
              /\ \A c \in Calls : LoopShape(c) /\ EstimatesAreClose(c)
              /\ RecordsTellTheStory
              /\ CostsAreTracked
              /\ ConnectionsAccounted

(* The router's bookkeeping implements the abstract failover: neither the  *)
(* pool nor a lost record changes what the caller gets.                    *)
F == INSTANCE Failover
       WITH Providers <- Provider, Reasons <- Reason, providers <- chain,
            failed <- attempts,
            verdict <- [c \in Calls |->
                          [kind |-> outcome[c].kind,
                           provider |-> outcome[c].provider,
                           fallback_reason |-> outcome[c].fallback_reason]]

ImplementsFailover == F!FailoverSpec

(* Requests that fill the pool and wait for the observer's connections     *)
(* wait for each other; the timeouts resolve it, and every request that    *)
(* came in ends.                                                           *)
RoutingEnds == \A c \in Calls : (pc[c] = "connecting") ~> (pc[c] = "done")

(* "one ModelCallRecord per attempt (including failed ones)" (router.py,   *)
(* docs/architecture.md): when a call has ended, there is a record for     *)
(* every provider that was tried.  A provider that lets another exception  *)
(* out leaves none.                                                        *)
OneRecordPerAttempt ==
  \A c \in Calls : Ended(c) => Len(emitted[c]) = index[c]
=============================================================================
