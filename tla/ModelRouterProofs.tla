-------------------------- MODULE ModelRouterProofs --------------------------
(***************************************************************************)
(* The safety properties of ModelRouter, for every set of calls, chain,    *)
(* size of the pool and number of retries, and that the router implements  *)
(* Failover.                                                               *)
(***************************************************************************)
EXTENDS ModelRouter, FiniteSetTheorems, TLAPS

-----------------------------------------------------------------------------
(* The chain the settings describe, and its prices.                        *)

LEMMA ChainIsChain ==
  ASSUME NEW s \in Settings
  PROVE  /\ ChainNames(s) \in Seq(Provider)
         /\ Len(ChainNames(s)) \in 1 .. 3
         /\ ChainNames(s) # <<>>
<1>1. /\ s.primary \in Provider /\ s.fallback \in Provider
      /\ "echo" \in Provider
  BY DEF Settings, Provider, BuiltIn
<1>2. /\ PolicyChain(s) \in Seq(Provider)
      /\ Len(PolicyChain(s)) \in 1 .. 2
  <2>1. CASE s.policy = "online_only"
    BY <2>1, <1>1 DEF PolicyChain
  <2>2. CASE s.policy = "offline_only"
    BY <2>2, <1>1 DEF PolicyChain
  <2>3. CASE s.policy \notin {"online_only", "offline_only"}
    BY <2>3, <1>1 DEF PolicyChain
  <2> QED BY <2>1, <2>2, <2>3
<1>3. /\ Append(PolicyChain(s), "echo") \in Seq(Provider)
      /\ Len(Append(PolicyChain(s), "echo")) = Len(PolicyChain(s)) + 1
  BY <1>1, <1>2
<1>4. ChainNames(s) \in {PolicyChain(s), Append(PolicyChain(s), "echo")}
  BY DEF ChainNames
<1>5. CASE ChainNames(s) = PolicyChain(s)
  BY <1>2, <1>5
<1>6. CASE ChainNames(s) = Append(PolicyChain(s), "echo")
  <2>1. Len(ChainNames(s)) \in 2 .. 3
    BY <1>2, <1>3, <1>6
  <2> QED BY <1>3, <1>6, <2>1
<1> QED BY <1>4, <1>5, <1>6

(* An estimate is a whole number within half a unit of the exact cost.     *)
LEMMA CostValues ==
  ASSUME NEW p \in Provider, NEW u \in Usage
  PROVE  /\ ExactCost(p, u) \in Nat
         /\ EstimateCost(p, u) \subseteq Nat
         /\ \A n \in EstimateCost(p, u) :
              /\ 100 * n - ExactCost(p, u) <= 50
              /\ ExactCost(p, u) - 100 * n <= 50
<1>1. PRICES(p) \in Price
  <2>1. CASE p = "groq"
    BY <2>1 DEF PRICES, Price
  <2>2. CASE p \in {"local_gemma", "echo"}
    BY <2>2 DEF PRICES, Price
  <2>3. CASE p \notin {"groq", "local_gemma", "echo"}
    BY <2>3 DEF PRICES, Price
  <2> QED BY <2>1, <2>2, <2>3
<1>2. /\ PRICES(p).in \in Nat /\ PRICES(p).out \in Nat
      /\ u.prompt \in Nat /\ u.completion \in Nat
  BY <1>1 DEF Price, Usage
<1> DEFINE a == PRICES(p).in
           b == PRICES(p).out
           x == u.prompt
           y == u.completion
<1>3. ExactCost(p, u) = x * a + y * b
  BY DEF ExactCost
<1>4. ASSUME NEW i \in Nat, NEW j \in Nat PROVE i * j \in Nat
  OBVIOUS
<1>5. x * a \in Nat /\ y * b \in Nat
  BY <1>2, <1>4
<1>6. ExactCost(p, u) \in Nat
  <2> HIDE DEF a, b, x, y
  <2> QED BY <1>3, <1>5
<1>7. ASSUME NEW e \in Nat PROVE e \div 100 \in Nat
  OBVIOUS
<1>8. ExactCost(p, u) \div 100 \in Nat
  BY <1>6, <1>7
<1>9. EstimateCost(p, u) \subseteq {ExactCost(p, u) \div 100,
                                   ExactCost(p, u) \div 100 + 1}
  BY DEF EstimateCost
<1>10. EstimateCost(p, u) \subseteq Nat
  <2>1. ExactCost(p, u) \div 100 + 1 \in Nat
    BY <1>8
  <2> QED BY <1>8, <1>9, <2>1
<1>11. \A n \in EstimateCost(p, u) :
         /\ 100 * n - ExactCost(p, u) <= 50
         /\ ExactCost(p, u) - 100 * n <= 50
  BY DEF EstimateCost
<1> QED BY <1>6, <1>10, <1>11

-----------------------------------------------------------------------------
(* What one step of a call leaves alone.                                   *)

LEMMA ChainFacts ==
  ASSUME TypeOK
  PROVE  /\ chain \in Seq(Provider)
         /\ Len(chain) \in 1 .. 3
         /\ settings \in Settings
         /\ \A c \in Calls : chain[index[c]] \in Provider
<1>1. settings \in Settings
  BY RouterAssumption DEF TypeOK
<1>2. chain \in Seq(Provider) /\ Len(chain) \in 1 .. 3
  BY <1>1, ChainIsChain DEF chain
<1>3. ASSUME NEW c \in Calls PROVE chain[index[c]] \in Provider
  <2>1. index[c] \in 1 .. Len(chain)
    BY DEF TypeOK
  <2> QED BY <2>1, <1>2
<1> QED BY <1>1, <1>2, <1>3

(* All that another call's invariant reads.                                *)
SameFor(d) == /\ settings' = settings
              /\ pc'[d] = pc[d]
              /\ index'[d] = index[d]
              /\ attempts'[d] = attempts[d]
              /\ outcome'[d] = outcome[d]
              /\ emitted'[d] = emitted[d]
              /\ modelCalls'[d] = modelCalls[d]
              /\ costs'[d] = costs[d]

CallIInv(c) == /\ LoopShape(c)
               /\ EstimatesAreClose(c)
               /\ StoryOf(c)
               /\ TrackedCosts(c)

LEMMA KindOfWithout == \A kind : Without(kind).kind = kind
BY DEF Without

LEMMA FailTouchesOne ==
  ASSUME TypeOK, NEW c \in Calls, NEW reason, Fail(c, reason),
         NEW d \in Calls, d # c
  PROVE  SameFor(d)
BY DEF TypeOK, Fail, Emit, GoTo, SameFor

LEMMA ProceedTouchesOne ==
  ASSUME TypeOK, NEW c \in Calls, Proceed(c),
         NEW d \in Calls, d # c
  PROVE  pc'[d] = pc[d] /\ index'[d] = index[d] /\ outcome'[d] = outcome[d]
BY DEF TypeOK, Proceed, GoTo

LEMMA StepTouchesOne ==
  ASSUME TypeOK, NEW c \in Calls, Arrive(c) \/ Step(c),
         NEW d \in Calls, d # c
  PROVE  SameFor(d)
<1> USE DEF TypeOK, GoTo, SameFor
<1>1. CASE Arrive(c)
  BY <1>1 DEF Arrive
<1>2. CASE Connect(c)
  BY <1>2 DEF Connect
<1>3. CASE ConnectTimeout(c)
  BY <1>3 DEF ConnectTimeout
<1>4. CASE AskReady(c)
  BY <1>4 DEF AskReady
<1>5. CASE AskUnready(c) \/ Unreachable(c) \/ BadAnswer(c)
  BY <1>5, FailTouchesOne DEF AskUnready, Unreachable, BadAnswer
<1>6. CASE Retry(c)
  BY <1>6 DEF Retry
<1>7. CASE Escape(c)
  BY <1>7 DEF Escape
<1>8. CASE Complete(c)
  BY <1>8 DEF Complete, Emit
<1>9. CASE OpenSession(c)
  BY <1>9 DEF OpenSession
<1>10. CASE SessionTimeout(c)
  BY <1>10, ProceedTouchesOne DEF SessionTimeout
<1>11. CASE Store(c)
  BY <1>11, ProceedTouchesOne DEF Store, StoreCost
<1>12. CASE StoreFails(c)
  BY <1>12, ProceedTouchesOne DEF StoreFails
<1>13. CASE Leave(c)
  BY <1>13 DEF Leave
<1> QED BY <1>1, <1>2, <1>3, <1>4, <1>5, <1>6, <1>7, <1>8, <1>9, <1>10,
           <1>11, <1>12, <1>13 DEF Step

LEMMA SameKeeps ==
  ASSUME NEW d \in Calls, CallIInv(d), SameFor(d)
  PROVE  CallIInv(d)'
<1>1. LoopShape(d)'
  BY DEF CallIInv, SameFor, LoopShape, Without
<1>2. EstimatesAreClose(d)'
  BY DEF CallIInv, SameFor, EstimatesAreClose
<1>3. StoryOf(d)'
  BY DEF CallIInv, SameFor, StoryOf, RecordOf, chain
<1>4. TrackedCosts(d)'
  BY DEF CallIInv, SameFor, TrackedCosts
<1> QED BY <1>1, <1>2, <1>3, <1>4 DEF CallIInv

-----------------------------------------------------------------------------
(* Types.                                                                  *)

LEMMA RecordValues ==
  ASSUME TypeOK, NEW c \in Calls
  PROVE  /\ \A reason \in Reason : FailureRecord(c, reason) \in ModelCallRecord
         /\ \A kind \in {"pending", "exhausted", "escaped", "refused"} :
              Without(kind) \in Outcome
<1>1. CurrentProvider(c) \in Provider
  BY ChainFacts DEF CurrentProvider
<1>2. (index[c] > 1) \in BOOLEAN
  OBVIOUS
<1>3. [prompt |-> 1, completion |-> 0] \in Usage
  BY DEF Usage
<1>4. ASSUME NEW reason \in Reason
      PROVE  FailureRecord(c, reason) \in ModelCallRecord
  BY <1>1, <1>2, <1>3 DEF FailureRecord, ModelCallRecord
<1>5. ASSUME NEW kind \in {"pending", "exhausted", "escaped", "refused"}
      PROVE  Without(kind) \in Outcome
  BY DEF Without, Outcome
<1> QED BY <1>4, <1>5

LEMMA InitTypes == Init => TypeOK
<1> SUFFICES ASSUME Init PROVE TypeOK
  OBVIOUS
<1>1. settings \in Settings /\ settings \in Configs
  BY RouterAssumption DEF Init
<1>2. Len(chain) \in 1 .. 3
  BY <1>1, ChainIsChain DEF chain
<1>3. Without("pending") \in Outcome
  BY DEF Without, Outcome
<1>4. 0 \in 0 .. MaxRetries
  BY RouterAssumption
<1>5. index \in [Calls -> 1 .. Len(chain)]
  <2>1. 1 \in 1 .. Len(chain)
    BY <1>2
  <2> QED BY <2>1 DEF Init
<1>6. /\ attempts \in [Calls -> Seq(Reason)]
      /\ emitted \in [Calls -> Seq(ModelCallRecord)]
  BY DEF Init
<1>7. outcome \in [Calls -> Outcome] /\ tries \in [Calls -> 0 .. MaxRetries]
  BY <1>3, <1>4 DEF Init
<1> QED BY <1>1, <1>5, <1>6, <1>7 DEF Init, TypeOK, Place

LEMMA FailTypes ==
  ASSUME TypeOK, NEW c \in Calls, NEW reason \in Reason, Fail(c, reason)
  PROVE  TypeOK'
<1> DEFINE r == FailureRecord(c, reason)
<1>1. r \in ModelCallRecord
  BY RecordValues
<1>2. emitted' = [emitted EXCEPT ![c] = Append(@, r)]
  BY DEF Fail, Emit
<1> HIDE DEF r
<1>3. emitted' \in [Calls -> Seq(ModelCallRecord)]
  BY <1>1, <1>2 DEF TypeOK
<1>4. attempts' \in [Calls -> Seq(Reason)]
  BY DEF Fail, TypeOK
<1>5. pc' \in [Calls -> Place]
  BY DEF Fail, Emit, GoTo, TypeOK, Place
<1> QED BY <1>3, <1>4, <1>5 DEF Fail, TypeOK, chain

LEMMA ProceedTypes ==
  ASSUME TypeOK, NEW c \in Calls, Proceed(c), settings' = settings
  PROVE  /\ index' \in [Calls -> 1 .. Len(chain')]
         /\ outcome' \in [Calls -> Outcome]
         /\ pc' \in [Calls -> Place]
<1>1. chain' = chain /\ Len(chain) \in Nat /\ index[c] \in 1 .. Len(chain)
  BY ChainFacts DEF chain, TypeOK
<1>2. Without("exhausted") \in Outcome
  BY DEF Without, Outcome
<1>3. pc' \in [Calls -> Place]
  BY DEF Proceed, GoTo, TypeOK, Place
<1>4. outcome' \in [Calls -> Outcome]
  BY <1>2 DEF Proceed, TypeOK
<1>5. index' \in [Calls -> 1 .. Len(chain)]
  <2>1. CASE index' = index
    BY <2>1 DEF TypeOK
  <2>2. CASE index[c] < Len(chain) /\ index' = [index EXCEPT ![c] = @ + 1]
    <3>1. index[c] + 1 \in 1 .. Len(chain)
      BY <1>1, <2>2
    <3> QED BY <2>2, <3>1 DEF TypeOK
  <2> QED BY <2>1, <2>2 DEF Proceed
<1> QED BY <1>1, <1>3, <1>4, <1>5

LEMMA CompleteFacts ==
  ASSUME TypeOK, NEW c \in Calls, LoopShape(c), Complete(c)
  PROVE  /\ Answered(c) \in Outcome
         /\ outcome' = [outcome EXCEPT ![c] = Answered(c)]
         /\ \E u \in Usage : \E cost \in EstimateCost(CurrentProvider(c), u) :
              /\ SuccessRecord(c, u, cost) \in ModelCallRecord
              /\ emitted' = [emitted EXCEPT ![c] =
                              Append(@, SuccessRecord(c, u, cost))]
              /\ pc' = [pc EXCEPT ![c] = "emitting"]
<1>1. CurrentProvider(c) \in Provider
  BY ChainFacts DEF CurrentProvider
<1>2. /\ attempts[c] \in Seq(Reason) /\ Len(attempts[c]) = index[c] - 1
      /\ index[c] \in Nat \ {0}
  <2>1. Len(chain) \in Nat /\ index[c] \in 1 .. Len(chain)
    BY ChainFacts DEF TypeOK
  <2> QED BY <2>1 DEF LoopShape, Complete, TypeOK
<1>3. FallbackReason(c) \in Reason \cup {None}
  <2>1. CASE index[c] = 1
    BY <2>1 DEF FallbackReason
  <2>2. CASE index[c] # 1
    <3>1. Len(attempts[c]) \in 1 .. Len(attempts[c])
      BY <1>2, <2>2
    <3>2. attempts[c][Len(attempts[c])] \in Reason
      BY <1>2, <3>1
    <3> QED BY <2>2, <3>2 DEF FallbackReason
  <2> QED BY <2>1, <2>2
<1>4. (index[c] > 1) \in BOOLEAN
  OBVIOUS
<1>5. Answered(c) \in Outcome
  BY <1>1, <1>3, <1>4 DEF Answered, Outcome
<1>6. outcome' = [outcome EXCEPT ![c] = Answered(c)]
  BY DEF Complete
<1>7. PICK u \in Usages : \E cost \in EstimateCost(CurrentProvider(c), u) :
        Emit(c, SuccessRecord(c, u, cost))
  BY DEF Complete
<1>8. PICK cost \in EstimateCost(CurrentProvider(c), u) :
        Emit(c, SuccessRecord(c, u, cost))
  BY <1>7
<1>9. u \in Usage
  BY RouterAssumption
<1>10. cost \in Nat
  BY <1>1, <1>8, <1>9, CostValues
<1>11. SuccessRecord(c, u, cost) \in ModelCallRecord
  BY <1>1, <1>3, <1>4, <1>9, <1>10 DEF SuccessRecord, ModelCallRecord
<1> QED BY <1>5, <1>6, <1>8, <1>9, <1>11 DEF Emit, GoTo

LEMMA StepTypes ==
  ASSUME TypeOK, NEW c \in Calls, LoopShape(c), Arrive(c) \/ Step(c)
  PROVE  TypeOK'
<1> USE DEF TypeOK, GoTo, Place, chain
<1>1. CASE Arrive(c)
  BY <1>1 DEF Arrive
<1>2. CASE Connect(c)
  BY <1>2 DEF Connect, CheckOut
<1>3. CASE ConnectTimeout(c)
  BY <1>3, RecordValues DEF ConnectTimeout
<1>4. CASE AskReady(c)
  BY <1>4, RouterAssumption DEF AskReady
<1>5. CASE AskUnready(c) \/ Unreachable(c) \/ BadAnswer(c)
  BY <1>5, FailTypes DEF AskUnready, Unreachable, BadAnswer, Reason
<1>6. CASE Retry(c)
  <2>1. tries[c] + 1 \in 0 .. MaxRetries
    BY <1>6, RouterAssumption DEF Retry
  <2> QED BY <1>6, <2>1 DEF Retry
<1>7. CASE Escape(c)
  BY <1>7, RecordValues DEF Escape
<1>8. CASE Complete(c)
  <2>1. outcome' \in [Calls -> Outcome]
    BY <1>8, CompleteFacts
  <2>2. /\ emitted' \in [Calls -> Seq(ModelCallRecord)]
        /\ pc' \in [Calls -> Place]
    <3> HIDE DEF chain
    <3>1. PICK r \in ModelCallRecord :
            /\ emitted' = [emitted EXCEPT ![c] = Append(@, r)]
            /\ pc' = [pc EXCEPT ![c] = "emitting"]
      BY <1>8, CompleteFacts
    <3> QED BY <3>1
  <2> QED BY <1>8, <2>1, <2>2 DEF Complete
<1>9. CASE OpenSession(c)
  BY <1>9 DEF OpenSession, CheckOut
<1>10. CASE SessionTimeout(c)
  BY <1>10, ProceedTypes DEF SessionTimeout
<1>11. CASE Store(c)
  <2>1. Len(emitted[c]) \in Nat
    OBVIOUS
  <2>2. modelCalls' \in [Calls -> SUBSET Nat] /\ costs' \in [Calls -> SUBSET Nat]
    BY <1>11, <2>1 DEF Store, StoreCost
  <2> QED BY <1>11, <2>2, ProceedTypes DEF Store, CheckIn
<1>12. CASE StoreFails(c)
  BY <1>12, ProceedTypes DEF StoreFails, CheckIn
<1>13. CASE Leave(c)
  BY <1>13 DEF Leave, CheckIn
<1> QED BY <1>1, <1>2, <1>3, <1>4, <1>5, <1>6, <1>7, <1>8, <1>9, <1>10,
           <1>11, <1>12, <1>13 DEF Step

-----------------------------------------------------------------------------
(* The call that moves keeps its own part of the invariant.                *)

(* A step that touches neither attempts nor records nor the kind of the    *)
(* outcome of a call can only break its LoopShape.                         *)
Silent(c) == /\ settings' = settings
             /\ attempts'[c] = attempts[c]
             /\ emitted'[c] = emitted[c]
             /\ modelCalls'[c] = modelCalls[c]
             /\ costs'[c] = costs[c]
             /\ \/ outcome'[c] = outcome[c]
                \/ /\ outcome[c] = Without("pending")
                   /\ outcome'[c].kind # "completed"

LEMMA StoryKept ==
  ASSUME NEW c \in Calls, CallIInv(c), TypeOK,
         settings' = settings, attempts'[c] = attempts[c],
         emitted'[c] = emitted[c],
         \/ outcome'[c] = outcome[c]
         \/ outcome[c] = Without("pending") /\ outcome'[c].kind # "completed"
  PROVE  StoryOf(c)'
<1>1. CASE outcome'[c] = outcome[c]
  BY <1>1 DEF CallIInv, StoryOf, RecordOf, chain
<1>2. CASE /\ outcome[c] = Without("pending")
           /\ outcome'[c].kind # "completed"
  <2>1. /\ attempts[c] \in Seq(Reason)
        /\ emitted[c] \in Seq(ModelCallRecord)
    BY DEF TypeOK
  <2>2. Len(emitted[c]) = Len(attempts[c])
    BY <1>2, <2>1 DEF CallIInv, StoryOf, Without
  <2>3. \A i \in 1 .. Len(emitted[c]) : RecordOf(c, i)
    BY DEF CallIInv, StoryOf
  <2>4. ASSUME NEW i \in 1 .. Len(emitted[c]) PROVE RecordOf(c, i)'
    <3>1. RecordOf(c, i) /\ i <= Len(attempts[c])
      BY <2>2, <2>3
    <3> QED BY <3>1 DEF RecordOf, chain
  <2> QED BY <1>2, <2>1, <2>2, <2>4 DEF StoryOf
<1> QED BY <1>1, <1>2

LEMMA SilentKeeps ==
  ASSUME NEW c \in Calls, CallIInv(c), Silent(c), TypeOK
  PROVE  EstimatesAreClose(c)' /\ StoryOf(c)' /\ TrackedCosts(c)'
<1>1. EstimatesAreClose(c)'
  BY DEF CallIInv, Silent, EstimatesAreClose
<1>2. TrackedCosts(c)'
  BY DEF CallIInv, Silent, TrackedCosts
<1>3. StoryOf(c)'
  BY StoryKept DEF Silent
<1> QED BY <1>1, <1>2, <1>3

LEMMA Appended ==
  ASSUME NEW S, NEW q \in Seq(S), NEW x \in S
  PROVE  /\ Len(Append(q, x)) = Len(q) + 1
         /\ Append(q, x)[Len(q) + 1] = x
         /\ \A i \in 1 .. Len(q) : Append(q, x)[i] = q[i]
OBVIOUS

LEMMA FailKeeps ==
  ASSUME TypeOK, NEW c \in Calls, NEW reason \in Reason, CallIInv(c),
         pc[c] \in {"asking", "calling"}, Fail(c, reason)
  PROVE  CallIInv(c)'
<1> DEFINE r == FailureRecord(c, reason)
           n == Len(emitted[c])
<1>1. /\ outcome[c] = Without("pending") /\ Len(attempts[c]) = index[c] - 1
      /\ attempts[c] \in Seq(Reason) /\ emitted[c] \in Seq(ModelCallRecord)
      /\ index[c] \in Nat \ {0}
  <2>1. Len(chain) \in Nat /\ index[c] \in 1 .. Len(chain)
    BY ChainFacts DEF TypeOK
  <2> QED BY <2>1 DEF CallIInv, LoopShape, TypeOK
<1>2. /\ n \in Nat /\ n = Len(attempts[c]) /\ index[c] = n + 1
  BY <1>1 DEF CallIInv, StoryOf, Without
<1>3. /\ emitted'[c] = Append(emitted[c], r)
      /\ attempts'[c] = Append(attempts[c], reason)
      /\ pc'[c] = "emitting"
      /\ outcome' = outcome /\ index' = index /\ settings' = settings
      /\ modelCalls' = modelCalls /\ costs' = costs
  BY DEF Fail, Emit, GoTo, TypeOK
<1>4. /\ r.success = FALSE /\ r.error = reason /\ r.cost = 0
      /\ r.used_fallback = (n + 1 > 1) /\ r.provider = chain[n + 1]
      /\ r \in ModelCallRecord
  BY <1>2, RecordValues DEF FailureRecord, CurrentProvider
<1> HIDE DEF r
<1>5. /\ Len(emitted'[c]) = n + 1 /\ Len(attempts'[c]) = n + 1
      /\ \A i \in 1 .. n : emitted'[c][i] = emitted[c][i]
      /\ \A i \in 1 .. n : attempts'[c][i] = attempts[c][i]
      /\ emitted'[c][n + 1] = r /\ attempts'[c][n + 1] = reason
  <2>1. /\ Len(Append(emitted[c], r)) = n + 1
        /\ Append(emitted[c], r)[n + 1] = r
        /\ \A i \in 1 .. n : Append(emitted[c], r)[i] = emitted[c][i]
    BY <1>1, <1>4, Appended
  <2>2. /\ Len(Append(attempts[c], reason)) = n + 1
        /\ Append(attempts[c], reason)[n + 1] = reason
        /\ \A i \in 1 .. n : Append(attempts[c], reason)[i] = attempts[c][i]
    <3> HIDE DEF n
    <3> QED BY <1>1, <1>2, Appended
  <2> QED BY <1>3, <2>1, <2>2
<1>6. LoopShape(c)'
  <2>1. outcome'[c] = Without("pending") /\ outcome'[c].kind = "pending"
    BY <1>1, <1>3, KindOfWithout
  <2> QED BY <1>1, <1>2, <1>3, <1>5, <2>1 DEF LoopShape, Without
<1>7. EstimatesAreClose(c)'
  <2> SUFFICES ASSUME NEW i \in 1 .. n + 1, emitted'[c][i].success
               PROVE  /\ 100 * emitted'[c][i].cost
                           - ExactCost(emitted'[c][i].provider,
                                       emitted'[c][i].usage) <= 50
                      /\ ExactCost(emitted'[c][i].provider,
                                   emitted'[c][i].usage)
                           - 100 * emitted'[c][i].cost <= 50
    BY <1>5 DEF EstimatesAreClose
  <2>1. i # n + 1
    BY <1>4, <1>5
  <2>2. i \in 1 .. n
    BY <1>2, <2>1
  <2> QED BY <1>5, <2>2 DEF CallIInv, EstimatesAreClose
<1>8. StoryOf(c)'
  <2>1. outcome'[c].kind # "completed"
    BY <1>1, <1>3 DEF Without
  <2>2. ASSUME NEW i \in 1 .. n + 1 PROVE RecordOf(c, i)'
    <3>1. CASE i = n + 1
      BY <1>2, <1>3, <1>4, <1>5, <3>1 DEF RecordOf, chain
    <3>2. CASE i \in 1 .. n
      <4>1. RecordOf(c, i)
        BY <3>2 DEF CallIInv, StoryOf
      <4>2. i <= Len(attempts[c]) /\ i <= n + 1
        BY <1>2, <3>2
      <4> QED BY <1>3, <1>5, <3>2, <4>1, <4>2 DEF RecordOf, chain
    <3> QED BY <1>2, <3>1, <3>2
  <2> QED BY <1>5, <2>1, <2>2, <1>2 DEF StoryOf
<1>9. TrackedCosts(c)'
  <2>1. modelCalls[c] \subseteq 1 .. n
    BY DEF CallIInv, TrackedCosts
  <2>2. modelCalls[c] \subseteq 1 .. n + 1
    BY <1>2, <2>1
  <2>3. \A i \in modelCalls[c] : emitted'[c][i] = emitted[c][i]
    BY <1>5, <2>1
  <2> QED BY <1>3, <1>5, <2>2, <2>3 DEF CallIInv, TrackedCosts
<1> QED BY <1>6, <1>7, <1>8, <1>9 DEF CallIInv

LEMMA CompleteKeeps ==
  ASSUME TypeOK, NEW c \in Calls, CallIInv(c), Complete(c)
  PROVE  CallIInv(c)'
<1> DEFINE n == Len(emitted[c])
<1>1. /\ outcome[c] = Without("pending") /\ Len(attempts[c]) = index[c] - 1
      /\ emitted[c] \in Seq(ModelCallRecord)
      /\ index[c] \in Nat \ {0}
  <2>1. Len(chain) \in Nat /\ index[c] \in 1 .. Len(chain)
    BY ChainFacts DEF TypeOK
  <2> QED BY <2>1 DEF CallIInv, LoopShape, TypeOK, Complete
<1>2. /\ n \in Nat /\ n = Len(attempts[c]) /\ index[c] = n + 1
  BY <1>1 DEF CallIInv, StoryOf, Without
<1>3. PICK u \in Usage : \E cost \in EstimateCost(CurrentProvider(c), u) :
         /\ SuccessRecord(c, u, cost) \in ModelCallRecord
         /\ emitted' = [emitted EXCEPT ![c] = Append(@, SuccessRecord(c, u, cost))]
         /\ pc' = [pc EXCEPT ![c] = "emitting"]
  BY CompleteFacts DEF CallIInv
<1>4. PICK cost \in EstimateCost(CurrentProvider(c), u) :
         /\ SuccessRecord(c, u, cost) \in ModelCallRecord
         /\ emitted' = [emitted EXCEPT ![c] = Append(@, SuccessRecord(c, u, cost))]
         /\ pc' = [pc EXCEPT ![c] = "emitting"]
  BY <1>3
<1> DEFINE r == SuccessRecord(c, u, cost)
<1>5. /\ emitted'[c] = Append(emitted[c], r)
      /\ outcome'[c] = Answered(c)
      /\ pc'[c] = "emitting"
      /\ attempts' = attempts /\ index' = index /\ settings' = settings
      /\ modelCalls' = modelCalls /\ costs' = costs
  BY <1>4, CompleteFacts DEF TypeOK, Complete, CallIInv
<1>6. /\ r \in ModelCallRecord
      /\ r.success = TRUE
      /\ r.provider = chain[n + 1]
      /\ r.used_fallback = (n + 1 > 1)
      /\ Answered(c) = [kind |-> "completed", provider |-> r.provider,
                        used_fallback |-> r.used_fallback,
                        fallback_reason |-> r.fallback_reason]
      /\ Answered(c).kind = "completed"
  BY <1>2, <1>4 DEF SuccessRecord, Answered, CurrentProvider
<1>7. /\ 100 * r.cost - ExactCost(r.provider, r.usage) <= 50
      /\ ExactCost(r.provider, r.usage) - 100 * r.cost <= 50
  <2>1. CurrentProvider(c) \in Provider
    BY ChainFacts DEF CurrentProvider
  <2>2. r.provider = CurrentProvider(c) /\ r.usage = u /\ r.cost = cost
    BY DEF SuccessRecord
  <2> QED BY <2>1, <2>2, CostValues
<1> HIDE DEF r
<1>8. /\ Len(emitted'[c]) = n + 1
      /\ \A i \in 1 .. n : emitted'[c][i] = emitted[c][i]
      /\ emitted'[c][n + 1] = r
  BY <1>1, <1>5, <1>6, Appended
<1>9. LoopShape(c)'
  BY <1>1, <1>5, <1>6 DEF LoopShape
<1>10. EstimatesAreClose(c)'
  <2> SUFFICES ASSUME NEW i \in 1 .. n + 1, emitted'[c][i].success
               PROVE  /\ 100 * emitted'[c][i].cost
                           - ExactCost(emitted'[c][i].provider,
                                       emitted'[c][i].usage) <= 50
                      /\ ExactCost(emitted'[c][i].provider,
                                   emitted'[c][i].usage)
                           - 100 * emitted'[c][i].cost <= 50
    BY <1>8 DEF EstimatesAreClose
  <2>1. CASE i = n + 1
    BY <1>7, <1>8, <2>1
  <2>2. CASE i \in 1 .. n
    BY <1>8, <2>2 DEF CallIInv, EstimatesAreClose
  <2> QED BY <1>2, <2>1, <2>2
<1>11. StoryOf(c)'
  <2>1. ASSUME NEW i \in 1 .. n + 1 PROVE RecordOf(c, i)'
    <3>1. CASE i = n + 1
      <4>1. ~(i <= Len(attempts[c]))
        BY <1>2, <3>1
      <4> QED BY <1>5, <1>6, <1>8, <3>1, <4>1 DEF RecordOf, chain
    <3>2. CASE i \in 1 .. n
      <4>1. RecordOf(c, i)
        BY <3>2 DEF CallIInv, StoryOf
      <4>2. i <= Len(attempts[c])
        BY <1>2, <3>2
      <4> QED BY <1>5, <1>8, <3>2, <4>1, <4>2 DEF RecordOf, chain
    <3> QED BY <1>2, <3>1, <3>2
  <2> QED BY <1>2, <1>5, <1>6, <1>8, <2>1 DEF StoryOf
<1>12. TrackedCosts(c)'
  <2>1. modelCalls[c] \subseteq 1 .. n
    BY DEF CallIInv, TrackedCosts
  <2>2. modelCalls[c] \subseteq 1 .. n + 1
    BY <1>2, <2>1
  <2>3. \A i \in modelCalls[c] : emitted'[c][i] = emitted[c][i]
    BY <1>8, <2>1
  <2> QED BY <1>5, <1>8, <2>2, <2>3 DEF CallIInv, TrackedCosts
<1> QED BY <1>9, <1>10, <1>11, <1>12 DEF CallIInv

LEMMA ProceedShape ==
  ASSUME TypeOK, NEW c \in Calls, CallIInv(c), settings' = settings,
         pc[c] \in {"emitting", "storing"}, Proceed(c), attempts' = attempts
  PROVE  /\ LoopShape(c)'
         /\ \/ outcome'[c] = outcome[c]
            \/ /\ outcome[c] = Without("pending")
               /\ outcome'[c].kind # "completed"
<1>1. index[c] \in Nat \ {0} /\ Len(attempts[c]) \in Nat
  <2>1. Len(chain) \in Nat /\ index[c] \in 1 .. Len(chain)
    BY ChainFacts DEF TypeOK
  <2> QED BY <2>1 DEF TypeOK
<1>2. \/ outcome[c] = Without("pending") /\ Len(attempts[c]) = index[c]
      \/ outcome[c].kind = "completed"
  BY DEF CallIInv, LoopShape
<1>3. CASE outcome[c].kind = "completed" /\ GoTo(c, "leaving")
           /\ UNCHANGED <<index, outcome>>
  <2>1. pc'[c] = "leaving" /\ outcome'[c].kind = "completed"
    BY <1>3 DEF GoTo, TypeOK
  <2>2. Len(attempts'[c]) = index'[c] - 1
    BY <1>3 DEF CallIInv, LoopShape
  <2> QED BY <1>3, <2>1, <2>2 DEF LoopShape
<1>4. CASE outcome[c].kind = "pending" /\ GoTo(c, "asking")
           /\ index' = [index EXCEPT ![c] = @ + 1] /\ UNCHANGED outcome
  <2>1. outcome[c] = Without("pending") /\ Len(attempts[c]) = index[c]
    BY <1>2, <1>4
  <2>2. index'[c] = index[c] + 1 /\ pc'[c] = "asking"
    BY <1>4 DEF GoTo, TypeOK
  <2>3. Len(attempts'[c]) = index'[c] - 1
    BY <1>1, <2>1, <2>2
  <2> QED BY <1>4, <2>1, <2>2, <2>3 DEF LoopShape, Without
<1>5. CASE outcome[c].kind = "pending" /\ GoTo(c, "leaving")
           /\ outcome' = [outcome EXCEPT ![c] = Without("exhausted")]
  <2>1. outcome[c] = Without("pending")
    BY <1>2, <1>5
  <2>2. outcome'[c] = Without("exhausted") /\ pc'[c] = "leaving"
    BY <1>5 DEF GoTo, TypeOK
  <2> QED BY <2>1, <2>2 DEF LoopShape, Without
<1> QED BY <1>3, <1>4, <1>5 DEF Proceed

LEMMA StoreKeepsTracking ==
  ASSUME TypeOK, NEW c \in Calls, CallIInv(c), Store(c)
  PROVE  TrackedCosts(c)'
<1> DEFINE n == Len(emitted[c])
           r == emitted[c][n]
<1>1. /\ emitted[c] \in Seq(ModelCallRecord) /\ Len(attempts[c]) \in Nat
      /\ index[c] \in Nat \ {0}
  <2>1. Len(chain) \in Nat /\ index[c] \in 1 .. Len(chain)
    BY ChainFacts DEF TypeOK
  <2> QED BY <2>1 DEF TypeOK
<1>2. n \in 1 .. n
  <2>1. n \in Nat
    BY <1>1
  <2>2. \/ outcome[c].kind # "completed" /\ Len(attempts[c]) = index[c]
        \/ outcome[c].kind = "completed" /\ Len(attempts[c]) = index[c] - 1
    BY DEF CallIInv, LoopShape, Store, Without
  <2>3. n = Len(attempts[c]) + (IF outcome[c].kind = "completed" THEN 1 ELSE 0)
    BY DEF CallIInv, StoryOf
  <2> HIDE DEF n
  <2>4. n >= 1
    <3>1. CASE outcome[c].kind = "completed"
      BY <1>1, <2>2, <2>3, <3>1
    <3>2. CASE outcome[c].kind # "completed"
      BY <1>1, <2>2, <2>3, <3>2
    <3> QED BY <3>1, <3>2
  <2> QED BY <2>1, <2>4
<1>3. r \in ModelCallRecord
  BY <1>1, <1>2
<1>4. /\ modelCalls'[c] = modelCalls[c] \cup {n}
      /\ costs'[c] = IF r.success /\ r.cost > 0 THEN costs[c] \cup {n}
                                               ELSE costs[c]
      /\ emitted' = emitted
  BY DEF Store, StoreCost, Latest, TypeOK
<1>5. r.success => /\ 100 * r.cost - ExactCost(r.provider, r.usage) <= 50
                   /\ ExactCost(r.provider, r.usage) - 100 * r.cost <= 50
  BY <1>2 DEF CallIInv, EstimatesAreClose
<1>6. r.cost \in Nat /\ r.success \in BOOLEAN
  BY <1>3 DEF ModelCallRecord
<1>7. ExactCost(r.provider, r.usage) \in Nat
  <2>1. r.provider \in Provider /\ r.usage \in Usage
    BY <1>3 DEF ModelCallRecord
  <2> QED BY <2>1, CostValues
<1> HIDE DEF n, r
<1>8. ASSUME NEW i \in modelCalls'[c]
      PROVE  LET q == emitted'[c][i]
                 exact == ExactCost(q.provider, q.usage)
             IN  IF i \in costs'[c]
                   THEN q.success /\ q.cost > 0 /\ 100 * q.cost - exact <= 50
                                  /\ exact - 100 * q.cost <= 50
                   ELSE q.success => exact <= 50
  <2>1. CASE i # n
    BY <1>4, <2>1 DEF CallIInv, TrackedCosts
  <2>2. CASE i = n
    <3>1. emitted'[c][i] = r
      BY <1>4, <2>2 DEF r, n
    <3>2. CASE r.success /\ r.cost > 0
      BY <1>4, <1>5, <2>2, <3>1, <3>2
    <3>3. CASE ~r.success
      <4>1. i \notin costs'[c]
        <5>1. costs'[c] = costs[c]
          BY <1>4, <3>3
        <5>2. i \in costs[c] => emitted[c][i].success
          BY DEF CallIInv, TrackedCosts
        <5> QED BY <1>4, <3>1, <3>3, <5>1, <5>2
      <4> QED BY <3>1, <3>3, <4>1
    <3>4. CASE r.success /\ ~(r.cost > 0)
      <4>1. r.cost = 0
        BY <1>6, <3>4
      <4>2. ExactCost(r.provider, r.usage) <= 50
        BY <1>5, <1>7, <3>4, <4>1
      <4>3. i \notin costs'[c]
        <5>1. costs'[c] = costs[c]
          BY <1>4, <3>4
        <5>2. i \in costs[c] => emitted[c][i].cost > 0
          BY DEF CallIInv, TrackedCosts
        <5> QED BY <1>4, <3>1, <3>4, <5>1, <5>2
      <4> QED BY <3>1, <4>2, <4>3
    <3> QED BY <3>2, <3>3, <3>4
  <2> QED BY <2>1, <2>2
<1>9. costs'[c] \subseteq modelCalls'[c]
  BY <1>4 DEF CallIInv, TrackedCosts
<1>10. modelCalls'[c] \subseteq 1 .. Len(emitted'[c])
  BY <1>2, <1>4 DEF CallIInv, TrackedCosts, n
<1> QED BY <1>8, <1>9, <1>10 DEF TrackedCosts

LEMMA MovingCallKeeps ==
  ASSUME TypeOK, NEW c \in Calls, CallIInv(c), Arrive(c) \/ Step(c)
  PROVE  CallIInv(c)'
<1>1. ASSUME Silent(c), LoopShape(c)' PROVE CallIInv(c)'
  BY <1>1, SilentKeeps DEF CallIInv
<1>2. LoopShape(c)
  BY DEF CallIInv
<1>3. CASE Arrive(c)
  <2>1. Silent(c) /\ LoopShape(c)'
    BY <1>2, <1>3 DEF Arrive, Silent, LoopShape, GoTo, TypeOK, Without
  <2> QED BY <1>1, <2>1
<1>4. CASE Connect(c)
  <2>1. Silent(c)
    BY <1>4 DEF Connect, Silent
  <2>2. LoopShape(c)'
    BY <1>2, <1>4 DEF Connect, LoopShape, GoTo, TypeOK, Without
  <2> QED BY <1>1, <2>1, <2>2
<1>5. CASE ConnectTimeout(c)
  <2>1. Silent(c) /\ LoopShape(c)'
    BY <1>2, <1>5 DEF ConnectTimeout, Silent, LoopShape, GoTo, TypeOK, Without
  <2> QED BY <1>1, <2>1
<1>6. CASE AskReady(c)
  <2>1. Silent(c) /\ LoopShape(c)'
    BY <1>2, <1>6 DEF AskReady, Silent, LoopShape, GoTo, TypeOK, Without
  <2> QED BY <1>1, <2>1
<1>7. CASE AskUnready(c) \/ Unreachable(c) \/ BadAnswer(c)
  BY <1>7, FailKeeps DEF AskUnready, Unreachable, BadAnswer, Reason
<1>8. CASE Retry(c)
  <2>1. Silent(c) /\ LoopShape(c)'
    BY <1>2, <1>8 DEF Retry, Silent, LoopShape, Without
  <2> QED BY <1>1, <2>1
<1>9. CASE Escape(c)
  <2>1. Silent(c) /\ LoopShape(c)'
    BY <1>2, <1>9 DEF Escape, Silent, LoopShape, GoTo, TypeOK, Without
  <2> QED BY <1>1, <2>1
<1>10. CASE Complete(c)
  BY <1>10, CompleteKeeps
<1>11. CASE OpenSession(c)
  <2>1. Silent(c) /\ LoopShape(c)'
    BY <1>2, <1>11 DEF OpenSession, Silent, LoopShape, GoTo, TypeOK, Without
  <2> QED BY <1>1, <2>1
<1>12. CASE SessionTimeout(c)
  <2>1. LoopShape(c)' /\ Silent(c)
    BY <1>12, ProceedShape DEF SessionTimeout, Silent
  <2> QED BY <1>1, <2>1
<1>13. CASE Store(c)
  <2>1. /\ LoopShape(c)' /\ TrackedCosts(c)'
        /\ \/ outcome'[c] = outcome[c]
           \/ outcome[c] = Without("pending") /\ outcome'[c].kind # "completed"
    BY <1>13, ProceedShape, StoreKeepsTracking DEF Store
  <2>2. EstimatesAreClose(c)'
    BY <1>13 DEF Store, CallIInv, EstimatesAreClose
  <2>3. StoryOf(c)'
    BY <1>13, <2>1, StoryKept DEF Store
  <2> QED BY <2>1, <2>2, <2>3 DEF CallIInv
<1>14. CASE StoreFails(c)
  <2>1. LoopShape(c)' /\ Silent(c)
    BY <1>14, ProceedShape DEF StoreFails, Silent
  <2> QED BY <1>1, <2>1
<1>15. CASE Leave(c)
  <2>1. Silent(c) /\ LoopShape(c)'
    BY <1>2, <1>15 DEF Leave, Silent, LoopShape, GoTo, TypeOK, Without
  <2> QED BY <1>1, <2>1
<1> QED BY <1>3, <1>4, <1>5, <1>6, <1>7, <1>8, <1>9, <1>10, <1>11, <1>12,
           <1>13, <1>14, <1>15 DEF Step

-----------------------------------------------------------------------------
(* The pool.                                                               *)

LEMMA CheckOutKeepsBound ==
  ASSUME IsFiniteSet(connections), Cardinality(connections) <= Capacity,
         NEW c, NEW user, CheckOut(c, user)
  PROVE  IsFiniteSet(connections') /\ Cardinality(connections') <= Capacity
<1>1. /\ Cardinality(connections) \in Nat
      /\ IsFiniteSet(connections')
      /\ Cardinality(connections') \in {Cardinality(connections),
                                       Cardinality(connections) + 1}
  BY FS_AddElement, FS_CardinalityType DEF CheckOut
<1> QED BY <1>1, RouterAssumption DEF CheckOut, PoolHasRoom

LEMMA CheckInKeepsBound ==
  ASSUME IsFiniteSet(connections), Cardinality(connections) <= Capacity,
         NEW c, NEW user, CheckIn(c, user)
  PROVE  IsFiniteSet(connections') /\ Cardinality(connections') <= Capacity
<1>1. connections' \subseteq connections
  BY DEF CheckIn
<1>2. IsFiniteSet(connections')
      /\ Cardinality(connections') <= Cardinality(connections)
  BY <1>1, FS_Subset
<1>3. Cardinality(connections) \in Nat /\ Cardinality(connections') \in Nat
  BY <1>2, FS_CardinalityType
<1> QED BY <1>2, <1>3, RouterAssumption

LEMMA PoolStep ==
  ASSUME TypeOK, NEW c \in Calls, Arrive(c) \/ Step(c), LoopShape(c),
         IsFiniteSet(connections), ConnectionsAccounted
  PROVE  IsFiniteSet(connections)' /\ ConnectionsAccounted'
<1> USE DEF TypeOK, GoTo, InUse
<1>0. Cardinality(connections) <= Capacity /\ connections = InUse
  BY DEF ConnectionsAccounted
<1>1. ASSUME pc'[c] \in Place, connections' = connections,
             \A d \in Calls \ {c} : pc'[d] = pc[d],
             \/ {pc[c], pc'[c]} \subseteq {"asking", "calling", "emitting",
                                          "leaving"}
             \/ {pc[c], pc'[c]} \subseteq {"idle", "connecting", "done"}
      PROVE  IsFiniteSet(connections)' /\ ConnectionsAccounted'
  <2>1. InUse' = InUse
    BY <1>1
  <2> QED BY <1>0, <1>1, <2>1 DEF ConnectionsAccounted
<1>2. CASE Arrive(c)
  BY <1>1, <1>2 DEF Arrive, Place
<1>3. CASE Connect(c)
  <2>1. InUse' = InUse \cup {<<c, "request">>}
    BY <1>3 DEF Connect
  <2> QED BY <1>0, <1>3, <2>1, CheckOutKeepsBound
          DEF Connect, CheckOut, ConnectionsAccounted
<1>4. CASE ConnectTimeout(c)
  BY <1>1, <1>4 DEF ConnectTimeout, Place
<1>5. CASE AskReady(c)
  BY <1>1, <1>5 DEF AskReady, Place
<1>6. CASE AskUnready(c) \/ Unreachable(c) \/ BadAnswer(c)
  BY <1>1, <1>6 DEF AskUnready, Unreachable, BadAnswer, Fail, Emit, Place
<1>7. CASE Retry(c)
  BY <1>1, <1>7 DEF Retry, Place
<1>8. CASE Escape(c)
  BY <1>1, <1>8 DEF Escape, Place
<1>9. CASE Complete(c)
  BY <1>1, <1>9 DEF Complete, Emit, Place
<1>10. CASE OpenSession(c)
  <2>1. InUse' = InUse \cup {<<c, "observer">>}
    BY <1>10 DEF OpenSession
  <2> QED BY <1>0, <1>10, <2>1, CheckOutKeepsBound
          DEF OpenSession, CheckOut, ConnectionsAccounted
<1>11. CASE SessionTimeout(c)
  BY <1>1, <1>11 DEF SessionTimeout, Proceed, Place
<1>12. CASE Store(c) \/ StoreFails(c)
  <2>1. InUse' = InUse \ {<<c, "observer">>}
    BY <1>12 DEF Store, StoreFails, Proceed
  <2> QED BY <1>0, <1>12, <2>1, CheckInKeepsBound
          DEF Store, StoreFails, CheckIn, ConnectionsAccounted
<1>13. CASE Leave(c)
  <2>1. InUse' = InUse \ {<<c, "request">>}
    BY <1>13 DEF Leave
  <2> QED BY <1>0, <1>13, <2>1, CheckInKeepsBound
          DEF Leave, CheckIn, ConnectionsAccounted
<1> QED BY <1>2, <1>3, <1>4, <1>5, <1>6, <1>7, <1>8, <1>9, <1>10, <1>11,
           <1>12, <1>13 DEF Step

-----------------------------------------------------------------------------
(* The invariant, and the properties it gives.                             *)

LEMMA IInvByCall ==
  RouterIInv <=> /\ TypeOK
                 /\ IsFiniteSet(connections)
                 /\ \A c \in Calls : CallIInv(c)
                 /\ ConnectionsAccounted
BY DEF RouterIInv, CallIInv, RecordsTellTheStory, CostsAreTracked

LEMMA InitIInv == Init => RouterIInv
<1> SUFFICES ASSUME Init PROVE RouterIInv
  OBVIOUS
<1>1. TypeOK
  BY InitTypes
<1>2. IsFiniteSet(connections) /\ Cardinality(connections) <= Capacity
  BY FS_EmptySet, RouterAssumption DEF Init
<1>3. connections = InUse
  BY DEF Init, InUse
<1>4. ASSUME NEW c \in Calls PROVE CallIInv(c)
  <2>1. /\ pc[c] = "idle" /\ index[c] = 1 /\ attempts[c] = <<>>
        /\ emitted[c] = <<>> /\ outcome[c] = Without("pending")
        /\ modelCalls[c] = {} /\ costs[c] = {}
    BY DEF Init
  <2>2. LoopShape(c)
    BY <2>1, KindOfWithout DEF LoopShape, Without
  <2>3. EstimatesAreClose(c) /\ TrackedCosts(c)
    BY <2>1 DEF EstimatesAreClose, TrackedCosts
  <2>4. StoryOf(c)
    BY <2>1 DEF StoryOf, Without
  <2> QED BY <2>2, <2>3, <2>4 DEF CallIInv
<1> QED BY <1>1, <1>2, <1>3, <1>4, IInvByCall DEF ConnectionsAccounted

LEMMA StepIInv ==
  ASSUME RouterIInv, [Next]_vars
  PROVE  RouterIInv'
<1> USE IInvByCall
<1>1. CASE UNCHANGED vars
  <2>1. TypeOK' /\ IsFiniteSet(connections)' /\ ConnectionsAccounted'
    BY <1>1 DEF vars, TypeOK, ConnectionsAccounted, InUse, chain
  <2>2. ASSUME NEW d \in Calls PROVE CallIInv(d)'
    BY <1>1, SameKeeps DEF vars, SameFor
  <2> QED BY <2>1, <2>2 DEF RouterIInv, CallIInv, RecordsTellTheStory,
                            CostsAreTracked
<1>2. CASE Next
  <2>1. PICK c \in Calls : Arrive(c) \/ Step(c)
    BY <1>2 DEF Next
  <2>2. LoopShape(c) /\ CallIInv(c)
    BY DEF CallIInv
  <2>3. TypeOK' /\ IsFiniteSet(connections)' /\ ConnectionsAccounted'
    BY <2>1, <2>2, StepTypes, PoolStep
  <2>4. ASSUME NEW d \in Calls PROVE CallIInv(d)'
    <3>1. CASE d = c
      BY <2>1, <3>1, MovingCallKeeps
    <3>2. CASE d # c
      <4>1. SameFor(d)
        BY <2>1, <3>2, StepTouchesOne
      <4> QED BY <4>1, SameKeeps
    <3> QED BY <3>1, <3>2
  <2> QED BY <2>3, <2>4 DEF RouterIInv, CallIInv, RecordsTellTheStory,
                            CostsAreTracked
<1> QED BY <1>1, <1>2

(* The inductive invariant: what the router is about to do, what it has    *)
(* recorded and the connections it holds are the ones its place in the     *)
(* chain calls for, call by call, whatever the others do (ModelRouter).    *)
THEOREM Invariance == Spec => []RouterIInv
BY InitIInv, StepIInv, PTL DEF Spec

(* Every variable keeps its type: the loop never leaves the chain, and no  *)
(* provider is posted to more than MaxRetries + 1 times in a row.          *)
THEOREM RouterTypeCorrect == Spec => []TypeOK
BY Invariance, PTL DEF RouterIInv

(* No model is switched silently: the records handed to the observer and   *)
(* the result tell the same story, in the order of the chain.              *)
THEOREM StoryHolds == Spec => []RecordsTellTheStory
BY Invariance, PTL DEF RouterIInv

(* cost_tracking and model_calls agree, up to the rounding of an estimate. *)
THEOREM CostsHold == Spec => []CostsAreTracked
BY Invariance, PTL DEF RouterIInv

(* Router and observer leak no connection and never exceed the pool.       *)
THEOREM PoolHolds == Spec => []ConnectionsAccounted
BY Invariance, PTL DEF RouterIInv

-----------------------------------------------------------------------------
(* The router implements the failover.                                     *)

Projected == [c \in Calls |-> [kind |-> outcome[c].kind,
                               provider |-> outcome[c].provider,
                               fallback_reason |-> outcome[c].fallback_reason]]

LEMMA InitMaps == Init => F!FailoverInit
<1> SUFFICES ASSUME Init PROVE F!FailoverInit
  OBVIOUS
<1>1. settings \in Settings
  BY RouterAssumption DEF Init
<1>2. chain \in Seq(Provider) \ {<<>>}
  BY <1>1, ChainIsChain DEF chain
<1>3. Projected = [c \in Calls |-> F!Bare("pending")]
  BY DEF Init, Projected, Without, F!Bare
<1> QED BY <1>2, <1>3 DEF Init, F!FailoverInit, Projected

LEMMA ProjectedUpdate ==
  ASSUME TypeOK, NEW c \in Calls, NEW o, outcome' = [outcome EXCEPT ![c] = o]
  PROVE  Projected' = [Projected EXCEPT ![c] =
                         [kind |-> o.kind, provider |-> o.provider,
                          fallback_reason |-> o.fallback_reason]]
BY DEF TypeOK, Projected

LEMMA PendingMaps ==
  ASSUME TypeOK, NEW c \in Calls, outcome[c] = Without("pending")
  PROVE  Projected[c] = F!Bare("pending")
BY DEF Projected, Without, F!Bare

LEMMA StepMaps ==
  ASSUME RouterIInv, [Next]_vars
  PROVE  [F!FailoverNext]_<<chain, attempts, Projected>>
<1>0. TypeOK /\ \A c \in Calls : CallIInv(c)
  BY IInvByCall
<1>1. ASSUME settings' = settings, attempts' = attempts, outcome' = outcome
      PROVE  UNCHANGED <<chain, attempts, Projected>>
  BY <1>1 DEF chain, Projected
<1>2. CASE UNCHANGED vars
  BY <1>1, <1>2 DEF vars
<1>3. CASE Next
  <2>1. PICK c \in Calls : Arrive(c) \/ Step(c)
    BY <1>3 DEF Next
  <2>2. CallIInv(c) /\ LoopShape(c)
    BY <1>0 DEF CallIInv
  <2>3. /\ index[c] \in 1 .. Len(chain) /\ Len(chain) \in Nat
        /\ attempts[c] \in Seq(Reason)
    BY <1>0, ChainFacts DEF TypeOK
  <2>4. SUFFICES ASSUME settings' = settings
                 PROVE  \/ UNCHANGED <<chain, attempts, Projected>>
                        \/ chain' = chain /\ F!FailoverStep(c)
    <3>1. settings' = settings
      BY <2>1 DEF Step, Arrive, Connect, ConnectTimeout, AskReady, AskUnready,
         Retry, Unreachable, BadAnswer, Escape, Complete, OpenSession,
         SessionTimeout, Store, StoreFails, Leave, Fail
    <3> QED BY <2>4, <3>1 DEF F!FailoverNext
  <2>5. chain' = chain
    BY <2>4 DEF chain
  <2>6. ASSUME NEW reason \in Reason, Fail(c, reason),
               pc[c] \in {"asking", "calling"}
        PROVE  F!FailoverStep(c)
    <3>1. /\ outcome[c] = Without("pending") /\ Len(attempts[c]) = index[c] - 1
      BY <2>2, <2>6 DEF LoopShape
    <3>2. Projected[c] = F!Bare("pending")
      BY <1>0, <3>1, PendingMaps
    <3>3. Len(attempts[c]) + 1 <= Len(chain)
      BY <2>3, <3>1
    <3>4. F!ProviderFails(c, reason)
      BY <2>6, <3>2, <3>3
         DEF Fail, F!ProviderFails, F!Trying, F!Current, Projected
    <3> QED BY <3>4 DEF F!FailoverStep
  <2>7. ASSUME Proceed(c), attempts' = attempts,
               pc[c] \in {"emitting", "storing"}
        PROVE  UNCHANGED <<chain, attempts, Projected>> \/ F!FailoverStep(c)
    <3>1. CASE outcome' = outcome
      BY <1>1, <2>4, <2>7, <3>1
    <3>2. CASE /\ outcome[c].kind = "pending" /\ index[c] = Len(chain)
               /\ outcome' = [outcome EXCEPT ![c] = Without("exhausted")]
      <4>1. outcome[c] = Without("pending") /\ Len(attempts[c]) = Len(chain)
        BY <2>2, <2>7, <3>2 DEF LoopShape
      <4>2. Projected[c] = F!Bare("pending")
        BY <1>0, <4>1, PendingMaps
      <4>3. Projected' = [Projected EXCEPT ![c] = F!Bare("exhausted")]
        BY <1>0, <3>2, ProjectedUpdate DEF Without, F!Bare
      <4>4. F!Exhaust(c)
        BY <2>7, <4>1, <4>2, <4>3 DEF F!Exhaust, F!Give, Projected
      <4> QED BY <4>4 DEF F!FailoverStep
    <3> QED BY <2>7, <3>1, <3>2 DEF Proceed
  <2>8. CASE AskUnready(c) \/ Unreachable(c) \/ BadAnswer(c)
    BY <2>5, <2>6, <2>8 DEF AskUnready, Unreachable, BadAnswer, Reason
  <2>9. CASE SessionTimeout(c) \/ Store(c) \/ StoreFails(c)
    BY <2>5, <2>7, <2>9 DEF SessionTimeout, Store, StoreFails
  <2>10. CASE ConnectTimeout(c)
    <3>1. outcome[c] = Without("pending") /\ attempts[c] = <<>>
      BY <2>2, <2>10 DEF ConnectTimeout, LoopShape
    <3>2. Projected[c] = F!Bare("pending")
      BY <1>0, <3>1, PendingMaps
    <3>3. Projected' = [Projected EXCEPT ![c] = F!Bare("refused")]
      BY <1>0, <2>10, ProjectedUpdate DEF ConnectTimeout, Without, F!Bare
    <3>4. F!TurnAway(c)
      BY <2>10, <3>1, <3>2, <3>3
         DEF ConnectTimeout, F!TurnAway, F!Give, Projected
    <3> QED BY <2>5, <3>4 DEF F!FailoverStep
  <2>11. CASE Escape(c) \/ Complete(c)
    <3>1. outcome[c] = Without("pending") /\ Len(attempts[c]) = index[c] - 1
      BY <2>2, <2>11 DEF Escape, Complete, LoopShape
    <3>2. Projected[c] = F!Bare("pending") /\ Len(attempts[c]) + 1 = index[c]
      BY <1>0, <2>3, <3>1, PendingMaps
    <3>3. F!Trying(c)
      BY <2>3, <3>2 DEF F!Trying, F!Current, Projected
    <3>4. CASE Escape(c)
      <4>1. Projected' = [Projected EXCEPT ![c] = F!Bare("escaped")]
        BY <1>0, <3>4, ProjectedUpdate DEF Escape, Without, F!Bare
      <4>2. F!Break(c)
        BY <3>3, <3>4, <4>1 DEF Escape, F!Break, F!Give, Projected
      <4> QED BY <2>5, <4>2 DEF F!FailoverStep
    <3>5. CASE Complete(c)
      <4>1. outcome' = [outcome EXCEPT ![c] = Answered(c)]
        BY <3>5 DEF Complete
      <4>2. FallbackReason(c) = IF attempts[c] = <<>> THEN None
                                ELSE attempts[c][Len(attempts[c])]
        <5>1. attempts[c] = <<>> <=> index[c] = 1
          BY <2>3, <3>1, <3>2
        <5> QED BY <5>1 DEF FallbackReason
      <4>3. Projected' = [Projected EXCEPT ![c] =
                [kind |-> "completed", provider |-> chain[Len(attempts[c]) + 1],
                 fallback_reason |-> IF attempts[c] = <<>> THEN None
                                     ELSE attempts[c][Len(attempts[c])]]]
        BY <1>0, <3>2, <4>1, <4>2, ProjectedUpdate DEF Answered, CurrentProvider
      <4>4. attempts' = attempts
        BY <3>5 DEF Complete
      <4>5. F!Serve(c)
        BY <3>3, <4>3, <4>4 DEF F!Serve, F!Give, F!Current, Projected
      <4> QED BY <2>5, <4>5 DEF F!FailoverStep
    <3> QED BY <2>11, <3>4, <3>5
  <2>12. CASE Arrive(c) \/ Connect(c) \/ AskReady(c) \/ Retry(c)
              \/ OpenSession(c) \/ Leave(c)
    BY <1>1, <2>12 DEF Arrive, Connect, AskReady, Retry, OpenSession, Leave
  <2> QED BY <2>1, <2>8, <2>9, <2>10, <2>11, <2>12 DEF Step
<1> QED BY <1>2, <1>3

(* The caller of the router sees providers tried in order and the reason   *)
(* of the last failure, whatever the pool and the database do.             *)
THEOREM RouterImplementsFailover == Spec => ImplementsFailover
<1>1. [F!FailoverNext]_<<chain, attempts, Projected>>
        <=> [F!FailoverNext]_(F!failoverVars)
  BY DEF F!failoverVars, Projected
<1> QED BY <1>1, InitMaps, StepMaps, Invariance, PTL
        DEF Spec, ImplementsFailover, F!FailoverSpec

=============================================================================
