---------------------------- MODULE AgentExecutor ----------------------------
(***************************************************************************)
(* services/agent_executor.py: a workflow's one payload is handed to every *)
(* step of its plan, each adapter building the typed input of its agent    *)
(* (whose validation may refuse it) and running the rules of AgentRules.   *)
(* Plans says only which outcomes a step may have; this module says which  *)
(* outcome a payload gives.                                                *)
(***************************************************************************)
EXTENDS AgentRules, Plans

CONSTANTS
  Payloads(_),   \* bound: the payloads a workflow of each type is started with
  Today          \* the date of the checks, <<year, month, day>>

(* What the input models hold, once built: numbers are whole, texts are    *)
(* texts; whether a value is in range is left to the checks below.         *)
Transaction ==
  [amount : Int, account_age_days : Int, is_new_beneficiary : BOOLEAN,
   beneficiary_country : STRING, recent_failed_logins : Int, hour_of_day : Int]

Loan ==
  [monthly_income : Int, monthly_debt : Int, monthly_expenses : Int,
   loan_amount : Int, term_months : Int, rate : Int, dust : Int]

TextLine == [label : [key : STRING, form : STRING], value : STRING]

Written == [word : STRING, form : STRING]

Profile ==
  [full_name : Written, country : STRING, document_number : Written,
   date_of_birth : [form : STRING, year : Int, first : Int, second : Int]]

ASSUME PayloadAssumption ==
  /\ Today \in Int \X Int \X Int
  /\ \A p \in Payloads("fraud_review") :
       p.transaction \in Transaction /\ p.customer_avg_amount \in Int
  /\ \A p \in Payloads("kyc") :
       /\ p.profile \in Profile
       /\ p.document_fields \in [full_name : Written, document_number : Written]
  /\ \A p \in Payloads("loan") :
       /\ p.loan \in Loan
       /\ p.loan.rate = 0 \/ p.loan.dust = 0    \* a rate, or a trace of one
       /\ p.loan.dust <= MaxDust
  /\ \A t \in WorkflowType : \A p \in Payloads(t) :
       "text" \in DOMAIN p => p.text \in Seq(TextLine)

VARIABLES
  type,      \* the workflow type whose plan runs, or "none"
  payload,   \* its input
  runs       \* the outcomes of the steps so far

vars == <<type, payload, runs>>

Init == type = "none" /\ payload = [none |-> TRUE] /\ runs = <<>>

Begin(t) ==
  /\ type = "none"
  /\ type' = t
  /\ payload' \in Payloads(t)
  /\ UNCHANGED runs

Reviewed(review) == IF review THEN "flagged" ELSE "succeeded"

(* The constraints of the input models (pydantic): building one outside    *)
(* them raises, before the agent runs.                                     *)
ValidTransaction(t, avg) ==
  /\ t.amount >= 0 /\ avg >= 0
  /\ t.account_age_days >= 0
  /\ t.hour_of_day \in 0 .. 23
  /\ t.recent_failed_logins >= 0

ValidLoan(loan) ==
  /\ loan.monthly_income > 0 /\ loan.loan_amount > 0
  /\ loan.monthly_debt >= 0 /\ loan.monthly_expenses >= 0
  /\ loan.term_months \in 1 .. 480
  /\ loan.rate \in 0 .. RateUnit /\ loan.dust >= 0

(* A document step names its document by the payload's reference, else by  *)
(* the workflow, and refuses one that is no UUID.                          *)
ValidReference(p) == p.document_id # "garbage"

(* Whether the adapter of an agent can build its input: the constraints    *)
(* above, string values in a customer's maps, and the bounds on numbers    *)
(* (the compliance agent takes fewer hits than the retrieval agent).       *)
Accepted(agent, p) ==
  CASE agent = "document_agent" -> ValidReference(p)
    [] agent = "kyc_agent" -> p.strings
    [] agent = "fraud_agent" ->
         ValidTransaction(p.transaction, p.customer_avg_amount)
    [] agent = "loan_agent" -> ValidLoan(p.loan)
    [] agent = "retrieval_agent" -> p.top_k \in 1 .. 50
    [] agent = "compliance_agent" -> p.top_k \in 1 .. 20
    [] agent = "summarization_agent" -> p.max_sentences \in 1 .. 20
    [] agent = "audit_agent" -> TRUE

(* Asking the model router, which may raise: SummarizationAgent.run always *)
(* does, ComplianceAgent.run when it has something to cite.                *)
RouterOutcomes == {"succeeded", "failed"}

(* What the agent then returns.                                            *)
AgentOutcomes(agent, p) ==
  CASE agent = "document_agent" ->
         {Reviewed(DocumentReview(p.kind, p.extra_expected_fields, p.text))}
    [] agent = "kyc_agent" ->
         {Reviewed(KycReview(p.profile, p.document_fields, Today))}
    [] agent = "fraud_agent" ->
         {Reviewed(FraudReview(p.transaction, p.customer_avg_amount))}
    [] agent = "loan_agent" ->
         {IF DividesByZero(p.loan) THEN "failed" ELSE Reviewed(LoanReview(p.loan))}
    [] agent \in {"retrieval_agent", "audit_agent"} -> {"succeeded"}
    [] agent \in {"compliance_agent", "summarization_agent"} -> RouterOutcomes

(* run_step as start sees it: what the adapter raises fails the step too.  *)
RunStepOutcomes(agent, p) ==
  IF Accepted(agent, p) THEN AgentOutcomes(agent, p) ELSE {"failed"}

(* The loop of WorkflowService.start, which ends at a failure.             *)
RunStep ==
  /\ type # "none"
  /\ Len(runs) < Len(PLANS[type].steps)
  /\ \A i \in 1 .. Len(runs) : runs[i] # "failed"
  /\ \E o \in RunStepOutcomes(PLANS[type].steps[Len(runs) + 1], payload) :
       runs' = Append(runs, o)
  /\ UNCHANGED <<type, payload>>

Next == (\E t \in WorkflowType : Begin(t)) \/ RunStep

Spec == Init /\ [][Next]_vars

-----------------------------------------------------------------------------
(* Properties.                                                             *)

(* What WorkflowService is verified against is what the agents do: every   *)
(* outcome a payload can give is one Plans allows for that agent.          *)
OutcomesAsPlanned ==
  \A i \in 1 .. Len(runs) : runs[i] \in StepOutcomes(PLANS[type].steps[i])

(* No worsening of a transaction lowers its risk or spares it the review:  *)
(* a larger amount, a younger account, a new beneficiary, a listed         *)
(* country, more failed logins, an odd hour.  The clamp at 100 and the     *)
(* seven rules leave no gap (FraudAgent.run).                              *)
WorseTransactions(t) ==
  {[t EXCEPT !.amount = a] : a \in t.amount .. t.amount + 2 \cup {10000, 60000}}
  \cup {[t EXCEPT !.account_age_days = @ - 1],
        [t EXCEPT !.is_new_beneficiary = TRUE],
        [t EXCEPT !.beneficiary_country = "XX"],
        [t EXCEPT !.recent_failed_logins = @ + 1],
        [t EXCEPT !.hour_of_day = 3]}

FraudNeverSafer ==
  type = "fraud_review" =>
    LET t == payload.transaction
        avg == payload.customer_avg_amount IN
    \A worse \in {x \in WorseTransactions(t) : x.amount >= t.amount} :
      /\ NoSafer(FraudRisk(t, avg), FraudRisk(worse, avg))
      /\ FraudReview(t, avg) => FraudReview(worse, avg)

(* A contradiction between the profile and the document, a listed country  *)
(* or a minor's date of birth never lowers a customer's risk; and a field  *)
(* that is left out, which may lower it, never spares the review           *)
(* (KycAgent.run).                                                         *)
MinorsBirth == [form |-> "iso", year |-> Today[1] - 10, first |-> 1, second |-> 1]
OtherThan(v) == [word |-> IF v.word = "someone else" THEN "another"
                                                     ELSE "someone else",
                 form |-> "plain"]

KycNeverSafer ==
  type = "kyc" =>
    LET p == payload.profile
        d == payload.document_fields
        WorseThan(q, e) ==
          /\ NoSafer(KycRisk(p, d, Today), KycRisk(q, e, Today))
          /\ KycReview(p, d, Today) => KycReview(q, e, Today) IN
    /\ p.full_name # Empty =>
         WorseThan(p, [d EXCEPT !.full_name = OtherThan(p.full_name)])
    /\ p.document_number # Empty =>
         WorseThan(p, [d EXCEPT !.document_number = OtherThan(p.document_number)])
    /\ WorseThan([p EXCEPT !.country = "zz"], d)
    /\ WorseThan([p EXCEPT !.date_of_birth = MinorsBirth], d)
    /\ KycReview([p EXCEPT !.full_name = Empty], d, Today)
    /\ KycReview([p EXCEPT !.country = ""], d, Today)

(* Less income, more debt or expenses, a larger loan or a shorter term     *)
(* never lowers the risk of a loan, nor does a higher rate, from zero on   *)
(* and across both thresholds, and no payment is below an equal share of   *)
(* the principal.  A trace of a rate keeps the first part only: its        *)
(* payment may fall to half an equal share, or rise by half, when it does  *)
(* not divide by zero (LoanAgent.run, _monthly_payment).                   *)
WorseLoans(l) ==
  {[l EXCEPT !.monthly_income = @ - 1], [l EXCEPT !.monthly_debt = @ + 1],
   [l EXCEPT !.monthly_expenses = @ + 1], [l EXCEPT !.loan_amount = @ + 1],
   [l EXCEPT !.term_months = @ - 1]}
  \cup IF l.dust = 0 THEN {[l EXCEPT !.rate = @ + 1]} ELSE {}

LoanNeverSafer ==
  type = "loan" /\ ValidLoan(payload.loan) /\ ~DividesByZero(payload.loan) =>
    LET l == payload.loan
        paid == MonthlyPayment(l)[1] * l.term_months
        owed == l.loan_amount * MonthlyPayment(l)[2] IN
    /\ IF l.dust = 0 THEN paid >= owed
                     ELSE 2 * paid > owed /\ 2 * paid < 3 * owed
    /\ \A worse \in {x \in WorseLoans(l) : ValidLoan(x)} :
         NoSafer(LoanRisk(l), LoanRisk(worse))

WorseNeverSafer == FraudNeverSafer /\ KycNeverSafer /\ LoanNeverSafer

(* One rule alone never holds a transaction for a person, whatever its     *)
(* weight; and a large amount with any further signal does, except that    *)
(* an odd hour by itself is not enough (the weights and thresholds of      *)
(* agents/fraud.py).                                                       *)
TwoSignalsForReview ==
  type = "fraud_review" /\ runs # <<>> /\ runs[1] # "failed" =>
    LET fired == {r \in DOMAIN WEIGHT :
                    Fires(r, payload.transaction, payload.customer_avg_amount)}
    IN  /\ runs[1] = "flagged" => \E r, s \in fired : r # s
        /\ /\ "large_absolute_amount" \in fired
           /\ fired \ {"large_absolute_amount", "odd_hour_large"} # {}
           => runs[1] = "flagged"

(* A customer who has not had an eighteenth birthday, counted one birthday *)
(* at a time, is rated high and reviewed, whichever way a slashed date is  *)
(* read; one who has had it under every reading is never called underage.  *)
(* Where the readings of a slashed date differ, the one with the day first *)
(* decides, and a minor by the other one passes (_parse_date, _age_on).    *)
Birthdays(dob) ==
  {y \in dob[1] + 1 .. Today[1] :
     \/ y < Today[1]
     \/ dob[2] < Today[2]
     \/ dob[2] = Today[2] /\ dob[3] <= Today[3]}

Readings(raw) ==
  LET a == <<raw.year, raw.first, raw.second>>
      b == <<raw.year, raw.second, raw.first>> IN
  {d \in IF raw.form = "iso" THEN {a}
         ELSE IF raw.form = "slash" THEN {a, b} ELSE {} : d[2] \in 1 .. 12}

MinorsAreCaught ==
  type = "kyc" =>
    LET p == payload.profile
        Adult(d) == \E y \in Birthdays(d) : y - d[1] = 18
        readings == Readings(p.date_of_birth) IN
    readings # {} =>
      /\ (\A d \in readings : ~Adult(d)) =>
           /\ KycRisk(p, payload.document_fields, Today) = "high"
           /\ KycReview(p, payload.document_fields, Today)
      /\ (\A d \in readings : Adult(d)) =>
           "underage" \notin Inconsistencies(p, payload.document_fields, Today)
      /\ \A d \in readings :
           /\ p.date_of_birth.form = "slash"
           /\ d = <<p.date_of_birth.year, p.date_of_birth.second,
                    p.date_of_birth.first>>
           => (~Adult(d) <=> "underage" \in
                               Inconsistencies(p, payload.document_fields, Today))

(* parse_fields keeps, for every key, the value of the last line that has  *)
(* one: an empty repetition of a label does not erase what was read, and a *)
(* document is complete exactly when each expected key has such a line.    *)
LastValueWins ==
  type # "none" /\ "text" \in DOMAIN payload =>
    LET lines == payload.text
        Says(i, k) == NormaliseKey(lines[i].label) = k /\ lines[i].value # "" IN
    \A k \in KeysOf(lines) :
      LET said == {i \in 1 .. Len(lines) : Says(i, k)} IN
      ParseFields(lines)[k] =
        IF said = {} THEN ""
        ELSE lines[CHOOSE i \in said : \A j \in said : j <= i].value

=============================================================================
