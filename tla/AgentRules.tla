----------------------------- MODULE AgentRules -----------------------------
(***************************************************************************)
(* The deterministic rules of the agents, as functions of their inputs:    *)
(* transaction scoring (agents/fraud.py), customer checks (agents/kyc.py), *)
(* affordability (agents/loan.py) and field extraction                     *)
(* (agents/document.py).  Reasons, rationales and summaries are left out.  *)
(***************************************************************************)
EXTENDS Integers, Sequences

CONSTANT RateUnit  \* the steps of a yearly interest rate between 0 and 1

(* Down to a hundredth of a percent, the relative error of the code's      *)
(* floats is below 10^-9, and a loan is rated as in exact fractions unless *)
(* it lies that close to a threshold.                                      *)
ASSUME RateAssumption == RateUnit \in 1 .. 10000

RISK_ORDER == [low |-> 1, medium |-> 2, high |-> 3, critical |-> 4]
RiskLevel == DOMAIN RISK_ORDER

NoSafer(r, s) == RISK_ORDER[s] >= RISK_ORDER[r]

(* A country as it is written; the code compares upper-case codes.         *)
Upper(country) == CASE country = "xx" -> "XX"
                    [] country = "zz" -> "ZZ"
                    [] OTHER -> country

HIGH_RISK_COUNTRIES == {"XX", "ZZ"}

-----------------------------------------------------------------------------
(* FraudAgent.  A transaction t, whose customer has the average amount     *)
(* avg; amounts in whole units.                                            *)

WEIGHT ==
  [large_absolute_amount |-> 30, amount_anomaly |-> 25, new_account |-> 15,
   new_beneficiary_large |-> 15, high_risk_destination |-> 20,
   failed_login_burst |-> 20, odd_hour_large |-> 10]

Fires(rule, t, avg) ==
  CASE rule = "large_absolute_amount" -> t.amount >= 10000
    [] rule = "amount_anomaly" -> avg > 0 /\ t.amount > 5 * avg
    [] rule = "new_account" -> t.account_age_days < 30
    [] rule = "new_beneficiary_large" ->
         t.is_new_beneficiary /\ t.amount >= 1000
    [] rule = "high_risk_destination" ->
         Upper(t.beneficiary_country) \in HIGH_RISK_COUNTRIES
    [] rule = "failed_login_burst" -> t.recent_failed_logins >= 3
    [] rule = "odd_hour_large" -> t.hour_of_day \in 1 .. 4 /\ t.amount >= 1000

Points(rule, t, avg) == IF Fires(rule, t, avg) THEN WEIGHT[rule] ELSE 0

Total(t, avg) ==
    Points("large_absolute_amount", t, avg) + Points("amount_anomaly", t, avg)
  + Points("new_account", t, avg) + Points("new_beneficiary_large", t, avg)
  + Points("high_risk_destination", t, avg)
  + Points("failed_login_burst", t, avg) + Points("odd_hour_large", t, avg)

Score(t, avg) == IF Total(t, avg) < 100 THEN Total(t, avg) ELSE 100

ScoreToRiskLowered(score) ==  \* variant: the threshold of the level below
  IF score >= 70 THEN "critical"
  ELSE IF score >= 25 THEN "high"
  ELSE IF score >= 20 THEN "medium"
  ELSE "low"
ScoreToRisk(score) ==
  IF score >= 70 THEN "critical"
  ELSE IF score >= 45 THEN "high"
  ELSE IF score >= 20 THEN "medium"
  ELSE "low"

FraudRisk(t, avg) == ScoreToRisk(Score(t, avg))

FraudReview(t, avg) == FraudRisk(t, avg) \in {"high", "critical"}

-----------------------------------------------------------------------------
(* KycAgent.  A text value is a word with the way it is written; a value   *)
(* of spaces only has no word but is not empty, and the code, which tests  *)
(* for the empty string, takes it for present.                             *)

Empty == [word |-> "", form |-> "plain"]

NormName(v) == v.word
Strip(v) == <<v.word, v.form = "upper">>

(* _parse_date, on dates whose day every month has: ISO, then day/month,   *)
(* then month/day.  A slashed date that can be read both ways is day first.*)
NoDate == <<0, 0, 0>>
ParseDate(raw) ==
  CASE raw.form = "iso" -> <<raw.year, raw.first, raw.second>>
    [] raw.form = "slash" /\ raw.second \in 1 .. 12 ->
         <<raw.year, raw.second, raw.first>>
    [] raw.form = "slash" /\ raw.second \notin 1 .. 12 /\ raw.first \in 1 .. 12 ->
         <<raw.year, raw.first, raw.second>>
    [] OTHER -> NoDate

AgeByYear(today, dob) == today[1] - dob[1]  \* variant: the birthday is ignored
AgeOn(today, dob) ==
  IF \/ today[2] < dob[2]
     \/ today[2] = dob[2] /\ today[3] < dob[3]
  THEN today[1] - dob[1] - 1
  ELSE today[1] - dob[1]

MissingFields(profile) ==
  (IF profile.full_name = Empty THEN {"full_name"} ELSE {})
  \cup (IF profile.date_of_birth.form = "none" THEN {"date_of_birth"} ELSE {})
  \cup (IF profile.country = "" THEN {"country"} ELSE {})
  \cup (IF profile.document_number = Empty THEN {"document_number"} ELSE {})

Underage(profile, today) ==
  /\ ParseDate(profile.date_of_birth) # NoDate
  /\ AgeOn(today, ParseDate(profile.date_of_birth)) < 18

Inconsistencies(profile, doc, today) ==
  LET dob == ParseDate(profile.date_of_birth)
      When(bad, what) == IF bad THEN {what} ELSE {} IN
  When(/\ profile.full_name # Empty /\ doc.full_name # Empty
       /\ NormName(profile.full_name) # NormName(doc.full_name), "name")
  \cup When(/\ profile.document_number # Empty /\ doc.document_number # Empty
            /\ Strip(profile.document_number) # Strip(doc.document_number),
            "number")
  \cup When(profile.date_of_birth.form # "none" /\ dob = NoDate, "unparseable")
  \cup When(Underage(profile, today), "underage")
  \cup When(dob # NoDate /\ AgeOn(today, dob) > 120, "implausible")

EscalateToFloor(current, floor) == floor  \* variant: the level is assigned
Escalate(current, floor) == IF NoSafer(floor, current) THEN current ELSE floor

KycRisk(profile, doc, today) ==
  LET aged == IF Underage(profile, today) THEN "high" ELSE "low"
      placed == IF Upper(profile.country) \in HIGH_RISK_COUNTRIES
                THEN Escalate(aged, "high") ELSE aged IN
  IF Inconsistencies(profile, doc, today) # {} THEN Escalate(placed, "medium")
                                               ELSE placed

KycReview(profile, doc, today) ==
  \/ MissingFields(profile) # {}
  \/ Inconsistencies(profile, doc, today) # {}
  \/ KycRisk(profile, doc, today) \in {"high", "critical"}

-----------------------------------------------------------------------------
(* LoanAgent.  A payment is the pair numerator, denominator.  The yearly   *)
(* rate is rate / RateUnit, so a month multiplies the debt by              *)
(* (Year + rate) / Year, and the payment is an exact fraction.             *)

Year == 12 * RateUnit

Power(base, n) ==
  LET power[i \in 0 .. n] == IF i = 0 THEN 1 ELSE base * power[i - 1]
  IN  power[n]

ExactPayment(principal, rate, term) ==
  IF rate = 0
  THEN <<principal, term>>
  ELSE LET grown == Power(Year + rate, term)
       IN  <<principal * rate * grown, Year * (grown - Power(Year, term))>>

(* A positive rate may be so small that the sum 1 + r loses a part of it   *)
(* or all of it.  Such a monthly rate is dust / LastPlace of the last      *)
(* place of a float 1 (2^-52); the sum keeps a whole number of last        *)
(* places, the nearest, the even one of two, and its power term times as   *)
(* many.                                                                   *)
LastPlace == 16
MaxDust == 64 * LastPlace  \* bound: beyond it a power is no longer linear

Kept(dust) ==
  LET whole == dust \div LastPlace
      rest == dust % LastPlace IN
  IF 2 * rest > LastPlace \/ (2 * rest = LastPlace /\ whole % 2 = 1)
  THEN whole + 1
  ELSE whole

(* factor - 1 is zero: the division raises.                                *)
DividesByZero(loan) == loan.dust # 0 /\ Kept(loan.dust) = 0

(* _monthly_payment, unless it raises.                                     *)
MonthlyPayment(loan) ==
  IF loan.dust = 0
  THEN ExactPayment(loan.loan_amount, loan.rate, loan.term_months)
  ELSE <<loan.loan_amount * loan.dust,
         LastPlace * loan.term_months * Kept(loan.dust)>>

LoanRisk(loan) ==
  LET pay == MonthlyPayment(loan)
      owed == loan.monthly_debt * pay[2] + pay[1]
      spare == (loan.monthly_income - loan.monthly_expenses) * pay[2] - owed
      AtLeast(percent) ==  \* dti >= percent / 100
        100 * owed >= percent * loan.monthly_income * pay[2] IN
  IF AtLeast(43) \/ spare < 0 THEN "high"
  ELSE IF AtLeast(36) THEN "medium"
  ELSE "low"

LoanReviewByRisk(loan) == LoanRisk(loan) # "low"  \* variant: sign-off by risk
LoanReview(loan) == TRUE

-----------------------------------------------------------------------------
(* DocumentAgent.  A line of text is a labelled value or something else    *)
(* (key "none"); labels are normalised to keys, and a blank value is       *)
(* skipped.                                                                *)

EXPECTED_FIELDS(kind) ==
  CASE kind = "identity" ->
         {"full_name", "date_of_birth", "document_number", "expiry_date"}
    [] kind = "proof_of_address" -> {"full_name", "address", "issue_date"}
    [] kind = "bank_statement" ->
         {"account_number", "statement_period", "closing_balance"}
    [] OTHER -> {}

(* _normalise_key: spaces, dashes, slashes and capitals make no difference.*)
NormaliseKey(label) == label.key

KeysOf(lines) == {NormaliseKey(lines[i].label) : i \in 1 .. Len(lines)} \ {"none"}

(* One line after the other, the last value of a key replacing the others. *)
ParseBlankErases(lines) ==  \* variant: a blank value counts
  LET fields[i \in 0 .. Len(lines)] ==
        IF i = 0 THEN [k \in KeysOf(lines) |-> ""]
        ELSE IF NormaliseKey(lines[i].label) = "none" THEN fields[i - 1]
        ELSE [fields[i - 1] EXCEPT ![NormaliseKey(lines[i].label)] = lines[i].value]
  IN  fields[Len(lines)]
ParseFields(lines) ==
  LET fields[i \in 0 .. Len(lines)] ==
        IF i = 0 THEN [k \in KeysOf(lines) |-> ""]
        ELSE IF NormaliseKey(lines[i].label) = "none" \/ lines[i].value = ""
        THEN fields[i - 1]
        ELSE [fields[i - 1] EXCEPT ![NormaliseKey(lines[i].label)] = lines[i].value]
  IN  fields[Len(lines)]

Parsed(lines) == {k \in KeysOf(lines) : ParseFields(lines)[k] # ""}

DocumentMissing(kind, extra, lines) ==
  (EXPECTED_FIELDS(kind) \cup extra) \ Parsed(lines)

DocumentReview(kind, extra, lines) ==
  DocumentMissing(kind, extra, lines) # {} \/ Parsed(lines) = {}

=============================================================================
