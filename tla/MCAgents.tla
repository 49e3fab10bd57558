------------------------------- MODULE MCAgents -------------------------------
(***************************************************************************)
(* Payloads for the two engines, on both sides of every threshold of the   *)
(* rules and of every constraint of the input models.                      *)
(***************************************************************************)
EXTENDS TemporalWorker

MCToday == <<2024, 6, 15>>

Text(w, f) == [word |-> w, form |-> f]
Date(f, y, a, b) == [form |-> f, year |-> y, first |-> a, second |-> b]

Transactions ==
  [amount : {999, 1000, 1001, 9999, 10000}, account_age_days : {29, 30},
   is_new_beneficiary : BOOLEAN, beneficiary_country : {"US", "xx"},
   recent_failed_logins : {2, 3}, hour_of_day : {0, 1, 4, 5}]
  \cup [amount : {-1, 5}, account_age_days : {-1, 400},
        is_new_beneficiary : {FALSE}, beneficiary_country : {""},
        recent_failed_logins : {-1, 0}, hour_of_day : {23, 24}]

FraudPayloads == [transaction : Transactions, customer_avg_amount : {-1, 0, 200, 2000}]

Line(k, f, v) == [label |-> [key |-> k, form |-> f], value |-> v]
Lines == {Line("full_name", "spaced", "Ann"), Line("full_name", "snake", "Bob"),
          Line("full_name", "spaced", ""), Line("address", "spaced", "Elm St"),
          Line("issue_date", "upper", "2024"), Line("iban", "upper", "DE1"),
          Line("none", "spaced", "")}
Texts(n) == UNION {[1 .. m -> Lines] : m \in 0 .. n}

Births == {Date("none", 0, 0, 0), Date("garbage", 0, 0, 0),
           Date("iso", 2006, 6, 15), Date("iso", 2006, 6, 16),
           Date("iso", 1903, 6, 15), Date("iso", 1903, 6, 16),
           Date("iso", 2030, 1, 1), Date("slash", 2006, 12, 1),
           Date("slash", 2006, 7, 20), Date("slash", 2006, 15, 6)}

KycPayloads ==
  [profile : [full_name : {Empty, Text("", "padded"), Text("ann", "plain")},
              date_of_birth : Births, country : {"", "US", "xx"},
              document_number : {Empty, Text("a1", "plain")}],
   document_fields : [full_name : {Empty, Text("ann", "upper"), Text("bob", "plain")},
                      document_number : {Empty, Text("a1", "padded"),
                                         Text("a1", "upper")}],
   strings : {TRUE}, document_id : {"uuid"}, kind : {"identity"},
   extra_expected_fields : {{}},
   text : {<<>>, <<Line("full_name", "spaced", "Ann")>>}]
  \cup [profile : {[full_name |-> Empty, date_of_birth |-> Date("none", 0, 0, 0),
                    country |-> "", document_number |-> Empty]},
        document_fields : {[full_name |-> Empty, document_number |-> Empty]},
        strings : {FALSE}, document_id : {"none", "garbage"}, kind : {"generic"},
        extra_expected_fields : {{}}, text : {<<>>}]

Loans == [monthly_income : {0, 100, 101, 143}, monthly_debt : {0, 7},
          monthly_expenses : {0, 57, 60}, loan_amount : {0, 36, 43, 86},
          term_months : {0, 1, 2, 481}, rate : 0 .. 3, dust : {0}]
  \cup [monthly_income : {100, 101}, monthly_debt : {0, 7},
        monthly_expenses : {57}, loan_amount : {36, 43, 86},
        term_months : {1, 2}, rate : {0}, dust : {-1, 1, 8, 9, 16, 23, 24}]

MCPayloads(t) ==
  CASE t = "fraud_review" -> FraudPayloads
    [] t = "kyc" -> KycPayloads
    [] t = "loan" -> [loan : Loans, document_id : {"none"}, kind : {"generic"},
                      extra_expected_fields : {{}},
                      text : {<<Line("iban", "upper", "DE1")>>}]
    [] t = "document_intelligence" ->
         [text : Texts(4), kind : {"proof_of_address"},
          extra_expected_fields : {{}}, document_id : {"none"},
          max_sentences : {5}]
         \cup [text : Texts(2), kind : {"proof_of_address", "passport"},
               extra_expected_fields : {{}, {"iban"}},
               document_id : {"none", "garbage"}, max_sentences : {5, 21}]
    [] t = "compliance" -> [top_k : {0, 1, 20, 21, 50, 51}]
    [] t = "audit_evidence" -> [evidence : {{}, {"log"}}]

=============================================================================
