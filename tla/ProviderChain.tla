---------------------------- MODULE ProviderChain ----------------------------
(***************************************************************************)
(* How the settings become an ordered chain of providers, and what a model *)
(* call costs (ai/factory.py, ai/providers/, ai/cost.py).                  *)
(***************************************************************************)
EXTENDS Integers, Sequences

(* The providers the factory can build, and one that is not built in: any  *)
(* LLMProvider may be put into a router, as the fakes of                   *)
(* tests/unit/test_router.py are, and may then probe its endpoint.         *)
BuiltIn == {"groq", "local_gemma", "echo"}
Provider == BuiltIn \cup {"probing"}

RouterPolicy == {"prefer_online", "offline_only", "online_only"}
AppEnv == {"local", "staging", "production"}

Settings == [policy : RouterPolicy, primary : Provider, fallback : Provider,
             env : AppEnv]

PolicyChain(s) == CASE s.policy = "online_only"  -> <<s.primary>>
                    [] s.policy = "offline_only" -> <<s.fallback>>
                    [] OTHER                     -> <<s.primary, s.fallback>>

Names(chain) == {chain[i] : i \in DOMAIN chain}

(* In a local environment the echo stub is the last resort.                *)
ChainNames(s) ==
  IF s.env = "local" /\ "echo" \notin Names(PolicyChain(s))
    THEN Append(PolicyChain(s), "echo")
    ELSE PolicyChain(s)

(* The built-in providers never say no.  The one test, for an empty key,   *)
(* is void: GroqProvider passes "groq_api_key or None", LocalGemmaProvider *)
(* passes None and needs no network, and EchoProvider returns True.        *)
Readiness(p) == IF p \in BuiltIn THEN {TRUE} ELSE BOOLEAN

(* Which providers talk HTTP, and so fail, retry and answer nonsense.      *)
Remote(p) == p # "echo"

-----------------------------------------------------------------------------
(* Costs.  Prices are per token, in units of 10^-8 USD; the estimate is    *)
(* rounded to 10^-6 USD, that is, to 100 units.                            *)
Price == [in : Nat, out : Nat]
Usage == [prompt : Nat, completion : Nat]

(* A provider's default model: groq serves llama-3.1-8b-instant.           *)
PRICES(p) == CASE p = "groq"                  -> [in |-> 5, out |-> 8]
               [] p \in {"local_gemma", "echo"} -> [in |-> 0, out |-> 0]
               [] OTHER                       -> [in |-> 50, out |-> 150]

ExactCost(p, u) == u.prompt * PRICES(p).in + u.completion * PRICES(p).out

(* Variant: tokens are billed by the full thousand.                        *)
CostByTheThousand(p, u) ==
  {(10 * PRICES(p).in) * (u.prompt \div 1000)
     + (10 * PRICES(p).out) * (u.completion \div 1000)}

(* The estimate, in 10^-6 USD: the nearest one, and either of the two when *)
(* the exact cost is half way, where the code's floats decide.             *)
EstimateCost(p, u) ==
  LET exact == ExactCost(p, u)
  IN  {n \in {exact \div 100, exact \div 100 + 1} :
         /\ 100 * n - exact <= 50
         /\ exact - 100 * n <= 50}

=============================================================================
