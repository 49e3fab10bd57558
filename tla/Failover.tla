------------------------------- MODULE Failover -------------------------------
(***************************************************************************)
(* What the model router promises its caller, with no retries, telemetry   *)
(* or connections: the providers are tried in the order of the chain, each *)
(* once; the first that answers serves the call, and the caller is told    *)
(* why the ones before it did not.  A call whose request got no database   *)
(* connection is turned away before any provider is tried, and a provider  *)
(* that breaks its contract breaks the call.                               *)
(***************************************************************************)
EXTENDS Integers, Sequences

CONSTANTS Calls,      \* the calls for a completion
          Providers,  \* what a chain is made of
          Reasons,    \* why a provider did not serve a call
          None        \* no provider, no reason

VARIABLES providers,  \* the chain
          failed,     \* failed[c]: the reasons given so far, in order
          verdict     \* verdict[c]: how the call ended

failoverVars == <<providers, failed, verdict>>

Verdict == [kind : {"pending", "completed", "exhausted", "escaped", "refused"},
            provider : Providers \cup {None},
            fallback_reason : Reasons \cup {None}]

Bare(kind) == [kind |-> kind, provider |-> None, fallback_reason |-> None]

FailoverInit == /\ providers \in Seq(Providers) \ {<<>>}
                /\ failed = [c \in Calls |-> <<>>]
                /\ verdict = [c \in Calls |-> Bare("pending")]

Current(c) == Len(failed[c]) + 1

Trying(c) == /\ verdict[c] = Bare("pending")
             /\ Current(c) <= Len(providers)

Give(c, v) == verdict' = [verdict EXCEPT ![c] = v]

ProviderFails(c, reason) == /\ Trying(c)
                            /\ failed' = [failed EXCEPT ![c] = Append(@, reason)]
                            /\ UNCHANGED verdict

Serve(c) ==
  /\ Trying(c)
  /\ Give(c, [kind |-> "completed",
              provider |-> providers[Current(c)],
              fallback_reason |-> IF failed[c] = <<>> THEN None
                                  ELSE failed[c][Len(failed[c])]])
  /\ UNCHANGED failed

Exhaust(c) == /\ verdict[c] = Bare("pending")
              /\ Len(failed[c]) = Len(providers)
              /\ Give(c, Bare("exhausted"))
              /\ UNCHANGED failed

Break(c) == /\ Trying(c)
            /\ Give(c, Bare("escaped"))
            /\ UNCHANGED failed

TurnAway(c) == /\ verdict[c] = Bare("pending")
               /\ failed[c] = <<>>
               /\ Give(c, Bare("refused"))
               /\ UNCHANGED failed

FailoverStep(c) == \/ \E reason \in Reasons : ProviderFails(c, reason)
                   \/ Serve(c)
                   \/ Exhaust(c)
                   \/ Break(c)
                   \/ TurnAway(c)

FailoverNext == (\E c \in Calls : FailoverStep(c)) /\ UNCHANGED providers

FailoverSpec == FailoverInit /\ [][FailoverNext]_failoverVars

=============================================================================
