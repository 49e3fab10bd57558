---------------------------- MODULE ApprovalGate ----------------------------
(***************************************************************************)
(* What the human-in-the-loop engine promises of one workflow, with no     *)
(* tables, transactions or requests in sight.                              *)
(*                                                                         *)
(* A case appears in one step, already failed, settled by the machine, or  *)
(* pending a person.  Only a case that went to people can be voted on, a   *)
(* ballot is cast at most once and is never taken back, and the case shows *)
(* a ballot that was really cast.  Ballots may arrive for a case another   *)
(* person has already settled (two reviewers worked from the same screen): *)
(* the later one then replaces the outcome.  The one exception is a        *)
(* further escalation of a case already escalated once, which may be       *)
(* logged without moving the case.                                         *)
(***************************************************************************)
CONSTANTS Cases,    \* what is decided upon
          Ballots   \* one per decision request

Choices == {"approved", "rejected", "escalated"}
Outcomes == {"unborn", "failed", "automatic", "pending"} \cup Choices

VARIABLES outcome,  \* outcome[c] is where case c stands
          votes     \* the ballots cast, as <<ballot, case, choice>>

gateVars == <<outcome, votes>>

GateTypeOK == /\ outcome \in [Cases -> Outcomes]
              /\ votes \subseteq Ballots \X Cases \X Choices

GateInit == /\ outcome = [c \in Cases |-> "unborn"]
            /\ votes = {}

(* The machine is done with the case: it failed, it needed nobody, or it   *)
(* waits for a person.                                                     *)
Open(c, o) == /\ outcome[c] = "unborn"
              /\ o \in {"failed", "automatic", "pending"}
              /\ outcome' = [outcome EXCEPT ![c] = o]
              /\ UNCHANGED votes

WentToPeople(c) == outcome[c] \in {"pending"} \cup Choices

Unused(b) == \A v \in votes : v[1] # b

Vote(b, c, x) == /\ WentToPeople(c)
                 /\ Unused(b)
                 /\ votes' = votes \cup {<<b, c, x>>}
                 /\ outcome' = [outcome EXCEPT ![c] = x]

EscalateAgain(b, c) == /\ \E v \in votes : v[2] = c /\ v[3] = "escalated"
                       /\ WentToPeople(c)
                       /\ Unused(b)
                       /\ votes' = votes \cup {<<b, c, "escalated">>}
                       /\ UNCHANGED outcome

GateNext ==
  \/ \E c \in Cases, o \in Outcomes : Open(c, o)
  \/ \E b \in Ballots, c \in Cases, x \in Choices : Vote(b, c, x)
  \/ \E b \in Ballots, c \in Cases : EscalateAgain(b, c)

GateSpec == GateInit /\ [][GateNext]_gateVars

(* The promise a reader of the abstract gate relies on: an outcome that a  *)
(* person is said to have chosen was chosen by a person.                   *)
OutcomeWasVoted ==
  \A c \in Cases : outcome[c] \in Choices =>
                     \E v \in votes : v[2] = c /\ v[3] = outcome[c]

=============================================================================
