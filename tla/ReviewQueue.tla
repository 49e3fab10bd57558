----------------------------- MODULE ReviewQueue -----------------------------
(***************************************************************************)
(* The manual-review queue: WorkflowService.review_queue behind            *)
(* GET /workflows, and a client that walks through its pages while         *)
(* workflows are started and decided.                                      *)
(*                                                                         *)
(* Workflows come, go and come back as ApprovalGate allows; WorkflowService*)
(* is shown to implement it.  A case is its place in the order of          *)
(* created_at, which is set when its start begins: a case may become       *)
(* visible after a younger one.                                            *)
(***************************************************************************)
EXTENDS ApprovalGate, Integers, FiniteSets

CONSTANTS PageSizes   \* bound: the page sizes clients ask for

ASSUME QueueAssumption ==
  /\ Cases \subseteq Nat
  /\ PageSizes \subseteq 1 .. 200

VARIABLES
  walk,      \* the client's walk: its page, its size, and how far it got
  counted,   \* the total of the first SELECT of the current request
  items,     \* items[c]: how often the walk has shown case c
  stayed,    \* history: the cases that have been queued since the walk began
  left,      \* history: those that have left the queue meanwhile
  joined     \* history: those that have joined it meanwhile

walkVars == <<walk, counted, items, stayed, left, joined>>
vars == <<gateVars, walkVars>>

(* Workflow.status.in_(_DECIDABLE)                                         *)
Queue == {c \in Cases : outcome[c] \in {"pending", "escalated"}}

(* order_by(created_at).limit(page_size).offset((page - 1) * page_size)    *)
Place(c) == Cardinality({b \in Queue : b <= c})
PageItems(page, size) ==
  {c \in Queue : (page - 1) * size < Place(c) /\ Place(c) <= page * size}

(* Page.build                                                              *)
TotalPagesRoundedDown(total, size) == total \div size  \* variant
TotalPages(total, size) == (total + size - 1) \div size

NoWalk == [at |-> "none", page |-> 0, size |-> 1]

Init ==
  /\ GateInit
  /\ walk = NoWalk /\ counted = 0
  /\ items = [c \in Cases |-> 0]
  /\ stayed = {} /\ left = {} /\ joined = {}

-----------------------------------------------------------------------------
BeginWalk ==
  /\ walk.at = "none"
  /\ \E size \in PageSizes : walk' = [at |-> "ask", page |-> 1, size |-> size]
  /\ stayed' = Queue
  /\ UNCHANGED <<gateVars, counted, items, left, joined>>

(* The first SELECT of a request reads the whole queue, for its length.    *)
Count ==
  /\ walk.at = "ask"
  /\ counted' = Cardinality(Queue)
  /\ walk' = [walk EXCEPT !.at = "counted"]
  /\ UNCHANGED <<gateVars, items, stayed, left, joined>>

(* The second reads the page; the client asks for the next one while there *)
(* is one, by the answer it has just got.                                  *)
ReadPage ==
  /\ walk.at = "counted"
  /\ items' = [c \in Cases |->
                 items[c] + IF c \in PageItems(walk.page, walk.size) THEN 1 ELSE 0]
  /\ walk' = IF walk.page < TotalPages(counted, walk.size)
             THEN [walk EXCEPT !.at = "ask", !.page = @ + 1]
             ELSE [walk EXCEPT !.at = "done"]
  /\ UNCHANGED <<gateVars, counted, stayed, left, joined>>

(* Workflows are started and decided meanwhile.                            *)
Meanwhile ==
  /\ GateNext
  /\ IF walk.at \in {"ask", "counted"}
     THEN /\ stayed' = stayed \cap Queue'
          /\ left' = left \cup (Queue \ Queue')
          /\ joined' = joined \cup (Queue' \ Queue)
     ELSE UNCHANGED <<stayed, left, joined>>
  /\ UNCHANGED <<walk, counted, items>>

Next == BeginWalk \/ Count \/ ReadPage \/ Meanwhile

Spec == Init /\ [][Next]_vars

-----------------------------------------------------------------------------
(* Paging by offset, over a queue that moves, can miss and repeat, but     *)
(* only for a reason: a case that was queued all along is missing from a   *)
(* complete walk only if an older one left (the offset then skips one) or  *)
(* joined late (it pushes one behind the last page that was counted), and  *)
(* is shown twice only if an older one joined.  Younger cases, however     *)
(* they come and go, disturb nothing (review_queue, Page.build).           *)
WalkExplained ==
  walk.at = "done" =>
    \A c \in stayed :
      LET older == {b \in Cases : b < c} IN
      /\ items[c] = 0 => older \cap (left \cup joined) # {}
      /\ items[c] > 1 => older \cap joined # {}

=============================================================================
