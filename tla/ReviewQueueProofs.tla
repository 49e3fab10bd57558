-------------------------- MODULE ReviewQueueProofs --------------------------
(***************************************************************************)
(* Why a walk through the review queue misses and repeats only for a       *)
(* reason, for any number of cases and any page size.                      *)
(*                                                                         *)
(* What decides whether a case is on a page is its place, the number of    *)
(* queued cases up to it.  While no older case joins, places only fall, so *)
(* a case that was shown is behind the pages to come; while none leaves    *)
(* either, the place of a case stays, so a case that was not shown yet is  *)
(* still ahead, and within the total that decides which page is the last.  *)
(***************************************************************************)
EXTENDS ReviewQueue, FiniteSetTheorems, TLAPS

-----------------------------------------------------------------------------
(* The inductive invariant.                                                *)

Older(c) == {b \in Cases : b < c}
UpTo(c) == {b \in Queue : b <= c}
Walking == walk.at \in {"ask", "counted"}

(* How many cases the pages read so far are meant to have passed.          *)
Passed == (walk.page - 1) * walk.size

WalkTypes ==
  /\ outcome \in [Cases -> Outcomes]
  /\ IsFiniteSet(Queue)
  /\ walk \in [at : {"none", "ask", "counted", "done"}, page : Nat,
               size : Nat \ {0}]
  /\ Walking => walk.page # 0
  /\ counted \in Nat
  /\ items \in [Cases -> Nat]
  /\ stayed \subseteq Cases
  /\ Walking => stayed \subseteq Queue
  /\ walk.at = "none" => items = [c \in Cases |-> 0]

ShownOnce(c) ==
  c \in stayed /\ Older(c) \cap joined = {} =>
    /\ items[c] \in {0, 1}
    /\ Walking /\ items[c] = 1 => Place(c) <= Passed

NotSkipped(c) ==
  c \in stayed /\ Older(c) \cap (left \cup joined) = {} =>
    /\ Walking /\ items[c] = 0 => Place(c) > Passed
    /\ walk.at = "counted" => Place(c) <= counted
    /\ walk.at = "done" => items[c] # 0

WalkInv == WalkTypes /\ \A c \in Cases : ShownOnce(c) /\ NotSkipped(c)

-----------------------------------------------------------------------------
(* Places.                                                                 *)

LEMMA Places ==
  ASSUME IsFiniteSet(Queue), NEW c \in Queue
  PROVE  /\ IsFiniteSet(UpTo(c))
         /\ Place(c) = Cardinality(UpTo(c))
         /\ Place(c) \in Nat \ {0}
         /\ Place(c) <= Cardinality(Queue)
<1>1. UpTo(c) \in SUBSET Queue
  BY DEF UpTo
<1>2. IsFiniteSet(UpTo(c)) /\ Cardinality(UpTo(c)) <= Cardinality(Queue)
  BY <1>1, FS_Subset, Zenon
<1>3. Place(c) = Cardinality(UpTo(c))
  BY DEF Place, UpTo
<1>4. Cardinality(UpTo(c)) \in Nat
  BY <1>2, FS_CardinalityType, Zenon
<1>5. c \in UpTo(c)
  BY QueueAssumption DEF UpTo, Queue
<1>6. Cardinality(UpTo(c)) # 0
  BY <1>2, <1>5, FS_EmptySet, Zenon
<1> QED
  BY <1>2, <1>3, <1>4, <1>6

(* The last page is the one that reaches the total.                        *)
LEMMA LastPage ==
  ASSUME NEW total \in Nat, NEW size \in Nat \ {0}, NEW page \in Nat,
         ~(page < TotalPages(total, size))
  PROVE  total <= page * size
<1>1. PICK q \in Int : q = (total + size - 1) \div size
  OBVIOUS
<1>2. q * size <= total + size - 1 /\ total + size - 1 < (q + 1) * size
  BY <1>1
<1>3. q <= page
  BY <1>1 DEF TotalPages
<1>4. (q + 1) * size <= (page + 1) * size
  BY <1>3
<1>5. (page + 1) * size = page * size + size /\ page * size \in Int
  OBVIOUS
<1> QED
  BY <1>2, <1>4, <1>5

(* Cases come one at a time.                                               *)
LEMMA QueueStaysFinite ==
  ASSUME outcome \in [Cases -> Outcomes], IsFiniteSet(Queue), GateNext
  PROVE  outcome' \in [Cases -> Outcomes] /\ IsFiniteSet(Queue')
<1>1. PICK c \in Cases, o \in Outcomes :
        outcome' = [outcome EXCEPT ![c] = o] \/ outcome' = outcome
  BY DEF GateNext, Open, Vote, EscalateAgain, Outcomes, Choices
<1>2. Queue' \in SUBSET (Queue \cup {c})
  BY <1>1 DEF Queue
<1>3. IsFiniteSet(Queue \cup {c})
  BY FS_AddElement, Zenon
<1>4. IsFiniteSet(Queue')
  BY <1>2, <1>3, FS_Subset, Zenon
<1> QED
  BY <1>1, <1>4

-----------------------------------------------------------------------------
(* Init and the steps.                                                     *)

LEMMA InitWalk == Init => WalkInv
<1> SUFFICES ASSUME Init PROVE WalkInv
  OBVIOUS
<1>1. Queue = {}
  BY DEF Init, GateInit, Queue
<1>2. WalkTypes
  BY <1>1, FS_EmptySet DEF Init, GateInit, WalkTypes, NoWalk, Walking, Outcomes
<1> QED
  BY <1>2 DEF Init, WalkInv, ShownOnce, NotSkipped, NoWalk, Walking

LEMMA BeginKeeps ==
  ASSUME WalkInv, BeginWalk
  PROVE  WalkInv'
<1>1. PICK size \in Nat \ {0} :
        /\ walk.at = "none" /\ walk' = [at |-> "ask", page |-> 1, size |-> size]
        /\ stayed' = Queue
        /\ UNCHANGED <<outcome, votes, counted, items, left, joined>>
  BY QueueAssumption DEF BeginWalk, gateVars
<1>2. /\ walk'.at = "ask" /\ walk'.page = 1 /\ walk'.size = size
      /\ Walking' /\ Passed' = 0
  BY <1>1 DEF Walking, Passed
<1>3. Queue' = Queue
  BY <1>1 DEF Queue
<1>4. WalkTypes'
  BY <1>1, <1>2, <1>3 DEF WalkInv, WalkTypes, Queue
<1>5. ASSUME NEW c \in Cases PROVE ShownOnce(c)' /\ NotSkipped(c)'
  <2>1. items'[c] = 0
    BY <1>1 DEF WalkInv, WalkTypes
  <2>2. Place(c)' = Place(c)
    BY <1>3 DEF Place
  <2>3. c \in stayed' => Place(c) > 0
    BY <1>1, Places DEF WalkInv, WalkTypes
  <2> QED
    BY <1>2, <2>1, <2>2, <2>3 DEF ShownOnce, NotSkipped
<1> QED
  BY <1>4, <1>5 DEF WalkInv

LEMMA CountKeeps ==
  ASSUME WalkInv, Count
  PROVE  WalkInv'
<1>1. /\ walk.at = "ask" /\ counted' = Cardinality(Queue)
      /\ walk' = [walk EXCEPT !.at = "counted"]
      /\ UNCHANGED <<outcome, votes, items, stayed, left, joined>>
  BY DEF Count, gateVars
<1>2. WalkTypes
  BY DEF WalkInv
<1>3. /\ walk'.at = "counted" /\ walk'.page = walk.page /\ walk'.size = walk.size
      /\ walk' \in [at : {"none", "ask", "counted", "done"}, page : Nat,
                    size : Nat \ {0}]
  BY <1>1, <1>2 DEF WalkTypes
<1>4. Queue' = Queue /\ Walking /\ Walking' /\ Passed' = Passed
  BY <1>1, <1>3 DEF Queue, Walking, Passed
<1>5. counted' \in Nat
  BY <1>1, <1>2, FS_CardinalityType DEF WalkTypes
<1>6. WalkTypes'
  BY <1>1, <1>2, <1>3, <1>4, <1>5 DEF WalkTypes
<1>7. ASSUME NEW c \in Cases PROVE ShownOnce(c)' /\ NotSkipped(c)'
  <2>1. Place(c)' = Place(c)
    BY <1>4 DEF Place
  <2>2. c \in stayed => Place(c) <= Cardinality(Queue)
    BY <1>2, <1>4, Places DEF WalkTypes
  <2>3. ShownOnce(c) /\ NotSkipped(c)
    BY DEF WalkInv
  <2> QED
    BY <1>1, <1>3, <1>4, <2>1, <2>2, <2>3 DEF ShownOnce, NotSkipped
<1> QED
  BY <1>6, <1>7 DEF WalkInv

LEMMA ReadPageKeeps ==
  ASSUME WalkInv, ReadPage
  PROVE  WalkInv'
<1>1. WalkTypes
  BY DEF WalkInv
<1>2. PICK page \in Nat \ {0}, size \in Nat \ {0} :
        page = walk.page /\ size = walk.size /\ walk.at = "counted"
  BY <1>1 DEF WalkTypes, ReadPage, Walking
<1>3. /\ items' = [c \in Cases |-> items[c] + IF c \in PageItems(page, size)
                                              THEN 1 ELSE 0]
      /\ UNCHANGED <<outcome, votes, counted, stayed, left, joined>>
  BY <1>2 DEF ReadPage, gateVars
<1>4. \/ /\ walk'.at = "ask" /\ walk'.page = page + 1 /\ walk'.size = size
      \/ /\ walk'.at = "done" /\ walk'.page = page /\ walk'.size = size
         /\ ~(page < TotalPages(counted, size))
  BY <1>1, <1>2 DEF ReadPage, WalkTypes
<1>5. walk' \in [at : {"none", "ask", "counted", "done"}, page : Nat,
                 size : Nat \ {0}]
  <2> DEFINE W == [at : {"none", "ask", "counted", "done"}, page : Nat,
                   size : Nat \ {0}]
  <2>1. walk \in W /\ page + 1 \in Nat
    BY <1>1 DEF WalkTypes
  <2>2. [walk EXCEPT !.at = "ask", !.page = page + 1] \in W
    BY <2>1
  <2>3. [walk EXCEPT !.at = "done"] \in W
    BY <2>1
  <2>4. \/ walk' = [walk EXCEPT !.at = "ask", !.page = page + 1]
        \/ walk' = [walk EXCEPT !.at = "done"]
    BY <1>2 DEF ReadPage
  <2> QED
    BY <2>2, <2>3, <2>4
<1>6. Queue' = Queue /\ Walking
  BY <1>2, <1>3 DEF Queue, Walking
<1>7. WalkTypes'
  <2>1. items' \in [Cases -> Nat]
    BY <1>1, <1>3 DEF WalkTypes
  <2> QED
    BY <1>1, <1>3, <1>4, <1>5, <1>6, <2>1 DEF WalkTypes, Walking
<1>8. /\ Passed = (page - 1) * size /\ Passed \in Int
      /\ page * size \in Int /\ Passed <= page * size
      /\ walk'.at = "ask" => Passed' = page * size
  BY <1>2, <1>4 DEF Passed
<1>9. walk'.at = "done" => counted <= page * size
  BY <1>1, <1>4, LastPage DEF WalkTypes
<1>10. ASSUME NEW c \in Cases PROVE ShownOnce(c)' /\ NotSkipped(c)'
  <2> SUFFICES ASSUME c \in stayed PROVE ShownOnce(c)' /\ NotSkipped(c)'
    BY <1>3 DEF ShownOnce, NotSkipped
  <2>1. PICK n \in Nat \ {0} : n = Place(c) /\ n = Place(c)' /\ c \in Queue
    BY <1>1, <1>6, Places DEF WalkTypes, Place
  <2>2. c \in PageItems(page, size) <=> Passed < n /\ n <= page * size
    BY <1>8, <2>1 DEF PageItems
  <2>3. /\ items[c] \in Nat
        /\ items'[c] = items[c] + IF Passed < n /\ n <= page * size THEN 1 ELSE 0
    BY <1>1, <1>3, <2>2 DEF WalkTypes
  <2>4. ShownOnce(c) /\ NotSkipped(c)
    BY DEF WalkInv
  <2>5. ShownOnce(c)'
    BY <1>3, <1>4, <1>6, <1>8, <2>1, <2>3, <2>4 DEF ShownOnce, Walking
  <2>6. NotSkipped(c)'
    BY <1>1, <1>2, <1>3, <1>4, <1>6, <1>8, <1>9, <2>1, <2>3, <2>4
       DEF NotSkipped, Walking, WalkTypes
  <2> QED
    BY <2>5, <2>6
<1> QED
  BY <1>7, <1>10 DEF WalkInv

(* While no older case joins the place of a queued case does not rise, and *)
(* while none leaves either it stays.                                      *)
LEMMA PlacesFall ==
  ASSUME IsFiniteSet(Queue), IsFiniteSet(Queue'), NEW c \in Queue, c \in Queue',
         Older(c) \cap (Queue' \ Queue) = {}
  PROVE  /\ Place(c)' <= Place(c) /\ Place(c)' \in Nat /\ Place(c) \in Nat
         /\ Older(c) \cap (Queue \ Queue') = {} => Place(c)' = Place(c)
<1>1. \A b \in Queue \cup Queue' : b \in Cases /\ b \in Nat /\ c \in Nat
  BY QueueAssumption DEF Queue
<1>2. UpTo(c)' \in SUBSET UpTo(c)
  BY <1>1 DEF UpTo, Older
<1>3. Older(c) \cap (Queue \ Queue') = {} => UpTo(c)' = UpTo(c)
  BY <1>1, <1>2 DEF UpTo, Older
<1>4. /\ IsFiniteSet(UpTo(c)) /\ Place(c) = Cardinality(UpTo(c))
      /\ Place(c) \in Nat
  BY Places
<1>5. Place(c)' = Cardinality(UpTo(c)')
  BY DEF Place, UpTo
<1>6. IsFiniteSet(UpTo(c)') /\ Cardinality(UpTo(c)') <= Cardinality(UpTo(c))
  BY <1>2, <1>4, FS_Subset, Zenon
<1>7. Cardinality(UpTo(c)') \in Nat
  BY <1>6, FS_CardinalityType, Zenon
<1> QED
  BY <1>3, <1>4, <1>5, <1>6, <1>7

LEMMA MeanwhileKeeps ==
  ASSUME WalkInv, Meanwhile
  PROVE  WalkInv'
<1>1. WalkTypes /\ GateNext /\ UNCHANGED <<walk, counted, items>>
  BY DEF WalkInv, Meanwhile
<1>2. outcome' \in [Cases -> Outcomes] /\ IsFiniteSet(Queue')
  BY <1>1, QueueStaysFinite DEF WalkTypes
<1>3. (Walking' <=> Walking) /\ Passed' = Passed
  BY <1>1 DEF Walking, Passed
<1>4. CASE Walking
  <2>1. /\ stayed' = stayed \cap Queue'
        /\ left' = left \cup (Queue \ Queue')
        /\ joined' = joined \cup (Queue' \ Queue)
    BY <1>4 DEF Meanwhile, Walking
  <2>2. WalkTypes'
    BY <1>1, <1>2, <1>3, <2>1 DEF WalkTypes
  <2>3. ASSUME NEW c \in Cases PROVE ShownOnce(c)' /\ NotSkipped(c)'
    <3> SUFFICES ASSUME c \in stayed', Older(c) \cap joined' = {}
                 PROVE  ShownOnce(c)' /\ NotSkipped(c)'
      BY DEF ShownOnce, NotSkipped, Older
    <3>1. c \in stayed /\ c \in Queue /\ c \in Queue'
      BY <1>1, <1>4, <2>1 DEF WalkTypes
    <3>2. /\ Older(c) \cap joined = {} /\ Older(c) \cap (Queue' \ Queue) = {}
          /\ Older(c) \cap (left \cup joined)' = {} =>
               /\ Older(c) \cap (left \cup joined) = {}
               /\ Older(c) \cap (Queue \ Queue') = {}
      BY <2>1
    <3>3. PICK n \in Nat, m \in Nat :
            /\ n = Place(c) /\ m = Place(c)' /\ m <= n
            /\ Older(c) \cap (Queue \ Queue') = {} => m = n
      BY <1>1, <1>2, <3>1, <3>2, PlacesFall DEF WalkTypes
    <3>4. ShownOnce(c) /\ NotSkipped(c)
      BY DEF WalkInv
    <3>5. Passed \in Int
      BY <1>1 DEF Passed, WalkTypes
    <3>6. ShownOnce(c)'
      BY <1>1, <1>3, <1>4, <3>1, <3>2, <3>3, <3>4, <3>5 DEF ShownOnce
    <3>7. NotSkipped(c)'
      BY <1>1, <1>3, <1>4, <3>1, <3>2, <3>3, <3>4, <3>5 DEF NotSkipped, Older
    <3> QED
      BY <3>6, <3>7
  <2> QED
    BY <2>2, <2>3 DEF WalkInv
<1>5. CASE ~Walking
  <2>1. UNCHANGED <<stayed, left, joined>>
    BY <1>5 DEF Meanwhile, Walking
  <2>2. WalkTypes'
    BY <1>1, <1>2, <1>3, <1>5, <2>1 DEF WalkTypes
  <2>3. ASSUME NEW c \in Cases PROVE ShownOnce(c)' /\ NotSkipped(c)'
    BY <1>1, <1>3, <1>5, <2>1 DEF WalkInv, ShownOnce, NotSkipped, Older, Walking
  <2> QED
    BY <2>2, <2>3 DEF WalkInv
<1> QED
  BY <1>4, <1>5

LEMMA WalkStep == WalkInv /\ [Next]_vars => WalkInv'
<1> SUFFICES ASSUME WalkInv, [Next]_vars PROVE WalkInv'
  OBVIOUS
<1>1. CASE UNCHANGED vars
  BY <1>1 DEF vars, gateVars, walkVars, WalkInv, WalkTypes, ShownOnce,
     NotSkipped, Place, Queue, Older, Walking, Passed
<1> QED
  BY <1>1, BeginKeeps, CountKeeps, ReadPageKeeps, MeanwhileKeeps DEF Next

(* A complete walk through the queue misses a case that was queued all     *)
(* along only if an older one left or joined, and repeats one only if an   *)
(* older one joined, for any number of cases and decisions and any page    *)
(* size (WorkflowService.review_queue, Page.build).                        *)
THEOREM WalksAreExplained == Spec => []WalkExplained
<1>1. WalkInv => WalkExplained
  <2> SUFFICES ASSUME WalkInv, walk.at = "done", NEW c \in stayed
               PROVE  /\ items[c] = 0 => Older(c) \cap (left \cup joined) # {}
                      /\ items[c] > 1 => Older(c) \cap joined # {}
    BY DEF WalkExplained, Older
  <2>1. c \in Cases /\ ShownOnce(c) /\ NotSkipped(c)
    BY DEF WalkInv, WalkTypes
  <2> QED
    BY <2>1 DEF ShownOnce, NotSkipped
<1> QED
  BY <1>1, InitWalk, WalkStep, PTL DEF Spec

=============================================================================
