------------------------------ MODULE Chunking ------------------------------
(***************************************************************************)
(* chunk_text (services/document_service.py): a text of n words is cut     *)
(* into overlapping windows.  Words are numbered from 0, as in the code; a *)
(* window holds the words from .. upto - 1.                                *)
(***************************************************************************)
EXTENDS Integers, Sequences

CONSTANTS
  ChunkSize,     \* words in a window (120 in the code)
  ChunkOverlap   \* words two neighbouring windows share (20 in the code)

ASSUME ChunkAssumption ==
  /\ ChunkSize \in Nat \ {0}
  /\ ChunkOverlap \in Nat

Stride == IF ChunkSize - ChunkOverlap > 1 THEN ChunkSize - ChunkOverlap ELSE 1

(* The windows before number k stop short of the end of the text, and the  *)
(* loop breaks at the first that does not.                                 *)
LastWindow(n) ==
  CHOOSE k \in 0 .. n : /\ k * Stride + ChunkSize >= n
                        /\ \A j \in 0 .. k - 1 : j * Stride + ChunkSize < n

WindowSkippingOverlap(n, k) ==  \* variant: the next window starts at the end
  [from |-> k * ChunkSize,
   upto |-> IF (k + 1) * ChunkSize < n THEN (k + 1) * ChunkSize ELSE n]
Window(n, k) ==
  [from |-> k * Stride,
   upto |-> IF k * Stride + ChunkSize < n THEN k * Stride + ChunkSize ELSE n]

chunk_text(n) ==
  IF n = 0 THEN <<>>
           ELSE [i \in 1 .. LastWindow(n) + 1 |-> Window(n, i - 1)]

=============================================================================
