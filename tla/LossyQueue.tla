----------------------------- MODULE LossyQueue -----------------------------
(***************************************************************************)
(* The contract the spec (sections 3 and 4.1) gives an interrupt ring      *)
(* buffer: a FIFO of capacity Cap whose push stores the incoming element   *)
(* or, when the queue is full, drops that incoming element; pop returns    *)
(* the oldest stored element.  Elements are numbered 1, 2, ... in the      *)
(* order they arrive, so a history of pops identifies every element.       *)
(***************************************************************************)
EXTENDS Naturals, Sequences

CONSTANTS Cap,      \* number of elements the queue can hold
          MaxIn     \* bound on the number of arriving elements

VARIABLES q,        \* stored elements, oldest first
          n,        \* number of elements that have arrived
          out       \* elements popped so far, in pop order

vars == <<q, n, out>>

Init == q = <<>> /\ n = 0 /\ out = <<>>

\* push(item) -> bool: stored when there is room, dropped otherwise.
Push ==
    /\ n < MaxIn
    /\ n' = n + 1
    /\ q' = IF Len(q) < Cap THEN Append(q, n + 1) ELSE q
    /\ UNCHANGED out

\* pop() -> Option<item>: the oldest stored element.
Pop ==
    /\ q # <<>>
    /\ q' = Tail(q)
    /\ out' = Append(out, Head(q))
    /\ UNCHANGED n

Next == Push \/ Pop

Spec == Init /\ [][Next]_vars
=============================================================================
