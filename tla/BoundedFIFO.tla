---------------------------- MODULE BoundedFIFO ----------------------------
(***************************************************************************)
(* What NX_QUEUE (src/omx/common/NX_OMXQueue.c) promises its users: a      *)
(* first-in first-out list of at most Capacity elements that can be closed *)
(* once, after which it is empty and stays empty.                          *)
(***************************************************************************)
EXTENDS Naturals, Sequences

CONSTANTS Elements, Capacity, None

VARIABLES q,      \* the list
          open,   \* not closed yet
          taken   \* the element the last Get returned

Init == q = << >> /\ open = TRUE /\ taken = None

Put(e) == /\ open
          /\ Len(q) < Capacity
          /\ q' = Append(q, e)
          /\ UNCHANGED <<open, taken>>

Get == /\ q # << >>
       /\ q' = Tail(q)
       /\ taken' = Head(q)
       /\ UNCHANGED open

Close == /\ open
         /\ open' = FALSE
         /\ q' = << >>
         /\ UNCHANGED taken

Next == (\E e \in Elements : Put(e)) \/ Get \/ Close

Spec == Init /\ [][Next]_<<q, open, taken>>
=============================================================================
