---------------------------- MODULE CommandQueue ----------------------------
(***************************************************************************)
(* What AsyncWorker takes a command queue for: a first-in first-out queue  *)
(* that one thread fills and one thread empties, each call of which takes  *)
(* effect at once.                                                         *)
(*                                                                         *)
(*   - an element is put at the end, or refused, in which case it is gone; *)
(*   - a dequeue gets the first element, or is told that there is none,    *)
(*     which was so at some moment of the call;                            *)
(*   - what a peek saw is what the next dequeue gets.                      *)
(*                                                                         *)
(* ReaderWriterQueue.tla is shown to implement this specification.         *)
(***************************************************************************)
EXTENDS Naturals, Sequences

CONSTANTS Elements, Nothing

VARIABLES contents,  \* the elements in the queue, oldest first
          offered,   \* the element of the enqueue under way
          refused,   \* the number of those refused
          got,       \* the answer to the last dequeue or peek
          empty      \* the queue has been empty during the call under way

vars == <<contents, offered, refused, got, empty>>

Init == /\ contents = <<>> /\ offered = Nothing /\ refused = 0
        /\ got = Nothing /\ empty = FALSE

(* An enqueue begins, and puts its element at the end or refuses it. *)
Offer(e) == /\ offered = Nothing
            /\ offered' = e
            /\ UNCHANGED <<contents, refused, got, empty>>

Put == /\ offered # Nothing
       /\ contents' = Append(contents, offered)
       /\ offered' = Nothing
       /\ UNCHANGED <<refused, got, empty>>

Refuse == /\ offered # Nothing
          /\ offered' = Nothing
          /\ refused' = refused + 1
          /\ UNCHANGED <<contents, got, empty>>

(* A dequeue or a peek begins, and notices when there is nothing. *)
Call == /\ got' = Nothing /\ empty' = FALSE
        /\ UNCHANGED <<contents, offered, refused>>

Notice == /\ contents = <<>>
          /\ empty' = TRUE
          /\ UNCHANGED <<contents, offered, refused, got>>

(* It ends. *)
Peek == /\ contents # <<>>
        /\ got' = Head(contents)
        /\ empty' = FALSE
        /\ UNCHANGED <<contents, offered, refused>>

Dequeue == /\ contents # <<>>
           /\ got' = Head(contents)
           /\ contents' = Tail(contents)
           /\ empty' = FALSE
           /\ UNCHANGED <<offered, refused>>

None == /\ empty
        /\ empty' = FALSE
        /\ UNCHANGED <<contents, offered, refused, got>>

Next == \/ \E e \in Elements : Offer(e)
        \/ Put \/ Refuse
        \/ Call \/ Notice \/ Peek \/ Dequeue \/ None

Spec == Init /\ [][Next]_vars
=============================================================================
