---------------------------- MODULE LossyFifo ----------------------------
(* What a queue of the library promises to the threads on its two sides.   *)
(* Items are numbered 1, 2, 3, ... in the order they are put.  The queue   *)
(* holds the most recent ones; it may lose the oldest of them to make room *)
(* for new ones, but it never reorders, repeats or invents an item, never  *)
(* skips one while handing items out, and never evicts the newest.         *)
EXTENDS Naturals, Sequences

VARIABLES
    put,        \* how many items have been put so far
    gone,       \* items 1..gone are no longer held: taken or lost
    taken       \* the items handed out, in the order they were handed out

fifoVars == <<put, gone, taken>>

FifoTypeOK ==
    /\ put \in Nat
    /\ gone \in Nat
    /\ taken \in Seq(Nat)

FifoInit ==
    /\ put = 0
    /\ gone = 0
    /\ taken = <<>>

(* Items are put (possibly none); the oldest may be evicted, the newest    *)
(* never.                                                                  *)
Offer ==
    /\ put' \in Nat
    /\ put <= put'
    /\ gone' \in gone..(put' - 1)
    /\ UNCHANGED taken

(* The oldest held items, without a gap, go to one consumer.               *)
Deliver ==
    /\ gone' \in (gone + 1)..put
    /\ taken' = taken \o [i \in 1..(gone' - gone) |-> gone + i]
    /\ UNCHANGED put

(* Everything held is thrown away.                                         *)
Discard ==
    /\ gone' = put
    /\ UNCHANGED <<put, taken>>

FifoNext == Offer \/ Deliver \/ Discard

FifoSpec == FifoInit /\ [][FifoNext]_fifoVars

(* What a consumer sees: strictly increasing item numbers, so no item is   *)
(* handed out twice or after a younger one, and none before it was put.    *)
TakenInOrder ==
    /\ gone <= put
    /\ \A i \in DOMAIN taken : taken[i] <= gone
    /\ \A i, j \in DOMAIN taken : i < j => taken[i] < taken[j]
==========================================================================
