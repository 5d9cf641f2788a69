----------------------------- MODULE TsQueue -----------------------------
(* tsQueue<T> (utils/thread_safe_queue.h): the queue through which every   *)
(* thread of the library hands data to the next one.                       *)
(*                                                                         *)
(* Each method holds m_mutex from its first line to its return, except     *)
(* while it sleeps on m_cond, so one step of this module is the code       *)
(* between two points where the lock is free: a whole non-blocking method, *)
(* the first look of a blocking method, or the look it takes after waking. *)
(* Items are numbered in the order they are pushed.                        *)
EXTENDS Integers, Sequences, FiniteSets

CONSTANTS
    Consumers,      \* the threads that call blocking methods
    Calls,          \* the blocking calls they make
    Lengths,        \* the values m_length is given
    MaxBatch,       \* the longest vector passed to push_all
    MaxPush         \* bound: how many items are ever pushed

Ops == {"pop", "pop_for", "pop_N", "pop_all", "pop_all_for", "pop_limit",
        "front", "back"}

(* A blocking call and its integer argument (0 where there is none).       *)
Call == [op : Ops, n : Nat]

NoCall == [op |-> "none", n |-> 0]

ASSUME CallsAssumption ==
    /\ Calls \subseteq Call
    /\ \A c \in Calls : c.op \in {"pop_N", "pop_limit"} => c.n > 0
ASSUME ConsumersAssumption == IsFiniteSet(Consumers)
ASSUME LengthsAssumption == Lengths # {} /\ Lengths \subseteq Nat
ASSUME BoundsAssumption == MaxBatch \in Nat /\ MaxPush \in Nat

VARIABLES
    queue,      \* m_queue
    length,     \* m_length; 0 means unbounded
    pushed,     \* how many items have been pushed
    call,       \* the blocking call each consumer is in
    waiting,    \* the consumers asleep on m_cond
    expired,    \* the consumers whose one-second wait_for has run out
    taken       \* history: the items removed by pops, in order

vars == <<queue, length, pushed, call, waiting, expired, taken>>

TypeOK ==
    /\ queue \in Seq(Nat)
    /\ length \in Nat
    /\ pushed \in Nat
    /\ call \in [Consumers -> Calls \cup {NoCall}]
    /\ waiting \subseteq {t \in Consumers : call[t] # NoCall}
    /\ expired \subseteq Consumers
    /\ taken \in Seq(Nat)

Init ==
    /\ queue = <<>>
    /\ length \in Lengths
    /\ pushed = 0
    /\ call = [t \in Consumers |-> NoCall]
    /\ waiting = {}
    /\ expired = {}
    /\ taken = <<>>

--------------------------------------------------------------------------
(* The calls: what each waits for, and how much it then removes.           *)

Timed(c) == c.op \in {"pop_for", "pop_all_for"}

Peek(c) == c.op \in {"front", "back"}

(* The predicate handed to m_cond.wait / wait_for.                         *)
Ready(c, q) == IF c.op = "pop_N" THEN Len(q) >= c.n ELSE q # <<>>

(* How many items a call removes once its predicate holds.                 *)
Takes(c, q) ==
    CASE c.op \in {"pop", "pop_for"} -> 1
      [] c.op = "pop_limit" -> IF c.n < Len(q) THEN c.n ELSE Len(q)
      [] Peek(c) -> 0
      [] OTHER -> Len(q)

First(q, n) == SubSeq(q, 1, n)
Rest(q, n) == SubSeq(q, n + 1, Len(q))

(* notify_one wakes one of the sleeping threads, if there is one.          *)
NotifySkipsBacklog ==       \* mutant: notify only when the queue was empty
    IF queue # <<>> \/ waiting = {}
    THEN waiting' = waiting
    ELSE \E t \in waiting : waiting' = waiting \ {t}

NotifyForgotten == waiting' = waiting       \* mutant

Notify ==
    \/ waiting = {} /\ waiting' = {}
    \/ \E t \in waiting : waiting' = waiting \ {t}

--------------------------------------------------------------------------
(* Insertion.  push drops at most one item, push_all as many as it takes.  *)

DropOneLate(q) ==           \* mutant: drop only past the limit plus one
    IF length > 0 /\ Len(q) > length + 1 THEN Tail(q) ELSE q

DropOne(q) == IF length > 0 /\ Len(q) > length THEN Tail(q) ELSE q

DropExcessNewest(q) ==      \* mutant: drop from the wrong end
    IF length > 0 /\ Len(q) > length THEN First(q, length) ELSE q

DropExcess(q) ==
    IF length > 0 /\ Len(q) > length THEN Rest(q, Len(q) - length) ELSE q

push ==
    /\ pushed < MaxPush
    /\ pushed' = pushed + 1
    /\ queue' = DropOne(Append(queue, pushed + 1))
    /\ Notify
    /\ UNCHANGED <<length, call, expired, taken>>

push_all(k) ==
    /\ pushed + k <= MaxPush
    /\ pushed' = pushed + k
    /\ queue' = DropExcess(queue \o [i \in 1..k |-> pushed + i])
    /\ Notify
    /\ UNCHANGED <<length, call, expired, taken>>

--------------------------------------------------------------------------
(* Retrieval.  Finish is the code after the wait; Sleep releases the lock. *)

FinishEmptiesQueue(t, c) == \* mutant: every pop clears what it leaves
    /\ queue' = IF Peek(c) THEN queue ELSE <<>>
    /\ taken' = taken \o First(queue, Takes(c, queue))
    /\ call' = [call EXCEPT ![t] = NoCall]
    /\ expired' = expired \ {t}
    /\ UNCHANGED waiting

Finish(t, c) ==
    /\ queue' = Rest(queue, Takes(c, queue))
    /\ taken' = taken \o First(queue, Takes(c, queue))
    /\ call' = [call EXCEPT ![t] = NoCall]
    /\ expired' = expired \ {t}
    /\ UNCHANGED waiting

Sleep(t, c) ==
    /\ call' = [call EXCEPT ![t] = c]
    /\ waiting' = waiting \cup {t}
    /\ UNCHANGED <<queue, taken, expired>>

(* An idle consumer calls a blocking method.                               *)
Invoke(t, c) ==
    /\ call[t] = NoCall
    /\ IF Ready(c, queue) THEN Finish(t, c) ELSE Sleep(t, c)
    /\ UNCHANGED <<length, pushed>>

GiveUp(t) ==
    /\ call' = [call EXCEPT ![t] = NoCall]
    /\ expired' = expired \ {t}
    /\ UNCHANGED <<queue, taken, waiting>>

Resume(t) ==
    /\ call[t] # NoCall
    /\ t \notin waiting
    /\ IF Ready(call[t], queue) THEN Finish(t, call[t])
       ELSE IF t \in expired THEN GiveUp(t)
       ELSE Sleep(t, call[t])
    /\ UNCHANGED <<length, pushed>>

(* The second of a wait_for runs out, asleep or while awaiting the lock.   *)
TimeoutStaysAsleep(t) ==    \* mutant: the call returns, its thread still waits
    /\ Timed(call[t])
    /\ t \notin expired
    /\ call' = [call EXCEPT ![t] = NoCall]
    /\ UNCHANGED <<queue, length, pushed, waiting, expired, taken>>

Timeout(t) ==
    /\ Timed(call[t])
    /\ t \notin expired
    /\ expired' = expired \cup {t}
    /\ waiting' = waiting \ {t}
    /\ UNCHANGED <<queue, length, pushed, call, taken>>

(* A condition variable may wake a thread without a notification.          *)
SpuriousWakeup(t) ==
    /\ t \in waiting
    /\ waiting' = waiting \ {t}
    /\ UNCHANGED <<queue, length, pushed, call, expired, taken>>

--------------------------------------------------------------------------
(* Management.                                                             *)

clear ==
    /\ queue' = <<>>
    /\ UNCHANGED <<length, pushed, call, waiting, expired, taken>>

(* It takes no lock, while push and push_all read m_length more than once: *)
(* a call between those reads is a data race.  Nobody in the repository    *)
(* calls it; it is one step here, before or after an insertion.            *)
set_queue_length(n) ==
    /\ length' = n
    /\ UNCHANGED <<queue, pushed, call, waiting, expired, taken>>

Next ==
    \/ push
    \/ \E k \in 0..MaxBatch : push_all(k)
    \/ \E t \in Consumers, c \in Calls : Invoke(t, c)
    \/ \E t \in Consumers : Resume(t)
    \/ \E t \in Consumers : Timeout(t)
    \/ \E t \in Consumers : SpuriousWakeup(t)
    \/ clear
    \/ \E n \in Lengths : set_queue_length(n)

Spec == Init /\ [][Next]_vars

(* The operating system runs a thread that is awake and fires its timers.  *)
Fairness == \A t \in Consumers : WF_vars(Resume(t)) /\ WF_vars(Timeout(t))

FairSpec == Spec /\ Fairness

--------------------------------------------------------------------------
(* Properties.                                                             *)

(* Consumers in a blocking call that are not asleep: they will look again. *)
Awake == {t \in Consumers : call[t] # NoCall} \ waiting

(* No lost wakeup: no thread sleeps on m_cond beside data it could take    *)
(* unless some other thread is already on its way to look at the queue.    *)
NoLostWakeup ==
    (\E t \in waiting : Ready(call[t], queue)) => Awake # {}

(* The queue always holds exactly the newest items pushed, oldest first,   *)
(* whatever push, push_all, the drops and the pops did in between.         *)
Newest(q, m) ==
    /\ Len(q) <= m
    /\ \A i \in 1..Len(q) : q[i] = m - Len(q) + i

QueueIsNewestItems == Newest(queue, pushed)

(* The limit bounds the queue and is no excuse for more: no insertion makes*)
(* the queue longer than m_length, even after m_length was lowered below   *)
(* its size ("constrain growth when queue is populated but not read"), and *)
(* one that drops items leaves m_length of them at least.                  *)
LimitKept ==
    [][pushed' > pushed =>
        /\ Len(queue') > Len(queue) => length = 0 \/ Len(queue') <= length
        /\ Len(queue') - Len(queue) < pushed' - pushed
              => length > 0 /\ Len(queue') >= length]_vars

(* The queue implements a lossy FIFO whose held items are gone+1 .. put.   *)
Fifo == INSTANCE LossyFifo WITH
            put <- pushed, gone <- pushed - Len(queue), taken <- taken
ImplementsFifo == Fifo!FifoSpec

(* Consumers are handed strictly increasing item numbers: no item twice,   *)
(* none after a younger one, whichever methods and threads removed them.   *)
TakenInOrder == Fifo!TakenInOrder

(* A blocked call whose predicate holds returns, unless another thread     *)
(* takes the data first.                                                   *)
BlockedCallServed ==
    \A t \in Consumers :
        (call[t] # NoCall /\ Ready(call[t], queue))
            ~> (call[t] = NoCall \/ ~Ready(call[t], queue))
==========================================================================
