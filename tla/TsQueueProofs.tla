-------------------------- MODULE TsQueueProofs --------------------------
(* Theorems about tsQueue for every set of consumers, every limit and      *)
(* every batch size.                                                       *)
EXTENDS TsQueue, TLAPS, FiniteSetTheorems

--------------------------------------------------------------------------
(* Lemmas about the operators.                                             *)

(* First and Rest cut a queue in two.                                      *)
LEMMA SubSeqFacts ==
    ASSUME NEW q \in Seq(Nat), NEW n \in 0..Len(q)
    PROVE  /\ First(q, n) \in Seq(Nat) /\ Len(First(q, n)) = n
           /\ Rest(q, n) \in Seq(Nat) /\ Len(Rest(q, n)) = Len(q) - n
           /\ \A i \in 1..n : First(q, n)[i] = q[i]
           /\ \A i \in 1..(Len(q) - n) : Rest(q, n)[i] = q[n + i]
  BY DEF First, Rest

LEMMA NumberedSeq ==
    ASSUME NEW k \in Nat, NEW m \in Nat
    PROVE  /\ [i \in 1..k |-> m + i] \in Seq(Nat)
           /\ Len([i \in 1..k |-> m + i]) = k
  OBVIOUS

(* A call whose predicate holds removes between none and all of the items, *)
(* and something unless it only looks.                                     *)
LEMMA TakesBounds ==
    ASSUME NEW c \in Calls, NEW q \in Seq(Nat), Ready(c, q)
    PROVE  /\ Takes(c, q) \in 0..Len(q)
           /\ ~Peek(c) => Takes(c, q) > 0
  BY CallsAssumption DEF Call, Ops, Ready, Takes, Peek

(* Putting the next k items behind the newest ones gives the newest ones.  *)
LEMMA AppendKeepsNewest ==
    ASSUME NEW q \in Seq(Nat), NEW m \in Nat, NEW k \in Nat, Newest(q, m)
    PROVE  LET r == q \o [i \in 1..k |-> m + i]
           IN  r \in Seq(Nat) /\ Len(r) = Len(q) + k /\ Newest(r, m + k)
<1> DEFINE s == [i \in 1..k |-> m + i]
<1>1. s \in Seq(Nat) /\ Len(s) = k
  BY NumberedSeq
<1>2. \A i \in 1..k : s[i] = m + i
  OBVIOUS
<1> HIDE DEF s
<1>3. q \o s \in Seq(Nat) /\ Len(q \o s) = Len(q) + k
  BY <1>1
<1>4. ASSUME NEW i \in 1..(Len(q) + k)
      PROVE  (q \o s)[i] = (m + k) - (Len(q) + k) + i
  <2>1. CASE i <= Len(q)
    BY <2>1, <1>1 DEF Newest
  <2>2. CASE i > Len(q)
    <3>1. (q \o s)[i] = s[i - Len(q)] /\ i - Len(q) \in 1..k
      BY <2>2, <1>1
    <3>2. QED
      BY <3>1, <1>2
  <2>3. i <= Len(q) \/ i > Len(q)
    <3>1. i \in Int /\ Len(q) \in Int
      OBVIOUS
    <3>2. QED
      BY <3>1
  <2>4. QED
    BY <2>1, <2>2, <2>3
<1>5. Newest(q \o s, m + k)
  BY <1>3, <1>4 DEF Newest
<1>6. QED
  BY <1>3, <1>5 DEF s

(* Dropping from the front leaves the newest items.                        *)
LEMMA RestKeepsNewest ==
    ASSUME NEW q \in Seq(Nat), NEW m \in Nat, NEW n \in 0..Len(q),
           Newest(q, m)
    PROVE  Newest(Rest(q, n), m)
<1>1. Len(Rest(q, n)) = Len(q) - n
  BY SubSeqFacts
<1>2. ASSUME NEW i \in 1..(Len(q) - n)
      PROVE  Rest(q, n)[i] = m - (Len(q) - n) + i
  <2>1. Rest(q, n)[i] = q[n + i]
    BY SubSeqFacts
  <2>2. n + i \in 1..Len(q)
    OBVIOUS
  <2>3. q[n + i] = m - Len(q) + (n + i)
    BY <2>2 DEF Newest
  <2>4. QED
    BY <2>1, <2>3
<1>3. QED
  BY <1>1, <1>2 DEF Newest

(* push and push_all drop from the front, and never the last item.         *)
LEMMA DropsFromFront ==
    ASSUME NEW q \in Seq(Nat), length \in Nat
    PROVE  /\ \E n \in 0..Len(q) :
                  DropOne(q) = Rest(q, n) /\ (q # <<>> => n < Len(q))
           /\ \E n \in 0..Len(q) :
                  DropExcess(q) = Rest(q, n) /\ (q # <<>> => n < Len(q))
<1>1. Rest(q, 0) = q
  BY DEF Rest
<1>2. \E n \in 0..Len(q) : DropOne(q) = Rest(q, n) /\ (q # <<>> => n < Len(q))
  <2>1. CASE length > 0 /\ Len(q) > length
    <3>1. DropOne(q) = Rest(q, 1)
      BY <2>1 DEF DropOne, Rest
    <3>2. QED
      BY <2>1, <3>1
  <2>2. CASE ~(length > 0 /\ Len(q) > length)
    BY <1>1, <2>2 DEF DropOne
  <2>3. QED
    BY <2>1, <2>2
<1>3. \E n \in 0..Len(q) : DropExcess(q) = Rest(q, n) /\ (q # <<>> => n < Len(q))
  <2>1. CASE length > 0 /\ Len(q) > length
    BY <2>1 DEF DropExcess
  <2>2. CASE ~(length > 0 /\ Len(q) > length)
    BY <1>1, <2>2 DEF DropExcess
  <2>3. QED
    BY <2>1, <2>2
<1>4. QED
  BY <1>2, <1>3

--------------------------------------------------------------------------
(* The effect of the steps on the queue and on what has been handed out.   *)

(* The inductive invariant: the queue is the tail end of what was pushed.  *)
QueueInv == TypeOK /\ QueueIsNewestItems

(* The queue with the next k items put behind it, before any drop.         *)
Extended(k) == queue \o [i \in 1..k |-> pushed + i]

(* A step that puts the next k items behind and drops the n oldest.        *)
PutsAndDrops(k, n) ==
    LET q == Extended(k)
    IN  /\ q \in Seq(Nat) /\ Len(q) = Len(queue) + k /\ Newest(q, pushed + k)
        /\ n \in 0..Len(q) /\ (q # <<>> => n < Len(q))
        /\ queue' = Rest(q, n)
        /\ pushed' = pushed + k
        /\ UNCHANGED taken

LEMMA InsertionEffect ==
    ASSUME QueueInv, push \/ \E k \in 0..MaxBatch : push_all(k)
    PROVE  \E k, n \in Nat : PutsAndDrops(k, n)
<1> USE DEF QueueInv, TypeOK, QueueIsNewestItems
<1>1. CASE push
  <2>1. /\ Extended(1) \in Seq(Nat)
        /\ Len(Extended(1)) = Len(queue) + 1
        /\ Newest(Extended(1), pushed + 1)
    BY AppendKeepsNewest DEF Extended
  <2>2. Append(queue, pushed + 1) = Extended(1)
    BY DEF Extended
  <2>3. PICK n \in 0..Len(Extended(1)) :
            /\ DropOne(Extended(1)) = Rest(Extended(1), n)
            /\ Extended(1) # <<>> => n < Len(Extended(1))
    BY <2>1, DropsFromFront
  <2>4. /\ queue' = Rest(Extended(1), n)
        /\ pushed' = pushed + 1
        /\ UNCHANGED taken
    BY <1>1, <2>2, <2>3 DEF push
  <2>5. PutsAndDrops(1, n) /\ n \in Nat
    BY <2>1, <2>3, <2>4 DEF PutsAndDrops
  <2>6. QED
    BY <2>5
<1>2. ASSUME NEW k \in 0..MaxBatch, push_all(k)
      PROVE  \E m, n \in Nat : PutsAndDrops(m, n)
  <2>1. k \in Nat
    BY BoundsAssumption
  <2>2. /\ Extended(k) \in Seq(Nat)
        /\ Len(Extended(k)) = Len(queue) + k
        /\ Newest(Extended(k), pushed + k)
    BY <2>1, AppendKeepsNewest DEF Extended
  <2>3. PICK n \in 0..Len(Extended(k)) :
            /\ DropExcess(Extended(k)) = Rest(Extended(k), n)
            /\ Extended(k) # <<>> => n < Len(Extended(k))
    BY <2>2, DropsFromFront
  <2>4. /\ queue' = Rest(Extended(k), n)
        /\ pushed' = pushed + k
        /\ UNCHANGED taken
    BY <1>2, <2>3 DEF push_all, Extended
  <2>5. PutsAndDrops(k, n) /\ n \in Nat
    BY <2>2, <2>3, <2>4 DEF PutsAndDrops
  <2>6. QED
    BY <2>1, <2>5
<1>3. QED
  BY <1>1, <1>2

(* A pop hands out the n oldest items, a peek none, and both hold them.    *)
LEMMA FinishEffect ==
    ASSUME QueueInv, NEW t \in Consumers, NEW c \in Calls,
           Ready(c, queue), Finish(t, c)
    PROVE  \E n \in 0..Len(queue) :
              /\ queue' = Rest(queue, n)
              /\ taken' = taken \o First(queue, n)
              /\ ~Peek(c) => n > 0
  BY TakesBounds DEF QueueInv, TypeOK, Finish

--------------------------------------------------------------------------
(* Type correctness and the shape of the queue, in every reachable state.  *)

LEMMA QueueInvInductive ==
    QueueInv /\ [Next]_vars => QueueInv'
<1> SUFFICES ASSUME QueueInv, [Next]_vars
             PROVE  QueueInv'
  OBVIOUS
<1> USE DEF QueueInv, TypeOK, QueueIsNewestItems
<1>1. CASE push \/ \E k \in 0..MaxBatch : push_all(k)
  <2>1. PICK k \in Nat, n \in Nat : PutsAndDrops(k, n)
    BY <1>1, InsertionEffect
  <2>2. queue' \in Seq(Nat) /\ Newest(queue', pushed') /\ pushed' \in Nat
    BY <2>1, SubSeqFacts, RestKeepsNewest DEF PutsAndDrops
  <2>3. taken' \in Seq(Nat)
    BY <2>1 DEF PutsAndDrops
  <2>4. UNCHANGED <<length, call, expired>> /\ waiting' \subseteq waiting
    BY <1>1 DEF push, push_all, Notify
  <2>5. QED
    BY <2>2, <2>3, <2>4
<1>2. ASSUME NEW t \in Consumers, NEW c \in Calls, Ready(c, queue),
             t \notin waiting, Finish(t, c), UNCHANGED <<length, pushed>>
      PROVE  QueueInv'
  <2>1. PICK n \in 0..Len(queue) :
            queue' = Rest(queue, n) /\ taken' = taken \o First(queue, n)
    BY <1>2, FinishEffect
  <2>2. /\ queue' \in Seq(Nat) /\ Newest(queue', pushed')
        /\ taken' \in Seq(Nat)
    BY <1>2, <2>1, SubSeqFacts, RestKeepsNewest
  <2>3. /\ call' \in [Consumers -> Calls \cup {NoCall}]
        /\ waiting' \subseteq {u \in Consumers : call'[u] # NoCall}
        /\ expired' \subseteq Consumers
    BY <1>2 DEF Finish
  <2>4. QED
    BY <1>2, <2>2, <2>3
<1>3. ASSUME NEW t \in Consumers, NEW c \in Calls, Sleep(t, c),
             UNCHANGED <<length, pushed>>
      PROVE  QueueInv'
  <2>1. c # NoCall
    <3>1. c.op \in Ops
      BY CallsAssumption DEF Call
    <3>2. NoCall.op \notin Ops
      BY DEF NoCall, Ops
    <3>3. QED
      BY <3>1, <3>2
  <2>2. QED
    BY <1>3, <2>1 DEF Sleep
<1>4. ASSUME NEW t \in Consumers, NEW c \in Calls, Invoke(t, c)
      PROVE  QueueInv'
  <2>1. t \notin waiting
    BY <1>4 DEF Invoke
  <2>2. CASE Ready(c, queue)
    BY <1>2, <1>4, <2>1, <2>2 DEF Invoke
  <2>3. CASE ~Ready(c, queue)
    BY <1>3, <1>4, <2>3 DEF Invoke
  <2>4. QED
    BY <2>2, <2>3
<1>5. ASSUME NEW t \in Consumers, Resume(t)
      PROVE  QueueInv'
  <2>1. call[t] \in Calls /\ t \notin waiting
    BY <1>5 DEF Resume
  <2>2. CASE Ready(call[t], queue)
    BY <1>2, <1>5, <2>1, <2>2 DEF Resume
  <2>3. CASE ~Ready(call[t], queue) /\ t \in expired
    BY <1>5, <2>1, <2>3 DEF Resume, GiveUp
  <2>4. CASE ~Ready(call[t], queue) /\ t \notin expired
    BY <1>3, <1>5, <2>1, <2>4 DEF Resume
  <2>5. QED
    BY <2>2, <2>3, <2>4
<1>6. ASSUME NEW t \in Consumers, Timeout(t) \/ SpuriousWakeup(t)
      PROVE  QueueInv'
  BY <1>6 DEF Timeout, SpuriousWakeup
<1>7. CASE clear
  BY <1>7 DEF clear, Newest
<1>8. ASSUME NEW n \in Lengths, set_queue_length(n)
      PROVE  QueueInv'
  BY <1>8, LengthsAssumption DEF set_queue_length
<1>9. CASE UNCHANGED vars
  BY <1>9 DEF vars
<1>10. QED
  BY <1>1, <1>4, <1>5, <1>6, <1>7, <1>8, <1>9 DEF Next

(* Every variable keeps its type, and the queue is at every moment exactly *)
(* the newest items pushed, in order: no interleaving of push, push_all,   *)
(* their drops, clear and the pops leaves a gap or a stale item in it.     *)
THEOREM QueueInvariant == Spec => [](TypeOK /\ QueueIsNewestItems)
<1>1. Init => QueueInv
  BY LengthsAssumption
  DEF Init, QueueInv, TypeOK, QueueIsNewestItems, Newest
<1>2. QED
  BY <1>1, QueueInvInductive, PTL DEF Spec, QueueInv

(* Every variable keeps its type.                                          *)
THEOREM QueueTypes == Spec => []TypeOK
BY QueueInvariant, PTL

--------------------------------------------------------------------------
(* The queue implements the lossy FIFO.                                    *)

LEMMA FirstIsNextItems ==
    ASSUME NEW q \in Seq(Nat), NEW m \in Nat, NEW n \in 0..Len(q),
           Newest(q, m)
    PROVE  First(q, n) = [i \in 1..n |-> m - Len(q) + i]
<1> DEFINE s == [i \in 1..n |-> m - Len(q) + i]
<1>1. First(q, n) \in Seq(Nat) /\ Len(First(q, n)) = n
  BY SubSeqFacts
<1>2. s \in Seq(Nat) /\ Len(s) = n
  BY DEF Newest
<1>3. \A i \in 1..n : First(q, n)[i] = s[i]
  BY SubSeqFacts DEF Newest
<1> HIDE DEF s
<1>4. First(q, n) = s
  BY <1>1, <1>2, <1>3
<1>5. QED
  BY <1>4 DEF s

LEMMA EveryStepIsAFifoStep ==
    QueueInv /\ [Next]_vars => [Fifo!FifoNext]_Fifo!fifoVars
<1> SUFFICES ASSUME QueueInv, [Next]_vars
             PROVE  Fifo!FifoNext \/ UNCHANGED Fifo!fifoVars
  OBVIOUS
<1> USE DEF QueueInv, TypeOK, QueueIsNewestItems
<1> DEFINE gone == pushed - Len(queue)
<1>0. Len(queue) \in Nat /\ gone \in 0..pushed
  BY DEF Newest
<1>1. CASE push \/ \E k \in 0..MaxBatch : push_all(k)
  <2>1. PICK k \in Nat, n \in Nat : PutsAndDrops(k, n)
    BY <1>1, InsertionEffect
  <2>2. /\ n <= Len(queue) + k
        /\ Len(queue') = Len(queue) + k - n
        /\ pushed' = pushed + k
        /\ UNCHANGED taken
        /\ Len(queue) + k > 0 => n < Len(queue) + k
    <3>1. /\ Extended(k) \in Seq(Nat)
          /\ Len(Extended(k)) = Len(queue) + k
          /\ n \in 0..Len(Extended(k))
          /\ Extended(k) # <<>> => n < Len(Extended(k))
          /\ queue' = Rest(Extended(k), n)
          /\ pushed' = pushed + k
          /\ UNCHANGED taken
      BY <2>1 DEF PutsAndDrops
    <3>2. Len(queue') = Len(queue) + k - n
      <4>1. Len(Rest(Extended(k), n)) = Len(Extended(k)) - n
        BY <3>1, SubSeqFacts
      <4>2. QED
        BY <3>1, <4>1
    <3>3. Len(queue) + k > 0 => Extended(k) # <<>>
      BY <3>1
    <3>4. QED
      BY <3>1, <3>2, <3>3
  <2>3. gone' = gone + n
    BY <2>2
  <2>4. CASE Len(queue) + k > 0
    <3>1. gone' \in gone..(pushed' - 1)
      BY <1>0, <2>2, <2>3, <2>4
    <3>2. QED
      BY <2>2, <3>1 DEF Fifo!FifoNext, Fifo!Offer
  <2>5. CASE Len(queue) + k = 0
    <3>1. gone' = gone /\ pushed' = pushed
      BY <1>0, <2>2, <2>3, <2>5
    <3>2. QED
      BY <2>2, <3>1 DEF Fifo!fifoVars
  <2>6. QED
    BY <1>0, <2>4, <2>5
<1>2. ASSUME NEW t \in Consumers, NEW c \in Calls, Ready(c, queue),
             Finish(t, c), UNCHANGED <<length, pushed>>
      PROVE  Fifo!FifoNext \/ UNCHANGED Fifo!fifoVars
  <2>1. PICK n \in 0..Len(queue) :
            queue' = Rest(queue, n) /\ taken' = taken \o First(queue, n)
    BY <1>2, FinishEffect
  <2>2. Len(queue') = Len(queue) - n
    BY <2>1, SubSeqFacts
  <2>3. gone' = gone + n /\ pushed' = pushed
    BY <1>2, <2>2
  <2>4. CASE n = 0
    <3>1. First(queue, n) = <<>>
      BY <2>4 DEF First
    <3>2. taken' = taken /\ gone' = gone
      BY <1>0, <2>1, <2>3, <2>4, <3>1
    <3>3. QED
      BY <2>3, <3>2 DEF Fifo!fifoVars
  <2>5. CASE n > 0
    <3>1. First(queue, n) = [i \in 1..n |-> gone + i]
      BY FirstIsNextItems
    <3>2. gone' \in (gone + 1)..pushed /\ gone' - gone = n
      BY <1>0, <2>3, <2>5
    <3>3. taken' = taken \o [i \in 1..(gone' - gone) |-> gone + i]
      BY <2>1, <3>1, <3>2
    <3>4. QED
      BY <2>3, <3>2, <3>3 DEF Fifo!FifoNext, Fifo!Deliver
  <2>6. QED
    BY <2>4, <2>5
<1>3. ASSUME NEW t \in Consumers, NEW c \in Calls, Invoke(t, c)
      PROVE  Fifo!FifoNext \/ UNCHANGED Fifo!fifoVars
  <2>1. CASE Ready(c, queue)
    BY <1>2, <1>3, <2>1 DEF Invoke
  <2>2. CASE ~Ready(c, queue)
    BY <1>3, <2>2 DEF Invoke, Sleep, Fifo!fifoVars
  <2>3. QED
    BY <2>1, <2>2
<1>4. ASSUME NEW t \in Consumers, Resume(t)
      PROVE  Fifo!FifoNext \/ UNCHANGED Fifo!fifoVars
  <2>1. call[t] \in Calls
    BY <1>4 DEF Resume
  <2>2. CASE Ready(call[t], queue)
    BY <1>2, <1>4, <2>1, <2>2 DEF Resume
  <2>3. CASE ~Ready(call[t], queue)
    BY <1>4, <2>3 DEF Resume, GiveUp, Sleep, Fifo!fifoVars
  <2>4. QED
    BY <2>2, <2>3
<1>5. CASE clear
  <2>1. queue' = <<>> /\ UNCHANGED <<pushed, taken>>
    BY <1>5 DEF clear
  <2>2. gone' = pushed
    BY <2>1
  <2>3. QED
    BY <2>1, <2>2 DEF Fifo!FifoNext, Fifo!Discard
<1>6. CASE UNCHANGED <<queue, pushed, taken>>
  BY <1>6 DEF Fifo!fifoVars
<1>7. QED
  BY <1>1, <1>3, <1>4, <1>5, <1>6
  DEF Next, Timeout, SpuriousWakeup, set_queue_length, vars

(* Every behaviour of the queue, with any number of threads on both sides, *)
(* is one of the lossy FIFO: it hands out the oldest items it holds, in    *)
(* the order they were pushed, and evicts the oldest, never the newest.    *)
THEOREM QueueImplementsFifo == Spec => ImplementsFifo
<1>1. Init => Fifo!FifoInit
  <2> SUFFICES ASSUME Init PROVE Fifo!FifoInit
    OBVIOUS
  <2>1. queue = <<>> /\ pushed = 0 /\ taken = <<>>
    BY DEF Init
  <2>2. pushed - Len(queue) = 0
    <3>1. Len(queue) = 0
      BY <2>1
    <3>2. pushed = 0
      BY <2>1
    <3>3. QED
      BY <3>1, <3>2
  <2>3. QED
    BY <2>1, <2>2 DEF Fifo!FifoInit
<1>2. QueueInv /\ [Next]_vars => [Fifo!FifoNext]_Fifo!fifoVars
  BY EveryStepIsAFifoStep
<1>3. Spec => []QueueInv
  BY QueueInvariant DEF QueueInv
<1>4. QED
  BY <1>1, <1>2, <1>3, PTL DEF Spec, ImplementsFifo, Fifo!FifoSpec

--------------------------------------------------------------------------
(* The order in which items are handed out.                                *)

OrderInv == QueueInv /\ TakenInOrder

LEMMA FifoStepKeepsOrder ==
    ASSUME QueueInv, QueueInv', TakenInOrder, [Fifo!FifoNext]_Fifo!fifoVars
    PROVE  TakenInOrder'
<1> DEFINE gone == pushed - Len(queue)
<1>1. /\ gone \in Nat /\ gone <= pushed /\ pushed \in Nat
      /\ gone' \in Nat /\ gone' <= pushed' /\ pushed' \in Nat
      /\ taken \in Seq(Nat)
  BY DEF QueueInv, TypeOK, QueueIsNewestItems, Newest
<1>2. /\ \A i \in DOMAIN taken : taken[i] <= gone
      /\ \A i, j \in DOMAIN taken : i < j => taken[i] < taken[j]
  BY DEF TakenInOrder, Fifo!TakenInOrder
<1>3. CASE taken' = taken /\ gone' >= gone
  <2>1. \A i \in DOMAIN taken' : taken'[i] <= gone'
    <3> TAKE i \in DOMAIN taken'
    <3>1. taken[i] \in Nat /\ taken[i] <= gone
      BY <1>1, <1>2, <1>3
    <3>2. QED
      BY <1>1, <1>3, <3>1
  <2>2. QED
    BY <1>1, <1>2, <1>3, <2>1 DEF TakenInOrder, Fifo!TakenInOrder
<1>4. CASE Fifo!Deliver
  <2> DEFINE n == gone' - gone
             s == [i \in 1..n |-> gone + i]
  <2>1. n \in Nat /\ gone' = gone + n
    BY <1>1, <1>4 DEF Fifo!Deliver
  <2>2. taken' = taken \o s
    BY <1>4 DEF Fifo!Deliver
  <2> HIDE DEF n
  <2>3. s \in Seq(Nat) /\ Len(s) = n /\ \A i \in 1..n : s[i] = gone + i
    <3>1. \A k, m \in Nat :
             [i \in 1..k |-> m + i] \in Seq(Nat)
             /\ Len([i \in 1..k |-> m + i]) = k
      BY NumberedSeq
    <3>2. s \in Seq(Nat) /\ Len(s) = n
      BY <1>1, <2>1, <3>1
    <3>3. QED
      BY <3>2
  <2> HIDE DEF s
  <2>4. DOMAIN taken' = 1..(Len(taken) + n)
    BY <1>1, <2>2, <2>3
  <2>5. ASSUME NEW i \in 1..(Len(taken) + n)
        PROVE  \/ i \in DOMAIN taken /\ taken'[i] = taken[i]
               \/ i \notin DOMAIN taken /\ i - Len(taken) \in 1..n
                    /\ taken'[i] = gone + (i - Len(taken))
    <3>1. i \in Int /\ Len(taken) \in Int
      BY <1>1
    <3>2. CASE i <= Len(taken)
      BY <1>1, <2>2, <2>3, <3>2
    <3>3. CASE i > Len(taken)
      <4>1. taken'[i] = s[i - Len(taken)] /\ i - Len(taken) \in 1..n
        BY <1>1, <2>1, <2>2, <2>3, <3>3
      <4>2. i \notin DOMAIN taken
        BY <1>1, <3>3
      <4>3. QED
        BY <2>3, <4>1, <4>2
    <3>4. QED
      BY <3>1, <3>2, <3>3
  <2>6. \A i \in DOMAIN taken' : taken'[i] <= gone'
    BY <1>1, <1>2, <2>1, <2>4, <2>5
  <2>7. \A i, j \in DOMAIN taken' : i < j => taken'[i] < taken'[j]
    <3> SUFFICES ASSUME NEW i \in DOMAIN taken', NEW j \in DOMAIN taken', i < j
                 PROVE  taken'[i] < taken'[j]
      OBVIOUS
    <3>1. i \in Int /\ j \in Int /\ Len(taken) \in Nat
      BY <1>1, <2>4
    <3>2. CASE j \in DOMAIN taken
      <4>1. DOMAIN taken = 1..Len(taken) /\ i >= 1
        BY <1>1, <2>4
      <4>2. i \in DOMAIN taken
        BY <3>1, <3>2, <4>1
      <4>3. taken'[i] = taken[i] /\ taken'[j] = taken[j]
        BY <2>4, <2>5, <3>2, <4>2
      <4>4. QED
        BY <1>2, <3>2, <4>2, <4>3
    <3>3. CASE j \notin DOMAIN taken /\ i \in DOMAIN taken
      <4>1. taken'[i] = taken[i] /\ taken[i] \in Nat /\ taken[i] <= gone
        BY <1>1, <1>2, <2>4, <2>5, <3>3
      <4>2. taken'[j] = gone + (j - Len(taken)) /\ j - Len(taken) \in 1..n
        BY <2>4, <2>5, <3>3
      <4>3. QED
        BY <1>1, <2>1, <4>1, <4>2
    <3>4. CASE j \notin DOMAIN taken /\ i \notin DOMAIN taken
      <4>1. /\ taken'[i] = gone + (i - Len(taken))
            /\ taken'[j] = gone + (j - Len(taken))
        BY <2>4, <2>5, <3>4
      <4>2. QED
        BY <1>1, <3>1, <4>1
    <3>5. QED
      BY <3>2, <3>3, <3>4
  <2>8. QED
    BY <1>1, <2>6, <2>7 DEF TakenInOrder, Fifo!TakenInOrder
<1>5. QED
  BY <1>1, <1>3, <1>4
  DEF Fifo!FifoNext, Fifo!Offer, Fifo!Discard, Fifo!fifoVars

(* Items come out in the order they went in, each at most once, however    *)
(* the pops of several threads interleave with insertions and drops.       *)
THEOREM ItemsComeOutInOrder == Spec => []TakenInOrder
<1>1. Init => OrderInv
  BY LengthsAssumption
  DEF Init, OrderInv, QueueInv, TypeOK, QueueIsNewestItems, Newest,
      TakenInOrder, Fifo!TakenInOrder
<1>2. OrderInv /\ [Next]_vars => OrderInv'
  BY QueueInvInductive, EveryStepIsAFifoStep, FifoStepKeepsOrder DEF OrderInv
<1>3. QED
  BY <1>1, <1>2, PTL DEF Spec, OrderInv

--------------------------------------------------------------------------
(* The limit.                                                              *)

(* What the two drops leave of a queue.                                    *)
LEMMA DropLengths ==
    ASSUME NEW q \in Seq(Nat), length \in Nat
    PROVE  LET Drops == length > 0 /\ Len(q) > length
           IN  /\ Len(DropOne(q)) = IF Drops THEN Len(q) - 1 ELSE Len(q)
               /\ Len(DropExcess(q)) = IF Drops THEN length ELSE Len(q)
<1>1. CASE length > 0 /\ Len(q) > length
  <2>1. Len(DropOne(q)) = Len(q) - 1
    BY <1>1 DEF DropOne
  <2>2. Len(q) - length \in 0..Len(q)
    BY <1>1
  <2>3. Len(Rest(q, Len(q) - length)) = Len(q) - (Len(q) - length)
    BY <2>2, SubSeqFacts
  <2>4. QED
    BY <1>1, <2>1, <2>3 DEF DropExcess
<1>2. CASE ~(length > 0 /\ Len(q) > length)
  BY <1>2 DEF DropOne, DropExcess
<1>3. QED
  BY <1>1, <1>2

(* No insertion makes the queue longer than m_length, even after m_length  *)
(* was lowered below its size, and one that drops items leaves m_length of *)
(* them at least, for every limit and every size of push_all.              *)
THEOREM LimitsAreKept == Spec => LimitKept
<1> DEFINE Kept ==
        pushed' > pushed =>
            /\ Len(queue') > Len(queue) => length = 0 \/ Len(queue') <= length
            /\ Len(queue') - Len(queue) < pushed' - pushed
                  => length > 0 /\ Len(queue') >= length
<1>1. ASSUME QueueInv, [Next]_vars
      PROVE  Kept
  <2>1. /\ queue \in Seq(Nat) /\ Len(queue) \in Nat /\ length \in Nat
        /\ pushed \in Nat
    BY <1>1 DEF QueueInv, TypeOK
  <2>2. CASE push
    <3> DEFINE q == Append(queue, pushed + 1)
    <3>1. q \in Seq(Nat) /\ Len(q) = Len(queue) + 1
      BY <2>1
    <3>2. queue' = DropOne(q)
      BY <2>2 DEF push
    <3> HIDE DEF q
    <3>3. Len(queue') = IF length > 0 /\ Len(q) > length
                        THEN Len(q) - 1 ELSE Len(q)
      BY <2>1, <3>1, <3>2, DropLengths
    <3>4. pushed' = pushed + 1
      BY <2>2 DEF push
    <3>5. QED
      BY <2>1, <3>1, <3>3, <3>4
  <2>3. ASSUME NEW k \in 0..MaxBatch, push_all(k)
        PROVE  Kept
    <3>0. k \in Nat
      BY BoundsAssumption
    <3> DEFINE q == queue \o [i \in 1..k |-> pushed + i]
    <3>1. q \in Seq(Nat) /\ Len(q) = Len(queue) + k
      BY <1>1, <2>1, <3>0, AppendKeepsNewest DEF QueueInv, QueueIsNewestItems
    <3>2. queue' = DropExcess(q) /\ pushed' = pushed + k
      BY <2>3 DEF push_all
    <3> HIDE DEF q
    <3>3. Len(queue') = IF length > 0 /\ Len(q) > length
                        THEN length ELSE Len(q)
      BY <2>1, <3>1, <3>2, DropLengths
    <3>4. QED
      BY <2>1, <3>0, <3>1, <3>2, <3>3
  <2>4. CASE pushed' = pushed
    BY <2>1, <2>4
  <2>5. QED
    BY <1>1, <2>2, <2>3, <2>4
    DEF Next, Invoke, Resume, Timeout, SpuriousWakeup, clear,
        set_queue_length, vars
<1>2. QED
  BY <1>1, QueueInvariant, PTL DEF Spec, LimitKept, QueueInv

--------------------------------------------------------------------------
(* No lost wakeup.                                                         *)

(* Every call needs at least one item.                                     *)
LEMMA ReadyNeedsData ==
    ASSUME NEW c \in Calls, NEW q \in Seq(Nat), Ready(c, q)
    PROVE  Len(q) > 0
  BY CallsAssumption DEF Call, Ready

(* A queue of the pipeline: all its blocking calls come from one thread.   *)
OneConsumer == \A t, u \in Consumers : t = u

(* Then the thread never sleeps while its predicate holds.                 *)
SleeperHasNothing ==
    /\ QueueInv
    /\ \A t \in waiting : ~Ready(call[t], queue)

(* With one consumer, no push, push_all or clear, at whatever moment it    *)
(* comes and whichever call it meets, leaves the consumer asleep on data.  *)
THEOREM OneConsumerNeverSleepsOnData ==
    ASSUME OneConsumer
    PROVE  Spec => []NoLostWakeup
<1>1. Init => SleeperHasNothing
  BY LengthsAssumption
  DEF Init, SleeperHasNothing, QueueInv, TypeOK, QueueIsNewestItems, Newest
<1>2. SleeperHasNothing /\ [Next]_vars => SleeperHasNothing'
  <2> SUFFICES ASSUME SleeperHasNothing, [Next]_vars
               PROVE  \A t \in waiting' : ~Ready(call'[t], queue')
    BY QueueInvInductive DEF SleeperHasNothing
  <2> USE DEF SleeperHasNothing
  <2>0. waiting \subseteq Consumers
    BY DEF QueueInv, TypeOK
  <2>1. CASE push \/ \E k \in 0..MaxBatch : push_all(k)
    <3>1. waiting' = {} \/ \E t \in waiting : waiting' = waiting \ {t}
      BY <2>1 DEF push, push_all, Notify
    <3>2. waiting' = {}
      BY <2>0, <3>1 DEF OneConsumer
    <3>3. QED
      BY <3>2
  <2>2. ASSUME NEW t \in Consumers, NEW c, Finish(t, c), t \notin waiting
        PROVE  waiting' = {}
    BY <2>0, <2>2 DEF Finish, OneConsumer
  <2>3. ASSUME NEW t \in Consumers, NEW c, Sleep(t, c), ~Ready(c, queue)
        PROVE  \A u \in waiting' : ~Ready(call'[u], queue')
    <3>1. waiting' \subseteq {t} /\ queue' = queue /\ call'[t] = c
      BY <2>0, <2>3 DEF Sleep, OneConsumer, QueueInv, TypeOK
    <3>2. QED
      BY <2>3, <3>1
  <2>4. ASSUME NEW t \in Consumers, NEW c \in Calls, Invoke(t, c)
        PROVE  \A u \in waiting' : ~Ready(call'[u], queue')
    <3>1. t \notin waiting
      BY <2>4 DEF Invoke, QueueInv, TypeOK
    <3>2. QED
      BY <2>2, <2>3, <2>4, <3>1 DEF Invoke
  <2>5. ASSUME NEW t \in Consumers, Resume(t)
        PROVE  \A u \in waiting' : ~Ready(call'[u], queue')
    <3>1. CASE Ready(call[t], queue)
      BY <2>2, <2>5, <3>1 DEF Resume
    <3>2. CASE ~Ready(call[t], queue) /\ t \in expired
      <4>1. waiting = {} /\ waiting' = waiting
        BY <2>0, <2>5, <3>2 DEF Resume, GiveUp, OneConsumer
      <4>2. QED
        BY <4>1
    <3>3. CASE ~Ready(call[t], queue) /\ t \notin expired
      BY <2>3, <2>5, <3>3 DEF Resume
    <3>4. QED
      BY <3>1, <3>2, <3>3
  <2>6. ASSUME NEW t \in Consumers, Timeout(t) \/ SpuriousWakeup(t)
        PROVE  \A u \in waiting' : ~Ready(call'[u], queue')
    BY <2>6 DEF Timeout, SpuriousWakeup
  <2>7. CASE clear
    <3>1. ASSUME NEW u \in waiting'
          PROVE  ~Ready(call'[u], queue')
      <4>1. call'[u] \in Calls /\ queue' = <<>>
        BY <2>7 DEF clear, QueueInv, TypeOK
      <4>2. <<>> \in Seq(Nat) /\ ~(Len(<<>>) > 0)
        OBVIOUS
      <4>3. QED
        BY <4>1, <4>2, ReadyNeedsData
    <3>2. QED
      BY <3>1
  <2>8. CASE UNCHANGED <<queue, call, waiting>>
    BY <2>8
  <2>9. QED
    BY <2>1, <2>4, <2>5, <2>6, <2>7, <2>8 DEF Next, set_queue_length, vars
<1>3. SleeperHasNothing => NoLostWakeup
  BY DEF SleeperHasNothing, NoLostWakeup
<1>4. QED
  BY <1>1, <1>2, <1>3, PTL DEF Spec

(* A queue with several consumers: they only call what removes something,  *)
(* and every insertion puts at most one item.                              *)
OneItemPerNotify ==
    /\ MaxBatch <= 1
    /\ \A c \in Calls : ~Peek(c) /\ c.op # "pop_N"

(* Then as long as a thread sleeps, there are no more items in the queue   *)
(* than threads on their way to take one.                                  *)
TakersOnTheWay ==
    /\ QueueInv
    /\ waiting # {} => Len(queue) <= Cardinality(Awake)

LEMMA AwakeIsFinite ==
    ASSUME QueueInv
    PROVE  IsFiniteSet(Awake) /\ Cardinality(Awake) \in Nat
<1>1. IsFiniteSet(Awake)
  BY ConsumersAssumption, FS_Subset DEF Awake
<1>2. QED
  BY <1>1, FS_CardinalityType

(* Waking a sleeper adds one to the threads on their way.                  *)
LEMMA WakeAddsOne ==
    ASSUME QueueInv, NEW t \in waiting, waiting' = waiting \ {t}, call' = call
    PROVE  Cardinality(Awake') = Cardinality(Awake) + 1
<1>1. Awake' = Awake \cup {t} /\ t \notin Awake
  BY DEF QueueInv, TypeOK, Awake
<1>2. QED
  BY <1>1, AwakeIsFinite, FS_AddElement

LEMMA InsertsAtMostOne ==
    ASSUME QueueInv, MaxBatch <= 1,
           push \/ \E k \in 0..MaxBatch : push_all(k)
    PROVE  Len(queue') <= Len(queue) + 1
<1> USE DEF QueueInv, TypeOK
<1>1. PICK k \in Nat, n \in Nat : PutsAndDrops(k, n)
  BY InsertionEffect
<1>2. pushed' <= pushed + 1
  <2>1. CASE push
    BY <2>1 DEF push
  <2>2. ASSUME NEW m \in 0..MaxBatch, push_all(m)
        PROVE  pushed' <= pushed + 1
    <3>1. m \in Nat /\ m <= 1 /\ pushed' = pushed + m
      BY <2>2, BoundsAssumption DEF push_all
    <3>2. QED
      BY <3>1
  <2>3. QED
    BY <2>1, <2>2
<1>3. k <= 1
  BY <1>1, <1>2 DEF PutsAndDrops
<1>4. /\ Extended(k) \in Seq(Nat)
      /\ Len(Extended(k)) = Len(queue) + k
      /\ n \in 0..Len(Extended(k))
      /\ queue' = Rest(Extended(k), n)
  BY <1>1 DEF PutsAndDrops
<1>5. Len(Rest(Extended(k), n)) = Len(Extended(k)) - n
  BY <1>4, SubSeqFacts
<1>6. QED
  BY <1>3, <1>4, <1>5

(* With several consumers that only take, and insertions of at most one    *)
(* item per notify_one, no item lies in the queue with every consumer      *)
(* asleep, whatever thread steals the item another was woken for.          *)
THEOREM ManyConsumersNeverAllSleepOnData ==
    ASSUME OneItemPerNotify
    PROVE  Spec => []NoLostWakeup
<1>1. Init => TakersOnTheWay
  BY LengthsAssumption
  DEF Init, TakersOnTheWay, QueueInv, TypeOK, QueueIsNewestItems, Newest
<1>2. TakersOnTheWay /\ [Next]_vars => TakersOnTheWay'
  <2> SUFFICES ASSUME TakersOnTheWay, [Next]_vars, waiting' # {}
               PROVE  Len(queue') <= Cardinality(Awake')
    BY QueueInvInductive DEF TakersOnTheWay
  <2> USE DEF TakersOnTheWay
  <2>0. /\ Len(queue) \in Nat /\ Len(queue') \in Nat
        /\ Cardinality(Awake) \in Nat /\ Cardinality(Awake') \in Nat
        /\ QueueInv'
    <3>1. QueueInv /\ QueueInv'
      BY QueueInvInductive
    <3>2. Len(queue) \in Nat /\ Len(queue') \in Nat
      BY <3>1 DEF QueueInv, TypeOK
    <3>3. Cardinality(Awake) \in Nat
      BY AwakeIsFinite
    <3>4. Cardinality(Awake') \in Nat
      <4>1. IsFiniteSet(Awake')
        BY ConsumersAssumption, FS_Subset DEF Awake
      <4>2. QED
        BY <4>1, FS_CardinalityType
    <3>5. QED
      BY <3>1, <3>2, <3>3, <3>4
  <2>1. CASE push \/ \E k \in 0..MaxBatch : push_all(k)
    <3>1. PICK t \in waiting : waiting' = waiting \ {t}
      BY <2>1 DEF push, push_all, Notify
    <3>2. call' = call
      BY <2>1 DEF push, push_all
    <3>3. Cardinality(Awake') = Cardinality(Awake) + 1
      BY <3>1, <3>2, WakeAddsOne
    <3>4. Len(queue') <= Len(queue) + 1
      BY <2>1, InsertsAtMostOne DEF OneItemPerNotify
    <3>5. QED
      BY <2>0, <3>1, <3>3, <3>4
  <2>2. ASSUME NEW t \in Consumers, NEW c \in Calls, Ready(c, queue),
               Finish(t, c), t \notin waiting
        PROVE  Len(queue') <= Cardinality(Awake')
    <3>1. PICK n \in 1..Len(queue) : queue' = Rest(queue, n)
      BY <2>2, FinishEffect DEF OneItemPerNotify
    <3>2. Len(queue') <= Len(queue) - 1
      <4>1. Len(Rest(queue, n)) = Len(queue) - n
        <5>1. queue \in Seq(Nat) /\ n \in 0..Len(queue)
          BY <2>0, <3>1 DEF QueueInv, TypeOK
        <5>2. QED
          BY <5>1, SubSeqFacts
      <4>2. QED
        BY <2>0, <3>1, <4>1
    <3>3. Awake' = Awake \ {t} /\ waiting' = waiting
      BY <2>2 DEF Finish, Awake, QueueInv, TypeOK
    <3>4. Cardinality(Awake') >= Cardinality(Awake) - 1
      <4>1. IsFiniteSet(Awake) /\ Cardinality(Awake) \in Nat
        BY AwakeIsFinite DEF TakersOnTheWay
      <4>2. CASE t \in Awake
        <5>1. Cardinality(Awake \ {t}) = Cardinality(Awake) - 1
          BY <4>1, <4>2, FS_RemoveElement
        <5>2. QED
          BY <3>3, <4>1, <5>1
      <4>3. CASE t \notin Awake
        <5>1. Awake' = Awake
          BY <3>3, <4>3
        <5>2. QED
          BY <4>1, <5>1
      <4>4. QED
        BY <4>2, <4>3
    <3>5. QED
      BY <2>0, <3>2, <3>3, <3>4
  <2>3. CASE Len(queue') = 0
    BY <2>0, <2>3
  <2>4. ASSUME NEW c \in Calls, ~Ready(c, queue)
        PROVE  Len(queue) = 0
    BY <2>4 DEF Ready, OneItemPerNotify, QueueInv, TypeOK
  <2>5. ASSUME NEW t \in Consumers, NEW c \in Calls, Invoke(t, c)
        PROVE  Len(queue') <= Cardinality(Awake')
    <3>1. t \notin waiting
      BY <2>5 DEF Invoke, QueueInv, TypeOK
    <3>2. CASE Ready(c, queue)
      BY <2>2, <2>5, <3>1, <3>2 DEF Invoke
    <3>3. CASE ~Ready(c, queue)
      BY <2>3, <2>4, <2>5, <3>3 DEF Invoke, Sleep
    <3>4. QED
      BY <3>2, <3>3
  <2>6. ASSUME NEW t \in Consumers, Resume(t)
        PROVE  Len(queue') <= Cardinality(Awake')
    <3>1. call[t] \in Calls /\ t \notin waiting
      BY <2>6 DEF Resume, QueueInv, TypeOK
    <3>2. CASE Ready(call[t], queue)
      BY <2>2, <2>6, <3>1, <3>2 DEF Resume
    <3>3. CASE ~Ready(call[t], queue)
      <4>1. queue' = queue
        BY <2>6, <3>3 DEF Resume, GiveUp, Sleep
      <4>2. QED
        BY <2>3, <2>4, <3>1, <3>3, <4>1
    <3>4. QED
      BY <3>2, <3>3
  <2>7. ASSUME NEW t \in waiting, waiting' = waiting \ {t},
               UNCHANGED <<queue, call>>
        PROVE  Len(queue') <= Cardinality(Awake')
    <3>1. Cardinality(Awake') = Cardinality(Awake) + 1
      BY <2>7, WakeAddsOne
    <3>2. QED
      BY <2>0, <2>7, <3>1
  <2>8. CASE UNCHANGED <<queue, call, waiting>>
    BY <2>8 DEF Awake
  <2>9. ASSUME NEW t \in Consumers, Timeout(t) \/ SpuriousWakeup(t)
        PROVE  Len(queue') <= Cardinality(Awake')
    <3>1. CASE t \in waiting
      BY <2>7, <2>9, <3>1 DEF Timeout, SpuriousWakeup
    <3>2. CASE t \notin waiting
      <4>1. waiting' = waiting
        BY <2>9, <3>2 DEF Timeout, SpuriousWakeup
      <4>2. QED
        BY <2>8, <2>9, <4>1 DEF Timeout, SpuriousWakeup
    <3>3. QED
      BY <3>1, <3>2
  <2>10. CASE clear
    <3>1. queue' = <<>>
      BY <2>10 DEF clear
    <3>2. QED
      BY <2>3, <3>1
  <2>11. QED
    BY <2>1, <2>5, <2>6, <2>8, <2>9, <2>10 DEF Next, set_queue_length, vars
<1>3. TakersOnTheWay => NoLostWakeup
  <2> SUFFICES ASSUME TakersOnTheWay, NEW t \in waiting, Ready(call[t], queue)
               PROVE  Awake # {}
    BY DEF NoLostWakeup
  <2>1. call[t] \in Calls /\ queue \in Seq(Nat)
    BY DEF TakersOnTheWay, QueueInv, TypeOK
  <2>2. Len(queue) > 0 /\ Len(queue) \in Nat
    BY <2>1, ReadyNeedsData
  <2>3. Cardinality(Awake) # 0
    <3>1. Len(queue) <= Cardinality(Awake) /\ Cardinality(Awake) \in Nat
      BY AwakeIsFinite DEF TakersOnTheWay
    <3>2. QED
      BY <2>2, <3>1
  <2>4. QED
    BY <2>3, FS_EmptySet
<1>4. QED
  BY <1>1, <1>2, <1>3, PTL DEF Spec
==========================================================================
