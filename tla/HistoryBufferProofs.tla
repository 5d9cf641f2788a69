----------------------- MODULE HistoryBufferProofs -----------------------
(* Proofs about HistoryBuffer for every history, queue length and number   *)
(* of packets and requests.  What is handed out is read from valid memory  *)
(* in every thread but the FFT thread, which the theorems on order and on  *)
(* what is skipped therefore leave out.                                    *)
EXTENDS HistoryBuffer, TLAPS, WellFoundedInduction

(* The columns of a sequence, and order of sequences and sets of columns.  *)
Cols(s) == {s[k] : k \in 1..Len(s)}
Up(s) == \A k, l \in 1..Len(s) : k < l => s[k] < s[l]
Less(A, B) == \A x \in A : \A y \in B : x < y

(* Everything handed out so far.                                           *)
Out == UNION {Cols(answered[i]) : i \in 1..Len(answered)}

StreamInv ==
    /\ queue \in Seq(Nat) /\ buffer \in Seq(Nat)
    /\ pushed \in Nat
    /\ Up(queue) /\ Up(buffer)
    /\ \A x \in Cols(queue) \cup Cols(buffer) \cup Out : x <= pushed
    /\ Less(Cols(buffer), Cols(queue))

(* Once a reply is pushed the buffer is still to be emptied.               *)
AnsweredInv ==
    /\ answered \in Seq(Seq(Nat))
    /\ Less(Out, Cols(queue))
    /\ pc \notin {"flag", "empty"} => Less(Out, Cols(buffer))
    /\ \A i \in 1..Len(answered) : Up(answered[i])
    /\ \A i, j \in 1..Len(answered) :
          i < j => Less(Cols(answered[i]), Cols(answered[j]))

IInv == StreamInv /\ AnsweredInv

LEMMA ColsNat ==
    ASSUME NEW s \in Seq(Nat)
    PROVE  Cols(s) \subseteq Nat
BY DEF Cols

LEMMA EmptyCols == <<>> \in Seq(Nat) /\ Cols(<<>>) = {} /\ Up(<<>>)
BY DEF Cols, Up

LEMMA SingleCols ==
    ASSUME NEW n \in Nat
    PROVE  <<n>> \in Seq(Nat) /\ Cols(<<n>>) = {n} /\ Up(<<n>>)
<1>1. Len(<<n>>) = 1 /\ <<n>>[1] = n /\ <<n>> \in Seq(Nat)
  OBVIOUS
<1>2. QED
  BY <1>1 DEF Cols, Up

LEMMA SubSeqCols ==
    ASSUME NEW s \in Seq(Nat), Up(s), NEW m \in 1..(Len(s) + 1)
    PROVE  /\ SubSeq(s, m, Len(s)) \in Seq(Nat)
           /\ Up(SubSeq(s, m, Len(s)))
           /\ Cols(SubSeq(s, m, Len(s))) \subseteq Cols(s)
<1> DEFINE t == SubSeq(s, m, Len(s))
<1>1. /\ t \in Seq(Nat)
      /\ Len(t) = Len(s) - m + 1
      /\ \A k \in 1..Len(t) : t[k] = s[(m + k) - 1]
  OBVIOUS
<1> HIDE DEF t
<1>2. \A k \in 1..Len(t) : (m + k) - 1 \in 1..Len(s)
  BY <1>1
<1>3. Up(t)
  <2> SUFFICES ASSUME NEW k \in 1..Len(t), NEW l \in 1..Len(t), k < l
               PROVE  t[k] < t[l]
    BY DEF Up
  <2>1. (m + k) - 1 < (m + l) - 1
    BY <1>1
  <2>2. QED
    BY <1>1, <1>2, <2>1 DEF Up
<1>4. Cols(t) \subseteq Cols(s)
  BY <1>1, <1>2 DEF Cols
<1>5. QED
  BY <1>1, <1>3, <1>4 DEF t

LEMMA ConcatCols ==
    ASSUME NEW s \in Seq(Nat), NEW t \in Seq(Nat), Up(s), Up(t),
           Less(Cols(s), Cols(t))
    PROVE  /\ s \o t \in Seq(Nat)
           /\ Up(s \o t)
           /\ Cols(s \o t) = Cols(s) \cup Cols(t)
<1> DEFINE u == s \o t
<1>1. /\ u \in Seq(Nat)
      /\ Len(u) = Len(s) + Len(t)
      /\ \A k \in 1..Len(s) : u[k] = s[k]
      /\ \A k \in (Len(s) + 1)..(Len(s) + Len(t)) : u[k] = t[k - Len(s)]
  OBVIOUS
<1>2. Len(s) \in Nat /\ Len(t) \in Nat
  OBVIOUS
<1> HIDE DEF u
<1>3. \A k \in 1..Len(t) : k + Len(s) \in (Len(s) + 1)..(Len(s) + Len(t))
                           /\ (k + Len(s)) - Len(s) = k
  BY <1>2
<1>4. Up(u)
  <2> SUFFICES ASSUME NEW k \in 1..Len(u), NEW l \in 1..Len(u), k < l
               PROVE  u[k] < u[l]
    BY DEF Up
  <2>1. CASE l <= Len(s)
    <3>1. k \in 1..Len(s) /\ l \in 1..Len(s)
      BY <1>1, <1>2, <2>1
    <3>2. QED
      BY <1>1, <3>1 DEF Up
  <2>2. CASE k <= Len(s) /\ l > Len(s)
    <3>1. k \in 1..Len(s) /\ l - Len(s) \in 1..Len(t)
          /\ l \in (Len(s) + 1)..(Len(s) + Len(t))
      BY <1>1, <1>2, <2>2
    <3>2. s[k] \in Cols(s) /\ t[l - Len(s)] \in Cols(t)
      BY <3>1 DEF Cols
    <3>3. s[k] < t[l - Len(s)]
      BY <3>2 DEF Less
    <3>4. QED
      BY <1>1, <3>1, <3>3
  <2>3. CASE k > Len(s)
    <3>1. /\ k - Len(s) \in 1..Len(t) /\ l - Len(s) \in 1..Len(t)
          /\ k - Len(s) < l - Len(s)
          /\ k \in (Len(s) + 1)..(Len(s) + Len(t))
          /\ l \in (Len(s) + 1)..(Len(s) + Len(t))
      BY <1>1, <1>2, <2>3
    <3>2. t[k - Len(s)] < t[l - Len(s)]
      BY <3>1 DEF Up
    <3>3. QED
      BY <1>1, <3>1, <3>2
  <2>4. QED
    BY <1>1, <1>2, <2>1, <2>2, <2>3
<1>5. Cols(u) \subseteq Cols(s) \cup Cols(t)
  <2> SUFFICES ASSUME NEW k \in 1..Len(u)
               PROVE  u[k] \in Cols(s) \cup Cols(t)
    BY DEF Cols
  <2>1. CASE k \in 1..Len(s)
    BY <1>1, <2>1 DEF Cols
  <2>2. CASE k \in (Len(s) + 1)..(Len(s) + Len(t))
    <3>1. k - Len(s) \in 1..Len(t)
      BY <1>2, <2>2
    <3>2. QED
      BY <1>1, <2>2, <3>1 DEF Cols
  <2>3. QED
    BY <1>1, <1>2, <2>1, <2>2
<1>6. Cols(s) \subseteq Cols(u)
  <2> SUFFICES ASSUME NEW k \in 1..Len(s)
               PROVE  s[k] \in Cols(u)
    BY DEF Cols
  <2>1. k \in 1..Len(u)
    BY <1>1, <1>2
  <2>2. QED
    BY <1>1, <2>1 DEF Cols
<1>7. Cols(t) \subseteq Cols(u)
  <2> SUFFICES ASSUME NEW k \in 1..Len(t)
               PROVE  t[k] \in Cols(u)
    BY DEF Cols
  <2>1. /\ k + Len(s) \in (Len(s) + 1)..(Len(s) + Len(t))
        /\ (k + Len(s)) - Len(s) = k
    BY <1>3
  <2>2. u[k + Len(s)] = t[(k + Len(s)) - Len(s)]
    BY <1>1, <2>1
  <2>3. u[k + Len(s)] = t[k]
    BY <2>1, <2>2
  <2>4. k + Len(s) \in 1..Len(u)
    BY <1>1, <1>2
  <2>5. QED
    BY <2>3, <2>4 DEF Cols
<1>8. QED
  BY <1>1, <1>4, <1>5, <1>6, <1>7 DEF u

LEMMA HeadCols ==
    ASSUME NEW s \in Seq(Nat), Up(s), s # <<>>
    PROVE  /\ Head(s) \in Cols(s) /\ Head(s) \in Nat
           /\ Tail(s) \in Seq(Nat) /\ Up(Tail(s))
           /\ Cols(Tail(s)) \subseteq Cols(s)
           /\ Less({Head(s)}, Cols(Tail(s)))
<1>1. /\ Len(s) > 0 /\ Len(s) \in Nat /\ Head(s) = s[1]
      /\ Tail(s) \in Seq(Nat) /\ Len(Tail(s)) = Len(s) - 1
      /\ \A k \in 1..Len(Tail(s)) : Tail(s)[k] = s[k + 1]
  OBVIOUS
<1>2. \A k \in 1..Len(Tail(s)) : k + 1 \in 1..Len(s) /\ 1 < k + 1
  BY <1>1
<1>3. 1 \in 1..Len(s)
  BY <1>1
<1>4. Up(Tail(s))
  BY <1>1, <1>2 DEF Up
<1>5. Cols(Tail(s)) \subseteq Cols(s)
  BY <1>1, <1>2 DEF Cols
<1>6. Less({Head(s)}, Cols(Tail(s)))
  BY <1>1, <1>2, <1>3 DEF Less, Cols, Up
<1>7. Head(s) \in Cols(s) /\ Head(s) \in Nat
  BY <1>1, <1>3 DEF Cols
<1>8. QED
  BY <1>1, <1>4, <1>5, <1>6, <1>7

(* A trim without aliasing keeps a final part.                             *)
LEMMA TrimmedCols ==
    ASSUME NEW s \in Seq(Nat), Up(s), kind # "fft", NEW t \in Trimmed(s)
    PROVE  t \in Seq(Nat) /\ Up(t) /\ Cols(t) \subseteq Cols(s)
<1>1. CASE t = Newest(s, History) /\ Len(s) > 2 * History
  <2>1. Len(s) - History + 1 \in 1..(Len(s) + 1)
    BY <1>1, HistoryAssumption
  <2>2. QED
    BY <1>1, <2>1, SubSeqCols DEF Newest
<1>2. CASE t = s
  BY <1>2
<1>3. QED
  BY <1>1, <1>2 DEF Trimmed

LEMMA InitIInv == Init => IInv
<1> SUFFICES ASSUME Init
             PROVE  IInv
  OBVIOUS
<1>1. /\ queue = <<>> /\ buffer = <<>> /\ answered = <<>> /\ pushed = 0
      /\ Len(answered) = 0 /\ answered \in Seq(Seq(Nat))
  BY DEF Init
<1>2. Out = {}
  BY <1>1 DEF Out
<1>3. StreamInv
  BY <1>1, <1>2, EmptyCols DEF StreamInv, Less
<1>4. AnsweredInv
  BY <1>1, <1>2, EmptyCols DEF AnsweredInv, Less
<1>5. QED
  BY <1>3, <1>4 DEF IInv

(* A step that leaves the replies alone.                                   *)
LEMMA SameOut ==
    ASSUME UNCHANGED answered
    PROVE  Out' = Out
BY DEF Out, Cols

(* The invariant looks at these variables only.                            *)
LEMMA Unchanged ==
    ASSUME IInv, UNCHANGED <<queue, pushed, buffer, answered>>,
           pc \in {"flag", "empty"} => pc' \in {"flag", "empty"}
    PROVE  IInv'
<1>1. /\ queue' = queue /\ pushed' = pushed /\ buffer' = buffer
      /\ answered' = answered
  OBVIOUS
<1>2. Out' = Out
  BY SameOut
<1>3. StreamInv'
  BY <1>1, <1>2 DEF IInv, StreamInv
<1>4. AnsweredInv'
  BY <1>1, <1>2 DEF IInv, AnsweredInv
<1>5. QED
  BY <1>3, <1>4 DEF IInv

LEMMA OutNat == IInv => Out \subseteq Nat
<1> SUFFICES ASSUME IInv, NEW i \in 1..Len(answered)
             PROVE  Cols(answered[i]) \subseteq Nat
  BY DEF Out
<1>1. answered[i] \in Seq(Nat)
  BY DEF IInv, AnsweredInv
<1>2. QED
  BY <1>1, ColsNat

LEMMA PushPacketIInv == IInv /\ PushPacket => IInv'
<1> SUFFICES ASSUME IInv, PushPacket
             PROVE  IInv'
  OBVIOUS
<1> DEFINE n == pushed + 1
           q == queue \o <<n>>
<1>1. /\ pushed' = n /\ (queue' = q \/ (queue' = Tail(q) /\ q # <<>>))
      /\ UNCHANGED <<pc, buffer, answered>>
  <2>1. Append(queue, n) = q /\ q # <<>>
    BY DEF IInv, StreamInv
  <2>2. QED
    BY <2>1 DEF PushPacket, thread, talk
<1>2. queue \in Seq(Nat) /\ Up(queue) /\ n \in Nat /\ pushed \in Nat
  BY DEF IInv, StreamInv
<1>3. <<n>> \in Seq(Nat) /\ Cols(<<n>>) = {n} /\ Up(<<n>>)
  BY <1>2, SingleCols
<1>4. /\ Cols(queue) \subseteq Nat /\ Cols(buffer) \subseteq Nat
      /\ Out \subseteq Nat
  BY ColsNat, OutNat DEF IInv, StreamInv
<1>5. /\ Less(Cols(queue), {n}) /\ Less(Cols(buffer), {n}) /\ Less(Out, {n})
  BY <1>2, <1>4 DEF IInv, StreamInv, Less
<1>6. q \in Seq(Nat) /\ Up(q) /\ Cols(q) = Cols(queue) \cup {n}
  BY <1>2, <1>3, <1>5, ConcatCols
<1> HIDE DEF q
<1>7. /\ queue' \in Seq(Nat) /\ Up(queue')
      /\ Cols(queue') \subseteq Cols(queue) \cup {n}
  BY <1>1, <1>6, HeadCols
<1>8. Out' = Out /\ buffer' = buffer /\ answered' = answered
  BY <1>1, SameOut
<1>9. StreamInv'
  <2>1. Less(Cols(buffer'), Cols(queue'))
    BY <1>5, <1>7, <1>8 DEF IInv, StreamInv, Less
  <2>2. \A x \in Cols(queue') \cup Cols(buffer') \cup Out' : x <= pushed'
    <3> SUFFICES ASSUME NEW x \in Cols(queue') \cup Cols(buffer') \cup Out'
                 PROVE  x <= n
      BY <1>1
    <3>1. x \in Cols(queue) \cup Cols(buffer) \cup Out \cup {n}
      BY <1>7, <1>8
    <3>2. CASE x \in Cols(queue) \cup Cols(buffer) \cup Out
      <4>1. x <= pushed /\ x \in Nat
        BY <1>4, <3>2 DEF IInv, StreamInv
      <4>2. QED
        BY <1>2, <4>1
    <3>3. CASE x = n
      BY <1>2, <3>3
    <3>4. QED
      BY <3>1, <3>2, <3>3
  <2>3. QED
    BY <1>1, <1>2, <1>7, <1>8, <2>1, <2>2 DEF IInv, StreamInv
<1>10. AnsweredInv'
  <2>1. Less(Out', Cols(queue'))
    BY <1>5, <1>7, <1>8 DEF IInv, AnsweredInv, Less
  <2>2. QED
    BY <1>1, <1>8, <2>1 DEF IInv, AnsweredInv
<1>11. QED
  BY <1>9, <1>10 DEF IInv

(* The thread takes the first packet of the queue, with nothing else left  *)
(* to hand out.                                                            *)
LEMMA HeadToBuffer ==
    ASSUME IInv, queue # <<>>, buffer' = <<Head(queue)>>,
           queue' = Tail(queue), UNCHANGED <<pushed, answered>>
    PROVE  IInv'
<1>1. queue \in Seq(Nat) /\ Up(queue)
  BY DEF IInv, StreamInv
<1>2. /\ Head(queue) \in Cols(queue) /\ Head(queue) \in Nat
      /\ queue' \in Seq(Nat) /\ Up(queue')
      /\ Cols(queue') \subseteq Cols(queue)
      /\ Less({Head(queue)}, Cols(queue'))
  BY <1>1, HeadCols
<1>3. /\ buffer' \in Seq(Nat) /\ Up(buffer')
      /\ Cols(buffer') = {Head(queue)}
  BY <1>2, SingleCols
<1>4. Out' = Out
  BY SameOut
<1>5. StreamInv'
  BY <1>2, <1>3, <1>4 DEF IInv, StreamInv
<1>6. Less(Out', Cols(queue')) /\ Less(Out', Cols(buffer'))
  BY <1>2, <1>3, <1>4 DEF IInv, AnsweredInv, Less
<1>7. AnsweredInv'
  BY <1>6 DEF IInv, AnsweredInv
<1>8. QED
  BY <1>5, <1>7 DEF IInv

LEMMA TakeIInv == kind # "fft" /\ IInv /\ Take => IInv'
<1> SUFFICES ASSUME kind # "fft", IInv, Take
             PROVE  IInv'
  OBVIOUS
<1>1. CASE queue # <<>>
  <2> DEFINE b == buffer \o queue
  <2>1. /\ pc = "top" /\ buffer' \in Trimmed(b) /\ queue' = <<>>
        /\ UNCHANGED <<pushed, answered>>
    BY <1>1 DEF Take, talk
  <2>2. b \in Seq(Nat) /\ Up(b) /\ Cols(b) = Cols(buffer) \cup Cols(queue)
    BY ConcatCols DEF IInv, StreamInv
  <2> HIDE DEF b
  <2>3. buffer' \in Seq(Nat) /\ Up(buffer') /\ Cols(buffer') \subseteq Cols(b)
    BY <2>1, <2>2, TrimmedCols
  <2>4. Out' = Out
    BY <2>1, SameOut
  <2>5. queue' \in Seq(Nat) /\ Cols(queue') = {} /\ Up(queue')
    BY <2>1, EmptyCols
  <2>6. StreamInv'
    BY <2>1, <2>2, <2>3, <2>4, <2>5 DEF IInv, StreamInv, Less
  <2>7. Less(Out', Cols(buffer')) /\ Less(Out', Cols(queue'))
    BY <2>1, <2>2, <2>3, <2>4, <2>5 DEF IInv, AnsweredInv, Less
  <2>8. AnsweredInv'
    BY <2>1, <2>7 DEF IInv, AnsweredInv
  <2>9. QED
    BY <2>6, <2>8 DEF IInv
<1>2. CASE queue = <<>>
  BY <1>2, Unchanged DEF Take, talk
<1>3. QED
  BY <1>1, <1>2

LEMMA AnswerIInv == IInv /\ Answer => IInv'
<1> SUFFICES ASSUME IInv, Answer
             PROVE  IInv'
  OBVIOUS
<1>1. CASE requests > 0
  <2> DEFINE n == Len(answered)
  <2>1. /\ answered' = Append(answered, buffer)
        /\ pc = "request" /\ pc' = "flag"
        /\ UNCHANGED <<queue, pushed, buffer>>
    BY <1>1 DEF Answer, input
  <2>2. /\ answered \in Seq(Seq(Nat)) /\ buffer \in Seq(Nat) /\ n \in Nat
    BY DEF IInv, StreamInv, AnsweredInv
  <2>3. /\ answered' \in Seq(Seq(Nat))
        /\ Len(answered') = n + 1
        /\ answered'[n + 1] = buffer
        /\ \A i \in 1..n : answered'[i] = answered[i]
    BY <2>1, <2>2
  <2>4. Out' \subseteq Out \cup Cols(buffer)
    <3> SUFFICES ASSUME NEW i \in 1..(n + 1)
                 PROVE  Cols(answered'[i]) \subseteq Out \cup Cols(buffer)
      BY <2>3 DEF Out
    <3>1. CASE i \in 1..n
      BY <2>3, <3>1 DEF Out
    <3>2. CASE i = n + 1
      BY <2>3, <3>2
    <3>3. QED
      BY <2>2, <3>1, <3>2
  <2>5. StreamInv'
    BY <2>1, <2>4 DEF IInv, StreamInv
  <2>6. Less(Out', Cols(queue'))
    BY <2>1, <2>4 DEF IInv, StreamInv, AnsweredInv, Less
  <2>7. \A i \in 1..(n + 1) : Up(answered'[i])
    <3>1. Up(buffer) /\ \A i \in 1..n : Up(answered[i])
      BY DEF IInv, StreamInv, AnsweredInv
    <3> SUFFICES ASSUME NEW i \in 1..(n + 1)
                 PROVE  Up(answered'[i])
      OBVIOUS
    <3>2. CASE i \in 1..n
      BY <2>3, <3>1, <3>2
    <3>3. CASE i = n + 1
      BY <2>3, <3>1, <3>3
    <3>4. QED
      BY <2>2, <3>2, <3>3
  <2>8. ASSUME NEW i \in 1..(n + 1), NEW j \in 1..(n + 1), i < j
        PROVE  Less(Cols(answered'[i]), Cols(answered'[j]))
    <3>1. i \in 1..n
      BY <2>2, <2>8
    <3>2. CASE j \in 1..n
      BY <2>3, <2>8, <3>1, <3>2 DEF IInv, AnsweredInv
    <3>3. CASE j = n + 1
      <4>1. Less(Out, Cols(buffer)) /\ Cols(answered[i]) \subseteq Out
        BY <2>1, <3>1 DEF IInv, AnsweredInv, Out
      <4>2. QED
        BY <2>3, <3>1, <3>3, <4>1 DEF Less
    <3>4. QED
      BY <2>2, <3>2, <3>3
  <2>9. AnsweredInv'
    BY <2>1, <2>3, <2>6, <2>7, <2>8 DEF AnsweredInv
  <2>10. QED
    BY <2>5, <2>9 DEF IInv
<1>2. CASE ~(requests > 0)
  BY <1>2, Unchanged DEF Answer, input
<1>3. QED
  BY <1>1, <1>2

LEMMA StartOverIInv == IInv /\ StartOver => IInv'
<1> SUFFICES ASSUME IInv, StartOver
             PROVE  IInv'
  OBVIOUS
<1>1. CASE WaitsForData
  BY <1>1, HeadToBuffer DEF StartOver, talk
<1>2. CASE ~WaitsForData
  <2>1. /\ buffer' = <<>>
        /\ UNCHANGED <<queue, pushed, answered>>
    BY <1>2 DEF StartOver, talk
  <2>2. buffer' \in Seq(Nat) /\ Cols(buffer') = {} /\ Up(buffer')
    BY <2>1, EmptyCols
  <2>3. Out' = Out
    BY <2>1, SameOut
  <2>4. StreamInv'
    BY <2>1, <2>2, <2>3 DEF IInv, StreamInv, Less
  <2>5. AnsweredInv'
    BY <2>1, <2>2, <2>3 DEF IInv, AnsweredInv, Less
  <2>6. QED
    BY <2>4, <2>5 DEF IInv
<1>3. QED
  BY <1>1, <1>2

LEMMA KindFixed == [Next]_vars => kind' = kind
BY DEF Next, PushPacket, stop_threads, Client, SeeQueue, GetBack, SeeData, Ask, GetReply, Buffer,
       FirstPacket, Take, Exit, Answer, ClearFlag, StartOver, vars, input

LEMMA NextIInv == kind # "fft" /\ IInv /\ [Next]_vars => IInv'
<1> SUFFICES ASSUME kind # "fft", IInv, [Next]_vars
             PROVE  IInv'
  OBVIOUS
<1>1. CASE PushPacket
  BY <1>1, PushPacketIInv
<1>2. CASE stop_threads
  BY <1>2, Unchanged DEF stop_threads, thread, talk
<1>3. CASE Client
  BY <1>3, Unchanged DEF Client, SeeQueue, GetBack, SeeData, Ask, GetReply, input, thread
<1>4. CASE FirstPacket
  <2>1. CASE keep_alive
    BY <1>4, <2>1, HeadToBuffer DEF FirstPacket, talk
  <2>2. CASE ~keep_alive
    BY <1>4, <2>2, Unchanged DEF FirstPacket, talk
  <2>3. QED
    BY <2>1, <2>2
<1>5. CASE Take
  BY <1>5, TakeIInv
<1>6. CASE Exit
  BY <1>6, Unchanged DEF Exit, input, talk
<1>7. CASE Answer
  BY <1>7, AnswerIInv
<1>8. CASE ClearFlag
  BY <1>8, Unchanged DEF ClearFlag, input, talk
<1>9. CASE StartOver
  BY <1>9, StartOverIInv
<1>10. CASE UNCHANGED vars
  BY <1>10, Unchanged DEF vars, input, thread, talk
<1>11. QED
  BY <1>1, <1>2, <1>3, <1>4, <1>5, <1>6, <1>7, <1>8, <1>9, <1>10
     DEF Next, Buffer

(* No thread that trims without aliasing hands out a column twice or after *)
(* a newer one: over any trims, overflows, requests and starts over.       *)
THEOREM RepliesInOrder == Spec => []HandedInOrder
<1> DEFINE SafeInv == kind # "fft" => IInv
<1>1. SafeInv /\ [Next]_vars => SafeInv'
  BY NextIInv, KindFixed
<1>2. IInv => HandedInOrder
  <2> SUFFICES ASSUME IInv,
                      NEW i \in DOMAIN answered, NEW j \in DOMAIN answered,
                      NEW k \in DOMAIN answered[i],
                      NEW l \in DOMAIN answered[j],
                      i < j \/ (i = j /\ k < l)
               PROVE  answered[i][k] < answered[j][l]
    BY DEF HandedInOrder
  <2>1. answered \in Seq(Seq(Nat))
    BY DEF IInv, AnsweredInv
  <2>2. i \in 1..Len(answered) /\ j \in 1..Len(answered)
    BY <2>1
  <2>3. answered[i] \in Seq(Nat) /\ answered[j] \in Seq(Nat)
    BY <2>1, <2>2
  <2>4. k \in 1..Len(answered[i]) /\ l \in 1..Len(answered[j])
    BY <2>3
  <2>5. CASE i < j
    <3>1. Less(Cols(answered[i]), Cols(answered[j]))
      BY <2>2, <2>5 DEF IInv, AnsweredInv
    <3>2. answered[i][k] \in Cols(answered[i])
          /\ answered[j][l] \in Cols(answered[j])
      BY <2>4 DEF Cols
    <3>3. QED
      BY <3>1, <3>2 DEF Less
  <2>6. CASE i = j /\ k < l
    BY <2>2, <2>4, <2>6 DEF IInv, AnsweredInv, Up
  <2>7. QED
    BY <2>5, <2>6
<1>3. SafeInv => HandedInOrder
  BY <1>2 DEF HandedInOrder
<1>4. Init => SafeInv
  BY InitIInv
<1> HIDE DEF SafeInv
<1>5. QED
  BY <1>1, <1>3, <1>4, PTL DEF Spec

BoundInv ==
    /\ queue \in Seq(Nat) /\ buffer \in Seq(Nat)
    /\ pushed \in Nat
    /\ BufferBounded

LEMMA BoundedStart ==
    ASSUME NEW n \in Nat
    PROVE  /\ <<n>> \in Seq(Nat) /\ Len(<<n>>) <= 2 * History
           /\ <<>> \in Seq(Nat) /\ Len(<<>>) <= 2 * History
<1>1. <<n>> \in Seq(Nat) /\ Len(<<n>>) = 1
  OBVIOUS
<1>2. <<>> \in Seq(Nat) /\ Len(<<>>) = 0
  OBVIOUS
<1>3. 1 <= 2 * History /\ 0 <= 2 * History
  BY HistoryAssumption
<1>4. QED
  BY <1>1, <1>2, <1>3

LEMMA BoundedTrim ==
    ASSUME kind # "detections", NEW s \in Seq(Nat), NEW t \in Trimmed(s)
    PROVE  t \in Seq(Nat) /\ Len(t) <= 2 * History
<1>1. History \in Nat /\ 1 <= History /\ Len(s) \in Nat
  BY HistoryAssumption
<1>2. CASE Len(s) > 2 * History /\ t = Newest(s, History)
  <2>1. Newest(s, History) \in Seq(Nat) /\ Len(Newest(s, History)) = History
    BY <1>1, <1>2 DEF Newest
  <2>2. QED
    BY <1>1, <1>2, <2>1
<1>3. CASE t = [i \in 1..History |-> Garbage]
  <2>1. t \in Seq(Nat) /\ Len(t) = History
    BY <1>1, <1>3 DEF Garbage
  <2>2. QED
    BY <1>1, <2>1
<1>4. CASE ~(Len(s) > 2 * History) /\ t = s
  BY <1>1, <1>4
<1>5. QED
  BY <1>2, <1>3, <1>4 DEF Trimmed

LEMMA NextBoundInv ==
    kind # "detections" /\ BoundInv /\ [Next]_vars => BoundInv'
<1> SUFFICES ASSUME kind # "detections", BoundInv, [Next]_vars
             PROVE  BoundInv'
  OBVIOUS
<1> USE DEF BoundInv
<1>1. CASE PushPacket
  <2> DEFINE q == Append(queue, pushed + 1)
  <2>1. q \in Seq(Nat) /\ Tail(q) \in Seq(Nat)
    OBVIOUS
  <2>2. queue' \in {q, Tail(q)} /\ buffer' = buffer /\ pushed' \in Nat
    BY <1>1 DEF PushPacket, thread
  <2>3. QED
    BY <2>1, <2>2 DEF BufferBounded
<1>2. CASE stop_threads \/ Client \/ Exit \/ Answer \/ ClearFlag
  BY <1>2 DEF stop_threads, Client, SeeQueue, GetBack, SeeData, Ask, GetReply, Exit, Answer,
              ClearFlag, input, thread, talk, BufferBounded
<1>3. CASE FirstPacket \/ StartOver
  <2>1. \/ /\ queue # <<>> /\ buffer' = <<Head(queue)>>
           /\ queue' = Tail(queue)
        \/ buffer' = <<>> /\ queue' = queue
        \/ buffer' = buffer /\ queue' = queue
    BY <1>3 DEF FirstPacket, StartOver
  <2>2. pushed' = pushed
    BY <1>3 DEF FirstPacket, StartOver
  <2>3. queue # <<>> => Head(queue) \in Nat /\ Tail(queue) \in Seq(Nat)
    OBVIOUS
  <2>4. 0 \in Nat
    OBVIOUS
  <2>5. QED
    BY <2>1, <2>2, <2>3, <2>4, BoundedStart DEF BufferBounded
<1>4. CASE Take
  <2>1. buffer \o queue \in Seq(Nat) /\ <<>> \in Seq(Nat)
    OBVIOUS
  <2>2. CASE queue # <<>>
    <3>1. buffer' \in Trimmed(buffer \o queue) /\ queue' = <<>>
          /\ pushed' = pushed
      BY <1>4, <2>2 DEF Take
    <3>2. QED
      BY <2>1, <3>1, BoundedTrim DEF BufferBounded
  <2>3. CASE queue = <<>>
    BY <1>4, <2>3 DEF Take, BufferBounded
  <2>4. QED
    BY <2>2, <2>3
<1>5. CASE UNCHANGED vars
  BY <1>5 DEF vars, input, thread, BufferBounded
<1>6. QED
  BY <1>1, <1>2, <1>3, <1>4, <1>5 DEF Next, Buffer

(* The acoustic, FFT and beamformer buffers never grow beyond twice their  *)
(* history, though nobody asks for data.                                   *)
THEOREM BuffersAreBounded == Spec => []BufferBounded
<1> DEFINE SafeInv == kind # "detections" => BoundInv
<1>1. SafeInv /\ [Next]_vars => SafeInv'
  BY NextBoundInv, KindFixed
<1>2. Init => SafeInv
  <2>1. 0 \in Nat
    OBVIOUS
  <2>2. QED
    BY <2>1, BoundedStart DEF Init, BoundInv, BufferBounded
<1>3. SafeInv => BufferBounded
  BY DEF BoundInv, BufferBounded
<1> HIDE DEF SafeInv
<1>4. QED
  BY <1>1, <1>2, <1>3, PTL DEF Spec

--------------------------------------------------------------------------
(* Types.                                                                  *)

Packets == 1..MaxPackets

FlagTypes ==
    /\ kind \in Kinds
    /\ {lost, keep_alive, has_data} \subseteq BOOLEAN
    /\ pc \in {"first", "top", "request", "flag", "empty", "exited", "crashed"}

DataTypes ==
    /\ queue \in Seq(Packets) /\ Len(queue) <= QueueLength
    /\ pushed \in 0..MaxPackets
    /\ buffer \in Seq(Column)

(* A request is made while a reply is still allowed, one at a time.        *)
TalkTypes ==
    /\ requests \in 0..1
    /\ replies \in Seq(Seq(Column))
    /\ requests + Len(replies) <= 1
    /\ client \in {"idle", "back", "look", "asking", "waiting"}
    /\ client = "waiting" <=> requests + Len(replies) = 1
    /\ answered \in Seq(Seq(Column)) /\ Len(answered) <= MaxReplies
    /\ client = "asking" \/ requests = 1 => Len(answered) < MaxReplies

LEMMA PacketsAreColumns ==
    /\ Packets \subseteq Column
    /\ \A q \in Seq(Packets) : q \in Seq(Column)
<1>1. Packets \subseteq Column
  BY BoundsAssumption DEF Packets, Column
<1> QED BY <1>1

LEMMA TailElements ==
    ASSUME NEW S, NEW q \in Seq(S), q # <<>>
    PROVE  /\ Head(q) \in S /\ Tail(q) \in Seq(S)
           /\ Len(Tail(q)) = Len(q) - 1 /\ Len(q) > 0
OBVIOUS

LEMMA AppendElements ==
    ASSUME NEW S, NEW q \in Seq(S), NEW e \in S
    PROVE  Append(q, e) \in Seq(S) /\ Len(Append(q, e)) = Len(q) + 1
OBVIOUS

LEMMA EmptySeq ==
    ASSUME NEW S
    PROVE  <<>> \in Seq(S) /\ Len(<<>>) = 0
OBVIOUS

LEMMA TrimmedType ==
    ASSUME NEW s \in Seq(Column), NEW t \in Trimmed(s)
    PROVE  t \in Seq(Column)
<1>1. History \in Nat /\ 1 <= History /\ Len(s) \in Nat
  BY HistoryAssumption
<1>2. CASE Len(s) > 2 * History /\ t = Newest(s, History)
  <2>1. Len(s) - History + 1 \in 1..(Len(s) + 1)
    BY <1>1, <1>2
  <2> QED BY <1>2, <2>1 DEF Newest
<1>3. CASE t = [i \in 1..History |-> Garbage]
  <2>1. Garbage \in Column
    BY BoundsAssumption DEF Garbage, Column
  <2> QED BY <1>1, <1>3, <2>1
<1>4. CASE ~(Len(s) > 2 * History) /\ t = s
  BY <1>4
<1>5. CASE kind = "detections" /\ t = s
  BY <1>5
<1> QED BY <1>2, <1>3, <1>4, <1>5 DEF Trimmed

LEMMA PushTypes ==
    ASSUME DataTypes, PushPacket
    PROVE  DataTypes'
<1> DEFINE q == Append(queue, pushed + 1)
<1>1. pushed + 1 \in Packets /\ pushed + 1 \in 0..MaxPackets
  BY BoundsAssumption DEF DataTypes, PushPacket, Packets
<1>2. queue \in Seq(Packets) /\ Len(queue) \in Nat /\ Len(queue) <= QueueLength
  BY DEF DataTypes
<1>3. q \in Seq(Packets) /\ Len(q) = Len(queue) + 1
  BY <1>1, <1>2, AppendElements
<1>4. q # <<>>
  <2>1. Len(<<>>) = 0 /\ Len(q) # 0
    BY <1>2, <1>3, EmptySeq
  <2> QED BY <2>1
<1>5. \/ Len(q) > QueueLength /\ queue' = Tail(q)
      \/ ~(Len(q) > QueueLength) /\ queue' = q
  BY DEF PushPacket
<1>6. pushed' = pushed + 1 /\ buffer' = buffer
  BY DEF PushPacket, thread
<1> HIDE DEF q
<1>7. Tail(q) \in Seq(Packets) /\ Len(Tail(q)) = Len(q) - 1
  BY <1>3, <1>4, TailElements
<1>8. queue' \in Seq(Packets) /\ Len(queue') <= QueueLength
  BY <1>2, <1>3, <1>5, <1>7, QueueAssumption
<1> QED BY <1>1, <1>6, <1>8 DEF DataTypes

(* The thread takes one packet to start with, or starts with none.         *)
LEMMA RestartTypes ==
    ASSUME DataTypes, FirstPacket \/ StartOver
    PROVE  DataTypes'
<1>1. \/ /\ queue # <<>> /\ buffer' = <<Head(queue)>>
         /\ queue' = Tail(queue)
      \/ buffer' = <<>> /\ queue' = queue
      \/ buffer' = buffer /\ queue' = queue
  BY DEF FirstPacket, StartOver
<1>2. pushed' = pushed
  BY DEF FirstPacket, StartOver
<1>3. CASE queue # <<>> /\ buffer' = <<Head(queue)>> /\ queue' = Tail(queue)
  <2>1. Head(queue) \in Packets /\ queue' \in Seq(Packets)
        /\ Len(queue') = Len(queue) - 1
    BY <1>3, TailElements DEF DataTypes
  <2>2. Len(queue') <= QueueLength
    BY <2>1, QueueAssumption DEF DataTypes
  <2>3. buffer' \in Seq(Column)
    BY <1>3, <2>1, PacketsAreColumns
  <2> QED BY <1>2, <2>1, <2>2, <2>3 DEF DataTypes
<1>4. CASE (buffer' = <<>> \/ buffer' = buffer) /\ queue' = queue
  BY <1>2, <1>4, EmptySeq DEF DataTypes
<1> QED BY <1>1, <1>3, <1>4

LEMMA TakeTypes ==
    ASSUME DataTypes, Take
    PROVE  DataTypes'
<1>1. CASE queue = <<>>
  BY <1>1 DEF Take, DataTypes
<1>2. CASE queue # <<>>
  <2>1. buffer \o queue \in Seq(Column)
    BY PacketsAreColumns DEF DataTypes
  <2>2. buffer' \in Seq(Column) /\ queue' = <<>> /\ pushed' = pushed
    BY <1>2, <2>1, TrimmedType DEF Take
  <2>3. queue' \in Seq(Packets) /\ Len(queue') <= QueueLength
    BY <2>2, EmptySeq, QueueAssumption
  <2> QED BY <2>2, <2>3 DEF DataTypes
<1> QED BY <1>1, <1>2

LEMMA AnswerTypes ==
    ASSUME DataTypes, TalkTypes, Answer
    PROVE  TalkTypes'
<1>1. CASE requests > 0
  <2>1. requests = 1 /\ Len(replies) = 0 /\ Len(answered) < MaxReplies
    BY <1>1 DEF TalkTypes
  <2>2. /\ replies' = Append(replies, buffer)
        /\ answered' = Append(answered, buffer)
        /\ requests' = 0 /\ client' = client
    BY <1>1, <2>1 DEF Answer
  <2>3. replies' \in Seq(Seq(Column)) /\ Len(replies') = 1
    BY <2>1, <2>2, AppendElements DEF DataTypes, TalkTypes
  <2>4. answered' \in Seq(Seq(Column)) /\ Len(answered') <= MaxReplies
    <3>1. answered' \in Seq(Seq(Column)) /\ Len(answered') = Len(answered) + 1
      BY <2>2, AppendElements DEF DataTypes, TalkTypes
    <3>2. Len(answered) \in Nat
      BY DEF TalkTypes
    <3> QED BY <2>1, <3>1, <3>2, BoundsAssumption
  <2>5. client = "waiting"
    BY <2>1 DEF TalkTypes
  <2> QED BY <2>2, <2>3, <2>4, <2>5 DEF TalkTypes
<1>2. CASE ~(requests > 0)
  BY <1>2 DEF Answer, TalkTypes
<1> QED BY <1>1, <1>2

LEMMA ClientTypes ==
    ASSUME TalkTypes, Client
    PROVE  TalkTypes'
<1>1. CASE SeeQueue \/ GetBack \/ SeeData
  BY <1>1 DEF SeeQueue, GetBack, SeeData, TalkTypes
<1>2. CASE Ask
  <2>1. requests = 0 /\ Len(replies) = 0
    BY <1>2 DEF Ask, TalkTypes
  <2>2. /\ requests' = 1 /\ client' = "waiting" /\ client = "asking"
        /\ UNCHANGED <<replies, answered>>
    BY <1>2, <2>1 DEF Ask
  <2> QED BY <2>1, <2>2 DEF TalkTypes
<1>3. CASE GetReply
  <2>1. replies' \in Seq(Seq(Column)) /\ Len(replies') = Len(replies) - 1
        /\ Len(replies) > 0
    BY <1>3, TailElements DEF GetReply, TalkTypes
  <2>2. Len(replies) = 1 /\ Len(replies') = 0 /\ requests = 0
    BY <2>1 DEF TalkTypes
  <2>3. client' = "idle" /\ UNCHANGED <<requests, answered>>
    BY <1>3 DEF GetReply
  <2> QED BY <2>1, <2>2, <2>3 DEF TalkTypes
<1> QED BY <1>1, <1>2, <1>3 DEF Client

LEMMA NextTypes ==
    ASSUME FlagTypes, DataTypes, TalkTypes, [Next]_vars
    PROVE  FlagTypes' /\ DataTypes' /\ TalkTypes'
<1> USE DEF input, thread, talk
<1>1. FlagTypes'
  <2>1. CASE PushPacket
    BY <2>1 DEF PushPacket, FlagTypes
  <2>2. CASE stop_threads \/ Client
    BY <2>2 DEF stop_threads, Client, SeeQueue, GetBack, SeeData, Ask, GetReply, FlagTypes
  <2>3. CASE FirstPacket \/ StartOver
    BY <2>3 DEF FirstPacket, StartOver, FlagTypes
  <2>4. CASE Take
    BY <2>4 DEF Take, FlagTypes
  <2>5. CASE Exit \/ Answer \/ ClearFlag
    BY <2>5 DEF Exit, Answer, ClearFlag, FlagTypes
  <2>6. CASE UNCHANGED vars
    BY <2>6 DEF vars, FlagTypes
  <2> QED BY <2>1, <2>2, <2>3, <2>4, <2>5, <2>6 DEF Next, Buffer
<1>2. DataTypes'
  <2>1. CASE stop_threads \/ Client \/ Exit \/ Answer \/ ClearFlag
                \/ UNCHANGED vars
    BY <2>1 DEF stop_threads, Client, SeeQueue, GetBack, SeeData, Ask, GetReply, Exit, Answer,
                ClearFlag, vars, DataTypes
  <2> QED BY <2>1, PushTypes, RestartTypes, TakeTypes DEF Next, Buffer
<1>3. TalkTypes'
  <2>1. CASE PushPacket \/ stop_threads \/ FirstPacket \/ Take \/ Exit
                \/ ClearFlag \/ StartOver \/ UNCHANGED vars
    BY <2>1 DEF PushPacket, stop_threads, FirstPacket, Take, Exit, ClearFlag,
                StartOver, vars, TalkTypes
  <2> QED BY <2>1, AnswerTypes, ClientTypes DEF Next, Buffer
<1> QED BY <1>1, <1>2, <1>3

(* Every variable keeps its type: among others an application that waits   *)
(* has one request or one reply under way, never both and never two.       *)
THEOREM HistoryTypes == Spec => []TypeOK
<1> DEFINE Inv == FlagTypes /\ DataTypes /\ TalkTypes
<1>1. Init => Inv
  <2> SUFFICES ASSUME Init PROVE Inv
    OBVIOUS
  <2>1. FlagTypes
    BY DEF Init, FlagTypes
  <2>2. DataTypes
    BY EmptySeq, QueueAssumption, BoundsAssumption DEF Init, DataTypes
  <2>3. TalkTypes
    BY EmptySeq, BoundsAssumption DEF Init, TalkTypes
  <2> QED BY <2>1, <2>2, <2>3
<1>2. Inv /\ [Next]_vars => Inv'
  BY NextTypes
<1>3. Inv => TypeOK
  BY DEF FlagTypes, DataTypes, TalkTypes, Packets, TypeOK
<1> HIDE DEF Inv
<1> QED BY <1>1, <1>2, <1>3, PTL DEF Spec

--------------------------------------------------------------------------
(* Columns that are left out.                                              *)

taken == pushed - Len(queue)

InReply(n) == \E i \in 1..Len(answered) : Holds(i, n)

(* The first reply with newer columns than n has a whole history of them.  *)
Covered(n) ==
    \E i \in 1..Len(answered) :
        /\ Passes(i, n) /\ \A h \in 1..(i - 1) : ~Passes(h, n)
        /\ answered[i][1] > n
        /\ Len(answered[i]) >= History

(* n was cut from the buffer, and the next reply will cover it.            *)
Cut(n) ==
    /\ Len(buffer) >= History /\ buffer[1] > n
    /\ \A i \in 1..Len(answered) : ~Passes(i, n)

Settled(n) == InReply(n) \/ Covered(n)

InHand(n) == pc \notin {"flag", "empty"} /\ (n \in Cols(buffer) \/ Cut(n))

(* While the queue loses nothing, every column that has left it is settled *)
(* or still in hand.                                                       *)
SkipInv ==
    ~lost =>
        /\ Len(queue) <= pushed
        /\ \A i \in 1..Len(queue) : queue[i] = taken + i
        /\ \A n \in 1..taken : Settled(n) \/ InHand(n)
        /\ pc = "first" => buffer = <<>>

LEMMA OutUpTo ==
    ASSUME NEW i \in 1..Len(answered), NEW k \in 1..Len(answered[i])
    PROVE  answered[i][k] \in Out
BY DEF Out, Cols

(* Nothing after n has been handed out if n is newer than all that was.    *)
LEMMA NewerThanOut ==
    ASSUME IInv, NEW n \in Nat, \A x \in Out : x < n
    PROVE  \A i \in 1..Len(answered) : ~Passes(i, n)
<1> SUFFICES ASSUME NEW i \in 1..Len(answered), Passes(i, n)
             PROVE  FALSE
  OBVIOUS
<1>1. answered[i] \in Seq(Nat)
  BY DEF IInv, AnsweredInv
<1>2. PICK k \in 1..Len(answered[i]) : answered[i][k] > n
  BY <1>1 DEF Passes
<1>3. answered[i][k] < n /\ answered[i][k] \in Nat
  BY <1>1, OutUpTo
<1> QED BY <1>2, <1>3

(* What a step that adds no reply keeps.                                   *)
LEMMA SettledKept ==
    ASSUME UNCHANGED answered, NEW n
    PROVE  /\ Settled(n)' <=> Settled(n)
           /\ (\A i \in 1..Len(answered) : ~Passes(i, n))'
                 <=> \A i \in 1..Len(answered) : ~Passes(i, n)
BY DEF Settled, InReply, Covered, Holds, Passes

LEMMA InHandKept ==
    ASSUME UNCHANGED <<answered, buffer>>, NEW n, InHand(n),
           pc' \notin {"flag", "empty"}
    PROVE  InHand(n)'
<1>1. buffer' = buffer /\ answered' = answered
  OBVIOUS
<1>2. Cut(n) => Cut(n)'
  BY <1>1, SettledKept DEF Cut
<1>3. Cols(buffer)' = Cols(buffer)
  BY <1>1
<1> QED BY <1>2, <1>3 DEF InHand

LEMMA SkipSame ==
    ASSUME SkipInv, UNCHANGED <<queue, pushed, lost, buffer, answered>>,
           pc' \in {"flag", "empty"} => pc \in {"flag", "empty"},
           pc' = "first" => pc = "first"
    PROVE  SkipInv'
<1> SUFFICES ASSUME ~lost
             PROVE  SkipInv'
  BY DEF SkipInv
<1>1. taken' = taken
  BY DEF taken
<1>2. ASSUME NEW n \in 1..taken
      PROVE  Settled(n)' \/ InHand(n)'
  <2>1. CASE Settled(n)
    BY <2>1, SettledKept
  <2>2. CASE InHand(n)
    BY <2>2, InHandKept DEF InHand
  <2> QED BY <2>1, <2>2 DEF SkipInv
<1> QED BY <1>1, <1>2 DEF SkipInv

LEMMA SkipPush ==
    ASSUME IInv, SkipInv, PushPacket
    PROVE  SkipInv'
<1> SUFFICES ASSUME ~lost'
             PROVE  SkipInv'
  BY DEF SkipInv
<1>1. queue \in Seq(Nat) /\ pushed \in Nat /\ pushed + 1 \in Nat
  BY DEF IInv, StreamInv
<1>2. /\ queue' = Append(queue, pushed + 1) /\ pushed' = pushed + 1 /\ ~lost
      /\ UNCHANGED <<pc, buffer, answered>>
  BY DEF PushPacket, thread, talk
<1>3. /\ queue' \in Seq(Nat) /\ Len(queue') = Len(queue) + 1
      /\ queue'[Len(queue) + 1] = pushed + 1
      /\ \A i \in 1..Len(queue) : queue'[i] = queue[i]
  BY <1>1, <1>2
<1>4. /\ Len(queue) <= pushed /\ Len(queue) \in Nat
      /\ \A i \in 1..Len(queue) : queue[i] = taken + i
  BY <1>1, <1>2 DEF SkipInv
<1>5. taken' = taken /\ taken \in Nat
  BY <1>1, <1>2, <1>3, <1>4 DEF taken
<1>6. ASSUME NEW i \in 1..(Len(queue) + 1)
      PROVE  queue'[i] = taken + i
  <2>1. CASE i \in 1..Len(queue)
    BY <1>3, <1>4, <2>1
  <2>2. CASE i = Len(queue) + 1
    <3>1. pushed + 1 = taken + (Len(queue) + 1)
      BY <1>1, <1>4 DEF taken
    <3> QED BY <1>3, <2>2, <3>1
  <2> QED BY <1>4, <2>1, <2>2
<1>7. ASSUME NEW n \in 1..taken
      PROVE  Settled(n)' \/ InHand(n)'
  <2>1. CASE Settled(n)
    BY <1>2, <2>1, SettledKept
  <2>2. CASE InHand(n)
    BY <1>2, <2>2, InHandKept DEF InHand
  <2> QED BY <1>2, <2>1, <2>2 DEF SkipInv
<1>8. Len(queue') <= pushed'
  BY <1>1, <1>2, <1>3, <1>4
<1>9. pc' = "first" => buffer' = <<>>
  BY <1>2 DEF SkipInv
<1> QED BY <1>3, <1>5, <1>6, <1>7, <1>8, <1>9 DEF SkipInv

(* Whoever takes the first packet starts a buffer with it, and all the     *)
(* columns before it are settled.                                          *)
LEMMA SkipHead ==
    ASSUME IInv, SkipInv, queue # <<>>, buffer' = <<Head(queue)>>,
           queue' = Tail(queue), UNCHANGED <<pushed, lost, answered>>,
           pc' = "top", ~lost => \A n \in 1..taken : Settled(n)
    PROVE  SkipInv'
<1> SUFFICES ASSUME ~lost
             PROVE  SkipInv'
  BY DEF SkipInv
<1>1. queue \in Seq(Nat) /\ pushed \in Nat
  BY DEF IInv, StreamInv
<1>2. /\ Len(queue) > 0 /\ Len(queue) \in Nat
      /\ Head(queue) = queue[1] /\ Head(queue) \in Nat
      /\ Len(queue') = Len(queue) - 1
      /\ \A i \in 1..(Len(queue) - 1) : queue'[i] = queue[i + 1]
  BY <1>1
<1>3. /\ Len(queue) <= pushed
      /\ \A i \in 1..Len(queue) : queue[i] = taken + i
  BY DEF SkipInv
<1>4. taken' = taken + 1 /\ taken \in Nat
  BY <1>1, <1>2, <1>3 DEF taken
<1>5. ASSUME NEW i \in 1..(Len(queue) - 1)
      PROVE  queue'[i] = (taken + 1) + i
  <2>1. i + 1 \in 1..Len(queue)
    BY <1>2
  <2>2. queue'[i] = taken + (i + 1)
    BY <1>2, <1>3, <2>1
  <2> QED BY <1>4, <2>2
<1>6. ASSUME NEW n \in 1..(taken + 1)
      PROVE  Settled(n)' \/ InHand(n)'
  <2>1. CASE n \in 1..taken
    BY <2>1, SettledKept
  <2>2. CASE n = taken + 1
    <3>1. n = Head(queue)
      BY <1>2, <1>3, <2>2
    <3>2. n \in Cols(buffer')
      BY <1>2, <3>1, SingleCols
    <3> QED BY <3>2 DEF InHand
  <2> QED BY <1>4, <2>1, <2>2
<1>7. Len(queue') <= pushed'
  BY <1>1, <1>2, <1>3
<1> QED BY <1>2, <1>4, <1>5, <1>6, <1>7 DEF SkipInv

(* A trim keeps a column, or cuts it and leaves a whole history after it.  *)
LEMMA TrimKeeps ==
    ASSUME NEW s \in Seq(Nat), Up(s), kind # "fft", NEW t \in Trimmed(s),
           NEW n \in Cols(s)
    PROVE  n \in Cols(t) \/ (Len(t) >= History /\ t[1] > n)
<1>1. CASE t = s
  BY <1>1
<1>2. CASE t = Newest(s, History) /\ Len(s) > 2 * History
  <2> DEFINE m == Len(s) - History + 1
  <2>1. /\ History \in Nat /\ 1 <= History /\ Len(s) \in Nat
        /\ m \in 1..Len(s)
    BY <1>2, HistoryAssumption
  <2>2. /\ Len(t) = History
        /\ \A k \in 1..History : t[k] = s[(m + k) - 1]
    BY <1>2, <2>1 DEF Newest
  <2>3. PICK k \in 1..Len(s) : n = s[k]
    BY DEF Cols
  <2> HIDE DEF m
  <2>4. CASE k >= m
    <3>1. (k - m) + 1 \in 1..History /\ (m + ((k - m) + 1)) - 1 = k
      BY <2>1, <2>4 DEF m
    <3>2. t[(k - m) + 1] = s[k]
      BY <2>2, <3>1
    <3> QED BY <2>2, <2>3, <3>1, <3>2 DEF Cols
  <2>5. CASE k < m
    <3>1. s[k] < s[m] /\ s[k] \in Nat /\ s[m] \in Nat
      BY <2>1, <2>5 DEF Up
    <3>2. 1 \in 1..History /\ (m + 1) - 1 = m
      BY <2>1
    <3>3. t[1] = s[m]
      BY <2>2, <3>2
    <3>4. Len(t) >= History
      BY <2>1, <2>2
    <3> QED BY <2>3, <3>1, <3>3, <3>4
  <2> QED BY <2>1, <2>4, <2>5
<1> QED BY <1>1, <1>2 DEF Trimmed

LEMMA TrimKeepsCut ==
    ASSUME NEW s \in Seq(Nat), Up(s), kind # "fft", NEW t \in Trimmed(s),
           NEW n \in Nat, Len(s) >= History, s[1] > n
    PROVE  Len(t) >= History /\ t[1] > n
<1>1. CASE t = s
  BY <1>1
<1>2. CASE t = Newest(s, History) /\ Len(s) > 2 * History
  <2> DEFINE m == Len(s) - History + 1
  <2>1. /\ History \in Nat /\ 1 <= History /\ Len(s) \in Nat
        /\ m \in 1..Len(s) /\ 1 \in 1..Len(s) /\ 1 < m
    BY <1>2, HistoryAssumption
  <2>2. /\ Len(t) = History
        /\ \A k \in 1..History : t[k] = s[(m + k) - 1]
    BY <1>2, <2>1 DEF Newest
  <2> HIDE DEF m
  <2>3. 1 \in 1..History /\ (m + 1) - 1 = m
    BY <2>1
  <2>4. t[1] = s[m]
    BY <2>2, <2>3
  <2>5. s[1] < s[m] /\ s[1] \in Nat /\ s[m] \in Nat
    BY <2>1 DEF Up
  <2> QED BY <2>1, <2>2, <2>4, <2>5
<1> QED BY <1>1, <1>2 DEF Trimmed

LEMMA SkipTake ==
    ASSUME kind # "fft", IInv, SkipInv, Take
    PROVE  SkipInv'
<1> SUFFICES ASSUME ~lost
             PROVE  SkipInv'
  BY DEF SkipInv, Take
<1>1. CASE queue = <<>>
  BY <1>1, SkipSame DEF Take, talk
<1>2. CASE queue # <<>>
  <2> DEFINE b == buffer \o queue
  <2>1. /\ pc = "top" /\ pc' = "request" /\ buffer' \in Trimmed(b)
        /\ queue' = <<>> /\ UNCHANGED <<pushed, lost, answered>>
    BY <1>2 DEF Take, talk
  <2>2. b \in Seq(Nat) /\ Up(b) /\ Cols(b) = Cols(buffer) \cup Cols(queue)
    BY ConcatCols DEF IInv, StreamInv
  <2>3. /\ buffer \in Seq(Nat) /\ queue \in Seq(Nat) /\ pushed \in Nat
        /\ Len(buffer) \in Nat /\ Len(queue) \in Nat
    BY DEF IInv, StreamInv
  <2>4. /\ Len(queue) <= pushed
        /\ \A i \in 1..Len(queue) : queue[i] = taken + i
    BY DEF SkipInv
  <2>5. Len(queue') = 0
    BY <2>1
  <2>6. taken' = pushed /\ taken \in Nat
    BY <2>1, <2>3, <2>4, <2>5 DEF taken
  <2>7. ASSUME NEW n \in 1..pushed, n \in Cols(b)
        PROVE  InHand(n)'
    <3>1. \A x \in Out : x < n
      BY <2>1, <2>2, <2>7 DEF IInv, AnsweredInv, Less
    <3>2. \A i \in 1..Len(answered) : ~Passes(i, n)
      BY <2>3, <3>1, NewerThanOut
    <3>3. (\A i \in 1..Len(answered) : ~Passes(i, n))'
      BY <2>1, <3>2, SettledKept
    <3>4. n \in Cols(buffer') \/ (Len(buffer') >= History /\ buffer'[1] > n)
      <4> HIDE DEF b
      <4> QED BY <2>1, <2>2, <2>7, TrimKeeps
    <3> QED BY <2>1, <3>3, <3>4 DEF InHand, Cut
  <2>8. ASSUME NEW n \in 1..taken, Cut(n)
        PROVE  InHand(n)'
    <3>1. Len(buffer) >= History /\ buffer[1] > n /\ n \in Nat
      BY <2>6, <2>8 DEF Cut
    <3>2. Len(b) >= History /\ b[1] > n
      <4>1. 1 \in 1..Len(buffer)
        BY <2>3, <3>1, HistoryAssumption
      <4>2. Len(b) = Len(buffer) + Len(queue) /\ b[1] = buffer[1]
        BY <2>3, <4>1
      <4> QED BY <2>3, <3>1, <4>2, HistoryAssumption
    <3>3. Len(buffer') >= History /\ buffer'[1] > n
      <4> HIDE DEF b
      <4> QED BY <2>1, <2>2, <3>1, <3>2, TrimKeepsCut
    <3>4. (\A i \in 1..Len(answered) : ~Passes(i, n))'
      BY <2>1, <2>8, SettledKept DEF Cut
    <3> QED BY <2>1, <3>3, <3>4 DEF InHand, Cut
  <2>9. ASSUME NEW n \in 1..pushed
        PROVE  Settled(n)' \/ InHand(n)'
    <3>1. CASE n \in 1..taken
      <4>1. Settled(n) \/ n \in Cols(buffer) \/ Cut(n)
        BY <3>1 DEF SkipInv, InHand
      <4> QED BY <2>1, <2>2, <2>7, <2>8, <3>1, <4>1, SettledKept
    <3>2. CASE n > taken
      <4>1. n - taken \in 1..Len(queue) /\ taken + (n - taken) = n
        BY <2>3, <2>4, <2>6, <3>2 DEF taken
      <4>2. queue[n - taken] = n
        BY <2>4, <4>1
      <4>3. n \in Cols(queue)
        BY <4>1, <4>2 DEF Cols
      <4> QED BY <2>2, <2>7, <4>3
    <3> QED BY <2>6, <3>1, <3>2
  <2>10. SkipInv'
    BY <2>1, <2>3, <2>5, <2>6, <2>9 DEF SkipInv
  <2> QED BY <2>10
<1> QED BY <1>1, <1>2

(* The reply settles what was in hand.                                     *)
LEMMA SkipAnswer ==
    ASSUME IInv, SkipInv, Answer
    PROVE  SkipInv'
<1> SUFFICES ASSUME ~lost
             PROVE  SkipInv'
  BY DEF SkipInv, Answer, input
<1>1. CASE ~(requests > 0)
  BY <1>1, SkipSame DEF Answer, input
<1>2. CASE requests > 0
  <2>0. PICK c \in Nat : c = Len(answered) + 1
    BY DEF IInv, AnsweredInv
  <2>1. /\ pc = "request" /\ pc' = "flag" /\ answered' = Append(answered, buffer)
        /\ UNCHANGED <<queue, pushed, lost, buffer>>
    BY <1>2 DEF Answer, input
  <2>2. buffer \in Seq(Nat) /\ answered \in Seq(Seq(Nat))
    BY DEF IInv, StreamInv, AnsweredInv
  <2>3. /\ Len(answered) \in Nat /\ Len(answered') = c /\ answered'[c] = buffer
        /\ \A i \in 1..Len(answered) : answered'[i] = answered[i]
    BY <2>0, <2>1, <2>2
  <2>4. c \in 1..Len(answered') /\ \A i \in 1..Len(answered) : i \in 1..Len(answered')
    BY <2>0, <2>3
  <2>5. ASSUME NEW n, NEW i \in 1..Len(answered)
        PROVE  (Holds(i, n)' <=> Holds(i, n)) /\ (Passes(i, n)' <=> Passes(i, n))
    BY <2>3 DEF Holds, Passes
  <2>6. DOMAIN buffer = 1..Len(buffer)
    BY <2>2
  <2>7. ASSUME NEW n, Settled(n)
        PROVE  Settled(n)'
    <3>1. CASE InReply(n)
      BY <2>4, <2>5, <3>1 DEF Settled, InReply
    <3>2. CASE Covered(n)
      <4>1. PICK i \in 1..Len(answered) :
               /\ Passes(i, n) /\ \A h \in 1..(i - 1) : ~Passes(h, n)
               /\ answered[i][1] > n
               /\ Len(answered[i]) >= History
        BY <3>2 DEF Covered
      <4>2. \A h \in 1..(i - 1) : h \in 1..Len(answered)
        BY <2>3
      <4>3. /\ Passes(i, n)' /\ \A h \in 1..(i - 1) : ~Passes(h, n)'
            /\ answered'[i][1] > n
            /\ Len(answered'[i]) >= History
        BY <2>3, <2>5, <4>1, <4>2
      <4> QED BY <2>4, <4>3 DEF Settled, Covered
    <3> QED BY <2>7, <3>1, <3>2 DEF Settled
  <2>8. ASSUME NEW n \in Cols(buffer)
        PROVE  Settled(n)'
    <3>1. PICK k \in 1..Len(buffer) : buffer[k] = n
      BY <2>8 DEF Cols
    <3>2. Holds(c, n)'
      BY <2>3, <2>6, <3>1 DEF Holds
    <3> QED BY <2>4, <3>2 DEF Settled, InReply
  <2>9. ASSUME NEW n, Cut(n)
        PROVE  Settled(n)'
    <3>1. /\ Len(buffer) >= History /\ buffer[1] > n
          /\ \A i \in 1..Len(answered) : ~Passes(i, n)
      BY <2>9 DEF Cut
    <3>2. 1 \in DOMAIN buffer
      BY <2>2, <2>6, <3>1, HistoryAssumption
    <3>3. Passes(c, n)'
      BY <2>3, <3>1, <3>2 DEF Passes
    <3>4. \A h \in 1..(c - 1) : ~Passes(h, n)'
      <4>1. c - 1 = Len(answered)
        BY <2>0, <2>3
      <4> QED BY <2>5, <3>1, <4>1
    <3>5. answered'[c][1] > n /\ Len(answered'[c]) >= History
      BY <2>3, <3>1
    <3> QED BY <2>4, <3>3, <3>4, <3>5 DEF Settled, Covered
  <2>10. taken' = taken
    BY <2>1 DEF taken
  <2>11. \A n \in 1..taken : Settled(n)'
    BY <2>7, <2>8, <2>9 DEF SkipInv, InHand
  <2> QED BY <2>1, <2>10, <2>11 DEF SkipInv
<1> QED BY <1>1, <1>2

LEMMA SkipStartOver ==
    ASSUME IInv, SkipInv, StartOver
    PROVE  SkipInv'
<1>1. /\ pc = "empty" /\ pc' = "top"
      /\ UNCHANGED <<pushed, lost, answered>>
  BY DEF StartOver, talk
<1>2. ~lost => \A n \in 1..taken : Settled(n)
  BY <1>1 DEF SkipInv, InHand
<1>3. CASE WaitsForData
  BY <1>1, <1>2, <1>3, SkipHead DEF StartOver
<1>4. CASE ~WaitsForData
  <2>1. queue' = queue
    BY <1>4 DEF StartOver
  <2>2. taken' = taken
    BY <1>1, <2>1 DEF taken
  <2>3. ~lost => \A n \in 1..taken : Settled(n)'
    BY <1>1, <1>2, SettledKept
  <2> QED BY <1>1, <2>1, <2>2, <2>3 DEF SkipInv
<1> QED BY <1>3, <1>4

LEMMA SkipFirst ==
    ASSUME IInv, SkipInv, FirstPacket
    PROVE  SkipInv'
<1>1. CASE keep_alive
  <2>1. /\ pc = "first" /\ pc' = "top" /\ queue # <<>>
        /\ buffer' = <<Head(queue)>> /\ queue' = Tail(queue)
        /\ UNCHANGED <<pushed, lost, answered>>
    BY <1>1 DEF FirstPacket, talk
  <2>2. ASSUME ~lost, NEW n \in 1..taken
        PROVE  Settled(n)
    <3>1. buffer = <<>>
      BY <2>1, <2>2 DEF SkipInv
    <3>2. Cols(buffer) = {} /\ Len(buffer) = 0
      BY <3>1, EmptyCols
    <3>3. ~Cut(n)
      BY <3>2, HistoryAssumption DEF Cut
    <3> QED BY <2>2, <3>2, <3>3 DEF SkipInv, InHand
  <2> QED BY <2>1, <2>2, SkipHead
<1>2. CASE ~keep_alive
  BY <1>2, SkipSame DEF FirstPacket, talk
<1> QED BY <1>1, <1>2

LEMMA SkipInit == Init => SkipInv
<1> SUFFICES ASSUME Init
             PROVE  SkipInv
  OBVIOUS
<1>1. queue = <<>> /\ pushed = 0 /\ buffer = <<>>
  BY DEF Init
<1>2. Len(queue) = 0
  BY <1>1, EmptySeq, Zenon
<1>3. taken = 0
  <2>1. pushed = 0
    BY <1>1
  <2> QED BY <1>2, <2>1 DEF taken
<1> QED BY <1>1, <1>2, <1>3 DEF SkipInv

LEMMA SkipNext == kind # "fft" /\ IInv /\ SkipInv /\ [Next]_vars => SkipInv'
<1> SUFFICES ASSUME kind # "fft", IInv, SkipInv, [Next]_vars
             PROVE  SkipInv'
  OBVIOUS
<1>1. CASE stop_threads
  BY <1>1, SkipSame DEF stop_threads, thread, talk
<1>2. CASE Client
  BY <1>2, SkipSame DEF Client, SeeQueue, GetBack, SeeData, Ask, GetReply, input, thread
<1>3. CASE Exit
  BY <1>3, SkipSame DEF Exit, input, talk
<1>4. CASE ClearFlag
  BY <1>4, SkipSame DEF ClearFlag, input, talk
<1>5. CASE UNCHANGED vars
  BY <1>5, SkipSame DEF vars, input, thread, talk
<1> QED
  BY <1>1, <1>2, <1>3, <1>4, <1>5, SkipPush, SkipTake, SkipAnswer,
     SkipStartOver, SkipFirst DEF Next, Buffer

(* No thread that trims without aliasing, and whose queue never overflows, *)
(* leaves out a column but for the trim: what is older than the last       *)
(* column handed out is in a reply, or the first reply after it holds a    *)
(* whole history.                                                          *)
THEOREM NothingIsSkipped == Spec => []NothingSkipped
<1> DEFINE SafeInv == kind # "fft" => IInv /\ SkipInv
<1>1. SafeInv /\ [Next]_vars => SafeInv'
  BY NextIInv, SkipNext, KindFixed
<1>2. Init => SafeInv
  BY InitIInv, SkipInit
<1>3. IInv /\ SkipInv => NothingSkipped
  <2> SUFFICES ASSUME IInv, SkipInv, ~lost,
                      NEW j \in DOMAIN answered, NEW n \in 1..pushed,
                      Passes(j, n)
               PROVE  \/ \E i \in 1..j : Holds(i, n)
                      \/ \E i \in 1..j :
                            /\ Passes(i, n)
                            /\ \A h \in 1..(i - 1) : ~Passes(h, n)
                            /\ answered[i][1] > n
                            /\ Len(answered[i]) >= History
    BY DEF NothingSkipped
  <2>1. answered \in Seq(Seq(Nat)) /\ Len(answered) \in Nat
    BY DEF IInv, AnsweredInv
  <2>2. j \in 1..Len(answered) /\ answered[j] \in Seq(Nat)
    BY <2>1
  <2>3. PICK k \in 1..Len(answered[j]) : answered[j][k] > n
    BY <2>2 DEF Passes
  <2>4. answered[j][k] \in Out /\ answered[j][k] \in Nat
    BY <2>2, OutUpTo
  <2>5. /\ queue \in Seq(Nat) /\ pushed \in Nat /\ Len(queue) \in Nat
        /\ Len(queue) <= pushed
        /\ \A i \in 1..Len(queue) : queue[i] = taken + i
    BY DEF IInv, StreamInv, SkipInv
  <2>6. taken \in Nat /\ n \in 1..taken
    <3>1. taken \in Nat
      BY <2>5 DEF taken
    <3>2. CASE n > taken
      <4>1. n - taken \in 1..Len(queue) /\ taken + (n - taken) = n
        BY <2>5, <3>1, <3>2 DEF taken
      <4>2. n \in Cols(queue)
        <5>1. queue[n - taken] = n
          BY <2>5, <4>1
        <5> QED BY <4>1, <5>1 DEF Cols
      <4>3. answered[j][k] < n
        BY <2>4, <4>2 DEF IInv, AnsweredInv, Less
      <4> QED BY <2>3, <2>4, <4>3
    <3> QED BY <3>1, <3>2
  <2>7. CASE InReply(n)
    <3>1. PICK i \in 1..Len(answered) : Holds(i, n)
      BY <2>7 DEF InReply
    <3>2. CASE j < i
      <4>1. answered[i] \in Seq(Nat)
        BY <2>1
      <4>2. n \in Cols(answered[i]) /\ answered[j][k] \in Cols(answered[j])
        BY <3>1, <4>1 DEF Holds, Cols
      <4>3. answered[j][k] < n
        BY <2>2, <3>2, <4>2 DEF IInv, AnsweredInv, Less
      <4> QED BY <2>3, <2>4, <4>3
    <3>3. CASE i <= j
      <4>1. i \in 1..j
        BY <2>1, <2>2, <3>3
      <4> QED BY <3>1, <4>1
    <3> QED BY <2>1, <2>2, <3>2, <3>3
  <2>8. CASE Covered(n)
    <3>1. PICK i \in 1..Len(answered) :
             /\ Passes(i, n) /\ \A h \in 1..(i - 1) : ~Passes(h, n)
             /\ answered[i][1] > n
             /\ Len(answered[i]) >= History
      BY <2>8 DEF Covered
    <3>2. CASE j < i
      <4>1. j \in 1..(i - 1)
        BY <2>1, <2>2, <3>2
      <4> QED BY <3>1, <4>1
    <3>3. CASE i <= j
      <4>1. i \in 1..j
        BY <2>1, <2>2, <3>3
      <4> QED BY <3>1, <4>1
    <3> QED BY <2>1, <2>2, <3>2, <3>3
  <2>9. CASE InHand(n)
    <3>1. CASE n \in Cols(buffer)
      <4>1. answered[j][k] < n
        BY <2>4, <2>9, <3>1 DEF InHand, IInv, AnsweredInv, Less
      <4> QED BY <2>3, <2>4, <4>1
    <3>2. CASE Cut(n)
      BY <2>2, <3>2 DEF Cut
    <3> QED BY <2>9, <3>1, <3>2 DEF InHand
  <2> QED BY <2>6, <2>7, <2>8, <2>9 DEF SkipInv, Settled
<1>4. SafeInv => NothingSkipped
  BY <1>3 DEF NothingSkipped
<1> HIDE DEF SafeInv
<1> QED BY <1>1, <1>2, <1>4, PTL DEF Spec

--------------------------------------------------------------------------
(* Concatenations of sequences.                                            *)

LEMMA SetInduction ==
    ASSUME NEW T \in SUBSET Nat, 0 \in T, \A n \in T : n + 1 \in T
    PROVE  Nat \subseteq T
<1> DEFINE R == OpToRel(<, Nat)
           B == Nat \ T
<1>1. IsWellFoundedOn(R, Nat)
  BY NatLessThanWellFounded
<1>2. ASSUME NEW x \in Nat, NEW y \in Nat, y < x
      PROVE  <<y, x>> \in R
  BY <1>2 DEF OpToRel
<1> HIDE DEF R
<1>3. SUFFICES ASSUME B # {} PROVE FALSE
  OBVIOUS
<1>4. PICK x \in B : \A y \in B : ~(<<y, x>> \in R)
  <2>1. B \subseteq Nat
    OBVIOUS
  <2> HIDE DEF B
  <2>2. QED
    BY <1>1, <1>3, <2>1, WFMin
<1>5. x \in Nat /\ x # 0 /\ x - 1 \in Nat /\ x - 1 < x
  BY <1>4
<1>6. x - 1 \notin B
  BY <1>2, <1>4, <1>5
<1>7. QED
  BY <1>4, <1>5, <1>6

(* g[i] is the concatenation of the first i sequences in s.                *)
Concatenates(g, s, n) ==
    \A i \in 1..n : g[i] = IF i = 1 THEN s[i] ELSE g[i - 1] \o s[i]

LEMMA FlattenIsLast ==
    ASSUME NEW s, NEW n \in Nat \ {0}, Len(s) = n,
           NEW g, Concatenates(g, s, n)
    PROVE  FlattenSeq(s) = g[n]
<1> DEFINE f == CHOOSE f :
                   f = [i \in 1..n |-> IF i = 1 THEN s[i] ELSE f[i - 1] \o s[i]]
           T == {m \in Nat : m + 1 \in 1..n => f[m + 1] = g[m + 1]}
<1>0. \A i \in 1..n : g[i] = IF i = 1 THEN s[i] ELSE g[i - 1] \o s[i]
  BY DEF Concatenates
<1>1. f = [i \in 1..n |-> IF i = 1 THEN s[i] ELSE f[i - 1] \o s[i]]
  <2> DEFINE h == [i \in 1..n |-> g[i]]
  <2>1. \A i \in 1..n : h[i] = IF i = 1 THEN s[i] ELSE h[i - 1] \o s[i]
    <3> TAKE i \in 1..n
    <3>1. h[i] = g[i] /\ (i # 1 => h[i - 1] = g[i - 1])
      OBVIOUS
    <3> HIDE DEF h
    <3>2. QED
      BY <1>0, <3>1
  <2>2. h = [i \in 1..n |-> IF i = 1 THEN s[i] ELSE h[i - 1] \o s[i]]
    BY <2>1
  <2> HIDE DEF h
  <2>3. QED
    BY <2>2
<1>2. FlattenSeq(s) = f[n]
  BY DEF FlattenSeq
<1> HIDE DEF f
<1>3. 0 \in T
  <2>1. f[1] = s[1]
    BY <1>1
  <2>2. g[1] = s[1]
    BY <1>0
  <2>3. QED
    BY <2>1, <2>2
<1>4. ASSUME NEW m \in T
      PROVE  m + 1 \in T
  <2>1. SUFFICES ASSUME (m + 1) + 1 \in 1..n
                 PROVE  f[(m + 1) + 1] = g[(m + 1) + 1]
    OBVIOUS
  <2>2. f[m + 1] = g[m + 1]
    BY <2>1
  <2> DEFINE k == (m + 1) + 1
  <2>3. k \in 1..n /\ k # 1 /\ k - 1 = m + 1
    BY <2>1
  <2> HIDE DEF k
  <2>4. f[k] = f[k - 1] \o s[k] /\ g[k] = g[k - 1] \o s[k]
    BY <1>0, <1>1, <2>3
  <2>5. QED
    BY <2>2, <2>3, <2>4 DEF k
<1>5. n - 1 \in T
  <2>1. Nat \subseteq T
    <3>1. T \in SUBSET Nat
      OBVIOUS
    <3> HIDE DEF T
    <3>2. QED
      BY <1>3, <1>4, <3>1, SetInduction
  <2>2. n - 1 \in Nat
    OBVIOUS
  <2>3. QED
    BY <2>1, <2>2
<1>6. QED
  BY <1>2, <1>5

LEMMA ConcatenationsExist ==
    ASSUME NEW s
    PROVE  \A n \in Nat : \E g : Concatenates(g, s, n)
<1> DEFINE T == {m \in Nat : \E g : Concatenates(g, s, m)}
<1>1. 0 \in T
  BY DEF Concatenates
<1>2. ASSUME NEW m \in T
      PROVE  m + 1 \in T
  <2>1. PICK g : Concatenates(g, s, m)
    OBVIOUS
  <2> DEFINE next == IF m = 0 THEN s[1] ELSE g[m] \o s[m + 1]
             h == [i \in 1..(m + 1) |-> IF i = m + 1 THEN next ELSE g[i]]
  <2>2. m \in Nat
    OBVIOUS
  <2>3. m = 0 => next = s[1]
    OBVIOUS
  <2>4. m # 0 => next = g[m] \o s[m + 1]
    OBVIOUS
  <2> HIDE DEF next
  <2>5. h[m + 1] = next
    BY <2>2
  <2>6. \A i \in 1..m : h[i] = g[i]
    BY <2>2
  <2> HIDE DEF h
  <2>7. ASSUME NEW i \in 1..(m + 1)
        PROVE  h[i] = IF i = 1 THEN s[i] ELSE h[i - 1] \o s[i]
    <3>1. CASE i = m + 1 /\ m = 0
      BY <2>3, <2>5, <3>1
    <3>2. CASE i = m + 1 /\ m # 0
      <4>1. m \in 1..m /\ i - 1 = m /\ i # 1
        BY <2>2, <3>2
      <4>2. h[i] = g[m] \o s[i] /\ h[i - 1] = g[m]
        BY <2>4, <2>5, <2>6, <3>2, <4>1
      <4> QED BY <4>1, <4>2
    <3>3. CASE i \in 1..m
      <4>1. i # 1 => i - 1 \in 1..m
        BY <2>2, <3>3
      <4> QED BY <2>1, <2>6, <3>3, <4>1 DEF Concatenates
    <3> QED BY <2>2, <3>1, <3>2, <3>3
  <2>8. Concatenates(h, s, m + 1)
    BY <2>7 DEF Concatenates
  <2> QED BY <2>2, <2>8
<1>3. Nat \subseteq T
  <2>1. T \in SUBSET Nat
    OBVIOUS
  <2> HIDE DEF T
  <2> QED BY <1>1, <1>2, <2>1, SetInduction
<1> QED BY <1>3

LEMMA FlattenAppend ==
    ASSUME NEW S, NEW s \in Seq(Seq(S)), NEW e \in Seq(S)
    PROVE  FlattenSeq(Append(s, e)) = FlattenSeq(s) \o e
<1> DEFINE t == Append(s, e)
<1>0. PICK n \in Nat : n = Len(s)
  OBVIOUS
<1>1. Len(t) = n + 1 /\ t[n + 1] = e /\ \A i \in 1..n : t[i] = s[i]
  BY <1>0
<1> HIDE DEF t
<1>n. PICK k \in Nat \ {0} : k = n + 1
  BY <1>0
<1>2. PICK g : Concatenates(g, t, k)
  BY ConcatenationsExist
<1>3. FlattenSeq(t) = g[k]
  <2>1. Len(t) = k
    BY <1>1, <1>n
  <2> QED BY <1>2, <2>1, FlattenIsLast
<1>4. CASE n = 0
  <2>1. FlattenSeq(s) = <<>>
    <3>1. Len(s) = 0
      BY <1>0, <1>4
    <3>2. s = <<>>
      BY <3>1
    <3> QED BY <3>1, <3>2 DEF FlattenSeq
  <2>2. g[k] = e
    BY <1>1, <1>2, <1>n, <1>4 DEF Concatenates
  <2>3. <<>> \o e = e
    OBVIOUS
  <2> QED BY <1>3, <2>1, <2>2, <2>3 DEF t
<1>5. CASE n # 0
  <2>1. Concatenates(g, s, n)
    <3> SUFFICES ASSUME NEW i \in 1..n
                 PROVE  g[i] = IF i = 1 THEN s[i] ELSE g[i - 1] \o s[i]
      BY DEF Concatenates
    <3>1. i \in 1..k
      BY <1>n
    <3>2. g[i] = IF i = 1 THEN t[i] ELSE g[i - 1] \o t[i]
      BY <1>2, <3>1 DEF Concatenates
    <3> QED BY <1>1, <3>2
  <2>2. FlattenSeq(s) = g[n]
    <3>1. n \in Nat \ {0} /\ Len(s) = n
      BY <1>0, <1>5
    <3> QED BY <2>1, <3>1, FlattenIsLast
  <2>3. g[k] = g[n] \o e
    <3>1. k \in 1..k /\ k # 1 /\ k - 1 = n /\ t[k] = e
      BY <1>1, <1>n, <1>5
    <3>2. g[k] = g[k - 1] \o t[k]
      BY <1>2, <3>1 DEF Concatenates
    <3> QED BY <3>1, <3>2
  <2> QED BY <1>3, <2>2, <2>3 DEF t
<1> QED BY <1>4, <1>5

LEMMA FlattenEmpty == FlattenSeq(<<>>) = <<>>
<1>1. Len(<<>>) = 0
  BY EmptySeq, Zenon
<1> QED BY <1>1 DEF FlattenSeq

LEMMA FlattenType ==
    ASSUME NEW S, NEW s \in Seq(Seq(S))
    PROVE  FlattenSeq(s) \in Seq(S)
<1>0. PICK n \in Nat : n = Len(s)
  OBVIOUS
<1>1. CASE n = 0
  <2>0. Len(s) = 0
    BY <1>0, <1>1
  <2>1. s = <<>>
    BY <2>0
  <2>2. <<>> \in Seq(S)
    OBVIOUS
  <2> QED BY <2>1, <2>2, FlattenEmpty
<1>2. CASE n # 0
  <2>1. PICK g : Concatenates(g, s, n)
    BY <1>0, ConcatenationsExist
  <2>2. FlattenSeq(s) = g[n]
    <3>1. n \in Nat \ {0} /\ Len(s) = n
      BY <1>0, <1>2
    <3> QED BY <2>1, <3>1, FlattenIsLast
  <2> DEFINE T == {m \in Nat : m + 1 \in 1..n => g[m + 1] \in Seq(S)}
  <2>3. 0 \in T
    BY <1>0, <2>1 DEF Concatenates
  <2>4. ASSUME NEW m \in T
        PROVE  m + 1 \in T
    <3> SUFFICES ASSUME (m + 1) + 1 \in 1..n
                 PROVE  g[(m + 1) + 1] \in Seq(S)
      OBVIOUS
    <3>1. m + 1 \in 1..n /\ g[m + 1] \in Seq(S)
      OBVIOUS
    <3> DEFINE k == (m + 1) + 1
    <3>2. k \in 1..n /\ k # 1 /\ k - 1 = m + 1
      OBVIOUS
    <3> HIDE DEF k
    <3>3. g[k] = g[k - 1] \o s[k]
      BY <2>1, <3>2 DEF Concatenates
    <3>4. s[k] \in Seq(S)
      BY <1>0, <3>2
    <3>5. g[k - 1] \in Seq(S)
      BY <3>1, <3>2
    <3>6. g[k] \in Seq(S)
      BY <3>3, <3>4, <3>5
    <3> QED BY <3>6 DEF k
  <2>5. n - 1 \in T
    <3>1. T \in SUBSET Nat
      OBVIOUS
    <3> HIDE DEF T
    <3>2. Nat \subseteq T
      BY <2>3, <2>4, <3>1, SetInduction
    <3>3. n - 1 \in Nat
      BY <1>0, <1>2
    <3> QED BY <3>2, <3>3
  <2>6. (n - 1) + 1 = n /\ n \in 1..n
    BY <1>0, <1>2
  <2> QED BY <2>2, <2>5, <2>6
<1> QED BY <1>1, <1>2

--------------------------------------------------------------------------
(* The refinement of LossyFifo.                                            *)

(* s is the run of numbers that ends with p.                               *)
Run(s, p) == Len(s) <= p /\ \A i \in 1..Len(s) : s[i] = p - Len(s) + i

HeldInv == ~lost => Run(Held, pushed)

LEMMA RunAppend ==
    ASSUME NEW s \in Seq(Nat), NEW p \in Nat, Run(s, p)
    PROVE  Run(Append(s, p + 1), p + 1) /\ Len(Append(s, p + 1)) = Len(s) + 1
<1> DEFINE t == Append(s, p + 1)
<1>1. /\ Len(t) = Len(s) + 1 /\ t[Len(s) + 1] = p + 1 /\ Len(s) \in Nat
      /\ \A i \in 1..Len(s) : t[i] = s[i]
  OBVIOUS
<1> HIDE DEF t
<1>2. ASSUME NEW i \in 1..Len(t)
      PROVE  t[i] = (p + 1) - Len(t) + i
  <2>1. CASE i \in 1..Len(s)
    <3>1. t[i] = p - Len(s) + i
      BY <1>1, <2>1 DEF Run
    <3> QED BY <1>1, <3>1
  <2>2. CASE i = Len(s) + 1
    BY <1>1, <2>2
  <2> QED BY <1>1, <2>1, <2>2
<1>3. Len(t) <= p + 1
  BY <1>1 DEF Run
<1> QED BY <1>1, <1>2, <1>3 DEF Run, t

LEMMA RunNewest ==
    ASSUME NEW s \in Seq(Nat), NEW p \in Nat, Run(s, p),
           NEW n \in 1..Len(s)
    PROVE  Run(Newest(s, n), p) /\ Len(Newest(s, n)) = n
<1> DEFINE t == Newest(s, n)
<1>1. /\ Len(s) \in Nat /\ Len(t) = n
      /\ \A i \in 1..n : t[i] = s[(Len(s) - n) + i]
  BY DEF Newest
<1> HIDE DEF t
<1>2. ASSUME NEW i \in 1..n
      PROVE  t[i] = p - n + i
  <2>1. (Len(s) - n) + i \in 1..Len(s)
    BY <1>1
  <2>2. t[i] = p - Len(s) + ((Len(s) - n) + i)
    BY <1>1, <2>1 DEF Run
  <2> QED BY <1>1, <2>2
<1>3. n <= p
  BY <1>1 DEF Run
<1> QED BY <1>1, <1>2, <1>3 DEF Run, t

LEMMA RunParts ==
    ASSUME NEW s \in Seq(Nat), NEW t \in Seq(Nat), NEW p \in Nat,
           Run(s \o t, p)
    PROVE  /\ Run(t, p) /\ Len(s) + Len(t) <= p
           /\ s = [i \in 1..Len(s) |-> (p - (Len(s) + Len(t))) + i]
<1> DEFINE u == s \o t
<1>1. /\ Len(u) = Len(s) + Len(t)
      /\ Len(s) \in Nat /\ Len(t) \in Nat
      /\ \A i \in 1..Len(s) : u[i] = s[i]
      /\ \A i \in 1..Len(t) : u[Len(s) + i] = t[i]
  OBVIOUS
<1>2. Run(u, p)
  OBVIOUS
<1> HIDE DEF u
<1>3. \A i \in 1..Len(s) : s[i] = (p - (Len(s) + Len(t))) + i
  <2> TAKE i \in 1..Len(s)
  <2>1. i \in 1..Len(u)
    BY <1>1
  <2>2. s[i] = p - Len(u) + i
    BY <1>1, <1>2, <2>1 DEF Run
  <2> QED BY <1>1, <2>2
<1>4. \A i \in 1..Len(t) : t[i] = p - Len(t) + i
  <2> TAKE i \in 1..Len(t)
  <2>1. Len(s) + i \in 1..Len(u)
    BY <1>1
  <2>2. t[i] = p - Len(u) + (Len(s) + i)
    BY <1>1, <1>2, <2>1 DEF Run
  <2> QED BY <1>1, <2>2
<1>5. Len(s) + Len(t) <= p
  BY <1>1, <1>2 DEF Run
<1>6. s = [i \in 1..Len(s) |-> s[i]]
  OBVIOUS
<1>7. s = [i \in 1..Len(s) |-> (p - (Len(s) + Len(t))) + i]
  BY <1>3, <1>6
<1> QED BY <1>1, <1>4, <1>5, <1>7 DEF Run

LEMMA HeadAndTail ==
    ASSUME NEW s \in Seq(Nat), s # <<>>
    PROVE  <<Head(s)>> \o Tail(s) = s
OBVIOUS

LEMMA EmptyAround ==
    ASSUME NEW s \in Seq(Nat)
    PROVE  <<>> \o s = s /\ s \o <<>> = s
OBVIOUS

LEMMA AppendToSecond ==
    ASSUME NEW s \in Seq(Nat), NEW t \in Seq(Nat), NEW e \in Nat
    PROVE  s \o Append(t, e) = Append(s \o t, e)
OBVIOUS

LEMMA HeldSeq ==
    ASSUME IInv
    PROVE  /\ queue \in Seq(Nat) /\ buffer \in Seq(Nat) /\ Held \in Seq(Nat)
           /\ pushed \in Nat /\ Len(Held) \in Nat
BY DEF IInv, StreamInv, Held

(* A step that neither pushes nor answers and leaves what is held alone.   *)
LEMMA SameHeld ==
    ASSUME HeldInv, Held' = Held, UNCHANGED <<pushed, lost, answered>>
    PROVE  HeldInv' /\ UNCHANGED (Fifo!fifoVars)
<1>1. HeldInv'
  BY DEF HeldInv, Run
<1>2. UNCHANGED (Fifo!fifoVars)
  BY DEF Fifo!fifoVars
<1> QED BY <1>1, <1>2

LEMMA HoldsPush ==
    ASSUME IInv, HeldInv, PushPacket, ~lost'
    PROVE  HeldInv' /\ Fifo!FifoNext
<1>1. /\ ~lost /\ pushed' = pushed + 1 /\ queue' = Append(queue, pushed + 1)
      /\ UNCHANGED <<pc, buffer, answered>>
  BY DEF PushPacket, thread, talk
<1>2. /\ queue \in Seq(Nat) /\ buffer \in Seq(Nat) /\ Held \in Seq(Nat)
      /\ pushed \in Nat /\ Len(Held) \in Nat
  BY HeldSeq
<1>3. pushed + 1 \in Nat
  BY <1>2
<1>4. Held' = Append(Held, pushed + 1)
  BY <1>1, <1>2, <1>3, AppendToSecond DEF Held
<1>5. Run(Held, pushed)
  BY <1>1 DEF HeldInv
<1>6. Run(Held', pushed') /\ Len(Held') = Len(Held) + 1
  BY <1>1, <1>2, <1>4, <1>5, RunAppend
<1>7. HeldInv'
  BY <1>6 DEF HeldInv
<1>8. Len(Held) <= pushed
  BY <1>5 DEF Run
<1>9. Fifo!Offer
  <2>1. pushed' \in Nat /\ pushed <= pushed'
    BY <1>1, <1>2
  <2>2. pushed' - Len(Held') \in (pushed - Len(Held))..(pushed' - 1)
    BY <1>1, <1>2, <1>6, <1>8
  <2>3. FlattenSeq(answered)' = FlattenSeq(answered)
    BY <1>1
  <2> QED BY <2>1, <2>2, <2>3 DEF Fifo!Offer
<1> QED BY <1>7, <1>9 DEF Fifo!FifoNext

LEMMA HoldsTake ==
    ASSUME IInv, HeldInv, Take, kind # "fft", ~lost'
    PROVE  HeldInv' /\ (Fifo!FifoNext \/ UNCHANGED (Fifo!fifoVars))
<1>1. /\ ~lost /\ pc = "top" /\ pc' = "request"
      /\ UNCHANGED <<pushed, lost, answered>>
  BY DEF Take, talk
<1>2. /\ queue \in Seq(Nat) /\ buffer \in Seq(Nat) /\ Held \in Seq(Nat)
      /\ pushed \in Nat /\ Len(Held) \in Nat
  BY HeldSeq
<1>3. Held = buffer \o queue /\ Held' = buffer' \o queue'
  BY <1>1 DEF Held
<1>4. CASE queue = <<>>
  <2>1. Held' = Held
    BY <1>3, <1>4 DEF Take
  <2> QED BY <1>1, <2>1, SameHeld
<1>5. CASE queue # <<>>
  <2>1. buffer' \in Trimmed(Held) /\ queue' = <<>>
    BY <1>3, <1>5 DEF Take
  <2>2. CASE buffer' = Held
    <3>1. Held' = Held
      BY <1>2, <1>3, <2>1, <2>2, EmptyAround
    <3> QED BY <1>1, <3>1, SameHeld
  <2>3. CASE buffer' # Held
    <3>1. Len(Held) > 2 * History /\ buffer' = Newest(Held, History)
      BY <2>1, <2>3 DEF Trimmed
    <3>2. History \in 1..Len(Held)
      BY <1>2, <3>1, HistoryAssumption
    <3>3. Run(Held, pushed)
      BY <1>1 DEF HeldInv
    <3>4. Run(buffer', pushed) /\ Len(buffer') = History
      BY <1>2, <3>1, <3>2, <3>3, RunNewest
    <3>5. buffer' \in Seq(Nat)
      <4>1. Len(Held) - History + 1 \in 1..(Len(Held) + 1)
        BY <1>2, <3>2
      <4> QED BY <1>2, <3>1, <4>1 DEF Newest
    <3>6. Held' = buffer'
      BY <1>3, <2>1, <3>5, EmptyAround
    <3>7. HeldInv'
      BY <1>1, <3>4, <3>6 DEF HeldInv
    <3>8. Fifo!Offer
      <4>1. pushed' \in Nat /\ pushed <= pushed'
        BY <1>1, <1>2
      <4>2. Len(Held') = History /\ Len(Held) <= pushed
        BY <3>3, <3>4, <3>6 DEF Run
      <4>3. pushed' - Len(Held') \in (pushed - Len(Held))..(pushed' - 1)
        BY <1>1, <1>2, <3>2, <4>2
      <4>4. FlattenSeq(answered)' = FlattenSeq(answered)
        BY <1>1
      <4> QED BY <4>1, <4>3, <4>4 DEF Fifo!Offer
    <3> QED BY <3>7, <3>8 DEF Fifo!FifoNext
  <2> QED BY <2>2, <2>3
<1> QED BY <1>4, <1>5

LEMMA HoldsAnswer ==
    ASSUME IInv, HeldInv, Answer, ~lost'
    PROVE  HeldInv' /\ (Fifo!FifoNext \/ UNCHANGED (Fifo!fifoVars))
<1>1. /\ ~lost /\ pc = "request"
      /\ UNCHANGED <<queue, buffer, pushed, lost>>
  BY DEF Answer, input
<1>2. /\ queue \in Seq(Nat) /\ buffer \in Seq(Nat) /\ Held \in Seq(Nat)
      /\ pushed \in Nat /\ Len(Held) \in Nat
  BY HeldSeq
<1>3. Held = buffer \o queue
  BY <1>1 DEF Held
<1>4. CASE ~(requests > 0)
  <2>1. pc' = "top" /\ answered' = answered
    BY <1>4 DEF Answer
  <2>2. Held' = Held
    BY <1>1, <1>3, <2>1 DEF Held
  <2> QED BY <1>1, <2>1, <2>2, SameHeld
<1>5. CASE requests > 0
  <2>1. pc' = "flag" /\ answered' = Append(answered, buffer)
    BY <1>5 DEF Answer
  <2>2. Held' = queue
    BY <1>1, <2>1 DEF Held
  <2>3. Run(buffer \o queue, pushed)
    BY <1>1, <1>3 DEF HeldInv
  <2> DEFINE l == Len(buffer) + Len(queue)
  <2>4. /\ Run(queue, pushed) /\ l <= pushed
        /\ buffer = [i \in 1..Len(buffer) |-> (pushed - l) + i]
    BY <1>2, <2>3, RunParts
  <2>5. Len(Held) = l /\ Len(buffer) \in Nat /\ Len(queue) \in Nat
    BY <1>2, <1>3
  <2>6. HeldInv'
    BY <1>1, <2>2, <2>4 DEF HeldInv
  <2>7. FlattenSeq(answered)' = FlattenSeq(answered) \o buffer
    <3>1. answered \in Seq(Seq(Nat))
      BY DEF IInv, AnsweredInv
    <3>2. FlattenSeq(Append(answered, buffer)) = FlattenSeq(answered) \o buffer
      BY <1>2, <3>1, FlattenAppend
    <3> QED BY <2>1, <3>2
  <2>8. CASE Len(buffer) = 0
    <3>1. buffer = <<>>
      BY <1>2, <2>8
    <3>2. Held' = Held
      BY <1>2, <1>3, <2>2, <3>1, EmptyAround
    <3>3. FlattenSeq(answered) \in Seq(Nat)
      BY FlattenType DEF IInv, AnsweredInv
    <3>4. FlattenSeq(answered)' = FlattenSeq(answered)
      BY <2>7, <3>1, <3>3, EmptyAround
    <3>5. UNCHANGED (Fifo!fifoVars)
      BY <1>1, <3>2, <3>4 DEF Fifo!fifoVars
    <3> QED BY <2>6, <3>5
  <2>9. CASE Len(buffer) # 0
    <3> DEFINE g == pushed - Len(Held)
               h == pushed' - Len(Held')
    <3>1. h = pushed - Len(queue) /\ g = pushed - l
      BY <1>1, <2>2, <2>5
    <3>2. h - g = Len(buffer) /\ h \in (g + 1)..pushed
      BY <1>2, <2>4, <2>5, <2>9, <3>1
    <3>3. buffer = [i \in 1..(h - g) |-> g + i]
      BY <2>4, <3>1, <3>2
    <3>4. Fifo!Deliver
      BY <1>1, <2>7, <3>2, <3>3 DEF Fifo!Deliver
    <3> QED BY <2>6, <3>4 DEF Fifo!FifoNext
  <2> QED BY <2>8, <2>9
<1> QED BY <1>4, <1>5

LEMMA HoldsFirst ==
    ASSUME IInv, SkipInv, HeldInv, FirstPacket, ~lost'
    PROVE  HeldInv' /\ UNCHANGED (Fifo!fifoVars)
<1>1. /\ ~lost /\ pc = "first" /\ pc' \in {"top", "exited", "crashed"}
      /\ UNCHANGED <<pushed, lost, answered>>
  BY DEF FirstPacket, talk
<1>2. queue \in Seq(Nat) /\ buffer \in Seq(Nat)
  BY HeldSeq
<1>3. Held = buffer \o queue /\ Held' = buffer' \o queue'
  BY <1>1 DEF Held
<1>4. CASE keep_alive
  <2>1. queue # <<>> /\ buffer' = <<Head(queue)>> /\ queue' = Tail(queue)
    BY <1>4 DEF FirstPacket
  <2>2. buffer = <<>>
    BY <1>1 DEF SkipInv
  <2>3. Held' = Held
    BY <1>2, <1>3, <2>1, <2>2, HeadAndTail, EmptyAround
  <2> QED BY <1>1, <2>3, SameHeld
<1>5. CASE ~keep_alive
  <2>1. Held' = Held
    BY <1>3, <1>5 DEF FirstPacket
  <2> QED BY <1>1, <2>1, SameHeld
<1> QED BY <1>4, <1>5

LEMMA HoldsStartOver ==
    ASSUME IInv, HeldInv, StartOver, ~lost'
    PROVE  HeldInv' /\ UNCHANGED (Fifo!fifoVars)
<1>1. /\ pc = "empty" /\ pc' = "top"
      /\ UNCHANGED <<pushed, lost, answered>>
  BY DEF StartOver, talk
<1>2. queue \in Seq(Nat)
  BY HeldSeq
<1>3. Held = queue /\ Held' = buffer' \o queue'
  BY <1>1 DEF Held
<1>4. Held' = Held
  <2>1. CASE WaitsForData
    BY <1>2, <1>3, <2>1, HeadAndTail DEF StartOver
  <2>2. CASE ~WaitsForData
    BY <1>2, <1>3, <2>2, EmptyAround DEF StartOver
  <2> QED BY <2>1, <2>2
<1> QED BY <1>1, <1>4, SameHeld

LEMMA HoldsNext ==
    kind # "fft" /\ IInv /\ SkipInv /\ HeldInv /\ [Next]_vars =>
        /\ HeldInv'
        /\ lost' \/ Fifo!FifoNext \/ UNCHANGED (Fifo!fifoVars)
<1> SUFFICES ASSUME kind # "fft", IInv, SkipInv, HeldInv, [Next]_vars, ~lost'
             PROVE  HeldInv' /\ (Fifo!FifoNext \/ UNCHANGED (Fifo!fifoVars))
  BY DEF HeldInv
<1>1. CASE stop_threads
  BY <1>1, SameHeld DEF stop_threads, thread, talk, Held
<1>2. CASE Client
  BY <1>2, SameHeld DEF Client, SeeQueue, GetBack, SeeData, Ask, GetReply, input, thread, Held
<1>3. CASE Exit
  <2>1. Held' = Held
    BY <1>3 DEF Exit, input, Held
  <2> QED BY <1>3, <2>1, SameHeld DEF Exit, input, talk
<1>4. CASE ClearFlag
  <2>1. Held' = Held
    BY <1>4 DEF ClearFlag, input, Held
  <2> QED BY <1>4, <2>1, SameHeld DEF ClearFlag, input, talk
<1>5. CASE UNCHANGED vars
  BY <1>5, SameHeld DEF vars, input, thread, talk, Held
<1>6. CASE PushPacket
  BY <1>6, HoldsPush
<1>7. CASE Take
  BY <1>7, HoldsTake
<1>8. CASE Answer
  BY <1>8, HoldsAnswer
<1>9. CASE FirstPacket
  BY <1>9, HoldsFirst
<1>10. CASE StartOver
  BY <1>10, HoldsStartOver
<1> QED
  BY <1>1, <1>2, <1>3, <1>4, <1>5, <1>6, <1>7, <1>8, <1>9, <1>10
     DEF Next, Buffer

(* Socket thread, buffer thread and application are a FIFO that may drop   *)
(* its oldest columns, as long as the queue between them does not          *)
(* overflow; the FFT thread, which reads freed memory, is left out.        *)
THEOREM BuffersImplementFifo == Spec => ImplementsFifo
<1> DEFINE SafeInv == kind # "fft" => IInv /\ SkipInv /\ HeldInv
           Step == lost' \/ kind = "fft" \/ Fifo!FifoNext
<1>1. Init => SafeInv
  <2> SUFFICES ASSUME Init
               PROVE  HeldInv
    BY InitIInv, SkipInit
  <2>1. pushed = 0 /\ queue = <<>> /\ buffer = <<>>
    BY DEF Init
  <2>2. Held = <<>>
    BY <2>1 DEF Held
  <2>3. Len(Held) = 0
    BY <2>2, EmptySeq, Zenon
  <2> QED BY <2>1, <2>3 DEF HeldInv, Run
<1>2. SafeInv /\ [Next]_vars => SafeInv'
  BY NextIInv, SkipNext, HoldsNext, KindFixed
<1>3. SafeInv /\ [Next]_vars => [Step]_(Fifo!fifoVars)
  BY HoldsNext
<1>4. Init => Fifo!FifoInit
  <2> SUFFICES ASSUME Init
               PROVE  Fifo!FifoInit
    OBVIOUS
  <2>1. pushed = 0 /\ queue = <<>> /\ buffer = <<>> /\ answered = <<>>
    BY DEF Init
  <2>2. Held = <<>>
    BY <2>1 DEF Held
  <2>3. Len(Held) = 0
    BY <2>2, EmptySeq, Zenon
  <2>4. FlattenSeq(answered) = <<>>
    BY <2>1, FlattenEmpty
  <2> QED BY <2>1, <2>3, <2>4 DEF Fifo!FifoInit
<1> HIDE DEF SafeInv
<1>5. Spec => [][Step]_(Fifo!fifoVars)
  BY <1>1, <1>2, <1>3, PTL DEF Spec
<1>6. Spec => Fifo!FifoInit
  BY <1>4 DEF Spec
<1> QED BY <1>5, <1>6 DEF ImplementsFifo

==========================================================================
