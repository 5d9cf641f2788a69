----------------------- MODULE LoggerBlocksProofs ------------------------
(* Theorems about the loggers of LoggerBlocks, for every number of items,  *)
(* stops and rows, every length of the clock and every rollover time.      *)
EXTENDS LoggerBlocks, TLAPS, FiniteSetTheorems

--------------------------------------------------------------------------
(* Sequences and times.                                                    *)

LEMMA AppendElements ==
    ASSUME NEW S, NEW q \in Seq(S), NEW e \in S
    PROVE  /\ Append(q, e) \in Seq(S)
           /\ Len(Append(q, e)) = Len(q) + 1
           /\ Append(q, e)[Len(q) + 1] = e
           /\ \A i \in 1..Len(q) : Append(q, e)[i] = q[i]
OBVIOUS

LEMMA TailElements ==
    ASSUME NEW S, NEW q \in Seq(S), q # <<>>
    PROVE  /\ Tail(q) \in Seq(S)
           /\ Len(q) > 0
           /\ Len(Tail(q)) = Len(q) - 1
           /\ Head(q) = q[1] /\ q[1] \in S
           /\ \A i \in 1..(Len(q) - 1) : Tail(q)[i] = q[i + 1]
OBVIOUS

LEMMA EmptySeq ==
    ASSUME NEW S
    PROVE  <<>> \in Seq(S) /\ Len(<<>>) = 0 /\ DOMAIN <<>> = {}
OBVIOUS

LEMMA SeqDomain ==
    ASSUME NEW S, NEW q \in Seq(S)
    PROVE  /\ DOMAIN q = 1..Len(q) /\ Len(q) \in Nat
           /\ \A i \in 1..Len(q) : q[i] \in S
OBVIOUS

LEMMA DivMod ==
    ASSUME NEW t \in Nat, NEW d \in Nat \ {0}
    PROVE  /\ t \div d \in Nat
           /\ t % d \in 0..(d - 1)
           /\ t = ((t \div d) * d) + (t % d)
OBVIOUS

LEMMA Product ==
    ASSUME NEW x \in Nat, NEW y \in Nat, NEW k \in Nat, x <= y
    PROVE  x * k <= y * k /\ x * k \in Nat
OBVIOUS

(* A file's window ends after the second it is opened in.                  *)
LEMMA WindowEndsLater ==
    ASSUME NEW t \in Nat
    PROVE  /\ rollover_time(t, RolloverMin) \in Nat
           /\ t < rollover_time(t, RolloverMin)
<1> DEFINE r == ChosenRollover(RolloverMin)
           u == tm_now(t)
           q == u \div Minute
           s == u % Minute
           m == tm_min(t) % r
           w == r - m
<1>0. u \in Nat /\ t <= u
  BY DaylightAssumption DEF tm_now
<1>1. r \in Nat \ {0}
  BY RolloverAssumption DEF ChosenRollover, rollover_min_default
<1>2. Minute \in Nat \ {0} /\ Hour \in Nat \ {0}
  BY CalendarAssumption
<1>3. q \in Nat /\ s \in 0..(Minute - 1) /\ u = (q * Minute) + s
  BY <1>0, <1>2, DivMod
<1>4. tm_min(t) \in Nat
  BY <1>2, <1>3, DivMod DEF tm_min
<1>5. m \in 0..(r - 1)
  BY <1>1, <1>4, DivMod
<1>6. w \in Nat /\ 1 <= w
  BY <1>1, <1>5
<1>7. rollover_time(t, RolloverMin)
         = (q * Minute) - (m * Minute) + (r * Minute) - (u - t)
  BY DEF rollover_time, StartOfMinute
<1> HIDE DEF r, u, q, s, m, w
<1>8. (r * Minute) - (m * Minute) = w * Minute
  BY <1>1, <1>2, <1>5 DEF w
<1>9. 1 * Minute <= w * Minute
  BY <1>2, <1>6, Product
<1>10. /\ q * Minute \in Nat /\ w * Minute \in Nat
       /\ m * Minute \in Nat /\ r * Minute \in Nat
  BY <1>1, <1>2, <1>3, <1>5, <1>6
<1>11. rollover_time(t, RolloverMin) = t + ((w * Minute) - s)
  <2> DEFINE qm == q * Minute
             mm == m * Minute
             rm == r * Minute
             wm == w * Minute
  <2>1. qm \in Nat /\ mm \in Nat /\ rm \in Nat /\ wm \in Nat
    BY <1>10
  <2>2. rm - mm = wm /\ u = qm + s
    BY <1>3, <1>8
  <2>3. rollover_time(t, RolloverMin) = qm - mm + rm - (u - t)
    BY <1>7
  <2> HIDE DEF qm, mm, rm, wm
  <2>4. rollover_time(t, RolloverMin) = t + (wm - s)
    BY <1>0, <1>2, <1>3, <2>1, <2>2, <2>3
  <2>5. QED
    BY <2>4 DEF wm
<1>12. QED
  BY <1>2, <1>3, <1>9, <1>10, <1>11

LEMMA Bounds ==
    /\ MaxItems \in Nat /\ MaxTime \in Nat
    /\ MaxStops \in Nat /\ MaxRows \in Nat
    /\ Items \subseteq Nat \ {0} /\ Times \subseteq Nat
    /\ -1 \notin Times
BY BoundsAssumption DEF Items, Times

LEMMA NamesOf ==
    ASSUME NEW t \in Times
    PROVE  fname_str(t) \in Names
BY DEF Names

--------------------------------------------------------------------------
(* Types.                                                                  *)

Entry == [item : Items, file : Times]

(* The threads that test is_open before they take anything have a file.    *)
WritersHaveFile == kind # "aco" /\ pc \in {"get", "write", "rows"} => is_open

(* Log_ACO_Data has a packet.                                              *)
PacketInHand == kind = "aco" /\ pc \in {"file", "write", "skip"} => batch # <<>>

TypeInv == TypeOK /\ WritersHaveFile /\ PacketInHand

LEMMA TypeInit == Init => TypeInv
<1> SUFFICES ASSUME Init PROVE TypeInv
  OBVIOUS
<1>1. <<>> \in Seq(Items) /\ <<>> \in Seq(Entry) /\ Len(<<>>) = 0
  BY EmptySeq
<1>2. 0 \in 0..MaxItems /\ 0 \in 0..MaxStops /\ 0 \in Times /\ 0 <= MaxRows
  BY Bounds DEF Times
<1>3. kind \in Kinds /\ kind \in {"aco", "sensor", "gps", "host"}
  BY KindsAssumption DEF Init
<1>4. Len(queue) <= QueueLength /\ dropped \subseteq Items
  BY <1>1, QueueAssumption DEF Init
<1>5. disk \in [Names -> Seq(Items)] /\ log \in Seq(Entry)
  BY <1>1 DEF Init
<1>6. /\ pc \in {"init", "top"} /\ file_initialized \in BOOLEAN
      /\ kind # "aco" => pc = "top"
  BY DEF Init
<1>7. /\ {queue, batch} \subseteq Seq(Items) /\ pushed \in 0..MaxItems
      /\ latest \in 0..pushed
  BY <1>1, <1>2 DEF Init, None
<1>8. /\ {keep_alive, logging_active, starting, file_initialized, is_open}
            \subseteq BOOLEAN
      /\ openable \in BOOLEAN
  BY <1>6 DEF Init
<1>9. /\ stops \in 0..MaxStops /\ restarts \subseteq Times /\ now \in Times
      /\ Len(log) <= MaxRows /\ ~is_open
      /\ queue = <<>> /\ batch = <<>> /\ fntime = NoFile
  BY <1>1, <1>2 DEF Init
<1>10. WritersHaveFile /\ PacketInHand
  BY <1>6, <1>3 DEF WritersHaveFile, PacketInHand
<1>11. TypeOK
  BY <1>3, <1>4, <1>5, <1>6, <1>7, <1>8, <1>9 DEF TypeOK, Entry
<1>12. QED
  BY <1>10, <1>11 DEF TypeInv

(* A full queue makes room for what comes.                                 *)
LEMMA Enqueued ==
    ASSUME queue \in Seq(Items), Len(queue) <= QueueLength,
           NEW e \in Items, Enqueue(e)
    PROVE  /\ queue' \in Seq(Items) /\ Len(queue') <= QueueLength
           /\ \/ /\ dropped' = dropped
                 /\ Len(queue') = Len(queue) + 1
                 /\ queue'[Len(queue) + 1] = e
                 /\ \A i \in 1..Len(queue) : queue'[i] = queue[i]
              \/ \E lost \in Items :
                    /\ dropped' = dropped \cup {lost}
                    /\ Len(queue') = Len(queue) /\ Len(queue) > 0
                    /\ lost = queue[1] /\ queue'[Len(queue)] = e
                    /\ \A i \in 1..(Len(queue) - 1) :
                          queue'[i] = queue[i + 1]
<1> DEFINE q == Append(queue, e)
           n == Len(queue)
<1>1. /\ q \in Seq(Items) /\ Len(q) = n + 1 /\ q[n + 1] = e
      /\ \A i \in 1..n : q[i] = queue[i]
  BY AppendElements
<1>2. n \in Nat /\ n <= QueueLength /\ QueueLength \in Nat \ {0}
  BY SeqDomain, QueueAssumption
<1>3. \/ Len(q) > QueueLength /\ queue' = Tail(q)
         /\ dropped' = dropped \cup {Head(q)}
      \/ ~(Len(q) > QueueLength) /\ queue' = q /\ dropped' = dropped
  BY DEF Enqueue
<1> HIDE DEF q, n
<1>4. CASE ~(Len(q) > QueueLength) /\ queue' = q /\ dropped' = dropped
  BY <1>1, <1>2, <1>4 DEF n
<1>5. CASE Len(q) > QueueLength /\ queue' = Tail(q)
           /\ dropped' = dropped \cup {Head(q)}
  <2>1. n > 0 /\ n <= QueueLength /\ q # <<>>
    BY <1>1, <1>2, <1>5
  <2>2. /\ Tail(q) \in Seq(Items) /\ Len(Tail(q)) = n
        /\ Head(q) = q[1] /\ q[1] \in Items
        /\ \A i \in 1..n : Tail(q)[i] = q[i + 1]
    BY <1>1, <1>2, <2>1, TailElements
  <2>3. q[1] = queue[1] /\ Tail(q)[n] = e
    BY <1>1, <1>2, <2>1, <2>2
  <2>4. \A i \in 1..(n - 1) : Tail(q)[i] = queue[i + 1]
    BY <1>1, <1>2, <2>2
  <2>5. QED
    BY <1>5, <2>1, <2>2, <2>3, <2>4 DEF n
<1>6. QED
  BY <1>3, <1>4, <1>5

(* Around the thread.                                                      *)
LEMMA TypeAround ==
    ASSUME TypeInv,
           Arrive \/ Tick \/ start_logging \/ StartReset \/ stop_logging
              \/ stop
    PROVE  TypeInv'
<1> USE DEF TypeInv, WritersHaveFile, PacketInHand,
            setup, control, input, taken, file
<1>1. CASE Arrive
  <2>1. pushed + 1 \in 0..MaxItems /\ pushed + 1 \in Items
    BY <1>1, Bounds DEF Arrive, TypeOK, Items
  <2>2. /\ queue' \in Seq(Items) /\ (~Queued => queue' = queue)
        /\ Len(queue') <= QueueLength /\ dropped' \subseteq Items
    <3>1. CASE Queued
      <4>1. Enqueue(pushed + 1) /\ queue \in Seq(Items)
        BY <1>1, <3>1 DEF Arrive, TypeOK
      <4>2. /\ queue' \in Seq(Items) /\ Len(queue') <= QueueLength
            /\ \/ dropped' = dropped
               \/ \E i \in Items : dropped' = dropped \cup {i}
        BY <2>1, <4>1, Enqueued DEF TypeOK
      <4>3. QED
        BY <3>1, <4>2 DEF TypeOK
    <3>2. CASE ~Queued
      BY <1>1, <3>2 DEF Arrive, TypeOK
    <3>3. QED
      BY <3>1, <3>2
  <2>3. latest \in 0..pushed'
    BY <1>1 DEF Arrive, TypeOK
  <2>4. QED
    BY <1>1, <2>1, <2>2, <2>3 DEF Arrive, TypeOK, Queued
<1>2. CASE Tick
  <2>1. now' \in Times
    BY <1>2, Bounds DEF Tick, TypeOK, Times
  <2>2. QED
    BY <1>2, <2>1 DEF Tick, TypeOK, Queued
<1>3. CASE start_logging \/ StartReset
  <2>1. /\ starting' \in BOOLEAN /\ logging_active' \in BOOLEAN
        /\ file_initialized' \in BOOLEAN
    BY <1>3 DEF start_logging, StartReset, TypeOK
  <2>2. restarts' \subseteq Times
    BY <1>3 DEF start_logging, StartReset, TypeOK
  <2>3. UNCHANGED <<setup, keep_alive, stops, now, input, pc, taken, file,
                    log>>
    BY <1>3 DEF start_logging, StartReset
  <2>4. QED
    BY <2>1, <2>2, <2>3 DEF TypeOK, Queued
<1>4. CASE stop_logging
  <2>1. stops' \in 0..MaxStops
    BY <1>4, Bounds DEF stop_logging, TypeOK
  <2>2. QED
    BY <1>4, <2>1 DEF stop_logging, TypeOK, Queued
<1>5. CASE stop
  BY <1>5 DEF stop, TypeOK, Queued
<1>6. QED
  BY <1>1, <1>2, <1>3, <1>4, <1>5

LEMMA TypeFile ==
    ASSUME TypeOK, OpenFile \/ CloseFile
    PROVE  /\ fntime' \in [fname_time : Times, rollover : Nat] \cup {NoFile}
           /\ is_open' => fntime' # NoFile
           /\ is_open' \in BOOLEAN
           /\ disk' \in [Names -> Seq(Items)]
<1>1. CASE OpenFile
  <2>1. now \in Times /\ now \in Nat /\ now # -1
    BY Bounds DEF TypeOK
  <2>2. rollover_time(now, RolloverMin) \in Nat
    BY <2>1, WindowEndsLater
  <2>3. fntime' \in [fname_time : Times, rollover : Nat] /\ fntime' # NoFile
    BY <1>1, <2>1, <2>2 DEF OpenFile, NoFile
  <2>4. <<>> \in Seq(Items)
    BY EmptySeq
  <2>5. QED
    BY <1>1, <2>1, <2>3, <2>4, NamesOf DEF OpenFile, TypeOK
<1>2. CASE CloseFile
  BY <1>2 DEF CloseFile, TypeOK
<1>3. QED
  BY <1>1, <1>2

LEMMA TypeRow ==
    ASSUME TypeOK, is_open, NEW n \in Items, WriteRow(n)
    PROVE  /\ disk' \in [Names -> Seq(Items)]
           /\ log' \in Seq(Entry)
           /\ Len(log') <= Len(log) + 1
<1>1. fntime.fname_time \in Times /\ fname \in Names
  BY NamesOf DEF TypeOK, fname
<1>2. log \in Seq(Entry) /\ disk \in [Names -> Seq(Items)]
  BY DEF TypeOK, Entry
<1>3. CASE n \in Unusable
  BY <1>2, <1>3 DEF WriteRow
<1>4. CASE n \notin Unusable
  <2>1. [item |-> n, file |-> fntime.fname_time] \in Entry
    BY <1>1 DEF Entry
  <2>2. log' = Append(log, [item |-> n, file |-> fntime.fname_time])
    BY <1>4 DEF WriteRow
  <2>3. Append(disk[fname], n) \in Seq(Items)
    BY <1>1, <1>2, AppendElements
  <2>4. log' \in Seq(Entry) /\ Len(log') = Len(log) + 1
    BY <1>2, <2>1, <2>2, AppendElements
  <2>5. disk' \in [Names -> Seq(Items)]
    BY <1>2, <1>4, <2>3 DEF WriteRow
  <2>6. QED
    BY <1>2, <2>4, <2>5
<1>5. QED
  BY <1>3, <1>4

LEMMA TypeAcoustic ==
    ASSUME TypeInv, AcousticBlock
    PROVE  TypeInv'
<1> USE DEF TypeInv, WritersHaveFile, PacketInHand,
            setup, control, input, taken, file
<1>1. kind = "aco" /\ Queued
  BY DEF AcousticBlock, Initialize, BlockLoop, PopAll, LogPacket,
     SkipPacket, RollFile, WritePacket, Queued
<1>2. CASE Initialize
  BY <1>1, <1>2 DEF Initialize, TypeOK, Queued
<1>3. CASE BlockLoop
  <2>1. logging_active' \in BOOLEAN
    BY <1>3 DEF BlockLoop
  <2>2. pc' \in {"get", "exited"} /\ batch = <<>>
    BY <1>3 DEF BlockLoop, TypeOK
  <2>3. UNCHANGED <<setup, keep_alive, starting, stops, restarts, now, input,
                    taken, file_initialized, file, log>>
    BY <1>3 DEF BlockLoop
  <2>4. QED
    BY <1>1, <2>1, <2>2, <2>3 DEF TypeOK, Queued
<1>4. CASE PopAll
  BY <1>1, <1>4, EmptySeq, QueueAssumption DEF PopAll, TypeOK, Queued
<1>5. CASE LogPacket
  BY <1>1, <1>5 DEF LogPacket, TypeOK, Queued
<1>6. CASE SkipPacket
  <2>1. batch' \in Seq(Items)
    BY <1>1, <1>6, TailElements DEF SkipPacket, TypeOK
  <2>2. /\ fntime' \in [fname_time : Times, rollover : Nat] \cup {NoFile}
        /\ is_open' => fntime' # NoFile
        /\ is_open' \in BOOLEAN
        /\ disk' \in [Names -> Seq(Items)]
    BY <1>6, TypeFile DEF SkipPacket, TypeOK
  <2>3. QED
    BY <1>1, <1>6, <2>1, <2>2 DEF SkipPacket, TypeOK, Queued
<1>7. CASE RollFile
  <2>1. /\ fntime' \in [fname_time : Times, rollover : Nat] \cup {NoFile}
        /\ is_open' => fntime' # NoFile
        /\ is_open' \in BOOLEAN
        /\ disk' \in [Names -> Seq(Items)]
    BY <1>7, TypeFile DEF RollFile, TypeOK
  <2>2. file_initialized' \in BOOLEAN
    BY <1>7 DEF RollFile, TypeOK
  <2>3. QED
    BY <1>1, <1>7, <2>1, <2>2 DEF RollFile, TypeOK, Queued
<1>8. CASE WritePacket
  <2>1. batch' \in Seq(Items)
    BY <1>1, <1>8, TailElements DEF WritePacket, TypeOK
  <2>2. disk' \in [Names -> Seq(Items)] /\ log' \in Seq(Entry)
    <3>1. CASE is_open
      <4>1. Head(batch) \in Items
        BY <1>1, <1>8, TailElements DEF WritePacket, TypeOK
      <4>2. QED
        BY <1>8, <3>1, <4>1, TypeRow DEF WritePacket
    <3>2. CASE ~is_open
      BY <1>8, <3>2 DEF WritePacket, TypeOK, Entry
    <3>3. QED
      BY <3>1, <3>2
  <2>3. QED
    BY <1>1, <1>8, <2>1, <2>2 DEF WritePacket, TypeOK, Queued, Entry
<1>9. QED
  BY <1>2, <1>3, <1>4, <1>5, <1>6, <1>7, <1>8 DEF AcousticBlock

LEMMA TypeLoops ==
    ASSUME TypeInv, Top \/ Connect \/ Open \/ Test
    PROVE  TypeInv'
<1> USE DEF TypeInv, WritersHaveFile, PacketInHand,
            setup, control, input, taken, file
<1>1. CASE Top
  BY <1>1 DEF Top, TypeOK, Queued
<1>2. CASE Connect
  BY <1>2 DEF Connect, TypeOK, Queued
<1>3. CASE Open
  BY <1>3, TypeFile DEF Open, TypeOK, Queued
<1>4. CASE Test
  <2>1. CASE Continues
    BY <1>4, <2>1 DEF Test, Continues, TypeOK, Queued
  <2>2. CASE ~Continues
    BY <1>4, <2>2, TypeFile DEF Test, TypeOK, Queued
  <2>3. QED
    BY <2>1, <2>2
<1>5. QED
  BY <1>1, <1>2, <1>3, <1>4

LEMMA TypeSensor ==
    ASSUME TypeInv, SensorBlock
    PROVE  TypeInv'
<1> USE DEF TypeInv, WritersHaveFile, PacketInHand,
            setup, control, input, taken, file
<1>1. CASE PopRecords
  BY <1>1, EmptySeq, QueueAssumption DEF PopRecords, TypeOK, Queued
<1>2. CASE LookAgain
  BY <1>2, EmptySeq DEF LookAgain, TypeOK, Queued
<1>3. CASE WriteRecord
  <2>1. CASE batch = <<>>
    BY <1>3, <2>1 DEF WriteRecord, TypeOK, Queued
  <2>2. CASE batch # <<>>
    <3>1. batch' \in Seq(Items) /\ Head(batch) \in Items
      <4>1. batch \in Seq(Items)
        BY DEF TypeOK
      <4>2. batch' = Tail(batch)
        BY <1>3, <2>2 DEF WriteRecord
      <4>3. QED
        BY <2>2, <4>1, <4>2, TailElements
    <3>2. disk' \in [Names -> Seq(Items)] /\ log' \in Seq(Entry)
      BY <1>3, <2>2, <3>1, TypeRow DEF WriteRecord
    <3>3. QED
      BY <1>3, <2>2, <3>1, <3>2 DEF WriteRecord, TypeOK, Queued, Entry
  <2>3. QED
    BY <2>1, <2>2
<1>4. QED
  BY <1>1, <1>2, <1>3 DEF SensorBlock

LEMMA TypeGps ==
    ASSUME TypeInv, ReadNothing \/ ReadFix
    PROVE  TypeInv'
<1> USE DEF TypeInv, WritersHaveFile, PacketInHand,
            setup, control, input, taken, file
<1>1. CASE ReadNothing
  BY <1>1 DEF ReadNothing, TypeOK, Queued
<1>2. CASE ReadFix
  <2>1. PICK fix \in latest..pushed \ {None} : latest' = fix /\ WriteRow(fix)
    BY <1>2 DEF ReadFix
  <2>2. fix \in Items /\ fix \in 0..pushed
    BY Bounds DEF TypeOK, Items, None
  <2>3. is_open
    BY <1>2 DEF ReadFix, Queued
  <2>4. /\ disk' \in [Names -> Seq(Items)] /\ log' \in Seq(Entry)
        /\ Len(log') <= Len(log) + 1
    BY <2>1, <2>2, <2>3, TypeRow
  <2>5. Len(log') <= MaxRows
    <3>1. Len(log) \in Nat /\ Len(log') \in Nat /\ MaxRows \in Nat
      BY <2>4, Bounds DEF TypeOK
    <3>2. Len(log) < MaxRows
      BY <1>2 DEF ReadFix
    <3>3. QED
      BY <2>4, <3>1, <3>2
  <2>6. QED
    BY <1>2, <2>1, <2>2, <2>4, <2>5 DEF ReadFix, TypeOK, Queued, Entry
<1>3. QED
  BY <1>1, <1>2

LEMMA TypeNext == TypeInv /\ [Next]_vars => TypeInv'
<1> SUFFICES ASSUME TypeInv, [Next]_vars PROVE TypeInv'
  OBVIOUS
<1>1. CASE UNCHANGED vars
  BY <1>1 DEF vars, setup, control, input, taken, file, TypeInv, TypeOK,
     WritersHaveFile, PacketInHand, Queued
<1>2. QED
  BY <1>1, TypeAround, TypeAcoustic, TypeLoops, TypeSensor, TypeGps
  DEF Next, Logger, GpsLogger

(* Every variable keeps its type: among other things, a thread that writes *)
(* without looking has an open file, and nothing stays in hand while a     *)
(* thread does something else.                                             *)
THEOREM LoggerTypes == Spec => []TypeOK
<1>1. TypeInv => TypeOK
  BY DEF TypeInv
<1>2. QED
  BY <1>1, TypeInit, TypeNext, PTL DEF Spec

--------------------------------------------------------------------------
(* Items and rows.                                                         *)

(* The last item that has left the queue, the last that has been dealt     *)
(* with, and in all the loggers the last that may have a row.              *)
Left == pushed - Len(queue)
Done == IF batch = <<>> THEN Left ELSE batch[1] - 1
LastDone == IF Queued THEN Done ELSE latest

(* Items after d and up to c make no row or were dropped.                  *)
Passed(d, c, lost) == \A k \in (d + 1)..c : k \in Unusable \cup lost

InOrder ==
    \A i, j \in DOMAIN log : i < j =>
        \/ log[i].item < log[j].item
        \/ kind = "host" /\ log[i].item = log[j].item

(* What is in hand follows what has been dealt with, and what is in the    *)
(* queue follows that, but for what the queue dropped; rows are of items   *)
(* that have been dealt with.                                              *)
StreamInv ==
    /\ Len(queue) <= pushed
    /\ \A i \in 1..Len(queue) : queue[i] = Left + i
    /\ \A i \in 1..Len(batch) : batch[i] = Done + i
    /\ Done \in Nat /\ Done + Len(batch) <= Left
    /\ Passed(Done + Len(batch), Left, dropped)
    /\ \A i \in 1..Len(log) : log[i].item <= LastDone
    /\ InOrder

NewEntry(n) == [item |-> n, file |-> fntime.fname_time]

(* All a step may do to items and rows.                                    *)
Comes ==
    /\ pushed' = pushed + 1
    /\ IF Queued THEN Enqueue(pushed + 1) ELSE UNCHANGED <<queue, dropped>>
    /\ UNCHANGED <<batch, latest, log>>

Takes ==
    /\ Queued
    /\ batch = <<>> /\ batch' = queue
    /\ queue' = <<>>
    /\ UNCHANGED <<pushed, dropped, latest, log>>

DealsWithOne ==
    /\ Queued
    /\ batch # <<>> /\ batch' = Tail(batch)
    /\ \/ UNCHANGED log
       \/ /\ Head(batch) \notin Unusable
          /\ is_open
          /\ log' = Append(log, NewEntry(Head(batch)))
    /\ UNCHANGED <<queue, pushed, dropped, latest>>

GivesUpBatch ==
    /\ Queued
    /\ batch' = <<>>
    /\ UNCHANGED <<queue, pushed, dropped, latest, log>>

ReadsFix ==
    /\ ~Queued
    /\ is_open
    /\ \E fix \in latest..pushed \ {None} :
          /\ kind = "gps" => fix # latest
          /\ latest' = fix
          /\ log' = log \/ log' = Append(log, NewEntry(fix))
    /\ UNCHANGED <<queue, pushed, dropped, batch>>

LeavesItems == UNCHANGED <<queue, pushed, dropped, batch, latest, log>>

LEMMA EffectOnItems ==
    ASSUME TypeInv, [Next]_vars
    PROVE  /\ \/ Comes \/ Takes \/ DealsWithOne \/ GivesUpBatch
              \/ ReadsFix \/ LeavesItems
           /\ kind' = kind
<1> USE DEF TypeInv, WritersHaveFile, PacketInHand,
            setup, control, input, taken, file
<1>1. CASE Arrive
  BY <1>1 DEF Arrive, Comes
<1>2. CASE Tick \/ start_logging \/ StartReset \/ stop_logging \/ stop
  BY <1>2 DEF Tick, start_logging, StartReset, stop_logging, stop, LeavesItems
<1>3. CASE Initialize \/ BlockLoop \/ LogPacket \/ RollFile
  BY <1>3 DEF Initialize, BlockLoop, LogPacket, RollFile, LeavesItems
<1>4. CASE PopAll \/ PopRecords
  BY <1>4 DEF PopAll, PopRecords, Takes, TypeOK, Queued
<1>5. CASE SkipPacket
  BY <1>5 DEF SkipPacket, DealsWithOne, Queued
<1>6. CASE WritePacket
  BY <1>6 DEF WritePacket, WriteRow, DealsWithOne, NewEntry, Queued
<1>7. CASE Top \/ Connect \/ Open \/ Test \/ ReadNothing
  BY <1>7 DEF Top, Connect, Open, Test, ReadNothing, LeavesItems
<1>8. CASE LookAgain
  BY <1>8 DEF LookAgain, GivesUpBatch, LeavesItems, Queued
<1>9. CASE WriteRecord
  BY <1>9 DEF WriteRecord, WriteRow, DealsWithOne, LeavesItems, NewEntry, Queued
<1>10. CASE ReadFix
  <2>1. ~Queued /\ is_open /\ UNCHANGED <<queue, pushed, dropped, batch, kind>>
    BY <1>10 DEF ReadFix, Queued
  <2>2. PICK fix \in latest..pushed \ {None} :
            (kind = "gps" => fix # latest) /\ latest' = fix /\ WriteRow(fix)
    BY <1>10 DEF ReadFix
  <2>3. log' = log \/ log' = Append(log, NewEntry(fix))
    BY <2>2 DEF WriteRow, NewEntry
  <2>4. QED
    BY <2>1, <2>2, <2>3 DEF ReadsFix
<1>11. CASE UNCHANGED vars
  BY <1>11 DEF vars, LeavesItems
<1>12. QED
  BY <1>1, <1>2, <1>3, <1>4, <1>5, <1>6, <1>7, <1>8, <1>9, <1>10, <1>11
  DEF Next, Logger, AcousticBlock, SensorBlock, GpsLogger

(* A row of a later item, or in the host block of the last one again.      *)
LEMMA RowInOrder ==
    ASSUME log \in Seq(Entry), InOrder, NEW b \in Nat, NEW e \in Entry,
           \A i \in 1..Len(log) : log[i].item <= b,
           log' = Append(log, e), kind' = kind,
           b < e.item \/ (kind = "host" /\ b <= e.item)
    PROVE  InOrder' /\ \A i \in 1..Len(log') : log'[i].item <= e.item
<1>1. /\ DOMAIN log = 1..Len(log) /\ Len(log) \in Nat
      /\ DOMAIN log' = 1..(Len(log) + 1) /\ Len(log') = Len(log) + 1
      /\ log'[Len(log) + 1] = e
      /\ \A i \in 1..Len(log) : log'[i] = log[i] /\ log[i].item \in Nat
  <2>1. /\ DOMAIN log = 1..Len(log) /\ Len(log) \in Nat
        /\ \A i \in 1..Len(log) : log[i].item \in Nat
    <3>1. \A i \in 1..Len(log) : log[i] \in Entry
      BY SeqDomain
    <3>2. QED
      BY <3>1, SeqDomain, Bounds DEF Entry
  <2>2. /\ log' \in Seq(Entry) /\ Len(log') = Len(log) + 1
        /\ log'[Len(log) + 1] = e
        /\ \A i \in 1..Len(log) : log'[i] = log[i]
    BY AppendElements
  <2>3. DOMAIN log' = 1..(Len(log) + 1)
    BY <2>2, SeqDomain
  <2>4. QED
    BY <2>1, <2>2, <2>3
<1>2. e.item \in Nat
  BY Bounds DEF Entry
<1>3. \A i \in 1..(Len(log) + 1) : i \in 1..Len(log) \/ i = Len(log) + 1
  BY <1>1
<1>4. \A i \in 1..Len(log') : log'[i].item <= e.item
  BY <1>1, <1>2, <1>3
<1>5. ASSUME NEW i \in DOMAIN log', NEW j \in DOMAIN log', i < j
      PROVE  \/ log'[i].item < log'[j].item
             \/ kind' = "host" /\ log'[i].item = log'[j].item
  <2>1. i \in 1..Len(log)
    BY <1>1, <1>5
  <2>2. CASE j \in 1..Len(log)
    <3>1. log'[i] = log[i] /\ log'[j] = log[j]
      BY <1>1, <2>1, <2>2
    <3>2. \/ log[i].item < log[j].item
          \/ kind = "host" /\ log[i].item = log[j].item
      BY <1>1, <1>5, <2>1, <2>2 DEF InOrder
    <3>3. QED
      BY <3>1, <3>2
  <2>3. CASE j = Len(log) + 1
    <3>1. log'[j] = e /\ log'[i] = log[i] /\ log[i].item \in Nat
          /\ log[i].item <= b
      BY <1>1, <2>1, <2>3
    <3>2. CASE b < e.item
      BY <1>2, <3>1, <3>2
    <3>3. CASE kind = "host" /\ b <= e.item
      <4>1. log[i].item < e.item \/ log[i].item = e.item
        BY <1>2, <3>1, <3>3
      <4>2. QED
        BY <3>1, <3>3, <4>1
    <3>4. QED
      BY <3>2, <3>3
  <2>4. QED
    BY <1>1, <1>3, <2>2, <2>3
<1>6. QED
  BY <1>4, <1>5 DEF InOrder

LEMMA StreamInit == Init => StreamInv
<1> SUFFICES ASSUME Init PROVE StreamInv
  OBVIOUS
<1>1. Len(<<>>) = 0 /\ DOMAIN <<>> = {}
  OBVIOUS
<1>2. queue = <<>> /\ batch = <<>> /\ pushed = 0 /\ log = <<>>
  BY DEF Init
<1>3. Left = 0 /\ Done = 0
  <2>1. Len(queue) = 0 /\ pushed = 0
    BY <1>1, <1>2
  <2>2. Left = 0
    BY <2>1 DEF Left
  <2>3. batch = <<>>
    BY <1>2
  <2>4. QED
    BY <2>2, <2>3 DEF Done
<1>4. QED
  BY <1>1, <1>2, <1>3 DEF StreamInv, InOrder, Passed

(* What StreamInv speaks of is of its type, and there is no queue but the  *)
(* loggers' with one.                                                      *)
LEMMA StreamTypes ==
    ASSUME TypeInv
    PROVE  /\ queue \in Seq(Items) /\ Len(queue) \in Nat
           /\ batch \in Seq(Items) /\ Len(batch) \in Nat
           /\ pushed \in Nat /\ latest \in Nat /\ latest <= pushed
           /\ log \in Seq(Entry) /\ Len(log) \in Nat
           /\ \A i \in 1..Len(log) : log[i] \in Entry /\ log[i].item \in Nat
           /\ ~Queued => Len(queue) = 0 /\ Len(batch) = 0
           /\ Left \in Int /\ dropped \subseteq Items
<1>1. /\ queue \in Seq(Items) /\ batch \in Seq(Items)
      /\ pushed \in Nat /\ latest \in Nat /\ latest <= pushed
      /\ log \in Seq(Entry)
      /\ ~Queued => queue = <<>> /\ batch = <<>>
  BY Bounds DEF TypeInv, TypeOK, Entry
<1>2. \A i \in 1..Len(log) : log[i] \in Entry /\ log[i].item \in Nat
  <2>1. \A i \in 1..Len(log) : log[i] \in Entry
    BY <1>1, SeqDomain
  <2>2. QED
    BY <2>1, Bounds DEF Entry
<1>3. Len(queue) \in Nat /\ Len(batch) \in Nat /\ Len(log) \in Nat
  BY <1>1, SeqDomain
<1>4. Left \in Int /\ dropped \subseteq Items
  BY <1>1, <1>3 DEF Left, TypeInv, TypeOK
<1>5. QED
  BY <1>1, <1>2, <1>3, <1>4, EmptySeq

LEMMA NoBatch ==
    ASSUME TypeInv
    PROVE  /\ ~Queued => batch = <<>>
           /\ batch = <<>> => Len(batch) = 0 /\ Done = Left
<1>1. ~Queued => batch = <<>>
  BY DEF TypeInv, TypeOK
<1>2. QED
  BY <1>1, EmptySeq DEF Done

LEMMA PassedOn ==
    ASSUME NEW d \in Int, NEW c \in Int, NEW e \in Int,
           NEW lost, NEW lost2, lost \subseteq lost2,
           Passed(d, c, lost), Passed(c, e, lost2)
    PROVE  Passed(d, e, lost2)
<1> SUFFICES ASSUME NEW k \in (d + 1)..e
             PROVE  k \in Unusable \cup lost2
  BY DEF Passed
<1>1. CASE k <= c
  <2>1. k \in (d + 1)..c
    BY <1>1
  <2>2. QED
    BY <2>1 DEF Passed
<1>2. CASE c < k
  <2>1. k \in (c + 1)..e
    BY <1>2
  <2>2. QED
    BY <2>1 DEF Passed
<1>3. QED
  BY <1>1, <1>2

LEMMA AddNothing ==
    ASSUME NEW x \in Int, NEW n, n = 0
    PROVE  x + n = x /\ x - n = x
OBVIOUS

LEMMA NonePassed ==
    ASSUME NEW d \in Int, NEW lost
    PROVE  Passed(d, d, lost)
BY DEF Passed

(* What comes makes a full queue drop the item behind the last to leave.   *)
LEMMA QueueComes ==
    ASSUME TypeInv, TypeInv', StreamInv, Comes, Queued
    PROVE  /\ Len(queue') <= pushed'
           /\ \A i \in 1..Len(queue') : queue'[i] = Left' + i
           /\ Left \in Int /\ Left' \in Int /\ Left <= Left'
           /\ dropped \subseteq dropped'
           /\ Passed(Left, Left', dropped')
<1> USE StreamTypes
<1>1. pushed' = pushed + 1 /\ pushed' \in 0..MaxItems
  BY DEF Comes, TypeInv, TypeOK
<1>2. pushed + 1 \in Items
  BY <1>1, Bounds DEF Items
<1>3. Enqueue(pushed + 1) /\ queue \in Seq(Items) /\ Len(queue) <= QueueLength
  BY DEF Comes, TypeInv, TypeOK
<1>4. /\ Len(queue) <= pushed /\ Left = pushed - Len(queue)
      /\ \A i \in 1..Len(queue) : queue[i] = Left + i
  BY DEF StreamInv, Left
<1>5. Left' = pushed' - Len(queue')
  BY DEF Left
<1>6. CASE /\ dropped' = dropped
           /\ Len(queue') = Len(queue) + 1
           /\ queue'[Len(queue) + 1] = pushed + 1
           /\ \A i \in 1..Len(queue) : queue'[i] = queue[i]
  <2>1. Left' = Left
    BY <1>1, <1>4, <1>5, <1>6
  <2>2. ASSUME NEW i \in 1..Len(queue')
        PROVE  queue'[i] = Left' + i
    <3>1. CASE i \in 1..Len(queue)
      BY <1>4, <1>6, <2>1, <3>1
    <3>2. CASE i = Len(queue) + 1
      BY <1>4, <1>6, <2>1, <3>2
    <3>3. QED
      BY <1>6, <3>1, <3>2
  <2>3. Passed(Left, Left', dropped')
    BY <2>1, NonePassed
  <2>4. QED
    BY <1>1, <1>4, <1>6, <2>1, <2>2, <2>3
<1>7. CASE \E lost \in Items :
              /\ dropped' = dropped \cup {lost}
              /\ Len(queue') = Len(queue) /\ Len(queue) > 0
              /\ lost = queue[1] /\ queue'[Len(queue)] = pushed + 1
              /\ \A i \in 1..(Len(queue) - 1) : queue'[i] = queue[i + 1]
  <2>1. /\ dropped' = dropped \cup {queue[1]}
        /\ Len(queue') = Len(queue) /\ Len(queue) > 0
        /\ queue'[Len(queue)] = pushed + 1
        /\ \A i \in 1..(Len(queue) - 1) : queue'[i] = queue[i + 1]
    BY <1>7
  <2>2. Left' = Left + 1 /\ queue[1] = Left + 1
    BY <1>1, <1>4, <1>5, <2>1
  <2>3. ASSUME NEW i \in 1..Len(queue')
        PROVE  queue'[i] = Left' + i
    <3>1. CASE i \in 1..(Len(queue) - 1)
      <4>1. i + 1 \in 1..Len(queue)
        BY <3>1
      <4>2. queue[i + 1] = Left + (i + 1)
        BY <1>4, <4>1
      <4>3. QED
        BY <2>1, <2>2, <3>1, <4>2
    <3>2. CASE i = Len(queue)
      BY <1>4, <2>1, <2>2, <3>2
    <3>3. QED
      BY <2>1, <3>1, <3>2
  <2>4. Passed(Left, Left', dropped')
    <3>1. \A k \in (Left + 1)..Left' : k = Left + 1
      BY <2>2
    <3>2. Left + 1 \in dropped'
      BY <2>1, <2>2
    <3>3. QED
      BY <3>1, <3>2 DEF Passed
  <2>5. QED
    BY <1>1, <1>4, <2>1, <2>2, <2>3, <2>4
<1>8. QED
  BY <1>2, <1>3, <1>6, <1>7, Enqueued

(* Only what was dropped is passed over when nothing is dealt with.        *)
Advances ==
    /\ Done \in Nat /\ Done' \in Nat /\ Done <= Done'
    /\ dropped \subseteq dropped'
    /\ Passed(Done, Done', dropped')

LEMMA StreamComes ==
    ASSUME TypeInv, TypeInv', StreamInv, Comes, kind' = kind
    PROVE  StreamInv' /\ (Queued => Advances)
<1> USE StreamTypes
<1>1. Queued' = Queued
  BY DEF Queued
<1>2. /\ pushed' = pushed + 1
      /\ UNCHANGED <<batch, latest, log>>
  BY DEF Comes
<1>3. InOrder'
  BY <1>2 DEF StreamInv, InOrder
<1>4. CASE Queued
  <2>1. /\ Len(queue') <= pushed'
        /\ \A i \in 1..Len(queue') : queue'[i] = Left' + i
        /\ Left \in Int /\ Left' \in Int /\ Left <= Left'
        /\ dropped \subseteq dropped'
        /\ Passed(Left, Left', dropped')
    BY <1>4, QueueComes
  <2>2. /\ Done \in Nat /\ Done + Len(batch) <= Left
        /\ Passed(Done + Len(batch), Left, dropped)
        /\ \A i \in 1..Len(log) : log[i].item <= Done
    BY <1>4 DEF StreamInv, LastDone
  <2>3. Passed(Done + Len(batch), Left', dropped')
    BY <2>1, <2>2, PassedOn
  <2>4. LastDone' = Done'
    BY <1>1, <1>4 DEF LastDone
  <2>5. CASE batch = <<>>
    <3>1. Done = Left /\ Done' = Left' /\ Len(batch) = 0
      BY <1>2, <2>5, NoBatch DEF Done
    <3>2. Advances
      BY <2>1, <2>2, <3>1 DEF Advances
    <3>3. Passed(Done' + Len(batch'), Left', dropped')
      BY <1>2, <2>1, <3>1, NonePassed
    <3>4. \A i \in 1..Len(log') : log'[i].item <= Done'
      BY <1>2, <2>1, <2>2, <3>1
    <3>5. \A i \in 1..Len(batch') : batch'[i] = Done' + i
      BY <1>2, <3>1
    <3>6. Done' \in Nat /\ Done' + Len(batch') <= Left'
      <4>1. Len(batch') = 0
        BY <1>2, <3>1
      <4>2. Done' \in Nat /\ Done' \in Int
        BY <2>1, <2>2, <3>1
      <4>3. Done' + Len(batch') = Done'
        BY <4>1, <4>2, AddNothing
      <4>4. QED
        BY <3>1, <4>2, <4>3
    <3>7. QED
      BY <1>3, <2>1, <2>4, <3>2, <3>3, <3>4, <3>5, <3>6 DEF StreamInv
  <2>6. CASE batch # <<>>
    <3>1. Done' = Done
      BY <1>2, <2>6 DEF Done
    <3>2. Advances
      BY <2>1, <2>2, <3>1, NonePassed DEF Advances
    <3>3. Passed(Done' + Len(batch'), Left', dropped')
      BY <1>2, <2>3, <3>1
    <3>4. \A i \in 1..Len(log') : log'[i].item <= Done'
      BY <1>2, <2>2, <3>1
    <3>5. \A i \in 1..Len(batch') : batch'[i] = Done' + i
      BY <1>2, <3>1 DEF StreamInv
    <3>6. Done' \in Nat /\ Done' + Len(batch') <= Left'
      BY <1>2, <2>1, <2>2, <3>1
    <3>7. QED
      BY <1>3, <2>1, <2>4, <3>2, <3>3, <3>4, <3>5, <3>6 DEF StreamInv
  <2>7. QED
    BY <2>5, <2>6
<1>5. CASE ~Queued
  <2>1. UNCHANGED <<queue, dropped>>
    BY <1>5 DEF Comes
  <2>2. LastDone' = LastDone
    BY <1>1, <1>2, <1>5 DEF LastDone
  <2>3. Left' = pushed' /\ Done' = Left' /\ Left' \in Nat
    <3>1. Done' = Left'
      BY <1>2, <1>5, NoBatch DEF Done
    <3>2. Left' = pushed' /\ Left' \in Nat
      BY <1>2, <1>5, <2>1 DEF Left
    <3>3. QED
      BY <3>1, <3>2
  <2>4. Passed(Done' + Len(batch'), Left', dropped')
    BY <1>2, <1>5, <2>3, NonePassed
  <2>5. \A i \in 1..Len(log') : log'[i].item <= LastDone'
    BY <1>2, <2>2 DEF StreamInv
  <2>6. QED
    BY <1>2, <1>3, <1>5, <2>1, <2>3, <2>4, <2>5 DEF StreamInv
<1>6. QED
  BY <1>4, <1>5

LEMMA StreamTakes ==
    ASSUME TypeInv, TypeInv', StreamInv, Takes, kind' = kind
    PROVE  StreamInv' /\ Advances
<1> USE StreamTypes
<1>1. /\ batch = <<>> /\ batch' = queue /\ queue' = <<>>
      /\ UNCHANGED <<pushed, dropped, latest, log>>
      /\ Queued /\ Queued'
  BY DEF Takes, Queued
<1>2. Len(batch) = 0 /\ Len(queue') = 0
  BY <1>1, EmptySeq
<1>3. /\ Left = pushed - Len(queue) /\ Left' = pushed
      /\ Done = Left /\ Done \in Nat
      /\ \A i \in 1..Len(queue) : queue[i] = Left + i
  <2>1. Left' = pushed - Len(queue')
    BY <1>1 DEF Left
  <2>2. pushed \in Int
    OBVIOUS
  <2>3. Left' = pushed
    BY <1>2, <2>1, <2>2, AddNothing
  <2>4. /\ Left = pushed - Len(queue) /\ Done \in Nat
        /\ \A i \in 1..Len(queue) : queue[i] = Left + i
    BY DEF Left, StreamInv
  <2>5. Done = Left
    BY <1>1 DEF Done
  <2>6. QED
    BY <2>3, <2>4, <2>5
<1>4. Done' = Done
  <2>1. CASE queue = <<>>
    BY <1>1, <1>3, <2>1, EmptySeq DEF Done
  <2>2. CASE queue # <<>>
    <3>1. Len(queue) > 0
      BY <2>2, TailElements
    <3>2. queue[1] = Left + 1
      BY <1>3, <3>1
    <3>3. Done' = queue[1] - 1
      BY <1>1, <2>2 DEF Done
    <3>4. QED
      BY <1>3, <3>2, <3>3
  <2>3. QED
    BY <2>1, <2>2
<1>5. LastDone' = LastDone
  BY <1>1, <1>4 DEF LastDone
<1>6. \A i \in 1..Len(batch') : batch'[i] = Done' + i
  BY <1>1, <1>3, <1>4
<1>7. Done' + Len(batch') = Left' /\ Left' \in Int
  BY <1>1, <1>3, <1>4
<1>8. Passed(Done' + Len(batch'), Left', dropped')
  BY <1>7, NonePassed
<1>9. InOrder' /\ \A i \in 1..Len(log') : log'[i].item <= LastDone'
  BY <1>1, <1>5 DEF StreamInv, InOrder
<1>10. Advances
  BY <1>1, <1>3, <1>4, NonePassed DEF Advances
<1>11. QED
  BY <1>1, <1>2, <1>3, <1>4, <1>6, <1>7, <1>8, <1>9, <1>10 DEF StreamInv

(* Dealing with the first of a batch passes it, and what was dropped       *)
(* behind the last of the batch.                                           *)
LEMMA DoneWithOne ==
    ASSUME TypeInv, TypeInv', StreamInv, Queued,
           batch # <<>>, batch' = Tail(batch),
           UNCHANGED <<queue, pushed, dropped>>
    PROVE  /\ Head(batch) = Done + 1 /\ Done \in Nat /\ Done + 1 \in Items
           /\ Done' \in Nat /\ Done + 1 <= Done'
           /\ Passed(Done + 1, Done', dropped)
           /\ Left' = Left /\ Done' + Len(batch') <= Left'
           /\ Passed(Done' + Len(batch'), Left', dropped')
           /\ \A i \in 1..Len(batch') : batch'[i] = Done' + i
<1> USE StreamTypes
<1>1. /\ Len(batch) > 0 /\ Len(batch') = Len(batch) - 1
      /\ Head(batch) = batch[1] /\ batch[1] \in Items
      /\ \A i \in 1..(Len(batch) - 1) : batch'[i] = batch[i + 1]
  BY TailElements
<1>2. /\ Done \in Nat /\ Done + Len(batch) <= Left /\ Left \in Int
      /\ Passed(Done + Len(batch), Left, dropped)
      /\ \A i \in 1..Len(batch) : batch[i] = Done + i
  BY DEF StreamInv
<1>3. batch[1] = Done + 1
  BY <1>1, <1>2
<1>4. Left' = Left
  BY DEF Left
<1>5. CASE Len(batch) = 1
  <2>1. Len(batch') = 0
    BY <1>1, <1>5
  <2>2. Done' = Left
    <3>1. batch' \in Seq(Items)
      BY TailElements
    <3>2. batch' = <<>>
      BY <2>1, <3>1
    <3>3. QED
      BY <1>4, <3>2 DEF Done
  <2>3. Done' + Len(batch') = Left' /\ Left' \in Int
    <3>1. Left' \in Int /\ Done' = Left'
      BY <1>2, <1>4, <2>2
    <3>2. Left' + Len(batch') = Left'
      BY <2>1, <3>1, AddNothing
    <3>3. QED
      BY <3>1, <3>2
  <2>4. Passed(Done' + Len(batch'), Left', dropped')
    BY <2>3, NonePassed
  <2>5. Passed(Done + 1, Done', dropped)
    BY <1>2, <1>5, <2>2
  <2>6. Done' \in Nat /\ Done + 1 <= Done' /\ Done' + Len(batch') <= Left'
    BY <1>2, <1>5, <2>2, <2>3
  <2>7. \A i \in 1..Len(batch') : batch'[i] = Done' + i
    BY <2>1
  <2>8. QED
    BY <1>1, <1>2, <1>3, <1>4, <2>4, <2>5, <2>6, <2>7
<1>6. CASE Len(batch) > 1
  <2>1. 1 \in 1..(Len(batch) - 1) /\ 1 + 1 \in 1..Len(batch)
    BY <1>6
  <2>2. batch'[1] = Done + 2
    BY <1>1, <1>2, <2>1
  <2>3. batch' # <<>>
    <3>1. Len(batch') # 0
      BY <1>1, <1>6
    <3>2. \A q : Len(q) # 0 => q # <<>>
      OBVIOUS
    <3>3. QED
      BY <3>1, <3>2, Zenon
  <2>4. Done' = Done + 1
    BY <1>2, <2>2, <2>3 DEF Done
  <2>5. Done' + Len(batch') = Done + Len(batch)
    BY <1>1, <1>2, <2>4
  <2>6. Passed(Done' + Len(batch'), Left', dropped')
    BY <1>2, <1>4, <2>5
  <2>7. Passed(Done + 1, Done', dropped)
    BY <1>2, <2>4, NonePassed
  <2>8. ASSUME NEW i \in 1..Len(batch')
        PROVE  batch'[i] = Done' + i
    <3>1. i + 1 \in 1..Len(batch) /\ batch'[i] = batch[i + 1]
      BY <1>1
    <3>2. batch[i + 1] = Done + (i + 1)
      BY <1>2, <3>1
    <3>3. QED
      BY <1>2, <2>4, <3>1, <3>2
  <2>9. QED
    BY <1>1, <1>2, <1>3, <1>4, <2>4, <2>5, <2>6, <2>7, <2>8
<1>7. QED
  BY <1>1, <1>5, <1>6

LEMMA StreamDealsWithOne ==
    ASSUME TypeInv, TypeInv', StreamInv, DealsWithOne, kind' = kind
    PROVE  StreamInv'
<1> USE StreamTypes
<1>1. /\ batch # <<>> /\ batch' = Tail(batch)
      /\ UNCHANGED <<queue, pushed, dropped, latest>>
      /\ Queued /\ Queued'
  BY DEF DealsWithOne, Queued
<1>2. /\ Head(batch) = Done + 1 /\ Done \in Nat /\ Done + 1 \in Items
      /\ Done' \in Nat /\ Done + 1 <= Done'
      /\ Left' = Left /\ Done' + Len(batch') <= Left'
      /\ Passed(Done' + Len(batch'), Left', dropped')
      /\ \A i \in 1..Len(batch') : batch'[i] = Done' + i
  BY <1>1, DoneWithOne
<1>3. LastDone = Done /\ LastDone' = Done'
  BY <1>1 DEF LastDone
<1>4. /\ InOrder /\ \A i \in 1..Len(log) : log[i].item <= Done
      /\ Len(queue) <= pushed
      /\ \A i \in 1..Len(queue) : queue[i] = Left + i
  BY <1>3 DEF StreamInv
<1>5. InOrder' /\ \A i \in 1..Len(log') : log'[i].item <= LastDone'
  <2>1. CASE log' = log
    <3>1. InOrder'
      BY <1>4, <2>1 DEF InOrder
    <3>2. \A i \in 1..Len(log) : log[i].item <= Done'
      BY <1>2, <1>4
    <3>3. QED
      BY <1>3, <2>1, <3>1, <3>2
  <2>2. CASE is_open /\ log' = Append(log, NewEntry(Head(batch)))
    <3> DEFINE e == NewEntry(Head(batch))
    <3>1. e \in Entry /\ e.item = Done + 1 /\ log' = Append(log, e)
      BY <1>2, <2>2 DEF NewEntry, Entry, TypeInv, TypeOK
    <3> HIDE DEF e
    <3>2. Done < e.item
      BY <1>2, <3>1
    <3>3. InOrder' /\ \A i \in 1..Len(log') : log'[i].item <= e.item
      BY <1>2, <1>4, <3>1, <3>2, RowInOrder
    <3>4. log' \in Seq(Entry)
      BY <3>1
    <3>5. \A i \in 1..Len(log') : log'[i].item \in Nat
      <4> TAKE i \in 1..Len(log')
      <4>1. log'[i] \in Entry
        BY <3>4, SeqDomain
      <4>2. QED
        BY <4>1, Bounds DEF Entry
    <3>6. ASSUME NEW i \in 1..Len(log')
          PROVE  log'[i].item <= LastDone'
      <4>1. log'[i].item \in Nat /\ log'[i].item <= Done + 1
        BY <3>1, <3>3, <3>5
      <4>2. QED
        BY <1>2, <1>3, <4>1
    <3>7. QED
      BY <3>3, <3>6
  <2>3. QED
    BY <2>1, <2>2 DEF DealsWithOne
<1>6. QED
  BY <1>1, <1>2, <1>4, <1>5 DEF StreamInv

LEMMA StreamGivesUpBatch ==
    ASSUME TypeInv, TypeInv', StreamInv, GivesUpBatch, kind' = kind
    PROVE  StreamInv'
<1> USE StreamTypes
<1>1. batch' = <<>> /\ UNCHANGED <<queue, pushed, dropped, latest, log>>
      /\ Queued /\ Queued'
  BY DEF GivesUpBatch, Queued
<1>2. Len(batch') = 0
  BY <1>1, EmptySeq
<1>3. Left' = Left
  BY <1>1 DEF Left
<1>4. Done' = Left
  BY <1>1, <1>3 DEF Done
<1>5. /\ Done \in Nat /\ Done + Len(batch) <= Left
      /\ \A i \in 1..Len(log) : log[i].item <= Done
      /\ Len(queue) <= pushed
      /\ \A i \in 1..Len(queue) : queue[i] = Left + i
  BY <1>1 DEF StreamInv, LastDone
<1>6. Done' \in Nat /\ Done <= Done' /\ Done' + Len(batch') = Left'
  BY <1>2, <1>3, <1>4, <1>5
<1>7. InOrder'
  BY <1>1 DEF StreamInv, InOrder
<1>8. \A i \in 1..Len(log') : log'[i].item <= LastDone'
  <2>1. LastDone' = Done'
    BY <1>1 DEF LastDone
  <2>2. QED
    BY <1>1, <1>5, <1>6, <2>1
<1>9. Passed(Done' + Len(batch'), Left', dropped')
  BY <1>3, <1>6, NonePassed
<1>10. /\ \A i \in 1..Len(batch') : batch'[i] = Done' + i
       /\ \A i \in 1..Len(queue') : queue'[i] = Left' + i
       /\ Len(queue') <= pushed'
  BY <1>1, <1>2, <1>3, <1>5
<1>11. Done' + Len(batch') <= Left'
  BY <1>3, <1>6
<1>12. QED
  BY <1>6, <1>7, <1>8, <1>9, <1>10, <1>11 DEF StreamInv

LEMMA StreamReadsFix ==
    ASSUME TypeInv, TypeInv', StreamInv, ReadsFix, kind' = kind
    PROVE  StreamInv'
<1> USE StreamTypes
<1>1. /\ ~Queued /\ ~Queued' /\ is_open
      /\ UNCHANGED <<queue, pushed, dropped, batch>>
  BY DEF ReadsFix, Queued
<1>2. PICK fix \in latest..pushed \ {None} :
          /\ kind = "gps" => fix # latest
          /\ latest' = fix
          /\ log' = log \/ log' = Append(log, NewEntry(fix))
  BY DEF ReadsFix
<1>3. /\ fix \in Nat /\ latest <= fix /\ fix \in Items
      /\ LastDone = latest /\ LastDone' = fix
  <2>1. fix \in Nat /\ latest <= fix /\ fix <= pushed /\ fix # 0
    BY DEF None
  <2>2. fix \in Items
    BY <2>1, Bounds DEF Items, TypeInv, TypeOK
  <2>3. QED
    BY <1>1, <1>2, <2>1, <2>2 DEF LastDone
<1>4. InOrder' /\ \A i \in 1..Len(log') : log'[i].item <= LastDone'
  <2>1. \A i \in 1..Len(log) : log[i].item <= latest
    BY <1>3 DEF StreamInv
  <2>2. CASE log' = log
    BY <1>3, <2>1, <2>2 DEF StreamInv, InOrder
  <2>3. CASE log' = Append(log, NewEntry(fix))
    <3>1. NewEntry(fix) \in Entry /\ NewEntry(fix).item = fix
      BY <1>1, <1>3 DEF NewEntry, Entry, TypeInv, TypeOK
    <3>2. kind = "gps" \/ kind = "host"
      BY <1>1, KindsAssumption DEF Queued, TypeInv, TypeOK
    <3>3. latest < fix \/ (kind = "host" /\ latest <= fix)
      BY <1>2, <1>3, <3>2
    <3>4. InOrder
      BY DEF StreamInv
    <3>5. QED
      <4> DEFINE e == NewEntry(fix)
      <4>1. e \in Entry /\ e.item = fix /\ log' = Append(log, e)
        BY <2>3, <3>1
      <4> HIDE DEF e
      <4>2. latest < e.item \/ (kind = "host" /\ latest <= e.item)
        BY <3>3, <4>1
      <4>3. QED
        BY <1>3, <2>1, <3>4, <4>1, <4>2, RowInOrder
  <2>4. QED
    BY <1>2, <2>2, <2>3
<1>5. Len(queue') = 0 /\ Len(batch') = 0 /\ pushed' \in Nat
  BY <1>1
<1>6. Left' = pushed' /\ Done' = Left'
  <2>1. Left' = pushed' - Len(queue') /\ pushed' \in Int
    BY <1>5 DEF Left
  <2>2. Left' = pushed'
    BY <1>5, <2>1, AddNothing
  <2>3. batch' = <<>>
    BY <1>1, NoBatch
  <2>4. QED
    BY <2>2, <2>3 DEF Done
<1>7. Passed(Done' + Len(batch'), Left', dropped')
  BY <1>5, <1>6, NonePassed
<1>8. /\ Done' \in Nat /\ Done' + Len(batch') <= Left'
      /\ Len(queue') <= pushed'
  <2>1. Done' = pushed' /\ Left' = pushed' /\ pushed' \in Int
    BY <1>5, <1>6
  <2>2. Done' + Len(batch') = Left'
    <3>1. Done' \in Int
      BY <2>1
    <3>2. Done' + Len(batch') = Done'
      BY <1>5, <3>1, AddNothing
    <3>3. QED
      BY <1>6, <3>2
  <2>3. Done' + Len(batch') <= Left'
    BY <2>1, <2>2
  <2>4. Len(queue') <= pushed' /\ Done' \in Nat
    BY <1>5, <2>1
  <2>5. QED
    BY <2>3, <2>4
<1>9. /\ \A i \in 1..Len(queue') : queue'[i] = Left' + i
      /\ \A i \in 1..Len(batch') : batch'[i] = Done' + i
  BY <1>5
<1>10. QED
  BY <1>4, <1>7, <1>8, <1>9 DEF StreamInv

LEMMA StreamNext == TypeInv /\ StreamInv /\ [Next]_vars => StreamInv'
<1> SUFFICES ASSUME TypeInv, StreamInv, [Next]_vars PROVE StreamInv'
  OBVIOUS
<1>1. TypeInv'
  BY TypeNext
<1>2. CASE LeavesItems /\ kind' = kind
  BY <1>2 DEF LeavesItems, StreamInv, InOrder, Left, Done, LastDone, Queued
<1>3. QED
  BY <1>1, <1>2, EffectOnItems, StreamComes, StreamTakes,
     StreamDealsWithOne, StreamGivesUpBatch, StreamReadsFix

(* The loggers write each item once and in order, but for the fixes the    *)
(* host block writes as often as gpsd reports them.                        *)
THEOREM RowsAreInOrder == Spec => []InOrder
<1>1. StreamInv => InOrder
  BY DEF StreamInv
<1>2. QED
  BY <1>1, TypeInit, TypeNext, StreamInit, StreamNext, PTL DEF Spec

--------------------------------------------------------------------------
(* The files of LoggerBlock.                                               *)

(* Missing, with the items that were dropped named.                        *)
Skips(m, n, lost) == \E k \in (m + 1)..(n - 1) : k \notin Unusable \cup lost

LEMMA SkipsNoMore ==
    ASSUME NEW m \in Nat, NEW d \in Int, NEW c \in Int,
           NEW lost, NEW lost2, lost \subseteq lost2,
           ~Skips(m, d + 1, lost), Passed(d, c, lost2)
    PROVE  ~Skips(m, c + 1, lost2)
<1> SUFFICES ASSUME NEW k \in (m + 1)..((c + 1) - 1)
             PROVE  k \in Unusable \cup lost2
  BY DEF Skips
<1>1. CASE k <= d
  <2>1. k \in (m + 1)..((d + 1) - 1)
    BY <1>1
  <2>2. QED
    BY <2>1 DEF Skips
<1>2. CASE d < k
  <2>1. k \in (d + 1)..c
    BY <1>2
  <2>2. QED
    BY <2>1 DEF Passed
<1>3. QED
  BY <1>1, <1>2

LEMMA NothingBetween ==
    ASSUME NEW n \in Nat, NEW lost
    PROVE  ~Skips(n, n + 1, lost)
BY DEF Skips

LEMMA LastRow ==
    ASSUME NEW s \in Seq(Items), Len(s) > 0
    PROVE  s[Len(s)] \in Nat
<1>1. Len(s) \in 1..Len(s)
  OBVIOUS
<1>2. QED
  BY <1>1, SeqDomain, Bounds

NoGap(s, lost) == \A i \in 1..(Len(s) - 1) : ~Skips(s[i], s[i + 1], lost)

(* Nothing is missing behind the last row of a file.                       *)
UpToDate(s, d, lost) == Len(s) > 0 => ~Skips(s[Len(s)], d + 1, lost)

(* The packet in hand goes to the file that is open.                       *)
Continued == is_open /\ (file_initialized \/ pc = "write")

FileInv ==
    kind = "aco" =>
        /\ \A name \in Names : NoGap(disk[name], dropped)
        /\ Continued => UpToDate(disk[fname], Done, dropped)

LEMMA EmptyFile ==
    ASSUME NEW d, NEW lost
    PROVE  NoGap(<<>>, lost) /\ UpToDate(<<>>, d, lost)
<1>1. Len(<<>>) = 0
  OBVIOUS
<1>2. QED
  BY <1>1 DEF NoGap, UpToDate

LEMMA FileInit == Init => FileInv
BY EmptyFile DEF Init, FileInv, Continued

LEMMA NoGapStill ==
    ASSUME NEW s, NEW lost, NEW lost2, lost \subseteq lost2, NoGap(s, lost)
    PROVE  NoGap(s, lost2)
BY DEF NoGap, Skips

LEMMA UpToDateStill ==
    ASSUME NEW s \in Seq(Items), NEW d \in Int, NEW c \in Int,
           NEW lost, NEW lost2, lost \subseteq lost2,
           UpToDate(s, d, lost), Passed(d, c, lost2)
    PROVE  UpToDate(s, c, lost2)
<1> SUFFICES ASSUME Len(s) > 0
             PROVE  ~Skips(s[Len(s)], c + 1, lost2)
  BY DEF UpToDate
<1>1. s[Len(s)] \in Nat /\ ~Skips(s[Len(s)], d + 1, lost)
  BY LastRow DEF UpToDate
<1>2. QED
  BY <1>1, SkipsNoMore

LEMMA AppendNoGap ==
    ASSUME NEW s \in Seq(Items), NEW d \in Nat, NEW lost,
           NoGap(s, lost), UpToDate(s, d, lost), d + 1 \in Items
    PROVE  NoGap(Append(s, d + 1), lost) /\ UpToDate(Append(s, d + 1), d + 1, lost)
<1> DEFINE r == Append(s, d + 1)
<1>1. /\ Len(r) = Len(s) + 1 /\ r[Len(s) + 1] = d + 1 /\ Len(s) \in Nat
      /\ \A i \in 1..Len(s) : r[i] = s[i]
  BY AppendElements, SeqDomain
<1> HIDE DEF r
<1>2. ASSUME NEW i \in 1..(Len(r) - 1)
      PROVE  ~Skips(r[i], r[i + 1], lost)
  <2>1. i \in 1..Len(s) /\ r[i] = s[i]
    BY <1>1
  <2>2. CASE i = Len(s)
    <3>1. r[i + 1] = d + 1 /\ Len(s) > 0
      BY <1>1, <2>1, <2>2
    <3>2. QED
      BY <2>1, <2>2, <3>1 DEF UpToDate
  <2>3. CASE i < Len(s)
    <3>1. i + 1 \in 1..Len(s) /\ i \in 1..(Len(s) - 1)
      BY <1>1, <2>1, <2>3
    <3>2. r[i + 1] = s[i + 1]
      BY <1>1, <3>1
    <3>3. QED
      BY <2>1, <3>1, <3>2 DEF NoGap
  <2>4. QED
    BY <1>1, <2>1, <2>2, <2>3
<1>3. NoGap(r, lost)
  BY <1>2 DEF NoGap
<1>4. UpToDate(r, d + 1, lost)
  <2>1. d + 1 \in Nat
    OBVIOUS
  <2>2. r[Len(r)] = d + 1
    BY <1>1
  <2>3. QED
    BY <2>1, <2>2, NothingBetween DEF UpToDate
<1>5. QED
  BY <1>3, <1>4 DEF r

(* A step that leaves the files alone and deals with nothing.              *)
LEMMA FileUntouched ==
    ASSUME TypeInv, FileInv, kind' = kind, UNCHANGED <<disk, fntime>>,
           dropped \subseteq dropped',
           kind = "aco" => (Continued' => Continued /\ Advances)
    PROVE  FileInv'
<1>1. CASE kind # "aco"
  BY <1>1 DEF FileInv
<1>2. CASE kind = "aco"
  <2>1. \A name \in Names : NoGap(disk'[name], dropped')
    BY <1>2, NoGapStill DEF FileInv
  <2>2. fname' = fname
    BY DEF fname
  <2>3. ASSUME Continued'
        PROVE  UpToDate(disk'[fname], Done', dropped')
    <3>1. Continued /\ Advances /\ UpToDate(disk[fname], Done, dropped)
      BY <1>2, <2>3 DEF FileInv
    <3>2. fntime.fname_time \in Times
      BY <3>1 DEF Continued, TypeInv, TypeOK
    <3>3. disk[fname] \in Seq(Items)
      BY <3>2, NamesOf DEF fname, TypeInv, TypeOK
    <3>4. Done \in Int /\ Done' \in Int /\ Passed(Done, Done', dropped')
      BY <3>1 DEF Advances
    <3>5. UpToDate(disk[fname], Done', dropped')
      BY <3>1, <3>3, <3>4, UpToDateStill
    <3>6. QED
      BY <3>5
  <2>4. QED
    BY <2>1, <2>2, <2>3 DEF FileInv
<1>3. QED
  BY <1>1, <1>2

(* A step that leaves the items alone.                                     *)
LEMMA SameDone ==
    ASSUME TypeInv, StreamInv, UNCHANGED <<queue, pushed, dropped, batch>>
    PROVE  Done' = Done /\ Advances
<1>1. Done' = Done
  BY DEF Done, Left
<1>2. Done \in Nat
  BY DEF StreamInv
<1>3. QED
  BY <1>1, <1>2, NonePassed DEF Advances

LEMMA FileRoll ==
    ASSUME TypeInv, TypeInv', StreamInv, FileInv, RollFile
    PROVE  FileInv'
<1> USE DEF setup, control, input, taken, file
<1>1. Done' = Done /\ kind' = kind /\ dropped' = dropped /\ Advances
  BY SameDone DEF RollFile
<1>2. CASE ~NeedsFile
  <2>1. Continued /\ UNCHANGED <<disk, fntime>>
    BY <1>2 DEF RollFile, Continued, NeedsFile
  <2>2. QED
    BY <1>1, <2>1, FileUntouched
<1>3. CASE OpenFile
  <2>1. now \in Times /\ fntime'.fname_time = now /\ fname' = fname_str(now)
    BY <1>3 DEF OpenFile, fname, TypeInv, TypeOK
  <2>2. CASE is_open' /\ disk' = [disk EXCEPT ![fname_str(now)] = <<>>]
    <3>0. fname_str(now) \in Names
      BY <2>1, NamesOf
    <3>1. /\ disk'[fname_str(now)] = <<>>
          /\ \A name \in Names \ {fname_str(now)} : disk'[name] = disk[name]
      BY <2>2, <3>0 DEF TypeInv, TypeOK
    <3>2. \A name \in Names : NoGap(disk'[name], dropped)
      BY <3>1, EmptyFile DEF FileInv, RollFile
    <3>3. UpToDate(disk'[fname'], Done', dropped')
      BY <2>1, <3>1, EmptyFile
    <3>4. QED
      BY <1>1, <3>2, <3>3 DEF FileInv
  <2>3. CASE ~is_open' /\ disk' = disk
    BY <1>1, <2>3 DEF FileInv, Continued
  <2>4. QED
    BY <1>3, <2>2, <2>3 DEF OpenFile
<1>4. QED
  BY <1>2, <1>3 DEF RollFile

LEMMA FileWrite ==
    ASSUME TypeInv, TypeInv', StreamInv, FileInv, WritePacket
    PROVE  FileInv'
<1> USE DEF setup, control, input, taken, file
<1>1. /\ kind = "aco" /\ kind' = kind /\ pc = "write" /\ Queued
      /\ UNCHANGED <<queue, pushed, dropped, is_open, fntime>>
      /\ batch # <<>> /\ batch' = Tail(batch)
  BY DEF WritePacket, TypeInv, PacketInHand, Queued
<1>2. /\ Head(batch) = Done + 1 /\ Done \in Nat /\ Done + 1 \in Items
      /\ Done' \in Nat /\ Passed(Done + 1, Done', dropped)
  BY <1>1, DoneWithOne
<1>3. fname' = fname
  BY <1>1 DEF fname
<1>4. CASE ~is_open
  <2>1. ~Continued' /\ disk' = disk
    BY <1>1, <1>4 DEF Continued, WritePacket
  <2>2. QED
    BY <1>1, <2>1 DEF FileInv
<1>5. CASE is_open
  <2> DEFINE s == disk[fname]
             r == disk'[fname]
  <2>1. /\ fname \in Names /\ s \in Seq(Items) /\ r \in Seq(Items)
        /\ NoGap(s, dropped) /\ UpToDate(s, Done, dropped)
    <3>1. fntime.fname_time \in Times
      BY <1>5 DEF TypeInv, TypeOK
    <3>2. fname \in Names
      BY <3>1, NamesOf DEF fname
    <3>3. s \in Seq(Items) /\ r \in Seq(Items)
      BY <3>2 DEF TypeInv, TypeOK
    <3>4. NoGap(s, dropped) /\ UpToDate(s, Done, dropped)
      BY <1>1, <1>5, <3>2 DEF FileInv, Continued
    <3>5. QED
      BY <3>2, <3>3, <3>4
  <2>2. /\ NoGap(r, dropped) /\ UpToDate(r, Done + 1, dropped)
        /\ \A name \in Names \ {fname} : disk'[name] = disk[name]
    <3>1. CASE Done + 1 \in Unusable
      <4>1. disk' = disk
        BY <1>2, <1>5, <3>1 DEF WritePacket, WriteRow
      <4>2. Passed(Done, Done + 1, dropped)
        BY <1>2, <3>1 DEF Passed
      <4> HIDE DEF s
      <4>3. UpToDate(s, Done + 1, dropped)
        BY <1>2, <2>1, <4>2, UpToDateStill
      <4> USE DEF s
      <4>4. QED
        BY <2>1, <4>1, <4>3
    <3>2. CASE Done + 1 \notin Unusable
      <4>1. disk' = [disk EXCEPT ![fname] = Append(@, Done + 1)]
        BY <1>2, <1>5, <3>2 DEF WritePacket, WriteRow
      <4>2. /\ r = Append(s, Done + 1)
            /\ \A name \in Names \ {fname} : disk'[name] = disk[name]
        BY <2>1, <4>1 DEF TypeInv, TypeOK
      <4> HIDE DEF s
      <4>3. /\ NoGap(Append(s, Done + 1), dropped)
            /\ UpToDate(Append(s, Done + 1), Done + 1, dropped)
        BY <1>2, <2>1, AppendNoGap
      <4>4. QED
        BY <4>2, <4>3
    <3>3. QED
      BY <3>1, <3>2
  <2>3. UpToDate(r, Done', dropped)
    <3> HIDE DEF r
    <3>1. Done + 1 \in Int /\ Done' \in Int
      BY <1>2
    <3>2. QED
      BY <1>2, <2>1, <2>2, <3>1, UpToDateStill
  <2>4. \A name \in Names : NoGap(disk'[name], dropped)
    BY <1>1, <2>2 DEF FileInv
  <2>5. QED
    BY <1>1, <1>3, <2>3, <2>4 DEF FileInv
<1>6. QED
  BY <1>4, <1>5

LEMMA FileNext ==
    TypeInv /\ StreamInv /\ FileInv /\ [Next]_vars => FileInv'
<1> SUFFICES ASSUME TypeInv, StreamInv, FileInv, [Next]_vars PROVE FileInv'
  OBVIOUS
<1> USE DEF setup, control, input, taken, file
<1>1. TypeInv' /\ kind' = kind
  BY TypeNext, EffectOnItems
<1>2. CASE kind # "aco"
  BY <1>1, <1>2 DEF FileInv
<1>3. CASE Arrive /\ kind = "aco"
  <2>1. /\ UNCHANGED <<disk, fntime>> /\ (Continued' => Continued)
        /\ Comes /\ Queued
    BY <1>3 DEF Arrive, Continued, Comes, Queued
  <2>2. Advances /\ dropped \subseteq dropped'
    BY <1>1, <2>1, StreamComes DEF Advances
  <2>3. QED
    BY <1>1, <2>1, <2>2, FileUntouched
<1>4. CASE Tick \/ start_logging \/ StartReset \/ stop_logging \/ stop
  <2>1. /\ UNCHANGED <<disk, fntime, queue, pushed, dropped, batch>>
        /\ Continued' => Continued
    BY <1>4
    DEF Tick, start_logging, StartReset, stop_logging, stop, Continued
  <2>2. QED
    BY <1>1, <2>1, SameDone, FileUntouched
<1>5. CASE Initialize \/ BlockLoop \/ LogPacket
  <2>1. /\ UNCHANGED <<disk, fntime, queue, pushed, dropped, batch>>
        /\ Continued' => Continued
    BY <1>5 DEF Initialize, BlockLoop, LogPacket, Continued
  <2>2. QED
    BY <1>1, <2>1, SameDone, FileUntouched
<1>6. CASE PopAll
  <2>1. /\ UNCHANGED <<disk, fntime>> /\ (Continued' => Continued)
        /\ Takes /\ dropped \subseteq dropped'
    BY <1>6 DEF PopAll, Takes, Continued, Queued, TypeInv, TypeOK
  <2>2. Advances
    BY <1>1, <2>1, StreamTakes
  <2>3. QED
    BY <1>1, <2>1, <2>2, FileUntouched
<1>7. CASE SkipPacket
  <2>1. ~Continued' /\ UNCHANGED <<disk, fntime, dropped>>
    BY <1>7 DEF SkipPacket, CloseFile, Continued
  <2>2. QED
    BY <1>1, <2>1, FileUntouched
<1>8. CASE UNCHANGED vars
  BY <1>1, <1>8, SameDone, FileUntouched DEF vars, Continued
<1>9. QED
  BY <1>1, <1>2, <1>3, <1>4, <1>5, <1>6, <1>7, <1>8, FileRoll, FileWrite
  DEF Next, Logger, AcousticBlock, SensorBlock, GpsLogger, Top, Connect,
      Open, Test, PopRecords, LookAgain, WriteRecord, ReadNothing, ReadFix,
      Queued

(* Whatever stop, restart or rollover comes between two packets, and       *)
(* although Start sets its two flags one after the other, rows are in      *)
(* order, no item has two, and no file of LoggerBlock has a gap but for    *)
(* the packets its full queue dropped.                                     *)
THEOREM RowsHaveNoGaps == Spec => []InOrderWithoutGaps
<1>1. StreamInv /\ FileInv => InOrderWithoutGaps
  BY DEF StreamInv, FileInv, InOrder, NoGap, Skips, Missing,
     InOrderWithoutGaps
<1>2. QED
  BY <1>1, TypeInit, TypeNext, StreamInit, StreamNext, FileInit, FileNext,
     PTL DEF Spec

--------------------------------------------------------------------------
(* What opening a file costs.                                              *)

(* Rows are in files that were opened up to now, the last of which is      *)
(* opened before its window ends.                                          *)
WindowInv ==
    /\ \A i \in 1..Len(log) : log[i].file <= fntime.fname_time
    /\ fntime.fname_time <= now
    /\ fntime # NoFile => fntime.fname_time < fntime.rollover

Behind(t) == \A i \in 1..Len(log) : log[i].file < t

(* A file opened now empties none that rows are in, or logging was started *)
(* in this second.                                                         *)
Safe == now \in restarts \/ Behind(now)

(* That is so whenever the thread is about to open a file.                 *)
SafeInv ==
    /\ kind = "aco" =>
          /\ NeedsFile /\ (logging_active \/ pc = "file") => Safe
          /\ pc = "skip" /\ logging_active => Safe
          /\ pc = "write" /\ ~file_initialized /\ is_open
                => now \in restarts \/ fntime.fname_time < now
    /\ kind # "aco" =>
          /\ pc = "top" /\ logging_active /\ keep_alive => Safe
          /\ pc \in {"connect", "opening"} => Safe
          /\ pc = "loop" /\ ~is_open => Safe

(* What a step may do to files and rows.                                   *)
AddsRow(n) ==
    /\ is_open
    /\ disk' = [disk EXCEPT ![fname] = Append(@, n)]
    /\ log' = Append(log, NewEntry(n))
    /\ UNCHANGED <<fntime, is_open, now, restarts>>

OpensFile == OpenFile /\ Safe /\ UNCHANGED <<log, now, restarts>>

LeavesFiles ==
    /\ UNCHANGED <<log, disk, fntime>>
    /\ now <= now'
    /\ restarts \subseteq restarts'

LEMMA FileTypes ==
    ASSUME TypeInv
    PROVE  /\ now \in Nat /\ now \in Times
           /\ fntime.fname_time \in Int /\ fntime.rollover \in Nat
           /\ fntime # NoFile => fntime.fname_time \in Times /\ fntime.fname_time \in Nat
           /\ is_open => fntime # NoFile
           /\ log \in Seq(Entry) /\ Len(log) \in Nat
           /\ \A i \in 1..Len(log) :
                 log[i] \in Entry /\ log[i].file \in Times /\ log[i].file \in Nat
           /\ disk \in [Names -> Seq(Items)]
<1>1. \A i \in 1..Len(log) :
          log[i] \in Entry /\ log[i].file \in Times /\ log[i].file \in Nat
  BY StreamTypes, Bounds DEF Entry
<1>2. log \in Seq(Entry) /\ Len(log) \in Nat
  BY StreamTypes
<1>3. /\ now \in Nat /\ now \in Times
      /\ fntime \in [fname_time : Times, rollover : Nat] \cup {NoFile}
      /\ is_open => fntime # NoFile
      /\ disk \in [Names -> Seq(Items)]
  BY Bounds DEF TypeInv, TypeOK
<1>4. fntime # NoFile => fntime.fname_time \in Times /\ fntime.fname_time \in Nat
                         /\ fntime.rollover \in Nat
  BY <1>3, Bounds
<1>5. NoFile.fname_time \in Int /\ NoFile.rollover \in Nat
  BY DEF NoFile
<1>6. fntime.fname_time \in Int /\ fntime.rollover \in Nat
  BY <1>4, <1>5
<1>7. QED
  BY <1>1, <1>2, <1>3, <1>4, <1>6

LEMMA EffectOnFiles ==
    ASSUME TypeInv, SafeInv, [Next]_vars
    PROVE  OpensFile \/ (\E n \in Items : AddsRow(n)) \/ LeavesFiles
<1> USE DEF setup, control, input, taken, file
<1>1. now \in Nat /\ now <= now
  BY FileTypes
<1>2. CASE Arrive \/ stop_logging \/ stop
  BY <1>1, <1>2 DEF Arrive, stop_logging, stop, LeavesFiles
<1>3. CASE start_logging \/ StartReset
  <2>1. UNCHANGED <<log, disk, fntime, now>> /\ restarts \subseteq restarts'
    BY <1>3 DEF start_logging, StartReset
  <2>2. QED
    BY <1>1, <2>1 DEF LeavesFiles
<1>4. CASE Tick
  BY <1>1, <1>4 DEF Tick, LeavesFiles
<1>5. CASE Initialize \/ BlockLoop \/ PopAll \/ LogPacket \/ Top \/ Connect
           \/ PopRecords \/ LookAgain \/ ReadNothing
  BY <1>1, <1>5 DEF Initialize, BlockLoop, PopAll, LogPacket, Top, Connect,
     PopRecords, LookAgain, ReadNothing, LeavesFiles
<1>6. CASE SkipPacket \/ Test
  BY <1>1, <1>6 DEF SkipPacket, Test, CloseFile, LeavesFiles
<1>7. CASE RollFile
  <2>1. UNCHANGED <<log, now, restarts>>
    BY <1>7 DEF RollFile
  <2>2. CASE NeedsFile
    BY <1>7, <2>1, <2>2 DEF RollFile, SafeInv, OpensFile
  <2>3. CASE ~NeedsFile
    BY <1>1, <1>7, <2>1, <2>3 DEF RollFile, LeavesFiles
  <2>4. QED
    BY <2>2, <2>3
<1>8. CASE Open
  BY <1>8 DEF Open, SafeInv, OpensFile
<1>9. CASE WritePacket
  <2>1. Head(batch) \in Items
    BY <1>9, StreamTypes, TailElements DEF WritePacket, TypeInv, PacketInHand
  <2>2. UNCHANGED <<fntime, is_open, now, restarts>>
    BY <1>9 DEF WritePacket
  <2>3. CASE is_open
    BY <1>1, <1>9, <2>1, <2>2, <2>3
    DEF WritePacket, WriteRow, AddsRow, NewEntry, LeavesFiles
  <2>4. CASE ~is_open
    BY <1>1, <1>9, <2>2, <2>4 DEF WritePacket, LeavesFiles
  <2>5. QED
    BY <2>3, <2>4
<1>10. CASE WriteRecord
  <2>1. UNCHANGED <<fntime, is_open, now, restarts>> /\ is_open
    BY <1>10 DEF WriteRecord, TypeInv, WritersHaveFile
  <2>2. CASE batch = <<>>
    BY <1>1, <1>10, <2>1, <2>2 DEF WriteRecord, LeavesFiles
  <2>3. CASE batch # <<>>
    <3>1. Head(batch) \in Items
      BY <2>3, StreamTypes, TailElements
    <3>2. QED
      BY <1>1, <1>10, <2>1, <2>3, <3>1
      DEF WriteRecord, WriteRow, AddsRow, NewEntry, LeavesFiles
  <2>4. QED
    BY <2>2, <2>3
<1>11. CASE ReadFix
  <2>1. UNCHANGED <<fntime, is_open, now, restarts>> /\ is_open
    BY <1>11 DEF ReadFix, Queued, TypeInv, WritersHaveFile
  <2>2. PICK fix \in latest..pushed \ {None} : WriteRow(fix)
    BY <1>11 DEF ReadFix
  <2>3. fix \in Items
    BY <2>2, StreamTypes, Bounds DEF Items, None, TypeInv, TypeOK
  <2>4. QED
    BY <1>1, <2>1, <2>2, <2>3 DEF WriteRow, AddsRow, NewEntry, LeavesFiles
<1>12. CASE UNCHANGED vars
  BY <1>1, <1>12 DEF vars, LeavesFiles
<1>13. QED
  BY <1>2, <1>3, <1>4, <1>5, <1>6, <1>7, <1>8, <1>9, <1>10, <1>11, <1>12
  DEF Next, Logger, AcousticBlock, SensorBlock, GpsLogger

LEMMA WindowInit == Init => WindowInv
<1>1. Len(<<>>) = 0
  OBVIOUS
<1>2. NoFile.fname_time <= 0
  BY DEF NoFile
<1>3. QED
  BY <1>1, <1>2 DEF Init, WindowInv

LEMMA WindowNext ==
    TypeInv /\ SafeInv /\ WindowInv /\ [Next]_vars => WindowInv'
<1> SUFFICES ASSUME TypeInv, SafeInv, WindowInv, [Next]_vars
             PROVE  WindowInv'
  OBVIOUS
<1>0. TypeInv'
  BY TypeNext
<1>1. CASE OpensFile
  <2>1. /\ log' = log /\ now' = now
        /\ fntime'.fname_time = now
        /\ fntime'.rollover = rollover_time(now, RolloverMin)
    BY <1>1 DEF OpensFile, OpenFile
  <2>2. now < rollover_time(now, RolloverMin)
    BY FileTypes, WindowEndsLater
  <2>3. \A i \in 1..Len(log') : log'[i].file <= fntime'.fname_time
    BY <2>1, FileTypes DEF WindowInv
  <2>4. QED
    BY <2>1, <2>2, <2>3, FileTypes DEF WindowInv
<1>2. ASSUME NEW n \in Items, AddsRow(n)
      PROVE  WindowInv'
  <2>1. UNCHANGED <<fntime, now>> /\ log' = Append(log, NewEntry(n))
    BY <1>2 DEF AddsRow
  <2>2. NewEntry(n) \in Entry /\ NewEntry(n).file = fntime.fname_time
    BY <1>2, FileTypes DEF AddsRow, NewEntry, Entry
  <2>3. /\ Len(log') = Len(log) + 1 /\ log'[Len(log) + 1] = NewEntry(n)
        /\ \A i \in 1..Len(log) : log'[i] = log[i]
    BY <2>1, <2>2, FileTypes, AppendElements
  <2>4. ASSUME NEW i \in 1..Len(log')
        PROVE  log'[i].file <= fntime.fname_time
    <3>1. CASE i \in 1..Len(log)
      BY <2>3, <3>1 DEF WindowInv
    <3>2. CASE i = Len(log) + 1
      BY <2>2, <2>3, <3>2, FileTypes
    <3>3. QED
      BY <2>3, <3>1, <3>2, FileTypes
  <2>5. QED
    BY <2>1, <2>4 DEF WindowInv
<1>3. CASE LeavesFiles
  <2>0. now' \in Times
    BY <1>0 DEF TypeInv, TypeOK
  <2>1. now \in Int /\ now' \in Int /\ fntime.fname_time \in Int
    BY <2>0, Bounds, FileTypes
  <2>2. log' = log /\ fntime' = fntime /\ now <= now'
    BY <1>3 DEF LeavesFiles
  <2>3. fntime'.fname_time <= now'
    BY <2>1, <2>2 DEF WindowInv
  <2>4. QED
    BY <2>2, <2>3 DEF WindowInv
<1>4. QED
  BY <1>1, <1>2, <1>3, EffectOnFiles

LEMMA SafeInit == Init => SafeInv
<1>1. Len(<<>>) = 0
  OBVIOUS
<1>2. Init => Safe
  BY <1>1 DEF Init, Safe, Behind
<1>3. QED
  BY <1>2 DEF Init, SafeInv

(* A file whose window is over, or a past second, holds no row of now.     *)
LEMMA PastFileIsSafe ==
    ASSUME TypeInv, WindowInv, fntime.fname_time < now
    PROVE  Safe
<1>1. ASSUME NEW i \in 1..Len(log)
      PROVE  log[i].file < now
  <2>1. log[i].file <= fntime.fname_time /\ log[i].file \in Nat
        /\ fntime.fname_time \in Int /\ now \in Int
    BY FileTypes DEF WindowInv
  <2>2. QED
    BY <2>1
<1>2. QED
  BY <1>1 DEF Safe, Behind

LEMMA SafeTick ==
    ASSUME TypeInv, WindowInv, Tick
    PROVE  SafeInv'
<1> USE DEF setup, input, taken, file
<1>1. now' = now + 1 /\ log' = log /\ fntime' = fntime
  BY DEF Tick
<1>2. fntime'.fname_time < now'
  BY <1>1, FileTypes DEF WindowInv
<1>3. ASSUME NEW i \in 1..Len(log')
      PROVE  log'[i].file < now'
  <2>1. log'[i].file <= fntime'.fname_time /\ log'[i].file \in Nat
        /\ fntime'.fname_time \in Int /\ now' \in Int
    BY <1>1, FileTypes DEF WindowInv
  <2>2. QED
    BY <1>2, <2>1
<1>4. Safe'
  BY <1>3 DEF Safe, Behind
<1>5. QED
  BY <1>2, <1>4 DEF SafeInv

LEMMA SafeRestart ==
    ASSUME start_logging \/ StartReset
    PROVE  SafeInv'
<1>1. now' \in restarts'
  BY DEF start_logging, StartReset
<1>2. QED
  BY <1>1 DEF SafeInv, Safe

(* Steps that leave the clock, the rows and the restarts alone.            *)
LEMMA SafeOthers ==
    ASSUME TypeInv, WindowInv, SafeInv,
           \/ Arrive \/ stop_logging \/ stop
           \/ Initialize \/ BlockLoop \/ PopAll \/ LogPacket \/ SkipPacket
           \/ Top \/ Connect \/ Test \/ PopRecords \/ LookAgain \/ ReadNothing
    PROVE  SafeInv'
<1> USE DEF setup, control, input, taken, file
<1>1. UNCHANGED <<log, now, restarts, fntime, kind>>
  BY DEF Arrive, stop_logging, stop, Initialize, BlockLoop, PopAll,
     LogPacket, SkipPacket, CloseFile, Top, Connect, Test, PopRecords,
     LookAgain, ReadNothing
<1>2. Safe' <=> Safe
  BY <1>1 DEF Safe, Behind
<1>3. CASE Arrive \/ stop_logging \/ stop
  <2>1. UNCHANGED <<pc, is_open, file_initialized>> /\ (NeedsFile' <=> NeedsFile)
    BY <1>1, <1>3 DEF Arrive, stop_logging, stop, NeedsFile
  <2>2. /\ logging_active' => logging_active
        /\ keep_alive' => keep_alive
    BY <1>3 DEF Arrive, stop_logging, stop
  <2>3. QED
    BY <1>1, <1>2, <2>1, <2>2 DEF SafeInv
<1>4. CASE Initialize \/ BlockLoop \/ PopAll \/ LogPacket
  <2>1. /\ UNCHANGED <<is_open, file_initialized>>
        /\ NeedsFile' <=> NeedsFile
        /\ kind = "aco" /\ pc' # "write"
    BY <1>1, <1>4 DEF Initialize, BlockLoop, PopAll, LogPacket, NeedsFile
  <2>2. /\ logging_active' => logging_active
        /\ pc' = "file" => logging_active
        /\ pc' = "skip" => ~logging_active
    <3>1. CASE BlockLoop
      BY <3>1 DEF BlockLoop
    <3>2. CASE Initialize \/ PopAll
      BY <3>2 DEF Initialize, PopAll
    <3>3. CASE LogPacket
      BY <3>3 DEF LogPacket
    <3>4. QED
      BY <1>4, <3>1, <3>2, <3>3
  <2>3. QED
    BY <1>1, <1>2, <2>1, <2>2 DEF SafeInv
<1>5. CASE SkipPacket
  BY <1>1, <1>2, <1>5 DEF SkipPacket, CloseFile, SafeInv, NeedsFile
<1>6. CASE Top \/ Connect
  BY <1>1, <1>2, <1>6 DEF Top, Connect, SafeInv, Queued
<1>7. CASE Test
  <2>1. CASE Continues
    BY <1>1, <1>2, <1>7, <2>1 DEF Test, SafeInv
  <2>2. CASE ~Continues
    <3>1. pc = "loop" /\ pc' = "top" /\ kind # "aco"
          /\ UNCHANGED <<logging_active, keep_alive>>
      BY <1>7, <2>2 DEF Test
    <3>2. ASSUME logging_active, keep_alive
          PROVE  Safe
      <4>1. CASE ~is_open
        BY <3>1, <4>1 DEF SafeInv
      <4>2. CASE is_open
        <5>1. fntime.rollover <= now /\ fntime.fname_time < fntime.rollover
          BY <2>2, <3>2, <4>2, FileTypes DEF Continues, WindowInv
        <5>2. fntime.fname_time < now
          BY <5>1, FileTypes
        <5>3. QED
          BY <5>2, PastFileIsSafe
      <4>3. QED
        BY <4>1, <4>2
    <3>3. QED
      BY <1>1, <1>2, <3>1, <3>2 DEF SafeInv
  <2>3. QED
    BY <2>1, <2>2
<1>8. CASE PopRecords \/ LookAgain \/ ReadNothing
  BY <1>1, <1>2, <1>8 DEF PopRecords, LookAgain, ReadNothing, SafeInv,
     TypeInv, WritersHaveFile, Queued
<1>9. QED
  BY <1>3, <1>4, <1>5, <1>6, <1>7, <1>8

LEMMA SafeOpen ==
    ASSUME TypeInv, WindowInv, WindowInv', TypeInv', SafeInv, RollFile \/ Open
    PROVE  SafeInv'
<1> USE DEF setup, control, input, taken, file
<1>1. UNCHANGED <<log, now, restarts, kind>>
  BY DEF RollFile, Open
<1>2. Safe' <=> Safe
  BY <1>1 DEF Safe, Behind
<1>3. CASE Open
  BY <1>1, <1>2, <1>3 DEF Open, SafeInv
<1>4. CASE RollFile /\ NeedsFile
  <2>1. kind = "aco" /\ pc = "file" /\ pc' = "write" /\ file_initialized' /\ Safe
    BY <1>4 DEF RollFile, SafeInv
  <2>2. QED
    BY <1>1, <1>2, <2>1 DEF SafeInv
<1>5. CASE RollFile /\ ~NeedsFile
  <2>1. /\ UNCHANGED <<fntime, is_open, file_initialized>>
        /\ kind = "aco" /\ pc' = "write"
    BY <1>5 DEF RollFile
  <2>2. ~NeedsFile' /\ file_initialized'
    BY <1>1, <1>5, <2>1 DEF NeedsFile
  <2>3. QED
    BY <1>1, <2>1, <2>2 DEF SafeInv
<1>6. QED
  BY <1>3, <1>4, <1>5

LEMMA SafeWrite ==
    ASSUME TypeInv, WindowInv, WindowInv', TypeInv', SafeInv,
           WritePacket \/ WriteRecord \/ ReadFix
    PROVE  SafeInv'
<1> USE DEF setup, control, input, taken, file
<1>1. UNCHANGED <<now, restarts, fntime, is_open, file_initialized, kind>>
  BY DEF WritePacket, WriteRecord, ReadFix
<1>2. CASE WriteRecord \/ ReadFix
  <2>1. kind # "aco" /\ pc' \in {"loop", "rows"} /\ is_open
    BY <1>2 DEF WriteRecord, ReadFix, Queued, TypeInv, WritersHaveFile
  <2>2. QED
    BY <1>1, <2>1 DEF SafeInv
<1>3. CASE WritePacket
  <2>1. kind = "aco" /\ pc = "write" /\ pc' = "packet"
    BY <1>3 DEF WritePacket
  <2>2. ASSUME NeedsFile', logging_active'
        PROVE  Safe'
    <3>1. CASE ~is_open
      <4>1. log' = log /\ NeedsFile /\ logging_active
        BY <1>1, <1>3, <2>2, <3>1 DEF WritePacket, NeedsFile
      <4>2. Safe
        BY <2>1, <4>1 DEF SafeInv
      <4>3. QED
        BY <1>1, <4>1, <4>2 DEF Safe, Behind
    <3>2. CASE is_open /\ ~file_initialized /\ now \in restarts
      BY <1>1, <3>2 DEF Safe
    <3>3. CASE fntime.fname_time < now
      <4>1. fntime'.fname_time < now'
        BY <1>1, <3>3
      <4>2. ASSUME NEW i \in 1..Len(log')
            PROVE  log'[i].file < now'
        <5>1. log'[i].file <= fntime'.fname_time
          BY DEF WindowInv
        <5>2. /\ log'[i].file \in Int /\ fntime'.fname_time \in Int
              /\ now' \in Int
          <6>1. log' \in Seq(Entry)
            BY DEF TypeInv, TypeOK, Entry
          <6>2. log'[i] \in Entry
            BY <6>1, SeqDomain
          <6>3. log'[i].file \in Nat
            <7>1. log'[i].file \in Times
              BY <6>2 DEF Entry
            <7>2. Times \subseteq Nat
              BY Bounds
            <7>3. QED
              BY <7>1, <7>2
          <6>4. now \in Int /\ fntime.fname_time \in Int
            BY FileTypes
          <6>5. QED
            BY <1>1, <6>3, <6>4
        <5>3. QED
          BY <4>1, <5>1, <5>2
      <4>3. QED
        BY <4>2 DEF Safe, Behind
    <3>4. CASE is_open /\ now > fntime.rollover
      <4>1. fntime.fname_time < now
        BY <3>4, FileTypes DEF WindowInv
      <4>2. QED
        BY <3>3, <4>1
    <3>5. QED
      <4>1. ~is_open \/ ~file_initialized \/ now > fntime.rollover
        BY <1>1, <2>2 DEF NeedsFile
      <4>2. is_open /\ ~file_initialized
               => now \in restarts \/ fntime.fname_time < now
        BY <2>1 DEF SafeInv
      <4>3. QED
        BY <3>1, <3>2, <3>3, <3>4, <4>1, <4>2
  <2>3. QED
    BY <1>1, <2>1, <2>2 DEF SafeInv
<1>4. QED
  BY <1>2, <1>3

LEMMA SafeNext ==
    TypeInv /\ WindowInv /\ SafeInv /\ [Next]_vars => SafeInv'
<1> SUFFICES ASSUME TypeInv, WindowInv, SafeInv, [Next]_vars PROVE SafeInv'
  OBVIOUS
<1>1. TypeInv' /\ WindowInv'
  BY TypeNext, WindowNext
<1>2. CASE UNCHANGED vars
  BY <1>2 DEF vars, setup, control, input, taken, file, SafeInv, Safe,
     Behind, NeedsFile
<1>3. QED
  BY <1>1, <1>2, SafeTick, SafeRestart, SafeOthers, SafeOpen, SafeWrite
  DEF Next, Logger, AcousticBlock, SensorBlock, GpsLogger

LEMMA KeptNext ==
    /\ TypeInv /\ WindowInv /\ SafeInv /\ TruncatedOnlyByRestart
    /\ [Next]_vars
    => TruncatedOnlyByRestart'
<1> SUFFICES ASSUME TypeInv, WindowInv, SafeInv, TruncatedOnlyByRestart,
                    [Next]_vars
             PROVE  TruncatedOnlyByRestart'
  OBVIOUS
<1> DEFINE Holds(t, n) == \E k \in DOMAIN disk[t] : disk[t][k] = n
           FileOf(i) == fname_str(log[i].file)
<1>1. \A i \in 1..Len(log) :
          \/ log[i].file \in restarts
          \/ CameAgain(log[i].file, now)
          \/ Holds(FileOf(i), log[i].item)
  BY FileTypes, SeqDomain DEF TruncatedOnlyByRestart
<1>2. DOMAIN log = 1..Len(log)
  BY FileTypes, SeqDomain
<1>3. CASE OpensFile
  <2>1. /\ log' = log /\ restarts' = restarts /\ now' = now
        /\ disk' = disk \/ disk' = [disk EXCEPT ![fname_str(now)] = <<>>]
    BY <1>3 DEF OpensFile, OpenFile
  <2>2. ASSUME NEW i \in 1..Len(log), log[i].file \notin restarts,
               ~CameAgain(log[i].file, now)
        PROVE  disk'[FileOf(i)] = disk[FileOf(i)]
    <3>1. log[i].file # now
      <4>1. CASE now \in restarts
        BY <2>2, <4>1
      <4>2. CASE Behind(now)
        BY <4>2, FileTypes DEF Behind
      <4>3. QED
        BY <1>3, <4>1, <4>2 DEF OpensFile, Safe
    <3>2. log[i].file < now
      <4>1. /\ log[i].file <= fntime.fname_time /\ fntime.fname_time <= now
            /\ log[i].file \in Nat
        BY FileTypes DEF WindowInv
      <4>2. fntime.fname_time \in Int /\ now \in Int
        BY FileTypes
      <4>3. QED
        BY <3>1, <4>1, <4>2
    <3>3. FileOf(i) # fname_str(now)
      <4>1. log[i].file \in Nat /\ now \in Nat
        BY FileTypes
      <4>2. now \in (log[i].file + 1)..now
        BY <3>2, <4>1
      <4>3. QED
        BY <2>2, <4>2 DEF CameAgain
    <3>4. FileOf(i) \in Names
      BY FileTypes, NamesOf
    <3>5. QED
      BY <2>1, <3>3, <3>4, FileTypes
  <2>3. \A i \in 1..Len(log) :
            \/ log[i].file \in restarts
            \/ CameAgain(log[i].file, now)
            \/ Holds(FileOf(i), log[i].item)'
    BY <1>1, <2>1, <2>2
  <2>4. QED
    BY <1>2, <2>1, <2>3 DEF TruncatedOnlyByRestart
<1>4. ASSUME NEW n \in Items, AddsRow(n)
      PROVE  TruncatedOnlyByRestart'
  <2> DEFINE f == fname
             s == disk[f]
             e == NewEntry(n)
  <2>1. /\ f \in Names /\ s \in Seq(Items) /\ e \in Entry
        /\ e.item = n /\ fname_str(e.file) = f
    <3>1. fntime.fname_time \in Times
      BY <1>4, FileTypes DEF AddsRow
    <3>2. f \in Names
      BY <3>1, NamesOf DEF fname
    <3>3. QED
      BY <3>1, <3>2, FileTypes DEF NewEntry, Entry, fname
  <2>2. /\ log' = Append(log, e) /\ restarts' = restarts /\ now' = now
        /\ disk' = [disk EXCEPT ![f] = Append(@, n)]
    BY <1>4 DEF AddsRow
  <2> HIDE DEF f
  <2>3. /\ disk'[f] = Append(s, n)
        /\ \A t \in Names \ {f} : disk'[t] = disk[t]
    BY <2>1, <2>2, FileTypes
  <2> HIDE DEF e
  <2>4. /\ log' \in Seq(Entry) /\ Len(log') = Len(log) + 1
        /\ log'[Len(log) + 1] = e
        /\ \A i \in 1..Len(log) : log'[i] = log[i]
    BY <2>1, <2>2, FileTypes, AppendElements
  <2>5. DOMAIN log' = 1..(Len(log) + 1)
    BY <2>4, SeqDomain
  <2>6. /\ Append(s, n) \in Seq(Items) /\ Len(Append(s, n)) = Len(s) + 1
        /\ Append(s, n)[Len(s) + 1] = n
        /\ \A k \in 1..Len(s) : Append(s, n)[k] = s[k]
    BY <2>1, AppendElements
  <2>7. /\ DOMAIN s = 1..Len(s) /\ Len(s) \in Nat
        /\ DOMAIN Append(s, n) = 1..(Len(s) + 1)
    BY <2>1, <2>6, SeqDomain
  <2> HIDE DEF s
  <2>8. \A m : (\E k \in DOMAIN s : s[k] = m)
                  => \E k \in DOMAIN disk'[f] : disk'[f][k] = m
    <3> SUFFICES ASSUME NEW m, NEW k \in DOMAIN s, s[k] = m
                 PROVE  \E j \in DOMAIN disk'[f] : disk'[f][j] = m
      OBVIOUS
    <3>1. k \in DOMAIN disk'[f] /\ disk'[f][k] = m
      BY <2>3, <2>6, <2>7
    <3>2. QED
      BY <3>1
  <2>9. ASSUME NEW t \in Names, NEW m, Holds(t, m)
        PROVE  \E k \in DOMAIN disk'[t] : disk'[t][k] = m
    BY <2>3, <2>8, <2>9 DEF s
  <2>10. \E k \in DOMAIN disk'[f] : disk'[f][k] = n
    <3>1. Len(s) + 1 \in DOMAIN disk'[f] /\ disk'[f][Len(s) + 1] = n
      BY <2>3, <2>6, <2>7
    <3>2. QED
      BY <3>1
  <2>11. ASSUME NEW i \in DOMAIN log'
         PROVE  \/ log'[i].file \in restarts'
                \/ CameAgain(log'[i].file, now')
                \/ \E k \in DOMAIN disk'[fname_str(log'[i].file)] :
                      disk'[fname_str(log'[i].file)][k] = log'[i].item
    <3>1. CASE i \in 1..Len(log)
      <4>1. log'[i] = log[i] /\ FileOf(i) \in Names
        BY <2>4, <3>1, FileTypes, NamesOf
      <4>2. \/ log[i].file \in restarts
            \/ CameAgain(log[i].file, now)
            \/ Holds(FileOf(i), log[i].item)
        BY <1>1, <3>1
      <4>3. QED
        BY <2>2, <2>9, <4>1, <4>2
    <3>2. CASE i = Len(log) + 1
      BY <2>1, <2>4, <2>10, <3>2
    <3>3. QED
      BY <2>5, <3>1, <3>2, FileTypes
  <2>12. QED
    BY <2>11 DEF TruncatedOnlyByRestart
<1>5. CASE LeavesFiles
  <2>1. /\ UNCHANGED <<log, disk>> /\ restarts \subseteq restarts'
        /\ now <= now' /\ now \in Int
    BY <1>5, FileTypes DEF LeavesFiles
  <2>2. now' \in Int
    <3>1. TypeInv'
      BY TypeNext
    <3>2. QED
      BY <3>1, Bounds DEF TypeInv, TypeOK
  <2>3. ASSUME NEW i \in 1..Len(log), CameAgain(log[i].file, now)
        PROVE  CameAgain(log[i].file, now')
    <3>1. PICK t \in (log[i].file + 1)..now : fname_str(t) = FileOf(i)
      BY <2>3 DEF CameAgain
    <3>2. t \in (log[i].file + 1)..now'
      BY <2>1, <2>2, <3>1, FileTypes
    <3>3. QED
      BY <3>1, <3>2 DEF CameAgain
  <2>4. QED
    BY <1>1, <1>2, <2>1, <2>3 DEF TruncatedOnlyByRestart
<1>6. QED
  BY <1>3, <1>4, <1>5, EffectOnFiles

(* Opening a file never empties one with rows in it, unless logging was    *)
(* started again in the second that one was opened in, or the clock that   *)
(* names files was set back and has come to that name again: a rollover's  *)
(* window is over when the next file opens, and what stops a thread lets   *)
(* it back to its file only through start_logging.                         *)
THEOREM FilesAreKept == Spec => []TruncatedOnlyByRestart
<1>1. Init => TruncatedOnlyByRestart
  BY EmptySeq DEF Init, TruncatedOnlyByRestart
<1>2. QED
  BY <1>1, TypeInit, TypeNext, WindowInit, WindowNext, SafeInit, SafeNext,
     KeptNext, PTL DEF Spec

--------------------------------------------------------------------------
(* What Logger_Sensor_Block loses.                                         *)

RowOf(s, i) == IF i = 0 THEN 0 ELSE s[i].item
GapsOf(s, lost) ==
    {i \in 1..Len(s) : Skips(RowOf(s, i - 1), RowOf(s, i), lost)}

(* The gaps between rows, and the one the next row would have before it.   *)
LostOf(s, d, lost) ==
    Cardinality(GapsOf(s, lost))
        + (IF Skips(RowOf(s, Len(s)), d + 1, lost) THEN 1 ELSE 0)

LEMMA GapsTypes ==
    ASSUME NEW s \in Seq(Entry), NEW lost
    PROVE  /\ IsFiniteSet(GapsOf(s, lost))
           /\ Cardinality(GapsOf(s, lost)) \in Nat
           /\ RowOf(s, Len(s)) \in Nat
<1>1. Len(s) \in Nat /\ \A i \in 1..Len(s) : s[i] \in Entry
  BY SeqDomain
<1>2. IsFiniteSet(1..Len(s))
  BY <1>1, FS_Interval
<1>3. IsFiniteSet(GapsOf(s, lost))
  BY <1>2, FS_Subset DEF GapsOf
<1>4. RowOf(s, Len(s)) \in Nat
  <2>1. CASE Len(s) = 0
    BY <2>1 DEF RowOf
  <2>2. CASE Len(s) # 0
    <3>1. s[Len(s)] \in Entry
      BY <1>1, <2>2
    <3>2. QED
      BY <2>2, <3>1, Bounds DEF RowOf, Entry
  <2>3. QED
    BY <2>1, <2>2
<1>5. QED
  BY <1>3, <1>4, FS_CardinalityType

LEMMA LostTypes ==
    ASSUME NEW s \in Seq(Entry), NEW d, NEW lost
    PROVE  /\ LostOf(s, d, lost) \in Nat
           /\ Cardinality(GapsOf(s, lost)) <= LostOf(s, d, lost)
BY GapsTypes DEF LostOf

(* However many items are given up at once, that makes one gap more.       *)
LEMMA LostGivingUp ==
    ASSUME NEW s \in Seq(Entry), NEW d, NEW c, NEW lost
    PROVE  LostOf(s, c, lost) <= LostOf(s, d, lost) + 1
BY GapsTypes DEF LostOf

(* What was dropped or makes no row makes no gap.                          *)
LEMMA LostNoMore ==
    ASSUME NEW s \in Seq(Entry), NEW d \in Int, NEW c \in Int,
           NEW lost, NEW lost2, lost \subseteq lost2, Passed(d, c, lost2)
    PROVE  LostOf(s, c, lost2) <= LostOf(s, d, lost)
<1> DEFINE m == RowOf(s, Len(s))
           A == Cardinality(GapsOf(s, lost))
           B == Cardinality(GapsOf(s, lost2))
<1>1. m \in Nat /\ A \in Nat /\ B \in Nat
  BY GapsTypes
<1>2. B <= A
  <2>1. GapsOf(s, lost2) \subseteq GapsOf(s, lost)
    BY DEF GapsOf, Skips
  <2>2. IsFiniteSet(GapsOf(s, lost))
    BY GapsTypes
  <2>3. QED
    BY <2>1, <2>2, FS_Subset
<1>3. LostOf(s, c, lost2) = B + (IF Skips(m, c + 1, lost2) THEN 1 ELSE 0)
  BY DEF LostOf
<1>4. LostOf(s, d, lost) = A + (IF Skips(m, d + 1, lost) THEN 1 ELSE 0)
  BY DEF LostOf
<1> HIDE DEF m, A, B
<1>5. Skips(m, c + 1, lost2) => Skips(m, d + 1, lost)
  BY <1>1, SkipsNoMore
<1>6. CASE Skips(m, c + 1, lost2)
  BY <1>1, <1>2, <1>3, <1>4, <1>5, <1>6
<1>7. CASE ~Skips(m, c + 1, lost2)
  BY <1>1, <1>2, <1>3, <1>4, <1>7
<1>8. QED
  BY <1>6, <1>7

LEMMA LostWritten ==
    ASSUME NEW s \in Seq(Entry), NEW e \in Entry, NEW d \in Nat, NEW lost,
           e.item = d + 1
    PROVE  LostOf(Append(s, e), d + 1, lost) = LostOf(s, d, lost)
<1> DEFINE r == Append(s, e)
           n == Len(s)
           m == RowOf(s, Len(s))
<1>1. /\ n \in Nat /\ Len(r) = n + 1 /\ r[n + 1] = e
      /\ \A i \in 1..n : r[i] = s[i]
  BY AppendElements, SeqDomain
<1>2. r \in Seq(Entry)
  BY AppendElements
<1> HIDE DEF r
<1>3. \A i \in 0..n : RowOf(r, i) = RowOf(s, i)
  BY <1>1 DEF RowOf
<1>4. RowOf(r, n + 1) = d + 1 /\ RowOf(r, n) = m
  BY <1>1, <1>3 DEF RowOf
<1>5. ~Skips(RowOf(r, Len(r)), (d + 1) + 1, lost)
  BY <1>1, <1>4 DEF Skips
<1>6. LostOf(r, d + 1, lost) = Cardinality(GapsOf(r, lost))
  BY <1>2, <1>5, GapsTypes DEF LostOf
<1>7. \A i \in 1..n : i \in GapsOf(r, lost) <=> i \in GapsOf(s, lost)
  <2> TAKE i \in 1..n
  <2>1. RowOf(r, i - 1) = RowOf(s, i - 1) /\ RowOf(r, i) = RowOf(s, i)
    BY <1>1, <1>3
  <2>2. i \in 1..Len(r)
    BY <1>1
  <2>3. QED
    BY <2>1, <2>2 DEF GapsOf
<1>8. n + 1 \in GapsOf(r, lost) <=> Skips(m, d + 1, lost)
  <2>1. n + 1 \in 1..Len(r) /\ (n + 1) - 1 = n
    BY <1>1
  <2>2. QED
    BY <1>4, <2>1 DEF GapsOf
<1>9. /\ GapsOf(s, lost) \subseteq 1..n
      /\ GapsOf(r, lost) \subseteq 1..(n + 1)
      /\ n + 1 \notin 1..n /\ 1..(n + 1) = 1..n \cup {n + 1}
  BY <1>1 DEF GapsOf
<1>10. /\ IsFiniteSet(GapsOf(s, lost))
       /\ Cardinality(GapsOf(s, lost)) \in Nat
  BY GapsTypes
<1>11. CASE Skips(m, d + 1, lost)
  <2>1. /\ GapsOf(r, lost) = GapsOf(s, lost) \cup {n + 1}
        /\ n + 1 \notin GapsOf(s, lost)
    BY <1>7, <1>8, <1>9, <1>11
  <2>2. Cardinality(GapsOf(r, lost)) = Cardinality(GapsOf(s, lost)) + 1
    BY <1>10, <2>1, FS_AddElement
  <2>3. QED
    BY <1>6, <1>11, <2>2 DEF LostOf, r
<1>12. CASE ~Skips(m, d + 1, lost)
  <2>1. GapsOf(r, lost) = GapsOf(s, lost)
    BY <1>7, <1>8, <1>9, <1>12
  <2>2. QED
    BY <1>6, <1>10, <1>12, <2>1 DEF LostOf, r
<1>13. QED
  BY <1>11, <1>12

Lost == LostOf(log, Done, dropped)

(* A gap has a stop to account for it; and so has the batch that is about  *)
(* to be given up.                                                         *)
CreditInv ==
    kind = "sensor" =>
        /\ Lost <= stops
        /\ pc \in {"get", "write"} /\ ~logging_active => Lost + 1 <= stops

LEMMA CreditInit == Init => CreditInv
<1> SUFFICES ASSUME Init PROVE CreditInv
  OBVIOUS
<1>1. Len(<<>>) = 0 /\ 1..0 = {} /\ Cardinality({}) = 0
  BY FS_EmptySet
<1>2. GapsOf(<<>>, dropped) = {} /\ RowOf(<<>>, 0) = 0
  BY <1>1 DEF GapsOf, RowOf
<1>3. log = <<>> /\ Done = 0 /\ stops = 0
  <2>1. log = <<>> /\ queue = <<>> /\ batch = <<>> /\ pushed = 0 /\ stops = 0
    BY DEF Init
  <2>2. pushed = 0 /\ Len(queue) = 0
    BY <1>1, <2>1
  <2>3. Done = 0
    <3>1. Left = 0
      BY <2>2 DEF Left
    <3>2. batch = <<>>
      BY <2>1
    <3>3. QED
      BY <3>1, <3>2 DEF Done
  <2>4. QED
    BY <2>1, <2>3
<1>4. ~Skips(0, 0 + 1, dropped)
  BY DEF Skips
<1>5. Lost = 0
  <2>1. Lost = LostOf(<<>>, 0, dropped)
    BY <1>3 DEF Lost
  <2>2. /\ Cardinality(GapsOf(<<>>, dropped)) = 0
        /\ RowOf(<<>>, Len(<<>>)) = 0
    BY <1>1, <1>2
  <2>3. LostOf(<<>>, 0, dropped) = 0
    BY <1>4, <2>2 DEF LostOf
  <2>4. QED
    BY <2>1, <2>3
<1>6. kind = "sensor" => pc = "top"
  BY DEF Init
<1>7. QED
  BY <1>3, <1>5, <1>6 DEF CreditInv

LEMMA CreditNext ==
    TypeInv /\ StreamInv /\ CreditInv /\ [Next]_vars => CreditInv'
<1> SUFFICES ASSUME TypeInv, StreamInv, CreditInv, [Next]_vars
             PROVE  CreditInv'
  OBVIOUS
<1> USE DEF setup, control, input, taken, file
<1>0. TypeInv'
  BY TypeNext
<1>1. kind' = kind
  BY EffectOnItems
<1>2. CASE kind # "sensor"
  BY <1>1, <1>2 DEF CreditInv
<1> SUFFICES ASSUME kind = "sensor" PROVE CreditInv'
  BY <1>2
<1>3. /\ Lost \in Nat /\ Lost' \in Nat /\ stops \in Nat /\ Done \in Nat
      /\ Lost <= stops
      /\ pc \in {"get", "write"} /\ ~logging_active => Lost + 1 <= stops
  <2>1. Lost \in Nat
    BY StreamTypes, LostTypes DEF Lost
  <2>2. stops \in Nat
    BY Bounds DEF TypeInv, TypeOK
  <2>3. Done \in Nat
    BY DEF StreamInv
  <2>4. log' \in Seq(Entry)
    BY <1>0 DEF TypeInv, TypeOK, Entry
  <2>5. Lost' \in Nat
    BY <2>4, LostTypes DEF Lost
  <2>6. QED
    BY <2>1, <2>2, <2>3, <2>5 DEF CreditInv
<1>4. ASSUME Lost' <= Lost, stops' = stops,
             pc' \in {"get", "write"} /\ ~logging_active'
                => pc \in {"get", "write"} /\ ~logging_active
      PROVE  CreditInv'
  <2>1. Lost' <= stops'
    BY <1>3, <1>4
  <2>2. ASSUME pc' \in {"get", "write"} /\ ~logging_active'
        PROVE  Lost' + 1 <= stops'
    <3>1. pc \in {"get", "write"} /\ ~logging_active
      BY <1>4, <2>2
    <3>2. Lost + 1 <= stops
      BY <1>3, <3>1
    <3>3. stops' = stops /\ Lost' <= Lost /\ Lost \in Nat /\ Lost' \in Nat
          /\ stops \in Nat
      BY <1>3, <1>4
    <3> DEFINE l == Lost
               m == Lost'
    <3>4. l + 1 <= stops /\ m <= l /\ l \in Nat /\ m \in Nat
          /\ stops \in Nat
      BY <3>2, <3>3
    <3> HIDE DEF l, m
    <3>5. m + 1 <= stops
      BY <3>4
    <3>6. QED
      BY <3>3, <3>5 DEF m
  <2>3. QED
    BY <2>1, <2>2 DEF CreditInv
<1>5. ASSUME Advances, log' = log
      PROVE  Lost' <= Lost
  <2>1. /\ Done \in Int /\ Done' \in Int /\ log \in Seq(Entry)
        /\ dropped \subseteq dropped' /\ Passed(Done, Done', dropped')
    BY <1>5, StreamTypes DEF Advances
  <2>2. LostOf(log, Done', dropped') <= LostOf(log, Done, dropped)
    BY <2>1, LostNoMore
  <2>3. QED
    BY <1>5, <2>2 DEF Lost
<1>6. CASE Arrive
  <2>1. Comes /\ Queued
    BY <1>6 DEF Arrive, Comes, Queued
  <2>2. Advances
    BY <1>0, <1>1, <2>1, StreamComes
  <2>3. UNCHANGED <<log, stops, pc, logging_active>>
    BY <1>6 DEF Arrive
  <2>4. QED
    BY <1>4, <1>5, <2>2, <2>3
<1>7. CASE stop_logging
  <2>1. UNCHANGED <<queue, pushed, dropped, batch, log>> /\ stops' = stops + 1
    BY <1>7 DEF stop_logging
  <2>2. Lost' <= Lost
    BY <1>5, <2>1, SameDone
  <2>3. Lost' <= stops' /\ Lost' + 1 <= stops'
    <3> DEFINE l == Lost
               m == Lost'
    <3>1. /\ l <= stops /\ m <= l /\ l \in Nat /\ m \in Nat
          /\ stops \in Nat /\ stops' = stops + 1
      BY <1>3, <2>1, <2>2
    <3> HIDE DEF l, m
    <3>2. m <= stops' /\ m + 1 <= stops'
      BY <3>1
    <3>3. QED
      BY <3>2 DEF m
  <2>4. QED
    BY <2>3 DEF CreditInv
<1>8. CASE Tick \/ StartReset \/ stop \/ start_logging
  <2>1. UNCHANGED <<queue, pushed, dropped, batch, log, stops, pc>>
    BY <1>8 DEF Tick, StartReset, stop, start_logging
  <2>2. ~logging_active' => ~logging_active
    BY <1>8 DEF Tick, StartReset, stop, start_logging
  <2>3. Lost' <= Lost
    BY <1>5, <2>1, SameDone
  <2>4. QED
    BY <1>4, <2>1, <2>2, <2>3
<1>9. CASE Top \/ Open \/ Test
  <2>1. UNCHANGED <<queue, pushed, dropped, batch, log, stops>>
    BY <1>9 DEF Top, Open, Test
  <2>2. pc' \in {"get", "write"} => logging_active'
    BY <1>9 DEF Top, Open, Test, Continues, Queued
  <2>3. Lost' <= Lost
    BY <1>5, <2>1, SameDone
  <2>4. QED
    BY <1>4, <2>1, <2>2, <2>3
<1>10. CASE PopRecords
  <2>1. Takes
    BY <1>10 DEF PopRecords, Takes, Queued, TypeInv, TypeOK
  <2>2. Advances
    BY <1>0, <1>1, <2>1, StreamTakes
  <2>3. /\ log' = log /\ stops' = stops /\ pc = "get"
        /\ logging_active' = logging_active
    BY <1>10 DEF PopRecords
  <2>4. QED
    BY <1>4, <1>5, <2>2, <2>3
<1>11. CASE LookAgain /\ logging_active
  <2>1. /\ UNCHANGED <<queue, pushed, dropped, batch, log, stops>>
        /\ pc' = "rows"
    BY <1>11 DEF LookAgain
  <2>2. Lost' <= Lost
    BY <1>5, <2>1, SameDone
  <2>3. QED
    BY <1>4, <2>1, <2>2
<1>12. CASE LookAgain /\ ~logging_active
  <2>1. UNCHANGED <<log, dropped, stops>> /\ pc = "write" /\ pc' = "loop"
    BY <1>12 DEF LookAgain
  <2>2. Lost' <= Lost + 1
    BY <2>1, StreamTypes, LostGivingUp DEF Lost
  <2>3. Lost + 1 <= stops
    BY <1>3, <1>12, <2>1
  <2>4. QED
    BY <1>3, <2>1, <2>2, <2>3 DEF CreditInv
<1>13. CASE WriteRecord /\ batch = <<>>
  <2>1. /\ UNCHANGED <<queue, pushed, dropped, batch, log, stops>>
        /\ pc' = "loop"
    BY <1>13 DEF WriteRecord
  <2>2. Lost' <= Lost
    BY <1>5, <2>1, SameDone
  <2>3. QED
    BY <1>4, <2>1, <2>2
<1>14. CASE WriteRecord /\ batch # <<>>
  <2>1. /\ stops' = stops /\ pc' = "rows" /\ is_open /\ Queued
        /\ batch' = Tail(batch) /\ UNCHANGED <<queue, pushed, dropped>>
        /\ WriteRow(Head(batch))
    BY <1>14 DEF WriteRecord, TypeInv, WritersHaveFile, Queued
  <2>2. /\ Head(batch) = Done + 1 /\ Done \in Nat /\ Done + 1 \in Items
        /\ Done' \in Nat /\ Passed(Done + 1, Done', dropped)
    BY <1>0, <1>14, <2>1, DoneWithOne
  <2>3. CASE Head(batch) \in Unusable
    <3>1. log' = log
      BY <2>1, <2>3 DEF WriteRow
    <3>2. Passed(Done, Done + 1, dropped)
      BY <2>2, <2>3 DEF Passed
    <3>3. Passed(Done, Done', dropped)
      BY <2>2, <3>2, PassedOn
    <3>4. LostOf(log, Done', dropped) <= LostOf(log, Done, dropped)
      BY <2>2, <3>3, StreamTypes, LostNoMore
    <3>5. Lost' <= Lost
      BY <2>1, <3>1, <3>4 DEF Lost
    <3>6. QED
      BY <1>4, <2>1, <3>5
  <2>4. CASE Head(batch) \notin Unusable
    <3> DEFINE e == NewEntry(Head(batch))
    <3>1. log' = Append(log, e) /\ e \in Entry /\ e.item = Done + 1
      BY <2>1, <2>2, <2>4, FileTypes DEF WriteRow, NewEntry, Entry
    <3> HIDE DEF e
    <3>2. LostOf(log', Done + 1, dropped) = LostOf(log, Done, dropped)
      BY <2>2, <3>1, StreamTypes, LostWritten
    <3>3. log' \in Seq(Entry)
      BY <1>0 DEF TypeInv, TypeOK, Entry
    <3>4. LostOf(log', Done', dropped) <= LostOf(log', Done + 1, dropped)
      BY <2>2, <3>3, LostNoMore
    <3>5. Lost' <= Lost
      BY <2>1, <3>2, <3>4 DEF Lost
    <3>6. QED
      BY <1>4, <2>1, <3>5
  <2>5. QED
    BY <2>3, <2>4
<1>15. CASE UNCHANGED vars
  <2>1. UNCHANGED <<queue, pushed, dropped, batch, log, stops, pc,
                    logging_active>>
    BY <1>15 DEF vars
  <2>2. Lost' <= Lost
    BY <1>5, <2>1, SameDone
  <2>3. QED
    BY <1>4, <2>1, <2>2
<1>16. QED
  <2>1. ~AcousticBlock /\ ~GpsLogger
    BY DEF AcousticBlock, Initialize, BlockLoop, PopAll, LogPacket,
       SkipPacket, RollFile, WritePacket, GpsLogger, Connect, ReadNothing,
       ReadFix, Queued
  <2>2. QED
    BY <1>6, <1>7, <1>8, <1>9, <1>10, <1>11, <1>12, <1>13, <1>14, <1>15,
       <2>1 DEF Next, Logger, SensorBlock

(* However the queue of a thread of Logger_Sensor_Block fills while        *)
(* logging is off, the rows leave out a record that the queue has not      *)
(* dropped at most as often as logging was stopped: what is lost besides   *)
(* the dropped is the batch taken when the flag fell.                      *)
THEOREM StopsLoseOneBatch == Spec => []OneBatchPerStop
<1>1. TypeInv /\ CreditInv => OneBatchPerStop
  <2> SUFFICES ASSUME TypeInv, CreditInv, kind = "sensor"
               PROVE  Cardinality(Gaps) <= stops
    BY DEF OneBatchPerStop
  <2>1. Gaps = GapsOf(log, dropped)
    BY DEF Gaps, GapsOf, Row, RowOf, Missing, Skips
  <2>2. Cardinality(GapsOf(log, dropped)) <= Lost /\ Lost \in Nat
    BY StreamTypes, LostTypes DEF Lost
  <2>3. Cardinality(GapsOf(log, dropped)) \in Nat
    BY StreamTypes, GapsTypes
  <2>4. Lost <= stops /\ stops \in Nat
    BY Bounds DEF CreditInv, TypeInv, TypeOK
  <2>5. QED
    BY <2>1, <2>2, <2>3, <2>4
<1>2. QED
  BY <1>1, TypeInit, TypeNext, StreamInit, StreamNext, CreditInit,
     CreditNext, PTL DEF Spec
==========================================================================
