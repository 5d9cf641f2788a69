---------------------- MODULE AcousticLoggerProofs -----------------------
(* Proofs about AcousticLogger for every format, window, number of packets *)
(* and length of the clock, and before them about the windows of its files.*)
EXTENDS AcousticLogger, TLAPS

LEMMA DivMod ==
    ASSUME NEW t \in Nat, NEW d \in Nat \ {0}
    PROVE  /\ t \div d \in Nat
           /\ t % d \in 0..(d - 1)
           /\ t = ((t \div d) * d) + (t % d)
OBVIOUS

LEMMA Product ==
    ASSUME NEW x \in Nat, NEW y \in Nat, NEW k \in Nat, x <= y
    PROVE  x * k <= y * k /\ x * k \in Nat
OBVIOUS

(* A file is opened strictly before its rollover time and at most one      *)
(* window ahead of it: the inner loop is entered, and a window that spans  *)
(* the turn of an hour is no exception.                                    *)
THEOREM RolloverAhead ==
    ASSUME NEW t \in Nat, NEW min \in Nat \cup {-1}
    PROVE  /\ rollover_time(t, min) \in Nat
           /\ t < rollover_time(t, min)
           /\ rollover_time(t, min) <= t + ChosenRollover(min) * Minute
<1> DEFINE r == ChosenRollover(min)
           u == tm_now(t)
           q == u \div Minute
           s == u % Minute
           m == tm_min(t) % r
           w == r - m
<1>0. u \in Nat /\ t <= u
  BY DaylightAssumption DEF tm_now
<1>1. r \in Nat \ {0}
  BY DEF ChosenRollover, rollover_min_default
<1>2. Minute \in Nat \ {0} /\ Hour \in Nat \ {0}
  BY CalendarAssumption
<1>3. q \in Nat /\ s \in 0..(Minute - 1) /\ u = (q * Minute) + s
  BY <1>0, <1>2, DivMod
<1>4. tm_min(t) \in Nat
  BY <1>2, <1>3, DivMod DEF tm_min
<1>5. m \in 0..(r - 1)
  BY <1>1, <1>4, DivMod
<1>6. w \in 1..r
  BY <1>1, <1>5
<1>7. rollover_time(t, min)
         = (q * Minute) - (m * Minute) + (r * Minute) - (u - t)
  BY DEF rollover_time, StartOfMinute
<1> HIDE DEF r, u, q, s, m, w
<1>8. (r * Minute) - (m * Minute) = w * Minute
  BY <1>1, <1>2, <1>5 DEF w
<1>9. 1 * Minute <= w * Minute /\ w * Minute <= r * Minute /\ r * Minute \in Nat
  BY <1>1, <1>2, <1>6, Product
<1>11. q * Minute \in Nat /\ w * Minute \in Nat /\ m * Minute \in Nat
  BY <1>2, <1>3, <1>5, <1>6
<1>10. rollover_time(t, min) = t + ((w * Minute) - s)
  <2> DEFINE qm == q * Minute
             mm == m * Minute
             rm == r * Minute
             wm == w * Minute
  <2>1. qm \in Nat /\ mm \in Nat /\ rm \in Nat /\ wm \in Nat
    BY <1>9, <1>11
  <2>2. rm - mm = wm /\ u = qm + s
    BY <1>3, <1>8
  <2>3. rollover_time(t, min) = qm - mm + rm - (u - t)
    BY <1>7
  <2> HIDE DEF qm, mm, rm, wm
  <2>4. rollover_time(t, min) = t + (wm - s)
    BY <1>0, <1>2, <1>3, <2>1, <2>2, <2>3
  <2>5. QED
    BY <2>4 DEF wm
<1>12. QED
  BY <1>1, <1>2, <1>3, <1>9, <1>10, <1>11 DEF r

--------------------------------------------------------------------------
(* The loggers.                                                            *)

Entry == [packet : Nat, file : Times]

(* How many of the packets pushed have left the queue.                     *)
taken == pushed - Len(queue)

(* The queue holds the newest packets, without a gap, and not too many.    *)
QueueInv ==
    /\ queue \in Seq(Nat)
    /\ pushed \in Nat
    /\ now \in Times
    /\ Len(queue) <= pushed /\ Len(queue) <= QueueLength
    /\ \A i \in 1..Len(queue) : queue[i] = taken + i

(* What has been written has left the queue.                               *)
LogInv ==
    /\ log \in Seq(Entry)
    /\ \A i \in 1..Len(log) : log[i].packet <= taken
    /\ WrittenInOrder

(* What has left the queue since a packet was written was dropped.         *)
DroppedSince(packet) ==
    packet <= taken /\ (packet + 1)..taken \subseteq dropped

(* While a file is open nobody else takes from the queue.                  *)
FileInv ==
    /\ disk \in [Names -> Seq(Nat)]
    /\ fntime \in [fname_time : Times, rollover : Nat] \cup {NoFile}
    /\ pc \in {"loop", "pop"} <=> fntime # NoFile
    /\ FileWindow
    /\ FilesHaveNoGaps
    /\ (fntime # NoFile /\ is_open /\ Len(disk[fname]) > 0) =>
          DroppedSince(disk[fname][Len(disk[fname])])

IInv == QueueInv /\ LogInv /\ FileInv

LEMMA AppendElements ==
    ASSUME NEW S, NEW q \in Seq(S), NEW e \in S
    PROVE  /\ Append(q, e) \in Seq(S)
           /\ Len(Append(q, e)) = Len(q) + 1
           /\ Append(q, e)[Len(q) + 1] = e
           /\ \A i \in 1..Len(q) : Append(q, e)[i] = q[i]
OBVIOUS

LEMMA ConcatElements ==
    ASSUME NEW S, NEW a \in Seq(S), NEW b \in Seq(S)
    PROVE  /\ a \o b \in Seq(S)
           /\ Len(a \o b) = Len(a) + Len(b)
           /\ \A i \in 1..Len(a) : (a \o b)[i] = a[i]
           /\ \A i \in (Len(a) + 1)..(Len(a) + Len(b)) :
                 (a \o b)[i] = b[i - Len(a)]
OBVIOUS

LEMMA TimesNat == Times \subseteq Nat /\ 0 \in Times
BY BoundsAssumption DEF Times

LEMMA NamesOf ==
    ASSUME NEW t \in Times
    PROVE  fname_str(t) \in Names
BY DEF Names

LEMMA NoFileIsNone ==
    ASSUME NEW f \in [fname_time : Times, rollover : Nat]
    PROVE  f # NoFile
<1>1. f.fname_time \in Nat
  BY TimesNat
<1>2. NoFile.fname_time = -1
  BY DEF NoFile
<1>3. QED
  BY <1>1, <1>2

(* The invariant looks at the logger's and the queue's variables only.     *)
LEMMA Unchanged ==
    ASSUME IInv, UNCHANGED <<offered, now, log, disk, fntime, is_open>>,
           pc' \in {"loop", "pop"} <=> pc \in {"loop", "pop"}
    PROVE  IInv'
BY DEF IInv, QueueInv, LogInv, FileInv, taken, WrittenInOrder, FileWindow,
       FilesHaveNoGaps, offered, fname, DroppedSince

LEMMA InitIInv == Init => IInv
<1> SUFFICES ASSUME Init
             PROVE  IInv
  OBVIOUS
<1>1. QueueInv
  BY TimesNat, QueueAssumption DEF Init, QueueInv, taken
<1>2. LogInv
  BY DEF Init, LogInv, WrittenInOrder
<1>3. FileInv
  BY DEF Init, FileInv, FileWindow, FilesHaveNoGaps
<1>4. QED
  BY <1>1, <1>2, <1>3 DEF IInv

(* The queue stays a run of the newest packets; the one it drops is the    *)
(* next that was to be taken.                                              *)
LEMMA PushedQueue ==
    ASSUME QueueInv, PushPacket
    PROVE  /\ queue' \in Seq(Nat) /\ pushed' = pushed + 1
           /\ Len(queue') <= pushed' /\ Len(queue') <= QueueLength
           /\ taken \in Nat /\ taken' \in Nat
           /\ \A i \in 1..Len(queue') : queue'[i] = taken' + i
           /\ \/ taken' = taken /\ dropped' = dropped
              \/ taken' = taken + 1 /\ dropped' = dropped \cup {taken + 1}
<1> DEFINE q == Append(queue, pushed + 1)
           n == Len(queue)
<1>1. /\ queue \in Seq(Nat) /\ n \in Nat /\ pushed \in Nat
      /\ n <= pushed /\ n <= QueueLength
      /\ \A i \in 1..n : queue[i] = taken + i
      /\ taken = pushed - n /\ taken \in Nat
  BY DEF QueueInv, taken
<1>2. /\ q \in Seq(Nat)
      /\ Len(q) = n + 1
      /\ q[n + 1] = pushed + 1
      /\ \A i \in 1..n : q[i] = queue[i]
  BY <1>1, AppendElements
<1>3. /\ pushed' = pushed + 1
      /\ \/ ~(Len(q) > QueueLength) /\ queue' = q /\ dropped' = dropped
         \/ /\ Len(q) > QueueLength
            /\ queue' = Tail(q) /\ dropped' = dropped \cup {Head(q)}
  BY DEF PushPacket
<1> HIDE DEF q, n
<1>4. ASSUME NEW i \in 1..(n + 1)
      PROVE  q[i] = taken + i
  <2>1. CASE i \in 1..n
    BY <1>1, <1>2, <2>1
  <2>2. CASE i = n + 1
    BY <1>1, <1>2, <2>2
  <2>3. QED
    BY <1>1, <2>1, <2>2
<1>5. CASE ~(Len(q) > QueueLength) /\ queue' = q /\ dropped' = dropped
  <2>1. Len(queue') = n + 1 /\ taken' = taken
    BY <1>1, <1>2, <1>3, <1>5 DEF taken
  <2>2. QED
    BY <1>1, <1>2, <1>3, <1>4, <1>5, <2>1, QueueAssumption
<1>6. CASE /\ Len(q) > QueueLength
           /\ queue' = Tail(q) /\ dropped' = dropped \cup {Head(q)}
  <2>1. /\ Tail(q) \in Seq(Nat) /\ Len(Tail(q)) = n /\ Head(q) = q[1]
        /\ \A i \in 1..n : Tail(q)[i] = q[i + 1]
    BY <1>1, <1>2
  <2>2. Head(q) = taken + 1
    BY <1>1, <1>4, <2>1
  <2>3. Len(queue') = n /\ taken' = taken + 1
    BY <1>1, <1>3, <1>6, <2>1 DEF taken
  <2>4. ASSUME NEW i \in 1..n
        PROVE  queue'[i] = taken' + i
    <3>1. i + 1 \in 1..(n + 1)
      BY <1>1
    <3>2. queue'[i] = taken + (i + 1)
      BY <1>4, <1>6, <2>1, <3>1
    <3>3. QED
      BY <1>1, <2>3, <3>2
  <2>5. QED
    BY <1>1, <1>3, <1>6, <2>1, <2>2, <2>3, <2>4
<1>7. QED
  BY <1>3, <1>5, <1>6

LEMMA PushPacketIInv == IInv /\ PushPacket => IInv'
<1> SUFFICES ASSUME IInv, PushPacket
             PROVE  IInv'
  OBVIOUS
<1>1. UNCHANGED <<now, pc, fntime, is_open, disk, log>>
  BY DEF PushPacket, files
<1>2. QueueInv'
  BY <1>1, PushedQueue DEF IInv, QueueInv
<1>3. taken \in Nat /\ taken' \in Nat /\ taken <= taken'
      /\ dropped \subseteq dropped'
  BY PushedQueue DEF IInv
<1>4. LogInv'
  <2>1. \A i \in 1..Len(log) : log[i] \in Entry /\ log[i].packet <= taken
    BY DEF IInv, LogInv
  <2>2. \A i \in 1..Len(log) : log[i].packet <= taken'
    BY <1>3, <2>1 DEF Entry
  <2>3. QED
    BY <1>1, <2>2 DEF IInv, LogInv, WrittenInOrder
<1>5. FilesHaveNoGaps'
  BY <1>1, <1>3 DEF IInv, FileInv, FilesHaveNoGaps
<1>6. fname' = fname
  BY <1>1 DEF fname
<1>7. ASSUME fntime # NoFile, is_open, Len(disk[fname]) > 0
      PROVE  DroppedSince(disk[fname][Len(disk[fname])])'
  <2> DEFINE last == disk[fname][Len(disk[fname])]
  <2>1. fname \in Names
    BY <1>7, NamesOf DEF IInv, FileInv, fname
  <2>2. last \in Nat /\ DroppedSince(last)
    BY <1>7, <2>1 DEF IInv, FileInv
  <2>3. last' = last
    BY <1>1, <1>6
  <2> HIDE DEF last
  <2>4. DroppedSince(last)'
    <3>1. /\ taken \in Nat
          /\ \/ taken' = taken /\ dropped' = dropped
             \/ taken' = taken + 1 /\ dropped' = dropped \cup {taken + 1}
      BY PushedQueue DEF IInv
    <3>2. last <= taken /\ (last + 1)..taken \subseteq dropped
      BY <2>2 DEF DroppedSince
    <3>3. last <= taken' /\ (last + 1)..taken' \subseteq dropped'
      BY <2>2, <3>1, <3>2
    <3>4. QED
      BY <2>3, <3>3 DEF DroppedSince
  <2>5. QED
    BY <2>4 DEF last
<1>8. FileInv'
  BY <1>1, <1>5, <1>6, <1>7 DEF IInv, FileInv, FileWindow
<1>9. QED
  BY <1>2, <1>4, <1>8 DEF IInv

LEMMA TickIInv == IInv /\ Tick => IInv'
<1> SUFFICES ASSUME IInv, Tick
             PROVE  IInv'
  OBVIOUS
<1>1. UNCHANGED <<queue, pushed, dropped, pc, fntime, is_open, disk, log>>
  BY DEF Tick, files, offered
<1>2. now' \in Times
  BY BoundsAssumption DEF Tick, Times, IInv, QueueInv
<1>3. QueueInv'
  BY <1>1, <1>2 DEF IInv, QueueInv, taken
<1>4. LogInv'
  BY <1>1 DEF IInv, LogInv, taken, WrittenInOrder
<1>5. FileInv'
  BY <1>1 DEF IInv, FileInv, taken, FileWindow, FilesHaveNoGaps, fname,
              DroppedSince
<1>6. QED
  BY <1>3, <1>4, <1>5 DEF IInv

(* The new file is empty, and the window begins before it and ends after.  *)
LEMMA OpenFileIInv == IInv /\ OpenFile => IInv'
<1> SUFFICES ASSUME IInv, OpenFile
             PROVE  IInv'
  OBVIOUS
<1> DEFINE f == [fname_time |-> now,
               rollover |-> rollover_time(now, RolloverMin)]
           name == fname_str(now)
<1>1. /\ UNCHANGED <<queue, pushed, dropped, now, log>>
      /\ fntime' = f
      /\ pc' = "loop"
      /\ \/ is_open' = TRUE /\ disk' = [disk EXCEPT ![name] = <<>>]
         \/ is_open' = FALSE /\ disk' = disk
  BY DEF OpenFile, shared, offered
<1>2. now \in Times /\ now \in Nat /\ name \in Names
  BY TimesNat, NamesOf DEF IInv, QueueInv
<1>3. /\ rollover_time(now, RolloverMin) \in Nat
      /\ now < rollover_time(now, RolloverMin)
      /\ rollover_time(now, RolloverMin)
            <= now + ChosenRollover(RolloverMin) * Minute
  BY <1>2, RolloverAssumption, RolloverAhead
<1>4. f \in [fname_time : Times, rollover : Nat] /\ f.fname_time = now
  BY <1>2, <1>3
<1>5. f # NoFile /\ fname' = name
  BY <1>1, <1>4, NoFileIsNone DEF fname
<1> HIDE DEF name
<1>6. FileWindow'
  BY <1>1, <1>3 DEF FileWindow
<1>7. QueueInv' /\ LogInv'
  BY <1>1 DEF IInv, QueueInv, LogInv, taken, WrittenInOrder
<1>8. /\ disk' \in [Names -> Seq(Nat)]
      /\ FilesHaveNoGaps'
      /\ is_open' => Len(disk'[name]) = 0
  <2>1. CASE disk' = [disk EXCEPT ![name] = <<>>]
    <3>1. <<>> \in Seq(Nat) /\ Len(<<>>) = 0
      OBVIOUS
    <3>2. disk' \in [Names -> Seq(Nat)] /\ disk'[name] = <<>>
      BY <1>2, <2>1, <3>1 DEF IInv, FileInv
    <3>3. \A t \in Names : t # name => disk'[t] = disk[t]
      BY <1>2, <2>1 DEF IInv, FileInv
    <3>4. ASSUME NEW t \in Names, NEW i \in 1..(Len(disk'[t]) - 1)
          PROVE  /\ disk'[t][i] < disk'[t][i + 1]
                 /\ (disk'[t][i] + 1)..(disk'[t][i + 1] - 1) \subseteq dropped'
      <4>1. t # name
        BY <3>1, <3>2
      <4>2. QED
        BY <1>1, <3>3, <4>1 DEF IInv, FileInv, FilesHaveNoGaps
    <3>5. FilesHaveNoGaps'
      BY <3>4 DEF FilesHaveNoGaps
    <3>6. QED
      BY <3>1, <3>2, <3>5
  <2>2. CASE is_open' = FALSE /\ disk' = disk
    BY <1>1, <2>2 DEF IInv, FileInv, FilesHaveNoGaps
  <2>3. QED
    BY <1>1, <2>1, <2>2
<1>9. FileInv'
  BY <1>1, <1>4, <1>5, <1>6, <1>8 DEF FileInv
<1>10. QED
  BY <1>7, <1>9 DEF IInv

LEMMA TestIInv == IInv /\ Test => IInv'
<1> SUFFICES ASSUME IInv, Test
             PROVE  IInv'
  OBVIOUS
<1>1. UNCHANGED <<offered, now, log, disk>>
  BY DEF Test, shared
<1>2. CASE Continues
  BY <1>1, <1>2, Unchanged DEF Test
<1>3. CASE ~Continues
  <2>1. pc' = "top" /\ fntime' = NoFile
    BY <1>3 DEF Test
  <2>2. QueueInv' /\ LogInv'
    BY <1>1 DEF IInv, QueueInv, LogInv, taken, WrittenInOrder, offered
  <2>3. FileInv'
    BY <1>1, <2>1 DEF IInv, FileInv, FileWindow, FilesHaveNoGaps, offered
  <2>4. QED
    BY <2>2, <2>3 DEF IInv
<1>4. QED
  BY <1>2, <1>3

LEMMA ClearIInv == IInv /\ Clear => IInv'
<1> SUFFICES ASSUME IInv, Clear
             PROVE  IInv'
  OBVIOUS
<1>1. /\ queue' = <<>> /\ pc = "off" /\ pc' = "top"
      /\ UNCHANGED <<pushed, dropped, now, fntime, is_open, disk, log>>
  BY DEF Clear, files
<1>2. <<>> \in Seq(Nat) /\ Len(<<>>) = 0
  OBVIOUS
<1>3. QueueInv'
  BY <1>1, <1>2, QueueAssumption DEF IInv, QueueInv
<1>4. taken <= taken' /\ taken \in Nat /\ taken' \in Nat
  BY <1>1, <1>2 DEF IInv, QueueInv, taken
<1>5. LogInv'
  <2>1. \A i \in 1..Len(log) : log[i] \in Entry
    BY DEF IInv, LogInv
  <2>2. \A i \in 1..Len(log) : log[i].packet \in Nat
    BY <2>1 DEF Entry
  <2>3. QED
    BY <1>1, <1>4, <2>2 DEF IInv, LogInv, WrittenInOrder
<1>6. FileInv'
  BY <1>1 DEF IInv, FileInv, FileWindow, FilesHaveNoGaps
<1>7. QED
  BY <1>3, <1>5, <1>6 DEF IInv

LEMMA EntriesType ==
    ASSUME IInv, fntime # NoFile
    PROVE  /\ Entries(queue) \in Seq(Entry)
           /\ Len(Entries(queue)) = Len(queue)
           /\ \A i \in 1..Len(queue) : Entries(queue)[i].packet = queue[i]
<1>1. queue \in Seq(Nat) /\ fntime.fname_time \in Times
  BY DEF IInv, QueueInv, FileInv
<1>2. ASSUME NEW i \in 1..Len(queue)
      PROVE  [packet |-> queue[i], file |-> fntime.fname_time] \in Entry
  <2>1. queue[i] \in Nat
    BY <1>1
  <2>2. QED
    BY <1>1, <2>1 DEF Entry
<1>3. DOMAIN queue = 1..Len(queue) /\ Len(queue) \in Nat
  BY <1>1
<1>4. QED
  BY <1>2, <1>3 DEF Entries

(* The batch continues both the log and the open file, which end with the  *)
(* packet before it.                                                       *)
LEMMA WriteIInv == IInv /\ Write => IInv'
<1> SUFFICES ASSUME IInv, Write
             PROVE  IInv'
  OBVIOUS
<1>1. /\ queue' = <<>> /\ pc = "pop" /\ pc' = "loop"
      /\ UNCHANGED <<pushed, dropped, now, fntime, is_open>>
      /\ Len(queue) > 0
      /\ \/ /\ is_open
            /\ disk' = [disk EXCEPT ![fname] = @ \o queue]
            /\ log' = log \o Entries(queue)
         \/ ~is_open /\ UNCHANGED <<disk, log>>
  BY DEF Write, IInv, QueueInv
<1>2. <<>> \in Seq(Nat) /\ Len(<<>>) = 0
  OBVIOUS
<1>3. QueueInv'
  BY <1>1, <1>2, QueueAssumption DEF IInv, QueueInv
<1>4. /\ taken \in Nat /\ taken' \in Nat
      /\ taken' = taken + Len(queue)
      /\ Len(queue) \in Nat
  BY <1>1, <1>2 DEF IInv, QueueInv, taken
<1>5. /\ fntime # NoFile /\ fntime.fname_time \in Times
      /\ fname \in Names /\ fname' = fname
  BY <1>1, NamesOf DEF IInv, FileInv, fname
<1>6. CASE ~is_open
  <2>1. UNCHANGED <<disk, log>>
    BY <1>1, <1>6
  <2>2. \A i \in 1..Len(log) : log[i] \in Entry
    BY DEF IInv, LogInv
  <2>3. \A i \in 1..Len(log) : log[i].packet \in Nat
    BY <2>2 DEF Entry
  <2>4. LogInv'
    BY <1>4, <2>1, <2>3 DEF IInv, LogInv, WrittenInOrder
  <2>5. FileInv'
    BY <1>1, <1>6, <2>1 DEF IInv, FileInv, FileWindow, FilesHaveNoGaps
  <2>6. QED
    BY <1>3, <2>4, <2>5 DEF IInv
<1>7. CASE is_open
  <2> DEFINE new == Entries(queue)
             f == fname
             n == Len(queue)
  <2>1. log' = log \o new /\ disk' = [disk EXCEPT ![f] = @ \o queue]
    BY <1>1, <1>7
  <2>2. /\ new \in Seq(Entry) /\ Len(new) = n
        /\ \A i \in 1..n : new[i].packet = queue[i]
    BY <1>5, EntriesType
  <2>3. /\ queue \in Seq(Nat) /\ n \in Nat /\ n > 0
        /\ \A i \in 1..n : queue[i] = taken + i
    BY <1>1 DEF IInv, QueueInv
  <2>4. log \in Seq(Entry) /\ Len(log) \in Nat
    BY DEF IInv, LogInv
  <2> HIDE DEF new, n
  <2>5. /\ log' \in Seq(Entry)
        /\ Len(log') = Len(log) + n
        /\ \A i \in 1..Len(log) : log'[i] = log[i]
        /\ \A i \in (Len(log) + 1)..(Len(log) + n) :
              log'[i] = new[i - Len(log)]
    BY <2>1, <2>2, <2>4, ConcatElements
  <2>6. \A i \in 1..Len(log) :
           log'[i].packet <= taken /\ log'[i].packet \in Nat
    <3>1. \A i \in 1..Len(log) : log[i] \in Entry /\ log[i].packet <= taken
      BY DEF IInv, LogInv
    <3>2. QED
      BY <2>5, <3>1 DEF Entry
  <2>7. \A i \in (Len(log) + 1)..(Len(log) + n) :
           log'[i].packet = taken + (i - Len(log))
    <3> SUFFICES ASSUME NEW i \in (Len(log) + 1)..(Len(log) + n)
                 PROVE  log'[i].packet = taken + (i - Len(log))
      OBVIOUS
    <3>1. i - Len(log) \in 1..n
      BY <2>3, <2>4
    <3>2. QED
      BY <2>2, <2>3, <2>5, <3>1
  <2>8. \A i \in 1..Len(log') : log'[i].packet <= taken'
    <3> SUFFICES ASSUME NEW i \in 1..(Len(log) + n)
                 PROVE  log'[i].packet <= taken + n
      BY <1>4, <2>5 DEF n
    <3>1. CASE i \in 1..Len(log)
      BY <1>4, <2>3, <2>6, <3>1
    <3>2. CASE i \in (Len(log) + 1)..(Len(log) + n)
      <4>1. i - Len(log) <= n
        BY <2>3, <2>4, <3>2
      <4>2. log'[i].packet = taken + (i - Len(log))
        BY <2>7, <3>2
      <4>3. QED
        BY <1>4, <2>3, <2>4, <4>1, <4>2
    <3>3. QED
      BY <2>3, <2>4, <3>1, <3>2
  <2>9. WrittenInOrder'
    <3>1. DOMAIN log = 1..Len(log) /\ DOMAIN log' = 1..(Len(log) + n)
      BY <2>4, <2>5
    <3>2. \A i, j \in 1..Len(log) :
             i < j => log'[i].packet < log'[j].packet
      BY <2>5, <3>1 DEF IInv, LogInv, WrittenInOrder
    <3>3. ASSUME NEW i \in 1..(Len(log) + n), NEW j \in 1..(Len(log) + n),
                 i < j
          PROVE  log'[i].packet < log'[j].packet
      <4>1. CASE j \in 1..Len(log)
        <5>1. i \in 1..Len(log)
          BY <2>4, <3>3, <4>1
        <5>2. QED
          BY <3>2, <3>3, <4>1, <5>1
      <4>2. CASE j \in (Len(log) + 1)..(Len(log) + n)
        BY <1>4, <2>4, <2>6, <2>7, <3>3, <4>2
      <4>3. QED
        BY <2>3, <2>4, <4>1, <4>2
    <3>4. QED
      BY <3>1, <3>3 DEF WrittenInOrder
  <2>10. LogInv'
    BY <2>5, <2>8, <2>9 DEF LogInv
  <2>11. disk \in [Names -> Seq(Nat)] /\ disk[f] \in Seq(Nat)
         /\ Len(disk[f]) \in Nat
    BY <1>5 DEF IInv, FileInv
  <2>12. /\ disk[f] \o queue \in Seq(Nat)
         /\ Len(disk[f] \o queue) = Len(disk[f]) + n
         /\ \A i \in 1..Len(disk[f]) : (disk[f] \o queue)[i] = disk[f][i]
         /\ \A i \in (Len(disk[f]) + 1)..(Len(disk[f]) + n) :
               (disk[f] \o queue)[i] = queue[i - Len(disk[f])]
    BY <2>3, <2>11, ConcatElements DEF n
  <2>13. /\ disk'[f] = disk[f] \o queue
         /\ \A t \in Names : t # f => disk'[t] = disk[t]
         /\ disk' \in [Names -> Seq(Nat)]
    BY <1>5, <2>1, <2>11, <2>12
  <2>14. \A i \in (Len(disk[f]) + 1)..(Len(disk[f]) + n) :
            disk'[f][i] = taken + (i - Len(disk[f]))
    <3> SUFFICES ASSUME NEW i \in (Len(disk[f]) + 1)..(Len(disk[f]) + n)
                 PROVE  disk'[f][i] = taken + (i - Len(disk[f]))
      OBVIOUS
    <3>1. i - Len(disk[f]) \in 1..n
      BY <2>3, <2>11
    <3>2. QED
      BY <2>3, <2>12, <2>13, <3>1
  <2>15. ASSUME Len(disk[f]) > 0
         PROVE  /\ disk'[f][Len(disk[f])] \in Nat
                /\ disk'[f][Len(disk[f])] <= taken
                /\ (disk'[f][Len(disk[f])] + 1)..taken \subseteq dropped
    <3>1. DroppedSince(disk[f][Len(disk[f])])
      BY <1>5, <1>7, <2>15 DEF IInv, FileInv
    <3>2. /\ disk'[f][Len(disk[f])] = disk[f][Len(disk[f])]
          /\ disk[f][Len(disk[f])] \in Nat
      BY <2>11, <2>12, <2>13, <2>15
    <3>3. QED
      BY <3>1, <3>2 DEF DroppedSince
  <2>16. ASSUME NEW t \in Names, NEW i \in 1..(Len(disk'[t]) - 1)
         PROVE  /\ disk'[t][i] < disk'[t][i + 1]
                /\ (disk'[t][i] + 1)..(disk'[t][i + 1] - 1) \subseteq dropped
    <3>1. CASE t # f
      BY <2>13, <3>1 DEF IInv, FileInv, FilesHaveNoGaps
    <3>2. CASE t = f
      <4> DEFINE k == Len(disk[f])
      <4>1. k \in Nat /\ i \in 1..(k + n - 1) /\ n \in Nat
        BY <2>3, <2>11, <2>12, <2>13, <3>2
      <4>2. CASE i < k
        <5>1. i \in 1..(k - 1) /\ i \in 1..k /\ i + 1 \in 1..k
          BY <4>1, <4>2
        <5>2. /\ disk[f][i] < disk[f][i + 1]
              /\ (disk[f][i] + 1)..(disk[f][i + 1] - 1) \subseteq dropped
          BY <1>5, <5>1 DEF IInv, FileInv, FilesHaveNoGaps
        <5>3. QED
          BY <2>12, <2>13, <3>2, <5>1, <5>2
      <4>3. CASE i = k
        <5>1. i + 1 \in (k + 1)..(k + n) /\ k > 0 /\ (i + 1) - k = 1
          BY <2>3, <4>1, <4>3
        <5>2. disk'[f][i + 1] = taken + 1
          BY <2>14, <5>1
        <5>3. /\ disk'[f][i] \in Nat /\ disk'[f][i] <= taken
              /\ (disk'[f][i] + 1)..taken \subseteq dropped
          BY <2>15, <4>3, <5>1
        <5> HIDE DEF k
        <5>4. disk'[f][i + 1] - 1 = taken /\ disk'[f][i] < disk'[f][i + 1]
          BY <1>4, <5>2, <5>3
        <5>5. QED
          BY <3>2, <5>3, <5>4
      <4>4. CASE i > k
        <5>1. i \in (k + 1)..(k + n) /\ i + 1 \in (k + 1)..(k + n)
          BY <1>4, <4>1, <4>4
        <5>2. /\ disk'[f][i] = taken + (i - k)
              /\ disk'[f][i + 1] = taken + ((i + 1) - k)
          BY <2>14, <5>1
        <5> HIDE DEF k
        <5>3. QED
          BY <1>4, <3>2, <4>1, <5>2
      <4>5. QED
        BY <4>1, <4>2, <4>3, <4>4
    <3>3. QED
      BY <3>1, <3>2
  <2>17. FilesHaveNoGaps'
    BY <1>1, <2>16 DEF FilesHaveNoGaps
  <2>18. DroppedSince(disk[f][Len(disk[f])])'
    <3>1. /\ Len(disk'[f]) = Len(disk[f]) + n
          /\ Len(disk[f]) + n \in (Len(disk[f]) + 1)..(Len(disk[f]) + n)
          /\ (Len(disk[f]) + n) - Len(disk[f]) = n
      BY <2>3, <2>11, <2>12, <2>13
    <3>2. disk'[f][Len(disk'[f])] = taken + n
      BY <2>14, <3>1
    <3>3. disk'[f][Len(disk'[f])] = taken'
      BY <1>4, <3>2 DEF n
    <3>4. DroppedSince(taken)'
      BY <1>4 DEF DroppedSince
    <3>5. QED
      BY <1>5, <3>3, <3>4 DEF DroppedSince
  <2>19. FileInv'
    BY <1>1, <1>5, <2>13, <2>17, <2>18 DEF IInv, FileInv, FileWindow
  <2>20. QED
    BY <1>3, <2>10, <2>19 DEF IInv
<1>8. QED
  BY <1>6, <1>7

LEMMA NextIInv == IInv /\ [Next]_vars => IInv'
<1> SUFFICES ASSUME IInv, [Next]_vars
             PROVE  IInv'
  OBVIOUS
<1>1. CASE TakePackets \/ SeeActive
  BY <1>1, Unchanged DEF TakePackets, SeeActive, files
<1>2. CASE PushPacket
  BY <1>2, PushPacketIInv
<1>3. CASE start_logging
  BY <1>3, Unchanged DEF start_logging, files
<1>4. CASE stop_logging
  BY <1>4, Unchanged DEF stop_logging, files
<1>5. CASE stop_threads
  BY <1>5, Unchanged DEF stop_threads, files
<1>6. CASE Tick
  BY <1>6, TickIInv
<1>7. CASE Peek
  BY <1>7, Unchanged DEF Peek, shared, files
<1>8. CASE Top
  BY <1>8, Unchanged DEF Top, shared, files
<1>9. CASE OpenFile
  BY <1>9, OpenFileIInv
<1>10. CASE Test
  BY <1>10, TestIInv
<1>11. CASE Write
  BY <1>11, WriteIInv
<1>12. CASE Clear
  BY <1>12, ClearIInv
<1>13. CASE UNCHANGED vars
  BY <1>13, Unchanged DEF vars, shared, files
<1>14. QED
  BY <1>1, <1>2, <1>3, <1>4, <1>5, <1>6, <1>7, <1>8, <1>9, <1>10, <1>11,
     <1>12, <1>13 DEF Next, Helper, Logger

LEMMA Invariance == Spec => []IInv
<1>1. QED
  BY InitIInv, NextIInv, PTL DEF Spec

(* Packets reach the files in the order they were pushed and none twice,   *)
(* however often logging is stopped, restarted and rolled over.            *)
THEOREM LogIsOrdered == Spec => []WrittenInOrder
<1>1. IInv => WrittenInOrder
  BY DEF IInv, LogInv
<1>2. QED
  BY <1>1, Invariance, PTL

(* Every file holds packets in ascending order, and between two of them    *)
(* only those are missing that the full queue has dropped.                 *)
THEOREM FilesAreRuns == Spec => []FilesHaveNoGaps
<1>1. IInv => FilesHaveNoGaps
  BY DEF IInv, FileInv
<1>2. QED
  BY <1>1, Invariance, PTL

(* An open file's rollover is ahead of its opening, by one window at most. *)
THEOREM WindowsAreAhead == Spec => []FileWindow
<1>1. IInv => FileWindow
  BY DEF IInv, FileInv
<1>2. QED
  BY <1>1, Invariance, PTL

--------------------------------------------------------------------------
(* Types.                                                                  *)

(* A helper that has taken packets has some to push.                       *)
TypeInv == TypeOK /\ (helper # "rest" => pushed < MaxPackets)

TypedEntry == [packet : 1..MaxPackets, file : Times]

LEMMA SeqElement ==
    ASSUME NEW S, NEW s \in Seq(S), NEW i \in 1..Len(s)
    PROVE  s[i] \in S
OBVIOUS

LEMMA TypeInit == Init => TypeInv
<1> SUFFICES ASSUME Init
             PROVE  TypeInv
  OBVIOUS
<1>1. /\ <<>> \in Seq(1..MaxPackets) /\ <<>> \in Seq(TypedEntry)
      /\ Len(<<>>) = 0
  OBVIOUS
<1>2. disk \in [Names -> Seq(1..MaxPackets)]
  BY <1>1 DEF Init
<1>3. Len(queue) <= QueueLength
  BY <1>1, QueueAssumption DEF Init
<1>4. now \in Times /\ pushed \in 0..MaxPackets /\ stops \in 0..MaxStops
  BY TimesNat, BoundsAssumption DEF Init
<1>5. QED
  BY <1>1, <1>2, <1>3, <1>4
     DEF Init, TypeInv, TypeOK, TypedEntry

LEMMA TypeHelper ==
    ASSUME IInv, TypeInv, Helper
    PROVE  TypeInv'
<1>1. CASE TakePackets \/ SeeActive
  BY <1>1 DEF TypeInv, TypeOK, TakePackets, SeeActive, setup, offered, files
<1>2. CASE PushPacket
  <2>1. pushed + 1 \in 1..MaxPackets /\ pushed + 1 \in 0..MaxPackets
    BY <1>2, BoundsAssumption DEF TypeInv, TypeOK, PushPacket
  <2> DEFINE q == Append(queue, pushed + 1)
  <2>2. q \in Seq(1..MaxPackets) /\ Len(q) > 0
    BY <2>1, AppendElements DEF TypeInv, TypeOK
  <2>3. Tail(q) \in Seq(1..MaxPackets) /\ Head(q) \in 1..MaxPackets
    <3> HIDE DEF q
    <3>1. q # <<>> /\ Head(q) = q[1] /\ q[1] \in 1..MaxPackets
      <4>1. 1 \in 1..Len(q) /\ Head(q) = q[1]
        BY <2>2
      <4>2. q[1] \in 1..MaxPackets
        BY <2>2, <4>1, SeqElement
      <4>3. q # <<>>
        BY <2>2
      <4>4. QED
        BY <4>1, <4>2, <4>3
    <3>2. Tail(q) \in Seq(1..MaxPackets)
      BY <2>2, <3>1
    <3>3. QED
      BY <3>1, <3>2
  <2>4. /\ \/ queue' = q /\ dropped' = dropped
           \/ queue' = Tail(q) /\ dropped' = dropped \cup {Head(q)}
    BY <1>2 DEF PushPacket
  <2> HIDE DEF q
  <2>5. queue' \in Seq(1..MaxPackets) /\ dropped' \subseteq 1..MaxPackets
    BY <2>2, <2>3, <2>4 DEF TypeInv, TypeOK
  <2>6. Len(queue') <= QueueLength
    BY <1>2, PushedQueue DEF IInv
  <2>7. QED
    BY <1>2, <2>1, <2>5, <2>6 DEF TypeInv, TypeOK, PushPacket, setup, files
<1>3. QED
  BY <1>1, <1>2 DEF Helper

LEMMA TypeOthers ==
    ASSUME TypeInv,
           \/ start_logging \/ stop_logging \/ stop_threads \/ Tick
           \/ UNCHANGED vars
    PROVE  TypeInv'
<1>1. CASE start_logging \/ stop_threads \/ UNCHANGED vars
  BY <1>1 DEF TypeInv, TypeOK, start_logging, stop_threads, vars, shared,
              setup, offered, files
<1>2. CASE stop_logging
  <2>1. stops' \in 0..MaxStops
    BY <1>2, BoundsAssumption DEF TypeInv, TypeOK, stop_logging
  <2>2. QED
    BY <1>2, <2>1 DEF TypeInv, TypeOK, stop_logging, setup, offered, files
<1>3. CASE Tick
  <2>1. now' \in Times
    BY <1>3, BoundsAssumption DEF TypeInv, TypeOK, Tick, Times
  <2>2. QED
    BY <1>3, <2>1 DEF TypeInv, TypeOK, Tick, setup, offered, files
<1>4. QED
  BY <1>1, <1>2, <1>3

LEMMA TypeWrite ==
    ASSUME IInv, TypeInv, Write
    PROVE  TypeInv'
<1>1. /\ queue \in Seq(1..MaxPackets) /\ fntime # NoFile
      /\ fntime.fname_time \in Times /\ fname \in Names
      /\ disk \in [Names -> Seq(1..MaxPackets)]
      /\ log \in Seq(TypedEntry)
  BY NamesOf DEF TypeInv, TypeOK, TypedEntry, Write, fname
<1>2. Entries(queue) \in Seq(TypedEntry)
  <2>1. ASSUME NEW i \in 1..Len(queue)
        PROVE  [packet |-> queue[i], file |-> fntime.fname_time] \in TypedEntry
    <3>1. queue[i] \in 1..MaxPackets
      BY <1>1, SeqElement
    <3>2. QED
      BY <1>1, <3>1 DEF TypedEntry
  <2>2. DOMAIN queue = 1..Len(queue) /\ Len(queue) \in Nat
    BY <1>1
  <2>3. QED
    BY <2>1, <2>2 DEF Entries
<1>3. log' \in Seq(TypedEntry)
  <2>1. log' = log \o Entries(queue) \/ log' = log
    BY DEF Write
  <2>2. log \o Entries(queue) \in Seq(TypedEntry)
    BY <1>1, <1>2, ConcatElements
  <2>3. QED
    BY <1>1, <2>1, <2>2
<1>4. disk' \in [Names -> Seq(1..MaxPackets)]
  <2>1. \/ disk' = [disk EXCEPT ![fname] = @ \o queue]
        \/ disk' = disk
    BY DEF Write
  <2>2. disk[fname] \o queue \in Seq(1..MaxPackets)
    BY <1>1, ConcatElements
  <2>3. QED
    BY <1>1, <2>1, <2>2
<1>5. queue' \in Seq(1..MaxPackets) /\ Len(queue') <= QueueLength
  <2>1. Len(<<>>) = 0
    OBVIOUS
  <2>2. QED
    BY <2>1, QueueAssumption DEF Write
<1>6. QED
  BY <1>1, <1>3, <1>4, <1>5 DEF TypeInv, TypeOK, TypedEntry, Write, setup

LEMMA TypeLogger ==
    ASSUME IInv, TypeInv, Logger
    PROVE  TypeInv'
<1>1. CASE Peek \/ Top
  BY <1>1 DEF TypeInv, TypeOK, Peek, Top, shared, setup, offered, files
<1>2. CASE OpenFile
  <2>1. now \in Nat
    BY TimesNat DEF TypeInv, TypeOK
  <2>2. rollover_time(now, RolloverMin) \in Nat
    BY <2>1, RolloverAssumption, RolloverAhead
  <2>3. fntime' \in [fname_time : Times, rollover : Nat] /\ fntime' # NoFile
    BY <1>2, <2>2, NoFileIsNone DEF OpenFile, TypeInv, TypeOK
  <2>4. disk' \in [Names -> Seq(1..MaxPackets)]
    <3>1. <<>> \in Seq(1..MaxPackets)
      OBVIOUS
    <3>2. QED
      BY <1>2, <3>1, NamesOf DEF OpenFile, TypeInv, TypeOK
  <2>5. is_open' \in BOOLEAN
    BY <1>2 DEF OpenFile
  <2>6. QED
    BY <1>2, <2>3, <2>4, <2>5 DEF TypeInv, TypeOK, OpenFile, shared, setup, offered
<1>3. CASE Test
  BY <1>3 DEF TypeInv, TypeOK, Test, shared, setup, offered
<1>4. CASE Write
  BY <1>4, TypeWrite
<1>5. CASE Clear
  <2>1. Len(<<>>) = 0
    OBVIOUS
  <2>2. QED
    BY <1>5, <2>1, QueueAssumption
       DEF TypeInv, TypeOK, Clear, setup, files
<1>6. QED
  BY <1>1, <1>2, <1>3, <1>4, <1>5 DEF Logger

LEMMA TypeNext == IInv /\ TypeInv /\ [Next]_vars => TypeInv'
BY TypeHelper, TypeOthers, TypeLogger DEF Next

(* Every variable keeps its type.                                          *)
THEOREM TypeCorrect == Spec => []TypeOK
<1>1. TypeInv => TypeOK
  BY DEF TypeInv
<1>2. QED
  BY TypeInit, TypeNext, Invariance, <1>1, PTL DEF Spec

--------------------------------------------------------------------------
(* Nothing is lost while logging is never stopped.                         *)

calm == stops = 0 /\ openable

(* About to open a file.                                                   *)
Waiting == pc = "opening" \/ (pc = "top" /\ keep_alive)

Written ==
    \A i \in DOMAIN log : InItsFile(log[i]) \/ CameAgain(log[i].file, now)

(* What has left the queue was written or dropped.                         *)
InLog(n) == \E i \in DOMAIN log : log[i].packet = n
Accounted == \A n \in 1..taken : n \in dropped \/ InLog(n)

(* A file is opened once: what was written is in files of earlier seconds. *)
CalmInv ==
    calm =>
        /\ pc # "off"
        /\ pc = "init" => log = <<>>
        /\ (Waiting \/ pc \in {"loop", "pop"}) => logging_active
        /\ pc \in {"loop", "pop"} =>
              /\ is_open
              /\ \A i \in DOMAIN log : log[i].file <= fntime.fname_time
        /\ Waiting => \A i \in DOMAIN log : log[i].file < now
        /\ Written
        /\ Accounted

LEMMA CalmInit == Init => CalmInv
<1> SUFFICES ASSUME Init
             PROVE  CalmInv
  OBVIOUS
<1>1. log = <<>> /\ queue = <<>> /\ pushed = 0 /\ pc = "init"
  BY DEF Init
<1>2. Len(<<>>) = 0 /\ DOMAIN <<>> = {}
  OBVIOUS
<1>3. Written
  BY <1>1, <1>2, Zenon DEF Written
<1>4. Accounted
  <2>1. Len(queue) = 0 /\ pushed = 0
    BY <1>1, <1>2, Zenon
  <2>2. taken = 0
    BY <2>1 DEF taken
  <2>3. QED
    BY <2>2 DEF Accounted
<1>5. QED
  BY <1>1, <1>3, <1>4 DEF CalmInv, Waiting

LEMMA LogFilesNat ==
    ASSUME IInv, NEW i \in DOMAIN log
    PROVE  log[i].file \in Times /\ log[i].file \in Nat
<1>1. log \in Seq(Entry) /\ DOMAIN log = 1..Len(log)
  BY DEF IInv, LogInv
<1>2. log[i] \in Entry
  BY <1>1, SeqElement
<1>3. QED
  BY <1>2, TimesNat DEF Entry

(* A name that has come round again has done so for good.                  *)
LEMMA StillCameAgain ==
    ASSUME NEW t \in Nat, NEW m \in Nat, NEW n \in Nat, m <= n,
           CameAgain(t, m)
    PROVE  CameAgain(t, n)
<1>1. PICK u \in (t + 1)..m : fname_str(u) = fname_str(t)
  BY DEF CameAgain
<1>2. u \in (t + 1)..n
  OBVIOUS
<1>3. QED
  BY <1>1, <1>2 DEF CameAgain

LEMMA WrittenKept ==
    ASSUME IInv, Written, UNCHANGED <<log, disk>>, now' \in {now, now + 1}
    PROVE  Written'
<1>1. now \in Nat /\ now' \in Nat /\ now <= now'
  BY TimesNat DEF IInv, QueueInv
<1>2. ASSUME NEW i \in DOMAIN log
      PROVE  InItsFile(log[i])' \/ CameAgain(log[i].file, now')
  <2>1. CASE InItsFile(log[i])
    BY <2>1 DEF InItsFile
  <2>2. CASE CameAgain(log[i].file, now)
    BY <1>1, <2>2, LogFilesNat, StillCameAgain
  <2>3. QED
    BY <2>1, <2>2 DEF Written
<1>3. QED
  BY <1>2 DEF Written, InItsFile

LEMMA AccountedKept ==
    ASSUME Accounted, taken' = taken, UNCHANGED <<dropped, log>>
    PROVE  Accounted'
BY DEF Accounted, InLog

(* What a step that leaves the files alone has to keep.                    *)
LEMMA CalmKept ==
    ASSUME IInv, CalmInv,
           UNCHANGED <<log, disk, fntime, is_open, stops, openable>>,
           now' \in {now, now + 1},
           calm => (Accounted => Accounted'),
           calm => pc' # "off",
           calm => (pc' = "init" => log = <<>>),
           calm => ((Waiting' \/ pc' \in {"loop", "pop"}) => logging_active'),
           pc' \in {"loop", "pop"} => pc \in {"loop", "pop"},
           calm => (Waiting' => \A i \in DOMAIN log : log[i].file < now')
    PROVE  CalmInv'
<1>1. calm' = calm
  BY DEF calm
<1>2. calm => Written'
  BY WrittenKept DEF CalmInv
<1>3. QED
  BY <1>1, <1>2 DEF CalmInv

LEMMA CalmPush ==
    ASSUME IInv, CalmInv, PushPacket
    PROVE  CalmInv'
<1>1. Accounted => Accounted'
  <2>1. /\ taken \in Nat
        /\ \/ taken' = taken /\ dropped' = dropped
           \/ taken' = taken + 1 /\ dropped' = dropped \cup {taken + 1}
    BY PushedQueue DEF IInv
  <2>2. UNCHANGED log
    BY DEF PushPacket, files
  <2>3. CASE taken' = taken /\ dropped' = dropped
    BY <2>2, <2>3, AccountedKept
  <2>4. CASE taken' = taken + 1 /\ dropped' = dropped \cup {taken + 1}
    <3> SUFFICES ASSUME Accounted, NEW n \in 1..(taken + 1)
                 PROVE  n \in dropped' \/ InLog(n)
      BY <2>2, <2>4 DEF Accounted, InLog
    <3>1. CASE n \in 1..taken
      BY <2>4, <3>1 DEF Accounted
    <3>2. CASE n = taken + 1
      BY <2>4, <3>2
    <3>3. QED
      BY <2>1, <3>1, <3>2
  <2>5. QED
    BY <2>1, <2>3, <2>4
<1>2. UNCHANGED <<setup, logging_active, keep_alive, now, stops, pc, files>>
  BY DEF PushPacket
<1>3. QED
  BY <1>1, <1>2, CalmKept DEF CalmInv, Waiting, setup, files

LEMMA CalmOthers ==
    ASSUME IInv, TypeInv, CalmInv,
           \/ TakePackets \/ SeeActive \/ start_logging \/ stop_logging
           \/ stop_threads \/ Tick \/ UNCHANGED vars
    PROVE  CalmInv'
<1>1. CASE TakePackets \/ SeeActive \/ UNCHANGED vars
  <2>1. UNCHANGED <<setup, offered, logging_active, keep_alive, now, stops,
                    pc, files>>
    BY <1>1 DEF TakePackets, SeeActive, vars, shared
  <2>2. Accounted => Accounted'
    BY <2>1, AccountedKept DEF taken, offered, files
  <2>3. QED
    BY <2>1, <2>2, CalmKept DEF CalmInv, Waiting, setup, files
<1>2. CASE start_logging \/ stop_threads
  <2>1. UNCHANGED <<setup, offered, now, stops, pc, files>>
    BY <1>2 DEF start_logging, stop_threads
  <2>2. Accounted => Accounted'
    BY <2>1, AccountedKept DEF taken, offered, files
  <2>3. /\ Waiting' => Waiting
        /\ logging_active => logging_active'
    BY <1>2 DEF start_logging, stop_threads, Waiting
  <2>4. QED
    BY <2>1, <2>2, <2>3, CalmKept DEF CalmInv, setup, files
<1>3. CASE stop_logging
  <2>1. stops' # 0
    BY <1>3, BoundsAssumption DEF TypeInv, TypeOK, stop_logging
  <2>2. QED
    BY <2>1 DEF CalmInv, calm
<1>4. CASE Tick
  <2>1. UNCHANGED <<setup, offered, logging_active, keep_alive, stops, pc,
                    files>>
    BY <1>4 DEF Tick
  <2>2. Accounted => Accounted'
    BY <2>1, AccountedKept DEF taken, offered, files
  <2>3. ASSUME NEW i \in DOMAIN log, log[i].file < now
        PROVE  log[i].file < now'
    <3>1. now \in Nat /\ now' = now + 1
      BY <1>4, TimesNat DEF Tick, IInv, QueueInv
    <3>2. QED
      BY <2>3, <3>1, LogFilesNat
  <2>4. QED
    <3>1. now' = now + 1
      BY <1>4 DEF Tick
    <3>2. calm => (Waiting' => \A i \in DOMAIN log : log[i].file < now')
      BY <2>1, <2>3 DEF CalmInv, Waiting
    <3>3. QED
      BY <2>1, <2>2, <3>1, <3>2, CalmKept DEF CalmInv, Waiting, setup, files
<1>5. QED
  BY <1>1, <1>2, <1>3, <1>4

(* A rollover is over when the clock has passed the file's window, so the  *)
(* next file is of a later second.                                         *)
LEMMA CalmTest ==
    ASSUME IInv, TypeInv, CalmInv, Test
    PROVE  CalmInv'
<1>1. /\ UNCHANGED <<setup, offered, logging_active, keep_alive, now, stops,
                     disk, log>>
      /\ pc = "loop"
  BY DEF Test, shared
<1>2. Accounted => Accounted'
  BY <1>1, AccountedKept DEF taken, offered
<1>3. CASE Continues
  <2>1. pc' = "pop" /\ UNCHANGED <<fntime, is_open>>
    BY <1>3 DEF Test
  <2>2. QED
    BY <1>1, <1>2, <2>1, CalmKept DEF CalmInv, Waiting, setup
<1>4. CASE ~Continues
  <2>1. pc' = "top"
    BY <1>4 DEF Test
  <2>2. ASSUME calm, keep_alive, NEW i \in DOMAIN log
        PROVE  log[i].file < now
    <3>1. logging_active /\ is_open /\ log[i].file <= fntime.fname_time
      BY <1>1, <2>2 DEF CalmInv
    <3>2. ~(now < fntime.rollover)
      BY <1>4, <2>2, <3>1 DEF Continues
    <3>3. fntime # NoFile /\ fntime \in [fname_time : Times, rollover : Nat]
      BY <1>1 DEF IInv, FileInv
    <3>4. fntime.fname_time \in Nat /\ fntime.rollover \in Nat
      BY <3>3, TimesNat
    <3>5. fntime.fname_time < fntime.rollover
      BY <3>3 DEF IInv, FileInv, FileWindow
    <3>6. now \in Nat /\ log[i].file \in Nat
      BY TimesNat, LogFilesNat DEF IInv, QueueInv
    <3>7. QED
      BY <3>1, <3>2, <3>4, <3>5, <3>6
  <2>3. calm' = calm /\ (Written => Written')
    BY <1>1, WrittenKept DEF calm, setup
  <2>4. QED
    BY <1>1, <1>2, <2>1, <2>2, <2>3 DEF CalmInv, Waiting
<1>5. QED
  BY <1>3, <1>4

(* The file that is emptied is one nothing was written to.                 *)
LEMMA CalmOpenFile ==
    ASSUME IInv, TypeInv, CalmInv, OpenFile
    PROVE  CalmInv'
<1> SUFFICES ASSUME calm'
             PROVE  CalmInv'
  BY DEF CalmInv
<1> DEFINE name == fname_str(now)
<1>1. UNCHANGED <<setup, offered, logging_active, now, stops, log>>
  BY DEF OpenFile, shared
<1>2. calm /\ (Accounted => Accounted')
  BY <1>1, AccountedKept DEF calm, taken, offered, setup
<1>3. /\ pc' = "loop" /\ is_open' = TRUE
      /\ fntime'.fname_time = now
      /\ disk' = [disk EXCEPT ![name] = <<>>]
  BY <1>2 DEF OpenFile, calm
<1>4. logging_active /\ \A i \in DOMAIN log : log[i].file < now
  BY <1>2 DEF CalmInv, Waiting, OpenFile
<1>5. /\ now \in Nat /\ now' = now /\ name \in Names
      /\ disk \in [Names -> Seq(Nat)]
  BY <1>1, TimesNat, NamesOf DEF IInv, QueueInv, FileInv
<1>6. ASSUME NEW i \in DOMAIN log
      PROVE  /\ log[i].file <= now
             /\ InItsFile(log[i])' \/ CameAgain(log[i].file, now')
  <2>1. /\ log[i].file \in Times /\ log[i].file \in Nat
        /\ log[i].file < now /\ log[i].file <= now
    BY <1>4, <1>5, LogFilesNat
  <2>2. fname_str(log[i].file) \in Names
    BY <2>1, NamesOf
  <2>3. CASE fname_str(log[i].file) = name
    <3>1. now \in (log[i].file + 1)..now
      BY <1>5, <2>1
    <3>2. CameAgain(log[i].file, now)
      BY <2>3, <3>1 DEF CameAgain
    <3>3. QED
      BY <1>5, <2>1, <3>2
  <2>4. CASE fname_str(log[i].file) # name
    <3>1. disk'[fname_str(log[i].file)] = disk[fname_str(log[i].file)]
      BY <1>3, <1>5, <2>2, <2>4
    <3>2. InItsFile(log[i]) \/ CameAgain(log[i].file, now)
      BY <1>2 DEF CalmInv, Written
    <3>3. InItsFile(log[i]) => InItsFile(log[i])'
      BY <1>1, <3>1 DEF InItsFile
    <3>4. QED
      BY <1>5, <2>1, <3>2, <3>3
  <2>5. QED
    BY <2>3, <2>4
<1>7. Written'
  BY <1>1, <1>6 DEF Written, InItsFile
<1>8. QED
  BY <1>1, <1>2, <1>3, <1>4, <1>6, <1>7 DEF CalmInv, Waiting

(* The batch follows what was written last, and is found in the file.      *)
LEMMA CalmWrite ==
    ASSUME IInv, TypeInv, CalmInv, Write
    PROVE  CalmInv'
<1> SUFFICES ASSUME calm'
             PROVE  CalmInv'
  BY DEF CalmInv
<1> DEFINE new == Entries(queue)
           f == fname
           n == Len(queue)
<1>1. calm
  BY DEF calm, Write, setup
<1>2. /\ pc = "pop" /\ pc' = "loop" /\ is_open
      /\ UNCHANGED <<logging_active, keep_alive, now, fntime, is_open, pushed,
                     dropped>>
      /\ logging_active
      /\ \A i \in DOMAIN log : log[i].file <= fntime.fname_time
  BY <1>1 DEF CalmInv, Write
<1>3. /\ log' = log \o new
      /\ disk' = [disk EXCEPT ![f] = @ \o queue]
      /\ queue' = <<>>
  BY <1>2 DEF Write
<1>4. /\ fntime # NoFile /\ f \in Names /\ now' = now
      /\ fntime.fname_time \in Times /\ fntime.fname_time \in Nat
  BY <1>2, TimesNat, NamesOf DEF IInv, FileInv, fname
<1>5. /\ new \in Seq(Entry) /\ Len(new) = n
      /\ \A i \in 1..n : new[i].packet = queue[i]
  BY <1>4, EntriesType
<1>6. \A i \in 1..n : new[i].file = fntime.fname_time
  <2>1. DOMAIN queue = 1..n
    BY DEF IInv, QueueInv
  <2>2. QED
    BY <2>1 DEF Entries
<1>7. /\ queue \in Seq(Nat) /\ n \in Nat /\ n > 0
      /\ \A i \in 1..n : queue[i] = taken + i
  BY DEF Write, IInv, QueueInv
<1>8. log \in Seq(Entry) /\ Len(log) \in Nat /\ DOMAIN log = 1..Len(log)
  BY DEF IInv, LogInv
<1>20. fname_str(fntime.fname_time) = f
  BY DEF fname
<1> HIDE DEF new, n, f
<1>9. /\ log' \in Seq(Entry)
      /\ Len(log') = Len(log) + n
      /\ \A i \in 1..Len(log) : log'[i] = log[i]
      /\ \A i \in (Len(log) + 1)..(Len(log) + n) :
            log'[i] = new[i - Len(log)]
  BY <1>3, <1>5, <1>8, ConcatElements
<1>10. DOMAIN log' = 1..(Len(log) + n)
  BY <1>9
<1>11. disk \in [Names -> Seq(Nat)] /\ disk[f] \in Seq(Nat)
       /\ Len(disk[f]) \in Nat /\ DOMAIN disk[f] = 1..Len(disk[f])
  BY <1>4 DEF IInv, FileInv
<1>12. /\ disk[f] \o queue \in Seq(Nat)
       /\ Len(disk[f] \o queue) = Len(disk[f]) + n
       /\ \A i \in 1..Len(disk[f]) : (disk[f] \o queue)[i] = disk[f][i]
       /\ \A i \in (Len(disk[f]) + 1)..(Len(disk[f]) + n) :
             (disk[f] \o queue)[i] = queue[i - Len(disk[f])]
  BY <1>7, <1>11, ConcatElements DEF n
<1>13. /\ disk'[f] = disk[f] \o queue
       /\ \A t \in Names : t # f => disk'[t] = disk[t]
  BY <1>3, <1>4, <1>11
<1>14. DOMAIN disk'[f] = 1..(Len(disk[f]) + n)
  BY <1>12, <1>13
<1>15. ASSUME NEW i \in 1..(Len(log) + n)
       PROVE  /\ log'[i].file <= fntime.fname_time
              /\ InItsFile(log[i])' \/ CameAgain(log'[i].file, now)
  <2>1. CASE i \in 1..Len(log)
    <3> DEFINE g == fname_str(log[i].file)
    <3>1. /\ log'[i] = log[i] /\ log[i].file <= fntime.fname_time
          /\ g \in Names
      BY <1>2, <1>8, <1>9, <2>1, LogFilesNat, NamesOf
    <3>2. CASE CameAgain(log[i].file, now)
      BY <3>1, <3>2
    <3>3. CASE InItsFile(log[i])
      <4>1. PICK k \in DOMAIN disk[g] : disk[g][k] = log[i].packet
        BY <3>3 DEF InItsFile
      <4>2. k \in DOMAIN disk'[g] /\ disk'[g][k] = log[i].packet
        <5>1. CASE g = f
          <6>1. k \in 1..Len(disk[f]) /\ disk'[f][k] = disk[f][k]
            BY <1>11, <1>12, <1>13, <4>1, <5>1
          <6>2. k \in DOMAIN disk'[f]
            BY <1>7, <1>11, <1>14, <6>1
          <6>3. QED
            BY <4>1, <5>1, <6>1, <6>2
        <5>2. CASE g # f
          BY <1>13, <3>1, <4>1, <5>2
        <5>3. QED
          BY <5>1, <5>2
      <4>3. InItsFile(log[i])'
        BY <3>1, <4>2 DEF InItsFile
      <4>4. QED
        BY <3>1, <4>3
    <3>4. QED
      BY <1>1, <1>8, <2>1, <3>2, <3>3 DEF CalmInv, Written
  <2>2. CASE i \in (Len(log) + 1)..(Len(log) + n)
    <3> DEFINE j == i - Len(log)
               k == Len(disk[f]) + j
    <3>1. j \in 1..n /\ log'[i] = new[j]
      BY <1>7, <1>8, <1>9, <2>2
    <3>2. log'[i].file = fntime.fname_time /\ log'[i].packet = queue[j]
      BY <1>5, <1>6, <3>1
    <3>3. /\ k \in (Len(disk[f]) + 1)..(Len(disk[f]) + n)
          /\ k - Len(disk[f]) = j
          /\ k \in 1..(Len(disk[f]) + n)
      BY <1>7, <1>8, <1>11, <3>1
    <3> HIDE DEF j, k
    <3>4. disk'[f][k] = queue[j]
      BY <1>12, <1>13, <3>3
    <3>5. fname_str(log'[i].file) = f /\ log'[i].file <= fntime.fname_time
      BY <1>4, <1>20, <3>2
    <3>6. InItsFile(log[i])'
      BY <1>14, <3>2, <3>3, <3>4, <3>5 DEF InItsFile
    <3>7. QED
      BY <3>5, <3>6
  <2>3. QED
    BY <1>7, <1>8, <2>1, <2>2
<1>16. Written'
  BY <1>4, <1>10, <1>15 DEF Written
<1>17. Accounted'
  <2>1. taken' = taken + n /\ taken \in Nat
    <3>1. Len(<<>>) = 0
      OBVIOUS
    <3>2. pushed \in Nat /\ Len(queue) \in Nat /\ Len(queue) <= pushed
      BY DEF IInv, QueueInv
    <3>3. QED
      BY <1>2, <1>3, <3>1, <3>2 DEF taken, n
  <2>2. ASSUME NEW m \in 1..taken
        PROVE  m \in dropped \/ InLog(m)'
    <3>1. CASE InLog(m)
      <4>1. PICK i \in 1..Len(log) : log[i].packet = m
        BY <1>8, <3>1 DEF InLog
      <4>2. i \in DOMAIN log' /\ log'[i].packet = m
        BY <1>7, <1>8, <1>9, <1>10, <4>1
      <4>3. QED
        BY <4>2 DEF InLog
    <3>2. QED
      BY <1>1, <3>1 DEF CalmInv, Accounted
  <2>3. ASSUME NEW m \in (taken + 1)..(taken + n)
        PROVE  InLog(m)'
    <3> DEFINE j == m - taken
               i == Len(log) + j
    <3>1. /\ j \in 1..n /\ taken + j = m
          /\ i \in (Len(log) + 1)..(Len(log) + n) /\ i - Len(log) = j
          /\ i \in 1..(Len(log) + n)
      BY <1>7, <1>8, <2>1
    <3> HIDE DEF j, i
    <3>2. log'[i].packet = m
      BY <1>5, <1>7, <1>9, <3>1
    <3>3. QED
      BY <1>10, <3>1, <3>2 DEF InLog
  <2>4. QED
    <3>1. ASSUME NEW m \in 1..(taken + n)
          PROVE  m \in dropped \/ InLog(m)'
      <4>1. CASE m \in 1..taken
        BY <2>2, <4>1
      <4>2. CASE m \in (taken + 1)..(taken + n)
        BY <2>3, <4>2
      <4>3. QED
        BY <1>7, <2>1, <4>1, <4>2
    <3>2. QED
      BY <1>2, <2>1, <3>1 DEF Accounted, InLog
<1>18. \A i \in DOMAIN log' : log'[i].file <= fntime'.fname_time
  BY <1>2, <1>10, <1>15
<1>19. QED
  BY <1>2, <1>16, <1>17, <1>18 DEF CalmInv, Waiting

LEMMA CalmLogger ==
    ASSUME IInv, TypeInv, CalmInv, Logger
    PROVE  CalmInv'
<1>1. CASE Peek
  <2>1. /\ UNCHANGED <<setup, offered, logging_active, keep_alive, now, stops,
                       files>>
        /\ pc = "init" /\ pc' = "top"
        /\ keep_alive => logging_active
    BY <1>1 DEF Peek, shared
  <2>2. Accounted => Accounted'
    BY <2>1, AccountedKept DEF taken, offered, files
  <2>3. calm => \A i \in DOMAIN log : log[i].file < now'
    <3>1. DOMAIN <<>> = {}
      OBVIOUS
    <3>2. QED
      BY <2>1, <3>1 DEF CalmInv
  <2>4. QED
    BY <2>1, <2>2, <2>3, CalmKept DEF Waiting, setup, files
<1>2. CASE Top
  <2>1. /\ UNCHANGED <<setup, offered, logging_active, keep_alive, now, stops,
                       files>>
        /\ pc = "top"
        /\ pc' = IF ~keep_alive THEN "exited"
                 ELSE IF logging_active THEN "opening" ELSE "off"
    BY <1>2 DEF Top, shared
  <2>2. Accounted => Accounted'
    BY <2>1, AccountedKept DEF taken, offered, files
  <2>3. QED
    BY <2>1, <2>2, CalmKept DEF CalmInv, Waiting, setup, files
<1>3. CASE OpenFile
  BY <1>3, CalmOpenFile
<1>4. CASE Test
  BY <1>4, CalmTest
<1>5. CASE Write
  BY <1>5, CalmWrite
<1>6. CASE Clear
  BY <1>6 DEF Clear, CalmInv, calm, setup
<1>7. QED
  BY <1>1, <1>2, <1>3, <1>4, <1>5, <1>6 DEF Logger

LEMMA CalmNext == IInv /\ TypeInv /\ CalmInv /\ [Next]_vars => CalmInv'
BY CalmPush, CalmOthers, CalmLogger DEF Next, Helper

(* While logging was never stopped and the files open, every packet pushed *)
(* is queued, was written or was dropped by the full queue, and every one  *)
(* written is in its file unless the file's name came round again.         *)
THEOREM NothingIsLost == Spec => []NothingLostUnlessStopped
<1>1. ASSUME IInv, CalmInv
      PROVE  NothingLostUnlessStopped
  <2> SUFFICES ASSUME calm
               PROVE  /\ Written
                      /\ \A n \in 1..pushed :
                            \/ n \in dropped
                            \/ \E i \in DOMAIN queue : queue[i] = n
                            \/ InLog(n)
    BY DEF NothingLostUnlessStopped, calm, Written, InLog
  <2>1. Written /\ Accounted
    BY <1>1 DEF CalmInv
  <2>2. ASSUME NEW n \in 1..pushed, n \notin 1..taken
        PROVE  \E i \in DOMAIN queue : queue[i] = n
    <3>1. /\ queue \in Seq(Nat) /\ Len(queue) \in Nat /\ pushed \in Nat
          /\ DOMAIN queue = 1..Len(queue)
          /\ \A i \in 1..Len(queue) : queue[i] = taken + i
      BY <1>1 DEF IInv, QueueInv
    <3>2. n - taken \in 1..Len(queue) /\ taken + (n - taken) = n
      BY <1>1, <2>2, <3>1 DEF IInv, QueueInv, taken
    <3>3. QED
      BY <3>1, <3>2
  <2>3. QED
    BY <2>1, <2>2 DEF Accounted
<1>2. QED
  BY TypeInit, TypeNext, CalmInit, CalmNext, Invariance, <1>1, PTL DEF Spec
==========================================================================
