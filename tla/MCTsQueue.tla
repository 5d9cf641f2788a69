---------------------------- MODULE MCTsQueue ----------------------------
(* The ways the library's threads use a queue: one consumer that calls any *)
(* method, or several that remove items, fed one item at a time.           *)
EXTENDS TsQueue

VARIABLE several    \* are there several consumers

Plain(op) == [op |-> op, n |-> 0]

(* The pipeline threads and Python, each on a queue of its own.            *)
AllCalls ==
    {Plain(op) : op \in Ops \ {"pop_N", "pop_limit"}}
        \cup {[op |-> "pop_N", n |-> 2], [op |-> "pop_limit", n |-> 2]}

(* A sensor logger beside get_latest_data, or Python readers.              *)
TakingCalls ==
    {Plain("pop"), Plain("pop_all"), Plain("pop_all_for"),
     [op |-> "pop_limit", n |-> 2]}

Callers == IF several THEN Consumers ELSE {CHOOSE t \in Consumers : TRUE}
CallsMade == IF several THEN TakingCalls ELSE Calls
BatchSizes == IF several THEN {0, 1} ELSE 0..MaxBatch
Items == IF several THEN MaxPush - 1 ELSE MaxPush

Produce ==
    /\ push \/ \E k \in BatchSizes : push_all(k)
    /\ pushed' <= Items

MCInit == Init /\ several \in BOOLEAN

MCNext ==
    /\ \/ Produce
       \/ \E t \in Callers, c \in CallsMade : Invoke(t, c)
       \/ \E t \in Consumers : Resume(t)
       \/ \E t \in Consumers : Timeout(t)
       \/ \E t \in Consumers : SpuriousWakeup(t)
       \/ clear
       \/ \E n \in Lengths : set_queue_length(n)
    /\ UNCHANGED several

MCSpec == MCInit /\ [][MCNext]_<<vars, several>> /\ Fairness
==========================================================================
