--------------------------- MODULE Datagrams ----------------------------
(* The socket thread (utils/UdpSocketIn.cpp) from recv to the queues of    *)
(* the clients: what a datagram is taken for (check_msg_id), what is made  *)
(* of it (udp_protocols/), and to whom it is pushed while clients register.*)
(* run_socket_main_thread is the same loop, but takes every datagram for   *)
(* an acoustic one.                                                        *)
(*                                                                         *)
(* Sizes are the real ones, in bytes.  A sensor's reading is one value; an *)
(* acoustic sample is its number in the datagram.  Frames of several ACBR  *)
(* and ACBC datagrams are the subject of BeamReassembly.                   *)
EXTENDS BeamCodec

CONSTANTS
    Received,       \* the datagrams that may come
    Clients,        \* those that call register_client
    Solitary,       \* lists to which a queue is registered on its own
    MaxDatagrams    \* bound: datagrams received

(* Datagrams hold their tag, and no channel count is zero.                 *)
ASSUME ReceivedAssumption ==
    \A d \in Received :
        /\ d.size \in Nat /\ d.size >= 10
        /\ d.id = "AC" => d.num_channels \in Nat \ {0} /\ d.num_values \in Nat
ASSUME BoundAssumption == MaxDatagrams \in Nat

(* The lists of queues v_q_aco, v_q_beam2d, ... in the order in which      *)
(* register_client goes through them; "out" is v_out_queue.                *)
Order == <<"aco", "beam2d", "beamraw", "pts", "imu", "bno", "bnr", "ept",
           "rtc">>
Lists == Range(Order) \cup {"out"}

ASSUME ClientsAssumption == "solitary" \notin Clients /\ Solitary \subseteq Lists

VARIABLES
    on_main,    \* is this run_socket_main_thread
    lists,      \* the lists of queues
    joining,    \* the list to which register_client adds a client next
    object,     \* what was made of the last datagram
    walk,       \* lists of which the queues are still to be pushed to
    position,   \* the queue in the first of them to be pushed to
    end,        \* the end of that list, as read when the loop began
    received,   \* datagrams received
    queues,     \* what each client has been pushed, list by list
    handed,     \* history: objects for which the loop over a list began
    since,      \* history: how many those were when a client joined
    loop_status \* "running" or "undefined"

members == <<lists, joining, since>>
loop == <<object, walk, position, end>>
socketVars == <<on_main, members, loop, received, queues, handed, loop_status>>

(* A queue is the client and the list it was registered to.                *)
Queues == (Clients \X Range(Order)) \cup ({"solitary"} \X Solitary)

--------------------------------------------------------------------------
(* The parsers.  An object keeps the datagram it was made from in "of".    *)

HeaderSize == 12            \* sizeof(UdpData::Header)
BeamHeaderSize(id) == IF id = "ACB2" THEN 75 ELSE 79

(* Each sensor class: a header if there is one, and a reading if it has    *)
(* the right length; else what the constructors of header and record set.  *)
Sensor(d, length, reading, default) ==
    [of |-> d,
     start_time_nsec |-> IF d.size >= HeaderSize THEN d.start * 10 ELSE -1,
     reading |-> IF d.size - HeaderSize = length THEN reading ELSE default]

Bcd(byte) == (byte % 16) + 10 * (byte \div 16)

UdpPtsData(d) == Sensor(d, 8, d.value, 0)
UdpBnoData(d) == Sensor(d, 8, d.value, 0)
UdpBnrData(d) == Sensor(d, 11, d.value, 0)
UdpRtcData(d) == Sensor(d, 8, Bcd(d.value), 0)

(* ept: a unit of pressure is a tenth of a mbar when tagged EP.            *)
UdpEptData(d) ==
    Sensor(d, 8, <<d.value, IF d.id = "EP" THEN 10 ELSE 100>>, <<0, 100>>)

(* imu: accelerations and rates are read, pitch and roll divide themselves.*)
UdpImuData(d) ==
    Sensor(d, 20, [sensed |-> d.value, pitch_roll |-> 0],
                  [sensed |-> 0, pitch_roll |-> 0])

(* Before version 4 the header has no tick time, but must be as long.      *)
AcousticHeaderSize(ver_maj) == IF ver_maj >= 4 THEN 47 ELSE 39

AcousticHeader(d) ==
    [num_channels |-> d.num_channels, num_values |-> d.num_values,
     packet_num |-> d.packet_num]
DefaultAcousticHeader ==
    [num_channels |-> 8, num_values |-> 0, packet_num |-> 0]

(* Samples of all channels follow each other: a column per sample time,    *)
(* and what does not fill a column is not read.                            *)
unpack_acoustic(h) ==
    [t \in 1..(h.num_values \div h.num_channels) |->
        [c \in 1..h.num_channels |-> (t - 1) * h.num_channels + c]]

UdpAcousticData(d) ==
    LET valid == d.id = "AC" /\ d.size >= 47
        whole == d.size - AcousticHeaderSize(d.ver_maj) = d.num_values * 2
    IN  [of |-> d,
         header |-> IF valid THEN AcousticHeader(d) ELSE DefaultAcousticHeader,
         data |-> IF valid /\ whole
                  THEN unpack_acoustic(AcousticHeader(d))
                  ELSE <<>>]

(* UdpBeamform2D, and UdpBeamformRaw of a primary packet: a frame of more  *)
(* packets than one is unpacked when its continuations have come, and is   *)
(* pushed without data here.                                               *)
DefaultBeamHeader == [start_time_nsec |-> <<-1, -1>>]

UdpBeamform2D(d) ==
    IF d.size >= BeamHeaderSize(d.id)
    THEN LET h == decode_header2D(d.header)
         IN  [of |-> d, header |-> h, data |-> unpack2D(h, d.payload)]
    ELSE [of |-> d, header |-> DefaultBeamHeader]

NoBeam == [vectors |-> [v \in Range(Vectors) |-> <<>>], beampattern |-> <<>>]

UdpBeamformRaw(d) ==
    IF d.size >= BeamHeaderSize(d.id)
    THEN LET h == decode_headerRaw(d.header)
         IN  [of |-> d, header |-> h,
              data |-> IF h.num_subpackets = 1 THEN unpackRaw(h, d.payload)
                       ELSE NoBeam]
    ELSE [of |-> d, header |-> DefaultBeamHeader]

IsBeam2D(d) ==
    LET h == decode_header2D(d.header)
    IN  IsHeader(d.header, CountFields) /\ IsPayload(h, d.payload, 1)

IsBeamRaw(d) ==
    LET h == decode_headerRaw(d.header)
    IN  /\ IsHeader(d.header, CountFields \cup {"num_subpackets"})
        /\ h.num_subpackets > 0
        /\ h.num_subpackets = 1 => IsPayload(h, d.payload, h.num_frequencies)

(* Datagrams that are long enough for the header of a beam hold one, and a *)
(* frame in one packet its payload.                                        *)
ASSUME BeamsAssumption ==
    \A d \in Received :
        d.id \in {"ACB2", "ACBR"} /\ d.size >= BeamHeaderSize(d.id) =>
            IF d.id = "ACB2" THEN IsBeam2D(d) ELSE IsBeamRaw(d)

--------------------------------------------------------------------------
(* The loop.                                                               *)

(* BR is the tag of a bnr record, ED another of an ept one.                *)
check_msg_id(d) ==
    CASE d.id = "ACB2" -> "beam2d"
      [] d.id = "ACBR" -> "beamraw"
      [] d.id = "AC" -> "aco"
      [] d.id = "PT" -> "pts"
      [] d.id = "IM" -> "imu"
      [] d.id \in {"EP", "ED"} -> "ept"
      [] d.id = "RT" -> "rtc"
      [] d.id = "BN" -> "bno"
      [] d.id = "BR" -> "bnr"
      [] OTHER -> "unknown"

MessageId(d) == IF on_main THEN "aco" ELSE check_msg_id(d)

ParsedObject(d) ==
    LET id == MessageId(d)
    IN  CASE id = "beam2d" -> UdpBeamform2D(d)
          [] id = "beamraw" -> UdpBeamformRaw(d)
          [] id = "aco" -> UdpAcousticData(d)
          [] id = "pts" -> UdpPtsData(d)
          [] id = "imu" -> UdpImuData(d)
          [] id = "ept" -> UdpEptData(d)
          [] id = "rtc" -> UdpRtcData(d)
          [] id = "bno" -> UdpBnoData(d)
          [] id = "bnr" -> UdpBnrData(d)
          [] OTHER -> object

check_any_data(aco_data) == TRUE    \* mutant: any packet will do

check_aco_data(aco_data) ==
    Len(aco_data.data)
        = aco_data.header.num_values \div aco_data.header.num_channels

(* The lists whose queues the object is pushed to, in order.               *)
Destinations(d) ==
    LET id == MessageId(d)
    IN  CASE id = "aco" ->
               IF check_aco_data(ParsedObject(d)) THEN <<"aco", "out">> ELSE <<>>
          [] id = "beamraw" ->
               IF ParsedObject(d).header.start_time_nsec[2] >= 0
               THEN <<"beamraw">> ELSE <<>>
          [] id = "unknown" -> <<>>
          [] OTHER -> <<id>>

(* for (auto q : v): the bounds of v are read once.                        *)
BeginLoop(l, o) ==
    /\ position' = 1
    /\ end' = Len(lists[l])
    /\ handed' = [handed EXCEPT ![l] = Append(@, o)]

BeginFirst(todo, o) ==
    /\ walk' = todo
    /\ IF todo = <<>>
       THEN UNCHANGED <<position, end, handed>>
       ELSE BeginLoop(Head(todo), o)

Receive(d) ==
    /\ loop_status = "running"
    /\ walk = <<>>
    /\ received < MaxDatagrams
    /\ received' = received + 1
    /\ object' = ParsedObject(d)
    /\ BeginFirst(Destinations(d), object')
    /\ UNCHANGED <<on_main, members, queues, loop_status>>

PushObject ==
    /\ loop_status = "running"
    /\ walk # <<>> /\ position <= end
    /\ LET q == lists[Head(walk)][position]
       IN  queues' = [queues EXCEPT ![q] = Append(@, object)]
    /\ position' = position + 1
    /\ UNCHANGED <<on_main, members, object, walk, end, received, handed,
                   loop_status>>

EndLoop ==
    /\ loop_status = "running"
    /\ walk # <<>> /\ position > end
    /\ BeginFirst(Tail(walk), object)
    /\ UNCHANGED <<on_main, members, object, received, queues, loop_status>>

--------------------------------------------------------------------------
(* Registering, from another thread, without a lock.                       *)

Walking(l) == walk # <<>> /\ Head(walk) = l /\ position <= end

AddInFront(q) ==            \* mutant: the queues in the list change places
    LET l == q[2]
    IN  /\ lists' = [lists EXCEPT ![l] = <<q>> \o @]
        /\ since' = [since EXCEPT ![q] = Len(handed[l])]
        /\ \/ UNCHANGED loop_status
           \/ Walking(l) /\ loop_status' = "undefined"

(* push_back moves the vector when it has no room left, and whether it has *)
(* is not modelled: a loop over it may go on in memory that was freed.     *)
Add(q) ==
    LET l == q[2]
    IN  /\ lists' = [lists EXCEPT ![l] = Append(@, q)]
        /\ since' = [since EXCEPT ![q] = Len(handed[l])]
        /\ \/ UNCHANGED loop_status
           \/ Walking(l) /\ loop_status' = "undefined"

register_client(c) ==
    /\ loop_status = "running"
    /\ joining[c] <= Len(Order)
    /\ Add(<<c, Order[joining[c]]>>)
    /\ joining' = [joining EXCEPT ![c] = @ + 1]
    /\ UNCHANGED <<on_main, loop, received, queues, handed>>

(* register_client_aco (to v_out_queue), register_client_pts and the like. *)
register_client_one(l) ==
    /\ loop_status = "running"
    /\ since[<<"solitary", l>>] = -1
    /\ Add(<<"solitary", l>>)
    /\ UNCHANGED <<on_main, joining, loop, received, queues, handed>>

SocketInit ==
    /\ on_main \in BOOLEAN
    /\ lists = [l \in Lists |-> <<>>]
    /\ joining = [c \in Clients |-> 1]
    /\ object = <<>>
    /\ walk = <<>>
    /\ position = 1
    /\ end = 0
    /\ received = 0
    /\ queues = [q \in Queues |-> <<>>]
    /\ handed = [l \in Lists |-> <<>>]
    /\ since = [q \in Queues |-> -1]
    /\ loop_status = "running"

SocketNext ==
    \/ \E d \in Received : Receive(d)
    \/ PushObject
    \/ EndLoop
    \/ \E c \in Clients : register_client(c)
    \/ \E l \in Solitary : register_client_one(l)

SocketSpec == SocketInit /\ [][SocketNext]_socketVars

--------------------------------------------------------------------------
(* Properties.                                                             *)

Objects(l) == {handed[l][i] : i \in DOMAIN handed[l]}

(* Whoever registers, and when: a client is pushed everything its list is  *)
(* given from then on, once, in the order received, and nothing before;    *)
(* unless a registration moved the list the thread was going through.      *)
OnceInOrderSinceJoined ==
    loop_status = "running" =>
        \A l \in Lists : \A i \in DOMAIN lists[l] :
            LET q == lists[l][i]
                awaited == IF Walking(l) /\ i \in position..end THEN 1 ELSE 0
            IN  queues[q] = SubSeq(handed[l], since[q] + 1,
                                   Len(handed[l]) - awaited)

(* An acoustic packet that is handed out agrees with its header: the       *)
(* samples in order, all but those that do not fill a column; if there are *)
(* samples, header and samples are those of the datagram.                  *)
SamplesAgreeWithHeader ==
    \A o \in Objects("aco") \cup Objects("out") :
        LET samples == FlattenSeq(o.data)
        IN  /\ samples = [k \in 1..Len(samples) |-> k]
            /\ o.header.num_values - Len(samples)
                  \in 0..(o.header.num_channels - 1)
            /\ o.data # <<>> => o.header = AcousticHeader(o.of)

(* What is left of a header that was read and is written again: of the     *)
(* angles the low word only, when words are swapped.                       *)
Rewritten(h) ==
    [f \in DOMAIN h |->
        IF f \in AngleFields /\ h.endian = "<" THEN <<h[f][1], 0>> ELSE h[f]]

(* A beam read from a datagram encodes to that datagram again: vectors,    *)
(* mask, pattern and header, but for half of each angle.  tests.cpp prints *)
(* that comparison, for one file of each kind.  A raw frame of more than   *)
(* one packet is not read from its first part: it has no data yet.         *)
BeamsEncodeBack ==
    \A l \in {"beam2d", "beamraw"} : \A o \in Objects(l) :
        o.of.size >= BeamHeaderSize(o.of.id) =>
            IF l = "beam2d"
            THEN encode2D(o) = [header |-> Rewritten(o.of.header),
                                payload |-> o.of.payload]
            ELSE IF o.header.num_subpackets = 1
            THEN encodeRaw(o) = [header |-> Rewritten(o.of.header),
                                 payload |-> o.of.payload]
            ELSE o.data = NoBeam
==========================================================================
