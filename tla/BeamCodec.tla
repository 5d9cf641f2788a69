--------------------------- MODULE BeamCodec ----------------------------
(* How beams are written into and read from datagrams: UdpBeamform2D and   *)
(* UdpBeamformRaw (udp_protocols/), decode, unpack_data and encode.        *)
(*                                                                         *)
(* A 32-bit word is an integer, and -w is w with its bytes reversed.  The  *)
(* wide header fields are the pair of their low and high word in memory.   *)
(* A payload is a sequence of cells: a double, or a byte of the mask.  A   *)
(* matrix is the sequence of its columns, as Eigen keeps it.               *)
EXTENDS Integers, Sequences, SequencesExt

CountFields == {"num_elements", "num_frequencies", "num_bearings",
                "num_elevations", "sample_rate", "packet_num"}
WideFields == {"window_length_sec", "start_time_nsec"}
AngleFields == {"xform_pitch_deg", "xform_roll_deg", "xform_yaw_deg"}

bswap_32(w) == -w
bswap_64(d) == <<-d[2], -d[1]>>

(* bswap_32 of a 64-bit buffer: the low word alone, widened with zeros.    *)
bswap_32_of_64(d) == <<bswap_32(d[1]), 0>>

(* The same swaps are made to read and to write.                           *)
Swapped(h, words) ==
    [f \in DOMAIN h |->
        CASE f \in words /\ h.endian = "<" -> bswap_32(h[f])
          [] f \in WideFields /\ h.endian = "<" -> bswap_64(h[f])
          [] f \in AngleFields /\ h.endian = "<" -> bswap_32_of_64(h[f])
          [] OTHER -> h[f]]

decode_header2D(h) == Swapped(h, CountFields)
encode_header2D(h) == Swapped(h, CountFields)
decode_headerRaw(h) == Swapped(h, CountFields \cup {"num_subpackets"})
encode_headerRaw(h) == Swapped(h, CountFields \cup {"num_subpackets"})

--------------------------------------------------------------------------
(* Vectors, in the order in which they lie in the payload.                 *)

Vectors == <<"array_x", "array_y", "array_z", "frequencies", "element_mask",
             "element_weights", "bearings_rad", "elevations_rad">>

Length(h, v) ==
    CASE v = "frequencies" -> h.num_frequencies
      [] v = "bearings_rad" -> h.num_bearings
      [] v = "elevations_rad" -> h.num_elevations
      [] OTHER -> h.num_elements

(* Cells before the k-th vector; with k one past the last, before the      *)
(* beam pattern.                                                           *)
Offset(h, k) ==
    LET before[i \in 1..(Len(Vectors) + 1)] ==
            IF i = 1 THEN 0 ELSE before[i - 1] + Length(h, Vectors[i - 1])
    IN  before[k]

PatternOffset(h) == Offset(h, Len(Vectors) + 1)

Vector(h, cells, v) ==
    LET k == CHOOSE i \in DOMAIN Vectors : Vectors[i] = v
        part == SubSeq(cells, Offset(h, k) + 1, Offset(h, k) + Length(h, v))
    IN  IF v = "element_mask"
        THEN [i \in DOMAIN part |-> part[i] = 1]
        ELSE part

unpack_vectors(h, cells) ==
    [v \in Range(Vectors) |-> Vector(h, cells, v)]

MaskByte(bit) == IF bit THEN 1 ELSE 0

encode_vectors(data) ==
    FlattenSeq([k \in DOMAIN Vectors |->
        LET part == data[Vectors[k]]
        IN  IF Vectors[k] = "element_mask"
            THEN [i \in DOMAIN part |-> MaskByte(part[i])]
            ELSE part])

(* What is in the headers and payloads that come: a payload is as long as  *)
(* its header says, has a beam pattern, and its mask is of zeros and ones. *)
IsHeader(h, words) ==
    /\ h = [f \in DOMAIN h |-> h[f]]
    /\ words \cup WideFields \cup AngleFields \cup {"endian"} \subseteq DOMAIN h
    /\ \A f \in words : h[f] \in Int
    /\ \A f \in WideFields \cup AngleFields : h[f] \in Int \X Int

IsPayload(h, cells, depth) ==
    /\ {h.num_elements, h.num_frequencies} \subseteq Nat
    /\ {h.num_bearings, h.num_elevations} \subseteq Nat \ {0}
    /\ cells \in Seq(Int)
    /\ Len(cells) = PatternOffset(h)
                       + h.num_bearings * h.num_elevations * depth
    /\ \A i \in 1..h.num_elements : cells[Offset(h, 5) + i] \in {0, 1}

--------------------------------------------------------------------------
(* UdpBeamform2D: one value per bearing and elevation.                     *)

Transposed(m) == [i \in DOMAIN m[1] |-> [j \in DOMAIN m |-> m[j][i]]]

unpack2D(h, cells) ==
    [vectors |-> unpack_vectors(h, cells),
     beampattern |-> Transposed(
        [b \in 1..h.num_bearings |->
            [e \in 1..h.num_elevations |->
                cells[PatternOffset(h) + (b - 1) * h.num_elevations + e]]])]

encode2DAsStored(beam) ==   \* mutant: the pattern is not turned back
    [header |-> encode_header2D(beam.header),
     payload |-> encode_vectors(beam.data.vectors)
                    \o FlattenSeq(beam.data.beampattern)]

encode2D(beam) ==
    [header |-> encode_header2D(beam.header),
     payload |-> encode_vectors(beam.data.vectors)
                    \o FlattenSeq(Transposed(beam.data.beampattern))]

--------------------------------------------------------------------------
(* UdpBeamformRaw in one packet: a value per bearing, elevation, frequency.*)

unpackRaw(h, cells) ==
    [vectors |-> unpack_vectors(h, cells),
     beampattern |->
        [b \in 1..h.num_bearings |-> [e \in 1..h.num_elevations |->
            [f \in 1..h.num_frequencies |->
                cells[PatternOffset(h)
                        + ((b - 1) * h.num_elevations + e - 1)
                            * h.num_frequencies + f]]]]]

encodeRaw(beam) ==
    [header |-> encode_headerRaw(beam.header),
     payload |-> encode_vectors(beam.data.vectors)
                    \o FlattenSeq(FlattenSeq(beam.data.beampattern))]
==========================================================================
