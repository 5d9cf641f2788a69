--------------------------- MODULE MCDatagrams --------------------------
(* Datagrams as they come, one of each kind and of each way to be short.  *)
EXTENDS Datagrams

(* The wire form of a beam header: with "<", counts are byte-swapped.      *)
Header(endian, elements, frequencies, bearings, elevations, subpackets) ==
    LET wire(w) == IF endian = "<" THEN bswap_32(w) ELSE w
    IN  [num_elements |-> wire(elements), num_frequencies |-> wire(frequencies),
         num_bearings |-> wire(bearings), num_elevations |-> wire(elevations),
         sample_rate |-> wire(5), packet_num |-> wire(1),
         num_subpackets |-> wire(subpackets), endian |-> endian,
         window_length_sec |-> <<wire(11), wire(12)>>,
         start_time_nsec |-> <<wire(13), wire(14)>>,
         xform_pitch_deg |-> <<15, 16>>, xform_roll_deg |-> <<17, 0>>,
         xform_yaw_deg |-> <<0, 18>>]

(* Cells numbered from 21, but for the mask, which is 1, 0, 1, ...         *)
Payload(elements, frequencies, bearings, elevations, depth) ==
    LET mask == 3 * elements + frequencies
    IN  [i \in 1..(mask + 2 * elements + bearings + elevations
                        + bearings * elevations * depth) |->
            IF i \in (mask + 1)..(mask + elements)
            THEN (i - mask) % 2 ELSE 20 + i]

Beam2D(endian) ==
    [id |-> "ACB2", size |-> 200, header |-> Header(endian, 2, 1, 2, 3, 1),
     payload |-> Payload(2, 1, 2, 3, 1)]
BeamRaw(endian) ==
    [id |-> "ACBR", size |-> 200, header |-> Header(endian, 1, 2, 2, 2, 1),
     payload |-> Payload(1, 2, 2, 2, 2)]

(* The first of two packets, with the vectors of the frame.                *)
FirstBeamRaw(endian) ==
    [id |-> "ACBR", size |-> 120, header |-> Header(endian, 1, 2, 2, 2, 2),
     payload |-> SubSeq(Payload(1, 2, 2, 2, 2), 1, 12)]
ShortBeam(id) == [id |-> id, size |-> 40]

Acoustic(size, version, channels, values) ==
    [id |-> "AC", size |-> size, ver_maj |-> version,
     num_channels |-> channels, num_values |-> values, packet_num |-> 1]

Record(id, size) == [id |-> id, size |-> size, start |-> 1, value |-> 37]

MCReceived ==
    {Beam2D("<"), Beam2D(">"), BeamRaw("<"), BeamRaw(">"),
     FirstBeamRaw("<"), FirstBeamRaw(">"),
     ShortBeam("ACB2"), ShortBeam("ACBR"),
     Acoustic(55, 4, 2, 4), Acoustic(47, 3, 2, 4), Acoustic(53, 4, 2, 3),
     Acoustic(51, 4, 2, 4), Acoustic(39, 3, 2, 0), Acoustic(47, 4, 2, 1),
     Record("PT", 20), Record("PT", 11), Record("IM", 32), Record("IM", 30),
     Record("EP", 20), Record("ED", 20), Record("RT", 20),
     Record("BN", 20), Record("BR", 23), Record("??", 20)}
==========================================================================
