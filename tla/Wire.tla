------------------------------- MODULE Wire -------------------------------
(***************************************************************************)
(* How the server writes the numbers and strings of a message into bytes   *)
(* and how the client reads them (memory_writer, memory_reader).  A byte   *)
(* has Base values instead of 256, which keeps the markers of write_varint *)
(* (the last three values of a byte) and its limits (the last values of    *)
(* two and four bytes) in the reach of a check.  Of a string only its      *)
(* length matters.                                                         *)
(***************************************************************************)
EXTENDS Integers, Sequences, SequencesExt

CONSTANT Base   \* values of a byte

ASSUME BaseAssumption == Base \in Nat /\ Base >= 4

(* The value of a one after n bytes                                        *)
Power[n \in 0..8] == IF n = 0 THEN 1 ELSE Base * Power[n - 1]

(* Limits of the encodings with one, three and five bytes                  *)
OneByte == Base - 3
TwoBytes == Power[2] - 1
FourBytes == Power[4] - 1

-----------------------------------------------------------------------------
(* Seeded faults: variants of definitions below, each with a plausible     *)
(* slip in the code it stands for.  Nothing uses them.                     *)

(* write_varint takes the first marker for a value.                        *)
IsShort_Marker(v) == v <= OneByte

-----------------------------------------------------------------------------
(* memory_writer::write: n bytes, the lowest first; higher ones are lost.  *)
Fixed(v, n) == [i \in 1..n |-> (v \div Power[i - 1]) % Base]

(* write_varint                                                            *)
IsShort(v) == v < OneByte
Varint(v) ==
    CASE IsShort(v) -> <<v>>
      [] ~IsShort(v) /\ v < TwoBytes -> <<Base - 3>> \o Fixed(v, 2)
      [] v >= TwoBytes /\ v < FourBytes -> <<Base - 2>> \o Fixed(v, 4)
      [] OTHER -> <<Base - 1>> \o Fixed(v, 8)

(* write_string                                                            *)
Text(len) == Varint(len) \o [i \in 1..len |-> 0]

-----------------------------------------------------------------------------
(* memory_reader: a value and the position after it, or no value.          *)
NotRead(pos) == [ok |-> FALSE, value |-> 0, pos |-> pos]

(* read                                                                    *)
ReadFixed(buf, pos, n) ==
    LET low[i \in 0..n] == IF i = 0 THEN 0 ELSE low[i - 1] + buf[pos + i] * Power[i - 1]
    IN  IF pos + n > Len(buf) THEN NotRead(pos)
        ELSE [ok |-> TRUE, value |-> low[n], pos |-> pos + n]

(* read_varint, after its first byte                                       *)
Marked(buf, first) ==
    IF ~first.ok \/ first.value < OneByte THEN first
    ELSE ReadFixed(buf, first.pos, CASE first.value = Base - 3 -> 2
                                     [] first.value = Base - 2 -> 4
                                     [] first.value = Base - 1 -> 8)
ReadVarint(buf, pos) == Marked(buf, ReadFixed(buf, pos, 1))

(* read_string, after its length                                           *)
Characters(buf, len) ==
    IF ~len.ok \/ len.pos + len.value > Len(buf) THEN NotRead(len.pos)
    ELSE [len EXCEPT !.pos = @ + len.value]
ReadText(buf, pos) == Characters(buf, ReadVarint(buf, pos))

-----------------------------------------------------------------------------
(* The messages of allocations and frees.                                  *)

(* network_events_sink::report_alloc and report_free                       *)
Encode(e) ==
    Fixed(e.frame, 8) \o Fixed(e.addr, 8) \o Fixed(e.size, 4)
        \o (IF e.kind = "alloc" THEN Text(e.name) \o Text(e.stack) ELSE << >>)

(* The reads of process_messages, in order                                 *)
Fields(kind) == <<"u64", "u64", "u32">> \o (IF kind = "alloc" THEN <<"text", "text">> ELSE << >>)
ReadField(field, buf, pos) ==
    CASE field = "u64" -> ReadFixed(buf, pos, 8)
      [] field = "u32" -> ReadFixed(buf, pos, 4)
      [] field = "text" -> ReadText(buf, pos)

(* process_messages: of a free only the frame has to be readable.          *)
Decode(kind, buf) ==
    LET fields == Fields(kind)
        read[i \in 0..Len(fields)] ==
            IF i = 0 THEN NotRead(0) ELSE ReadField(fields[i], buf, read[i - 1].pos)
        value == [i \in 1..5 |-> IF i \in DOMAIN fields THEN read[i].value ELSE 0]
    IN  [ok    |-> \A i \in DOMAIN fields : read[i].ok \/ (kind = "free" /\ i > 1),
         event |-> [kind |-> kind, frame |-> value[1], addr |-> value[2], size |-> value[3],
                    name |-> value[4], stack |-> value[5]]]
=============================================================================
