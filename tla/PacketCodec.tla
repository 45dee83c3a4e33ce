---------------------------- MODULE PacketCodec ----------------------------
(***************************************************************************)
(* The encoders and decoders of src/client/protocol.ts at work on one      *)
(* payload.  A DataView throws when it is asked for a byte that is not     *)
(* there; the code relies on one test of the size at the beginning and on  *)
(* the tests in front of optional fields.  A payload comes from any        *)
(* server, or from the encoder of another browser by way of BZFS.          *)
(***************************************************************************)
EXTENDS PacketLayout

CONSTANTS
  MaxPayload,   \* MAX_PACKET_PAYLOAD_BYTES
  Counts,       \* the counts of records a payload may announce
  Verbatim,     \* the packets BZFS passes on as they are,
  Prefixed      \* and those it puts the id of their sender in front of

ASSUME CodecAssumption ==
  /\ MaxPayload \in Nat /\ Counts \subseteq Nat
  /\ Size.enter <= MaxPayload      \* the largest payload of an encoder
  /\ Verbatim \subseteq {"PlayerUpdate", "ShotBegin", "ShotEnd"}
  /\ Prefixed \subseteq {"Killed", "Pause", "AutoPilot", "Teleport"}

VARIABLES
  codec,     \* "idle", "writing", "sent", "reading" or "done"
  packet,    \* the packet
  flagged,   \* the bits the encoder set in the status it writes
  length,    \* the bytes of its payload
  at,        \* the offset
  todo,      \* the fields to come, each with the bytes it makes sure of first
  passed,    \* the fields written or read so far
  written,      \* the fields of the payload, when an encoder has written it
  outcome    \* what the encoder or decoder gave: "value", "null" or "throws"

codecVars == <<codec, packet, flagged, length, at, todo, passed, written, outcome>>

CodecInit ==
  /\ codec = "idle" /\ packet = "none" /\ flagged = {} /\ length = 0 /\ at = 0
  /\ todo = <<>> /\ passed = <<>> /\ written = <<>> /\ outcome = "none"

\* The fields of a layout, when these bits are set and the record comes
\* count times; packetHasBytes is asked in front of optional fields.
SumOf(fields) ==
  LET sum[i \in 0 .. Len(fields)] ==
        IF i = 0 THEN 0 ELSE sum[i - 1] + Width[fields[i].as]
  IN sum[Len(fields)]
Joined(parts) ==
  LET joined[i \in 0 .. Len(parts)] == IF i = 0 THEN <<>> ELSE joined[i - 1] \o parts[i]
  IN joined[Len(parts)]
Item(field, need) == [field |-> field, need |-> need]
Asked(fields) ==
  [i \in 1 .. Len(fields) |-> Item(fields[i], IF i = 1 THEN SumOf(fields) ELSE 0)]
Unasked(fields) == [i \in 1 .. Len(fields) |-> Item(fields[i], 0)]
Taken(layout, bits) ==
  [i \in 1 .. Len(layout.tail) |->
     IF layout.tail[i].bit \in bits THEN layout.tail[i].fields ELSE <<>>]
Plan(layout, bits, count) ==
  Unasked(layout.fields)
  \o Joined([i \in 1 .. count |-> Unasked(layout.record)])
  \o Joined([i \in 1 .. Len(layout.tail) |-> Asked(Taken(layout, bits)[i])])
Bits(layout) == {layout.tail[i].bit : i \in DOMAIN layout.tail}
TailBytes(layout, bits) == SumOf(Joined(Taken(layout, bits)))
CountsOf(layout) == IF layout.most = 0 THEN {0} ELSE Counts \cup {layout.most + 1}

\* An encoder allocates its payload, or sends nothing for a value that is
\* not valid.
Encode ==
  /\ codec = "idle"
  /\ \E p \in DOMAIN Encoders :
       LET layout == Encoders[p]
       IN \E bits \in SUBSET Bits(layout), count \in CountsOf(layout) :
            /\ count <= layout.most
            /\ packet' = p /\ flagged' = bits
            /\ length' = layout.n + layout.bytes * count + TailBytes(layout, bits)
            /\ todo' = Plan(layout, bits, count)
  /\ codec' = "writing"
  /\ UNCHANGED <<at, passed, written, outcome>>

Done(with) == codec' = "done" /\ outcome' = with /\ todo' = <<>>
Head1 == todo[1].field
Pass == /\ at' = at + Width[Head1.as]
        /\ passed' = Append(passed, <<Head1.name, Head1.as>>)
        /\ todo' = Tail(todo)
        /\ UNCHANGED <<codec, outcome>>

\* One field is set; DataView.set throws behind the end.
WriteField ==
  /\ codec = "writing" /\ todo # <<>>
  /\ \/ at + Width[Head1.as] <= length /\ Pass
     \/ at + Width[Head1.as] > length /\ Done("throws") /\ UNCHANGED <<at, passed>>
     \/ Head1.checked /\ Done("null") /\ UNCHANGED <<at, passed>>
  /\ UNCHANGED <<packet, flagged, length, written>>

\* encodePacket
Send ==
  /\ codec = "writing" /\ todo = <<>>
  /\ IF length <= MaxPayload
     THEN codec' = "sent" /\ UNCHANGED <<outcome, todo>>
     ELSE Done("throws")
  /\ UNCHANGED <<packet, flagged, length, at, passed, written>>

\* The test of the size in front of every decoder.
AcceptsSize(layout, n, count) ==
  LET least == layout.n + layout.bytes * count
  IN IF layout.exact
     THEN count <= layout.most /\ n \in {least, least + TailBytes(layout, Bits(layout))}
     ELSE n >= least

\* A decoder is called with a payload of n bytes whose values set these
\* bits and announce this count.
Begin(p, n, bits, count) ==
  /\ packet' = p /\ length' = n /\ at' = 0 /\ passed' = <<>>
  /\ IF AcceptsSize(Decoders[p], n, count)
     THEN codec' = "reading" /\ todo' = Plan(Decoders[p], bits, count) /\ UNCHANGED outcome
     ELSE Done("null")

\* Any server: any size, flags and count.
Receive ==
  /\ codec = "idle"
  /\ \E p \in DOMAIN Decoders :
       LET layout == Decoders[p]
       IN \E bits \in SUBSET Bits(layout), count \in CountsOf(layout) :
            \E n \in 0 .. layout.n + layout.bytes * count + TailBytes(layout, Bits(layout)) + 1 :
              n <= MaxPayload /\ Begin(p, n, bits, count)
  /\ UNCHANGED <<flagged, written>>

\* BZFS: the bytes of one browser for another, which finds the bits that the
\* first one set.
Relay ==
  /\ codec = "sent" /\ packet \in Verbatim \cup Prefixed
  /\ LET own == Decoders[packet].fields[1]
         front == IF packet \in Prefixed THEN <<<<own.name, own.as>>>> ELSE <<>>
     IN /\ written' = front \o passed
        /\ Begin(packet, length + Len(front), flagged, 0)
  /\ UNCHANGED flagged

\* One field is read: an optional one only when its bytes are there; a
\* value that is not valid is refused, which one of an encoder never is.
ReadField ==
  /\ codec = "reading" /\ todo # <<>>
  /\ \/ at + todo[1].need > length /\ Done("null") /\ UNCHANGED <<at, passed>>
     \/ /\ at + todo[1].need <= length
        /\ \/ at + Width[Head1.as] <= length /\ Pass
           \/ at + Width[Head1.as] > length /\ Done("throws") /\ UNCHANGED <<at, passed>>
           \/ Head1.checked /\ written = <<>> /\ Done("null") /\ UNCHANGED <<at, passed>>
  /\ UNCHANGED <<packet, flagged, length, written>>

\* The decoder is through; an exact one must have used the payload up.
EndRead ==
  /\ codec = "reading" /\ todo = <<>>
  /\ Done(IF Decoders[packet].exact /\ at # length THEN "null" ELSE "value")
  /\ UNCHANGED <<packet, flagged, length, at, passed, written>>

CodecNext == Encode \/ WriteField \/ Send \/ Receive \/ Relay \/ ReadField \/ EndRead
CodecSpec == CodecInit /\ [][CodecNext]_codecVars

-----------------------------------------------------------------------------

\* The sizes that were added up by hand hold what is written and read: no
\* encoder writes and no decoder reads a byte that is not there, whatever
\* the payload and its flags and counts (the *_BYTES constants).
NeverThrows == outcome # "throws"

\* What one browser sends and BZFS passes on, another browser decodes, field
\* for field, the optional ones of the status included.
RoundTrip ==
  written # <<>> /\ codec = "done" => outcome = "value" /\ passed = written
=============================================================================
