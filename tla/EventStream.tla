----------------------------- MODULE EventStream -----------------------------
(***************************************************************************)
(* The framing of an AWS event stream that arrives in chunks of any size,  *)
(* as the two parsers of KiroPool read it: MeteringSink, which listens to  *)
(* a turn passed through, and kiroFrameReader, which feeds a translator.   *)
(*                                                                         *)
(* A length is one byte here.  A frame is                                  *)
(*     total | headers length | headers | payload | CRC                    *)
(* and the first byte of the headers stands for the event's type, that of  *)
(* a metering event's payload for its credits.                             *)
(***************************************************************************)
EXTENDS Integers, Sequences, FiniteSets, FiniteSetsExt

CONSTANTS
    Bytes,        \* the bytes that may arrive
    Metering,     \* the type of a metering event
    MaxMsg,       \* esMaxMsgBytes
    MaxHeader,    \* esMaxHeaderLen
    MaxBuffer,    \* esMaxBufferSize
    MaxChunk,     \* bound on the bytes of one read
    MaxLen        \* bound on the bytes of a turn

Prelude == 2
CRC == 1
MinMsg == Prelude + CRC

ASSUME BytesAssumption == Bytes \subseteq Nat
ASSUME BoundsAssumption ==
    /\ {MaxMsg, MaxHeader, MaxBuffer, MaxChunk, MaxLen} \subseteq Nat
    /\ MinMsg <= MaxMsg
(* A buffered frame and one more read fit into the buffer (25 MiB and 32   *)
(* KiB into 32 MiB).                                                       *)
ASSUME BufferAssumption == MaxMsg + MaxChunk <= MaxBuffer

VARIABLES
    body,      \* the bytes that have arrived
    sink,      \* MeteringSink
    reader     \* the locals of kiroFrameReader and what its callback has got

vars == <<body, sink, reader>>

--------------------------------------------------------------------------------
(* Both parsers look at the frame at the head of their buffer. *)

Total(buf)   == buf[1]
Headers(buf) == SubSeq(buf, Prelude + 1, Prelude + buf[2])
Payload(buf) == SubSeq(buf, Prelude + buf[2] + 1, Total(buf) - CRC)
Rest(buf)    == SubSeq(buf, Total(buf) + 1, Len(buf))

(* Mutant of OutOfBounds: a frame may be as long as it says. *)
OutOfBoundsUncapped(buf) == Total(buf) < MinMsg \/ buf[2] > MaxHeader

OutOfBounds(buf) == \/ Total(buf) < MinMsg
                    \/ Total(buf) > MaxMsg
                    \/ buf[2] > MaxHeader
Overlong(buf) == buf[2] + MinMsg > Total(buf)

(* The credits of a frame, none for one that is not a metering event. *)
Credits(headers, payload) ==
    IF headers # <<>> /\ headers[1] = Metering /\ payload # <<>> THEN payload[1] ELSE 0

--------------------------------------------------------------------------------
(* MeteringSink: it checks both lengths as soon as it has them, and stops  *)
(* for good at the first that makes no sense.                              *)

Stopped(m) == [m EXCEPT !.stopped = TRUE, !.buf = <<>>]

HandleFrame(m) ==
    [m EXCEPT !.frames = @ + 1,
              !.credits = @ + Credits(Headers(m.buf), Payload(m.buf)),
              !.buf = Rest(m.buf)]

(* One turn of its loop, or nothing if the loop is over. *)
ParseFrame(m) ==
    IF Len(m.buf) < Prelude THEN m
    ELSE IF OutOfBounds(m.buf) \/ Overlong(m.buf) THEN Stopped(m)
    ELSE IF Len(m.buf) < Total(m.buf) THEN m
    ELSE HandleFrame(m)

(* A buffer holds fewer frames than bytes.  (ParseFrame is a mutant of     *)
(* ParseFrames: one frame per write.)                                      *)
ParseFrames(m) ==
    LET parsed[n \in 0..Len(m.buf)] == IF n = 0 THEN m ELSE ParseFrame(parsed[n - 1])
    IN parsed[Len(m.buf)]

SinkWrite(m, chunk) ==
    LET fed == [m EXCEPT !.buf = @ \o chunk] IN
    IF m.stopped THEN m
    ELSE IF Len(fed.buf) > MaxBuffer THEN Stopped(fed)
    ELSE ParseFrames(fed)

--------------------------------------------------------------------------------
(* kiroFrameReader: it does not compare the two lengths with each other,   *)
(* so that the payload of an overlong frame is a slice that ends before it *)
(* begins, which panics.                                                   *)

Deliver(r) ==
    IF Overlong(r.buf) THEN [r EXCEPT !.state = "panicked", !.buf = <<>>]
    ELSE [r EXCEPT !.frames = @ + 1,
                   !.credits = @ + Credits(Headers(r.buf), Payload(r.buf)),
                   !.buf = Rest(r.buf)]

(* One turn of its loop, or nothing if the loop is over. *)
ReadFrame(r) ==
    IF r.state # "reading" \/ Len(r.buf) < Prelude THEN r
    ELSE IF OutOfBounds(r.buf) THEN [r EXCEPT !.state = "returned", !.buf = <<>>]
    ELSE IF Len(r.buf) < Total(r.buf) THEN r
    ELSE Deliver(r)

ReadFrames(r) ==
    LET got[n \in 0..Len(r.buf)] == IF n = 0 THEN r ELSE ReadFrame(got[n - 1])
    IN got[Len(r.buf)]

(* Mutant of ReaderRead: what is left of the last read is not kept. *)
ReaderReadAfresh(r, chunk) ==
    IF r.state # "reading" THEN r ELSE ReadFrames([r EXCEPT !.buf = chunk])

ReaderRead(r, chunk) ==
    IF r.state # "reading" THEN r ELSE ReadFrames([r EXCEPT !.buf = @ \o chunk])

--------------------------------------------------------------------------------
Init ==
    /\ body = <<>>
    /\ sink = [buf |-> <<>>, stopped |-> FALSE, credits |-> 0, frames |-> 0]
    /\ reader = [buf |-> <<>>, state |-> "reading", credits |-> 0, frames |-> 0]

(* One read of the body returns some bytes. *)
Read(chunk) ==
    /\ Len(body) + Len(chunk) <= MaxLen
    /\ body' = body \o chunk
    /\ sink' = SinkWrite(sink, chunk)
    /\ reader' = ReaderRead(reader, chunk)

Next == \E k \in 1..MaxChunk : \E chunk \in [1..k -> Bytes] : Read(chunk)

Spec == Init /\ [][Next]_vars

(* Neither parser holds a whole frame between two reads. *)
TypeOK ==
    /\ body \in Seq(Bytes)
    /\ sink \in [buf : Seq(Bytes), stopped : BOOLEAN, credits : Nat, frames : Nat]
    /\ reader \in [buf : Seq(Bytes), state : {"reading", "returned", "panicked"},
                   credits : Nat, frames : Nat]
    /\ Len(sink.buf) < MaxMsg
    /\ Len(reader.buf) < MaxMsg

--------------------------------------------------------------------------------
(* The frames of a whole body, without a parser: the cuts that divide a    *)
(* prefix of it into well-formed frames, one after the other.              *)

From(s, c) == SubSeq(s, c + 1, Len(s))

FrameAt(s, c) ==
    LET f == From(s, c) IN
    /\ Len(f) >= Prelude
    /\ ~OutOfBounds(f)
    /\ ~Overlong(f)
    /\ Total(f) <= Len(f)

Cuts(s) ==
    LET cut[c \in 0..Len(s)] ==
            c = 0 \/ \E b \in 0..(c - 1) : cut[b] /\ FrameAt(s, b) /\ c = b + s[b + 1]
    IN {c \in 0..Len(s) : cut[c]}

(* The credits of a frame, and of all that begin at cuts before n. *)
Charge(s, c) ==
    IF FrameAt(s, c) THEN Credits(Headers(From(s, c)), Payload(From(s, c))) ELSE 0
Owed(s, cuts) ==
    LET owed[n \in 0..Len(s)] ==
            IF n = 0 THEN 0
            ELSE owed[n - 1] + (IF n - 1 \in cuts THEN Charge(s, n - 1) ELSE 0)
    IN owed

(* Whatever the bytes and however they are split into reads, the sink has  *)
(* counted exactly the frames that have arrived in full, and their         *)
(* credits; it stops only at lengths that make no sense, never because its *)
(* buffer is full.                                                         *)
SinkReadsTheBody ==
    LET cuts == Cuts(body)
        last == Max(cuts)
        rest == From(body, last)
    IN /\ sink.frames = Cardinality(cuts) - 1
       /\ sink.credits = Owed(body, cuts)[last]
       /\ sink.stopped <=> Len(rest) >= Prelude /\ (OutOfBounds(rest) \/ Overlong(rest))

(* A turn is charged the same credits whether it is passed through or      *)
(* translated, and the two parsers part only at a frame whose headers are  *)
(* longer than itself: there the sink stops and kiroFrameReader waits for  *)
(* the rest of the frame, and panics.                                      *)
ParsersAgree ==
    /\ reader.frames = sink.frames
    /\ reader.credits = sink.credits
    /\ reader.state = "returned" => sink.stopped
    /\ sink.stopped /\ reader.state = "reading" =>
           Len(reader.buf) >= Prelude /\ Overlong(reader.buf)
    /\ reader.state = "panicked" =>
           LET f == From(body, Max(Cuts(body))) IN ~OutOfBounds(f) /\ Overlong(f)
================================================================================
