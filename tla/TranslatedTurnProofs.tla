-------------------------- MODULE TranslatedTurnProofs --------------------------
(***************************************************************************)
(* What the clients of a turn get, for all tools, frames and bounds.       *)
(* First: streamAnthropic implements MessageStream.  Then: both endpoints, *)
(* with and without streaming, agree with each other.                      *)
(***************************************************************************)
EXTENDS TranslatedTurn, TLAPS

--------------------------------------------------------------------------------
(***************************************************************************)
(* The handler's locals run ahead of the client by the events that are not *)
(* yet written.  What an event needs and what it leaves can be told from   *)
(* the event alone, so the invariant says that these events form a chain   *)
(* from the state of the client's message to that of the handler.          *)
(***************************************************************************)

BlockTypes == {"text", "thinking", "tool"}
DeltaKinds == {"text", "thinking", "signature", "input"}

BlockOf(kind) ==
    IF kind = "text" THEN "text" ELSE IF kind = "input" THEN "tool" ELSE "thinking"

(* A tool block has the ID of its tool, the others have none. *)
IdFits(type, id) == id \in Tools \cup {None} /\ (type = "tool" <=> id \in Tools)

StartEvents == {e \in [event : {"block_start"}, index : Nat, type : BlockTypes,
                       id : Tools \cup {None}] : IdFits(e.type, e.id)}
DeltaEvents == [event : {"block_delta"}, index : Nat, kind : DeltaKinds, part : 1..MaxFrames]
StopEvents  == [event : {"block_stop"}, index : Nat]
ReasonEvents == [event : {"message_delta"}, reason : Reasons]
FrameEvents == [event : {"message_start", "message_stop"}]
Events == StartEvents \cup DeltaEvents \cup StopEvents \cup ReasonEvents \cup FrameEvents

StreamType == [openIndex : Int, openType : BlockTypes \cup {None}, nextIndex : Nat,
               curToolID : Tools \cup {None}, stopReason : Reasons, out : Seq(Events)]

BlockType == [index : Nat, type : BlockTypes, id : Tools \cup {None}, open : BOOLEAN,
              parts : Seq(DeltaKinds \X (1..MaxFrames))]

--------------------------------------------------------------------------------
(* The state of a message: its phase and, while it is open, the number of  *)
(* its blocks and the type of the open one.                                *)

Open(count, type) == [phase |-> "open", count |-> count, type |-> type]
Past(ph) == [phase |-> ph, count |-> 0, type |-> None]

Accepts(m, e) ==
    CASE e.event = "message_start" -> m = Past("none")
      [] e.event = "block_start"   -> m = Open(e.index, None)
      [] e.event = "block_delta"   -> m = Open(e.index + 1, BlockOf(e.kind))
      [] e.event = "block_stop"    -> \E type \in BlockTypes : m = Open(e.index + 1, type)
      [] e.event = "message_delta" -> \E count \in Nat : m = Open(count, None)
      [] e.event = "message_stop"  -> m = Past("closing")

After(e) ==
    CASE e.event = "message_start" -> Open(0, None)
      [] e.event = "block_start"   -> Open(e.index + 1, e.type)
      [] e.event = "block_delta"   -> Open(e.index + 1, BlockOf(e.kind))
      [] e.event = "block_stop"    -> Open(e.index + 1, None)
      [] e.event = "message_delta" -> Past("closing")
      [] e.event = "message_stop"  -> Past("stopped")

(* The events lead from m to l. *)
Chain(m, events, l) ==
    IF events = <<>> THEN m = l
    ELSE /\ Accepts(m, events[1])
         /\ \A i \in 1..(Len(events) - 1) : Accepts(After(events[i]), events[i + 1])
         /\ After(events[Len(events)]) = l

(* The message as the handler's locals have it, and as the client has it. *)
Handler(s) == Open(s.nextIndex, s.openType)

LastOpen == IF blocks # <<>> /\ blocks[Len(blocks)].open THEN blocks[Len(blocks)].type
            ELSE None
Client == IF phase = "open" THEN Open(Len(blocks), LastOpen) ELSE Past(phase)

Consistent(s) ==
    /\ s.openType = None <=> s.openIndex = -1
    /\ s.openType # None => s.openIndex = s.nextIndex - 1

(* The handler in state s has made events that lead from m to its locals. *)
Leads(m, s) == s \in StreamType /\ Consistent(s) /\ Chain(m, s.out, Handler(s))

BlocksInv ==
    /\ blocks \in Seq(BlockType)
    /\ \A i \in 1..Len(blocks) : blocks[i].open => i = Len(blocks) /\ phase = "open"
    /\ phase = "none" => blocks = <<>>

TurnInv ==
    /\ frames \in Seq(Kinds)
    /\ Len(frames) <= MaxFrames
    /\ phase \in {"none", "open", "closing", "stopped"}

StreamInv ==
    /\ stream \in StreamType
    /\ Consistent(stream)
    /\ Chain(Client, stream.out, IF turn = "ended" THEN Past("stopped") ELSE Handler(stream))

Inv == TurnInv /\ BlocksInv /\ StreamInv

--------------------------------------------------------------------------------
(* A chain grows at its end and shrinks at its head. *)

LEMMA ChainGrows ==
    ASSUME NEW m, NEW l, NEW out \in Seq(Events), NEW e \in Events,
           Chain(m, out, l), Accepts(l, e)
    PROVE  /\ Append(out, e) \in Seq(Events)
           /\ Chain(m, Append(out, e), After(e))
<1> DEFINE new == Append(out, e)
<1>1. /\ new \in Seq(Events)
      /\ new # <<>>
      /\ Len(new) = Len(out) + 1
      /\ new[Len(new)] = e
      /\ \A i \in 1..Len(out) : new[i] = out[i]
  OBVIOUS
<1>2. CASE out = <<>>
  <2>1. Len(new) = 1 /\ new[1] = e
    BY <1>1, <1>2
  <2> HIDE DEF new
  <2> QED
    BY <1>1, <1>2, <2>1 DEF Chain, new
<1>3. CASE out # <<>>
  <2>1. Len(out) \in Nat \ {0}
    BY <1>3
  <2>2. Accepts(m, new[1])
    BY <1>1, <1>3, <2>1 DEF Chain
  <2>3. ASSUME NEW i \in 1..(Len(new) - 1)
        PROVE  Accepts(After(new[i]), new[i + 1])
    <3>1. CASE i = Len(out)
      BY <1>1, <1>3, <2>1, <3>1 DEF Chain
    <3>2. CASE i # Len(out)
      <4>1. i \in 1..(Len(out) - 1) /\ i + 1 \in 1..Len(out) /\ i \in 1..Len(out)
        BY <1>1, <2>1, <3>2
      <4>2. Accepts(After(out[i]), out[i + 1])
        BY <1>3, <4>1 DEF Chain
      <4> HIDE DEF new
      <4> QED
        BY <1>1, <4>1, <4>2
    <3> QED
      BY <3>1, <3>2
  <2> HIDE DEF new
  <2> QED
    BY <1>1, <2>2, <2>3 DEF Chain, new
<1> QED
  BY <1>1, <1>2, <1>3

LEMMA ChainShrinks ==
    ASSUME NEW m, NEW l, NEW out \in Seq(Events), out # <<>>, Chain(m, out, l)
    PROVE  /\ Head(out) \in Events
           /\ Tail(out) \in Seq(Events)
           /\ Accepts(m, Head(out))
           /\ Chain(After(Head(out)), Tail(out), l)
<1> DEFINE rest == Tail(out)
<1>1. /\ Head(out) \in Events
      /\ Head(out) = out[1]
      /\ rest \in Seq(Events)
      /\ Len(out) \in Nat \ {0}
      /\ Len(rest) = Len(out) - 1
      /\ \A i \in 1..Len(rest) : rest[i] = out[i + 1]
  OBVIOUS
<1>2. Accepts(m, Head(out))
  BY <1>1 DEF Chain
<1>3. CASE rest = <<>>
  <2>1. Len(out) = 1
    <3>1. Len(<<>>) = 0
      OBVIOUS
    <3> HIDE DEF rest
    <3> QED
      BY <1>1, <1>3, <3>1
  <2> QED
    BY <1>1, <1>2, <1>3, <2>1 DEF Chain
<1>4. CASE rest # <<>>
  <2>1. Len(rest) \in Nat \ {0} /\ Len(out) \in Nat
    BY <1>1, <1>4
  <2>2. Accepts(After(Head(out)), rest[1])
    <3>1. 1 \in 1..(Len(out) - 1) /\ rest[1] = out[1 + 1]
      BY <1>1, <2>1
    <3> QED
      BY <1>1, <3>1 DEF Chain
  <2>3. ASSUME NEW i \in 1..(Len(rest) - 1)
        PROVE  Accepts(After(rest[i]), rest[i + 1])
    <3>1. /\ i + 1 \in 1..(Len(out) - 1)
          /\ rest[i] = out[i + 1]
          /\ rest[i + 1] = out[(i + 1) + 1]
      BY <1>1, <2>1
    <3> QED
      BY <1>1, <3>1 DEF Chain
  <2>4. After(rest[Len(rest)]) = l
    <3>1. rest[Len(rest)] = out[Len(out)]
      BY <1>1, <2>1
    <3> QED
      BY <3>1 DEF Chain
  <2> HIDE DEF rest
  <2> QED
    BY <1>1, <1>2, <1>4, <2>2, <2>3, <2>4 DEF Chain, rest
<1> QED
  BY <1>1, <1>3, <1>4

--------------------------------------------------------------------------------
(* The operators of the handler lead on, each from what the last has left. *)

LEMMA Distinct ==
    /\ None \notin BlockTypes
    /\ None \notin Tools
BY NoneAssumption DEF BlockTypes

LEMMA CloseOpenLeads ==
    ASSUME NEW m, NEW s, Leads(m, s)
    PROVE  /\ Leads(m, CloseOpen(s))
           /\ CloseOpen(s).openType = None
           /\ CloseOpen(s).openIndex = -1
           /\ CloseOpen(s).stopReason = s.stopReason
<1> USE DEF Leads, Consistent, StreamType
<1>1. CASE s.openIndex < 0
  <2>1. s.openIndex = -1 /\ s.openType = None
    BY <1>1
  <2> QED
    BY <1>1, <2>1 DEF CloseOpen
<1>2. CASE ~(s.openIndex < 0)
  <2> DEFINE e == BlockStop(s.openIndex)
             c == CloseOpen(s)
  <2>1. c = [s EXCEPT !.openIndex = -1, !.openType = None, !.out = Append(s.out, e)]
    BY <1>2 DEF CloseOpen
  <2>2. /\ s.openType \in BlockTypes /\ s.openIndex \in Nat /\ s.nextIndex \in Nat
        /\ s.openIndex + 1 = s.nextIndex
    BY <1>2
  <2>3. e \in Events
    BY <2>2 DEF BlockStop, Events, StopEvents
  <2>4. Accepts(Handler(s), e) /\ After(e) = Open(s.nextIndex, None)
    BY <2>2 DEF BlockStop, Accepts, After, Handler, Open
  <2>5. Append(s.out, e) \in Seq(Events) /\ Chain(m, Append(s.out, e), After(e))
    BY <2>3, <2>4, ChainGrows
  <2> HIDE DEF c, e
  <2>6. /\ c \in StreamType /\ c.out = Append(s.out, e)
        /\ c.openIndex = -1 /\ c.openType = None
        /\ c.nextIndex = s.nextIndex /\ c.stopReason = s.stopReason
    BY <2>1, <2>5, -1 \in Int, None \in BlockTypes \cup {None}
  <2> QED
    BY <2>4, <2>5, <2>6 DEF c, Handler
<1> QED
  BY <1>1, <1>2

LEMMA OpenBlockLeads ==
    ASSUME NEW m, NEW s, Leads(m, s),
           NEW type \in BlockTypes, NEW id \in Tools \cup {None}, IdFits(type, id)
    PROVE  /\ Leads(m, OpenBlock(s, type, id))
           /\ OpenBlock(s, type, id).openType = type
<1> DEFINE c == CloseOpen(s)
           o == OpenBlock(s, type, id)
           e == BlockStart(c.nextIndex, type, id)
<1>1. Leads(m, c) /\ c.openType = None
  BY CloseOpenLeads
<1>2. c \in StreamType
  BY <1>1 DEF Leads
<1>3. o = [c EXCEPT !.openIndex = c.nextIndex, !.nextIndex = c.nextIndex + 1,
                    !.openType = type, !.out = Append(c.out, e)]
  BY DEF OpenBlock
<1> HIDE DEF c, o
<1>4. e \in Events
  BY <1>2 DEF BlockStart, Events, StartEvents, StreamType
<1>5. /\ o.openIndex = c.nextIndex /\ o.nextIndex = c.nextIndex + 1
      /\ o.openType = type /\ o.out = Append(c.out, e)
  BY <1>2, <1>3 DEF StreamType
<1>6. Accepts(Handler(c), e) /\ After(e) = Handler(o)
  BY <1>1, <1>5 DEF BlockStart, Accepts, After, Handler, Open
<1>7. Append(c.out, e) \in Seq(Events) /\ Chain(m, Append(c.out, e), After(e))
  BY <1>1, <1>2, <1>4, <1>6, ChainGrows DEF Leads, StreamType
<1> HIDE DEF e
<1>8. o \in StreamType
  BY <1>2, <1>3, <1>7, type \in BlockTypes \cup {None}, c.nextIndex + 1 \in Nat,
     c.nextIndex \in Int DEF StreamType
<1>9. Consistent(o)
  <2>1. type # None /\ c.nextIndex \in Nat
    BY <1>2, Distinct DEF StreamType
  <2> QED
    BY <1>5, <2>1 DEF Consistent
<1> QED
  BY <1>5, <1>6, <1>7, <1>8, <1>9 DEF Leads, o

LEMMA DeltaLeads ==
    ASSUME NEW m, NEW s, Leads(m, s), NEW kind \in DeltaKinds, NEW n \in 1..MaxFrames,
           s.openType = BlockOf(kind)
    PROVE  /\ Leads(m, Delta(s, kind, n))
           /\ Delta(s, kind, n).openType = s.openType
<1> DEFINE d == Delta(s, kind, n)
           e == BlockDelta(s.openIndex, kind, n)
<1>1. s \in StreamType /\ Consistent(s)
  BY DEF Leads
<1>2. /\ s.openType # None /\ s.openIndex \in Int /\ s.nextIndex \in Nat
      /\ s.openIndex + 1 = s.nextIndex /\ s.openIndex # -1
  BY <1>1, Distinct DEF Consistent, StreamType, BlockOf, BlockTypes
<1>3. d = [s EXCEPT !.out = Append(s.out, e)]
  BY DEF Delta
<1>4. e \in Events
  BY <1>2 DEF BlockDelta, Events, DeltaEvents
<1>5. Accepts(Handler(s), e) /\ After(e) = Handler(s)
  BY <1>2 DEF BlockDelta, Accepts, After, Handler, Open
<1>6. Append(s.out, e) \in Seq(Events) /\ Chain(m, Append(s.out, e), After(e))
  BY <1>1, <1>4, <1>5, ChainGrows DEF Leads, StreamType
<1> HIDE DEF d, e
<1>7. /\ d \in StreamType /\ d.out = Append(s.out, e)
      /\ d.openType = s.openType /\ d.openIndex = s.openIndex /\ d.nextIndex = s.nextIndex
  BY <1>1, <1>3, <1>6 DEF StreamType
<1> QED
  BY <1>1, <1>5, <1>6, <1>7 DEF Leads, Handler, Consistent, d

LEMMA OnThinkingLeads ==
    ASSUME NEW m, NEW s, Leads(m, s), NEW f \in ThinkingFrames, NEW n \in 1..MaxFrames
    PROVE  Leads(m, OnThinking(s, f, n))
<1> DEFINE o == Opened(s, "thinking")
           t == IF f.text THEN Delta(o, "thinking", n) ELSE s
<1>1. Leads(m, o) /\ o.openType = "thinking"
  <2>1. IdFits("thinking", None) /\ "thinking" \in BlockTypes
    BY Distinct DEF IdFits, BlockTypes
  <2> QED
    BY <2>1, OpenBlockLeads DEF Opened
<1>2. Leads(m, t)
  <2>1. "thinking" \in DeltaKinds /\ BlockOf("thinking") = "thinking"
    BY DEF DeltaKinds, BlockOf
  <2> QED
    BY <1>1, <2>1, DeltaLeads
<1> HIDE DEF t
<1>3. CASE f.signature /\ t.openType = "thinking"
  <2>1. "signature" \in DeltaKinds /\ BlockOf("signature") = "thinking"
    BY DEF DeltaKinds, BlockOf
  <2> QED
    BY <1>2, <1>3, <2>1, DeltaLeads DEF OnThinking, t
<1>4. CASE ~(f.signature /\ t.openType = "thinking")
  BY <1>2, <1>4 DEF OnThinking, t
<1> QED
  BY <1>3, <1>4

LEMMA OnTextLeads ==
    ASSUME NEW m, NEW s, Leads(m, s), NEW f, NEW n \in 1..MaxFrames
    PROVE  Leads(m, OnText(s, f, n))
<1>1. Leads(m, Opened(s, "text")) /\ Opened(s, "text").openType = "text"
  <2>1. IdFits("text", None) /\ "text" \in BlockTypes
    BY Distinct DEF IdFits, BlockTypes
  <2> QED
    BY <2>1, OpenBlockLeads DEF Opened
<1>2. "text" \in DeltaKinds /\ BlockOf("text") = "text"
  BY DEF DeltaKinds, BlockOf
<1> QED
  BY <1>1, <1>2, DeltaLeads DEF OnText

(* The local that remembers the current tool plays no part in the protocol. *)
LEMMA CurrentToolLeads ==
    ASSUME NEW m, NEW s, Leads(m, s), NEW id \in Tools \cup {None}
    PROVE  /\ Leads(m, [s EXCEPT !.curToolID = id])
           /\ [s EXCEPT !.curToolID = id].openType = s.openType
<1> DEFINE c == [s EXCEPT !.curToolID = id]
<1>1. s \in StreamType
  BY DEF Leads
<1>2. /\ c \in StreamType /\ c.out = s.out /\ c.openType = s.openType
      /\ c.openIndex = s.openIndex /\ c.nextIndex = s.nextIndex
  BY <1>1 DEF StreamType
<1> HIDE DEF c
<1>3. Leads(m, c)
  BY <1>2 DEF Leads, Consistent, Handler
<1> QED
  BY <1>2, <1>3 DEF c

LEMMA OnToolLeads ==
    ASSUME NEW m, NEW s, Leads(m, s), NEW f \in ToolFrames, NEW n \in 1..MaxFrames
    PROVE  Leads(m, OnTool(s, f, n))
<1> DEFINE b == OpenBlock(s, "tool", f.id)
           t == IF f.id \in {None, s.curToolID} THEN s ELSE [b EXCEPT !.curToolID = f.id]
           u == IF f.input /\ t.openType = "tool" THEN Delta(t, "input", n) ELSE t
<1>1. f.id \in Tools \cup {None}
  BY DEF ToolFrames
<1>2. ASSUME f.id # None PROVE Leads(m, b)
  <2>1. IdFits("tool", f.id) /\ "tool" \in BlockTypes
    BY <1>1, <1>2 DEF IdFits, BlockTypes
  <2> QED
    BY <1>1, <2>1, OpenBlockLeads
<1>3. Leads(m, t)
  <2>1. CASE f.id \in {None, s.curToolID}
    BY <2>1
  <2>2. CASE f.id \notin {None, s.curToolID}
    <3>1. Leads(m, b)
      BY <1>2, <2>2
    <3> HIDE DEF b
    <3>2. Leads(m, [b EXCEPT !.curToolID = f.id])
      BY <1>1, <3>1, CurrentToolLeads
    <3> QED
      BY <2>2, <3>2
  <2> QED
    BY <2>1, <2>2
<1> HIDE DEF t
<1>4. Leads(m, u)
  <2>1. "input" \in DeltaKinds /\ BlockOf("input") = "tool"
    BY DEF DeltaKinds, BlockOf
  <2> QED
    BY <1>3, <2>1, DeltaLeads
<1> HIDE DEF u
<1>5. Leads(m, [CloseOpen(u) EXCEPT !.curToolID = None])
  BY <1>4, CloseOpenLeads, CurrentToolLeads
<1>6. OnTool(s, f, n) = IF f.stop THEN [CloseOpen(u) EXCEPT !.curToolID = None] ELSE u
  BY DEF OnTool, u, t
<1> QED
  BY <1>4, <1>5, <1>6

LEMMA OnMetadataLeads ==
    ASSUME NEW m, NEW s, Leads(m, s), NEW f \in MetadataFrames
    PROVE  Leads(m, OnMetadata(s, f))
<1>1. CASE f.reason = None
  BY <1>1 DEF OnMetadata
<1>2. CASE f.reason # None
  <2> DEFINE r == OnMetadata(s, f)
  <2>1. s \in StreamType
    BY DEF Leads
  <2>2. f.reason \in Reasons /\ r = [s EXCEPT !.stopReason = f.reason]
    BY <1>2 DEF MetadataFrames, OnMetadata
  <2> HIDE DEF r
  <2>3. /\ r \in StreamType /\ r.out = s.out /\ r.openType = s.openType
        /\ r.openIndex = s.openIndex /\ r.nextIndex = s.nextIndex
    BY <2>1, <2>2 DEF StreamType
  <2>4. Leads(m, r)
    BY <2>3 DEF Leads, Consistent, Handler
  <2> QED
    BY <2>4 DEF r
<1> QED
  BY <1>1, <1>2

LEMMA OnFrameLeads ==
    ASSUME NEW m, NEW s, Leads(m, s), NEW f \in Kinds, NEW n \in 1..MaxFrames
    PROVE  Leads(m, OnFrame(s, f, n))
<1>1. f \in ThinkingFrames \/ f \in TextFrames \/ f \in ToolFrames \/ f \in MetadataFrames
  BY KindsAssumption DEF Frames
<1>2. CASE f \in ThinkingFrames
  <2>1. f.type = "thinking"
    BY <1>2 DEF ThinkingFrames
  <2> QED
    BY <1>2, <2>1, OnThinkingLeads DEF OnFrame
<1>3. CASE f \in TextFrames
  <2>1. f.type = "text"
    BY <1>3 DEF TextFrames
  <2>2. OnFrame(s, f, n) = OnText(s, f, n)
    BY <2>1 DEF OnFrame
  <2> QED
    BY <2>2, OnTextLeads
<1>4. CASE f \in ToolFrames
  <2>1. f.type = "tool"
    BY <1>4 DEF ToolFrames
  <2>2. OnFrame(s, f, n) = OnTool(s, f, n)
    BY <2>1 DEF OnFrame
  <2> QED
    BY <1>4, <2>2, OnToolLeads
<1>5. CASE f \in MetadataFrames
  <2>1. f.type = "metadata"
    BY <1>5 DEF MetadataFrames
  <2>2. OnFrame(s, f, n) = OnMetadata(s, f)
    BY <2>1 DEF OnFrame
  <2> QED
    BY <1>5, <2>2, OnMetadataLeads
<1> QED
  BY <1>1, <1>2, <1>3, <1>4, <1>5

--------------------------------------------------------------------------------
(* What the client's message is like when it accepts an event. *)

LEMMA LastOpenKnown ==
    ASSUME BlocksInv
    PROVE  /\ LastOpen = None => \A i \in DOMAIN blocks : ~blocks[i].open
           /\ LastOpen # None => /\ Len(blocks) \in DOMAIN blocks
                                 /\ blocks[Len(blocks)].open
                                 /\ blocks[Len(blocks)].type = LastOpen
           /\ LastOpen \in BlockTypes \cup {None}
           /\ Len(blocks) \in Nat
<1>1. /\ blocks \in Seq(BlockType) /\ Len(blocks) \in Nat
      /\ DOMAIN blocks = 1..Len(blocks)
      /\ blocks # <<>> => Len(blocks) \in 1..Len(blocks)
  BY DEF BlocksInv
<1>2. \A i \in 1..Len(blocks) : blocks[i].type \in BlockTypes
  <2>1. \A i \in 1..Len(blocks) : blocks[i] \in BlockType
    BY <1>1
  <2> QED
    BY <2>1 DEF BlockType
<1>3. CASE LastOpen = None
  <2>1. ASSUME NEW i \in 1..Len(blocks), blocks[i].open PROVE FALSE
    <3>1. i = Len(blocks) /\ blocks # <<>>
      <4>1. i = Len(blocks)
        BY <2>1, Zenon DEF BlocksInv
      <4>2. i # 0 /\ Len(<<>>) = 0
        BY <1>1
      <4> QED
        BY <4>1, <4>2
    <3>2. LastOpen = blocks[Len(blocks)].type
      BY <2>1, <3>1 DEF LastOpen
    <3> QED
      BY <1>2, <1>3, <2>1, <3>1, <3>2, Distinct
  <2> QED
    BY <1>1, <1>3, <2>1
<1>4. CASE LastOpen # None
  <2>1. blocks # <<>> /\ blocks[Len(blocks)].open /\ LastOpen = blocks[Len(blocks)].type
    BY <1>4 DEF LastOpen
  <2> QED
    BY <1>1, <1>2, <1>4, <2>1
<1> QED
  BY <1>3, <1>4

LEMMA ClientState ==
    ASSUME Inv
    PROVE  /\ \A count, type : Client = Open(count, type) =>
                  phase = "open" /\ Len(blocks) = count /\ LastOpen = type
           /\ \A ph : ph # "open" /\ Client = Past(ph) => phase = ph
<1>1. CASE phase = "open"
  BY <1>1 DEF Client, Open, Past
<1>2. CASE phase # "open"
  BY <1>2 DEF Client, Open, Past
<1> QED
  BY <1>1, <1>2

--------------------------------------------------------------------------------
(* Every step keeps the invariant and is a step of MessageStream. *)

LEMMA InitHolds == Init => Inv
<1> SUFFICES ASSUME Init PROVE Inv
  OBVIOUS
<1> USE DEF Init, TurnInit, StreamInit
<1>1. TurnInv
  BY MaxFramesAssumption DEF TurnInv
<1>2. BlocksInv
  BY DEF BlocksInv
<1>3. StreamInv
  <2> DEFINE e == Event("message_start")
  <2>1. e \in Events
    BY DEF Event, Events, FrameEvents
  <2>2. <<e>> \in Seq(Events) /\ <<e>> # <<>> /\ Len(<<e>>) = 1 /\ <<e>>[1] = e
    BY <2>1
  <2>3. Accepts(Client, e) /\ After(e) = Open(0, None)
    BY DEF Event, Accepts, After, Client
  <2>4. stream = [openIndex |-> -1, openType |-> None, nextIndex |-> 0, curToolID |-> None,
                  stopReason |-> "END_TURN", out |-> <<e>>]
    BY DEF InitialStream
  <2> HIDE DEF e
  <2>5. Chain(Client, <<e>>, Open(0, None))
    BY <2>2, <2>3 DEF Chain
  <2>6. stream \in StreamType
    BY <2>2, <2>4 DEF StreamType, Reasons
  <2>7. Consistent(stream)
    BY <2>4 DEF Consistent
  <2>8. Handler(stream) = Open(0, None) /\ stream.out = <<e>> /\ turn # "ended"
    BY <2>4 DEF Handler
  <2> QED
    BY <2>5, <2>6, <2>7, <2>8 DEF StreamInv
<1> QED
  BY <1>1, <1>2, <1>3 DEF Inv

(* While the body is read, the handler leads from the client's message. *)
LEMMA ReadingLeads ==
    ASSUME Inv, turn # "ended", stream.out = <<>>
    PROVE  Leads(Client, stream)
BY DEF Inv, StreamInv, Leads

LEMMA FrameStep ==
    ASSUME Inv, NEW f \in Kinds, ReadFrame(f), StreamFrame(f)
    PROVE  Inv' /\ UNCHANGED <<phase, blocks, reason>>
<1> USE DEF ReadFrame, StreamFrame
<1>1. Leads(Client, stream)
  BY ReadingLeads
<1>2. Len(frames) + 1 \in 1..MaxFrames /\ frames' \in Seq(Kinds) /\ Len(frames') <= MaxFrames
  BY MaxFramesAssumption DEF Inv, TurnInv
<1>3. Leads(Client, stream')
  BY <1>1, <1>2, OnFrameLeads
<1>4. Client' = Client /\ turn' # "ended"
  BY DEF Client, LastOpen
<1>5. StreamInv'
  BY <1>3, <1>4 DEF StreamInv, Leads
<1>6. TurnInv' /\ BlocksInv'
  BY <1>2 DEF Inv, TurnInv, BlocksInv
<1> QED
  BY <1>5, <1>6 DEF Inv

LEMMA EndStep ==
    ASSUME Inv, EndOfBody, StreamEnd
    PROVE  Inv' /\ UNCHANGED <<phase, blocks, reason>>
<1> USE DEF EndOfBody, StreamEnd
<1> DEFINE c == CloseOpen(stream)
           why == MessageDelta(stream.stopReason)
           stop == Event("message_stop")
<1>1. Leads(Client, c) /\ c.openType = None
  BY ReadingLeads, CloseOpenLeads
<1>2. c \in StreamType /\ stream \in StreamType
  BY <1>1 DEF Leads, Inv, StreamInv
<1>3. stream' = [c EXCEPT !.out = c.out \o <<why, stop>>]
  BY DEF OnEnd
<1>4. why \in Events /\ stop \in Events
  BY <1>2 DEF MessageDelta, Event, Events, ReasonEvents, FrameEvents, StreamType
<1>5. Accepts(Handler(c), why) /\ After(why) = Past("closing")
  <2>1. Handler(c) = Open(c.nextIndex, None) /\ c.nextIndex \in Nat
    BY <1>1, <1>2 DEF Handler, StreamType
  <2> HIDE DEF c
  <2> QED
    BY <2>1 DEF MessageDelta, Accepts, After
<1>6. Accepts(Past("closing"), stop) /\ After(stop) = Past("stopped")
  BY DEF Event, Accepts, After
<1> HIDE DEF c, why, stop
<1>7. /\ Append(c.out, why) \in Seq(Events)
      /\ Chain(Client, Append(c.out, why), Past("closing"))
  BY <1>1, <1>4, <1>5, ChainGrows DEF Leads, StreamType
<1>8. /\ Append(Append(c.out, why), stop) \in Seq(Events)
      /\ Chain(Client, Append(Append(c.out, why), stop), Past("stopped"))
  BY <1>4, <1>6, <1>7, ChainGrows
<1>9. c.out \o <<why, stop>> = Append(Append(c.out, why), stop)
  BY <1>2, <1>4 DEF StreamType
<1>10. /\ stream' \in StreamType /\ stream'.out = c.out \o <<why, stop>>
       /\ stream'.openType = c.openType /\ stream'.openIndex = c.openIndex
       /\ stream'.nextIndex = c.nextIndex
  BY <1>2, <1>3, <1>8, <1>9 DEF StreamType
<1>11. Client' = Client /\ turn' = "ended"
  BY DEF Client, LastOpen
<1>12. StreamInv'
  BY <1>1, <1>8, <1>9, <1>10, <1>11 DEF StreamInv, Consistent, Leads
<1>13. TurnInv' /\ BlocksInv'
  BY DEF Inv, TurnInv, BlocksInv
<1> QED
  BY <1>12, <1>13 DEF Inv

LEMMA AbortStep ==
    ASSUME Inv, Overrun, StreamAbort
    PROVE  Inv' /\ UNCHANGED <<phase, blocks, reason>>
<1> USE DEF Overrun, StreamAbort, streamVars
<1>1. Client' = Client /\ turn # "ended" /\ turn' # "ended"
  BY DEF Client, LastOpen
<1>2. StreamInv'
  BY <1>1 DEF Inv, StreamInv, Consistent, Handler
<1>3. TurnInv' /\ BlocksInv'
  BY DEF Inv, TurnInv, BlocksInv
<1> QED
  BY <1>2, <1>3 DEF Inv

(* Writing an event is a step of MessageStream, and leaves the client's    *)
(* message in the state that follows the event.                            *)
LEMMA EmitStep ==
    ASSUME Inv, Emit
    PROVE  Inv' /\ Message!Next
<1> DEFINE e == Head(stream.out)
<1>1. /\ stream \in StreamType /\ stream.out \in Seq(Events) /\ stream.out # <<>>
      /\ Chain(Client, stream.out, IF turn = "ended" THEN Past("stopped") ELSE Handler(stream))
  BY DEF Inv, StreamInv, StreamType, Emit
<1>2. /\ e \in Events
      /\ Tail(stream.out) \in Seq(Events)
      /\ Accepts(Client, e)
      /\ Chain(After(e), Tail(stream.out),
               IF turn = "ended" THEN Past("stopped") ELSE Handler(stream))
  BY <1>1, ChainShrinks
<1>3. /\ Receive(e) /\ UNCHANGED turnVars
      /\ stream' = [stream EXCEPT !.out = Tail(stream.out)]
  BY DEF Emit
<1> HIDE DEF e
<1>4. /\ stream' \in StreamType /\ stream'.out = Tail(stream.out)
      /\ Consistent(stream') /\ Handler(stream') = Handler(stream)
  BY <1>1, <1>2, <1>3 DEF StreamType, Consistent, Handler, Inv, StreamInv
<1>5. ASSUME Client' = After(e) PROVE StreamInv'
  BY <1>2, <1>3, <1>4, <1>5 DEF StreamInv, turnVars
<1>6. BlocksInv /\ Len(blocks) \in Nat /\ blocks \in Seq(BlockType)
  BY LastOpenKnown DEF Inv, BlocksInv
<1>7. ASSUME phase' \in {"none", "open", "closing", "stopped"} PROVE TurnInv'
  BY <1>3, <1>7 DEF Inv, TurnInv, turnVars
<1>8. CASE e \in StartEvents
  <2>1. /\ e.event = "block_start" /\ e.index \in Nat /\ e.type \in BlockTypes
        /\ e.id \in Tools \cup {None} /\ IdFits(e.type, e.id)
    BY <1>8 DEF StartEvents
  <2>2. phase = "open" /\ Len(blocks) = e.index /\ LastOpen = None
    BY <1>2, <2>1, ClientState DEF Accepts
  <2> DEFINE b == [index |-> e.index, type |-> e.type, id |-> e.id, open |-> TRUE,
                   parts |-> <<>>]
  <2>3. blocks' = Append(blocks, b) /\ UNCHANGED <<phase, reason>>
    BY <1>3, <2>1 DEF Receive
  <2>4. b \in BlockType /\ b.open /\ b.type = e.type
    BY <2>1 DEF BlockType
  <2>5. /\ blocks' \in Seq(BlockType) /\ Len(blocks') = e.index + 1
        /\ blocks'[Len(blocks')] = b
        /\ \A i \in 1..Len(blocks) : blocks'[i] = blocks[i]
        /\ blocks' # <<>>
    BY <1>6, <2>2, <2>3, <2>4
  <2>6. \A i \in 1..Len(blocks) : ~blocks[i].open
    BY <1>6, <2>2, LastOpenKnown
  <2>7. BlocksInv'
    <3>1. ASSUME NEW i \in 1..Len(blocks'), blocks'[i].open PROVE i = Len(blocks')
      <4>1. i \notin 1..Len(blocks)
        BY <2>5, <2>6, <3>1
      <4> QED
        BY <1>6, <2>2, <2>5, <4>1
    <3> QED
      BY <2>2, <2>3, <2>5, <3>1 DEF BlocksInv
  <2>8. Client' = After(e)
    <3>1. LastOpen' = e.type
      BY <2>4, <2>5 DEF LastOpen
    <3>2. phase' = "open"
      BY <2>2, <2>3
    <3> QED
      BY <2>1, <2>5, <3>1, <3>2 DEF Client, After
  <2>9. Message!OpenBlock
    <3>1. Message!AllClosed
      BY <1>6, <2>6 DEF Message!AllClosed
    <3>2. CASE e.type = "tool"
      <4>1. e.id \in Tools /\ b = Message!Block(Len(blocks), "tool", e.id)
        BY <2>1, <2>2, <3>2 DEF IdFits, Message!Block
      <4> HIDE DEF b
      <4> QED
        BY <2>2, <2>3, <3>1, <4>1 DEF Message!OpenBlock
    <3>3. CASE e.type # "tool"
      <4>1. /\ e.type \in {"text", "thinking"}
            /\ b = Message!Block(Len(blocks), e.type, None)
        BY <2>1, <2>2, <3>3 DEF IdFits, BlockTypes, Message!Block
      <4> HIDE DEF b
      <4> QED
        BY <2>2, <2>3, <3>1, <4>1 DEF Message!OpenBlock
    <3> QED
      BY <3>2, <3>3
  <2> QED
    BY <1>5, <1>7, <2>2, <2>3, <2>7, <2>8, <2>9 DEF Inv, Message!Next
<1>9. CASE e \in DeltaEvents
  <2>1. /\ e.event = "block_delta" /\ e.index \in Nat /\ e.kind \in DeltaKinds
        /\ e.part \in 1..MaxFrames
    BY <1>9 DEF DeltaEvents
  <2>2. phase = "open" /\ Len(blocks) = e.index + 1 /\ LastOpen = BlockOf(e.kind)
    BY <1>2, <2>1, ClientState DEF Accepts
  <2>3. BlockOf(e.kind) \in BlockTypes /\ BlockOf(e.kind) # None
    BY Distinct DEF BlockOf, BlockTypes
  <2> DEFINE last == Len(blocks)
             new == [blocks[last] EXCEPT !.parts = Append(@, <<e.kind, e.part>>)]
  <2>4. last \in DOMAIN blocks /\ blocks[last].open /\ blocks[last].type = BlockOf(e.kind)
    BY <1>6, <2>2, <2>3, LastOpenKnown
  <2>5. /\ blocks' = [blocks EXCEPT ![last].parts = Append(@, <<e.kind, e.part>>)]
        /\ UNCHANGED <<phase, reason>>
    BY <1>3, <2>1, <2>2, <2>4 DEF Receive, Known
  <2>6. new \in BlockType /\ new.open /\ new.type = BlockOf(e.kind)
    <3>1. blocks[last] \in BlockType
      BY <1>6, <2>4
    <3>2. <<e.kind, e.part>> \in DeltaKinds \X (1..MaxFrames)
      BY <2>1
    <3>3. Append(blocks[last].parts, <<e.kind, e.part>>) \in Seq(DeltaKinds \X (1..MaxFrames))
      <4>1. blocks[last].parts \in Seq(DeltaKinds \X (1..MaxFrames))
        BY <3>1 DEF BlockType
      <4> QED
        BY <3>2, <4>1
    <3> QED
      BY <2>4, <3>1, <3>3 DEF BlockType
  <2>7. /\ blocks' = [blocks EXCEPT ![last] = new]
        /\ blocks' \in Seq(BlockType) /\ Len(blocks') = last
    <3>1. blocks' = [blocks EXCEPT ![last] = new]
      BY <2>5
    <3> HIDE DEF new
    <3> QED
      BY <1>6, <2>4, <2>6, <3>1
  <2>8. Message!GrowBlock
    <3>1. e.kind \in Message!Content(blocks[last].type)
      BY <2>1, <2>4 DEF Message!Content, BlockOf, DeltaKinds
    <3> QED
      BY <2>1, <2>2, <2>4, <2>5, <3>1 DEF Message!GrowBlock
  <2> HIDE DEF new
  <2>9. BlocksInv' /\ LastOpen' = BlockOf(e.kind)
    <3>1. blocks'[last] = new /\ \A i \in 1..last : i # last => blocks'[i] = blocks[i]
      <4>1. DOMAIN blocks = 1..last
        BY <1>6
      <4> HIDE DEF last
      <4> QED
        BY <2>4, <2>7, <4>1
    <3>2. blocks' # <<>>
      BY <1>6, <2>2, <2>7, <2>1
    <3>3. LastOpen' = BlockOf(e.kind)
      BY <2>6, <2>7, <3>1, <3>2 DEF LastOpen
    <3>4. \A i \in 1..Len(blocks') : blocks'[i].open => i = Len(blocks') /\ phase' = "open"
      BY <1>6, <2>2, <2>5, <2>7, <3>1 DEF BlocksInv
    <3> QED
      BY <2>2, <2>5, <2>7, <3>3, <3>4 DEF BlocksInv
  <2>10. Client' = After(e)
    BY <2>1, <2>2, <2>5, <2>7, <2>9 DEF Client, After
  <2> QED
    BY <1>5, <1>7, <2>2, <2>5, <2>8, <2>9, <2>10 DEF Inv, Message!Next
<1>10. CASE e \in StopEvents
  <2>1. e.event = "block_stop" /\ e.index \in Nat
    BY <1>10 DEF StopEvents
  <2>2. phase = "open" /\ Len(blocks) = e.index + 1 /\ LastOpen \in BlockTypes
    BY <1>2, <2>1, ClientState DEF Accepts
  <2> DEFINE last == Len(blocks)
             new == [blocks[last] EXCEPT !.open = FALSE]
  <2>3. last \in DOMAIN blocks /\ blocks[last].open
    BY <1>6, <2>2, Distinct, LastOpenKnown
  <2>4. blocks' = [blocks EXCEPT ![last].open = FALSE] /\ UNCHANGED <<phase, reason>>
    BY <1>3, <2>1, <2>2, <2>3 DEF Receive, Known
  <2>5. new \in BlockType /\ ~new.open
    <3>1. blocks[last] \in BlockType
      BY <1>6, <2>3
    <3> QED
      BY <3>1 DEF BlockType
  <2>6. /\ blocks' = [blocks EXCEPT ![last] = new]
        /\ blocks' \in Seq(BlockType) /\ Len(blocks') = last
    <3>1. blocks' = [blocks EXCEPT ![last] = new]
      BY <2>4
    <3> HIDE DEF new
    <3> QED
      BY <1>6, <2>3, <2>5, <3>1
  <2>7. Message!CloseBlock
    BY <2>2, <2>3, <2>4 DEF Message!CloseBlock
  <2> HIDE DEF new
  <2>8. BlocksInv' /\ LastOpen' = None
    <3>1. blocks'[last] = new /\ \A i \in 1..last : i # last => blocks'[i] = blocks[i]
      <4>1. DOMAIN blocks = 1..last
        BY <1>6
      <4> HIDE DEF last
      <4> QED
        BY <2>3, <2>6, <4>1
    <3>2. LastOpen' = None
      BY <2>5, <2>6, <3>1 DEF LastOpen
    <3>3. \A i \in 1..Len(blocks') : ~blocks'[i].open
      BY <1>6, <2>5, <2>6, <3>1 DEF BlocksInv
    <3> QED
      BY <2>2, <2>4, <2>6, <3>2, <3>3 DEF BlocksInv
  <2>9. Client' = After(e)
    BY <2>1, <2>2, <2>4, <2>6, <2>8 DEF Client, After
  <2> QED
    BY <1>5, <1>7, <2>2, <2>4, <2>7, <2>8, <2>9 DEF Inv, Message!Next
<1>11. CASE e \in ReasonEvents
  <2>1. e.event = "message_delta" /\ e.reason \in Reasons
    BY <1>11 DEF ReasonEvents
  <2>2. phase = "open" /\ LastOpen = None
    BY <1>2, <2>1, ClientState DEF Accepts
  <2>3. phase' = "closing" /\ reason' = e.reason /\ blocks' = blocks
    BY <1>3, <2>1 DEF Receive
  <2>4. \A i \in DOMAIN blocks : ~blocks[i].open
    BY <1>6, <2>2, LastOpenKnown
  <2>5. Message!GiveReason
    BY <2>1, <2>2, <2>3, <2>4 DEF Message!GiveReason, Message!AllClosed
  <2>6. BlocksInv'
    BY <1>6, <2>3, <2>4 DEF BlocksInv
  <2>7. Client' = After(e)
    BY <2>1, <2>3 DEF Client, After
  <2> QED
    BY <1>5, <1>7, <2>3, <2>5, <2>6, <2>7 DEF Inv, Message!Next
<1>12. CASE e \in FrameEvents
  <2>1. e.event = "message_start" \/ e.event = "message_stop"
    BY <1>12 DEF FrameEvents
  <2>2. CASE e.event = "message_start"
    <3>1. phase = "none" /\ blocks = <<>>
      BY <1>2, <1>6, <2>2, ClientState DEF Accepts, BlocksInv
    <3>2. phase' = "open" /\ UNCHANGED <<blocks, reason>>
      BY <1>3, <2>2 DEF Receive
    <3>3. Message!Start
      BY <3>1, <3>2 DEF Message!Start
    <3>4. BlocksInv'
      BY <1>6, <3>1, <3>2 DEF BlocksInv
    <3>5. Client' = After(e)
      BY <2>2, <3>1, <3>2 DEF Client, LastOpen, After
    <3> QED
      BY <1>5, <1>7, <3>2, <3>3, <3>4, <3>5 DEF Inv, Message!Next
  <2>3. CASE e.event = "message_stop"
    <3>1. phase = "closing"
      BY <1>2, <2>3, ClientState DEF Accepts
    <3>2. phase' = "stopped" /\ UNCHANGED <<blocks, reason>>
      BY <1>3, <2>3 DEF Receive
    <3>3. Message!Stop
      BY <3>1, <3>2 DEF Message!Stop
    <3>4. BlocksInv'
      BY <1>6, <3>1, <3>2 DEF BlocksInv
    <3>5. Client' = After(e)
      BY <2>3, <3>2 DEF Client, After
    <3> QED
      BY <1>5, <1>7, <3>2, <3>3, <3>4, <3>5 DEF Inv, Message!Next
  <2> QED
    BY <2>1, <2>2, <2>3
<1> QED
  BY <1>2, <1>8, <1>9, <1>10, <1>11, <1>12 DEF Events

LEMMA StepHolds ==
    ASSUME Inv, [Next]_vars
    PROVE  Inv' /\ [Message!Next]_(Message!vars)
<1>1. ASSUME NEW f \in Kinds, ReadFrame(f) /\ StreamFrame(f)
      PROVE  Inv' /\ [Message!Next]_(Message!vars)
  BY <1>1, FrameStep DEF Message!vars
<1>2. CASE EndOfBody /\ StreamEnd
  BY <1>2, EndStep DEF Message!vars
<1>3. CASE Overrun /\ StreamAbort
  BY <1>3, AbortStep DEF Message!vars
<1>4. CASE Emit
  BY <1>4, EmitStep
<1>5. CASE UNCHANGED vars
  <2>1. Client' = Client
    BY <1>5 DEF vars, Client, LastOpen
  <2>2. Inv'
    BY <1>5, <2>1 DEF vars, Inv, TurnInv, BlocksInv, StreamInv, Consistent, Handler
  <2> QED
    BY <1>5, <2>2 DEF vars, Message!vars
<1> QED
  BY <1>1, <1>2, <1>3, <1>4, <1>5 DEF Next

(* Whatever upstream sends and wherever the turn is cut off, the events    *)
(* that streamAnthropic writes make a well-formed message: for all tools,  *)
(* frames and lengths of a turn.                                           *)
THEOREM WellFormedMessage == Spec => MessageProtocol
<1>1. Init => Inv
  BY InitHolds
<1>2. Inv /\ [Next]_vars => Inv'
  BY StepHolds
<1>3. Inv /\ [Next]_vars => [Message!Next]_(Message!vars)
  BY StepHolds
<1>4. Init => Message!Init
  BY DEF Init, StreamInit, Message!Init
<1> QED
  BY <1>1, <1>2, <1>3, <1>4, PTL DEF Spec, MessageProtocol, Message!Spec

--------------------------------------------------------------------------------
(* Each translator is compared with what the frames themselves ask for     *)
(* (Texts, Thoughts, Inputs, Called).  The Anthropic stream is looked at   *)
(* as the message it will be when the events made so far are written (the  *)
(* view: Begun and Put), so that writing one changes nothing.              *)

IsTool(i) == frames[i].type = "tool"
Texts    == {n \in DOMAIN frames : frames[n].type = "text" /\ frames[n].text}
Thoughts == {n \in DOMAIN frames : frames[n].type = "thinking" /\ frames[n].text}
Inputs(t) == {n \in DOMAIN frames : IsTool(n) /\ frames[n].id = t /\ frames[n].input}
Called(t) == \E n \in DOMAIN frames : IsTool(n) /\ frames[n].id = t

Numbers == Seq(Nat)

(* A list that names each frame of a set stays one when it gets the next frame. *)
LEMMA ListGrows ==
    ASSUME NEW list \in Numbers, NEW set, Lists(list, set),
           NEW n \in Nat, \A m \in set : m \in Nat /\ m < n
    PROVE  Append(list, n) \in Numbers /\ Lists(Append(list, n), set \cup {n})
<1> DEFINE new == Append(list, n)
<1>1. /\ new \in Numbers
      /\ Len(list) \in Nat /\ DOMAIN list = 1..Len(list)
      /\ DOMAIN new = 1..(Len(list) + 1)
      /\ new[Len(list) + 1] = n
      /\ \A i \in 1..Len(list) : new[i] = list[i]
  BY DEF Numbers
<1> HIDE DEF new
<1>2. \A i \in 1..Len(list) : list[i] \in set
  BY <1>1 DEF Lists
<1>3. {new[i] : i \in DOMAIN new} = set \cup {n}
  <2>1. ASSUME NEW i \in DOMAIN new PROVE new[i] \in set \cup {n}
    <3>1. i \in 1..Len(list) \/ i = Len(list) + 1
      BY <1>1
    <3> QED
      BY <1>1, <1>2, <3>1
  <2>2. ASSUME NEW m \in set PROVE \E i \in DOMAIN new : new[i] = m
    <3>1. PICK i \in 1..Len(list) : list[i] = m
      BY <1>1 DEF Lists
    <3> QED
      BY <1>1, <3>1
  <2>3. Len(list) + 1 \in DOMAIN new
    BY <1>1
  <2> QED
    BY <1>1, <2>1, <2>2, <2>3
<1>4. ASSUME NEW i \in DOMAIN new, NEW j \in DOMAIN new, i < j PROVE new[i] < new[j]
  <2>1. i \in 1..Len(list)
    BY <1>1, <1>4
  <2>2. CASE j = Len(list) + 1
    BY <1>1, <1>2, <2>1, <2>2
  <2>3. CASE j # Len(list) + 1
    <3>1. j \in 1..Len(list)
      BY <1>1, <2>3
    <3> QED
      BY <1>1, <1>4, <2>1, <3>1 DEF Lists
  <2> QED
    BY <2>2, <2>3
<1> QED
  BY <1>1, <1>3, <1>4 DEF Lists, new

LEMMA EmptyList == <<>> \in Numbers /\ Lists(<<>>, {})
BY DEF Numbers, Lists

--------------------------------------------------------------------------------
(* The turn. *)

LEMMA FramesGrow ==
    ASSUME TurnTypeOK, NEW f \in Kinds, ReadFrame(f)
    PROVE  /\ TurnTypeOK'
           /\ Len(frames) \in Nat /\ Len(frames) + 1 \in 1..MaxFrames
           /\ DOMAIN frames = 1..Len(frames)
           /\ DOMAIN frames' = 1..(Len(frames) + 1)
           /\ Len(frames') = Len(frames) + 1
           /\ frames'[Len(frames) + 1] = f
           /\ \A i \in 1..Len(frames) : frames'[i] = frames[i]
BY MaxFramesAssumption DEF TurnTypeOK, ReadFrame

(* A frame adds itself to what the frames ask for, if it is of that kind. *)
LEMMA AskedGrows ==
    ASSUME TurnTypeOK, NEW f \in Kinds, ReadFrame(f)
    PROVE  /\ Texts' = IF f.type = "text" /\ f.text THEN Texts \cup {Len(frames) + 1} ELSE Texts
           /\ Thoughts' = IF f.type = "thinking" /\ f.text THEN Thoughts \cup {Len(frames) + 1}
                          ELSE Thoughts
           /\ \A t : Inputs(t)' = IF f.type = "tool" /\ f.id = t /\ f.input
                                  THEN Inputs(t) \cup {Len(frames) + 1} ELSE Inputs(t)
           /\ \A t : Called(t)' <=> Called(t) \/ (f.type = "tool" /\ f.id = t)
           /\ \A m \in Texts \cup Thoughts : m \in Nat /\ m < Len(frames) + 1
           /\ \A t : \A m \in Inputs(t) : m \in Nat /\ m < Len(frames) + 1
<1> DEFINE n == Len(frames) + 1
<1>1. /\ n \in Nat /\ DOMAIN frames = 1..(n - 1) /\ DOMAIN frames' = 1..n
      /\ frames'[n] = f /\ \A i \in 1..(n - 1) : frames'[i] = frames[i]
  BY FramesGrow
<1>2. 1..n = 1..(n - 1) \cup {n} /\ n \notin 1..(n - 1)
  BY <1>1
<1> HIDE DEF n
<1>3. Texts' = IF f.type = "text" /\ f.text THEN Texts \cup {n} ELSE Texts
  BY <1>1, <1>2 DEF Texts
<1>4. Thoughts' = IF f.type = "thinking" /\ f.text THEN Thoughts \cup {n} ELSE Thoughts
  BY <1>1, <1>2 DEF Thoughts
<1>5. ASSUME NEW t
      PROVE  /\ Inputs(t)' = IF f.type = "tool" /\ f.id = t /\ f.input THEN Inputs(t) \cup {n}
                             ELSE Inputs(t)
             /\ Called(t)' <=> Called(t) \/ (f.type = "tool" /\ f.id = t)
             /\ \A m \in Inputs(t) : m \in Nat /\ m < n
  BY <1>1, <1>2 DEF Inputs, Called, IsTool
<1>6. \A m \in Texts \cup Thoughts : m \in Nat /\ m < n
  BY <1>1 DEF Texts, Thoughts
<1> QED
  BY <1>3, <1>4, <1>5, <1>6 DEF n

(* A frame is about the tool it names, or about that of the frame before it. *)
LEMMA AboutGrows ==
    ASSUME TurnTypeOK, NEW f \in Kinds, ReadFrame(f), NEW t, NEW n, n = Len(frames) + 1
    PROVE  /\ \A m \in 0..(n - 1) : About(m, t) => About(m, t)'
           /\ Names(f, t) => About(n, t)'
           /\ (f.type = "tool" => f.id = None) /\ About(n - 1, t) => About(n, t)'
<1>1. /\ n \in Nat /\ n >= 1 /\ frames'[n] = f
      /\ \A i \in 1..(n - 1) : frames'[i] = frames[i]
  BY FramesGrow
<1>2. ASSUME NEW m \in 0..(n - 1), About(m, t) PROVE About(m, t)'
  BY <1>1, <1>2 DEF About, Names
<1>3. ASSUME Names(f, t) PROVE About(n, t)'
  BY <1>1, <1>3 DEF About, Names
<1>4. ASSUME f.type = "tool" => f.id = None, About(n - 1, t) PROVE About(n, t)'
  <2>1. PICK m \in 1..(n - 1) :
            /\ Names(frames[m], t)
            /\ \A k \in (m + 1)..(n - 1) : frames[k].type = "tool" => frames[k].id = None
    BY <1>4 DEF About
  <2>2. m \in 1..n /\ Names(frames'[m], t)
    BY <1>1, <2>1
  <2>3. ASSUME NEW k \in (m + 1)..n, frames'[k].type = "tool" PROVE frames'[k].id = None
    BY <1>1, <1>4, <2>1, <2>3
  <2> QED
    BY <2>2, <2>3 DEF About
<1> QED
  BY <1>1, <1>2, <1>3, <1>4

--------------------------------------------------------------------------------
(* What is collected for a client that does not stream. *)

AggregateType ==
    [thinking : Numbers, signature : Nat \cup {None}, text : Numbers, toolOrder : Seq(Tools),
     input : [Tools -> Numbers], stopReason : Reasons]

CollectInv ==
    /\ agg \in AggregateType
    /\ Lists(agg.text, Texts)
    /\ Lists(agg.thinking, Thoughts)
    /\ \A t \in Tools : Lists(agg.input[t], Inputs(t))
    /\ \A t \in Tools : Seen(t) <=> Called(t)
    /\ \A i, j \in DOMAIN agg.toolOrder : agg.toolOrder[i] = agg.toolOrder[j] => i = j

LEMMA CollectStart == TurnInit /\ AggregateInit => CollectInv
<1> SUFFICES ASSUME TurnInit, AggregateInit PROVE CollectInv
  OBVIOUS
<1>1. agg = [thinking |-> <<>>, signature |-> None, text |-> <<>>, toolOrder |-> <<>>,
             input |-> [t \in Tools |-> <<>>], stopReason |-> "END_TURN"]
  BY DEF AggregateInit, InitialAggregate
<1>2. /\ <<>> \in Numbers /\ Lists(<<>>, {}) /\ <<>> \in Seq(Tools) /\ DOMAIN <<>> = {}
      /\ "END_TURN" \in Reasons
  BY EmptyList DEF Reasons
<1>3. [t \in Tools |-> <<>>] \in [Tools -> Numbers]
  BY <1>2
<1>4. agg \in AggregateType
  BY <1>1, <1>2, <1>3 DEF AggregateType
<1>5. /\ agg.text = <<>> /\ agg.thinking = <<>> /\ agg.toolOrder = <<>>
      /\ \A t \in Tools : agg.input[t] = <<>>
  BY <1>1
<1>6. DOMAIN frames = {}
  BY <1>2 DEF TurnInit
<1>7. Texts = {} /\ Thoughts = {} /\ \A t : Inputs(t) = {} /\ ~Called(t)
  BY <1>6 DEF Texts, Thoughts, Inputs, Called
<1>8. \A t \in Tools : ~Seen(t)
  BY <1>2, <1>5 DEF Seen
<1> QED
  BY <1>2, <1>4, <1>5, <1>7, <1>8 DEF CollectInv

(* The kinds of frames. *)
LEMMA FrameKinds ==
    ASSUME NEW f \in Kinds
    PROVE  \/ f \in ThinkingFrames /\ f.type = "thinking"
           \/ f \in TextFrames /\ f.type = "text"
           \/ f \in ToolFrames /\ f.type = "tool" /\ f.id \in Tools \cup {None}
           \/ f \in MetadataFrames /\ f.type = "metadata" /\ f.reason \in Reasons \cup {None}
BY KindsAssumption DEF Frames, ThinkingFrames, TextFrames, ToolFrames, MetadataFrames

(* Only the list of its kind, and a tool's only by its ID, gets a frame. *)
LEMMA CollectStep ==
    ASSUME TurnTypeOK, CollectInv, NEW f \in Kinds, ReadFrame(f), AggregateFrame(f)
    PROVE  CollectInv'
<1> DEFINE n == Len(frames) + 1
<1>1. /\ n \in Nat
      /\ Texts' = IF f.type = "text" /\ f.text THEN Texts \cup {n} ELSE Texts
      /\ Thoughts' = IF f.type = "thinking" /\ f.text THEN Thoughts \cup {n} ELSE Thoughts
      /\ \A t : Inputs(t)' = IF f.type = "tool" /\ f.id = t /\ f.input THEN Inputs(t) \cup {n}
                             ELSE Inputs(t)
      /\ \A t : Called(t)' <=> Called(t) \/ (f.type = "tool" /\ f.id = t)
      /\ \A m \in Texts \cup Thoughts : m \in Nat /\ m < n
      /\ \A t : \A m \in Inputs(t) : m \in Nat /\ m < n
  BY FramesGrow, AskedGrows
<1>2. agg' = CASE f.type = "thinking" -> CollectThinking(f, n)
               [] f.type = "text"     -> CollectText(f, n)
               [] f.type = "tool"     -> CollectTool(f, n)
               [] f.type = "metadata" -> CollectMetadata(f)
  BY DEF AggregateFrame
<1> HIDE DEF n
<1>3. /\ agg \in AggregateType
      /\ agg.text \in Numbers /\ agg.thinking \in Numbers /\ agg.toolOrder \in Seq(Tools)
      /\ agg.input \in [Tools -> Numbers] /\ agg.stopReason \in Reasons
      /\ agg.signature \in Nat \cup {None}
  BY DEF CollectInv, AggregateType
<1>4. CASE f.type = "thinking"
  <2>1. agg' = [agg EXCEPT !.thinking = IF f.text THEN Append(agg.thinking, n) ELSE agg.thinking,
                           !.signature = IF f.signature THEN n ELSE agg.signature]
    BY <1>2, <1>4 DEF CollectThinking
  <2> DEFINE th == IF f.text THEN Append(agg.thinking, n) ELSE agg.thinking
             sg == IF f.signature THEN n ELSE agg.signature
  <2>2. th \in Numbers /\ Lists(th, Thoughts')
    BY <1>1, <1>3, <1>4, ListGrows DEF CollectInv
  <2>3. sg \in Nat \cup {None}
    BY <1>1, <1>3
  <2> HIDE DEF th, sg
  <2>4. /\ agg' \in AggregateType
        /\ agg'.thinking = th /\ agg'.text = agg.text /\ agg'.toolOrder = agg.toolOrder
        /\ agg'.input = agg.input
    BY <1>3, <2>1, <2>2, <2>3 DEF AggregateType, th, sg
  <2>5. Texts' = Texts /\ \A t : Inputs(t)' = Inputs(t) /\ (Called(t)' <=> Called(t))
    BY <1>1, <1>4
  <2> QED
    BY <2>2, <2>4, <2>5 DEF CollectInv, Seen
<1>5. CASE f.type = "text"
  <2> DEFINE tx == IF f.text THEN Append(agg.text, n) ELSE agg.text
  <2>1. agg' = [agg EXCEPT !.text = tx]
    BY <1>2, <1>5 DEF CollectText
  <2>2. tx \in Numbers /\ Lists(tx, Texts')
    BY <1>1, <1>3, <1>5, ListGrows DEF CollectInv
  <2> HIDE DEF tx
  <2>4. /\ agg' \in AggregateType
        /\ agg'.thinking = agg.thinking /\ agg'.text = tx /\ agg'.toolOrder = agg.toolOrder
        /\ agg'.input = agg.input
    BY <1>3, <2>1, <2>2 DEF AggregateType
  <2>5. Thoughts' = Thoughts /\ \A t : Inputs(t)' = Inputs(t) /\ (Called(t)' <=> Called(t))
    BY <1>1, <1>5
  <2> QED
    BY <2>2, <2>4, <2>5 DEF CollectInv, Seen
<1>6. CASE f.type = "tool" /\ f.id = None
  <2>1. agg' = agg
    BY <1>2, <1>6 DEF CollectTool
  <2>2. /\ Thoughts' = Thoughts /\ Texts' = Texts
        /\ \A t \in Tools : Inputs(t)' = Inputs(t) /\ (Called(t)' <=> Called(t))
    BY <1>1, <1>6, Distinct
  <2> QED
    BY <2>1, <2>2 DEF CollectInv, Seen
<1>7. CASE f.type = "tool" /\ f.id # None
  <2> DEFINE to == IF Seen(f.id) THEN agg.toolOrder ELSE Append(agg.toolOrder, f.id)
             il == IF f.input THEN Append(agg.input[f.id], n) ELSE agg.input[f.id]
             ip == [agg.input EXCEPT ![f.id] = il]
  <2>1. agg' = [agg EXCEPT !.toolOrder = to, !.input = ip]
    BY <1>2, <1>7, <1>3 DEF CollectTool
  <2>2. f.id \in Tools
    BY <1>7, FrameKinds
  <2>3. il \in Numbers /\ Lists(il, Inputs(f.id)')
    BY <1>1, <1>3, <1>7, <2>2, ListGrows DEF CollectInv
  <2>4. to \in Seq(Tools)
    BY <1>3, <2>2
  <2>5. /\ \A t \in Tools : (\E i \in DOMAIN to : to[i] = t) <=> Seen(t) \/ t = f.id
        /\ \A i, j \in DOMAIN to : to[i] = to[j] => i = j
    <3>1. CASE Seen(f.id)
      BY <3>1 DEF CollectInv, Seen
    <3>2. CASE ~Seen(f.id)
      <4>1. /\ to = Append(agg.toolOrder, f.id)
            /\ Len(agg.toolOrder) \in Nat
            /\ DOMAIN agg.toolOrder = 1..Len(agg.toolOrder)
            /\ DOMAIN to = 1..(Len(agg.toolOrder) + 1)
            /\ to[Len(agg.toolOrder) + 1] = f.id
            /\ \A i \in 1..Len(agg.toolOrder) : to[i] = agg.toolOrder[i]
        BY <1>3, <2>2, <3>2
      <4> HIDE DEF to
      <4>2. \A i \in 1..Len(agg.toolOrder) : agg.toolOrder[i] # f.id
        BY <3>2, <4>1 DEF Seen
      <4>3. \A i \in DOMAIN to : i \in 1..Len(agg.toolOrder) \/ i = Len(agg.toolOrder) + 1
        BY <4>1
      <4>4. \A i \in 1..Len(agg.toolOrder) : i \in DOMAIN to
        BY <4>1
      <4>5. \A i, j \in DOMAIN to : to[i] = to[j] => i = j
        BY <4>1, <4>2, <4>3 DEF CollectInv
      <4>6. ASSUME NEW t \in Tools PROVE (\E i \in DOMAIN to : to[i] = t) <=> Seen(t) \/ t = f.id
        BY <4>1, <4>3, <4>4 DEF Seen
      <4> QED
        BY <4>5, <4>6
    <3> QED
      BY <3>1, <3>2
  <2> HIDE DEF to, il
  <2>6. ip \in [Tools -> Numbers] /\ \A t \in Tools : ip[t] = IF t = f.id THEN il ELSE agg.input[t]
    BY <1>3, <2>2, <2>3
  <2> HIDE DEF ip
  <2>7. /\ agg' \in AggregateType
        /\ agg'.thinking = agg.thinking /\ agg'.text = agg.text /\ agg'.toolOrder = to
        /\ agg'.input = ip
    BY <1>3, <2>1, <2>4, <2>6 DEF AggregateType
  <2>8. /\ Thoughts' = Thoughts /\ Texts' = Texts
        /\ \A t \in Tools : t # f.id => Inputs(t)' = Inputs(t)
        /\ \A t \in Tools : Called(t)' <=> Called(t) \/ t = f.id
    BY <1>1, <1>7
  <2>9. \A t \in Tools : Lists(agg'.input[t], Inputs(t)')
    BY <2>3, <2>6, <2>7, <2>8 DEF CollectInv
  <2>10. \A t \in Tools : Seen(t)' <=> Called(t)'
    BY <2>5, <2>7, <2>8 DEF CollectInv, Seen
  <2> QED
    BY <2>5, <2>7, <2>8, <2>9, <2>10 DEF CollectInv
<1>8. CASE f.type = "metadata"
  <2> DEFINE why == IF f.reason = None THEN agg.stopReason ELSE f.reason
  <2>1. agg' = [agg EXCEPT !.stopReason = why]
    BY <1>2, <1>8 DEF CollectMetadata
  <2>2. why \in Reasons
    BY <1>3, <1>8, FrameKinds
  <2> HIDE DEF why
  <2>3. /\ agg' \in AggregateType
        /\ agg'.thinking = agg.thinking /\ agg'.text = agg.text /\ agg'.toolOrder = agg.toolOrder
        /\ agg'.input = agg.input
    BY <1>3, <2>1, <2>2 DEF AggregateType
  <2>4. /\ Thoughts' = Thoughts /\ Texts' = Texts
        /\ \A t : Inputs(t)' = Inputs(t) /\ (Called(t)' <=> Called(t))
    BY <1>1, <1>8
  <2> QED
    BY <2>3, <2>4 DEF CollectInv, Seen
<1> QED
  BY <1>4, <1>5, <1>6, <1>7, <1>8, FrameKinds

--------------------------------------------------------------------------------
(* What the OpenAI stream and its client have. *)

CallType == [id : Tools, arguments : Numbers]

OpenAIType ==
    /\ call \in [toolIndex : [Tools -> Nat \cup {None}], nextToolIdx : Nat,
                 curToolID : Tools \cup {None}, stopReason : Reasons]
    /\ completion \in [reasoning : Numbers, content : Numbers, calls : Seq(CallType),
                       finish : Reasons \cup {None}]

(* The handler's table says where in the client's list each call is. *)
Indexed(calls, index) ==
    /\ \A t \in Tools : index[t] # None =>
           index[t] + 1 \in DOMAIN calls /\ calls[index[t] + 1].id = t
    /\ \A i \in DOMAIN calls : index[calls[i].id] = i - 1

SameOrder(calls, order) ==
    /\ Len(calls) = Len(order)
    /\ \A i \in DOMAIN calls : calls[i].id = order[i]

(* A call's arguments are its tool's input, and what came without an ID    *)
(* while the tool was the current one.                                     *)
Given(c) == {c.arguments[k] : k \in DOMAIN c.arguments}
Fed(c) ==
    /\ Lists(c.arguments, Given(c))
    /\ \A n \in Given(c) : n \in 1..Len(frames) /\ About(n, c.id)
    /\ {n \in Given(c) : frames[n].id # None} = Inputs(c.id)

CallsInv ==
    /\ OpenAIType
    /\ completion.content = agg.text /\ completion.reasoning = agg.thinking
    /\ call.stopReason = agg.stopReason
    /\ turn = "ended" => completion.finish = call.stopReason
    /\ call.nextToolIdx = Len(completion.calls)
    /\ Indexed(completion.calls, call.toolIndex)
    /\ SameOrder(completion.calls, agg.toolOrder)
    /\ call.curToolID # None => /\ call.toolIndex[call.curToolID] # None
                                /\ About(Len(frames), call.curToolID)
    /\ \A i \in DOMAIN completion.calls : Fed(completion.calls[i])

WithInput(c, n) == [c EXCEPT !.arguments = Append(@, n)]

LEMMA WithInputType ==
    ASSUME NEW c, c \in CallType, NEW n \in Nat
    PROVE  WithInput(c, n) \in CallType /\ WithInput(c, n).id = c.id
<1>1. c.arguments \in Numbers /\ c.id \in Tools
  BY DEF CallType
<1>2. Append(c.arguments, n) \in Numbers
  BY <1>1 DEF Numbers
<1>3. WithInput(c, n) = [c EXCEPT !.arguments = Append(c.arguments, n)]
  BY DEF WithInput
<1> QED
  BY <1>1, <1>2, <1>3 DEF CallType

(* A call stays fed when a frame goes elsewhere, and when it gets its own. *)
LEMMA FedGrows ==
    ASSUME TurnTypeOK, NEW f \in Kinds, ReadFrame(f), NEW n, n = Len(frames) + 1,
           NEW c \in CallType, Fed(c)
    PROVE  /\ ~(f.type = "tool" /\ f.id = c.id /\ f.input) => Fed(c)'
           /\ f.type = "tool" /\ f.id = c.id /\ f.input => Fed(WithInput(c, n))'
           /\ f.type = "tool" /\ f.id = None /\ About(n - 1, c.id) => Fed(WithInput(c, n))'
<1> DEFINE w == WithInput(c, n)
           t == c.id
<1>1. /\ n \in Nat /\ n >= 1 /\ frames'[n] = f /\ Len(frames') = n /\ Len(frames) = n - 1
      /\ \A i \in 1..(n - 1) : frames'[i] = frames[i]
  BY FramesGrow
<1>2. /\ t \in Tools /\ t # None
      /\ w.id = t /\ w.arguments = Append(c.arguments, n) /\ c.arguments \in Numbers
  BY Distinct DEF CallType, WithInput
<1>3. Inputs(t)' = IF f.type = "tool" /\ f.id = t /\ f.input THEN Inputs(t) \cup {n} ELSE Inputs(t)
  BY AskedGrows
<1>4. \A m \in Given(c) : m \in 1..(n - 1) /\ m \in Nat /\ m < n
  BY <1>1 DEF Fed
<1>5. \A m \in Given(c) : About(m, t)'
  <2>1. ASSUME NEW m \in Given(c) PROVE About(m, t)'
    <3>1. About(m, t) /\ m \in 0..(n - 1)
      BY <1>1 DEF Fed
    <3> QED
      BY <1>2, <3>1, AboutGrows
  <2> QED
    BY <2>1
<1>6. ASSUME ~(f.type = "tool" /\ f.id = t /\ f.input) PROVE Fed(c)'
  <2>1. {m \in Given(c) : frames'[m].id # None} = Inputs(t)'
    BY <1>1, <1>3, <1>6 DEF Fed
  <2> QED
    BY <1>1, <1>5, <2>1 DEF Fed, Given
<1>7. Lists(w.arguments, Given(c) \cup {n}) /\ Given(w) = Given(c) \cup {n}
  <2>1. Lists(c.arguments, Given(c))
    BY DEF Fed
  <2>2. Lists(Append(c.arguments, n), Given(c) \cup {n})
    BY <1>1, <1>2, <1>4, <2>1, ListGrows
  <2> HIDE DEF w
  <2>3. Lists(w.arguments, Given(c) \cup {n})
    BY <1>2, <2>2
  <2> QED
    BY <2>3 DEF Given, Lists
<1> HIDE DEF w
<1>8. ASSUME f.type = "tool", About(n, t)', 
             \/ f.id = t /\ f.input
             \/ f.id = None
      PROVE  Fed(w)'
  <2>1. \A m \in Given(w) : m \in 1..n /\ About(m, t)'
    BY <1>1, <1>4, <1>5, <1>7, <1>8
  <2>2. {m \in Given(w) : frames'[m].id # None} = Inputs(t)'
    <3>1. \A m \in Given(c) : frames'[m] = frames[m] /\ m # n
      BY <1>1, <1>4 DEF Fed
    <3>2. CASE f.id = t /\ f.input
      BY <1>1, <1>2, <1>3, <1>7, <1>8, <3>1, <3>2 DEF Fed
    <3>3. CASE f.id = None
      BY <1>1, <1>2, <1>3, <1>7, <1>8, <3>1, <3>3 DEF Fed
    <3> QED
      BY <1>8, <3>2, <3>3
  <2> QED
    BY <1>1, <1>2, <1>7, <2>1, <2>2 DEF Fed
<1>9. ASSUME f.type = "tool", f.id = t PROVE About(n, t)'
  BY <1>1, <1>2, <1>9, AboutGrows DEF Names
<1>10. ASSUME f.type = "tool", f.id = None, About(n - 1, t) PROVE About(n, t)'
  BY <1>1, <1>2, <1>10, AboutGrows
<1> QED
  BY <1>6, <1>8, <1>9, <1>10 DEF w

LEMMA CallsStart == TurnInit /\ AggregateInit /\ OpenAIInit => CallsInv
<1> SUFFICES ASSUME TurnInit, AggregateInit, OpenAIInit PROVE CallsInv
  OBVIOUS
<1>1. <<>> \in Numbers /\ <<>> \in Seq(CallType) /\ DOMAIN <<>> = {} /\ "END_TURN" \in Reasons
  BY EmptyList DEF Reasons
<1>2. [t \in Tools |-> None] \in [Tools -> Nat \cup {None}]
  OBVIOUS
<1>3. OpenAIType
  BY <1>1, <1>2 DEF OpenAIInit, OpenAIType
<1>4. /\ completion.content = <<>> /\ completion.reasoning = <<>> /\ completion.calls = <<>>
      /\ call.nextToolIdx = 0 /\ call.curToolID = None /\ call.stopReason = "END_TURN"
      /\ call.toolIndex = [t \in Tools |-> None]
      /\ agg.text = <<>> /\ agg.thinking = <<>> /\ agg.toolOrder = <<>>
      /\ agg.stopReason = "END_TURN" /\ turn = "reading"
  BY DEF OpenAIInit, AggregateInit, InitialAggregate, TurnInit
<1>5. Len(<<>>) = 0
  OBVIOUS
<1>6. Indexed(<<>>, call.toolIndex) /\ SameOrder(<<>>, <<>>)
  BY <1>1, <1>4 DEF Indexed, SameOrder
<1> QED
  BY <1>1, <1>3, <1>4, <1>5, <1>6 DEF CallsInv

(* A tool's first frame appends its call, a later one finds it. *)
LEMMA AnnouncedCall ==
    ASSUME CollectInv, CallsInv, NEW t, t \in Tools
    PROVE  LET new   == call.toolIndex[t] = None
               index == IF new THEN [call.toolIndex EXCEPT ![t] = call.nextToolIdx]
                        ELSE call.toolIndex
               calls == IF new THEN Append(completion.calls, [id |-> t, arguments |-> <<>>])
                        ELSE completion.calls
           IN  /\ calls \in Seq(CallType)
               /\ index \in [Tools -> Nat \cup {None}]
               /\ Indexed(calls, index)
               /\ index[t] \in Nat /\ index[t] + 1 \in DOMAIN calls
               /\ calls[index[t] + 1].id = t
               /\ SameOrder(calls, IF Seen(t) THEN agg.toolOrder ELSE Append(agg.toolOrder, t))
               /\ Len(calls) = IF new THEN call.nextToolIdx + 1 ELSE call.nextToolIdx
               /\ \A i \in DOMAIN calls : Fed(calls[i])
               /\ Announced(completion.calls, index[t], t) = calls
               /\ call.curToolID = t => ~new
<1> DEFINE old == completion.calls
           order == agg.toolOrder
           next == call.nextToolIdx
<1>1. /\ old \in Seq(CallType) /\ Len(old) = next /\ next \in Nat /\ DOMAIN old = 1..next
      /\ call.toolIndex \in [Tools -> Nat \cup {None}]
      /\ Indexed(old, call.toolIndex) /\ SameOrder(old, order)
      /\ order \in Seq(Tools) /\ Len(order) = next /\ DOMAIN order = 1..next
      /\ \A i \in 1..next : old[i] \in CallType
  BY DEF CallsInv, OpenAIType, CollectInv, AggregateType, SameOrder
<1>2. \A i \in 1..next : old[i].id \in Tools
  BY <1>1 DEF CallType
<1>3. CASE call.toolIndex[t] = None
  <2> DEFINE c == [id |-> t, arguments |-> <<>>]
             calls == Append(old, c)
             index == [call.toolIndex EXCEPT ![t] = next]
  <2>1. c \in CallType /\ c.id = t /\ c.arguments = <<>>
    BY EmptyList DEF CallType
  <2> HIDE DEF c
  <2>2. /\ calls \in Seq(CallType) /\ Len(calls) = next + 1 /\ DOMAIN calls = 1..(next + 1)
        /\ calls[next + 1] = c /\ \A i \in 1..next : calls[i] = old[i]
    BY <1>1, <2>1
  <2>3. /\ index \in [Tools -> Nat \cup {None}] /\ index[t] = next
        /\ \A u \in Tools : u # t => index[u] = call.toolIndex[u]
    BY <1>1
  <2> HIDE DEF calls, index
  <2>4. \A i \in 1..next : old[i].id # t
    <3>1. ASSUME NEW i \in 1..next, old[i].id = t PROVE FALSE
      <4>1. call.toolIndex[t] = i - 1
        BY <1>1, <3>1 DEF Indexed
      <4> QED
        BY <1>3, <4>1, NoneAssumption
    <3> QED
      BY <3>1
  <2>5. ~Seen(t)
    BY <1>1, <2>4 DEF Seen, SameOrder
  <2>6. Indexed(calls, index)
    <3>1. ASSUME NEW u \in Tools, index[u] # None
          PROVE  index[u] + 1 \in DOMAIN calls /\ calls[index[u] + 1].id = u
      <4>1. CASE u = t
        BY <1>1, <2>1, <2>2, <2>3, <4>1
      <4>2. CASE u # t
        <5>1. index[u] + 1 \in 1..next /\ old[index[u] + 1].id = u
          BY <1>1, <2>3, <3>1, <4>2 DEF Indexed
        <5> QED
          BY <1>1, <2>2, <5>1
      <4> QED
        BY <4>1, <4>2
    <3>2. ASSUME NEW i \in DOMAIN calls PROVE index[calls[i].id] = i - 1
      <4>1. CASE i = next + 1
        BY <1>1, <2>1, <2>2, <2>3, <4>1
      <4>2. CASE i # next + 1
        <5>1. i \in 1..next
          BY <1>1, <2>2, <4>2
        <5> QED
          BY <1>1, <1>2, <2>2, <2>3, <2>4, <5>1 DEF Indexed
      <4> QED
        BY <4>1, <4>2
    <3> QED
      BY <3>1, <3>2 DEF Indexed
  <2>7. SameOrder(calls, Append(order, t))
    <3>1. /\ Len(Append(order, t)) = next + 1 /\ Append(order, t)[next + 1] = t
          /\ \A i \in 1..next : Append(order, t)[i] = order[i]
      BY <1>1
    <3> QED
      BY <1>1, <2>1, <2>2, <3>1 DEF SameOrder
  <2>8. \A i \in DOMAIN calls : Fed(calls[i])
    <3>1. Inputs(t) = {}
      BY <2>5 DEF CollectInv, Called, Inputs
    <3>2. Fed(c)
      <4>1. DOMAIN <<>> = {}
        OBVIOUS
      <4>2. Given(c) = {}
        BY <2>1, <4>1 DEF Given
      <4> QED
        BY <2>1, <3>1, <4>2, EmptyList DEF Fed
    <3> QED
      BY <1>1, <2>2, <3>2 DEF CallsInv
  <2>9. Announced(old, index[t], t) = calls
    BY <1>1, <2>3 DEF Announced, calls, c
  <2>10. call.curToolID # t
    BY <1>3, Distinct DEF CallsInv
  <2> QED
    BY <1>1, <1>3, <2>1, <2>2, <2>3, <2>5, <2>6, <2>7, <2>8, <2>9, <2>10 DEF calls, index, c
<1>4. CASE call.toolIndex[t] # None
  <2> DEFINE p == call.toolIndex[t] + 1
  <2>1. call.toolIndex[t] \in Nat /\ p \in 1..next /\ old[p].id = t
    BY <1>1, <1>4 DEF Indexed
  <2>2. Seen(t)
    BY <1>1, <2>1 DEF Seen, SameOrder
  <2>3. Announced(old, call.toolIndex[t], t) = old
    <3>1. call.toolIndex[t] # Len(old)
      BY <1>1, <2>1
    <3>2. [old EXCEPT ![p].id = t] = old
      <4>1. old[p] \in CallType
        BY <1>1, <2>1
      <4>2. [old[p] EXCEPT !.id = t] = old[p]
        BY <2>1, <4>1 DEF CallType
      <4> HIDE DEF p
      <4>3. [old EXCEPT ![p] = old[p]] = old
        BY <1>1, <2>1
      <4> QED
        BY <4>2, <4>3
    <3> QED
      BY <3>1, <3>2 DEF Announced
  <2> QED
    BY <1>1, <1>4, <2>1, <2>2, <2>3 DEF CallsInv
<1> QED
  BY <1>3, <1>4

(* The frames of a tool reach its call, in the list and in the collected   *)
(* turn alike.                                                             *)
LEMMA CallsStep ==
    ASSUME TurnTypeOK, CollectInv, CallsInv, NEW f \in Kinds,
           ReadFrame(f), OpenAIFrame(f), AggregateFrame(f)
    PROVE  CallsInv'
<1> SUFFICES ASSUME NEW n, n = Len(frames) + 1 PROVE CallsInv'
  OBVIOUS
<1> DEFINE old == completion.calls
<1>1. /\ n \in Nat /\ Len(frames') = n /\ Len(frames) = n - 1 /\ turn' # "ended"
      /\ old \in Seq(CallType) /\ Len(old) = call.nextToolIdx /\ call.nextToolIdx \in Nat
      /\ DOMAIN old = 1..Len(old)
      /\ call.toolIndex \in [Tools -> Nat \cup {None}] /\ call.curToolID \in Tools \cup {None}
  BY FramesGrow DEF ReadFrame, CallsInv, OpenAIType
<1>2. /\ call \in [toolIndex : [Tools -> Nat \cup {None}], nextToolIdx : Nat,
                   curToolID : Tools \cup {None}, stopReason : Reasons]
      /\ completion \in [reasoning : Numbers, content : Numbers, calls : Seq(CallType),
                         finish : Reasons \cup {None}]
      /\ agg \in AggregateType
  BY DEF CallsInv, OpenAIType, CollectInv
<1>3. agg' = CASE f.type = "thinking" -> CollectThinking(f, n)
               [] f.type = "text"     -> CollectText(f, n)
               [] f.type = "tool"     -> CollectTool(f, n)
               [] f.type = "metadata" -> CollectMetadata(f)
  BY DEF AggregateFrame
<1>4. \A i \in DOMAIN old : \E c \in CallType : c = old[i] /\ Fed(c)
  BY <1>1 DEF CallsInv
<1>5. ASSUME f.type # "tool" \/ f.id = None
      PROVE  \A c \in CallType : Fed(c) => Fed(c)'
  <2>1. \A c \in CallType : c.id \in Tools
    BY DEF CallType
  <2> QED
    BY <1>5, <2>1, FedGrows, Distinct
<1>6. ASSUME f.type # "tool" \/ f.id = None,
             completion'.calls = old, call'.toolIndex = call.toolIndex,
             call'.nextToolIdx = call.nextToolIdx, agg'.toolOrder = agg.toolOrder
      PROVE  /\ call'.nextToolIdx = Len(completion'.calls)
             /\ Indexed(completion'.calls, call'.toolIndex)
             /\ SameOrder(completion'.calls, agg'.toolOrder)
             /\ \A i \in DOMAIN completion'.calls : Fed(completion.calls[i])'
  <2>1. ASSUME NEW i \in DOMAIN completion'.calls PROVE Fed(completion.calls[i])'
    <3>1. PICK c \in CallType : c = old[i] /\ Fed(c)
      BY <1>4, <1>6, <2>1
    <3>2. Fed(c)'
      BY <1>5, <1>6, <3>1
    <3> QED
      BY <1>6, <3>1, <3>2
  <2> QED
    BY <1>6, <2>1 DEF CallsInv
<1>7. ASSUME f.type # "tool", call'.curToolID = call.curToolID, call'.toolIndex = call.toolIndex
      PROVE  call'.curToolID # None => /\ call'.toolIndex[call'.curToolID] # None
                                       /\ About(Len(frames), call.curToolID)'
  <2> SUFFICES ASSUME NEW t, t = call.curToolID, t # None
               PROVE  About(n, t)'
    BY <1>1, <1>7 DEF CallsInv
  <2>1. About(n - 1, t)
    BY <1>1 DEF CallsInv
  <2> QED
    BY <1>1, <1>7, <2>1, AboutGrows
<1>8. CASE f.type = "thinking"
  <2> DEFINE r == IF f.text THEN Append(completion.reasoning, n) ELSE completion.reasoning
  <2>1. completion' = [completion EXCEPT !.reasoning = r] /\ call' = call
    BY <1>2, <1>8 DEF OpenAIFrame, OnReasoning
  <2>2. /\ agg'.thinking = r /\ agg'.text = agg.text /\ agg'.toolOrder = agg.toolOrder
        /\ agg'.stopReason = agg.stopReason
    BY <1>2, <1>3, <1>8 DEF CollectThinking, AggregateType, CallsInv
  <2>3. r \in Numbers
    BY <1>1, <1>2 DEF Numbers
  <2> HIDE DEF r
  <2>4. /\ OpenAIType' /\ completion'.calls = old /\ completion'.reasoning = r
        /\ completion'.content = completion.content
    BY <1>2, <2>1, <2>3 DEF OpenAIType
  <2> QED
    BY <1>1, <1>6, <1>7, <1>8, <2>1, <2>2, <2>4 DEF CallsInv
<1>9. CASE f.type = "text"
  <2> DEFINE r == IF f.text THEN Append(completion.content, n) ELSE completion.content
  <2>1. completion' = [completion EXCEPT !.content = r] /\ call' = call
    BY <1>2, <1>9 DEF OpenAIFrame, OnContent
  <2>2. /\ agg'.text = r /\ agg'.thinking = agg.thinking /\ agg'.toolOrder = agg.toolOrder
        /\ agg'.stopReason = agg.stopReason
    BY <1>2, <1>3, <1>9 DEF CollectText, AggregateType, CallsInv
  <2>3. r \in Numbers
    BY <1>1, <1>2 DEF Numbers
  <2> HIDE DEF r
  <2>4. /\ OpenAIType' /\ completion'.calls = old /\ completion'.content = r
        /\ completion'.reasoning = completion.reasoning
    BY <1>2, <2>1, <2>3 DEF OpenAIType
  <2> QED
    BY <1>1, <1>6, <1>7, <1>9, <2>1, <2>2, <2>4 DEF CallsInv
<1>10. CASE f.type = "metadata"
  <2> DEFINE why == IF f.reason = None THEN call.stopReason ELSE f.reason
  <2>1. call' = [call EXCEPT !.stopReason = why] /\ completion' = completion
    BY <1>10 DEF OpenAIFrame, OnReason
  <2>2. /\ agg'.text = agg.text /\ agg'.thinking = agg.thinking
        /\ agg'.toolOrder = agg.toolOrder /\ agg'.stopReason = why
    BY <1>2, <1>3, <1>10 DEF CollectMetadata, AggregateType, CallsInv
  <2>3. why \in Reasons
    BY <1>2, <1>10, FrameKinds
  <2> HIDE DEF why
  <2>4. /\ OpenAIType' /\ call'.stopReason = why /\ call'.toolIndex = call.toolIndex
        /\ call'.nextToolIdx = call.nextToolIdx /\ call'.curToolID = call.curToolID
    BY <1>2, <2>1, <2>3 DEF OpenAIType
  <2> QED
    BY <1>1, <1>6, <1>7, <1>10, <2>1, <2>2, <2>4 DEF CallsInv
<1>11. CASE f.type = "tool" /\ f.id = None
  <2> DEFINE cur   == call.curToolID
             calls == IF f.input /\ cur # None THEN Extended(old, call.toolIndex[cur], n) ELSE old
             now   == IF f.stop THEN None ELSE cur
  <2>1. /\ completion' = [completion EXCEPT !.calls = calls]
        /\ call' = [call EXCEPT !.toolIndex = call.toolIndex, !.nextToolIdx = @, !.curToolID = now]
    BY <1>11 DEF OpenAIFrame, OnToolCall
  <2>2. agg' = agg
    BY <1>3, <1>11 DEF CollectTool
  <2>3. ASSUME NEW t, t = cur, t # None PROVE About(n, t)' /\ call.toolIndex[t] # None
    <3>1. About(n - 1, t) /\ call.toolIndex[t] # None
      BY <1>1, <2>3 DEF CallsInv
    <3> QED
      BY <1>1, <1>11, <3>1, AboutGrows
  <2>4. /\ calls \in Seq(CallType) /\ Len(calls) = Len(old)
        /\ \A i \in DOMAIN old : calls[i].id = old[i].id
        /\ \A i \in DOMAIN old : \E c \in CallType : c = calls[i] /\ Fed(c)'
    <3>1. CASE f.input /\ cur # None
      <4> DEFINE p == call.toolIndex[cur] + 1
      <4>1. /\ p \in DOMAIN old /\ old[p].id = cur /\ old[p] \in CallType
        BY <1>1, <2>3, <3>1 DEF CallsInv, Indexed
      <4>2. calls = [old EXCEPT ![p] = WithInput(old[p], n)]
        BY <3>1 DEF Extended, WithInput
      <4>3. WithInput(old[p], n) \in CallType /\ WithInput(old[p], n).id = old[p].id
        BY <1>1, <4>1, WithInputType
      <4> HIDE DEF calls, p
      <4>4. /\ calls \in Seq(CallType) /\ Len(calls) = Len(old)
            /\ \A i \in DOMAIN old : calls[i] = IF i = p THEN WithInput(old[p], n) ELSE old[i]
        BY <1>1, <4>1, <4>2, <4>3
      <4>5. ASSUME NEW i \in DOMAIN old PROVE \E c \in CallType : c = calls[i] /\ Fed(c)'
        <5>1. PICK c \in CallType : c = old[i] /\ Fed(c)
          BY <1>4
        <5>2. CASE i = p
          <6>1. About(n - 1, c.id)
            BY <1>1, <3>1, <4>1, <5>1, <5>2 DEF CallsInv
          <6>2. Fed(WithInput(c, n))'
            BY <1>1, <1>11, <5>1, <6>1, FedGrows
          <6> QED
            BY <4>3, <4>4, <5>1, <5>2, <6>2
        <5>3. CASE i # p
          BY <1>5, <1>11, <4>4, <5>1, <5>3
        <5> QED
          BY <5>2, <5>3
      <4> QED
        BY <4>3, <4>4, <4>5
    <3>2. CASE ~(f.input /\ cur # None)
      BY <1>1, <1>4, <1>5, <1>11, <3>2
    <3> QED
      BY <3>1, <3>2
  <2> HIDE DEF calls, now
  <2>5. /\ OpenAIType' /\ completion'.calls = calls /\ completion'.content = completion.content
        /\ completion'.reasoning = completion.reasoning
        /\ call'.toolIndex = call.toolIndex /\ call'.nextToolIdx = call.nextToolIdx
        /\ call'.curToolID = now /\ call'.stopReason = call.stopReason
    <3>1. now \in Tools \cup {None}
      BY <1>1 DEF now
    <3> QED
      BY <1>2, <2>1, <2>4, <3>1 DEF OpenAIType
  <2>6. DOMAIN calls = DOMAIN old
    BY <1>1, <2>4
  <2>7. Indexed(calls, call.toolIndex) /\ SameOrder(calls, agg.toolOrder)
    BY <1>1, <2>4, <2>6 DEF CallsInv, Indexed, SameOrder
  <2>8. \A i \in DOMAIN completion'.calls : Fed(completion.calls[i])'
    BY <2>4, <2>5, <2>6
  <2>9. ASSUME call'.curToolID # None
        PROVE  /\ call'.toolIndex[call'.curToolID] # None
               /\ About(Len(frames), call.curToolID)'
    BY <1>1, <2>3, <2>5, <2>9 DEF now
  <2> QED
    BY <1>1, <2>2, <2>4, <2>5, <2>7, <2>8, <2>9 DEF CallsInv
<1>12. CASE f.type = "tool" /\ f.id # None
  <2> SUFFICES ASSUME NEW t, t = f.id PROVE CallsInv'
    OBVIOUS
  <2>1. t \in Tools /\ t # None
    BY <1>12, FrameKinds
  <2> DEFINE new   == call.toolIndex[t] = None
             index == IF new THEN [call.toolIndex EXCEPT ![t] = call.nextToolIdx]
                      ELSE call.toolIndex
             calls == IF new THEN Append(old, [id |-> t, arguments |-> <<>>]) ELSE old
             next  == IF new THEN call.nextToolIdx + 1 ELSE call.nextToolIdx
             order == IF Seen(t) THEN agg.toolOrder ELSE Append(agg.toolOrder, t)
             p     == index[t] + 1
             fed   == IF f.input THEN [calls EXCEPT ![p] = WithInput(calls[p], n)] ELSE calls
             now   == IF f.stop THEN None ELSE t
  <2>2. /\ calls \in Seq(CallType)
        /\ index \in [Tools -> Nat \cup {None}]
        /\ Indexed(calls, index)
        /\ index[t] \in Nat /\ p \in DOMAIN calls /\ calls[p].id = t
        /\ SameOrder(calls, order)
        /\ Len(calls) = next
        /\ \A i \in DOMAIN calls : Fed(calls[i])
        /\ Announced(old, index[t], t) = calls
        /\ call.curToolID = t => ~new
    BY <2>1, AnnouncedCall
  <2>3. /\ completion' = [completion EXCEPT !.calls = fed]
        /\ call' = [call EXCEPT !.toolIndex = index, !.nextToolIdx = next, !.curToolID = now]
    <3>1. CASE call.curToolID = t
      BY <1>12, <2>2, <2>1, <3>1 DEF OpenAIFrame, OnToolCall, Extended, WithInput
    <3>2. CASE call.curToolID # t
      BY <1>12, <2>2, <2>1, <3>2 DEF OpenAIFrame, OnToolCall, Extended, WithInput
    <3> QED
      BY <3>1, <3>2
  <2>4. /\ agg'.toolOrder = order /\ agg'.text = agg.text /\ agg'.thinking = agg.thinking
        /\ agg'.stopReason = agg.stopReason
    BY <1>2, <1>3, <1>12 DEF CollectTool, AggregateType
  <2> HIDE DEF calls, index, order, next
  <2>5. calls[p] \in CallType /\ DOMAIN calls = 1..Len(calls) /\ next \in Nat
    BY <2>2, <1>1 DEF next
  <2>6. WithInput(calls[p], n) \in CallType /\ WithInput(calls[p], n).id = t
    BY <1>1, <2>2, <2>5, WithInputType
  <2>7. /\ fed \in Seq(CallType) /\ Len(fed) = next /\ DOMAIN fed = DOMAIN calls
        /\ \A i \in DOMAIN calls : fed[i] = IF f.input /\ i = p THEN WithInput(calls[p], n)
                                            ELSE calls[i]
    <3> HIDE DEF p
    <3> QED
      BY <2>2, <2>5, <2>6
  <2>8. \A i \in DOMAIN calls : fed[i].id = calls[i].id
    BY <2>2, <2>6, <2>7
  <2> HIDE DEF fed, now, p
  <2>9. /\ OpenAIType' /\ completion'.calls = fed /\ completion'.content = completion.content
        /\ completion'.reasoning = completion.reasoning
        /\ call'.toolIndex = index /\ call'.nextToolIdx = next
        /\ call'.curToolID = now /\ call'.stopReason = call.stopReason
    <3>1. now \in Tools \cup {None}
      BY <2>1 DEF now
    <3> QED
      BY <1>2, <2>2, <2>3, <2>5, <2>7, <3>1 DEF OpenAIType
  <2>10. Indexed(fed, index) /\ SameOrder(fed, order)
    BY <2>2, <2>7, <2>8 DEF Indexed, SameOrder
  <2>11. ASSUME NEW i \in DOMAIN fed PROVE Fed(completion.calls[i])'
    <3>1. PICK c \in CallType : c = calls[i] /\ Fed(c)
      BY <2>2, <2>5, <2>7, <2>11
    <3>2. CASE f.input /\ i = p
      <4>1. Fed(WithInput(c, n))'
        BY <1>1, <1>12, <2>2, <3>1, <3>2, FedGrows
      <4> QED
        BY <2>7, <2>9, <3>1, <3>2, <4>1
    <3>3. CASE ~(f.input /\ i = p)
      <4>1. ~(f.type = "tool" /\ f.id = c.id /\ f.input)
        <5>1. CASE f.input
          <6>1. calls[i].id # t
            BY <2>2, <2>7, <3>3, <5>1 DEF Indexed, p
          <6> QED
            BY <3>1, <6>1
        <5> QED
          BY <5>1
      <4>2. Fed(c)'
        BY <1>1, <3>1, <4>1, FedGrows
      <4> QED
        BY <2>7, <2>9, <2>11, <3>1, <3>3, <4>2
    <3> QED
      BY <3>2, <3>3
  <2>12. ASSUME call'.curToolID # None
         PROVE  /\ call'.toolIndex[call'.curToolID] # None
                /\ About(Len(frames), call.curToolID)'
    <3>1. now = t
      BY <2>9, <2>12 DEF now
    <3>2. About(n, t)'
      BY <1>1, <1>12, <2>1, AboutGrows DEF Names
    <3> QED
      BY <1>1, <2>2, <2>9, <3>1, <3>2, NoneAssumption
  <2> QED
    BY <1>1, <2>4, <2>7, <2>9, <2>10, <2>11, <2>12 DEF CallsInv
<1> QED
  BY <1>8, <1>9, <1>10, <1>11, <1>12, FrameKinds

(* At the end of the body only the finish reason is given. *)
LEMMA CallsFinish ==
    ASSUME CallsInv, EndOfBody, OpenAIEnd, UNCHANGED agg
    PROVE  CallsInv'
<1>1. /\ completion' = [completion EXCEPT !.finish = call.stopReason]
      /\ UNCHANGED <<call, agg, frames>>
  BY DEF OpenAIEnd, EndOfBody
<1>2. /\ OpenAIType' /\ completion'.calls = completion.calls
      /\ completion'.content = completion.content
      /\ completion'.reasoning = completion.reasoning
      /\ completion'.finish = call.stopReason
  BY <1>1 DEF CallsInv, OpenAIType
<1>3. \A c : Fed(c)' <=> Fed(c)
  BY <1>1 DEF Fed, Inputs, IsTool, About
<1>4. ASSUME NEW i \in DOMAIN completion'.calls PROVE Fed(completion.calls[i])'
  <2>1. PICK c : c = completion.calls[i] /\ Fed(c)
    BY <1>2, <1>4 DEF CallsInv
  <2> QED
    BY <1>2, <1>3, <2>1
<1>5. \A t : About(Len(frames), t)' <=> About(Len(frames), t)
  BY <1>1 DEF About
<1> QED
  BY <1>1, <1>2, <1>4, <1>5 DEF CallsInv

LEMMA CollectSame ==
    ASSUME CollectInv, UNCHANGED <<frames, agg>>
    PROVE  CollectInv'
BY DEF CollectInv, Texts, Thoughts, Inputs, IsTool, Called, Seen

LEMMA CallsSame ==
    ASSUME CallsInv, UNCHANGED <<frames, agg, call, completion>>,
           turn' = turn \/ turn' = "aborted"
    PROVE  CallsInv'
<1>1. ASSUME NEW i \in DOMAIN completion.calls PROVE Fed(completion.calls[i])'
  BY DEF CallsInv, Fed, Inputs, IsTool, About
<1>2. call.curToolID # None => About(Len(frames), call.curToolID)'
  BY DEF CallsInv, About
<1> QED
  BY <1>1, <1>2 DEF CallsInv, OpenAIType

--------------------------------------------------------------------------------
(* The Anthropic message as it will be when the events made so far are     *)
(* written: the blocks that are begun, and the content put into them.      *)

StartedIn(out, x, type, id) ==
    \E i \in DOMAIN out :
        out[i].event = "block_start" /\ out[i].index = x /\ out[i].type = type /\ out[i].id = id
PutIn(out, x, kind, m) ==
    \E i \in DOMAIN out :
        out[i].event = "block_delta" /\ out[i].index = x /\ out[i].kind = kind /\ out[i].part = m

Begun(s, x, type, id) ==
    \/ x + 1 \in DOMAIN blocks /\ blocks[x + 1].type = type /\ blocks[x + 1].id = id
    \/ StartedIn(s.out, x, type, id)
Put(s, x, kind, m) ==
    \/ /\ x + 1 \in DOMAIN blocks
       /\ \E j \in DOMAIN blocks[x + 1].parts : blocks[x + 1].parts[j] = <<kind, m>>
    \/ PutIn(s.out, x, kind, m)

(* Blocks are begun once and in order, and get what belongs to their type; *)
(* the open one is the last.                                               *)
View(s) ==
    /\ \A x \in Nat : \A type, id : Begun(s, x, type, id) => x < s.nextIndex
    /\ \A x \in Nat : \A t1, i1, t2, i2 :
           Begun(s, x, t1, i1) /\ Begun(s, x, t2, i2) => t1 = t2 /\ i1 = i2
    /\ \A x \in Nat : \A kind, m : Put(s, x, kind, m) => \E id : Begun(s, x, BlockOf(kind), id)
    /\ s.openType # None => \E id : Begun(s, s.openIndex, s.openType, id)

(* An open tool block is the current tool's. *)
ToolOpen(s) ==
    s.openType = "tool" => s.curToolID # None /\ Begun(s, s.openIndex, "tool", s.curToolID)

(* The content that waits to be written is that of frame n, and at most    *)
(* one part of a kind.                                                     *)
DeltasOf(out, n) ==
    /\ \A i \in DOMAIN out : out[i].event = "block_delta" => out[i].part = n
    /\ \A i, j \in DOMAIN out :
           /\ out[i].event = "block_delta" /\ out[j].event = "block_delta"
           /\ out[i].kind = out[j].kind
           => i = j

LEMMA OutGrows ==
    ASSUME NEW out \in Seq(Events), NEW e \in Events
    PROVE  /\ \A x, type, id : StartedIn(Append(out, e), x, type, id) <=>
                  \/ StartedIn(out, x, type, id)
                  \/ e.event = "block_start" /\ e.index = x /\ e.type = type /\ e.id = id
           /\ \A x, kind, m : PutIn(Append(out, e), x, kind, m) <=>
                  \/ PutIn(out, x, kind, m)
                  \/ e.event = "block_delta" /\ e.index = x /\ e.kind = kind /\ e.part = m
           /\ \A n : /\ DeltasOf(out, n)
                     /\ e.event = "block_delta" =>
                            e.part = n /\ \A x : ~PutIn(out, x, e.kind, n)
                     => DeltasOf(Append(out, e), n)
<1> DEFINE new == Append(out, e)
<1>1. /\ Len(out) \in Nat /\ DOMAIN out = 1..Len(out) /\ DOMAIN new = 1..(Len(out) + 1)
      /\ new[Len(out) + 1] = e /\ \A i \in 1..Len(out) : new[i] = out[i]
  OBVIOUS
<1> HIDE DEF new
<1>2. \A i \in DOMAIN new : i \in 1..Len(out) \/ i = Len(out) + 1
  BY <1>1
<1>3. Len(out) + 1 \in DOMAIN new /\ \A i \in 1..Len(out) : i \in DOMAIN new
  BY <1>1
<1>4. \A x, type, id : StartedIn(new, x, type, id) <=>
          \/ StartedIn(out, x, type, id)
          \/ e.event = "block_start" /\ e.index = x /\ e.type = type /\ e.id = id
  BY <1>1, <1>2, <1>3 DEF StartedIn
<1>5. \A x, kind, m : PutIn(new, x, kind, m) <=>
          \/ PutIn(out, x, kind, m)
          \/ e.event = "block_delta" /\ e.index = x /\ e.kind = kind /\ e.part = m
  BY <1>1, <1>2, <1>3 DEF PutIn
<1>6. ASSUME NEW n, DeltasOf(out, n),
             e.event = "block_delta" => e.part = n /\ \A x : ~PutIn(out, x, e.kind, n)
      PROVE  DeltasOf(new, n)
  <2>1. \A i \in DOMAIN new : new[i].event = "block_delta" => new[i].part = n
    BY <1>1, <1>2, <1>6 DEF DeltasOf
  <2>2. ASSUME NEW i \in 1..Len(out), out[i].event = "block_delta", e.event = "block_delta"
        PROVE  out[i].kind # e.kind
    <3>1. PutIn(out, out[i].index, out[i].kind, n)
      BY <1>1, <1>6, <2>2 DEF DeltasOf, PutIn
    <3> QED
      BY <1>6, <2>2, <3>1
  <2>3. ASSUME NEW i \in DOMAIN new, NEW j \in DOMAIN new,
               new[i].event = "block_delta", new[j].event = "block_delta",
               new[i].kind = new[j].kind
        PROVE  i = j
    BY <1>1, <1>2, <1>6, <2>2, <2>3 DEF DeltasOf
  <2> QED
    BY <2>1, <2>3 DEF DeltasOf
<1> QED
  BY <1>4, <1>5, <1>6 DEF new

(* What the operators of the handler add to the view. *)

LEMMA CloseView ==
    ASSUME NEW m, NEW s, Leads(m, s), View(s)
    PROVE  LET c == CloseOpen(s) IN
           /\ View(c) /\ c.openType = None
           /\ \A x, type, id : Begun(c, x, type, id) <=> Begun(s, x, type, id)
           /\ \A x, kind, p : Put(c, x, kind, p) <=> Put(s, x, kind, p)
           /\ \A x, kind, p : PutIn(c.out, x, kind, p) <=> PutIn(s.out, x, kind, p)
           /\ \A n : DeltasOf(s.out, n) => DeltasOf(c.out, n)
           /\ c.nextIndex = s.nextIndex /\ c.curToolID = s.curToolID
           /\ c.stopReason = s.stopReason
<1> DEFINE c == CloseOpen(s)
<1>1. Leads(m, c) /\ c.openType = None
  BY CloseOpenLeads
<1>2. s \in StreamType /\ s.out \in Seq(Events) /\ Consistent(s)
  BY DEF Leads, StreamType
<1>3. /\ \A x, type, id : StartedIn(c.out, x, type, id) <=> StartedIn(s.out, x, type, id)
      /\ \A x, kind, p : PutIn(c.out, x, kind, p) <=> PutIn(s.out, x, kind, p)
      /\ \A n : DeltasOf(s.out, n) => DeltasOf(c.out, n)
      /\ c.nextIndex = s.nextIndex /\ c.curToolID = s.curToolID /\ c.stopReason = s.stopReason
  <2>1. CASE s.openIndex < 0
    BY <2>1 DEF CloseOpen
  <2>2. CASE ~(s.openIndex < 0)
    <3> DEFINE e == BlockStop(s.openIndex)
    <3>1. /\ c = [s EXCEPT !.openIndex = -1, !.openType = None, !.out = Append(s.out, e)]
      BY <2>2 DEF CloseOpen
    <3>2. e \in Events /\ e.event = "block_stop"
      BY <1>2, <2>2 DEF BlockStop, Events, StopEvents, StreamType
    <3> HIDE DEF c, e
    <3>3. /\ c.out = Append(s.out, e) /\ c.nextIndex = s.nextIndex
          /\ c.curToolID = s.curToolID /\ c.stopReason = s.stopReason
      BY <1>2, <3>1 DEF StreamType
    <3>4. e.event # "block_start" /\ e.event # "block_delta"
      BY <3>2
    <3> QED
      BY <1>2, <3>2, <3>3, <3>4, OutGrows
  <2> QED
    BY <2>1, <2>2
<1> HIDE DEF c
<1>4. /\ \A x, type, id : Begun(c, x, type, id) <=> Begun(s, x, type, id)
      /\ \A x, kind, p : Put(c, x, kind, p) <=> Put(s, x, kind, p)
  BY <1>3 DEF Begun, Put
<1>5. View(c)
  BY <1>1, <1>3, <1>4 DEF View
<1> QED
  BY <1>1, <1>3, <1>4, <1>5 DEF c

(* o is s with a new block. *)
OpenedFrom(s, o, type, id) ==
    /\ View(o) /\ o.openType = type /\ o.openIndex = s.nextIndex
    /\ \A x, t, i : Begun(o, x, t, i) <=>
           Begun(s, x, t, i) \/ (x = s.nextIndex /\ t = type /\ i = id)
    /\ \A x, kind, p : Put(o, x, kind, p) <=> Put(s, x, kind, p)
    /\ \A x, kind, p : PutIn(o.out, x, kind, p) <=> PutIn(s.out, x, kind, p)
    /\ \A n : DeltasOf(s.out, n) => DeltasOf(o.out, n)
    /\ o.nextIndex = s.nextIndex + 1 /\ o.curToolID = s.curToolID
    /\ o.stopReason = s.stopReason
    /\ s.nextIndex \in Nat

LEMMA OpenView ==
    ASSUME NEW m, NEW s, Leads(m, s), View(s),
           NEW type \in BlockTypes, NEW id \in Tools \cup {None}, IdFits(type, id)
    PROVE  OpenedFrom(s, OpenBlock(s, type, id), type, id)
<1> DEFINE c == CloseOpen(s)
           o == OpenBlock(s, type, id)
           e == BlockStart(c.nextIndex, type, id)
<1>1. Leads(m, c) /\ View(c)
  BY CloseOpenLeads, CloseView
<1>2. /\ \A x, t, i : Begun(c, x, t, i) <=> Begun(s, x, t, i)
      /\ \A x, kind, p : Put(c, x, kind, p) <=> Put(s, x, kind, p)
      /\ \A x, kind, p : PutIn(c.out, x, kind, p) <=> PutIn(s.out, x, kind, p)
      /\ \A n : DeltasOf(s.out, n) => DeltasOf(c.out, n)
      /\ c.nextIndex = s.nextIndex /\ c.curToolID = s.curToolID
      /\ c.stopReason = s.stopReason
  BY CloseView
<1>3. o = [c EXCEPT !.openIndex = c.nextIndex, !.nextIndex = c.nextIndex + 1,
                    !.openType = type, !.out = Append(c.out, e)]
  BY DEF OpenBlock
<1> HIDE DEF c, o
<1>4. c \in StreamType /\ c.out \in Seq(Events) /\ c.nextIndex \in Nat
  BY <1>1 DEF Leads, StreamType
<1>5. e \in Events /\ e.event = "block_start" /\ e.index = c.nextIndex /\ e.type = type /\ e.id = id
  BY <1>4 DEF BlockStart, Events, StartEvents, StreamType
<1> HIDE DEF e
<1>6. /\ o.openIndex = c.nextIndex /\ o.nextIndex = c.nextIndex + 1 /\ o.openType = type
      /\ o.out = Append(c.out, e) /\ o.curToolID = c.curToolID /\ o.stopReason = c.stopReason
  BY <1>3, <1>4 DEF StreamType
<1>7. /\ \A x, t, i : StartedIn(o.out, x, t, i) <=>
             StartedIn(c.out, x, t, i) \/ (x = c.nextIndex /\ t = type /\ i = id)
      /\ \A x, kind, p : PutIn(o.out, x, kind, p) <=> PutIn(c.out, x, kind, p)
      /\ \A n : DeltasOf(c.out, n) => DeltasOf(o.out, n)
  <2>1. e.event # "block_delta"
    BY <1>5
  <2> QED
    BY <1>4, <1>5, <1>6, <2>1, OutGrows
<1>8. /\ \A x, t, i : Begun(o, x, t, i) <=>
             Begun(s, x, t, i) \/ (x = s.nextIndex /\ t = type /\ i = id)
      /\ \A x, kind, p : Put(o, x, kind, p) <=> Put(s, x, kind, p)
  BY <1>2, <1>7 DEF Begun, Put
<1>9. View(o)
  <2>1. ASSUME NEW x \in Nat, NEW t, NEW i, Begun(o, x, t, i) PROVE x < o.nextIndex
    BY <1>2, <1>4, <1>6, <1>8, <2>1 DEF View
  <2>2. ASSUME NEW x \in Nat, NEW t1, NEW i1, NEW t2, NEW i2,
               Begun(o, x, t1, i1), Begun(o, x, t2, i2)
        PROVE  t1 = t2 /\ i1 = i2
    BY <1>2, <1>4, <1>8, <2>2 DEF View
  <2>3. ASSUME NEW x \in Nat, NEW kind, NEW p, Put(o, x, kind, p)
        PROVE  \E i : Begun(o, x, BlockOf(kind), i)
    BY <1>8, <2>3 DEF View
  <2>4. Begun(o, o.openIndex, o.openType, id)
    BY <1>2, <1>6, <1>8
  <2> QED
    BY <2>1, <2>2, <2>3, <2>4 DEF View
<1> QED
  BY <1>2, <1>4, <1>6, <1>7, <1>8, <1>9 DEF o, OpenedFrom

LEMMA DeltaView ==
    ASSUME NEW m, NEW s, Leads(m, s), View(s), NEW kind \in DeltaKinds,
           NEW n \in 1..MaxFrames, s.openType = BlockOf(kind)
    PROVE  LET d == Delta(s, kind, n) IN
           /\ View(d) /\ s.openIndex \in Nat /\ s.openIndex < s.nextIndex
           /\ \A x, t, i : Begun(d, x, t, i) <=> Begun(s, x, t, i)
           /\ \A x, k, p : Put(d, x, k, p) <=>
                  Put(s, x, k, p) \/ (x = s.openIndex /\ k = kind /\ p = n)
           /\ \A x, k, p : PutIn(d.out, x, k, p) <=>
                  PutIn(s.out, x, k, p) \/ (x = s.openIndex /\ k = kind /\ p = n)
           /\ DeltasOf(s.out, n) /\ (\A x : ~PutIn(s.out, x, kind, n)) => DeltasOf(d.out, n)
           /\ d.openType = s.openType /\ d.openIndex = s.openIndex
           /\ d.nextIndex = s.nextIndex /\ d.curToolID = s.curToolID
           /\ d.stopReason = s.stopReason
<1> DEFINE d == Delta(s, kind, n)
           e == BlockDelta(s.openIndex, kind, n)
<1>1. s \in StreamType /\ Consistent(s) /\ s.out \in Seq(Events)
  BY DEF Leads, StreamType
<1>2. s.openType # None /\ s.openIndex \in Nat /\ s.openIndex < s.nextIndex
  BY <1>1, Distinct DEF Consistent, StreamType, BlockOf, BlockTypes
<1>3. d = [s EXCEPT !.out = Append(s.out, e)]
  BY DEF Delta
<1>4. /\ e \in Events /\ e.event = "block_delta" /\ e.index = s.openIndex
      /\ e.kind = kind /\ e.part = n
  BY <1>2 DEF BlockDelta, Events, DeltaEvents
<1> HIDE DEF d, e
<1>5. /\ d.out = Append(s.out, e)
      /\ d.openType = s.openType /\ d.openIndex = s.openIndex
      /\ d.nextIndex = s.nextIndex /\ d.curToolID = s.curToolID
      /\ d.stopReason = s.stopReason
  BY <1>1, <1>3 DEF StreamType
<1>6. /\ \A x, t, i : StartedIn(d.out, x, t, i) <=> StartedIn(s.out, x, t, i)
      /\ \A x, k, p : PutIn(d.out, x, k, p) <=>
             PutIn(s.out, x, k, p) \/ (x = s.openIndex /\ k = kind /\ p = n)
      /\ DeltasOf(s.out, n) /\ (\A x : ~PutIn(s.out, x, kind, n)) => DeltasOf(d.out, n)
  <2>1. e.event # "block_start"
    BY <1>4
  <2> QED
    BY <1>1, <1>4, <1>5, <2>1, OutGrows
<1>7. /\ \A x, t, i : Begun(d, x, t, i) <=> Begun(s, x, t, i)
      /\ \A x, k, p : Put(d, x, k, p) <=>
             Put(s, x, k, p) \/ (x = s.openIndex /\ k = kind /\ p = n)
  BY <1>6 DEF Begun, Put
<1>8. View(d)
  <2>1. ASSUME NEW x \in Nat, NEW k, NEW p, Put(d, x, k, p)
        PROVE  \E i : Begun(d, x, BlockOf(k), i)
    BY <1>2, <1>7, <2>1 DEF View
  <2> QED
    BY <1>2, <1>5, <1>7, <2>1 DEF View
<1> QED
  BY <1>2, <1>5, <1>6, <1>7, <1>8 DEF d

(* c is s but for the current tool. *)
CurrentFrom(s, c, id) ==
    /\ View(c) <=> View(s)
    /\ \A x, t, i : Begun(c, x, t, i) <=> Begun(s, x, t, i)
    /\ \A x, k, p : Put(c, x, k, p) <=> Put(s, x, k, p)
    /\ c.out = s.out /\ c.openType = s.openType /\ c.openIndex = s.openIndex
    /\ c.nextIndex = s.nextIndex /\ c.curToolID = id /\ c.stopReason = s.stopReason

LEMMA CurrentView ==
    ASSUME NEW m, NEW s, Leads(m, s), NEW id
    PROVE  CurrentFrom(s, [s EXCEPT !.curToolID = id], id)
<1> DEFINE c == [s EXCEPT !.curToolID = id]
<1>1. s \in StreamType
  BY DEF Leads
<1>2. /\ c.out = s.out /\ c.openType = s.openType /\ c.openIndex = s.openIndex
      /\ c.nextIndex = s.nextIndex /\ c.curToolID = id /\ c.stopReason = s.stopReason
  BY <1>1 DEF StreamType
<1> HIDE DEF c
<1>3. /\ \A x, t, i : Begun(c, x, t, i) <=> Begun(s, x, t, i)
      /\ \A x, k, p : Put(c, x, k, p) <=> Put(s, x, k, p)
  BY <1>2 DEF Begun, Put
<1>4. View(c) <=> View(s)
  BY <1>2, <1>3 DEF View
<1> QED
  BY <1>2, <1>3, <1>4 DEF c, CurrentFrom

(* Content is in a block of the message, in whichever. *)
Has(s, kind, p) == \E x \in Nat : Put(s, x, kind, p)

(* A text or a thought is put once, and touches no tool. *)
LEMMA ContentEffect ==
    ASSUME NEW m, NEW s, Leads(m, s), View(s), ToolOpen(s), s.out = <<>>,
           NEW f \in Kinds, f.type \in {"text", "thinking"}, NEW n \in 1..MaxFrames
    PROVE  LET u == OnFrame(s, f, n) IN
           /\ View(u) /\ ToolOpen(u) /\ DeltasOf(u.out, n)
           /\ \A kind \in {"text", "thinking"} : \A p :
                  Has(u, kind, p) <=> Has(s, kind, p) \/ (f.type = kind /\ f.text /\ p = n)
           /\ \A x, p : Put(u, x, "input", p) <=> Put(s, x, "input", p)
           /\ \A x, i : Begun(u, x, "tool", i) <=> Begun(s, x, "tool", i)
           /\ u.curToolID = s.curToolID /\ u.stopReason = s.stopReason
           /\ ~f.text => u.openType = s.openType
<1>1. /\ \A n1 : DeltasOf(s.out, n1)
      /\ \A x, k, p : ~PutIn(s.out, x, k, p)
  <2>1. DOMAIN <<>> = {}
    OBVIOUS
  <2> QED
    BY <2>1 DEF DeltasOf, PutIn
<1>2. ASSUME NEW type \in {"text", "thinking"}
      PROVE  LET o == Opened(s, type) IN
             /\ Leads(m, o) /\ View(o) /\ o.openType = type
             /\ \A x, k, p : Put(o, x, k, p) <=> Put(s, x, k, p)
             /\ \A x, k, p : ~PutIn(o.out, x, k, p)
             /\ DeltasOf(o.out, n)
             /\ \A x, i : Begun(o, x, "tool", i) <=> Begun(s, x, "tool", i)
             /\ o.curToolID = s.curToolID /\ o.stopReason = s.stopReason
  <2>1. IdFits(type, None) /\ type \in BlockTypes /\ None \in Tools \cup {None} /\ type # "tool"
    BY Distinct DEF IdFits, BlockTypes
  <2>2. CASE s.openType = type
    BY <1>1, <2>2 DEF Opened
  <2>3. CASE s.openType # type
    <3>1. Opened(s, type) = OpenBlock(s, type, None)
      BY <2>3 DEF Opened
    <3>2. Leads(m, OpenBlock(s, type, None))
      BY <2>1, OpenBlockLeads
    <3> DEFINE b == OpenBlock(s, type, None)
    <3>3. /\ View(b) /\ b.openType = type
          /\ \A x, t, i : Begun(b, x, t, i) <=>
                 Begun(s, x, t, i) \/ (x = s.nextIndex /\ t = type /\ i = None)
          /\ \A x, kind, p : Put(b, x, kind, p) <=> Put(s, x, kind, p)
          /\ \A x, kind, p : PutIn(b.out, x, kind, p) <=> PutIn(s.out, x, kind, p)
          /\ \A n1 : DeltasOf(s.out, n1) => DeltasOf(b.out, n1)
          /\ b.curToolID = s.curToolID /\ b.stopReason = s.stopReason
      <4>1. OpenedFrom(s, b, type, None)
        BY <2>1, OpenView
      <4> HIDE DEF b
      <4> QED
        BY <4>1 DEF OpenedFrom
    <3> HIDE DEF b
    <3>4. /\ \A x, k, p : ~PutIn(b.out, x, k, p)
          /\ DeltasOf(b.out, n)
          /\ \A x, i : Begun(b, x, "tool", i) <=> Begun(s, x, "tool", i)
      BY <1>1, <2>1, <3>3
    <3> QED
      BY <3>1, <3>2, <3>3, <3>4 DEF b
  <2> QED
    BY <2>2, <2>3
<1>3. CASE f.type = "text"
  <2> DEFINE o == Opened(s, "text")
             u == OnFrame(s, f, n)
  <2>1. u = IF f.text THEN Delta(o, "text", n) ELSE s
    BY <1>3 DEF OnFrame, OnText
  <2>2. CASE ~f.text
    BY <1>1, <1>3, <2>1, <2>2
  <2>3. CASE f.text
    <3>1. /\ Leads(m, o) /\ View(o) /\ o.openType = "text"
          /\ \A x, k, p : Put(o, x, k, p) <=> Put(s, x, k, p)
          /\ \A x, k, p : ~PutIn(o.out, x, k, p)
          /\ DeltasOf(o.out, n)
          /\ \A x, i : Begun(o, x, "tool", i) <=> Begun(s, x, "tool", i)
          /\ o.curToolID = s.curToolID /\ o.stopReason = s.stopReason
      BY <1>2
    <3> HIDE DEF o
    <3>2. u = Delta(o, "text", n)
      BY <2>1, <2>3
    <3> HIDE DEF u
    <3>3. "text" \in DeltaKinds /\ BlockOf("text") = "text"
      BY DEF DeltaKinds, BlockOf
    <3>4. /\ View(u) /\ o.openIndex \in Nat
          /\ \A x, t, i : Begun(u, x, t, i) <=> Begun(o, x, t, i)
          /\ \A x, k, p : Put(u, x, k, p) <=>
                 Put(o, x, k, p) \/ (x = o.openIndex /\ k = "text" /\ p = n)
          /\ DeltasOf(u.out, n)
          /\ u.openType = o.openType
          /\ u.curToolID = o.curToolID /\ u.stopReason = o.stopReason
      BY <3>1, <3>2, <3>3, DeltaView
    <3>5. ToolOpen(u)
      BY <3>1, <3>4 DEF ToolOpen
    <3>6. ASSUME NEW kind \in {"text", "thinking"}, NEW p
          PROVE  Has(u, kind, p) <=> Has(s, kind, p) \/ (f.type = kind /\ f.text /\ p = n)
      BY <1>3, <2>3, <3>1, <3>4 DEF Has
    <3>7. \A x, p : Put(u, x, "input", p) <=> Put(s, x, "input", p)
      BY <3>1, <3>4
    <3> QED
      BY <2>3, <3>1, <3>4, <3>5, <3>6, <3>7 DEF u
  <2> QED
    BY <2>2, <2>3
<1>4. CASE f.type = "thinking"
  <2> DEFINE o == Opened(s, "thinking")
             t == IF f.text THEN Delta(o, "thinking", n) ELSE s
             u == OnFrame(s, f, n)
  <2>1. u = IF f.signature /\ t.openType = "thinking" THEN Delta(t, "signature", n) ELSE t
    BY <1>4 DEF OnFrame, OnThinking
  <2>2. /\ Leads(m, t) /\ View(t) /\ ToolOpen(t) /\ DeltasOf(t.out, n)
        /\ \A x, p : ~PutIn(t.out, x, "signature", p)
        /\ \A kind \in {"text", "thinking"} : \A p :
               Has(t, kind, p) <=> Has(s, kind, p) \/ (f.type = kind /\ f.text /\ p = n)
        /\ \A x, p : Put(t, x, "input", p) <=> Put(s, x, "input", p)
        /\ \A x, i : Begun(t, x, "tool", i) <=> Begun(s, x, "tool", i)
        /\ t.curToolID = s.curToolID /\ t.stopReason = s.stopReason
        /\ ~f.text => t.openType = s.openType
    <3>1. CASE ~f.text
      BY <1>1, <3>1
    <3>2. CASE f.text
      <4>1. /\ Leads(m, o) /\ View(o) /\ o.openType = "thinking"
            /\ \A x, k, p : Put(o, x, k, p) <=> Put(s, x, k, p)
            /\ \A x, k, p : ~PutIn(o.out, x, k, p)
            /\ DeltasOf(o.out, n)
            /\ \A x, i : Begun(o, x, "tool", i) <=> Begun(s, x, "tool", i)
            /\ o.curToolID = s.curToolID /\ o.stopReason = s.stopReason
        BY <1>2
      <4> HIDE DEF o
      <4>2. t = Delta(o, "thinking", n)
        BY <3>2
      <4> HIDE DEF t
      <4>3. "thinking" \in DeltaKinds /\ BlockOf("thinking") = "thinking"
        BY DEF DeltaKinds, BlockOf
      <4>4. /\ View(t) /\ o.openIndex \in Nat
            /\ \A x, ty, i : Begun(t, x, ty, i) <=> Begun(o, x, ty, i)
            /\ \A x, k, p : Put(t, x, k, p) <=>
                   Put(o, x, k, p) \/ (x = o.openIndex /\ k = "thinking" /\ p = n)
            /\ \A x, k, p : PutIn(t.out, x, k, p) <=>
                   PutIn(o.out, x, k, p) \/ (x = o.openIndex /\ k = "thinking" /\ p = n)
            /\ DeltasOf(t.out, n)
            /\ t.openType = o.openType
            /\ t.curToolID = o.curToolID /\ t.stopReason = o.stopReason
        BY <4>1, <4>2, <4>3, DeltaView
      <4>5. Leads(m, t)
        BY <4>1, <4>2, <4>3, DeltaLeads
      <4>6. ToolOpen(t)
        BY <4>1, <4>4 DEF ToolOpen
      <4>7. ASSUME NEW kind \in {"text", "thinking"}, NEW p
            PROVE  Has(t, kind, p) <=> Has(s, kind, p) \/ (f.type = kind /\ f.text /\ p = n)
        BY <1>4, <3>2, <4>1, <4>4 DEF Has
      <4>8. /\ \A x, p : Put(t, x, "input", p) <=> Put(s, x, "input", p)
            /\ \A x, p : ~PutIn(t.out, x, "signature", p)
        BY <4>1, <4>4
      <4> QED
        BY <3>2, <4>1, <4>4, <4>5, <4>6, <4>7, <4>8
    <3> QED
      BY <3>1, <3>2
  <2> HIDE DEF t, u
  <2>3. CASE ~(f.signature /\ t.openType = "thinking")
    BY <2>1, <2>2, <2>3 DEF u
  <2>4. CASE f.signature /\ t.openType = "thinking"
    <3>1. u = Delta(t, "signature", n)
      BY <2>1, <2>4
    <3>2. "signature" \in DeltaKinds /\ BlockOf("signature") = "thinking"
      BY DEF DeltaKinds, BlockOf
    <3>3. /\ View(u)
          /\ \A x, ty, i : Begun(u, x, ty, i) <=> Begun(t, x, ty, i)
          /\ \A x, k, p : Put(u, x, k, p) <=>
                 Put(t, x, k, p) \/ (x = t.openIndex /\ k = "signature" /\ p = n)
          /\ DeltasOf(u.out, n)
          /\ u.openType = t.openType
          /\ u.curToolID = t.curToolID /\ u.stopReason = t.stopReason
      BY <2>2, <2>4, <3>1, <3>2, DeltaView
    <3>4. ToolOpen(u)
      BY <2>4, <3>3 DEF ToolOpen
    <3>5. \A kind \in {"text", "thinking"} : \A p : Has(u, kind, p) <=> Has(t, kind, p)
      BY <3>3 DEF Has
    <3>6. \A x, p : Put(u, x, "input", p) <=> Put(t, x, "input", p)
      BY <3>3
    <3> QED
      BY <2>2, <3>3, <3>4, <3>5, <3>6 DEF u
  <2> QED
    BY <2>3, <2>4
<1> QED
  BY <1>3, <1>4

(* A tool's frame may begin a block, puts its input into the open block of *)
(* its tool, if there is one, and may close it.                            *)
LEMMA ToolEffect ==
    ASSUME NEW m, NEW s, Leads(m, s), View(s), ToolOpen(s), s.out = <<>>,
           NEW f \in ToolFrames, NEW n \in 1..MaxFrames
    PROVE  LET u     == OnTool(s, f, n)
               opens == f.id \notin {None, s.curToolID}
               block == IF opens THEN s.nextIndex ELSE s.openIndex
               owner == IF opens THEN f.id ELSE s.curToolID
               takes == f.input /\ (opens \/ s.openType = "tool")
           IN  /\ View(u) /\ ToolOpen(u) /\ DeltasOf(u.out, n)
               /\ \A kind \in {"text", "thinking"} : \A p : Has(u, kind, p) <=> Has(s, kind, p)
               /\ \A x, i : Begun(u, x, "tool", i) <=>
                      Begun(s, x, "tool", i) \/ (opens /\ x = s.nextIndex /\ i = f.id)
               /\ \A x, p : Put(u, x, "input", p) <=>
                      Put(s, x, "input", p) \/ (takes /\ x = block /\ p = n)
               /\ takes => block \in Nat /\ owner # None /\ Begun(u, block, "tool", owner)
               /\ u.stopReason = s.stopReason
               /\ u.curToolID = IF f.stop THEN None ELSE owner
               /\ ~f.stop => u.openType = IF opens THEN "tool" ELSE s.openType
               /\ s.nextIndex \in Nat
<1> DEFINE u     == OnTool(s, f, n)
           opens == f.id \notin {None, s.curToolID}
           block == IF opens THEN s.nextIndex ELSE s.openIndex
           owner == IF opens THEN f.id ELSE s.curToolID
           takes == f.input /\ (opens \/ s.openType = "tool")
           b == OpenBlock(s, "tool", f.id)
           t == IF opens THEN [b EXCEPT !.curToolID = f.id] ELSE s
           v == IF f.input /\ t.openType = "tool" THEN Delta(t, "input", n) ELSE t
           c == CloseOpen(v)
<1>1. /\ \A n1 : DeltasOf(s.out, n1)
      /\ \A x, k, p : ~PutIn(s.out, x, k, p)
      /\ s.nextIndex \in Nat
  <2>1. DOMAIN <<>> = {}
    OBVIOUS
  <2> QED
    BY <2>1 DEF DeltasOf, PutIn, Leads, StreamType
<1>2. f.id \in Tools \cup {None} /\ (opens => f.id # None)
  BY DEF ToolFrames
<1>3. /\ Leads(m, t) /\ View(t) /\ ToolOpen(t) /\ DeltasOf(t.out, n)
      /\ \A x, k, p : ~PutIn(t.out, x, k, p)
      /\ \A x, k, p : Put(t, x, k, p) <=> Put(s, x, k, p)
      /\ \A x, i : Begun(t, x, "tool", i) <=>
             Begun(s, x, "tool", i) \/ (opens /\ x = s.nextIndex /\ i = f.id)
      /\ t.stopReason = s.stopReason /\ t.curToolID = owner
      /\ t.openType = IF opens THEN "tool" ELSE s.openType
      /\ t.openIndex = block
  <2>1. CASE ~opens
    BY <1>1, <2>1
  <2>2. CASE opens
    <3>1. IdFits("tool", f.id) /\ "tool" \in BlockTypes
      BY <1>2, <2>2 DEF IdFits, BlockTypes
    <3>2. Leads(m, b)
      BY <1>2, <3>1, OpenBlockLeads
    <3>3. /\ View(b) /\ b.openType = "tool" /\ b.openIndex = s.nextIndex
          /\ \A x, ty, i : Begun(b, x, ty, i) <=>
                 Begun(s, x, ty, i) \/ (x = s.nextIndex /\ ty = "tool" /\ i = f.id)
          /\ \A x, k, p : Put(b, x, k, p) <=> Put(s, x, k, p)
          /\ \A x, k, p : PutIn(b.out, x, k, p) <=> PutIn(s.out, x, k, p)
          /\ \A n1 : DeltasOf(s.out, n1) => DeltasOf(b.out, n1)
          /\ b.stopReason = s.stopReason
      <4>1. OpenedFrom(s, b, "tool", f.id)
        BY <1>2, <3>1, OpenView
      <4> HIDE DEF b
      <4> QED
        BY <4>1 DEF OpenedFrom
    <3> HIDE DEF b
    <3>4. t = [b EXCEPT !.curToolID = f.id]
      BY <2>2
    <3> HIDE DEF t, opens
    <3>5. Leads(m, t)
      BY <1>2, <3>2, <3>4, CurrentToolLeads
    <3>6. /\ View(t) <=> View(b)
          /\ \A x, ty, i : Begun(t, x, ty, i) <=> Begun(b, x, ty, i)
          /\ \A x, k, p : Put(t, x, k, p) <=> Put(b, x, k, p)
          /\ t.out = b.out /\ t.openType = b.openType /\ t.openIndex = b.openIndex
          /\ t.nextIndex = b.nextIndex /\ t.curToolID = f.id /\ t.stopReason = b.stopReason
      <4>1. CurrentFrom(b, t, f.id)
        BY <3>2, <3>4, CurrentView
      <4> QED
        BY <4>1 DEF CurrentFrom
    <3>7. ToolOpen(t)
      BY <1>2, <2>2, <3>3, <3>6 DEF ToolOpen
    <3>8. /\ \A x, k, p : ~PutIn(t.out, x, k, p)
          /\ DeltasOf(t.out, n)
      BY <1>1, <3>3, <3>6
    <3> QED
      BY <2>2, <3>3, <3>5, <3>6, <3>7, <3>8
  <2> QED
    BY <2>1, <2>2
<1> HIDE DEF t
<1>4. takes <=> f.input /\ t.openType = "tool"
  BY <1>3
<1>5. /\ Leads(m, v) /\ View(v) /\ ToolOpen(v) /\ DeltasOf(v.out, n)
      /\ \A kind \in {"text", "thinking"} : \A p : Has(v, kind, p) <=> Has(s, kind, p)
      /\ \A x, p : Put(v, x, "input", p) <=>
             Put(t, x, "input", p) \/ (takes /\ x = block /\ p = n)
      /\ \A x, i : Begun(v, x, "tool", i) <=> Begun(t, x, "tool", i)
      /\ takes => block \in Nat /\ owner # None /\ Begun(v, block, "tool", owner)
      /\ v.stopReason = s.stopReason /\ v.curToolID = owner /\ v.openType = t.openType
  <2>1. CASE ~takes
    <3>1. v = t
      BY <1>4, <2>1
    <3> HIDE DEF v, takes, opens
    <3> QED
      BY <1>3, <2>1, <3>1 DEF Has
  <2>2. CASE takes
    <3>1. v = Delta(t, "input", n) /\ t.openType = "tool"
      BY <1>4, <2>2
    <3> HIDE DEF v, takes, opens
    <3>2. "input" \in DeltaKinds /\ BlockOf("input") = "tool"
      BY DEF DeltaKinds, BlockOf
    <3>3. Leads(m, v)
      BY <1>3, <3>1, <3>2, DeltaLeads
    <3>4. /\ View(v) /\ t.openIndex \in Nat
          /\ \A x, ty, i : Begun(v, x, ty, i) <=> Begun(t, x, ty, i)
          /\ \A x, k, p : Put(v, x, k, p) <=>
                 Put(t, x, k, p) \/ (x = t.openIndex /\ k = "input" /\ p = n)
          /\ DeltasOf(v.out, n)
          /\ v.openType = t.openType /\ v.openIndex = t.openIndex
          /\ v.curToolID = t.curToolID /\ v.stopReason = t.stopReason
      BY <1>3, <3>1, <3>2, DeltaView
    <3>5. ToolOpen(v) /\ owner # None /\ Begun(v, t.openIndex, "tool", owner)
      <4>1. owner # None /\ Begun(t, t.openIndex, "tool", owner)
        BY <1>3, <3>1 DEF ToolOpen
      <4> QED
        BY <1>3, <3>4, <4>1 DEF ToolOpen
    <3>6. \A kind \in {"text", "thinking"} : \A p : Has(v, kind, p) <=> Has(s, kind, p)
      BY <1>3, <3>4 DEF Has
    <3>7. \A x, p : Put(v, x, "input", p) <=>
              Put(t, x, "input", p) \/ (takes /\ x = block /\ p = n)
      BY <1>3, <2>2, <3>4
    <3> QED
      BY <1>3, <3>3, <3>4, <3>5, <3>6, <3>7
  <2> QED
    BY <2>1, <2>2
<1>6. u = IF f.stop THEN [c EXCEPT !.curToolID = None] ELSE v
  BY DEF OnTool, t
<1> HIDE DEF v
<1>7. CASE ~f.stop
  <2>1. u = v
    BY <1>6, <1>7
  <2> HIDE DEF u, takes, opens
  <2> QED
    BY <1>1, <1>3, <1>5, <1>7, <2>1 DEF u, takes, opens
<1>8. CASE f.stop
  <2>1. /\ Leads(m, c) /\ View(c) /\ c.openType = None
        /\ \A x, ty, i : Begun(c, x, ty, i) <=> Begun(v, x, ty, i)
        /\ \A x, k, p : Put(c, x, k, p) <=> Put(v, x, k, p)
        /\ \A n1 : DeltasOf(v.out, n1) => DeltasOf(c.out, n1)
        /\ c.stopReason = v.stopReason
    BY <1>5, CloseOpenLeads, CloseView
  <2> HIDE DEF c, takes, opens
  <2>2. u = [c EXCEPT !.curToolID = None]
    BY <1>6, <1>8
  <2> HIDE DEF u
  <2>3. /\ View(u) <=> View(c)
        /\ \A x, ty, i : Begun(u, x, ty, i) <=> Begun(c, x, ty, i)
        /\ \A x, k, p : Put(u, x, k, p) <=> Put(c, x, k, p)
        /\ u.out = c.out /\ u.openType = c.openType /\ u.curToolID = None
        /\ u.stopReason = c.stopReason
    <3>1. CurrentFrom(c, u, None)
      BY <2>1, <2>2, CurrentView
    <3> QED
      BY <3>1 DEF CurrentFrom
  <2>4. ToolOpen(u)
    BY <2>1, <2>3, Distinct DEF ToolOpen, BlockTypes
  <2>5. \A kind \in {"text", "thinking"} : \A p : Has(u, kind, p) <=> Has(s, kind, p)
    BY <1>5, <2>1, <2>3 DEF Has
  <2>6. /\ \A x, i : Begun(u, x, "tool", i) <=>
               Begun(s, x, "tool", i) \/ (opens /\ x = s.nextIndex /\ i = f.id)
        /\ \A x, p : Put(u, x, "input", p) <=>
               Put(s, x, "input", p) \/ (takes /\ x = block /\ p = n)
        /\ takes => block \in Nat /\ owner # None /\ Begun(u, block, "tool", owner)
    BY <1>3, <1>5, <2>1, <2>3
  <2> QED
    BY <1>1, <1>5, <1>8, <2>1, <2>3, <2>4, <2>5, <2>6 DEF u, takes, opens
<1> QED
  BY <1>7, <1>8

--------------------------------------------------------------------------------
(* Writing an event changes nothing in the view: what waited is there.     *)

LEMMA OutShrinks ==
    ASSUME NEW out \in Seq(Events), out # <<>>
    PROVE  /\ \A x, type, id : StartedIn(out, x, type, id) <=>
                  \/ StartedIn(Tail(out), x, type, id)
                  \/ /\ out[1].event = "block_start" /\ out[1].index = x
                     /\ out[1].type = type /\ out[1].id = id
           /\ \A x, kind, m : PutIn(out, x, kind, m) <=>
                  \/ PutIn(Tail(out), x, kind, m)
                  \/ /\ out[1].event = "block_delta" /\ out[1].index = x
                     /\ out[1].kind = kind /\ out[1].part = m
           /\ \A i \in DOMAIN Tail(out) : i + 1 \in DOMAIN out /\ Tail(out)[i] = out[i + 1]
           /\ 1 \in DOMAIN out
<1> DEFINE new == Tail(out)
<1>1. /\ Len(out) \in Nat /\ DOMAIN out = 1..Len(out) /\ DOMAIN new = 1..(Len(out) - 1)
      /\ \A i \in 1..(Len(out) - 1) : new[i] = out[i + 1]
      /\ Len(out) >= 1
  OBVIOUS
<1> HIDE DEF new
<1>2. \A i \in DOMAIN out : i = 1 \/ (i - 1 \in DOMAIN new /\ new[i - 1] = out[i])
  BY <1>1
<1>3. \A i \in DOMAIN new : i + 1 \in DOMAIN out /\ new[i] = out[i + 1]
  BY <1>1
<1>4. 1 \in DOMAIN out
  BY <1>1
<1>5. \A x, type, id : StartedIn(out, x, type, id) <=>
          \/ StartedIn(new, x, type, id)
          \/ /\ out[1].event = "block_start" /\ out[1].index = x
             /\ out[1].type = type /\ out[1].id = id
  BY <1>2, <1>3, <1>4 DEF StartedIn
<1>6. \A x, kind, m : PutIn(out, x, kind, m) <=>
          \/ PutIn(new, x, kind, m)
          \/ /\ out[1].event = "block_delta" /\ out[1].index = x
             /\ out[1].kind = kind /\ out[1].part = m
  BY <1>2, <1>3, <1>4 DEF PutIn
<1> QED
  BY <1>3, <1>4, <1>5, <1>6 DEF new

(* The event that is written goes where the client's message ends. *)
LEMMA HeadFits ==
    ASSUME Inv, Emit
    PROVE  LET e == Head(stream.out) IN
           /\ e \in Events /\ stream.out \in Seq(Events) /\ stream.out # <<>> /\ e = stream.out[1]
           /\ Receive(e) /\ UNCHANGED turnVars
           /\ stream' = [stream EXCEPT !.out = Tail(stream.out)] /\ stream \in StreamType
           /\ blocks \in Seq(BlockType) /\ Len(blocks) \in Nat
           /\ e.event = "block_start" =>
                  /\ e.index \in Nat /\ e.index = Len(blocks)
                  /\ e.id \in Tools \cup {None} /\ e.type \in BlockTypes
           /\ e.event = "block_delta" \/ e.event = "block_stop" =>
                  e.index \in Nat /\ e.index + 1 = Len(blocks) /\ Len(blocks) \in DOMAIN blocks
           /\ e.event = "block_delta" =>
                  e.kind \in DeltaKinds /\ e.part \in 1..MaxFrames
           /\ e.event = "message_delta" => phase = "open"
           /\ e.event = "message_stop" => phase = "closing"
<1> DEFINE e == Head(stream.out)
<1>1. /\ stream \in StreamType /\ stream.out \in Seq(Events) /\ stream.out # <<>>
      /\ Chain(Client, stream.out, IF turn = "ended" THEN Past("stopped") ELSE Handler(stream))
  BY DEF Inv, StreamInv, StreamType, Emit
<1>2. e \in Events /\ Accepts(Client, e)
  BY <1>1, ChainShrinks
<1>3. Receive(e) /\ UNCHANGED turnVars /\ stream' = [stream EXCEPT !.out = Tail(stream.out)]
  BY DEF Emit
<1>4. e = stream.out[1]
  BY <1>1
<1> HIDE DEF e
<1>5. BlocksInv /\ Len(blocks) \in Nat /\ blocks \in Seq(BlockType)
  BY LastOpenKnown DEF Inv, BlocksInv
<1>6. ASSUME e.event = "block_start"
      PROVE  /\ e.index \in Nat /\ e.index = Len(blocks)
             /\ e.id \in Tools \cup {None} /\ e.type \in BlockTypes
  <2>1. e \in StartEvents
    BY <1>2, <1>6 DEF Events, StartEvents, DeltaEvents, StopEvents, ReasonEvents, FrameEvents
  <2>2. /\ e.index \in Nat /\ e.id \in Tools \cup {None} /\ e.type \in BlockTypes
    BY <2>1 DEF StartEvents
  <2> QED
    BY <1>2, <1>6, <2>2, ClientState DEF Accepts
<1>7. ASSUME e.event = "block_delta"
      PROVE  /\ e.index \in Nat /\ e.index + 1 = Len(blocks) /\ Len(blocks) \in DOMAIN blocks
             /\ e.kind \in DeltaKinds /\ e.part \in 1..MaxFrames
  <2>1. e \in DeltaEvents
    BY <1>2, <1>7 DEF Events, StartEvents, DeltaEvents, StopEvents, ReasonEvents, FrameEvents
  <2>2. e.index \in Nat /\ e.kind \in DeltaKinds /\ e.part \in 1..MaxFrames
    BY <2>1 DEF DeltaEvents
  <2>3. Len(blocks) = e.index + 1
    BY <1>2, <1>7, <2>2, ClientState DEF Accepts
  <2> QED
    BY <1>5, <2>2, <2>3
<1>8. ASSUME e.event = "block_stop"
      PROVE  e.index \in Nat /\ e.index + 1 = Len(blocks) /\ Len(blocks) \in DOMAIN blocks
  <2>1. e \in StopEvents
    BY <1>2, <1>8 DEF Events, StartEvents, DeltaEvents, StopEvents, ReasonEvents, FrameEvents
  <2>2. e.index \in Nat
    BY <2>1 DEF StopEvents
  <2>3. Len(blocks) = e.index + 1
    BY <1>2, <1>8, <2>2, ClientState DEF Accepts
  <2> QED
    BY <1>5, <2>2, <2>3
<1>9. /\ e.event = "message_delta" => phase = "open"
      /\ e.event = "message_stop" => phase = "closing"
  BY <1>2, ClientState DEF Accepts
<1> QED
  BY <1>1, <1>2, <1>3, <1>4, <1>5, <1>6, <1>7, <1>8, <1>9 DEF e

LEMMA EmitView ==
    ASSUME Inv, Emit
    PROVE  /\ \A x \in Nat : \A type, id :
                  Begun(stream, x, type, id)' <=> Begun(stream, x, type, id)
           /\ \A x \in Nat : \A kind, p : Put(stream, x, kind, p)' <=> Put(stream, x, kind, p)
<1> DEFINE e == Head(stream.out)
<1>1. /\ e \in Events /\ stream.out \in Seq(Events) /\ stream.out # <<>> /\ e = stream.out[1]
      /\ Receive(e)
      /\ stream' = [stream EXCEPT !.out = Tail(stream.out)] /\ stream \in StreamType
      /\ blocks \in Seq(BlockType) /\ Len(blocks) \in Nat
      /\ e.event = "block_start" =>
             /\ e.index \in Nat /\ e.index = Len(blocks)
             /\ e.id \in Tools \cup {None} /\ e.type \in BlockTypes
      /\ e.event = "block_delta" \/ e.event = "block_stop" =>
             e.index \in Nat /\ e.index + 1 = Len(blocks) /\ Len(blocks) \in DOMAIN blocks
  BY HeadFits
<1> HIDE DEF e
<1>2. /\ \A x, type, id : StartedIn(stream.out, x, type, id) <=>
             \/ StartedIn(stream'.out, x, type, id)
             \/ e.event = "block_start" /\ e.index = x /\ e.type = type /\ e.id = id
      /\ \A x, kind, m : PutIn(stream.out, x, kind, m) <=>
             \/ PutIn(stream'.out, x, kind, m)
             \/ e.event = "block_delta" /\ e.index = x /\ e.kind = kind /\ e.part = m
  <2>1. stream'.out = Tail(stream.out)
    BY <1>1 DEF StreamType
  <2> QED
    BY <1>1, <2>1, OutShrinks
<1>3. DOMAIN blocks = 1..Len(blocks) /\ \A i \in DOMAIN blocks : blocks[i] \in BlockType
  BY <1>1
<1>4. CASE e.event = "block_start"
  <2> DEFINE b == [index |-> e.index, type |-> e.type, id |-> e.id, open |-> TRUE, parts |-> <<>>]
  <2>1. blocks' = Append(blocks, b)
    BY <1>1, <1>4 DEF Receive
  <2>2. b.type = e.type /\ b.id = e.id /\ b.parts = <<>> /\ DOMAIN <<>> = {}
    OBVIOUS
  <2> HIDE DEF b
  <2>3. /\ DOMAIN blocks' = 1..(Len(blocks) + 1) /\ blocks'[Len(blocks) + 1] = b
        /\ \A i \in 1..Len(blocks) : blocks'[i] = blocks[i]
    BY <1>1, <2>1
  <2>4. ASSUME NEW x \in Nat, NEW type, NEW id
        PROVE  Begun(stream, x, type, id)' <=> Begun(stream, x, type, id)
    BY <1>1, <1>2, <1>3, <1>4, <2>2, <2>3 DEF Begun
  <2>5. ASSUME NEW x \in Nat, NEW kind, NEW p
        PROVE  Put(stream, x, kind, p)' <=> Put(stream, x, kind, p)
    BY <1>1, <1>2, <1>3, <1>4, <2>2, <2>3 DEF Put
  <2> QED
    BY <2>4, <2>5
<1>5. CASE e.event = "block_delta"
  <2> DEFINE last == Len(blocks)
             old  == blocks[last].parts
             new  == Append(old, <<e.kind, e.part>>)
             b    == [blocks[last] EXCEPT !.parts = new]
  <2>1. blocks' = [blocks EXCEPT ![last].parts = Append(@, <<e.kind, e.part>>)]
    BY <1>1, <1>5 DEF Receive, Known
  <2>2. blocks' = [blocks EXCEPT ![last] = b]
    BY <2>1
  <2>3. blocks[last] \in BlockType /\ last \in DOMAIN blocks /\ old \in Seq(DeltaKinds \X (1..MaxFrames))
    BY <1>1, <1>3, <1>5 DEF BlockType
  <2>4. /\ Len(old) \in Nat /\ DOMAIN old = 1..Len(old) /\ DOMAIN new = 1..(Len(old) + 1)
        /\ new[Len(old) + 1] = <<e.kind, e.part>> /\ \A j \in 1..Len(old) : new[j] = old[j]
    BY <2>3
  <2> HIDE DEF new
  <2>5. b.type = blocks[last].type /\ b.id = blocks[last].id /\ b.parts = new
    BY <2>3 DEF BlockType
  <2> HIDE DEF b
  <2>6. /\ DOMAIN blocks' = DOMAIN blocks /\ blocks'[last] = b
        /\ \A i \in DOMAIN blocks : i # last => blocks'[i] = blocks[i]
    BY <2>2, <2>3
  <2>7. ASSUME NEW x \in Nat, NEW type, NEW id
        PROVE  Begun(stream, x, type, id)' <=> Begun(stream, x, type, id)
    BY <1>2, <1>5, <2>5, <2>6 DEF Begun
  <2>8. \A kind, p : (\E j \in DOMAIN new : new[j] = <<kind, p>>) <=>
            (\E j \in DOMAIN old : old[j] = <<kind, p>>) \/ (kind = e.kind /\ p = e.part)
    <3>1. \A j \in DOMAIN new : j \in 1..Len(old) \/ j = Len(old) + 1
      BY <2>4
    <3>2. Len(old) + 1 \in DOMAIN new /\ \A j \in DOMAIN old : j \in DOMAIN new
      BY <2>4
    <3> HIDE DEF old
    <3> QED
      BY <2>4, <3>1, <3>2
  <2>9. ASSUME NEW x \in Nat, NEW kind, NEW p
        PROVE  Put(stream, x, kind, p)' <=> Put(stream, x, kind, p)
    <3>1. CASE x + 1 = last
      <4>1. x = e.index /\ x + 1 \in DOMAIN blocks /\ x + 1 \in DOMAIN blocks'
        BY <1>1, <1>5, <2>3, <2>6, <3>1
      <4>2. blocks[x + 1].parts = old /\ blocks'[x + 1].parts = new
        BY <2>5, <2>6, <3>1
      <4> HIDE DEF old, last
      <4>3. PutIn(stream.out, x, kind, p) <=>
                PutIn(stream'.out, x, kind, p) \/ (kind = e.kind /\ p = e.part)
        BY <1>2, <1>5, <4>1
      <4>4. Put(stream, x, kind, p) <=>
                (\E j \in DOMAIN old : old[j] = <<kind, p>>) \/ PutIn(stream.out, x, kind, p)
        BY <4>1, <4>2 DEF Put
      <4>5. Put(stream, x, kind, p)' <=>
                (\E j \in DOMAIN new : new[j] = <<kind, p>>) \/ PutIn(stream'.out, x, kind, p)
        BY <4>1, <4>2 DEF Put
      <4> QED
        BY <2>8, <4>3, <4>4, <4>5
    <3>2. CASE x + 1 # last
      <4>1. x # e.index
        BY <1>1, <1>5, <3>2
      <4> QED
        BY <1>2, <1>5, <2>6, <3>2, <4>1 DEF Put
    <3> QED
      BY <3>1, <3>2
  <2> QED
    BY <2>7, <2>9
<1>6. CASE e.event \notin {"block_start", "block_delta"}
  <2>1. /\ \A x, type, id : StartedIn(stream.out, x, type, id) <=> StartedIn(stream'.out, x, type, id)
        /\ \A x, kind, m : PutIn(stream.out, x, kind, m) <=> PutIn(stream'.out, x, kind, m)
    BY <1>2, <1>6
  <2>2. /\ DOMAIN blocks' = DOMAIN blocks
        /\ \A i \in DOMAIN blocks : /\ blocks'[i].type = blocks[i].type
                                    /\ blocks'[i].id = blocks[i].id
                                    /\ blocks'[i].parts = blocks[i].parts
    <3>1. CASE e.event = "block_stop"
      <4>1. blocks' = [blocks EXCEPT ![Len(blocks)].open = FALSE]
        BY <1>1, <3>1 DEF Receive, Known
      <4> QED
        BY <1>1, <1>3, <4>1 DEF BlockType
    <3>2. CASE e.event # "block_stop"
      <4>1. blocks' = blocks
        BY <1>1, <1>6, <3>2 DEF Receive
      <4> QED
        BY <4>1
    <3> QED
      BY <3>1, <3>2
  <2> QED
    BY <2>1, <2>2 DEF Begun, Put
<1> QED
  BY <1>4, <1>5, <1>6

--------------------------------------------------------------------------------
(* The message of the Anthropic stream has the text and the thoughts of    *)
(* the turn, tools that were called, and input that is about its tool.     *)

MessageInv ==
    /\ View(stream) /\ ToolOpen(stream) /\ DeltasOf(stream.out, Len(frames))
    /\ \A p : Has(stream, "text", p) <=> p \in Texts
    /\ \A p : Has(stream, "thinking", p) <=> p \in Thoughts
    /\ \A x \in Nat : \A i, p :
           Begun(stream, x, "tool", i) /\ Put(stream, x, "input", p) =>
               p \in 1..Len(frames) /\ About(p, i)
    /\ \A x \in Nat : \A i : Begun(stream, x, "tool", i) => i \in Tools /\ Called(i)
    /\ stream.curToolID # None => About(Len(frames), stream.curToolID)

(* While the client's blocks stay, the view follows the handler's state.   *)
LEMMA ViewFollows ==
    ASSUME NEW u, stream' = u, UNCHANGED blocks
    PROVE  /\ \A x, t, i : Begun(stream, x, t, i)' <=> Begun(u, x, t, i)
           /\ \A x, k, p : Put(stream, x, k, p)' <=> Put(u, x, k, p)
           /\ \A k, p : Has(stream, k, p)' <=> Has(u, k, p)
           /\ View(stream)' <=> View(u)
           /\ ToolOpen(stream)' <=> ToolOpen(u)
<1>1. \A x, t, i : Begun(stream, x, t, i)' <=> Begun(u, x, t, i)
  BY DEF Begun
<1>2. \A x, k, p : Put(stream, x, k, p)' <=> Put(u, x, k, p)
  BY DEF Put
<1>3. \A k, p : Has(stream, k, p)' <=> Has(u, k, p)
  BY <1>2 DEF Has
<1>4. View(stream)' <=> View(u)
  BY <1>1, <1>2 DEF View
<1>5. ToolOpen(stream)' <=> ToolOpen(u)
  BY <1>1 DEF ToolOpen
<1> QED
  BY <1>1, <1>2, <1>3, <1>4, <1>5

LEMMA NothingBegun ==
    ASSUME Init
    PROVE  /\ \A x \in Nat : \A t, i : ~Begun(stream, x, t, i)
           /\ \A x \in Nat : \A k, p : ~Put(stream, x, k, p)
           /\ DOMAIN stream.out = {1} /\ stream.out[1].event = "message_start"
<1>1. /\ blocks = <<>> /\ DOMAIN <<>> = {}
      /\ stream.out = <<Event("message_start")>>
  BY DEF Init, StreamInit, InitialStream
<1>2. /\ DOMAIN stream.out = {1} /\ stream.out[1] = Event("message_start")
  BY <1>1
<1>3. stream.out[1].event = "message_start"
  BY <1>2 DEF Event
<1>4. \A x \in Nat : \A t, i : ~Begun(stream, x, t, i)
  BY <1>1, <1>2, <1>3 DEF Begun, StartedIn
<1>5. \A x \in Nat : \A k, p : ~Put(stream, x, k, p)
  BY <1>1, <1>2, <1>3 DEF Put, PutIn
<1> QED
  BY <1>2, <1>3, <1>4, <1>5

LEMMA MessageStart == Init => MessageInv
<1> SUFFICES ASSUME Init PROVE MessageInv
  OBVIOUS
<1>1. /\ \A x \in Nat : \A t, i : ~Begun(stream, x, t, i)
      /\ \A x \in Nat : \A k, p : ~Put(stream, x, k, p)
      /\ DOMAIN stream.out = {1} /\ stream.out[1].event = "message_start"
  BY NothingBegun
<1>2. /\ frames = <<>> /\ DOMAIN <<>> = {} /\ Len(<<>>) = 0
      /\ stream.openType = None /\ stream.curToolID = None
  BY DEF Init, TurnInit, StreamInit, InitialStream
<1>3. None # "tool"
  BY NoneAssumption
<1>4. View(stream) /\ ToolOpen(stream) /\ DeltasOf(stream.out, Len(frames))
  BY <1>1, <1>2, <1>3 DEF View, ToolOpen, DeltasOf
<1>5. /\ \A p : ~Has(stream, "text", p) /\ ~Has(stream, "thinking", p)
      /\ Texts = {} /\ Thoughts = {}
  BY <1>1, <1>2 DEF Has, Texts, Thoughts
<1> QED
  BY <1>1, <1>2, <1>4, <1>5 DEF MessageInv

(* A frame's content enters the message, and a tool's frame only the open  *)
(* block of the tool that it is about.                                     *)
LEMMA MessageFrame ==
    ASSUME Inv, TurnTypeOK, MessageInv, NEW f \in Kinds, ReadFrame(f), StreamFrame(f)
    PROVE  MessageInv'
<1> SUFFICES ASSUME NEW n, n = Len(frames) + 1 PROVE MessageInv'
  OBVIOUS
<1>1. PICK u : u = OnFrame(stream, f, n)
  OBVIOUS
<1>2. stream' = u /\ UNCHANGED blocks /\ stream.out = <<>> /\ turn # "ended"
  BY <1>1 DEF StreamFrame, ReadFrame
<1>3. /\ \A x, t, i : Begun(stream, x, t, i)' <=> Begun(u, x, t, i)
      /\ \A x, k, p : Put(stream, x, k, p)' <=> Put(u, x, k, p)
      /\ \A k, p : Has(stream, k, p)' <=> Has(u, k, p)
      /\ View(stream)' <=> View(u)
      /\ ToolOpen(stream)' <=> ToolOpen(u)
  BY <1>2, ViewFollows
<1>4. Leads(Client, stream) /\ n \in 1..MaxFrames /\ Len(frames') = n /\ Len(frames) = n - 1
  BY <1>2, ReadingLeads, FramesGrow
<1>5. /\ Texts' = IF f.type = "text" /\ f.text THEN Texts \cup {n} ELSE Texts
      /\ Thoughts' = IF f.type = "thinking" /\ f.text THEN Thoughts \cup {n} ELSE Thoughts
      /\ \A t : Called(t)' <=> Called(t) \/ (f.type = "tool" /\ f.id = t)
  BY AskedGrows
<1>6. \A t : /\ \A p \in 0..(n - 1) : About(p, t) => About(p, t)'
             /\ Names(f, t) => About(n, t)'
             /\ (f.type = "tool" => f.id = None) /\ About(n - 1, t) => About(n, t)'
  BY AboutGrows
<1>7. View(stream) /\ ToolOpen(stream)
  BY DEF MessageInv
<1>8. CASE f.type \in {"text", "thinking"}
  <2>1. /\ View(u) /\ ToolOpen(u) /\ DeltasOf(u.out, n)
        /\ \A kind \in {"text", "thinking"} : \A p :
               Has(u, kind, p) <=> Has(stream, kind, p) \/ (f.type = kind /\ f.text /\ p = n)
        /\ \A x, p : Put(u, x, "input", p) <=> Put(stream, x, "input", p)
        /\ \A x, i : Begun(u, x, "tool", i) <=> Begun(stream, x, "tool", i)
        /\ u.curToolID = stream.curToolID
    BY <1>1, <1>2, <1>4, <1>7, <1>8, ContentEffect
  <2>2. /\ \A p : /\ Has(stream, "text", p)' <=> p \in Texts'
                  /\ Has(stream, "thinking", p)' <=> p \in Thoughts'
        /\ \A x \in Nat : \A i : Begun(stream, x, "tool", i)' => i \in Tools /\ Called(i)'
    BY <1>3, <1>5, <1>8, <2>1 DEF MessageInv
  <2>3. ASSUME NEW x \in Nat, NEW i, NEW p, Begun(stream, x, "tool", i)', Put(stream, x, "input", p)'
        PROVE  p \in 1..n /\ About(p, i)'
    <3>1. p \in 1..(n - 1) /\ About(p, i)
      BY <1>3, <1>4, <2>1, <2>3 DEF MessageInv
    <3> QED
      BY <1>4, <1>6, <3>1
  <2>4. u.curToolID # None => About(n, u.curToolID)'
    <3>1. f.type # "tool"
      BY <1>8
    <3> QED
      BY <1>4, <1>6, <2>1, <3>1 DEF MessageInv
  <2> QED
    BY <1>2, <1>3, <1>4, <2>1, <2>2, <2>3, <2>4 DEF MessageInv
<1>9. CASE f \in ToolFrames /\ f.type = "tool" /\ f.id \in Tools \cup {None}
  <2> DEFINE opens == f.id \notin {None, stream.curToolID}
             block == IF opens THEN stream.nextIndex ELSE stream.openIndex
             takes == f.input /\ (opens \/ stream.openType = "tool")
  <2>0. PICK owner : owner = IF opens THEN f.id ELSE stream.curToolID
    OBVIOUS
  <2>1. u = OnTool(stream, f, n)
    BY <1>1, <1>9 DEF OnFrame
  <2>2. /\ View(u) /\ ToolOpen(u) /\ DeltasOf(u.out, n)
        /\ \A kind \in {"text", "thinking"} : \A p : Has(u, kind, p) <=> Has(stream, kind, p)
        /\ \A x, i : Begun(u, x, "tool", i) <=>
               Begun(stream, x, "tool", i) \/ (opens /\ x = stream.nextIndex /\ i = f.id)
        /\ \A x, p : Put(u, x, "input", p) <=>
               Put(stream, x, "input", p) \/ (takes /\ x = block /\ p = n)
        /\ takes => block \in Nat /\ owner # None /\ Begun(u, block, "tool", owner)
        /\ u.curToolID = IF f.stop THEN None ELSE owner
        /\ stream.nextIndex \in Nat
    BY <1>2, <1>4, <1>7, <1>9, <2>0, <2>1, ToolEffect
  <2>3. owner # None => About(n, owner)'
    <3>1. CASE f.id # None
      <4>1. owner = f.id /\ Names(f, owner)
        BY <1>9, <2>0, <3>1 DEF Names
      <4> QED
        BY <1>6, <4>1
    <3>2. CASE f.id = None
      <4>1. owner = stream.curToolID
        BY <2>0, <3>2
      <4> QED
        BY <1>4, <1>6, <3>2, <4>1 DEF MessageInv
    <3> QED
      BY <3>1, <3>2
  <2> HIDE DEF opens, block, takes
  <2>4. \A p : Has(stream, "text", p)' <=> p \in Texts'
    BY <1>3, <1>5, <1>9, <2>2 DEF MessageInv
  <2>5. \A p : Has(stream, "thinking", p)' <=> p \in Thoughts'
    BY <1>3, <1>5, <1>9, <2>2 DEF MessageInv
  <2>6. ASSUME NEW x \in Nat, NEW i, Begun(u, x, "tool", i) PROVE i \in Tools /\ Called(i)'
    BY <1>5, <1>9, <2>2, <2>6 DEF MessageInv, opens
  <2>7. ASSUME NEW x \in Nat, NEW i, NEW p, Begun(u, x, "tool", i), Put(u, x, "input", p)
        PROVE  p \in 1..n /\ About(p, i)'
    <3>1. CASE takes /\ x = block /\ p = n
      <4>1. i = owner
        BY <2>2, <2>7, <3>1 DEF View
      <4> QED
        BY <1>4, <2>2, <2>3, <3>1, <4>1
    <3>2. CASE Put(stream, x, "input", p) /\ ~(takes /\ x = block /\ p = n)
      <4>1. PICK j : Begun(stream, x, "tool", j)
        BY <1>7, <3>2 DEF View, BlockOf
      <4>2. Begun(u, x, "tool", j)
        BY <2>2, <4>1
      <4>3. i = j
        BY <2>2, <2>7, <4>2 DEF View
      <4>4. p \in 1..(n - 1) /\ About(p, i)
        BY <1>4, <3>2, <4>1, <4>3 DEF MessageInv
      <4> QED
        BY <1>4, <1>6, <4>4
    <3> QED
      BY <2>2, <2>7, <3>1, <3>2
  <2>8. u.curToolID # None => About(n, u.curToolID)'
    <3>1. u.curToolID # None => u.curToolID = owner
      BY <2>2
    <3> QED
      BY <2>3, <3>1
  <2> QED
    BY <1>2, <1>3, <1>4, <2>2, <2>4, <2>5, <2>6, <2>7, <2>8 DEF MessageInv
<1>10. CASE f \in MetadataFrames /\ f.type = "metadata"
  <2>1. u = OnMetadata(stream, f)
    BY <1>1, <1>10 DEF OnFrame
  <2>2. /\ u.out = stream.out /\ u.openType = stream.openType /\ u.openIndex = stream.openIndex
        /\ u.nextIndex = stream.nextIndex /\ u.curToolID = stream.curToolID
    <3>1. stream \in StreamType
      BY DEF Inv, StreamInv
    <3> QED
      BY <2>1, <3>1 DEF OnMetadata, StreamType
  <2>3. /\ \A x, t, i : Begun(u, x, t, i) <=> Begun(stream, x, t, i)
        /\ \A x, k, p : Put(u, x, k, p) <=> Put(stream, x, k, p)
    BY <2>2 DEF Begun, Put
  <2>4. View(u) /\ ToolOpen(u)
    BY <1>7, <2>2, <2>3 DEF View, ToolOpen
  <2>5. DeltasOf(u.out, n)
    <3>1. DOMAIN <<>> = {}
      OBVIOUS
    <3> QED
      BY <1>2, <2>2, <3>1 DEF DeltasOf
  <2>6. Texts' = Texts /\ Thoughts' = Thoughts /\ \A t : Called(t)' <=> Called(t)
    BY <1>5, <1>10
  <2>7. \A k, p : Has(u, k, p) <=> Has(stream, k, p)
    BY <2>3 DEF Has
  <2>8. ASSUME NEW x \in Nat, NEW i, NEW p, Begun(u, x, "tool", i), Put(u, x, "input", p)
        PROVE  p \in 1..n /\ About(p, i)'
    <3>1. p \in 1..(n - 1) /\ About(p, i)
      BY <1>4, <2>3, <2>8 DEF MessageInv
    <3> QED
      BY <1>4, <1>6, <3>1
  <2>9. u.curToolID # None => About(n, u.curToolID)'
    BY <1>4, <1>6, <1>10, <2>2 DEF MessageInv
  <2> QED
    BY <1>2, <1>3, <1>4, <2>2, <2>3, <2>4, <2>5, <2>6, <2>7, <2>8, <2>9 DEF MessageInv
<1> QED
  BY <1>8, <1>9, <1>10, FrameKinds

--------------------------------------------------------------------------------
(* The end of the message. *)

LEMMA NothingAfterStop ==
    ASSUME NEW e \in Events
    PROVE  /\ Accepts(Past("closing"), e) => e.event = "message_stop"
           /\ ~Accepts(Past("stopped"), e)
<1>1. e.event \in {"message_start", "block_start", "block_delta", "block_stop",
                   "message_delta", "message_stop"}
  BY DEF Events, StartEvents, DeltaEvents, StopEvents, ReasonEvents, FrameEvents
<1>2. \A count, type : Open(count, type).phase = "open"
  BY DEF Open
<1>3. \A ph : Past(ph).phase = ph
  BY DEF Past
<1>4. Past("closing").phase = "closing" /\ Past("stopped").phase = "stopped"
      /\ Past("none").phase = "none"
  BY <1>3
<1>5. /\ \A count, type : Past("closing") # Open(count, type) /\ Past("stopped") # Open(count, type)
      /\ Past("closing") # Past("none") /\ Past("stopped") # Past("none")
      /\ Past("closing") # Past("stopped")
  BY <1>2, <1>4
<1> QED
  BY <1>1, <1>5 DEF Accepts

(* While the handler reads, no reason waits to be written. *)
LEMMA NoReasonWaits ==
    ASSUME NEW m, NEW s, Leads(m, s)
    PROVE  \A i \in DOMAIN s.out : s.out[i].event # "message_delta"
<1> SUFFICES ASSUME NEW i \in DOMAIN s.out, s.out[i].event = "message_delta" PROVE FALSE
  OBVIOUS
<1>1. PICK out : out = s.out
  OBVIOUS
<1>2. /\ out \in Seq(Events) /\ Len(out) \in Nat /\ i \in 1..Len(out) /\ out # <<>>
      /\ \A j \in 1..Len(out) : out[j] \in Events
  BY <1>1 DEF Leads, StreamType
<1>3. /\ \A j \in 1..(Len(out) - 1) : Accepts(After(out[j]), out[j + 1])
      /\ After(out[Len(out)]) = Handler(s)
  BY <1>1, <1>2 DEF Leads, Chain
<1>4. Handler(s).phase = "open" /\ Past("closing").phase = "closing"
      /\ Past("stopped").phase = "stopped"
  BY DEF Handler, Open, Past
<1>5. After(out[i]) = Past("closing") /\ i # Len(out)
  BY <1>1, <1>3, <1>4 DEF After
<1>6. i + 1 \in 1..Len(out) /\ Accepts(Past("closing"), out[i + 1])
  <2>1. i \in 1..(Len(out) - 1)
    BY <1>2, <1>5
  <2> QED
    BY <1>3, <1>5, <2>1
<1>7. out[i + 1].event = "message_stop"
  BY <1>2, <1>6, NothingAfterStop
<1>8. After(out[i + 1]) = Past("stopped") /\ i + 1 # Len(out)
  BY <1>3, <1>4, <1>7 DEF After
<1>9. i + 2 \in 1..Len(out) /\ Accepts(Past("stopped"), out[i + 2])
  <2>1. i + 1 \in 1..(Len(out) - 1) /\ (i + 1) + 1 = i + 2
    BY <1>2, <1>6, <1>8
  <2> QED
    BY <1>3, <1>8, <2>1
<1> QED
  BY <1>2, <1>9, NothingAfterStop

(* A message is closed only after the body, and a stopped one is complete. *)
LEMMA ClosedAfterBody ==
    ASSUME Inv
    PROVE  /\ phase \in {"closing", "stopped"} => turn = "ended"
           /\ phase = "stopped" => stream.out = <<>>
<1>1. PICK out : out = stream.out
  OBVIOUS
<1>2. PICK l : l = IF turn = "ended" THEN Past("stopped") ELSE Handler(stream)
  OBVIOUS
<1>3. out \in Seq(Events) /\ Chain(Client, out, l)
  BY <1>1, <1>2 DEF Inv, StreamInv, StreamType
<1>4. phase # "open" => Client = Past(phase)
  BY DEF Client
<1>5. /\ Handler(stream).phase = "open" /\ Past("closing").phase = "closing"
      /\ Past("stopped").phase = "stopped"
  BY DEF Handler, Open, Past
<1>6. ASSUME phase = "stopped" PROVE out = <<>>
  <2> SUFFICES ASSUME out # <<>> PROVE FALSE
    OBVIOUS
  <2>1. Head(out) \in Events /\ Accepts(Client, Head(out))
    BY <1>3, ChainShrinks
  <2> QED
    BY <1>4, <1>6, <2>1, NothingAfterStop
<1>7. ASSUME phase \in {"closing", "stopped"}, out = <<>> PROVE turn = "ended"
  <2>1. Client = l
    BY <1>3, <1>7 DEF Chain
  <2> QED
    BY <1>2, <1>4, <1>5, <1>7, <2>1
<1>8. ASSUME phase = "closing", out # <<>> PROVE turn = "ended"
  <2>1. /\ Head(out) \in Events /\ Tail(out) \in Seq(Events)
        /\ Accepts(Client, Head(out)) /\ Chain(After(Head(out)), Tail(out), l)
    BY <1>3, <1>8, ChainShrinks
  <2>2. Head(out).event = "message_stop"
    BY <1>4, <1>8, <2>1, NothingAfterStop
  <2>3. After(Head(out)) = Past("stopped")
    BY <2>2 DEF After
  <2>4. Tail(out) = <<>>
    <3> SUFFICES ASSUME Tail(out) # <<>> PROVE FALSE
      OBVIOUS
    <3>1. Head(Tail(out)) \in Events /\ Accepts(Past("stopped"), Head(Tail(out)))
      BY <2>1, <2>3, ChainShrinks
    <3> QED
      BY <3>1, NothingAfterStop
  <2>5. l = Past("stopped")
    BY <2>1, <2>3, <2>4 DEF Chain
  <2> QED
    BY <1>2, <1>5, <2>5
<1> QED
  BY <1>1, <1>6, <1>7, <1>8

(* The end of the body adds nothing to the content, and the last reason.   *)
LEMMA EndView ==
    ASSUME NEW m, NEW s, Leads(m, s), View(s), ToolOpen(s), s.out = <<>>
    PROVE  LET u == OnEnd(s) IN
           /\ View(u) /\ ToolOpen(u) /\ \A n : DeltasOf(u.out, n)
           /\ \A x, t, i : Begun(u, x, t, i) <=> Begun(s, x, t, i)
           /\ \A x, k, p : Put(u, x, k, p) <=> Put(s, x, k, p)
           /\ u.curToolID = s.curToolID /\ u.stopReason = s.stopReason
           /\ \A i \in DOMAIN u.out :
                  u.out[i].event = "message_delta" => u.out[i].reason = s.stopReason
<1> DEFINE u == OnEnd(s)
           c == CloseOpen(s)
           why == MessageDelta(s.stopReason)
           stop == Event("message_stop")
<1>1. /\ Leads(m, c) /\ View(c) /\ c.openType = None
      /\ \A x, t, i : Begun(c, x, t, i) <=> Begun(s, x, t, i)
      /\ \A x, k, p : Put(c, x, k, p) <=> Put(s, x, k, p)
      /\ \A n : DeltasOf(s.out, n) => DeltasOf(c.out, n)
      /\ c.curToolID = s.curToolID /\ c.stopReason = s.stopReason
  BY CloseOpenLeads, CloseView
<1>2. u = [c EXCEPT !.out = c.out \o <<why, stop>>]
  BY DEF OnEnd
<1>3. /\ why.event = "message_delta" /\ why.reason = s.stopReason
      /\ stop.event = "message_stop"
  BY DEF MessageDelta, Event
<1>4. why \in Events /\ stop \in Events
  BY DEF MessageDelta, Event, Events, ReasonEvents, FrameEvents, Leads, StreamType
<1> HIDE DEF u, c, why, stop
<1>5. c \in StreamType /\ c.out \in Seq(Events)
  BY <1>1 DEF Leads, StreamType
<1>6. /\ u.out = c.out \o <<why, stop>> /\ u.openType = None /\ u.openIndex = c.openIndex
      /\ u.nextIndex = c.nextIndex /\ u.curToolID = c.curToolID /\ u.stopReason = c.stopReason
  BY <1>1, <1>2, <1>5 DEF StreamType
<1>7. PICK a : a = Append(c.out, why)
  OBVIOUS
<1>8. a \in Seq(Events) /\ u.out = Append(a, stop)
  <2>1. c.out \o <<why, stop>> = Append(Append(c.out, why), stop)
    BY <1>4, <1>5
  <2>2. Append(c.out, why) \in Seq(Events)
    BY <1>4, <1>5
  <2> QED
    BY <1>6, <1>7, <2>1, <2>2
<1>9. /\ \A x, t, i : StartedIn(u.out, x, t, i) <=> StartedIn(c.out, x, t, i)
      /\ \A x, k, p : PutIn(u.out, x, k, p) <=> PutIn(c.out, x, k, p)
      /\ \A n : DeltasOf(c.out, n) => DeltasOf(u.out, n)
  <2>1. /\ \A x, t, i : StartedIn(a, x, t, i) <=> StartedIn(c.out, x, t, i)
        /\ \A x, k, p : PutIn(a, x, k, p) <=> PutIn(c.out, x, k, p)
        /\ \A n : DeltasOf(c.out, n) => DeltasOf(a, n)
    BY <1>3, <1>4, <1>5, <1>7, OutGrows
  <2>2. /\ \A x, t, i : StartedIn(u.out, x, t, i) <=> StartedIn(a, x, t, i)
        /\ \A x, k, p : PutIn(u.out, x, k, p) <=> PutIn(a, x, k, p)
        /\ \A n : DeltasOf(a, n) => DeltasOf(u.out, n)
    BY <1>3, <1>4, <1>8, OutGrows
  <2> QED
    BY <2>1, <2>2
<1>10. /\ \A x, t, i : Begun(u, x, t, i) <=> Begun(c, x, t, i)
       /\ \A x, k, p : Put(u, x, k, p) <=> Put(c, x, k, p)
  BY <1>9 DEF Begun, Put
<1>11. View(u) /\ ToolOpen(u)
  <2>1. None # "tool"
    BY NoneAssumption
  <2> QED
    BY <1>1, <1>6, <1>10, <2>1 DEF View, ToolOpen
<1>12. ASSUME NEW n PROVE DeltasOf(u.out, n)
  <2>1. DeltasOf(s.out, n)
    <3>1. DOMAIN <<>> = {}
      OBVIOUS
    <3> QED
      BY <3>1 DEF DeltasOf
  <2> QED
    BY <1>1, <1>9, <2>1
<1>13. ASSUME NEW i \in DOMAIN u.out, u.out[i].event = "message_delta"
       PROVE  u.out[i].reason = s.stopReason
  <2>1. /\ Len(c.out) \in Nat /\ Len(a) = Len(c.out) + 1 /\ a[Len(c.out) + 1] = why
        /\ \A j \in 1..Len(c.out) : a[j] = c.out[j] /\ j \in DOMAIN c.out
    BY <1>4, <1>5, <1>7
  <2>2. /\ DOMAIN u.out = 1..(Len(a) + 1) /\ u.out[Len(a) + 1] = stop
        /\ \A j \in 1..Len(a) : u.out[j] = a[j]
    BY <1>4, <1>8
  <2>3. i = Len(c.out) + 1
    <3>1. i \notin 1..Len(c.out)
      <4> SUFFICES ASSUME i \in 1..Len(c.out) PROVE FALSE
        OBVIOUS
      <4>1. i \in DOMAIN c.out /\ c.out[i].event = "message_delta"
        BY <1>13, <2>1, <2>2
      <4> QED
        BY <1>1, <4>1, NoReasonWaits
    <3>2. i # Len(a) + 1
      BY <1>3, <1>13, <2>2
    <3> QED
      BY <2>1, <2>2, <3>1, <3>2
  <2> QED
    BY <1>3, <2>1, <2>2, <2>3
<1> QED
  BY <1>1, <1>6, <1>10, <1>11, <1>12, <1>13 DEF u

(* Nothing is said of the message but by the frames and the view. *)
LEMMA MessageStays ==
    ASSUME MessageInv, UNCHANGED frames,
           View(stream)', ToolOpen(stream)', DeltasOf(stream.out, Len(frames))',
           \A x \in Nat : \A t, i : Begun(stream, x, t, i)' <=> Begun(stream, x, t, i),
           \A x \in Nat : \A k, p : Put(stream, x, k, p)' <=> Put(stream, x, k, p),
           stream'.curToolID = stream.curToolID
    PROVE  MessageInv'
<1>1. \A k, p : Has(stream, k, p)' <=> Has(stream, k, p)
  BY DEF Has
<1>2. /\ \A t, p : About(p, t)' <=> About(p, t)
      /\ \A t : Called(t)' <=> Called(t)
      /\ Texts' = Texts /\ Thoughts' = Thoughts
  BY DEF About, Called, IsTool, Texts, Thoughts
<1>3. \A p : Has(stream, "text", p)' <=> p \in Texts'
  BY <1>1, <1>2 DEF MessageInv
<1>4. \A p : Has(stream, "thinking", p)' <=> p \in Thoughts'
  BY <1>1, <1>2 DEF MessageInv
<1>5. ASSUME NEW x \in Nat, NEW i, NEW p, Begun(stream, x, "tool", i)', Put(stream, x, "input", p)'
      PROVE  p \in 1..Len(frames)' /\ About(p, i)'
  BY <1>2, <1>5 DEF MessageInv
<1>6. \A x \in Nat : \A i : Begun(stream, x, "tool", i)' => i \in Tools /\ Called(i)'
  BY <1>2 DEF MessageInv
<1>7. stream'.curToolID # None => About(Len(frames), stream.curToolID)'
  <2>1. PICK c : c = stream.curToolID
    OBVIOUS
  <2>2. c # None => About(Len(frames), c)
    BY <2>1 DEF MessageInv
  <2>3. c # None => About(Len(frames), c)'
    BY <2>2 DEF About
  <2> QED
    BY <2>1, <2>3
<1> QED
  BY <1>3, <1>4, <1>5, <1>6, <1>7 DEF MessageInv

LEMMA MessageEnd ==
    ASSUME Inv, MessageInv, EndOfBody, StreamEnd
    PROVE  /\ MessageInv'
           /\ \A x \in Nat : \A t, i : Begun(stream, x, t, i)' <=> Begun(stream, x, t, i)
           /\ \A x \in Nat : \A k, p : Put(stream, x, k, p)' <=> Put(stream, x, k, p)
<1>1. PICK u : u = OnEnd(stream)
  OBVIOUS
<1>2. stream' = u /\ UNCHANGED blocks /\ stream.out = <<>> /\ turn # "ended" /\ UNCHANGED frames
  BY <1>1 DEF StreamEnd, EndOfBody
<1>3. Leads(Client, stream) /\ View(stream) /\ ToolOpen(stream)
  BY <1>2, ReadingLeads DEF MessageInv
<1>4. /\ View(u) /\ ToolOpen(u) /\ \A n : DeltasOf(u.out, n)
      /\ \A x, t, i : Begun(u, x, t, i) <=> Begun(stream, x, t, i)
      /\ \A x, k, p : Put(u, x, k, p) <=> Put(stream, x, k, p)
      /\ u.curToolID = stream.curToolID
  BY <1>1, <1>2, <1>3, EndView
<1>5. /\ \A x, t, i : Begun(stream, x, t, i)' <=> Begun(u, x, t, i)
      /\ \A x, k, p : Put(stream, x, k, p)' <=> Put(u, x, k, p)
      /\ View(stream)' <=> View(u)
      /\ ToolOpen(stream)' <=> ToolOpen(u)
  BY <1>2, ViewFollows
<1>6. DeltasOf(stream.out, Len(frames))'
  BY <1>2, <1>4
<1>7. MessageInv'
  BY <1>2, <1>4, <1>5, <1>6, MessageStays
<1> QED
  BY <1>4, <1>5, <1>7

LEMMA MessageSame ==
    ASSUME MessageInv, UNCHANGED <<frames, stream, blocks>>
    PROVE  /\ MessageInv'
           /\ \A x \in Nat : \A t, i : Begun(stream, x, t, i)' <=> Begun(stream, x, t, i)
           /\ \A x \in Nat : \A k, p : Put(stream, x, k, p)' <=> Put(stream, x, k, p)
<1>1. /\ \A x \in Nat : \A t, i : Begun(stream, x, t, i)' <=> Begun(stream, x, t, i)
      /\ \A x \in Nat : \A k, p : Put(stream, x, k, p)' <=> Put(stream, x, k, p)
  BY DEF Begun, Put
<1>2. View(stream)' /\ ToolOpen(stream)' /\ DeltasOf(stream.out, Len(frames))'
  BY DEF MessageInv, View, ToolOpen, Begun, Put
<1> QED
  BY <1>1, <1>2, MessageStays

LEMMA OpenIndexKnown ==
    ASSUME Inv, stream.openType # None
    PROVE  stream.openIndex \in Nat
BY DEF Inv, StreamInv, StreamType, Consistent

LEMMA MessageEmit ==
    ASSUME Inv, MessageInv, Emit
    PROVE  MessageInv'
<1>1. /\ \A x \in Nat : \A t, i : Begun(stream, x, t, i)' <=> Begun(stream, x, t, i)
      /\ \A x \in Nat : \A k, p : Put(stream, x, k, p)' <=> Put(stream, x, k, p)
  BY EmitView
<1>2. /\ stream.out \in Seq(Events) /\ stream.out # <<>> /\ stream \in StreamType
      /\ stream' = [stream EXCEPT !.out = Tail(stream.out)] /\ UNCHANGED frames
  BY HeadFits DEF turnVars
<1>3. /\ stream'.out = Tail(stream.out) /\ stream'.openType = stream.openType
      /\ stream'.openIndex = stream.openIndex /\ stream'.nextIndex = stream.nextIndex
      /\ stream'.curToolID = stream.curToolID
  BY <1>2 DEF StreamType
<1>4. DeltasOf(stream.out, Len(frames))'
  <2>1. \A i \in DOMAIN Tail(stream.out) :
            i + 1 \in DOMAIN stream.out /\ Tail(stream.out)[i] = stream.out[i + 1] /\ i \in Nat
    BY <1>2, OutShrinks
  <2>2. DeltasOf(stream.out, Len(frames))
    BY DEF MessageInv
  <2>3. \A i \in DOMAIN stream'.out :
            stream'.out[i].event = "block_delta" => stream'.out[i].part = Len(frames)
    BY <1>3, <2>1, <2>2 DEF DeltasOf
  <2>4. ASSUME NEW i \in DOMAIN stream'.out, NEW j \in DOMAIN stream'.out,
               stream'.out[i].event = "block_delta", stream'.out[j].event = "block_delta",
               stream'.out[i].kind = stream'.out[j].kind
        PROVE  i = j
    <3>1. i + 1 = j + 1
      BY <1>3, <2>1, <2>2, <2>4 DEF DeltasOf
    <3> QED
      BY <1>3, <2>1, <3>1
  <2> QED
    BY <1>2, <2>3, <2>4 DEF DeltasOf
<1>5. View(stream)' /\ ToolOpen(stream)'
  <2>1. View(stream) /\ ToolOpen(stream) /\ (stream.openType # None => stream.openIndex \in Nat)
    BY OpenIndexKnown DEF MessageInv
  <2>2. None # "tool"
    BY NoneAssumption
  <2> QED
    BY <1>1, <1>3, <2>1, <2>2 DEF View, ToolOpen
<1> QED
  BY <1>1, <1>2, <1>3, <1>4, <1>5, MessageStays

--------------------------------------------------------------------------------
(* The content comes in order: what waits is newer than what is written.   *)

OrderInv ==
    /\ \A kind : InOrder(kind)
    /\ \A b \in DOMAIN blocks : \A i \in DOMAIN blocks[b].parts :
           blocks[b].parts[i][2] \in 1..Len(frames)
    /\ \A k \in DOMAIN stream.out : stream.out[k].event = "block_delta" =>
           \A b \in DOMAIN blocks : \A i \in DOMAIN blocks[b].parts :
               blocks[b].parts[i][1] = stream.out[k].kind =>
                   blocks[b].parts[i][2] < stream.out[k].part

LEMMA OrderStart == Init => OrderInv
<1> SUFFICES ASSUME Init PROVE OrderInv
  OBVIOUS
<1>1. blocks = <<>> /\ DOMAIN <<>> = {}
  BY DEF Init, StreamInit
<1> QED
  BY <1>1 DEF OrderInv, InOrder

LEMMA OrderFrame ==
    ASSUME TurnTypeOK, OrderInv, MessageInv', NEW f \in Kinds, ReadFrame(f), StreamFrame(f)
    PROVE  OrderInv'
<1>1. UNCHANGED blocks /\ Len(frames) \in Nat /\ Len(frames') = Len(frames) + 1
  BY FramesGrow DEF StreamFrame
<1>2. \A kind : InOrder(kind)'
  BY <1>1 DEF OrderInv, InOrder
<1>3. \A b \in DOMAIN blocks' : \A i \in DOMAIN blocks'[b].parts :
          blocks'[b].parts[i][2] \in 1..Len(frames')
  BY <1>1 DEF OrderInv
<1>4. ASSUME NEW k \in DOMAIN stream'.out, stream'.out[k].event = "block_delta",
             NEW b \in DOMAIN blocks', NEW i \in DOMAIN blocks'[b].parts
      PROVE  blocks'[b].parts[i][2] < stream'.out[k].part
  <2>1. stream'.out[k].part = Len(frames')
    BY <1>4 DEF MessageInv, DeltasOf
  <2>2. blocks'[b].parts[i][2] \in 1..Len(frames)
    BY <1>1, <1>4 DEF OrderInv
  <2> QED
    BY <1>1, <2>1, <2>2
<1> QED
  BY <1>2, <1>3, <1>4 DEF OrderInv

LEMMA OrderEnd ==
    ASSUME Inv, MessageInv, OrderInv, EndOfBody, StreamEnd
    PROVE  OrderInv'
<1>1. PICK u : u = OnEnd(stream)
  OBVIOUS
<1>2. stream' = u /\ UNCHANGED <<blocks, frames>> /\ stream.out = <<>> /\ turn # "ended"
  BY <1>1 DEF StreamEnd, EndOfBody
<1>3. Leads(Client, stream) /\ View(stream) /\ ToolOpen(stream)
  BY <1>2, ReadingLeads DEF MessageInv
<1>4. \A n : DeltasOf(u.out, n)
  BY <1>1, <1>2, <1>3, EndView
<1>5. \A k \in DOMAIN u.out : u.out[k].event # "block_delta"
  <2>1. DeltasOf(u.out, 0) /\ DeltasOf(u.out, 1)
    BY <1>4
  <2> QED
    BY <2>1 DEF DeltasOf
<1>6. \A kind : InOrder(kind)'
  BY <1>2 DEF OrderInv, InOrder
<1> QED
  BY <1>2, <1>5, <1>6 DEF OrderInv

LEMMA OrderSame ==
    ASSUME OrderInv, UNCHANGED <<frames, stream, blocks>>
    PROVE  OrderInv'
<1>1. \A kind : InOrder(kind)'
  BY DEF OrderInv, InOrder
<1> QED
  BY <1>1 DEF OrderInv

(* An event that is no content leaves the content, one that is adds to the *)
(* last block.                                                             *)
LEMMA EmitParts ==
    ASSUME Inv, Emit, NEW e, e = Head(stream.out)
    PROVE  /\ e.event # "block_delta" =>
                  \A b \in DOMAIN blocks' :
                      \/ blocks'[b].parts = <<>>
                      \/ b \in DOMAIN blocks /\ blocks'[b].parts = blocks[b].parts
           /\ e.event = "block_delta" =>
                  LET last == Len(blocks) IN
                  /\ DOMAIN blocks' = DOMAIN blocks /\ last \in DOMAIN blocks
                  /\ blocks'[last].parts = Append(blocks[last].parts, <<e.kind, e.part>>)
                  /\ \A b \in DOMAIN blocks : b # last => blocks'[b] = blocks[b]
                  /\ DOMAIN blocks = 1..last /\ last \in Nat
                  /\ blocks[last].parts \in Seq(DeltaKinds \X (1..MaxFrames))
<1>1. /\ Receive(e) /\ blocks \in Seq(BlockType) /\ Len(blocks) \in Nat
      /\ e.event = "block_delta" \/ e.event = "block_stop" =>
             e.index \in Nat /\ e.index + 1 = Len(blocks) /\ Len(blocks) \in DOMAIN blocks
  BY HeadFits
<1>2. DOMAIN blocks = 1..Len(blocks) /\ \A b \in DOMAIN blocks : blocks[b] \in BlockType
  BY <1>1
<1>3. CASE e.event = "block_start"
  <2> DEFINE c == [index |-> e.index, type |-> e.type, id |-> e.id, open |-> TRUE, parts |-> <<>>]
  <2>1. blocks' = Append(blocks, c)
    BY <1>1, <1>3 DEF Receive
  <2>2. c.parts = <<>>
    OBVIOUS
  <2> HIDE DEF c
  <2>3. /\ DOMAIN blocks' = 1..(Len(blocks) + 1) /\ blocks'[Len(blocks) + 1] = c
        /\ \A i \in 1..Len(blocks) : blocks'[i] = blocks[i]
    BY <1>1, <2>1
  <2>4. \A b \in DOMAIN blocks' : b = Len(blocks) + 1 \/ b \in 1..Len(blocks)
    BY <1>1, <2>3
  <2> QED
    BY <1>2, <1>3, <2>2, <2>3, <2>4
<1>4. CASE e.event = "block_delta"
  <2>1. blocks' = [blocks EXCEPT ![Len(blocks)].parts = Append(@, <<e.kind, e.part>>)]
    BY <1>1, <1>4 DEF Receive, Known
  <2>2. /\ DOMAIN blocks' = DOMAIN blocks
        /\ \A b \in DOMAIN blocks : b # Len(blocks) => blocks'[b] = blocks[b]
    BY <2>1
  <2>3. blocks[Len(blocks)] \in BlockType
    BY <1>1, <1>2, <1>4
  <2>4. blocks'[Len(blocks)].parts = Append(blocks[Len(blocks)].parts, <<e.kind, e.part>>)
    BY <1>1, <1>4, <2>1, <2>3 DEF BlockType
  <2> QED
    BY <1>1, <1>2, <1>4, <2>2, <2>3, <2>4 DEF BlockType
<1>5. CASE e.event = "block_stop"
  <2>1. blocks' = [blocks EXCEPT ![Len(blocks)].open = FALSE]
    BY <1>1, <1>5 DEF Receive, Known
  <2> QED
    BY <1>1, <1>2, <1>5, <2>1 DEF BlockType
<1>6. CASE e.event \notin {"block_start", "block_delta", "block_stop"}
  <2>1. blocks' = blocks
    BY <1>1, <1>6 DEF Receive
  <2> QED
    BY <1>6, <2>1
<1> QED
  BY <1>3, <1>4, <1>5, <1>6

LEMMA OrderEmit ==
    ASSUME Inv, MessageInv, OrderInv, Emit
    PROVE  OrderInv'
<1>1. PICK e : e = Head(stream.out)
  OBVIOUS
<1>2. PICK new : new = Tail(stream.out)
  OBVIOUS
<1>3. /\ stream.out \in Seq(Events) /\ stream.out # <<>> /\ stream \in StreamType
      /\ e = stream.out[1] /\ stream' = [stream EXCEPT !.out = new] /\ UNCHANGED frames
      /\ e.event = "block_delta" => e.kind \in DeltaKinds /\ e.part \in 1..MaxFrames
  BY <1>1, <1>2, HeadFits DEF turnVars
<1>4. stream'.out = new
  BY <1>3 DEF StreamType
<1>5. /\ \A i \in DOMAIN new : i + 1 \in DOMAIN stream.out /\ new[i] = stream.out[i + 1]
      /\ 1 \in DOMAIN stream.out /\ \A i \in DOMAIN new : i \in Nat /\ i + 1 # 1
  BY <1>2, <1>3, OutShrinks
<1>6. \A i \in DOMAIN stream.out : stream.out[i].event = "block_delta" =>
          stream.out[i].part = Len(frames)
  BY DEF MessageInv, DeltasOf
<1>7. CASE e.event # "block_delta"
  <2>1. \A b \in DOMAIN blocks' :
            \/ blocks'[b].parts = <<>>
            \/ b \in DOMAIN blocks /\ blocks'[b].parts = blocks[b].parts
    BY <1>1, <1>7, EmitParts
  <2>2. \A b \in DOMAIN blocks' : \A i \in DOMAIN blocks'[b].parts :
            /\ b \in DOMAIN blocks /\ i \in DOMAIN blocks[b].parts
            /\ blocks'[b].parts[i] = blocks[b].parts[i]
    <3>1. DOMAIN <<>> = {}
      OBVIOUS
    <3> QED
      BY <2>1, <3>1
  <2>3. ASSUME NEW kind PROVE InOrder(kind)'
    <3>1. InOrder(kind)
      BY DEF OrderInv
    <3>2. ASSUME NEW b \in DOMAIN blocks', NEW c \in DOMAIN blocks',
                 NEW i \in DOMAIN blocks'[b].parts, NEW j \in DOMAIN blocks'[c].parts,
                 blocks'[b].parts[i][1] = kind, blocks'[c].parts[j][1] = kind,
                 b < c \/ (b = c /\ i < j)
          PROVE  blocks'[b].parts[i][2] < blocks'[c].parts[j][2]
      <4>1. /\ b \in DOMAIN blocks /\ i \in DOMAIN blocks[b].parts
            /\ blocks'[b].parts[i] = blocks[b].parts[i]
            /\ c \in DOMAIN blocks /\ j \in DOMAIN blocks[c].parts
            /\ blocks'[c].parts[j] = blocks[c].parts[j]
        BY <2>2
      <4> QED
        BY <3>1, <3>2, <4>1 DEF InOrder
    <3> QED
      BY <3>2 DEF InOrder
  <2>4. \A b \in DOMAIN blocks' : \A i \in DOMAIN blocks'[b].parts :
            blocks'[b].parts[i][2] \in 1..Len(frames')
    BY <1>3, <2>2 DEF OrderInv
  <2>5. ASSUME NEW k \in DOMAIN new, new[k].event = "block_delta",
               NEW b \in DOMAIN blocks', NEW i \in DOMAIN blocks'[b].parts,
               blocks'[b].parts[i][1] = new[k].kind
        PROVE  blocks'[b].parts[i][2] < new[k].part
    BY <1>5, <2>2, <2>5 DEF OrderInv
  <2> QED
    BY <1>4, <2>3, <2>4, <2>5 DEF OrderInv
<1>8. CASE e.event = "block_delta"
  <2>1. PICK last : last = Len(blocks)
    OBVIOUS
  <2>2. PICK old : old = blocks[last].parts
    OBVIOUS
  <2>3. PICK longer : longer = Append(old, <<e.kind, e.part>>)
    OBVIOUS
  <2>4. /\ DOMAIN blocks' = DOMAIN blocks /\ last \in DOMAIN blocks
        /\ blocks'[last].parts = longer
        /\ \A b \in DOMAIN blocks : b # last => blocks'[b] = blocks[b]
        /\ DOMAIN blocks = 1..last /\ last \in Nat
        /\ old \in Seq(DeltaKinds \X (1..MaxFrames))
    BY <1>1, <1>8, <2>1, <2>2, <2>3, EmitParts
  <2>5. /\ Len(old) \in Nat /\ DOMAIN old = 1..Len(old) /\ DOMAIN longer = 1..(Len(old) + 1)
        /\ longer[Len(old) + 1] = <<e.kind, e.part>>
        /\ \A j \in 1..Len(old) : longer[j] = old[j]
    BY <1>3, <1>8, <2>3, <2>4
  <2>6. e.part = Len(frames) /\ e.part \in 1..MaxFrames
    BY <1>3, <1>5, <1>6, <1>8
  (* What was there, and the part that is new. *)
  <2>7. ASSUME NEW b \in DOMAIN blocks', NEW i \in DOMAIN blocks'[b].parts
        PROVE  \/ /\ b \in DOMAIN blocks /\ i \in DOMAIN blocks[b].parts
                  /\ blocks'[b].parts[i] = blocks[b].parts[i]
               \/ /\ b = last /\ i = Len(old) + 1
                  /\ blocks'[b].parts[i][1] = e.kind /\ blocks'[b].parts[i][2] = e.part
    <3>1. CASE b = last
      <4>1. i \in 1..Len(old) \/ i = Len(old) + 1
        BY <2>4, <2>5, <2>7, <3>1
      <4> QED
        BY <2>2, <2>4, <2>5, <3>1, <4>1
    <3>2. CASE b # last
      BY <2>4, <2>7, <3>2
    <3> QED
      BY <3>1, <3>2
  <2>8. \A b \in DOMAIN blocks : \A i \in DOMAIN blocks[b].parts :
            blocks[b].parts[i][1] = e.kind => blocks[b].parts[i][2] < e.part
    BY <1>3, <1>5, <1>8 DEF OrderInv
  <2>9. \A b \in DOMAIN blocks : b \in Nat /\ b <= last
    BY <2>4
  <2>10. \A i \in DOMAIN blocks[last].parts : i \in Nat /\ i < Len(old) + 1
    BY <2>2, <2>5
  <2>11. ASSUME NEW kind, NEW b \in DOMAIN blocks', NEW c \in DOMAIN blocks',
                NEW i \in DOMAIN blocks'[b].parts, NEW j \in DOMAIN blocks'[c].parts,
                blocks'[b].parts[i][1] = kind, blocks'[c].parts[j][1] = kind,
                b < c \/ (b = c /\ i < j)
         PROVE  blocks'[b].parts[i][2] < blocks'[c].parts[j][2]
    <3>1. CASE b = last /\ i = Len(old) + 1
      <4>1. b \in DOMAIN blocks /\ c \in DOMAIN blocks /\ c = last
        BY <2>4, <2>9, <2>11, <3>1
      <4>2. j \in 1..Len(old) \/ j = Len(old) + 1
        BY <2>4, <2>5, <2>11, <4>1
      <4> QED
        BY <2>5, <2>11, <3>1, <4>1, <4>2
    <3>2. CASE ~(b = last /\ i = Len(old) + 1)
      <4>1. /\ b \in DOMAIN blocks /\ i \in DOMAIN blocks[b].parts
            /\ blocks'[b].parts[i] = blocks[b].parts[i]
        BY <2>7, <2>11, <3>2
      <4>2. CASE c = last /\ j = Len(old) + 1
        <5>1. blocks'[c].parts[j][1] = e.kind /\ blocks'[c].parts[j][2] = e.part
          BY <2>4, <2>5, <4>2
        <5> QED
          BY <2>8, <2>11, <4>1, <5>1
      <4>3. CASE ~(c = last /\ j = Len(old) + 1)
        <5>1. /\ c \in DOMAIN blocks /\ j \in DOMAIN blocks[c].parts
              /\ blocks'[c].parts[j] = blocks[c].parts[j]
          BY <2>7, <2>11, <4>3
        <5>2. InOrder(kind)
          BY DEF OrderInv
        <5> QED
          BY <2>11, <4>1, <5>1, <5>2 DEF InOrder
      <4> QED
        BY <4>2, <4>3
    <3> QED
      BY <3>1, <3>2
  <2>12. \A b \in DOMAIN blocks' : \A i \in DOMAIN blocks'[b].parts :
             blocks'[b].parts[i][2] \in 1..Len(frames')
    <3>1. e.part \in 1..Len(frames)
      BY <2>6
    <3> QED
      BY <1>3, <2>7, <3>1 DEF OrderInv
  <2>13. ASSUME NEW k \in DOMAIN new, new[k].event = "block_delta",
                NEW b \in DOMAIN blocks', NEW i \in DOMAIN blocks'[b].parts,
                blocks'[b].parts[i][1] = new[k].kind
         PROVE  blocks'[b].parts[i][2] < new[k].part
    <3>1. /\ k + 1 \in DOMAIN stream.out /\ k + 1 # 1 /\ 1 \in DOMAIN stream.out
          /\ new[k] = stream.out[k + 1]
      BY <1>5
    <3>2. new[k].kind # e.kind
      BY <1>3, <1>8, <2>13, <3>1 DEF MessageInv, DeltasOf
    <3>3. /\ b \in DOMAIN blocks /\ i \in DOMAIN blocks[b].parts
          /\ blocks'[b].parts[i] = blocks[b].parts[i]
      BY <2>7, <2>13, <3>2
    <3> QED
      BY <2>13, <3>1, <3>3 DEF OrderInv
  <2>14. \A kind : InOrder(kind)'
    BY <2>11 DEF InOrder
  <2> QED
    BY <1>4, <2>12, <2>13, <2>14 DEF OrderInv
<1> QED
  BY <1>7, <1>8

--------------------------------------------------------------------------------
(* Both clients of the Anthropic endpoint get upstream's last reason. *)

ReasonInv ==
    /\ stream.stopReason = agg.stopReason
    /\ \A i \in DOMAIN stream.out : stream.out[i].event = "message_delta" =>
           stream.out[i].reason = stream.stopReason
    /\ phase \in {"closing", "stopped"} => reason = stream.stopReason

LEMMA ReasonStart == Init /\ AggregateInit => ReasonInv
<1> SUFFICES ASSUME Init, AggregateInit PROVE ReasonInv
  OBVIOUS
<1>1. DOMAIN stream.out = {1} /\ stream.out[1].event = "message_start"
  BY NothingBegun
<1>2. stream.stopReason = agg.stopReason /\ phase = "none"
  BY DEF Init, StreamInit, InitialStream, AggregateInit, InitialAggregate
<1> QED
  BY <1>1, <1>2 DEF ReasonInv

LEMMA ReasonFrame ==
    ASSUME Inv, TurnTypeOK, MessageInv, CollectInv, ReasonInv, NEW f \in Kinds,
           ReadFrame(f), StreamFrame(f), AggregateFrame(f)
    PROVE  ReasonInv'
<1>1. PICK n : n = Len(frames) + 1
  OBVIOUS
<1>2. PICK u : u = OnFrame(stream, f, n)
  OBVIOUS
<1>3. stream' = u /\ UNCHANGED <<phase, reason>> /\ stream.out = <<>> /\ turn # "ended"
  BY <1>1, <1>2 DEF StreamFrame, ReadFrame
<1>4. Leads(Client, stream) /\ n \in 1..MaxFrames /\ View(stream) /\ ToolOpen(stream)
  BY <1>1, <1>3, ReadingLeads, FramesGrow DEF MessageInv
<1>5. \A i \in DOMAIN u.out : u.out[i].event # "message_delta"
  <2>1. Leads(Client, OnFrame(stream, f, n))
    BY <1>4, OnFrameLeads
  <2> QED
    BY <1>2, <2>1, NoReasonWaits
<1>6. agg \in AggregateType /\ stream \in StreamType /\ stream.stopReason = agg.stopReason
  BY DEF CollectInv, Inv, StreamInv, ReasonInv
<1>7. agg' = CASE f.type = "thinking" -> CollectThinking(f, n)
               [] f.type = "text"     -> CollectText(f, n)
               [] f.type = "tool"     -> CollectTool(f, n)
               [] f.type = "metadata" -> CollectMetadata(f)
  BY <1>1 DEF AggregateFrame
<1>8. u.stopReason = agg'.stopReason
  <2>1. CASE f.type \in {"text", "thinking"}
    <3>1. u.stopReason = stream.stopReason
      BY <1>2, <1>3, <1>4, <2>1, ContentEffect
    <3>2. agg'.stopReason = agg.stopReason
      BY <1>6, <1>7, <2>1 DEF CollectThinking, CollectText, AggregateType
    <3> QED
      BY <1>6, <3>1, <3>2
  <2>2. CASE f \in ToolFrames /\ f.type = "tool"
    <3>1. u = OnTool(stream, f, n)
      BY <1>2, <2>2 DEF OnFrame
    <3>2. u.stopReason = stream.stopReason
      BY <1>3, <1>4, <2>2, <3>1, ToolEffect
    <3>3. agg'.stopReason = agg.stopReason
      BY <1>6, <1>7, <2>2 DEF CollectTool, AggregateType
    <3> QED
      BY <1>6, <3>2, <3>3
  <2>3. CASE f.type = "metadata"
    <3>1. u = OnMetadata(stream, f) /\ agg' = CollectMetadata(f)
      BY <1>2, <1>7, <2>3 DEF OnFrame
    <3> QED
      BY <1>6, <3>1 DEF OnMetadata, CollectMetadata, StreamType, AggregateType
  <2> QED
    BY <2>1, <2>2, <2>3, FrameKinds
<1>9. phase \notin {"closing", "stopped"}
  BY <1>3, ClosedAfterBody
<1> QED
  BY <1>3, <1>5, <1>8, <1>9 DEF ReasonInv

LEMMA ReasonEnd ==
    ASSUME Inv, MessageInv, ReasonInv, EndOfBody, StreamEnd, UNCHANGED agg
    PROVE  ReasonInv'
<1>1. PICK u : u = OnEnd(stream)
  OBVIOUS
<1>2. /\ stream' = u /\ UNCHANGED <<phase, reason>> /\ stream.out = <<>> /\ turn # "ended"
  BY <1>1 DEF StreamEnd, EndOfBody
<1>3. Leads(Client, stream) /\ View(stream) /\ ToolOpen(stream)
  BY <1>2, ReadingLeads DEF MessageInv
<1>4. /\ u.stopReason = stream.stopReason
      /\ \A i \in DOMAIN u.out :
             u.out[i].event = "message_delta" => u.out[i].reason = stream.stopReason
  BY <1>1, <1>2, <1>3, EndView
<1>5. phase \notin {"closing", "stopped"}
  BY <1>2, ClosedAfterBody
<1> QED
  BY <1>2, <1>4, <1>5 DEF ReasonInv

LEMMA ReasonSame ==
    ASSUME ReasonInv, UNCHANGED <<stream, phase, reason, agg>>
    PROVE  ReasonInv'
BY DEF ReasonInv

LEMMA ReasonEmit ==
    ASSUME Inv, ReasonInv, Emit, UNCHANGED agg
    PROVE  ReasonInv'
<1>1. PICK e : e = Head(stream.out)
  OBVIOUS
<1>2. /\ stream.out \in Seq(Events) /\ stream.out # <<>> /\ stream \in StreamType
      /\ e = stream.out[1] /\ stream' = [stream EXCEPT !.out = Tail(stream.out)]
      /\ Receive(e) /\ e \in Events
      /\ e.event = "message_delta" => phase = "open"
      /\ e.event = "message_stop" => phase = "closing"
      /\ e.event = "block_delta" \/ e.event = "block_stop" =>
             e.index \in Nat /\ e.index + 1 = Len(blocks) /\ Len(blocks) \in DOMAIN blocks
  BY <1>1, HeadFits
<1>3. stream'.out = Tail(stream.out) /\ stream'.stopReason = stream.stopReason
  BY <1>2 DEF StreamType
<1>4. /\ \A i \in DOMAIN Tail(stream.out) :
             i + 1 \in DOMAIN stream.out /\ Tail(stream.out)[i] = stream.out[i + 1]
      /\ 1 \in DOMAIN stream.out
  BY <1>2, OutShrinks
<1>5. \A i \in DOMAIN stream'.out : stream'.out[i].event = "message_delta" =>
          stream'.out[i].reason = stream'.stopReason
  BY <1>3, <1>4 DEF ReasonInv
<1>6. phase' \in {"closing", "stopped"} => reason' = stream.stopReason
  <2>1. e.event \in {"message_start", "block_start", "block_delta", "block_stop",
                     "message_delta", "message_stop"}
    BY <1>2 DEF Events, StartEvents, DeltaEvents, StopEvents, ReasonEvents, FrameEvents
  <2>2. CASE e.event \in {"message_start", "block_start", "message_stop"}
    BY <1>2, <2>2 DEF Receive, ReasonInv
  <2>3. CASE e.event \in {"block_delta", "block_stop"}
    <3>1. Known(e.index)
      BY <1>2, <2>3 DEF Known
    <3> QED
      BY <1>2, <2>3, <3>1 DEF Receive, ReasonInv
  <2>4. CASE e.event = "message_delta"
    <3>1. reason' = e.reason
      BY <1>2, <2>4 DEF Receive
    <3> QED
      BY <1>2, <1>4, <2>4, <3>1 DEF ReasonInv
  <2> QED
    BY <2>1, <2>2, <2>3, <2>4
<1> QED
  BY <1>3, <1>5, <1>6 DEF ReasonInv

--------------------------------------------------------------------------------
(* When upstream gives a tool's frames together, the message has a block   *)
(* for every tool, in the order of the calls and with all the input.       *)

(* Frame m is of a tool that may go on: no content, no other tool and no   *)
(* stop has come since.                                                    *)
Going(m) ==
    /\ m \in DOMAIN frames /\ frames[m].type = "tool"
    /\ \A k \in m..Len(frames) :
           /\ ~IsContent(frames[k])
           /\ frames[k].type = "tool" => frames[k].id = frames[m].id /\ ~frames[k].stop

Whole ==
    /\ \A t \in Tools : Called(t) => \E x \in Nat : Begun(stream, x, "tool", t)
    /\ \A x, y \in Nat, i, j \in DOMAIN agg.toolOrder :
           /\ Begun(stream, x, "tool", agg.toolOrder[i])
           /\ Begun(stream, y, "tool", agg.toolOrder[j])
           => (x < y <=> i < j)
    /\ \A x \in Nat, t \in Tools : Begun(stream, x, "tool", t) =>
           \A p : Put(stream, x, "input", p) <=> p \in Inputs(t)

TogetherInv ==
    Together => /\ Whole
                /\ turn = "reading" => \A m : Going(m) =>
                       stream.openType = "tool" /\ stream.curToolID = frames[m].id

(* What holds of a turn holds of its beginning; a tool that comes again    *)
(* has been going on.                                                      *)
LEMMA TogetherBefore ==
    ASSUME TurnTypeOK, NEW f \in Kinds, ReadFrame(f), Together'
    PROVE  /\ Together
           /\ f.type = "tool" => f.id # None
           /\ f.type = "tool" /\ Called(f.id) =>
                  \E m : Going(m) /\ frames[m].id = f.id
           /\ \A m : Going(m)' => /\ ~IsContent(f)
                                  /\ m \in DOMAIN frames /\ f.type # "tool" => Going(m)
                                  /\ m \notin DOMAIN frames => f.type = "tool"
                                  /\ f.type = "tool" => frames'[m].id = f.id /\ ~f.stop
                                  /\ m \in DOMAIN frames => frames'[m] = frames[m]
<1>1. PICK n : n = Len(frames) + 1
  OBVIOUS
<1>2. /\ n \in Nat /\ n >= 1 /\ DOMAIN frames = 1..(n - 1) /\ DOMAIN frames' = 1..n
      /\ Len(frames) = n - 1 /\ Len(frames') = n
      /\ frames'[n] = f /\ \A i \in 1..(n - 1) : frames'[i] = frames[i]
  BY <1>1, FramesGrow
<1>3. \A i \in DOMAIN frames : i \in DOMAIN frames' /\ frames'[i] = frames[i]
  BY <1>2
<1>4. Together
  <2>1. \A i \in DOMAIN frames : frames[i].type = "tool" => frames[i].id # None
    BY <1>3 DEF Together
  <2>2. ASSUME NEW i \in DOMAIN frames, NEW j \in DOMAIN frames, i < j,
               frames[i].type = "tool", frames[j].type = "tool", frames[i].id = frames[j].id
        PROVE  /\ \A k \in i..j : ~IsContent(frames[k])
               /\ \A k \in i..j : frames[k].type = "tool" =>
                      frames[k].id = frames[i].id /\ (k < j => ~frames[k].stop)
    <3>1. \A k \in i..j : frames'[k] = frames[k]
      BY <1>2
    <3>2. /\ \A k \in i..j : ~IsContent(frames'[k])
          /\ \A k \in i..j : frames'[k].type = "tool" =>
                 frames'[k].id = frames'[i].id /\ (k < j => ~frames'[k].stop)
      BY <1>3, <2>2 DEF Together
    <3> QED
      BY <1>3, <3>1, <3>2
  <2> QED
    BY <2>1, <2>2 DEF Together
<1>5. f.type = "tool" => f.id # None
  <2>1. n \in DOMAIN frames'
    BY <1>2
  <2> QED
    BY <1>2, <2>1 DEF Together
<1>6. ASSUME f.type = "tool", Called(f.id) PROVE \E m : Going(m) /\ frames[m].id = f.id
  <2>1. PICK m \in DOMAIN frames : frames[m].type = "tool" /\ frames[m].id = f.id
    BY <1>6 DEF Called, IsTool
  <2>2. m \in 1..(n - 1) /\ frames'[m] = frames[m] /\ m \in DOMAIN frames' /\ n \in DOMAIN frames'
    BY <1>2
  <2>3. /\ \A k \in m..n : ~IsContent(frames'[k])
        /\ \A k \in m..n : frames'[k].type = "tool" =>
               frames'[k].id = frames'[m].id /\ (k < n => ~frames'[k].stop)
    <3>1. m < n /\ frames'[n].type = "tool" /\ frames'[m].id = frames'[n].id /\ frames'[m].type = "tool"
      BY <1>2, <1>6, <2>1, <2>2
    <3> QED
      BY <2>2, <3>1 DEF Together
  <2>4. \A k \in m..(n - 1) : k \in m..n /\ k < n /\ frames'[k] = frames[k]
    BY <1>2, <2>2
  <2>5. Going(m)
    BY <1>2, <2>1, <2>2, <2>3, <2>4 DEF Going
  <2> QED
    BY <2>1, <2>5
<1>7. ASSUME NEW m, Going(m)'
      PROVE  /\ ~IsContent(f)
             /\ m \in DOMAIN frames /\ f.type # "tool" => Going(m)
             /\ m \notin DOMAIN frames => f.type = "tool"
             /\ f.type = "tool" => frames'[m].id = f.id /\ ~f.stop
             /\ m \in DOMAIN frames => frames'[m] = frames[m]
  <2>1. /\ m \in 1..n /\ frames'[m].type = "tool"
        /\ \A k \in m..n :
               /\ ~IsContent(frames'[k])
               /\ frames'[k].type = "tool" => frames'[k].id = frames'[m].id /\ ~frames'[k].stop
    BY <1>2, <1>7 DEF Going
  <2>2. n \in m..n
    BY <1>2, <2>1
  <2>3. ASSUME m \in DOMAIN frames PROVE Going(m)
    <3>1. \A k \in m..(n - 1) : k \in m..n /\ frames'[k] = frames[k]
      BY <1>2, <2>3
    <3>2. frames'[m] = frames[m]
      BY <1>3, <2>3
    <3> QED
      BY <1>2, <2>1, <2>3, <3>1, <3>2 DEF Going
  <2>4. m \notin DOMAIN frames => m = n
    BY <1>2, <2>1
  <2> QED
    BY <1>2, <1>3, <2>1, <2>2, <2>3, <2>4
<1> QED
  BY <1>4, <1>5, <1>6, <1>7

LEMMA TogetherStart == Init /\ AggregateInit => TogetherInv
<1> SUFFICES ASSUME Init, AggregateInit PROVE TogetherInv
  OBVIOUS
<1>1. /\ \A x \in Nat : \A t, i : ~Begun(stream, x, t, i)
      /\ frames = <<>> /\ DOMAIN <<>> = {}
  BY NothingBegun DEF Init, TurnInit
<1>2. \A t : ~Called(t)
  BY <1>1 DEF Called
<1> QED
  BY <1>1, <1>2 DEF TogetherInv, Whole, Going

LEMMA TogetherStays ==
    ASSUME TogetherInv, UNCHANGED <<frames, agg>>,
           \A x \in Nat : \A t, i : Begun(stream, x, t, i)' <=> Begun(stream, x, t, i),
           \A x \in Nat : \A k, p : Put(stream, x, k, p)' <=> Put(stream, x, k, p),
           \/ turn' # "reading"
           \/ /\ UNCHANGED turn
              /\ stream'.openType = stream.openType /\ stream'.curToolID = stream.curToolID
    PROVE  TogetherInv'
<1>1. /\ \A t : Called(t)' <=> Called(t)
      /\ \A t : Inputs(t)' = Inputs(t)
      /\ \A m : Going(m)' <=> Going(m)
      /\ Together' <=> Together
  BY DEF Called, Inputs, IsTool, Going, Together, IsContent
<1>2. Whole' <=> Whole
  BY <1>1 DEF Whole
<1> QED
  BY <1>1, <1>2 DEF TogetherInv

(* The order of the calls gets a tool with its first frame.                *)
LEMMA OrderOfCalls ==
    ASSUME CollectInv, NEW f \in Kinds, AggregateFrame(f)
    PROVE  /\ agg'.toolOrder = IF f.type = "tool" /\ f.id # None /\ ~Called(f.id)
                               THEN Append(agg.toolOrder, f.id) ELSE agg.toolOrder
           /\ agg.toolOrder \in Seq(Tools)
           /\ \A t \in Tools : Called(t) <=> \E i \in DOMAIN agg.toolOrder : agg.toolOrder[i] = t
           /\ \A i, j \in DOMAIN agg.toolOrder : agg.toolOrder[i] = agg.toolOrder[j] => i = j
<1>1. agg \in AggregateType /\ agg.toolOrder \in Seq(Tools)
  BY DEF CollectInv, AggregateType
<1>2. \A t \in Tools : Called(t) <=> \E i \in DOMAIN agg.toolOrder : agg.toolOrder[i] = t
  BY DEF CollectInv, Seen
<1>3. agg'.toolOrder = IF f.type = "tool" /\ f.id # None /\ ~Called(f.id)
                       THEN Append(agg.toolOrder, f.id) ELSE agg.toolOrder
  <2>1. CASE f.type \in {"thinking", "text", "metadata"}
    BY <1>1, <2>1 DEF AggregateFrame, CollectThinking, CollectText, CollectMetadata, AggregateType
  <2>2. CASE f.type = "tool" /\ f.id = None
    BY <1>1, <2>2 DEF AggregateFrame, CollectTool
  <2>3. CASE f.type = "tool" /\ f.id \in Tools
    <3>1. Seen(f.id) <=> Called(f.id)
      BY <2>3 DEF CollectInv
    <3>2. f.id # None
      BY <2>3, Distinct
    <3>3. agg' = CollectTool(f, Len(frames) + 1)
      BY <2>3 DEF AggregateFrame
    <3> QED
      BY <1>1, <2>3, <3>1, <3>2, <3>3 DEF CollectTool, AggregateType
  <2> QED
    BY <2>1, <2>2, <2>3, FrameKinds
<1> QED
  BY <1>1, <1>2, <1>3 DEF CollectInv

(* A frame of no tool: the blocks of the tools are what they were.         *)
LEMMA TogetherOtherFrame ==
    ASSUME Inv, TurnTypeOK, MessageInv, CollectInv, TogetherInv, NEW f \in Kinds,
           ReadFrame(f), StreamFrame(f), AggregateFrame(f), f.type # "tool"
    PROVE  TogetherInv'
<1> SUFFICES ASSUME Together' PROVE Whole' /\ \A m : Going(m)' =>
                   stream'.openType = "tool" /\ stream'.curToolID = frames'[m].id
  BY DEF TogetherInv
<1>1. PICK n : n = Len(frames) + 1
  OBVIOUS
<1>2. PICK u : u = OnFrame(stream, f, n)
  OBVIOUS
<1>3. stream' = u /\ UNCHANGED blocks /\ stream.out = <<>> /\ turn = "reading"
  BY <1>1, <1>2 DEF StreamFrame, ReadFrame
<1>4. Leads(Client, stream) /\ n \in 1..MaxFrames /\ View(stream) /\ ToolOpen(stream)
  BY <1>1, <1>3, ReadingLeads, FramesGrow DEF MessageInv
<1>5. /\ Together /\ \A m : Going(m)' => /\ ~IsContent(f)
                                         /\ Going(m) /\ frames'[m] = frames[m]
  BY TogetherBefore
<1>6. Whole /\ \A m : Going(m) => stream.openType = "tool" /\ stream.curToolID = frames[m].id
  BY <1>3, <1>5 DEF TogetherInv
<1>7. /\ \A x, p : Put(u, x, "input", p) <=> Put(stream, x, "input", p)
      /\ \A x, i : Begun(u, x, "tool", i) <=> Begun(stream, x, "tool", i)
      /\ u.curToolID = stream.curToolID
      /\ ~IsContent(f) => u.openType = stream.openType
  <2>1. CASE f.type \in {"text", "thinking"}
    BY <1>2, <1>3, <1>4, <2>1, ContentEffect DEF IsContent
  <2>2. CASE f.type = "metadata"
    <3>1. u = OnMetadata(stream, f) /\ stream \in StreamType
      BY <1>2, <2>2 DEF OnFrame, Inv, StreamInv
    <3>2. u.out = stream.out /\ u.openType = stream.openType /\ u.curToolID = stream.curToolID
      BY <3>1 DEF OnMetadata, StreamType
    <3> QED
      BY <3>2 DEF Begun, Put
  <2> QED
    BY <2>1, <2>2, FrameKinds
<1>8. /\ \A x : \A i : Begun(stream, x, "tool", i)' <=> Begun(stream, x, "tool", i)
      /\ \A x : \A p : Put(stream, x, "input", p)' <=> Put(stream, x, "input", p)
  BY <1>3, <1>7, ViewFollows
<1>9. agg'.toolOrder = agg.toolOrder
  BY OrderOfCalls
<1>10. /\ \A t : Called(t)' <=> Called(t)
       /\ \A t : Inputs(t)' = Inputs(t)
  BY AskedGrows
<1>11. Whole'
  BY <1>6, <1>8, <1>9, <1>10 DEF Whole
<1> QED
  BY <1>3, <1>5, <1>6, <1>7, <1>11

(* The block of a tool that was called is the only one it has.             *)
LEMMA OneBlock ==
    ASSUME Whole, NEW t, \E i \in DOMAIN agg.toolOrder : agg.toolOrder[i] = t,
           agg.toolOrder \in Seq(Tools),
           NEW x \in Nat, NEW y \in Nat, Begun(stream, x, "tool", t), Begun(stream, y, "tool", t)
    PROVE  x = y
<1>1. PICK i \in DOMAIN agg.toolOrder : agg.toolOrder[i] = t
  OBVIOUS
<1>2. i \in Nat
  BY <1>1
<1>3. (x < y <=> i < i) /\ (y < x <=> i < i)
  BY <1>1 DEF Whole
<1> QED
  BY <1>2, <1>3

(* A tool's first frame begins its block, after those of the tools before; *)
(* its next ones find the block open.                                      *)
LEMMA TogetherToolFrame ==
    ASSUME Inv, TurnTypeOK, MessageInv, CollectInv, TogetherInv, NEW f \in Kinds,
           ReadFrame(f), StreamFrame(f), AggregateFrame(f), f \in ToolFrames, f.type = "tool"
    PROVE  TogetherInv'
<1> SUFFICES ASSUME Together' PROVE Whole' /\ \A m : Going(m)' =>
                   stream'.openType = "tool" /\ stream'.curToolID = frames'[m].id
  BY DEF TogetherInv
<1>1. PICK n : n = Len(frames) + 1
  OBVIOUS
<1>2. PICK u : u = OnFrame(stream, f, n)
  OBVIOUS
<1>3. /\ stream' = u /\ UNCHANGED blocks /\ stream.out = <<>> /\ turn = "reading"
      /\ u = OnTool(stream, f, n)
  BY <1>1, <1>2 DEF StreamFrame, ReadFrame, OnFrame
<1>4. Leads(Client, stream) /\ n \in 1..MaxFrames /\ View(stream) /\ ToolOpen(stream)
  BY <1>1, <1>3, ReadingLeads, FramesGrow DEF MessageInv
<1>5. /\ Together /\ f.id # None
      /\ Called(f.id) => \E m : Going(m) /\ frames[m].id = f.id
      /\ \A m : Going(m)' => frames'[m].id = f.id /\ ~f.stop
  BY TogetherBefore
<1>6. PICK t : t = f.id
  OBVIOUS
<1>7. t \in Tools /\ t # None
  BY <1>5, <1>6 DEF ToolFrames
<1>8. Whole /\ \A m : Going(m) => stream.openType = "tool" /\ stream.curToolID = frames[m].id
  BY <1>3, <1>5 DEF TogetherInv
<1>9. /\ agg'.toolOrder = IF ~Called(t) THEN Append(agg.toolOrder, t) ELSE agg.toolOrder
      /\ agg.toolOrder \in Seq(Tools)
      /\ \A o \in Tools : Called(o) <=> \E i \in DOMAIN agg.toolOrder : agg.toolOrder[i] = o
      /\ \A i, j \in DOMAIN agg.toolOrder : agg.toolOrder[i] = agg.toolOrder[j] => i = j
  BY <1>5, <1>6, OrderOfCalls
<1>10. /\ \A o : Called(o)' <=> Called(o) \/ o = t
       /\ \A o : Inputs(o)' = IF o = t /\ f.input THEN Inputs(o) \cup {n} ELSE Inputs(o)
  BY <1>1, <1>6, AskedGrows
<1>11. /\ \A x, i : Begun(stream, x, "tool", i)' <=> Begun(u, x, "tool", i)
       /\ \A x, p : Put(stream, x, "input", p)' <=> Put(u, x, "input", p)
  BY <1>3, ViewFollows
<1>12. \A x \in Nat : \A i : Begun(stream, x, "tool", i) => i \in Tools /\ Called(i) /\ x < stream.nextIndex
  BY <1>4 DEF MessageInv, View
<1>13. CASE Called(t)
  <2>1. stream.openType = "tool" /\ stream.curToolID = t
    BY <1>5, <1>6, <1>8, <1>13
  <2>2. PICK y : y = stream.openIndex
    OBVIOUS
  <2>3. y \in Nat /\ Begun(stream, y, "tool", t)
    BY <1>4, <1>7, <2>1, <2>2, NoneAssumption, OpenIndexKnown DEF ToolOpen
  <2>4. /\ \A x, i : Begun(u, x, "tool", i) <=> Begun(stream, x, "tool", i)
        /\ \A x, p : Put(u, x, "input", p) <=>
               Put(stream, x, "input", p) \/ (f.input /\ x = y /\ p = n)
        /\ ~f.stop => u.openType = "tool" /\ u.curToolID = t
    BY <1>3, <1>4, <1>6, <2>1, <2>2, ToolEffect
  <2>5. \A o : Called(o)' <=> Called(o)
    BY <1>10, <1>13
  <2>6. ASSUME NEW x \in Nat, NEW o \in Tools, Begun(stream, x, "tool", o), NEW p
        PROVE  Put(u, x, "input", p) <=> p \in Inputs(o)'
    <3>1. Put(stream, x, "input", p) <=> p \in Inputs(o)
      BY <1>8, <2>6 DEF Whole
    <3>2. x = y <=> o = t
      <4>1. x = y => o = t
        BY <1>4, <2>3, <2>6 DEF View
      <4>2. o = t => x = y
        BY <1>8, <1>9, <1>7, <1>13, <2>3, <2>6, OneBlock
      <4> QED
        BY <4>1, <4>2
    <3> QED
      BY <1>10, <2>4, <3>1, <3>2
  <2>7. Whole'
    <3>1. agg'.toolOrder = agg.toolOrder
      BY <1>9, <1>13
    <3> QED
      BY <1>8, <1>11, <2>4, <2>5, <2>6, <3>1 DEF Whole
  <2> QED
    BY <1>3, <1>5, <1>6, <2>4, <2>7
<1>14. CASE ~Called(t)
  <2>1. PICK y : y = stream.nextIndex
    OBVIOUS
  <2>2. stream.curToolID # t
    <3> SUFFICES ASSUME stream.curToolID = t PROVE FALSE
      OBVIOUS
    <3>1. About(Len(frames), t)
      BY <1>7 DEF MessageInv
    <3>2. PICK k \in 1..Len(frames) : Names(frames[k], t)
      BY <3>1 DEF About
    <3> QED
      BY <1>14, <3>2, FramesGrow DEF Names, Called, IsTool
  <2>3. f.id \notin {None, stream.curToolID}
    BY <1>6, <1>7, <2>2
  <2>4. /\ \A x, i : Begun(u, x, "tool", i) <=>
               Begun(stream, x, "tool", i) \/ (x = y /\ i = t)
        /\ \A x, p : Put(u, x, "input", p) <=>
               Put(stream, x, "input", p) \/ (f.input /\ x = y /\ p = n)
        /\ ~f.stop => u.openType = "tool" /\ u.curToolID = t
        /\ y \in Nat
    BY <1>3, <1>4, <1>6, <2>1, <2>3, ToolEffect
  <2>5. \A x \in Nat : \A i : Begun(stream, x, "tool", i) => x < y /\ i # t
    BY <1>12, <1>14, <2>1
  <2>6. PICK order : order = agg.toolOrder
    OBVIOUS
  <2>7. PICK longer : longer = Append(order, t)
    OBVIOUS
  <2>8. /\ agg'.toolOrder = longer /\ Len(order) \in Nat
        /\ DOMAIN order = 1..Len(order) /\ DOMAIN longer = 1..(Len(order) + 1)
        /\ longer[Len(order) + 1] = t /\ \A i \in 1..Len(order) : longer[i] = order[i]
    BY <1>7, <1>9, <1>14, <2>6, <2>7
  <2>9. \A i \in DOMAIN order : order[i] # t
    BY <1>7, <1>9, <1>14, <2>6
  (* The block and the place of a tool are both new or both old. *)
  <2>10. ASSUME NEW x \in Nat, NEW i \in DOMAIN longer, Begun(u, x, "tool", longer[i])
         PROVE  \/ x = y /\ i = Len(order) + 1
                \/ /\ x < y /\ i \in DOMAIN order /\ longer[i] = order[i]
                   /\ Begun(stream, x, "tool", order[i])
    <3>1. CASE i = Len(order) + 1
      BY <2>4, <2>5, <2>8, <2>10, <3>1
    <3>2. CASE i # Len(order) + 1
      <4>1. i \in DOMAIN order /\ longer[i] = order[i]
        BY <2>8, <3>2
      <4> QED
        BY <2>4, <2>5, <2>9, <2>10, <4>1
    <3> QED
      BY <3>1, <3>2
  <2>11. ASSUME NEW x \in Nat, NEW z \in Nat, NEW i \in DOMAIN longer, NEW j \in DOMAIN longer,
                Begun(u, x, "tool", longer[i]), Begun(u, z, "tool", longer[j])
         PROVE  x < z <=> i < j
    <3>1. \/ x = y /\ i = Len(order) + 1
          \/ /\ x < y /\ i \in DOMAIN order /\ longer[i] = order[i]
             /\ Begun(stream, x, "tool", order[i])
      BY <2>10, <2>11
    <3>2. \/ z = y /\ j = Len(order) + 1
          \/ /\ z < y /\ j \in DOMAIN order /\ longer[j] = order[j]
             /\ Begun(stream, z, "tool", order[j])
      BY <2>10, <2>11
    <3>3. CASE i \in DOMAIN order /\ j \in DOMAIN order
      <4>1. Begun(stream, x, "tool", order[i]) /\ Begun(stream, z, "tool", order[j])
        BY <2>8, <3>1, <3>2, <3>3
      <4> QED
        BY <1>8, <2>6, <3>3, <4>1 DEF Whole
    <3>4. CASE i \notin DOMAIN order \/ j \notin DOMAIN order
      BY <2>4, <2>8, <3>1, <3>2, <3>4
    <3> QED
      BY <3>3, <3>4
  <2>12. ASSUME NEW x \in Nat, NEW o \in Tools, Begun(u, x, "tool", o), NEW p
         PROVE  Put(u, x, "input", p) <=> p \in Inputs(o)'
    <3>1. CASE x = y /\ o = t
      <4>1. ~Put(stream, y, "input", p)
        <5>1. Put(stream, y, "input", p) => \E i : Begun(stream, y, "tool", i)
          BY <1>4, <2>4 DEF View, BlockOf
        <5> QED
          BY <2>4, <2>5, <5>1
      <4>2. p \notin Inputs(t)
        BY <1>14 DEF Inputs, Called
      <4> QED
        BY <1>10, <2>4, <3>1, <4>1, <4>2
    <3>2. CASE Begun(stream, x, "tool", o)
      <4>1. x < y /\ o # t
        BY <2>5, <3>2
      <4>2. Put(stream, x, "input", p) <=> p \in Inputs(o)
        BY <1>8, <2>12, <3>2 DEF Whole
      <4> QED
        BY <1>10, <2>4, <4>1, <4>2
    <3> QED
      BY <2>4, <2>12, <3>1, <3>2
  <2>13. ASSUME NEW o \in Tools, Called(o)' PROVE \E x \in Nat : Begun(u, x, "tool", o)
    <3>1. CASE o = t
      BY <2>4, <3>1
    <3>2. CASE Called(o)
      BY <1>8, <2>4, <3>2 DEF Whole
    <3> QED
      BY <1>10, <2>13, <3>1, <3>2
  <2>14. Whole'
    BY <1>11, <2>8, <2>11, <2>12, <2>13 DEF Whole
  <2> QED
    BY <1>3, <1>5, <1>6, <2>4, <2>14
<1> QED
  BY <1>13, <1>14

--------------------------------------------------------------------------------
(* The tool calls of aggregateAnthropic's answer, once there is one: the   *)
(* tools collected, each with its input if that is a document.             *)

UsesInv ==
    turn = "ended" =>
        /\ DOMAIN toolUses = DOMAIN agg.toolOrder
        /\ \A i \in DOMAIN toolUses :
               /\ toolUses[i].id = agg.toolOrder[i]
               /\ toolUses[i].input = IF toolUses[i].id \in complete THEN agg.input[toolUses[i].id]
                                     ELSE EmptyObject

LEMMA UsesAnswered ==
    ASSUME AggregateEnd
    PROVE  UsesInv' /\ agg' = agg
<1>1. PICK order, input, valid : order = agg.toolOrder /\ input = agg.input /\ valid = complete'
  OBVIOUS
<1>2. /\ agg' = agg
      /\ toolUses' = [i \in DOMAIN order |->
            [id |-> order[i], input |-> IF order[i] \in valid THEN input[order[i]] ELSE EmptyObject]]
  BY <1>1 DEF AggregateEnd
<1> QED
  BY <1>1, <1>2 DEF UsesInv

LEMMA UsesSame ==
    ASSUME UsesInv, turn' # "ended" \/ UNCHANGED <<turn, aggVars>>
    PROVE  UsesInv'
BY DEF UsesInv, aggVars

--------------------------------------------------------------------------------
(* All of it together. *)

TranslatedInv ==
    /\ Inv /\ TurnTypeOK
    /\ MessageInv /\ OrderInv /\ TogetherInv
    /\ CollectInv /\ CallsInv /\ ReasonInv /\ UsesInv

LEMMA TranslatedStart == TranslatedInit => TranslatedInv
<1> SUFFICES ASSUME TranslatedInit PROVE TranslatedInv
  OBVIOUS
<1>1. Init /\ OpenAIInit /\ AggregateInit /\ TurnInit
  BY DEF TranslatedInit, Init
<1>2. TurnTypeOK /\ UsesInv
  BY <1>1, MaxFramesAssumption DEF TurnInit, TurnTypeOK, UsesInv
<1> QED
  BY <1>1, <1>2, InitHolds, MessageStart, OrderStart, TogetherStart, CollectStart, CallsStart,
     ReasonStart DEF TranslatedInv

LEMMA TranslatedFrame ==
    ASSUME TranslatedInv, NEW f \in Kinds, Frame(f)
    PROVE  TranslatedInv'
<1> USE DEF TranslatedInv
<1>1. ReadFrame(f) /\ StreamFrame(f) /\ OpenAIFrame(f) /\ AggregateFrame(f)
  BY DEF Frame
<1>2. Inv' /\ TurnTypeOK'
  BY <1>1, FrameStep, FramesGrow
<1>3. MessageInv'
  BY <1>1, MessageFrame
<1>4. OrderInv'
  BY <1>1, <1>3, OrderFrame
<1>5. TogetherInv'
  <2>1. f.type # "tool" \/ (f \in ToolFrames /\ f.type = "tool")
    BY FrameKinds
  <2> QED
    BY <1>1, <2>1, TogetherOtherFrame, TogetherToolFrame
<1>6. CollectInv' /\ CallsInv'
  BY <1>1, CollectStep, CallsStep
<1>7. ReasonInv'
  BY <1>1, ReasonFrame
<1>8. UsesInv'
  BY <1>1, UsesSame DEF ReadFrame
<1> QED
  BY <1>2, <1>3, <1>4, <1>5, <1>6, <1>7, <1>8

LEMMA TranslatedFinish ==
    ASSUME TranslatedInv, Finish
    PROVE  TranslatedInv'
<1> USE DEF TranslatedInv
<1>1. /\ EndOfBody /\ StreamEnd /\ OpenAIEnd /\ UNCHANGED <<agg, frames, blocks>>
      /\ turn' # "reading" /\ UsesInv'
  BY UsesAnswered DEF Finish, EndOfBody, StreamEnd
<1>2. Inv' /\ TurnTypeOK'
  BY <1>1, EndStep DEF TurnTypeOK, EndOfBody
<1>3. /\ MessageInv'
      /\ \A x \in Nat : \A t, i : Begun(stream, x, t, i)' <=> Begun(stream, x, t, i)
      /\ \A x \in Nat : \A k, p : Put(stream, x, k, p)' <=> Put(stream, x, k, p)
  BY <1>1, MessageEnd
<1>4. OrderInv'
  BY <1>1, OrderEnd
<1>5. TogetherInv'
  BY <1>1, <1>3, TogetherStays
<1>6. CollectInv' /\ CallsInv'
  BY <1>1, CollectSame, CallsFinish
<1>7. ReasonInv' /\ UsesInv'
  BY <1>1, ReasonEnd
<1> QED
  BY <1>2, <1>3, <1>4, <1>5, <1>6, <1>7

LEMMA TranslatedPanic ==
    ASSUME TranslatedInv, Panic
    PROVE  TranslatedInv'
<1> USE DEF TranslatedInv
<1>1. /\ Overrun /\ StreamAbort /\ turn' = "aborted"
      /\ UNCHANGED <<frames, stream, phase, blocks, reason, call, completion, agg>>
  BY DEF Panic, Overrun, StreamAbort, streamVars, aggVars
<1>2. Inv' /\ TurnTypeOK'
  BY <1>1, AbortStep DEF TurnTypeOK
<1>3. /\ MessageInv'
      /\ \A x \in Nat : \A t, i : Begun(stream, x, t, i)' <=> Begun(stream, x, t, i)
      /\ \A x \in Nat : \A k, p : Put(stream, x, k, p)' <=> Put(stream, x, k, p)
  BY <1>1, MessageSame
<1>4. OrderInv' /\ CollectInv' /\ CallsInv' /\ ReasonInv' /\ UsesInv'
  BY <1>1, OrderSame, CollectSame, CallsSame, ReasonSame, UsesSame
<1>5. TogetherInv'
  BY <1>1, <1>3, TogetherStays
<1> QED
  BY <1>2, <1>3, <1>4, <1>5

LEMMA TranslatedWrite ==
    ASSUME TranslatedInv, Write
    PROVE  TranslatedInv'
<1> USE DEF TranslatedInv
<1>1. Emit /\ UNCHANGED <<frames, turn, call, completion, agg, aggVars>>
  BY DEF Write, Emit, turnVars, aggVars
<1>2. Inv' /\ TurnTypeOK'
  BY <1>1, EmitStep DEF TurnTypeOK
<1>3. MessageInv' /\ OrderInv'
  BY <1>1, MessageEmit, OrderEmit
<1>4. /\ \A x \in Nat : \A t, i : Begun(stream, x, t, i)' <=> Begun(stream, x, t, i)
      /\ \A x \in Nat : \A k, p : Put(stream, x, k, p)' <=> Put(stream, x, k, p)
  BY <1>1, EmitView
<1>5. TogetherInv'
  <2>1. stream'.openType = stream.openType /\ stream'.curToolID = stream.curToolID
    BY <1>1, HeadFits DEF StreamType
  <2> QED
    BY <1>1, <1>4, <2>1, TogetherStays
<1>6. CollectInv' /\ CallsInv' /\ ReasonInv' /\ UsesInv'
  BY <1>1, CollectSame, CallsSame, ReasonEmit, UsesSame
<1> QED
  BY <1>2, <1>3, <1>5, <1>6

LEMMA TranslatedStep ==
    ASSUME TranslatedInv, [TranslatedNext]_turnVariables
    PROVE  TranslatedInv'
<1>1. CASE UNCHANGED turnVariables
  <2> USE DEF TranslatedInv
  <2>1. UNCHANGED <<frames, turn, stream, phase, blocks, reason, call, completion, agg, aggVars>>
    BY <1>1 DEF turnVariables, aggVars
  <2>2. Inv' /\ TurnTypeOK'
    <3>1. UNCHANGED vars
      BY <2>1 DEF vars
    <3> QED
      BY <2>1, <3>1, StepHolds DEF TurnTypeOK
  <2>3. /\ MessageInv'
        /\ \A x \in Nat : \A t, i : Begun(stream, x, t, i)' <=> Begun(stream, x, t, i)
        /\ \A x \in Nat : \A k, p : Put(stream, x, k, p)' <=> Put(stream, x, k, p)
    BY <2>1, MessageSame
  <2>4. OrderInv' /\ CollectInv' /\ CallsInv' /\ ReasonInv' /\ UsesInv'
    BY <2>1, OrderSame, CollectSame, CallsSame, ReasonSame, UsesSame
  <2>5. TogetherInv'
    BY <2>1, <2>3, TogetherStays
  <2> QED
    BY <2>2, <2>3, <2>4, <2>5
<1> QED
  BY <1>1, TranslatedFrame, TranslatedFinish, TranslatedPanic, TranslatedWrite DEF TranslatedNext

(* Every step of the translators keeps what relates them (streamAnthropic, *)
(* streamOpenAI and the two aggregate functions, frame by frame).          *)
THEOREM TranslatedHolds == TranslatedSpec => []TranslatedInv
BY TranslatedStart, TranslatedStep, PTL DEF TranslatedSpec

--------------------------------------------------------------------------------
(* The message that is written, once nothing waits. *)

LEMMA PartsAreKnown ==
    ASSUME Inv, NEW b \in DOMAIN blocks, NEW i \in DOMAIN blocks[b].parts
    PROVE  /\ b - 1 \in Nat /\ (b - 1) + 1 = b
           /\ blocks[b].parts[i] = <<blocks[b].parts[i][1], blocks[b].parts[i][2]>>
           /\ blocks[b].parts[i][1] \in DeltaKinds
<1>1. blocks \in Seq(BlockType) /\ b \in 1..Len(blocks) /\ Len(blocks) \in Nat
  BY DEF Inv, BlocksInv
<1>2. blocks[b] \in BlockType
  BY <1>1
<1>3. PICK parts : parts = blocks[b].parts
  OBVIOUS
<1>4. parts \in Seq(DeltaKinds \X (1..MaxFrames)) /\ i \in DOMAIN parts
  BY <1>2, <1>3 DEF BlockType
<1>5. parts[i] \in DeltaKinds \X (1..MaxFrames)
  BY <1>4
<1> QED
  BY <1>1, <1>3, <1>5

LEMMA WrittenView ==
    ASSUME Inv, stream.out = <<>>
    PROVE  /\ \A x, type, id : Begun(stream, x, type, id) <=>
                  x + 1 \in DOMAIN blocks /\ blocks[x + 1].type = type /\ blocks[x + 1].id = id
           /\ \A b \in DOMAIN blocks : \A kind, p :
                  Put(stream, b - 1, kind, p) <=> p \in Carried(b, kind)
           /\ \A kind, p : Has(stream, kind, p) <=> p \in Streamed(kind)
           /\ \A b \in DOMAIN blocks : b - 1 \in Nat /\ (b - 1) + 1 = b
<1>1. DOMAIN <<>> = {}
  OBVIOUS
<1>2. \A x, type, id : Begun(stream, x, type, id) <=>
          x + 1 \in DOMAIN blocks /\ blocks[x + 1].type = type /\ blocks[x + 1].id = id
  BY <1>1 DEF Begun, StartedIn
<1>3. blocks \in Seq(BlockType)
  BY DEF Inv, BlocksInv
<1>4. \A b \in DOMAIN blocks : b - 1 \in Nat /\ (b - 1) + 1 = b
  BY <1>3
<1>5. ASSUME NEW x, NEW kind, NEW p
      PROVE  Put(stream, x, kind, p) <=> x + 1 \in DOMAIN blocks /\ p \in Carried(x + 1, kind)
  <2>1. Put(stream, x, kind, p) <=>
            /\ x + 1 \in DOMAIN blocks
            /\ \E j \in DOMAIN blocks[x + 1].parts : blocks[x + 1].parts[j] = <<kind, p>>
    BY <1>1 DEF Put, PutIn
  <2>2. ASSUME x + 1 \in DOMAIN blocks, NEW j \in DOMAIN blocks[x + 1].parts
        PROVE  blocks[x + 1].parts[j] = <<kind, p>> <=>
                   blocks[x + 1].parts[j][1] = kind /\ blocks[x + 1].parts[j][2] = p
    BY <2>2, PartsAreKnown
  <2> QED
    BY <2>1, <2>2 DEF Carried
<1>6. \A b \in DOMAIN blocks : \A kind, p :
          Put(stream, b - 1, kind, p) <=> p \in Carried(b, kind)
  BY <1>4, <1>5
<1>7. ASSUME NEW kind, NEW p PROVE Has(stream, kind, p) <=> p \in Streamed(kind)
  <2>1. ASSUME NEW x \in Nat, Put(stream, x, kind, p) PROVE p \in Streamed(kind)
    BY <1>5, <2>1 DEF Streamed
  <2>2. ASSUME NEW b \in DOMAIN blocks, p \in Carried(b, kind) PROVE Has(stream, kind, p)
    BY <1>4, <1>6, <2>2 DEF Has
  <2> QED
    BY <2>1, <2>2 DEF Has, Streamed
<1> QED
  BY <1>2, <1>4, <1>6, <1>7

--------------------------------------------------------------------------------
(* The properties, for every set of tools, frames and bound. *)

(* The message of the Anthropic endpoint stays well-formed when the turn   *)
(* is read with the other translators beside it: the events of             *)
(* streamAnthropic are those of MessageStream.                             *)
THEOREM MessageOfATurn == TranslatedSpec => MessageProtocol
<1>1. TranslatedInit => Init
  BY DEF TranslatedInit
<1>2. [TranslatedNext]_turnVariables => [Next]_vars
  BY DEF TranslatedNext, turnVariables, Next, vars, Frame, Finish, Panic, Write
<1> QED
  BY <1>1, <1>2, WellFormedMessage, PTL DEF TranslatedSpec, Spec

(* The locals of the handlers keep their ranges: the open block is one     *)
(* that was opened, and the index of a tool in streamOpenAI is that of an  *)
(* announced call.                                                         *)
THEOREM TypeCorrectStreams == TranslatedSpec => []TypeOK
<1>1. TranslatedInv => TypeOK
  <2> SUFFICES ASSUME TranslatedInv PROVE TypeOK
    OBVIOUS
  <2> USE DEF TranslatedInv
  <2>1. /\ stream.openType \in BlockTypes \cup {None} /\ stream.curToolID \in Tools \cup {None}
        /\ stream.openIndex \in -1..(stream.nextIndex - 1) /\ stream.nextIndex \in Nat
        /\ phase \in {"none", "open", "closing", "stopped"}
    <3>1. /\ stream.openType \in BlockTypes \cup {None} /\ stream.curToolID \in Tools \cup {None}
          /\ stream.openIndex \in Int /\ stream.nextIndex \in Nat /\ Consistent(stream)
      BY DEF Inv, StreamInv, StreamType
    <3> QED
      BY <3>1 DEF Consistent, Inv, TurnInv
  <2>2. /\ call.nextToolIdx = Len(completion.calls) /\ completion.calls \in Seq(CallType)
        /\ call.toolIndex \in [Tools -> Nat \cup {None}]
        /\ Indexed(completion.calls, call.toolIndex)
    BY DEF CallsInv, OpenAIType
  <2>3. ASSUME NEW t \in Tools
        PROVE  call.toolIndex[t] \in {None} \cup 0..(call.nextToolIdx - 1)
    <3>1. call.toolIndex[t] = None \/ call.toolIndex[t] \in Nat
      BY <2>2
    <3>2. call.toolIndex[t] # None => call.toolIndex[t] + 1 \in 1..Len(completion.calls)
      BY <2>2 DEF Indexed
    <3> QED
      BY <2>2, <3>1, <3>2
  <2> QED
    BY <2>1, <2>2, <2>3 DEF TypeOK, BlockTypes
<1> QED
  BY <1>1, TranslatedHolds, PTL

(* Input never reaches a call of another tool, in either stream: neither   *)
(* streamAnthropic's open block nor streamOpenAI's table gives a frame's   *)
(* input to a tool it is not about.                                        *)
THEOREM InputReachesItsTool == TranslatedSpec => []InputStaysWithItsTool
<1>1. TranslatedInv => InputStaysWithItsTool
  <2> SUFFICES ASSUME TranslatedInv PROVE InputStaysWithItsTool
    OBVIOUS
  <2> USE DEF TranslatedInv
  <2>1. ASSUME NEW b \in DOMAIN blocks, blocks[b].type = "tool", NEW i \in DOMAIN blocks[b].parts
        PROVE  About(blocks[b].parts[i][2], blocks[b].id)
    <3>1. PICK x : x = b - 1
      OBVIOUS
    <3>2. PICK kind, p : kind = blocks[b].parts[i][1] /\ p = blocks[b].parts[i][2]
      OBVIOUS
    <3>3. x \in Nat /\ x + 1 = b /\ kind \in DeltaKinds /\ blocks[b].parts[i] = <<kind, p>>
      BY <3>1, <3>2, PartsAreKnown
    <3>4. Begun(stream, x, "tool", blocks[b].id) /\ Put(stream, x, kind, p)
      BY <2>1, <3>3 DEF Begun, Put
    <3>5. BlockOf(kind) = "tool"
      BY <3>3, <3>4 DEF MessageInv, View
    <3>6. kind = "input"
      BY <3>5 DEF BlockOf
    <3> QED
      BY <3>2, <3>3, <3>4, <3>6 DEF MessageInv
  <2>2. ASSUME NEW c \in DOMAIN completion.calls,
               NEW i \in DOMAIN completion.calls[c].arguments
        PROVE  About(completion.calls[c].arguments[i], completion.calls[c].id)
    <3>1. Fed(completion.calls[c])
      BY DEF CallsInv
    <3> QED
      BY <3>1 DEF Fed, Given
  <2> QED
    BY <2>1, <2>2 DEF InputStaysWithItsTool
<1> QED
  BY <1>1, TranslatedHolds, PTL

(* A streaming client of the OpenAI endpoint assembles by index what       *)
(* aggregateOpenAI sends at once, however the frames of tools are mixed.   *)
THEOREM OpenAIClientsAgree == TranslatedSpec => []OpenAIAgrees
<1>1. TranslatedInv => OpenAIAgrees
  <2> SUFFICES ASSUME TranslatedInv, turn = "ended"
               PROVE  /\ completion.content = agg.text
                      /\ completion.reasoning = agg.thinking
                      /\ completion.finish = agg.stopReason
                      /\ agg.toolOrder = [i \in DOMAIN completion.calls |-> completion.calls[i].id]
                      /\ \A i \in DOMAIN completion.calls :
                             LET c     == completion.calls[i]
                                 given == {c.arguments[k] : k \in DOMAIN c.arguments}
                             IN  /\ Lists(c.arguments, given)
                                 /\ Lists(agg.input[c.id], {n \in given : frames[n].id # None})
    BY DEF OpenAIAgrees
  <2> USE DEF TranslatedInv
  <2>1. /\ completion.content = agg.text /\ completion.reasoning = agg.thinking
        /\ completion.finish = agg.stopReason
    BY DEF CallsInv
  <2>2. agg.toolOrder = [i \in DOMAIN completion.calls |-> completion.calls[i].id]
    <3>1. PICK order, calls : order = agg.toolOrder /\ calls = completion.calls
      OBVIOUS
    <3>2. order \in Seq(Tools) /\ calls \in Seq(CallType) /\ SameOrder(calls, order)
      BY <3>1 DEF CallsInv, CollectInv, AggregateType, OpenAIType
    <3>3. /\ DOMAIN order = DOMAIN calls /\ order = [i \in DOMAIN order |-> order[i]]
          /\ \A i \in DOMAIN calls : order[i] = calls[i].id
      BY <3>2 DEF SameOrder
    <3>4. order = [i \in DOMAIN calls |-> calls[i].id]
      BY <3>3
    <3> QED
      BY <3>1, <3>4
  <2>3. ASSUME NEW i \in DOMAIN completion.calls, NEW c, c = completion.calls[i]
        PROVE  /\ Lists(c.arguments, Given(c))
               /\ Lists(agg.input[c.id], {n \in Given(c) : frames[n].id # None})
    <3>1. Fed(c) /\ c.id \in Tools
      <4>1. completion.calls \in Seq(CallType)
        BY DEF CallsInv, OpenAIType
      <4>2. c \in CallType
        BY <2>3, <4>1
      <4> QED
        BY <2>3, <4>2 DEF CallsInv, CallType
    <3>2. Lists(agg.input[c.id], Inputs(c.id))
      BY <3>1 DEF CollectInv
    <3> QED
      BY <3>1, <3>2 DEF Fed
  <2>4. ASSUME NEW i \in DOMAIN completion.calls
        PROVE  LET c     == completion.calls[i]
                   given == {c.arguments[k] : k \in DOMAIN c.arguments}
               IN  /\ Lists(c.arguments, given)
                   /\ Lists(agg.input[c.id], {n \in given : frames[n].id # None})
    <3>1. PICK c : c = completion.calls[i]
      OBVIOUS
    <3>2. /\ Lists(c.arguments, Given(c))
          /\ Lists(agg.input[c.id], {n \in Given(c) : frames[n].id # None})
      BY <2>3, <3>1
    <3> QED
      BY <3>1, <3>2 DEF Given
  <2> QED
    BY <2>1, <2>2, <2>4
<1> QED
  BY <1>1, TranslatedHolds, PTL

(* A streaming client of the Anthropic endpoint ends with the text and     *)
(* thoughts of aggregateAnthropic and, when upstream gives a tool's frames *)
(* together, with its tools, and their input where it is a JSON document.  *)
THEOREM AnthropicClientsAgree == TranslatedSpec => []AnthropicAgrees
<1>1. TranslatedInv => AnthropicAgrees
  <2> SUFFICES ASSUME TranslatedInv, Done
               PROVE  /\ Lists(agg.text, Streamed("text")) /\ InOrder("text")
                      /\ Lists(agg.thinking, Streamed("thinking")) /\ InOrder("thinking")
                      /\ reason = agg.stopReason
                      /\ Together =>
                           /\ {blocks[b].id : b \in ToolBlocks} =
                                  {toolUses[i].id : i \in DOMAIN toolUses}
                           /\ \A b, c \in ToolBlocks, i, j \in DOMAIN toolUses :
                                  blocks[b].id = toolUses[i].id /\ blocks[c].id = toolUses[j].id
                                  => (b < c <=> i < j)
                           /\ \A b \in ToolBlocks, i \in DOMAIN toolUses :
                                  blocks[b].id = toolUses[i].id => SameCall(b, toolUses[i])
                           /\ InOrder("input")
    BY DEF AnthropicAgrees
  <2> USE DEF TranslatedInv
  <2>1. phase = "stopped" /\ stream.out = <<>>
    BY ClosedAfterBody DEF Done
  <2>2. /\ \A x, type, id : Begun(stream, x, type, id) <=>
               x + 1 \in DOMAIN blocks /\ blocks[x + 1].type = type /\ blocks[x + 1].id = id
        /\ \A b \in DOMAIN blocks : \A kind, p :
               Put(stream, b - 1, kind, p) <=> p \in Carried(b, kind)
        /\ \A kind, p : Has(stream, kind, p) <=> p \in Streamed(kind)
        /\ \A b \in DOMAIN blocks : b - 1 \in Nat /\ (b - 1) + 1 = b
    BY <2>1, WrittenView
  <2>3. Streamed("text") = Texts
    <3>1. \A p : p \in Streamed("text") <=> p \in Texts
      BY <2>2 DEF MessageInv
    <3> QED
      BY <3>1
  <2>4. Streamed("thinking") = Thoughts
    <3>1. \A p : p \in Streamed("thinking") <=> p \in Thoughts
      BY <2>2 DEF MessageInv
    <3> QED
      BY <3>1
  <2>5. Lists(agg.text, Streamed("text")) /\ Lists(agg.thinking, Streamed("thinking"))
    BY <2>3, <2>4 DEF CollectInv
  <2>6. \A kind : InOrder(kind)
    BY DEF OrderInv
  <2>7. reason = agg.stopReason
    BY <2>1 DEF ReasonInv
  <2>8. ASSUME Together
        PROVE  /\ {blocks[b].id : b \in ToolBlocks} =
                      {agg.toolOrder[i] : i \in DOMAIN agg.toolOrder}
               /\ \A b, c \in ToolBlocks, i, j \in DOMAIN agg.toolOrder :
                      blocks[b].id = agg.toolOrder[i] /\ blocks[c].id = agg.toolOrder[j]
                      => (b < c <=> i < j)
               /\ \A b \in ToolBlocks : Lists(agg.input[blocks[b].id], Carried(b, "input"))
    <3>1. Whole
      BY <2>8 DEF TogetherInv
    <3>2. /\ agg.toolOrder \in Seq(Tools)
          /\ \A t \in Tools : Called(t) <=> \E i \in DOMAIN agg.toolOrder : agg.toolOrder[i] = t
      BY DEF CollectInv, AggregateType, Seen
    <3>3. \A b \in ToolBlocks :
              /\ b \in DOMAIN blocks /\ b - 1 \in Nat
              /\ Begun(stream, b - 1, "tool", blocks[b].id)
      BY <2>2 DEF ToolBlocks
    <3>4. \A b \in ToolBlocks : blocks[b].id \in Tools /\ Called(blocks[b].id)
      BY <3>3 DEF MessageInv
    <3>5. {blocks[b].id : b \in ToolBlocks} = {agg.toolOrder[i] : i \in DOMAIN agg.toolOrder}
      <4>1. ASSUME NEW b \in ToolBlocks
            PROVE  \E i \in DOMAIN agg.toolOrder : agg.toolOrder[i] = blocks[b].id
        BY <3>2, <3>4
      <4>2. ASSUME NEW i \in DOMAIN agg.toolOrder
            PROVE  \E b \in ToolBlocks : blocks[b].id = agg.toolOrder[i]
        <5>1. PICK t : t = agg.toolOrder[i] /\ t \in Tools
          BY <3>2
        <5>2. PICK x \in Nat : Begun(stream, x, "tool", t)
          BY <3>1, <3>2, <5>1 DEF Whole
        <5>3. x + 1 \in ToolBlocks /\ blocks[x + 1].id = t
          BY <2>2, <5>2 DEF ToolBlocks
        <5> QED
          BY <5>1, <5>3
      <4> QED
        BY <4>1, <4>2
    <3>6. ASSUME NEW b \in ToolBlocks, NEW c \in ToolBlocks,
                 NEW i \in DOMAIN agg.toolOrder, NEW j \in DOMAIN agg.toolOrder,
                 blocks[b].id = agg.toolOrder[i], blocks[c].id = agg.toolOrder[j]
          PROVE  b < c <=> i < j
      <4>1. b - 1 < c - 1 <=> i < j
        BY <3>1, <3>3, <3>6 DEF Whole
      <4>2. (b - 1) + 1 = b /\ (c - 1) + 1 = c /\ b - 1 \in Nat /\ c - 1 \in Nat
        BY <2>2, <3>3
      <4>3. PICK x, y : x = b - 1 /\ y = c - 1
        OBVIOUS
      <4>4. x \in Nat /\ y \in Nat /\ b = x + 1 /\ c = y + 1 /\ (x < y <=> i < j)
        BY <4>1, <4>2, <4>3
      <4>5. x + 1 < y + 1 <=> x < y
        BY <4>4
      <4> QED
        BY <4>4, <4>5
    <3>7. ASSUME NEW b \in ToolBlocks PROVE Lists(agg.input[blocks[b].id], Carried(b, "input"))
      <4>1. \A p : p \in Carried(b, "input") <=> p \in Inputs(blocks[b].id)
        BY <2>2, <3>1, <3>3, <3>4 DEF Whole
      <4>2. Carried(b, "input") = Inputs(blocks[b].id)
        BY <4>1
      <4> QED
        BY <3>4, <4>2 DEF CollectInv
    <3> QED
      BY <3>5, <3>6, <3>7
  <2>9. /\ DOMAIN toolUses = DOMAIN agg.toolOrder
        /\ \A i \in DOMAIN toolUses :
               /\ toolUses[i].id = agg.toolOrder[i]
               /\ toolUses[i].input = IF toolUses[i].id \in complete THEN agg.input[toolUses[i].id]
                                     ELSE EmptyObject
    BY <2>1, ClosedAfterBody DEF UsesInv
  <2>10. {toolUses[i].id : i \in DOMAIN toolUses} = {agg.toolOrder[i] : i \in DOMAIN agg.toolOrder}
    BY <2>9
  <2>11. ASSUME Together, NEW b \in ToolBlocks, NEW i \in DOMAIN toolUses,
                blocks[b].id = toolUses[i].id
         PROVE  SameCall(b, toolUses[i])
    BY <2>8, <2>9, <2>11 DEF SameCall
  <2>12. ASSUME Together, NEW b \in ToolBlocks, NEW c \in ToolBlocks,
                NEW i \in DOMAIN toolUses, NEW j \in DOMAIN toolUses,
                blocks[b].id = toolUses[i].id, blocks[c].id = toolUses[j].id
         PROVE  b < c <=> i < j
    BY <2>8, <2>9, <2>12
  <2> QED
    BY <2>5, <2>6, <2>7, <2>8, <2>10, <2>11, <2>12
<1> QED
  BY <1>1, TranslatedHolds, PTL
================================================================================
