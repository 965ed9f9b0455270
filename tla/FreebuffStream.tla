---------------------------- MODULE FreebuffStream -----------------------------
(***************************************************************************)
(* A streamed chat of the Freebuff client (freebuff/chat.go): a goroutine  *)
(* reads the body and sends its deltas on an unbuffered channel and at     *)
(* most one error on a buffered one, then closes both; the caller ranges   *)
(* over the deltas and then takes the error.                               *)
(*                                                                         *)
(* A body is a sequence of events: a delta, one without content, [DONE],   *)
(* an error event, one that does not decode, a read that fails.  The       *)
(* caller is external: it uses the channels the way Stream's comment does, *)
(* and leaves when its own client has gone.                                *)
(***************************************************************************)
EXTENDS ChatCalls, Naturals, Sequences, FiniteSets

CONSTANTS
  Bodies             \* bodies upstream may send: sequences of events

Events == {"delta", "empty", "done", "event_error", "garbled", "cut"}
ASSUME BodiesAssumption == Bodies \subseteq Seq(Events)

VARIABLES
  body,              \* what is left of a call's body
  reader,            \* where the goroutine that reads it is
  bound,             \* whether that goroutine watches the call's context
  errs,              \* the buffered channel of errors
  consumer,          \* where the caller is
  got,               \* history: deltas the caller received
  failed,            \* history: whether it received an error
  served             \* history: the body as it was served

streamVars == <<body, reader, bound, errs, consumer, got, failed, served>>

\* streamFromBody (watching = FALSE) and doStream: channels and goroutine.
OpenStream(c, b, watching) ==
  /\ body' = [body EXCEPT ![c] = b]
  /\ served' = [served EXCEPT ![c] = b]
  /\ bound' = [bound EXCEPT ![c] = watching]
  /\ reader' = [reader EXCEPT ![c] = "scan"]
  /\ consumer' = [consumer EXCEPT ![c] = "range"]
  /\ UNCHANGED <<errs, got, failed>>

\* failedChatStream: closed channels with the error in the buffer.
FailedStream(c) ==
  /\ errs' = [errs EXCEPT ![c] = 1]
  /\ reader' = [reader EXCEPT ![c] = "ended"]
  /\ consumer' = [consumer EXCEPT ![c] = "range"]
  /\ UNCHANGED <<body, bound, got, failed, served>>

\* Mutant of AfterEvent: an error event only ends the stream.
AfterEventQuiet(e) ==
  CASE e = "delta" -> "send" [] e = "empty" -> "scan" [] OTHER -> "close"

\* What an event does: handleChatStreamEvent.
AfterEvent(e) ==
  CASE e = "delta" -> "send" [] e = "empty" -> "scan" [] e = "done" -> "close" [] OTHER -> "fail"

\* scanChatStream: an event, or the end of the body, which is a success like [DONE].
Scan(c) ==
  /\ reader[c] = "scan"
  /\ IF body[c] = <<>>
     THEN reader' = [reader EXCEPT ![c] = "close"] /\ UNCHANGED body
     ELSE /\ reader' = [reader EXCEPT ![c] = AfterEvent(Head(body[c]))]
          /\ body' = [body EXCEPT ![c] = Tail(@)]
  /\ UNCHANGED <<bound, errs, consumer, got, failed, served, cancelled>>

\* The request's context is the caller's: reading the body fails once it is cancelled.
ReadFails(c) ==
  /\ reader[c] = "scan" /\ c \in cancelled
  /\ reader' = [reader EXCEPT ![c] = "fail"]
  /\ UNCHANGED <<body, bound, errs, consumer, got, failed, served, cancelled>>

\* A delta is handed over ...
Receive(c) ==
  /\ reader[c] = "send" /\ consumer[c] = "range"
  /\ got' = [got EXCEPT ![c] = @ + 1]
  /\ reader' = [reader EXCEPT ![c] = "scan"]
  /\ UNCHANGED <<body, bound, errs, consumer, failed, served, cancelled>>

\* ... or given up, if the goroutine watches the context.
SendCancelled(c) ==
  /\ reader[c] = "send" /\ bound[c] /\ c \in cancelled
  /\ reader' = [reader EXCEPT ![c] = "fail"]
  /\ UNCHANGED <<body, bound, errs, consumer, got, failed, served, cancelled>>

\* sendChatError.
SendError(c) ==
  /\ reader[c] = "fail"
  /\ errs' = [errs EXCEPT ![c] = 1]
  /\ reader' = [reader EXCEPT ![c] = "close"]
  /\ UNCHANGED <<body, bound, consumer, got, failed, served, cancelled>>

\* The select may find the context done first.
DropError(c) ==
  /\ reader[c] = "fail" /\ bound[c] /\ c \in cancelled
  /\ reader' = [reader EXCEPT ![c] = "close"]
  /\ UNCHANGED <<body, bound, errs, consumer, got, failed, served, cancelled>>

\* The deferred calls: the body, the errors, the deltas.
Close(c) ==
  /\ reader[c] = "close"
  /\ reader' = [reader EXCEPT ![c] = "ended"]
  /\ UNCHANGED <<body, bound, errs, consumer, got, failed, served, cancelled>>

\* The caller: the range over the deltas ends when they are closed ...
RangeEnds(c) ==
  /\ consumer[c] = "range" /\ reader[c] = "ended"
  /\ consumer' = [consumer EXCEPT ![c] = "ask"]
  /\ UNCHANGED <<body, reader, bound, errs, got, failed, served, cancelled>>

\* ... then it takes the error, or nil from the closed channel.
TakeError(c) ==
  /\ consumer[c] = "ask"
  /\ failed' = [failed EXCEPT ![c] = errs[c] = 1]
  /\ errs' = [errs EXCEPT ![c] = 0]
  /\ consumer' = [consumer EXCEPT ![c] = "finished"]
  /\ UNCHANGED <<body, reader, bound, got, served, cancelled>>

\* It stops receiving when it is told that its own client has gone.
Leave(c) ==
  /\ consumer[c] = "range" /\ c \in cancelled
  /\ consumer' = [consumer EXCEPT ![c] = "left"]
  /\ UNCHANGED <<body, reader, bound, errs, got, failed, served, cancelled>>

StreamStep(c) ==
  Scan(c) \/ ReadFails(c) \/ Receive(c) \/ SendCancelled(c) \/ SendError(c) \/ DropError(c)
    \/ Close(c) \/ RangeEnds(c) \/ TakeError(c) \/ Leave(c)

StreamInit ==
  /\ body = [c \in Calls |-> <<>>]
  /\ served = [c \in Calls |-> <<>>]
  /\ reader = [c \in Calls |-> "none"]
  /\ bound = [c \in Calls |-> FALSE]
  /\ errs = [c \in Calls |-> 0]
  /\ consumer = [c \in Calls |-> "none"]
  /\ got = [c \in Calls |-> 0]
  /\ failed = [c \in Calls |-> FALSE]
-------------------------------------------------------------------------------
Deltas(b) == Cardinality({i \in DOMAIN b : b[i] = "delta"})
\* What of a body counts: up to its first [DONE] or failure.
Ends(b) == {i \in DOMAIN b : b[i] \notin {"delta", "empty"}}
Counted(b) == LET ends == Ends(b) IN
  IF ends = {} THEN b ELSE SubSeq(b, 1, CHOOSE i \in ends : \A j \in ends : i <= j)
Sound(b) == \A i \in DOMAIN Counted(b) : b[i] \in {"delta", "empty", "done"}

\* A caller that was given no error has the whole answer: every delta up to [DONE] or the
\* end of a body without a failure.  Only a caller that cancelled its chat may get less.
ErrorIsReported ==
  \A c \in Calls :
    consumer[c] = "finished" /\ ~failed[c] /\ c \notin cancelled
      => Sound(served[c]) /\ got[c] = Deltas(Counted(served[c]))
================================================================================
