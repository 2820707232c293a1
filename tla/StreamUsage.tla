---------------------------- MODULE StreamUsage ----------------------------
(***************************************************************************)
(* A provider's event stream on its way to the client (proxy/stream.go):   *)
(* the body is cut at the response limit, and a tracker reads the same     *)
(* bytes for usage and for the event that ends the stream, keeping one     *)
(* bounded event.  Reads deliver whatever pieces the network makes of the  *)
(* stream; Close may come from another goroutine while a read is under     *)
(* way.                                                                    *)
(*                                                                         *)
(* A byte is one of four symbols: NL ends a line (with or without CR),     *)
(* DATA is the "data:" prefix, END the payload the adapter takes for its   *)
(* terminal event, USE any other payload.  A line that does not begin with *)
(* DATA is a comment or another field.                                     *)
(***************************************************************************)
EXTENDS Integers, Sequences, FiniteSets, SequencesExt

CONSTANTS Limit,    \* the response limit, in bytes
          MaxEvent, \* maxUsageEventBytes
          Buffer,   \* the reader's buffer
          MaxBytes  \* bound: bytes the provider sends

Bytes == {"NL", "DATA", "END", "USE"}

VARIABLES remaining, \* responseLimitReadCloser.remaining
          overflow,  \* responseLimitReadCloser.overflow is set
          lost,      \* bytes of the provider's were dropped
          inFlight,  \* [bytes, err]: what a read got and the tracker has not
          tracker,   \* [pending, event, discard, finished, complete, seen]
          fed,       \* bytes the tracker took in
          closed,    \* Close was called
          result     \* how reading ended: "open", "eof", "truncated", "overflow", "failed"

vars == <<remaining, overflow, lost, inFlight, tracker, fed, closed, result>>

Idle == [bytes |-> <<>>, err |-> "idle"]

Init ==
  /\ remaining = Limit
  /\ overflow = FALSE
  /\ lost = FALSE
  /\ inFlight = Idle
  /\ tracker = [pending |-> <<>>, event |-> <<>>, discard |-> FALSE,
                finished |-> FALSE, complete |-> FALSE, seen |-> <<>>]
  /\ fed = <<>>
  /\ closed = FALSE
  /\ result = "open"

-----------------------------------------------------------------------------
(* The tracker                                                             *)

\* seen records the payloads the adapter's Usage was given.
ProcessEvent(t) ==
  IF t.discard \/ t.event = <<>>
  THEN [t EXCEPT !.event = <<>>]
  ELSE [t EXCEPT !.event = <<>>, !.complete = @ \/ t.event = <<"END">>,
                 !.seen = Append(@, t.event)]

\* The payload of a data line joins the event, or the event is given up.
AppendData(t, data) ==
  LET joined == IF t.event = <<>> THEN <<>> ELSE Append(t.event, "NL")
  IN  IF Len(joined) + Len(data) > MaxEvent
      THEN [t EXCEPT !.event = <<>>, !.discard = TRUE]
      ELSE [t EXCEPT !.event = joined \o data]

ProcessLine(t, line) ==
  IF line = <<>> THEN [ProcessEvent(t) EXCEPT !.discard = FALSE]
  ELSE IF t.discard \/ Head(line) # "DATA" THEN t
  ELSE AppendData(t, Tail(line))

FeedByte(t, b) ==
  IF b = "NL" THEN ProcessLine([t EXCEPT !.pending = <<>>], t.pending)
  ELSE [t EXCEPT !.pending = Append(@, b)]

\* A piece without a line break is taken for a line.
FeedEachPiece(t, bs) ==
  LET u == FoldLeft(FeedByte, t, bs) IN
  IF u.pending = <<>> THEN u ELSE ProcessLine([u EXCEPT !.pending = <<>>], u.pending)

\* A line too long to keep takes its event with it.
Feed(t, bs) ==
  LET u == FoldLeft(FeedByte, t, bs) IN
  IF Len(u.pending) > MaxEvent
  THEN [u EXCEPT !.pending = <<>>, !.event = <<>>, !.discard = TRUE] ELSE u

FeedWhenOpen(t, bs) == IF t.finished THEN t ELSE Feed(t, bs)

FinishWithoutRest(t) == IF t.finished THEN t ELSE [ProcessEvent(t) EXCEPT !.finished = TRUE]

Finish(t) ==
  IF t.finished THEN t
  ELSE LET u == IF t.pending = <<>> THEN t
                ELSE ProcessLine([t EXCEPT !.pending = <<>>], t.pending)
       IN  [ProcessEvent(u) EXCEPT !.finished = TRUE]

-----------------------------------------------------------------------------
(* Reading                                                                 *)

\* The limit reader asks for one byte more than it may pass on.
ReadSize == IF remaining < Buffer THEN remaining + 1 ELSE Buffer

LimitedSilently(bs, err) ==
  /\ inFlight' = IF Len(bs) > remaining
                 THEN [bytes |-> SubSeq(bs, 1, remaining), err |-> "eof"]
                 ELSE [bytes |-> bs, err |-> err]
  /\ remaining' = IF Len(bs) > remaining THEN 0 ELSE remaining - Len(bs)
  /\ lost' = (lost \/ Len(bs) > remaining)
  /\ UNCHANGED overflow

Limited(bs, err) ==
  IF Len(bs) > remaining
  THEN /\ inFlight' = [bytes |-> SubSeq(bs, 1, remaining), err |-> "overflow"]
       /\ remaining' = 0
       /\ overflow' = TRUE
       /\ lost' = TRUE
  ELSE /\ inFlight' = [bytes |-> bs, err |-> err]
       /\ remaining' = remaining - Len(bs)
       /\ UNCHANGED <<overflow, lost>>

\* The provider's next bytes, and whether its stream ends or breaks with them;
\* a closed body only fails.
Read(bs, err) ==
  /\ result = "open"
  /\ inFlight = Idle
  /\ ~overflow
  /\ Len(bs) <= ReadSize
  /\ Len(fed) + Len(bs) <= MaxBytes
  /\ bs = <<>> => err # "nil"
  /\ closed => bs = <<>> /\ err = "failed"
  /\ Limited(bs, err)
  /\ UNCHANGED <<tracker, fed, closed, result>>

\* usageTrackingReadCloser.Read after the body's: a stream that ends before
\* its terminal event is an error.
Deliver ==
  LET t == FeedWhenOpen(tracker, inFlight.bytes)
      done == Finish(t)
  IN  /\ inFlight # Idle
      /\ inFlight' = Idle
      /\ fed' = IF tracker.finished THEN fed ELSE fed \o inFlight.bytes
      /\ tracker' = IF inFlight.err = "nil" THEN t ELSE done
      /\ result' = CASE inFlight.err = "nil" -> "open"
                     [] inFlight.err = "eof" /\ ~done.complete -> "truncated"
                     [] OTHER -> inFlight.err
      /\ UNCHANGED <<remaining, overflow, lost, closed>>

Close ==
  /\ ~closed
  /\ closed' = TRUE
  /\ tracker' = Finish(tracker)
  /\ UNCHANGED <<remaining, overflow, lost, inFlight, fed, result>>

Next ==
  \/ \E bs \in BoundedSeq(Bytes, Buffer), err \in {"nil", "eof", "failed"} : Read(bs, err)
  \/ Deliver
  \/ Close

Spec == Init /\ [][Next]_vars

-----------------------------------------------------------------------------
(* The events of a stream read in one piece                                *)

\* 0 and the places of e in s, in order.
Places(s, e) == <<0>> \o SelectSeq([i \in DOMAIN s |-> i], LAMBDA i : s[i] = e)

\* The lines of bs; what follows the last break is a line when the stream is
\* over.
Lines(bs, over) ==
  LET b == Places(bs, "NL")
      whole == [i \in 1..(Len(b) - 1) |-> SubSeq(bs, b[i] + 1, b[i + 1] - 1)]
      rest == SubSeq(bs, Last(b) + 1, Len(bs))
  IN  IF over THEN whole \o <<rest, <<>>>> ELSE whole

IsData(line) == line # <<>> /\ Head(line) = "DATA"
Join(s, line) == (IF s = <<>> THEN s ELSE Append(s, "NL")) \o Tail(line)

\* An event is the data lines between two blank ones.
Events(bs, over) ==
  LET ls == Lines(bs, over)
      blank == Places(ls, <<>>)
      payload(k) == FoldLeft(Join, <<>>, SelectSeq(SubSeq(ls, blank[k] + 1, blank[k + 1]), IsData))
      all == [k \in 1..(Len(blank) - 1) |-> payload(k)]
  IN  SelectSeq(all, LAMBDA p : Len(p) \in 1..MaxEvent)

ShortLines(bs) == \A l \in ToSet(Lines(bs, TRUE)) : Len(l) <= MaxEvent

-----------------------------------------------------------------------------
(* Properties                                                              *)

\* The tracker holds one event and one unfinished line, each bounded, and the
\* client gets no more than the response limit (maxUsageEventBytes,
\* responseLimitReadCloser).
TypeOK ==
  /\ remaining \in 0..Limit
  /\ Len(fed) + Len(inFlight.bytes) <= Limit
  /\ Len(tracker.event) <= MaxEvent
  /\ Len(tracker.pending) <= MaxEvent
  /\ result \in {"open", "eof", "truncated", "overflow", "failed"}

\* However reads cut the stream, the adapter is shown exactly the events of
\* the bytes taken in, each once and in order (streamUsageTracker.Feed), as
\* long as no line is longer than an event may be.
PiecesDoNotMatter ==
  ShortLines(fed) => tracker.seen = Events(fed, tracker.finished)

\* The client sees a clean end only of a stream whose terminal event went by,
\* and an end it does not close itself is truncated only without one.
CleanEndHasTerminal ==
  /\ result = "eof" => tracker.complete
  /\ result = "truncated" /\ ~closed /\ ShortLines(fed) => ~Contains(Events(fed, TRUE), <<"END">>)

\* No byte is dropped in silence: a response over the limit ends in an error.
NothingIsCutSilently == lost => result \in {"open", "overflow"}

\* What is settled after Close stays what it was: a read still under way adds
\* nothing once the tracker has finished (UsageSnapshot).
Stays == tracker.finished => tracker' = tracker
FinishedIsFinal == [][Stays]_vars
=============================================================================
