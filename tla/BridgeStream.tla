---------------------------- MODULE BridgeStream ----------------------------
(***************************************************************************)
(* completionBridgeReadCloser (proxy/bridge.go): a chat stream turned into *)
(* a completions stream event by event, read by a client in pieces of any  *)
(* size while the source ends, breaks or is closed.                        *)
(*                                                                         *)
(* The source is a sequence of lines [kind, id].  An event is the lines up *)
(* to a "blank" one; its "chunk" or two "half" lines carry one JSON        *)
(* payload, its "done" line the terminator, a "void" line empty data, and  *)
(* "other" lines are comments and fields that are passed through.  A line  *)
(* the end cuts short is a "half".  Output is counted in lines too.        *)
(***************************************************************************)
EXTENDS Integers, Sequences, SequencesExt

CONSTANTS Sources, \* what the provider may send
          Sizes,   \* how many lines a Read of the client has room for
          None

VARIABLES src,        \* lines not read yet
          end,        \* how the source ends: "eof" or "fault"
          pending,    \* r.pending
          pendingErr, \* r.pendingErr
          out,        \* what the client has read
          got,        \* the error the client's last Read returned, or None
          sent        \* the lines the bridge took from the source

vars == <<src, end, pending, pendingErr, out, got, sent>>

Init ==
  /\ src \in Sources
  /\ end \in {"eof", "fault"}
  /\ pending = <<>>
  /\ pendingErr = None
  /\ out = <<>>
  /\ got = None
  /\ sent = <<>>

-----------------------------------------------------------------------------
(* One event                                                               *)

DataKinds == {"chunk", "half", "done", "void"}
Data(event) == SelectSeq(event, LAMBDA l : l.kind \in DataKinds)

\* The kinds of the data lines, without the empty ones, which are white space.
Payload(event) ==
  LET data == SelectSeq(event, LAMBDA l : l.kind \in DataKinds \ {"void"})
  IN  [i \in DOMAIN data |-> data[i].kind]

\* Events without a payload, and the terminator, pass unchanged.
PassesThrough(event) == Payload(event) \in {<<>>, <<"done">>}

Converts(event) == PassesThrough(event) \/ Payload(event) \in {<<"chunk">>, <<"half", "half">>}

\* The data line `first` with the converted payload, other lines as they are.
Rewritten(lines, first) ==
  [i \in DOMAIN lines |-> IF lines[i] = first THEN [first EXCEPT !.kind = "converted"] ELSE lines[i]]

ConvertKeepsAll(event) ==
  IF PassesThrough(event) THEN event ELSE Rewritten(event, Data(event)[1])

\* The first data line becomes the converted payload, the others go.
Convert(event) ==
  IF PassesThrough(event) THEN event
  ELSE LET first == Data(event)[1]
       IN  Rewritten(SelectSeq(event, LAMBDA l : l = first \/ l.kind \notin DataKinds), first)

\* readSSEEvent: the lines up to the first blank one, or all there are.
FirstBlank(lines) ==
  LET blanks == {i \in DOMAIN lines : lines[i].kind = "blank"}
  IN  IF blanks = {} THEN 0 ELSE CHOOSE i \in blanks : \A j \in blanks : i <= j

NextEvent(lines) == IF FirstBlank(lines) = 0 THEN lines ELSE SubSeq(lines, 1, FirstBlank(lines))

-----------------------------------------------------------------------------
(* Read and Close                                                          *)

Fails(err) == got' = err /\ UNCHANGED <<pending, pendingErr, out>>

FillSpins ==
  LET event == NextEvent(src)
      err == IF FirstBlank(src) = 0 THEN end ELSE None
  IN  /\ got = None /\ pending = <<>> /\ pendingErr = None
      /\ src' = SubSeq(src, Len(event) + 1, Len(src))
      /\ sent' = sent \o event
      /\ IF event = <<>> THEN Fails(None)
         ELSE IF err = "fault" THEN Fails(err)
         ELSE IF ~Converts(event) THEN Fails("convert")
         ELSE pending' = Convert(event) /\ pendingErr' = err /\ UNCHANGED <<out, got>>
      /\ UNCHANGED end

FillKeepsPartial ==
  LET event == NextEvent(src)
      err == IF FirstBlank(src) = 0 THEN end ELSE None
  IN  /\ got = None /\ pending = <<>> /\ pendingErr = None
      /\ src' = SubSeq(src, Len(event) + 1, Len(src))
      /\ sent' = sent \o event
      /\ IF event = <<>> THEN Fails(err)
         ELSE IF ~Converts(event) THEN Fails("convert")
         ELSE pending' = Convert(event) /\ pendingErr' = err /\ UNCHANGED <<out, got>>
      /\ UNCHANGED end

\* Nothing is pending: the next event, its conversion, and the error that came
\* with it.
Fill ==
  LET event == NextEvent(src)
      err == IF FirstBlank(src) = 0 THEN end ELSE None
  IN  /\ got = None /\ pending = <<>> /\ pendingErr = None
      /\ src' = SubSeq(src, Len(event) + 1, Len(src))
      /\ sent' = sent \o event
      /\ IF event = <<>> \/ err = "fault" THEN Fails(err)
         ELSE IF ~Converts(event) THEN Fails("convert")
         ELSE pending' = Convert(event) /\ pendingErr' = err /\ UNCHANGED <<out, got>>
      /\ UNCHANGED end

DeliverEager(n) ==
  /\ got = None /\ pending # <<>>
  /\ LET k == IF n < Len(pending) THEN n ELSE Len(pending)
     IN  out' = out \o SubSeq(pending, 1, k) /\ pending' = SubSeq(pending, k + 1, Len(pending))
  /\ got' = pendingErr
  /\ UNCHANGED <<src, end, pendingErr, sent>>

\* A Read with room for n lines.
Deliver(n) ==
  /\ got = None /\ pending # <<>>
  /\ LET k == IF n < Len(pending) THEN n ELSE Len(pending)
     IN  out' = out \o SubSeq(pending, 1, k) /\ pending' = SubSeq(pending, k + 1, Len(pending))
  /\ UNCHANGED <<src, end, pendingErr, got, sent>>

\* The error that came with the last event, once the event is delivered.
DeliverErr ==
  /\ got = None /\ pending = <<>> /\ pendingErr # None
  /\ got' = pendingErr
  /\ pendingErr' = None
  /\ UNCHANGED <<src, end, pending, out, sent>>

\* Close closes the source; what was buffered of it can still be read.
Close(k) ==
  /\ got = None
  /\ src' = SubSeq(src, 1, k)
  /\ end' = "fault"
  /\ UNCHANGED <<pending, pendingErr, out, got, sent>>

Next ==
  \/ Fill
  \/ \E n \in Sizes : Deliver(n)
  \/ DeliverErr
  \/ \E k \in 0..Len(src) : Close(k)

Spec == Init /\ [][Next]_vars

\* The client reads until it has an error.
FairSpec == Spec /\ WF_vars(Fill) /\ WF_vars(DeliverErr) /\ WF_vars(\E n \in Sizes : Deliver(n))

-----------------------------------------------------------------------------
(* Properties                                                              *)

\* The variables' types; an error of the source other than EOF is never kept
\* for later.
TypeOK ==
  /\ end \in {"eof", "fault"}
  /\ pendingErr \in {None, "eof"}
  /\ got \in {None, "eof", "fault", "convert"}

\* What the client should see of the lines taken, said line by line and not event
\* by event: in an event with a payload the first data line is converted and the
\* later ones are gone; every other line is there, in its place.
SameEvent(lines, i, j) ==
  \A b \in DOMAIN lines : lines[b].kind = "blank" => ~(i <= b /\ b < j) /\ ~(j <= b /\ b < i)
HasPayload(lines, i) ==
  \E j \in DOMAIN lines : SameEvent(lines, i, j) /\ lines[j].kind \in {"chunk", "half"}
FollowsData(lines, i) ==
  \E j \in 1..(i - 1) : SameEvent(lines, i, j) /\ lines[j].kind \in DataKinds
Whole(lines) ==
  LET rewrites(i) == lines[i].kind \in DataKinds /\ HasPayload(lines, i)
      kept == SelectSeq([i \in DOMAIN lines |-> i], LAMBDA i : rewrites(i) => ~FollowsData(lines, i))
  IN  [k \in DOMAIN kept |->
         IF rewrites(kept[k]) THEN [lines[kept[k]] EXCEPT !.kind = "converted"] ELSE lines[kept[k]]]

\* The lines of the events that were complete.
Complete(lines) ==
  LET blanks == {i \in DOMAIN lines : lines[i].kind = "blank"}
  IN  IF blanks = {} THEN <<>> ELSE SubSeq(lines, 1, CHOOSE i \in blanks : \A j \in blanks : j <= i)

\* However the client cuts its reads, it gets the conversion of the events in
\* their order, and nothing twice.
ReadsAreTheConversion == IsPrefix(out \o pending, Whole(sent))

\* Before an EOF the client has read every event, the unfinished last one too;
\* before a fault every complete event, and nothing of the one it cut.
NothingIsLostBeforeTheEnd ==
  /\ got = "eof" => out = Whole(sent)
  /\ got = "fault" => out = Whole(Complete(sent))

\* A client that reads on comes to an end.
StreamEnds == <>(got # None)
=============================================================================
