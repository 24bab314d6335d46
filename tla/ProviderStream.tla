--------------------------- MODULE ProviderStream ---------------------------
(***************************************************************************)
(* From the bytes of a provider's answer to the events a response is made  *)
(* of.  A task cuts the byte stream into server-sent events and queues     *)
(* them (sse.rs); an adapter decodes each of them with the state of its    *)
(* protocol, Responses or chat completions, and hands out events, an error *)
(* or the end (stream.rs and the two streaming.rs).  The server is         *)
(* external: it sends any frames and stops anywhere.                       *)
(***************************************************************************)
EXTENDS Naturals, Sequences, FiniteSets

CONSTANTS
    Ids,          \* call ids a server uses
    MaxFrames,    \* frames the server sends (bound)
    Capacity      \* events the queue holds

VARIABLES
    kind,      \* the protocol
    sent,      \* ghost: the frames sent, in order
    wire,      \* the pieces of a frame still to arrive: its line, and the blank line
    line,      \* the incomplete line in the buffer
    event,     \* event_data: the payload of lines read, until the blank line
    queue,     \* SSE events waiting for the adapter
    body,      \* the response body: open, ended, broken
    pending,   \* the adapter's decoded events
    failure,   \* the adapter's error, once decoded
    finished,  \* the adapter's last flag
    calls,     \* chat completions: PendingCall by index
    reason,    \* chat completions: finish_reason
    called,    \* Responses: called_tool
    out        \* what the reader got, an error and the end included

streamVars == <<kind, sent, wire, line, event, queue, body, pending, failure, finished, calls,
                reason, called, out>>

None == "none"
NoId == "no id"
\* Queue entries are the numbers of frames, or:
Nothing == 0
Broken == MaxFrames + 1
Indexes == {1, 2}
NoCalls == << >>

Init ==
    /\ kind \in {"responses", "chat"} /\ sent = << >> /\ wire = << >> /\ line = Nothing
    /\ event = Nothing /\ queue = << >> /\ body = "open" /\ pending = << >> /\ failure = FALSE
    /\ finished = FALSE /\ calls = NoCalls /\ reason = None /\ called = FALSE /\ out = << >>

-----------------------------------------------------------------------------
(* The server. *)

\* Any other finish reason is an error, as is a frame of an error.
Finishes == {"stop", "tool_calls", "length"}
ChatFrames ==
    {[k |-> "text"], [k |-> "usage"], [k |-> "error"], [k |-> "done"],
     [k |-> "text and bad call"]}
    \cup {[k |-> "part", index |-> i, id |-> c] : i \in Indexes, c \in Ids \cup {NoId}}
    \cup {[k |-> "finish", reason |-> r] : r \in Finishes}
ResponsesFrames ==
    {[k |-> "text"], [k |-> "call"], [k |-> "failed"], [k |-> "error"], [k |-> "cut"],
     [k |-> "completed"], [k |-> "completed without usage"], [k |-> "done"]}

\* A frame is a data line, in two pieces of any size, and a blank line. What follows once the
\* adapter is done is decoded by nobody.
SendFrame ==
    /\ body = "open" /\ wire = << >> /\ Len(sent) < MaxFrames /\ ~failure /\ ~finished
    /\ \E f \in IF kind = "chat" THEN ChatFrames ELSE ResponsesFrames :
          /\ sent' = Append(sent, f)
          /\ wire' = <<"half", "rest", "blank">>
    /\ UNCHANGED <<kind, line, event, queue, body, pending, failure, finished, calls, reason,
                   called, out>>

BodyEnds ==
    /\ body = "open" /\ \E how \in {"ended", "broken"} : body' = how
    /\ UNCHANGED <<kind, sent, wire, line, event, queue, pending, failure, finished, calls, reason,
                   called, out>>

-----------------------------------------------------------------------------
(* forward_sse_events, process_line and flush_event. *)

Reading == body = "open" /\ Len(queue) < Capacity
IsDone(n) == sent[n].k = "done"

\* Bytes arrive: a half line stays in the buffer, a whole one is the payload, a blank one queues it.
Arrives ==
    /\ Reading /\ wire # << >> /\ wire' = Tail(wire)
    /\ CASE Head(wire) = "half"  -> line' = Len(sent) /\ UNCHANGED <<event, queue, body>>
         [] Head(wire) = "rest"  -> event' = line /\ line' = Nothing /\ UNCHANGED <<queue, body>>
         [] Head(wire) = "blank" -> /\ queue' = Append(queue, event) /\ event' = Nothing
                                    /\ body' = IF IsDone(event) THEN "closed" ELSE body
                                    /\ UNCHANGED line
    /\ UNCHANGED <<kind, sent, pending, failure, finished, calls, reason, called, out>>

\* At the end of the body what is buffered is an event, which half a line does not decode to; a
\* broken body is an interruption; after [DONE] nothing is read.
BodyRead ==
    /\ body \in {"ended", "broken"} /\ Len(queue) < Capacity
    /\ body' = "closed" /\ wire' = << >> /\ line' = Nothing /\ event' = Nothing
    /\ queue' = CASE body = "broken" \/ line # Nothing -> Append(queue, Broken)
                  [] body = "ended" /\ event # Nothing -> Append(queue, event)
                  [] OTHER                             -> queue
    /\ UNCHANGED <<kind, sent, pending, failure, finished, calls, reason, called, out>>

-----------------------------------------------------------------------------
(* Completion::ingest of chat completions. *)

Emit(events) == pending' = pending \o events
Fails == failure' = TRUE /\ UNCHANGED <<pending, finished, calls, reason, called>>
Goes(events) == Emit(events) /\ UNCHANGED <<failure, finished, called>>

Used == DOMAIN calls
Call(i) == IF i \in Used THEN calls[i] ELSE [id |-> NoId, text |-> << >>]

\* Mutant: a fragment is put before the ones that came.
JoinedBefore(text, n) == <<n>> \o text
Joined(text, n) == Append(text, n)

\* append_call: the id of an index never changes; a lower index that never came is an empty call.
TakesPart(f, n) ==
    LET c == Call(f.index) IN
    IF f.id # NoId /\ c.id # NoId /\ c.id # f.id THEN Fails
    ELSE /\ calls' = [i \in Used \cup 1..f.index |->
                         IF i = f.index
                         THEN [id |-> IF f.id = NoId THEN c.id ELSE f.id, text |-> Joined(c.text, n)]
                         ELSE Call(i)]
         /\ Goes(<< >>) /\ UNCHANGED reason

\* Calls that the token limit cut are dropped.
CallsToFinish(r) == IF r = "length" THEN NoCalls ELSE calls

\* Mutant: the finish reason is not compared with the calls.
ReasonFitsAny(r, cs) == TRUE
ReasonFits(r, cs) == (r = "tool_calls") = (cs # NoCalls)

DistinctIds(cs) == \A i, j \in DOMAIN cs : /\ cs[i].id # NoId
                                          /\ i # j => cs[i].id # cs[j].id
CallEvents(cs) == [i \in 1..Cardinality(DOMAIN cs) |-> [e |-> "call", id |-> cs[i].id, text |-> cs[i].text]]

TakesFinish(r) ==
    LET cs == CallsToFinish(r) IN
    IF ~ReasonFits(r, cs) \/ ~DistinctIds(cs)
    THEN Fails
    ELSE /\ reason' = r /\ calls' = NoCalls
         /\ Goes(CallEvents(cs) \o <<[e |-> "finished", reason |-> r]>>)

DecodeChat(f, n) ==
    CASE f.k = "error" -> Fails
      [] f.k = "usage" -> Goes(<<[e |-> "usage"]>>) /\ UNCHANGED <<calls, reason>>
      [] f.k = "done"  -> IF reason = None THEN Fails
                          ELSE finished' = TRUE /\ UNCHANGED <<pending, failure, calls, reason, called>>
      [] f.k \in {"text", "part", "text and bad call"} /\ reason # None -> Fails
      [] f.k = "text and bad call" ->
            Emit(<<[e |-> "text"]>>) /\ failure' = TRUE /\ UNCHANGED <<finished, calls, reason, called>>
      [] f.k = "text"  -> Goes(<<[e |-> "text"]>>) /\ UNCHANGED <<calls, reason>>
      [] f.k = "part"  -> TakesPart(f, n)
      [] f.k = "finish" /\ reason # None ->
            IF f.reason = reason THEN Goes(<< >>) /\ UNCHANGED <<calls, reason>> ELSE Fails
      [] OTHER -> TakesFinish(f.reason)

-----------------------------------------------------------------------------
(* Completion::ingest of the Responses protocol. *)

DecodeResponses(f, n) ==
    /\ UNCHANGED <<calls, reason>>
    /\ CASE f.k = "text" -> Emit(<<[e |-> "text"]>>) /\ UNCHANGED <<failure, finished, called>>
         [] f.k = "call" -> /\ called' = TRUE /\ UNCHANGED <<failure, finished>>
                            /\ Emit(<<[e |-> "call", id |-> NoId, text |-> <<n>>]>>)
         [] f.k = "completed" -> /\ finished' = TRUE /\ UNCHANGED <<failure, called>>
                                 /\ Emit(<<[e |-> "usage"],
                                           [e |-> "finished", reason |-> IF called THEN "tool_calls" ELSE "stop"]>>)
         [] f.k = "cut" -> /\ finished' = TRUE /\ UNCHANGED <<failure, called>>
                           /\ Emit(<<[e |-> "finished", reason |-> "length"]>>)
         [] OTHER -> failure' = TRUE /\ UNCHANGED <<pending, finished, called>>

-----------------------------------------------------------------------------
(* adapt_provider_stream: what is decoded comes first, then the error, then the end. *)

Ended == out # << >> /\ out[Len(out)].e = "end"

\* Mutant: an error is handed out before what was decoded ahead of it.
NextOutErrorFirst ==
    IF failure THEN [e |-> "error"] ELSE IF pending # << >> THEN Head(pending) ELSE [e |-> "end"]
NextOut ==
    IF pending # << >> THEN Head(pending) ELSE IF failure THEN [e |-> "error"] ELSE [e |-> "end"]

\* The reader, a task of its own, takes what there is.
HandOut ==
    /\ ~Ended /\ (pending # << >> \/ failure \/ finished)
    /\ out' = Append(out, NextOut)
    /\ pending' = IF NextOut.e \in {"error", "end"} THEN pending ELSE Tail(pending)
    /\ failure' = IF NextOut.e = "error" THEN FALSE ELSE failure
    /\ finished' = (finished \/ NextOut.e = "error")
    /\ UNCHANGED <<kind, sent, wire, line, event, queue, body, calls, reason, called>>

\* With nothing left to hand out, the next event is decoded; the queue's end is an interruption.
Decode ==
    /\ pending = << >> /\ ~failure /\ ~finished
    /\ \/ /\ queue # << >> /\ queue' = Tail(queue)
          /\ IF Head(queue) = Broken THEN Fails
             ELSE IF kind = "chat" THEN DecodeChat(sent[Head(queue)], Head(queue))
             ELSE DecodeResponses(sent[Head(queue)], Head(queue))
       \/ queue = << >> /\ body = "closed" /\ Fails /\ UNCHANGED queue
    /\ UNCHANGED <<kind, sent, wire, line, event, body, out>>

Next == SendFrame \/ BodyEnds \/ Arrives \/ BodyRead \/ HandOut \/ Decode

Spec == Init /\ [][Next]_streamVars

-----------------------------------------------------------------------------
StreamTypeOK ==
    /\ Len(queue) <= Capacity /\ Len(sent) <= MaxFrames
    /\ body \in {"open", "ended", "broken", "closed"} /\ DOMAIN calls \subseteq Indexes

Of(e) == {i \in DOMAIN out : out[i].e = e}
Before(i, e) == \E j \in Of(e) : j < i

\* A response that ends without an error has said once, after all its content, why it ended.  It
\* says that it ended in a call exactly when it handed out a call, except that a Responses stream
\* cut short after a call says "length" (response.incomplete ignores called_tool).  Whatever broke
\* the stream, what was decoded ahead of the error is handed out before it, and nothing after it.
EndsOnce ==
    /\ Cardinality(Of("finished")) <= 1
    /\ \A i \in Of("finished") :
          /\ \A j \in Of("text") \cup Of("call") : j < i
          /\ out[i].reason = "tool_calls" => Of("call") # {}
          /\ Of("call") # {} => out[i].reason \in IF kind = "chat" THEN {"tool_calls"}
                                                                ELSE {"tool_calls", "length"}
    /\ Ended /\ Of("error") = {} => Of("finished") # {}
    /\ \A i \in Of("error") : \A j \in DOMAIN out : j > i => out[j].e = "end"
    /\ Of("error") # {} \/ Ended => pending = << >>

\* A call handed out is the call the server sent: every fragment of its index that was sent
\* before the finish reason, in order, whatever calls it was interleaved with.
CallsWhole ==
    \A i \in Of("call") : kind = "chat" =>
        LET texts == out[i].text
            of    == sent[texts[1]].index
            last  == CHOOSE n \in DOMAIN sent : sent[n].k = "finish" /\ \A m \in 1..(n-1) : sent[m].k # "finish"
            parts == SelectSeq([n \in 1..last |-> n], LAMBDA n : sent[n].k = "part" /\ sent[n].index = of)
        IN texts # << >> => texts = parts
=============================================================================
