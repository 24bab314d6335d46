--------------------------- MODULE RequestHistory ---------------------------
(***************************************************************************)
(* What a provider is sent of a conversation.  The conversation is kept in *)
(* one provider-neutral form (kraai-types/conversation.rs); each request   *)
(* turns it into the messages of one wire protocol:                        *)
(*   - kraai-provider-core/history.rs takes out what another provider      *)
(*     encrypted and moves the images of a script's result into a message  *)
(*     of their own, images.rs resolves the images;                        *)
(*   - the chat-completions provider makes one message of each response    *)
(*     (messages.rs), with its reasoning merged again (reasoning.rs);      *)
(*   - the Codex provider makes an input item of each part (messages.rs),  *)
(*     and shortens the latest results of a compaction request that would  *)
(*     not fit (compaction.rs).                                            *)
(* The user switches providers and compacts between turns.                 *)
(***************************************************************************)
EXTENDS Integers, Sequences, SequencesExt, FiniteSets

CONSTANTS
    Window,      \* the model's context, in the units texts are measured with
    MaxOutput,   \* the most a model answers with
    MaxImages,   \* MAX_REQUEST_IMAGES
    MaxItems,    \* bound: items of the conversation
    MaxParts     \* bound: fragments of streamed reasoning

VARIABLES
    conv,        \* the conversation the next request is made of
    details,     \* the reasoning details of the response that streams now
    pieces,      \* how many fragments they were merged from
    request      \* the last request made of conv, NoRequest after a change

requestVars == <<conv, details, pieces, request>>

Providers == {"chat", "codex"}
Small == 1
Large == 4
Notice == 2      \* the text that stands for a truncated output
ImageCost == 3   \* what an image is estimated at

Text(n, size) == [k |-> "text", id |-> <<"text", n>>, size |-> size]
Image(n) == [k |-> "image", id |-> <<"image", n>>, size |-> 0]
NoCall == <<0, 0>>
IsImage(part) == part.k = "image"
ImagesOf(content) == SelectSeq(content, IsImage)

\* A conversation item, and the parts of an assistant's response.
Item(kind, content, src, call, items) ==
    [k |-> kind, content |-> content, src |-> src, call |-> call, items |-> items]
Plain(kind, content) == Item(kind, content, "", NoCall, << >>)
Result(call, content) == Item("result", content, "", call, << >>)
Reasoning(src, payload) ==
    [k |-> "reasoning", src |-> src, id |-> NoCall, payload |-> payload, bad |-> FALSE]
Said(n) == [k |-> "text", src |-> "", id |-> <<n, 0>>, payload |-> << >>, bad |-> FALSE]
Call(id, bad) == [k |-> "call", src |-> "", id |-> id, payload |-> << >>, bad |-> bad]

OfKind(items, kind) == SelectSeq(items, LAMBDA i : i.k = kind)
Ids(s) == [i \in DOMAIN s |-> s[i].id]
FlatMap(Op(_), s) == FlattenSeq([i \in DOMAIN s |-> Op(s[i])])
Sum(Op(_), s) == FoldLeft(LAMBDA total, x : total + Op(x), 0, s)

NoRequest == [to |-> "none"]

Init ==
    /\ conv = << >>
    /\ details = << >>
    /\ pieces = 0
    /\ request = NoRequest

-----------------------------------------------------------------------------
(* kraai-types/conversation.rs and token_estimate.rs *)

\* MessageContent::display_text: an image is named by a label.
DisplayText(content) ==
    [i \in DOMAIN content |->
        IF IsImage(content[i]) THEN [k |-> "label", id |-> content[i].id, size |-> 1]
        ELSE content[i]]

SizeOf(content) == Sum(LAMBDA part : part.size, DisplayText(content))

EstimatedPart(part) == IF IsImage(part) THEN ImageCost ELSE part.size

EstimatedTokens(item) ==
    1 + Sum(EstimatedPart, item.content)
      + Sum(LAMBDA i : IF i.k = "reasoning" THEN 1 + Len(i.payload) ELSE 1, item.items)

\* Model::output_limit: 0 stands for no limit at all.
OutputLimitWhole(items) == MaxOutput
OutputLimit(items) ==
    LET used == Sum(EstimatedTokens, items)
        left == IF used > Window THEN 0 ELSE Window - used
    IN  IF left < MaxOutput THEN left ELSE MaxOutput

-----------------------------------------------------------------------------
(* reasoning.rs: details of streamed reasoning arrive in fragments *)

Detail(kind, id, sig, text) == [kind |-> kind, id |-> id, sig |-> sig, text |-> text]

\* A field that is null on either side does not keep two fragments apart.
Agrees(a, b) == a = 0 \/ b = 0 \/ a = b

Continues(previous, d) ==
    previous.kind = d.kind /\ d.kind = "text" /\ Agrees(previous.id, d.id)

Joined(previous, d) ==
    [previous EXCEPT !.text = @ \o d.text,
                     !.id = IF @ = 0 THEN d.id ELSE @,
                     !.sig = IF @ = 0 THEN d.sig ELSE @]

Clashes(ds, d) ==
    /\ ds # << >>
    /\ Continues(Last(ds), d)
    /\ ~Agrees(Last(ds).sig, d.sig)

\* append_detail, for a fragment that does not contradict the one it continues
AppendDetail(ds, d) ==
    IF ds # << >> /\ Continues(Last(ds), d)
    THEN [ds EXCEPT ![Len(ds)] = Joined(@, d)]
    ELSE Append(ds, d)

\* Reasoning::append of everything that was stored, when it is sent again
Replayed(payloads) == FoldLeft(AppendDetail, << >>, FlattenSeq(payloads))

-----------------------------------------------------------------------------
(* history.rs and images.rs *)

\* attachments: the images a request must resolve, in order
AttachmentsOfUsers(items) ==
    FlatMap(LAMBDA item : IF item.k = "user" THEN ImagesOf(item.content) ELSE << >>, items)
Attachments(items) ==
    FlatMap(LAMBDA item : IF item.k \in {"user", "result"} THEN ImagesOf(item.content) ELSE << >>,
            items)

\* script_result_images: the images of a result, in a message of their own
ScriptResultImages(item) ==
    Plain("user", <<[k |-> "text", id |-> <<"images", item.call[1]>>, size |-> 1]>> \o ImagesOf(item.content))

OwnEverything(i, p) == TRUE
\* What a provider encrypted is of use to that provider only.
Own(i, p) == i.k # "reasoning" \/ i.src = p

PrepareItem(item, p) ==
    IF item.k = "compaction" /\ item.src # p THEN << >>
    ELSE IF item.k = "assistant"
    THEN <<[item EXCEPT !.items = SelectSeq(@, LAMBDA i : Own(i, p))]>>
    ELSE IF item.k = "result" /\ ImagesOf(item.content) # << >>
    THEN <<[item EXCEPT !.content = DisplayText(@)], ScriptResultImages(item)>>
    ELSE <<item>>

PrepareHistory(items, p) == FlatMap(LAMBDA item : PrepareItem(item, p), items)

-----------------------------------------------------------------------------
(* The messages of the two protocols *)

Message(role, body, call) ==
    [role |-> role, body |-> body, call |-> call, calls |-> << >>, why |-> << >>]

\* One message of a response: its texts, then its calls, then its reasoning.
ChatAssistant(items) ==
    [Message("assistant", OfKind(items, "text"), NoCall) EXCEPT
        !.calls = OfKind(items, "call"),
        !.why = Replayed([i \in DOMAIN OfKind(items, "reasoning") |->
                              OfKind(items, "reasoning")[i].payload])]

\* A response with neither text nor call is left out.
SaysTextOnly(items) == OfKind(items, "text") # << >>
Says(items) == OfKind(items, "text") # << >> \/ OfKind(items, "call") # << >>

ChatMessages(item) ==
    CASE item.k = "compaction" -> << >>
      [] item.k = "system" -> <<Message("system", item.content, NoCall)>>
      [] item.k \in {"file", "user"} -> <<Message("user", item.content, NoCall)>>
      [] item.k = "assistant" -> IF Says(item.items) THEN <<ChatAssistant(item.items)>> ELSE << >>
      [] item.k = "result" -> <<Message("tool", DisplayText(item.content), item.call)>>

NormalizeChatMessages(items) == FlatMap(ChatMessages, PrepareHistory(items, "chat"))

\* The responses API takes each part of a response as an item of its own.
ResponseItem(i) ==
    CASE i.k = "reasoning" -> [Message("reasoning", << >>, NoCall) EXCEPT !.why = i.payload]
      [] i.k = "text" -> Message("assistant", <<i>>, NoCall)
      [] i.k = "call" -> [Message("call", << >>, i.id) EXCEPT !.calls = <<i>>]

ResponsesItems(item) ==
    CASE item.k = "compaction" -> <<Message("compaction", << >>, NoCall)>>
      [] item.k = "system" -> <<Message("developer", item.content, NoCall)>>
      [] item.k \in {"file", "user"} -> <<Message("user", item.content, NoCall)>>
      [] item.k = "assistant" -> [i \in DOMAIN item.items |-> ResponseItem(item.items[i])]
      [] item.k = "result" -> <<Message("output", DisplayText(item.content), item.call)>>

\* The system messages at the start of a conversation are the instructions.
Leading(items) ==
    LET n == CHOOSE m \in 0..Len(items) :
                 /\ \A i \in 1..m : items[i].k = "system"
                 /\ m = Len(items) \/ items[m + 1].k # "system"
    IN  SubSeq(items, 1, n)

NormalizeConversation(items) ==
    LET leading == Leading(items)
        rest == SubSeq(items, Len(leading) + 1, Len(items))
    IN  [instructions |-> FlattenSeq([i \in DOMAIN leading |-> leading[i].content]),
         input |-> FlatMap(ResponsesItems, PrepareHistory(rest, "codex"))]

-----------------------------------------------------------------------------
(* compaction.rs *)

VisibleBytes(item) ==
    SizeOf(item.content)
    + Sum(LAMBDA i : IF i.k = "reasoning" THEN 0 ELSE 1, item.items)

\* A truncated output still names its images, for a later look at them.
Truncated(content) ==
    <<[k |-> "text", id |-> <<"truncated", 0>>, size |-> Notice]>>
    \o [i \in DOMAIN ImagesOf(content) |-> [k |-> "omitted", id |-> ImagesOf(content)[i].id, size |-> 1]]

StopsAtSystem(item) == item.k # "result"
\* Only the results at the end are shortened; instructions between them are passed over.
StopsTrim(item) == item.k \notin {"result", "system"}

TrimToolOutputs(items) ==
    LET step[n \in 0..Len(items)] ==
            IF n = 0
            THEN [items |-> items, bytes |-> Sum(VisibleBytes, items), done |-> FALSE]
            ELSE
            LET acc == step[n - 1]
                at == Len(items) + 1 - n
                item == items[at]
                short == [item EXCEPT !.content = Truncated(@)]
            IN  IF acc.done \/ acc.bytes <= Window \/ StopsTrim(item)
                THEN [acc EXCEPT !.done = TRUE]
                ELSE IF item.k = "system" THEN acc
                ELSE [acc EXCEPT !.items[at] = short,
                                 !.bytes = @ - VisibleBytes(item) + VisibleBytes(short)]
    IN  step[Len(items)].items

-----------------------------------------------------------------------------
(* The conversation grows by turns *)

\* The calls of the latest response that have no result yet, in order
Unanswered ==
    LET answered == {conv[i].call : i \in {j \in DOMAIN conv : conv[j].k = "result"}}
    IN  SelectSeq(FlatMap(LAMBDA item : OfKind(item.items, "call"), conv),
                  LAMBDA c : c.id \notin answered)

Fresh == Len(conv) + 1
Grow(item) ==
    /\ Len(conv) < MaxItems
    /\ conv' = Append(conv, item)
    /\ request' = NoRequest

\* The user writes, or a section of the instructions or a pinned file is placed.
Write ==
    /\ Unanswered = << >>
    /\ \E content \in {<<Text(Fresh, Small)>>, <<Text(Fresh, Small), Image(Fresh)>>} :
           Grow(Plain("user", content))
    /\ UNCHANGED <<details, pieces>>

Place ==
    /\ Unanswered = << >>
    /\ \E kind \in {"system", "file"} : Grow(Plain(kind, <<Text(Fresh, Small)>>))
    /\ UNCHANGED <<details, pieces>>

\* A response streams a fragment of its reasoning (Completion::ingest); a fragment that
\* contradicts what it continues fails the response.
Fragments ==
    {Detail("opaque", 0, 0, <<pieces + 1>>)}
    \cup {Detail("text", f[1], f[2], <<pieces + 1>>) :
             f \in {<<1, 0>>, <<2, 0>>, <<0, 1>>, <<0, 2>>}}

StreamReasoning ==
    /\ Len(conv) = 1 /\ conv[1].k = "user" /\ pieces < MaxParts /\ request = NoRequest
    /\ \E d \in Fragments :
           IF Clashes(details, d)
           THEN details' = << >> /\ pieces' = 0
           ELSE details' = AppendDetail(details, d) /\ pieces' = pieces + 1
    /\ UNCHANGED <<conv, request>>

\* What a response may hold.  Only its first call runs; the others get a result all the same.
Shapes(p) ==
    LET think == IF p = "chat" THEN IF details = << >> THEN << >> ELSE <<Reasoning(p, details)>>
                 ELSE <<Reasoning(p, << >>)>>
        c == Call(<<Fresh, 1>>, FALSE)
    IN  {think \o s : s \in {<<Said(Fresh)>>, <<Said(Fresh), c>>, <<Call(<<Fresh, 1>>, TRUE)>>,
                             <<c, Said(Fresh)>>, <<c, Call(<<Fresh, 2>>, FALSE)>>, << >>}}

Reply ==
    /\ Unanswered = << >> /\ conv # << >> /\ Last(conv).k # "assistant"
    /\ \E p \in Providers : \E items \in Shapes(p) :
           items # << >> /\ Grow(Item("assistant", << >>, "", NoCall, items))
    /\ details' = << >> /\ pieces' = 0

\* finalize_script_turn and answer_skipped_calls: each call gets one result, in order; only
\* the one that ran has images.
Answer ==
    /\ Unanswered # << >>
    /\ LET c == Head(Unanswered).id
           ran == conv[Len(conv)].k # "result"
       IN  \E content \in {<<Text(Fresh, Small)>>, <<Text(Fresh, Large)>>,
                           <<Text(Fresh, Small), Image(Fresh)>>} :
               /\ ran \/ content = <<Text(Fresh, Small)>>
               /\ Grow(Result(c, content))
    /\ UNCHANGED <<details, pieces>>

\* A native compaction leaves one encrypted item of its provider.
Compact ==
    /\ Unanswered = << >> /\ Leading(conv) # conv
    /\ request.to = "codex" /\ request.compact
    /\ conv' = Leading(conv) \o <<Item("compaction", << >>, "codex", NoCall, << >>)>>
    /\ request' = NoRequest
    /\ UNCHANGED <<details, pieces>>

-----------------------------------------------------------------------------
(* The requests *)

\* ResolvedImages::resolve: a request with too many images is refused.
MayResolve(items) == Len(Attachments(items)) <= MaxImages

\* generate_reply_stream of the chat-completions provider: the tool is declared although it
\* may not be called, when the history holds calls.
SendChat ==
    /\ Unanswered = << >> /\ conv # << >> /\ request = NoRequest
    /\ MayResolve(conv)
    /\ \E tool \in BOOLEAN :
           LET messages == NormalizeChatMessages(conv)
               used == \E i \in DOMAIN messages :
                           messages[i].role = "tool" \/ messages[i].calls # << >>
           IN  request' = [to |-> "chat", compact |-> FALSE, of |-> conv, instructions |-> << >>,
                           messages |-> messages, images |-> ToSet(Attachments(conv)),
                           limit |-> OutputLimit(conv), tools |-> tool \/ used,
                           may |-> tool, thinks |-> TRUE]
    /\ UNCHANGED <<conv, details, pieces>>

\* send_responses_request: without a reasoning effort, no reasoning is sent back.
SendCodex ==
    /\ Unanswered = << >> /\ conv # << >> /\ request = NoRequest
    /\ \E compact, thinks \in BOOLEAN :
           LET items == IF compact THEN TrimToolOutputs(conv) ELSE conv
               normal == NormalizeConversation(items)
           IN  /\ MayResolve(items)
               /\ request' = [to |-> "codex", compact |-> compact, of |-> items,
                              instructions |-> normal.instructions,
                              messages |-> SelectSeq(normal.input,
                                               LAMBDA m : thinks \/ m.role # "reasoning"),
                              images |-> ToSet(Attachments(items)),
                              limit |-> IF compact THEN 0 ELSE OutputLimit(items),
                              tools |-> ~compact, may |-> ~compact, thinks |-> thinks]
    /\ UNCHANGED <<conv, details, pieces>>

Next ==
    \/ Write \/ Place \/ StreamReasoning \/ Reply \/ Answer \/ Compact \/ SendChat \/ SendCodex

Spec == Init /\ [][Next]_requestVars

-----------------------------------------------------------------------------
(* Every variable has its type. *)
RequestTypeOK ==
    /\ Len(conv) <= MaxItems
    /\ \A i \in DOMAIN conv :
           conv[i].k \in {"system", "file", "user", "assistant", "result", "compaction"}
    /\ Len(details) <= pieces /\ pieces <= MaxParts
    /\ request.to \in {"none"} \cup Providers

Sent == request.to # "none"

\* What the model can read of a conversation, and of a request, in order
ReadableOf(items) ==
    FlatMap(LAMBDA item :
                Ids(OfKind(item.items, "text"))
                \o (IF item.k = "result"
                    THEN Ids(DisplayText(item.content))
                         \o (IF ImagesOf(item.content) = << >> THEN << >>
                             ELSE <<<<"images", item.call[1]>>>> \o Ids(ImagesOf(item.content)))
                    ELSE Ids(item.content)),
            items)
ReadableIn(r) == Ids(r.instructions) \o FlatMap(LAMBDA m : Ids(m.body), r.messages)

\* A request holds every text, call and image of the conversation once and in order, whichever
\* provider it goes to, and of what providers encrypted only this provider's own, as streamed
\* (prepare_history, normalize_chat_messages, normalize_conversation, Reasoning::append).
NothingLost ==
    /\ FlatMap(LAMBDA d : d.text, details) = [n \in 1..pieces |-> n]
    /\ Sent =>
        /\ ReadableIn(request) = ReadableOf(request.of)
        /\ FlatMap(LAMBDA m : m.calls, request.messages)
               = FlatMap(LAMBDA item : OfKind(item.items, "call"), request.of)
        /\ LET own == SelectSeq(FlatMap(LAMBDA item : OfKind(item.items, "reasoning"), request.of),
                                LAMBDA i : i.src = request.to)
               why == SelectSeq(request.messages, LAMBDA m : m.why # << >> \/ m.role = "reasoning")
               kept == IF request.to = "codex" THEN own
                       ELSE FlatMap(LAMBDA item :
                                        IF Says(item.items)
                                        THEN SelectSeq(item.items, LAMBDA i : i.k = "reasoning"
                                                                              /\ i.src = "chat")
                                        ELSE << >>,
                                    request.of)
           IN  IF request.thinks
               THEN [i \in DOMAIN why |-> why[i].why] = [i \in DOMAIN kept |-> kept[i].payload]
               ELSE why = << >>

\* In a request each call is answered once, before the model speaks again; the answer to a
\* response's only call follows at once; and the chat protocol declares the tool whenever the
\* history used it (ChatMessages, ResponsesItems, generate_reply_stream).
CallsAnswered ==
    Sent =>
        LET ms == request.messages
            Answers(c) == {i \in DOMAIN ms : ms[i].role \in {"tool", "output"} /\ ms[i].call = c}
            Speaks(i) == ms[i].role \in {"assistant", "call", "reasoning"}
        IN  /\ \A i \in DOMAIN ms : \A n \in DOMAIN ms[i].calls :
                   \E j \in Answers(ms[i].calls[n].id) :
                       /\ i < j
                       /\ Answers(ms[i].calls[n].id) = {j}
                       /\ request.to = "chat" => \A h \in (i + 1)..(j - 1) : ~Speaks(h)
                       /\ request.to = "chat" /\ Len(ms[i].calls) = 1 => j = i + 1
            /\ \A j \in DOMAIN ms : ms[j].role \in {"tool", "output"} =>
                   \E i \in 1..(j - 1) : \E n \in DOMAIN ms[i].calls : ms[i].calls[n].id = ms[j].call
            /\ request.to = "chat" /\ (\E i \in DOMAIN ms : ms[i].calls # << >>) => request.tools

\* A request fits what the model takes: every image it shows was resolved and they are not too
\* many, it leaves room for the answer it asks for, and a compaction shortens the latest results
\* until it fits, and no more (ResolvedImages, output_limit, trim_tool_outputs).
FitsTheModel ==
    Sent =>
        /\ LET shown == FlatMap(LAMBDA m : ImagesOf(m.body), request.messages)
           IN  Len(shown) <= MaxImages /\ {shown[i] : i \in DOMAIN shown} = request.images
        /\ request.limit > 0 => request.limit + Sum(EstimatedTokens, request.of) <= Window
        /\ request.compact =>
               LET cut == {i \in DOMAIN conv : request.of[i] # conv[i]}
                   With(s) == Sum(VisibleBytes, [i \in DOMAIN conv |->
                                  IF i \in s THEN request.of[i] ELSE conv[i]])
                   tail == {i \in DOMAIN conv : conv[i].k = "result" /\ \A j \in i..Len(conv) :
                                                    conv[j].k \in {"result", "system"}}
               IN  /\ cut \subseteq tail
                   /\ \A i \in cut : \A j \in tail : j > i => j \in cut
                   /\ \A i \in cut : With({j \in cut : j > i}) > Window
                   /\ With(cut) <= Window \/ cut = tail
=============================================================================
