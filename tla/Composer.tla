------------------------------ MODULE Composer ------------------------------
(***************************************************************************)
(* The terminal client's prompt: a text with a cursor in which every       *)
(* attached image is a label, "[Image #n]", kept as a byte range beside    *)
(* the text.  Keys edit the text, images arrive from a worker thread some  *)
(* time after their label, recalled history replaces the draft and gives   *)
(* it back, an external editor returns a text in which the labels may have *)
(* moved, and a message that could not be sent comes back in front.        *)
(*                                                                         *)
(* A character is one cell of the text and a label is three, the middle    *)
(* one a space as in the real label; from the second image on it is four,  *)
(* which stands for the number growing a digit.                            *)
(***************************************************************************)
EXTENDS Naturals, Sequences, SequencesExt

CONSTANTS
    Widths,      \* widths of the prompt, in cells
    MaxItems,    \* characters and images in the draft (bound)
    MaxImages,   \* images attached at once: MAX_IMAGE_ATTACHMENTS
    MaxKeys      \* keys and events that change something (bound)

VARIABLES
    draft,       \* the text, the labels' chips and the cursor
    browse,      \* the recalled history entry, 0 for none, and the draft put aside
    worker,      \* the clipboard worker: whether it is busy, its request, its responses
    editor,      \* the external editor, with what it was given
    request,     \* image requests made
    keys,        \* keys and events so far
    doc          \* ghost: the characters and images the user put in, and the cursor among them

composerVars == <<draft, browse, worker, editor, request, keys, doc>>

Cell(kind) == <<kind, 0>>
Chars == {Cell("x"), Cell(" "), Cell("w"), Cell("n")}
IsSpace(c) == c[1] \in {" ", "n", "_"}
Label(n) == <<<<"#", n>>, <<"_", n>>, <<"#", n>>>> \o (IF n > 1 THEN <<<<"#", n>>>> ELSE << >>)
None == 0
Empty == [text |-> << >>, chips |-> << >>, cursor |-> 0]
Earlier == MaxKeys + 1     \* the image of a message sent before
NoDoc == [items |-> << >>, at |-> 0]
History == <<<<Cell("x")>>, <<Cell("x"), Cell("x")>>>>

Init ==
    /\ draft = Empty /\ doc = NoDoc
    /\ browse = [index |-> None, saved |-> Empty, doc |-> NoDoc]
    /\ worker = [busy |-> FALSE, job |-> None, queue |-> << >>, responses |-> << >>]
    /\ editor = [open |-> FALSE] /\ request = 0 /\ keys = 0

-----------------------------------------------------------------------------
(* The draft as the characters and images it stands for. *)

Chip(from, to, number, req, image) ==
    [from |-> from, to |-> to, number |-> number, request |-> req, image |-> image]

\* The image a chip stands for, or will: an image is named by the request that loads it.
ImageOf(chip) == <<"image", IF chip.image = None THEN chip.request ELSE chip.image>>

\* DraftImages::content: the text between the chips, and each chip's image in its place.
Content(d) ==
    LET Before(k) == IF k = 1 THEN 0 ELSE d.chips[k - 1].to
        part[k \in 1..(Len(d.chips) + 1)] ==
            IF k > Len(d.chips) THEN SubSeq(d.text, Before(k) + 1, Len(d.text))
            ELSE SubSeq(d.text, Before(k) + 1, d.chips[k].from)
                 \o <<ImageOf(d.chips[k])>> \o part[k + 1]
    IN  part[1]

\* The characters and images before a position of the text.
ItemsBefore(d, position) ==
    Len(Content([d EXCEPT !.text = SubSeq(@, 1, position),
                          !.chips = SelectSeq(@, LAMBDA c : c.to <= position)]))

AtEnd(d) == [d EXCEPT !.cursor = Len(d.text)]

Loading(chip) == chip.image = None
Pending(d) == \E i \in DOMAIN d.chips : Loading(d.chips[i])

-----------------------------------------------------------------------------
(* draft_images.rs *)

\* DraftImages::snap: a position inside a label moves to one of its ends.
Snap(chips, position, forward) ==
    LET inside == {i \in DOMAIN chips : chips[i].from < position /\ position < chips[i].to}
    IN  IF inside = {} THEN position
        ELSE LET c == chips[CHOOSE i \in inside : TRUE] IN IF forward THEN c.to ELSE c.from

\* Mutant: the chips behind an edit stay where they were.
MovedNowhere(c, a, b, length) == c
\* A chip behind the edited range moves with its label.
Moved(c, a, b, length) ==
    IF c.from >= b THEN [c EXCEPT !.from = @ - (b - a) + length, !.to = @ - (b - a) + length]
    ELSE c

\* DraftImages::replace: the range grows to whole labels, and theirs go with it.
Replace(d, from, to, text) ==
    LET a == IF from = to THEN Snap(d.chips, from, TRUE) ELSE Snap(d.chips, from, FALSE)
        b == IF from = to THEN a ELSE Snap(d.chips, to, TRUE)
        kept == SelectSeq(d.chips, LAMBDA c : ~(c.from < b /\ a < c.to))
    IN  [text |-> SubSeq(d.text, 1, a) \o text \o SubSeq(d.text, b + 1, Len(d.text)),
         chips |-> [i \in DOMAIN kept |-> Moved(kept[i], a, b, Len(text))],
         cursor |-> a + Len(text)]

\* DraftImages::renumber: the labels are written again, in order, and the cursor keeps its place.
Renumber(d) ==
    LET step[k \in 0..Len(d.chips)] ==
            IF k = 0 THEN [text |-> d.text, chips |-> << >>, cursor |-> d.cursor, shift |-> 0]
            ELSE LET s == step[k - 1]
                     c == d.chips[k]
                     from == c.from + s.shift
                     to == c.to + s.shift
                     label == Label(k)
                 IN  [text |-> SubSeq(s.text, 1, from) \o label
                                  \o SubSeq(s.text, to + 1, Len(s.text)),
                      chips |-> Append(s.chips,
                                    [c EXCEPT !.from = from, !.to = from + Len(label),
                                              !.number = k]),
                      cursor |-> IF s.cursor >= to THEN s.cursor - (to - from) + Len(label)
                                 ELSE IF s.cursor > from THEN from + Len(label) ELSE s.cursor,
                      shift |-> s.shift + Len(label) - (to - from)]
        end == step[Len(d.chips)]
    IN  [text |-> end.text, chips |-> end.chips, cursor |-> end.cursor]

ByPosition(chips) == SortSeq(chips, LAMBDA c, e : c.from < e.from)

\* DraftImages::insert
Insert(d, position, req, image) ==
    LET label == Label(Len(d.chips) + 1)
        put == Replace(d, position, position, label)
        chip == Chip(put.cursor - Len(label), put.cursor, Len(d.chips) + 1, req, image)
    IN  Renumber([put EXCEPT !.chips = ByPosition(Append(@, chip))])

\* App::replace_input_range
Edited(from, to, text) == Renumber(Replace(draft, from, to, text))

\* from_content: a message that was sent, as a draft.
FromContent(items) ==
    LET step[k \in 0..Len(items)] ==
            IF k = 0 THEN Empty
            ELSE IF items[k][1] = "image"
                 THEN Insert(step[k - 1], Len(step[k - 1].text), None, items[k][2])
                 ELSE [step[k - 1] EXCEPT !.text = Append(@, items[k])]
    IN  AtEnd(step[Len(items)])

\* Mutant: the chips of the draft that is appended keep their places.
AppendDraftUnmoved(d, more) == [d EXCEPT !.text = @ \o more.text, !.chips = @ \o more.chips]
\* append_draft: another draft behind this one, its images inserted one by one.
AppendDraft(d, more) ==
    LET Before(k) == IF k = 1 THEN 0 ELSE more.chips[k - 1].to
        step[k \in 0..Len(more.chips)] ==
            IF k = 0 THEN d
            ELSE LET s == step[k - 1]
                     c == more.chips[k]
                     t == [s EXCEPT !.text = @ \o SubSeq(more.text, Before(k) + 1, c.from)]
                 IN  Insert(t, Len(t.text), c.request, c.image)
        end == step[Len(more.chips)]
    IN  [end EXCEPT !.text = @ \o SubSeq(more.text, Before(Len(more.chips) + 1) + 1, Len(more.text))]

-----------------------------------------------------------------------------
(* composer.rs: words. *)

WordLeft(text, cursor) ==
    LET ends == {p \in 0..cursor :
                    /\ \E q \in (p + 1)..cursor : ~IsSpace(text[q])
                    /\ p = 0 \/ IsSpace(text[p])
                    /\ \A q \in (p + 1)..cursor :
                          IsSpace(text[q]) => \A r \in q..cursor : IsSpace(text[r])}
    IN  IF ends = {} THEN 0 ELSE CHOOSE p \in ends : \A q \in ends : q <= p

WordRight(text, cursor) ==
    LET ends == {p \in cursor..(Len(text) - 1) :
                    /\ IsSpace(text[p + 1])
                    /\ \E q \in (cursor + 1)..p : ~IsSpace(text[q])}
    IN  IF ends = {} THEN Len(text) ELSE CHOOSE p \in ends : \A q \in ends : p <= q

-----------------------------------------------------------------------------
(* text_input.rs: lines. *)

CellWidth(c) == IF c[1] = "w" THEN 2 ELSE 1
WidthOf(cells) == FoldLeft(LAMBDA sum, c : sum + CellWidth(c), 0, cells)
Segment(from, to, shown) == [from |-> from, to |-> to, shown |-> shown]

\* Where the text of a segment ends once trailing white space is dropped.
Trimmed(text, from, to) ==
    LET solid == {p \in (from + 1)..to : ~IsSpace(text[p])}
    IN  IF solid = {} THEN from ELSE CHOOSE p \in solid : \A q \in solid : q <= p

\* Mutant: a line that ends in the white space it was broken at gets no line of its own.
EndsLineShort(acc, end) ==
    IF acc.line = end THEN Append(acc.segments, Segment(end, end, end))
    ELSE IF acc.from < end THEN Append(acc.segments, Segment(acc.from, end, end))
    ELSE acc.segments
\* The end of a line: what is left of it, or a line for the cursor behind trailing space.
EndsLine(acc, end) ==
    LET last == acc.segments[Len(acc.segments)]
        trailing == /\ acc.segments # << >>
                    /\ last.to = end /\ last.shown > last.from /\ last.shown < last.to
    IN  IF acc.line = end THEN Append(acc.segments, Segment(end, end, end))
        ELSE IF acc.from < end \/ trailing
        THEN Append(acc.segments, Segment(acc.from, end, end))
        ELSE acc.segments

\* TextInput::wrap_segments
WrapSegments(text, width) ==
    LET step[p \in 0..Len(text)] ==
            IF p = 0
            THEN [segments |-> << >>, line |-> 0, from |-> 0, width |-> 0, word |-> None]
            ELSE
            LET acc == step[p - 1]
                c == text[p]
                at == p - 1
                w == CellWidth(c)
                word == IF IsSpace(c) THEN p ELSE acc.word
                cut == IF word > acc.from THEN word ELSE at
                broken == Append(acc.segments, Segment(acc.from, cut, Trimmed(text, acc.from, cut)))
                rest == WidthOf(SubSeq(text, cut + 1, at))
            IN  IF c[1] = "n"
                THEN [segments |-> EndsLine(acc, at), line |-> p, from |-> p,
                      width |-> 0, word |-> None]
                ELSE IF w > width
                THEN [acc EXCEPT !.segments =
                          (IF acc.from < at THEN Append(@, Segment(acc.from, at, at)) ELSE @)
                          \o <<Segment(at, p, at)>>,
                          !.from = p, !.width = 0, !.word = None]
                ELSE IF acc.width > 0 /\ acc.width + w > width
                THEN IF cut > at
                     THEN [acc EXCEPT !.segments = broken, !.from = cut, !.width = 0, !.word = None]
                     ELSE IF rest + w > width
                     THEN [acc EXCEPT !.segments = Append(broken, Segment(cut, at, at)),
                                      !.from = at, !.width = w, !.word = None]
                     ELSE [acc EXCEPT !.segments = broken, !.from = cut, !.width = rest + w,
                                      !.word = None]
                ELSE [acc EXCEPT !.width = @ + w, !.word = word]
        end == step[Len(text)]
    IN  EndsLine(end, Len(text))

ContainsCursor(s, cursor) ==
    /\ cursor >= s.from
    /\ \/ cursor < s.to
       \/ cursor = s.to /\ (s.shown = s.to \/ s.shown = s.from)

CursorLine(segments, cursor) ==
    LET lines == {i \in DOMAIN segments : ContainsCursor(segments[i], cursor)}
    IN  IF lines = {} THEN 0 ELSE CHOOSE i \in lines : \A j \in lines : i <= j

Column(text, s, cursor) ==
    WidthOf(SubSeq(text, s.from + 1, IF cursor < s.shown THEN cursor ELSE s.shown))

\* line_cursor: the position of a line nearest to a column, not behind it.
LineCursor(text, s, column) ==
    LET within == {p \in s.from..s.shown : WidthOf(SubSeq(text, s.from + 1, p)) <= column}
    IN  CHOOSE p \in within : \A q \in within : q <= p

-----------------------------------------------------------------------------
(* Keys. *)

MayPress == keys < MaxKeys /\ ~editor.open
Pressed == keys' = keys + 1
StopBrowsing == browse' = [index |-> None, saved |-> Empty, doc |-> NoDoc]

\* What the user sees happen to the characters and images between two positions.
DocEdit(from, to, text) ==
    LET a == ItemsBefore(draft, from)
        b == ItemsBefore(draft, to)
    IN  doc' = [items |-> SubSeq(doc.items, 1, a) \o text \o SubSeq(doc.items, b + 1, Len(doc.items)),
                at |-> a + Len(text)]

Whole(position, forward) == Snap(draft.chips, position, forward)

\* insert_input_text
Type(text) ==
    /\ MayPress /\ Len(doc.items) + Len(text) <= MaxItems
    /\ draft' = Edited(draft.cursor, draft.cursor, text)
    /\ DocEdit(draft.cursor, draft.cursor, text)
    /\ StopBrowsing /\ Pressed /\ UNCHANGED <<worker, editor, request>>

\* handle_paste
PasteText == Type(<<Cell("x"), Cell(" ")>>)

Erase(from, to) ==
    /\ draft' = Edited(from, to, << >>)
    /\ DocEdit(Whole(from, FALSE), Whole(to, TRUE), << >>)
    /\ StopBrowsing /\ Pressed /\ UNCHANGED <<worker, editor, request>>

Backspace == MayPress /\ draft.cursor > 0 /\ Erase(draft.cursor - 1, draft.cursor)

Delete ==
    /\ MayPress /\ draft.cursor < Len(draft.text)
    /\ Erase(draft.cursor, draft.cursor + 1)

\* delete_input_word
DeleteWord(forward) ==
    /\ MayPress /\ draft.text # << >>
    /\ IF forward THEN Erase(draft.cursor, WordRight(draft.text, draft.cursor))
       ELSE Erase(WordLeft(draft.text, draft.cursor), draft.cursor)

MoveTo(position, forward) ==
    /\ draft' = [draft EXCEPT !.cursor = Whole(position, forward)]
    /\ doc' = [doc EXCEPT !.at = ItemsBefore(draft, Whole(position, forward))]
    /\ Pressed /\ UNCHANGED <<browse, worker, editor, request>>

MoveLeft == MayPress /\ draft.cursor > 0 /\ MoveTo(draft.cursor - 1, FALSE)
MoveRight == MayPress /\ draft.cursor < Len(draft.text) /\ MoveTo(draft.cursor + 1, TRUE)
MoveWordLeft == MayPress /\ draft.cursor > 0 /\ MoveTo(WordLeft(draft.text, draft.cursor), FALSE)
MoveWordRight ==
    /\ MayPress /\ draft.cursor < Len(draft.text)
    /\ MoveTo(WordRight(draft.text, draft.cursor), TRUE)

\* apply_input_history_index
Recalled(index) ==
    /\ draft' = [text |-> History[index], chips |-> << >>, cursor |-> Len(History[index])]
    /\ doc' = [items |-> History[index], at |-> Len(History[index])]
    /\ Pressed /\ UNCHANGED <<worker, editor, request>>

\* Mutant: the draft is put aside without its images.
PutAsideText == [text |-> draft.text, chips |-> << >>, cursor |-> draft.cursor]
PutAside == draft

\* handle_input_up: a line up, or the older entry of the history.
Up(width) ==
    /\ MayPress
    /\ LET segments == WrapSegments(draft.text, width)
           line == CursorLine(segments, draft.cursor)
       IN  \/ /\ line > 1
              /\ MoveTo(LineCursor(draft.text, segments[line - 1],
                                   Column(draft.text, segments[line], draft.cursor)), FALSE)
           \/ /\ line <= 1 /\ ~Pending(draft) /\ browse.index < Len(History)
              /\ browse' = IF browse.index = None
                           THEN [index |-> 1, saved |-> PutAside, doc |-> doc]
                           ELSE [browse EXCEPT !.index = @ + 1]
              /\ Recalled(browse.index + 1)

\* handle_input_down: a line down, or the newer entry, or the draft again.
Down(width) ==
    /\ MayPress
    /\ LET segments == WrapSegments(draft.text, width)
           line == CursorLine(segments, draft.cursor)
       IN  \/ /\ line < Len(segments)
              /\ MoveTo(LineCursor(draft.text, segments[line + 1],
                                   IF line = 0 THEN 0
                                   ELSE Column(draft.text, segments[line], draft.cursor)), TRUE)
           \/ /\ line = Len(segments) /\ ~Pending(draft) /\ browse.index > 1
              /\ browse' = [browse EXCEPT !.index = @ - 1]
              /\ Recalled(browse.index - 1)
           \/ /\ line = Len(segments) /\ ~Pending(draft) /\ browse.index = 1
              /\ draft' = AtEnd(browse.saved)
              /\ doc' = [items |-> browse.doc.items, at |-> Len(browse.doc.items)]
              /\ StopBrowsing /\ Pressed /\ UNCHANGED <<worker, editor, request>>

-----------------------------------------------------------------------------
(* images.rs and clipboard_worker.rs *)

\* paste_image: one image loads at a time.
PasteImage ==
    /\ MayPress /\ ~Pending(draft) /\ Len(draft.chips) < MaxImages /\ Len(doc.items) < MaxItems
    /\ request' = request + 1
    /\ draft' = Insert(draft, draft.cursor, request + 1, None)
    /\ DocEdit(draft.cursor, draft.cursor, <<<<"image", request + 1>>>>)
    /\ StopBrowsing /\ Pressed
    /\ worker' = [worker EXCEPT !.queue = Append(@, request + 1)]
    /\ UNCHANGED editor

\* Mutant: a request the worker is too busy for is forgotten.
RefusedQuietly(req) == worker.responses
\* ClipboardWorker::submit answers a request it cannot take with an error.
Refused(req) == Append(worker.responses, [request |-> req, got |-> "failed"])

Submit ==
    /\ worker.queue # << >>
    /\ worker' = [worker EXCEPT
           !.queue = Tail(@), !.busy = TRUE,
           !.job = IF worker.busy THEN @ ELSE Head(worker.queue),
           !.responses = IF worker.busy THEN Refused(Head(worker.queue)) ELSE @]
    /\ UNCHANGED <<draft, browse, editor, request, keys, doc>>

\* What the clipboard helper finds: an image it can encode, none, or an error or a timeout.
Outcomes == {"image", "none", "failed"}

\* The worker's thread is free before it sends its response.
JobDone ==
    /\ worker.job # None /\ worker.busy
    /\ worker' = [worker EXCEPT !.busy = FALSE]
    /\ UNCHANGED <<draft, browse, editor, request, keys, doc>>

Respond(got) ==
    /\ worker.job # None /\ ~worker.busy
    /\ worker' = [worker EXCEPT !.job = None,
                      !.responses = Append(@, [request |-> worker.job, got |-> got])]
    /\ UNCHANGED <<draft, browse, editor, request, keys, doc>>

\* Mutant: a response is for the image that is loading now.
PendingChipAny(req) == {i \in DOMAIN draft.chips : Loading(draft.chips[i])}
\* pending_range: the chip that waits for this request, if it is still there.
PendingChip(req) ==
    {i \in DOMAIN draft.chips : Loading(draft.chips[i]) /\ draft.chips[i].request = req}

\* The cursor beside a label that is taken out.
CursorWithout(from, to) ==
    IF draft.cursor >= to THEN draft.cursor - (to - from)
    ELSE IF draft.cursor < from THEN draft.cursor ELSE from

\* finish_image_import
FinishImage ==
    /\ worker.responses # << >>
    /\ LET answer == Head(worker.responses)
           waiting == PendingChip(answer.request)
           i == CHOOSE k \in waiting : TRUE
           chip == draft.chips[i]
       IN  IF waiting = {} THEN UNCHANGED <<draft, doc>>
           ELSE IF answer.got = "image"
           THEN /\ draft' = [draft EXCEPT !.chips[i].image = answer.request]
                /\ doc' = doc
           ELSE /\ draft' = Renumber([Replace(draft, chip.from, chip.to, << >>) EXCEPT
                                          !.cursor = CursorWithout(chip.from, chip.to)])
                /\ LET k == ItemsBefore(draft, chip.to) IN
                   doc' = [items |-> SubSeq(doc.items, 1, k - 1)
                                       \o SubSeq(doc.items, k + 1, Len(doc.items)),
                           at |-> IF doc.at >= k THEN doc.at - 1 ELSE doc.at]
    /\ worker' = [worker EXCEPT !.responses = Tail(@)]
    /\ UNCHANGED <<browse, editor, request, keys>>

-----------------------------------------------------------------------------
(* Messages. *)

\* The message is sent and the draft cleared, or the session is left and the draft with it.
Clear ==
    /\ MayPress /\ draft.text # << >>
    /\ draft' = Empty /\ doc' = NoDoc
    /\ StopBrowsing /\ Pressed /\ UNCHANGED <<worker, editor, request>>

\* recover_message_draft: a message that was not sent, in front of what is being written.
Recover(message) ==
    /\ keys < MaxKeys /\ Len(message) + Len(doc.items) + 2 <= MaxItems + 2
    /\ LET base == FromContent(message)
           between == IF draft.text = << >> THEN << >> ELSE <<Cell("n"), Cell("n")>>
           front == [base EXCEPT !.text = @ \o between]
           all == AppendDraft(front, draft)
           items == message \o between \o doc.items
       IN  /\ draft' = AtEnd(all)
           /\ doc' = [items |-> items, at |-> Len(items)]
    /\ StopBrowsing /\ Pressed /\ UNCHANGED <<worker, editor, request>>

-----------------------------------------------------------------------------
(* The external editor. *)

\* open_composer_editor writes the draft to a file, each chip under a label of its own.
OpenEditor ==
    /\ MayPress
    /\ editor' = [open |-> TRUE, input |-> draft.text, labels |-> Len(draft.chips),
                  file |-> Content([draft EXCEPT !.chips =
                                        [i \in DOMAIN @ |-> [@[i] EXCEPT !.image = i]]])]
    /\ Pressed /\ UNCHANGED <<draft, browse, worker, request, doc>>

\* What the user may have made of the file: as it was, turned round, with something removed,
\* written or doubled.
Rewritten(items) ==
    {items, Reverse(items), Append(items, Cell("x"))}
    \cup {SubSeq(items, 1, i - 1) \o SubSeq(items, i + 1, Len(items)) : i \in DOMAIN items}
    \cup {Append(items, items[i]) : i \in DOMAIN items}

\* The prompt is what the editor was given.
UnchangedSince == draft.text = editor.input

\* apply_edited_prompt and DraftImages::edited: label k of the file is chip k of the draft.
ApplyEdited(file) ==
    LET once == \A i, j \in DOMAIN file : file[i] = file[j] /\ file[i][1] = "image" => i = j
        step[i \in 0..Len(file)] ==
            IF i = 0 THEN Empty
            ELSE LET s == step[i - 1]
                     label == Label(1)
                     chip == draft.chips[file[i][2]]
                 IN  IF file[i][1] # "image" THEN [s EXCEPT !.text = Append(@, file[i])]
                     ELSE [s EXCEPT !.text = @ \o label,
                                    !.chips = Append(@, [chip EXCEPT
                                        !.from = Len(s.text), !.to = Len(s.text) + Len(label)])]
        images == SelectSeq(doc.items, LAMBDA item : item[1] = "image")
        items == [i \in DOMAIN file |-> IF file[i][1] = "image" THEN images[file[i][2]] ELSE file[i]]
    IN  IF UnchangedSince /\ editor.labels = Len(draft.chips) /\ once
        THEN /\ draft' = AtEnd(Renumber(step[Len(file)]))
             /\ doc' = [items |-> items, at |-> Len(items)]
             /\ StopBrowsing
        ELSE UNCHANGED <<draft, doc, browse>>

\* Runtime responses are handled while the editor runs; keys are not.
CloseEditor ==
    /\ editor.open
    /\ \E file \in Rewritten(editor.file) : ApplyEdited(file)
    /\ editor' = [open |-> FALSE]
    /\ UNCHANGED <<worker, request, keys>>

-----------------------------------------------------------------------------
Next ==
    \/ \E c \in Chars : Type(<<c>>)
    \/ PasteText
    \/ Backspace \/ Delete \/ \E f \in BOOLEAN : DeleteWord(f)
    \/ MoveLeft \/ MoveRight \/ MoveWordLeft \/ MoveWordRight
    \/ \E w \in Widths : Up(w) \/ Down(w)
    \/ PasteImage \/ Submit \/ JobDone \/ \E got \in Outcomes : Respond(got)
    \/ FinishImage
    \/ Clear \/ Recover(<<Cell("x"), <<"image", Earlier>>>>)
    \/ OpenEditor \/ CloseEditor

Spec == Init /\ [][Next]_composerVars

-----------------------------------------------------------------------------
ComposerTypeOK ==
    /\ draft.cursor \in 0..Len(draft.text)
    /\ \A i \in DOMAIN draft.chips :
         draft.chips[i].from \in 0..Len(draft.text) /\ draft.chips[i].to \in 0..Len(draft.text)
    /\ browse.index \in 0..Len(History) /\ keys \in 0..MaxKeys /\ request \in Nat
    /\ worker.busy \in BOOLEAN /\ editor.open \in BOOLEAN

\* Whatever the user typed, erased, moved, recalled and attached, and whatever came back in
\* between, the draft is that: every chip's range holds its own numbered label, the chips are
\* in order and apart, no label is left without its chip, and the message that would be sent
\* has the user's characters and images in the user's order, with the cursor where it was put.
DraftIsWhatWasWritten ==
    /\ Content(draft) = doc.items
    /\ Snap(draft.chips, draft.cursor, TRUE) = draft.cursor
    /\ ItemsBefore(draft, draft.cursor) = doc.at
    /\ \A i \in DOMAIN draft.chips :
         /\ draft.chips[i].number = i
         /\ SubSeq(draft.text, draft.chips[i].from + 1, draft.chips[i].to) = Label(i)
    /\ \A p \in DOMAIN draft.text : draft.text[p][1] \in {"#", "_"} =>
         \E i \in DOMAIN draft.chips : draft.chips[i].from < p /\ p <= draft.chips[i].to

\* An image that is still loading is going to finish: its request is with the worker, or its
\* answer is on its way.  A draft whose image never finished could not be sent (submit_message),
\* nor another image pasted (paste_image).
LoadingImageFinishes ==
    \A i \in DOMAIN draft.chips : Loading(draft.chips[i]) =>
        \/ draft.chips[i].request \in {worker.queue[k] : k \in DOMAIN worker.queue}
        \/ draft.chips[i].request = worker.job
        \/ \E k \in DOMAIN worker.responses : worker.responses[k].request = draft.chips[i].request

\* However the text is wrapped, every position of the cursor is on a line, the lines follow
\* each other without gap or overlap, and no line is wider than the prompt.
EveryCursorOnALine ==
    \A w \in Widths :
        LET segments == WrapSegments(draft.text, w) IN
        /\ \A p \in 0..Len(draft.text) : CursorLine(segments, p) > 0
        /\ \A i \in DOMAIN segments :
             /\ WidthOf(SubSeq(draft.text, segments[i].from + 1, segments[i].shown)) <= w
             /\ i > 1 => segments[i].from \in {segments[i - 1].to, segments[i - 1].to + 1}
=============================================================================
