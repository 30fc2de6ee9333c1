----------------------------- MODULE Playground ------------------------------
(***************************************************************************)
(* The playground: an API key, the models it offers, and a conversation    *)
(* whose answers are streamed.                                             *)
(*                                                                         *)
(* A streamed line is two halves, because a chunk of the response can end  *)
(* anywhere in it.  The page looks for lines in one chunk at a time and    *)
(* skips what does not parse, so a line is shown when both of its halves   *)
(* come in one chunk.  Line number d carries the d-th piece of the answer. *)
(***************************************************************************)
EXTENDS Tab

CONSTANTS
    Keys,          \* what the user types as a key: complete keys, with the prefix sk-
    NoKey,         \* the empty field
    Typing,        \* a key without that prefix
    DefaultModel,  \* the model the page starts with
    MaxLines,      \* bound of the model: lines of an answer
    MaxActs        \* bound of the model: what the user does here

ASSUME KeysAssumption == NoKey \notin Keys /\ Typing \notin Keys
ASSUME PlaygroundBoundsAssumption == {MaxLines, MaxActs} \subseteq Nat

VARIABLES
    savedKey,  \* localStorage "playground_key", NoKey if there is none
    acts       \* how much the user has done

ChatView ==
    [page |-> "playground", key |-> NoKey, model |-> DefaultModel, models |-> <<>>,
     messages |-> <<>>, streaming |-> FALSE, text |-> <<>>]

Says(role, content, error, cuts) ==
    [role |-> role, content |-> content, error |-> error, cuts |-> cuts]
Error == Says("assistant", <<>>, TRUE, {})

\* The mount effect: whoever is not logged in is sent to the login page; a saved
\* key is used at once.
AskModels(key, model) == Ask("ids", [key |-> key, model |-> model])
ChatMounted ==
    IF ~loggedIn THEN [view |-> [page |-> "login"], calls |-> <<>>]
    ELSE [view |-> [view EXCEPT !.key = savedKey],
          calls |-> IF savedKey = NoKey THEN <<>> ELSE <<AskModels(savedKey, DefaultModel)>>]

Acts ==
    /\ On("playground")
    /\ acts < MaxActs
    /\ acts' = acts + 1

Quietly == UNCHANGED <<backend, savedKey>>
Unasked == Quietly /\ UNCHANGED acts

\* handleKeyChange: every change is saved; what looks like a key is tried.
TypeKey(k) ==
    /\ Acts
    /\ k # view.key
    /\ Len(calls) < MaxCalls
    /\ view' = [view EXCEPT !.key = k]
    /\ savedKey' = k
    /\ calls' = IF k \in Keys THEN Append(calls, AskModels(k, view.model)) ELSE calls
    /\ UNCHANGED backend

\* The answer to loadModels: a model that is not in the list gives way to the
\* first one; model is the one of the rendering that started the call, so a model that
\* was chosen meanwhile may go or stay whatever the new list holds.
Chosen(ids, model) ==
    IF ids # <<>> /\ model \notin Range(ids) THEN ids[1] ELSE view.model

\* An error answer is a list without models; what does not parse is ignored.
ModelsArrive(i) ==
    /\ calls[i].op = "ids"
    /\ Answered(calls[i])
    /\ view' = IF calls[i].status = "broken" THEN view
               ELSE [view EXCEPT !.models = calls[i].body,
                                 !.model = Chosen(calls[i].body, calls[i].arg.model)]
    /\ calls' = RemoveAt(calls, i)
    /\ Unasked

\* The select element: an option for every model, or the current one alone.
SelectModel(id) ==
    /\ Acts
    /\ id \in Range(view.models) /\ id # view.model
    /\ view' = [view EXCEPT !.model = id]
    /\ UNCHANGED calls
    /\ Quietly

-----------------------------------------------------------------------------
(* The conversation. *)

\* The list of messages; the answer that is streamed comes last.
Transcript ==
    IF view.streaming THEN Append(view.messages, Says("assistant", view.text, FALSE, {}))
    ELSE view.messages

\* Mutant of MaySend: a message can be sent while another is being answered.
MaySendAnyTime == view.key # NoKey

\* The guard of handleSend and of the button, for a message that is not blank.
MaySend == view.key # NoKey /\ ~view.streaming

\* handleSend up to its first await.
Send ==
    /\ Acts
    /\ MaySend
    /\ Len(calls) < MaxCalls
    /\ view' = [view EXCEPT !.messages = Append(@, Says("user", <<>>, FALSE, {})),
                            !.streaming = TRUE, !.text = <<>>]
    /\ calls' = Append(calls, Ask("chat", [key |-> view.key, at |-> 0, full |-> <<>>, cuts |-> {}]))
    /\ Quietly

\* The clear button works while an answer is being streamed.
Clear ==
    /\ Acts
    /\ view' = [view EXCEPT !.messages = <<>>, !.text = <<>>]
    /\ UNCHANGED calls
    /\ Quietly

\* The lines that a chunk from half p + 1 to half q holds completely, in order,
\* and those it holds a half of.
Complete(p, q) ==
    LET first == (p + 1) \div 2 IN [j \in 1 .. (q \div 2) - first |-> first + j]
Cut(p, q) ==
    (IF p % 2 = 1 THEN {(p + 1) \div 2} ELSE {}) \cup (IF q % 2 = 1 THEN {(q + 1) \div 2} ELSE {})

\* A text of the first n lines, each once and in order, without those that were cut.
Uncut(text, n, cuts) ==
    /\ Range(text) = (1 .. n) \ cuts
    /\ \A i, j \in DOMAIN text : i < j => text[i] < text[j]

\* Mutant of Grown: the text starts anew with every chunk.
GrownAnew(full, lines) == lines

\* The pieces of a chunk are added to fullText.
Grown(full, lines) == full \o lines

\* reader.read() returns a chunk: the upstream has written some more.
Chunk(i) ==
    /\ calls[i].op = "chat"
    /\ calls[i].status = "open"
    /\ \E q \in calls[i].arg.at + 1 .. 2 * MaxLines :
          LET a == calls[i].arg
              lines == Complete(a.at, q)
              full == IF lines = <<>> THEN a.full ELSE Grown(a.full, lines)
          IN  /\ calls' = [calls EXCEPT ![i].arg = [a EXCEPT !.at = q, !.full = full,
                                                            !.cuts = @ \cup Cut(a.at, q)]]
              /\ view' = IF lines = <<>> THEN view ELSE [view EXCEPT !.text = full]
    /\ Unasked

\* The upstream ends the answer, be it within a line.  Nothing makes it end or go on:
\* the gateway puts no limit on a stream it has begun to relay.
UpstreamEnds(i) ==
    /\ calls[i].op = "chat"
    /\ calls[i].status = "open"
    /\ calls' = [calls EXCEPT ![i].status = "ended"]
    /\ UNCHANGED view
    /\ Unasked

\* reader.read() tells the end; without any text the message says so.
StreamEnds(i) ==
    /\ calls[i].op = "chat"
    /\ calls[i].status = "ended"
    /\ view' = [view EXCEPT !.messages = Append(@, Says("assistant", calls[i].arg.full, FALSE,
                                                        calls[i].arg.cuts)),
                            !.text = <<>>, !.streaming = FALSE]
    /\ calls' = RemoveAt(calls, i)
    /\ Unasked

\* Mutant of AfterError: the error path forgets the flag.
AfterErrorStreaming == view

\* The finally block, and setStreaming on the path of a refused request.
AfterError == [view EXCEPT !.streaming = FALSE]

\* The request is refused or rejected: the answer is an error message.
SendFails(i) ==
    /\ calls[i].op = "chat"
    /\ Answered(calls[i])
    /\ view' = [AfterError EXCEPT !.messages = Append(@, Error)]
    /\ calls' = RemoveAt(calls, i)
    /\ Unasked

\* The connection breaks: read() rejects.  The text shown so far stays in the
\* state, but it is shown only while streaming.
StreamBreaks(i) ==
    /\ calls[i].op = "chat"
    /\ calls[i].status = "open"
    /\ mishaps < MaxMishaps
    /\ mishaps' = mishaps + 1
    /\ view' = [AfterError EXCEPT !.messages = Append(@, Error)]
    /\ calls' = RemoveAt(calls, i)
    /\ UNCHANGED <<loggedIn, catalog, health, savedKey, acts>>

ChatArrives(i) == ModelsArrive(i) \/ StreamEnds(i) \/ SendFails(i)

Upstream(i) == Chunk(i) \/ UpstreamEnds(i) \/ StreamBreaks(i)

ChatUser ==
    \/ \E k \in Keys \cup {NoKey, Typing} : TypeKey(k)
    \/ On("playground") /\ \E id \in Range(view.models) : SelectModel(id)
    \/ Send \/ Clear
=============================================================================
