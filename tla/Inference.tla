----------------------------- MODULE Inference ------------------------------
(***************************************************************************)
(* core/inference.Service and the two handlers in front of it: one         *)
(* request from the bound JSON body to the answer and the usage record     *)
(* that bills it.  Requests share nothing here: what they do share (the    *)
(* key pool, the breakers, the billing store) has modules of its own.      *)
(*                                                                         *)
(* A chat completion goes through a chain of providers (FallbackProvider;  *)
(* a provider that heads no group is a chain of one).  A stream is read    *)
(* line by line from the provider, translated by the Anthropic adapter if  *)
(* need be, forwarded to the client and metered.  The upstream and the     *)
(* client act on their own: lines arrive at any time, the upstream may     *)
(* stop sending or close, and the client may leave.                        *)
(***************************************************************************)
EXTENDS Integers, Sequences

CONSTANTS
    Chains,       \* chains of providers, as sequences of wire formats
    Sizes,        \* numbers of content bytes of one line
    ScanLimit,    \* the largest line bufio.Scanner returns (64 KiB)
    Tokens,       \* token counts an upstream may report
    PromptSize,   \* what estimatePromptTokens sums over the messages
    InputPrice, OutputPrice,
    MaxLines      \* bound of the model: lines one upstream stream sends

Wires == {"openai", "anthropic"}

ASSUME ChainsAssumption == \A c \in Chains : c \in Seq(Wires) /\ c # <<>>
ASSUME SizesAssumption == Sizes \subseteq Nat /\ 0 \in Sizes
ASSUME TokensAssumption == Tokens \subseteq Nat
ASSUME NumbersAssumption ==
    /\ ScanLimit \in Nat /\ PromptSize \in Nat /\ MaxLines \in Nat
    /\ InputPrice \in Nat \ {0} /\ OutputPrice \in Nat \ {0}

VARIABLES
    phase,     \* idle, calling, streaming, done
    endpoint,  \* chat, stream (chat with "stream": true), embedding
    chain,     \* the providers that are still to be tried
    status,    \* HTTP status of the answer, 0 before it
    bills,     \* usage records handed to the billing recorder
    client,    \* environment: the client is connected
    wire,      \* environment: lines the upstream sent, not yet read
    sent,      \* environment: how many lines the upstream sent
    closed,    \* environment: the upstream ended the stream
    buf,       \* lines of the stream the service has still to scan
    done,      \* anthropicStreamAdapter.done
    usage,     \* streamPT and streamCT
    chars,     \* totalContentChars
    shown,     \* history: the usage of the last line naming it that the client received
    received,  \* history: content bytes the client received
    ending     \* history: why the stream ended

environment == <<client, wire, sent, closed>>
meter == <<buf, done, usage, chars>>
history == <<shown, received, ending>>
vars == <<phase, endpoint, chain, status, bills, environment, meter, history>>

-----------------------------------------------------------------------------
(***************************************************************************)
(* Lines.  A data line carries some content and perhaps names "usage", in  *)
(* quotes: with a report, or without one, which a null field does as well  *)
(* as a piece of content that is this very word.  Every other line (blank, *)
(* comment, "data: [DONE]") is forwarded only.                             *)
(***************************************************************************)
Absent == [field |-> "absent"]
Named == [field |-> "named"]        \* "usage":null, or "content":"usage"
Report(pt, ct) == [field |-> "report", pt |-> pt, ct |-> ct]
Reports == {Report(pt, ct) : pt \in Tokens \cup {0}, ct \in Tokens}
Usages == {Absent, Named} \cup Reports

Data(n, u) == [kind |-> "data", chars |-> n, usage |-> u]
Plain == [kind |-> "plain", chars |-> 0, usage |-> Absent]
Lines == {Data(n, u) : n \in Sizes, u \in Usages} \cup {Plain}

\* Anthropic's events: "event" is an event: line, "skipped" any data event
\* for which the adapter writes nothing (message_start, ping, a tool delta).
Event(t, n, u) == [kind |-> t, chars |-> n, usage |-> u]
Events ==
    {Event(t, 0, Absent) : t \in {"event", "skipped", "other", "stop"}}
    \cup {Event("text", n, u) : n \in Sizes, u \in {Absent, Named}}
    \cup {Event("delta", 0, u) : u \in {Absent} \cup {Report(0, ct) : ct \in Tokens}}

\* What the adapter writes for one line of the source: for an event it knows
\* a chunk ("data: [DONE]" for message_stop) and a blank line.  message_delta
\* carries the output tokens only; the input tokens came with message_start.
Chunk(e) == IF e.kind = "stop" THEN Plain ELSE Data(e.chars, e.usage)

Convert(e) ==
    IF e.kind \in {"event", "skipped"} THEN <<>>
    ELSE IF e.kind = "other" THEN <<Plain>> ELSE <<Chunk(e), Plain>>

-----------------------------------------------------------------------------
(***************************************************************************)
(* Metering.                                                               *)
(***************************************************************************)
AtLeastOne(n) == IF n >= 1 THEN n ELSE 1

estimatePromptTokens == AtLeastOne(PromptSize \div 4)

calculateTokenCost(pt, ct) == pt * InputPrice + ct * OutputPrice

Bill(s, code, pt, ct) ==
    [status |-> s, code |-> code, pt |-> pt, ct |-> ct,
     cost |-> calculateTokenCost(pt, ct)]

NoTokens == [pt |-> 0, ct |-> 0]

\* extractStreamUsage
extractStreamUsage(u) ==
    IF u.field = "report" THEN [pt |-> u.pt, ct |-> u.ct] ELSE NoTokens

\* The counts that are billed: those the upstream reported, else estimates.
StreamTokens(u, n) ==
    IF u = NoTokens
    THEN [pt |-> estimatePromptTokens, ct |-> AtLeastOne(n \div 4)]
    ELSE u

-----------------------------------------------------------------------------
Init ==
    /\ phase = "idle" /\ endpoint = "chat" /\ chain = <<>>
    /\ status = 0 /\ bills = <<>>
    /\ client = TRUE /\ wire = <<>> /\ sent = 0
    /\ closed = FALSE
    /\ buf = <<>> /\ done = FALSE /\ usage = NoTokens /\ chars = 0
    /\ shown = Absent /\ received = 0 /\ ending = "none"

\* The handler answers; records are what recordUsage is given, if called.
Answer(code, records) ==
    /\ phase' = "done"
    /\ status' = code
    /\ bills' = bills \o records

\* A body that does not bind or names no model, an unknown model, a provider
\* that is not registered or has no key: answered without calling upstream.
Refuse(ep, code) ==
    /\ phase = "idle"
    /\ endpoint' = ep
    /\ Answer(code, <<>>)
    /\ UNCHANGED <<chain, environment, meter, history>>

\* The request has its route and its key; the upstream call begins.
Route(ep, c) ==
    /\ phase = "idle"
    /\ phase' = "calling"
    /\ endpoint' = ep
    /\ chain' = c
    /\ UNCHANGED <<status, bills, environment, meter, history>>

\* Mutant of ProviderFails: every provider that fails is recorded.
ProviderFailsRecorded ==
    /\ phase = "calling" /\ endpoint # "embedding"
    /\ chain' = Tail(chain)
    /\ IF chain' # <<>>
       THEN bills' = Append(bills, Bill("error", 502, 0, 0)) /\ UNCHANGED <<phase, status>>
       ELSE Answer(502, <<Bill("error", 502, 0, 0)>>)
    /\ UNCHANGED <<endpoint, environment, meter, history>>

\* A provider of the chain fails (or the request was cancelled): the next
\* one is tried, and only the failure of the last is answered and recorded.
ProviderFails ==
    /\ phase = "calling" /\ endpoint # "embedding"
    /\ chain' = Tail(chain)
    /\ IF chain' # <<>>
       THEN UNCHANGED <<phase, status, bills>>
       ELSE Answer(502, <<Bill("error", 502, 0, 0)>>)
    /\ UNCHANGED <<endpoint, environment, meter, history>>

\* A chat completion, with or without a usage object.
ChatAnswers(u) ==
    /\ phase = "calling" /\ endpoint = "chat"
    /\ LET t == extractStreamUsage(u)
       IN  Answer(200, <<Bill("ok", 200, t.pt, t.ct)>>)
    /\ UNCHANGED <<endpoint, chain, environment, meter, history>>

\* Embeddings go straight to the provider's URL; a failure is answered with
\* the upstream's own status (502 if there is none) and is not recorded.
EmbeddingFails(code) ==
    /\ phase = "calling" /\ endpoint = "embedding"
    /\ Answer(code, <<>>)
    /\ UNCHANGED <<endpoint, chain, environment, meter, history>>

EmbeddingAnswers(pt) ==
    /\ phase = "calling" /\ endpoint = "embedding"
    /\ Answer(200, <<Bill("ok", 200, pt, 0)>>)
    /\ UNCHANGED <<endpoint, chain, environment, meter, history>>

-----------------------------------------------------------------------------
(***************************************************************************)
(* Streams.                                                                *)
(***************************************************************************)
StreamOpens ==
    /\ phase = "calling" /\ endpoint = "stream"
    /\ phase' = "streaming"
    /\ UNCHANGED <<endpoint, chain, status, bills, environment, meter, history>>

\* Mutant of EndStream: no estimate when the upstream reported nothing.
EndStreamNoEstimate(why, u, n) ==
    /\ Answer(200, <<Bill("ok", 200, u.pt, u.ct)>>)
    /\ ending' = why

\* The scan loop is left, for whatever reason: the stream is billed as "ok"
\* from the usage u and the number n of content bytes metered so far.
EndStream(why, u, n) ==
    /\ LET t == StreamTokens(u, n)
       IN  Answer(200, <<Bill("ok", 200, t.pt, t.ct)>>)
    /\ ending' = why

\* Read: the next line of the source.  The Anthropic adapter answers with
\* what it has written into its buffer, and an empty buffer reads as io.EOF.
Read ==
    /\ phase = "streaming" /\ buf = <<>> /\ ~done /\ wire # <<>>
    /\ LET l   == Head(wire)
           out == IF Head(chain) = "anthropic" THEN Convert(l) ELSE <<l>>
       IN  /\ wire' = Tail(wire)
           /\ buf' = out
           /\ done' = (l.kind = "stop")
           /\ IF out = <<>>
              THEN EndStream("eof", usage, chars)
              ELSE UNCHANGED <<phase, status, bills, ending>>
    /\ UNCHANGED <<endpoint, chain, client, sent, closed,
                   usage, chars, shown, received>>

\* The source has ended, or message_stop was the adapter's last event.
ReadEOF ==
    /\ phase = "streaming" /\ buf = <<>>
    /\ done \/ (closed /\ wire = <<>>)
    /\ EndStream("eof", usage, chars)
    /\ UNCHANGED <<endpoint, chain, environment, meter, shown, received>>

\* Mutant of ReadCancelled: the upstream call outlives the request's context.
ReadCancelledDetached ==
    /\ phase = "streaming" /\ buf = <<>> /\ ~client /\ closed
    /\ EndStream("cancelled", usage, chars)
    /\ UNCHANGED <<endpoint, chain, environment, meter, shown, received>>

\* The request's context is cancelled when its client leaves: the upstream
\* body returns an error, which the loop takes for the end.
ReadCancelled ==
    /\ phase = "streaming" /\ buf = <<>> /\ ~client
    /\ EndStream("cancelled", usage, chars)
    /\ UNCHANGED <<endpoint, chain, environment, meter, shown, received>>

\* scanner.Scan gives up on a line beyond its buffer; Err is never asked.
LineTooLong ==
    /\ phase = "streaming" /\ buf # <<>> /\ Head(buf).chars > ScanLimit
    /\ EndStream("long", usage, chars)
    /\ UNCHANGED <<endpoint, chain, environment, meter, shown, received>>

\* Mutant of MeteredUsage: every data line is searched for a usage object.
MeteredUsageAlways(l) ==
    IF l.kind = "data" THEN extractStreamUsage(l.usage) ELSE usage

\* streamPT and streamCT after line l: any data line that contains "usage" in
\* quotes sets them, to 0 if it has no report.
MeteredUsage(l) ==
    IF l.usage # Absent THEN extractStreamUsage(l.usage) ELSE usage

\* One turn of the loop: line l is metered, then written.
Meter(l) ==
    /\ phase = "streaming" /\ buf # <<>>
    /\ l = Head(buf) /\ l.chars <= ScanLimit
    /\ buf' = Tail(buf)
    /\ usage' = MeteredUsage(l)
    /\ chars' = chars + l.chars
    /\ UNCHANGED <<endpoint, chain, environment, done>>

\* The write succeeds; after the client left it may still go into a socket
\* buffer nobody reads.
ForwardLine ==
    LET l == Head(buf)
    IN  /\ Meter(l)
        /\ shown' = IF client /\ l.usage # Absent THEN l.usage ELSE shown
        /\ received' = IF client THEN received + l.chars ELSE received
        /\ UNCHANGED <<phase, status, bills, ending>>

WriteFails ==
    LET l == Head(buf)
    IN  /\ ~client
        /\ Meter(l)
        /\ EndStream("write", MeteredUsage(l), chars + l.chars)
        /\ UNCHANGED <<shown, received>>

-----------------------------------------------------------------------------
(***************************************************************************)
(* The environment.  Lines and events come in any order; what names usage  *)
(* without a report may come before a report as well as behind it.         *)
(***************************************************************************)
UpstreamSends(l) ==
    /\ phase = "streaming" /\ ~closed /\ sent < MaxLines
    /\ l \in (IF Head(chain) = "anthropic" THEN Events ELSE Lines)
    /\ wire' = Append(wire, l)
    /\ sent' = sent + 1
    /\ UNCHANGED <<phase, endpoint, chain, status, bills, client, closed,
                   meter, history>>

\* The body ends or breaks off: the scanner stops in the same way.
UpstreamCloses ==
    /\ phase = "streaming" /\ ~closed
    /\ closed' = TRUE
    /\ UNCHANGED <<phase, endpoint, chain, status, bills, client, wire, sent,
                   meter, history>>

ClientLeaves ==
    /\ phase \in {"calling", "streaming"} /\ client
    /\ client' = FALSE
    /\ UNCHANGED <<phase, endpoint, chain, status, bills, wire, sent,
                   closed, meter, history>>

Endpoints == {"chat", "stream", "embedding"}

Arrives ==
    \E ep \in Endpoints :
        \/ \E code \in {400, 404, 500} : Refuse(ep, code)
        \/ \E c \in Chains : Route(ep, c)

CallEnds ==
    \/ ProviderFails
    \/ \E u \in {Absent} \cup Reports : ChatAnswers(u)
    \/ \E code \in {429, 502} : EmbeddingFails(code)
    \/ \E pt \in Tokens : EmbeddingAnswers(pt)
    \/ StreamOpens

Stream ==
    Read \/ ReadEOF \/ ReadCancelled \/ LineTooLong \/ ForwardLine \/ WriteFails

Environment ==
    \/ \E l \in Lines \cup Events : UpstreamSends(l)
    \/ UpstreamCloses \/ ClientLeaves

Terminated == phase = "done" /\ UNCHANGED vars

Next == Arrives \/ CallEnds \/ Stream \/ Environment \/ Terminated

Spec == Init /\ [][Next]_vars

(***************************************************************************)
(* An upstream call ends (the clients have a timeout for the answer, the   *)
(* stream client one for the response headers) and the loop goes on while  *)
(* it can.  Nothing is assumed of the upstream once a stream is open: the  *)
(* stream client has no timeout for it.                                    *)
(***************************************************************************)
FairSpec == Spec /\ WF_vars(CallEnds) /\ WF_vars(Stream)

-----------------------------------------------------------------------------
(***************************************************************************)
(* Types; the metered counts stay numbers and the buffer holds lines.      *)
(***************************************************************************)
BillRecords ==
    [status : {"ok", "error"}, code : Nat, pt : Nat, ct : Nat, cost : Nat]

TypeOK ==
    /\ phase \in {"idle", "calling", "streaming", "done"}
    /\ endpoint \in Endpoints
    /\ chain \in Seq(Wires)
    /\ phase \in {"calling", "streaming"} => chain # <<>>
    /\ status \in Nat
    /\ bills \in Seq(BillRecords)
    /\ client \in BOOLEAN /\ closed \in BOOLEAN
    /\ wire \in Seq(IF chain # <<>> /\ Head(chain) = "anthropic" THEN Events ELSE Lines)
    /\ sent \in 0 .. MaxLines
    /\ buf \in Seq(Lines)
    /\ done \in BOOLEAN
    /\ usage \in [pt : Nat, ct : Nat]
    /\ chars \in Nat
    /\ shown \in Usages
    /\ received \in Nat
    /\ ending \in {"none", "eof", "cancelled", "long", "write"}

(***************************************************************************)
(* One request, one record: however many providers of the chain failed     *)
(* before, a request is recorded at most once, when it is answered, with   *)
(* the status the client was answered with.  Every 200 is recorded as      *)
(* "ok", and so is every failed chat (as "error"), stream or not.          *)
(***************************************************************************)
RecordedOnce ==
    /\ Len(bills) <= 1
    /\ bills # <<>> => /\ phase = "done"
                       /\ bills[1].code = status
                       /\ bills[1].status = "ok" <=> status = 200
    /\ phase = "done" /\ (status = 200 \/ (status = 502 /\ endpoint # "embedding"))
          => bills # <<>>

(***************************************************************************)
(* A stream is billed for what its client saw.  A client that stayed pays  *)
(* exactly the usage report it was sent or, if it was sent none or a later *)
(* line that names usage without a report erased it, the estimate for      *)
(* exactly the content it received: nothing is metered that was not        *)
(* delivered.  A client that left pays for no less than the content it     *)
(* received, unless the usage of the upstream is known.                    *)
(***************************************************************************)
BilledAsShown ==
    ending # "none" =>
        LET b == bills[1]
            seen == StreamTokens(extractStreamUsage(shown), received)
        IN  IF client THEN b.pt = seen.pt /\ b.ct = seen.ct
            ELSE usage = NoTokens => b.ct >= AtLeastOne(received \div 4)

(***************************************************************************)
(* No stream is free: wherever it was cut off and whatever the upstream    *)
(* reported, an opened stream costs something.                             *)
(***************************************************************************)
StreamNeverFree == ending # "none" => bills[1].cost > 0

(***************************************************************************)
(* A client that leaves frees the request: the upstream call is abandoned  *)
(* and recorded even if the upstream stays silent and never closes.        *)
(***************************************************************************)
GoneClientReleases == ~client ~> phase = "done"

(***************************************************************************)
(* What the adapter's comments say of event lines and of the events it has *)
(* no chunk for: they are skipped.  So a stream that ended because its     *)
(* reader returned EOF has seen message_stop or the end of the source.     *)
(***************************************************************************)
SkipsOtherEvents == ending = "eof" => done \/ (closed /\ wire = <<>>)

-----------------------------------------------------------------------------
(***************************************************************************)
(* The strengthening that makes these invariants inductive.                *)
(***************************************************************************)
\* Before the answer there is no record and no ending, and before the stream
\* is open the upstream has sent nothing.
Unanswered ==
    /\ phase # "done" => bills = <<>> /\ status = 0 /\ ending = "none"
    /\ phase \in {"idle", "calling"} => wire = <<>>

\* While the stream runs, what was metered is what the client was shown.
MeterExact ==
    phase # "done" =>
        /\ client => usage = extractStreamUsage(shown) /\ chars = received
        /\ chars >= received

Inv ==
    TypeOK /\ RecordedOnce /\ StreamNeverFree /\ BilledAsShown
    /\ Unanswered /\ MeterExact
=============================================================================
