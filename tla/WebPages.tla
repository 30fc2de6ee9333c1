------------------------------ MODULE WebPages -------------------------------
(***************************************************************************)
(* The public pages together: a user opens a page, works with it, reloads  *)
(* it.  What outlives a page is in local storage.                          *)
(***************************************************************************)
EXTENDS Playground, StatusPage, CatalogPages, DocsPage, Preferences

CONSTANTS
    Pages,     \* the pages that are visited
    MaxVisits  \* bound of the model: how often a page is loaded

ASSUME PagesAssumption == Pages \subseteq CatalogPage \cup {"status", "playground", "docs"}
ASSUME MaxVisitsAssumption == MaxVisits \in Nat

VARIABLES
    theme,  \* bound of the model: the page that a behaviour is about
    visits  \* how often a page was loaded

chat == <<savedKey, acts>>
vars == <<view, calls, backend, chat, content, language, theme, visits>>

Init ==
    /\ theme \in Pages
    /\ LanguageInit
    /\ theme # "home" => stored = Unset
    /\ view = [page |-> "none"]
    /\ calls = <<>>
    /\ loggedIn \in IF theme = "playground" THEN BOOLEAN ELSE {FALSE}
    /\ catalog \in Catalogues
    /\ health \in Health
    /\ theme # "status" => health = CHOOSE h \in Health : TRUE
    /\ mishaps = 0
    /\ savedKey \in IF theme = "playground" THEN ValidKeys \cup {NoKey} ELSE {NoKey}
    /\ acts = 0
    /\ content \in IF theme = "docs" THEN Contents ELSE {<<>>}
    /\ theme \notin CatalogPage =>
          catalog = CHOOSE c \in Catalogues : \A d \in Catalogues : Len(d) <= Len(c)
    /\ visits = 0

\* A page as it is rendered first, and the calls of its mount effect.
Fresh(page) ==
    IF page = "playground" THEN ChatView
    ELSE IF page = "status" THEN StatusView
    ELSE IF page = "docs" THEN DocsView
    ELSE CatalogView(page)

Mounted(page) ==
    IF page = "playground" THEN ChatMounted
    ELSE [view |-> view,
          calls |-> IF page = "status" THEN <<Ask("status", <<>>)>>
                    ELSE IF page \in CatalogPage THEN <<Ask("catalog", <<>>)>>
                    ELSE <<>>]

\* A link, the address bar or a reload: the calls of the tab are dropped.
Open(page) ==
    /\ visits < MaxVisits
    /\ visits' = visits + 1
    /\ view' = Fresh(page)
    /\ calls' = <<>>
    /\ FreshLanguage
    /\ UNCHANGED <<backend, chat, content, theme>>

\* The effects run after the first rendering, those of the page before the provider's.
Mount ==
    /\ ~On("none")
    /\ MountLanguage
    /\ view' = Mounted(view.page).view
    /\ calls' = Mounted(view.page).calls
    /\ UNCHANGED <<backend, chat, content, theme, visits>>

\* Handlers work once the page is mounted.
Work ==
    /\ mounted
    /\ \/ ChatUser
       \/ Calculate /\ UNCHANGED chat
       \/ (\E s \in Sections : SetActive(s)) /\ UNCHANGED chat
       \/ (\E l \in Languages : SetSdkLang(l)) /\ UNCHANGED chat
    /\ UNCHANGED <<content, language, theme, visits>>

Arrive(i) ==
    /\ i \in DOMAIN calls
    /\ \/ ChatArrives(i)
       \/ (StatusArrives(i) \/ CatalogArrives(i)) /\ UNCHANGED chat
    /\ UNCHANGED <<content, language, theme, visits>>

Handle(i) ==
    /\ i \in DOMAIN calls
    /\ Serve(i)
    /\ UNCHANGED <<chat, content, language, theme, visits>>

Interval ==
    /\ mounted
    /\ Poll
    /\ UNCHANGED <<chat, content, language, theme, visits>>

Effect ==
    /\ Persist
    /\ UNCHANGED <<view, calls, backend, chat, content, theme, visits>>

Pick ==
    /\ theme = "home"
    /\ \E l \in Locales : PickLocale(l) \/ OtherTabPicks(l)
    /\ UNCHANGED <<view, calls, backend, chat, content, theme, visits>>

\* What others do: requests fail, connections break, tables and verdicts change.
Others ==
    /\ \/ \E i \in DOMAIN calls : Fail(i) /\ UNCHANGED chat
       \/ \E i \in DOMAIN calls : Upstream(i)
       \/ theme \in {"calculator", "playground"} /\ ChangeCatalog /\ UNCHANGED chat
       \/ theme = "status" /\ ChangeHealth /\ UNCHANGED chat
    /\ UNCHANGED <<content, language, theme, visits>>

Next ==
    \/ Open(theme) \/ Mount \/ Work \/ Interval \/ Effect \/ Pick \/ Others
    \/ \E i \in 1 .. MaxCalls : Arrive(i) \/ Handle(i)

Spec == Init /\ [][Next]_vars

(***************************************************************************)
(* Effects run, the interval fires, the oldest request is answered, and    *)
(* its answer is handled.  No upstream has to write, or to end a stream.   *)
(***************************************************************************)
Fairness ==
    /\ WF_vars(Mount) /\ WF_vars(Effect) /\ WF_vars(Interval)
    /\ WF_vars(Handle(1)) /\ WF_vars(Arrive(1))

FairSpec == Spec /\ Fairness

-----------------------------------------------------------------------------
\* The language that is stored is the one the user picked last, and the document
\* is in the language the page shows: a page that starts in the default language
\* and reads the stored one later never writes the default over it, however often
\* it is reloaded before its effects have run.  The exceptions are another tab that
\* writes between this tab's reading and writing, and a click on the language that is
\* shown already after another tab has stored another.
ChosenLocaleKept ==
    /\ wish # Unset => stored = wish
    /\ mounted /\ ~due => lang = locale

\* Questions and answers of the playground alternate, one answer is awaited at a
\* time, and a conversation nobody waits for ends with an answer, whatever failed
\* and whenever it was cleared.
ConversationAlternates ==
    On("playground") =>
        /\ \A i \in 1 .. Len(Transcript) - 1 : Transcript[i].role # Transcript[i + 1].role
        /\ view.streaming <=> \E c \in Range(calls) : c.op = "chat"
        /\ ~view.streaming /\ view.messages # <<>> => Last(view.messages).role = "assistant"
        /\ Cardinality({i \in DOMAIN calls : calls[i].op = "chat"}) <= 1

\* An answer holds, in order and once, every line the page received except those
\* that a chunk boundary cut in two; so does the text while it is streamed, unless
\* it was cleared.
LinesShown ==
    On("playground") =>
        /\ \A m \in Range(view.messages) :
              m.role = "assistant" /\ ~m.error =>
                  \E n \in 0 .. MaxLines : Uncut(m.content, n, m.cuts)
        /\ \A c \in Range(calls) : c.op = "chat" =>
              /\ Uncut(c.arg.full, c.arg.at \div 2, c.arg.cuts)
              /\ Last(Transcript).content \in {<<>>, c.arg.full}

\* While the table is the one the calculator loaded, a model of it is selected, its
\* quote is what the gateway charges for such a request, and no row of the
\* comparison is cheaper than the one above it.
QuotedAsBilled ==
    On("calculator") /\ ~view.loading /\ view.models = catalog /\ catalog # <<>> =>
        /\ \E m \in Range(catalog) : /\ m.id = view.selected
                                   /\ CostPerRequest = Billed(m, view.input, view.output)
        /\ Range(SortedModels) = Range(catalog)
        /\ \A i, j \in DOMAIN SortedModels : i < j =>
              Billed(SortedModels[i], view.input, view.output)
                  <= Billed(SortedModels[j], view.input, view.output)

\* Every line of the documentation is shown once and in order, as code exactly if
\* an odd number of fences come before it; only fences, blank lines and the line
\* under a table's header are not shown.
DocsComplete ==
    On("docs") /\ view.active # "sdks" =>
        LET lines == content
            Showing(k) == {n \in DOMAIN Shown : k \in Shown[n].shows}
            Fenced(k) == Cardinality({j \in 1 .. k - 1 : lines[j] = "fence"}) % 2 = 1
            Separates(k) == HasDashes(lines[k]) /\ \E b \in Range(Shown) :
                                                      b.kind = "table" /\ b.at = k - 1
        IN  \A k \in DOMAIN lines :
               /\ lines[k] # "fence" =>
                     (Fenced(k) <=> \E n \in Showing(k) : Shown[n].kind = "code")
               /\ Cardinality(Showing(k)) =
                     IF lines[k] = "fence" \/ (lines[k] = "blank" /\ ~Fenced(k)) \/ Separates(k)
                     THEN 0 ELSE 1
               /\ \A n \in DOMAIN Shown : n > 1 => Shown[n - 1].at < Shown[n].at

\* The stream the playground reads is open: the page waits for the upstream.
Streamed == \E c \in Range(calls) : c.op = "chat" /\ c.status = "open"

\* No page waits for ever for something that has happened: a catalogue page leaves its
\* loading text, and the playground does not stay in an answer whose request failed or
\* was refused, or whose stream broke off or ended.  Only an upstream that leaves its
\* stream open keeps it there.
NothingWaitsForever ==
    /\ (view.page \in CatalogPage /\ view.loading) ~> (view.page \in CatalogPage /\ ~view.loading)
    /\ []<>(On("playground") /\ view.streaming => Streamed)

\* When the verdict of the backend stays, the status page comes to show it, without
\* the error of an earlier poll and for good: answers of older polls that are still
\* on their way run out.
StatusCatchesUp ==
    \A h \in Health :
        <>[](On("status") /\ health = h) =>
            <>[](On("status") /\ ~view.error /\
                 Verdict = IF h = "operational" THEN "operational" ELSE "degraded")
=============================================================================
