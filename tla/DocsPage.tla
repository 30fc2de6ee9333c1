------------------------------ MODULE DocsPage -------------------------------
(***************************************************************************)
(* The documentation: sections in a small Markdown, which the page turns   *)
(* into blocks line by line.  Of a line only its class counts:             *)
(*   fence  starts with three backticks     head   starts with ## or ###   *)
(*   row    holds a bar                     sep    holds a bar and ---     *)
(*   rule   holds --- and no bar            text   anything else           *)
(*   blank  nothing but spaces                                             *)
(* A line of two classes (a heading or a fence with a bar or ---) is left  *)
(* out.                                                                    *)
(* A block says which line it starts at, which lines it shows, and the     *)
(* line at which the loop goes on.                                         *)
(***************************************************************************)
EXTENDS Tab

CONSTANTS
    Sections,   \* ids of the sections; "sdks" shows code samples instead
    Languages,  \* languages of the code samples
    MaxDocs     \* bound of the model: lines of a section

ASSUME SectionsAssumption == "quickstart" \in Sections
ASSUME MaxDocsAssumption == MaxDocs \in Nat

VARIABLE content  \* the lines of the section, which never change

Classes == {"fence", "head", "row", "sep", "rule", "text", "blank"}
HasBar(line) == line \in {"row", "sep"}
HasDashes(line) == line \in {"sep", "rule"}

\* The first line from i on whose class ends a run, or the end.
RunEnd(lines, i, ends) ==
    LET stops == {j \in i .. Len(lines) : lines[j] \in ends}
    IN  IF stops = {} THEN Len(lines) + 1 ELSE CHOOSE j \in stops : \A k \in stops : j <= k

\* Mutant of CodeBlock: the closing fence is not skipped.
CodeBlockOpen(lines, i) ==
    LET last == RunEnd(lines, i + 1, {"fence"})
    IN  [kind |-> "code", at |-> i, shows |-> i + 1 .. last - 1, next |-> last]

\* Everything up to the closing fence, or to the end if there is none.
CodeBlock(lines, i) ==
    LET last == RunEnd(lines, i + 1, {"fence"})
    IN  [kind |-> "code", at |-> i, shows |-> i + 1 .. last - 1, next |-> last + 1]

IsTable(lines, i) == HasBar(lines[i]) /\ i < Len(lines) /\ HasDashes(lines[i + 1])

\* The header, and the rows after the separator.
Table(lines, i) ==
    LET last == RunEnd(lines, i + 2, {l \in Classes : ~HasBar(l)})
    IN  [kind |-> "table", at |-> i, shows |-> {i} \cup i + 2 .. last - 1, next |-> last]

\* A heading, a paragraph, or nothing for a blank line.
Line(lines, i) ==
    [kind |-> lines[i], at |-> i, shows |-> IF lines[i] = "blank" THEN {} ELSE {i}, next |-> i + 1]

\* One turn of the loop.
BlockAt(lines, i) ==
    IF lines[i] = "fence" THEN CodeBlock(lines, i)
    ELSE IF IsTable(lines, i) THEN Table(lines, i)
    ELSE Line(lines, i)

\* MarkdownContent.
Blocks(lines) ==
    LET From[i \in 1 .. Len(lines) + 2] ==
            IF i > Len(lines) THEN <<>>
            ELSE LET b == BlockAt(lines, i) IN <<b>> \o From[b.next]
    IN  From[1]

-----------------------------------------------------------------------------
\* What the section that is not "sdks" holds: any text of at most MaxDocs lines.
Contents == UNION {[1 .. n -> Classes] : n \in 0 .. MaxDocs}

DocsView == [page |-> "docs", active |-> "quickstart", lang |-> "Python"]

\* The sidebar and the language tabs.
SetActive(section) ==
    /\ On("docs")
    /\ section # view.active
    /\ view' = [view EXCEPT !.active = section]
    /\ UNCHANGED <<calls, backend>>

SetSdkLang(lang) ==
    /\ On("docs")
    /\ view.active = "sdks"
    /\ lang # view.lang
    /\ view' = [view EXCEPT !.lang = lang]
    /\ UNCHANGED <<calls, backend>>

\* What the page shows of the section that is open.
Shown == IF view.active = "sdks" THEN <<>> ELSE Blocks(content)
=============================================================================
