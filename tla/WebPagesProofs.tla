--------------------------- MODULE WebPagesProofs ----------------------------
(***************************************************************************)
(* Proofs about WebPages: the chosen language is kept, the playground      *)
(* keeps its conversation and its text in order, the calculator quotes     *)
(* what is billed, and the documentation shows every line, for any         *)
(* catalogues and keys, answers and texts of any length, and any number of *)
(* calls, visits, failures and acts of the user.                           *)
(*                                                                         *)
(* What a page shows next is what its calls were answered, so the          *)
(* invariant is about the calls too: only the playground has calls for     *)
(* models and chats, and the text a chat has gathered holds the lines      *)
(* received so far.                                                        *)
(***************************************************************************)
EXTENDS WebPages, FiniteSetTheorems, SequenceTheorems, WellFoundedInduction, TLAPS

-----------------------------------------------------------------------------
(* The inductive invariants. *)

\* The language that is stored is the one wished for, also while the second effect
\* is due; what it is about to write is the wish as well.
LanguageInv ==
    /\ wish \in Locales \cup {Unset}
    /\ wish # Unset => stored = wish
    /\ mounted /\ due /\ wish # Unset => locale = wish
    /\ mounted /\ ~due => lang = locale

IsSeq(s) == s \in Seq(Range(s))

IsChat(c) == c.op = "chat"
ForPlayground(c) == c.op \in {"ids", "chat"}

\* The text gathered by a chat: the lines up to half number at.
Gathered(arg) ==
    /\ DOMAIN arg = {"key", "at", "full", "cuts"}
    /\ arg.at \in 0 .. 2 * MaxLines
    /\ arg.full \in Seq(Nat)
    /\ arg.cuts \subseteq 1 .. (arg.at + 1) \div 2
    /\ Uncut(arg.full, arg.at \div 2, arg.cuts)

CallOK(c) ==
    /\ DOMAIN c = {"op", "arg", "status", "body"}
    /\ IsChat(c) => Gathered(c.arg)

MessageOK(m) ==
    m.role = "assistant" /\ ~m.error => \E n \in 0 .. MaxLines : Uncut(m.content, n, m.cuts)

\* Questions and answers alternate, the last one is the question that is being
\* answered, or an answer.
Alternates(ms) == \A i \in 1 .. Len(ms) - 1 : ms[i].role # ms[i + 1].role

MessagesOK(messages, streaming) ==
    /\ IsSeq(messages)
    /\ \A i \in DOMAIN messages : MessageOK(messages[i])
    /\ Alternates(messages)
    /\ messages # <<>> =>
          messages[Len(messages)].role = IF streaming THEN "user" ELSE "assistant"

ChatViewOK ==
    /\ DOMAIN view = DOMAIN ChatView
    /\ view.streaming \in BOOLEAN
    /\ MessagesOK(view.messages, view.streaming)

\* One chat is in flight while the page is streaming, and its text is shown unless
\* it was cleared.
ChatsOK ==
    /\ view.streaming => \E i \in DOMAIN calls : IsChat(calls[i])
    /\ \A i \in DOMAIN calls : IsChat(calls[i]) =>
          /\ view.streaming
          /\ view.text \in {<<>>, calls[i].arg.full}
          /\ \A j \in DOMAIN calls : IsChat(calls[j]) => i = j

PagesInv ==
    /\ "page" \in DOMAIN view
    /\ IsSeq(calls)
    /\ \A i \in DOMAIN calls : CallOK(calls[i]) /\ (ForPlayground(calls[i]) <=> On("playground"))
    /\ ~mounted => calls = <<>>
    /\ catalog \in Catalogues
    /\ On("playground") => ChatViewOK /\ ChatsOK

-----------------------------------------------------------------------------
(* Sequences. *)

LEMMA SeqFacts ==
    ASSUME NEW s, IsSeq(s)
    PROVE  /\ Len(s) \in Nat /\ DOMAIN s = 1 .. Len(s)
           /\ s = <<>> <=> Len(s) = 0
           /\ \A i \in DOMAIN s : s[i] \in Range(s)
  BY DEF IsSeq, Range

LEMMA SeqIsSeq ==
    ASSUME NEW S, NEW s \in Seq(S)
    PROVE  IsSeq(s)
<1>1. \A i \in 1 .. Len(s) : s[i] \in Range(s)
  BY DEF Range
<1> QED
  BY <1>1 DEF IsSeq

LEMMA EmptyFacts == IsSeq(<<>>) /\ DOMAIN <<>> = {} /\ Len(<<>>) = 0
  BY DEF IsSeq

LEMMA SingleFacts ==
    ASSUME NEW x
    PROVE  IsSeq(<<x>>) /\ DOMAIN <<x>> = {1} /\ <<x>>[1] = x
<1>1. <<x>> \in Seq({x})
  OBVIOUS
<1>2. IsSeq(<<x>>)
  BY <1>1, SeqIsSeq
<1>3. DOMAIN <<x>> = {1} /\ <<x>>[1] = x
  OBVIOUS
<1> QED
  BY <1>2, <1>3

LEMMA AppendFacts ==
    ASSUME NEW s, IsSeq(s), NEW x
    PROVE  /\ IsSeq(Append(s, x))
           /\ Len(Append(s, x)) = Len(s) + 1
           /\ DOMAIN Append(s, x) = 1 .. Len(s) + 1
           /\ \A i \in 1 .. Len(s) : Append(s, x)[i] = s[i]
           /\ Append(s, x)[Len(s) + 1] = x
<1>1. PICK S : S = Range(s) \cup {x}
  OBVIOUS
<1>2. s \in Seq(S) /\ x \in S
  BY <1>1 DEF IsSeq
<1>3. /\ Append(s, x) \in Seq(S)
      /\ Len(Append(s, x)) = Len(s) + 1
      /\ \A i \in 1 .. Len(s) : Append(s, x)[i] = s[i]
      /\ Append(s, x)[Len(s) + 1] = x
  BY <1>2, AppendProperties
<1>4. DOMAIN Append(s, x) = 1 .. Len(s) + 1
  BY <1>3
<1>5. IsSeq(Append(s, x))
  BY <1>3, SeqIsSeq
<1> QED
  BY <1>3, <1>4, <1>5

LEMMA RemoveFacts ==
    ASSUME NEW s, IsSeq(s), NEW i \in DOMAIN s
    PROVE  /\ IsSeq(RemoveAt(s, i))
           /\ DOMAIN RemoveAt(s, i) = 1 .. Len(s) - 1
           /\ \A j \in 1 .. Len(s) - 1 : RemoveAt(s, i)[j] = IF j < i THEN s[j] ELSE s[j + 1]
<1> DEFINE a == SubSeq(s, 1, i - 1)
           b == SubSeq(s, i + 1, Len(s))
<1>1. PICK S : s \in Seq(S)
  BY DEF IsSeq
<1>2. i \in 1 .. Len(s) /\ Len(s) \in Nat
  BY <1>1
<1>3. a \in Seq(S) /\ Len(a) = i - 1 /\ \A j \in 1 .. i - 1 : a[j] = s[j]
  BY <1>1, <1>2
<1>4. b \in Seq(S) /\ Len(b) = Len(s) - i /\ \A j \in 1 .. Len(s) - i : b[j] = s[i + j]
  BY <1>1, <1>2
<1> HIDE DEF a, b
<1>5. /\ a \o b \in Seq(S) /\ Len(a \o b) = Len(s) - 1
      /\ \A j \in 1 .. Len(s) - 1 : (a \o b)[j] = IF j < i THEN a[j] ELSE b[j - (i - 1)]
  BY <1>2, <1>3, <1>4
<1>6. \A j \in 1 .. Len(s) - 1 : (a \o b)[j] = IF j < i THEN s[j] ELSE s[j + 1]
  <2> TAKE j \in 1 .. Len(s) - 1
  <2>1. CASE j < i
    BY <1>2, <1>3, <1>5, <2>1
  <2>2. CASE j >= i
    <3>1. j - (i - 1) \in 1 .. Len(s) - i /\ i + (j - (i - 1)) = j + 1
      BY <1>2, <2>2
    <3>2. b[j - (i - 1)] = s[j + 1]
      BY <1>4, <3>1
    <3> QED BY <1>2, <1>5, <2>2, <3>2
  <2>3. j < i \/ j >= i
    BY <1>2
  <2> QED
    BY <2>1, <2>2, <2>3, Zenon
<1>7. RemoveAt(s, i) = a \o b
  BY DEF RemoveAt, a, b
<1>8. IsSeq(RemoveAt(s, i))
  BY <1>5, <1>7, SeqIsSeq
<1>9. DOMAIN (a \o b) = 1 .. Len(s) - 1
  BY <1>2, <1>5
<1> QED
  BY <1>6, <1>7, <1>8, <1>9

\* What holds of all elements holds of those that are left.
LEMMA RemoveElements ==
    ASSUME NEW s, IsSeq(s), NEW i \in DOMAIN s
    PROVE  /\ \A j \in DOMAIN RemoveAt(s, i) :
                 \E k \in DOMAIN s \ {i} : RemoveAt(s, i)[j] = s[k]
           /\ \A k \in DOMAIN s \ {i} :
                 \E j \in DOMAIN RemoveAt(s, i) : RemoveAt(s, i)[j] = s[k]
           /\ \A j, l \in DOMAIN RemoveAt(s, i) : j # l =>
                 \E k, m \in DOMAIN s \ {i} :
                    k # m /\ RemoveAt(s, i)[j] = s[k] /\ RemoveAt(s, i)[l] = s[m]
<1> DEFINE r == RemoveAt(s, i)
           From(j) == IF j < i THEN j ELSE j + 1
<1>1. /\ Len(s) \in Nat /\ i \in 1 .. Len(s) /\ DOMAIN s = 1 .. Len(s)
      /\ DOMAIN r = 1 .. Len(s) - 1
      /\ \A j \in 1 .. Len(s) - 1 : r[j] = IF j < i THEN s[j] ELSE s[j + 1]
  BY SeqFacts, RemoveFacts
<1> HIDE DEF r
<1>2. \A j \in DOMAIN r : From(j) \in DOMAIN s \ {i} /\ r[j] = s[From(j)]
  BY <1>1
<1>3. \A k \in DOMAIN s \ {i} : \E j \in DOMAIN r : From(j) = k
  <2> TAKE k \in DOMAIN s \ {i}
  <2>1. CASE k < i
    BY <1>1, <2>1
  <2>2. CASE k > i
    <3>1. k - 1 \in DOMAIN r /\ From(k - 1) = k
      BY <1>1, <2>2
    <3> QED BY <3>1
  <2> QED
    BY <1>1, <2>1, <2>2
<1>4. \A j, l \in DOMAIN r : j # l => From(j) # From(l)
  BY <1>1
<1> HIDE DEF From
<1> QED
  BY <1>2, <1>3, <1>4 DEF r

-----------------------------------------------------------------------------
(* The lines of an answer. *)

\* The lines that a chunk completes come behind those gathered.
LEMMA Joined ==
    ASSUME NEW s \in Seq(Nat), NEW t \in Seq(Nat), NEW a \in Nat,
           Range(s) \subseteq 0 .. a, \A x \in Range(t) : x > a,
           \A i, j \in DOMAIN s : i < j => s[i] < s[j],
           \A i, j \in DOMAIN t : i < j => t[i] < t[j]
    PROVE  /\ s \o t \in Seq(Nat)
           /\ Range(s \o t) = Range(s) \cup Range(t)
           /\ \A i, j \in DOMAIN (s \o t) : i < j => (s \o t)[i] < (s \o t)[j]
<1> DEFINE u == s \o t
<1>1. /\ Len(s) \in Nat /\ DOMAIN s = 1 .. Len(s) /\ Len(t) \in Nat /\ DOMAIN t = 1 .. Len(t)
      /\ \A i \in DOMAIN s : s[i] \in Nat /\ s[i] \in Range(s)
      /\ \A i \in DOMAIN t : t[i] \in Nat /\ t[i] \in Range(t)
  BY DEF Range
<1>2. /\ u \in Seq(Nat) /\ DOMAIN u = 1 .. Len(s) + Len(t)
      /\ \A i \in DOMAIN u : u[i] = IF i <= Len(s) THEN s[i] ELSE t[i - Len(s)]
  BY ConcatProperties
<1> HIDE DEF u
<1>2a. ASSUME NEW i \in DOMAIN u, i <= Len(s)
      PROVE  i \in DOMAIN s /\ u[i] = s[i]
  BY <1>1, <1>2, <1>2a
<1>2b. ASSUME NEW i \in DOMAIN u, ~(i <= Len(s))
      PROVE  i - Len(s) \in DOMAIN t /\ u[i] = t[i - Len(s)]
  BY <1>1, <1>2, <1>2b
<1>3. Range(u) \subseteq Range(s) \cup Range(t)
  <2>1. ASSUME NEW i \in DOMAIN u PROVE u[i] \in Range(s) \cup Range(t)
    BY <1>1, <1>2a, <1>2b
  <2> QED BY <2>1 DEF Range
<1>4. Range(s) \subseteq Range(u)
  <2>1. ASSUME NEW i \in DOMAIN s PROVE i \in DOMAIN u /\ u[i] = s[i]
    BY <1>1, <1>2
  <2> QED BY <2>1 DEF Range
<1>5. Range(t) \subseteq Range(u)
  <2>1. ASSUME NEW i \in DOMAIN t PROVE Len(s) + i \in DOMAIN u /\ u[Len(s) + i] = t[i]
    <3>1. Len(s) + i \in DOMAIN u /\ ~(Len(s) + i <= Len(s)) /\ (Len(s) + i) - Len(s) = i
      BY <1>1, <1>2
    <3> QED BY <1>2, <3>1
  <2> QED BY <2>1 DEF Range
<1>6. ASSUME NEW i \in DOMAIN u, NEW j \in DOMAIN u, i < j PROVE u[i] < u[j]
  <2>1. CASE j <= Len(s)
    BY <1>1, <1>2, <1>6, <2>1
  <2>2. CASE i <= Len(s) /\ ~(j <= Len(s))
    <3>1. j - Len(s) \in DOMAIN t /\ u[j] = t[j - Len(s)] /\ i \in DOMAIN s /\ u[i] = s[i]
      BY <1>2a, <1>2b, <2>2
    <3>2. s[i] \in 0 .. a /\ t[j - Len(s)] > a /\ t[j - Len(s)] \in Nat
      BY <1>1, <3>1
    <3> QED BY <3>1, <3>2
  <2>3. CASE ~(i <= Len(s))
    <3>1. /\ i - Len(s) \in DOMAIN t /\ j - Len(s) \in DOMAIN t /\ i - Len(s) < j - Len(s)
          /\ u[i] = t[i - Len(s)] /\ u[j] = t[j - Len(s)]
      <4>1. i \in Nat /\ j \in Nat /\ ~(j <= Len(s)) /\ i - Len(s) < j - Len(s)
        BY <1>1, <1>2, <1>6, <2>3
      <4> QED BY <1>2b, <2>3, <4>1
    <3> QED BY <3>1
  <2> QED BY <1>1, <1>2, <1>6, <2>1, <2>2, <2>3
<1> QED
  BY <1>2, <1>3, <1>4, <1>5, <1>6 DEF u

\* What a chunk holds completely: the lines after the one it may begin in.
LEMMA CompleteFacts ==
    ASSUME NEW p \in Nat, NEW q \in Nat, p < q
    PROVE  /\ Complete(p, q) \in Seq(Nat)
           /\ Range(Complete(p, q)) = (p + 1) \div 2 + 1 .. q \div 2
           /\ \A i, j \in DOMAIN Complete(p, q) : i < j => Complete(p, q)[i] < Complete(p, q)[j]
<1> DEFINE first == (p + 1) \div 2
           n == (q \div 2) - first
           t == [j \in 1 .. n |-> first + j]
<1>1. first \in Nat /\ n \in Nat /\ first + n = q \div 2
  OBVIOUS
<1>2. Complete(p, q) = t
  BY DEF Complete
<1> HIDE DEF first, n
<1>3. t \in Seq(Nat) /\ DOMAIN t = 1 .. n /\ \A j \in 1 .. n : t[j] = first + j
  BY <1>1
<1> HIDE DEF t
<1>4. Range(t) = first + 1 .. first + n
  <2>1. ASSUME NEW x \in first + 1 .. first + n PROVE x - first \in DOMAIN t /\ t[x - first] = x
    <3>1. x - first \in 1 .. n /\ first + (x - first) = x
      BY <1>1
    <3> QED BY <1>3, <3>1
  <2>2. \A j \in DOMAIN t : t[j] \in first + 1 .. first + n
    BY <1>1, <1>3
  <2> QED BY <2>1, <2>2 DEF Range
<1>5. \A i, j \in DOMAIN t : i < j => t[i] < t[j]
  BY <1>1, <1>3
<1> QED
  BY <1>1, <1>2, <1>3, <1>4, <1>5 DEF first

\* The lines behind chunk p .. q are those before it and the complete ones.
Splits(p, q, cuts) ==
    /\ (1 .. q \div 2) \ (cuts \cup Cut(p, q)) =
          ((1 .. p \div 2) \ cuts) \cup ((p + 1) \div 2 + 1 .. q \div 2)
    /\ cuts \cup Cut(p, q) \subseteq 1 .. (q + 1) \div 2

LEMMA LinesSplit ==
    ASSUME NEW p \in Nat, NEW q \in Nat, p < q, NEW cuts, cuts \subseteq 1 .. (p + 1) \div 2
    PROVE  Splits(p, q, cuts)
<1>1. CASE p % 2 = 1 /\ q % 2 = 1
  BY <1>1 DEF Cut, Splits
<1>2. CASE p % 2 = 1 /\ q % 2 # 1
  BY <1>2 DEF Cut, Splits
<1>3. CASE p % 2 # 1 /\ q % 2 = 1
  BY <1>3 DEF Cut, Splits
<1>4. CASE p % 2 # 1 /\ q % 2 # 1
  BY <1>4 DEF Cut, Splits
<1> QED
  BY <1>1, <1>2, <1>3, <1>4

\* A chunk keeps what was gathered, and gathers what it completes.
LEMMA ChunkGathers ==
    ASSUME NEW arg, Gathered(arg), NEW q \in arg.at + 1 .. 2 * MaxLines, NEW full,
           full = IF Complete(arg.at, q) = <<>> THEN arg.full
                  ELSE Grown(arg.full, Complete(arg.at, q))
    PROVE  Gathered([arg EXCEPT !.at = q, !.full = full, !.cuts = @ \cup Cut(arg.at, q)])
<1> DEFINE new == [arg EXCEPT !.at = q, !.full = full, !.cuts = @ \cup Cut(arg.at, q)]
<1>0. PICK p : p = arg.at
  OBVIOUS
<1>0a. PICK cuts : cuts = arg.cuts
  OBVIOUS
<1>0b. PICK lines : lines = Complete(p, q)
  OBVIOUS
<1>1. /\ MaxLines \in Nat /\ p \in Nat /\ q \in Nat /\ p < q /\ q \in 0 .. 2 * MaxLines
      /\ arg.full \in Seq(Nat) /\ cuts \subseteq 1 .. (p + 1) \div 2
  BY <1>0, <1>0a, PlaygroundBoundsAssumption DEF Gathered
<1>2. /\ Range(arg.full) = (1 .. p \div 2) \ cuts
      /\ \A i, j \in DOMAIN arg.full : i < j => arg.full[i] < arg.full[j]
  BY <1>0, <1>0a DEF Gathered, Uncut
<1>3. /\ DOMAIN new = {"key", "at", "full", "cuts"}
      /\ new.at = q /\ new.full = full /\ new.cuts = cuts \cup Cut(p, q)
  BY <1>0, <1>0a DEF Gathered
<1>4. /\ lines \in Seq(Nat)
      /\ Range(lines) = (p + 1) \div 2 + 1 .. q \div 2
      /\ \A i, j \in DOMAIN lines : i < j => lines[i] < lines[j]
  BY <1>1, <1>0b, CompleteFacts
<1>5. /\ (1 .. q \div 2) \ (cuts \cup Cut(p, q)) = Range(arg.full) \cup Range(lines)
      /\ cuts \cup Cut(p, q) \subseteq 1 .. (q + 1) \div 2
  <2>1. Splits(p, q, cuts)
    BY <1>1, LinesSplit
  <2> QED
    BY <1>2, <1>4, <2>1, Zenon DEF Splits
<1>6. /\ full \in Seq(Nat)
      /\ Range(full) = Range(arg.full) \cup Range(lines)
      /\ \A i, j \in DOMAIN full : i < j => full[i] < full[j]
  <2>1. CASE lines = <<>>
    BY <1>0, <1>0b, <1>1, <1>2, <2>1, EmptyFacts DEF Range
  <2>2. CASE lines # <<>>
    <3>1. full = arg.full \o lines
      BY <1>0, <1>0b, <2>2 DEF Grown
    <3>2. (p + 1) \div 2 \in Nat /\ p \div 2 <= (p + 1) \div 2 /\ p \div 2 \in Nat
      BY <1>1
    <3>3. Range(arg.full) \subseteq 0 .. (p + 1) \div 2 /\ \A x \in Range(lines) : x > (p + 1) \div 2
      BY <1>2, <1>4, <3>2
    <3> QED
      BY <1>1, <1>2, <1>4, <3>1, <3>2, <3>3, Joined
  <2> QED BY <2>1, <2>2
<1>7. Uncut(full, q \div 2, cuts \cup Cut(p, q))
  BY <1>5, <1>6 DEF Uncut
<1>8. Gathered(new)
  <2> HIDE DEF new
  <2> QED
    BY <1>1, <1>3, <1>5, <1>6, <1>7 DEF Gathered
<1> QED
  BY <1>8

-----------------------------------------------------------------------------
(* The language. *)

LEMMA LanguageStart == Init => LanguageInv
  BY DEF Init, LanguageInit, LanguageInv

LEMMA LanguageSteps == LanguageInv /\ [Next]_vars => LanguageInv'
<1> SUFFICES ASSUME LanguageInv, [Next]_vars PROVE LanguageInv'
  OBVIOUS
<1>1. CASE Open(theme)
  BY <1>1 DEF Open, FreshLanguage, LanguageInv
<1>2. CASE Mount
  <2>1. ~mounted /\ mounted' = TRUE /\ due' = TRUE /\ stored' = stored /\ wish' = wish
        /\ locale' = readStoredLocale
    BY <1>2 DEF Mount, MountLanguage, Written
  <2>2. wish # Unset => locale' = wish
    BY <2>1 DEF LanguageInv, readStoredLocale
  <2> QED
    BY <2>1, <2>2 DEF LanguageInv
<1>3. CASE Effect
  BY <1>3 DEF Effect, Persist, Written, LanguageInv
<1>4. CASE Pick
  <2>1. PICK l \in Locales : PickLocale(l) \/ OtherTabPicks(l)
    BY <1>4 DEF Pick
  <2>2. CASE PickLocale(l)
    BY <2>2 DEF PickLocale, LanguageInv
  <2>3. CASE OtherTabPicks(l)
    BY <2>3 DEF OtherTabPicks, LanguageInv
  <2> QED BY <2>1, <2>2, <2>3
<1>5. CASE UNCHANGED language
  BY <1>5 DEF language, LanguageInv
<1>6. CASE Work \/ Interval \/ Others \/ \E i \in 1 .. MaxCalls : Arrive(i) \/ Handle(i)
  BY <1>5, <1>6 DEF Work, Interval, Others, Arrive, Handle
<1> QED
  BY <1>1, <1>2, <1>3, <1>4, <1>5, <1>6 DEF Next, vars

-----------------------------------------------------------------------------
(* The calls and the page. *)

LEMMA InitPages == Init => PagesInv
<1> SUFFICES ASSUME Init PROVE PagesInv
  OBVIOUS
<1>1. view = [page |-> "none"] /\ calls = <<>> /\ catalog \in Catalogues
  BY DEF Init
<1> QED
  BY <1>1, EmptyFacts DEF PagesInv, On

\* A step that leaves the page, and of each call what was asked, as they were.
LEMMA AnswersKeep ==
    ASSUME PagesInv, UNCHANGED view, mounted' = mounted, catalog' \in Catalogues,
           IsSeq(calls'), DOMAIN calls' = DOMAIN calls,
           \A i \in DOMAIN calls :
              CallOK(calls'[i]) /\ calls'[i].op = calls[i].op /\ calls'[i].arg = calls[i].arg
    PROVE  PagesInv'
<1>1. ~mounted' => calls' = <<>>
  BY SeqFacts, EmptyFacts DEF PagesInv
<1>2. On("playground") => ChatsOK'
  BY DEF PagesInv, ChatsOK, IsChat
<1>3. On("playground") => ChatViewOK'
  BY DEF PagesInv, ChatViewOK, ChatView
<1> QED
  BY <1>1, <1>2, <1>3 DEF PagesInv, On, ForPlayground

LEMMA UnchangedPages ==
    ASSUME PagesInv, UNCHANGED <<view, calls>>, mounted' = mounted, catalog' \in Catalogues
    PROVE  PagesInv'
  BY AnswersKeep DEF PagesInv

LEMMA AnswerOK ==
    ASSUME NEW c, CallOK(c)
    PROVE  CallOK(Answer(c)) /\ Answer(c).op = c.op /\ Answer(c).arg = c.arg
<1>1. DOMAIN Answer(c) = DOMAIN c /\ Answer(c).op = c.op /\ Answer(c).arg = c.arg
  BY DEF Answer, CallOK
<1> QED
  BY <1>1 DEF CallOK, IsChat

LEMMA PutFacts ==
    ASSUME NEW s, IsSeq(s), NEW i \in DOMAIN s, NEW x
    PROVE  /\ IsSeq([s EXCEPT ![i] = x]) /\ DOMAIN [s EXCEPT ![i] = x] = DOMAIN s
           /\ \A k \in DOMAIN s : [s EXCEPT ![i] = x][k] = IF k = i THEN x ELSE s[k]
<1>1. PICK S : S = Range(s) \cup {x}
  OBVIOUS
<1>2. s \in Seq(S) /\ x \in S
  BY <1>1 DEF IsSeq
<1>3. [s EXCEPT ![i] = x] \in Seq(S)
  BY <1>2
<1>4. IsSeq([s EXCEPT ![i] = x])
  BY <1>3, SeqIsSeq
<1> QED
  BY <1>2, <1>4

LEMMA ServeKeeps ==
    ASSUME PagesInv, NEW i \in DOMAIN calls, Serve(i), mounted' = mounted
    PROVE  PagesInv'
<1>1. /\ calls' = [calls EXCEPT ![i] = Answer(calls[i])] /\ UNCHANGED view
      /\ catalog' = catalog /\ IsSeq(calls) /\ catalog \in Catalogues
      /\ \A k \in DOMAIN calls : CallOK(calls[k])
  BY DEF Serve, backend, PagesInv
<1>2. PICK c : c = Answer(calls[i])
  OBVIOUS
<1>3. CallOK(c) /\ c.op = calls[i].op /\ c.arg = calls[i].arg
  BY <1>1, <1>2, AnswerOK
<1> QED
  BY <1>1, <1>2, <1>3, PutFacts, AnswersKeep

LEMMA FailKeeps ==
    ASSUME PagesInv, NEW i \in DOMAIN calls, Fail(i), mounted' = mounted
    PROVE  PagesInv'
<1>1. /\ UNCHANGED view /\ catalog' = catalog /\ IsSeq(calls) /\ catalog \in Catalogues
      /\ \A k \in DOMAIN calls : CallOK(calls[k])
  BY DEF Fail, PagesInv
<1>2. PICK status : calls' = [calls EXCEPT ![i].status = status]
  BY DEF Fail
<1>3. PICK c : c = [calls[i] EXCEPT !.status = status]
  OBVIOUS
<1>4. calls' = [calls EXCEPT ![i] = c]
  BY <1>2, <1>3
<1>5. CallOK(c) /\ c.op = calls[i].op /\ c.arg = calls[i].arg
  BY <1>1, <1>3 DEF CallOK, IsChat
<1> QED
  BY <1>1, <1>4, <1>5, PutFacts, AnswersKeep

\* A step of a page that is not the playground.
LEMMA OtherPage ==
    ASSUME PagesInv, ~On("playground"), mounted, mounted' = mounted, catalog' = catalog,
           "page" \in DOMAIN view', view'.page = view.page, IsSeq(calls'),
           \A i \in DOMAIN calls' : CallOK(calls'[i]) /\ ~ForPlayground(calls'[i])
    PROVE  PagesInv'
  BY DEF PagesInv, On, ForPlayground

LEMMA SameCalls ==
    ASSUME PagesInv, ~On("playground")
    PROVE  /\ IsSeq(calls)
           /\ \A i \in DOMAIN calls : CallOK(calls[i]) /\ ~ForPlayground(calls[i])
  BY DEF PagesInv

LEMMA RemovedCalls ==
    ASSUME PagesInv, ~On("playground"), NEW i \in DOMAIN calls, calls' = RemoveAt(calls, i)
    PROVE  /\ IsSeq(calls')
           /\ \A j \in DOMAIN calls' : CallOK(calls'[j]) /\ ~ForPlayground(calls'[j])
<1>1. IsSeq(calls')
  BY RemoveFacts DEF PagesInv
<1>2. \A j \in DOMAIN calls' : \E k \in DOMAIN calls : calls'[j] = calls[k]
  BY RemoveElements DEF PagesInv
<1> QED
  BY <1>1, <1>2 DEF PagesInv

LEMMA StatusArrivesKeeps ==
    ASSUME PagesInv, NEW i \in DOMAIN calls, StatusArrives(i), mounted' = mounted
    PROVE  PagesInv'
<1>1. mounted /\ ~On("playground") /\ catalog' = catalog /\ calls' = RemoveAt(calls, i)
  BY EmptyFacts DEF PagesInv, ForPlayground, StatusArrives, backend
<1>2. "page" \in DOMAIN view' /\ view'.page = view.page
  BY DEF PagesInv, StatusArrives, Refreshed
<1> QED
  BY <1>1, <1>2, RemovedCalls, OtherPage

LEMMA CatalogArrivesKeeps ==
    ASSUME PagesInv, NEW i \in DOMAIN calls, CatalogArrives(i), mounted' = mounted
    PROVE  PagesInv'
<1>1. mounted /\ ~On("playground") /\ catalog' = catalog /\ calls' = RemoveAt(calls, i)
  BY EmptyFacts DEF PagesInv, ForPlayground, CatalogArrives, backend
<1>2. "page" \in DOMAIN view' /\ view'.page = view.page
  <2>1. "page" \in DOMAIN Loaded /\ Loaded.page = view.page
    BY DEF PagesInv, Loaded
  <2>2. PICK models : view' \in {Loaded, [Loaded EXCEPT !.models = models],
              [[Loaded EXCEPT !.models = models] EXCEPT !.selected = FirstSelected(models)]}
    BY DEF CatalogArrives
  <2> QED
    BY <2>1, <2>2
<1> QED
  BY <1>1, <1>2, RemovedCalls, OtherPage

LEMMA PollKeeps ==
    ASSUME PagesInv, mounted, Poll, mounted' = mounted
    PROVE  PagesInv'
<1>1. /\ ~On("playground") /\ catalog' = catalog /\ view' = view
      /\ calls' = Append(calls, Ask("status", <<>>)) /\ "page" \in DOMAIN view
  BY DEF Poll, On, backend, PagesInv
<1>2. CallOK(Ask("status", <<>>)) /\ ~ForPlayground(Ask("status", <<>>))
  BY DEF CallOK, ForPlayground, IsChat, Ask
<1>3. IsSeq(calls') /\ \A i \in DOMAIN calls' : CallOK(calls'[i]) /\ ~ForPlayground(calls'[i])
  <2>1. PICK c : c = Ask("status", <<>>)
    OBVIOUS
  <2> QED
    BY <1>1, <1>2, <2>1, SameCalls, SeqFacts, AppendFacts
<1> QED
  BY <1>1, <1>3, OtherPage

LEMMA ReadingKeeps ==
    ASSUME PagesInv, mounted, mounted' = mounted,
           \/ Calculate
           \/ \E s \in Sections : SetActive(s)
           \/ \E l \in Languages : SetSdkLang(l)
    PROVE  PagesInv'
<1>1. ~On("playground") /\ UNCHANGED <<calls, catalog>>
  BY DEF Calculate, SetActive, SetSdkLang, On, backend
<1>2. "page" \in DOMAIN view' /\ view'.page = view.page
  BY DEF PagesInv, Calculate, SelectRow, SetActive, SetSdkLang
<1> QED
  BY <1>1, <1>2, SameCalls, OtherPage

-----------------------------------------------------------------------------
(* The playground. *)

LEMMA NoMessages ==
    ASSUME NEW streaming
    PROVE  MessagesOK(<<>>, streaming)
<1>1. \A i \in 1 .. Len(<<>>) - 1 : FALSE
  OBVIOUS
<1> QED
  BY <1>1, EmptyFacts, Zenon DEF MessagesOK, Alternates

\* A message that differs from the last one keeps questions and answers alternating.
LEMMA NextAlternates ==
    ASSUME NEW ms, IsSeq(ms), Alternates(ms), NEW m, ms # <<>> => ms[Len(ms)].role # m.role
    PROVE  Alternates(Append(ms, m))
<1> DEFINE new == Append(ms, m)
           n == Len(ms)
<1>0. n \in Nat
  BY SeqFacts
<1>1. DOMAIN ms = 1 .. n /\ (n # 0 => ms[n].role # m.role)
  BY SeqFacts
<1>2. /\ Len(new) = n + 1 /\ DOMAIN new = 1 .. n + 1
      /\ \A i \in 1 .. n : new[i] = ms[i]
      /\ new[n + 1] = m
  BY AppendFacts
<1> HIDE DEF new
<1>3. \A i \in 1 .. Len(new) - 1 : new[i].role # new[i + 1].role
  <2> TAKE i \in 1 .. Len(new) - 1
  <2>1. CASE i = n
    <3>1. i \in 1 .. n /\ n # 0 /\ new[i] = ms[n] /\ new[i + 1] = m
      BY <1>0, <1>2, <2>1
    <3> QED
      BY <1>1, <3>1
  <2>2. CASE i # n
    <3>1. i \in 1 .. n - 1 /\ i \in 1 .. n /\ i + 1 \in 1 .. n
      BY <1>0, <1>2, <2>2
    <3>2. ms[i].role # ms[i + 1].role
      BY <3>1 DEF Alternates
    <3> QED
      BY <1>2, <3>1, <3>2
  <2> QED BY <2>1, <2>2
<1> QED
  BY <1>3 DEF Alternates, new

LEMMA NextMessage ==
    ASSUME NEW ms, NEW before, NEW after, NEW m, MessagesOK(ms, before), MessageOK(m),
           m.role = IF after THEN "user" ELSE "assistant", before \in BOOLEAN, after \in BOOLEAN,
           after # before
    PROVE  MessagesOK(Append(ms, m), after)
<1> DEFINE new == Append(ms, m)
           n == Len(ms)
<1>1. IsSeq(ms) /\ n \in Nat /\ DOMAIN ms = 1 .. n
  BY SeqFacts DEF MessagesOK
<1>2. /\ IsSeq(new) /\ Len(new) = n + 1 /\ DOMAIN new = 1 .. n + 1
      /\ \A i \in 1 .. n : new[i] = ms[i]
      /\ new[n + 1] = m
  BY <1>1, AppendFacts
<1>3. Alternates(new)
  <2>1. ms # <<>> => ms[n].role = IF before THEN "user" ELSE "assistant"
    BY DEF MessagesOK
  <2>2. ms # <<>> => ms[n].role # m.role
    BY <2>1
  <2> QED
    BY <1>1, <2>2, NextAlternates DEF MessagesOK
<1> HIDE DEF new
<1>4. \A i \in DOMAIN new : MessageOK(new[i])
  <2> TAKE i \in DOMAIN new
  <2>1. i \in 1 .. n \/ i = n + 1
    BY <1>1, <1>2
  <2> QED
    BY <1>1, <1>2, <2>1 DEF MessagesOK
<1>5. new[Len(new)].role = IF after THEN "user" ELSE "assistant"
  BY <1>2
<1>6. MessagesOK(new, after)
  BY <1>2, <1>3, <1>4, <1>5 DEF MessagesOK
<1> QED
  BY <1>6 DEF new

\* A step of the mounted playground.
LEMMA ChatStep ==
    ASSUME PagesInv, On("playground"), mounted, mounted' = mounted, catalog' = catalog,
           view'.page = view.page, IsSeq(calls'),
           \A i \in DOMAIN calls' : CallOK(calls'[i]) /\ ForPlayground(calls'[i]),
           ChatViewOK', ChatsOK'
    PROVE  PagesInv'
  BY DEF PagesInv, On, ForPlayground, ChatViewOK, ChatView

LEMMA ChatFacts ==
    ASSUME PagesInv, On("playground")
    PROVE  /\ DOMAIN view = DOMAIN ChatView
           /\ view.streaming \in BOOLEAN
           /\ MessagesOK(view.messages, view.streaming)
           /\ ChatsOK /\ IsSeq(calls) /\ catalog \in Catalogues
           /\ \A i \in DOMAIN calls : CallOK(calls[i]) /\ ForPlayground(calls[i])
  BY DEF PagesInv, ChatViewOK

LEMMA OpenKeeps ==
    ASSUME PagesInv, Open(theme)
    PROVE  PagesInv'
<1>1. view' = Fresh(theme) /\ calls' = <<>> /\ catalog' = catalog /\ mounted' = FALSE
  BY DEF Open, FreshLanguage, backend
<1>2. "page" \in DOMAIN view' /\ (view'.page = "playground" => view' = ChatView)
  BY <1>1 DEF Fresh, ChatView, StatusView, DocsView, CatalogView
<1>3. ASSUME view' = ChatView PROVE ChatViewOK' /\ ChatsOK'
  <2>1. /\ DOMAIN view' = DOMAIN ChatView /\ view'.streaming = FALSE
        /\ view'.messages = <<>>
    BY <1>3 DEF ChatView
  <2> QED
    BY <1>1, <2>1, NoMessages, EmptyFacts DEF ChatViewOK, ChatsOK, ChatView
<1> QED
  BY <1>1, <1>2, <1>3, EmptyFacts DEF PagesInv, On

LEMMA MountKeeps ==
    ASSUME PagesInv, Mount
    PROVE  PagesInv'
<1>1. /\ calls = <<>> /\ mounted' = TRUE /\ catalog' = catalog /\ "page" \in DOMAIN view
      /\ view' = Mounted(view.page).view /\ calls' = Mounted(view.page).calls
      /\ catalog \in Catalogues
  BY DEF Mount, MountLanguage, backend, PagesInv
<1>2. CASE On("playground") /\ ~loggedIn
  <2>1. view' = [page |-> "login"] /\ calls' = <<>>
    BY <1>1, <1>2 DEF Mounted, ChatMounted, On
  <2> QED
    BY <1>1, <2>1, EmptyFacts DEF PagesInv, On
<1>3. CASE On("playground") /\ loggedIn
  <2>1. /\ view' = [view EXCEPT !.key = savedKey]
        /\ calls' \in {<<>>, <<AskModels(savedKey, DefaultModel)>>}
    BY <1>1, <1>3 DEF Mounted, ChatMounted, On
  <2>2. /\ DOMAIN view = DOMAIN ChatView /\ view.streaming = FALSE
        /\ MessagesOK(view.messages, view.streaming)
    BY <1>1, <1>3, ChatFacts, EmptyFacts DEF ChatsOK
  <2>3. /\ DOMAIN view' = DOMAIN ChatView /\ view'.page = view.page
        /\ view'.streaming = FALSE
        /\ view'.messages = view.messages
    BY <2>1, <2>2 DEF ChatView
  <2>4. PICK c : c = AskModels(savedKey, DefaultModel)
    OBVIOUS
  <2>5. CallOK(c) /\ ForPlayground(c) /\ ~IsChat(c)
    BY <2>4 DEF AskModels, Ask, CallOK, ForPlayground, IsChat
  <2>6. IsSeq(calls') /\ \A i \in DOMAIN calls' :
                              CallOK(calls'[i]) /\ ForPlayground(calls'[i]) /\ ~IsChat(calls'[i])
    BY <2>1, <2>4, <2>5, EmptyFacts, SingleFacts
  <2>7. ChatViewOK'
    BY <2>2, <2>3 DEF ChatViewOK, ChatView
  <2>8. ChatsOK'
    BY <2>3, <2>6 DEF ChatsOK
  <2>9. "page" \in DOMAIN view' /\ view'.page = "playground"
    BY <1>3, <2>3 DEF On, ChatView
  <2> QED
    BY <1>1, <2>6, <2>7, <2>8, <2>9 DEF PagesInv, On
<1>4. CASE ~On("playground")
  <2>1. view' = view /\ calls' \in {<<>>, <<Ask("status", <<>>)>>, <<Ask("catalog", <<>>)>>}
    BY <1>1, <1>4 DEF Mounted, On
  <2>2. PICK c, d : c = Ask("status", <<>>) /\ d = Ask("catalog", <<>>)
    OBVIOUS
  <2>3. CallOK(c) /\ CallOK(d) /\ ~ForPlayground(c) /\ ~ForPlayground(d)
    BY <2>2 DEF Ask, CallOK, ForPlayground, IsChat
  <2>4. IsSeq(calls') /\ \A i \in DOMAIN calls' : CallOK(calls'[i]) /\ ~ForPlayground(calls'[i])
    BY <2>1, <2>2, <2>3, EmptyFacts, SingleFacts
  <2> QED
    BY <1>1, <1>4, <2>1, <2>4 DEF PagesInv, On
<1> QED
  BY <1>2, <1>3, <1>4

\* A call is added at the end.
LEMMA AddedCall ==
    ASSUME PagesInv, On("playground"), NEW c, CallOK(c), ForPlayground(c), calls' = Append(calls, c)
    PROVE  /\ IsSeq(calls')
           /\ \A i \in DOMAIN calls' : CallOK(calls'[i]) /\ ForPlayground(calls'[i])
           /\ Len(calls) \in Nat /\ DOMAIN calls = 1 .. Len(calls)
           /\ DOMAIN calls' = 1 .. Len(calls) + 1 /\ calls'[Len(calls) + 1] = c
           /\ \A i \in DOMAIN calls : calls'[i] = calls[i]
<1>1. /\ IsSeq(calls) /\ Len(calls) \in Nat /\ DOMAIN calls = 1 .. Len(calls)
      /\ \A i \in DOMAIN calls : CallOK(calls[i]) /\ ForPlayground(calls[i])
  BY ChatFacts, SeqFacts
<1>2. /\ IsSeq(calls') /\ DOMAIN calls' = 1 .. Len(calls) + 1 /\ calls'[Len(calls) + 1] = c
      /\ \A i \in 1 .. Len(calls) : calls'[i] = calls[i]
  BY <1>1, AppendFacts
<1>3. \A i \in 1 .. Len(calls) + 1 : i \in 1 .. Len(calls) \/ i = Len(calls) + 1
  BY <1>1
<1> QED
  BY <1>1, <1>2, <1>3

\* A call is taken away.
LEMMA TakenCall ==
    ASSUME PagesInv, On("playground"), NEW i \in DOMAIN calls, calls' = RemoveAt(calls, i)
    PROVE  /\ IsSeq(calls')
           /\ \A j \in DOMAIN calls' : CallOK(calls'[j]) /\ ForPlayground(calls'[j])
           /\ IsChat(calls[i]) => \A j \in DOMAIN calls' : ~IsChat(calls'[j])
           /\ ~IsChat(calls[i]) /\ view'.streaming = view.streaming /\ view'.text = view.text =>
                 ChatsOK'
<1>1. /\ IsSeq(calls) /\ ChatsOK
      /\ \A j \in DOMAIN calls : CallOK(calls[j]) /\ ForPlayground(calls[j])
  BY ChatFacts
<1>2. IsSeq(calls')
  BY <1>1, RemoveFacts
<1>3. \A j \in DOMAIN calls' : \E k \in DOMAIN calls \ {i} : calls'[j] = calls[k]
  BY <1>1, RemoveElements
<1>4. \A k \in DOMAIN calls \ {i} : \E j \in DOMAIN calls' : calls'[j] = calls[k]
  BY <1>1, RemoveElements
<1>5. \A j, l \in DOMAIN calls' : j # l => \E k, m \in DOMAIN calls \ {i} :
         k # m /\ calls'[j] = calls[k] /\ calls'[l] = calls[m]
  BY <1>1, RemoveElements
<1>6. IsChat(calls[i]) => \A j \in DOMAIN calls' : ~IsChat(calls'[j])
  BY <1>1, <1>3 DEF ChatsOK
<1>7. ASSUME ~IsChat(calls[i]), view'.streaming = view.streaming, view'.text = view.text
      PROVE  ChatsOK'
  <2>1. view'.streaming => \E j \in DOMAIN calls' : IsChat(calls'[j])
    BY <1>1, <1>4, <1>7 DEF ChatsOK
  <2>2. ASSUME NEW j \in DOMAIN calls', IsChat(calls'[j])
        PROVE  /\ view'.streaming
               /\ view'.text \in {<<>>, calls'[j].arg.full}
               /\ \A l \in DOMAIN calls' : IsChat(calls'[l]) => j = l
    BY <1>1, <1>3, <1>5, <1>7, <2>2 DEF ChatsOK
  <2> QED
    BY <2>1, <2>2 DEF ChatsOK
<1> QED
  BY <1>1, <1>2, <1>3, <1>6, <1>7

LEMMA TypeKeyKeeps ==
    ASSUME PagesInv, mounted, mounted' = mounted, NEW k, TypeKey(k)
    PROVE  PagesInv'
<1>1. /\ On("playground") /\ view' = [view EXCEPT !.key = k] /\ catalog' = catalog
      /\ calls' \in {calls, Append(calls, AskModels(k, view.model))}
  BY DEF TypeKey, Acts, backend
<1>2. /\ DOMAIN view' = DOMAIN ChatView /\ view'.page = view.page
      /\ view'.streaming = view.streaming /\ view'.text = view.text
      /\ view'.messages = view.messages
  BY <1>1, ChatFacts DEF ChatView
<1>3. ChatViewOK'
  BY <1>1, <1>2, ChatFacts DEF ChatViewOK, ChatView
<1>4. PICK c : c = AskModels(k, view.model)
  OBVIOUS
<1>5. CallOK(c) /\ ForPlayground(c) /\ ~IsChat(c)
  BY <1>4 DEF AskModels, Ask, CallOK, ForPlayground, IsChat
<1>6. CASE calls' = calls
  <2>1. ChatsOK'
    BY <1>1, <1>2, <1>6, ChatFacts DEF ChatsOK
  <2> QED
    BY <1>1, <1>2, <1>3, <1>6, <2>1, ChatFacts, ChatStep
<1>7. CASE calls' = Append(calls, c)
  <2>1. /\ IsSeq(calls') /\ \A i \in DOMAIN calls' : CallOK(calls'[i]) /\ ForPlayground(calls'[i])
        /\ Len(calls) \in Nat /\ DOMAIN calls = 1 .. Len(calls)
        /\ DOMAIN calls' = 1 .. Len(calls) + 1 /\ calls'[Len(calls) + 1] = c
        /\ \A i \in DOMAIN calls : calls'[i] = calls[i]
    BY <1>1, <1>5, <1>7, AddedCall
  <2>2. \A i \in DOMAIN calls' : IsChat(calls'[i]) => i \in DOMAIN calls /\ calls'[i] = calls[i]
    BY <1>5, <2>1
  <2>3. DOMAIN calls \subseteq DOMAIN calls'
    BY <2>1
  <2>4. ChatsOK'
    BY <1>1, <1>2, <2>1, <2>2, <2>3, ChatFacts DEF ChatsOK
  <2> QED
    BY <1>1, <1>2, <1>3, <2>1, <2>4, ChatStep
<1> QED
  BY <1>1, <1>4, <1>6, <1>7

LEMMA SelectModelKeeps ==
    ASSUME PagesInv, mounted, mounted' = mounted, NEW id, SelectModel(id)
    PROVE  PagesInv'
<1>1. /\ On("playground") /\ view' = [view EXCEPT !.model = id] /\ catalog' = catalog
      /\ calls' = calls
  BY DEF SelectModel, Acts, Quietly, backend
<1>2. /\ DOMAIN view' = DOMAIN ChatView /\ view'.page = view.page
      /\ view'.streaming = view.streaming /\ view'.text = view.text
      /\ view'.messages = view.messages
  BY <1>1, ChatFacts DEF ChatView
<1>3. ChatViewOK'
  BY <1>1, <1>2, ChatFacts DEF ChatViewOK, ChatView
<1>4. ChatsOK'
  BY <1>1, <1>2, ChatFacts DEF ChatsOK
<1> QED
  BY <1>1, <1>2, <1>3, <1>4, ChatFacts, ChatStep

LEMMA SendKeeps ==
    ASSUME PagesInv, mounted, mounted' = mounted, Send
    PROVE  PagesInv'
<1>1. PICK m : m = Says("user", <<>>, FALSE, {})
  OBVIOUS
<1>2. PICK c : c = Ask("chat", [key |-> view.key, at |-> 0, full |-> <<>>, cuts |-> {}])
  OBVIOUS
<1>3. /\ On("playground") /\ catalog' = catalog /\ ~view.streaming
      /\ view' = [view EXCEPT !.messages = Append(@, m), !.streaming = TRUE, !.text = <<>>]
      /\ calls' = Append(calls, c)
  BY <1>1, <1>2 DEF Send, MaySend, Acts, Quietly, backend
<1>4. /\ DOMAIN view' = DOMAIN ChatView /\ view'.page = view.page
      /\ view'.streaming = TRUE /\ view'.text = <<>>
      /\ view'.messages = Append(view.messages, m)
  BY <1>3, ChatFacts DEF ChatView
<1>5. MessagesOK(view'.messages, view'.streaming)
  <2>1. m.role = "user" /\ MessageOK(m)
    BY <1>1 DEF Says, MessageOK
  <2>2. PICK before, after : before = view.streaming /\ after = view'.streaming
    OBVIOUS
  <2>3. /\ before \in BOOLEAN /\ after \in BOOLEAN /\ after # before
        /\ MessagesOK(view.messages, before)
        /\ m.role = IF after THEN "user" ELSE "assistant"
    BY <1>3, <1>4, <2>1, <2>2, ChatFacts
  <2> QED
    BY <1>4, <2>1, <2>2, <2>3, NextMessage
<1>6. ChatViewOK'
  BY <1>3, <1>4, <1>5, ChatFacts DEF ChatViewOK, ChatView
<1>7. CallOK(c) /\ ForPlayground(c) /\ c.arg.full = <<>>
  <2>1. PICK a : a = [key |-> view.key, at |-> 0, full |-> <<>>, cuts |-> {}]
    OBVIOUS
  <2>2. Gathered(a)
    <3>1. DOMAIN a = {"key", "at", "full", "cuts"} /\ a.at = 0 /\ a.full = <<>> /\ a.cuts = {}
      BY <2>1
    <3>2. 0 \in 0 .. 2 * MaxLines /\ 0 \div 2 = 0
      BY PlaygroundBoundsAssumption
    <3>3. Uncut(<<>>, 0, {})
      BY DEF Uncut, Range
    <3> QED
      BY <3>1, <3>2, <3>3 DEF Gathered
  <2>3. c.arg = a /\ c.op = "chat" /\ DOMAIN c = {"op", "arg", "status", "body"}
    BY <1>2, <2>1 DEF Ask
  <2> QED
    BY <2>1, <2>2, <2>3 DEF CallOK, ForPlayground
<1>8. /\ IsSeq(calls') /\ \A i \in DOMAIN calls' : CallOK(calls'[i]) /\ ForPlayground(calls'[i])
      /\ Len(calls) \in Nat /\ DOMAIN calls = 1 .. Len(calls)
      /\ DOMAIN calls' = 1 .. Len(calls) + 1 /\ calls'[Len(calls) + 1] = c
      /\ \A i \in DOMAIN calls : calls'[i] = calls[i]
  BY <1>3, <1>7, AddedCall
<1>9. ChatsOK'
  <2>1. \A i \in DOMAIN calls : ~IsChat(calls[i])
    BY <1>3, ChatFacts DEF ChatsOK
  <2>2. \A i \in DOMAIN calls' : IsChat(calls'[i]) => i = Len(calls) + 1
    BY <1>8, <2>1
  <2>3. Len(calls) + 1 \in DOMAIN calls' /\ IsChat(c)
    BY <1>2, <1>8 DEF IsChat, Ask
  <2> QED
    BY <1>4, <1>8, <2>2, <2>3 DEF ChatsOK
<1> QED
  BY <1>3, <1>4, <1>6, <1>8, <1>9, ChatStep

LEMMA ClearKeeps ==
    ASSUME PagesInv, mounted, mounted' = mounted, Clear
    PROVE  PagesInv'
<1>1. /\ On("playground") /\ catalog' = catalog /\ calls' = calls
      /\ view' = [view EXCEPT !.messages = <<>>, !.text = <<>>]
  BY DEF Clear, Acts, Quietly, backend
<1>2. /\ DOMAIN view' = DOMAIN ChatView /\ view'.page = view.page
      /\ view'.streaming = view.streaming /\ view'.text = <<>>
      /\ view'.messages = <<>>
  BY <1>1, ChatFacts DEF ChatView
<1>3. ChatViewOK'
  BY <1>1, <1>2, ChatFacts, NoMessages DEF ChatViewOK, ChatView
<1>4. ChatsOK'
  BY <1>1, <1>2, ChatFacts DEF ChatsOK
<1> QED
  BY <1>1, <1>2, <1>3, <1>4, ChatFacts, ChatStep

LEMMA ModelsArriveKeeps ==
    ASSUME PagesInv, On("playground"), mounted, mounted' = mounted,
           NEW i \in DOMAIN calls, ModelsArrive(i)
    PROVE  PagesInv'
<1>1. /\ calls[i].op = "ids" /\ calls' = RemoveAt(calls, i) /\ catalog' = catalog
      /\ ~IsChat(calls[i])
  BY ChatFacts DEF ModelsArrive, Unasked, Quietly, backend, IsChat
<1>2. PICK ids, model : view' \in {view, [view EXCEPT !.models = ids, !.model = model]}
  BY DEF ModelsArrive
<1>3. /\ DOMAIN view' = DOMAIN ChatView /\ view'.page = view.page
      /\ view'.streaming = view.streaming /\ view'.text = view.text
      /\ view'.messages = view.messages
  BY <1>2, ChatFacts DEF ChatView
<1>4. ChatViewOK'
  BY <1>3, ChatFacts DEF ChatViewOK, ChatView
<1> QED
  BY <1>1, <1>3, <1>4, TakenCall, ChatStep

LEMMA ChunkKeeps ==
    ASSUME PagesInv, On("playground"), mounted, mounted' = mounted,
           NEW i \in DOMAIN calls, Chunk(i)
    PROVE  PagesInv'
<1>1. IsChat(calls[i]) /\ Gathered(calls[i].arg) /\ catalog' = catalog
  BY ChatFacts DEF Chunk, Unasked, Quietly, backend, IsChat, CallOK
<1>2. PICK a : a = calls[i].arg
  OBVIOUS
<1>3. PICK q \in a.at + 1 .. 2 * MaxLines :
         LET lines == Complete(a.at, q)
             full == IF lines = <<>> THEN a.full ELSE Grown(a.full, lines)
         IN  /\ calls' = [calls EXCEPT ![i].arg = [a EXCEPT !.at = q, !.full = full,
                                                           !.cuts = @ \cup Cut(a.at, q)]]
             /\ view' = IF lines = <<>> THEN view ELSE [view EXCEPT !.text = full]
  BY <1>2 DEF Chunk
<1>4. PICK full : full = IF Complete(a.at, q) = <<>> THEN a.full
                         ELSE Grown(a.full, Complete(a.at, q))
  OBVIOUS
<1>5. PICK b : b = [a EXCEPT !.at = q, !.full = full, !.cuts = @ \cup Cut(a.at, q)]
  OBVIOUS
<1>6. PICK c : c = [calls[i] EXCEPT !.arg = b]
  OBVIOUS
<1>7. Gathered(b) /\ b.full = full
  <2>1. Gathered(b)
    BY <1>1, <1>2, <1>4, <1>5, ChunkGathers
  <2>2. b.full = full
    BY <1>1, <1>2, <1>5 DEF Gathered
  <2> QED BY <2>1, <2>2
<1>8. calls' = [calls EXCEPT ![i] = c]
  BY <1>3, <1>4, <1>5, <1>6
<1>9. (view' = view /\ full = a.full) \/ view' = [view EXCEPT !.text = full]
  BY <1>3, <1>4
<1>10. /\ DOMAIN view' = DOMAIN ChatView /\ view'.page = view.page
       /\ view'.streaming = view.streaming
       /\ view'.messages = view.messages
  BY <1>9, ChatFacts DEF ChatView
<1>11. view'.text \in {<<>>, full}
  <2>1. view.text \in {<<>>, a.full}
    BY <1>1, <1>2, ChatFacts DEF ChatsOK
  <2> QED
    BY <1>9, <2>1, ChatFacts DEF ChatView
<1>12. ChatViewOK'
  BY <1>10, ChatFacts DEF ChatViewOK, ChatView
<1>13. CallOK(c) /\ c.op = calls[i].op /\ c.arg = b
  BY <1>1, <1>6, <1>7, ChatFacts DEF CallOK, IsChat
<1>14. /\ IsSeq(calls') /\ DOMAIN calls' = DOMAIN calls
       /\ \A k \in DOMAIN calls : calls'[k] = IF k = i THEN c ELSE calls[k]
  BY <1>8, ChatFacts, PutFacts
<1>15. \A k \in DOMAIN calls' : CallOK(calls'[k]) /\ ForPlayground(calls'[k])
  BY <1>13, <1>14, ChatFacts DEF ForPlayground
<1>16. \A k \in DOMAIN calls' : IsChat(calls'[k]) <=> k = i
  BY <1>1, <1>13, <1>14, ChatFacts DEF ChatsOK, IsChat
<1>17. ChatsOK'
  BY <1>1, <1>7, <1>10, <1>11, <1>13, <1>14, <1>16, ChatFacts DEF ChatsOK
<1> QED
  BY <1>1, <1>10, <1>12, <1>14, <1>15, <1>17, ChatStep

\* The end of a chat: an answer, or an error message.
LEMMA ChatEnds ==
    ASSUME PagesInv, On("playground"), mounted, mounted' = mounted, catalog' = catalog,
           NEW i \in DOMAIN calls, IsChat(calls[i]), calls' = RemoveAt(calls, i),
           NEW m, MessageOK(m), m.role = "assistant",
           DOMAIN view' = DOMAIN ChatView, view'.page = view.page,
           view'.streaming = FALSE,
           view'.messages = Append(view.messages, m)
    PROVE  PagesInv'
<1>1. MessagesOK(view'.messages, view'.streaming)
  <2>1. PICK before, after : before = view.streaming /\ after = view'.streaming
    OBVIOUS
  <2>2. view.streaming
    BY ChatFacts DEF ChatsOK
  <2>3. /\ before \in BOOLEAN /\ after \in BOOLEAN /\ after # before
        /\ MessagesOK(view.messages, before)
        /\ m.role = IF after THEN "user" ELSE "assistant"
    BY <2>1, <2>2, ChatFacts
  <2> QED
    BY <2>1, <2>3, NextMessage
<1>2. ChatViewOK'
  BY <1>1, ChatFacts DEF ChatViewOK, ChatView
<1>3. /\ IsSeq(calls') /\ \A j \in DOMAIN calls' : CallOK(calls'[j]) /\ ForPlayground(calls'[j])
      /\ \A j \in DOMAIN calls' : ~IsChat(calls'[j])
  BY TakenCall
<1>4. ChatsOK'
  BY <1>3 DEF ChatsOK
<1> QED
  BY <1>2, <1>3, <1>4, ChatStep

LEMMA UpstreamEndsKeeps ==
    ASSUME PagesInv, mounted' = mounted, NEW i \in DOMAIN calls, UpstreamEnds(i)
    PROVE  PagesInv'
<1>1. /\ UNCHANGED view /\ catalog' = catalog /\ IsSeq(calls) /\ catalog \in Catalogues
      /\ \A k \in DOMAIN calls : CallOK(calls[k])
  BY DEF UpstreamEnds, Unasked, Quietly, backend, PagesInv
<1>2. PICK c : c = [calls[i] EXCEPT !.status = "ended"]
  OBVIOUS
<1>3. calls' = [calls EXCEPT ![i] = c]
  BY <1>2 DEF UpstreamEnds
<1>4. CallOK(c) /\ c.op = calls[i].op /\ c.arg = calls[i].arg
  BY <1>1, <1>2 DEF CallOK, IsChat
<1> QED
  BY <1>1, <1>3, <1>4, PutFacts, AnswersKeep

LEMMA StreamEndsKeeps ==
    ASSUME PagesInv, On("playground"), mounted, mounted' = mounted,
           NEW i \in DOMAIN calls, StreamEnds(i)
    PROVE  PagesInv'
<1>1. PICK a : a = calls[i].arg
  OBVIOUS
<1>2. PICK m : m = Says("assistant", a.full, FALSE, a.cuts)
  OBVIOUS
<1>3. /\ IsChat(calls[i]) /\ Gathered(a) /\ catalog' = catalog /\ calls' = RemoveAt(calls, i)
      /\ view' = [view EXCEPT !.messages = Append(@, m), !.text = <<>>, !.streaming = FALSE]
  BY <1>1, <1>2, ChatFacts DEF StreamEnds, Unasked, Quietly, backend, IsChat, CallOK
<1>4. /\ DOMAIN view' = DOMAIN ChatView /\ view'.page = view.page
      /\ view'.streaming = FALSE
      /\ view'.messages = Append(view.messages, m)
  BY <1>3, ChatFacts DEF ChatView
<1>5. m.role = "assistant" /\ m.content = a.full /\ m.cuts = a.cuts
  BY <1>2 DEF Says
<1>6. a.at \div 2 \in 0 .. MaxLines
  BY <1>3, PlaygroundBoundsAssumption DEF Gathered
<1>7. MessageOK(m)
  BY <1>3, <1>5, <1>6 DEF Gathered, MessageOK
<1> QED
  BY <1>3, <1>4, <1>5, <1>7, ChatEnds

LEMMA ChatFailsKeeps ==
    ASSUME PagesInv, On("playground"), mounted, mounted' = mounted,
           NEW i \in DOMAIN calls, SendFails(i) \/ StreamBreaks(i)
    PROVE  PagesInv'
<1>1. PICK m : m = Error
  OBVIOUS
<1>2. /\ IsChat(calls[i]) /\ catalog' = catalog /\ calls' = RemoveAt(calls, i)
      /\ view' = [[view EXCEPT !.streaming = FALSE] EXCEPT !.messages = Append(@, m)]
  BY <1>1 DEF SendFails, StreamBreaks, AfterError, Unasked, Quietly, backend, IsChat
<1>3. /\ DOMAIN view' = DOMAIN ChatView /\ view'.page = view.page
      /\ view'.streaming = FALSE
      /\ view'.messages = Append(view.messages, m)
  BY <1>2, ChatFacts DEF ChatView
<1>4. m.role = "assistant" /\ MessageOK(m)
  BY <1>1 DEF Error, Says, MessageOK
<1> QED
  BY <1>2, <1>3, <1>4, ChatEnds

-----------------------------------------------------------------------------
(* The steps together. *)

\* A call in flight is a call of a mounted page.
LEMMA InFlight ==
    ASSUME PagesInv, NEW i \in DOMAIN calls
    PROVE  mounted /\ (calls[i].op \in {"ids", "chat"} => On("playground"))
  BY EmptyFacts DEF PagesInv, ForPlayground

LEMMA NextPages == PagesInv /\ [Next]_vars => PagesInv'
<1> SUFFICES ASSUME PagesInv, [Next]_vars PROVE PagesInv'
  OBVIOUS
<1>0. catalog \in Catalogues
  BY DEF PagesInv
<1>1. CASE Open(theme)
  BY <1>1, OpenKeeps
<1>2. CASE Mount
  BY <1>2, MountKeeps
<1>3. CASE Work
  <2>1. mounted /\ mounted' = mounted
    BY <1>3 DEF Work, language
  <2>2. CASE ChatUser
    <3>1. ASSUME NEW k, TypeKey(k) PROVE PagesInv'
      BY <2>1, <3>1, TypeKeyKeeps
    <3>2. ASSUME NEW id, SelectModel(id) PROVE PagesInv'
      BY <2>1, <3>2, SelectModelKeeps
    <3> QED
      BY <2>1, <2>2, <3>1, <3>2, SendKeeps, ClearKeeps DEF ChatUser
  <2>3. CASE \/ Calculate
             \/ \E s \in Sections : SetActive(s)
             \/ \E l \in Languages : SetSdkLang(l)
    BY <2>1, <2>3, ReadingKeeps
  <2> QED
    BY <1>3, <2>2, <2>3 DEF Work
<1>4. CASE Interval
  <2>1. mounted /\ Poll /\ mounted' = mounted
    BY <1>4 DEF Interval, language
  <2> QED
    BY <2>1, PollKeeps
<1>5. CASE Effect
  <2>1. UNCHANGED <<view, calls>> /\ mounted' = mounted /\ catalog' = catalog
    BY <1>5 DEF Effect, Persist, backend
  <2> QED
    BY <1>0, <2>1, UnchangedPages
<1>6. CASE Pick
  <2>1. UNCHANGED <<view, calls>> /\ mounted' = mounted /\ catalog' = catalog
    BY <1>6 DEF Pick, PickLocale, OtherTabPicks, backend
  <2> QED
    BY <1>0, <2>1, UnchangedPages
<1>7. CASE Others
  <2>1. mounted' = mounted
    BY <1>7 DEF Others, language
  <2>2. ASSUME NEW i \in DOMAIN calls, Fail(i) PROVE PagesInv'
    BY <2>1, <2>2, FailKeeps
  <2>3. ASSUME NEW i \in DOMAIN calls, Upstream(i) PROVE PagesInv'
    <3>1. mounted /\ On("playground")
      BY <2>3, InFlight DEF Upstream, Chunk, UpstreamEnds, StreamBreaks
    <3> QED
      BY <2>1, <2>3, <3>1, ChunkKeeps, UpstreamEndsKeeps, ChatFailsKeeps DEF Upstream
  <2>4. CASE ChangeCatalog \/ ChangeHealth
    <3>1. UNCHANGED <<view, calls>> /\ catalog' \in Catalogues
      BY <1>0, <2>4 DEF ChangeCatalog, ChangeHealth
    <3> QED
      BY <2>1, <3>1, UnchangedPages
  <2> QED
    BY <1>7, <2>2, <2>3, <2>4 DEF Others
<1>8. ASSUME NEW i, Arrive(i) PROVE PagesInv'
  <2>1. i \in DOMAIN calls /\ mounted' = mounted /\ mounted
    BY <1>8, InFlight DEF Arrive, language
  <2>2. CASE ChatArrives(i)
    <3>1. On("playground")
      BY <2>1, <2>2, InFlight DEF ChatArrives, ModelsArrive, StreamEnds, SendFails
    <3> QED
      BY <2>1, <2>2, <3>1, ModelsArriveKeeps, StreamEndsKeeps, ChatFailsKeeps
         DEF ChatArrives
  <2>3. CASE StatusArrives(i) \/ CatalogArrives(i)
    BY <2>1, <2>3, StatusArrivesKeeps, CatalogArrivesKeeps
  <2> QED
    BY <1>8, <2>2, <2>3 DEF Arrive
<1>9. ASSUME NEW i, Handle(i) PROVE PagesInv'
  <2>1. i \in DOMAIN calls /\ Serve(i) /\ mounted' = mounted
    BY <1>9 DEF Handle, language
  <2> QED
    BY <2>1, ServeKeeps
<1>10. CASE UNCHANGED vars
  <2>1. UNCHANGED <<view, calls>> /\ mounted' = mounted /\ catalog' = catalog
    BY <1>10 DEF vars, backend, language
  <2> QED
    BY <1>0, <2>1, UnchangedPages
<1> QED
  BY <1>1, <1>2, <1>3, <1>4, <1>5, <1>6, <1>7, <1>8, <1>9, <1>10 DEF Next

\* The invariant of the public pages: calls belong to the page that made them, the
\* answer that is streamed has gathered what was received, messages alternate.
THEOREM PagesInvariant == Spec => []PagesInv
  BY InitPages, NextPages, PTL DEF Spec

\* The language picked last is the one stored, in I18nProvider, however often pages
\* are loaded before their effects have run.
THEOREM ChosenLocaleHolds == Spec => []ChosenLocaleKept
<1>1. LanguageInv => ChosenLocaleKept
  BY DEF LanguageInv, ChosenLocaleKept
<1> QED
  BY <1>1, LanguageStart, LanguageSteps, PTL DEF Spec

\* Questions and answers of handleSend alternate and one answer is awaited at a
\* time, whatever fails and whenever the conversation is cleared.
THEOREM ConversationHolds == Spec => []ConversationAlternates
<1>1. PagesInv => ConversationAlternates
  <2> SUFFICES ASSUME PagesInv, On("playground")
               PROVE  /\ Alternates(Transcript)
                      /\ view.streaming <=> \E c \in Range(calls) : c.op = "chat"
                      /\ ~view.streaming /\ view.messages # <<>> =>
                            Last(view.messages).role = "assistant"
                      /\ Cardinality({i \in DOMAIN calls : calls[i].op = "chat"}) <= 1
    BY DEF ConversationAlternates, Alternates
  <2>1. /\ IsSeq(view.messages) /\ Alternates(view.messages)
        /\ view.messages # <<>> => view.messages[Len(view.messages)].role =
              IF view.streaming THEN "user" ELSE "assistant"
    BY ChatFacts DEF MessagesOK
  <2>2. Alternates(Transcript)
    <3>1. PICK m : m = Says("assistant", view.text, FALSE, {})
      OBVIOUS
    <3>2. m.role = "assistant"
      BY <3>1 DEF Says
    <3>3. view.streaming => Alternates(Append(view.messages, m))
      BY <2>1, <3>2, NextAlternates
    <3> QED
      BY <2>1, <3>1, <3>3 DEF Transcript
  <2>3. view.streaming <=> \E c \in Range(calls) : c.op = "chat"
    BY ChatFacts DEF ChatsOK, IsChat, Range
  <2>4. ~view.streaming /\ view.messages # <<>> => Last(view.messages).role = "assistant"
    BY <2>1 DEF Last
  <2>5. Cardinality({i \in DOMAIN calls : calls[i].op = "chat"}) <= 1
    <3> DEFINE Chats == {i \in DOMAIN calls : calls[i].op = "chat"}
    <3>1. CASE Chats = {}
      BY <3>1, FS_EmptySet
    <3>2. ASSUME NEW i \in Chats PROVE Cardinality(Chats) <= 1
      <4>1. Chats = {i}
        BY ChatFacts DEF ChatsOK, IsChat
      <4> HIDE DEF Chats
      <4>2. Cardinality({i}) = 1
        BY FS_Singleton
      <4> QED
        BY <4>1, <4>2
    <3> QED BY <3>1, <3>2
  <2> QED
    BY <2>2, <2>3, <2>4, <2>5
<1> QED
  BY <1>1, InitPages, NextPages, PTL DEF Spec

\* An answer holds every line received but those that a chunk boundary cut, once
\* and in order, for answers of any length cut anywhere.
THEOREM LinesHold == Spec => []LinesShown
<1>1. PagesInv => LinesShown
  <2> SUFFICES ASSUME PagesInv, On("playground") PROVE LinesShown
    BY DEF LinesShown
  <2>1. ASSUME NEW m \in Range(view.messages), m.role = "assistant", ~m.error
        PROVE  \E n \in 0 .. MaxLines : Uncut(m.content, n, m.cuts)
    BY <2>1, ChatFacts DEF MessagesOK, MessageOK, Range
  <2>2. ASSUME NEW c \in Range(calls), c.op = "chat"
        PROVE  /\ Uncut(c.arg.full, c.arg.at \div 2, c.arg.cuts)
               /\ Last(Transcript).content \in {<<>>, c.arg.full}
    <3>1. PICK i \in DOMAIN calls : c = calls[i]
      BY DEF Range
    <3>2. Gathered(c.arg) /\ view.streaming /\ view.text \in {<<>>, c.arg.full}
      BY <2>2, <3>1, ChatFacts DEF CallOK, ChatsOK, IsChat
    <3>3. PICK m : m = Says("assistant", view.text, FALSE, {})
      OBVIOUS
    <3>4. Transcript = Append(view.messages, m) /\ m.content = view.text
      BY <3>2, <3>3 DEF Transcript, Says
    <3>5. Last(Transcript) = m
      BY <3>4, ChatFacts, AppendFacts DEF Last, MessagesOK
    <3> QED
      BY <3>2, <3>4, <3>5 DEF Gathered
  <2> QED
    BY <2>1, <2>2 DEF LinesShown
<1> QED
  BY <1>1, InitPages, NextPages, PTL DEF Spec

-----------------------------------------------------------------------------
(* The calculator. *)

\* Positions in a strict order of 1 .. N, where B[i] is what comes before i: each
\* is taken by one element.
LEMMA Ranks ==
    ASSUME NEW N \in Nat, NEW B,
           \A i \in 1 .. N : B[i] \subseteq 1 .. N /\ i \notin B[i],
           \A i, j \in 1 .. N : i # j => i \in B[j] \/ j \in B[i],
           \A i, j \in 1 .. N : j \in B[i] => B[j] \subseteq B[i]
    PROVE  /\ \A i \in 1 .. N : Cardinality(B[i]) \in 0 .. N - 1
           /\ \A i, j \in 1 .. N : j \in B[i] <=> Cardinality(B[j]) < Cardinality(B[i])
           /\ \A k \in 1 .. N : \E i \in 1 .. N : Cardinality(B[i]) = k - 1
<1>1. IsFiniteSet(1 .. N) /\ Cardinality(1 .. N) = N
  BY FS_Interval
<1>2. \A i \in 1 .. N : IsFiniteSet(B[i]) /\ Cardinality(B[i]) \in 0 .. N - 1
  <2> TAKE i \in 1 .. N
  <2>1. IsFiniteSet(1 .. N \ {i}) /\ Cardinality(1 .. N \ {i}) = N - 1
    BY <1>1, FS_RemoveElement
  <2>2. B[i] \in SUBSET (1 .. N \ {i})
    OBVIOUS
  <2>3. IsFiniteSet(B[i]) /\ Cardinality(B[i]) <= N - 1
    BY <2>1, <2>2, FS_Subset
  <2> QED
    BY <2>3, FS_CardinalityType
<1>3. ASSUME NEW i \in 1 .. N, NEW j \in 1 .. N, j \in B[i]
      PROVE  Cardinality(B[j]) < Cardinality(B[i])
  <2>1. B[j] \in SUBSET B[i] /\ B[j] # B[i]
    BY <1>3
  <2>2. Cardinality(B[j]) <= Cardinality(B[i]) /\ Cardinality(B[i]) # Cardinality(B[j])
    BY <1>2, <2>1, FS_Subset
  <2> QED
    BY <1>2, <2>2
<1>4. \A i, j \in 1 .. N : j \in B[i] <=> Cardinality(B[j]) < Cardinality(B[i])
  <2> TAKE i, j \in 1 .. N
  <2>1. CASE i = j
    BY <1>2, <2>1
  <2>2. CASE i # j /\ i \in B[j]
    BY <1>2, <1>3, <2>2
  <2>3. CASE i # j /\ i \notin B[j]
    BY <1>3, <2>3
  <2> QED
    BY <2>1, <2>2, <2>3
<1>5. PICK r : r = [i \in 1 .. N |-> Cardinality(B[i]) + 1]
  OBVIOUS
<1>6. r \in [1 .. N -> 1 .. N]
  <2>1. \A i \in 1 .. N : Cardinality(B[i]) + 1 \in 1 .. N
    BY <1>2
  <2> QED
    BY <1>5, <2>1
<1>7. \A i \in 1 .. N : Cardinality(B[i]) \in Int /\ r[i] = Cardinality(B[i]) + 1
  BY <1>2, <1>5
<1>8. \A i, j \in 1 .. N : r[i] = r[j] => i = j
  <2> TAKE i, j \in 1 .. N
  <2>1. i # j => Cardinality(B[i]) < Cardinality(B[j]) \/ Cardinality(B[j]) < Cardinality(B[i])
    BY <1>4
  <2> QED
    BY <1>7, <2>1
<1>9. r \in Injection(1 .. N, 1 .. N)
  BY <1>6, <1>8 DEF Injection, IsInjective
<1>10. r \in Surjection(1 .. N, 1 .. N)
  BY <1>1, <1>9, FS_Injection
<1>11. \A k \in 1 .. N : \E i \in 1 .. N : r[i] = k
  BY <1>10 DEF Surjection
<1>12. ASSUME NEW k \in 1 .. N PROVE \E i \in 1 .. N : Cardinality(B[i]) = k - 1
  <2>1. PICK i \in 1 .. N : r[i] = k
    BY <1>11
  <2>2. Cardinality(B[i]) = k - 1
    BY <1>7, <2>1
  <2> QED
    BY <2>2
<1> QED
  BY <1>2, <1>4, <1>12

\* A catalogue is a sequence of rows with integer prices.
LEMMA CatalogueFacts ==
    ASSUME NEW c \in Catalogues
    PROVE  /\ Len(c) \in Nat /\ DOMAIN c = 1 .. Len(c)
           /\ \A i \in DOMAIN c : c[i].input \in Int /\ c[i].output \in Int
           /\ c # <<>> => 1 \in DOMAIN c
<1>0. PICK Row : Row = [id : STRING, input : Int, output : Int]
  OBVIOUS
<1>1. c \in Seq(Row)
  BY <1>0, CataloguesAssumption
<1>2. Len(c) \in Nat /\ DOMAIN c = 1 .. Len(c) /\ (c # <<>> => Len(c) # 0)
  BY <1>1
<1>3. \A i \in DOMAIN c : c[i] \in Row
  BY <1>1, <1>2
<1>4. c # <<>> => 1 \in DOMAIN c
  BY <1>2
<1> QED
  BY <1>0, <1>2, <1>3, <1>4

\* The comparison table holds every row once, the cheapest first.
LEMMA SortSorts ==
    ASSUME view.models \in Catalogues, view.input \in Int, view.output \in Int
    PROVE  /\ DOMAIN SortedModels = DOMAIN view.models
           /\ Range(SortedModels) = Range(view.models)
           /\ \A k, l \in DOMAIN SortedModels : k < l =>
                 CalcCostPerRequest(SortedModels[k], view.input, view.output)
                     <= CalcCostPerRequest(SortedModels[l], view.input, view.output)
<1>1. PICK N : N = Len(view.models)
  OBVIOUS
<1>2. N \in Nat /\ DOMAIN view.models = 1 .. N
  BY <1>1, CatalogueFacts
<1>3. \A i \in 1 .. N : CostOf(i) \in Int
  BY <1>2, CatalogueFacts DEF CostOf, CalcCostPerRequest
<1>4. PICK B : B = [i \in 1 .. N |-> Above(i)]
  OBVIOUS
<1>5. \A i \in 1 .. N : B[i] =
          {j \in 1 .. N : CostOf(j) < CostOf(i) \/ (CostOf(j) = CostOf(i) /\ j < i)}
  BY <1>2, <1>4 DEF Above
<1>6. \A i \in 1 .. N : B[i] \subseteq 1 .. N /\ i \notin B[i]
  BY <1>2, <1>3, <1>5
<1>7. \A i, j \in 1 .. N : i # j => i \in B[j] \/ j \in B[i]
  BY <1>2, <1>3, <1>5
<1>8. ASSUME NEW i \in 1 .. N, NEW j \in 1 .. N, j \in B[i], NEW k \in B[j] PROVE k \in B[i]
  <2>1. k \in 1 .. N /\ CostOf(i) \in Int /\ CostOf(j) \in Int /\ CostOf(k) \in Int
    BY <1>3, <1>5, <1>8
  <2>2. /\ CostOf(j) < CostOf(i) \/ (CostOf(j) = CostOf(i) /\ j < i)
        /\ CostOf(k) < CostOf(j) \/ (CostOf(k) = CostOf(j) /\ k < j)
    BY <1>5, <1>8
  <2>3. CostOf(k) < CostOf(i) \/ (CostOf(k) = CostOf(i) /\ k < i)
    BY <1>2, <2>1, <2>2
  <2> QED
    BY <1>5, <2>1, <2>3
<1>9. /\ \A i \in 1 .. N : Cardinality(B[i]) \in 0 .. N - 1
      /\ \A i, j \in 1 .. N : j \in B[i] <=> Cardinality(B[j]) < Cardinality(B[i])
      /\ \A k \in 1 .. N : \E i \in 1 .. N : Cardinality(B[i]) = k - 1
  BY <1>2, <1>6, <1>7, <1>8, Ranks
<1>10. PICK at : at = [k \in DOMAIN view.models |->
                           CHOOSE i \in DOMAIN view.models : Cardinality(Above(i)) = k - 1]
  OBVIOUS
<1>11. \A k \in 1 .. N : at[k] \in 1 .. N /\ Cardinality(B[at[k]]) = k - 1
  <2> TAKE k \in 1 .. N
  <2>1. at[k] = CHOOSE i \in DOMAIN view.models : Cardinality(Above(i)) = k - 1
    BY <1>2, <1>10
  <2>2. \E i \in 1 .. N : Cardinality(Above(i)) = k - 1
    BY <1>4, <1>9
  <2>3. at[k] \in 1 .. N /\ Cardinality(Above(at[k])) = k - 1
    BY <1>2, <2>1, <2>2
  <2> QED
    BY <1>4, <2>3
<1>12. SortedModels = [k \in DOMAIN view.models |-> view.models[at[k]]]
  BY <1>10 DEF SortedModels
<1>13. DOMAIN SortedModels = 1 .. N /\ \A k \in 1 .. N : SortedModels[k] = view.models[at[k]]
  BY <1>2, <1>12
<1>14. ASSUME NEW i \in 1 .. N PROVE \E k \in 1 .. N : at[k] = i
  <2>0. Cardinality(B[i]) \in 0 .. N - 1
    BY <1>9
  <2>1. PICK k \in 1 .. N : Cardinality(B[i]) = k - 1
    <3>1. Cardinality(B[i]) + 1 \in 1 .. N /\ Cardinality(B[i]) = (Cardinality(B[i]) + 1) - 1
      BY <1>2, <2>0
    <3> QED
      BY <3>1
  <2>2. Cardinality(B[at[k]]) = Cardinality(B[i]) /\ at[k] \in 1 .. N
    BY <1>11, <2>1
  <2>3. at[k] \notin B[i] /\ i \notin B[at[k]]
    BY <1>9, <2>2
  <2> QED
    BY <1>7, <2>2, <2>3
<1>15. Range(SortedModels) = Range(view.models)
  <2>1. Range(SortedModels) = {SortedModels[k] : k \in 1 .. N}
    BY <1>13 DEF Range
  <2>2. Range(view.models) = {view.models[i] : i \in 1 .. N}
    BY <1>2 DEF Range
  <2>3. \A k \in 1 .. N : SortedModels[k] \in Range(view.models)
    BY <1>11, <1>13, <2>2
  <2>4. ASSUME NEW i \in 1 .. N PROVE view.models[i] \in Range(SortedModels)
    BY <1>13, <1>14, <2>1
  <2> QED
    BY <2>1, <2>2, <2>3, <2>4
<1>16. ASSUME NEW k \in 1 .. N, NEW l \in 1 .. N, k < l
       PROVE  CalcCostPerRequest(SortedModels[k], view.input, view.output)
                  <= CalcCostPerRequest(SortedModels[l], view.input, view.output)
  <2>1. /\ CalcCostPerRequest(SortedModels[k], view.input, view.output) = CostOf(at[k])
        /\ CalcCostPerRequest(SortedModels[l], view.input, view.output) = CostOf(at[l])
    BY <1>13 DEF CostOf
  <2>2. Cardinality(B[at[k]]) < Cardinality(B[at[l]])
    BY <1>11, <1>16
  <2>3. at[k] \in B[at[l]]
    BY <1>9, <1>11, <2>2
  <2>4. CostOf(at[k]) <= CostOf(at[l])
    BY <1>3, <1>5, <1>11, <2>3
  <2> QED
    BY <2>1, <2>4
<1> QED
  BY <1>2, <1>13, <1>15, <1>16

\* A catalogue that a call brings.
OffersOK(c) == c.op = "catalog" /\ c.status = "ok" => c.body \in Catalogues

\* The calculator's table is a catalogue it loaded, or still empty; a model is
\* selected exactly if there is one, and it is one of them.
QuoteOK ==
    /\ DOMAIN view = DOMAIN CatalogView("calculator")
    /\ view.models \in Catalogues \cup {<<>>}
    /\ view.models # <<>> => view.selected \in Range(Ids(view.models))
    /\ view.input \in Nat /\ view.output \in Nat

QuoteInv ==
    /\ PagesInv
    /\ \A i \in DOMAIN calls : OffersOK(calls[i])
    /\ On("calculator") => QuoteOK

\* A step that only answers calls, or drops or adds some, and leaves the view.
LEMMA QuoteCalls ==
    ASSUME QuoteInv, PagesInv', view' = view \/ ~On("calculator")',
           \A i \in DOMAIN calls' :
              OffersOK(calls'[i]) \/ \E k \in DOMAIN calls : calls'[i] = calls[k]
    PROVE  QuoteInv'
<1>1. \A i \in DOMAIN calls' : OffersOK(calls'[i])
  BY DEF QuoteInv, OffersOK
<1>2. On("calculator")' => QuoteOK'
  <2>1. CASE view' = view
    BY <2>1 DEF QuoteInv, QuoteOK, On, CatalogView
  <2>2. CASE ~On("calculator")'
    BY <2>2
  <2> QED
    BY <2>1, <2>2
<1> QED
  BY <1>1, <1>2 DEF QuoteInv

LEMMA AnswerOffers ==
    ASSUME catalog \in Catalogues, NEW c, CallOK(c), c.status = "sent"
    PROVE  OffersOK(Answer(c))
<1>1. Answer(c).op = c.op
  BY DEF Answer, CallOK
<1>2. c.op = "catalog" => Answer(c).body = catalog
  BY DEF Answer, CallOK, Body
<1> QED
  BY <1>1, <1>2 DEF OffersOK

LEMMA CalculateQuotes ==
    ASSUME QuoteInv, PagesInv', Calculate
    PROVE  QuoteInv'
<1>1. On("calculator") /\ UNCHANGED calls /\ QuoteOK
  BY DEF Calculate, QuoteInv
<1>2. QuoteOK'
  <2>1. DOMAIN view = {"page", "loading", "models", "selected", "input", "output"}
    BY <1>1 DEF QuoteOK, CatalogView
  <2>2. CASE \E id \in Range(Ids(view.models)) : SelectRow(id)
    <3>1. PICK id \in Range(Ids(view.models)) : view' = [view EXCEPT !.selected = id]
      BY <2>2 DEF SelectRow
    <3>2. /\ DOMAIN view' = DOMAIN view /\ view'.models = view.models /\ view'.selected = id
          /\ view'.input = view.input /\ view'.output = view.output
      BY <2>1, <3>1
    <3> QED
      BY <1>1, <3>2 DEF QuoteOK, CatalogView
  <2>3. CASE \E n \in Tokens : view' = [view EXCEPT !.input = n]
    <3>1. PICK n \in Nat : view' = [view EXCEPT !.input = n]
      BY <2>3, TokensAssumption
    <3>2. /\ DOMAIN view' = DOMAIN view /\ view'.models = view.models /\ view'.input = n
          /\ view'.selected = view.selected /\ view'.output = view.output
      BY <2>1, <3>1
    <3> QED
      BY <1>1, <3>2 DEF QuoteOK, CatalogView
  <2>4. CASE \E n \in Tokens : view' = [view EXCEPT !.output = n]
    <3>1. PICK n \in Nat : view' = [view EXCEPT !.output = n]
      BY <2>4, TokensAssumption
    <3>2. /\ DOMAIN view' = DOMAIN view /\ view'.models = view.models /\ view'.output = n
          /\ view'.selected = view.selected /\ view'.input = view.input
      BY <2>1, <3>1
    <3> QED
      BY <1>1, <3>2 DEF QuoteOK, CatalogView
  <2> QED
    BY <2>2, <2>3, <2>4 DEF Calculate
<1> QED
  BY <1>1, <1>2 DEF QuoteInv

LEMMA FirstIsOffered ==
    ASSUME NEW c \in Catalogues, c # <<>>
    PROVE  FirstSelected(c) \in Range(Ids(c))
<1>1. 1 \in DOMAIN c /\ DOMAIN Ids(c) = DOMAIN c
  BY CatalogueFacts DEF Ids
<1>2. FirstSelected(c) = Ids(c)[1]
  BY <1>1 DEF FirstSelected, Ids
<1> QED
  BY <1>1, <1>2 DEF Range

LEMMA CatalogArrivesQuotes ==
    ASSUME QuoteInv, PagesInv', NEW i \in DOMAIN calls, CatalogArrives(i)
    PROVE  QuoteInv'
<1>1. /\ calls' = RemoveAt(calls, i) /\ IsSeq(calls) /\ OffersOK(calls[i])
      /\ calls[i].op = "catalog"
  BY DEF CatalogArrives, QuoteInv, PagesInv
<1>2. \A j \in DOMAIN calls' : OffersOK(calls'[j])
  BY <1>1, RemoveElements DEF QuoteInv
<1>3. ASSUME On("calculator") PROVE QuoteOK'
  <2>1. DOMAIN view = {"page", "loading", "models", "selected", "input", "output"} /\ QuoteOK
    BY <1>3 DEF QuoteInv, QuoteOK, CatalogView
  <2>2. CASE calls[i].status # "ok"
    <3>1. view' = [view EXCEPT !.loading = FALSE]
      BY <2>2 DEF CatalogArrives, Loaded
    <3>2. /\ DOMAIN view' = DOMAIN view /\ view'.models = view.models
          /\ view'.selected = view.selected
          /\ view'.input = view.input /\ view'.output = view.output
      BY <2>1, <3>1
    <3> QED
      BY <2>1, <3>2 DEF QuoteOK, CatalogView
  <2>3. CASE calls[i].status = "ok"
    <3>1. PICK c \in Catalogues : c = calls[i].body
      BY <1>1, <2>3 DEF OffersOK
    <3>2. PICK id : id = FirstSelected(c)
      OBVIOUS
    <3>3. view' = [[[view EXCEPT !.loading = FALSE] EXCEPT !.models = c] EXCEPT !.selected = id]
      BY <1>3, <2>3, <3>1, <3>2 DEF CatalogArrives, Loaded
    <3>4. /\ DOMAIN view' = DOMAIN view /\ view'.models = c /\ view'.selected = id
          /\ view'.input = view.input /\ view'.output = view.output
      BY <2>1, <3>3
    <3> QED
      BY <2>1, <3>2, <3>4, FirstIsOffered DEF QuoteOK, CatalogView
  <2> QED
    BY <2>2, <2>3
<1>4. On("calculator")' => On("calculator")
  <2>1. PICK c : view' \in {Loaded, [Loaded EXCEPT !.models = c],
              [[Loaded EXCEPT !.models = c] EXCEPT !.selected = FirstSelected(c)]}
    BY DEF CatalogArrives
  <2>2. "page" \in DOMAIN Loaded /\ Loaded.page = view.page
    BY DEF QuoteInv, PagesInv, Loaded
  <2> QED
    BY <2>1, <2>2 DEF On
<1> QED
  BY <1>2, <1>3, <1>4 DEF QuoteInv

\* The playground has no calls for the catalogue.
LEMMA ChatQuotes ==
    ASSUME PagesInv', On("playground")'
    PROVE  QuoteInv'
<1>1. \A i \in DOMAIN calls' : OffersOK(calls'[i])
  BY DEF PagesInv, ForPlayground, OffersOK
<1> QED
  BY <1>1 DEF QuoteInv, On

LEMMA ChatStays ==
    ASSUME PagesInv, On("playground"),
           \/ ChatUser
           \/ \E i \in DOMAIN calls : ChatArrives(i) \/ Upstream(i)
    PROVE  On("playground")'
<1>1. "page" \in DOMAIN view
  BY DEF PagesInv
<1>2. ASSUME NEW k, TypeKey(k) \/ SelectModel(k) PROVE On("playground")'
  BY <1>1, <1>2 DEF TypeKey, SelectModel, On
<1>3. ASSUME Send \/ Clear PROVE On("playground")'
  BY <1>1, <1>3 DEF Send, Clear, On
<1>4. ASSUME NEW i, ModelsArrive(i) PROVE On("playground")'
  BY <1>1, <1>4 DEF ModelsArrive, On
<1>5. ASSUME NEW i, Chunk(i) PROVE On("playground")'
  <2>1. PICK full : view' \in {view, [view EXCEPT !.text = full]}
    BY <1>5 DEF Chunk
  <2> QED
    BY <1>1, <2>1 DEF On
<1>6. ASSUME NEW i, StreamEnds(i) \/ SendFails(i) \/ StreamBreaks(i) PROVE On("playground")'
  BY <1>1, <1>6 DEF StreamEnds, SendFails, StreamBreaks, AfterError, On
<1>7. ASSUME NEW i, UpstreamEnds(i) PROVE On("playground")'
  BY <1>7 DEF UpstreamEnds, On
<1> QED
  BY <1>2, <1>3, <1>4, <1>5, <1>6, <1>7 DEF ChatUser, ChatArrives, Upstream

LEMMA NextQuotes == QuoteInv /\ PagesInv' /\ [Next]_vars => QuoteInv'
<1> SUFFICES ASSUME QuoteInv, PagesInv', [Next]_vars PROVE QuoteInv'
  OBVIOUS
<1>0. PagesInv /\ IsSeq(calls) /\ catalog \in Catalogues
  BY DEF QuoteInv, PagesInv
<1>1. CASE Open(theme)
  <2>1. view' = Fresh(theme) /\ calls' = <<>>
    BY <1>1 DEF Open
  <2>2. On("calculator")' => view' = CatalogView("calculator")
    BY <2>1 DEF On, Fresh, ChatView, StatusView, DocsView, CatalogView
  <2>3. On("calculator")' => QuoteOK'
    <3> SUFFICES ASSUME view' = CatalogView("calculator") PROVE QuoteOK'
      BY <2>2
    <3>1. view'.models = <<>> /\ view'.input = 500 /\ view'.output = 200
      BY DEF CatalogView
    <3> QED
      BY <3>1 DEF QuoteOK, CatalogView
  <2> QED
    BY <2>1, <2>3, EmptyFacts DEF QuoteInv
<1>2. CASE Mount
  <2>1. CASE On("playground")
    <3>1. (view' = [page |-> "login"] /\ calls' = <<>>) \/ On("playground")'
      BY <1>0, <1>2, <2>1 DEF Mount, Mounted, ChatMounted, On, PagesInv
    <3>2. CASE view' = [page |-> "login"] /\ calls' = <<>>
      BY <3>2, EmptyFacts DEF QuoteInv, On
    <3> QED
      BY <3>1, <3>2, ChatQuotes
  <2>2. CASE ~On("playground")
    <3>1. view' = view /\ calls' \in {<<>>, <<Ask("status", <<>>)>>, <<Ask("catalog", <<>>)>>}
      BY <1>2, <2>2 DEF Mount, Mounted, On
    <3>2. PICK c, d : c = Ask("status", <<>>) /\ d = Ask("catalog", <<>>)
      OBVIOUS
    <3>3. OffersOK(c) /\ OffersOK(d)
      BY <3>2 DEF Ask, OffersOK
    <3>4. \A i \in DOMAIN calls' : OffersOK(calls'[i])
      BY <3>1, <3>2, <3>3, EmptyFacts, SingleFacts
    <3> QED
      BY <3>1, <3>4, QuoteCalls
  <2> QED
    BY <2>1, <2>2
<1>3. CASE Work
  <2>1. CASE ChatUser
    <3>1. On("playground")
      BY <2>1 DEF ChatUser, TypeKey, SelectModel, Send, Clear, Acts
    <3> QED
      BY <1>0, <2>1, <3>1, ChatStays, ChatQuotes
  <2>2. CASE Calculate
    BY <2>2, CalculateQuotes
  <2>3. CASE (\E s \in Sections : SetActive(s)) \/ (\E l \in Languages : SetSdkLang(l))
    <3>1. calls' = calls /\ ~On("calculator")'
      BY <1>0, <2>3 DEF SetActive, SetSdkLang, On, PagesInv
    <3> QED
      BY <3>1, QuoteCalls
  <2> QED
    BY <1>3, <2>1, <2>2, <2>3 DEF Work
<1>4. CASE Interval
  <2>1. view' = view /\ calls' = Append(calls, Ask("status", <<>>))
    BY <1>4 DEF Interval, Poll
  <2>2. PICK c : c = Ask("status", <<>>)
    OBVIOUS
  <2>3. OffersOK(c)
    BY <2>2 DEF Ask, OffersOK
  <2>4. \A i \in DOMAIN calls' : OffersOK(calls'[i]) \/ \E k \in DOMAIN calls : calls'[i] = calls[k]
    BY <1>0, <2>1, <2>2, <2>3, SeqFacts, AppendFacts
  <2> QED
    BY <2>1, <2>4, QuoteCalls
<1>5. CASE Effect \/ Pick \/ UNCHANGED vars
  <2>1. view' = view /\ calls' = calls
    BY <1>5 DEF Effect, Pick, vars
  <2> QED
    BY <2>1, QuoteCalls
<1>7. CASE Others
  <2>2. ASSUME NEW i \in DOMAIN calls, Fail(i) PROVE QuoteInv'
    <3>1. view' = view
      BY <2>2 DEF Fail
    <3>2. PICK s : s \in {"error", "broken"} /\ calls' = [calls EXCEPT ![i].status = s]
      BY <2>2 DEF Fail
    <3>3. PICK c : c = [calls[i] EXCEPT !.status = s]
      OBVIOUS
    <3>4. calls' = [calls EXCEPT ![i] = c]
      BY <3>2, <3>3
    <3>5. OffersOK(c)
      BY <1>0, <2>2, <3>2, <3>3 DEF PagesInv, CallOK, OffersOK
    <3> QED
      BY <1>0, <3>1, <3>4, <3>5, PutFacts, QuoteCalls
  <2>3. ASSUME NEW i \in DOMAIN calls, Upstream(i) PROVE QuoteInv'
    <3>1. On("playground")
      BY <1>0, <2>3, InFlight DEF Upstream, Chunk, UpstreamEnds, StreamBreaks
    <3> QED
      BY <1>0, <2>3, <3>1, ChatStays, ChatQuotes
  <2>4. CASE ChangeCatalog \/ ChangeHealth
    <3>1. view' = view /\ calls' = calls
      BY <2>4 DEF ChangeCatalog, ChangeHealth
    <3> QED
      BY <3>1, QuoteCalls
  <2> QED
    BY <1>7, <2>2, <2>3, <2>4 DEF Others
<1>8. ASSUME NEW i, Arrive(i) PROVE QuoteInv'
  <2>1. i \in DOMAIN calls
    BY <1>8 DEF Arrive
  <2>2. CASE ChatArrives(i)
    <3>1. On("playground")
      BY <1>0, <2>1, <2>2, InFlight
         DEF ChatArrives, ModelsArrive, StreamEnds, SendFails
    <3> QED
      BY <1>0, <2>1, <2>2, <3>1, ChatStays, ChatQuotes
  <2>3. CASE StatusArrives(i)
    <3>1. calls' = RemoveAt(calls, i) /\ calls[i].op = "status"
      BY <2>3 DEF StatusArrives
    <3>2. \A j \in DOMAIN calls' : \E k \in DOMAIN calls : calls'[j] = calls[k]
      BY <1>0, <2>1, <3>1, RemoveElements
    <3>3. "page" \in DOMAIN view /\ DOMAIN view' = DOMAIN view
      BY <1>0, <2>3 DEF StatusArrives, Refreshed, PagesInv
    <3>4. \A f \in DOMAIN view \ {"data", "error"} : view'[f] = view[f]
      BY <2>3 DEF StatusArrives, Refreshed
    <3>5. On("calculator")' => QuoteOK'
      <4>1. On("calculator")' <=> On("calculator")
        BY <3>3, <3>4 DEF On
      <4>2. On("calculator") => QuoteOK
        BY DEF QuoteInv
      <4>3. QuoteOK => /\ view'.models = view.models /\ view'.selected = view.selected
                       /\ view'.input = view.input /\ view'.output = view.output
        BY <3>4 DEF QuoteOK, CatalogView
      <4> QED
        BY <3>3, <4>1, <4>2, <4>3 DEF QuoteOK, CatalogView
    <3> QED
      BY <3>2, <3>5 DEF QuoteInv, OffersOK
  <2>4. CASE CatalogArrives(i)
    BY <2>1, <2>4, CatalogArrivesQuotes
  <2> QED
    BY <1>8, <2>2, <2>3, <2>4 DEF Arrive
<1>9. ASSUME NEW i, Handle(i) PROVE QuoteInv'
  <2>1. /\ i \in DOMAIN calls /\ view' = view /\ calls[i].status = "sent"
        /\ calls' = [calls EXCEPT ![i] = Answer(calls[i])] /\ CallOK(calls[i])
    BY <1>0, <1>9 DEF Handle, Serve, PagesInv
  <2>2. PICK c : c = Answer(calls[i])
    OBVIOUS
  <2>3. OffersOK(c)
    BY <1>0, <2>1, <2>2, AnswerOffers
  <2> QED
    BY <1>0, <2>1, <2>2, <2>3, PutFacts, QuoteCalls
<1> QED
  BY <1>1, <1>2, <1>3, <1>4, <1>5, <1>7, <1>8, <1>9 DEF Next

LEMMA InitQuotes == Init => QuoteInv
<1> SUFFICES ASSUME Init PROVE QuoteInv
  OBVIOUS
<1>1. view = [page |-> "none"] /\ calls = <<>>
  BY DEF Init
<1> QED
  BY <1>1, InitPages, EmptyFacts DEF QuoteInv, On

\* The table of CalculatorPage is one that the server sent, and a model of it is
\* selected, however often the catalogue changes and however late answers are.
THEOREM QuoteInvariant == Spec => []QuoteInv
<1>1. QuoteInv /\ [Next]_vars => QuoteInv'
  BY NextPages, NextQuotes DEF QuoteInv
<1> QED
  BY <1>1, InitQuotes, PTL DEF Spec

\* CalculatorPage: costPerRequest is what calculateTokenCost charges, and sortedModels
\* holds every model once, the cheapest first, for any prices and token counts.
THEOREM QuoteHolds == Spec => []QuotedAsBilled
<1>1. QuoteInv => QuotedAsBilled
  <2> SUFFICES ASSUME QuoteInv, On("calculator"), view.models = catalog, catalog # <<>>
               PROVE  /\ \E m \in Range(catalog) :
                            /\ m.id = view.selected
                            /\ CostPerRequest = Billed(m, view.input, view.output)
                      /\ Range(SortedModels) = Range(catalog)
                      /\ \A i, j \in DOMAIN SortedModels : i < j =>
                            Billed(SortedModels[i], view.input, view.output)
                                <= Billed(SortedModels[j], view.input, view.output)
    BY DEF QuotedAsBilled
  <2>1. /\ view.models \in Catalogues /\ view.input \in Int /\ view.output \in Int
        /\ view.selected \in Range(Ids(view.models))
    BY DEF QuoteInv, QuoteOK, PagesInv
  <2>2. PICK m \in Range(view.models) : IsSelected(m)
    BY <2>1 DEF Range, Ids, IsSelected
  <2>3. SelectedModel \in Range(view.models) /\ IsSelected(SelectedModel)
    BY <2>2 DEF SelectedModel
  <2>4. CostPerRequest = Billed(SelectedModel, view.input, view.output)
    BY <2>2 DEF CostPerRequest, CalcCostPerRequest, Billed
  <2> QED
    BY <2>1, <2>3, <2>4, SortSorts DEF IsSelected, Billed, CalcCostPerRequest
<1> QED
  BY <1>1, QuoteInvariant, PTL

-----------------------------------------------------------------------------
(* The documentation. *)

\* A set of naturals that is not empty has a least element.
LEMMA Least ==
    ASSUME NEW S, S \subseteq Nat, S # {}
    PROVE  \E m \in S : \A n \in S : m <= n
<1>1. PICK m \in S : \A n \in S : ~(<<n, m>> \in OpToRel(<, Nat))
  BY NatLessThanWellFounded, WFMin, Zenon
<1>2. ASSUME NEW n \in S PROVE ~(n < m)
  <2>1. n \in Nat /\ m \in Nat
    BY <1>2
  <2> QED
    BY <1>1, <2>1, Zenon DEF OpToRel
<1>3. m \in S
  BY <1>1, Zenon
<1>4. \A n \in S : m <= n
  BY <1>2, <1>3
<1> QED
  BY <1>3, <1>4, Zenon

LEMMA RunFacts ==
    ASSUME NEW lines \in Seq(Classes), NEW i \in 1 .. Len(lines) + 1, NEW ends
    PROVE  /\ RunEnd(lines, i, ends) \in i .. Len(lines) + 1
           /\ \A j \in i .. RunEnd(lines, i, ends) - 1 : lines[j] \notin ends
           /\ RunEnd(lines, i, ends) <= Len(lines) => lines[RunEnd(lines, i, ends)] \in ends
<1> DEFINE stops == {j \in i .. Len(lines) : lines[j] \in ends}
<1>1. Len(lines) \in Nat
  OBVIOUS
<1>2. CASE stops = {}
  <2>1. RunEnd(lines, i, ends) = Len(lines) + 1
    BY <1>2 DEF RunEnd
  <2>2. \A j \in i .. Len(lines) : lines[j] \notin ends
    BY <1>2
  <2> QED
    BY <1>1, <2>1, <2>2
<1>3. CASE stops # {}
  <2>1. stops \subseteq Nat
    BY <1>1
  <2>2. \E j \in stops : \A k \in stops : j <= k
    BY <1>3, <2>1, Least
  <2>3. PICK e : e = CHOOSE j \in stops : \A k \in stops : j <= k
    OBVIOUS
  <2>4. e \in stops /\ \A k \in stops : e <= k
    BY <2>2, <2>3
  <2>5. RunEnd(lines, i, ends) = e
    BY <1>3, <2>3 DEF RunEnd
  <2> QED
    BY <1>1, <2>4, <2>5
<1> QED
  BY <1>2, <1>3

\* A block starts at its line, shows lines of its own, and the loop goes on behind.
LEMMA BlockFacts ==
    ASSUME NEW lines \in Seq(Classes), NEW i \in 1 .. Len(lines)
    PROVE  /\ BlockAt(lines, i).at = i
           /\ BlockAt(lines, i).next \in i + 1 .. Len(lines) + 2
           /\ BlockAt(lines, i).shows \subseteq i .. BlockAt(lines, i).next - 1
           /\ BlockAt(lines, i).shows \subseteq i .. Len(lines)
<1>0. Len(lines) \in Nat
  OBVIOUS
<1>1. CASE lines[i] = "fence"
  <2>1. PICK last : last = RunEnd(lines, i + 1, {"fence"})
    OBVIOUS
  <2>2. last \in i + 1 .. Len(lines) + 1
    BY <1>0, <2>1, RunFacts
  <2>3. BlockAt(lines, i) = [kind |-> "code", at |-> i, shows |-> i + 1 .. last - 1, next |-> last + 1]
    BY <1>1, <2>1 DEF BlockAt, CodeBlock
  <2> QED
    BY <1>0, <2>2, <2>3
<1>2. CASE lines[i] # "fence" /\ IsTable(lines, i)
  <2>1. PICK last : last = RunEnd(lines, i + 2, {l \in Classes : ~HasBar(l)})
    OBVIOUS
  <2>2. i < Len(lines)
    BY <1>2 DEF IsTable
  <2>3. last \in i + 2 .. Len(lines) + 1
    BY <1>0, <2>1, <2>2, RunFacts
  <2>4. BlockAt(lines, i) =
            [kind |-> "table", at |-> i, shows |-> {i} \cup i + 2 .. last - 1, next |-> last]
    BY <1>2, <2>1 DEF BlockAt, Table
  <2> QED
    BY <1>0, <2>3, <2>4
<1>3. CASE lines[i] # "fence" /\ ~IsTable(lines, i)
  <2>1. BlockAt(lines, i) = [kind |-> lines[i], at |-> i, next |-> i + 1,
                             shows |-> IF lines[i] = "blank" THEN {} ELSE {i}]
    BY <1>3 DEF BlockAt, Line
  <2> QED
    BY <1>0, <2>1
<1> QED
  BY <1>1, <1>2, <1>3

\* The loop of MarkdownContent as an equation about what is shown from each line on.
Rest(lines, f, i) ==
    IF i > Len(lines) THEN <<>>
    ELSE <<BlockAt(lines, i)>> \o f[BlockAt(lines, i).next]
Unfolds(lines, m, f) == f = [i \in m .. Len(lines) + 2 |-> Rest(lines, f, i)]

LEMMA RestDepends ==
    ASSUME NEW lines \in Seq(Classes), NEW i \in 1 .. Len(lines) + 2, NEW f, NEW g,
           \A j \in i + 1 .. Len(lines) + 2 : f[j] = g[j]
    PROVE  Rest(lines, f, i) = Rest(lines, g, i)
<1>1. CASE i > Len(lines)
  BY <1>1 DEF Rest
<1>2. CASE ~(i > Len(lines))
  <2>1. Len(lines) \in Nat /\ i \in 1 .. Len(lines)
    BY <1>2
  <2>2. BlockAt(lines, i).next \in i + 1 .. Len(lines) + 2
    BY <2>1, BlockFacts
  <2>3. f[BlockAt(lines, i).next] = g[BlockAt(lines, i).next]
    BY <2>2
  <2> QED
    BY <1>2, <2>3 DEF Rest
<1> QED
  BY <1>1, <1>2

\* The loop ends: there is such a function, from the last line back to the first.
LEMMA LoopDefined ==
    ASSUME NEW lines \in Seq(Classes)
    PROVE  \E f : Unfolds(lines, 1, f)
<1> DEFINE N == Len(lines)
           Bad == {d \in 0 .. N + 2 : ~\E f : Unfolds(lines, N + 3 - d, f)}
<1>0. N \in Nat
  OBVIOUS
<1>1. Bad # {} => FALSE
  <2> SUFFICES ASSUME Bad # {} PROVE FALSE
    OBVIOUS
  <2>1. Bad \subseteq Nat
    BY <1>0
  <2>2. PICK d \in Bad : \A e \in Bad : d <= e
    BY <2>1, Least
  <2>3. d \in 0 .. N + 2 /\ d \in Nat /\ ~\E f : Unfolds(lines, N + 3 - d, f)
    BY <2>1, <2>2
  <2>4. d # 0
    <3> SUFFICES ASSUME d = 0 PROVE FALSE
      OBVIOUS
    <3>1. PICK f : f = [i \in {} |-> 0]
      OBVIOUS
    <3>2. N + 3 - d .. N + 2 = {}
      BY <1>0
    <3>3. Unfolds(lines, N + 3 - d, f)
      BY <3>1, <3>2 DEF Unfolds
    <3> QED
      BY <2>3, <3>3
  <2>5. PICK m : m = N + 3 - d
    OBVIOUS
  <2>6. m \in 1 .. N + 2 /\ d - 1 \in 0 .. N + 2 /\ N + 3 - (d - 1) = m + 1
    BY <1>0, <2>3, <2>4, <2>5
  <2>7. d - 1 \notin Bad
    BY <2>2, <2>3, <2>6
  <2>8. PICK f : Unfolds(lines, m + 1, f)
    BY <2>6, <2>7
  <2>9. PICK g : g = [i \in m .. N + 2 |-> IF i = m THEN Rest(lines, f, m) ELSE f[i]]
    OBVIOUS
  <2>10. \A i \in m + 1 .. N + 2 : i \in m .. N + 2 /\ i # m /\ g[i] = f[i]
    BY <1>0, <2>6, <2>9
  <2>11. ASSUME NEW i \in m .. N + 2 PROVE g[i] = Rest(lines, g, i)
    <3>0. i \in 1 .. N + 2
      BY <1>0, <2>6
    <3>1. \A j \in i + 1 .. N + 2 : f[j] = g[j]
      BY <1>0, <2>6, <2>10
    <3>2. Rest(lines, f, i) = Rest(lines, g, i)
      BY <3>0, <3>1, RestDepends
    <3>3. CASE i = m
      BY <2>9, <2>11, <3>2, <3>3
    <3>4. CASE i # m
      <4>1. i \in m + 1 .. N + 2
        BY <1>0, <2>6, <3>4
      <4>2. f[i] = Rest(lines, f, i)
        BY <2>8, <4>1 DEF Unfolds
      <4> QED
        BY <2>10, <3>2, <4>1, <4>2
    <3> QED
      BY <3>3, <3>4
  <2>12. Unfolds(lines, m, g)
    BY <2>9, <2>11 DEF Unfolds
  <2> QED
    BY <2>3, <2>5, <2>12
<1>2. N + 2 \notin Bad
  BY <1>1
<1>3. N + 3 - (N + 2) = 1 /\ N + 2 \in 0 .. N + 2
  BY <1>0
<1> QED
  BY <1>2, <1>3

LEMMA BlocksUnfold ==
    ASSUME NEW lines \in Seq(Classes)
    PROVE  \E f : Unfolds(lines, 1, f) /\ Blocks(lines) = f[1]
<1>1. \E f : f = [i \in 1 .. Len(lines) + 2 |->
                    IF i > Len(lines) THEN <<>>
                    ELSE <<BlockAt(lines, i)>> \o f[BlockAt(lines, i).next]]
  BY LoopDefined DEF Unfolds, Rest
<1>2. PICK f : f = CHOOSE g : g = [i \in 1 .. Len(lines) + 2 |->
                    IF i > Len(lines) THEN <<>>
                    ELSE <<BlockAt(lines, i)>> \o g[BlockAt(lines, i).next]]
  OBVIOUS
<1>3. Unfolds(lines, 1, f)
  BY <1>1, <1>2 DEF Unfolds, Rest
<1>4. Blocks(lines) = f[1]
  BY <1>2 DEF Blocks
<1> QED
  BY <1>3, <1>4

\* Is line k between two fences, or after one that is not closed?
FencesBefore(lines, k) == {j \in 1 .. k - 1 : lines[j] = "fence"}
InCode(lines, k) == Cardinality(FencesBefore(lines, k)) % 2 = 1

LEMMA FenceCount ==
    ASSUME NEW lines, NEW k \in Nat
    PROVE  IsFiniteSet(FencesBefore(lines, k)) /\ Cardinality(FencesBefore(lines, k)) \in Nat
<1>1. IsFiniteSet(1 .. k - 1)
  BY FS_Interval
<1>2. FencesBefore(lines, k) \in SUBSET (1 .. k - 1)
  BY DEF FencesBefore
<1> QED
  BY <1>1, <1>2, FS_Subset, FS_CardinalityType

\* Lines that are no fences do not change whether the next one is code.
LEMMA NoFences ==
    ASSUME NEW lines, NEW i \in Nat \ {0}, NEW k \in Nat, i <= k,
           \A j \in i .. k - 1 : lines[j] # "fence"
    PROVE  InCode(lines, k) <=> InCode(lines, i)
<1>1. FencesBefore(lines, k) = FencesBefore(lines, i)
  BY DEF FencesBefore
<1> QED
  BY <1>1 DEF InCode

\* A fence does.
LEMMA OneFence ==
    ASSUME NEW lines, NEW i \in Nat \ {0}, lines[i] = "fence"
    PROVE  InCode(lines, i + 1) <=> ~InCode(lines, i)
<1>1. FencesBefore(lines, i + 1) = FencesBefore(lines, i) \cup {i} /\ i \notin FencesBefore(lines, i)
  BY DEF FencesBefore
<1>2. PICK n \in Nat : n = Cardinality(FencesBefore(lines, i))
  BY FenceCount
<1>3. Cardinality(FencesBefore(lines, i + 1)) = n + 1
  BY <1>1, <1>2, FenceCount, FS_AddElement
<1> QED
  BY <1>2, <1>3 DEF InCode

\* The line under the header of the table that is block b.
Under(lines, b, k) == HasDashes(lines[k]) /\ b.kind = "table" /\ b.at = k - 1

LEMMA BlockShows ==
    ASSUME NEW lines \in Seq(Classes), NEW i \in 1 .. Len(lines), ~InCode(lines, i),
           NEW k \in i .. Len(lines), k < BlockAt(lines, i).next
    PROVE  /\ lines[k] # "fence" =>
                 (InCode(lines, k) <=> k \in BlockAt(lines, i).shows /\ BlockAt(lines, i).kind = "code")
           /\ k \in BlockAt(lines, i).shows <=>
                 ~(\/ lines[k] = "fence"
                   \/ lines[k] = "blank" /\ ~InCode(lines, k)
                   \/ Under(lines, BlockAt(lines, i), k))
<1>0. Len(lines) \in Nat /\ \A j \in 1 .. Len(lines) : lines[j] \in Classes
  OBVIOUS
<1>1. CASE lines[i] = "fence"
  <2>1. PICK last : last = RunEnd(lines, i + 1, {"fence"})
    OBVIOUS
  <2>2. /\ last \in i + 1 .. Len(lines) + 1 /\ \A j \in i + 1 .. last - 1 : lines[j] # "fence"
        /\ last <= Len(lines) => lines[last] = "fence"
    BY <1>0, <2>1, RunFacts
  <2>3. BlockAt(lines, i) = [kind |-> "code", at |-> i, shows |-> i + 1 .. last - 1, next |-> last + 1]
    BY <1>1, <2>1 DEF BlockAt, CodeBlock
  <2>4. CASE k = i \/ k = last
    <3>1. lines[k] = "fence" /\ k \notin i + 1 .. last - 1
      BY <1>1, <2>2, <2>4
    <3> QED
      BY <2>3, <3>1
  <2>5. CASE k \in i + 1 .. last - 1
    <3>1. InCode(lines, i + 1)
      BY <1>1, OneFence
    <3>2. InCode(lines, k)
      BY <2>2, <2>5, <3>1, NoFences
    <3> QED
      BY <2>2, <2>3, <2>5, <3>2 DEF Under
  <2> QED
    BY <1>0, <2>2, <2>3, <2>4, <2>5
<1>2. CASE lines[i] # "fence" /\ IsTable(lines, i)
  <2>1. PICK last : last = RunEnd(lines, i + 2, {l \in Classes : ~HasBar(l)})
    OBVIOUS
  <2>2. i < Len(lines) /\ HasBar(lines[i]) /\ HasDashes(lines[i + 1])
    BY <1>2 DEF IsTable
  <2>3. last \in i + 2 .. Len(lines) + 1 /\ \A j \in i + 2 .. last - 1 : HasBar(lines[j])
    BY <1>0, <2>1, <2>2, RunFacts
  <2>4. BlockAt(lines, i) =
            [kind |-> "table", at |-> i, shows |-> {i} \cup i + 2 .. last - 1, next |-> last]
    BY <1>2, <2>1 DEF BlockAt, Table
  <2>5. \A j \in i .. last - 1 : lines[j] \notin {"fence", "blank"}
    BY <1>0, <2>2, <2>3 DEF HasBar, HasDashes
  <2>6. k \in i .. last - 1
    BY <1>0, <2>3, <2>4
  <2>7. ~InCode(lines, k)
    <3>1. \A j \in i .. k - 1 : lines[j] # "fence"
      BY <1>0, <2>3, <2>5, <2>6
    <3> QED
      BY <1>0, <3>1, NoFences
  <2>8. k \in {i} \cup i + 2 .. last - 1 <=> k # i + 1
    BY <1>0, <2>3, <2>6
  <2>9. Under(lines, BlockAt(lines, i), k) <=> k = i + 1
    BY <1>0, <2>2, <2>4, <2>6 DEF Under
  <2> QED
    BY <2>4, <2>5, <2>6, <2>7, <2>8, <2>9
<1>3. CASE lines[i] # "fence" /\ ~IsTable(lines, i)
  <2>1. BlockAt(lines, i) = [kind |-> lines[i], at |-> i, next |-> i + 1,
                             shows |-> IF lines[i] = "blank" THEN {} ELSE {i}]
    BY <1>3 DEF BlockAt, Line
  <2>2. k = i /\ lines[i] \notin {"code", "table"}
    BY <1>0, <2>1 DEF Classes
  <2> QED
    BY <1>3, <2>1, <2>2 DEF Under
<1> QED
  BY <1>1, <1>2, <1>3

\* The loop goes on outside of code, or at the end.
LEMMA BlockLeavesCode ==
    ASSUME NEW lines \in Seq(Classes), NEW i \in 1 .. Len(lines), ~InCode(lines, i),
           BlockAt(lines, i).next <= Len(lines)
    PROVE  ~InCode(lines, BlockAt(lines, i).next)
<1>0. Len(lines) \in Nat /\ \A j \in 1 .. Len(lines) : lines[j] \in Classes
  OBVIOUS
<1>1. CASE lines[i] = "fence"
  <2>1. PICK last : last = RunEnd(lines, i + 1, {"fence"})
    OBVIOUS
  <2>2. /\ last \in i + 1 .. Len(lines) + 1 /\ \A j \in i + 1 .. last - 1 : lines[j] # "fence"
        /\ last <= Len(lines) => lines[last] = "fence"
    BY <1>0, <2>1, RunFacts
  <2>3. BlockAt(lines, i).next = last + 1
    BY <1>1, <2>1 DEF BlockAt, CodeBlock
  <2>4. InCode(lines, i + 1)
    BY <1>1, OneFence
  <2>5. InCode(lines, last)
    BY <2>2, <2>4, NoFences
  <2>6. lines[last] = "fence" /\ last \in Nat \ {0}
    BY <1>0, <2>2, <2>3
  <2> QED
    BY <2>3, <2>5, <2>6, OneFence
<1>2. CASE lines[i] # "fence" /\ IsTable(lines, i)
  <2>1. PICK last : last = RunEnd(lines, i + 2, {l \in Classes : ~HasBar(l)})
    OBVIOUS
  <2>2. i < Len(lines) /\ HasBar(lines[i]) /\ HasDashes(lines[i + 1])
    BY <1>2 DEF IsTable
  <2>3. last \in i + 2 .. Len(lines) + 1 /\ \A j \in i + 2 .. last - 1 : HasBar(lines[j])
    BY <1>0, <2>1, <2>2, RunFacts
  <2>4. BlockAt(lines, i).next = last
    BY <1>2, <2>1 DEF BlockAt, Table
  <2>5. \A j \in i .. last - 1 : lines[j] # "fence"
    BY <1>0, <2>2, <2>3 DEF HasBar, HasDashes
  <2> QED
    BY <1>0, <2>3, <2>4, <2>5, NoFences
<1>3. CASE lines[i] # "fence" /\ ~IsTable(lines, i)
  <2>1. BlockAt(lines, i).next = i + 1 /\ \A j \in i .. i : lines[j] # "fence"
    BY <1>3 DEF BlockAt, Line
  <2> QED
    BY <1>0, <2>1, NoFences
<1> QED
  BY <1>1, <1>2, <1>3

\* The blocks that show line k, and whether there should be none.
ShownBy(s, k) == {n \in DOMAIN s : k \in s[n].shows}
Hidden(lines, s, k) ==
    \/ lines[k] = "fence"
    \/ lines[k] = "blank" /\ ~InCode(lines, k)
    \/ \E n \in DOMAIN s : Under(lines, s[n], k)

\* The blocks s show line k as they should.
ShowsLine(lines, s, k) ==
    /\ lines[k] # "fence" =>
          (InCode(lines, k) <=> \E n \in ShownBy(s, k) : s[n].kind = "code")
    /\ Hidden(lines, s, k) => ShownBy(s, k) = {}
    /\ ~Hidden(lines, s, k) => \E n \in DOMAIN s : ShownBy(s, k) = {n}

\* The blocks s are those of the lines from i on.
Renders(lines, i, s) ==
    /\ IsSeq(s)
    /\ \A n \in DOMAIN s : s[n].at \in i .. Len(lines) /\ s[n].shows \subseteq s[n].at .. Len(lines)
    /\ \A n \in DOMAIN s : n > 1 => s[n - 1].at < s[n].at
    /\ \A k \in i .. Len(lines) : ShowsLine(lines, s, k)

LEMMA ConsFacts ==
    ASSUME NEW b, NEW t, IsSeq(t)
    PROVE  /\ IsSeq(<<b>> \o t) /\ DOMAIN (<<b>> \o t) = 1 .. Len(t) + 1
           /\ (<<b>> \o t)[1] = b
           /\ \A n \in DOMAIN t : n + 1 \in DOMAIN (<<b>> \o t) /\ (<<b>> \o t)[n + 1] = t[n]
           /\ \A n \in DOMAIN (<<b>> \o t) : n # 1 => n - 1 \in DOMAIN t /\ (<<b>> \o t)[n] = t[n - 1]
<1>1. PICK S : S = Range(t) \cup {b}
  OBVIOUS
<1>2. t \in Seq(S) /\ <<b>> \in Seq(S) /\ Len(<<b>>) = 1 /\ <<b>>[1] = b
  BY <1>1 DEF IsSeq
<1>3. <<b>> \o t \in Seq(S) /\ Len(<<b>> \o t) = Len(t) + 1
  BY <1>2
<1>4. \A n \in 1 .. Len(t) + 1 : (<<b>> \o t)[n] = IF n = 1 THEN b ELSE t[n - 1]
  BY <1>2
<1>5. IsSeq(<<b>> \o t)
  BY <1>3, SeqIsSeq
<1>6. Len(t) \in Nat /\ DOMAIN t = 1 .. Len(t) /\ DOMAIN (<<b>> \o t) = 1 .. Len(t) + 1
  BY <1>2, <1>3
<1>7. ASSUME NEW n \in DOMAIN t
      PROVE n + 1 \in DOMAIN (<<b>> \o t) /\ (<<b>> \o t)[n + 1] = t[n]
  BY <1>4, <1>6
<1>8. ASSUME NEW n \in DOMAIN (<<b>> \o t), n # 1
      PROVE n - 1 \in DOMAIN t /\ (<<b>> \o t)[n] = t[n - 1]
  BY <1>4, <1>6, <1>8
<1>9. (<<b>> \o t)[1] = b
  BY <1>4, <1>6
<1> QED
  BY <1>5, <1>6, <1>7, <1>8, <1>9

LEMMA TableIsLong ==
    ASSUME NEW lines \in Seq(Classes), NEW i \in 1 .. Len(lines), BlockAt(lines, i).kind = "table"
    PROVE  BlockAt(lines, i).next > i + 1
<1>0. Len(lines) \in Nat /\ lines[i] \in Classes
  OBVIOUS
<1>1. lines[i] # "fence" /\ IsTable(lines, i)
  BY <1>0 DEF BlockAt, CodeBlock, Line, Classes
<1>2. i < Len(lines)
  BY <1>1 DEF IsTable
<1>3. RunEnd(lines, i + 2, {l \in Classes : ~HasBar(l)}) \in i + 2 .. Len(lines) + 1
  BY <1>0, <1>2, RunFacts
<1>4. BlockAt(lines, i).next = RunEnd(lines, i + 2, {l \in Classes : ~HasBar(l)})
  BY <1>1 DEF BlockAt, Table
<1> QED
  BY <1>3, <1>4

\* One more block in front.
LEMMA RendersOneMore ==
    ASSUME NEW lines \in Seq(Classes), NEW i \in 1 .. Len(lines), ~InCode(lines, i),
           NEW t, Renders(lines, BlockAt(lines, i).next, t)
    PROVE  Renders(lines, i, <<BlockAt(lines, i)>> \o t)
<1>1. PICK N, b, next, s : /\ N = Len(lines) /\ b = BlockAt(lines, i) /\ next = b.next
                           /\ s = <<b>> \o t
  OBVIOUS
<1>2. /\ N \in Nat /\ i \in 1 .. N /\ next \in i + 1 .. N + 2 /\ b.at = i
      /\ b.shows \subseteq i .. next - 1 /\ b.shows \subseteq i .. N
  BY <1>1, BlockFacts
<1>3. /\ IsSeq(t) /\ Len(t) \in Nat /\ DOMAIN t = 1 .. Len(t)
      /\ \A n \in DOMAIN t : t[n].at \in next .. N /\ t[n].shows \subseteq t[n].at .. N
      /\ \A n \in DOMAIN t : n > 1 => t[n - 1].at < t[n].at
      /\ \A k \in next .. N : ShowsLine(lines, t, k)
  BY <1>1, SeqFacts DEF Renders
<1>4. /\ IsSeq(s) /\ DOMAIN s = 1 .. Len(t) + 1 /\ s[1] = b
      /\ \A n \in DOMAIN t : n + 1 \in DOMAIN s /\ s[n + 1] = t[n]
      /\ \A n \in DOMAIN s : n # 1 => n - 1 \in DOMAIN t /\ s[n] = t[n - 1]
  BY <1>1, <1>3, ConsFacts
<1>5. \A n \in DOMAIN s : s[n].at \in i .. N /\ s[n].shows \subseteq s[n].at .. N
  <2> TAKE n \in DOMAIN s
  <2>1. CASE n = 1
    BY <1>2, <1>4, <2>1
  <2>2. CASE n # 1
    <3>1. PICK m \in DOMAIN t : s[n] = t[m]
      BY <1>4, <2>2
    <3>2. t[m].at \in next .. N /\ t[m].shows \subseteq t[m].at .. N
      BY <1>3, <3>1
    <3> QED
      BY <1>2, <3>1, <3>2
  <2> QED
    BY <2>1, <2>2
<1>6. \A n \in DOMAIN s : n > 1 => s[n - 1].at < s[n].at
  <2> SUFFICES ASSUME NEW n \in DOMAIN s, n > 1 PROVE s[n - 1].at < s[n].at
    OBVIOUS
  <2>1. n \in Nat /\ n - 1 \in DOMAIN t /\ s[n] = t[n - 1]
    BY <1>3, <1>4
  <2>2. t[n - 1].at \in next .. N
    BY <1>3, <2>1
  <2>3. CASE n = 2
    BY <1>2, <1>4, <2>1, <2>2, <2>3
  <2>4. CASE n # 2
    <3>1. n - 1 > 1 /\ n - 1 \in DOMAIN s /\ n - 1 # 1 /\ (n - 1) - 1 \in DOMAIN t
      BY <1>3, <1>4, <2>1, <2>4
    <3>2. t[(n - 1) - 1].at < t[n - 1].at
      BY <1>3, <2>1, <3>1
    <3>3. s[n - 1] = t[(n - 1) - 1]
      BY <1>4, <3>1
    <3> QED
      BY <2>1, <3>2, <3>3
  <2> QED
    BY <2>3, <2>4
<1>7. ASSUME NEW k \in i .. N, k < next PROVE ShowsLine(lines, s, k)
  <2>1. \A n \in DOMAIN s : n # 1 => k \notin s[n].shows /\ ~Under(lines, s[n], k)
    <3> SUFFICES ASSUME NEW n \in DOMAIN s, n # 1
                 PROVE  k \notin s[n].shows /\ ~Under(lines, s[n], k)
      OBVIOUS
    <3>1. PICK m \in DOMAIN t : s[n] = t[m]
      BY <1>4
    <3>2. t[m].at \in next .. N /\ t[m].shows \subseteq t[m].at .. N
      BY <1>3, <3>1
    <3>3. k \notin t[m].shows /\ t[m].at # k - 1
      BY <1>2, <1>7, <3>2
    <3> QED
      BY <3>1, <3>3 DEF Under
  <2>2. 1 \in DOMAIN s
    BY <1>3, <1>4
  <2>3. ShownBy(s, k) = IF k \in b.shows THEN {1} ELSE {}
    BY <1>4, <2>1, <2>2 DEF ShownBy
  <2>4. (\E n \in DOMAIN s : Under(lines, s[n], k)) <=> Under(lines, b, k)
    BY <1>4, <2>1, <2>2
  <2>5. /\ lines[k] # "fence" => (InCode(lines, k) <=> k \in b.shows /\ b.kind = "code")
        /\ k \in b.shows <=> ~(\/ lines[k] = "fence"
                               \/ lines[k] = "blank" /\ ~InCode(lines, k)
                               \/ Under(lines, b, k))
    BY <1>1, <1>7, BlockShows
  <2>6. (\E n \in ShownBy(s, k) : s[n].kind = "code") <=> k \in b.shows /\ b.kind = "code"
    BY <1>4, <2>3
  <2>7. Hidden(lines, s, k) <=> k \notin b.shows
    BY <2>4, <2>5 DEF Hidden
  <2> QED
    BY <2>2, <2>3, <2>5, <2>6, <2>7 DEF ShowsLine
<1>8. ASSUME NEW k \in next .. N PROVE ShowsLine(lines, s, k)
  <2>1. k \notin b.shows
    BY <1>2
  <2>2. ~Under(lines, b, k)
    <3> SUFFICES ASSUME b.kind = "table", b.at = k - 1 PROVE FALSE
      BY DEF Under
    <3>1. k = i + 1
      BY <1>2
    <3>2. next > i + 1
      BY <1>1, <1>2, TableIsLong
    <3> QED
      BY <1>2, <3>1, <3>2
  <2>3. \A n \in DOMAIN s : n \in ShownBy(s, k) <=> n # 1 /\ n - 1 \in ShownBy(t, k)
    BY <1>4, <2>1 DEF ShownBy
  <2>4. \A m \in DOMAIN t : m \in ShownBy(t, k) => m + 1 \in ShownBy(s, k)
    BY <1>3, <1>4 DEF ShownBy
  <2>5. (\E n \in DOMAIN s : Under(lines, s[n], k)) <=> \E m \in DOMAIN t : Under(lines, t[m], k)
    BY <1>3, <1>4, <2>2
  <2>6. Hidden(lines, s, k) <=> Hidden(lines, t, k)
    BY <2>5 DEF Hidden
  <2>7. ShowsLine(lines, t, k)
    BY <1>3
  <2>8. (\E n \in ShownBy(s, k) : s[n].kind = "code") <=> \E m \in ShownBy(t, k) : t[m].kind = "code"
    BY <1>3, <1>4, <2>3, <2>4 DEF ShownBy
  <2>9. ShownBy(t, k) = {} => ShownBy(s, k) = {}
    BY <2>3 DEF ShownBy
  <2>10. ASSUME NEW m \in DOMAIN t, ShownBy(t, k) = {m} PROVE ShownBy(s, k) = {m + 1}
    BY <1>3, <1>4, <2>3, <2>4, <2>10 DEF ShownBy
  <2> QED
    BY <1>4, <2>6, <2>7, <2>8, <2>9, <2>10 DEF ShowsLine
<1>9. \A k \in i .. N : ShowsLine(lines, s, k)
  BY <1>2, <1>7, <1>8
<1> QED
  BY <1>1, <1>4, <1>5, <1>6, <1>9 DEF Renders

LEMMA LoopRenders ==
    ASSUME NEW lines \in Seq(Classes), NEW f, Unfolds(lines, 1, f)
    PROVE  Renders(lines, 1, f[1])
<1> DEFINE N == Len(lines)
           Bad == {d \in 0 .. N + 1 : /\ N + 2 - d > N \/ ~InCode(lines, N + 2 - d)
                                      /\ ~Renders(lines, N + 2 - d, f[N + 2 - d])}
<1>0. N \in Nat
  OBVIOUS
<1>1. \A i \in 1 .. N + 2 : f[i] = Rest(lines, f, i)
  BY DEF Unfolds
<1>2. Bad # {} => FALSE
  <2> SUFFICES ASSUME Bad # {} PROVE FALSE
    OBVIOUS
  <2>1. Bad \subseteq Nat
    BY <1>0
  <2>2. PICK d \in Bad : \A e \in Bad : d <= e
    BY <2>1, Least
  <2>3. PICK i : i = N + 2 - d
    OBVIOUS
  <2>4. /\ d \in 0 .. N + 1 /\ d \in Nat /\ i \in 1 .. N + 2
        /\ i > N \/ ~InCode(lines, i)
        /\ ~Renders(lines, i, f[i])
    BY <1>0, <2>1, <2>2, <2>3
  <2>5. CASE i > N
    <3>1. f[i] = <<>>
      BY <1>1, <2>4, <2>5 DEF Rest
    <3>2. i .. N = {}
      BY <1>0, <2>4, <2>5
    <3>3. Renders(lines, i, <<>>)
      BY <3>2, EmptyFacts DEF Renders
    <3> QED
      BY <2>4, <3>1, <3>3
  <2>6. CASE ~(i > N)
    <3>1. i \in 1 .. N /\ ~InCode(lines, i)
      BY <1>0, <2>4, <2>6
    <3>2. PICK next : next = BlockAt(lines, i).next
      OBVIOUS
    <3>3. next \in i + 1 .. N + 2 /\ (next > N \/ ~InCode(lines, next))
      BY <1>0, <3>1, <3>2, BlockFacts, BlockLeavesCode
    <3>4. PICK e : e = N + 2 - next
      OBVIOUS
    <3>5. e \in 0 .. N + 1 /\ N + 2 - e = next /\ ~(d <= e)
      BY <1>0, <2>3, <2>4, <3>1, <3>3, <3>4
    <3>6. e \notin Bad
      BY <2>2, <3>5
    <3>7. Renders(lines, next, f[next])
      BY <3>3, <3>5, <3>6
    <3>8. f[i] = <<BlockAt(lines, i)>> \o f[next]
      BY <1>1, <2>4, <2>6, <3>2 DEF Rest
    <3> QED
      BY <2>4, <3>1, <3>2, <3>7, <3>8, RendersOneMore
  <2> QED
    BY <2>5, <2>6
<1>3. ~InCode(lines, 1)
  <2>1. FencesBefore(lines, 1) = {}
    BY DEF FencesBefore
  <2>2. Cardinality(FencesBefore(lines, 1)) = 0
    BY <2>1, FS_EmptySet
  <2> QED
    BY <2>2 DEF InCode
<1>4. N + 1 \notin Bad
  BY <1>2
<1>5. N + 1 \in 0 .. N + 1 /\ N + 2 - (N + 1) = 1
  BY <1>0
<1> QED
  BY <1>3, <1>4, <1>5

\* MarkdownContent on any section, of any length: each line is shown by one block,
\* as code exactly if it is inside of a fence, and only fences, blank lines and the
\* line under the header of a table are left out.
THEOREM BlocksRender ==
    ASSUME NEW lines \in Seq(Classes)
    PROVE  Renders(lines, 1, Blocks(lines))
  BY BlocksUnfold, LoopRenders

LEMMA ContentsAreLines == \A c \in Contents : c \in Seq(Classes)
<1> SUFFICES ASSUME NEW n \in 0 .. MaxDocs, NEW c \in [1 .. n -> Classes] PROVE c \in Seq(Classes)
  BY DEF Contents
<1>1. n \in Nat
  BY MaxDocsAssumption
<1> QED
  BY <1>1

\* The text of the section is made of lines.
DocsInv == content \in Seq(Classes)

LEMMA DocsStart == Init => DocsInv
<1> SUFFICES ASSUME Init PROVE DocsInv
  OBVIOUS
<1>1. content \in Contents \/ content = <<>>
  BY DEF Init
<1>2. <<>> \in Seq(Classes)
  OBVIOUS
<1> QED
  BY <1>1, <1>2, ContentsAreLines, Zenon DEF DocsInv

LEMMA DocsSteps == DocsInv /\ [Next]_vars => DocsInv'
<1>1. [Next]_vars => content' = content
  BY DEF Next, Open, Mount, Work, Interval, Effect, Pick, Others, Arrive, Handle, vars
<1> QED
  BY <1>1 DEF DocsInv

\* The documentation page shows every line of the section that is open once and in
\* order, code as code: the loop of MarkdownContent skips nothing.
THEOREM DocsHold == Spec => []DocsComplete
<1>1. DocsInv => DocsComplete
  <2> SUFFICES ASSUME DocsInv, view.active # "sdks" PROVE DocsComplete
    BY DEF DocsComplete
  <2>1. content \in Seq(Classes) /\ Shown = Blocks(content)
    BY DEF DocsInv, Shown
  <2>2. PICK s : s = Shown
    OBVIOUS
  <2>3. Renders(content, 1, s)
    BY <2>1, <2>2, BlocksRender
  <2>4. DOMAIN content = 1 .. Len(content)
    BY <2>1
  <2>5. ASSUME NEW k \in DOMAIN content
        PROVE  /\ content[k] # "fence" =>
                     (InCode(content, k) <=> \E n \in ShownBy(s, k) : s[n].kind = "code")
               /\ Cardinality(ShownBy(s, k)) = IF Hidden(content, s, k) THEN 0 ELSE 1
    <3>1. ShowsLine(content, s, k)
      BY <2>3, <2>4 DEF Renders
    <3>2. /\ Hidden(content, s, k) => Cardinality(ShownBy(s, k)) = 0
          /\ ~Hidden(content, s, k) => Cardinality(ShownBy(s, k)) = 1
      BY <3>1, FS_EmptySet, FS_Singleton DEF ShowsLine
    <3> QED
      BY <3>1, <3>2 DEF ShowsLine
  <2>6. \A n \in DOMAIN s : n > 1 => s[n - 1].at < s[n].at
    BY <2>3 DEF Renders
  <2>7. \A k \in DOMAIN content :
           (\E n \in DOMAIN s : Under(content, s[n], k))
              <=> HasDashes(content[k]) /\ \E b \in Range(s) : b.kind = "table" /\ b.at = k - 1
    BY DEF Under, Range
  <2> QED
    BY <2>2, <2>5, <2>6, <2>7 DEF DocsComplete, ShownBy, Hidden, InCode, FencesBefore
<1> QED
  BY <1>1, DocsStart, DocsSteps, PTL DEF Spec
=============================================================================
