-------------------------- MODULE InferenceProofs ---------------------------
(***************************************************************************)
(* Proofs about Inference and the circuit breaker of its providers: the    *)
(* invariants hold for every chain, every price, every bound of the        *)
(* scanner, streams of any length, and any number of calls and retries.    *)
(***************************************************************************)
EXTENDS Inference, Resilience, TLAPS

-----------------------------------------------------------------------------
(***************************************************************************)
(* Operators.                                                              *)
(***************************************************************************)
\* What is extracted from the usage of a line are two numbers.
LEMMA UsageFields ==
    ASSUME NEW u \in Usages
    PROVE  /\ extractStreamUsage(u) \in [pt : Nat, ct : Nat]
  BY TokensAssumption
     DEF Usages, Reports, Report, Absent, Named, extractStreamUsage, NoTokens

LEMMA LineFields ==
    ASSUME NEW l \in Lines
    PROVE  l.chars \in Nat /\ l.usage \in Usages /\ l.kind \in {"data", "plain"}
  BY SizesAssumption DEF Lines, Data, Plain, Usages

LEMMA EventFields ==
    ASSUME NEW e \in Events
    PROVE  /\ e.chars \in Sizes
           /\ e.usage \in Usages
  BY SizesAssumption, TokensAssumption
     DEF Events, Event, Usages, Reports, Report, Absent, Named

\* The adapter writes lines.
LEMMA ConvertLines ==
    ASSUME NEW e \in Events
    PROVE  Convert(e) \in Seq(Lines)
<1>1. Plain \in Lines
  BY DEF Lines
<1>2. Data(e.chars, e.usage) \in Lines
  BY EventFields DEF Lines
<1>3. Chunk(e) \in Lines
  BY <1>1, <1>2 DEF Chunk
<1> QED
  BY <1>1, <1>3 DEF Convert

LEMMA EstimateTypes ==
    ASSUME NEW n \in Nat
    PROVE  AtLeastOne(n \div 4) \in Nat \ {0}
  BY DEF AtLeastOne

\* Longer content never makes the estimate smaller.
LEMMA EstimateMonotone ==
    ASSUME NEW m \in Nat, NEW n \in Nat, m <= n
    PROVE  AtLeastOne(m \div 4) <= AtLeastOne(n \div 4)
<1>1. m \div 4 <= n \div 4 /\ m \div 4 \in Nat /\ n \div 4 \in Nat
  OBVIOUS
<1> QED BY <1>1 DEF AtLeastOne

\* A positive count of tokens has a positive price.
LEMMA CostPositive ==
    ASSUME NEW pt \in Nat, NEW ct \in Nat
    PROVE  /\ calculateTokenCost(pt, ct) \in Nat
           /\ pt # 0 \/ ct # 0 => calculateTokenCost(pt, ct) > 0
<1> DEFINE a == pt * InputPrice
           b == ct * OutputPrice
<1>1. a \in Nat /\ b \in Nat
  BY NumbersAssumption
<1>2. pt # 0 => a > 0
  BY NumbersAssumption
<1>3. ct # 0 => b > 0
  BY NumbersAssumption
<1>4. calculateTokenCost(pt, ct) = a + b
  BY DEF calculateTokenCost
<1> HIDE DEF a, b
<1> QED BY <1>1, <1>2, <1>3, <1>4

\* What is billed for a stream is never nothing.
LEMMA StreamTokensPositive ==
    ASSUME NEW u \in [pt : Nat, ct : Nat], NEW n \in Nat
    PROVE  /\ StreamTokens(u, n) \in [pt : Nat, ct : Nat]
           /\ StreamTokens(u, n).pt # 0 \/ StreamTokens(u, n).ct # 0
           /\ u = NoTokens => StreamTokens(u, n).ct = AtLeastOne(n \div 4)
<1>1. estimatePromptTokens \in Nat \ {0}
  BY NumbersAssumption, EstimateTypes DEF estimatePromptTokens
<1>2. AtLeastOne(n \div 4) \in Nat \ {0}
  BY EstimateTypes
<1>3. CASE u = NoTokens
  BY <1>1, <1>2, <1>3 DEF StreamTokens
<1>4. CASE u # NoTokens
  BY <1>4 DEF StreamTokens, NoTokens
<1> QED BY <1>3, <1>4

\* A record of the two counts.
LEMMA BillTypes ==
    ASSUME NEW s \in {"ok", "error"}, NEW code \in Nat, NEW pt \in Nat, NEW ct \in Nat
    PROVE  /\ Bill(s, code, pt, ct) \in BillRecords
           /\ Bill(s, code, pt, ct).status = s
           /\ Bill(s, code, pt, ct).code = code
           /\ Bill(s, code, pt, ct).pt = pt
           /\ Bill(s, code, pt, ct).ct = ct
           /\ Bill(s, code, pt, ct).cost = calculateTokenCost(pt, ct)
  BY CostPositive DEF Bill, BillRecords

-----------------------------------------------------------------------------
(***************************************************************************)
(* The inductive invariant.                                                *)
(***************************************************************************)
LEMMA InitInv == Init => Inv
<1> SUFFICES ASSUME Init PROVE Inv
  OBVIOUS
<1>1. TypeOK
  <2>1. <<>> \in Seq(Wires) /\ <<>> \in Seq(BillRecords) /\ <<>> \in Seq(Lines)
    OBVIOUS
  <2>2. 0 \in 0 .. MaxLines /\ NoTokens \in [pt : Nat, ct : Nat]
    BY NumbersAssumption DEF NoTokens
  <2>3. Absent \in Usages
    BY DEF Usages
  <2> QED
    BY <2>1, <2>2, <2>3 DEF Init, TypeOK, Endpoints
<1>2. RecordedOnce /\ StreamNeverFree /\ BilledAsShown /\ Unanswered
  BY DEF Init, RecordedOnce, StreamNeverFree, BilledAsShown, Unanswered
<1>3. MeterExact
  BY DEF Init, MeterExact, extractStreamUsage, Absent, NoTokens
<1> QED
  BY <1>1, <1>2, <1>3 DEF Inv

\* Nothing but an answer that records what it should: the part of the
\* invariant that is not about the stream.
LEMMA AnswerInv ==
    ASSUME Inv, phase # "done", NEW code \in Nat, NEW records \in Seq(BillRecords),
           Answer(code, records)
    PROVE  phase' = "done" /\ status' = code /\ bills' = records
  BY DEF Inv, Unanswered, TypeOK, Answer

\* The record of a stream, whatever ended it.
LEMMA EndStreamBill ==
    ASSUME Inv, phase = "streaming",
           NEW why \in {"eof", "cancelled", "long", "write"},
           NEW u \in [pt : Nat, ct : Nat], NEW n \in Nat,
           EndStream(why, u, n)
    PROVE  /\ phase' = "done" /\ status' = 200 /\ ending' = why
           /\ bills' \in Seq(BillRecords)
           /\ Len(bills') = 1 /\ bills' # <<>>
           /\ bills'[1].status = "ok" /\ bills'[1].code = 200
           /\ bills'[1].pt = StreamTokens(u, n).pt
           /\ bills'[1].ct = StreamTokens(u, n).ct
           /\ bills'[1].cost > 0
<1> DEFINE t == StreamTokens(u, n)
           b == Bill("ok", 200, t.pt, t.ct)
<1>1. t.pt \in Nat /\ t.ct \in Nat /\ (t.pt # 0 \/ t.ct # 0)
  BY StreamTokensPositive
<1>2. calculateTokenCost(t.pt, t.ct) > 0
  BY <1>1, CostPositive
<1>3. /\ b \in BillRecords /\ b.status = "ok" /\ b.code = 200
      /\ b.pt = t.pt /\ b.ct = t.ct /\ b.cost > 0
  <2> HIDE DEF t
  <2> QED BY <1>1, <1>2, CostPositive DEF Bill, BillRecords
<1>4. Answer(200, <<b>>) /\ ending' = why
  BY DEF EndStream
<1> HIDE DEF b, t
<1>5. phase' = "done" /\ status' = 200 /\ bills' = <<b>>
  <2>1. phase # "done" /\ 200 \in Nat /\ <<b>> \in Seq(BillRecords)
    BY <1>3
  <2> QED BY <1>4, <2>1, AnswerInv
<1> QED
  BY <1>3, <1>4, <1>5 DEF t

\* A stream may end whenever what was metered is at least what the client
\* received, and exactly that if the client is still there.
LEMMA EndStreamInv ==
    ASSUME Inv, phase = "streaming", TypeOK',
           NEW why \in {"eof", "cancelled", "long", "write"},
           NEW n \in Nat, n >= received,
           usage' \in [pt : Nat, ct : Nat],
           EndStream(why, usage', n),
           client => usage' = extractStreamUsage(shown) /\ n = received,
           UNCHANGED <<client, shown, received, endpoint>>
    PROVE  Inv'
<1>1. /\ phase' = "done" /\ status' = 200 /\ ending' = why
      /\ Len(bills') = 1 /\ bills' # <<>>
      /\ bills'[1].status = "ok" /\ bills'[1].code = 200
      /\ bills'[1].pt = StreamTokens(usage', n).pt
      /\ bills'[1].ct = StreamTokens(usage', n).ct
      /\ bills'[1].cost > 0
  BY EndStreamBill
<1>2. RecordedOnce'
  BY <1>1 DEF RecordedOnce
<1>3. StreamNeverFree'
  BY <1>1 DEF StreamNeverFree
<1>4. Unanswered' /\ MeterExact'
  BY <1>1 DEF Unanswered, MeterExact
<1>5. BilledAsShown'
  <2>1. received \in Nat
    BY DEF Inv, TypeOK
  <2>2. CASE client
    BY <1>1, <2>2 DEF BilledAsShown
  <2>3. CASE ~client
    <3>1. ASSUME usage' = NoTokens PROVE bills'[1].ct >= AtLeastOne(received \div 4)
      <4>1. bills'[1].ct = AtLeastOne(n \div 4)
        BY <1>1, <3>1 DEF StreamTokens
      <4>2. AtLeastOne(received \div 4) <= AtLeastOne(n \div 4)
        BY <2>1, EstimateMonotone
      <4>3. AtLeastOne(received \div 4) \in Nat /\ AtLeastOne(n \div 4) \in Nat
        BY <2>1, EstimateTypes
      <4> QED BY <4>1, <4>2, <4>3
    <3> QED BY <2>3, <3>1 DEF BilledAsShown
  <2> QED BY <2>2, <2>3
<1> QED
  BY <1>2, <1>3, <1>4, <1>5 DEF Inv

-----------------------------------------------------------------------------
(***************************************************************************)
(* The steps outside the stream.                                           *)
(***************************************************************************)
\* Before the stream is open, a step changes the stage of the request and at
\* most answers it.
LEMMA QuietInv ==
    ASSUME Inv, phase \in {"idle", "calling"},
           UNCHANGED <<environment, meter, history>>,
           phase' \in {"calling", "streaming", "done"},
           endpoint' \in Endpoints, chain' \in Seq(Wires),
           phase' # "done" => chain' # <<>> /\ UNCHANGED <<status, bills>>,
           phase' = "done" => /\ status' \in Nat
                              /\ bills' \in Seq(BillRecords)
                              /\ RecordedOnce'
    PROVE  Inv'
<1> USE DEF environment, meter, history
<1>1. /\ bills = <<>> /\ status = 0 /\ ending = "none" /\ wire = <<>>
  BY DEF Inv, Unanswered
<1>2. TypeOK'
  <2>1. wire' = <<>> /\ status' \in Nat /\ bills' \in Seq(BillRecords)
    BY <1>1 DEF Inv, TypeOK
  <2> QED BY <2>1 DEF Inv, TypeOK
<1>3. RecordedOnce'
  BY <1>1 DEF RecordedOnce
<1>4. StreamNeverFree' /\ BilledAsShown' /\ Unanswered'
  BY <1>1 DEF StreamNeverFree, BilledAsShown, Unanswered
<1>5. MeterExact'
  BY DEF Inv, MeterExact
<1> QED
  BY <1>2, <1>3, <1>4, <1>5 DEF Inv

LEMMA ArrivesInv == Inv /\ Arrives => Inv'
<1> SUFFICES ASSUME Inv, Arrives PROVE Inv'
  OBVIOUS
<1>1. ASSUME NEW ep \in Endpoints, NEW code \in {400, 404, 500}, Refuse(ep, code)
      PROVE  Inv'
  <2>1. phase' = "done" /\ status' = code /\ bills' = <<>>
    BY <1>1 DEF Refuse, Answer, Inv, Unanswered, TypeOK
  <2>2. RecordedOnce'
    BY <2>1 DEF RecordedOnce
  <2>3. chain' = chain /\ chain \in Seq(Wires)
    BY <1>1 DEF Refuse, Inv, TypeOK
  <2> QED BY <1>1, <2>1, <2>2, <2>3, QuietInv DEF Refuse
<1>2. ASSUME NEW ep \in Endpoints, NEW c \in Chains, Route(ep, c)
      PROVE  Inv'
  BY <1>2, ChainsAssumption, QuietInv DEF Route
<1> QED BY <1>1, <1>2 DEF Arrives

\* An answer with one record of the same status.
LEMMA AnswerRecorded ==
    ASSUME Inv, phase = "calling", NEW s \in {"ok", "error"}, NEW code \in {200, 502},
           s = "ok" <=> code = 200,
           NEW pt \in Nat, NEW ct \in Nat,
           Answer(code, <<Bill(s, code, pt, ct)>>)
    PROVE  /\ phase' = "done" /\ status' \in Nat /\ bills' \in Seq(BillRecords)
           /\ RecordedOnce'
<1> DEFINE b == Bill(s, code, pt, ct)
<1>1. b \in BillRecords /\ b.status = s /\ b.code = code
  BY BillTypes
<1> HIDE DEF b
<1>2. phase' = "done" /\ status' = code /\ bills' = <<b>>
  BY <1>1 DEF b, Answer, Inv, Unanswered
<1> QED BY <1>1, <1>2 DEF RecordedOnce

LEMMA CallEndsInv == Inv /\ CallEnds => Inv'
<1> SUFFICES ASSUME Inv, CallEnds PROVE Inv'
  OBVIOUS
<1>1. endpoint \in Endpoints /\ chain \in Seq(Wires)
  BY DEF Inv, TypeOK
<1>2. CASE ProviderFails
  <2>1. chain' \in Seq(Wires) /\ phase = "calling"
    BY <1>1, <1>2 DEF ProviderFails, Inv, TypeOK
  <2>2. CASE chain' # <<>>
    BY <1>1, <1>2, <2>1, <2>2, QuietInv DEF ProviderFails
  <2>3. CASE chain' = <<>>
    <3>1. Answer(502, <<Bill("error", 502, 0, 0)>>)
      BY <1>2, <2>3 DEF ProviderFails
    <3>2. phase' = "done" /\ status' \in Nat /\ bills' \in Seq(BillRecords) /\ RecordedOnce'
      BY <2>1, <3>1, AnswerRecorded
    <3> QED BY <1>1, <1>2, <2>1, <3>2, QuietInv DEF ProviderFails
  <2> QED BY <2>2, <2>3
<1>3. ASSUME NEW u \in {Absent} \cup Reports, ChatAnswers(u) PROVE Inv'
  <2> DEFINE t == extractStreamUsage(u)
  <2>1. t.pt \in Nat /\ t.ct \in Nat
    BY UsageFields DEF Usages
  <2>2. Answer(200, <<Bill("ok", 200, t.pt, t.ct)>>) /\ phase = "calling"
    BY <1>3 DEF ChatAnswers
  <2> HIDE DEF t
  <2>3. phase' = "done" /\ status' \in Nat /\ bills' \in Seq(BillRecords) /\ RecordedOnce'
    BY <2>1, <2>2, AnswerRecorded
  <2> QED BY <1>1, <1>3, <2>2, <2>3, QuietInv DEF ChatAnswers
<1>4. ASSUME NEW code \in {429, 502}, EmbeddingFails(code) PROVE Inv'
  <2>1. phase' = "done" /\ status' = code /\ bills' = <<>>
    BY <1>4 DEF EmbeddingFails, Answer, Inv, Unanswered, TypeOK
  <2>2. RecordedOnce'
    BY <1>4, <2>1 DEF EmbeddingFails, RecordedOnce
  <2> QED BY <1>1, <1>4, <2>1, <2>2, QuietInv DEF EmbeddingFails
<1>5. ASSUME NEW pt \in Tokens, EmbeddingAnswers(pt) PROVE Inv'
  <2>1. pt \in Nat /\ phase = "calling" /\ Answer(200, <<Bill("ok", 200, pt, 0)>>)
    BY <1>5, TokensAssumption DEF EmbeddingAnswers
  <2>2. phase' = "done" /\ status' \in Nat /\ bills' \in Seq(BillRecords) /\ RecordedOnce'
    BY <2>1, AnswerRecorded
  <2> QED BY <1>1, <1>5, <2>1, <2>2, QuietInv DEF EmbeddingAnswers
<1>6. CASE StreamOpens
  <2>1. chain # <<>>
    BY <1>6 DEF StreamOpens, Inv, TypeOK
  <2> QED BY <1>1, <1>6, <2>1, QuietInv DEF StreamOpens
<1> QED
  BY <1>2, <1>3, <1>4, <1>5, <1>6 DEF CallEnds

-----------------------------------------------------------------------------
(***************************************************************************)
(* The steps of the stream.                                                *)
(***************************************************************************)
\* The loop is left with what has been metered.
LEMMA LoopLeftInv ==
    ASSUME Inv, phase = "streaming",
           NEW why \in {"eof", "cancelled", "long", "write"},
           EndStream(why, usage, chars),
           UNCHANGED <<endpoint, chain, client, usage, chars, shown, received>>,
           UNCHANGED <<wire, closed, sent, buf, done>>
    PROVE  Inv'
<1>1. /\ phase' = "done" /\ status' = 200 /\ ending' = why
      /\ bills' \in Seq(BillRecords)
  BY EndStreamBill DEF Inv, TypeOK
<1>2. TypeOK'
  BY <1>1 DEF Inv, TypeOK
<1>4. /\ usage' = usage /\ usage \in [pt : Nat, ct : Nat]
      /\ chars \in Nat /\ chars >= received
      /\ client => usage = extractStreamUsage(shown) /\ chars = received
  BY DEF Inv, TypeOK, MeterExact
<1>5. EndStream(why, usage', chars)
  BY <1>4
<1> QED
  BY <1>2, <1>4, <1>5, EndStreamInv

\* Reading moves the first line of the source into the buffer.
LEMMA ReadMoves ==
    ASSUME Inv, Read
    PROVE  /\ wire' \in Seq(IF chain # <<>> /\ Head(chain) = "anthropic"
                            THEN Events ELSE Lines)
           /\ buf' \in Seq(Lines)
<1> DEFINE S == IF Head(chain) = "anthropic" THEN Events ELSE Lines
<1>1. chain # <<>> /\ wire # <<>> /\ wire \in Seq(S) /\ wire' = Tail(wire)
  BY DEF Inv, TypeOK, Read
<1>2. wire[1] \in S /\ Head(wire) = wire[1]
  BY <1>1
<1>3. wire' \in Seq(S)
  BY <1>1
<1>4. CASE Head(chain) = "anthropic"
  <2>1. wire[1] \in Events /\ buf' = Convert(wire[1])
    BY <1>2, <1>4 DEF Read
  <2> QED BY <1>1, <1>2, <1>3, <2>1, ConvertLines
<1>5. CASE Head(chain) # "anthropic"
  <2>1. wire[1] \in Lines /\ buf' = <<wire[1]>>
    BY <1>2, <1>5 DEF Read
  <2> QED BY <1>1, <1>2, <1>3, <2>1
<1> QED BY <1>4, <1>5

LEMMA ReadInv == Inv /\ Read => Inv'
<1> SUFFICES ASSUME Inv, Read PROVE Inv'
  OBVIOUS
<1>1. /\ phase = "streaming" /\ buf = <<>>
      /\ UNCHANGED <<endpoint, chain, client, sent, closed,
                     usage, chars, shown, received>>
      /\ done' \in BOOLEAN
  BY DEF Read
<1>2. \/ EndStream("eof", usage, chars)
      \/ UNCHANGED <<phase, status, bills, ending>>
  BY DEF Read
<1>4. CASE EndStream("eof", usage, chars)
  <2>1. /\ phase' = "done" /\ status' = 200 /\ ending' = "eof"
        /\ bills' \in Seq(BillRecords)
    BY <1>1, <1>4, EndStreamBill DEF Inv, TypeOK
  <2>2. TypeOK'
    BY <1>1, <2>1, ReadMoves DEF Inv, TypeOK
  <2>3. /\ usage' = usage /\ usage \in [pt : Nat, ct : Nat]
        /\ chars \in Nat /\ chars >= received
        /\ client => usage = extractStreamUsage(shown) /\ chars = received
    BY <1>1 DEF Inv, TypeOK, MeterExact
  <2>4. EndStream("eof", usage', chars)
    BY <1>4, <2>3
  <2> QED BY <1>1, <2>2, <2>3, <2>4, EndStreamInv
<1>5. CASE UNCHANGED <<phase, status, bills, ending>>
  <2>1. TypeOK'
    BY <1>1, <1>5, ReadMoves DEF Inv, TypeOK
  <2>2. RecordedOnce' /\ StreamNeverFree' /\ BilledAsShown'
    BY <1>1, <1>5 DEF Inv, RecordedOnce, StreamNeverFree, BilledAsShown
  <2>3. Unanswered' /\ MeterExact'
    BY <1>1, <1>5 DEF Inv, Unanswered, MeterExact
  <2> QED BY <2>1, <2>2, <2>3 DEF Inv
<1> QED BY <1>2, <1>4, <1>5

\* One metered line: the counts stay exact for a client that receives it.
LEMMA MeterLine ==
    ASSUME Inv, NEW l, l = Head(buf), Meter(l)
    PROVE  /\ l \in Lines /\ l.chars \in Nat
           /\ phase = "streaming" /\ chars' = chars + l.chars
           /\ usage' = MeteredUsage(l) /\ usage' \in [pt : Nat, ct : Nat]
           /\ buf' \in Seq(Lines)
           /\ client => usage' = extractStreamUsage(IF l.usage # Absent THEN l.usage ELSE shown)
<1>1. buf \in Seq(Lines) /\ buf # <<>> /\ buf' = Tail(buf) /\ phase = "streaming"
  BY DEF Meter, Inv, TypeOK
<1>2. l \in Lines /\ buf' \in Seq(Lines)
  BY <1>1
<1>3. l.usage \in Usages /\ l.chars \in Nat
  BY <1>2, LineFields
<1>4. usage' = MeteredUsage(l) /\ chars' = chars + l.chars
  BY DEF Meter
<1>5. usage' \in [pt : Nat, ct : Nat]
  BY <1>3, <1>4, UsageFields DEF MeteredUsage, Inv, TypeOK
<1>6. client => usage = extractStreamUsage(shown)
  BY <1>1 DEF Inv, MeterExact
<1> QED BY <1>1, <1>2, <1>3, <1>4, <1>5, <1>6 DEF MeteredUsage

LEMMA ForwardLineInv == Inv /\ ForwardLine => Inv'
<1> SUFFICES ASSUME Inv, ForwardLine PROVE Inv'
  OBVIOUS
<1> DEFINE l == Head(buf)
<1>1. /\ Meter(l)
      /\ shown' = IF client /\ l.usage # Absent THEN l.usage ELSE shown
      /\ received' = IF client THEN received + l.chars ELSE received
      /\ UNCHANGED <<phase, status, bills, ending>>
  BY DEF ForwardLine
<1>2. UNCHANGED <<endpoint, chain, client, wire, sent, closed, done>>
  BY <1>1 DEF Meter, environment
<1>3. /\ l \in Lines /\ l.chars \in Nat /\ phase = "streaming"
      /\ chars' = chars + l.chars /\ usage' \in [pt : Nat, ct : Nat]
      /\ buf' \in Seq(Lines)
      /\ client => usage' = extractStreamUsage(IF l.usage # Absent THEN l.usage ELSE shown)
  BY <1>1, MeterLine
<1>4. l.usage \in Usages
  BY <1>3, LineFields
<1> HIDE DEF l
<1>6. shown' \in Usages /\ received' \in Nat /\ chars' \in Nat
  <2>1. /\ shown \in Usages
        /\ received \in Nat /\ chars \in Nat
    BY DEF Inv, TypeOK
  <2>2. shown' \in Usages
    BY <1>1, <1>4, <2>1
  <2>3. received' \in Nat
    BY <1>1, <1>3, <2>1
  <2>4. chars' \in Nat
    BY <1>3, <2>1
  <2> QED BY <2>2, <2>3, <2>4
<1>7. TypeOK'
  BY <1>1, <1>2, <1>3, <1>6 DEF Inv, TypeOK
<1>8. RecordedOnce' /\ StreamNeverFree' /\ BilledAsShown' /\ Unanswered'
  BY <1>1, <1>2, <1>3
     DEF Inv, RecordedOnce, StreamNeverFree, BilledAsShown, Unanswered
<1>9. MeterExact'
  <2>1. /\ chars \in Nat /\ received \in Nat /\ chars >= received
        /\ client => chars = received
    BY <1>3 DEF Inv, TypeOK, MeterExact
  <2>2. chars' >= received' /\ (client => chars' = received')
    BY <1>1, <1>3, <2>1
  <2>3. client => usage' = extractStreamUsage(shown')
    BY <1>1, <1>3
  <2> QED BY <1>2, <2>2, <2>3 DEF MeterExact
<1> QED BY <1>7, <1>8, <1>9 DEF Inv

LEMMA WriteFailsInv == Inv /\ WriteFails => Inv'
<1> SUFFICES ASSUME Inv, WriteFails PROVE Inv'
  OBVIOUS
<1> DEFINE l == Head(buf)
           n == chars + l.chars
<1>1. /\ ~client /\ Meter(l)
      /\ EndStream("write", MeteredUsage(l), n)
      /\ UNCHANGED <<shown, received>>
  BY DEF WriteFails
<1>2. UNCHANGED <<endpoint, chain, client, wire, sent, closed, done>>
  BY <1>1 DEF Meter, environment
<1>3. /\ l \in Lines /\ l.chars \in Nat /\ phase = "streaming"
      /\ chars' = n /\ usage' = MeteredUsage(l) /\ usage' \in [pt : Nat, ct : Nat]
      /\ buf' \in Seq(Lines)
  BY <1>1, MeterLine
<1>5. EndStream("write", usage', n)
  BY <1>1, <1>3
<1>6. n \in Nat /\ n >= received
  <2>1. chars \in Nat /\ received \in Nat /\ chars >= received
    BY <1>3 DEF Inv, TypeOK, MeterExact
  <2> QED BY <1>3, <2>1
<1> HIDE DEF n, l
<1>7. /\ phase' = "done" /\ status' = 200 /\ ending' = "write"
      /\ bills' \in Seq(BillRecords)
  BY <1>3, <1>5, <1>6, EndStreamBill
<1>8. TypeOK'
  BY <1>1, <1>2, <1>3, <1>6, <1>7 DEF Inv, TypeOK
<1> QED
  BY <1>1, <1>2, <1>3, <1>5, <1>6, <1>8, EndStreamInv

LEMMA StreamInv == Inv /\ Stream => Inv'
<1>1. Inv /\ ReadEOF => Inv'
  BY LoopLeftInv DEF ReadEOF, environment, meter
<1>2. Inv /\ ReadCancelled => Inv'
  BY LoopLeftInv DEF ReadCancelled, environment, meter
<1>3. Inv /\ LineTooLong => Inv'
  BY LoopLeftInv DEF LineTooLong, environment, meter
<1> QED
  BY <1>1, <1>2, <1>3, ReadInv, ForwardLineInv, WriteFailsInv DEF Stream

-----------------------------------------------------------------------------
(***************************************************************************)
(* The environment, and the theorems.                                      *)
(***************************************************************************)
LEMMA UpstreamSendsInv ==
    ASSUME Inv, NEW l, UpstreamSends(l)
    PROVE  Inv'
<1> USE DEF meter, history
<1>1. /\ phase = "streaming" /\ wire' = Append(wire, l)
      /\ sent' = sent + 1 /\ sent < MaxLines
      /\ UNCHANGED <<phase, endpoint, chain, status, bills, client, closed, buf,
                     done, usage, chars, shown, received, ending>>
  BY DEF UpstreamSends
<1>2. /\ wire \in Seq(IF chain # <<>> /\ Head(chain) = "anthropic" THEN Events ELSE Lines)
      /\ chain # <<>>
  BY <1>1 DEF Inv, TypeOK
<1>3. l \in (IF chain # <<>> /\ Head(chain) = "anthropic" THEN Events ELSE Lines)
  BY <1>2 DEF UpstreamSends
<1>4. wire' \in Seq(IF chain # <<>> /\ Head(chain) = "anthropic" THEN Events ELSE Lines)
  BY <1>1, <1>2, <1>3
<1>5. sent' \in 0 .. MaxLines
  BY <1>1, NumbersAssumption DEF Inv, TypeOK
<1>6. TypeOK'
  BY <1>1, <1>4, <1>5 DEF Inv, TypeOK
<1>9. RecordedOnce' /\ StreamNeverFree' /\ BilledAsShown' /\ Unanswered' /\ MeterExact'
  BY <1>1 DEF Inv, RecordedOnce, StreamNeverFree, BilledAsShown, Unanswered, MeterExact
<1> QED BY <1>6, <1>9 DEF Inv

LEMMA EnvironmentInv == Inv /\ Environment => Inv'
<1> SUFFICES ASSUME Inv, Environment PROVE Inv'
  OBVIOUS
<1> USE DEF meter, history
<1>1. CASE UpstreamCloses
  <2>1. TypeOK'
    BY <1>1 DEF UpstreamCloses, Inv, TypeOK
  <2> QED
    BY <1>1, <2>1 DEF UpstreamCloses, Inv, RecordedOnce, StreamNeverFree,
       BilledAsShown, Unanswered, MeterExact
<1>2. CASE ClientLeaves
  <2>1. TypeOK'
    BY <1>2 DEF ClientLeaves, Inv, TypeOK
  <2>2. ending = "none"
    BY <1>2 DEF ClientLeaves, Inv, Unanswered
  <2> QED
    BY <1>2, <2>1, <2>2 DEF ClientLeaves, Inv, RecordedOnce, StreamNeverFree,
       BilledAsShown, Unanswered, MeterExact
<1> QED BY <1>1, <1>2, UpstreamSendsInv DEF Environment

LEMMA StutterInv == Inv /\ UNCHANGED vars => Inv'
<1> SUFFICES ASSUME Inv, UNCHANGED vars PROVE Inv'
  OBVIOUS
<1> USE DEF vars, environment, meter, history
<1>1. TypeOK'
  BY DEF Inv, TypeOK
<1> QED
  BY <1>1 DEF Inv, RecordedOnce, StreamNeverFree, BilledAsShown, Unanswered,
     MeterExact

LEMMA NextInv == Inv /\ [Next]_vars => Inv'
  BY ArrivesInv, CallEndsInv, StreamInv, EnvironmentInv, StutterInv
     DEF Next, Terminated

LEMMA SpecInv == Spec => []Inv
  BY InitInv, NextInv, PTL DEF Spec

\* The request, its stream and its meter keep their types.
THEOREM TypeCorrect == Spec => []TypeOK
<1>1. Inv => TypeOK
  BY DEF Inv
<1> QED BY <1>1, SpecInv, PTL

\* Whatever chain of providers was tried: one record per answered request,
\* with the status of the answer.
THEOREM OneRecord == Spec => []RecordedOnce
<1>1. Inv => RecordedOnce
  BY DEF Inv
<1> QED BY <1>1, SpecInv, PTL

\* Streams of any length are billed for what the client saw.
THEOREM StreamBilledAsShown == Spec => []BilledAsShown
<1>1. Inv => BilledAsShown
  BY DEF Inv
<1> QED BY <1>1, SpecInv, PTL

\* No stream is free, for any positive prices.
THEOREM StreamsCost == Spec => []StreamNeverFree
<1>1. Inv => StreamNeverFree
  BY DEF Inv
<1> QED BY <1>1, SpecInv, PTL

-----------------------------------------------------------------------------
(***************************************************************************)
(* The circuit breaker in front of a provider: state and failure counter   *)
(* agree, for any number of concurrent calls, any threshold, any number of *)
(* retries and any timeout.                                                *)
(***************************************************************************)
USE ThresholdAssumption, RetriesAssumption, TimeoutAssumption, BoundAssumption

LEMMA BreakerInitInv == BreakerInit => BreakerInv
  BY DEF BreakerInit, BreakerInv, BreakerTypeOK, CircuitStates, ClosedIffBelowThreshold

\* The three methods that change the breaker keep state and counter together.
LEMMA RecordSuccessAgrees ==
    ASSUME BreakerInv, RecordSuccess
    PROVE  /\ ClosedIffBelowThreshold'
           /\ state' \in CircuitStates /\ failures' \in 0 .. FailureBound
           /\ since' \in 0 .. ResetTimeout + 1
  BY DEF BreakerInv, BreakerTypeOK, RecordSuccess, ClosedIffBelowThreshold, CircuitStates

LEMMA RecordFailureAgrees ==
    ASSUME BreakerInv, RecordFailure
    PROVE  /\ ClosedIffBelowThreshold'
           /\ state' \in CircuitStates /\ failures' \in 0 .. FailureBound
           /\ since' \in 0 .. ResetTimeout + 1
<1>1. CASE failures < FailureBound
  BY <1>1 DEF BreakerInv, BreakerTypeOK, RecordFailure, ClosedIffBelowThreshold, CircuitStates
<1>2. CASE ~(failures < FailureBound)
  BY <1>2 DEF BreakerInv, BreakerTypeOK, RecordFailure, ClosedIffBelowThreshold, CircuitStates
<1> QED
  BY <1>1, <1>2

LEMMA AllowAgrees ==
    ASSUME BreakerInv, Allow, UNCHANGED <<failures, since>>
    PROVE  ClosedIffBelowThreshold' /\ state' \in CircuitStates
  BY DEF BreakerInv, BreakerTypeOK, Allow, ClosedIffBelowThreshold, CircuitStates

\* The end of a call releases it and changes nothing else of any call.
LEMMA FinishTypes ==
    ASSUME BreakerTypeOK, NEW c \in Calls, Finish(c)
    PROVE  /\ pc' \in [Calls -> {"idle", "call", "wait"}]
           /\ \A d \in Calls : pc'[d] = "wait" => kind'[d] = "chat"
           /\ kind' = kind /\ attempt' = attempt /\ up' = up /\ faulty' = faulty
  BY DEF BreakerTypeOK, Finish, outside

LEMMA BreakerNextInv == BreakerInv /\ [BreakerNext]_breakerVars => BreakerInv'
<1> SUFFICES ASSUME BreakerInv, [BreakerNext]_breakerVars PROVE BreakerInv'
  OBVIOUS
<1>1. ASSUME NEW c \in Calls, NEW k \in {"chat", "stream"}, Begin(c, k) PROVE BreakerInv'
  <2>1. ClosedIffBelowThreshold' /\ state' \in CircuitStates
    BY <1>1, AllowAgrees DEF Begin
  <2>2. BreakerTypeOK'
    BY <1>1, <2>1 DEF Begin, outside, BreakerInv, BreakerTypeOK
  <2> QED BY <2>1, <2>2 DEF BreakerInv
<1>2. ASSUME NEW c \in Calls, CallSucceeds(c) PROVE BreakerInv'
  BY <1>2, RecordSuccessAgrees, FinishTypes DEF CallSucceeds, BreakerInv, BreakerTypeOK
<1>3. ASSUME NEW c \in Calls, CallFails(c) PROVE BreakerInv'
  <2>1. CASE kind[c] = "chat" /\ attempt[c] < Retries
    <3>1. /\ pc' = [pc EXCEPT ![c] = "wait"]
          /\ attempt' = [attempt EXCEPT ![c] = @ + 1]
          /\ UNCHANGED <<breaker, kind, up, faulty>>
          /\ pc[c] = "call"
      BY <1>3, <2>1 DEF CallFails, outside
    <3>2. attempt' \in [Calls -> 0 .. Retries]
      BY <2>1, <3>1 DEF BreakerInv, BreakerTypeOK
    <3> QED
      BY <2>1, <3>1, <3>2 DEF breaker, BreakerInv, BreakerTypeOK, ClosedIffBelowThreshold
  <2>2. CASE ~(kind[c] = "chat" /\ attempt[c] < Retries)
    BY <1>3, <2>2, RecordFailureAgrees, FinishTypes DEF CallFails, BreakerInv, BreakerTypeOK
  <2> QED BY <2>1, <2>2
<1>4. ASSUME NEW c \in Calls, BackoffDone(c) PROVE BreakerInv'
  BY <1>4 DEF BackoffDone, breaker, outside, BreakerInv, BreakerTypeOK, ClosedIffBelowThreshold
<1>5. ASSUME NEW c \in Calls, BackoffCancelled(c) PROVE BreakerInv'
  BY <1>5, FinishTypes DEF BackoffCancelled, breaker, BreakerInv, BreakerTypeOK, ClosedIffBelowThreshold
<1>6. CASE TimePasses
  BY <1>6 DEF TimePasses, outside, BreakerInv, BreakerTypeOK, ClosedIffBelowThreshold
<1>7. CASE UpstreamChanges
  BY <1>7 DEF UpstreamChanges, breaker, BreakerInv, BreakerTypeOK, ClosedIffBelowThreshold
<1>8. CASE UNCHANGED breakerVars
  BY <1>8 DEF breakerVars, breaker, outside, BreakerInv, BreakerTypeOK, ClosedIffBelowThreshold
<1>9. CASE CallersChange
  BY <1>9 DEF CallersChange, breaker, BreakerInv, BreakerTypeOK, ClosedIffBelowThreshold
<1> QED
  BY <1>1, <1>2, <1>3, <1>4, <1>5, <1>6, <1>7, <1>8, <1>9 DEF BreakerNext, Call

\* The types of the breaker and of its calls.
THEOREM BreakerTypeCorrect == BreakerSpec => []BreakerTypeOK
<1>1. BreakerInv => BreakerTypeOK
  BY DEF BreakerInv
<1> QED
  BY <1>1, BreakerInitInv, BreakerNextInv, PTL DEF BreakerSpec

\* Closed means exactly fewer than Threshold failures since the last success,
\* although calls report their outcome at any later time.
THEOREM BreakerConsistent == BreakerSpec => []ClosedIffBelowThreshold
<1>1. BreakerInv => ClosedIffBelowThreshold
  BY DEF BreakerInv
<1> QED
  BY <1>1, BreakerInitInv, BreakerNextInv, PTL DEF BreakerSpec
=============================================================================
