----------------------------- MODULE IngestProofs -----------------------------
(***************************************************************************)
(* What the ingest endpoint acknowledges is stored, whole and in order:    *)
(* what the runs check of Ingest on two batches, proved for any bodies,    *)
(* numbers of attempts and of faults.                                      *)
(***************************************************************************)
EXTENDS Ingest, DataLemmas

-----------------------------------------------------------------------------
(* The loops of the decoder push what they choose and nothing else.        *)

PushedUpTo(f, seq, chosen, m) ==
  f = [n \in 0..m |-> IF n = 0 THEN <<>>
                      ELSE IF n \in chosen THEN Append(f[n - 1], seq[n]) ELSE f[n - 1]]

\* The recursion that pushes has a value at every place of the sequence.
LEMMA PushingIsDefined ==
  ASSUME NEW seq, NEW chosen, NEW m \in Nat
  PROVE  \E f : PushedUpTo(f, seq, chosen, m)
<1> DEFINE Undefined == {k \in Nat : ~\E f : PushedUpTo(f, seq, chosen, k)}
<1> SUFFICES ASSUME m \in Undefined
             PROVE  FALSE
  OBVIOUS
<1>1. PICK k \in Undefined : \A j \in Undefined : k <= j
  <2>1. Undefined \subseteq Nat /\ Undefined # {}
    OBVIOUS
  <2> QED
    BY <2>1, LeastOf
<1>2. k # 0
  <2>1. PushedUpTo([n \in 0..0 |-> <<>>], seq, chosen, 0)
    BY DEF PushedUpTo
  <2> QED
    BY <1>1, <2>1
<1>3. k - 1 \in Nat /\ k - 1 \notin Undefined
  BY <1>1, <1>2
<1>4. PICK f : PushedUpTo(f, seq, chosen, k - 1)
  BY <1>3
<1> DEFINE g == [n \in 0..k |->
                   IF n = k THEN IF k \in chosen THEN Append(f[k - 1], seq[k]) ELSE f[k - 1]
                   ELSE f[n]]
<1>5. \A n \in 0..k : n # 0 => g[n - 1] = f[n - 1]
  BY <1>1, <1>2
<1>6. PushedUpTo(g, seq, chosen, k)
  <2> SUFFICES ASSUME NEW n \in 0..k
               PROVE  g[n] = IF n = 0 THEN <<>>
                             ELSE IF n \in chosen THEN Append(f[n - 1], seq[n]) ELSE f[n - 1]
    BY <1>5 DEF PushedUpTo
  <2>1. CASE n # k
    <3>1. n \in 0..(k - 1)
      BY <1>3, <2>1
    <3>2. f[n] = IF n = 0 THEN <<>>
                 ELSE IF n \in chosen THEN Append(f[n - 1], seq[n]) ELSE f[n - 1]
      BY <1>4, <3>1 DEF PushedUpTo
    <3> QED
      BY <2>1, <3>2
  <2> QED
    BY <1>2, <2>1
<1> QED
  BY <1>1, <1>6

\* What is pushed up to place n.
PushedOK(result, seq, chosen, n) ==
  /\ result \in Seq(Range(seq))
  /\ \A i \in DOMAIN result : \E j \in chosen \cap 1..n : result[i] = seq[j]
  /\ \A j \in chosen \cap 1..n : \E i \in DOMAIN result : result[i] = seq[j]

\* What is pushed is what was chosen, all of it.
LEMMA PushedIsChosen ==
  ASSUME NEW seq, seq \in Seq(Range(seq)), NEW chosen
  PROVE  PushedOK(Pushed(seq, chosen), seq, chosen, Len(seq))
<1> DEFINE S == Range(seq)
           len == Len(seq)
<1>1. len \in Nat /\ DOMAIN seq = 1..len /\ \A j \in 1..len : seq[j] \in S
  BY LenProperties DEF Range
<1>2. PICK f : PushedUpTo(f, seq, chosen, len) /\ Pushed(seq, chosen) = f[len]
  <2> DEFINE f == CHOOSE f : PushedUpTo(f, seq, chosen, len)
  <2>1. Pushed(seq, chosen) = f[len]
    BY DEF Pushed, PushedUpTo
  <2>2. PushedUpTo(f, seq, chosen, len)
    BY <1>1, PushingIsDefined
  <2> QED
    BY <2>1, <2>2
<1> DEFINE Wrong == {n \in 0..len : ~PushedOK(f[n], seq, chosen, n)}
<1>3. SUFFICES ASSUME Wrong # {}
               PROVE  FALSE
  BY <1>1, <1>2
<1>4. PICK n \in Wrong : \A k \in Wrong : n <= k
  <2>1. Wrong \subseteq Nat
    BY <1>1
  <2> QED
    BY <1>3, <2>1, LeastOf
<1>5. n \in 0..len /\ ~PushedOK(f[n], seq, chosen, n)
  OBVIOUS
<1>6. f[n] = IF n = 0 THEN <<>>
             ELSE IF n \in chosen THEN Append(f[n - 1], seq[n]) ELSE f[n - 1]
  BY <1>2, <1>5 DEF PushedUpTo
<1>7. CASE n = 0
  <2>1. f[n] = <<>> /\ DOMAIN <<>> = {} /\ <<>> \in Seq(S)
    BY <1>6, <1>7
  <2> QED
    BY <1>1, <1>5, <1>7, <2>1 DEF PushedOK
<1>8. CASE n # 0
  <2> DEFINE before == f[n - 1]
  <2>1. n - 1 \in 0..len /\ n \in 1..len
    BY <1>1, <1>5, <1>8
  <2>2. PushedOK(before, seq, chosen, n - 1)
    BY <1>1, <1>4, <2>1
  <2> HIDE DEF before
  <2>3. \A j : j \in 1..n <=> j \in 1..(n - 1) \/ j = n
    BY <1>1, <2>1
  <2>4. CASE n \notin chosen
    BY <1>5, <1>6, <1>8, <2>2, <2>3, <2>4 DEF PushedOK, before
  <2>5. CASE n \in chosen
    <3>1. f[n] = Append(before, seq[n]) /\ before \in Seq(S) /\ seq[n] \in S
      BY <1>1, <1>6, <1>8, <2>1, <2>2, <2>5 DEF before, PushedOK
    <3>2. /\ f[n] \in Seq(S) /\ Len(before) \in Nat /\ DOMAIN before = 1..Len(before)
          /\ DOMAIN f[n] = 1..(Len(before) + 1)
          /\ f[n][Len(before) + 1] = seq[n]
          /\ \A i \in 1..Len(before) : f[n][i] = before[i]
      BY <3>1, AppendProperties, LenProperties
    <3>3. \A i \in DOMAIN f[n] : i \in DOMAIN before \/ i = Len(before) + 1
      BY <3>2
    <3>4. \A i \in DOMAIN before : i \in DOMAIN f[n]
      BY <3>2
    <3>5. Len(before) + 1 \in DOMAIN f[n]
      BY <3>2
    <3>6. \A i \in DOMAIN f[n] : \E j \in chosen \cap 1..n : f[n][i] = seq[j]
      <4>1. TAKE i \in DOMAIN f[n]
      <4>2. CASE i \in DOMAIN before
        <5>1. f[n][i] = before[i]
          BY <3>2, <4>2
        <5> QED
          BY <2>2, <2>3, <4>2, <5>1 DEF PushedOK
      <4>3. CASE i = Len(before) + 1
        <5>1. n \in chosen \cap 1..n
          BY <2>1, <2>3, <2>5
        <5> QED
          BY <3>2, <4>3, <5>1
      <4> QED
        BY <3>3, <4>2, <4>3
    <3>7. \A j \in chosen \cap 1..n : \E i \in DOMAIN f[n] : f[n][i] = seq[j]
      BY <2>2, <2>3, <2>5, <3>2, <3>4, <3>5 DEF PushedOK
    <3> QED
      BY <1>5, <3>2, <3>6, <3>7 DEF PushedOK
  <2> QED
    BY <2>4, <2>5
<1> QED
  BY <1>7, <1>8

-----------------------------------------------------------------------------
(* Payloads and their rows.                                                *)

\* The groups of a body, and their spans, are sequences.
LEMMA GroupsAre ==
  ASSUME NEW b \in Batches
  PROVE  /\ Body[b].groups \in Seq(Range(Body[b].groups))
         /\ \A k \in DOMAIN Body[b].groups :
              Body[b].groups[k].spans \in Seq(Range(Body[b].groups[k].spans))
BY IngestAssumption DEF IngestAssumption

\* A sequence is one over its own elements.
LEMMA IsOverItsRange ==
  ASSUME NEW s, NEW S, s \in Seq(S)
  PROVE  s \in Seq(Range(s)) /\ Len(s) \in Nat /\ DOMAIN s = 1..Len(s)
BY SeqOfRange, LenProperties

\* A payload is what is well-formed of a group, and is not empty; of a body that is
\* JSON, no well-formed span is missing.
LEMMA PayloadsAre ==
  ASSUME NEW b \in Batches
  PROVE  /\ Len(Payloads[b]) \in Nat /\ DOMAIN Payloads[b] = 1..Len(Payloads[b])
         /\ \A k \in DOMAIN Payloads[b] : LET spans == Payloads[b][k].spans IN
              /\ Len(spans) \in Nat \ {0} /\ DOMAIN spans = 1..Len(spans)
              /\ spans \in Seq(Range(spans))
         /\ Body[b].isJson => \A g \in DOMAIN Body[b].groups :
              \A j \in DOMAIN Body[b].groups[g].spans :
                Body[b].groups[g].spans[j].wellFormed =>
                  \E k \in DOMAIN Payloads[b] : \E i \in DOMAIN Payloads[b][k].spans :
                    Payloads[b][k].spans[i] = Body[b].groups[g].spans[j]
<1> DEFINE groups  == Body[b].groups
           decoded == [k \in DOMAIN groups |-> [resource |-> groups[k].resource,
                                                spans    |-> Decoded(groups[k].spans)]]
           left    == {k \in DOMAIN decoded : decoded[k].spans # <<>>}
<1>1. CASE ~Body[b].isJson
  <2>1. Payloads[b] = <<>>
    BY <1>1 DEF Payloads, OtlpJsonToTraces
  <2>2. Len(<<>>) = 0 /\ DOMAIN <<>> = 1..0
    OBVIOUS
  <2> QED
    BY <1>1, <2>1, <2>2
<1>2. CASE Body[b].isJson
  <2>1. Payloads[b] = Pushed(decoded, left)
    BY <1>2 DEF Payloads, OtlpJsonToTraces
  <2>2. Len(groups) \in Nat /\ DOMAIN groups = 1..Len(groups)
    BY GroupsAre, IsOverItsRange
  <2>3. \A g \in DOMAIN groups :
          PushedOK(Decoded(groups[g].spans), groups[g].spans,
                   {i \in DOMAIN groups[g].spans : groups[g].spans[i].wellFormed},
                   Len(groups[g].spans))
    BY GroupsAre, PushedIsChosen DEF Decoded
  <2>4. decoded \in Seq(Range(decoded)) /\ DOMAIN decoded = 1..Len(decoded)
        /\ DOMAIN decoded = DOMAIN groups
    <3>1. decoded \in [1..Len(groups) -> Range(decoded)]
      BY <2>2 DEF Range
    <3>2. decoded \in Seq(Range(decoded))
      BY <2>2, <3>1
    <3> QED
      BY <3>2, IsOverItsRange
  <2>5. \A g \in DOMAIN groups : decoded[g].spans = Decoded(groups[g].spans)
    OBVIOUS
  <2> HIDE DEF decoded
  <2>6. PushedOK(Payloads[b], decoded, left, Len(decoded))
    BY <2>1, <2>4, PushedIsChosen
  <2> HIDE DEF groups
  <2>7. Len(Payloads[b]) \in Nat /\ DOMAIN Payloads[b] = 1..Len(Payloads[b])
    BY <2>6, IsOverItsRange DEF PushedOK
  <2>8. ASSUME NEW k \in DOMAIN Payloads[b]
        PROVE  LET spans == Payloads[b][k].spans IN
               /\ Len(spans) \in Nat \ {0} /\ DOMAIN spans = 1..Len(spans)
               /\ spans \in Seq(Range(spans))
    <3>1. PICK g \in left : Payloads[b][k] = decoded[g]
      BY <2>6 DEF PushedOK
    <3> DEFINE spans == Payloads[b][k].spans
    <3>2. g \in DOMAIN groups /\ spans = Decoded(groups[g].spans) /\ spans # <<>>
      BY <2>4, <2>5, <3>1
    <3>3. spans \in Seq(Range(groups[g].spans))
      BY <2>3, <3>2 DEF PushedOK
    <3> HIDE DEF spans
    <3>4. spans \in Seq(Range(spans)) /\ Len(spans) \in Nat /\ DOMAIN spans = 1..Len(spans)
      BY <3>3, IsOverItsRange
    <3>5. Len(spans) # 0
      BY <3>2, <3>4, EmptySeq
    <3> QED
      BY <3>4, <3>5 DEF spans
  <2>9. ASSUME NEW g \in DOMAIN groups, NEW j \in DOMAIN groups[g].spans,
               groups[g].spans[j].wellFormed
        PROVE  \E k \in DOMAIN Payloads[b] : \E i \in DOMAIN Payloads[b][k].spans :
                 Payloads[b][k].spans[i] = groups[g].spans[j]
    <3> DEFINE spans == groups[g].spans
               chosen == {i \in DOMAIN spans : spans[i].wellFormed}
    <3>1. DOMAIN spans = 1..Len(spans)
      BY GroupsAre, IsOverItsRange DEF groups
    <3>2. j \in chosen \cap 1..Len(spans)
      BY <2>9, <3>1
    <3>3. PushedOK(Decoded(spans), spans, chosen, Len(spans))
      BY <2>3
    <3> HIDE DEF spans, chosen
    <3>4. PICK i \in DOMAIN Decoded(spans) : Decoded(spans)[i] = spans[j]
      BY <3>2, <3>3 DEF PushedOK
    <3>5. Decoded(spans) # <<>>
      BY <3>4
    <3>6. g \in left \cap 1..Len(decoded) /\ decoded[g].spans = Decoded(spans)
      BY <2>4, <2>5, <3>5 DEF spans
    <3>7. PICK k \in DOMAIN Payloads[b] : Payloads[b][k] = decoded[g]
      BY <2>6, <3>6 DEF PushedOK
    <3>8. i \in DOMAIN Payloads[b][k].spans /\ Payloads[b][k].spans[i] = spans[j]
      BY <3>4, <3>6, <3>7
    <3> QED
      BY <3>8 DEF spans
  <2> QED
    BY <2>7, <2>8, <2>9 DEF groups
<1> QED
  BY <1>1, <1>2

\* Whatever the convention, a row has the id and the parent of its span.
LEMMA NormalizedKeep ==
  ASSUME NEW spans
  PROVE  LET normalized == NormalizeByConvention(spans) IN
         /\ DOMAIN normalized = DOMAIN spans
         /\ \A i \in DOMAIN spans :
              normalized[i].id = spans[i].id /\ normalized[i].parent = spans[i].parent
<1>1. \A span, operation, attributes :
        /\ Normalized(span, operation, attributes).id = span.id
        /\ Normalized(span, operation, attributes).parent = span.parent
  BY DEF Normalized
<1>2. \A span : /\ NormalizeGenAISpan(span).id = span.id
                /\ NormalizeGenAISpan(span).parent = span.parent
  BY <1>1 DEF NormalizeGenAISpan
<1>3. \A span : /\ NormalizeOpenInferenceSpan(span).id = span.id
                /\ NormalizeOpenInferenceSpan(span).parent = span.parent
  BY <1>1 DEF NormalizeOpenInferenceSpan
<1>4. CASE NormalizeByConvention(spans) = NormalizeGenAI(spans)
  BY <1>2, <1>4 DEF NormalizeGenAI, MapSeq
<1>5. CASE NormalizeByConvention(spans) = NormalizeOpenInference(spans)
  BY <1>3, <1>5 DEF NormalizeOpenInference, MapSeq
<1> QED
  BY <1>4, <1>5 DEF NormalizeByConvention

\* A row has its span's id and parent, and the start that is looked up by the id.
LEMMA RowsAre ==
  ASSUME NEW b \in Batches, NEW k \in DOMAIN Payloads[b]
  PROVE  LET spans == Payloads[b][k].spans IN
         /\ DOMAIN Rows[b][k] = DOMAIN spans
         /\ \A i \in DOMAIN spans :
              /\ Rows[b][k][i].span = spans[i].id
              /\ Rows[b][k][i].parent = spans[i].parent
              /\ Rows[b][k][i].start = TimingOf(spans, spans[i].id)
<1> DEFINE spans == Payloads[b][k].spans
           normalized == NormalizeByConvention(spans)
<1>1. Rows[b][k] = SpansToRows(Payloads[b][k].resource, normalized, spans[1].trace, spans)
  BY DEF Rows, IngestOtlp
<1>2. /\ DOMAIN normalized = DOMAIN spans
      /\ \A i \in DOMAIN spans :
           normalized[i].id = spans[i].id /\ normalized[i].parent = spans[i].parent
  BY NormalizedKeep
<1> HIDE DEF normalized, spans
<1>3. /\ DOMAIN Rows[b][k] = DOMAIN normalized
      /\ \A i \in DOMAIN normalized :
           /\ Rows[b][k][i].span = normalized[i].id
           /\ Rows[b][k][i].parent = normalized[i].parent
           /\ Rows[b][k][i].start = TimingOf(spans, normalized[i].id)
  BY <1>1 DEF SpansToRows
<1> QED
  BY <1>2, <1>3 DEF spans

-----------------------------------------------------------------------------
(* The invariant of the handler's loop.                                    *)

UniqueKeys(rows) == \A i, j \in DOMAIN rows : Key(rows[i]) = Key(rows[j]) => i = j

\* Group k of batch b was accepted by the database.
Written(b, k) == Range(Rows[b][k]) \subseteq store /\ UniqueKeys(Rows[b][k])

WrittenUpTo(b, k) == \A l \in 1..k : Written(b, l)

\* An INSERT in flight is of a group the loop has come to, past those before it.
HandlerOK(b, n) ==
  LET h == handler[b][n] IN
  /\ h.pc = "writing" => h.insert # "none"
  /\ h.insert # "none" => h.group \in 1..Len(Payloads[b]) /\ WrittenUpTo(b, h.group - 1)
  /\ h.insert = "stored" => Written(b, h.group)
  /\ h.reply = 200 => WrittenUpTo(b, Len(Payloads[b]))

ExporterOK(b) ==
  /\ exporter[b] = "queued" => attempt[b] < MaxAttempts
  /\ exporter[b] = "waiting" => attempt[b] \in Attempts
  /\ exporter[b] = "acked" => WrittenUpTo(b, Len(Payloads[b]))

IngestInv ==
  /\ TypeOK
  /\ \A b \in Batches : ExporterOK(b)
  /\ \A b \in Batches, n \in Attempts : HandlerOK(b, n)

\* Nothing has arrived.
LEMMA InitIngestInv == Init => IngestInv
<1> SUFFICES ASSUME Init
             PROVE  IngestInv
  OBVIOUS
<1>1. NotArrived \in Handlers
  BY DEF NotArrived, Handlers
<1>2. TypeOK
  BY <1>1, IngestAssumption DEF Init, TypeOK, IngestAssumption
<1>3. \A b \in Batches : ExporterOK(b)
  BY IngestAssumption DEF Init, ExporterOK, IngestAssumption
<1>4. \A b \in Batches, n \in Attempts : HandlerOK(b, n)
  BY IngestAssumption DEF Init, HandlerOK, NotArrived, IngestAssumption
<1> QED
  BY <1>2, <1>3, <1>4 DEF IngestInv

\* Steps of one handler.
LEMMA HandlerType ==
  ASSUME IngestInv, NEW b \in Batches, NEW n \in Attempts
  PROVE  /\ handler[b][n] \in Handlers /\ HandlerOK(b, n)
         /\ handler \in [Batches -> [Attempts -> Handlers]]
         /\ store \subseteq AllRows /\ faults \in 0..MaxFaults
BY DEF IngestInv, TypeOK

\* A step of handler[b][n], and of the store if it is the database's.
OthersStay(b, n) ==
  /\ handler' \in [Batches -> [Attempts -> Handlers]]
  /\ \A c \in Batches, m \in Attempts : (c # b \/ m # n) => handler'[c][m] = handler[c][m]
  /\ store \subseteq store' /\ store' \subseteq AllRows /\ faults' \in 0..MaxFaults
  /\ UNCHANGED <<exporter, attempt>>

\* A step of one handler keeps the invariant if the handler is as it should be after it.
LEMMA HandlerMoves ==
  ASSUME IngestInv, NEW b \in Batches, NEW n \in Attempts,
         OthersStay(b, n), HandlerOK(b, n)'
  PROVE  IngestInv'
<1>3. TypeOK'
  BY DEF IngestInv, TypeOK, OthersStay
<1>4. store \subseteq store' /\ exporter' = exporter /\ attempt' = attempt
  BY DEF OthersStay
<1>5. ASSUME NEW c \in Batches
      PROVE  ExporterOK(c)'
  <2>1. ExporterOK(c)
    BY DEF IngestInv
  <2>2. WrittenUpTo(c, Len(Payloads[c])) => WrittenUpTo(c, Len(Payloads[c]))'
    BY <1>4 DEF Written, WrittenUpTo
  <2> QED
    BY <1>4, <2>1, <2>2 DEF ExporterOK
<1>6. ASSUME NEW c \in Batches, NEW m \in Attempts
      PROVE  HandlerOK(c, m)'
  <2>1. CASE c = b /\ m = n
    BY <2>1
  <2>2. CASE c # b \/ m # n
    <3>1. handler'[c][m] = handler[c][m] /\ HandlerOK(c, m)
      BY <2>2 DEF IngestInv, OthersStay
    <3>2. \A k : /\ Written(c, k) => Written(c, k)'
                 /\ WrittenUpTo(c, k) => WrittenUpTo(c, k)'
      BY <1>4 DEF Written, WrittenUpTo
    <3> QED
      BY <3>1, <3>2 DEF HandlerOK
  <2> QED
    BY <2>1, <2>2
<1> QED
  BY <1>3, <1>5, <1>6 DEF IngestInv

\* What a step makes of the state of a handler: it replies, its loop goes on at
\* a group, it comes or goes, its INSERT is answered.
Replied(h, status) == [h EXCEPT !.pc = "replied", !.reply = status]
Writing(h, k) == [h EXCEPT !.pc = "writing", !.group = k, !.insert = "sent"]
Moved(h, pc) == [h EXCEPT !.pc = pc]
Answered(h, insert) == [h EXCEPT !.insert = insert]

\* A reply is the last a handler does.
LEMMA RepliedIs ==
  ASSUME NEW h \in Handlers, NEW status \in {200, 401, 413, 500}
  PROVE  LET new == Replied(h, status) IN
         /\ new \in Handlers /\ new.pc = "replied" /\ new.reply = status
         /\ new.insert = h.insert /\ new.group = h.group
<1> DEFINE moved == [h EXCEPT !.pc = "replied"]
           new   == [h EXCEPT !.pc = "replied", !.reply = status]
<1>1. moved \in Handlers
  BY DEF Handlers
<1>2. new = [moved EXCEPT !.reply = status]
  OBVIOUS
<1>3. /\ new.pc = "replied" /\ new.reply = status
      /\ new.insert = h.insert /\ new.group = h.group
  BY DEF Handlers
<1> HIDE DEF moved
<1>4. [moved EXCEPT !.reply = status] \in Handlers
  BY <1>1 DEF Handlers
<1> QED
  BY <1>2, <1>3, <1>4 DEF Replied

\* The loop is at a group.
LEMMA WritingIs ==
  ASSUME NEW h \in Handlers, NEW k \in Nat
  PROVE  LET new == Writing(h, k) IN
         /\ new \in Handlers /\ new.pc = "writing" /\ new.group = k
         /\ new.insert = "sent" /\ new.reply = h.reply
<1> DEFINE moved == [h EXCEPT !.pc = "writing"]
           at    == [moved EXCEPT !.group = k]
           new   == [h EXCEPT !.pc = "writing", !.group = k, !.insert = "sent"]
<1>1. moved \in Handlers
  BY DEF Handlers
<1>2. new = [at EXCEPT !.insert = "sent"]
  OBVIOUS
<1>3. /\ new.pc = "writing" /\ new.group = k
      /\ new.insert = "sent" /\ new.reply = h.reply
  BY DEF Handlers
<1> HIDE DEF moved
<1>4. at \in Handlers
  BY <1>1 DEF Handlers
<1> HIDE DEF at
<1>5. [at EXCEPT !.insert = "sent"] \in Handlers
  BY <1>4 DEF Handlers
<1> QED
  BY <1>2, <1>3, <1>5 DEF Writing

\* A handler comes and goes with its connection.
LEMMA MovedIs ==
  ASSUME NEW h \in Handlers, NEW pc \in {"arriving", "gone"}
  PROVE  LET new == Moved(h, pc) IN
         /\ new \in Handlers /\ new.pc = pc
         /\ new.insert = h.insert /\ new.group = h.group /\ new.reply = h.reply
BY DEF Handlers, Moved

\* The answer to an INSERT.
LEMMA AnsweredIs ==
  ASSUME NEW h \in Handlers, NEW insert \in {"none", "stored", "rejected"}
  PROVE  LET new == Answered(h, insert) IN
         /\ new \in Handlers /\ new.insert = insert
         /\ new.pc = h.pc /\ new.group = h.group /\ new.reply = h.reply
BY DEF Handlers, Answered

\* g with new at (b, n).
With(g, b, n, new) ==
  [c \in Batches |-> [m \in Attempts |-> IF c = b /\ m = n THEN new ELSE g[c][m]]]

\* The step of one handler keeps the invariant if it keeps that handler's.
LEMMA OneHandler ==
  ASSUME IngestInv, NEW b \in Batches, NEW n \in Attempts, NEW new \in Handlers,
         handler' = With(handler, b, n, new),
         store \subseteq store', store' \subseteq AllRows, faults' \in 0..MaxFaults,
         UNCHANGED <<exporter, attempt>>,
         handler'[b][n] = new => HandlerOK(b, n)'
  PROVE  IngestInv'
<1>1. handler \in [Batches -> [Attempts -> Handlers]]
  BY HandlerType
<1>2. /\ handler' \in [Batches -> [Attempts -> Handlers]] /\ handler'[b][n] = new
      /\ \A c \in Batches, m \in Attempts :
           (c # b \/ m # n) => handler'[c][m] = handler[c][m]
  BY <1>1 DEF With
<1> QED
  BY <1>2, HandlerMoves DEF OthersStay

\* The updates of the actions, read as With.
LEMMA ReplyIs ==
  ASSUME IngestInv, NEW b \in Batches, NEW n \in Attempts, NEW status, Reply(b, n, status)
  PROVE  handler' = With(handler, b, n, Replied(handler[b][n], status))
<1>1. handler \in [Batches -> [Attempts -> Handlers]]
  BY HandlerType
<1> QED
  BY <1>1 DEF With, Reply, Replied

\* A handler replies 200 only with everything written.
LEMMA ReplyStep ==
  ASSUME IngestInv, NEW b \in Batches, NEW n \in Attempts, NEW status \in {200, 401, 413, 500},
         Reply(b, n, status), UNCHANGED <<store, exporter, attempt>>, faults' \in 0..MaxFaults,
         status = 200 => WrittenUpTo(b, Len(Payloads[b]))
  PROVE  IngestInv'
<1> DEFINE h   == handler[b][n]
           new == Replied(h, status)
<1>1. h \in Handlers /\ HandlerOK(b, n) /\ store \subseteq AllRows
  BY HandlerType
<1>2. /\ new \in Handlers /\ new.pc = "replied" /\ new.reply = status
      /\ new.insert = h.insert /\ new.group = h.group
  BY <1>1, RepliedIs
<1>3. handler' = With(handler, b, n, new)
  BY ReplyIs
<1> HIDE DEF new
<1>4. handler'[b][n] = new => HandlerOK(b, n)'
  BY <1>1, <1>2 DEF HandlerOK, Written, WrittenUpTo
<1> QED
  BY <1>1, <1>2, <1>3, <1>4, OneHandler

\* The loop goes on at group k, those before it being written.
LEMMA WriteGroupStep ==
  ASSUME IngestInv, NEW b \in Batches, NEW n \in Attempts, NEW k \in Nat \ {0},
         WriteGroup(b, n, k), UNCHANGED <<store, exporter, attempt, faults>>,
         k <= Len(Payloads[b]) + 1, WrittenUpTo(b, k - 1)
  PROVE  IngestInv'
<1> DEFINE h   == handler[b][n]
           new == Writing(h, k)
<1>1. Len(Payloads[b]) \in Nat
  BY PayloadsAre
<1>2. h \in Handlers /\ HandlerOK(b, n) /\ store \subseteq AllRows /\ faults \in 0..MaxFaults
      /\ handler \in [Batches -> [Attempts -> Handlers]]
  BY HandlerType
<1>3. CASE k <= Len(Payloads[b])
  <2>1. handler' = With(handler, b, n, new)
    <3>1. handler' = [handler EXCEPT ![b][n].pc = "writing", ![b][n].group = k,
                                     ![b][n].insert = "sent"]
      BY <1>3 DEF WriteGroup
    <3> QED
      BY <1>2, <3>1 DEF With, Writing
  <2>2. /\ new \in Handlers /\ new.pc = "writing" /\ new.group = k
        /\ new.insert = "sent" /\ new.reply = h.reply
    BY <1>2, WritingIs
  <2> HIDE DEF new
  <2>3. handler'[b][n] = new => HandlerOK(b, n)'
    BY <1>1, <1>2, <1>3, <2>2 DEF HandlerOK, Written, WrittenUpTo
  <2> QED
    BY <1>2, <2>1, <2>2, <2>3, OneHandler
<1>4. CASE k > Len(Payloads[b])
  <2>1. Reply(b, n, 200)
    BY <1>1, <1>4 DEF WriteGroup
  <2>2. k - 1 = Len(Payloads[b])
    BY <1>1, <1>4
  <2> QED
    BY <1>2, <2>1, <2>2, ReplyStep
<1> QED
  BY <1>1, <1>3, <1>4

-----------------------------------------------------------------------------
(* Every step keeps the invariant.                                         *)

\* A request is refused, or its first group is written.
LEMMA AdmitStep ==
  ASSUME IngestInv, NEW b \in Batches, NEW n \in Attempts, Admit(b, n)
  PROVE  IngestInv'
<1>1. faults' \in 0..MaxFaults /\ UNCHANGED <<store, exporter, attempt, faults>>
  BY HandlerType DEF Admit
<1>2. CASE Reply(b, n, 401) \/ Reply(b, n, 413)
  BY <1>1, <1>2, ReplyStep
<1>3. CASE WriteGroup(b, n, 1)
  <2>1. Len(Payloads[b]) \in Nat
    BY PayloadsAre
  <2>2. WrittenUpTo(b, 1 - 1)
    BY DEF WrittenUpTo
  <2> QED
    BY <1>1, <1>3, <2>1, <2>2, WriteGroupStep
<1> QED
  BY <1>2, <1>3 DEF Admit

\* The group whose INSERT was stored is written, with those before it.
LEMMA GroupWrittenStep ==
  ASSUME IngestInv, NEW b \in Batches, NEW n \in Attempts, GroupWritten(b, n)
  PROVE  IngestInv'
<1> DEFINE k == handler[b][n].group
<1>1. HandlerOK(b, n)
  BY HandlerType
<1>2. k \in 1..Len(Payloads[b]) /\ WrittenUpTo(b, k - 1) /\ Written(b, k)
  BY <1>1 DEF HandlerOK, GroupWritten
<1>3. Len(Payloads[b]) \in Nat
  BY PayloadsAre
<1>4. WriteGroup(b, n, k + 1) /\ UNCHANGED <<store, exporter, attempt, faults>>
  BY DEF GroupWritten
<1> HIDE DEF k
<1>5. WrittenUpTo(b, (k + 1) - 1)
  BY <1>2, <1>3 DEF WrittenUpTo
<1> QED
  BY <1>2, <1>3, <1>4, <1>5, WriteGroupStep

\* A write that throws is answered 500.
LEMMA WriteFailsStep ==
  ASSUME IngestInv, NEW b \in Batches, NEW n \in Attempts, WriteFails(b, n)
  PROVE  IngestInv'
BY HandlerType, ReplyStep DEF WriteFails

\* So is one that lost its connection.
LEMMA DatabaseConnectionBreaksStep ==
  ASSUME IngestInv, NEW b \in Batches, NEW n \in Attempts, DatabaseConnectionBreaks(b, n)
  PROVE  IngestInv'
<1>1. faults' \in 0..MaxFaults
  BY HandlerType, IngestAssumption DEF DatabaseConnectionBreaks, IngestAssumption
<1> QED
  BY <1>1, ReplyStep DEF DatabaseConnectionBreaks

\* The update of an answer, read as With.
LEMMA AnswerIs ==
  ASSUME IngestInv, NEW b \in Batches, NEW n \in Attempts, NEW insert,
         handler' = [handler EXCEPT ![b][n].insert = insert]
  PROVE  handler' = With(handler, b, n, Answered(handler[b][n], insert))
<1>1. handler \in [Batches -> [Attempts -> Handlers]]
  BY HandlerType
<1> QED
  BY <1>1 DEF With, Answered

\* The INSERT of a handler that is no longer awaiting it: none of its answers
\* is used.
LEMMA LoseInsertStep ==
  ASSUME IngestInv, NEW b \in Batches, NEW n \in Attempts, LoseInsert(b, n)
  PROVE  IngestInv'
<1> DEFINE h   == handler[b][n]
           new == Answered(h, "none")
<1>1. /\ h \in Handlers /\ HandlerOK(b, n) /\ store \subseteq AllRows
      /\ faults \in 0..MaxFaults
  BY HandlerType
<1>2. /\ new \in Handlers /\ new.insert = "none"
      /\ new.pc = h.pc /\ new.group = h.group /\ new.reply = h.reply
  BY <1>1, AnsweredIs
<1>3. handler' = With(handler, b, n, new) /\ UNCHANGED <<store, exporter, attempt, faults>>
      /\ h.pc # "writing"
  BY AnswerIs DEF LoseInsert
<1> HIDE DEF new
<1>4. handler'[b][n] = new => HandlerOK(b, n)'
  BY <1>1, <1>2, <1>3 DEF HandlerOK, Written, WrittenUpTo
<1> QED
  BY <1>1, <1>2, <1>3, <1>4, OneHandler

\* An INSERT that is accepted stores all of its group, or is rejected and stores nothing.
LEMMA ExecInsertStep ==
  ASSUME IngestInv, NEW b \in Batches, NEW n \in Attempts, ExecInsert(b, n)
  PROVE  IngestInv'
<1> DEFINE h == handler[b][n]
           rows == Rows[b][h.group]
<1>1. /\ h \in Handlers /\ HandlerOK(b, n) /\ store \subseteq AllRows
      /\ faults \in 0..MaxFaults
  BY HandlerType
<1>2. h.insert = "sent" /\ UNCHANGED <<exporter, attempt, faults>>
  BY DEF ExecInsert
<1>3. h.group \in 1..Len(Payloads[b]) /\ WrittenUpTo(b, h.group - 1)
  BY <1>1, <1>2 DEF HandlerOK
<1>4. rows \in {Rows[b][k] : k \in DOMAIN Rows[b]} /\ Range(rows) \subseteq AllRows
  <2>1. h.group \in DOMAIN Payloads[b]
    BY <1>3, PayloadsAre
  <2>2. DOMAIN Rows[b] = DOMAIN Payloads[b]
    BY DEF Rows
  <2> QED
    BY <2>1, <2>2 DEF AllRows
<1>5. CASE Accepts(rows)
  <2> DEFINE new == Answered(h, "stored")
  <2>1. /\ new \in Handlers /\ new.insert = "stored"
        /\ new.pc = h.pc /\ new.group = h.group /\ new.reply = h.reply
    BY <1>1, AnsweredIs
  <2>2. handler' = With(handler, b, n, new) /\ store' = store \cup Range(rows)
    BY <1>5, AnswerIs DEF ExecInsert
  <2>3. UniqueKeys(rows)
    BY <1>5 DEF Accepts, UniqueKeys
  <2> HIDE DEF new
  <2>4. handler'[b][n] = new => HandlerOK(b, n)'
    BY <1>1, <1>2, <1>3, <2>1, <2>2, <2>3 DEF HandlerOK, Written, WrittenUpTo
  <2> QED
    BY <1>1, <1>2, <1>4, <2>1, <2>2, <2>4, OneHandler
<1>6. CASE ~Accepts(rows)
  <2> DEFINE new == Answered(h, "rejected")
  <2>1. /\ new \in Handlers /\ new.insert = "rejected"
        /\ new.pc = h.pc /\ new.group = h.group /\ new.reply = h.reply
    BY <1>1, AnsweredIs
  <2>2. handler' = With(handler, b, n, new) /\ UNCHANGED store
    BY <1>6, AnswerIs DEF ExecInsert
  <2> HIDE DEF new
  <2>4. handler'[b][n] = new => HandlerOK(b, n)'
    BY <1>1, <1>2, <1>3, <2>1, <2>2 DEF HandlerOK, Written, WrittenUpTo
  <2> QED
    BY <1>1, <1>2, <2>1, <2>2, <2>4, OneHandler
<1> QED
  BY <1>5, <1>6

\* The exporter's side, with the handlers as they are or one of them moved.
LEMMA ExporterMoves ==
  ASSUME IngestInv, NEW b \in Batches, NEW to \in {"none", "queued", "waiting", "acked", "dropped"},
         exporter' = [exporter EXCEPT ![b] = to], UNCHANGED <<store, faults>>,
         attempt' \in [Batches -> 0..MaxAttempts],
         \A c \in Batches : c # b => attempt'[c] = attempt[c],
         handler' \in [Batches -> [Attempts -> Handlers]],
         \A c \in Batches, m \in Attempts : HandlerOK(c, m)',
         ExporterOK(b)'
  PROVE  IngestInv'
<1>1. TypeOK'
  BY DEF IngestInv, TypeOK
<1>2. ASSUME NEW c \in Batches
      PROVE  ExporterOK(c)'
  <2>1. CASE c = b
    BY <2>1
  <2>2. CASE c # b
    <3>1. exporter'[c] = exporter[c] /\ attempt'[c] = attempt[c] /\ ExporterOK(c)
      BY <2>2 DEF IngestInv, TypeOK
    <3> QED
      BY <3>1 DEF ExporterOK, WrittenUpTo, Written
  <2> QED
    BY <2>1, <2>2
<1> QED
  BY <1>1, <1>2 DEF IngestInv

\* An attempt begins.
LEMMA PostStep ==
  ASSUME IngestInv, NEW b \in Batches, Post(b)
  PROVE  IngestInv'
<1> DEFINE n   == attempt[b] + 1
           h   == handler[b][n]
           new == Moved(h, "arriving")
<1>1. /\ handler \in [Batches -> [Attempts -> Handlers]] /\ attempt \in [Batches -> 0..MaxAttempts]
      /\ exporter \in [Batches -> {"none", "queued", "waiting", "acked", "dropped"}]
  BY DEF IngestInv, TypeOK
<1>2. attempt[b] < MaxAttempts /\ attempt[b] \in 0..MaxAttempts
  BY <1>1 DEF IngestInv, ExporterOK, Post
<1>3. n \in Attempts
  BY <1>2, IngestAssumption DEF Attempts, IngestAssumption
<1>4. h \in Handlers /\ HandlerOK(b, n)
  BY <1>3, HandlerType
<1>5. /\ new \in Handlers /\ new.pc = "arriving"
      /\ new.insert = h.insert /\ new.group = h.group /\ new.reply = h.reply
  BY <1>4, MovedIs
<1>6. handler' = With(handler, b, n, new)
  <2>1. handler' = [handler EXCEPT ![b][n].pc = "arriving"]
    BY DEF Post
  <2> QED
    BY <1>1, <1>3, <2>1 DEF With, Moved
<1> HIDE DEF new
<1>7. /\ handler' \in [Batches -> [Attempts -> Handlers]] /\ handler'[b][n] = new
      /\ \A c \in Batches, m \in Attempts :
           (c # b \/ m # n) => handler'[c][m] = handler[c][m]
  BY <1>1, <1>3, <1>5, <1>6 DEF With
<1>8. attempt' = [attempt EXCEPT ![b] = n] /\ exporter' = [exporter EXCEPT ![b] = "waiting"]
      /\ UNCHANGED <<store, faults>>
  BY DEF Post
<1> HIDE DEF n
<1>9. ASSUME NEW c \in Batches, NEW m \in Attempts
      PROVE  HandlerOK(c, m)'
  <2>1. CASE c = b /\ m = n
    BY <1>4, <1>5, <1>7, <1>8, <2>1 DEF HandlerOK, WrittenUpTo, Written
  <2>2. CASE c # b \/ m # n
    <3>1. handler'[c][m] = handler[c][m] /\ HandlerOK(c, m)
      BY <1>7, <2>2 DEF IngestInv
    <3> QED
      BY <1>8, <3>1 DEF HandlerOK, WrittenUpTo, Written
  <2> QED
    BY <2>1, <2>2
<1>10. ExporterOK(b)'
  BY <1>1, <1>3, <1>8 DEF ExporterOK
<1>11. attempt' \in [Batches -> 0..MaxAttempts] /\ \A c \in Batches : c # b => attempt'[c] = attempt[c]
  BY <1>1, <1>3, <1>8, IngestAssumption DEF Attempts, IngestAssumption
<1> QED
  BY <1>7, <1>8, <1>9, <1>10, <1>11, ExporterMoves

\* What is acknowledged was replied 200, after the last write.
LEMMA ReceiveReplyStep ==
  ASSUME IngestInv, NEW b \in Batches, ReceiveReply(b)
  PROVE  IngestInv'
<1> DEFINE n   == attempt[b]
           h   == handler[b][n]
           new == Moved(h, "gone")
           to  == IF h.reply = 200 THEN "acked" ELSE "dropped"
<1>1. /\ handler \in [Batches -> [Attempts -> Handlers]] /\ attempt \in [Batches -> 0..MaxAttempts]
      /\ exporter \in [Batches -> {"none", "queued", "waiting", "acked", "dropped"}]
  BY DEF IngestInv, TypeOK
<1>2. n \in Attempts
  BY DEF IngestInv, ExporterOK, ReceiveReply
<1>3. h \in Handlers /\ HandlerOK(b, n)
  BY <1>2, HandlerType
<1>4. /\ new \in Handlers /\ new.pc = "gone"
      /\ new.insert = h.insert /\ new.group = h.group /\ new.reply = h.reply
  BY <1>3, MovedIs
<1>5. handler' = With(handler, b, n, new)
  <2>1. handler' = [handler EXCEPT ![b][n].pc = "gone"]
    BY DEF ReceiveReply
  <2> QED
    BY <1>1, <1>2, <2>1 DEF With, Moved
<1> HIDE DEF new
<1>6. /\ handler' \in [Batches -> [Attempts -> Handlers]] /\ handler'[b][n] = new
      /\ \A c \in Batches, m \in Attempts :
           (c # b \/ m # n) => handler'[c][m] = handler[c][m]
  BY <1>1, <1>2, <1>4, <1>5 DEF With
<1>7. exporter' = [exporter EXCEPT ![b] = to] /\ UNCHANGED <<store, faults, attempt>>
  BY DEF ReceiveReply
<1>8. to \in {"acked", "dropped"} /\ (to = "acked" => WrittenUpTo(b, Len(Payloads[b])))
  BY <1>3 DEF HandlerOK
<1> HIDE DEF n, to
<1>9. ASSUME NEW c \in Batches, NEW m \in Attempts
      PROVE  HandlerOK(c, m)'
  <2>1. CASE c = b /\ m = n
    BY <1>3, <1>4, <1>6, <1>7, <2>1 DEF HandlerOK, WrittenUpTo, Written
  <2>2. CASE c # b \/ m # n
    <3>1. handler'[c][m] = handler[c][m] /\ HandlerOK(c, m)
      BY <1>6, <2>2 DEF IngestInv
    <3> QED
      BY <1>7, <3>1 DEF HandlerOK, WrittenUpTo, Written
  <2> QED
    BY <2>1, <2>2
<1>10. ExporterOK(b)'
  BY <1>1, <1>7, <1>8 DEF ExporterOK, WrittenUpTo, Written
<1> QED
  BY <1>1, <1>6, <1>7, <1>8, <1>9, <1>10, ExporterMoves

\* Giving up on an attempt leaves the server alone.
LEMMA PostAgainStep ==
  ASSUME IngestInv, NEW b \in Batches, exporter[b] = "waiting", PostAgain(b),
         UNCHANGED <<store, attempt, handler, faults>>
  PROVE  IngestInv'
<1> DEFINE to == IF attempt[b] < MaxAttempts THEN "queued" ELSE "dropped"
<1>1. /\ handler \in [Batches -> [Attempts -> Handlers]] /\ attempt \in [Batches -> 0..MaxAttempts]
      /\ exporter \in [Batches -> {"none", "queued", "waiting", "acked", "dropped"}]
  BY DEF IngestInv, TypeOK
<1>2. exporter' = [exporter EXCEPT ![b] = to]
  BY DEF PostAgain
<1>3. to \in {"queued", "dropped"} /\ (to = "queued" => attempt[b] < MaxAttempts)
  OBVIOUS
<1> HIDE DEF to
<1>4. ExporterOK(b)'
  BY <1>1, <1>2, <1>3 DEF ExporterOK
<1>5. ASSUME NEW c \in Batches, NEW m \in Attempts
      PROVE  HandlerOK(c, m)'
  <2>1. HandlerOK(c, m)
    BY DEF IngestInv
  <2> QED
    BY <2>1 DEF HandlerOK, WrittenUpTo, Written
<1> QED
  BY <1>1, <1>2, <1>3, <1>4, <1>5, ExporterMoves

\* A crash takes the handlers and leaves the statements in flight.
LEMMA CrashStep ==
  ASSUME IngestInv, Crash
  PROVE  IngestInv'
<1>1. handler \in [Batches -> [Attempts -> Handlers]] /\ UNCHANGED <<store, exporter, attempt>>
  BY DEF IngestInv, TypeOK, Crash
<1>2. ASSUME NEW c \in Batches, NEW m \in Attempts
      PROVE  handler'[c][m] \in {handler[c][m], Moved(handler[c][m], "gone")}
  BY <1>2 DEF Crash, Moved
<1>3. ASSUME NEW c \in Batches, NEW m \in Attempts
      PROVE  handler'[c][m] \in Handlers /\ HandlerOK(c, m)'
  <2> DEFINE h == handler[c][m]
             new == Moved(h, "gone")
  <2>1. h \in Handlers /\ HandlerOK(c, m)
    BY <1>3, HandlerType
  <2>2. /\ new \in Handlers /\ new.pc = "gone"
        /\ new.insert = h.insert /\ new.group = h.group /\ new.reply = h.reply
    BY <2>1, MovedIs
  <2>3. handler'[c][m] \in {h, new}
    BY <1>2, <1>3
  <2> HIDE DEF new
  <2> QED
    BY <1>1, <2>1, <2>2, <2>3 DEF HandlerOK, WrittenUpTo, Written
<1>4. handler' \in [Batches -> [Attempts -> Handlers]]
  <2>1. handler' = [c \in Batches |-> [m \in Attempts |-> handler'[c][m]]]
    BY DEF Crash
  <2> QED
    BY <1>3, <2>1
<1>5. TypeOK'
  BY <1>1, <1>4, IngestAssumption DEF IngestInv, TypeOK, Crash, IngestAssumption
<1>6. \A c \in Batches : ExporterOK(c)'
  BY <1>1 DEF IngestInv, ExporterOK, WrittenUpTo, Written
<1> QED
  BY <1>3, <1>5, <1>6 DEF IngestInv

\* Every step keeps the invariant.
LEMMA NextIngestInv == IngestInv /\ [Next]_vars => IngestInv'
<1> SUFFICES ASSUME IngestInv, [Next]_vars
             PROVE  IngestInv'
  OBVIOUS
<1>1. ASSUME NEW b \in Batches, Post(b) \/ ReceiveReply(b) \/ ConnectionReset(b) \/ ClientTimeout(b)
      PROVE  IngestInv'
  BY <1>1, PostStep, ReceiveReplyStep, PostAgainStep DEF ConnectionReset, ClientTimeout
<1>2. ASSUME NEW b \in Batches, NEW n \in Attempts,
             Serve(b, n) \/ ExecInsert(b, n) \/ LoseInsert(b, n) \/ DatabaseConnectionBreaks(b, n)
      PROVE  IngestInv'
  BY <1>2, AdmitStep, GroupWrittenStep, WriteFailsStep, ExecInsertStep, LoseInsertStep,
     DatabaseConnectionBreaksStep DEF Serve
<1>3. CASE UNCHANGED vars
  BY <1>3 DEF vars, IngestInv, TypeOK, ExporterOK, HandlerOK, WrittenUpTo, Written
<1> QED
  BY <1>1, <1>2, <1>3, CrashStep DEF Next, Done

\* The endpoint stays in its types: what is stored is rows of what was posted, for any
\* bodies, limits, numbers of attempts and faults.
THEOREM IngestTypeCorrect == Spec => []TypeOK
<1>1. Spec => []IngestInv
  BY InitIngestInv, NextIngestInv, PTL DEF Spec
<1> QED
  BY <1>1, PTL DEF IngestInv

-----------------------------------------------------------------------------
(* What the endpoint acknowledges is stored.                               *)

\* The rows of an accepted INSERT have keys of their own, and so the spans of its
\* group have ids of their own: the start a row looks up by the id of its span
\* is that of the span.
LEMMA TimingIsOwn ==
  ASSUME NEW b \in Batches, NEW k \in DOMAIN Payloads[b], UniqueKeys(Rows[b][k]),
         NEW i \in DOMAIN Payloads[b][k].spans
  PROVE  Rows[b][k][i].start = Payloads[b][k].spans[i].start
<1> DEFINE spans == Payloads[b][k].spans
           own   == {j \in 1..Len(spans) : spans[j].id = spans[i].id}
<1>1. /\ DOMAIN Rows[b][k] = DOMAIN spans
      /\ \A j \in DOMAIN spans :
           /\ Rows[b][k][j].span = spans[j].id
           /\ Rows[b][k][j].start = TimingOf(spans, spans[j].id)
  BY RowsAre
<1>2. DOMAIN spans = 1..Len(spans) /\ Len(spans) \in Nat
  BY PayloadsAre
<1>3. own = {i}
  <2>1. i \in own
    BY <1>2
  <2>2. ASSUME NEW j \in own
        PROVE  j = i
    <3>1. j \in DOMAIN spans /\ spans[j].id = spans[i].id
      BY <1>2
    <3>2. Key(Rows[b][k][j]) = Key(Rows[b][k][i])
      BY <1>1, <3>1 DEF Key
    <3> QED
      BY <1>1, <3>1, <3>2 DEF UniqueKeys
  <2> QED
    BY <2>1, <2>2
<1>4. SelectLastInSeq(spans, LAMBDA s : s.id = spans[i].id) = i
  <2>1. SelectLastInSeq(spans, LAMBDA s : s.id = spans[i].id) = Max(own)
    BY <1>3 DEF SelectLastInSeq
  <2>2. Max({i}) = i
    BY <1>2 DEF Max
  <2> QED
    BY <1>3, <2>1, <2>2
<1> QED
  BY <1>1, <1>4 DEF TimingOf

\* What is acknowledged is stored: a 200 of handler.ts means that every well-formed span
\* of the batch has its row, whatever retries, timeouts, crashes and lost connections
\* came between.  The hypothesis is about the encoding: of a body that is not JSON the
\* handler decodes nothing and answers 200, and IngestClaims has the counterexample.
THEOREM AckedStoredHolds ==
  ASSUME \A b \in Batches : Body[b].isJson
  PROVE  Spec => []AckedStored
<1>1. ASSUME IngestInv
      PROVE  AckedStored
  <2> SUFFICES ASSUME NEW b \in Batches, exporter[b] = "acked",
                      NEW g \in DOMAIN Body[b].groups,
                      NEW j \in DOMAIN Body[b].groups[g].spans,
                      Body[b].groups[g].spans[j].wellFormed
               PROVE  \E row \in store : IsRowOf(row, Body[b].groups[g].spans[j])
    BY DEF AckedStored
  <2>1. PICK k \in DOMAIN Payloads[b] : \E i \in DOMAIN Payloads[b][k].spans :
          Payloads[b][k].spans[i] = Body[b].groups[g].spans[j]
    BY PayloadsAre
  <2> PICK i \in DOMAIN Payloads[b][k].spans :
        Payloads[b][k].spans[i] = Body[b].groups[g].spans[j]
    BY <2>1
  <2>2. k \in 1..Len(Payloads[b])
    BY <2>1, PayloadsAre
  <2>3. Written(b, k)
    BY <1>1, <2>2 DEF IngestInv, ExporterOK, WrittenUpTo
  <2> DEFINE span == Payloads[b][k].spans[i]
             row  == Rows[b][k][i]
  <2>4. i \in DOMAIN Rows[b][k] /\ row.span = span.id /\ row.parent = span.parent
    BY RowsAre
  <2>5. row.start = span.start
    BY <2>3, TimingIsOwn DEF Written
  <2>6. row \in store
    BY <2>3, <2>4 DEF Written, Range
  <2> QED
    BY <2>1, <2>4, <2>5, <2>6 DEF IsRowOf
<1>2. Spec => []IngestInv
  BY InitIngestInv, NextIngestInv, PTL DEF Spec
<1> QED
  BY <1>1, <1>2, PTL

-----------------------------------------------------------------------------
(* The endpoint keeps its promise.                                         *)

\* Rows of different batches or groups have different keys: the ids of spans are
\* random, and a span is in one group of one batch.
RowsApart ==
  \A b, c \in Batches : \A k \in DOMAIN Payloads[b], l \in DOMAIN Payloads[c] :
    \A i \in DOMAIN Rows[b][k], j \in DOMAIN Rows[c][l] :
      Key(Rows[b][k][i]) = Key(Rows[c][l][j]) => b = c /\ k = l

\* The groups of a batch that are stored are its first ones.
KeptInOrder == \A b \in Batches : \E m \in 0..Len(Payloads[b]) : KeptGroups(b) = 1..m

\* Nothing is stored, and a payload has at least one row to be stored.
LEMMA InitKeptInOrder == Init => KeptInOrder /\ \A b \in Batches : KeptGroups(b) = {}
<1> SUFFICES ASSUME Init, NEW b \in Batches
             PROVE  KeptGroups(b) = {} /\ \E m \in 0..Len(Payloads[b]) : KeptGroups(b) = 1..m
  BY DEF KeptInOrder
<1>1. ASSUME NEW k \in DOMAIN Payloads[b]
      PROVE  Range(Rows[b][k]) # {}
  <2>1. 1 \in DOMAIN Rows[b][k]
    BY PayloadsAre, RowsAre
  <2> QED
    BY <2>1 DEF Range
<1>2. KeptGroups(b) = {}
  BY <1>1 DEF Init, KeptGroups
<1>3. 0 \in 0..Len(Payloads[b]) /\ 1..0 = {}
  BY PayloadsAre
<1> QED
  BY <1>2, <1>3

\* An accepted INSERT is of the group after those kept, and keeps it.
LEMMA NextGroupIsKept ==
  ASSUME RowsApart, IngestInv, KeptInOrder, NEW b \in Batches,
         NEW k \in 1..Len(Payloads[b]), WrittenUpTo(b, k - 1), Accepts(Rows[b][k]),
         store' = store \cup Range(Rows[b][k])
  PROVE  /\ KeptGroups(b) = 1..(k - 1) /\ KeptGroups(b)' = 1..k
         /\ \A c \in Batches : c # b => KeptGroups(c)' = KeptGroups(c)
<1>1. Len(Payloads[b]) \in Nat /\ DOMAIN Payloads[b] = 1..Len(Payloads[b]) /\ k \in DOMAIN Payloads[b]
  BY PayloadsAre
<1>2. k \notin KeptGroups(b)
  <2>1. 1 \in DOMAIN Rows[b][k]
    BY <1>1, PayloadsAre, RowsAre
  <2>2. Rows[b][k][1] \in Range(Rows[b][k]) /\ Rows[b][k][1] \notin store
    BY <2>1 DEF Accepts, Range
  <2> QED
    BY <2>2 DEF KeptGroups
<1>3. 1..(k - 1) \subseteq KeptGroups(b)
  BY <1>1 DEF WrittenUpTo, Written, KeptGroups
<1>4. PICK m \in 0..Len(Payloads[b]) : KeptGroups(b) = 1..m
  BY DEF KeptInOrder
<1>5. KeptGroups(b) = 1..(k - 1)
  <2>1. m < k
    BY <1>1, <1>2, <1>4
  <2>2. ~(m < k - 1)
    <3>1. k - 1 = 0 \/ k - 1 \in 1..(k - 1)
      BY <1>1
    <3> QED
      BY <1>1, <1>3, <1>4, <3>1
  <2>3. m = k - 1
    BY <1>1, <1>4, <2>1, <2>2
  <2> QED
    BY <1>4, <2>3
<1>6. ASSUME NEW c \in Batches, NEW l \in DOMAIN Payloads[c]
      PROVE  l \in KeptGroups(c)' <=> l \in KeptGroups(c) \/ (c = b /\ l = k)
  <2>1. CASE c = b /\ l = k
    BY <2>1 DEF KeptGroups
  <2>2. CASE ~(c = b /\ l = k)
    <3>1. ASSUME NEW row \in Range(Rows[c][l])
          PROVE  row \notin Range(Rows[b][k])
      <4>1. SUFFICES ASSUME row \in Range(Rows[b][k])
                     PROVE  FALSE
        OBVIOUS
      <4>2. PICK i \in DOMAIN Rows[b][k] : Rows[b][k][i] = row
        BY <4>1 DEF Range
      <4>3. PICK j \in DOMAIN Rows[c][l] : Rows[c][l][j] = row
        BY <3>1 DEF Range
      <4> QED
        BY <1>1, <2>2, <4>2, <4>3 DEF RowsApart
    <3> QED
      BY <2>2, <3>1 DEF KeptGroups
  <2> QED
    BY <2>1, <2>2
<1>7. \A c \in Batches : KeptGroups(c) \subseteq DOMAIN Payloads[c] /\ KeptGroups(c)' \subseteq DOMAIN Payloads[c]
  BY DEF KeptGroups
<1>8. \A c \in Batches : c # b => KeptGroups(c)' = KeptGroups(c)
  BY <1>6, <1>7
<1>9. KeptGroups(b)' = KeptGroups(b) \cup {k}
  BY <1>1, <1>6, <1>7
<1>10. KeptGroups(b)' = 1..k
  BY <1>5, <1>9
<1> QED
  BY <1>5, <1>8, <1>10

\* Only an accepted INSERT changes what is kept, and it keeps the next group.
LEMMA KeptStep ==
  ASSUME RowsApart, IngestInv, KeptInOrder, [Next]_vars
  PROVE  \/ UNCHANGED store
         \/ /\ UNCHANGED exporter
            /\ \E b \in Batches : \E k \in 1..Len(Payloads[b]) :
                 /\ KeptGroups(b) = 1..(k - 1) /\ KeptGroups(b)' = 1..k
                 /\ \A c \in Batches : c # b => KeptGroups(c)' = KeptGroups(c)
<1>1. ASSUME NEW b \in Batches, NEW n \in Attempts, ExecInsert(b, n), store' # store
      PROVE  /\ UNCHANGED exporter
             /\ \E c \in Batches : \E k \in 1..Len(Payloads[c]) :
                  /\ KeptGroups(c) = 1..(k - 1) /\ KeptGroups(c)' = 1..k
                  /\ \A d \in Batches : d # c => KeptGroups(d)' = KeptGroups(d)
  <2> DEFINE k == handler[b][n].group
  <2>1. /\ handler[b][n].insert = "sent" /\ UNCHANGED exporter
        /\ Accepts(Rows[b][k]) /\ store' = store \cup Range(Rows[b][k])
    BY <1>1 DEF ExecInsert
  <2>2. k \in 1..Len(Payloads[b]) /\ WrittenUpTo(b, k - 1)
    BY <2>1, HandlerType DEF HandlerOK
  <2> HIDE DEF k
  <2> QED
    BY <2>1, <2>2, NextGroupIsKept
<1>2. CASE \E b \in Batches : Post(b) \/ ReceiveReply(b) \/ ConnectionReset(b) \/ ClientTimeout(b)
  BY <1>2 DEF Post, ReceiveReply, ConnectionReset, ClientTimeout
<1>3. CASE \E b \in Batches, n \in Attempts :
             Serve(b, n) \/ LoseInsert(b, n) \/ DatabaseConnectionBreaks(b, n)
  BY <1>3 DEF Serve, Admit, GroupWritten, WriteFails, LoseInsert, DatabaseConnectionBreaks
<1>4. CASE Crash \/ Done \/ UNCHANGED vars
  BY <1>4 DEF Crash, Done, vars
<1> QED
  BY <1>1, <1>2, <1>3, <1>4 DEF Next

\* The groups that are stored are always the first ones.
LEMMA KeptInOrderHolds ==
  ASSUME RowsApart
  PROVE  Spec => []KeptInOrder
<1>1. IngestInv /\ KeptInOrder /\ [Next]_vars => KeptInOrder'
  <2> SUFFICES ASSUME IngestInv, KeptInOrder, [Next]_vars, NEW b \in Batches
               PROVE  \E m \in 0..Len(Payloads[b]) : KeptGroups(b)' = 1..m
    BY DEF KeptInOrder
  <2>1. PICK m \in 0..Len(Payloads[b]) : KeptGroups(b) = 1..m
    BY DEF KeptInOrder
  <2>2. CASE UNCHANGED store
    BY <2>1, <2>2 DEF KeptGroups
  <2>3. CASE store' # store
    <3>1. PICK c \in Batches : \E k \in 1..Len(Payloads[c]) :
            /\ KeptGroups(c)' = 1..k
            /\ \A d \in Batches : d # c => KeptGroups(d)' = KeptGroups(d)
      BY <2>3, KeptStep
    <3>2. PICK k \in 1..Len(Payloads[c]) :
            /\ KeptGroups(c)' = 1..k
            /\ \A d \in Batches : d # c => KeptGroups(d)' = KeptGroups(d)
      BY <3>1
    <3>3. Len(Payloads[c]) \in Nat /\ k \in 0..Len(Payloads[c])
      BY <3>2, PayloadsAre
    <3> QED
      BY <2>1, <3>2, <3>3
  <2> QED
    BY <2>2, <2>3
<1>2. Spec => []IngestInv
  BY InitIngestInv, NextIngestInv, PTL DEF Spec
<1> QED
  BY <1>1, <1>2, InitKeptInOrder, PTL DEF Spec

\* The endpoint implements IngestPromise: groups are kept whole and in order, and only
\* a batch that is wholly kept is acknowledged, in any interleaving of attempts,
\* retries and faults.  The hypothesis is that keys of different groups differ: a row
\* stored for one batch would otherwise count for another.
THEOREM ImplementsPromiseHolds ==
  ASSUME RowsApart
  PROVE  Spec => ImplementsPromise
<1> DEFINE Outcome(b) == IF exporter[b] \in {"acked", "dropped"} THEN exporter[b] ELSE "open"
<1>1. Init => Promise!Init
  <2> SUFFICES ASSUME Init
               PROVE  Promise!Init
    OBVIOUS
  <2>1. \A b \in Batches : KeptGroups(b) = {} /\ Outcome(b) = "open"
    BY InitKeptInOrder DEF Init
  <2> QED
    BY <2>1 DEF Promise!Init
<1>2. ASSUME IngestInv, KeptInOrder, [Next]_vars
      PROVE  [Promise!Next]_(Promise!vars)
  <2> DEFINE kept    == [b \in Batches |-> KeptGroups(b)]
             outcome == [b \in Batches |-> Outcome(b)]
  <2>1. CASE UNCHANGED exporter /\ \E b \in Batches : \E k \in 1..Len(Payloads[b]) :
               /\ KeptGroups(b) = 1..(k - 1) /\ KeptGroups(b)' = 1..k
               /\ \A c \in Batches : c # b => KeptGroups(c)' = KeptGroups(c)
    <3>1. PICK b \in Batches : \E k \in 1..Len(Payloads[b]) :
               /\ KeptGroups(b) = 1..(k - 1) /\ KeptGroups(b)' = 1..k
               /\ \A c \in Batches : c # b => KeptGroups(c)' = KeptGroups(c)
      BY <2>1
    <3>2. PICK k \in 1..Len(Payloads[b]) :
               /\ KeptGroups(b) = 1..(k - 1) /\ KeptGroups(b)' = 1..k
               /\ \A c \in Batches : c # b => KeptGroups(c)' = KeptGroups(c)
      BY <3>1
    <3>3. kept[b] = 1..(k - 1) /\ kept' = [kept EXCEPT ![b] = 1..k]
      BY <3>2
    <3>4. outcome' = outcome
      BY <2>1
    <3>5. Promise!KeepGroup(b)
      BY <3>3, <3>4 DEF Promise!KeepGroup
    <3> QED
      BY <3>5 DEF Promise!Next
  <2>2. CASE UNCHANGED store
    <3>1. kept' = kept
      BY <2>2 DEF KeptGroups
    <3>2. ASSUME NEW b \in Batches, NEW to \in {"queued", "waiting", "acked", "dropped"},
                 exporter[b] \in {"queued", "waiting"}, exporter' = [exporter EXCEPT ![b] = to],
                 to = "acked" => kept[b] = 1..Len(Payloads[b])
          PROVE  [Promise!Next]_(Promise!vars)
      <4>1. exporter \in [Batches -> {"none", "queued", "waiting", "acked", "dropped"}]
        BY <1>2 DEF IngestInv, TypeOK
      <4>2. CASE to \in {"queued", "waiting"}
        <5>1. outcome' = outcome
          BY <3>2, <4>1, <4>2
        <5> QED
          BY <3>1, <5>1 DEF Promise!vars
      <4>3. CASE to \in {"acked", "dropped"}
        <5>1. outcome[b] = "open" /\ outcome' = [outcome EXCEPT ![b] = to]
          BY <3>2, <4>1, <4>3
        <5>2. Promise!Resolve(b, to)
          BY <3>1, <3>2, <5>1 DEF Promise!Resolve
        <5> QED
          BY <4>3, <5>2 DEF Promise!Next
      <4> QED
        BY <4>2, <4>3
    <3>3. CASE UNCHANGED exporter
      <4>1. outcome' = outcome
        BY <3>3
      <4> QED
        BY <3>1, <4>1 DEF Promise!vars
    <3>4. ASSUME NEW b \in Batches, Post(b)
          PROVE  [Promise!Next]_(Promise!vars)
      BY <3>2, <3>4 DEF Post
    <3>5. ASSUME NEW b \in Batches, ReceiveReply(b)
          PROVE  [Promise!Next]_(Promise!vars)
      <4> DEFINE h  == handler[b][attempt[b]]
                 to == IF h.reply = 200 THEN "acked" ELSE "dropped"
      <4>1. exporter[b] = "waiting" /\ exporter' = [exporter EXCEPT ![b] = to]
        BY <3>5 DEF ReceiveReply
      <4>2. attempt[b] \in Attempts
        BY <1>2, <4>1 DEF IngestInv, ExporterOK
      <4>3. h.reply = 200 => WrittenUpTo(b, Len(Payloads[b]))
        BY <1>2, <4>2, HandlerType DEF HandlerOK
      <4>4. h.reply = 200 => kept[b] = 1..Len(Payloads[b])
        BY <4>3, PayloadsAre DEF WrittenUpTo, Written, KeptGroups
      <4> QED
        BY <3>2, <4>1, <4>4
    <3>6. ASSUME NEW b \in Batches, ConnectionReset(b) \/ ClientTimeout(b)
          PROVE  [Promise!Next]_(Promise!vars)
      BY <3>2, <3>6 DEF ConnectionReset, ClientTimeout, PostAgain
    <3>7. CASE \E b \in Batches, n \in Attempts :
                 Serve(b, n) \/ ExecInsert(b, n) \/ LoseInsert(b, n) \/ DatabaseConnectionBreaks(b, n)
      BY <3>3, <3>7 DEF Serve, Admit, GroupWritten, WriteFails, ExecInsert, LoseInsert,
                        DatabaseConnectionBreaks
    <3>8. CASE Crash \/ Done \/ UNCHANGED vars
      BY <3>3, <3>8 DEF Crash, Done, vars
    <3> QED
      BY <1>2, <3>4, <3>5, <3>6, <3>7, <3>8 DEF Next
  <2> QED
    BY <1>2, <2>1, <2>2, KeptStep
<1>3. Spec => []IngestInv
  BY InitIngestInv, NextIngestInv, PTL DEF Spec
<1> QED
  BY <1>1, <1>2, <1>3, KeptInOrderHolds, PTL DEF Spec, ImplementsPromise, Promise!Spec
-----------------------------------------------------------------------------
(* Whom the endpoint attributes a span to.                                 *)

\* Spans of different groups differ in id or start.
SpansApart ==
  \A b, c \in Batches : \A k \in DOMAIN Payloads[b], l \in DOMAIN Payloads[c] :
    \A i \in DOMAIN Payloads[b][k].spans, j \in DOMAIN Payloads[c][l].spans :
      /\ Payloads[b][k].spans[i].id = Payloads[c][l].spans[j].id
      /\ Payloads[b][k].spans[i].start = Payloads[c][l].spans[j].start
      => b = c /\ k = l

\* The spans of a group that canonicalize to an agent's.
AgentSpans(spans) ==
  {i \in DOMAIN spans : NormalizeByConvention(spans)[i].operation = "invoke_agent"}

\* The only agent of a group that has a root is at its root: it is one trace, and no
\* agent of it delegates to another.
AgentsAreRoots ==
  \A b \in Batches : \A k \in DOMAIN Payloads[b] : LET spans == Payloads[b][k].spans IN
    \A i \in DOMAIN spans : spans[i].parent = Null => AgentSpans(spans) = {i}

\* Normalizing an agent's span keeps who the agent is, in either convention.
LEMMA IdentityIsKept ==
  ASSUME NEW spans, NEW i \in AgentSpans(spans)
  PROVE  AgentOf(NormalizeByConvention(spans)[i].attributes) = AgentOf(spans[i].attributes)
<1> DEFINE span == spans[i]
           operation == OperationForKind(Attr(span.attributes, OI_KIND), span.parent = Null)
           renamed == RenamedKeys(operation)
           copied == CopyPassthrough(span.attributes)
           present == {k \in DOMAIN renamed : renamed[k] \in DOMAIN span.attributes}
           named == IF operation = Null THEN {} ELSE {OPERATION_NAME}
           all == [k \in present \cup named \cup DOMAIN copied |->
                     IF k \in present THEN span.attributes[renamed[k]]
                     ELSE IF k \in named THEN operation ELSE copied[k]]
<1>1. CASE NormalizeByConvention(spans) = NormalizeGenAI(spans)
  BY <1>1 DEF NormalizeGenAI, MapSeq, NormalizeGenAISpan, Normalized, AgentSpans
<1>2. CASE NormalizeByConvention(spans) = NormalizeOpenInference(spans)
  <2>1. NormalizeByConvention(spans)[i] = Normalized(span, operation, all)
    BY <1>2 DEF NormalizeOpenInference, MapSeq, NormalizeOpenInferenceSpan, AgentSpans
  <2>2. NormalizeByConvention(spans)[i].attributes = all /\ operation = "invoke_agent"
    <3> HIDE DEF operation, all
    <3> QED
      BY <2>1 DEF Normalized, AgentSpans
  <2>3. present = {}
    BY <2>2 DEF RenamedKeys
  <2>4. named \subseteq {OPERATION_NAME}
    OBVIOUS
  <2>5. DOMAIN copied = DOMAIN span.attributes \cap (AplKeys \cup AgentIdentityKeys)
        /\ \A k \in DOMAIN copied : copied[k] = span.attributes[k]
    BY DEF CopyPassthrough, Restrict
  <2> HIDE DEF present, named, copied
  <2>6. ASSUME NEW k \in {"apl.agent_id", "gen_ai.agent.id"}
        PROVE  /\ k \in DOMAIN all <=> k \in DOMAIN span.attributes
               /\ k \in DOMAIN all => all[k] = span.attributes[k]
    BY <2>3, <2>4, <2>5 DEF AplKeys, AgentIdentityKeys, OPERATION_NAME
  <2> HIDE DEF all
  <2> QED
    BY <2>2, <2>6 DEF AgentOf, Attr
<1> QED
  BY <1>1, <1>2 DEF NormalizeByConvention

\* The agent of a group is that of its only agent span.
LEMMA AgentOfTheOnly ==
  ASSUME NEW b \in Batches, NEW k \in DOMAIN Payloads[b],
         NEW i \in DOMAIN Payloads[b][k].spans, AgentSpans(Payloads[b][k].spans) = {i},
         NEW j \in DOMAIN Payloads[b][k].spans
  PROVE  Rows[b][k][j].agent = AgentOf(Payloads[b][k].spans[i].attributes)
<1> DEFINE spans == Payloads[b][k].spans
           normalized == NormalizeByConvention(spans)
           agents == {n \in 1..Len(normalized) : normalized[n].operation = "invoke_agent"}
<1>1. Rows[b][k] = SpansToRows(Payloads[b][k].resource, normalized, spans[1].trace, spans)
  BY DEF Rows, IngestOtlp
<1>2. DOMAIN normalized = DOMAIN spans
  BY NormalizedKeep
<1>3. Rows[b][k][j].agent = AgentOfTrace(normalized)
  <2> HIDE DEF normalized
  <2> QED
    BY <1>1, <1>2 DEF SpansToRows
<1>4. DOMAIN spans = 1..Len(spans) /\ Len(spans) \in Nat
  BY PayloadsAre
<1>5. Len(normalized) = Len(spans)
  BY <1>2, <1>4
<1>6. agents = {i}
  BY <1>2, <1>4, <1>5 DEF AgentSpans
<1>7. Max({i}) = i /\ Min({i}) = i
  BY <1>4 DEF Max, Min
<1>8. SelectInSeq(normalized, LAMBDA s : s.operation = "invoke_agent") = i
  BY <1>6, <1>7 DEF SelectInSeq
<1>9. i # 0
  BY <1>4
<1>10. AgentOfTrace(normalized) = AgentOf(normalized[i].attributes)
  BY <1>8, <1>9 DEF AgentOfTrace
<1> QED
  BY <1>3, <1>10, IdentityIsKept

\* The start a row looks up is that of a span with its id.
LEMMA TimingIsOfTheId ==
  ASSUME NEW b \in Batches, NEW k \in DOMAIN Payloads[b],
         NEW j \in DOMAIN Payloads[b][k].spans
  PROVE  \E m \in DOMAIN Payloads[b][k].spans :
           /\ Payloads[b][k].spans[m].id = Rows[b][k][j].span
           /\ Payloads[b][k].spans[m].start = Rows[b][k][j].start
<1> DEFINE spans == Payloads[b][k].spans
           own == {m \in 1..Len(spans) : spans[m].id = spans[j].id}
<1>1. DOMAIN spans = 1..Len(spans) /\ Len(spans) \in Nat
  BY PayloadsAre
<1>2. own # {} /\ own \in SUBSET (0..Len(spans))
  BY <1>1
<1>3. PICK m \in own : \A n \in own : n <= m
  BY <1>1, <1>2, LargestOf
<1>4. Max(own) = m
  <2>1. \A n \in own : n \in Nat
    BY <1>1
  <2> HIDE DEF own
  <2> QED
    BY <1>3, <2>1 DEF Max
<1>5. SelectLastInSeq(spans, LAMBDA s : s.id = spans[j].id) = m
  BY <1>2, <1>4 DEF SelectLastInSeq
<1>6. m \in DOMAIN spans /\ spans[m].id = spans[j].id
  BY <1>1, <1>3
<1>7. Rows[b][k][j].span = spans[j].id /\ Rows[b][k][j].start = TimingOf(spans, spans[j].id)
  BY RowsAre
<1>8. TimingOf(spans, spans[j].id) = spans[m].start
  BY <1>5 DEF TimingOf
<1> QED
  BY <1>6, <1>7, <1>8

\* A stored span is attributed to the agent of its trace's root, whatever the
\* convention, the order of the spans and what failed in between.  The hypotheses are
\* about what is posted: spans have ids of their own, and a group is one trace
\* without sub-agents.  Without the second it is false, which IngestNested shows.
THEOREM AttributedHolds ==
  ASSUME SpansApart, AgentsAreRoots
  PROVE  Spec => []Attributed
<1>1. ASSUME TypeOK
      PROVE  Attributed
  <2> SUFFICES ASSUME NEW b \in Batches, NEW k \in DOMAIN Payloads[b],
                      NEW n \in DOMAIN Payloads[b][k].spans, NEW row \in store,
                      IsRowOf(row, Payloads[b][k].spans[n]),
                      NEW i \in DOMAIN Payloads[b][k].spans,
                      Payloads[b][k].spans[i].parent = Null
               PROVE  row.agent = AgentOf(Payloads[b][k].spans[i].attributes)
    BY DEF Attributed, OfEveryRow
  <2>1. PICK c \in Batches : \E l \in DOMAIN Rows[c] : row \in Range(Rows[c][l])
    BY <1>1 DEF TypeOK, AllRows
  <2>2. PICK l \in DOMAIN Rows[c] : row \in Range(Rows[c][l])
    BY <2>1
  <2>3. l \in DOMAIN Payloads[c]
    BY <2>2 DEF Rows
  <2>4. PICK j \in DOMAIN Payloads[c][l].spans : row = Rows[c][l][j]
    BY <2>2, <2>3, RowsAre DEF Range
  <2>5. PICK m \in DOMAIN Payloads[c][l].spans :
          /\ Payloads[c][l].spans[m].id = row.span
          /\ Payloads[c][l].spans[m].start = row.start
    BY <2>3, <2>4, TimingIsOfTheId
  <2>6. b = c /\ k = l
    BY <2>3, <2>5 DEF SpansApart, IsRowOf
  <2> QED
    BY <2>4, <2>6, AgentOfTheOnly DEF AgentsAreRoots
<1> QED
  BY <1>1, IngestTypeCorrect, PTL
=============================================================================
