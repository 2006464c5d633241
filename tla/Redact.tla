------------------------------- MODULE Redact -------------------------------
(***************************************************************************)
(* The stream redactor (internal/redact): which part of what it has read a *)
(* Writer passes on, and in which form.  Values are sequences of bytes; a  *)
(* node of the trie is the prefix of values that leads to it; an offset    *)
(* counts the bytes before it.                                             *)
(***************************************************************************)
EXTENDS Integers, FiniteSets, SequencesExt

CONSTANTS
  Byte,      \* the bytes of a stream
  Patterns   \* the secrets: records of a value and the label that replaces it

ASSUME RedactAssumption ==
  Patterns \subseteq [value : Seq(Byte), label : Nat \ {0}]

-----------------------------------------------------------------------------
(***************************************************************************)
(* The automaton.                                                          *)
(***************************************************************************)
Values == {p.value : p \in Patterns} \ {<<>>}
Node == {<<>>} \cup UNION {{SubSeq(v, 1, n) : n \in DOMAIN v} : v \in Values}

Failure[node \in Node] ==
  IF Len(node) <= 1 THEN <<>>
  ELSE LET b == Last(node)
           Follow[f \in {g \in Node : Len(g) < Len(node)}] ==
             IF f = <<>> \/ Append(f, b) \in Node THEN f ELSE Follow[Failure[f]]
           t == Append(Follow[Failure[Front(node)]], b)
       IN IF t \in Node THEN t ELSE <<>>

\* Lengths of the values that end at a node.
Ends[node \in Node] ==
  IF node = <<>> THEN {}
  ELSE {n \in {Len(node)} : node \in Values} \cup Ends[Failure[node]]

StepTo[node \in Node] ==
  [b \in Byte |-> IF Append(node, b) \in Node THEN Append(node, b)
                  ELSE IF node = <<>> THEN <<>> ELSE StepTo[Failure[node]][b]]

Reached(data) ==
  LET at[i \in 0..Len(data)] == IF i = 0 THEN <<>> ELSE StepTo[at[i - 1]][data[i]]
  IN at

\* scan: the occurrences of values, and how much of the end may belong to one.
Spans(data) ==
  LET at == Reached(data)
  IN UNION {{[start |-> i - n, end |-> i] : n \in Ends[at[i]]} : i \in DOMAIN data}
Hold(data) == Len(Reached(data)[Len(data)])

-----------------------------------------------------------------------------
(***************************************************************************)
(* The spans that are replaced.                                            *)
(***************************************************************************)
LabelFor(data, s) ==
  Min({p.label : p \in {q \in Patterns : q.value = SubSeq(data, s.start + 1, s.end)}})

Before(x, y) ==
  \/ x.start < y.start
  \/ x.start = y.start /\ x.end < y.end
  \/ x.start = y.start /\ x.end = y.end /\ x.label < y.label

\* Occurrences that share a byte are one span with the label of the first.
Merge(spans, s) ==
  IF spans # <<>> /\ s.start < Last(spans).end
  THEN [spans EXCEPT ![Len(spans)].end = IF s.end > @ THEN s.end ELSE @]
  ELSE Append(spans, s)

\* The set in the order of Before, as a sequence.
Sorted(spans) ==
  CHOOSE order \in [1..Cardinality(spans) -> spans] :
    \A i, j \in DOMAIN order : i < j => Before(order[i], order[j])

Merged(data) ==
  LET order == Sorted({[start |-> s.start, end |-> s.end, label |-> LabelFor(data, s)]
                         : s \in Spans(data)})
      merged[i \in 0..Len(order)] ==
        IF i = 0 THEN <<>> ELSE Merge(merged[i - 1], order[i])
  IN merged[Len(order)]

\* What is written is a sequence of pieces: the byte at an offset (label 0),
\* or the placeholder of a span that begins there.  The first byte of data has
\* offset from.
Piece(from, spans, i) ==
  LET covers == {s \in spans : s.start < i /\ i <= s.end}
      cover == CHOOSE s \in covers : TRUE
  IN IF covers = {} THEN << [at |-> from + i - 1, label |-> 0] >>
     ELSE IF cover.start = i - 1 THEN << [at |-> from + i - 1, label |-> cover.label] >>
     ELSE <<>>

Render(from, data, spans) == FlattenSeq([i \in DOMAIN data |-> Piece(from, spans, i)])

-----------------------------------------------------------------------------
(***************************************************************************)
(* Writer.                                                                 *)
(***************************************************************************)

\* A bug to be found: the bytes held back are not moved before a span.
EmitEndInSpan(data) == Len(data) - Hold(data)

\* How much of the buffer Write passes on.
EmitEnd(data) ==
  LET spans == Merged(data)
      end[i \in 0..Len(spans)] ==
        IF i = 0 THEN Len(data) - Hold(data)
        ELSE IF spans[i].start < end[i - 1] /\ end[i - 1] < spans[i].end THEN spans[i].start
        ELSE end[i - 1]
  IN end[Len(spans)]

\* What Write passes on of a buffer whose first byte has offset from.
Emission(from, data) ==
  LET end == EmitEnd(data)
  IN Render(from, SubSeq(data, 1, end), {s \in ToSet(Merged(data)) : s.end <= end})

\* What Close passes on.
Rest(from, data) == Render(from, data, ToSet(Merged(data)))

-----------------------------------------------------------------------------
(***************************************************************************)
(* Reference: what a reader of a whole stream may see.                     *)
(***************************************************************************)
Occurrence(data) ==
  {o \in [start : 0..Len(data), end : 0..Len(data)] :
     o.start < o.end /\ SubSeq(data, o.start + 1, o.end) \in Values}

\* The byte at offset i belongs to a secret.
Secret(data, i) == \E o \in Occurrence(data) : o.start <= i /\ i < o.end

\* A secret begins at offset i, and none that began earlier reaches over it.
First(data, i) ==
  /\ \E o \in Occurrence(data) : o.start = i
  /\ ~ \E o \in Occurrence(data) : o.start < i /\ i < o.end

LabelAt(data, i) ==
  LET end == Min({o.end : o \in {x \in Occurrence(data) : x.start = i}})
  IN Min({p.label : p \in {q \in Patterns : q.value = SubSeq(data, i + 1, end)}})

\* The longest end of data with which a secret may begin.
Beginning(data) ==
  Max({n \in 0..Len(data) : n = 0 \/
         \E v \in Values : n <= Len(v) /\ SubSeq(v, 1, n) = SubSeq(data, Len(data) - n + 1, Len(data))})

\* What is held of data from an offset on is the beginning of a secret, and the
\* secrets that reach into it.
Settled(data, from) ==
  LET end == Len(data) - Beginning(data)
  IN \/ from = end
     \/ /\ from < end /\ First(data, from)
        /\ \A i \in (from + 1)..end : Secret(data, i) /\ ~First(data, i)

Redacted(data) ==
  FlattenSeq([n \in DOMAIN data |->
    LET i == n - 1
    IN IF ~Secret(data, i) THEN << [at |-> i, label |-> 0] >>
       ELSE IF First(data, i) THEN << [at |-> i, label |-> LabelAt(data, i)] >> ELSE <<>>])
=============================================================================
