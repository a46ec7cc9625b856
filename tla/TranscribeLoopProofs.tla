------------------------ MODULE TranscribeLoopProofs ------------------------
(***************************************************************************)
(* For all sizes of frames, chunks and utterances, any number of frames and *)
(* of live changes: the audio reaches the service once and in order, no    *)
(* hold waits for an answer that was drained already, and (while the       *)
(* settings stay as they are) every utterance is closed by a commit.       *)
(*                                                                         *)
(* The order of the audio is inductive together with two facts: nothing is *)
(* held unless an answer is awaited (so that what is sent directly does    *)
(* not overtake anything), and outside an utterance the detector's buffer  *)
(* is empty.                                                               *)
(***************************************************************************)
EXTENDS TranscribeLoop, SequenceTheorems, WellFoundedInduction, TLAPS

-----------------------------------------------------------------------------
(* Rows of chunks.                                                         *)

\* t leads from b to c without any gap.
Leads(b, t, c) ==
    /\ t = << >> => b = c
    /\ t # << >> => t[1].from = b /\ t[Len(t)].to + 1 = c
    /\ \A i \in 1..Len(t) : t[i].from <= t[i].to + 1
    /\ \A i \in 1..(Len(t) - 1) : t[i].to + 1 = t[i + 1].from

\* A set of natural numbers has a least element.
LEMMA LeastNumber ==
    ASSUME NEW T \in SUBSET Nat, T # {}
    PROVE  \E x \in T : \A y \in T : x <= y
<1>1. PICK x \in T : \A y \in T : ~ (<<y, x>> \in OpToRel(<, Nat))
  BY NatLessThanWellFounded, WFMin
<1>2. \A y \in T : ~(y < x)
  BY <1>1 DEF OpToRel
<1> QED BY <1>2

\* The members of a sequence of chunks.
LEMMA ChunksOf ==
    ASSUME NEW s \in Seq(Chunk), NEW i \in 1..Len(s)
    PROVE  s[i].from \in Nat /\ s[i].to \in Nat /\ s[i].commit \in BOOLEAN
<1>1. s[i] \in Chunk
  OBVIOUS
<1> QED BY <1>1 DEF Chunk

\* Neighbours follow each other.
LEMMA NextFollows ==
    ASSUME NEW a \in Nat, NEW b \in Nat, NEW gaps, a + 1 = b
    PROVE  Follows(a, b, gaps)
BY DEF Follows

\* A row goes on with chunks that begin where it ends.
LEMMA RowJoin ==
    ASSUME NEW a \in Nat, NEW b \in Nat, NEW c \in Nat, NEW gaps,
           NEW s \in Seq(Chunk), NEW t \in Seq(Chunk),
           Row(a, s, b, gaps), Leads(b, t, c)
    PROVE  Row(a, s \o t, c, gaps)
<1> DEFINE st == s \o t
<1>1. /\ st \in Seq(Chunk) /\ Len(st) = Len(s) + Len(t)
      /\ Len(s) \in Nat /\ Len(t) \in Nat
      /\ \A i \in 1..Len(s) : st[i] = s[i]
      /\ \A i \in 1..Len(t) : st[Len(s) + i] = t[i]
  OBVIOUS
<1>2. \A i \in 1..Len(s) : s[i].from \in Nat /\ s[i].to \in Nat
  BY ChunksOf
<1>3. \A i \in 1..Len(t) : t[i].from \in Nat /\ t[i].to \in Nat
  BY ChunksOf
<1>4. \A i \in 1..Len(st) : i <= Len(s) \/ (i - Len(s) \in 1..Len(t) /\ st[i] = t[i - Len(s)])
  BY <1>1
<1>5. CASE t = << >>
  BY <1>5, ConcatEmptySeq DEF Leads
<1>6. CASE s = << >>
  <2>1. st = t
    BY <1>6, ConcatEmptySeq
  <2>2. CASE t = << >>
    BY <1>6, <2>1, <2>2 DEF Leads, Row
  <2>3. CASE t # << >>
    <3>1. Len(t) \in 1..Len(t) /\ 1 \in 1..Len(t)
      BY <2>3
    <3>2. Follows(a, t[1].from, gaps) /\ Follows(t[Len(t)].to, c, gaps)
      BY <1>6, <2>3, <3>1, <1>3 DEF Leads, Row, Follows
    <3>3. \A i \in 1..(Len(t) - 1) : Follows(t[i].to, t[i + 1].from, gaps)
      <4>1. ASSUME NEW i \in 1..(Len(t) - 1) PROVE Follows(t[i].to, t[i + 1].from, gaps)
        <5>1. i \in 1..Len(t) /\ i + 1 \in 1..Len(t)
          OBVIOUS
        <5> QED BY <5>1, <1>3 DEF Leads, Follows
      <4> QED BY <4>1
    <3> QED BY <2>1, <2>3, <3>2, <3>3 DEF Leads, Row
  <2> QED BY <2>2, <2>3
<1>7. CASE s # << >> /\ t # << >>
  <2>1. Len(s) > 0 /\ Len(t) > 0
    BY <1>7
  <2>2. st # << >> /\ st[1] = s[1] /\ st[Len(st)] = t[Len(t)]
    BY <1>1, <2>1
  <2>3. Follows(a, st[1].from, gaps) /\ Follows(st[Len(st)].to, c, gaps)
    BY <2>1, <2>2, <1>3 DEF Row, Leads, Follows
  <2>4. \A i \in 1..Len(st) : st[i].from <= st[i].to + 1
    BY <1>1, <1>4 DEF Row, Leads
  <2>5. ASSUME NEW i \in 1..(Len(st) - 1)
        PROVE  Follows(st[i].to, st[i + 1].from, gaps)
    <3>1. CASE i < Len(s)
      BY <3>1, <1>1 DEF Row
    <3>2. CASE i = Len(s)
      BY <3>2, <1>1, <2>1 DEF Row, Leads
    <3>3. CASE i > Len(s)
      <4>1. i - Len(s) \in 1..(Len(t) - 1)
        BY <3>3, <1>1
      <4>2. st[i] = t[i - Len(s)] /\ st[i + 1] = t[(i - Len(s)) + 1]
        BY <4>1, <1>1, <1>4
      <4>3. t[i - Len(s)].to + 1 = t[(i - Len(s)) + 1].from
        BY <4>1 DEF Leads
      <4>4. t[i - Len(s)].to \in Nat /\ t[(i - Len(s)) + 1].from \in Nat
        BY <4>1, <1>1, <1>3
      <4> QED BY <4>2, <4>3, <4>4, NextFollows
    <3> QED BY <3>1, <3>2, <3>3, <1>1, SMTT(30)
  <2> QED BY <2>2, <2>3, <2>4, <2>5 DEF Row
<1> QED BY <1>5, <1>6, <1>7

\* When the chunks in front of a row are sent, the rest is a row.
LEMMA RowDrop ==
    ASSUME NEW a \in Nat, NEW b \in Nat, NEW gaps,
           NEW s \in Seq(Chunk), NEW t \in Seq(Chunk),
           Row(a, s \o t, b, gaps)
    PROVE  Row(IF s = << >> THEN a ELSE s[Len(s)].to, t, b, gaps)
<1> DEFINE st == s \o t
<1>1. /\ Len(st) = Len(s) + Len(t) /\ Len(s) \in Nat /\ Len(t) \in Nat
      /\ \A i \in 1..Len(s) : st[i] = s[i]
      /\ \A i \in 1..Len(t) : st[Len(s) + i] = t[i]
  OBVIOUS
<1>2. CASE s = << >>
  BY <1>2, ConcatEmptySeq
<1>3. CASE s # << >> /\ t = << >>
  BY <1>3, ConcatEmptySeq DEF Row
<1>4. CASE s # << >> /\ t # << >>
  <2>1. Len(s) > 0 /\ Len(t) > 0 /\ st # << >>
    BY <1>4, <1>1
  <2>2. Len(s) \in 1..(Len(st) - 1) /\ st[Len(s)] = s[Len(s)] /\ st[Len(s) + 1] = t[1]
    BY <2>1, <1>1
  <2>3. Follows(s[Len(s)].to, t[1].from, gaps)
    BY <2>2 DEF Row
  <2>4. st[Len(st)] = t[Len(t)]
    BY <2>1, <1>1
  <2>5. \A i \in 1..Len(t) : t[i].from <= t[i].to + 1
    <3>1. \A i \in 1..Len(t) : Len(s) + i \in 1..Len(st)
      BY <1>1
    <3> QED BY <1>1, <3>1 DEF Row
  <2>6. ASSUME NEW i \in 1..(Len(t) - 1)
        PROVE  Follows(t[i].to, t[i + 1].from, gaps)
    <3>1. Len(s) + i \in 1..(Len(st) - 1)
      BY <1>1
    <3>2. i \in 1..Len(t) /\ i + 1 \in 1..Len(t)
      BY <1>1
    <3>3. Len(s) + (i + 1) = (Len(s) + i) + 1
      BY <1>1
    <3>4. st[Len(s) + i] = t[i]
      BY <1>1, <3>2, Zenon
    <3>5. st[Len(s) + (i + 1)] = t[i + 1]
      BY <1>1, <3>2, Zenon
    <3>6. st[(Len(s) + i) + 1] = t[i + 1]
      BY <3>3, <3>5, Zenon
    <3> QED BY <3>1, <3>4, <3>6 DEF Row
  <2> QED BY <1>4, <2>1, <2>3, <2>4, <2>5, <2>6 DEF Row
<1> QED BY <1>2, <1>3, <1>4

\* The first chunk alone.
LEMMA RowTail ==
    ASSUME NEW a \in Nat, NEW b \in Nat, NEW gaps,
           NEW s \in Seq(Chunk), s # << >>, Row(a, s, b, gaps)
    PROVE  Row(s[1].to, Tail(s), b, gaps)
<1> DEFINE t == Tail(s)
<1>0. Len(s) \in Nat \ {0} /\ Len(t) = Len(s) - 1
  BY HeadTailProperties, EmptySeq
<1>1. /\ Len(s) \in Nat \ {0} /\ t \in Seq(Chunk) /\ Len(t) = Len(s) - 1
      /\ \A i \in 1..Len(t) : t[i] = s[i + 1]
  BY HeadTailProperties, EmptySeq
<1> HIDE DEF t
<1>2. \A i \in 1..Len(t) : i + 1 \in 1..Len(s)
  BY <1>1
<1>3. CASE t = << >>
  <2>1. Len(t) = 0
    BY <1>3, EmptySeq
  <2>2. Len(s) = 1
    BY <1>0, <2>1
  <2>3. Follows(s[1].to, b, gaps)
    <3>1. Follows(s[Len(s)].to, b, gaps)
      BY DEF Row
    <3> QED BY <3>1, <2>2, Zenon
  <2> QED BY <1>3, <2>1, <2>3 DEF Row, t
<1>4. CASE t # << >>
  <2>1. 1 \in 1..(Len(s) - 1) /\ t[1] = s[2] /\ t[Len(t)] = s[Len(s)]
    BY <1>1, <1>4, EmptySeq
  <2>2. Follows(s[1].to, t[1].from, gaps) /\ Follows(t[Len(t)].to, b, gaps)
    BY <2>1, 1 + 1 = 2 DEF Row
  <2>3. ASSUME NEW i \in 1..(Len(t) - 1) PROVE Follows(t[i].to, t[i + 1].from, gaps)
    <3>1. i + 1 \in 1..(Len(s) - 1) /\ t[i] = s[i + 1] /\ t[i + 1] = s[(i + 1) + 1]
      BY <1>1
    <3> QED BY <3>1 DEF Row
  <2> QED BY <1>1, <1>2, <1>4, <2>2, <2>3 DEF Row, t
<1> QED BY <1>3, <1>4

\* More gaps do no harm.
LEMMA RowGaps ==
    ASSUME NEW a, NEW b, NEW gaps, NEW more, NEW s, gaps \subseteq more,
           Row(a, s, b, gaps)
    PROVE  Row(a, s, b, more)
BY DEF Row, Follows

\* The chunks of a row lie behind its beginning.
LEMMA RowRises ==
    ASSUME NEW a \in Nat, NEW b \in Nat, NEW gaps, NEW s \in Seq(Chunk),
           Row(a, s, b, gaps), NEW j \in 1..Len(s)
    PROVE  a < s[j].from /\ a <= s[j].to
<1> DEFINE n == Len(s)
<1>1. n \in Nat /\ \A i \in 1..n : s[i].from \in Nat /\ s[i].to \in Nat
  BY ChunksOf
<1>2. s = << >> <=> n = 0
  BY EmptySeq
<1>3. \A i \in 1..n : a < s[i].from
  <2>1. SUFFICES ASSUME \E i \in 1..n : ~(a < s[i].from) PROVE FALSE
    OBVIOUS
  <2> DEFINE early == {k \in 1..n : ~(a < s[k].from)}
  <2>0. early \in SUBSET Nat /\ early # {}
    BY <2>1, <1>1, SMTT(30)
  <2>2. PICK i \in early : \A k \in early : i <= k
    <3> HIDE DEF early
    <3> QED BY <2>0, LeastNumber
  <2>3. CASE i = 1
    BY <2>3, <2>2, <1>1, <1>2 DEF Row, Follows
  <2>4. CASE i # 1
    <3>1. i - 1 \in 1..n /\ i - 1 \in 1..(n - 1) /\ (i - 1) + 1 = i /\ ~(i <= i - 1)
      BY <2>4, <1>1
    <3>2. a < s[i - 1].from
      BY <3>1, <2>2
    <3>3. s[i - 1].from <= s[i - 1].to + 1 /\ s[i - 1].to < s[i].from
      BY <3>1 DEF Row, Follows
    <3>4. s[i - 1].from \in Nat /\ s[i - 1].to \in Nat /\ s[i].from \in Nat /\ ~(a < s[i].from)
      BY <3>1, <2>2, <1>1
    <3>5. ASSUME NEW x \in Nat, NEW y \in Nat, NEW z \in Nat, a < x, x <= y + 1, y < z
          PROVE  a < z
      BY <3>5
    <3> QED BY <3>2, <3>3, <3>4, <3>5
  <2> QED BY <2>3, <2>4
<1>4. s[j].from <= s[j].to + 1
  BY DEF Row
<1> QED BY <1>1, <1>3, <1>4

\* When the chunks of a row are thrown away, no unit between its ends is left.
LEMMA RowDropped ==
    ASSUME NEW a \in Nat, NEW b \in Nat, NEW gaps, NEW s \in Seq(Chunk),
           Row(a, s, b, gaps)
    PROVE  Follows(a, b, gaps \union Units(s))
<1> DEFINE n == Len(s)
<1>1. n \in Nat /\ \A i \in 1..n : s[i].from \in Nat /\ s[i].to \in Nat
  BY ChunksOf
<1>2. s = << >> <=> n = 0
  BY EmptySeq
<1>3. \A i \in 1..n : a < s[i].from
  BY RowRises
<1>4. a < b
  <2>1. CASE n = 0
    BY <2>1, <1>2 DEF Row, Follows
  <2>2. CASE n # 0
    <3>1. n \in 1..n
      BY <2>2, <1>1
    <3>2. s[n].from <= s[n].to + 1 /\ s[n].to < b /\ a < s[n].from
      BY <2>2, <3>1, <1>2, <1>3 DEF Row, Follows
    <3> QED BY <3>1, <3>2, <1>1
  <2> QED BY <2>1, <2>2
<1>5. ASSUME NEW u \in (a + 1)..(b - 1), u \notin Units(s)
      PROVE  u \in gaps
  <2> DEFINE later == {k \in 1..n : u < s[k].from}
  <2>1. \A i \in 1..n : ~(s[i].from <= u /\ u <= s[i].to)
    BY <1>1, <1>5 DEF Units
  <2>2. CASE later # {}
    <3>0. later \in SUBSET Nat
      BY <1>1
    <3>1. PICK i \in later : \A k \in later : i <= k
      <4> HIDE DEF later
      <4> QED BY <2>2, <3>0, LeastNumber
    <3>2. CASE i = 1
      <4>1. s # << >> /\ 1 \in 1..n /\ u < s[1].from
        BY <3>1, <3>2, <1>1, <1>2
      <4>2. Follows(a, s[1].from, gaps)
        BY <4>1 DEF Row
      <4>3. s[1].from \in Nat
        BY <4>1, <1>1
      <4> QED BY <4>1, <4>2, <4>3 DEF Follows
    <3>3. CASE i # 1
      <4>1. i - 1 \in 1..n /\ i - 1 \in 1..(n - 1) /\ (i - 1) + 1 = i /\ ~(i <= i - 1)
        BY <3>3, <1>1
      <4>2. ~(u < s[i - 1].from)
        BY <4>1, <3>1
      <4>3. s[i - 1].to < u
        <5>1. s[i - 1].from \in Nat /\ s[i - 1].to \in Nat
          BY <4>1, <1>1
        <5>2. ~(s[i - 1].from <= u /\ u <= s[i - 1].to)
          BY <4>1, <2>1
        <5> QED BY <4>2, <5>1, <5>2
      <4>4. Follows(s[i - 1].to, s[i].from, gaps)
        BY <4>1 DEF Row
      <4> QED BY <4>1, <4>3, <4>4, <3>1, <1>1 DEF Follows
    <3> QED BY <3>2, <3>3
  <2>3. CASE later = {}
    <3>1. CASE n = 0
      BY <3>1, <1>2 DEF Row, Follows
    <3>2. CASE n # 0
      <4>1. n \in 1..n
        BY <3>2, <1>1
      <4>2. s[n].to < u
        BY <4>1, <2>3, <2>1, <1>1
      <4>3. Follows(s[n].to, b, gaps)
        BY <3>2, <1>2 DEF Row
      <4> QED BY <4>1, <4>2, <4>3, <1>1 DEF Follows
    <3> QED BY <3>1, <3>2
  <2> QED BY <2>2, <2>3
<1> QED BY <1>4, <1>5 DEF Follows

-----------------------------------------------------------------------------
(* What the detector makes of a frame.                                     *)

\* Chunks lead on with one more.
LEMMA LeadsOn ==
    ASSUME NEW b \in Nat, NEW c \in Nat, NEW t \in Seq(Chunk), NEW k \in Chunk,
           Leads(b, t, c), k.from = c, k.from <= k.to + 1
    PROVE  Append(t, k) \in Seq(Chunk) /\ Leads(b, Append(t, k), k.to + 1)
<1> DEFINE tk == Append(t, k)
<1>1. /\ tk \in Seq(Chunk) /\ tk # << >> /\ Len(tk) = Len(t) + 1 /\ Len(t) \in Nat
      /\ \A i \in 1..Len(t) : tk[i] = t[i]
      /\ tk[Len(t) + 1] = k
  BY AppendProperties
<1>2. t = << >> <=> Len(t) = 0
  BY EmptySeq
<1> HIDE DEF tk
<1>3. tk[1].from = b
  <2>1. CASE Len(t) = 0
    BY <2>1, <1>1, <1>2 DEF Leads
  <2>2. CASE Len(t) # 0
    <3>1. 1 \in 1..Len(t)
      BY <2>2, <1>1
    <3> QED BY <3>1, <2>2, <1>1, <1>2 DEF Leads
  <2> QED BY <2>1, <2>2
<1>4. tk[Len(tk)].to + 1 = k.to + 1
  BY <1>1
<1>5. \A i \in 1..Len(tk) : tk[i].from <= tk[i].to + 1
  <2>1. ASSUME NEW i \in 1..Len(tk) PROVE tk[i].from <= tk[i].to + 1
    <3>1. i \in 1..Len(t) \/ i = Len(t) + 1
      BY <1>1
    <3> QED BY <3>1, <1>1 DEF Leads
  <2> QED BY <2>1
<1>6. ASSUME NEW i \in 1..(Len(tk) - 1) PROVE tk[i].to + 1 = tk[i + 1].from
  <2>1. i \in 1..Len(t) /\ (i = Len(t) \/ (i + 1 \in 1..Len(t) /\ i \in 1..(Len(t) - 1)))
    BY <1>1
  <2>2. CASE i = Len(t)
    BY <2>1, <2>2, <1>1, <1>2 DEF Leads
  <2>3. CASE i + 1 \in 1..Len(t) /\ i \in 1..(Len(t) - 1)
    BY <2>1, <2>3, <1>1 DEF Leads
  <2> QED BY <2>1, <2>2, <2>3
<1>7. Leads(b, tk, k.to + 1)
  BY <1>1, <1>3, <1>4, <1>5, <1>6 DEF Leads
<1> QED BY <1>1, <1>7 DEF tk

\* What is cut off leads to the tail, which is not empty if it was not before.
LEMMA CutLeads ==
    ASSUME NEW from \in Nat \ {0}, NEW to \in Nat, from <= to,
           NEW size \in Nat \ {0}
    PROVE  LET n == Whole(from, to, size) IN
           /\ n \in Nat /\ from + n * size \in Nat \ {0} /\ from + n * size <= to
           /\ Cut(from, to, size) \in Seq(Chunk)
           /\ Leads(from, Cut(from, to, size), from + n * size)
<1> DEFINE n == Whole(from, to, size)
           cut == Cut(from, to, size)
<1>1. to - from \in Nat
  OBVIOUS
<1>2. n \in Nat /\ n * size \in Nat /\ n * size <= to - from
  BY <1>1 DEF Whole
<1> HIDE DEF n
<1>3. \A i \in 1..n : /\ from + (i - 1) * size \in Nat
                      /\ from + i * size - 1 \in Nat
                      /\ from + (i - 1) * size <= (from + i * size - 1) + 1
                      /\ from + i * size - 1 + 1 = from + ((i + 1) - 1) * size
  <2>1. ASSUME NEW i \in 1..n
        PROVE  /\ from + (i - 1) * size \in Nat
               /\ from + i * size - 1 \in Nat
               /\ from + (i - 1) * size <= (from + i * size - 1) + 1
               /\ from + i * size - 1 + 1 = from + ((i + 1) - 1) * size
    <3>1. i \in Nat /\ i - 1 \in Nat
      BY <1>2
    <3>2. i * size \in Nat /\ (i - 1) * size \in Nat /\ i * size = (i - 1) * size + size
      BY <3>1
    <3> QED BY <3>1, <3>2
  <2> QED BY <2>1
<1>4. cut = [i \in 1..n |-> [from |-> from + (i - 1) * size,
                             to |-> from + i * size - 1, commit |-> FALSE]]
  BY DEF Cut, n
<1> HIDE DEF cut
<1>5. \A i \in 1..n : cut[i] \in Chunk
  BY <1>3, <1>4 DEF Chunk
<1>6. cut \in Seq(Chunk) /\ Len(cut) = n
  <2>1. cut \in [1..n -> Chunk]
    BY <1>4, <1>5
  <2>2. cut \in Seq(Chunk)
    BY <2>1, <1>2, SeqDef
  <2>3. 1..Len(cut) = 1..n /\ Len(cut) \in Nat
    BY <2>1, <2>2, LenProperties
  <2> QED BY <2>2, <2>3, <1>2
<1>7. Leads(from, cut, from + n * size)
  <2>1. CASE n = 0
    BY <2>1, <1>2, <1>6, EmptySeq DEF Leads
  <2>2. CASE n # 0
    <3>1. 1 \in 1..n /\ n \in 1..n
      BY <2>2, <1>2
    <3>2. cut # << >>
      BY <2>2, <1>6, EmptySeq
    <3>3. cut[1].from = from /\ cut[n].to + 1 = from + n * size
      BY <3>1, <1>2, <1>3, <1>4
    <3>4. \A i \in 1..n : cut[i].from <= cut[i].to + 1
      BY <1>3, <1>4
    <3>5. \A i \in 1..(n - 1) : cut[i].to + 1 = cut[i + 1].from
      <4>1. ASSUME NEW i \in 1..(n - 1) PROVE cut[i].to + 1 = cut[i + 1].from
        <5>1. i \in 1..n /\ i + 1 \in 1..n
          BY <1>2
        <5>2. cut[i].to = from + i * size - 1 /\ cut[i + 1].from = from + ((i + 1) - 1) * size
          BY <5>1, <1>4
        <5> QED BY <5>1, <5>2, <1>3
      <4> QED BY <4>1
    <3> QED BY <3>2, <3>3, <3>4, <3>5, <1>6 DEF Leads
  <2> QED BY <2>1, <2>2, <1>2
<1>8. from + n * size \in Nat \ {0} /\ from + n * size <= to
  BY <1>2
<1> QED BY <1>2, <1>6, <1>7, <1>8 DEF n, cut

\* A detector, field by field.
LEMMA DetectorOf ==
    ASSUME NEW d \in Detector
    PROVE  /\ d.inSpeech \in BOOLEAN /\ d.speech \in 0..(StartFrames - 1)
           /\ d.inSpeechFrames \in Nat /\ d.silence \in 0..(EndFrames - 1)
           /\ d.from \in Nat \ {0}
           /\ d.speech \in Nat /\ d.silence \in Nat
BY SizesAssumption DEF Detector

\* The chunks of a frame lead from the buffer before it to the buffer after it;
\* an utterance ends with a commit of everything up to the end of the frame.
Framed(r, from, to) ==
    /\ r.detector \in Detector /\ r.chunks \in Seq(Chunk) /\ r.uttering \in BOOLEAN
    /\ Leads(from, r.chunks, r.detector.from)
    /\ r.detector.from <= to + 1
    /\ ~r.detector.inSpeech => r.detector.from = to + 1
    /\ ~r.detector.inSpeech /\ r.uttering =>
          r.chunks # << >> /\ r.chunks[Len(r.chunks)].commit /\ r.chunks[Len(r.chunks)].to = to

LEMMA ListenFrames ==
    ASSUME NEW d \in Detector, NEW n \in Nat, NEW speech \in BOOLEAN, d.from = n + 1,
           ~d.inSpeech
    PROVE  Framed(Listen(d, n + FrameUnits, speech), d.from, n + FrameUnits)
<1> DEFINE to == n + FrameUnits
           k == IF speech THEN d.speech + 1 ELSE 0
           opened == [FreshDetector(to - FrameUnits) EXCEPT !.inSpeech = TRUE]
<1>1. to \in Nat /\ d.from \in Nat \ {0} /\ d.from <= to /\ k \in Nat
  BY SizesAssumption DEF Detector
<1>2. CASE k >= StartFrames
  <2>0. opened = [inSpeech |-> TRUE, speech |-> 0, inSpeechFrames |-> 0, silence |-> 0,
                  from |-> n + 1]
    <3>1. to - FrameUnits + 1 = n + 1
      BY SizesAssumption
    <3>2. FreshDetector(to - FrameUnits) =
            [inSpeech |-> FALSE, speech |-> 0, inSpeechFrames |-> 0, silence |-> 0, from |-> n + 1]
      <4> HIDE DEF to
      <4> QED BY <3>1 DEF FreshDetector
    <3> DEFINE fresh == FreshDetector(to - FrameUnits)
    <3>3. opened = [fresh EXCEPT !.inSpeech = TRUE]
      OBVIOUS
    <3> HIDE DEF opened
    <3>4. fresh = [inSpeech |-> FALSE, speech |-> 0, inSpeechFrames |-> 0, silence |-> 0, from |-> n + 1]
      BY <3>2
    <3> HIDE DEF fresh
    <3> QED BY <3>3, <3>4
  <2>1. opened \in Detector /\ opened.from = d.from /\ opened.inSpeech
    <3>1. 0 \in 0..(StartFrames - 1) /\ 0 \in 0..(EndFrames - 1) /\ n + 1 \in Nat \ {0}
      BY SizesAssumption
    <3> HIDE DEF opened
    <3> QED BY <2>0, <3>1 DEF Detector
  <2> DEFINE cut == Cut(opened.from, to, MinChunk)
             tail == Tailed(opened, to, MinChunk)
  <2>2. /\ Whole(opened.from, to, MinChunk) \in Nat
        /\ opened.from + Whole(opened.from, to, MinChunk) * MinChunk \in Nat \ {0}
        /\ opened.from + Whole(opened.from, to, MinChunk) * MinChunk <= to
        /\ cut \in Seq(Chunk)
        /\ Leads(opened.from, cut, opened.from + Whole(opened.from, to, MinChunk) * MinChunk)
    BY <1>1, <2>1, CutLeads, SizesAssumption
  <2>3. /\ tail \in Detector /\ tail.inSpeech
        /\ tail.from = opened.from + Whole(opened.from, to, MinChunk) * MinChunk
    <3> HIDE DEF opened
    <3> QED BY <2>1, <2>2 DEF Tailed, Detector
  <2>4. Listen(d, to, speech) = [detector |-> tail, chunks |-> cut, uttering |-> TRUE]
    BY <1>2 DEF Listen, Result
  <2> HIDE DEF tail, cut, opened, to, k
  <2>5. Framed(Listen(d, to, speech), d.from, to)
    BY <2>1, <2>2, <2>3, <2>4, <1>1, SMTT(30) DEF Framed, Detector
  <2> QED BY <2>5 DEF to
<1>3. CASE ~(k >= StartFrames)
  <2> DEFINE next == [d EXCEPT !.speech = k, !.from = to + 1]
             chunk == [from |-> d.from, to |-> to, commit |-> FALSE]
  <2>1. next \in Detector /\ next.from = to + 1 /\ ~next.inSpeech
    <3>1. k \in 0..(StartFrames - 1) /\ to + 1 \in Nat \ {0}
      BY <1>1, <1>3, SizesAssumption
    <3> HIDE DEF k, to
    <3>2. next \in Detector /\ next.from = to + 1
      BY <3>1 DEF Detector
    <3>3. next.inSpeech = d.inSpeech
      BY DEF Detector
    <3> HIDE DEF next
    <3> QED BY <3>2, <3>3
  <2>2. chunk \in Chunk
    BY <1>1 DEF Chunk
  <2>3. <<chunk>> \in Seq(Chunk) /\ <<chunk>> # << >> /\ Len(<<chunk>>) = 1 /\ (<<chunk>>)[1] = chunk
    BY <2>2
  <2>4. Listen(d, to, speech) = [detector |-> next, chunks |-> <<chunk>>, uttering |-> FALSE]
    BY <1>3 DEF Listen, Result
  <2>5. Leads(d.from, <<chunk>>, to + 1)
    BY <2>3, <1>1 DEF Leads
  <2> HIDE DEF next, chunk, to, k
  <2>6. Framed(Listen(d, to, speech), d.from, to)
    BY <2>1, <2>3, <2>4, <2>5, <1>1 DEF Framed
  <2> QED BY <2>6 DEF to
<1> QED BY <1>2, <1>3

LEMMA UtterFrames ==
    ASSUME NEW d \in Detector, NEW n \in Nat, NEW speech \in BOOLEAN, d.from <= n + 1,
           d.inSpeech
    PROVE  Framed(Utter(d, n + FrameUnits, speech), d.from, n + FrameUnits)
<1> DEFINE to == n + FrameUnits
           size == ChunkSize(d)
           cut == Cut(d.from, to, size)
           next == [Tailed(d, to, size) EXCEPT
                       !.inSpeechFrames = @ + 1,
                       !.silence = IF speech THEN 0 ELSE @ + 1]
           rest == d.from + Whole(d.from, to, size) * size
           commit == Commit(next, to)
<1>1. to \in Nat /\ d.from \in Nat \ {0} /\ d.from <= to /\ size \in Nat \ {0}
  BY SizesAssumption DEF Detector, ChunkSize
<1>2. /\ Whole(d.from, to, size) \in Nat /\ rest \in Nat \ {0} /\ rest <= to
      /\ cut \in Seq(Chunk) /\ Leads(d.from, cut, rest)
  <2> HIDE DEF size, to
  <2> QED BY <1>1, CutLeads
<1> HIDE DEF size, cut, rest, to
<1>3. /\ next.from = rest /\ next.inSpeech
      /\ next \in [inSpeech : BOOLEAN, speech : 0..(StartFrames - 1),
                   inSpeechFrames : Nat, silence : Nat, from : Nat \ {0}]
  <2> DEFINE cutOff == Tailed(d, to, size)
  <2>1. cutOff = [d EXCEPT !.from = rest]
    BY DEF Tailed, rest
  <2>2. cutOff \in Detector /\ cutOff.from = rest /\ cutOff.inSpeech = d.inSpeech
    <3> HIDE DEF cutOff
    <3> QED BY <1>2, <2>1 DEF Detector
  <2>3. next = [cutOff EXCEPT !.inSpeechFrames = cutOff.inSpeechFrames + 1,
                              !.silence = IF speech THEN 0 ELSE cutOff.silence + 1]
    OBVIOUS
  <2>4. cutOff.inSpeechFrames + 1 \in Nat /\ (IF speech THEN 0 ELSE cutOff.silence + 1) \in Nat
    <3> HIDE DEF cutOff
    <3> QED BY <2>2, DetectorOf
  <2> HIDE DEF cutOff, next
  <2>5. next.from = cutOff.from /\ next.inSpeech = cutOff.inSpeech
    BY <2>2, <2>3 DEF Detector
  <2>6. next \in [inSpeech : BOOLEAN, speech : 0..(StartFrames - 1),
                  inSpeechFrames : Nat, silence : Nat, from : Nat \ {0}]
    <3> DEFINE f == cutOff.inSpeechFrames + 1
               q == IF speech THEN 0 ELSE cutOff.silence + 1
    <3> HIDE DEF f, q
    <3>1. f \in Nat /\ q \in Nat /\ next = [cutOff EXCEPT !.inSpeechFrames = f, !.silence = q]
      BY <2>3, <2>4 DEF f, q
    <3> QED BY <2>2, <3>1 DEF Detector
  <2> QED BY <2>2, <2>5, <2>6
<1>4. Utter(d, to, speech) =
        IF next.silence >= EndFrames THEN EndUtterance(next, to, cut)
        ELSE IF MaxUtterFrames > 0 /\ next.inSpeechFrames >= MaxUtterFrames
        THEN Result([next EXCEPT !.inSpeechFrames = 0, !.from = to + 1], Append(cut, commit), TRUE)
        ELSE Result(next, cut, TRUE)
  BY DEF Utter, size, cut
<1> HIDE DEF next
<1>5. /\ commit \in Chunk /\ commit.from = rest /\ commit.from <= commit.to + 1
      /\ commit.to = to /\ commit.commit
  BY <1>1, <1>2, <1>3 DEF Commit, Chunk
<1>6. /\ Append(cut, commit) \in Seq(Chunk) /\ Leads(d.from, Append(cut, commit), to + 1)
      /\ Append(cut, commit) # << >>
      /\ Append(cut, commit)[Len(Append(cut, commit))] = commit
  BY <1>1, <1>2, <1>5, LeadsOn, AppendProperties
<1> HIDE DEF commit
<1>7. CASE next.silence >= EndFrames
  <2>1. /\ FreshDetector(to) \in Detector /\ FreshDetector(to).inSpeech = FALSE
        /\ FreshDetector(to).from = to + 1
    BY <1>1, SizesAssumption DEF FreshDetector, Detector
  <2>2. Utter(d, to, speech) =
          [detector |-> FreshDetector(to), chunks |-> Append(cut, commit), uttering |-> TRUE]
    BY <1>4, <1>7 DEF EndUtterance, Result, commit
  <2>3. Framed(Utter(d, to, speech), d.from, to)
    BY <1>1, <1>5, <1>6, <2>1, <2>2 DEF Framed
  <2> QED BY <2>3 DEF to
<1>8. CASE /\ ~(next.silence >= EndFrames)
           /\ MaxUtterFrames > 0 /\ next.inSpeechFrames >= MaxUtterFrames
  <2> DEFINE after == [next EXCEPT !.inSpeechFrames = 0, !.from = to + 1]
  <2>1. after \in Detector /\ after.from = to + 1 /\ after.inSpeech
    <3>1. next \in Detector
      BY <1>3, <1>8, SizesAssumption DEF Detector
    <3>2. to + 1 \in Nat \ {0}
      BY <1>1
    <3>3. after \in Detector /\ after.from = to + 1 /\ after.inSpeech = next.inSpeech
      BY <3>1, <3>2 DEF Detector
    <3> HIDE DEF after
    <3> QED BY <3>3, <1>3
  <2>2. Utter(d, to, speech) =
          [detector |-> after, chunks |-> Append(cut, commit), uttering |-> TRUE]
    BY <1>4, <1>8 DEF Result
  <2> HIDE DEF after
  <2>3. Framed(Utter(d, to, speech), d.from, to)
    BY <1>1, <1>6, <2>1, <2>2 DEF Framed
  <2> QED BY <2>3 DEF to
<1>9. CASE /\ ~(next.silence >= EndFrames)
           /\ ~(MaxUtterFrames > 0 /\ next.inSpeechFrames >= MaxUtterFrames)
  <2>1. next \in Detector
    BY <1>3, <1>9, SizesAssumption DEF Detector
  <2>2. Utter(d, to, speech) = [detector |-> next, chunks |-> cut, uttering |-> TRUE]
    BY <1>4, <1>9 DEF Result
  <2>3. Framed(Utter(d, to, speech), d.from, to)
    BY <1>1, <1>2, <1>3, <2>1, <2>2 DEF Framed
  <2> QED BY <2>3 DEF to
<1> QED BY <1>7, <1>8, <1>9

-----------------------------------------------------------------------------
(* The invariant.                                                          *)

Link == [commits : Nat, answered : Nat, drained : Nat, answers : Seq(Nat)]

\* The detector's buffer ends with the audio heard, and is empty outside an
\* utterance.
Buffered ==
    /\ detector.from <= heard + 1
    /\ ~detector.inSpeech => detector.from = heard + 1

\* Audio is held only while an answer is awaited, and there are chunks at hand
\* only while frames are processed.
HoldInOrder ==
    /\ ~awaiting => held = << >>
    /\ at = "committed" => ~awaiting
    /\ at \in {"top", "draining", "reading", "bottom", "flushing"} => out = << >>

\* Commits are answered, and answers drained, one after the other; the answer
\* that is awaited, or is about to be, was not drained yet.
LinkInOrder ==
    /\ link.drained <= link.answered /\ link.answered <= link.commits
    /\ \A i \in 1..Len(link.answers) : link.answers[i] <= link.answered
    /\ awaiting \/ at = "committed" => link.drained < link.commits

Inv == TypeOK /\ AudioInOrder /\ Buffered /\ HoldInOrder /\ LinkInOrder

\* What Process does to the detector.
LEMMA ProcessFrames ==
    ASSUME TypeOK, Buffered, NEW speech \in BOOLEAN, Process(speech)
    PROVE  LET r == IF detector.inSpeech THEN Utter(detector, heard', speech)
                    ELSE Listen(detector, heard', speech)
           IN  /\ Framed(r, detector.from, heard')
               /\ detector' = r.detector /\ out' = r.chunks
               /\ uttered' = IF r.uttering THEN heard' ELSE uttered
               /\ heard' = heard + FrameUnits /\ heard' \in Nat
<1>1. heard' = heard + FrameUnits /\ heard \in Nat /\ detector \in Detector
  BY DEF Process, TypeOK
<1>2. heard' \in Nat
  BY <1>1, SizesAssumption
<1>3. detector.from <= heard + 1 /\ (~detector.inSpeech => detector.from = heard + 1)
  BY DEF Buffered
<1>4. CASE detector.inSpeech
  <2>1. Framed(Utter(detector, heard + FrameUnits, speech), detector.from, heard + FrameUnits)
    BY <1>1, <1>3, <1>4, UtterFrames
  <2> QED BY <2>1, <1>1, <1>2, <1>4 DEF Process
<1>5. CASE ~detector.inSpeech
  <2>1. Framed(Listen(detector, heard + FrameUnits, speech), detector.from, heard + FrameUnits)
    BY <1>1, <1>3, <1>5, ListenFrames
  <2> QED BY <2>1, <1>1, <1>2, <1>5 DEF Process
<1> QED BY <1>4, <1>5

\* What draining does to the stream.
LEMMA DrainedLink ==
    ASSUME TypeOK, LinkInOrder
    PROVE  /\ Drained(link) \in Link
           /\ Drained(link).commits = link.commits /\ Drained(link).answered = link.answered
           /\ Drained(link).answers = << >>
           /\ Drained(link).drained <= link.answered
           /\ link.answers = << >> => Drained(link).drained = link.drained
<1>1. link \in Link /\ link.answers \in Seq(Nat)
  BY DEF TypeOK, Link
<1> DEFINE last == IF link.answers = << >> THEN link.drained ELSE link.answers[Len(link.answers)]
<1>2. last \in Nat /\ last <= link.answered
  <2>1. CASE link.answers = << >>
    BY <1>1, <2>1 DEF LinkInOrder, Link
  <2>2. CASE link.answers # << >>
    <3>1. Len(link.answers) \in 1..Len(link.answers)
      BY <1>1, <2>2, EmptySeq
    <3> QED BY <1>1, <2>2, <3>1, ElementOfSeq DEF LinkInOrder
  <2> QED BY <2>1, <2>2
<1>3. Drained(link) = [link EXCEPT !.answers = << >>, !.drained = last]
  BY DEF Drained
<1>4. link.answers = << >> => last = link.drained
  OBVIOUS
<1> HIDE DEF last
<1> DEFINE none == << >>
<1>5. none \in Seq(Nat) /\ none = << >>
  OBVIOUS
<1> HIDE DEF none
<1>6. Drained(link) = [link EXCEPT !.answers = none, !.drained = last]
  BY <1>3, <1>5
<1>7. Drained(link) \in Link /\ Drained(link).answers = none /\ Drained(link).drained = last
  BY <1>1, <1>2, <1>5, <1>6 DEF Link
<1>8. Drained(link).commits = link.commits /\ Drained(link).answered = link.answered
  BY <1>1, <1>6 DEF Link
<1> QED BY <1>2, <1>4, <1>5, <1>7, <1>8

\* The type invariant is kept; for the detector it needs the state of its buffer.
LEMMA TypesStep ==
    ASSUME Inv, [Next]_vars
    PROVE  TypeOK'
<1> USE DEF Inv
<1>0. link \in Link /\ Drained(link) \in Link
  BY DrainedLink DEF TypeOK, Link
<1>a. SentWithHeld \in Nat /\ << >> \in Seq(Chunk)
  <2>1. CASE held = << >>
    BY <2>1 DEF SentWithHeld, TypeOK
  <2>2. CASE held # << >>
    <3>1. Len(held) \in 1..Len(held)
      BY <2>2, EmptySeq DEF TypeOK
    <3>2. held[Len(held)].to \in Nat
      BY <3>1, ChunksOf DEF TypeOK
    <3> QED BY <2>2, <3>2 DEF SentWithHeld
  <2> QED BY <2>1, <2>2
<1>1. CASE Begin
  BY <1>1 DEF Begin, TypeOK, Place, mic, hold, settings
<1>2. ASSUME NEW here, NEW next \in Place, Consider(here, next) PROVE TypeOK'
  <2>1. sent' \in Nat /\ held' \in Seq(Chunk)
    <3>1. CASE awaiting /\ (link.answers # << >> \/ late)
      BY <1>2, <3>1, <1>a DEF Consider, EndHold
    <3>2. CASE ~(awaiting /\ (link.answers # << >> \/ late))
      BY <1>2, <3>2 DEF Consider, TypeOK, hold
    <3> QED BY <3>1, <3>2
  <2>2. awaiting' \in BOOLEAN /\ late' \in BOOLEAN
    BY <1>2 DEF Consider, EndHold, TypeOK, hold
  <2> QED BY <1>0, <1>2, <2>1, <2>2 DEF Consider, TypeOK, mic, settings, Link
<1>3. CASE DrainBefore
  BY <1>2, <1>3 DEF DrainBefore, Place
<1>4. ASSUME NEW n \in 0..MaxRead, NEW last \in BOOLEAN, Read(n, last) PROVE TypeOK'
  BY <1>4 DEF Read, TypeOK, Place, hold, settings
<1>5. ASSUME NEW speech \in BOOLEAN, Process(speech) PROVE TypeOK'
  <2>1. detector' \in Detector /\ out' \in Seq(Chunk) /\ heard' \in Nat /\ uttered' \in Nat
    BY <1>5, ProcessFrames DEF Framed, TypeOK
  <2>2. unread' \in 0..MaxRead
    BY <1>5, BoundsAssumption DEF Process, TypeOK
  <2> QED BY <1>5, <2>1, <2>2 DEF Process, TypeOK, hold, settings
<1>6. ASSUME out # << >>
      PROVE  /\ Head(out) \in Chunk /\ Tail(out) \in Seq(Chunk)
             /\ Head(out) = out[1] /\ out[1].to \in Nat
  <2>1. 1 \in 1..Len(out)
    BY <1>6, EmptySeq DEF TypeOK
  <2> QED BY <1>6, <2>1, HeadTailProperties, ChunksOf DEF TypeOK
<1>7. CASE Stream
  BY <1>0, <1>6, <1>7 DEF Stream, TypeOK, mic, hold, settings, Link
<1>8. CASE Defer
  <2>1. Append(held, Head(out)) \in Seq(Chunk)
    BY <1>6, <1>8, AppendProperties DEF Defer, TypeOK
  <2> QED BY <1>6, <1>8, <2>1 DEF Defer, TypeOK, mic, settings
<1>9. CASE SendCommit
  <2>1. link' \in Link
    <3> DEFINE l == IF sent' = sent THEN link ELSE Drained(link)
    <3>1. l \in Link /\ link' = [l EXCEPT !.commits = l.commits + 1]
      BY <1>0, <1>9 DEF SendCommit
    <3> HIDE DEF l
    <3> QED BY <3>1 DEF Link
  <2>2. out' \in Seq(Chunk) /\ sent' \in Nat /\ closed' \in Nat
    BY <1>6, <1>9 DEF SendCommit
  <2>3. held' \in Seq(Chunk) /\ awaiting' \in BOOLEAN /\ late' \in BOOLEAN
    BY <1>a, <1>9 DEF SendCommit, EndHold
  <2> QED BY <1>9, <2>1, <2>2, <2>3 DEF SendCommit, TypeOK, Place, mic, settings, Link
<1>10. CASE Await
  BY <1>0, <1>10 DEF Await, TypeOK, Place, mic, settings, Link
<1>11. CASE Processed
  BY <1>11 DEF Processed, TypeOK, Place, mic, hold, settings
<1>12. CASE DrainAfter
  BY <1>2, <1>12 DEF DrainAfter, Place
<1>13. CASE Flush
  <2>1. detector' \in Detector
    <3>1. heard + 1 \in Nat \ {0}
      BY DEF TypeOK
    <3> QED BY <1>13, <3>1 DEF Flush, TypeOK, Detector
  <2>2. sent' \in Nat
    BY <1>13, <1>a DEF Flush, TypeOK
  <2>3. link' \in Link
    <3>1. Len(Flushed) \in Nat
      BY DEF Flushed
    <3> DEFINE l == Drained(link)
    <3>2. l \in Link /\ link' = [l EXCEPT !.commits = l.commits + Len(Flushed)]
      BY <1>0, <1>13 DEF Flush
    <3> HIDE DEF l
    <3> QED BY <3>1, <3>2 DEF Link
  <2>4. closed' \in Nat
    BY <1>13 DEF Flush, TypeOK
  <2>5. held' \in Seq(Chunk) /\ awaiting' \in BOOLEAN /\ late' \in BOOLEAN
    BY <1>a, <1>13 DEF Flush, EndHold
  <2> QED BY <1>13, <2>1, <2>2, <2>3, <2>4, <2>5 DEF Flush, TypeOK, Place, settings, Link
<1>14. CASE Break
  BY <1>14 DEF Break, TypeOK, Place, mic, hold, settings
<1>15. ASSUME NEW blank \in BOOLEAN, Answer(blank) PROVE TypeOK'
  <2> DEFINE more == IF blank THEN link.answers ELSE Append(link.answers, link.answered + 1)
  <2>1. more \in Seq(Nat) /\ link.answered + 1 \in Nat
    BY <1>0, AppendProperties DEF Link
  <2>2. link' = [link EXCEPT !.answered = link.answered + 1, !.answers = more]
    BY <1>15 DEF Answer
  <2> HIDE DEF more
  <2>3. link' \in Link
    BY <1>0, <2>1, <2>2 DEF Link
  <2> QED BY <1>15, <2>3 DEF Answer, TypeOK, mic, hold, settings, Link
<1>16. CASE DeadlinePasses
  BY <1>16 DEF DeadlinePasses, TypeOK, mic, settings
<1>17. CASE Reconnect
  <2>1. Units(held) \subseteq Nat
    <3>1. \A i \in 1..Len(held) : held[i].from \in Nat /\ held[i].to \in Nat
      BY ChunksOf DEF TypeOK
    <3> QED BY <3>1 DEF Units
  <2>2. FreshLink \in Link
    BY DEF FreshLink, Link
  <2>3. changes' \in 0..MaxChanges /\ dropped' \subseteq Nat
    <3>1. changes \in 0..MaxChanges /\ dropped \subseteq Nat
      BY DEF TypeOK
    <3>2. changes < MaxChanges /\ changes' = changes + 1 /\ dropped' = dropped \union Units(held)
      BY <1>17 DEF Reconnect
    <3>3. changes' \in 0..MaxChanges
      BY <3>1, <3>2, BoundsAssumption
    <3>4. dropped' \subseteq Nat
      BY <2>1, <3>1, <3>2
    <3> QED BY <3>3, <3>4
  <2>4. held' \in Seq(Chunk) /\ awaiting' \in BOOLEAN /\ late' \in BOOLEAN
    BY <1>a, <1>17 DEF Reconnect
  <2>5. link' \in Link
    BY <1>17, <2>2 DEF Reconnect
  <2> QED BY <1>17, <2>3, <2>4, <2>5 DEF Reconnect, TypeOK, mic, Link
<1>18. CASE Retune
  <2>1. detector.from .. heard \subseteq Nat /\ heard \in Nat
    BY DEF TypeOK, Detector
  <2>2. FreshDetector(heard) \in Detector
    BY <2>1, SizesAssumption DEF FreshDetector, Detector
  <2>3. changes' \in 0..MaxChanges /\ dropped' \subseteq Nat
    <3>1. changes \in 0..MaxChanges /\ dropped \subseteq Nat
      BY DEF TypeOK
    <3>2. /\ changes < MaxChanges /\ changes' = changes + 1
          /\ dropped' = dropped \union (detector.from .. heard)
      BY <1>18 DEF Retune
    <3>3. changes' \in 0..MaxChanges
      BY <3>1, <3>2, BoundsAssumption
    <3>4. dropped' \subseteq Nat
      BY <2>1, <3>1, <3>2
    <3> QED BY <3>3, <3>4
  <2>4. detector' \in Detector
    BY <1>18, <2>2 DEF Retune
  <2> QED BY <1>18, <2>3, <2>4 DEF Retune, TypeOK, hold
<1>19. CASE Done \/ UNCHANGED vars
  BY <1>19 DEF Done, TypeOK, vars
<1> QED
  BY <1>1, <1>3, <1>4, <1>5, <1>7, <1>8, <1>9, <1>10, <1>11, <1>12, <1>13, <1>14, <1>15, <1>16,
     <1>17, <1>18, <1>19 DEF Next, Steady, Loop

\* Every step keeps the state of the detector's buffer.
LEMMA BufferedStep ==
    ASSUME Inv, [Next]_vars
    PROVE  Buffered'
<1> USE DEF Inv
<1>1. CASE UNCHANGED <<heard, detector>>
  BY <1>1 DEF Buffered
<1>2. ASSUME NEW speech \in BOOLEAN, Process(speech) PROVE Buffered'
  BY <1>2, ProcessFrames DEF Framed, Buffered
<1>3. CASE Flush
  <2>1. detector' = [detector EXCEPT !.inSpeech = FALSE, !.from = heard + 1] /\ heard' = heard
    BY <1>3 DEF Flush
  <2>2. detector'.from = heard + 1 /\ heard \in Nat
    BY <2>1 DEF TypeOK, Detector
  <2> QED BY <2>1, <2>2 DEF Buffered
<1>4. CASE Retune
  <2>1. detector'.from = heard + 1 /\ heard' = heard /\ heard \in Nat
    BY <1>4 DEF Retune, FreshDetector, TypeOK
  <2> QED BY <2>1 DEF Buffered
<1>5. CASE DrainBefore \/ DrainAfter
  BY <1>1, <1>5 DEF DrainBefore, DrainAfter, Consider, mic
<1>6. CASE Stream \/ Defer \/ SendCommit \/ Await
  BY <1>1, <1>6 DEF Stream, Defer, SendCommit, Await, mic
<1>7. ASSUME \/ Begin \/ Processed \/ Break \/ DeadlinePasses \/ Reconnect
             \/ \E n \in 0..MaxRead, last \in BOOLEAN : Read(n, last)
             \/ \E blank \in BOOLEAN : Answer(blank)
      PROVE  Buffered'
  BY <1>1, <1>7 DEF Begin, Processed, Break, DeadlinePasses, Reconnect, Read, Answer, mic
<1>8. CASE Done \/ UNCHANGED vars
  BY <1>1, <1>8 DEF Done, vars
<1> QED BY <1>2, <1>3, <1>4, <1>5, <1>6, <1>7, <1>8 DEF Next, Steady, Loop

\* Every step keeps what is said of the hold.
LEMMA HoldStep ==
    ASSUME Inv, [Next]_vars
    PROVE  HoldInOrder'
<1> USE DEF Inv
<1>1. CASE UNCHANGED <<at, out, held, awaiting>>
  BY <1>1 DEF HoldInOrder
<1>2. ASSUME NEW here \in {"draining", "bottom"}, NEW next \in {"top", "reading", "flushing"},
             Consider(here, next)
      PROVE  HoldInOrder'
  BY <1>2 DEF Consider, EndHold, HoldInOrder, hold
<1>3. CASE DrainBefore \/ DrainAfter
  BY <1>2, <1>3 DEF DrainBefore, DrainAfter
<1>4. CASE Begin
  BY <1>4 DEF Begin, HoldInOrder, hold
<1>5. ASSUME NEW n \in 0..MaxRead, NEW last \in BOOLEAN, Read(n, last) PROVE HoldInOrder'
  BY <1>5 DEF Read, HoldInOrder, hold
<1>6. ASSUME NEW speech \in BOOLEAN, Process(speech) PROVE HoldInOrder'
  BY <1>6 DEF Process, HoldInOrder, hold
<1>7. CASE Stream
  BY <1>7 DEF Stream, HoldInOrder, hold
<1>8. CASE Defer
  BY <1>8 DEF Defer, HoldInOrder
<1>9. CASE SendCommit
  BY <1>9 DEF SendCommit, EndHold, HoldInOrder
<1>10. CASE Await
  BY <1>10 DEF Await, HoldInOrder
<1>11. CASE Processed
  BY <1>11 DEF Processed, HoldInOrder, hold
<1>12. CASE Flush
  BY <1>12 DEF Flush, EndHold, HoldInOrder
<1>13. CASE Break
  BY <1>13 DEF Break, HoldInOrder, hold
<1>14. ASSUME NEW blank \in BOOLEAN, Answer(blank) PROVE HoldInOrder'
  BY <1>1, <1>14 DEF Answer, hold
<1>15. CASE DeadlinePasses
  BY <1>1, <1>15 DEF DeadlinePasses
<1>16. CASE Reconnect
  BY <1>16 DEF Reconnect, HoldInOrder
<1>17. CASE Retune
  BY <1>1, <1>17 DEF Retune, hold
<1>18. CASE Done \/ UNCHANGED vars
  BY <1>1, <1>18 DEF Done, vars
<1> QED
  BY <1>3, <1>4, <1>5, <1>6, <1>7, <1>8, <1>9, <1>10, <1>11, <1>12, <1>13, <1>14, <1>15, <1>16,
     <1>17, <1>18 DEF Next, Steady, Loop

\* Every step keeps what is said of commits and answers.
LEMMA LinkStep ==
    ASSUME Inv, [Next]_vars
    PROVE  LinkInOrder'
<1> USE DEF Inv
<1>1. CASE UNCHANGED <<at, link, awaiting>>
  BY <1>1 DEF LinkInOrder
<1>2. CASE UNCHANGED <<link, awaiting>> /\ at' # "committed"
  BY <1>2 DEF LinkInOrder
<1>3. /\ link.commits \in Nat /\ link.answered \in Nat /\ link.drained \in Nat
      /\ link.answers \in Seq(Nat) /\ link \in Link
  BY DEF TypeOK, Link
<1> DEFINE l == Drained(link)
<1>4. /\ l \in Link /\ l.commits = link.commits /\ l.answered = link.answered
      /\ l.answers = << >> /\ l.drained <= link.answered
      /\ link.answers = << >> => l.drained = link.drained
  BY DrainedLink
<1> HIDE DEF l
<1>5. ASSUME link' = l, at' # "committed",
             awaiting' => link.answers = << >> /\ (awaiting \/ at = "committed")
      PROVE  LinkInOrder'
  BY <1>3, <1>4, <1>5 DEF LinkInOrder
<1>6. ASSUME NEW here, NEW next \in {"top", "reading", "flushing"}, Consider(here, next)
      PROVE  LinkInOrder'
  <2>1. link' = l /\ at' # "committed"
    BY <1>6 DEF Consider, l
  <2>2. awaiting' => link.answers = << >> /\ awaiting
    BY <1>6 DEF Consider, EndHold, hold
  <2> QED BY <2>1, <2>2, <1>5
<1>7. CASE DrainBefore \/ DrainAfter
  BY <1>6, <1>7 DEF DrainBefore, DrainAfter
<1>8. CASE Stream
  <2>1. link' = l /\ at' # "committed" /\ ~awaiting'
    BY <1>8 DEF Stream, l, hold
  <2> QED BY <2>1, <1>5
<1>9. CASE Await
  <2>1. link' = l /\ at' # "committed" /\ (awaiting' => link.answers = << >> /\ at = "committed")
    BY <1>9 DEF Await, l
  <2> QED BY <2>1, <1>5
<1>10. ASSUME NEW k \in Link, k.answered = link.answered, k.commits = link.commits,
              k.drained <= k.answered,
              \A i \in 1..Len(k.answers) : k.answers[i] <= k.answered,
              NEW more \in Nat, link' = [k EXCEPT !.commits = k.commits + more],
              awaiting' \/ at' = "committed" => more > 0
       PROVE  LinkInOrder'
  <2>1. /\ link'.commits = k.commits + more /\ link'.answered = k.answered
        /\ link'.drained = k.drained /\ link'.answers = k.answers
    BY <1>10 DEF Link
  <2>2. k.drained \in Nat /\ k.answered <= k.commits
    BY <1>10 DEF LinkInOrder, Link
  <2> QED BY <1>3, <1>10, <2>1, <2>2 DEF LinkInOrder
<1>11. CASE SendCommit
  <2> DEFINE k == IF sent' = sent THEN link ELSE l
  <2>1. link' = [k EXCEPT !.commits = k.commits + 1]
    BY <1>11 DEF SendCommit, l
  <2>2. /\ k \in Link /\ k.answered = link.answered /\ k.commits = link.commits
        /\ k.drained <= k.answered
        /\ \A i \in 1..Len(k.answers) : k.answers[i] <= k.answered
    BY <1>3, <1>4 DEF LinkInOrder
  <2> HIDE DEF k
  <2> QED BY <2>1, <2>2, <1>10
<1>12. CASE Flush
  <2>1. link' = [l EXCEPT !.commits = l.commits + Len(Flushed)]
    BY <1>12 DEF Flush, l
  <2>2. Len(Flushed) \in Nat /\ ~awaiting' /\ at' # "committed"
    BY <1>12 DEF Flush, EndHold, Flushed
  <2>3. \A i \in 1..Len(l.answers) : l.answers[i] <= l.answered
    BY <1>4
  <2> QED BY <1>4, <2>1, <2>2, <2>3, <1>10
<1>13. ASSUME NEW blank \in BOOLEAN, Answer(blank) PROVE LinkInOrder'
  <2> DEFINE more == IF blank THEN link.answers ELSE Append(link.answers, link.answered + 1)
  <2>1. link' = [link EXCEPT !.answered = link.answered + 1, !.answers = more]
    BY <1>13 DEF Answer
  <2>2. \A i \in 1..Len(more) : more[i] <= link.answered + 1
    <3>1. CASE blank
      BY <3>1, <1>3, ElementOfSeq DEF LinkInOrder
    <3>2. CASE ~blank
      <4>1. /\ Len(more) = Len(link.answers) + 1
            /\ \A i \in 1..Len(link.answers) : more[i] = link.answers[i] /\ more[i] \in Nat
            /\ more[Len(link.answers) + 1] = link.answered + 1
        BY <3>2, <1>3, AppendProperties, ElementOfSeq
      <4>2. Len(link.answers) \in Nat
        BY <1>3
      <4>3. ASSUME NEW i \in 1..Len(more) PROVE more[i] <= link.answered + 1
        <5> HIDE DEF more
        <5>1. i \in 1..Len(link.answers) \/ i = Len(link.answers) + 1
          BY <4>1, <4>2
        <5> QED BY <5>1, <4>1, <1>3, SMTT(30) DEF LinkInOrder
      <4> QED BY <4>3
    <3> QED BY <3>1, <3>2
  <2> HIDE DEF more
  <2>3. /\ link'.commits = link.commits /\ link'.answered = link.answered + 1
        /\ link'.drained = link.drained /\ link'.answers = more
    BY <1>3, <2>1 DEF Link
  <2>4. link.answered < link.commits /\ at' = at /\ awaiting' = awaiting
    BY <1>13 DEF Answer, hold
  <2> QED BY <1>3, <2>2, <2>3, <2>4 DEF LinkInOrder
<1>14. CASE Reconnect
  <2>1. link' = FreshLink /\ ~awaiting' /\ at' = "top"
    BY <1>14 DEF Reconnect
  <2> QED BY <2>1 DEF FreshLink, LinkInOrder
<1>15. CASE Begin
  BY <1>2, <1>15 DEF Begin, hold
<1>16. ASSUME NEW n \in 0..MaxRead, NEW last \in BOOLEAN, Read(n, last) PROVE LinkInOrder'
  BY <1>2, <1>16 DEF Read, hold
<1>17. ASSUME \E speech \in BOOLEAN : Process(speech) PROVE LinkInOrder'
  BY <1>1, <1>17 DEF Process, hold
<1>18. CASE Defer \/ DeadlinePasses \/ Retune
  BY <1>1, <1>18 DEF Defer, DeadlinePasses, Retune, hold
<1>19. CASE Processed \/ Break
  BY <1>2, <1>19 DEF Processed, Break, hold
<1>20. CASE Done \/ UNCHANGED vars
  BY <1>1, <1>20 DEF Done, vars
<1> QED
  BY <1>7, <1>8, <1>9, <1>11, <1>12, <1>13, <1>14, <1>15, <1>16, <1>17, <1>18, <1>19, <1>20
  DEF Next, Steady, Loop

\* A chunk moved from the front of one sequence to the end of another.
LEMMA MovedChunk ==
    ASSUME NEW s \in Seq(Chunk), NEW t \in Seq(Chunk), t # << >>
    PROVE  Append(s, Head(t)) \o Tail(t) = s \o t
<1> DEFINE left == Append(s, Head(t)) \o Tail(t)
           right == s \o t
<1>1. /\ Len(t) \in Nat \ {0} /\ Head(t) = t[1] /\ Head(t) \in Chunk
      /\ Tail(t) \in Seq(Chunk) /\ Len(Tail(t)) = Len(t) - 1
      /\ \A i \in 1..Len(Tail(t)) : Tail(t)[i] = t[i + 1]
  BY HeadTailProperties, EmptySeq
<1>2. /\ Append(s, Head(t)) \in Seq(Chunk) /\ Len(Append(s, Head(t))) = Len(s) + 1
      /\ \A i \in 1..Len(s) : Append(s, Head(t))[i] = s[i]
      /\ Append(s, Head(t))[Len(s) + 1] = t[1] /\ Len(s) \in Nat
  BY <1>1, AppendProperties, LenProperties
<1>3. /\ left \in Seq(Chunk) /\ Len(left) = Len(s) + Len(t)
      /\ \A i \in 1..(Len(s) + Len(t)) :
            left[i] = IF i <= Len(s) + 1 THEN Append(s, Head(t))[i] ELSE Tail(t)[i - (Len(s) + 1)]
  <2>1. /\ left \in Seq(Chunk)
        /\ Len(left) = Len(Append(s, Head(t))) + Len(Tail(t))
        /\ \A i \in 1..(Len(Append(s, Head(t))) + Len(Tail(t))) :
              left[i] = IF i <= Len(Append(s, Head(t))) THEN Append(s, Head(t))[i]
                        ELSE Tail(t)[i - Len(Append(s, Head(t)))]
    BY <1>1, <1>2, ConcatProperties
  <2>2. Len(Append(s, Head(t))) + Len(Tail(t)) = Len(s) + Len(t)
    BY <1>1, <1>2
  <2> QED BY <2>1, <2>2, <1>2
<1>4. /\ right \in Seq(Chunk) /\ Len(right) = Len(s) + Len(t)
      /\ \A i \in 1..(Len(s) + Len(t)) : right[i] = IF i <= Len(s) THEN s[i] ELSE t[i - Len(s)]
  BY ConcatProperties
<1> HIDE DEF left, right
<1>5. ASSUME NEW i \in 1..(Len(s) + Len(t)) PROVE left[i] = right[i]
  <2>1. CASE i <= Len(s)
    BY <2>1, <1>1, <1>2, <1>3, <1>4
  <2>2. CASE i = Len(s) + 1
    <3>1. i - Len(s) = 1 /\ ~(i <= Len(s)) /\ i <= Len(s) + 1
      BY <2>2, <1>2
    <3>2. left[i] = t[1]
      BY <3>1, <2>2, <1>2, <1>3
    <3>3. right[i] = t[1]
      BY <3>1, <1>4
    <3> QED BY <3>2, <3>3
  <2>3. CASE i > Len(s) + 1
    <3>1. /\ i - (Len(s) + 1) \in 1..Len(Tail(t)) /\ (i - (Len(s) + 1)) + 1 = i - Len(s)
          /\ ~(i <= Len(s)) /\ ~(i <= Len(s) + 1)
      BY <2>3, <1>1, <1>2
    <3>2. left[i] = t[i - Len(s)]
      BY <3>1, <1>1, <1>3
    <3>3. right[i] = t[i - Len(s)]
      BY <3>1, <1>4
    <3> QED BY <3>2, <3>3
  <2> QED BY <2>1, <2>2, <2>3, <1>1, <1>2
<1>6. left = right
  BY <1>3, <1>4, <1>5, SeqEqual
<1> QED BY <1>6 DEF left, right

\* When the end of a row is thrown away, the row reaches further.
LEMMA RowStretch ==
    ASSUME NEW a \in Nat, NEW b \in Nat, NEW c \in Nat, NEW gaps,
           NEW s \in Seq(Chunk), Row(a, s, b, gaps), b <= c + 1
    PROVE  Row(a, s, c + 1, gaps \union (b..c))
<1> DEFINE more == gaps \union (b..c)
<1>1. ASSUME NEW x \in Nat, Follows(x, b, gaps) PROVE Follows(x, c + 1, more)
  BY <1>1 DEF Follows
<1>2. Row(a, s, b, more)
  BY RowGaps
<1>3. s = << >> => Follows(a, c + 1, more)
  BY <1>1 DEF Row
<1>4. ASSUME s # << >> PROVE Follows(s[Len(s)].to, c + 1, more)
  <2>1. Len(s) \in 1..Len(s)
    BY <1>4, EmptySeq
  <2>2. s[Len(s)].to \in Nat
    BY <2>1, ChunksOf
  <2> QED BY <1>1, <1>4, <2>2 DEF Row
<1> HIDE DEF more
<1>5. Row(a, s, c + 1, more)
  BY <1>2, <1>3, <1>4 DEF Row
<1> QED BY <1>5 DEF more

\* Every step keeps the audio in order.
LEMMA OrderStep ==
    ASSUME Inv, [Next]_vars, Buffered'
    PROVE  AudioInOrder'
<1> USE DEF Inv
<1>1. /\ sent \in Nat /\ heard \in Nat /\ detector.from \in Nat
      /\ held \in Seq(Chunk) /\ out \in Seq(Chunk)
  BY DetectorOf DEF TypeOK
<1>2. Row(sent, held \o out, detector.from, dropped)
  BY DEF AudioInOrder
<1>3. CASE UNCHANGED <<sent, held, out, detector, heard, dropped>>
  BY <1>3 DEF AudioInOrder
<1>4. ASSUME Row(sent, held \o out, detector.from, dropped)' PROVE AudioInOrder'
  BY <1>4 DEF AudioInOrder, Buffered
<1>5. Row(SentWithHeld, out, detector.from, dropped)
  BY <1>1, <1>2, RowDrop DEF SentWithHeld
<1>6. ASSUME EndHold, sent' = SentWithHeld, UNCHANGED <<out, detector, dropped>>
      PROVE  AudioInOrder'
  <2>1. held' \o out' = out
    BY <1>1, <1>6, ConcatEmptySeq DEF EndHold
  <2> QED BY <2>1, <1>4, <1>5, <1>6
<1>7. ASSUME NEW here, NEW next, Consider(here, next) PROVE AudioInOrder'
  BY <1>3, <1>6, <1>7 DEF Consider, hold, mic, settings
<1>8. CASE DrainBefore \/ DrainAfter
  BY <1>7, <1>8 DEF DrainBefore, DrainAfter
<1>9. ASSUME NEW speech \in BOOLEAN, Process(speech) PROVE AudioInOrder'
  <2>1. out = << >> /\ UNCHANGED <<sent, held, dropped>>
    BY <1>9 DEF Process, hold, settings
  <2>2. Row(sent, held, detector.from, dropped)
    BY <2>1, <1>1, <1>2, ConcatEmptySeq
  <2>3. out' \in Seq(Chunk) /\ Leads(detector.from, out', detector'.from) /\ detector'.from \in Nat
    <3>1. out' \in Seq(Chunk) /\ Leads(detector.from, out', detector'.from) /\ detector' \in Detector
      BY <1>9, ProcessFrames DEF Framed
    <3> QED BY <3>1, DetectorOf
  <2>4. Row(sent, held \o out', detector'.from, dropped)
    BY <1>1, <2>2, <2>3, RowJoin
  <2> QED BY <2>1, <2>4, <1>4
<1>10. ASSUME out # << >>
       PROVE  /\ Row(sent, held \o out, detector.from, dropped)
              /\ Row(out[1].to, Tail(out), detector.from, dropped)
              /\ Head(out) = out[1] /\ Tail(out) \in Seq(Chunk)
  <2>1. SentWithHeld \in Nat
    <3>1. CASE held = << >>
      BY <1>1, <3>1 DEF SentWithHeld
    <3>2. CASE held # << >>
      <4>1. Len(held) \in 1..Len(held)
        BY <1>1, <3>2, EmptySeq
      <4>2. held[Len(held)].to \in Nat
        BY <4>1, <1>1, ChunksOf
      <4> QED BY <3>2, <4>2 DEF SentWithHeld
    <3> QED BY <3>1, <3>2
  <2>2. Row(out[1].to, Tail(out), detector.from, dropped)
    BY <1>1, <1>5, <1>10, <2>1, RowTail
  <2> QED BY <1>1, <1>2, <1>10, <2>2, HeadTailProperties
<1>11. ASSUME out # << >>, held' = << >>, out' = Tail(out), sent' = Head(out).to,
              UNCHANGED <<detector, dropped>>
       PROVE  AudioInOrder'
  <2>1. held' \o out' = Tail(out)
    BY <1>10, <1>11, ConcatEmptySeq
  <2> QED BY <2>1, <1>4, <1>10, <1>11
<1>12. CASE Stream
  BY <1>11, <1>12 DEF Stream, HoldInOrder, hold, mic, settings
<1>13. CASE Defer
  <2>1. /\ out # << >> /\ out' = Tail(out) /\ held' = Append(held, Head(out))
        /\ UNCHANGED <<sent, detector, dropped>>
    BY <1>13 DEF Defer, mic, settings
  <2>2. held' \o out' = held \o out
    BY <2>1, <1>1, MovedChunk
  <2> QED BY <2>1, <2>2, <1>2, <1>4
<1>14. CASE SendCommit
  BY <1>11, <1>14 DEF SendCommit, EndHold, mic, settings
<1>15. CASE Flush
  <2>1. /\ out = << >> /\ out' = out /\ held' = << >> /\ dropped' = dropped /\ heard' = heard
        /\ detector' = [detector EXCEPT !.inSpeech = FALSE, !.from = heard + 1]
    BY <1>15 DEF Flush, EndHold, HoldInOrder, settings
  <2>2. detector'.from = heard + 1
    BY <2>1 DEF TypeOK, Detector
  <2>3. held' \o out' = << >>
    BY <2>1, <1>1, ConcatEmptySeq
  <2>4. Follows(sent', heard + 1, dropped)
    <3>1. CASE detector.inSpeech
      <4>1. Flushed = <<Commit(detector, heard)>>
        BY <3>1 DEF Flushed
      <4>2. sent' = heard
        BY <4>1, <1>15 DEF Flush
      <4> QED BY <4>2, <1>1, NextFollows
    <3>2. CASE ~detector.inSpeech
      <4>1. sent' = SentWithHeld /\ detector.from = heard + 1
        BY <3>2, <1>15 DEF Flush, Flushed, Buffered
      <4>2. Row(sent', << >>, heard + 1, dropped)
        BY <4>1, <2>1, <1>5
      <4> QED BY <4>2 DEF Row
    <3> QED BY <3>1, <3>2
  <2>5. Row(sent', << >>, heard + 1, dropped)
    BY <2>4, EmptySeq DEF Row
  <2> QED BY <2>1, <2>2, <2>3, <2>5, <1>4
<1>16. CASE Reconnect
  <2>1. /\ out = << >> /\ out' = out /\ held' = << >> /\ dropped' = dropped \union Units(held)
        /\ UNCHANGED <<sent, detector>>
    BY <1>16 DEF Reconnect, HoldInOrder, mic
  <2>2. held \o out = held /\ held' \o out' = << >>
    BY <2>1, <1>1, ConcatEmptySeq
  <2>3. Follows(sent, detector.from, dropped')
    BY <2>1, <2>2, <1>1, <1>2, RowDropped
  <2>4. Row(sent, << >>, detector.from, dropped')
    BY <2>3, EmptySeq DEF Row
  <2> QED BY <2>1, <2>2, <2>4, <1>4
<1>17. CASE Retune
  <2>1. /\ UNCHANGED <<sent, held, out>> /\ dropped' = dropped \union (detector.from .. heard)
        /\ detector'.from = heard + 1
    BY <1>17 DEF Retune, hold, FreshDetector
  <2>2. held \o out \in Seq(Chunk)
    BY <1>1, ConcatProperties
  <2>3. Row(sent, held \o out, heard + 1, dropped')
    BY <2>1, <2>2, <1>1, <1>2, RowStretch DEF Buffered
  <2> QED BY <2>1, <2>3, <1>4
<1>18. CASE Begin \/ Processed \/ Break
  BY <1>3, <1>18 DEF Begin, Processed, Break, mic, hold, settings
<1>19. CASE Await \/ DeadlinePasses
  BY <1>3, <1>19 DEF Await, DeadlinePasses, mic, settings
<1>20. ASSUME \/ \E n \in 0..MaxRead, last \in BOOLEAN : Read(n, last)
              \/ \E blank \in BOOLEAN : Answer(blank)
       PROVE  AudioInOrder'
  BY <1>3, <1>20 DEF Read, Answer, mic, hold, settings
<1>21. CASE Done \/ UNCHANGED vars
  BY <1>3, <1>21 DEF Done, vars
<1> QED
  BY <1>8, <1>9, <1>12, <1>13, <1>14, <1>15, <1>16, <1>17, <1>18, <1>19, <1>20, <1>21
  DEF Next, Steady, Loop

\* The invariant holds in every state.
THEOREM AlwaysInv == Spec => []Inv
<1>1. Init => Inv
  <2> SUFFICES ASSUME Init PROVE Inv
    OBVIOUS
  <2>1. << >> \in Seq(Chunk) /\ << >> \in Seq(Nat) /\ << >> \o << >> = << >> /\ Len(<< >>) = 0
    OBVIOUS
  <2>2. detector \in Detector /\ detector.from = 1
    BY SizesAssumption DEF Init, FreshDetector, Detector
  <2>3. TypeOK
    <3>1. link \in [commits : Nat, answered : Nat, drained : Nat, answers : Seq(Nat)]
      BY <2>1 DEF Init, FreshLink
    <3>2. 0 \in 0..MaxRead /\ 0 \in 0..MaxChanges
      BY BoundsAssumption
    <3> QED BY <2>1, <2>2, <3>1, <3>2 DEF Init, TypeOK, Place
  <2>4. held \o out = << >>
    BY <2>1 DEF Init
  <2>5. Row(0, << >>, 1, {})
    BY <2>1, NextFollows DEF Row
  <2>6. AudioInOrder /\ Buffered
    BY <2>2, <2>4, <2>5 DEF Init, AudioInOrder, Buffered
  <2>7. HoldInOrder /\ LinkInOrder
    BY <2>1 DEF Init, FreshLink, HoldInOrder, LinkInOrder
  <2> QED BY <2>3, <2>6, <2>7 DEF Inv
<1>2. Inv /\ [Next]_vars => Inv'
  BY TypesStep, BufferedStep, HoldStep, LinkStep, OrderStep DEF Inv
<1> QED BY <1>1, <1>2, PTL DEF Spec

\* The variables keep their types and the detector's counters their limits.
THEOREM TypeCorrect == Spec => []TypeOK
BY AlwaysInv, PTL DEF Inv

\* The audio goes to the service once and in the order it was spoken.
THEOREM AudioAlwaysInOrder == Spec => []AudioInOrder
BY AlwaysInv, PTL DEF Inv

\* No hold waits for an answer that was drained already.
THEOREM HoldNeverOverlooked == Spec => []HoldNotOverlooked
<1>1. Inv => HoldNotOverlooked
  BY DEF Inv, LinkInOrder, HoldNotOverlooked
<1> QED BY <1>1, AlwaysInv, PTL

-----------------------------------------------------------------------------
(* Utterances are closed while the settings stay as they are.              *)

\* When an utterance is over and not closed yet, the last chunk at hand is the
\* commit that will close it.
Closing ==
    /\ uttered <= heard /\ closed <= sent
    /\ ~detector.inSpeech /\ uttered > closed =>
          out # << >> /\ out[Len(out)].commit /\ out[Len(out)].to = uttered

\* A step that sends or holds back the first chunk keeps it.
LEMMA ClosingTail ==
    ASSUME Inv, Closing, out # << >>, out' = Tail(out), UNCHANGED <<detector, uttered, heard>>,
           closed' = (IF Head(out).commit THEN Head(out).to ELSE closed), closed' <= sent',
           closed <= closed'
    PROVE  Closing'
<1>1. /\ out \in Seq(Chunk) /\ uttered \in Nat /\ closed \in Nat
      /\ Len(out) \in Nat \ {0} /\ Head(out) = out[1]
      /\ Tail(out) \in Seq(Chunk) /\ Len(Tail(out)) = Len(out) - 1
      /\ \A i \in 1..Len(Tail(out)) : Tail(out)[i] = out[i + 1]
  BY HeadTailProperties, EmptySeq DEF Inv, TypeOK
<1>2. SUFFICES ASSUME ~detector.inSpeech, uttered > closed'
               PROVE  /\ Tail(out) # << >> /\ Tail(out)[Len(Tail(out))].commit
                      /\ Tail(out)[Len(Tail(out))].to = uttered
  BY DEF Closing
<1>3. closed' \in Nat
  <2>1. 1 \in 1..Len(out)
    BY <1>1
  <2> QED BY <1>1, <2>1, ChunksOf
<1>4. out[Len(out)].commit /\ out[Len(out)].to = uttered
  BY <1>1, <1>2, <1>3 DEF Closing
<1>5. CASE Len(out) = 1
  BY <1>1, <1>2, <1>3, <1>4, <1>5
<1>6. CASE Len(out) # 1
  <2>1. Len(Tail(out)) \in 1..Len(Tail(out)) /\ Len(Tail(out)) + 1 = Len(out)
    BY <1>1, <1>6
  <2>2. Tail(out)[Len(Tail(out))] = out[Len(out)]
    BY <2>1, <1>1
  <2>3. Tail(out) # << >>
    <3>1. Len(<< >>) = 0 /\ Len(Tail(out)) # 0
      BY <2>1, <1>1
    <3> QED BY <3>1
  <2> QED BY <2>2, <2>3, <1>4
<1> QED BY <1>5, <1>6

\* Every step that is no change of the settings keeps it.
LEMMA ClosingStep ==
    ASSUME Inv, Closing, [Steady]_vars
    PROVE  Closing'
<1>1. /\ sent \in Nat /\ heard \in Nat /\ uttered \in Nat /\ closed \in Nat
      /\ held \in Seq(Chunk) /\ out \in Seq(Chunk) /\ detector.from \in Nat
  BY DetectorOf DEF Inv, TypeOK
<1>2. CASE UNCHANGED <<uttered, heard, closed, sent, detector, out>>
  BY <1>2 DEF Closing
<1>3. held \o out \in Seq(Chunk) /\ Row(sent, held \o out, detector.from, dropped)
  BY <1>1, ConcatProperties DEF Inv, AudioInOrder
<1>4. SentWithHeld \in Nat /\ sent <= SentWithHeld
  <2>1. CASE held = << >>
    BY <1>1, <2>1 DEF SentWithHeld
  <2>2. CASE held # << >>
    <3>1. Len(held) \in 1..Len(held) /\ Len(held) \in 1..Len(held \o out)
          /\ (held \o out)[Len(held)] = held[Len(held)]
      BY <1>1, <2>2, EmptySeq, ConcatProperties
    <3>2. sent <= held[Len(held)].to
      BY <1>1, <1>3, <3>1, RowRises
    <3>3. held[Len(held)].to \in Nat
      BY <1>1, <3>1, ChunksOf
    <3> QED BY <2>2, <3>2, <3>3 DEF SentWithHeld
  <2> QED BY <2>1, <2>2
<1>5. ASSUME out # << >> PROVE Head(out) = out[1] /\ Head(out).to \in Nat /\ sent <= Head(out).to
  <2>1. /\ 1 \in 1..Len(out) /\ Len(held) + 1 \in 1..Len(held \o out)
        /\ (held \o out)[Len(held) + 1] = out[1]
    BY <1>1, <1>5, EmptySeq, ConcatProperties, LenProperties
  <2>2. sent <= out[1].to
    BY <1>1, <1>3, <2>1, RowRises
  <2>3. out[1].to \in Nat
    BY <1>1, <2>1, ChunksOf
  <2> QED BY <1>1, <1>5, <2>2, <2>3, HeadTailProperties
<1>6. CASE DrainBefore \/ DrainAfter
  <2>1. UNCHANGED <<uttered, heard, closed, detector, out>> /\ sent' \in {sent, SentWithHeld}
    BY <1>6 DEF DrainBefore, DrainAfter, Consider, EndHold, mic, hold
  <2> QED BY <2>1, <1>1, <1>4 DEF Closing
<1>7. ASSUME NEW speech \in BOOLEAN, Process(speech) PROVE Closing'
  <2> DEFINE r == IF detector.inSpeech THEN Utter(detector, heard', speech)
                  ELSE Listen(detector, heard', speech)
  <2>1. /\ Framed(r, detector.from, heard') /\ detector' = r.detector /\ out' = r.chunks
        /\ uttered' = IF r.uttering THEN heard' ELSE uttered
        /\ heard' = heard + FrameUnits /\ heard' \in Nat
    BY <1>7, ProcessFrames DEF Inv
  <2>2. out = << >> /\ UNCHANGED <<sent, closed>>
    BY <1>7 DEF Process
  <2>3. detector.inSpeech => r.uttering
    BY DEF Utter, EndUtterance, Result
  <2> HIDE DEF r
  <2>4. CASE r.uttering
    <3>1. uttered' = heard'
      BY <2>1, <2>4
    <3>2. ~detector'.inSpeech => out' # << >> /\ out'[Len(out')].commit /\ out'[Len(out')].to = heard'
      BY <2>1, <2>4 DEF Framed
    <3> QED BY <2>1, <2>2, <3>1, <3>2 DEF Closing
  <2>5. CASE ~r.uttering
    <3>1. uttered' = uttered /\ ~detector.inSpeech
      BY <2>1, <2>3, <2>5
    <3>2. uttered <= closed /\ uttered <= heard'
      BY <1>1, <2>1, <2>2, <3>1, SizesAssumption DEF Closing
    <3> QED BY <1>1, <2>2, <3>1, <3>2 DEF Closing
  <2> QED BY <2>4, <2>5
<1>8. CASE Stream \/ Defer
  <2>1. /\ out # << >> /\ ~Head(out).commit /\ out' = Tail(out) /\ closed' = closed
        /\ UNCHANGED <<detector, uttered, heard>>
        /\ sent' \in {sent, Head(out).to}
    BY <1>8 DEF Stream, Defer, mic
  <2>2. closed' <= sent' /\ closed <= closed'
    BY <2>1, <1>1, <1>5 DEF Closing
  <2> QED BY <2>1, <2>2, ClosingTail
<1>9. CASE SendCommit
  <2>1. /\ out # << >> /\ Head(out).commit /\ out' = Tail(out) /\ closed' = Head(out).to
        /\ UNCHANGED <<detector, uttered, heard>> /\ sent' = Head(out).to
    BY <1>9 DEF SendCommit, mic
  <2>2. closed' <= sent' /\ closed <= closed'
    BY <2>1, <1>1, <1>5 DEF Closing
  <2> QED BY <2>1, <2>2, ClosingTail
<1>10. CASE Flush
  <2>1. out = << >> /\ heard' = heard /\ uttered' = uttered
    BY <1>10 DEF Flush, Inv, HoldInOrder
  <2>2. CASE detector.inSpeech
    <3>1. Flushed = <<Commit(detector, heard)>>
      BY <2>2 DEF Flushed
    <3>2. sent' = heard /\ closed' = heard
      BY <3>1, <1>10 DEF Flush
    <3> QED BY <2>1, <3>2, <1>1 DEF Closing
  <2>3. CASE ~detector.inSpeech
    <3>1. sent' = SentWithHeld /\ closed' = closed
      BY <2>3, <1>10 DEF Flush, Flushed
    <3>2. uttered <= closed
      BY <2>1, <2>3, <1>1 DEF Closing
    <3> QED BY <2>1, <3>1, <3>2, <1>1, <1>4 DEF Closing
  <2> QED BY <2>2, <2>3
<1>11. CASE Begin \/ Processed \/ Break \/ Await \/ DeadlinePasses
  BY <1>2, <1>11 DEF Begin, Processed, Break, Await, DeadlinePasses, mic
<1>12. ASSUME \/ \E n \in 0..MaxRead, last \in BOOLEAN : Read(n, last)
              \/ \E blank \in BOOLEAN : Answer(blank)
       PROVE  Closing'
  BY <1>2, <1>12 DEF Read, Answer, mic
<1>13. CASE Done \/ UNCHANGED vars
  BY <1>2, <1>13 DEF Done, vars
<1> QED BY <1>6, <1>7, <1>8, <1>9, <1>10, <1>11, <1>12, <1>13 DEF Steady, Loop

\* While the settings stay as they are, an utterance that is over was closed by
\* a commit sent after all of it.
THEOREM UtterancesAlwaysClosed == Spec => []ClosedWhileSteady
<1> DEFINE Sofar == changes = 0 => Closing
<1>1. Init => Sofar
  BY DEF Init, Closing
<1>2. ASSUME Inv, Sofar, [Next]_vars PROVE Sofar'
  <2>1. CASE [Steady]_vars
    <3>1. changes' = changes
      <4>1. CASE Begin \/ DrainBefore \/ DrainAfter \/ Stream \/ Defer \/ SendCommit
        BY <4>1 DEF Begin, DrainBefore, DrainAfter, Consider, Stream, Defer, SendCommit,
           settings
      <4>2. CASE Await \/ Processed \/ Flush \/ Break \/ DeadlinePasses \/ Done \/ UNCHANGED vars
        BY <4>2 DEF Await, Processed, Flush, Break, DeadlinePasses, Done, vars, settings
      <4>3. ASSUME \/ \E n \in 0..MaxRead, last \in BOOLEAN : Read(n, last)
                   \/ \E speech \in BOOLEAN : Process(speech)
                   \/ \E blank \in BOOLEAN : Answer(blank)
            PROVE  changes' = changes
        BY <4>3 DEF Read, Process, Answer, settings
      <4> QED BY <2>1, <4>1, <4>2, <4>3 DEF Steady, Loop
    <3>2. Closing => Closing'
      BY <1>2, <2>1, ClosingStep
    <3> QED BY <1>2, <3>1, <3>2
  <2>2. CASE Reconnect \/ Retune
    <3>1. changes \in Nat /\ changes' = changes + 1
      BY <1>2, <2>2, BoundsAssumption DEF Reconnect, Retune, Inv, TypeOK
    <3> QED BY <3>1
  <2> QED BY <1>2, <2>1, <2>2 DEF Next
<1>3. Inv /\ Sofar => ClosedWhileSteady
  BY DEF Inv, TypeOK, Closing, UtterancesAreClosed, ClosedWhileSteady
<1> QED BY <1>1, <1>2, <1>3, AlwaysInv, PTL DEF Spec

=============================================================================
