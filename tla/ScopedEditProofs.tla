-------------------------- MODULE ScopedEditProofs --------------------------
(***************************************************************************)
(* What ScopedEdit's runs check on four small files, for every file, every *)
(* language and any number of utterances and changes by hand.  The         *)
(* inductive invariant says what the batch is (JobInv), where an import    *)
(* can be (ImportInv), that an applied batch has put its code in (CodeInv) *)
(* and how far the file of an undisturbed utterance has come (CalmInv).    *)
(***************************************************************************)
EXTENDS ScopedEditTexts, FiniteSetTheorems

-----------------------------------------------------------------------------
(* The inductive invariant.                                                *)

Kinds == {"edit", "delete", "create", "append"}

Sources == {"none", "selection", "symbol", "hit"}

PlacePairs == [first : Nat, last : Nat]

Actions ==
    [kind : {"replace", "append"}, range : PlacePairs, new : Seq(Line), expected : Seq(Line)]

Statuses == {"ok", "failed", "skipped"}

Jobs ==
    [kind : Kinds \union {"none"}, by : Sources, range : PlacePairs, text : Seq(Line),
     importing : BOOLEAN, organize : BOOLEAN, batch : Seq(Actions), step : Nat,
     items : Seq(Statuses)]

\* The types.
TypeInv ==
    /\ rules \in {"jsts", "go", "other"}
    /\ disk \in Texts /\ buffer \in Texts
    /\ keys \in Nat /\ requests \in Nat
    /\ pc \in {"idle", "asked", "planning", "applying", "saving", "organizing", "reporting"}
    /\ job \in Jobs
    /\ outcome \in {"none", "refused", "failed", "success"}
    /\ calm \in BOOLEAN /\ unsaved \in BOOLEAN

\* The batch is at the host.
Sent == pc \in {"applying", "saving", "organizing", "reporting"}

\* A range that is not turned around.
Ordered(r) == 1 <= r.first /\ r.first <= r.last

\* What a handler goes on with: the target of an edit is in the text that was read.
Aimed(j) ==
    /\ j.kind \in Kinds /\ j.text \in Texts
    /\ j.kind \in {"edit", "delete"} => Ordered(j.range) /\ j.range.last <= Len(j.text)
    /\ j.kind = "append" => j.range = NoRange

\* The batch that was planned from the text that was read.
Planned(j) ==
    /\ Aimed(j)
    /\ j.kind = "create" => \E p \in 1..Len(j.text) : j.range = At(p)
    /\ j.batch = Batch(j.kind, j.range, j.text, j.importing)
    /\ j.importing => NewImport \notin LinesOf(j.text)
    /\ j.step \in 1..IF j.importing THEN 2 ELSE 1

\* What was asked.
Asked(j) ==
    /\ j.kind \in Kinds
    /\ j.by # "none" => Ordered(j.range)
    /\ j.kind = "append" => j.range = NoRange

\* How far the utterance has come.
JobInv ==
    /\ pc = "asked" => Asked(job)
    /\ pc = "planning" => Aimed(job)
    /\ pc \in {"asked", "planning"} => ~job.importing /\ job.step = 1
    /\ Sent => Planned(job)
    /\ pc = "organizing" => job.organize /\ job.items = <<"ok">>
    /\ pc = "reporting" =>
           job.items \in IF job.organize
                         THEN {<<"failed", "skipped">>, <<"ok", "ok">>, <<"ok", "failed">>}
                         ELSE {<<"ok">>, <<"failed">>}

\* The import action is the next one.
ImportNext == job.importing /\ job.step = 1

\* Where an import is not yet.
ImportInv ==
    ~unsaved =>
        /\ Once(buffer)
        /\ NewImport \in LinesOf(buffer) => NewImport \in LinesOf(disk) \/ pc = "saving"
        /\ pc = "planning" /\ NewImport \notin LinesOf(job.text) => NewImport \notin LinesOf(buffer)
        /\ pc = "applying" /\ ImportNext => NewImport \notin LinesOf(buffer)

\* All actions of the batch are applied.
Applied ==
    \/ pc = "saving" /\ ~ImportNext
    \/ pc \in {"organizing", "reporting"} /\ "failed" \notin LinesOf(job.items)

\* An undisturbed batch that has been applied has put its code in.
CodeInv ==
    calm /\ job.kind # "delete" /\ Applied => LinesOf(buffer) \intersect {NewCode, Glued} # {}

\* The range of the change, or its text, is not what was meant.
Miscounted == CreatedBelow \/ Overlaps

\* An undisturbed file is the text that was read, then that with the imports, and, where
\* the target is right, what was intended; where the imports reach the target, it never
\* gets there.
CalmInv ==
    calm =>
        /\ pc = "planning" => buffer = job.text /\ disk = job.text
        /\ pc = "applying" =>
               /\ disk = buffer
               /\ buffer = IF job.step = 1 THEN job.text ELSE Imported(job.text)
        /\ pc = "saving" /\ ImportNext => buffer = Imported(job.text)
        /\ Overlaps =>
            /\ pc = "saving" => ImportNext
            /\ pc # "organizing"
            /\ pc = "reporting" =>
                   /\ buffer = Imported(job.text) /\ disk = buffer
                   /\ "failed" \in LinesOf(job.items)
        /\ ~Miscounted =>
            /\ pc = "saving" /\ ~ImportNext => buffer = Intended
            /\ pc \in {"organizing", "reporting"} =>
                   buffer = Intended /\ disk = buffer /\ "failed" \notin LinesOf(job.items)

-----------------------------------------------------------------------------
(* The batch.                                                              *)

\* The strings and numbers of a job.
LEMMA JobParts ==
    ASSUME NEW j \in Jobs
    PROVE  /\ j.kind \in Kinds \union {"none"} /\ j.by \in Sources /\ j.range \in PlacePairs
           /\ j.text \in Seq(Line) /\ j.importing \in BOOLEAN /\ j.organize \in BOOLEAN
           /\ j.batch \in Seq(Actions) /\ j.step \in Nat /\ j.items \in Seq(Statuses)
  BY DEF Jobs

\* A place twice is a pair of places.
LEMMA AtPair ==
    ASSUME NEW p \in Nat
    PROVE  At(p) \in PlacePairs /\ At(p).first = p /\ At(p).last = p
  BY DEF At, PlacePairs

\* Before an utterance there is no job.
LEMMA NoJobType ==
    NoJob \in Jobs
<1>1. At(0) \in PlacePairs
  BY AtPair
<1>2. << >> \in Seq(Line) /\ << >> \in Seq(Actions) /\ << >> \in Seq(Statuses)
  BY EmptySeq
<1> HIDE DEF Actions, PlacePairs
<1> QED
  BY <1>1, <1>2 DEF NoJob, NoRange, Jobs, Kinds, Sources

\* The texts that the core sends.
LEMMA NewTexts ==
    /\ \A kind, t : Answer(kind, t) \in Texts
    /\ \A t : ToAppend(t) \in Texts
    /\ \A at, t : Affixed(at, t) \in Texts
<1>1. Blank \in Line /\ NewCode \in Line
  BY DEF Line
<1>2. <<Blank>> \in Texts /\ <<NewCode>> \in Texts /\ <<NewCode, Blank>> \in Texts
      /\ <<Blank, NewCode, Blank>> \in Texts
  BY <1>1, ShortTexts
<1> QED
  BY <1>2 DEF Answer, ToAppend, Affixed

\* No action but the import's puts in an import, and all but a delete's put in code.
LEMMA NewLines ==
    /\ \A kind, t : /\ NewImport \notin LinesOf(Answer(kind, t))
                    /\ kind # "delete" => NewCode \in LinesOf(Answer(kind, t))
    /\ \A t : NewImport \notin LinesOf(ToAppend(t)) /\ NewCode \in LinesOf(ToAppend(t))
    /\ \A at, t : NewImport \notin LinesOf(Affixed(at, t)) /\ NewCode \in LinesOf(Affixed(at, t))
<1>1. Blank \in Line /\ NewCode \in Line
  BY DEF Line
<1>2. NewImport # Blank /\ NewImport # NewCode
  BY LinesAssumption
<1>3. \A i \in 1..1 : i = 1
  OBVIOUS
<1>4. \A i \in 1..2 : i = 1 \/ i = 2
  OBVIOUS
<1>5. \A i \in 1..3 : i = 1 \/ i = 2 \/ i = 3
  OBVIOUS
<1>6. 1 \in 1..1 /\ 1 \in 1..2 /\ 2 \in 1..3
  OBVIOUS
<1>7. NewImport \notin LinesOf(<<Blank>>)
  BY <1>1, <1>2, <1>3, ShortTexts DEF LinesOf
<1>8. NewImport \notin LinesOf(<<NewCode>>) /\ NewCode \in LinesOf(<<NewCode>>)
  BY <1>1, <1>2, <1>3, <1>6, ShortTexts DEF LinesOf
<1>9. NewImport \notin LinesOf(<<NewCode, Blank>>) /\ NewCode \in LinesOf(<<NewCode, Blank>>)
  <2>1. /\ Len(<<NewCode, Blank>>) = 2
        /\ <<NewCode, Blank>>[1] = NewCode /\ <<NewCode, Blank>>[2] = Blank
    BY <1>1, ShortTexts
  <2> QED
    BY <1>2, <1>4, <1>6, <2>1 DEF LinesOf
<1>10. /\ NewImport \notin LinesOf(<<Blank, NewCode, Blank>>)
       /\ NewCode \in LinesOf(<<Blank, NewCode, Blank>>)
  <2>1. /\ Len(<<Blank, NewCode, Blank>>) = 3
        /\ <<Blank, NewCode, Blank>>[1] = Blank /\ <<Blank, NewCode, Blank>>[2] = NewCode
        /\ <<Blank, NewCode, Blank>>[3] = Blank
    BY <1>1, ShortTexts
  <2> QED
    BY <1>2, <1>5, <1>6, <2>1 DEF LinesOf
<1> QED
  BY <1>7, <1>8, <1>9, <1>10 DEF Answer, ToAppend, Affixed

\* The import is once in its block.
LEMMA BlockOnce ==
    ASSUME NEW a
    PROVE  Once(Block(a))
<1>1. NewImport # Blank
  BY LinesAssumption
<1>2. /\ Len(Block(a)) \in Nat /\ Block(a)[1] = NewImport
      /\ \A i \in 2..Len(Block(a)) : Block(a)[i] = Blank
  BY BlockLines, TextEnds
<1>3. \A n \in Nat : \A i \in 1..n : i = 1 \/ i \in 2..n
  OBVIOUS
<1>4. \A i \in 1..Len(Block(a)) : i = 1 \/ i \in 2..Len(Block(a))
  BY <1>2, <1>3
<1>5. \A i \in 1..Len(Block(a)) : Block(a)[i] = NewImport => i = 1
  BY <1>1, <1>2, <1>4
<1> QED
  BY <1>5 DEF Once

\* A text without an import.
LEMMA OnceWithout ==
    ASSUME NEW a, NewImport \notin LinesOf(a)
    PROVE  Once(a)
  BY DEF Once, LinesOf

\* A part of a text.
LEMMA SliceType ==
    ASSUME NEW a \in Texts, NEW r, r.first \in PlacesIn(a), r.last \in PlacesIn(a), r.first <= r.last
    PROVE  Slice(a, r) \in Texts
<1> DEFINE u == Before(a, r.last)
<1>1. u \in Texts
  BY BeforeAfterType
<1>2. r.first \in PlacesIn(u)
  <2>1. Len(a) \in Nat /\ r.first \in 1..Len(a) + 1 /\ r.last \in 1..Len(a) + 1
    BY TextEnds DEF PlacesIn
  <2>2. CASE r.last \in 1..Len(a)
    <3>1. Len(u) = r.last
      BY <2>2, BeforeLine
    <3> QED
      BY <2>1, <3>1 DEF PlacesIn
  <2>3. CASE r.last = Len(a) + 1
    <3>1. u = a
      BY <2>3, BeforeEnd
    <3> QED
      BY <3>1
  <2> QED
    BY <2>2, <2>3, PlaceCases
<1> HIDE DEF u
<1>3. After(u, r.first) \in Texts
  BY <1>1, <1>2, BeforeAfterType
<1> QED
  BY <1>3 DEF Slice, u

\* The target of an edit is between places of the text.
LEMMA TargetPlaces ==
    ASSUME NEW t \in Texts, NEW r \in PlacePairs, Ordered(r), r.last <= Len(t)
    PROVE  /\ r.first \in Nat /\ r.last \in Nat
           /\ r.first \in 1..Len(t) /\ r.last \in 1..Len(t) /\ r.first <= r.last
           /\ r.first \in PlacesIn(t) /\ r.last \in PlacesIn(t)
<1>1. Len(t) \in Nat /\ r.first \in Nat /\ r.last \in Nat
  BY TextEnds DEF PlacePairs
<1> QED
  BY <1>1 DEF Ordered, PlacesIn

\* Targets are moved down by the import block or left alone, both ends alike.
LEMMA ShiftedPair ==
    ASSUME NEW t \in Texts, NEW r \in PlacePairs
    PROVE  /\ Shifted(r, t) \in PlacePairs
           /\ Shifted(r, t).first =
                  IF r.first >= InsertLine(t) THEN r.first + Len(ImportBlock(t)) ELSE r.first
           /\ Shifted(r, t).last =
                  IF r.last >= InsertLine(t) THEN r.last + Len(ImportBlock(t)) ELSE r.last
<1>1. InsertLine(t) \in Nat
  <2>1. InsertLine(t) \in 1..Len(t) + 1 /\ Len(t) \in Nat
    BY InsertLinePlace, TextEnds DEF PlacesIn
  <2> QED
    BY <2>1
<1>2. Len(ImportBlock(t)) \in Nat
  BY BlockLines
<1> DEFINE m(l) == IF l >= InsertLine(t) THEN l + Len(ImportBlock(t)) ELSE l
<1>3. r.first \in Nat /\ r.last \in Nat
  BY DEF PlacePairs
<1>4. m(r.first) \in Nat /\ m(r.last) \in Nat
  BY <1>1, <1>2, <1>3
<1> DEFINE f == m(r.first)
           l == m(r.last)
<1>5. Shifted(r, t) = [r EXCEPT !.first = f, !.last = l]
  BY DEF Shifted
<1>6. f \in Nat /\ l \in Nat
  BY <1>4
<1> HIDE DEF m, f, l
<1>7. /\ [r EXCEPT !.first = f, !.last = l] \in PlacePairs
      /\ [r EXCEPT !.first = f, !.last = l].first = f
      /\ [r EXCEPT !.first = f, !.last = l].last = l
  BY <1>6 DEF PlacePairs
<1>8. Shifted(r, t) \in PlacePairs /\ Shifted(r, t).first = f /\ Shifted(r, t).last = l
  BY <1>5, <1>7
<1> QED
  BY <1>8 DEF f, l, m

\* A shifted range is not turned around.
LEMMA ShiftedOrdered ==
    ASSUME NEW t \in Texts, NEW r \in PlacePairs, Ordered(r)
    PROVE  Ordered(Shifted(r, t))
<1>1. InsertLine(t) \in Nat
  <2>1. InsertLine(t) \in 1..Len(t) + 1 /\ Len(t) \in Nat
    BY InsertLinePlace, TextEnds DEF PlacesIn
  <2> QED
    BY <2>1
<1>2. Len(ImportBlock(t)) \in Nat /\ r.first \in Nat /\ r.last \in Nat
  BY BlockLines DEF PlacePairs
<1>3. \A f, l, p, n \in Nat : 1 <= f /\ f <= l =>
          /\ 1 <= IF f >= p THEN f + n ELSE f
          /\ (IF f >= p THEN f + n ELSE f) <= IF l >= p THEN l + n ELSE l
  OBVIOUS
<1> QED
  BY <1>1, <1>2, <1>3, ShiftedPair DEF Ordered

\* The action of a batch that is not its import: what it replaces and what it expects.
LEMMA ChangeParts ==
    ASSUME NEW kind \in Kinds, NEW t \in Texts, NEW r \in PlacePairs, NEW importing \in BOOLEAN,
           kind \in {"edit", "delete"} => Ordered(r) /\ r.last <= Len(t),
           kind = "create" => \E p \in 1..Len(t) : r = At(p)
    PROVE  LET c == Change(kind, r, t, importing)
           IN  /\ c \in Actions /\ c.new \in Texts
               /\ NewImport \notin LinesOf(c.new)
               /\ kind # "delete" => NewCode \in LinesOf(c.new)
               /\ c.kind = IF kind = "append" THEN "append" ELSE "replace"
               /\ kind = "append" => c.new = ToAppend(t)
               /\ kind # "append" =>
                      /\ c.range = IF importing THEN Shifted(r, t) ELSE r
                      /\ Ordered(c.range)
               /\ kind = "create" =>
                      /\ c.new = Affixed(c.range, IF importing THEN Synthetic(t) ELSE t)
                      /\ c.expected = <<Blank>> /\ c.range.first = c.range.last
               /\ kind \in {"edit", "delete"} =>
                      /\ c.new = Answer(kind, Slice(t, r))
                      /\ c.expected = Slice(t, r)
<1> DEFINE r2 == IF importing THEN Shifted(r, t) ELSE r
           lines == IF importing THEN Synthetic(t) ELSE t
           c == Change(kind, r, t, importing)
<1>1. r2 \in PlacePairs
  BY ShiftedPair
<1>2. kind # "append" => Ordered(r)
  <2>1. ASSUME NEW p \in 1..Len(t), r = At(p)
        PROVE  Ordered(r)
    <3>1. p \in Nat /\ p >= 1
      BY TextEnds
    <3> QED
      BY <2>1, <3>1, AtPair DEF Ordered
  <2> QED
    BY <2>1 DEF Kinds
<1>3. kind # "append" => Ordered(r2)
  BY <1>2, ShiftedOrdered
<1>4. <<Blank>> \in Texts /\ << >> \in Seq(Line)
  <2>1. Blank \in Line
    BY DEF Line
  <2> QED
    BY <2>1, ShortTexts, EmptySeq
<1>5. kind = "create" => r2.first = r2.last
  <2>1. ASSUME NEW p \in 1..Len(t), r = At(p)
        PROVE  r2.first = r2.last
    <3>1. p \in Nat /\ r.first = p /\ r.last = p
      BY <2>1, AtPair, TextEnds
    <3> QED
      BY <3>1, ShiftedPair
  <2> QED
    BY <2>1
<1>6. \A new \in Texts, expected \in Seq(Line) :
          /\ Replace(r2, new, expected) \in Actions
          /\ Replace(r2, new, expected).kind = "replace"
          /\ Replace(r2, new, expected).range = r2
          /\ Replace(r2, new, expected).new = new
          /\ Replace(r2, new, expected).expected = expected
  <2> HIDE DEF r2
  <2> QED
    BY <1>1 DEF Replace, Actions, Texts
<1>7. \A new \in Texts :
          /\ Append_(new) \in Actions /\ Append_(new).kind = "append" /\ Append_(new).new = new
  <2>1. NoRange \in PlacePairs
    BY AtPair DEF NoRange
  <2> QED
    BY <1>4, <2>1 DEF Append_, Actions, Texts
<1> HIDE DEF r2, lines
<1>8. CASE kind = "create"
  <2>1. c = Replace(r2, Affixed(r2, lines), <<Blank>>)
    BY <1>8 DEF Change, r2, lines
  <2>2. Affixed(r2, lines) \in Texts /\ <<Blank>> \in Seq(Line)
    BY <1>4, NewTexts DEF Texts
  <2> HIDE DEF c
  <2>3. c \in Actions /\ c.kind = "replace" /\ c.range = r2 /\ c.new = Affixed(r2, lines)
        /\ c.expected = <<Blank>>
    BY <1>6, <2>1, <2>2
  <2>4. NewImport \notin LinesOf(c.new) /\ NewCode \in LinesOf(c.new)
    BY <2>3, NewLines
  <2> QED
    BY <1>3, <1>5, <1>8, <2>2, <2>3, <2>4 DEF c, r2, lines
<1>9. CASE kind = "append"
  <2>1. c = Append_(ToAppend(t))
    BY <1>9 DEF Change
  <2>2. ToAppend(t) \in Texts
    BY NewTexts
  <2> HIDE DEF c
  <2>3. c \in Actions /\ c.kind = "append" /\ c.new = ToAppend(t)
    BY <1>7, <2>1, <2>2
  <2>4. NewImport \notin LinesOf(c.new) /\ NewCode \in LinesOf(c.new)
    BY <2>3, NewLines
  <2> QED
    BY <1>9, <2>2, <2>3, <2>4 DEF c
<1>10. CASE kind \in {"edit", "delete"}
  <2>1. c = Replace(r2, Answer(kind, Slice(t, r)), Slice(t, r))
    BY <1>10 DEF Change, r2
  <2>2. Answer(kind, Slice(t, r)) \in Texts
    BY NewTexts
  <2>3. Slice(t, r) \in Seq(Line)
    BY <1>10, TargetPlaces, SliceType DEF Texts
  <2> HIDE DEF c
  <2>4. c \in Actions /\ c.kind = "replace" /\ c.range = r2 /\ c.new = Answer(kind, Slice(t, r))
        /\ c.expected = Slice(t, r)
    BY <1>6, <2>1, <2>2, <2>3
  <2>5. NewImport \notin LinesOf(c.new) /\ (kind # "delete" => NewCode \in LinesOf(c.new))
    BY <2>4, NewLines
  <2> QED
    BY <1>3, <1>10, <2>2, <2>4, <2>5 DEF c, r2
<1> QED
  BY <1>8, <1>9, <1>10 DEF Kinds

\* The import action inserts the block where imports go.
LEMMA ImportParts ==
    ASSUME NEW t \in Texts
    PROVE  LET c == ImportAction(t)
           IN  /\ c \in Actions /\ c.new = Block(t) /\ c.new \in Texts
               /\ c.kind = "replace" /\ c.range = At(InsertLine(t)) /\ c.expected = <<Blank>>
               /\ c.range.first = c.range.last /\ Ordered(c.range)
<1>1. InsertLine(t) \in Nat /\ InsertLine(t) >= 1
  <2>1. InsertLine(t) \in 1..Len(t) + 1 /\ Len(t) \in Nat
    BY InsertLinePlace, TextEnds DEF PlacesIn
  <2> QED
    BY <2>1
<1>2. At(InsertLine(t)) \in PlacePairs
  BY <1>1, AtPair
<1>3. Block(t) \in Texts
  BY BlockLines
<1>4. <<Blank>> \in Seq(Line)
  <2>1. Blank \in Line
    BY DEF Line
  <2> QED
    BY <2>1, ShortTexts DEF Texts
<1>5. ImportAction(t) = Replace(At(InsertLine(t)), Block(t), <<Blank>>)
  BY DEF ImportAction, Block
<1>6. \A r \in PlacePairs, new \in Texts, expected \in Seq(Line) :
          /\ Replace(r, new, expected) \in Actions
          /\ Replace(r, new, expected).kind = "replace"
          /\ Replace(r, new, expected).range = r
          /\ Replace(r, new, expected).new = new
          /\ Replace(r, new, expected).expected = expected
  BY DEF Replace, Actions, Texts
<1>7. Ordered(At(InsertLine(t))) /\ At(InsertLine(t)).first = At(InsertLine(t)).last
  BY <1>1, AtPair DEF Ordered
<1> DEFINE c == ImportAction(t)
<1>8. /\ c \in Actions /\ c.kind = "replace" /\ c.range = At(InsertLine(t))
      /\ c.new = Block(t) /\ c.expected = <<Blank>>
  BY <1>2, <1>3, <1>4, <1>5, <1>6
<1> HIDE DEF c
<1>9. c.new \in Texts /\ c.range.first = c.range.last /\ Ordered(c.range)
  BY <1>3, <1>7, <1>8
<1> QED
  BY <1>8, <1>9 DEF c

\* A batch is its import action, if it has one, and its change.
LEMMA BatchParts ==
    ASSUME NEW kind \in Kinds, NEW t \in Texts, NEW r \in PlacePairs, NEW importing \in BOOLEAN,
           kind \in {"edit", "delete"} => Ordered(r) /\ r.last <= Len(t),
           kind = "create" => \E p \in 1..Len(t) : r = At(p)
    PROVE  /\ Batch(kind, r, t, importing) \in Seq(Actions)
           /\ Len(Batch(kind, r, t, importing)) = IF importing THEN 2 ELSE 1
           /\ Batch(kind, r, t, importing)[1] =
                  IF importing THEN ImportAction(t) ELSE Change(kind, r, t, importing)
           /\ importing => Batch(kind, r, t, importing)[2] = Change(kind, r, t, importing)
<1> DEFINE c == Change(kind, r, t, importing)
           i == ImportAction(t)
<1>1. c \in Actions
  BY ChangeParts
<1>2. i \in Actions
  BY ImportParts
<1>3. Batch(kind, r, t, importing) = (IF importing THEN <<i>> ELSE << >>) \o <<c>>
  BY DEF Batch
<1> HIDE DEF c, i
<1>4. /\ <<c>> \in Seq(Actions) /\ Len(<<c>>) = 1 /\ <<c>>[1] = c
      /\ <<i>> \in Seq(Actions) /\ Len(<<i>>) = 1 /\ <<i>>[1] = i
  BY <1>1, <1>2
<1>5. << >> \o <<c>> = <<c>>
  BY <1>4, ConcatEmptySeq
<1>6. /\ <<i>> \o <<c>> \in Seq(Actions) /\ Len(<<i>> \o <<c>>) = 2
      /\ (<<i>> \o <<c>>)[1] = i /\ (<<i>> \o <<c>>)[2] = c
  BY <1>4, ConcatProperties
<1>7. CASE importing
  BY <1>3, <1>6, <1>7 DEF c, i
<1>8. CASE ~importing
  BY <1>3, <1>4, <1>5, <1>8 DEF c
<1> QED
  BY <1>7, <1>8

\* The next action of a planned batch.
LEMMA ActionIs ==
    ASSUME job \in Jobs, Planned(job)
    PROVE  /\ Action = IF ImportNext THEN ImportAction(job.text)
                       ELSE Change(job.kind, job.range, job.text, job.importing)
           /\ job.step < Len(job.batch) <=> ImportNext
           /\ job.step <= Len(job.batch)
<1>1. /\ job.kind \in Kinds /\ job.text \in Texts /\ job.range \in PlacePairs
      /\ job.importing \in BOOLEAN
      /\ job.kind \in {"edit", "delete"} => Ordered(job.range) /\ job.range.last <= Len(job.text)
      /\ job.kind = "create" => \E p \in 1..Len(job.text) : job.range = At(p)
      /\ job.batch = Batch(job.kind, job.range, job.text, job.importing)
  BY JobParts DEF Planned, Aimed
<1>2. /\ Len(job.batch) = IF job.importing THEN 2 ELSE 1
      /\ job.batch[1] = IF job.importing THEN ImportAction(job.text)
                        ELSE Change(job.kind, job.range, job.text, job.importing)
      /\ job.importing => job.batch[2] = Change(job.kind, job.range, job.text, job.importing)
  <2> DEFINE b == Batch(job.kind, job.range, job.text, job.importing)
  <2>1. /\ Len(b) = IF job.importing THEN 2 ELSE 1
        /\ b[1] = IF job.importing THEN ImportAction(job.text)
                  ELSE Change(job.kind, job.range, job.text, job.importing)
        /\ job.importing => b[2] = Change(job.kind, job.range, job.text, job.importing)
    BY <1>1, BatchParts
  <2>2. job.batch = b
    BY <1>1
  <2> HIDE DEF b
  <2> QED
    BY <2>1, <2>2
<1>3. job.step \in 1..IF job.importing THEN 2 ELSE 1
  BY DEF Planned
<1> DEFINE n == Len(job.batch)
<1>4. CASE job.importing /\ job.step = 1
  <2>1. n = 2 /\ job.batch[1] = ImportAction(job.text)
    BY <1>2, <1>4
  <2> HIDE DEF n
  <2>2. job.step < n /\ job.step <= n
    BY <1>4, <2>1
  <2> QED
    BY <1>4, <2>1, <2>2 DEF Action, ImportNext, n
<1>5. CASE job.importing /\ job.step = 2
  <2>1. n = 2 /\ job.batch[2] = Change(job.kind, job.range, job.text, job.importing)
    BY <1>2, <1>5
  <2> HIDE DEF n
  <2>2. ~(job.step < n) /\ job.step <= n /\ job.step # 1
    BY <1>5, <2>1
  <2> QED
    BY <1>5, <2>1, <2>2 DEF Action, ImportNext, n
<1>6. CASE ~job.importing /\ job.step = 1
  <2>1. n = 1 /\ job.batch[1] = Change(job.kind, job.range, job.text, job.importing)
    BY <1>2, <1>6
  <2> HIDE DEF n
  <2>2. ~(job.step < n) /\ job.step <= n
    BY <1>6, <2>1
  <2> QED
    BY <1>6, <2>1, <2>2 DEF Action, ImportNext, n
<1>7. (job.importing => job.step = 1 \/ job.step = 2) /\ (~job.importing => job.step = 1)
  BY <1>3
<1> QED
  BY <1>4, <1>5, <1>6, <1>7

\* What the next action puts in, and where.
LEMMA ActionParts ==
    ASSUME job \in Jobs, Planned(job)
    PROVE  /\ Action.new \in Texts /\ Once(Action.new)
           /\ ~ImportNext => NewImport \notin LinesOf(Action.new)
           /\ ~ImportNext /\ job.kind # "delete" => NewCode \in LinesOf(Action.new)
           /\ Action.kind \in {"append", "replace"}
           /\ Action.kind = "replace" => Action.range \in PlacePairs /\ Ordered(Action.range)
           /\ Action.kind = "replace" =>
                  \/ Action.range.first = Action.range.last
                  \/ Action.expected = Slice(job.text, job.range)
<1>1. /\ job.kind \in Kinds /\ job.text \in Texts /\ job.range \in PlacePairs
      /\ job.importing \in BOOLEAN
      /\ job.kind \in {"edit", "delete"} => Ordered(job.range) /\ job.range.last <= Len(job.text)
      /\ job.kind = "create" => \E p \in 1..Len(job.text) : job.range = At(p)
  BY JobParts DEF Planned, Aimed
<1>2. Action \in Actions => (Action.kind = "replace" => Action.range \in PlacePairs)
  BY DEF Actions
<1>3. CASE ImportNext
  <2>1. Action = ImportAction(job.text)
    BY <1>3, ActionIs
  <2>2. /\ Action \in Actions /\ Action.new = Block(job.text) /\ Action.new \in Texts
        /\ Action.kind = "replace" /\ Action.range.first = Action.range.last
        /\ Ordered(Action.range)
    BY <1>1, <2>1, ImportParts
  <2>3. Once(Action.new)
    BY <2>2, BlockOnce
  <2> QED
    BY <1>2, <1>3, <2>2, <2>3
<1>4. CASE ~ImportNext
  <2> DEFINE c == Change(job.kind, job.range, job.text, job.importing)
  <2>1. Action = c
    BY <1>4, ActionIs
  <2>2. /\ c \in Actions /\ c.new \in Texts
        /\ NewImport \notin LinesOf(c.new)
        /\ job.kind # "delete" => NewCode \in LinesOf(c.new)
        /\ c.kind = IF job.kind = "append" THEN "append" ELSE "replace"
        /\ job.kind # "append" => Ordered(c.range)
        /\ job.kind = "create" => c.range.first = c.range.last
        /\ job.kind \in {"edit", "delete"} => c.expected = Slice(job.text, job.range)
    BY <1>1, ChangeParts
  <2> HIDE DEF c
  <2>3. Once(c.new)
    BY <2>2, OnceWithout
  <2>4. job.kind \in {"edit", "delete", "create", "append"}
    BY <1>1 DEF Kinds
  <2>5. c.kind = "replace" => job.kind # "append"
    BY <2>2
  <2> QED
    BY <1>2, <1>4, <2>1, <2>2, <2>3, <2>4, <2>5
<1> QED
  BY <1>3, <1>4

\* The host acts at places of its buffer; what it replaces, if anything, is the target.
LEMMA PlaceParts ==
    ASSUME job \in Jobs, Planned(job), buffer \in Texts
    PROVE  /\ Place.first \in PlacesIn(buffer) /\ Place.last \in PlacesIn(buffer)
           /\ Place.first <= Place.last
           /\ Matches => \/ Slice(buffer, Place) = <<Blank>>
                         \/ Slice(buffer, Place) = Slice(job.text, job.range)
<1>1. CASE Action.kind = "append"
  <2>1. Len(buffer) + 1 \in Nat /\ Len(buffer) + 1 \in PlacesIn(buffer)
    BY TextEnds DEF PlacesIn
  <2>2. Place = At(Len(buffer) + 1)
    BY <1>1 DEF Place
  <2>3. /\ Place.first = Len(buffer) + 1 /\ Place.last = Len(buffer) + 1
        /\ Slice(buffer, Place) = <<Blank>>
    BY <2>1, <2>2, AtPair, SliceAt
  <2> QED
    BY <2>1, <2>3
<1>2. CASE Action.kind = "replace"
  <2> DEFINE r == Action.range
             v == Validated(buffer, r)
  <2>1. Place = v
    BY <1>2 DEF Place
  <2>2. r.first \in Nat /\ r.last \in Nat /\ r.first >= 1 /\ r.first <= r.last
    BY <1>2, ActionParts DEF PlacePairs, Ordered
  <2>3. v.first \in PlacesIn(buffer) /\ v.last \in PlacesIn(buffer) /\ v.first <= v.last
    <3> HIDE DEF r
    <3> QED
      BY <2>2, ValidatedPlaces
  <2>4. Matches => Slice(buffer, v) = Action.expected
    BY <1>2 DEF Matches
  <2>5. r.first = r.last => Slice(buffer, v) = <<Blank>>
    <3> HIDE DEF r
    <3>1. r.first = r.last => v = At(v.first)
      BY ValidatedAt
    <3> HIDE DEF v
    <3> QED
      BY <2>3, <3>1, SliceAt
  <2>6. r.first = r.last \/ Action.expected = Slice(job.text, job.range)
    BY <1>2, ActionParts
  <2> QED
    BY <2>1, <2>3, <2>4, <2>5, <2>6
<1> QED
  BY <1>1, <1>2, ActionParts

\* What an action of the batch does to the buffer.
LEMMA ApplyLeaves ==
    ASSUME job \in Jobs, Planned(job), buffer \in Texts, ApplyAction
    PROVE  /\ buffer' \in Texts
           /\ Once(buffer) /\ (ImportNext => NewImport \notin LinesOf(buffer)) => Once(buffer')
           /\ ~ImportNext /\ job.kind # "delete" => LinesOf(buffer') \intersect {NewCode, Glued} # {}
<1>1. buffer' = Substituted(buffer, Place, Action.new)
  BY DEF ApplyAction
<1>2. /\ Place.first \in PlacesIn(buffer) /\ Place.last \in PlacesIn(buffer)
      /\ Place.first <= Place.last
  BY PlaceParts
<1>3. /\ Action.new \in Texts /\ Once(Action.new)
      /\ ~ImportNext => NewImport \notin LinesOf(Action.new)
      /\ ~ImportNext /\ job.kind # "delete" => NewCode \in LinesOf(Action.new)
  BY ActionParts
<1>4. Substituted(buffer, Place, Action.new) \in Texts
  BY <1>2, <1>3, SubstitutedType
<1>5. Once(buffer) /\ (ImportNext => NewImport \notin LinesOf(buffer))
          => Once(Substituted(buffer, Place, Action.new))
  BY <1>2, <1>3, OnceSubstituted
<1>6. ~ImportNext /\ job.kind # "delete" =>
          \/ NewCode \in LinesOf(Substituted(buffer, Place, Action.new))
          \/ Glued \in LinesOf(Substituted(buffer, Place, Action.new))
  <2>1. NewCode # Blank
    BY LinesAssumption
  <2> QED
    BY <1>2, <1>3, <2>1, LinesOfSubstituted
<1> QED
  BY <1>1, <1>4, <1>5, <1>6

-----------------------------------------------------------------------------
(* Jobs, step by step.                                                     *)

\* What a planned batch is depends on the language, and on no field that comes later.
LEMMA PlannedSame ==
    ASSUME Planned(job), rules' = rules, job'.kind = job.kind, job'.text = job.text,
           job'.range = job.range, job'.importing = job.importing, job'.batch = job.batch,
           job'.step \in 1..IF job'.importing THEN 2 ELSE 1
    PROVE  Planned(job)'
<1>1. Batch(job.kind, job.range, job.text, job.importing)' =
      Batch(job.kind, job.range, job.text, job.importing)
  BY DEF Batch, ImportAction, Change, InsertLine, Separated, ImportBlock, Shifted, Synthetic
<1>2. Aimed(job)'
  BY DEF Planned, Aimed
<1> QED
  BY <1>1, <1>2 DEF Planned

\* The job when one of its actions is saved.
LEMMA SteppedJob ==
    ASSUME NEW i \in Jobs
    PROVE  LET j == [i EXCEPT !.step = @ + 1]
           IN  /\ j \in Jobs /\ j.kind = i.kind /\ j.range = i.range /\ j.text = i.text
               /\ j.importing = i.importing /\ j.organize = i.organize /\ j.batch = i.batch
               /\ j.step = i.step + 1
<1>1. i.step + 1 \in Nat
  BY DEF Jobs
<1> QED
  BY <1>1 DEF Jobs

\* The job when its items are known.
LEMMA ItemsJob ==
    ASSUME NEW i \in Jobs, NEW s \in Seq(Statuses)
    PROVE  LET j == [i EXCEPT !.items = s]
           IN  /\ j \in Jobs /\ j.kind = i.kind /\ j.range = i.range /\ j.text = i.text
               /\ j.importing = i.importing /\ j.organize = i.organize /\ j.batch = i.batch
               /\ j.step = i.step /\ j.items = s
  BY DEF Jobs

\* What was failed and what was skipped.
LEMMA ItemRows ==
    ASSUME NEW a \in Statuses, NEW b \in Statuses
    PROVE  /\ <<a>> \in Seq(Statuses) /\ <<a, b>> \in Seq(Statuses)
           /\ <<a>> \o <<b>> = <<a, b>> /\ Append(<<a>>, b) = <<a, b>> /\ <<a>> \o << >> = <<a>>
<1>1. /\ <<a>> \in Seq(Statuses) /\ Len(<<a>>) = 1 /\ <<a>>[1] = a
      /\ <<b>> \in Seq(Statuses) /\ Len(<<b>>) = 1 /\ <<b>>[1] = b
      /\ <<a, b>> \in Seq(Statuses) /\ Len(<<a, b>>) = 2
      /\ <<a, b>>[1] = a /\ <<a, b>>[2] = b
  OBVIOUS
<1> DEFINE u == <<a>> \o <<b>>
<1>2. u \in Seq(Statuses) /\ Len(u) = 2 /\ u[1] = a /\ u[2] = b
  BY <1>1, ConcatProperties
<1> HIDE DEF u
<1>3. \A i \in 1..2 : i = 1 \/ i = 2
  OBVIOUS
<1>4. u = <<a, b>>
  BY <1>1, <1>2, <1>3, SeqEqual
<1>5. Append(<<a>>, b) = u
  BY <1>1, AppendIsConcat DEF u
<1>6. <<a>> \o << >> = <<a>>
  BY <1>1, ConcatEmptySeq
<1> QED
  BY <1>1, <1>4, <1>5, <1>6 DEF u

\* The directives that failed with the edit.
LEMMA FailedItems ==
    ASSUME job \in Jobs, FailEdit
    PROVE  /\ pc' = "reporting" /\ job' \in Jobs
           /\ job'.items = IF job.organize THEN <<"failed", "skipped">> ELSE <<"failed">>
           /\ job'.kind = job.kind /\ job'.range = job.range /\ job'.text = job.text
           /\ job'.importing = job.importing /\ job'.organize = job.organize
           /\ job'.batch = job.batch /\ job'.step = job.step
<1> DEFINE s == IF job.organize THEN <<"failed", "skipped">> ELSE <<"failed">>
<1>1. s \in Seq(Statuses)
  BY ItemRows DEF Statuses
<1>2. <<"failed">> \o (IF job.organize THEN <<"skipped">> ELSE << >>) = s
  <2>1. "failed" \in Statuses /\ "skipped" \in Statuses
    BY DEF Statuses
  <2>2. <<"failed">> \o <<"skipped">> = <<"failed", "skipped">> /\ <<"failed">> \o << >> = <<"failed">>
    BY <2>1, ItemRows
  <2> QED
    BY <2>2
<1>3. pc' = "reporting" /\ job' = [job EXCEPT !.items = s]
  BY <1>2 DEF FailEdit
<1> HIDE DEF s
<1>4. /\ job' \in Jobs /\ job'.kind = job.kind /\ job'.range = job.range /\ job'.text = job.text
      /\ job'.importing = job.importing /\ job'.organize = job.organize
      /\ job'.batch = job.batch /\ job'.step = job.step /\ job'.items = s
  BY <1>1, <1>3, ItemsJob
<1> QED
  BY <1>3, <1>4 DEF s

\* The target of an edit is turned to the text that was read.
LEMMA ResolvedTarget ==
    ASSUME NEW by \in Sources, NEW r \in PlacePairs, NEW t \in Texts, by # "none" => Ordered(r),
           NEW kind \in {"edit", "delete"}, Acceptable(kind, Resolved(by, r, t), t)
    PROVE  /\ Resolved(by, r, t) \in PlacePairs /\ Ordered(Resolved(by, r, t))
           /\ Resolved(by, r, t).last <= Len(t)
<1>1. Resolved(by, r, t).last <= Len(t)
  BY DEF Acceptable, Extractable
<1>2. WholeFile(t) \in PlacePairs /\ Ordered(WholeFile(t))
  <2> DEFINE l == IF EndsWithNewline(t) THEN Len(t) ELSE Len(t) + 1
  <2>1. l \in Nat /\ 1 <= l
    BY TextEnds
  <2>2. WholeFile(t) = [first |-> 1, last |-> l]
    BY DEF WholeFile
  <2> HIDE DEF l
  <2> QED
    BY <2>1, <2>2 DEF PlacePairs, Ordered
<1>3. Resolved(by, r, t) = WholeFile(t) \/ (by # "none" /\ Resolved(by, r, t) = r)
  BY DEF Resolved, Sources
<1> QED
  BY <1>1, <1>2, <1>3

-----------------------------------------------------------------------------
(* The job is what was asked, read and planned.                            *)

\* At first nothing is asked.
LEMMA JobInit ==
    Init => TypeInv /\ JobInv
<1> SUFFICES ASSUME Init PROVE TypeInv /\ JobInv
  OBVIOUS
<1>1. PICK f \in Files : rules = f.rules /\ disk = f.text /\ buffer = f.text
  BY DEF Init
<1>2. f.rules \in {"jsts", "go", "other"} /\ f.text \in Texts
  BY FilesAssumption DEF Texts
<1>3. /\ keys = 0 /\ requests = 0 /\ pc = "idle" /\ job = NoJob
      /\ outcome = "none" /\ calm = FALSE /\ unsaved = FALSE
  BY DEF Init
<1>4. TypeInv
  BY <1>1, <1>2, <1>3, NoJobType DEF TypeInv
<1>5. JobInv
  BY <1>3 DEF JobInv, Sent
<1> QED
  BY <1>4, <1>5

\* The steps of the core.
LEMMA HandlerCases ==
    ASSUME TypeInv, Handler
    PROVE  \/ \E kind \in Kinds, by \in Sources, r \in PlacePairs :
                  /\ Ask(kind, by, r)
                  /\ by # "none" => Ordered(r)
                  /\ kind = "append" => r = NoRange
           \/ Read \/ ReadFails \/ PlanFails \/ Report
           \/ \E importing, organize \in BOOLEAN, p \in 1..Len(job.text) : Plan(importing, organize, p)
<1>1. NoRange \in PlacePairs
  BY AtPair DEF NoRange
<1>2. \A t \in Texts : \A r \in Ranges(t) : r \in PlacePairs /\ Ordered(r)
  <2>1. SUFFICES ASSUME NEW t \in Texts, NEW r \in Ranges(t)
                 PROVE  r \in PlacePairs /\ Ordered(r)
    OBVIOUS
  <2>2. Len(t) \in Nat
    BY TextEnds
  <2>3. r \in [first : 1..Len(t), last : 1..Len(t)] /\ r.first < r.last
    BY DEF Ranges
  <2> QED
    BY <2>2, <2>3 DEF PlacePairs, Ordered
<1>3. CASE \E kind \in {"edit", "delete"} :
              \/ \E by \in {"selection", "symbol"}, r \in Ranges(buffer) : Ask(kind, by, r)
              \/ Ask(kind, "none", NoRange)
  <2>1. PICK kind \in {"edit", "delete"} :
              \/ \E by \in {"selection", "symbol"}, r \in Ranges(buffer) : Ask(kind, by, r)
              \/ Ask(kind, "none", NoRange)
    BY <1>3
  <2>2. kind \in Kinds /\ kind # "append" /\ "none" \in Sources
    BY DEF Kinds, Sources
  <2>3. CASE Ask(kind, "none", NoRange)
    BY <1>1, <2>2, <2>3
  <2>4. ASSUME NEW by \in {"selection", "symbol"}, NEW r \in Ranges(buffer), Ask(kind, by, r)
        PROVE  by \in Sources /\ r \in PlacePairs /\ Ordered(r)
    BY <1>2 DEF Sources, TypeInv
  <2> QED
    BY <2>1, <2>2, <2>3, <2>4
<1>4. CASE \E r \in Hits(disk) : Ask("delete", "hit", r)
  <2>1. PICK r \in Hits(disk) : Ask("delete", "hit", r)
    BY <1>4
  <2>2. r \in Ranges(disk)
    BY DEF Hits
  <2>3. r \in PlacePairs /\ Ordered(r)
    BY <1>2, <2>2 DEF TypeInv
  <2> QED
    BY <2>1, <2>3 DEF Kinds, Sources
<1>5. CASE \E kind \in {"create", "append"} : Ask(kind, "none", NoRange)
  BY <1>1, <1>5 DEF Kinds, Sources
<1> QED
  BY <1>3, <1>4, <1>5 DEF Handler

\* An utterance is heard.
LEMMA JobAsk ==
    ASSUME TypeInv, NEW kind \in Kinds, NEW by \in Sources, NEW r \in PlacePairs, Ask(kind, by, r),
           by # "none" => Ordered(r), kind = "append" => r = NoRange
    PROVE  TypeInv' /\ JobInv'
<1>1. /\ job' \in Jobs /\ job'.kind = kind /\ job'.by = by /\ job'.range = r
      /\ job'.importing = FALSE /\ job'.step = 1
  <2> DEFINE j == [NoJob EXCEPT !.kind = kind, !.by = by, !.range = r]
  <2>1. /\ j \in Jobs /\ j.kind = kind /\ j.by = by /\ j.range = r
        /\ j.importing = FALSE /\ j.step = 1
    <3>1. NoJob \in Jobs /\ NoJob.importing = FALSE /\ NoJob.step = 1
      BY NoJobType DEF NoJob
    <3> QED
      BY <3>1 DEF Jobs
  <2>2. job' = j
    BY DEF Ask
  <2> HIDE DEF j
  <2> QED
    BY <2>1, <2>2
<1>2. pc' = "asked" /\ outcome' = "none" /\ requests' = requests + 1
      /\ UNCHANGED <<rules, disk, buffer, keys, calm, unsaved>>
  BY DEF Ask
<1>3. TypeInv'
  BY <1>1, <1>2 DEF TypeInv
<1>4. Asked(job)'
  BY <1>1 DEF Asked
<1>5. JobInv'
  BY <1>1, <1>2, <1>4 DEF JobInv, Sent
<1> QED
  BY <1>3, <1>5

\* An utterance that has ended leaves no job.
LEMMA JobEnd ==
    ASSUME TypeInv, NEW how \in {"refused", "failed", "success"}, End(how),
           UNCHANGED <<rules, disk, buffer, keys, requests, unsaved>>, calm' \in BOOLEAN
    PROVE  TypeInv' /\ JobInv'
<1>1. pc' = "idle" /\ outcome' = how /\ job' = NoJob
  BY DEF End
<1>2. TypeInv'
  BY <1>1, NoJobType DEF TypeInv
<1> QED
  BY <1>1, <1>2 DEF JobInv, Sent

\* The file is read.
LEMMA JobRead ==
    ASSUME TypeInv, JobInv, Read
    PROVE  TypeInv' /\ JobInv'
<1> DEFINE r == IF job.kind \in {"edit", "delete"} THEN Resolved(job.by, job.range, disk)
                ELSE job.range
<1>1. /\ pc = "asked" /\ calm' = (disk = buffer)
      /\ UNCHANGED <<rules, disk, buffer, keys, requests, unsaved>>
  BY DEF Read
<1>2. calm' \in BOOLEAN
  BY <1>1
<1>3. \/ ~Acceptable(job.kind, r, disk) /\ End("refused")
      \/ /\ Acceptable(job.kind, r, disk) /\ pc' = "planning" /\ outcome' = outcome
         /\ job' = [job EXCEPT !.by = "none", !.range = r, !.text = disk]
  BY DEF Read
<1>4. CASE End("refused")
  BY <1>1, <1>2, <1>4, JobEnd
<1>5. CASE /\ Acceptable(job.kind, r, disk) /\ pc' = "planning" /\ outcome' = outcome
           /\ job' = [job EXCEPT !.by = "none", !.range = r, !.text = disk]
  <2>1. job \in Jobs /\ disk \in Texts /\ Asked(job) /\ ~job.importing /\ job.step = 1
    BY <1>1 DEF TypeInv, JobInv
  <2>2. job.range \in PlacePairs /\ job.by \in Sources
    BY <2>1, JobParts
  <2>3. job.kind \in {"edit", "delete"} => r \in PlacePairs /\ Ordered(r) /\ r.last <= Len(disk)
    BY <1>5, <2>1, <2>2, ResolvedTarget DEF Asked
  <2>4. job.kind \notin {"edit", "delete"} => r = job.range
    OBVIOUS
  <2> HIDE DEF r
  <2>5. r \in PlacePairs
    BY <2>2, <2>3, <2>4
  <2>6. /\ job' \in Jobs /\ job'.kind = job.kind /\ job'.range = r /\ job'.text = disk
        /\ job'.importing = job.importing /\ job'.step = job.step
    <3> DEFINE j == [job EXCEPT !.by = "none", !.range = r, !.text = disk]
    <3>1. /\ j \in Jobs /\ j.kind = job.kind /\ j.range = r /\ j.text = disk
          /\ j.importing = job.importing /\ j.step = job.step
      <4>1. "none" \in Sources /\ disk \in Seq(Line)
        BY <2>1 DEF Sources, Texts
      <4> QED
        BY <2>1, <2>5, <4>1 DEF Jobs
    <3>2. job' = j
      BY <1>5
    <3> HIDE DEF j
    <3> QED
      BY <3>1, <3>2
  <2>7. TypeInv'
    BY <1>1, <1>2, <1>5, <2>6 DEF TypeInv
  <2>8. Aimed(job)'
    <3>1. job.kind = "append" => job.range = NoRange /\ job.kind \notin {"edit", "delete"}
      BY <2>1 DEF Asked
    <3>2. job.kind \in Kinds
      BY <2>1 DEF Asked
    <3>3. /\ job'.kind \in Kinds /\ job'.text \in Texts
          /\ job'.kind \in {"edit", "delete"} =>
                 /\ 1 <= job'.range.first /\ job'.range.first <= job'.range.last
                 /\ job'.range.last <= Len(job'.text)
          /\ job'.kind = "append" => job'.range = NoRange
      BY <2>1, <2>3, <2>4, <2>6, <3>1, <3>2 DEF Ordered
    <3> QED
      BY <3>3 DEF Aimed, Ordered
  <2>9. JobInv'
    BY <1>5, <2>1, <2>6, <2>8 DEF JobInv, Sent
  <2> QED
    BY <2>7, <2>9
<1> QED
  BY <1>3, <1>4, <1>5

\* A handler without its file or its answer gives up.
LEMMA JobGivesUp ==
    ASSUME TypeInv, JobInv, ReadFails \/ PlanFails \/ Report
    PROVE  TypeInv' /\ JobInv'
<1>1. UNCHANGED <<rules, disk, buffer, keys, requests, unsaved>> /\ calm' \in BOOLEAN
  BY DEF ReadFails, PlanFails, Report, TypeInv
<1>2. End("refused") \/ End("failed") \/ End("success")
  BY DEF ReadFails, PlanFails, Report
<1> QED
  BY <1>1, <1>2, JobEnd

\* The batch is planned.
LEMMA JobPlan ==
    ASSUME TypeInv, JobInv, NEW importing \in BOOLEAN, NEW organize \in BOOLEAN,
           NEW p \in 1..Len(job.text), Plan(importing, organize, p)
    PROVE  TypeInv' /\ JobInv'
<1> DEFINE text == job.text
           r == IF job.kind = "create" THEN At(p) ELSE job.range
           new == job.kind # "delete" /\ NewImports(importing, text)
           b == Batch(job.kind, r, text, new)
<1>1. /\ pc = "planning" /\ pc' = "applying"
      /\ job' = [job EXCEPT !.range = r, !.importing = new, !.organize = new /\ organize,
                            !.batch = b]
      /\ UNCHANGED <<rules, disk, buffer, keys, requests, outcome, calm, unsaved>>
  BY DEF Plan
<1>2. job \in Jobs /\ Aimed(job) /\ job.step = 1
  BY <1>1 DEF TypeInv, JobInv
<1>3. job.range \in PlacePairs /\ job.kind \in Kinds /\ text \in Texts
  BY <1>2, JobParts DEF Aimed
<1>4. p \in Nat
  BY <1>3, TextEnds
<1>5. r \in PlacePairs
  BY <1>3, <1>4, AtPair
<1>6. new \in BOOLEAN /\ (new /\ organize) \in BOOLEAN
  OBVIOUS
<1>7. new => NewImport \notin LinesOf(text)
  BY DEF NewImports
<1>8. job.kind \in {"edit", "delete"} => Ordered(r) /\ r.last <= Len(text)
  BY <1>2 DEF Aimed
<1>9. job.kind = "create" => r = At(p)
  OBVIOUS
<1>10. job.kind = "append" => r = NoRange
  BY <1>2 DEF Aimed
<1>11. job.kind = "create" => \E q \in 1..Len(text) : r = At(q)
  BY <1>9
<1> HIDE DEF r, new
<1>12. b \in Seq(Actions)
  BY <1>3, <1>5, <1>6, <1>8, <1>11, BatchParts
<1> HIDE DEF b
<1>13. /\ job' \in Jobs /\ job'.kind = job.kind /\ job'.range = r /\ job'.text = job.text
       /\ job'.importing = new /\ job'.organize = (new /\ organize) /\ job'.batch = b
       /\ job'.step = job.step
  <2> DEFINE j == [job EXCEPT !.range = r, !.importing = new, !.organize = new /\ organize,
                              !.batch = b]
  <2>1. /\ j \in Jobs /\ j.kind = job.kind /\ j.range = r /\ j.text = job.text
        /\ j.importing = new /\ j.organize = (new /\ organize) /\ j.batch = b
        /\ j.step = job.step
    BY <1>2, <1>5, <1>6, <1>12 DEF Jobs
  <2>2. job' = j
    BY <1>1
  <2> HIDE DEF j
  <2> QED
    BY <2>1, <2>2
<1>14. TypeInv'
  BY <1>1, <1>13 DEF TypeInv
<1>15. b = Batch(job'.kind, job'.range, job'.text, job'.importing)
  BY <1>13 DEF b
<1>16. Batch(job'.kind, job'.range, job'.text, job'.importing) =
       Batch(job.kind, job.range, job.text, job.importing)'
  BY <1>1 DEF Batch, ImportAction, Change, InsertLine, Separated, ImportBlock, Shifted, Synthetic
<1>17. Aimed(job)'
  BY <1>3, <1>8, <1>10, <1>13 DEF Aimed, Ordered
<1>18. job'.step \in 1..IF job'.importing THEN 2 ELSE 1
  BY <1>2, <1>6, <1>13
<1>19. job'.kind = "create" => \E q \in 1..Len(job'.text) : job'.range = At(q)
  BY <1>11, <1>13
<1>20. job'.importing => NewImport \notin LinesOf(job'.text)
  BY <1>7, <1>13
<1>21. Planned(job)'
  BY <1>13, <1>15, <1>16, <1>17, <1>18, <1>19, <1>20 DEF Planned
<1>22. JobInv'
  BY <1>1, <1>21 DEF JobInv, Sent
<1> QED
  BY <1>14, <1>22

\* The host applies an action.
LEMMA JobApply ==
    ASSUME TypeInv, JobInv, ApplyAction
    PROVE  TypeInv' /\ JobInv'
<1>1. /\ pc = "applying" /\ pc' = "saving"
      /\ UNCHANGED <<rules, disk, keys, requests, job, outcome, calm, unsaved>>
  BY DEF ApplyAction
<1>2. job \in Jobs /\ Planned(job) /\ buffer \in Texts
  BY <1>1 DEF TypeInv, JobInv, Sent
<1>3. buffer' \in Texts
  BY <1>2, ApplyLeaves
<1>4. TypeInv'
  BY <1>1, <1>3 DEF TypeInv
<1>5. job.step \in 1..IF job.importing THEN 2 ELSE 1
  BY <1>2 DEF Planned
<1>6. Planned(job)'
  BY <1>1, <1>2, <1>5, PlannedSame
<1> QED
  BY <1>1, <1>4, <1>6 DEF JobInv, Sent

\* The edit directive fails.
LEMMA JobFails ==
    ASSUME TypeInv, JobInv, StaleRange \/ ApplyRefused \/ SaveFails
    PROVE  TypeInv' /\ JobInv'
<1>1. /\ pc \in {"applying", "saving"} /\ FailEdit
      /\ UNCHANGED <<rules, disk, buffer, keys, requests, outcome>>
      /\ calm' \in BOOLEAN /\ unsaved' \in BOOLEAN
  BY DEF StaleRange, ApplyRefused, SaveFails, TypeInv
<1>2. job \in Jobs /\ Planned(job)
  BY <1>1 DEF TypeInv, JobInv, Sent
<1>3. /\ pc' = "reporting" /\ job' \in Jobs
      /\ job'.items = IF job.organize THEN <<"failed", "skipped">> ELSE <<"failed">>
      /\ job'.kind = job.kind /\ job'.range = job.range /\ job'.text = job.text
      /\ job'.importing = job.importing /\ job'.organize = job.organize
      /\ job'.batch = job.batch /\ job'.step = job.step
  BY <1>1, <1>2, FailedItems
<1>4. TypeInv'
  BY <1>1, <1>3 DEF TypeInv
<1>5. job'.step \in 1..IF job'.importing THEN 2 ELSE 1
  BY <1>2, <1>3 DEF Planned
<1>6. Planned(job)'
  BY <1>1, <1>2, <1>3, <1>5, PlannedSame
<1> QED
  BY <1>3, <1>4, <1>6 DEF JobInv, Sent

\* The host saves an action.
LEMMA JobSave ==
    ASSUME TypeInv, JobInv, SaveAction
    PROVE  /\ TypeInv' /\ JobInv'
           /\ job'.kind = job.kind /\ job'.range = job.range /\ job'.text = job.text
           /\ job'.importing = job.importing /\ job'.batch = job.batch
           /\ ImportNext => pc' = "applying" /\ job'.step = 2
           /\ ~ImportNext => pc' \in {"organizing", "reporting"} /\ job'.items = <<"ok">>
           /\ ImportNext \/ job'.step = job.step
<1>1. /\ pc = "saving" /\ disk' = buffer
      /\ UNCHANGED <<rules, buffer, keys, requests, outcome, calm, unsaved>>
  BY DEF SaveAction
<1>2. job \in Jobs /\ Planned(job) /\ buffer \in Texts
  BY <1>1 DEF TypeInv, JobInv, Sent
<1>3. job.step < Len(job.batch) <=> ImportNext
  BY <1>2, ActionIs
<1>4. job.step \in 1..IF job.importing THEN 2 ELSE 1
  BY <1>2 DEF Planned
<1>5. CASE ImportNext
  <2>1. pc' = "applying" /\ job' = [job EXCEPT !.step = @ + 1]
    BY <1>3, <1>5 DEF SaveAction
  <2>2. /\ job' \in Jobs /\ job'.kind = job.kind /\ job'.range = job.range /\ job'.text = job.text
        /\ job'.importing = job.importing /\ job'.organize = job.organize
        /\ job'.batch = job.batch /\ job'.step = job.step + 1
    BY <1>2, <2>1, SteppedJob
  <2>3. job.importing /\ job'.step = 2
    BY <1>5, <2>2 DEF ImportNext
  <2>4. TypeInv'
    BY <1>1, <1>2, <2>1, <2>2 DEF TypeInv
  <2>5. job'.step \in 1..IF job'.importing THEN 2 ELSE 1
    BY <2>2, <2>3
  <2>6. Planned(job)'
    BY <1>1, <1>2, <2>2, <2>5, PlannedSame
  <2>7. JobInv'
    BY <2>1, <2>6 DEF JobInv, Sent
  <2> QED
    BY <1>5, <2>1, <2>2, <2>3, <2>4, <2>7
<1>6. CASE ~ImportNext
  <2>1. /\ pc' = IF job.organize THEN "organizing" ELSE "reporting"
        /\ job' = [job EXCEPT !.items = <<"ok">>]
    BY <1>3, <1>6 DEF SaveAction
  <2>2. <<"ok">> \in Seq(Statuses)
    BY ItemRows DEF Statuses
  <2>3. /\ job' \in Jobs /\ job'.kind = job.kind /\ job'.range = job.range /\ job'.text = job.text
        /\ job'.importing = job.importing /\ job'.organize = job.organize
        /\ job'.batch = job.batch /\ job'.step = job.step /\ job'.items = <<"ok">>
    BY <1>2, <2>1, <2>2, ItemsJob
  <2>4. TypeInv'
    BY <1>1, <1>2, <2>1, <2>3 DEF TypeInv
  <2>5. job'.step \in 1..IF job'.importing THEN 2 ELSE 1
    BY <1>4, <2>3
  <2>6. Planned(job)'
    BY <1>1, <1>2, <2>3, <2>5, PlannedSame
  <2>7. JobInv'
    BY <2>1, <2>3, <2>6 DEF JobInv, Sent
  <2> QED
    BY <1>6, <2>1, <2>3, <2>4, <2>7
<1> QED
  BY <1>5, <1>6

\* The host organizes the imports.
LEMMA JobOrganize ==
    ASSUME TypeInv, JobInv, NEW status \in {"ok", "failed"}, OrganizeImports(status)
    PROVE  /\ TypeInv' /\ JobInv'
           /\ job'.kind = job.kind /\ job'.range = job.range /\ job'.text = job.text
           /\ job'.importing = job.importing /\ job'.step = job.step
           /\ job'.items = <<"ok", status>>
<1>1. /\ pc = "organizing" /\ pc' = "reporting"
      /\ job' = [job EXCEPT !.items = Append(job.items, status)]
      /\ disk' \in {disk, buffer} /\ calm' = (calm /\ status = "ok")
      /\ UNCHANGED <<rules, buffer, keys, requests, outcome, unsaved>>
  BY DEF OrganizeImports
<1>2. job \in Jobs /\ Planned(job) /\ job.organize /\ job.items = <<"ok">>
  BY <1>1 DEF TypeInv, JobInv, Sent
<1>3. <<"ok", status>> \in Seq(Statuses) /\ Append(job.items, status) = <<"ok", status>>
  <2>1. "ok" \in Statuses /\ status \in Statuses
    BY DEF Statuses
  <2> QED
    BY <1>2, <2>1, ItemRows
<1>4. job' = [job EXCEPT !.items = <<"ok", status>>]
  BY <1>1, <1>3
<1>5. /\ job' \in Jobs /\ job'.kind = job.kind /\ job'.range = job.range /\ job'.text = job.text
      /\ job'.importing = job.importing /\ job'.organize = job.organize
      /\ job'.batch = job.batch /\ job'.step = job.step /\ job'.items = <<"ok", status>>
  BY <1>2, <1>3, <1>4, ItemsJob
<1>6. disk' \in Texts /\ calm' \in BOOLEAN
  BY <1>1 DEF TypeInv
<1>7. TypeInv'
  BY <1>1, <1>5, <1>6 DEF TypeInv
<1>8. job'.step \in 1..IF job'.importing THEN 2 ELSE 1
  BY <1>2, <1>5 DEF Planned
<1>9. Planned(job)'
  BY <1>1, <1>2, <1>5, <1>8, PlannedSame
<1>10. job'.items \in {<<"failed", "skipped">>, <<"ok", "ok">>, <<"ok", "failed">>}
  BY <1>5
<1>11. JobInv'
  BY <1>1, <1>2, <1>5, <1>9, <1>10 DEF JobInv, Sent
<1> QED
  BY <1>5, <1>7, <1>11

\* What the user does: a change of the buffer, in which no import appears, or a save.
LEMMA UserCases ==
    ASSUME TypeInv, User
    PROVE  /\ UNCHANGED <<rules, requests, pc, job, outcome, unsaved>>
           /\ \/ /\ keys' = keys + 1 /\ calm' = FALSE /\ disk' = disk /\ buffer' \in Texts
                 /\ Once(buffer) => Once(buffer')
                 /\ NewImport \in LinesOf(buffer') => NewImport \in LinesOf(buffer)
              \/ keys' = keys /\ calm' = calm /\ buffer' = buffer /\ disk' = buffer
<1>1. buffer \in Texts
  BY DEF TypeInv
<1>2. ASSUME NEW t \in Typed, NEW p \in 1..Len(buffer), Type(t, p)
      PROVE  /\ UNCHANGED <<rules, requests, pc, job, outcome, unsaved>>
             /\ keys' = keys + 1 /\ calm' = FALSE /\ disk' = disk /\ buffer' \in Texts
             /\ Once(buffer) => Once(buffer')
             /\ NewImport \in LinesOf(buffer') => NewImport \in LinesOf(buffer)
  <2> DEFINE b == SubSeq(buffer, 1, p - 1) \o <<t>> \o SubSeq(buffer, p, Len(buffer))
  <2>1. t \in Line /\ t # NewImport
    BY LinesAssumption DEF Line
  <2>2. /\ b \in Texts
        /\ Once(buffer) => Once(b)
        /\ NewImport \in LinesOf(b) => NewImport \in LinesOf(buffer)
    BY <1>1, <2>1, LineTyped
  <2>3. /\ UNCHANGED <<rules, requests, pc, job, outcome, unsaved>>
        /\ keys' = keys + 1 /\ calm' = FALSE /\ disk' = disk /\ buffer' = b
    BY <1>2 DEF Type, ByHand
  <2> HIDE DEF b
  <2> QED
    BY <2>2, <2>3
<1>3. ASSUME NEW p \in 1..Len(buffer), Erase(p)
      PROVE  /\ UNCHANGED <<rules, requests, pc, job, outcome, unsaved>>
             /\ keys' = keys + 1 /\ calm' = FALSE /\ disk' = disk /\ buffer' \in Texts
             /\ Once(buffer) => Once(buffer')
             /\ NewImport \in LinesOf(buffer') => NewImport \in LinesOf(buffer)
  <2> DEFINE b == SubSeq(buffer, 1, p - 1) \o SubSeq(buffer, p + 1, Len(buffer))
  <2>1. p \in 1..Len(buffer) - 1
    BY <1>3 DEF Erase
  <2>2. /\ b \in Texts
        /\ Once(buffer) => Once(b)
        /\ NewImport \in LinesOf(b) => NewImport \in LinesOf(buffer)
    BY <1>1, <2>1, LineErased
  <2>3. /\ UNCHANGED <<rules, requests, pc, job, outcome, unsaved>>
        /\ keys' = keys + 1 /\ calm' = FALSE /\ disk' = disk /\ buffer' = b
    BY <1>3 DEF Erase, ByHand
  <2> HIDE DEF b
  <2> QED
    BY <2>2, <2>3
<1>4. CASE Save
  BY <1>4 DEF Save
<1> QED
  BY <1>2, <1>3, <1>4 DEF User

\* While the job stays as it is.
LEMMA JobKept ==
    ASSUME TypeInv, JobInv, UNCHANGED <<rules, requests, pc, job, outcome, unsaved>>,
           keys' \in Nat, calm' \in BOOLEAN, buffer' \in Texts, disk' \in Texts
    PROVE  TypeInv' /\ JobInv'
<1>1. TypeInv'
  BY DEF TypeInv
<1>2. Sent => Planned(job)'
  <2>1. Sent => Planned(job) /\ job.step \in 1..IF job.importing THEN 2 ELSE 1
    BY DEF JobInv, Planned
  <2> QED
    BY <2>1, PlannedSame
<1>3. Aimed(job)' = Aimed(job) /\ Asked(job)' = Asked(job)
  BY DEF Aimed, Asked, Ordered
<1>4. JobInv'
  BY <1>2, <1>3 DEF JobInv, Sent
<1> QED
  BY <1>1, <1>4

\* Every step of the three, and stuttering.
LEMMA StepCases ==
    ASSUME TypeInv, [Next]_vars
    PROVE  \/ User
           \/ \E kind \in Kinds, by \in Sources, r \in PlacePairs :
                  /\ Ask(kind, by, r)
                  /\ by # "none" => Ordered(r)
                  /\ kind = "append" => r = NoRange
           \/ Read
           \/ ReadFails \/ PlanFails \/ Report
           \/ \E importing, organize \in BOOLEAN, p \in 1..Len(job.text) : Plan(importing, organize, p)
           \/ ApplyAction
           \/ StaleRange \/ ApplyRefused \/ SaveFails
           \/ SaveAction
           \/ \E status \in {"ok", "failed"} : OrganizeImports(status)
           \/ UNCHANGED vars
<1>1. CASE Handler
  BY <1>1, HandlerCases
<1>2. User \/ Handler \/ Host \/ UNCHANGED vars
  BY DEF Next, Rest
<1> QED
  BY <1>1, <1>2 DEF Host

\* Every step keeps the types and the job.
LEMMA JobNext ==
    TypeInv /\ JobInv /\ [Next]_vars => TypeInv' /\ JobInv'
<1> SUFFICES ASSUME TypeInv, JobInv, [Next]_vars PROVE TypeInv' /\ JobInv'
  OBVIOUS
<1>1. CASE User
  <2>1. keys + 1 \in Nat
    BY DEF TypeInv
  <2>2. /\ UNCHANGED <<rules, requests, pc, job, outcome, unsaved>>
        /\ keys' \in Nat /\ calm' \in BOOLEAN /\ buffer' \in Texts /\ disk' \in Texts
    BY <1>1, <2>1, UserCases DEF TypeInv
  <2> QED
    BY <2>2, JobKept
<1>2. ASSUME NEW kind \in Kinds, NEW by \in Sources, NEW r \in PlacePairs, Ask(kind, by, r),
             by # "none" => Ordered(r), kind = "append" => r = NoRange
      PROVE  TypeInv' /\ JobInv'
  BY <1>2, JobAsk
<1>3. CASE Read
  BY <1>3, JobRead
<1>4. CASE ReadFails \/ PlanFails \/ Report
  BY <1>4, JobGivesUp
<1>5. ASSUME NEW importing \in BOOLEAN, NEW organize \in BOOLEAN, NEW p \in 1..Len(job.text),
             Plan(importing, organize, p)
      PROVE  TypeInv' /\ JobInv'
  BY <1>5, JobPlan
<1>6. CASE ApplyAction
  BY <1>6, JobApply
<1>7. CASE StaleRange \/ ApplyRefused \/ SaveFails
  BY <1>7, JobFails
<1>8. CASE SaveAction
  BY <1>8, JobSave
<1>9. ASSUME NEW status \in {"ok", "failed"}, OrganizeImports(status)
      PROVE  TypeInv' /\ JobInv'
  BY <1>9, JobOrganize
<1>10. CASE UNCHANGED vars
  <2>1. /\ UNCHANGED <<rules, requests, pc, job, outcome, unsaved>>
        /\ keys' \in Nat /\ calm' \in BOOLEAN /\ buffer' \in Texts /\ disk' \in Texts
    BY <1>10 DEF vars, TypeInv
  <2> QED
    BY <2>1, JobKept
<1> QED
  BY <1>1, <1>2, <1>3, <1>4, <1>5, <1>6, <1>7, <1>8, <1>9, <1>10, StepCases

-----------------------------------------------------------------------------
(* Imports.                                                                *)

\* At first a file has an import once, and the buffer has the file.
LEMMA ImportInit ==
    Init => ImportInv
<1> SUFFICES ASSUME Init PROVE ImportInv
  OBVIOUS
<1>1. PICK f \in Files : disk = f.text /\ buffer = f.text
  BY DEF Init
<1>2. Once(f.text)
  BY FilesAssumption DEF Once
<1>3. pc = "idle"
  BY DEF Init
<1> QED
  BY <1>1, <1>2, <1>3 DEF ImportInv

\* An import gets into the buffer by one action only, which is planned when the file that
\* was read has none; and what is in the buffer and was not refused by the disk is saved
\* before the next file is read.
LEMMA ImportNextStep ==
    TypeInv /\ JobInv /\ ImportInv /\ [Next]_vars => ImportInv'
<1> SUFFICES ASSUME TypeInv, JobInv, ImportInv, [Next]_vars PROVE ImportInv'
  OBVIOUS
<1>0. TypeInv' /\ JobInv'
  BY JobNext
<1>1. CASE User
  <2>1. UNCHANGED <<rules, requests, pc, job, outcome, unsaved>>
    BY <1>1, UserCases
  <2>2. CASE /\ disk' = disk
             /\ Once(buffer) => Once(buffer')
             /\ NewImport \in LinesOf(buffer') => NewImport \in LinesOf(buffer)
    BY <2>1, <2>2 DEF ImportInv, ImportNext
  <2>3. CASE buffer' = buffer /\ disk' = buffer
    BY <2>1, <2>3 DEF ImportInv, ImportNext
  <2> QED
    BY <1>1, <2>2, <2>3, UserCases
<1>2. ASSUME NEW kind \in Kinds, NEW by \in Sources, NEW r \in PlacePairs, Ask(kind, by, r)
      PROVE  ImportInv'
  <2>1. pc = "idle" /\ pc' = "asked" /\ UNCHANGED <<disk, buffer, unsaved>>
    BY <1>2 DEF Ask
  <2> QED
    BY <2>1 DEF ImportInv
<1>3. CASE Read
  <2>1. pc = "asked" /\ UNCHANGED <<disk, buffer, unsaved>>
    BY <1>3 DEF Read
  <2>2. CASE pc' = "idle"
    BY <2>1, <2>2 DEF ImportInv
  <2>3. CASE pc' = "planning" /\ job'.text = disk
    BY <2>1, <2>3 DEF ImportInv
  <2>4. pc' = "idle" \/ (pc' = "planning" /\ job'.text = disk)
    <3>1. job \in Jobs
      BY DEF TypeInv
    <3> QED
      BY <1>3, <3>1 DEF Read, End, Jobs
  <2> QED
    BY <2>2, <2>3, <2>4
<1>4. CASE ReadFails \/ PlanFails \/ Report
  <2>1. /\ pc \in {"asked", "planning", "reporting"} /\ pc' = "idle"
        /\ UNCHANGED <<disk, buffer, unsaved>>
    BY <1>4 DEF ReadFails, PlanFails, Report, End
  <2> QED
    BY <2>1 DEF ImportInv
<1>5. ASSUME NEW importing \in BOOLEAN, NEW organize \in BOOLEAN, NEW p \in 1..Len(job.text),
             Plan(importing, organize, p)
      PROVE  ImportInv'
  <2>1. pc = "planning" /\ pc' = "applying" /\ UNCHANGED <<disk, buffer, unsaved>>
    BY <1>5 DEF Plan
  <2>2. job'.text = job.text
    <3>1. job \in Jobs
      BY DEF TypeInv
    <3> QED
      BY <1>5, <3>1 DEF Plan, Jobs
  <2>3. ImportNext' => NewImport \notin LinesOf(job.text)
    BY <1>0, <2>1, <2>2 DEF JobInv, Sent, Planned, ImportNext
  <2> QED
    BY <2>1, <2>3 DEF ImportInv
<1>6. CASE ApplyAction
  <2>1. pc = "applying" /\ pc' = "saving" /\ UNCHANGED <<disk, job, unsaved>>
    BY <1>6 DEF ApplyAction
  <2>2. job \in Jobs /\ Planned(job) /\ buffer \in Texts
    BY <2>1 DEF TypeInv, JobInv, Sent
  <2>3. Once(buffer) /\ (ImportNext => NewImport \notin LinesOf(buffer)) => Once(buffer')
    BY <1>6, <2>2, ApplyLeaves
  <2> QED
    BY <2>1, <2>3 DEF ImportInv
<1>7. CASE StaleRange \/ ApplyRefused
  <2>1. pc = "applying" /\ pc' = "reporting" /\ UNCHANGED <<disk, buffer, unsaved>>
    BY <1>7 DEF StaleRange, ApplyRefused, FailEdit
  <2> QED
    BY <2>1 DEF ImportInv
<1>8. CASE SaveFails
  BY <1>8 DEF SaveFails, ImportInv
<1>9. CASE SaveAction
  <2>1. pc = "saving" /\ disk' = buffer /\ UNCHANGED <<buffer, unsaved>>
    BY <1>9 DEF SaveAction
  <2>2. (pc' = "applying" /\ job'.step = 2) \/ pc' \in {"organizing", "reporting"}
    BY <1>9, JobSave
  <2> QED
    BY <2>1, <2>2 DEF ImportInv, ImportNext
<1>10. ASSUME NEW status \in {"ok", "failed"}, OrganizeImports(status)
       PROVE  ImportInv'
  <2>1. /\ pc = "organizing" /\ pc' = "reporting" /\ disk' \in {disk, buffer}
        /\ UNCHANGED <<buffer, unsaved>>
    BY <1>10 DEF OrganizeImports
  <2> QED
    BY <2>1 DEF ImportInv
<1>11. CASE UNCHANGED vars
  BY <1>11 DEF vars, ImportInv, ImportNext
<1> QED
  BY <1>1, <1>2, <1>3, <1>4, <1>5, <1>6, <1>7, <1>8, <1>9, <1>10, <1>11, StepCases

-----------------------------------------------------------------------------
(* Code.                                                                   *)

\* There is a failure among these.
LEMMA FailureIn ==
    /\ "failed" \notin LinesOf(<<"ok">>)
    /\ "failed" \notin LinesOf(<<"ok", "ok">>)
    /\ "failed" \in LinesOf(<<"failed">>)
    /\ "failed" \in LinesOf(<<"failed", "skipped">>)
    /\ "failed" \in LinesOf(<<"ok", "failed">>)
<1>1. \A i \in 1..1 : i = 1
  OBVIOUS
<1>2. \A i \in 1..2 : i = 1 \/ i = 2
  OBVIOUS
<1>3. 1 \in 1..1 /\ 1 \in 1..2 /\ 2 \in 1..2
  OBVIOUS
<1>4. \A a : Len(<<a>>) = 1 /\ <<a>>[1] = a
  OBVIOUS
<1>5. \A a, b : Len(<<a, b>>) = 2 /\ <<a, b>>[1] = a /\ <<a, b>>[2] = b
  OBVIOUS
<1>6. "failed" # "ok"
  OBVIOUS
<1>7. "failed" \notin LinesOf(<<"ok">>)
  BY <1>1, <1>4, <1>6 DEF LinesOf
<1>8. "failed" \notin LinesOf(<<"ok", "ok">>)
  BY <1>2, <1>5, <1>6 DEF LinesOf
<1>9. "failed" \in LinesOf(<<"failed">>)
  BY <1>3, <1>4 DEF LinesOf
<1>10. "failed" \in LinesOf(<<"failed", "skipped">>)
  BY <1>3, <1>5 DEF LinesOf
<1>11. "failed" \in LinesOf(<<"ok", "failed">>)
  BY <1>3, <1>5 DEF LinesOf
<1> QED
  BY <1>7, <1>8, <1>9, <1>10, <1>11

\* A failure of the edit is among the items.
LEMMA EditFailed ==
    ASSUME TypeInv, StaleRange \/ ApplyRefused \/ SaveFails
    PROVE  pc' = "reporting" /\ "failed" \in LinesOf(job'.items)
<1>1. job \in Jobs /\ FailEdit
  BY DEF TypeInv, StaleRange, ApplyRefused, SaveFails
<1>2. pc' = "reporting" /\ job'.items = IF job.organize THEN <<"failed", "skipped">> ELSE <<"failed">>
  BY <1>1, FailedItems
<1> QED
  BY <1>2, FailureIn

\* Only the last action makes the batch applied, and it puts the code in; what comes after
\* does not touch the buffer, unless the user does.
LEMMA CodeNextStep ==
    TypeInv /\ JobInv /\ CodeInv /\ [Next]_vars => CodeInv'
<1> SUFFICES ASSUME TypeInv, JobInv, CodeInv, [Next]_vars PROVE CodeInv'
  OBVIOUS
<1>1. CASE User
  <2>1. UNCHANGED <<rules, requests, pc, job, outcome, unsaved>>
    BY <1>1, UserCases
  <2>2. calm' = FALSE \/ (calm' = calm /\ buffer' = buffer)
    BY <1>1, UserCases
  <2> QED
    BY <2>1, <2>2 DEF CodeInv, Applied, ImportNext
<1>2. CASE pc' \in {"idle", "asked", "planning", "applying"}
  BY <1>2 DEF CodeInv, Applied
<1>3. ASSUME NEW kind \in Kinds, NEW by \in Sources, NEW r \in PlacePairs, Ask(kind, by, r)
      PROVE  pc' = "asked"
  BY <1>3 DEF Ask
<1>4. Read => pc' \in {"idle", "planning"}
  BY DEF Read, End
<1>5. ReadFails \/ PlanFails \/ Report => pc' = "idle"
  BY DEF ReadFails, PlanFails, Report, End
<1>6. ASSUME NEW importing \in BOOLEAN, NEW organize \in BOOLEAN, NEW p \in 1..Len(job.text),
             Plan(importing, organize, p)
      PROVE  pc' = "applying"
  BY <1>6 DEF Plan
<1>7. CASE ApplyAction
  <2>1. pc = "applying" /\ pc' = "saving" /\ UNCHANGED <<job, calm>>
    BY <1>7 DEF ApplyAction
  <2>2. job \in Jobs /\ Planned(job) /\ buffer \in Texts
    BY <2>1 DEF TypeInv, JobInv, Sent
  <2>3. ~ImportNext /\ job.kind # "delete" => LinesOf(buffer') \intersect {NewCode, Glued} # {}
    BY <1>7, <2>2, ApplyLeaves
  <2>4. Applied' => ~ImportNext
    BY <2>1 DEF Applied, ImportNext
  <2> QED
    BY <2>1, <2>3, <2>4 DEF CodeInv
<1>8. CASE StaleRange \/ ApplyRefused \/ SaveFails
  <2>1. pc' = "reporting" /\ "failed" \in LinesOf(job'.items)
    BY <1>8, EditFailed
  <2>2. ~Applied'
    BY <2>1 DEF Applied
  <2> QED
    BY <2>2 DEF CodeInv
<1>9. CASE SaveAction
  <2>1. pc = "saving" /\ UNCHANGED <<buffer, calm>>
    BY <1>9 DEF SaveAction
  <2>2. job'.kind = job.kind /\ (ImportNext => pc' = "applying")
    BY <1>9, JobSave
  <2>3. CASE ImportNext
    BY <1>2, <2>2, <2>3
  <2>4. CASE ~ImportNext
    BY <2>1, <2>2, <2>4 DEF CodeInv, Applied
  <2> QED
    BY <2>3, <2>4
<1>10. ASSUME NEW status \in {"ok", "failed"}, OrganizeImports(status)
       PROVE  CodeInv'
  <2>1. pc = "organizing" /\ buffer' = buffer /\ calm' = (calm /\ status = "ok")
    BY <1>10 DEF OrganizeImports
  <2>2. job'.kind = job.kind
    BY <1>10, JobOrganize
  <2>3. job.items = <<"ok">>
    BY <2>1 DEF JobInv
  <2>4. Applied
    BY <2>1, <2>3, FailureIn DEF Applied
  <2> QED
    BY <2>1, <2>2, <2>4 DEF CodeInv
<1>11. CASE UNCHANGED vars
  BY <1>11 DEF vars, CodeInv, Applied, ImportNext
<1> QED
  BY <1>1, <1>2, <1>3, <1>4, <1>5, <1>6, <1>7, <1>8, <1>9, <1>10, <1>11, StepCases

-----------------------------------------------------------------------------
(* An undisturbed utterance.                                               *)

\* What an utterance means depends on the language and on what was asked and read.
LEMMA MeaningSame ==
    ASSUME rules' = rules, job'.kind = job.kind, job'.text = job.text,
           job'.range = job.range, job'.importing = job.importing
    PROVE  /\ Intended' = Intended /\ Miscounted' = Miscounted /\ Overlaps' = Overlaps
           /\ Imported(job.text)' = Imported(job.text)
<1>1. Intended' = Intended
  BY DEF Intended, InsertLine, Separated, ImportBlock
<1>2. Overlaps' = Overlaps
  BY DEF Overlaps, Straddles, EndsAtImports, InsertLine
<1>3. Miscounted' = Miscounted
  BY <1>2 DEF Miscounted, CreatedBelow, InsertLine, Separated
<1>4. Imported(job.text)' = Imported(job.text)
  BY DEF Imported, InsertLine, Separated, ImportBlock
<1> QED
  BY <1>1, <1>2, <1>3, <1>4

\* A text with imports, in its parts: what is above them, their block, what is below.
LEMMA ImportedParts ==
    ASSUME NEW t \in Texts, InsertLine(t) <= Len(t)
    PROVE  LET p == InsertLine(t)
               above == Before(t, p)
               below == After(t, p)
               top == Join(above, Block(t))
           IN  /\ p \in 1..Len(t) /\ above \in Texts /\ below \in Texts /\ top \in Texts
               /\ Len(above) = p /\ above[p] = Blank /\ Len(below) = Len(t) - p + 1
               /\ Len(top) = p + Len(ImportBlock(t)) /\ top[Len(top)] = Blank
               /\ t = Join(above, below)
               /\ Imported(t) = Join(top, below)
               /\ Imported(t) = Join(above, Join(Block(t), below))
<1> DEFINE p == InsertLine(t)
           above == Before(t, p)
           below == After(t, p)
           block == Block(t)
           top == Join(above, block)
<1>1. p \in PlacesIn(t) /\ p \in 1..Len(t)
  <2>1. p \in PlacesIn(t)
    BY InsertLinePlace
  <2>2. Len(t) \in Nat
    BY TextEnds
  <2> QED
    BY <2>1, <2>2 DEF PlacesIn
<1>2. /\ above \in Texts /\ Len(above) = p /\ above[p] = Blank
      /\ below \in Texts /\ Len(below) = Len(t) - p + 1
  BY <1>1, BeforeLine, AfterLine
<1>3. /\ block \in Texts /\ Len(block) = Len(ImportBlock(t)) + 1 /\ Len(ImportBlock(t)) \in {1, 2}
      /\ \A i \in 2..Len(block) : block[i] = Blank
  BY BlockLines
<1>4. t = Join(above, below)
  BY <1>1, BeforeJoinAfter
<1>5. Imported(t) = Join(top, below)
  <2>1. p \in Nat
    BY <1>1, TextEnds
  <2>2. At(p).first = p /\ At(p).last = p
    BY <2>1, AtPair
  <2> QED
    BY <2>2 DEF Imported, Block, Substituted
<1> HIDE DEF above, below, block
<1>6. Join(top, below) = Join(above, Join(block, below))
  BY <1>2, <1>3, JoinAssociative
<1>7. /\ top \in Texts /\ Len(top) = Len(above) + Len(block) - 1
      /\ \A i \in Len(above) + 1..Len(above) + Len(block) - 1 : top[i] = block[i - Len(above) + 1]
  BY <1>2, <1>3, JoinLines
<1> HIDE DEF top
<1>8. p \in Nat /\ Len(ImportBlock(t)) \in Nat /\ Len(ImportBlock(t)) >= 1
  <2>1. \A n \in {1, 2} : n \in Nat /\ n >= 1
    OBVIOUS
  <2>2. p \in Nat
    BY <1>1, TextEnds
  <2> QED
    BY <1>3, <2>1, <2>2
<1>9. Len(top) = p + Len(ImportBlock(t))
  BY <1>2, <1>3, <1>7, <1>8
<1>10. top[Len(top)] = Blank
  <2>1. /\ Len(top) \in Len(above) + 1..Len(above) + Len(block) - 1
        /\ Len(top) - Len(above) + 1 = Len(block) /\ Len(block) \in 2..Len(block)
    BY <1>2, <1>3, <1>8, <1>9
  <2> QED
    BY <1>3, <1>7, <2>1
<1> QED
  BY <1>1, <1>2, <1>4, <1>5, <1>6, <1>7, <1>9, <1>10 DEF above, below, block, top

\* A text with imports, in two parts, wherever the imports go.
LEMMA ImportedInTwo ==
    ASSUME NEW t \in Texts
    PROVE  LET p == InsertLine(t)
               above == Before(t, p)
               below == After(t, p)
           IN  /\ p \in PlacesIn(t) /\ p \in Nat /\ above \in Texts /\ below \in Texts
               /\ \A q \in Nat : q >= 1 /\ ~(q >= p) => q \in 1..Len(above)
               /\ t = Join(above, below)
               /\ Imported(t) = Join(Join(above, Block(t)), below)
               /\ Imported(t) = Join(above, Join(Block(t), below))
<1> DEFINE p == InsertLine(t)
           above == Before(t, p)
           below == After(t, p)
           block == Block(t)
<1>1. p \in PlacesIn(t) /\ Len(t) \in Nat /\ p \in Nat
  BY InsertLinePlace, TextEnds DEF PlacesIn
<1>2. above \in Texts /\ below \in Texts /\ t = Join(above, below)
  BY <1>1, BeforeAfterType, BeforeJoinAfter
<1>3. block \in Texts
  BY BlockLines
<1>4. \A q \in Nat : q >= 1 /\ ~(q >= p) => q \in 1..Len(above)
  <2>1. CASE p \in 1..Len(t)
    <3>1. Len(above) = p
      BY <2>1, BeforeLine
    <3> HIDE DEF above, p
    <3> QED
      BY <1>1, <3>1
  <2>2. CASE p = Len(t) + 1
    <3>1. above = t
      BY <2>2, BeforeEnd
    <3> HIDE DEF above
    <3> QED
      BY <1>1, <2>2, <3>1
  <2> QED
    BY <1>1, <2>1, <2>2, PlaceCases
<1>5. Imported(t) = Join(Join(above, block), below)
  <2>1. At(p).first = p /\ At(p).last = p
    BY <1>1, AtPair
  <2> QED
    BY <2>1 DEF Imported, Block, Substituted
<1> HIDE DEF above, below, block
<1>6. Join(Join(above, block), below) = Join(above, Join(block, below))
  BY <1>2, <1>3, JoinAssociative
<1> QED
  BY <1>1, <1>2, <1>4, <1>5, <1>6 DEF above, below, block

\* A range below the imports is the same range of the text below, whether the imports are
\* in or not, and moved down when they are.
LEMMA BelowImports ==
    ASSUME NEW t \in Texts, InsertLine(t) <= Len(t), NEW c \in Texts,
           NEW r, r.first \in PlacesIn(t), r.last \in PlacesIn(t),
           r.first >= InsertLine(t), r.last >= InsertLine(t),
           NEW s, s.first = r.first + Len(ImportBlock(t)), s.last = r.last + Len(ImportBlock(t)),
           NEW u, u.first = r.first - InsertLine(t) + 1, u.last = r.last - InsertLine(t) + 1
    PROVE  /\ s.first \in PlacesIn(Imported(t)) /\ s.last \in PlacesIn(Imported(t))
           /\ Substituted(Imported(t), s, c) =
                  Join(Join(Before(t, InsertLine(t)), Block(t)),
                       Substituted(After(t, InsertLine(t)), u, c))
           /\ r.first <= r.last => Slice(Imported(t), s) = Slice(t, r)
<1> DEFINE p == InsertLine(t)
           n == Len(ImportBlock(t))
           above == Before(t, p)
           below == After(t, p)
           top == Join(above, Block(t))
<1>1. /\ p \in 1..Len(t) /\ above \in Texts /\ below \in Texts /\ top \in Texts
      /\ Len(above) = p /\ above[p] = Blank /\ Len(below) = Len(t) - p + 1
      /\ Len(top) = p + n /\ top[Len(top)] = Blank
      /\ t = Join(above, below) /\ Imported(t) = Join(top, below)
  BY ImportedParts
<1>2. /\ Len(t) \in Nat /\ p \in Nat /\ n \in Nat
      /\ r.first \in 1..Len(t) + 1 /\ r.last \in 1..Len(t) + 1
      /\ PlacesIn(below) = 1..Len(below) + 1
  BY <1>1, BlockLines, TextEnds DEF PlacesIn
<1>12. above[Len(above)] = Blank
  BY <1>1
<1> HIDE DEF p, n, above, below, top
<1>3. /\ r.first >= p /\ r.last >= p /\ s.first = r.first + n /\ s.last = r.last + n
      /\ u.first = r.first - p + 1 /\ u.last = r.last - p + 1
  BY DEF p, n
<1>4. /\ u.first \in PlacesIn(below) /\ u.last \in PlacesIn(below)
      /\ r.first <= r.last => u.first <= u.last
  <2>1. PlacesIn(below) = 1..(Len(t) - p + 1) + 1
    BY <1>1, <1>2
  <2>2. \A x \in 1..Len(t) + 1 : x >= p => x - p + 1 \in 1..(Len(t) - p + 1) + 1
    BY <1>2
  <2>3. \A x, y \in 1..Len(t) + 1 : x <= y => x - p + 1 <= y - p + 1
    BY <1>2
  <2> QED
    BY <1>2, <1>3, <2>1, <2>2, <2>3
<1>5. /\ s.first = Len(top) - 1 + u.first /\ s.last = Len(top) - 1 + u.last
      /\ r.first = Len(above) - 1 + u.first /\ r.last = Len(above) - 1 + u.last
  <2>1. \A x \in 1..Len(t) + 1 :
            x + n = (p + n) - 1 + (x - p + 1) /\ x = p - 1 + (x - p + 1)
    BY <1>2
  <2> QED
    BY <1>1, <1>2, <1>3, <2>1
<1>6. s.first \in PlacesIn(Join(top, below)) /\ s.last \in PlacesIn(Join(top, below))
  BY <1>1, <1>4, <1>5, BeforeInSecond
<1>7. Substituted(Join(top, below), s, c) = Join(top, Substituted(below, u, c))
  BY <1>1, <1>4, <1>5, SubstitutedInSecond
<1>8. ASSUME r.first <= r.last
      PROVE  Slice(Join(top, below), s) = Slice(Join(above, below), r)
  <2>1. Slice(Join(top, below), s) = Slice(below, u)
    BY <1>1, <1>4, <1>5, <1>8, SliceInSecond
  <2>2. Slice(Join(above, below), r) = Slice(below, u)
    <3>1. /\ above \in Texts /\ below \in Texts /\ u.first \in PlacesIn(below)
          /\ u.last \in PlacesIn(below) /\ u.first <= u.last
      BY <1>1, <1>4, <1>8
    <3>2. r.first = Len(above) - 1 + u.first /\ r.last = Len(above) - 1 + u.last
      BY <1>5
    <3>3. ASSUME NEW w, w.first = Len(above) - 1 + u.first, w.last = Len(above) - 1 + u.last
          PROVE  Slice(Join(above, below), w) = Slice(below, u)
      BY <1>12, <3>1, <3>3, SliceInSecond
    <3> QED
      BY <3>2, <3>3
  <2> QED
    BY <2>1, <2>2
<1> QED
  BY <1>1, <1>6, <1>7, <1>8 DEF p, above, below, top

\* A range above the imports is the same range whether the imports are in or not.
LEMMA AboveImports ==
    ASSUME NEW t \in Texts, NEW c \in Texts,
           NEW r, r.first \in Nat, r.last \in Nat, r.first >= 1, r.last >= 1,
           ~(r.first >= InsertLine(t)), ~(r.last >= InsertLine(t))
    PROVE  /\ r.first \in PlacesIn(Imported(t)) /\ r.last \in PlacesIn(Imported(t))
           /\ Substituted(Imported(t), r, c) =
                  Join(Join(Substituted(Before(t, InsertLine(t)), r, c), Block(t)),
                       After(t, InsertLine(t)))
           /\ Slice(Imported(t), r) = Slice(t, r)
<1> DEFINE p == InsertLine(t)
           above == Before(t, p)
           below == After(t, p)
           block == Block(t)
           rest == Join(block, below)
<1>1. /\ above \in Texts /\ below \in Texts
      /\ \A q \in Nat : q >= 1 /\ ~(q >= p) => q \in 1..Len(above)
      /\ t = Join(above, below) /\ Imported(t) = Join(above, rest)
  BY ImportedInTwo
<1>2. block \in Texts
  BY BlockLines
<1> HIDE DEF above, below, block
<1>3. rest \in Texts
  BY <1>1, <1>2, JoinLines
<1> HIDE DEF rest
<1>4. r.first \in 1..Len(above) /\ r.last \in 1..Len(above)
  BY <1>1
<1>5. r.first \in 1..Len(Join(above, rest)) /\ r.last \in 1..Len(Join(above, rest))
  BY <1>1, <1>3, <1>4, BeforeInFirst
<1>6. \A a \in Texts : \A q \in 1..Len(a) : q \in PlacesIn(a)
  BY TextEnds DEF PlacesIn
<1>7. Join(above, rest) \in Texts
  BY <1>1, <1>3, JoinLines
<1>8. r.first \in PlacesIn(Join(above, rest)) /\ r.last \in PlacesIn(Join(above, rest))
  BY <1>5, <1>6, <1>7
<1>9. Substituted(Join(above, rest), r, c) = Join(Substituted(above, r, c), rest)
  BY <1>1, <1>3, <1>4, SubstitutedInFirst
<1>10. Substituted(above, r, c) \in Texts
  BY <1>1, <1>4, <1>6, SubstitutedType
<1>11. Join(Substituted(above, r, c), rest) = Join(Join(Substituted(above, r, c), block), below)
  BY <1>1, <1>2, <1>10, JoinAssociative DEF rest
<1>12. Slice(Join(above, rest), r) = Slice(Join(above, below), r)
  <2>1. Slice(Join(above, rest), r) = Slice(above, r)
    BY <1>1, <1>3, <1>4, SliceInFirst
  <2>2. Slice(Join(above, below), r) = Slice(above, r)
    BY <1>1, <1>4, SliceInFirst
  <2> QED
    BY <2>1, <2>2
<1> QED
  BY <1>1, <1>8, <1>9, <1>11, <1>12 DEF above, below, block

\* The core's copy of the file with the import has the line before which code is created
\* where the shifted range says.
LEMMA SyntheticLine ==
    ASSUME NEW t \in Texts, NEW q \in 1..Len(t), q >= InsertLine(t) => Len(ImportBlock(t)) = 1,
           NEW s, s = IF q >= InsertLine(t) THEN q + Len(ImportBlock(t)) ELSE q
    PROVE  s \in Nat /\ s <= Len(Synthetic(t)) /\ Synthetic(t)[s] = t[q]
<1> DEFINE p == InsertLine(t)
           x == SubSeq(t, 1, p - 1)
           g == <<NewImport>>
           y == SubSeq(t, p, Len(t))
           u == x \o g
           v == u \o y
<1>1. /\ Len(t) \in Nat /\ p \in Nat /\ q \in Nat
      /\ p - 1 \in 0..Len(t) /\ p \in 1..Len(t) + 1
  <2>1. p \in 1..Len(t) + 1 /\ Len(t) \in Nat
    BY InsertLinePlace, TextEnds DEF PlacesIn
  <2> QED
    BY <2>1
<1>2. x \in Seq(Line) /\ Len(x) = p - 1 /\ \A i \in 1..p - 1 : x[i] = t[i]
  BY <1>1, FirstLines
<1>3. y \in Seq(Line) /\ Len(y) = Len(t) - p + 1 /\ \A i \in 1..Len(t) - p + 1 : y[i] = t[p + i - 1]
  BY <1>1, LinesFrom
<1>4. g \in Seq(Line) /\ Len(g) = 1
  BY ShortTexts DEF Line, Texts
<1>5. Synthetic(t) = v
  BY DEF Synthetic
<1> HIDE DEF x, g, y
<1>6. /\ u \in Seq(Line) /\ Len(u) = Len(x) + Len(g) /\ \A i \in 1..Len(x) : u[i] = x[i]
  BY <1>2, <1>4, RowsJoined
<1> HIDE DEF u
<1>7. /\ v \in Seq(Line) /\ Len(v) = Len(u) + Len(y)
      /\ \A i \in 1..Len(u) : v[i] = u[i]
      /\ \A i \in Len(u) + 1..Len(u) + Len(y) : v[i] = y[i - Len(u)]
  BY <1>3, <1>6, RowsJoined
<1> HIDE DEF v
<1>8. Len(u) = p /\ Len(v) = Len(t) + 1
  <2>1. Len(u) = (p - 1) + 1 /\ Len(v) = Len(u) + (Len(t) - p + 1)
    BY <1>2, <1>3, <1>4, <1>6, <1>7
  <2> QED
    BY <1>1, <2>1
<1>9. CASE q >= p
  <2>1. /\ s = q + 1 /\ s \in Len(u) + 1..Len(u) + Len(y) /\ s - Len(u) \in 1..Len(t) - p + 1
        /\ p + (s - Len(u)) - 1 = q /\ s \in Nat /\ s <= Len(v)
    <3>1. s = q + 1
      BY <1>9
    <3>2. \A k, l, i \in Nat :
              1 <= k /\ k <= i /\ i <= l =>
                  /\ i + 1 \in k + 1..k + (l - k + 1) /\ i + 1 - k \in 1..l - k + 1
                  /\ k + (i + 1 - k) - 1 = i /\ i + 1 \in Nat /\ i + 1 <= l + 1
      OBVIOUS
    <3>3. 1 <= p /\ p <= q /\ q <= Len(t)
      BY <1>1, <1>9
    <3> DEFINE l == Len(t)
               k == p
    <3>4. l \in Nat /\ k \in Nat /\ q \in Nat /\ 1 <= k /\ k <= q /\ q <= l
      BY <1>1, <3>3
    <3>5. Len(u) = k /\ Len(y) = l - k + 1 /\ Len(v) = l + 1
      BY <1>3, <1>8
    <3> HIDE DEF l, k
    <3>6. /\ q + 1 \in k + 1..k + (l - k + 1) /\ q + 1 - k \in 1..l - k + 1
          /\ k + (q + 1 - k) - 1 = q /\ q + 1 \in Nat /\ q + 1 <= l + 1
      BY <3>2, <3>4
    <3>7. /\ q + 1 \in Len(u) + 1..Len(u) + Len(y) /\ (q + 1) - Len(u) \in 1..l - k + 1
          /\ k + ((q + 1) - Len(u)) - 1 = q /\ q + 1 \in Nat /\ q + 1 <= Len(v)
      BY <3>5, <3>6
    <3> QED
      BY <3>1, <3>7 DEF l, k
  <2>2. v[s] = y[s - Len(u)]
    BY <1>7, <2>1
  <2>3. y[s - Len(u)] = t[p + (s - Len(u)) - 1]
    BY <1>3, <2>1
  <2> QED
    BY <1>5, <2>1, <2>2, <2>3
<1>10. CASE ~(q >= p)
  <2>1. /\ s = q /\ s \in 1..p - 1 /\ s \in 1..Len(x) /\ s \in 1..Len(u)
        /\ s \in Nat /\ s <= Len(v)
    BY <1>1, <1>2, <1>8, <1>10
  <2> QED
    BY <1>2, <1>5, <1>6, <1>7, <2>1
<1> QED
  BY <1>9, <1>10

\* The host leaves a range alone that is within the text, so the text it holds and what
\* replaces it are those of the range.
LEMMA ValidatedSame ==
    ASSUME NEW a \in Texts, NEW r, r.first \in PlacesIn(a), r.last \in PlacesIn(a)
    PROVE  /\ Slice(a, Validated(a, r)) = Slice(a, r)
           /\ \A c : Substituted(a, Validated(a, r), c) = Substituted(a, r, c)
<1>1. Validated(a, r) = [first |-> r.first, last |-> r.last]
  BY ValidatedWithin
<1>2. Validated(a, r).first = r.first /\ Validated(a, r).last = r.last
  BY <1>1
<1> QED
  BY <1>2 DEF Slice, Substituted

\* The action that inserts the imports, when nobody interferes.
LEMMA UndisturbedImport ==
    ASSUME job \in Jobs, Planned(job), ImportNext, buffer = job.text
    PROVE  Matches /\ Substituted(buffer, Place, Action.new) = Imported(job.text)
<1> DEFINE t == job.text
           p == InsertLine(t)
           c == ImportAction(t)
<1>1. t \in Texts /\ p \in PlacesIn(t)
  BY InsertLinePlace DEF Planned, Aimed
<1>2. Action = c
  BY ActionIs
<1>3. c.kind = "replace" /\ c.range = At(p) /\ c.new = Block(t) /\ c.expected = <<Blank>>
  BY <1>1, ImportParts
<1>4. p \in Nat
  BY <1>1, TextEnds DEF PlacesIn
<1>5. At(p).first = p /\ At(p).last = p
  BY <1>4, AtPair
<1> HIDE DEF p, c
<1>6. /\ Slice(t, Validated(t, At(p))) = Slice(t, At(p))
      /\ Substituted(t, Validated(t, At(p)), Block(t)) = Substituted(t, At(p), Block(t))
  BY <1>1, <1>5, ValidatedSame
<1>7. Slice(t, At(p)) = <<Blank>>
  BY <1>1, SliceAt
<1>8. Matches
  BY <1>2, <1>3, <1>6, <1>7 DEF Matches
<1>9. Place = Validated(t, At(p))
  BY <1>2, <1>3 DEF Place
<1> QED
  BY <1>2, <1>3, <1>6, <1>8, <1>9 DEF Imported, Block, p

\* What the utterance is about, and what is to stand there.
Target == IF job.kind = "append" THEN At(Len(job.text) + 1) ELSE job.range

Meant ==
    CASE job.kind = "create" /\ job.text[Target.first] # Blank -> <<NewCode, Blank>>
      [] job.kind = "create" /\ job.text[Target.first] = Blank -> <<NewCode>>
      [] job.kind = "append" -> ToAppend(job.text)
      [] OTHER -> Answer(job.kind, Slice(job.text, Target))

\* Counted from the line of the imports.
Below == [first |-> Target.first - InsertLine(job.text) + 1,
          last |-> Target.last - InsertLine(job.text) + 1]

\* What is intended, in these words.
LEMMA IntendedIs ==
    LET t == job.text
        p == InsertLine(t)
    IN  /\ ~job.importing => Intended = Substituted(t, Target, Meant)
        /\ job.importing /\ Target.first >= p =>
               Intended = Join(Join(Before(t, p), Block(t)), Substituted(After(t, p), Below, Meant))
        /\ job.importing /\ ~(Target.first >= p) =>
               Intended = Join(Join(Substituted(Before(t, p), Target, Meant), Block(t)), After(t, p))
BY DEF Intended, Target, Meant, Below, Block

\* The target of a change that is not an append is in the text that was read.
LEMMA TargetIn ==
    ASSUME job \in Jobs, Planned(job), job.kind # "append"
    PROVE  /\ Target = job.range /\ job.range \in PlacePairs
           /\ job.range.first \in 1..Len(job.text) /\ job.range.last \in 1..Len(job.text)
           /\ job.range.first <= job.range.last
           /\ job.range.first \in PlacesIn(job.text) /\ job.range.last \in PlacesIn(job.text)
           /\ job.kind = "create" =>
                  job.range = At(job.range.first) /\ job.range.first = job.range.last
<1>1. job.text \in Texts /\ job.kind \in Kinds /\ job.range \in PlacePairs
  BY JobParts DEF Planned, Aimed
<1>2. Target = job.range
  BY DEF Target
<1>3. CASE job.kind = "create"
  <2>1. PICK p \in 1..Len(job.text) : job.range = At(p)
    BY <1>3 DEF Planned
  <2>2. Len(job.text) \in Nat /\ p \in Nat
    BY <1>1, TextEnds
  <2>3. At(p).first = p /\ At(p).last = p
    BY <2>2, AtPair
  <2>4. p \in PlacesIn(job.text)
    BY <2>1, <2>2 DEF PlacesIn
  <2> QED
    BY <1>1, <1>2, <1>3, <2>1, <2>2, <2>3, <2>4
<1>4. CASE job.kind \in {"edit", "delete"}
  <2>1. Ordered(job.range) /\ job.range.last <= Len(job.text)
    BY <1>4 DEF Planned, Aimed
  <2> QED
    BY <1>1, <1>2, <1>4, <2>1, TargetPlaces
<1> QED
  BY <1>1, <1>3, <1>4 DEF Kinds

\* The new code is the same, whether the core looks at the text or at its own copy with
\* the imports.
LEMMA MeantIs ==
    ASSUME job \in Jobs, Planned(job), ~ImportNext, ~Miscounted
    PROVE  Action.new = Meant
<1> DEFINE t == job.text
           r == job.range
           c == Change(job.kind, r, t, job.importing)
<1>1. /\ t \in Texts /\ job.kind \in Kinds /\ r \in PlacePairs /\ job.importing \in BOOLEAN
      /\ job.kind \in {"edit", "delete"} => Ordered(r) /\ r.last <= Len(t)
      /\ job.kind = "create" => \E p \in 1..Len(t) : r = At(p)
  BY JobParts DEF Planned, Aimed
<1>2. Action = c
  BY ActionIs
<1>3. /\ job.kind = "append" => c.new = ToAppend(t)
      /\ job.kind # "append" => c.range = IF job.importing THEN Shifted(r, t) ELSE r
      /\ job.kind = "create" => c.new = Affixed(c.range, IF job.importing THEN Synthetic(t) ELSE t)
      /\ job.kind \in {"edit", "delete"} => c.new = Answer(job.kind, Slice(t, r))
  BY <1>1, ChangeParts
<1> HIDE DEF c
<1>4. CASE job.kind = "append"
  BY <1>2, <1>3, <1>4 DEF Meant
<1>5. CASE job.kind \in {"edit", "delete"}
  <2>1. Target = r
    BY <1>5, TargetIn
  <2> QED
    BY <1>2, <1>3, <1>5, <2>1 DEF Meant
<1>6. CASE job.kind = "create"
  <2> DEFINE q == r.first
  <2>1. Target = r /\ q \in 1..Len(t) /\ q \in Nat
    BY <1>1, <1>6, TargetIn, TextEnds
  <2>2. Meant = IF t[q] # Blank THEN <<NewCode, Blank>> ELSE <<NewCode>>
    BY <1>6, <2>1 DEF Meant
  <2>3. CASE ~job.importing
    <3>1. q <= Len(t) /\ c.new = Affixed(r, t)
      BY <1>1, <1>3, <1>6, <2>1, <2>3, TextEnds
    <3> QED
      BY <1>2, <2>2, <3>1 DEF Affixed
  <2>4. CASE job.importing
    <3> DEFINE s == Shifted(r, t)
    <3>1. c.new = Affixed(s, Synthetic(t))
      BY <1>3, <1>6, <2>4
    <3>2. q >= InsertLine(t) => ~Separated(t)
      BY <1>6, <2>4 DEF Miscounted, CreatedBelow
    <3>3. q >= InsertLine(t) => Len(ImportBlock(t)) = 1
      BY <3>2 DEF ImportBlock
    <3>4. s.first = IF q >= InsertLine(t) THEN q + Len(ImportBlock(t)) ELSE q
      BY <1>1, ShiftedPair
    <3>5. s.first <= Len(Synthetic(t)) /\ Synthetic(t)[s.first] = t[q]
      <4> DEFINE f == s.first
      <4>1. t \in Texts /\ q \in 1..Len(t) /\ f = IF q >= InsertLine(t) THEN q + Len(ImportBlock(t)) ELSE q
        BY <1>1, <2>1, <3>4
      <4> HIDE DEF f, s, q
      <4>2. f <= Len(Synthetic(t)) /\ Synthetic(t)[f] = t[q]
        BY <3>3, <4>1, SyntheticLine
      <4> QED
        BY <4>2 DEF f
    <3> QED
      BY <1>2, <2>2, <3>1, <3>5 DEF Affixed
  <2> QED
    BY <2>3, <2>4
<1> QED
  BY <1>1, <1>4, <1>5, <1>6 DEF Kinds

\* A text with imports is a text.
LEMMA ImportedText ==
    ASSUME NEW t \in Texts
    PROVE  Imported(t) \in Texts
<1> DEFINE p == InsertLine(t)
<1>1. Before(t, p) \in Texts /\ After(t, p) \in Texts
  BY ImportedInTwo
<1>2. Imported(t) = Join(Join(Before(t, p), Block(t)), After(t, p))
  BY ImportedInTwo
<1> QED
  BY <1>1, <1>2, BlockLines, JoinLines

\* The lengths of a text and of the text with the imports.
LEMMA ImportedLength ==
    ASSUME NEW t \in Texts, InsertLine(t) <= Len(t)
    PROVE  Imported(t) \in Texts /\ Len(Imported(t)) = Len(t) + Len(ImportBlock(t))
<1> DEFINE p == InsertLine(t)
           n == Len(ImportBlock(t))
           below == After(t, p)
           top == Join(Before(t, p), Block(t))
<1>1. /\ p \in 1..Len(t) /\ below \in Texts /\ top \in Texts /\ Len(below) = Len(t) - p + 1
      /\ Len(top) = p + n /\ Imported(t) = Join(top, below)
  BY ImportedParts
<1>2. Len(t) \in Nat /\ p \in Nat /\ n \in Nat
  BY <1>1, BlockLines, TextEnds
<1> HIDE DEF p, n, below, top
<1>3. Join(top, below) \in Texts /\ Len(Join(top, below)) = Len(top) + Len(below) - 1
  BY <1>1, JoinLines
<1>4. Len(top) + Len(below) - 1 = Len(t) + n
  BY <1>1, <1>2
<1> QED
  BY <1>1, <1>3, <1>4 DEF n

\* Before and after the only place of a blank line.
LEMMA BlankParts ==
    Before(<<Blank>>, 1) = <<Blank>> /\ After(<<Blank>>, 1) = <<Blank>>
<1> DEFINE a == <<Blank>>
<1>1. a \in Texts /\ Len(a) = 1 /\ a[1] = Blank
  BY ShortTexts DEF Line
<1> HIDE DEF a
<1>2. 1 \in 1..Len(a) /\ \A i \in 1..Len(a) : i = 1
  BY <1>1
<1>3. Before(a, 1) \in Texts /\ Len(Before(a, 1)) = Len(a) /\ Before(a, 1)[1] = Blank
  BY <1>1, <1>2, BeforeLine
<1>4. Before(a, 1) = a
  BY <1>1, <1>2, <1>3, SameText
<1>5. After(a, 1) \in Texts /\ Len(After(a, 1)) = Len(a) /\ After(a, 1)[1] = a[1]
  <2>1. /\ After(a, 1) \in Texts /\ Len(After(a, 1)) = Len(a) - 1 + 1
        /\ \A i \in 1..Len(a) - 1 + 1 : After(a, 1)[i] = a[1 + i - 1]
    BY <1>1, <1>2, AfterLine
  <2>2. 1 - 1 + 1 = 1 /\ 1 + 1 - 1 = 1 /\ 1 \in 1..1
    OBVIOUS
  <2> QED
    BY <1>1, <2>1, <2>2
<1>6. After(a, 1) = a
  BY <1>1, <1>2, <1>5, SameText
<1> QED
  BY <1>4, <1>6 DEF a

\* The code that is appended, when nobody interferes.
LEMMA UndisturbedAppend ==
    ASSUME job \in Jobs, Planned(job), ~ImportNext, ~Miscounted, job.kind = "append",
           buffer = IF job.importing THEN Imported(job.text) ELSE job.text
    PROVE  Matches /\ Substituted(buffer, Place, Action.new) = Intended
<1> DEFINE t == job.text
           p == InsertLine(t)
           n == Len(ImportBlock(t))
           r == At(Len(t) + 1)
           s == At(Len(buffer) + 1)
<1>1. t \in Texts /\ Meant \in Texts /\ Target = r
  <2>1. Meant = ToAppend(t)
    BY DEF Meant
  <2> QED
    BY <2>1, NewTexts DEF Planned, Aimed, Target
<1>2. Action.kind = "append"
  <2>1. /\ job.kind \in Kinds /\ job.range \in PlacePairs /\ job.importing \in BOOLEAN
        /\ ~(job.kind \in {"edit", "delete"}) /\ job.kind # "create"
    BY JobParts DEF Planned, Aimed
  <2>2. Change(job.kind, job.range, t, job.importing).kind = "append"
    BY <1>1, <2>1, ChangeParts
  <2> QED
    BY <2>2, ActionIs
<1>3. Matches /\ Place = s
  BY <1>2 DEF Matches, Place
<1>4. Action.new = Meant
  BY MeantIs
<1>5. CASE ~job.importing
  BY <1>1, <1>3, <1>4, <1>5, IntendedIs
<1>6. CASE job.importing /\ p <= Len(t)
  <2>1. Len(t) \in Nat /\ p \in Nat /\ n \in Nat /\ p <= Len(t)
    BY <1>1, <1>6, InsertLinePlace, TextEnds, BlockLines DEF PlacesIn
  <2>2. buffer = Imported(t) /\ Len(buffer) = Len(t) + n
    BY <1>1, <1>6, <2>1, ImportedLength
  <2>3. /\ r.first = Len(t) + 1 /\ r.last = Len(t) + 1
        /\ s.first = Len(t) + n + 1 /\ s.last = Len(t) + n + 1
    <3> DEFINE l == Len(t)
    <3>1. l + 1 \in Nat /\ l + n + 1 \in Nat
      <4>1. \A a, b \in Nat : a + 1 \in Nat /\ a + b + 1 \in Nat
        OBVIOUS
      <4> QED
        BY <2>1, <4>1
    <3>2. At(l + 1).first = l + 1 /\ At(l + 1).last = l + 1
      BY <3>1, AtPair
    <3>3. At(l + n + 1).first = l + n + 1 /\ At(l + n + 1).last = l + n + 1
      BY <3>1, AtPair
    <3> HIDE DEF l
    <3>4. r = At(l + 1) /\ s = At(l + n + 1)
      BY <2>2 DEF l
    <3> HIDE DEF r, s
    <3> QED
      BY <3>2, <3>3, <3>4 DEF l
  <2>4. Len(t) + 1 \in PlacesIn(t) /\ Len(t) + 1 >= p /\ Len(t) + n + 1 = Len(t) + 1 + n
    <3> DEFINE l == Len(t)
    <3> HIDE DEF l, n, p
    <3>1. l \in Nat /\ n \in Nat /\ p \in Nat /\ p <= l
      BY <2>1 DEF l, n, p
    <3>2. l + 1 \in 1..l + 1 /\ l + 1 >= p /\ l + n + 1 = l + 1 + n
      BY <3>1
    <3> QED
      BY <3>2 DEF PlacesIn, l
  <2>5. /\ Below.first = r.first - p + 1 /\ Below.last = r.last - p + 1
    BY <1>1 DEF Below
  <2> HIDE DEF r, s
  <2>6. r.first \in PlacesIn(t) /\ r.last \in PlacesIn(t) /\ r.first >= p /\ r.last >= p
    BY <2>3, <2>4
  <2>7. s.first = r.first + n /\ s.last = r.last + n
    BY <2>3, <2>4
  <2> DEFINE b == Below
             m == Meant
  <2>8. b.first = r.first - p + 1 /\ b.last = r.last - p + 1 /\ m \in Texts
    BY <1>1, <2>5
  <2> HIDE DEF b, m
  <2>9. Substituted(Imported(t), s, m) =
            Join(Join(Before(t, p), Block(t)), Substituted(After(t, p), b, m))
    BY <1>1, <2>1, <2>6, <2>7, <2>8, BelowImports
  <2>10. Intended = Join(Join(Before(t, p), Block(t)), Substituted(After(t, p), b, m))
    BY <1>1, <1>6, <2>6, IntendedIs DEF b, m
  <2> QED
    BY <1>3, <1>4, <2>2, <2>9, <2>10 DEF m
<1>7. CASE job.importing /\ ~(p <= Len(t))
  <2>1. p = Len(t) + 1 /\ Len(t) \in Nat
    <3>1. Len(t) \in Nat /\ p \in 1..Len(t) + 1
      BY <1>1, InsertLinePlace, TextEnds DEF PlacesIn
    <3> HIDE DEF p
    <3> QED
      BY <1>7, <3>1
  <2>2. At(p).first = p /\ At(p).last = p
    BY <2>1, AtPair
  <2> DEFINE b == Below
             m == Meant
  <2>3. r = At(p) /\ Target.first >= p /\ b.first = 1 /\ b.last = 1 /\ m \in Texts
    BY <1>1, <2>1, <2>2 DEF Below
  <2>4. Intended = Join(Join(Before(t, p), Block(t)), Substituted(After(t, p), b, m))
    BY <1>7, <2>3, IntendedIs
  <2>5. After(t, p) = <<Blank>>
    BY <1>1, <2>1, AfterEnd
  <2>6. <<Blank>> \in Texts /\ \A a \in Texts : Join(a, <<Blank>>) = a /\ Join(<<Blank>>, a) = a
    <3>1. <<Blank>> \in Texts
      BY ShortTexts DEF Line
    <3> QED
      BY <3>1, JoinUnit
  <2> HIDE DEF b, m
  <2>7. Substituted(<<Blank>>, b, m) = m
    <3>1. Before(<<Blank>>, 1) = <<Blank>> /\ After(<<Blank>>, 1) = <<Blank>>
      BY BlankParts
    <3> QED
      BY <2>3, <2>6, <3>1 DEF Substituted
  <2> DEFINE top == Join(Before(t, p), Block(t))
  <2>8. buffer = Join(top, <<Blank>>) /\ top \in Texts
    <3>1. buffer = Join(top, After(t, p)) /\ Before(t, p) \in Texts
      BY <1>1, <1>7, ImportedInTwo
    <3> QED
      BY <2>5, <3>1, BlockLines, JoinLines
  <2> HIDE DEF top
  <2>9. buffer = top /\ Len(top) \in Nat
    BY <2>6, <2>8, TextEnds
  <2>10. Substituted(top, At(Len(top) + 1), m) = Join(top, m)
    <3>1. At(Len(top) + 1).first = Len(top) + 1 /\ At(Len(top) + 1).last = Len(top) + 1
      BY <2>9, AtPair
    <3>2. Before(top, Len(top) + 1) = top /\ After(top, Len(top) + 1) = <<Blank>>
      BY <2>8, BeforeEnd, AfterEnd
    <3>3. Join(top, m) \in Texts
      BY <2>3, <2>8, JoinLines
    <3> QED
      BY <2>6, <3>1, <3>2, <3>3 DEF Substituted
  <2> QED
    BY <1>3, <1>4, <2>4, <2>5, <2>7, <2>9, <2>10 DEF m, top
<1> QED
  BY <1>5, <1>6, <1>7

\* A change of a range, when nobody interferes.
LEMMA UndisturbedReplace ==
    ASSUME job \in Jobs, Planned(job), ~ImportNext, ~Miscounted, job.kind # "append",
           buffer = IF job.importing THEN Imported(job.text) ELSE job.text
    PROVE  Matches /\ Substituted(buffer, Place, Action.new) = Intended
<1> DEFINE t == job.text
           p == InsertLine(t)
           n == Len(ImportBlock(t))
           r == job.range
           s == Action.range
<1>1. /\ t \in Texts /\ job.kind \in Kinds /\ r \in PlacePairs /\ job.importing \in BOOLEAN
      /\ job.kind \in {"edit", "delete"} => Ordered(r) /\ r.last <= Len(t)
      /\ job.kind = "create" => \E q \in 1..Len(t) : r = At(q)
  BY JobParts DEF Planned, Aimed
<1>2. /\ Target = r /\ r.first \in 1..Len(t) /\ r.last \in 1..Len(t) /\ r.first <= r.last
      /\ r.first \in PlacesIn(t) /\ r.last \in PlacesIn(t)
      /\ job.kind = "create" => r = At(r.first) /\ r.first = r.last
  BY TargetIn
<1>3. Action = Change(job.kind, r, t, job.importing)
  BY ActionIs
<1>4. /\ Action.kind = "replace" /\ s = IF job.importing THEN Shifted(r, t) ELSE r
      /\ job.kind = "create" => Action.expected = <<Blank>>
      /\ job.kind \in {"edit", "delete"} => Action.expected = Slice(t, r)
  BY <1>1, <1>3, ChangeParts
<1>5. Action.expected = Slice(t, r)
  <2>1. ASSUME job.kind = "create" PROVE Slice(t, r) = <<Blank>>
    BY <1>1, <1>2, <2>1, SliceAt
  <2> QED
    BY <1>1, <1>4, <2>1 DEF Kinds
<1>6. Action.new = Meant /\ Meant \in Texts
  BY MeantIs, ActionParts
<1> SUFFICES /\ s.first \in PlacesIn(buffer) /\ s.last \in PlacesIn(buffer) /\ buffer \in Texts
             /\ Slice(buffer, s) = Slice(t, r)
             /\ Substituted(buffer, s, Meant) = Intended
  <2>1. /\ Slice(buffer, Validated(buffer, s)) = Slice(buffer, s)
        /\ Substituted(buffer, Validated(buffer, s), Meant) = Substituted(buffer, s, Meant)
    BY ValidatedSame
  <2>2. Place = Validated(buffer, s)
    BY <1>4 DEF Place
  <2> QED
    BY <1>4, <1>5, <1>6, <2>1, <2>2 DEF Matches
<1>7. CASE ~job.importing
  BY <1>1, <1>2, <1>4, <1>7, IntendedIs
<1>8. CASE job.importing
  <2>1. /\ Len(t) \in Nat /\ p \in Nat /\ n \in Nat /\ buffer = Imported(t)
        /\ r.first \in Nat /\ r.last \in Nat
        /\ ~(r.first < p /\ p <= r.last)
    <3>1. p \in Nat /\ Len(t) \in Nat /\ n \in Nat
      BY <1>1, InsertLinePlace, TextEnds, BlockLines DEF PlacesIn
    <3>2. ~Straddles /\ ~EndsAtImports
      BY <1>8 DEF Miscounted, Overlaps
    <3> QED
      BY <1>2, <1>8, <3>1, <3>2 DEF Straddles, EndsAtImports
  <2>2. /\ s.first = IF r.first >= p THEN r.first + n ELSE r.first
        /\ s.last = IF r.last >= p THEN r.last + n ELSE r.last
    BY <1>1, <1>4, <1>8, ShiftedPair
  <2>3. buffer \in Texts
    BY <1>1, <2>1, ImportedText
  <2> DEFINE b == Below
             m == Meant
  <2>4. b.first = r.first - p + 1 /\ b.last = r.last - p + 1 /\ m \in Texts
    BY <1>2, <1>6 DEF Below
  <2>5. /\ r.first >= p =>
               Intended = Join(Join(Before(t, p), Block(t)), Substituted(After(t, p), b, m))
        /\ ~(r.first >= p) =>
               Intended = Join(Join(Substituted(Before(t, p), r, m), Block(t)), After(t, p))
    BY <1>2, <1>8, IntendedIs
  <2> HIDE DEF b, m, s, r
  <2>6. CASE r.first >= p
    <3>1. r.last >= p /\ p <= Len(t)
      BY <1>2, <2>1, <2>6
    <3>2. s.first = r.first + n /\ s.last = r.last + n
      BY <2>2, <2>6, <3>1
    <3>3. /\ s.first \in PlacesIn(Imported(t)) /\ s.last \in PlacesIn(Imported(t))
          /\ Substituted(Imported(t), s, m) =
                 Join(Join(Before(t, p), Block(t)), Substituted(After(t, p), b, m))
          /\ Slice(Imported(t), s) = Slice(t, r)
      BY <1>1, <1>2, <2>1, <2>4, <2>6, <3>1, <3>2, BelowImports
    <3> QED
      BY <2>1, <2>3, <2>5, <2>6, <3>3 DEF m
  <2>7. CASE ~(r.first >= p)
    <3>1. ~(r.last >= p) /\ r.first >= 1 /\ r.last >= 1
      BY <1>2, <2>1, <2>7
    <3>2. s.first = r.first /\ s.last = r.last
      BY <2>2, <2>7, <3>1
    <3>3. /\ r.first \in PlacesIn(Imported(t)) /\ r.last \in PlacesIn(Imported(t))
          /\ Substituted(Imported(t), r, m) =
                 Join(Join(Substituted(Before(t, p), r, m), Block(t)), After(t, p))
          /\ Slice(Imported(t), r) = Slice(t, r)
      BY <1>1, <2>1, <2>4, <2>7, <3>1, AboveImports
    <3>4. /\ Substituted(Imported(t), s, m) = Substituted(Imported(t), r, m)
          /\ Slice(Imported(t), s) = Slice(Imported(t), r)
      BY <3>2 DEF Substituted, Slice
    <3> QED
      BY <2>1, <2>3, <2>5, <2>7, <3>2, <3>3, <3>4 DEF m
  <2> QED
    BY <2>6, <2>7
<1> QED
  BY <1>7, <1>8

\* What a range holds is as long as the range.
LEMMA SliceLength ==
    ASSUME NEW a \in Texts, NEW r, r.first \in 1..Len(a), r.last \in 1..Len(a),
           r.first <= r.last
    PROVE  Len(Slice(a, r)) = r.last - r.first + 1
<1> DEFINE b == Before(a, r.last)
<1>1. b \in Texts /\ Len(b) = r.last
  BY BeforeLine
<1>2. Len(a) \in Nat /\ r.first \in Nat /\ r.last \in Nat /\ r.first \in 1..r.last
  BY TextEnds
<1> HIDE DEF b
<1>3. Len(After(b, r.first)) = Len(b) - r.first + 1
  BY <1>1, <1>2, AfterLine
<1> QED
  BY <1>1, <1>3 DEF Slice, b

\* A target that reaches the line of the imports gets their length, so that it no longer
\* holds what was read.
LEMMA OverlapIsStale ==
    ASSUME job \in Jobs, Planned(job), Overlaps, ~ImportNext, buffer = Imported(job.text)
    PROVE  ~Matches
<1> DEFINE t == job.text
           p == InsertLine(t)
           n == Len(ImportBlock(t))
           r == job.range
           s == Action.range
<1>1. /\ t \in Texts /\ job.kind \in Kinds /\ r \in PlacePairs /\ job.importing = TRUE
      /\ job.kind \in {"edit", "delete"} => Ordered(r) /\ r.last <= Len(t)
      /\ job.kind = "create" => \E q \in 1..Len(t) : r = At(q)
      /\ job.kind = "append" => r = NoRange
  BY JobParts DEF Planned, Aimed, Overlaps, Straddles, EndsAtImports
<1>2. p \in Nat /\ p >= 1 /\ Len(t) \in Nat /\ n \in Nat /\ n >= 1 /\ r.first \in Nat /\ r.last \in Nat
  <2>1. p \in Nat /\ p >= 1 /\ Len(t) \in Nat
    BY <1>1, InsertLinePlace, TextEnds DEF PlacesIn
  <2>2. n \in {1, 2}
    BY BlockLines
  <2>3. \A k \in {1, 2} : k \in Nat /\ k >= 1
    OBVIOUS
  <2> QED
    BY <1>1, <2>1, <2>2, <2>3 DEF PlacePairs
<1>3. r.first < p /\ p <= r.last
  <2>1. (r.first < p /\ p < r.last) \/ (r.first < p /\ p = r.last)
    BY DEF Overlaps, Straddles, EndsAtImports
  <2> QED
    BY <1>2, <2>1
<1>4. job.kind \in {"edit", "delete"}
  <2>1. job.kind # "create"
    <3>1. \A q \in Nat : At(q).first = q /\ At(q).last = q
      BY AtPair
    <3>2. ASSUME NEW q \in 1..Len(t), r = At(q) PROVE FALSE
      BY <1>2, <1>3, <3>1, <3>2
    <3> QED
      BY <1>1, <3>2
  <2>2. job.kind # "append"
    <3>1. At(0).first = 0 /\ At(0).last = 0
      BY AtPair
    <3> QED
      BY <1>1, <1>2, <1>3, <3>1 DEF NoRange
  <2> QED
    BY <1>1, <2>1, <2>2 DEF Kinds
<1>5. r.first >= 1 /\ r.first <= r.last /\ r.last <= Len(t)
  BY <1>4 DEF Planned, Aimed, Ordered
<1>6. Action = Change(job.kind, r, t, job.importing) /\ job.importing \in BOOLEAN
  BY <1>1, ActionIs
<1>7. /\ Action.kind = "replace" /\ s = Shifted(r, t) /\ Action.expected = Slice(t, r)
  <2>1. /\ Action.kind = "replace" /\ s = IF job.importing THEN Shifted(r, t) ELSE r
        /\ job.kind \in {"edit", "delete"} => Action.expected = Slice(t, r)
    <3>1. job.kind # "append"
      BY <1>4
    <3> QED
      BY <1>1, <1>6, <3>1, ChangeParts
  <2> QED
    BY <1>1, <1>4, <2>1
<1>8. s.first = r.first /\ s.last = r.last + n
  <2>1. /\ s.first = IF r.first >= p THEN r.first + n ELSE r.first
        /\ s.last = IF r.last >= p THEN r.last + n ELSE r.last
    BY <1>1, <1>7, ShiftedPair
  <2> HIDE DEF p, n, r, s
  <2> QED
    BY <1>2, <1>3, <2>1
<1>9. buffer \in Texts /\ Len(buffer) = Len(t) + n
  <2>1. p <= Len(t)
    BY <1>2, <1>3, <1>5
  <2> QED
    BY <1>1, <2>1, ImportedLength
<1> HIDE DEF p, n, r, s, t
<1>10. /\ s.first \in 1..Len(buffer) /\ s.last \in 1..Len(buffer) /\ s.first <= s.last
       /\ r.first \in 1..Len(t) /\ r.last \in 1..Len(t)
  BY <1>2, <1>5, <1>8, <1>9
<1>11. Slice(buffer, Validated(buffer, s)) = Slice(buffer, s)
  <2>1. s.first \in PlacesIn(buffer) /\ s.last \in PlacesIn(buffer)
    BY <1>2, <1>9, <1>10 DEF PlacesIn
  <2> QED
    BY <1>9, <2>1, ValidatedSame
<1>12. Len(Slice(buffer, s)) = s.last - s.first + 1 /\ Len(Slice(t, r)) = r.last - r.first + 1
  BY <1>1, <1>5, <1>9, <1>10, SliceLength DEF t
<1>13. Len(Slice(buffer, s)) # Len(Slice(t, r))
  BY <1>2, <1>8, <1>12
<1> QED
  BY <1>7, <1>11, <1>13 DEF Matches, s

\* Every action of an undisturbed batch does what it is for.
LEMMA Undisturbed ==
    ASSUME job \in Jobs, Planned(job), ImportNext \/ ~Miscounted,
           buffer = IF job.step = 1 THEN job.text ELSE Imported(job.text)
    PROVE  /\ Matches
           /\ Substituted(buffer, Place, Action.new) =
                  IF ImportNext THEN Imported(job.text) ELSE Intended
<1>1. CASE ImportNext
  <2>1. buffer = job.text
    BY <1>1 DEF ImportNext
  <2> QED
    BY <1>1, <2>1, UndisturbedImport
<1>2. CASE ~ImportNext
  <2>1. buffer = IF job.importing THEN Imported(job.text) ELSE job.text
    <3>1. job.step \in 1..IF job.importing THEN 2 ELSE 1
      BY DEF Planned
    <3>2. \A k \in 1..1 : k = 1
      OBVIOUS
    <3>3. ~job.importing => job.step = 1
      BY <3>1, <3>2
    <3> QED
      BY <1>2, <3>3 DEF ImportNext
  <2> QED
    BY <1>2, <2>1, UndisturbedAppend, UndisturbedReplace
<1> QED
  BY <1>1, <1>2

-----------------------------------------------------------------------------
(* An undisturbed utterance is on its way.                                 *)

LEMMA CalmInit ==
    Init => CalmInv
BY DEF Init, CalmInv

\* A step after which nothing is at the host.
LEMMA CalmElsewhere ==
    ASSUME calm' => pc' \in {"idle", "asked"}
    PROVE  CalmInv'
BY DEF CalmInv

\* What an undisturbed batch works on.
LEMMA CalmBuffer ==
    ASSUME TypeInv, JobInv, CalmInv, calm, pc = "applying"
    PROVE  /\ buffer = IF job.step = 1 THEN job.text ELSE Imported(job.text)
           /\ disk = buffer /\ job \in Jobs /\ Planned(job)
           /\ ~ImportNext => buffer = IF job.importing THEN Imported(job.text) ELSE job.text
<1>1. /\ buffer = IF job.step = 1 THEN job.text ELSE Imported(job.text)
      /\ disk = buffer /\ job \in Jobs /\ Planned(job)
  BY DEF CalmInv, TypeInv, JobInv, Sent
<1>2. job.step \in 1..IF job.importing THEN 2 ELSE 1
  BY <1>1 DEF Planned
<1>3. \A k \in 1..1 : k = 1
  OBVIOUS
<1>4. ~job.importing => job.step = 1
  BY <1>2, <1>3
<1> QED
  BY <1>1, <1>4 DEF ImportNext

\* An action of the batch is applied.
LEMMA CalmApply ==
    ASSUME TypeInv, JobInv, CalmInv, ApplyAction
    PROVE  CalmInv'
<1>1. /\ Intended' = Intended /\ Miscounted' = Miscounted /\ Overlaps' = Overlaps
      /\ Imported(job.text)' = Imported(job.text)
  BY MeaningSame DEF ApplyAction
<1>2. ImportNext' = ImportNext /\ pc' = "saving" /\ calm' = calm /\ pc = "applying" /\ Matches
      /\ buffer' = Substituted(buffer, Place, Action.new)
  BY DEF ApplyAction, ImportNext
<1>3. ASSUME calm PROVE Overlaps => ImportNext
  <2>1. job.importing = TRUE \/ ~Overlaps
    BY <1>2, <1>3, CalmBuffer, JobParts DEF Overlaps, Straddles, EndsAtImports
  <2> QED
    BY <1>2, <1>3, <2>1, CalmBuffer, OverlapIsStale
<1>4. ASSUME calm, ImportNext \/ ~Miscounted
      PROVE  buffer' = IF ImportNext THEN Imported(job.text) ELSE Intended
  BY <1>2, <1>4, CalmBuffer, Undisturbed
<1> QED
  BY <1>1, <1>2, <1>3, <1>4 DEF CalmInv

\* An action is refused, or a save fails: an undisturbed range is stale only when the
\* imports have reached it.
LEMMA CalmFails ==
    ASSUME TypeInv, JobInv, CalmInv, StaleRange \/ ApplyRefused \/ SaveFails
    PROVE  CalmInv'
<1>1. CASE ApplyRefused \/ SaveFails
  BY <1>1, CalmElsewhere DEF ApplyRefused, SaveFails
<1>2. CASE StaleRange
  <2>1. /\ job \in Jobs /\ FailEdit /\ pc = "applying" /\ ~Matches
        /\ rules' = rules /\ calm' = calm /\ buffer' = buffer /\ disk' = disk
    BY <1>2 DEF StaleRange, TypeInv
  <2>2. /\ pc' = "reporting"
        /\ job'.kind = job.kind /\ job'.text = job.text /\ job'.range = job.range
        /\ job'.importing = job.importing
        /\ job'.items = IF job.organize THEN <<"failed", "skipped">> ELSE <<"failed">>
    BY <2>1, FailedItems
  <2>3. /\ Miscounted' = Miscounted /\ Overlaps' = Overlaps
        /\ Imported(job.text)' = Imported(job.text)
    BY <2>1, <2>2, MeaningSame
  <2>4. "failed" \in LinesOf(job'.items)
    BY <2>2, FailureIn
  <2>5. ASSUME calm PROVE Miscounted /\ ~ImportNext
    BY <2>1, <2>5, CalmBuffer, Undisturbed
  <2>6. ASSUME calm, Overlaps PROVE buffer = Imported(job.text) /\ disk = buffer
    <3>1. job.importing
      BY <2>6 DEF Overlaps, Straddles, EndsAtImports
    <3> QED
      BY <2>1, <2>5, <2>6, <3>1, CalmBuffer
  <2> QED
    BY <2>1, <2>2, <2>3, <2>4, <2>5, <2>6 DEF CalmInv
<1> QED
  BY <1>1, <1>2

\* An action is saved.
LEMMA CalmSave ==
    ASSUME TypeInv, JobInv, CalmInv, SaveAction
    PROVE  CalmInv'
<1>1. /\ job'.kind = job.kind /\ job'.range = job.range /\ job'.text = job.text
      /\ job'.importing = job.importing
      /\ ImportNext => pc' = "applying" /\ job'.step = 2
      /\ ~ImportNext => pc' \in {"organizing", "reporting"} /\ job'.items = <<"ok">>
  BY JobSave
<1>2. /\ pc = "saving" /\ rules' = rules /\ calm' = calm /\ buffer' = buffer /\ disk' = buffer
  BY DEF SaveAction
<1>3. /\ Intended' = Intended /\ Miscounted' = Miscounted /\ Overlaps' = Overlaps
      /\ Imported(job.text)' = Imported(job.text)
  BY <1>1, <1>2, MeaningSame
<1>4. "failed" \notin LinesOf(<<"ok">>)
  BY FailureIn
<1>5. ASSUME calm
      PROVE  /\ ImportNext => buffer = Imported(job.text)
             /\ Overlaps => ImportNext
             /\ ~Miscounted /\ ~ImportNext => buffer = Intended
  BY <1>2, <1>5 DEF CalmInv
<1>6. CASE ImportNext
  <2>1. pc' = "applying" /\ job'.step # 1
    BY <1>1, <1>6
  <2> QED
    BY <1>2, <1>3, <1>5, <1>6, <2>1 DEF CalmInv
<1>7. CASE ~ImportNext
  <2>1. pc' \in {"organizing", "reporting"} /\ "failed" \notin LinesOf(job'.items)
    BY <1>1, <1>4, <1>7
  <2> QED
    BY <1>2, <1>3, <1>5, <1>7, <2>1 DEF CalmInv
<1> QED
  BY <1>6, <1>7

\* The imports are organized: what is not organized is not saved.
LEMMA CalmOrganize ==
    ASSUME TypeInv, JobInv, CalmInv, NEW status \in {"ok", "failed"}, OrganizeImports(status)
    PROVE  CalmInv'
<1>1. /\ job'.kind = job.kind /\ job'.range = job.range /\ job'.text = job.text
      /\ job'.importing = job.importing /\ job'.items = <<"ok", status>>
  BY JobOrganize
<1>2. /\ pc = "organizing" /\ pc' = "reporting" /\ rules' = rules /\ buffer' = buffer
      /\ disk' \in {disk, buffer} /\ calm' = (calm /\ status = "ok")
  BY DEF OrganizeImports
<1>3. Intended' = Intended /\ Miscounted' = Miscounted /\ Overlaps' = Overlaps
  BY <1>1, <1>2, MeaningSame
<1>4. ASSUME calm' PROVE calm /\ "failed" \notin LinesOf(job'.items)
  BY <1>1, <1>2, <1>4, FailureIn
<1>5. ASSUME calm
      PROVE  ~Overlaps /\ (~Miscounted => buffer = Intended /\ disk = buffer)
  BY <1>2, <1>5 DEF CalmInv
<1> QED
  BY <1>2, <1>3, <1>4, <1>5 DEF CalmInv

LEMMA CalmNextStep ==
    TypeInv /\ JobInv /\ CalmInv /\ [Next]_vars => CalmInv'
<1> SUFFICES ASSUME TypeInv, JobInv, CalmInv, [Next]_vars
             PROVE  CalmInv'
  OBVIOUS
<1>1. CASE UNCHANGED <<rules, pc, job, buffer, calm>> /\ disk' \in {disk, buffer}
  <2>1. /\ Intended' = Intended /\ Miscounted' = Miscounted /\ Overlaps' = Overlaps
        /\ Imported(job.text)' = Imported(job.text)
    BY <1>1, MeaningSame
  <2>2. ImportNext' = ImportNext
    BY <1>1 DEF ImportNext
  <2>3. pc' = pc /\ job' = job /\ buffer' = buffer /\ calm' = calm
    BY <1>1
  <2>4. ASSUME calm, pc = "planning" PROVE buffer = job.text /\ disk = job.text
    BY <2>4 DEF CalmInv
  <2>5. ASSUME calm, ~Miscounted
        PROVE  /\ pc = "saving" /\ ~ImportNext => buffer = Intended
               /\ pc \in {"organizing", "reporting"} =>
                      buffer = Intended /\ disk = buffer /\ "failed" \notin LinesOf(job.items)
    BY <2>5 DEF CalmInv
  <2>6. ASSUME calm
        PROVE  /\ pc = "applying" =>
                      /\ disk = buffer
                      /\ buffer = IF job.step = 1 THEN job.text ELSE Imported(job.text)
               /\ pc = "saving" /\ ImportNext => buffer = Imported(job.text)
    BY <2>6 DEF CalmInv
  <2>7. ASSUME calm, Overlaps
        PROVE  /\ pc = "saving" => ImportNext
               /\ pc # "organizing"
               /\ pc = "reporting" =>
                      /\ buffer = Imported(job.text) /\ disk = buffer
                      /\ "failed" \in LinesOf(job.items)
    BY <2>7 DEF CalmInv
  <2> QED
    BY <1>1, <2>1, <2>2, <2>3, <2>4, <2>5, <2>6, <2>7 DEF CalmInv
<1>2. CASE User
  <2>1. UNCHANGED <<rules, requests, pc, job, outcome, unsaved>>
    BY <1>2, UserCases
  <2>2. CASE calm' = FALSE
    BY <2>2, CalmElsewhere
  <2>3. CASE calm' = calm /\ buffer' = buffer /\ disk' = buffer
    BY <1>1, <2>1, <2>3
  <2> QED
    BY <1>2, <2>2, <2>3, UserCases
<1>3. CASE \E kind \in Kinds, by \in Sources, r \in PlacePairs : Ask(kind, by, r)
  BY <1>3, CalmElsewhere DEF Ask
<1>4. CASE Read
  <2>1. CASE pc' = "idle"
    BY <2>1, CalmElsewhere
  <2>2. CASE pc' # "idle"
    <3>1. /\ pc' = "planning" /\ job'.text = disk /\ disk' = disk /\ buffer' = buffer
          /\ calm' = (disk = buffer)
      <4> DEFINE r == IF job.kind \in {"edit", "delete"} THEN Resolved(job.by, job.range, disk)
                      ELSE job.range
                 j == [job EXCEPT !.by = "none", !.range = r, !.text = disk]
      <4>1. /\ pc' = "planning" /\ job' = j /\ disk' = disk /\ buffer' = buffer
            /\ calm' = (disk = buffer)
        BY <1>4, <2>2 DEF Read, End
      <4>2. j.text = disk
        BY DEF TypeInv, Jobs
      <4> QED
        BY <4>1, <4>2
    <3> QED
      BY <3>1 DEF CalmInv
  <2> QED
    BY <2>1, <2>2
<1>5. CASE ReadFails \/ PlanFails \/ Report
  BY <1>5, CalmElsewhere DEF ReadFails, PlanFails, Report, End
<1>6. CASE \E importing, organize \in BOOLEAN, p \in 1..Len(job.text) : Plan(importing, organize, p)
  <2>1. PICK importing \in BOOLEAN, organize \in BOOLEAN, p \in 1..Len(job.text) :
            Plan(importing, organize, p)
    BY <1>6
  <2> DEFINE r == IF job.kind = "create" THEN At(p) ELSE job.range
             new == job.kind # "delete" /\ NewImports(importing, job.text)
             j == [job EXCEPT !.range = r, !.importing = new, !.organize = new /\ organize,
                              !.batch = Batch(job.kind, r, job.text, new)]
  <2>2. /\ pc = "planning" /\ pc' = "applying" /\ job' = j
        /\ disk' = disk /\ buffer' = buffer /\ calm' = calm
    BY <2>1 DEF Plan
  <2>3. j.text = job.text /\ j.step = job.step
    BY DEF TypeInv, Jobs
  <2> HIDE DEF j
  <2>4. job'.text = job.text /\ job'.step = 1
    BY <2>2, <2>3 DEF JobInv
  <2>5. ASSUME calm PROVE buffer = job.text /\ disk = job.text
    BY <2>2, <2>5 DEF CalmInv
  <2> QED
    BY <2>2, <2>4, <2>5 DEF CalmInv
<1>7. CASE ApplyAction
  BY <1>7, CalmApply
<1>8. CASE StaleRange \/ ApplyRefused \/ SaveFails
  BY <1>8, CalmFails
<1>9. CASE SaveAction
  BY <1>9, CalmSave
<1>10. CASE \E status \in {"ok", "failed"} : OrganizeImports(status)
  BY <1>10, CalmOrganize
<1>11. CASE UNCHANGED vars
  BY <1>1, <1>11 DEF vars
<1> QED
  BY <1>2, <1>3, <1>4, <1>5, <1>6, <1>7, <1>8, <1>9, <1>10, <1>11, StepCases

-----------------------------------------------------------------------------
(* The theorems.                                                           *)

Inv == TypeInv /\ JobInv /\ ImportInv /\ CodeInv /\ CalmInv

\* The invariant holds in every state.
THEOREM AlwaysInv == Spec => []Inv
<1>1. Init => Inv
  BY JobInit, ImportInit, CalmInit DEF Inv, CodeInv, Init
<1>2. Inv /\ [Next]_vars => Inv'
  BY JobNext, ImportNextStep, CodeNextStep, CalmNextStep DEF Inv
<1> QED
  BY <1>1, <1>2, PTL DEF Spec

\* The variables keep their types, a report has an item for every directive, and a batch
\* is never read past its end.
THEOREM TypeCorrect == Spec => []TypeOK
<1>1. Inv => TypeOK
  <2> SUFFICES ASSUME Inv
               PROVE  TypeOK
    OBVIOUS
  <2>1. /\ rules \in {"jsts", "go", "other"}
        /\ pc \in {"idle", "asked", "planning", "applying", "saving", "organizing", "reporting"}
        /\ outcome \in {"none", "refused", "failed", "success"}
        /\ disk \in Texts /\ buffer \in Texts /\ job \in Jobs
    BY DEF Inv, TypeInv
  <2>2. ASSUME NEW a \in Texts PROVE Len(a) > 0
    BY TextEnds
  <2>3. ASSUME pc = "reporting" PROVE Len(job.items) = IF job.organize THEN 2 ELSE 1
    <3>1. job.items \in IF job.organize
                        THEN {<<"failed", "skipped">>, <<"ok", "ok">>, <<"ok", "failed">>}
                        ELSE {<<"ok">>, <<"failed">>}
      BY <2>3 DEF Inv, JobInv
    <3> QED
      BY <3>1
  <2>4. ASSUME pc \in {"applying", "saving"} PROVE job.step <= Len(job.batch)
    <3>1. Planned(job)
      BY <2>4 DEF Inv, JobInv, Sent
    <3> QED
      BY <2>1, <3>1, ActionIs
  <2> QED
    BY <2>1, <2>2, <2>3, <2>4 DEF TypeOK
<1> QED
  BY <1>1, AlwaysInv, PTL

\* However often utterances fail half-way and are said again, and whatever is done by
\* hand in between: as long as no save has failed, the buffer has the import at most once.
THEOREM ImportAtMostOnce == Spec => []ImportOnce
<1>1. Inv => ImportOnce
  <2> SUFFICES ASSUME Inv, ~unsaved
               PROVE  Cardinality({i \in 1..Len(buffer) : buffer[i] = NewImport}) <= 1
    BY DEF ImportOnce
  <2> DEFINE S == {i \in 1..Len(buffer) : buffer[i] = NewImport}
  <2>1. \A i, j \in S : i = j
    BY DEF Inv, ImportInv, Once
  <2>2. CASE S = {}
    <3>1. Cardinality(S) = 0
      BY <2>2, FS_EmptySet
    <3> QED
      BY <3>1
  <2>3. CASE S # {}
    <3>1. PICK i : S = {i}
      BY <2>1, <2>3
    <3>2. Cardinality(S) = 1
      BY <3>1, FS_Singleton
    <3> QED
      BY <3>2
  <2> QED
    BY <2>2, <2>3
<1> QED
  BY <1>1, AlwaysInv, PTL

\* Only a report ends an utterance that is being reported.
LEMMA ReportedIs ==
    ASSUME TypeInv, [Next]_vars, Reported
    PROVE  Report
<1>1. ~User
  BY UserCases DEF Reported
<1>2. ASSUME NEW kind \in Kinds, NEW by \in Sources, NEW r \in PlacePairs
      PROVE  ~Ask(kind, by, r)
  BY DEF Ask, Reported
<1>3. ~Read /\ ~ReadFails /\ ~PlanFails
  BY DEF Read, ReadFails, PlanFails, Reported
<1>4. ASSUME NEW importing \in BOOLEAN, NEW organize \in BOOLEAN, NEW p \in 1..Len(job.text)
      PROVE  ~Plan(importing, organize, p)
  BY DEF Plan, Reported
<1>5. ~ApplyAction /\ ~StaleRange /\ ~ApplyRefused /\ ~SaveFails /\ ~SaveAction
  BY DEF ApplyAction, StaleRange, ApplyRefused, SaveFails, SaveAction, Reported
<1>6. ASSUME NEW status \in {"ok", "failed"}
      PROVE  ~OrganizeImports(status)
  BY DEF OrganizeImports, Reported
<1>7. ~UNCHANGED vars
  BY DEF vars, Reported
<1> QED
  BY <1>1, <1>2, <1>3, <1>4, <1>5, <1>6, <1>7, StepCases

\* An utterance during which nobody interferes succeeds and does to the file what it means,
\* for every file, every language and every target above or below the imports; a target
\* that reaches the line of the imports is always refused, with the imports in the file.
THEOREM UndisturbedEditsMeant == Spec => UndisturbedEdits
<1>1. Inv /\ [Next]_vars =>
          [Reported /\ calm /\ ~CreatedBelow =>
               /\ disk = buffer
               /\ IF Overlaps THEN outcome' = "failed" /\ buffer = Imported(job.text)
                  ELSE outcome' = "success" /\ buffer = Intended]_vars
  <2> SUFFICES ASSUME Inv, [Next]_vars, Reported, calm, ~CreatedBelow
               PROVE  /\ disk = buffer
                      /\ IF Overlaps THEN outcome' = "failed" /\ buffer = Imported(job.text)
                         ELSE outcome' = "success" /\ buffer = Intended
    OBVIOUS
  <2>1. Report /\ pc = "reporting"
    BY ReportedIs DEF Inv, Reported
  <2>2. CASE Overlaps
    <3>1. buffer = Imported(job.text) /\ disk = buffer /\ "failed" \in LinesOf(job.items)
      BY <2>1, <2>2 DEF Inv, CalmInv
    <3>2. outcome' = "failed"
      BY <2>1, <3>1 DEF Report, End
    <3> QED
      BY <2>2, <3>1, <3>2
  <2>3. CASE ~Overlaps
    <3>1. buffer = Intended /\ disk = buffer /\ "failed" \notin LinesOf(job.items)
      BY <2>1, <2>3 DEF Inv, CalmInv, Miscounted
    <3>2. outcome' = "success"
      BY <2>1, <3>1 DEF Report, End
    <3> QED
      BY <2>3, <3>1, <3>2
  <2> QED
    BY <2>2, <2>3
<1> QED
  BY <1>1, AlwaysInv, PTL DEF Spec, UndisturbedEdits

\* When nobody interferes, success is reported only of a batch whose code is in the buffer.
THEOREM SuccessAlwaysComplete == Spec => SuccessIsComplete
<1>1. Inv /\ [Next]_vars =>
          [Reported /\ calm /\ outcome' = "success" /\ job.kind # "delete" =>
               LinesOf(buffer) \intersect {NewCode, Glued} # {}]_vars
  <2> SUFFICES ASSUME Inv, [Next]_vars, Reported, calm, outcome' = "success", job.kind # "delete"
               PROVE  LinesOf(buffer) \intersect {NewCode, Glued} # {}
    OBVIOUS
  <2>1. Report /\ pc = "reporting"
    BY ReportedIs DEF Inv, Reported
  <2>2. "failed" \notin LinesOf(job.items)
    BY <2>1 DEF Report, End
  <2>3. Applied
    BY <2>1, <2>2 DEF Applied
  <2> QED
    BY <2>3 DEF Inv, CodeInv
<1> QED
  BY <1>1, AlwaysInv, PTL DEF Spec, SuccessIsComplete

\* The host's own check of a range: what it replaces is blank, or reads as the target did.
LEMMA TypedLinesStay ==
    ASSUME TypeInv, JobInv, ApplyAction, NEW t \in Typed, t \in LinesOf(buffer)
    PROVE  \/ t \in LinesOf(buffer') \/ Glued \in LinesOf(buffer')
           \/ t \in LinesOf(Slice(job.text, job.range))
<1>1. /\ pc = "applying" /\ Matches /\ buffer' = Substituted(buffer, Place, Action.new)
  BY DEF ApplyAction
<1>2. job \in Jobs /\ buffer \in Texts /\ Planned(job)
  BY <1>1 DEF TypeInv, JobInv, Sent
<1>3. /\ Place.first \in PlacesIn(buffer) /\ Place.last \in PlacesIn(buffer)
      /\ Slice(buffer, Place) = <<Blank>> \/ Slice(buffer, Place) = Slice(job.text, job.range)
  BY <1>1, <1>2, PlaceParts
<1>4. t # Blank
  BY LinesAssumption
<1>5. \/ t \in LinesOf(Before(buffer, Place.first))
      \/ t \in LinesOf(After(buffer, Place.last))
      \/ t \in LinesOf(Slice(buffer, Place))
  BY <1>2, <1>3, LineIsSomewhere
<1>6. CASE t \in LinesOf(Before(buffer, Place.first)) \/ t \in LinesOf(After(buffer, Place.last))
  <2>1. Action.new \in Texts
    BY <1>2, ActionParts
  <2> QED
    BY <1>1, <1>2, <1>3, <1>4, <1>6, <2>1, LinesOfSubstituted
<1>7. CASE t \in LinesOf(Slice(buffer, Place))
  <2>1. t \notin LinesOf(<<Blank>>)
    <3>1. Len(<<Blank>>) = 1 /\ <<Blank>>[1] = Blank /\ \A i \in 1..1 : i = 1
      OBVIOUS
    <3> QED
      BY <1>4, <3>1 DEF LinesOf
  <2> QED
    BY <1>3, <1>7, <2>1
<1> QED
  BY <1>5, <1>6, <1>7

\* The buffer changes by the batch or by hand.
LEMMA BufferChanges ==
    ASSUME TypeInv, [Next]_vars
    PROVE  ApplyAction \/ keys' = keys + 1 \/ buffer' = buffer
<1>1. User => keys' = keys + 1 \/ buffer' = buffer
  BY UserCases
<1>2. ASSUME NEW kind \in Kinds, NEW by \in Sources, NEW r \in PlacePairs, Ask(kind, by, r)
      PROVE  buffer' = buffer
  BY <1>2 DEF Ask
<1>3. Read \/ ReadFails \/ PlanFails \/ Report => buffer' = buffer
  BY DEF Read, ReadFails, PlanFails, Report
<1>4. ASSUME NEW importing \in BOOLEAN, NEW organize \in BOOLEAN, NEW p \in 1..Len(job.text),
             Plan(importing, organize, p)
      PROVE  buffer' = buffer
  BY <1>4 DEF Plan
<1>5. StaleRange \/ ApplyRefused \/ SaveFails \/ SaveAction => buffer' = buffer
  BY DEF StaleRange, ApplyRefused, SaveFails, SaveAction
<1>6. ASSUME NEW status \in {"ok", "failed"}, OrganizeImports(status)
      PROVE  buffer' = buffer
  BY <1>6 DEF OrganizeImports
<1>7. UNCHANGED vars => buffer' = buffer
  BY DEF vars
<1> QED
  BY <1>1, <1>2, <1>3, <1>4, <1>5, <1>6, <1>7, StepCases

\* However stale the lines the core has read are, no line the user typed is overwritten
\* unless it is part of the target.
THEOREM TypedLinesAlwaysSurvive == Spec => TypedLinesSurvive
<1>1. Inv /\ [Next]_vars =>
          [\A t \in Typed :
              t \in LinesOf(buffer) /\ keys' = keys =>
                  \/ t \in LinesOf(buffer') \/ Glued \in LinesOf(buffer')
                  \/ t \in LinesOf(Slice(job.text, job.range))]_vars
  <2> SUFFICES ASSUME Inv, [Next]_vars, NEW t \in Typed, t \in LinesOf(buffer), keys' = keys
               PROVE  \/ t \in LinesOf(buffer') \/ Glued \in LinesOf(buffer')
                      \/ t \in LinesOf(Slice(job.text, job.range))
    OBVIOUS
  <2>1. TypeInv /\ JobInv /\ keys' # keys + 1
    <3>1. TypeInv /\ JobInv /\ keys \in Nat
      BY DEF Inv, TypeInv
    <3> QED
      BY <3>1
  <2>2. CASE ApplyAction
    BY <2>1, <2>2, TypedLinesStay
  <2>3. CASE buffer' = buffer
    BY <2>3
  <2> QED
    BY <2>1, <2>2, <2>3, BufferChanges
<1> QED
  BY <1>1, AlwaysInv, PTL DEF Spec, TypedLinesSurvive

=============================================================================
