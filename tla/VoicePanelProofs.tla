-------------------------- MODULE VoicePanelProofs --------------------------
(***************************************************************************)
(* The panel and the session, for every set of paths, hits and results,    *)
(* and any number of calls under way.                                      *)
(*                                                                         *)
(* InStep is the inductive form of NoHiddenPhase: each list phase has its  *)
(* own kind of list, without which the close button of the panel would     *)
(* send the control of the other.  It is a relation between the session    *)
(* and the panel Ahead, which only an executed call changes, as long as    *)
(* the answers are taken in in order.  All that is needed of the handlers  *)
(* is the shape of their answers (Shape): a completion reports one list at *)
(* most, and one that reports none comes from a session whose lists are    *)
(* those of before.                                                        *)
(***************************************************************************)
EXTENDS VoicePanel, VoiceSessionProofs

Call ==
    [kind  : {"speech", "cancel_file_selection", "cancel_selection"},
     focus : Path \union {NoPath}]

Shown ==
    [kind : {"closed", "as is", "hits", "no hits", "files", "no files"},
     list : Seq(Hit) \union Seq(Path),
     at   : Nat]

Typed ==
    /\ editor \in Path \union {NoPath} /\ crossed \in BOOLEAN
    /\ sent \in Seq(Call) /\ answers \in Seq(Shown)

PInv == IInv /\ Typed /\ (~crossed => InStep)

\* What an executed call does to the panel Ahead.
Turned(puts) == Ahead' = IF puts = AsIs THEN Ahead ELSE puts

Kinds == {"none", "closed", "no hits", "rows"}

\* A completion with one list at most, in the panel's range.
OneList(r) ==
    /\ r.search.kind \in Kinds /\ r.files.kind \in Kinds
    /\ r.search.kind = "none" \/ r.files.kind = "none"
    /\ r.search.kind = "rows" => r.search.at < Len(r.search.list)

\* The session of a handler that reports nothing has the lists of before.
SameLists(s, r) ==
    r.ok /\ r.search.kind = "none" /\ r.files.kind = "none" =>
        s.hits = vs.hits /\ s.active = vs.active /\ s.paths \in {vs.paths, << >>}

Shape(s, r) == s \in Session /\ s.phase \in {vs.phase, "main"} /\ OneList(r) /\ SameLists(s, r)

\* What a handler does: it answers from such a session.
Shaped == \E s, r : Shape(s, r) /\ Answer(s, r)

-----------------------------------------------------------------------------
(* Completions.                                                            *)

\* A completion that reports the rows of files, or that they are gone.
LEMMA FilesShape ==
    ASSUME NEW s \in Session, s.phase \in {vs.phase, "main"}, NEW r,
           r.search = Silent, r.files.kind \in {"closed", "no hits", "rows"}
    PROVE  Shape(s, r)
<1>0. Silent.kind = "none"
  BY DEF Silent
<1>1. r.search.kind = "none"
  BY <1>0
<1>2. OneList(r) /\ SameLists(s, r)
  BY <1>1 DEF OneList, SameLists, Kinds
<1> QED BY <1>2 DEF Shape

\* A completion that reports hits, or that they are gone.
LEMMA HitsShape ==
    ASSUME NEW s \in Session, s.phase \in {vs.phase, "main"}, NEW r,
           r.files = Silent, r.search.kind \in {"closed", "no hits", "rows"},
           r.search.kind = "rows" => r.search.at < Len(r.search.list)
    PROVE  Shape(s, r)
<1>0. Silent.kind = "none"
  BY DEF Silent
<1>1. r.files.kind = "none"
  BY <1>0
<1>2. OneList(r) /\ SameLists(s, r)
  BY <1>1 DEF OneList, SameLists, Kinds
<1> QED BY <1>2 DEF Shape

\* A completion that reports no list.
LEMMA SilentShape ==
    ASSUME NEW s \in Session, s.phase \in {vs.phase, "main"}, NEW r,
           r.files = Silent, r.search = Silent,
           r.ok => s.hits = vs.hits /\ s.active = vs.active /\ s.paths \in {vs.paths, << >>}
    PROVE  Shape(s, r)
  BY DEF Shape, OneList, SameLists, Kinds, Silent

-----------------------------------------------------------------------------
(* The panel and a completion.                                             *)

LEMMA PanelKinds == AsIs.kind = "as is" /\ NoPanel.kind = "closed" /\ AsIs # NoPanel
<1>1. NoPanel.kind = "closed"
  BY DEF NoPanel
<1>2. AsIs.kind = "as is"
  BY DEF AsIs, NoPanel
<1> QED BY <1>1, <1>2

LEMMA PutsKinds ==
    ASSUME NEW kind, NEW none, none # "as is", kind # "as is", NEW wire
    PROVE  /\ wire.kind = "none" => Puts(kind, none, wire) = AsIs
           /\ wire.kind \in {"closed", "no hits"} => Puts(kind, none, wire) # AsIs
           /\ wire.kind = "rows" =>
                /\ Puts(kind, none, wire) # AsIs
                /\ Puts(kind, none, wire) = [kind |-> kind, list |-> wire.list, at |-> wire.at]
<1>1. wire.kind = "none" => Puts(kind, none, wire) = AsIs
  BY DEF Puts
<1>2. wire.kind = "closed" => Puts(kind, none, wire) # AsIs
  BY PanelKinds DEF Puts
<1>3. ASSUME wire.kind = "no hits"
      PROVE  Puts(kind, none, wire) # AsIs
  <2>1. Puts(kind, none, wire) = [NoPanel EXCEPT !.kind = none]
    BY <1>3 DEF Puts
  <2>2. [NoPanel EXCEPT !.kind = none].kind = none
    BY DEF NoPanel
  <2> QED BY <2>1, <2>2, PanelKinds
<1>4. ASSUME wire.kind = "rows"
      PROVE  /\ Puts(kind, none, wire) # AsIs
             /\ Puts(kind, none, wire) = [kind |-> kind, list |-> wire.list, at |-> wire.at]
  <2> DEFINE rows == [kind |-> kind, list |-> wire.list, at |-> wire.at]
  <2>1. Puts(kind, none, wire) = rows
    BY <1>4 DEF Puts
  <2>2. rows.kind = kind
    OBVIOUS
  <2> QED BY <2>1, <2>2, PanelKinds
<1> QED BY <1>1, <1>2, <1>3, <1>4

\* What a completion with one list at most puts in the panel.
LEMMA HandledKinds ==
    ASSUME NEW r, OneList(r)
    PROVE  /\ ~r.ok => Handled(r) = AsIs
           /\ r.ok /\ r.search.kind = "none" /\ r.files.kind = "none" => Handled(r) = AsIs
           /\ r.ok /\ r.search.kind = "rows" =>
                /\ Handled(r) # AsIs
                /\ Handled(r) = [kind |-> "hits", list |-> r.search.list, at |-> r.search.at]
           /\ r.ok /\ r.search.kind = "none" /\ r.files.kind = "rows" =>
                /\ Handled(r) # AsIs
                /\ Handled(r) = [kind |-> "files", list |-> r.files.list, at |-> r.files.at]
<1> DEFINE files == Puts("files", "no files", r.files)
           hits  == Puts("hits", "no hits", r.search)
<1>1. /\ r.files.kind = "none" => files = AsIs
      /\ r.files.kind = "rows" =>
           /\ files # AsIs
           /\ files = [kind |-> "files", list |-> r.files.list, at |-> r.files.at]
  BY PutsKinds
<1>2. /\ r.search.kind = "none" => hits = AsIs
      /\ r.search.kind = "rows" =>
           /\ hits # AsIs
           /\ hits = [kind |-> "hits", list |-> r.search.list, at |-> r.search.at]
  BY PutsKinds
<1>3. Handled(r) = CASE ~r.ok -> AsIs [] r.ok /\ files # AsIs -> files [] OTHER -> hits
  BY DEF Handled
<1>4. r.search.kind = "rows" => r.files.kind = "none"
  BY DEF OneList
<1> HIDE DEF files, hits
<1> QED BY <1>1, <1>2, <1>3, <1>4

\* It is something the panel can show.
LEMMA HandledShown ==
    ASSUME NEW r \in Reply
    PROVE  Handled(r) \in Shown
<1>1. /\ r.search \in Wire(Hit) /\ r.files \in Wire(Path)
  BY DEF Reply
<1>2. AsIs \in Shown /\ NoPanel \in Shown
  BY EmptyLists DEF AsIs, NoPanel, Shown
<1>3. \A none \in {"no hits", "no files"} : [NoPanel EXCEPT !.kind = none] \in Shown
  BY EmptyLists DEF NoPanel, Shown
<1>4. ASSUME NEW w, w.list \in Seq(Hit) \union Seq(Path), w.at \in Nat,
             NEW kind \in {"hits", "files"}, NEW none \in {"no hits", "no files"}
      PROVE  Puts(kind, none, w) \in Shown
  <2>1. [kind |-> kind, list |-> w.list, at |-> w.at] \in Shown
    BY <1>4 DEF Shown
  <2> QED BY <1>2, <1>3, <2>1 DEF Puts
<1>5. /\ r.search.list \in Seq(Hit) /\ r.search.at \in Nat
      /\ r.files.list \in Seq(Path) /\ r.files.at \in Nat
  BY <1>1 DEF Wire
<1>6. Puts("hits", "no hits", r.search) \in Shown /\ Puts("files", "no files", r.files) \in Shown
  BY <1>4, <1>5
<1> QED BY <1>2, <1>6 DEF Handled

\* Each list phase gets its kind of list, whatever was shown before.
LEMMA AnswerMatches ==
    ASSUME NEW s, NEW r, Shape(s, r), Answer(s, r), InStep, Turned(Handled(reply'))
    PROVE  InStep'
<1>1. s \in Session /\ s.phase \in {vs.phase, "main"} /\ OneList(r) /\ reply' = r
  BY DEF Shape, Answer
<1>2. Ahead' = IF Handled(r) = AsIs THEN Ahead ELSE Handled(r)
  BY <1>1 DEF Turned
<1>3. CASE ~r.ok
  <2>1. vs' = s /\ Ahead' = Ahead
    BY <1>1, <1>2, <1>3, HandledKinds DEF Answer
  <2> QED BY <1>1, <2>1 DEF InStep
<1>4. CASE r.ok /\ r.search.kind = "rows"
  <2>1. vs'.phase = "select"
    BY <1>1, <1>4 DEF Answer, Apply, Session
  <2>2. Ahead' = [kind |-> "hits", list |-> r.search.list, at |-> r.search.at]
    BY <1>1, <1>2, <1>4, HandledKinds
  <2>3. Ahead'.kind = "hits"
    BY <2>2
  <2> QED BY <2>1, <2>3 DEF InStep
<1>5. CASE r.ok /\ r.search.kind \in {"closed", "no hits"}
  <2>1. vs'.phase = "main"
    BY <1>1, <1>5 DEF Answer, Apply, CloseSelection, Session
  <2> QED BY <2>1 DEF InStep
<1>6. CASE r.ok /\ r.search.kind = "none" /\ r.files.kind = "rows"
  <2>1. vs'.phase = "files"
    BY <1>1, <1>6 DEF Answer, Apply, CloseSelection, Session
  <2>2. Ahead' = [kind |-> "files", list |-> r.files.list, at |-> r.files.at]
    BY <1>1, <1>2, <1>6, HandledKinds
  <2>3. Ahead'.kind = "files"
    BY <2>2
  <2> QED BY <2>1, <2>3 DEF InStep
<1>7. CASE r.ok /\ r.search.kind = "none" /\ r.files.kind \in {"closed", "no hits"}
  <2>1. vs'.phase = "main"
    BY <1>1, <1>7 DEF Answer, Apply, CloseFileSelection, Session
  <2> QED BY <2>1 DEF InStep
<1>8. CASE r.ok /\ r.search.kind = "none" /\ r.files.kind = "none"
  <2>1. vs' = s
    BY <1>8 DEF Answer, Apply
  <2>2. Ahead' = Ahead
    BY <1>1, <1>2, <1>8, HandledKinds
  <2> QED BY <1>1, <2>1, <2>2 DEF InStep
<1> QED BY <1>1, <1>3, <1>4, <1>5, <1>6, <1>7, <1>8 DEF OneList, Kinds

\* After a success the panel shows the list of the session, if it did before.
LEMMA AnswerAgrees ==
    ASSUME NEW s, NEW r, Shape(s, r), Answer(s, r), ListsAgree, r.ok, Turned(Handled(reply'))
    PROVE  ListsAgree'
<1>1. /\ s \in Session /\ s.phase \in {vs.phase, "main"} /\ OneList(r) /\ SameLists(s, r)
      /\ reply' = r /\ vs' = Apply(s, r)
  BY DEF Shape, Answer
<1>2. Ahead' = IF Handled(r) = AsIs THEN Ahead ELSE Handled(r)
  BY <1>1 DEF Turned
<1>3. CASE r.search.kind = "rows"
  <2>1. /\ vs'.phase = "select" /\ vs'.hits = r.search.list
        /\ vs'.active = r.search.at
    BY <1>1, <1>3 DEF Apply, OneList, Session
  <2>2. Ahead' = [kind |-> "hits", list |-> r.search.list, at |-> r.search.at]
    BY <1>1, <1>2, <1>3, HandledKinds
  <2>3. Ahead'.kind = "hits" /\ Ahead'.list = r.search.list /\ Ahead'.at = r.search.at
    BY <2>2
  <2> QED BY <2>1, <2>3 DEF ListsAgree
<1>4. CASE r.search.kind \in {"closed", "no hits"}
  <2>1. vs'.phase = "main"
    BY <1>1, <1>4 DEF Apply, CloseSelection, Session
  <2> QED BY <2>1 DEF ListsAgree
<1>5. CASE r.search.kind = "none" /\ r.files.kind = "rows"
  <2>1. vs'.phase = "files" /\ vs'.paths = r.files.list
    BY <1>1, <1>5 DEF Apply, CloseSelection, Session
  <2>2. Ahead' = [kind |-> "files", list |-> r.files.list, at |-> r.files.at]
    BY <1>1, <1>2, <1>5, HandledKinds
  <2>3. Ahead'.kind = "files" /\ Ahead'.list = r.files.list
    BY <2>2
  <2> QED BY <2>1, <2>3 DEF ListsAgree
<1>6. CASE r.search.kind = "none" /\ r.files.kind \in {"closed", "no hits"}
  <2>1. vs'.phase = "main"
    BY <1>1, <1>6 DEF Apply, CloseFileSelection, Session
  <2> QED BY <2>1 DEF ListsAgree
<1>7. CASE r.search.kind = "none" /\ r.files.kind = "none"
  <2>1. vs' = s /\ Ahead' = Ahead
    BY <1>1, <1>2, <1>7, HandledKinds DEF Apply
  <2>2. s.hits = vs.hits /\ s.active = vs.active /\ s.paths \in {vs.paths, << >>}
    BY <1>1, <1>7 DEF SameLists
  <2> QED BY <1>1, <2>1, <2>2 DEF ListsAgree
<1> QED BY <1>1, <1>3, <1>4, <1>5, <1>6, <1>7 DEF OneList, Kinds

-----------------------------------------------------------------------------
(* The handlers.                                                           *)

LEMMA SameShaped ==
    ASSUME NEW s, Same(s), NEW op
    PROVE  /\ Answer(s, Done(op)) => Shaped
           /\ Answer(s, [Done(op) EXCEPT !.batches = 1]) => Shaped
           /\ \A n : Answer(s, Refused(op, n)) => Shaped
<1>1. s \in Session /\ s.phase \in {vs.phase, "main"}
  BY DEF Same, Sound
<1>2. Answer(s, Done(op)) => Shaped
  BY <1>1, DoneParts, SilentShape DEF Same, Shaped
<1>3. Answer(s, [Done(op) EXCEPT !.batches = 1]) => Shaped
  <2> DEFINE r == [Done(op) EXCEPT !.batches = 1]
  <2>1. r.search = Silent /\ r.files = Silent
    BY DoneParts
  <2>2. Shape(s, r)
    BY <1>1, <2>1, SilentShape DEF Same
  <2> QED BY <2>2 DEF Shaped
<1>4. \A n : Answer(s, Refused(op, n)) => Shaped
  BY <1>1, DoneParts, SilentShape DEF Shaped
<1> QED BY <1>2, <1>3, <1>4

\* A refusal from any session the handler made, in the same phase.
LEMMA RefusalShaped ==
    ASSUME NEW s, Sound(s), s.phase = vs.phase, NEW op, NEW n, Answer(s, Refused(op, n))
    PROVE  Shaped
<1>1. s \in Session
  BY DEF Sound
<1> QED BY <1>1, DoneParts, SilentShape DEF Shaped

LEMMA WorkspaceSearchShaped ==
    ASSUME NEW s, Same(s), WorkspaceSearch(s)
    PROVE  Shaped
<1>1. s \in Session /\ s.phase \in {vs.phase, "main"}
  BY DEF Same, Sound
<1>2. ASSUME NEW hits \in HitLists,
             Answer(s, [Done("workspace_select") EXCEPT
                          !.search = HitRows(hits, 0), !.batches = 1,
                          !.opened = HitPath[hits[1]]])
      PROVE  Shaped
  <2> DEFINE r == [Done("workspace_select") EXCEPT
                     !.search = HitRows(hits, 0), !.batches = 1, !.opened = HitPath[hits[1]]]
  <2>1. r.search = HitRows(hits, 0) /\ r.files = Silent
    BY DoneParts
  <2>2. hits \in Seq(Hit) /\ hits # << >>
    BY ListsAssumption
  <2>3. 0 < Len(hits)
    BY <2>2
  <2>4. /\ HitRows(hits, 0).kind = "rows" /\ HitRows(hits, 0).at = 0
        /\ HitRows(hits, 0).list = hits
    BY DEF HitRows
  <2>5. Shape(s, r)
    BY <1>1, <2>1, <2>3, <2>4, HitsShape
  <2> QED BY <1>2, <2>5 DEF Shaped
<1>3. ASSUME Answer(s, [Done("workspace_select") EXCEPT !.search = NoMatches])
      PROVE  Shaped
  <2> DEFINE r == [Done("workspace_select") EXCEPT !.search = NoMatches]
  <2>1. r.search = NoMatches /\ r.files = Silent
    BY DoneParts
  <2>2. NoMatches.kind = "no hits"
    BY DEF NoMatches
  <2>3. Shape(s, r)
    BY <1>1, <2>1, <2>2, HitsShape
  <2> QED BY <1>3, <2>3 DEF Shaped
<1> QED BY <1>2, <1>3, SameShaped DEF WorkspaceSearch

\* The rows a handler of files reports.
LEMMA RowsKind ==
    ASSUME NEW s
    PROVE  /\ RowsOf(s).kind = "rows"
           /\ s.paths # << >> => KeptRows(s).kind = "rows"
           /\ \A p : OneRow(p).kind = "rows"
           /\ NoMatches.kind = "no hits" /\ Closed.kind = "closed"
  BY DEF RowsOf, KeptRows, OneRow, FileRows, NoMatches, Closed

LEMMA FileSearchShaped ==
    ASSUME NEW s, Same(s), NEW host, host = "files" => s.paths # << >>,
           FileSearch(s, host)
    PROVE  Shaped
<1>1. s \in Session /\ s.phase \in {vs.phase, "main"} /\ Sound(s) /\ s.phase = vs.phase
  BY DEF Same, Sound
<1>2. ASSUME NEW ps \in PathLists, NEW n, NEW opened,
             Answer(Listed(s, ps), [Done("file_select") EXCEPT
                                      !.files = RowsOf(Listed(s, ps)), !.batches = n,
                                      !.opened = opened])
      PROVE  Shaped
  <2> DEFINE r == [Done("file_select") EXCEPT
                     !.files = RowsOf(Listed(s, ps)), !.batches = n, !.opened = opened]
  <2>1. r.search = Silent /\ r.files = RowsOf(Listed(s, ps))
    BY DoneParts
  <2>2. Listed(s, ps) \in Session /\ Listed(s, ps).phase = vs.phase
    BY <1>1, ListedSound DEF Sound
  <2>3. Shape(Listed(s, ps), r)
    BY <2>1, <2>2, RowsKind, FilesShape
  <2> QED BY <1>2, <2>3 DEF Shaped
<1>3. ASSUME NEW ps \in PathLists, Answer(Listed(s, ps), Refused("file_select", 1))
      PROVE  Shaped
  BY <1>1, <1>3, ListedSound, RefusalShaped
<1>4. ASSUME s.paths # << >>, Answer(s, [Done("file_select") EXCEPT !.files = KeptRows(s)])
      PROVE  Shaped
  <2> DEFINE r == [Done("file_select") EXCEPT !.files = KeptRows(s)]
  <2>1. r.search = Silent /\ r.files = KeptRows(s)
    BY DoneParts
  <2>2. Shape(s, r)
    BY <1>1, <1>4, <2>1, RowsKind, FilesShape
  <2> QED BY <1>4, <2>2 DEF Shaped
<1>5. ASSUME Answer(s, [Done("file_select") EXCEPT !.files = NoMatches])
      PROVE  Shaped
  <2> DEFINE r == [Done("file_select") EXCEPT !.files = NoMatches]
  <2>1. r.search = Silent /\ r.files = NoMatches
    BY DoneParts
  <2>2. Shape(s, r)
    BY <1>1, <2>1, RowsKind, FilesShape
  <2> QED BY <1>5, <2>2 DEF Shaped
<1> QED BY <1>2, <1>3, <1>4, <1>5, SameShaped DEF FileSearch

LEMMA CreateShaped ==
    ASSUME NEW s, Same(s), Create(s)
    PROVE  Shaped
<1>1. s \in Session /\ s.phase \in {vs.phase, "main"}
  BY DEF Same, Sound
<1>2. ASSUME NEW h \in Hit, NEW n,
             Answer(s, [Done("create") EXCEPT !.search = HitRows(<<h>>, 0), !.batches = n])
      PROVE  Shaped
  <2> DEFINE r == [Done("create") EXCEPT !.search = HitRows(<<h>>, 0), !.batches = n]
  <2>1. r.search = HitRows(<<h>>, 0) /\ r.files = Silent
    BY DoneParts
  <2>2. /\ HitRows(<<h>>, 0).kind = "rows"
        /\ HitRows(<<h>>, 0).at < Len(HitRows(<<h>>, 0).list)
    BY DEF HitRows
  <2>3. Shape(s, r)
    BY <1>1, <2>1, <2>2, HitsShape
  <2> QED BY <1>2, <2>3 DEF Shaped
<1> QED BY <1>2, SameShaped DEF Create

LEMMA UntouchedShaped ==
    ASSUME NEW s, Same(s), NEW op, Untouched(s, op)
    PROVE  Shaped
  BY SameShaped DEF Untouched

\* Every utterance of the main phase.
LEMMA MainShaped ==
    ASSUME IInv, InMain
    PROVE  Shaped
<1>1. Same(vs)
  BY DEF IInv, Same
<1>2. CASE MainSearch
  BY <1>1, <1>2, WorkspaceSearchShaped DEF MainSearch
<1>3. CASE MainFileSearch
  BY <1>1, <1>3, FileSearchShaped DEF MainFileSearch
<1>4. CASE MainCreate
  BY <1>1, <1>4, CreateShaped DEF MainCreate
<1>5. CASE MainCommand
  BY <1>1, <1>5, UntouchedShaped DEF MainCommand
<1>6. CASE MainOther
  BY <1>1, <1>6, SameShaped DEF MainOther
<1> QED BY <1>2, <1>3, <1>4, <1>5, <1>6 DEF InMain

\* The hits of the session, reported again.
LEMMA KeptHitsShape ==
    ASSUME Same(vs), NEW op
    PROVE  LET r == [Done(op) EXCEPT !.search = KeptHits(vs)] IN Shape(vs, r) /\ r.ok
<1> DEFINE r == [Done(op) EXCEPT !.search = KeptHits(vs)]
<1>1. r.search = KeptHits(vs) /\ r.files = Silent
  BY DoneParts
<1>2. r.ok
  BY DEF Done
<1> SUFFICES Shape(vs, r)
  BY <1>2
<1>3. /\ vs \in Session /\ vs.phase \in {vs.phase, "main"}
      /\ vs.hits # << >> => vs.active < Len(vs.hits)
  BY DEF Same, Sound
<1>4. CASE vs.hits = << >>
  <2>1. r.search = Silent
    BY <1>1, <1>4 DEF KeptHits
  <2> QED BY <1>1, <1>3, <2>1, SilentShape
<1>5. CASE vs.hits # << >>
  <2>1. r.search = HitRows(vs.hits, vs.active)
    BY <1>1, <1>5 DEF KeptHits
  <2>2. r.search.kind = "rows" /\ r.search.at < Len(r.search.list)
    BY <1>3, <1>5, <2>1 DEF HitRows
  <2> QED BY <1>1, <1>3, <2>2, HitsShape
<1> QED BY <1>4, <1>5

LEMMA SelectControlShaped ==
    ASSUME Same(vs), SelectControl
    PROVE  Shaped
<1>1. /\ vs \in Session /\ vs.hits \in Seq(Hit) /\ vs.active \in Nat /\ Len(vs.hits) \in Nat
      /\ vs.hits # << >> => vs.active < Len(vs.hits)
  BY DEF Same, Sound, Session
<1>2. PICK nav \in Navs :
        LET m == [vs EXCEPT !.active = Navigated(vs.active, Len(vs.hits), nav)]
        IN  IF m.hits = << >>
            THEN Answer(m, [Done("hit_control") EXCEPT !.search = Closed])
            ELSE \/ Answer(m, [Done("hit_control") EXCEPT
                                  !.search = HitRows(m.hits, m.active),
                                  !.batches = 1,
                                  !.opened = HitPath[m.hits[m.active + 1]]])
                 \/ Answer(m, Refused("hit_control", 1))
  BY DEF SelectControl
<1> DEFINE i == Navigated(vs.active, Len(vs.hits), nav)
           m == [vs EXCEPT !.active = i]
<1>3. i \in Nat /\ (vs.hits # << >> => i < Len(vs.hits))
  <2>1. Len(vs.hits) > 0 => vs.active < Len(vs.hits)
    BY <1>1
  <2>2. i \in Nat /\ (Len(vs.hits) > 0 => i < Len(vs.hits))
    BY <1>1, <2>1, NavigatedInRange
  <2>3. vs.hits # << >> => Len(vs.hits) > 0
    BY <1>1
  <2> QED BY <2>2, <2>3
<1> HIDE DEF i
<1>4. m \in Session /\ m.phase = vs.phase /\ m.hits = vs.hits /\ m.active = i
  BY <1>1, <1>3 DEF Session
<1>5. CASE m.hits = << >>
  <2> DEFINE r == [Done("hit_control") EXCEPT !.search = Closed]
  <2>1. r.search = Closed /\ r.files = Silent
    BY DoneParts
  <2>2. Closed.kind = "closed"
    BY DEF Closed
  <2>3. Shape(m, r)
    BY <1>4, <2>1, <2>2, HitsShape
  <2>4. Answer(m, r)
    BY <1>2, <1>5 DEF i
  <2> QED BY <2>3, <2>4 DEF Shaped
<1>6. CASE m.hits # << >>
  <2> DEFINE opened == HitPath[m.hits[m.active + 1]]
             r == [Done("hit_control") EXCEPT !.search = HitRows(m.hits, m.active),
                                              !.batches = 1, !.opened = opened]
  <2>1. Answer(m, r) \/ Answer(m, Refused("hit_control", 1))
    BY <1>2, <1>6 DEF i
  <2>2. r.search = HitRows(m.hits, m.active) /\ r.files = Silent
    BY DoneParts
  <2>3. r.search.kind = "rows" /\ r.search.at < Len(r.search.list)
    BY <1>3, <1>4, <1>6, <2>2 DEF HitRows
  <2>4. Shape(m, r)
    BY <1>4, <2>2, <2>3, HitsShape
  <2>5. Shape(m, Refused("hit_control", 1))
    BY <1>4, DoneParts, SilentShape
  <2> QED BY <2>1, <2>4, <2>5 DEF Shaped
<1> QED BY <1>5, <1>6

\* Every utterance of the select phase; a failed classifier shows the hits
\* without applying them.
LEMMA SelectShaped ==
    ASSUME IInv, InSelect
    PROVE  Shaped \/ SelectUnrouted
<1>1. Same(vs)
  BY DEF IInv, Same
<1>2. CASE SelectSearch
  BY <1>1, <1>2, WorkspaceSearchShaped DEF SelectSearch
<1>3. CASE SelectFileSearch
  BY <1>1, <1>3, FileSearchShaped DEF SelectFileSearch
<1>4. CASE SelectCreate
  BY <1>1, <1>4, CreateShaped DEF SelectCreate
<1>5. CASE SelectEdit
  BY <1>1, <1>5, UntouchedShaped DEF SelectEdit
<1>6. CASE SelectNoQuery
  BY <1>1, <1>6, KeptHitsShape DEF SelectNoQuery, Shaped
<1>7. CASE SelectOther
  BY <1>1, <1>7, SameShaped DEF SelectOther
<1>8. CASE SelectExit
  <2> DEFINE c == CloseSelection(vs)
             t == [c EXCEPT !.phase = "main"]
             r == [Done("exit") EXCEPT !.search = Closed]
  <2>1. t \in Session
    BY <1>1, CloseSelectionSound DEF Same, Sound
  <2>2. t.phase = "main"
    BY <1>1 DEF Same, Sound, Session, CloseSelection
  <2>3. r.search = Closed /\ r.files = Silent
    BY DoneParts
  <2>4. Closed.kind = "closed"
    BY DEF Closed
  <2>5. Shape(t, r)
    BY <2>1, <2>2, <2>3, <2>4, HitsShape
  <2> QED BY <1>8, <2>5 DEF SelectExit, Shaped
<1>9. CASE SelectControl
  BY <1>1, <1>9, SelectControlShaped
<1>10. CASE SelectRename
  BY <1>1, <1>10, SameShaped DEF SelectRename
<1> QED BY <1>2, <1>3, <1>4, <1>5, <1>6, <1>7, <1>8, <1>9, <1>10 DEF InSelect

LEMMA FilesControlShaped ==
    ASSUME Sound(vs), NEW path, FilesControl(path)
    PROVE  Shaped
<1>1. PICK s \in Heard(path), nav \in Navs :
        LET m == FileStep(s, nav)
            opens == ~FocusIsDir(m) /\ m.focus # NoPath
        IN  \/ Answer(m, [Done("file_control") EXCEPT
                             !.files = KeptRows(m),
                             !.batches = IF opens THEN 1 ELSE 0,
                             !.opened = IF opens /\ m.focus \notin Folder
                                        THEN m.focus ELSE NoPath])
            \/ Answer(m, Refused("file_control", 1))
  BY DEF FilesControl
<1> DEFINE m == FileStep(s, nav)
<1>2. Sound(m) /\ m \in Session /\ m.phase = vs.phase /\ m.paths # << >>
  BY HeardSame, FileStepSound DEF Same, Sound
<1> HIDE DEF m
<1>3. ASSUME NEW n, NEW opened,
             Answer(m, [Done("file_control") EXCEPT !.files = KeptRows(m), !.batches = n,
                                                    !.opened = opened])
      PROVE  Shaped
  <2> DEFINE r == [Done("file_control") EXCEPT !.files = KeptRows(m), !.batches = n,
                                               !.opened = opened]
  <2>1. r.search = Silent /\ r.files = KeptRows(m)
    BY DoneParts
  <2>2. Shape(m, r)
    BY <1>2, <2>1, RowsKind, FilesShape
  <2> QED BY <1>3, <2>2 DEF Shaped
<1>4. ASSUME Answer(m, Refused("file_control", 1))
      PROVE  Shaped
  BY <1>2, <1>4, RefusalShaped
<1> QED BY <1>1, <1>3, <1>4 DEF m

LEMMA FilesDeleteShaped ==
    ASSUME Sound(vs), NEW path, FilesDelete(path)
    PROVE  Shaped
<1>1. PICK s \in Heard(path) :
        \/ Answer([s EXCEPT !.paths = << >>],
                  [Done("delete_file") EXCEPT !.acted = s.focus, !.batches = 1])
        \/ \E n : Answer(s, Refused("delete_file", n))
  BY DEF FilesDelete
<1>2. Same(s) /\ s \in Session
  BY HeardSame DEF Same, Sound
<1>3. ASSUME Answer([s EXCEPT !.paths = << >>],
                    [Done("delete_file") EXCEPT !.acted = s.focus, !.batches = 1])
      PROVE  Shaped
  <2> DEFINE t == [s EXCEPT !.paths = << >>]
             r == [Done("delete_file") EXCEPT !.acted = s.focus, !.batches = 1]
  <2>1. r.search = Silent /\ r.files = Silent
    BY DoneParts
  <2>2. /\ t \in Session /\ t.phase = vs.phase /\ t.paths = << >>
        /\ t.hits = vs.hits /\ t.active = vs.active
    BY <1>2, EmptyLists DEF Same, Session
  <2>3. Shape(t, r)
    BY <2>1, <2>2, SilentShape
  <2> QED BY <1>3, <2>3 DEF Shaped
<1> QED BY <1>1, <1>2, <1>3, SameShaped

LEMMA FilesRelocateShaped ==
    ASSUME Sound(vs), NEW path, FilesRelocate(path)
    PROVE  Shaped
<1>1. PICK s \in Heard(path), op \in {"move", "rename"} :
        \/ \E to \in Path \ {s.focus, WorkspaceRoot}, k \in 0..1, shown \in BOOLEAN :
             /\ to \in Folder <=> s.focus \in Folder
             /\ \E m \in Moved(s, to) :
                  Answer(m, [Done(op) EXCEPT
                               !.files = RowsOf(m), !.acted = s.focus,
                               !.batches = k + (IF to \in Folder THEN 1 ELSE 2),
                               !.opened = IF shown THEN to ELSE NoPath])
        \/ Answer(s, Refused(op, 0))
        \/ \E k \in 0..1 : Answer(s, Refused(op, k + 1))
  BY RelocateCases
<1>2. Same(s) /\ Sound(s) /\ s.paths # << >> /\ s.phase = vs.phase
  BY HeardSame DEF Same
<1>3. ASSUME NEW to \in Path, to \in Folder <=> s.focus \in Folder,
             NEW m \in Moved(s, to), NEW n, NEW opened,
             Answer(m, [Done(op) EXCEPT !.files = RowsOf(m), !.acted = s.focus,
                                        !.batches = n, !.opened = opened])
      PROVE  Shaped
  <2> DEFINE r == [Done(op) EXCEPT !.files = RowsOf(m), !.acted = s.focus,
                                   !.batches = n, !.opened = opened]
  <2>1. r.search = Silent /\ r.files = RowsOf(m)
    BY DoneParts
  <2>2. m \in Session /\ m.phase = vs.phase
    BY <1>2, <1>3, MovedSound DEF Sound
  <2>3. Shape(m, r)
    BY <2>1, <2>2, RowsKind, FilesShape
  <2> QED BY <1>3, <2>3 DEF Shaped
<1> QED BY <1>1, <1>2, <1>3, SameShaped

LEMMA FilesCreateEntryShaped ==
    ASSUME Sound(vs), NEW path, FilesCreateEntry(path)
    PROVE  Shaped
<1>1. PICK s \in Heard(path) :
        \/ Answer(s, [Done("create_entry") EXCEPT
                        !.acted = s.focus, !.batches = 2,
                        !.place = IF FocusIsDir(s) THEN "under" ELSE "beside"])
        \/ \E n : Answer(s, Refused("create_entry", n))
  BY DEF FilesCreateEntry
<1>2. Same(s) /\ s \in Session /\ s.phase \in {vs.phase, "main"}
  BY HeardSame DEF Same, Sound
<1>3. ASSUME NEW place,
             Answer(s, [Done("create_entry") EXCEPT
                          !.acted = s.focus, !.batches = 2, !.place = place])
      PROVE  Shaped
  <2> DEFINE r == [Done("create_entry") EXCEPT
                     !.acted = s.focus, !.batches = 2, !.place = place]
  <2>1. r.search = Silent /\ r.files = Silent
    BY DoneParts
  <2>2. Shape(s, r)
    BY <1>2, <2>1, SilentShape DEF Same
  <2> QED BY <1>3, <2>2 DEF Shaped
<1> QED BY <1>1, <1>2, <1>3, SameShaped

\* The list of the session, reported again, or collapsed to the focused row.
LEMMA FilesKeepShaped ==
    ASSUME Sound(vs), NEW path, FilesKeep(path) \/ FilesCollapse(path)
    PROVE  Shaped
<1>1. PICK s \in Heard(path) :
        \/ Answer(s, [Done("keep") EXCEPT !.files = KeptRows(s)])
        \/ Answer(s, [Done("collapse") EXCEPT
                        !.files = IF s.focus # NoPath THEN OneRow(s.focus) ELSE Silent])
  BY DEF FilesKeep, FilesCollapse
<1>2. Same(s) /\ s.paths # << >> /\ s.focus # NoPath
  BY HeardSame, PathsAssumption
<1>3. s \in Session /\ s.phase \in {vs.phase, "main"}
  BY <1>2 DEF Same, Sound
<1>4. PICK op, f : Answer(s, [Done(op) EXCEPT !.files = f]) /\ f.kind = "rows"
  <2>1. CASE Answer(s, [Done("keep") EXCEPT !.files = KeptRows(s)])
    BY <1>2, <2>1, RowsKind
  <2>2. CASE Answer(s, [Done("collapse") EXCEPT
                          !.files = IF s.focus # NoPath THEN OneRow(s.focus) ELSE Silent])
    <3>1. Answer(s, [Done("collapse") EXCEPT !.files = OneRow(s.focus)])
      BY <1>2, <2>2
    <3> QED BY <3>1, RowsKind
  <2> QED BY <1>1, <2>1, <2>2
<1> DEFINE r == [Done(op) EXCEPT !.files = f]
<1>5. r.search = Silent /\ r.files = f
  BY DoneParts
<1>6. Shape(s, r)
  BY <1>3, <1>4, <1>5, FilesShape
<1> QED BY <1>4, <1>6 DEF Shaped

\* Every utterance of the file-selection phase; a failed classifier is a refusal
\* that applies nothing.
LEMMA WithListShaped ==
    ASSUME Sound(vs), NEW path, WithList(path)
    PROVE  Shaped
<1>1. \A s \in Heard(path) : Same(s) /\ s.paths # << >>
  BY HeardSame
<1>2. CASE FilesSearch(path)
  BY <1>1, <1>2, WorkspaceSearchShaped DEF FilesSearch
<1>3. CASE FilesFileSearch(path)
  BY <1>1, <1>3, FileSearchShaped DEF FilesFileSearch
<1>4. CASE FilesCreate(path)
  BY <1>1, <1>4, CreateShaped DEF FilesCreate
<1>5. CASE FilesCommand(path)
  BY <1>1, <1>5, UntouchedShaped DEF FilesCommand
<1>6. CASE FilesUnrouted(path)
  <2>1. PICK s \in Heard(path) : vs' = s /\ reply' = Refused("unrouted", 0)
    BY <1>6 DEF FilesUnrouted, Persist
  <2>2. Answer(s, Refused("unrouted", 0))
    BY <2>1, DoneParts DEF Answer
  <2> QED BY <1>1, <2>2, SameShaped
<1> QED BY <1>2, <1>3, <1>4, <1>5, <1>6, FilesKeepShaped, FilesControlShaped,
           FilesDeleteShaped, FilesRelocateShaped, FilesCreateEntryShaped
    DEF WithList

-----------------------------------------------------------------------------
(* The calls and the answers.                                              *)

LEMMA RemoveAtType ==
    ASSUME NEW S, NEW q \in Seq(S), NEW i \in 1..Len(q)
    PROVE  RemoveAt(q, i) \in Seq(S)
<1>1. \A j \in 1..Len(q) : q[j] \in S
  OBVIOUS
<1>2. SubSeq(q, 1, i - 1) \in Seq(S)
  <2>1. i - 1 \in Int /\ 1 \in Int /\ \A j \in 1..(i - 1) : q[j] \in S
    BY <1>1
  <2> QED BY <2>1, SubSeqProperties
<1>3. SubSeq(q, i + 1, Len(q)) \in Seq(S)
  <2>1. i + 1 \in Int /\ Len(q) \in Int /\ \A j \in (i + 1)..Len(q) : q[j] \in S
    BY <1>1
  <2> QED BY <2>1, SubSeqProperties
<1> QED BY <1>2, <1>3, ConcatProperties DEF RemoveAt

\* An executed call turns the panel Ahead to what it puts there.
LEMMA ExecutedTurns ==
    ASSUME Typed, NEW i \in 1..Len(sent), NEW puts \in Shown, Executed(i, puts)
    PROVE  sent' \in Seq(Call) /\ answers' \in Seq(Shown) /\ Turned(puts)
<1>1. sent' \in Seq(Call)
  BY RemoveAtType DEF Executed, Typed
<1>2. CASE puts = AsIs
  BY <1>1, <1>2 DEF Executed, Typed, Turned, Ahead
<1>3. CASE puts # AsIs
  <2>1. answers \in Seq(Shown) /\ answers' = Append(answers, puts)
    BY <1>3 DEF Executed, Typed
  <2>2. /\ answers' \in Seq(Shown) /\ answers' # << >>
        /\ Len(answers') = Len(answers) + 1 /\ answers'[Len(answers) + 1] = puts
    BY <2>1, AppendProperties
  <2>3. Ahead' = puts
    BY <2>2 DEF Ahead
  <2> QED BY <1>1, <1>3, <2>2, <2>3 DEF Turned
<1> QED BY <1>2, <1>3

\* The first answer does not change the panel Ahead.
LEMMA TakenInOrder ==
    ASSUME Typed, TakeIn
    PROVE  answers' \in Seq(Shown) /\ Ahead' = Ahead
<1>1. answers \in Seq(Shown) /\ answers # << >> /\ answers' = Tail(answers)
      /\ panel' = answers[1]
  BY DEF Typed, TakeIn
<1>2. /\ answers' \in Seq(Shown) /\ Len(answers') = Len(answers) - 1
      /\ \A j \in 1..Len(answers') : answers'[j] = answers[j + 1]
  BY <1>1, HeadTailProperties
<1>3. Len(answers) \in Nat \ {0} /\ (answers' = << >> <=> Len(answers') = 0)
  BY <1>1, <1>2, EmptySeq
<1>4. CASE Len(answers) = 1
  BY <1>1, <1>2, <1>3, <1>4 DEF Ahead
<1>5. CASE Len(answers) # 1
  <2>1. Len(answers') \in 1..Len(answers') /\ answers' # << >>
    BY <1>2, <1>3, <1>5
  <2>2. answers'[Len(answers')] = answers[Len(answers)]
    BY <1>2, <1>3, <2>1
  <2> QED BY <1>1, <1>2, <2>1, <2>2 DEF Ahead
<1> QED BY <1>4, <1>5

\* Where no call is executed the session stays sound.
LEMMA QuietSound == IInv /\ Quiet => IInv'
  BY DoneFaithful DEF Quiet, IInv, Sound, Op

-----------------------------------------------------------------------------
(* The steps of the panel.                                                 *)

\* What Speak is, seen from the panel: a handler's answer, or one of the three
\* early returns that are not applied.
LEMMA SpeakCases ==
    ASSUME PInv, NEW i \in 1..Len(sent), Speak(i)
    PROVE  /\ Next /\ IInv' /\ (Shaped \/ SelectUnrouted \/ FilesExit \/ FilesGone)
           /\ Turned(Handled(reply')) /\ Typed' /\ crossed' = crossed
<1>1. IInv /\ Sound(vs) /\ Typed
  BY DEF PInv, IInv
<1>2. sent[i].focus \in Path \union {NoPath}
  <2>1. sent[i] \in Call
    BY <1>1 DEF Typed
  <2> QED BY <2>1 DEF Call
<1>3. Next
  BY <1>2 DEF Speak, Next, InFileSelection
<1>4. IInv'
  BY <1>1, <1>3, NextSound
<1>5. reply' \in Reply
  BY <1>4 DEF IInv
<1>6. Executed(i, Handled(reply')) /\ crossed' = crossed
  BY DEF Speak
<1>7. sent' \in Seq(Call) /\ answers' \in Seq(Shown) /\ Turned(Handled(reply'))
  BY <1>1, <1>5, <1>6, HandledShown, ExecutedTurns
<1>8. editor' \in Path \union {NoPath}
  BY <1>1, <1>5 DEF Speak, Typed, Reply
<1>9. Typed'
  BY <1>1, <1>6, <1>7, <1>8 DEF Typed
<1>10. Shaped \/ SelectUnrouted \/ FilesExit \/ FilesGone
  <2>1. CASE WithList(sent[i].focus)
    BY <1>1, <2>1, WithListShaped
  <2> QED BY <1>1, <2>1, MainShaped, SelectShaped DEF Speak
<1> QED BY <1>3, <1>4, <1>6, <1>7, <1>9, <1>10

\* The three early returns.
LEMMA EarlyReturns ==
    ASSUME PInv, Turned(Handled(reply'))
    PROVE  /\ SelectUnrouted =>
                /\ vs' = vs
                /\ vs.hits = << >> => Ahead' = Ahead
                /\ vs.hits # << >> =>
                     Ahead' = [kind |-> "hits", list |-> vs.hits, at |-> vs.active]
           /\ FilesExit \/ FilesGone => vs'.phase = "main"
<1>1. vs \in Session /\ (vs.hits # << >> => vs.active < Len(vs.hits))
  BY DEF PInv, IInv, Sound
<1>2. ASSUME SelectUnrouted
      PROVE  /\ vs' = vs
             /\ vs.hits = << >> => Ahead' = Ahead
             /\ vs.hits # << >> =>
                  Ahead' = [kind |-> "hits", list |-> vs.hits, at |-> vs.active]
  <2> DEFINE r == [Done("unrouted") EXCEPT !.search = KeptHits(vs)]
  <2>1. vs' = vs /\ reply' = r
    BY <1>2 DEF SelectUnrouted, Persist
  <2>2. r.search = KeptHits(vs) /\ r.files = Silent
    BY DoneParts
  <2>3. r.ok
    BY DEF Done
  <2>4. Silent.kind = "none"
    BY DEF Silent
  <2> HIDE DEF r
  <2>5. CASE vs.hits = << >>
    <3>1. r.search.kind = "none" /\ r.files.kind = "none"
      BY <2>2, <2>4, <2>5 DEF KeptHits
    <3>2. OneList(r)
      BY <3>1 DEF OneList, Kinds
    <3>3. Handled(r) = AsIs
      BY <2>3, <3>1, <3>2, HandledKinds
    <3> QED BY <2>1, <2>5, <3>3 DEF Turned
  <2>6. CASE vs.hits # << >>
    <3>1. /\ r.search.kind = "rows" /\ r.files.kind = "none"
          /\ r.search.list = vs.hits /\ r.search.at = vs.active
      BY <2>2, <2>4, <2>6 DEF KeptHits, HitRows
    <3>2. OneList(r)
      BY <1>1, <2>6, <3>1 DEF OneList, Kinds
    <3>3. /\ Handled(r) # AsIs
          /\ Handled(r) = [kind |-> "hits", list |-> vs.hits, at |-> vs.active]
      BY <2>3, <3>1, <3>2, HandledKinds
    <3> QED BY <2>1, <2>6, <3>3 DEF Turned
  <2> QED BY <2>5, <2>6
<1>3. FilesExit => vs'.phase = "main"
  BY <1>1 DEF FilesExit, Persist, CloseFileSelection, Session
<1>4. FilesGone => vs'.phase = "main"
  BY <1>1 DEF FilesGone, Persist, Session
<1> QED BY <1>2, <1>3, <1>4

LEMMA SpeakMatches ==
    ASSUME PInv, InStep, NEW i \in 1..Len(sent), Speak(i)
    PROVE  InStep'
<1>1. Turned(Handled(reply'))
  BY SpeakCases
<1>2. CASE Shaped
  BY <1>1, <1>2, AnswerMatches DEF Shaped
<1>3. CASE SelectUnrouted
  <2>1. vs.phase = "select" /\ vs' = vs
    BY <1>1, <1>3, EarlyReturns DEF SelectUnrouted
  <2>2. Ahead' = Ahead \/ Ahead' = [kind |-> "hits", list |-> vs.hits, at |-> vs.active]
    BY <1>1, <1>3, EarlyReturns
  <2>3. Ahead' = Ahead \/ Ahead'.kind = "hits"
    BY <2>2
  <2> QED BY <2>1, <2>3 DEF InStep
<1>4. CASE FilesExit \/ FilesGone
  BY <1>1, <1>4, EarlyReturns DEF InStep
<1> QED BY <1>2, <1>3, <1>4, SpeakCases

\* The close button sends the control of the list it shows; if that is still the
\* list when the control is executed, it is the list of the phase.
LEMMA CloseLeaves ==
    ASSUME PInv, NEW i \in 1..Len(sent), Close(i)
    PROVE  Controls /\ IInv' /\ Typed' /\ (~crossed' => vs'.phase = "main")
<1>1. vs \in Session /\ Typed /\ IInv
  BY DEF PInv, IInv, Sound
<1>2. Controls
  BY DEF Close, Controls
<1>3. IInv'
  BY <1>1, <1>2, ControlsSound
<1>4. NoPanel \in Shown
  BY EmptyLists DEF NoPanel, Shown
<1>5. sent' \in Seq(Call) /\ answers' \in Seq(Shown)
  BY <1>1, <1>4, ExecutedTurns DEF Close
<1>6. editor' = editor /\ crossed' \in BOOLEAN
  BY DEF Close
<1>7. Typed'
  BY <1>1, <1>5, <1>6 DEF Typed
<1>8. sent[i].kind \in {"cancel_file_selection", "cancel_selection"}
  <2>1. sent[i] \in Call
    BY <1>1 DEF Typed
  <2> QED BY <2>1 DEF Close, Call
<1>9. ASSUME ~crossed'
      PROVE  vs'.phase = "main"
  <2>1. ~crossed /\ (Ahead.kind = "closed" \/ sent[i].kind = ControlOf(Ahead))
    BY <1>9 DEF Close
  <2>2. InStep
    BY <2>1 DEF PInv
  <2>3. CASE CancelFileSelection /\ sent[i].kind = "cancel_file_selection"
    <3>1. vs.phase # "select"
      BY <2>1, <2>2, <2>3 DEF InStep, ControlOf
    <3> QED BY <1>1, <2>3, <3>1
          DEF CancelFileSelection, Persist, CloseFileSelection, Session, Phase
  <2>4. CASE CancelSelection /\ sent[i].kind = "cancel_selection"
    <3>1. vs.phase # "files"
      BY <2>1, <2>2, <2>4 DEF InStep, ControlOf
    <3> QED BY <1>1, <2>4, <3>1
          DEF CancelSelection, Persist, CloseSelection, Session, Phase
  <2> QED BY <1>8, <2>3, <2>4 DEF Close
<1> QED BY <1>2, <1>3, <1>7, <1>9

LEMMA PanelInitSound == PanelInit => PInv
<1> SUFFICES ASSUME PanelInit PROVE PInv
  OBVIOUS
<1>1. IInv
  BY InitSound DEF PanelInit
<1>2. vs.phase = "main"
  BY DEF PanelInit, Init, EmptySession
<1>3. Typed
  BY EmptySeq DEF PanelInit, Typed
<1> QED BY <1>1, <1>2, <1>3 DEF PInv, InStep

\* A step of the extension that leaves the panel and the answers as they are.
LEMMA StillInStep ==
    ASSUME PInv, Quiet, UNCHANGED <<panel, answers, crossed>>
    PROVE  IInv' /\ Ahead' = Ahead /\ (~crossed' => InStep')
<1>1. IInv' /\ Ahead' = Ahead /\ vs' = vs
  BY QuietSound DEF PInv, Ahead, Quiet
<1> QED BY <1>1 DEF PInv, InStep

\* The steps that only begin a call, drop one or change the editor.
Aside == Say \/ Press \/ SwitchEditor \/ \E i \in 1..Len(sent) : Reject(i)

LEMMA AsideQuiet ==
    ASSUME PInv, Aside
    PROVE  Typed' /\ Quiet /\ UNCHANGED <<panel, answers, crossed>>
<1>1. Typed
  BY DEF PInv
<1>2. ASSUME NEW call \in Call, Begin(call)
      PROVE  Typed' /\ Quiet /\ UNCHANGED <<panel, answers, crossed>>
  BY <1>1, <1>2, AppendProperties DEF Begin, Typed
<1>3. CASE Say
  <2>1. [kind |-> "speech", focus |-> FocusSent] \in Call
    BY <1>1, PathsAssumption DEF Typed, FocusSent, Call
  <2> QED BY <1>2, <1>3, <2>1 DEF Say
<1>4. CASE Press
  <2>1. [kind |-> ControlOf(panel), focus |-> NoPath] \in Call
    BY DEF ControlOf, Call
  <2> QED BY <1>2, <1>4, <2>1 DEF Press
<1>5. CASE SwitchEditor
  BY <1>1, <1>5 DEF SwitchEditor, Typed
<1>6. ASSUME NEW i \in 1..Len(sent), Reject(i)
      PROVE  Typed' /\ Quiet /\ UNCHANGED <<panel, answers, crossed>>
  <2>1. sent' \in Seq(Call)
    BY <1>1, <1>6, RemoveAtType DEF Reject, Typed
  <2> QED BY <1>1, <1>6, <2>1 DEF Reject, Typed
<1> QED BY <1>3, <1>4, <1>5, <1>6 DEF Aside

LEMMA PanelNextSound == PInv /\ [PanelNext]_panelVars => PInv'
<1> SUFFICES ASSUME PInv, [PanelNext]_panelVars PROVE PInv'
  OBVIOUS
<1>1. IInv /\ Typed /\ (~crossed => InStep)
  BY DEF PInv
<1>2. ASSUME NEW i \in 1..Len(sent), Speak(i)
      PROVE  PInv'
  BY <1>1, <1>2, SpeakCases, SpeakMatches DEF PInv
<1>3. ASSUME NEW i \in 1..Len(sent), Close(i)
      PROVE  PInv'
  BY <1>3, CloseLeaves DEF PInv, InStep
<1>4. CASE Aside
  BY <1>4, AsideQuiet, StillInStep DEF PInv
<1>5. CASE TakeIn
  <2>1. answers' \in Seq(Shown) /\ Ahead' = Ahead
    BY <1>1, <1>5, TakenInOrder
  <2>2. IInv' /\ vs' = vs
    BY <1>1, <1>5, QuietSound DEF TakeIn, Quiet
  <2>3. Typed'
    BY <1>1, <1>5, <2>1 DEF TakeIn, Typed
  <2>4. ~crossed' => InStep
    BY <1>1, <1>5 DEF TakeIn
  <2> QED BY <2>1, <2>2, <2>3, <2>4 DEF PInv, InStep
<1>6. ASSUME NEW i \in 2..Len(answers), Overtake(i)
      PROVE  PInv'
  <2>1. i \in 1..Len(answers)
    BY <1>1 DEF Typed
  <2>2. answers' \in Seq(Shown)
    BY <1>1, <1>6, <2>1, RemoveAtType DEF Overtake, Typed
  <2>3. IInv' /\ crossed' = TRUE
    BY <1>1, <1>6, QuietSound DEF Overtake
  <2>4. Typed'
    BY <1>1, <1>6, <2>2 DEF Overtake, Typed
  <2> QED BY <2>3, <2>4 DEF PInv
<1>7. CASE Forget
  <2>1. Controls /\ vs' = EmptySession
    BY <1>7 DEF Forget, Expire, Persist, Controls
  <2>2. IInv'
    BY <1>1, <2>1, ControlsSound
  <2>3. Typed'
    BY <1>1, <1>7 DEF Forget, Typed
  <2>4. vs'.phase = "main"
    BY <2>1 DEF EmptySession
  <2> QED BY <2>2, <2>3, <2>4 DEF PInv, InStep
<1>8. CASE UNCHANGED panelVars
  BY <1>1, <1>8 DEF panelVars, PInv, IInv, Typed, InStep, Ahead
<1> QED BY <1>2, <1>3, <1>4, <1>5, <1>6, <1>7, <1>8 DEF PanelNext, Voice, Aside

-----------------------------------------------------------------------------
(* The theorems.                                                           *)

\* The session is sound while calls and answers are under way, and unless these
\* cross, each list phase has its kind of list.
THEOREM PanelInvariant == PanelSpec => []PInv
  BY PanelInitSound, PanelNextSound, PTL DEF PanelSpec

\* NoHiddenPhase: unless answers overtake each other or a close reaches another list
\* than it was pressed for, the user is never in a list phase without seeing a list.
THEOREM NeverInAHiddenPhase == PanelSpec => []NoHiddenPhase
<1>1. PInv => NoHiddenPhase
  BY DEF PInv, IInv, Sound, Session, Phase, InStep, NoHiddenPhase
<1> QED BY <1>1, PanelInvariant, PTL

\* SuccessKeepsListsAgreed: what a handler changes in the session it reports, so
\* the rows on the screen become the rows the session counts.
THEOREM SuccessAlwaysKeepsListsAgreed == PanelSpec => SuccessKeepsListsAgreed
<1>1. PInv /\ [PanelNext]_panelVars =>
        [ListsAgree /\ reply'.ok /\ ~crossed' => ListsAgree']_panelVars
  <2> SUFFICES ASSUME PInv, PanelNext, ListsAgree, reply'.ok, ~crossed' PROVE ListsAgree'
    OBVIOUS
  <2>1. ASSUME NEW i \in 1..Len(sent), Speak(i)
        PROVE  ListsAgree'
    <3>1. Turned(Handled(reply'))
      BY <2>1, SpeakCases
    <3>2. CASE Shaped
      <4>1. PICK s, r : Shape(s, r) /\ Answer(s, r)
        BY <3>2 DEF Shaped
      <4>2. r.ok
        BY <4>1 DEF Answer
      <4> QED BY <3>1, <4>1, <4>2, AnswerAgrees
    <3>3. CASE SelectUnrouted
      <4>1. vs.phase = "select" /\ vs' = vs
        BY <3>1, <3>3, EarlyReturns DEF SelectUnrouted
      <4>2. vs.hits # << >> =>
               Ahead' = [kind |-> "hits", list |-> vs.hits, at |-> vs.active]
        BY <3>1, <3>3, EarlyReturns
      <4>3. vs.hits # << >> =>
               Ahead'.kind = "hits" /\ Ahead'.list = vs.hits /\ Ahead'.at = vs.active
        BY <4>2
      <4> QED BY <4>1, <4>3 DEF ListsAgree
    <3>4. CASE FilesExit \/ FilesGone
      BY <3>1, <3>4, EarlyReturns DEF ListsAgree
    <3> QED BY <2>1, <3>2, <3>3, <3>4, SpeakCases
  <2>2. ASSUME NEW i \in 1..Len(sent), Close(i)
        PROVE  ListsAgree'
    BY <2>2, CloseLeaves DEF ListsAgree
  <2>3. CASE Aside
    <3>1. Ahead' = Ahead /\ vs' = vs
      BY <2>3, AsideQuiet, StillInStep DEF Quiet
    <3> QED BY <3>1 DEF ListsAgree
  <2>4. CASE TakeIn
    <3>1. Ahead' = Ahead /\ vs' = vs
      BY <2>4, TakenInOrder DEF PInv, TakeIn, Quiet
    <3> QED BY <3>1 DEF ListsAgree
  <2>5. ASSUME NEW i \in 2..Len(answers), Overtake(i)
        PROVE  ListsAgree'
    BY <2>5 DEF Overtake
  <2>6. CASE Forget
    BY <2>6 DEF Forget, Expire, Persist, EmptySession, ListsAgree
  <2> QED BY <2>1, <2>2, <2>3, <2>4, <2>5, <2>6 DEF PanelNext, Voice, Aside
<1> QED BY <1>1, PanelInvariant, PTL DEF PanelSpec, SuccessKeepsListsAgreed

=============================================================================
