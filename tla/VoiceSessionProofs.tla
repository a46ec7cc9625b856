------------------------ MODULE VoiceSessionProofs ------------------------
(***************************************************************************)
(* The safety of the voice session, for every set of paths, hits and       *)
(* search results: Spec => [] of the invariants of VoiceSession.           *)
(*                                                                         *)
(* The invariants are kept one utterance at a time, but a handler works on *)
(* intermediate sessions (refocused, stepped, listed, moved) and on a      *)
(* completion that Apply then turns into a session.  So the argument is:   *)
(* every intermediate session is Sound, every completion is Faithful, and  *)
(* Apply makes a sound session of the two.                                 *)
(***************************************************************************)
EXTENDS VoiceSession, SequenceTheorems, TLAPS

Sound(s) ==
    /\ s \in Session
    /\ s.hits # << >> => s.active < Len(s.hits)
    /\ s.paths # << >> =>
          /\ s.index < Len(s.paths)
          /\ s.focus = s.paths[s.index + 1]
          /\ Len(s.isDir) = Len(s.paths)
          /\ \A i \in 1..Len(s.paths) : s.isDir[i] => s.paths[i] \in Folder
    /\ s.phase = "files" => s.hits = << >>

\* A completion whose rows Apply can adopt.
Faithful(r) ==
    /\ r \in Reply
    /\ r.search.kind = "rows" => r.search.list # << >>
    /\ r.files.kind = "rows" =>
          /\ r.files.list # << >>
          /\ Len(r.files.dirs) = Len(r.files.list)
          /\ \A i \in 1..Len(r.files.list) :
                r.files.dirs[i] => r.files.list[i] \in Folder

IInv == Sound(vs) /\ reply \in Reply

-----------------------------------------------------------------------------
(* Sessions.                                                               *)

\* The empty list is a list of anything.
LEMMA EmptyLists ==
    << >> \in Seq(Hit) /\ << >> \in Seq(Path) /\ << >> \in Seq(BOOLEAN)
    BY EmptySeq

\* A closed list leaves a sound session.
LEMMA CloseSelectionSound ==
    ASSUME NEW s, Sound(s)
    PROVE  /\ Sound(CloseSelection(s))
           /\ Sound([CloseSelection(s) EXCEPT !.phase = "main"])
    <1>1. s \in Session
      BY DEF Sound
    <1>2. CloseSelection(s) \in Session
      BY <1>1, EmptyLists DEF Session, CloseSelection
    <1>3. [CloseSelection(s) EXCEPT !.phase = "main"] \in Session
      BY <1>2 DEF Session, Phase
    <1> QED BY <1>1, <1>2, <1>3 DEF Sound, Session, CloseSelection

LEMMA CloseFileSelectionSound ==
    ASSUME NEW s, Sound(s)
    PROVE  /\ Sound(CloseFileSelection(s))
           /\ Sound([CloseFileSelection(s) EXCEPT !.phase = "main"])
    <1> DEFINE t == CloseFileSelection(s)
               u == [t EXCEPT !.phase = "main"]
    <1>1. s \in Session /\ t \in Session /\ u \in Session
      BY EmptyLists, PathsAssumption DEF Sound, Session, CloseFileSelection, Phase
    <1>2. /\ t.phase = s.phase /\ t.hits = s.hits /\ t.active = s.active
          /\ t.paths = << >>
      BY <1>1 DEF Session, CloseFileSelection
    <1>3. /\ u.phase = "main" /\ u.hits = s.hits /\ u.active = s.active
          /\ u.paths = << >>
      BY <1>1 DEF Session, CloseFileSelection
    <1> HIDE DEF t, u
    <1>4. Sound(t)
      BY <1>1, <1>2 DEF Sound
    <1>5. Sound(u)
      BY <1>1, <1>3 DEF Sound
    <1> QED BY <1>4, <1>5 DEF t, u

\* outcome.Apply keeps a session sound when the completion is faithful.
LEMMA ApplySound ==
    ASSUME NEW s, NEW r, Sound(s), Faithful(r)
    PROVE  Sound(Apply(s, r))
    <1>1. CASE r.search.kind = "rows"
      <2> DEFINE t == [s EXCEPT !.phase = "select", !.hits = r.search.list,
                                !.active = IF r.search.at < Len(r.search.list)
                                           THEN r.search.at ELSE 0]
      <2>1. Apply(s, r) = t
        BY <1>1 DEF Apply
      <2>2. s \in Session /\ r \in Reply /\ r.search \in Wire(Hit)
        BY DEF Sound, Faithful, Reply
      <2>3. t \in Session
        BY <2>2 DEF Session, Wire, Phase
      <2>4. /\ t.phase = "select" /\ t.hits = r.search.list
            /\ t.active = IF r.search.at < Len(r.search.list) THEN r.search.at ELSE 0
            /\ t.paths = s.paths /\ t.isDir = s.isDir
            /\ t.index = s.index /\ t.focus = s.focus
        BY <2>2 DEF Session
      <2>5. r.search.list \in Seq(Hit) /\ r.search.list # << >>
        BY <1>1, <2>2 DEF Faithful, Wire
      <2> HIDE DEF t
      <2>6. t.active < Len(t.hits)
        BY <2>4, <2>5
      <2> QED BY <2>1, <2>3, <2>4, <2>6 DEF Sound
    <1>2. CASE r.search.kind \in {"closed", "no hits"}
      BY <1>2, CloseSelectionSound DEF Apply
    <1>3. CASE r.search.kind = "none" /\ r.files.kind = "rows"
      <2> DEFINE at == IF r.files.at < Len(r.files.list) THEN r.files.at ELSE 0
                 t == [CloseSelection(s) EXCEPT
                         !.phase = "files", !.paths = r.files.list,
                         !.isDir = r.files.dirs,
                         !.index = IF r.files.at < Len(r.files.list) THEN r.files.at ELSE 0,
                         !.focus = r.files.list[IF r.files.at < Len(r.files.list)
                                                THEN r.files.at + 1 ELSE 1]]
      <2>1. Apply(s, r) = t
        BY <1>3 DEF Apply
      <2>2. s \in Session /\ r \in Reply /\ r.files \in Wire(Path)
        BY DEF Sound, Faithful, Reply
      <2>3. /\ r.files.list \in Seq(Path) /\ r.files.list # << >>
            /\ r.files.dirs \in Seq(BOOLEAN) /\ r.files.at \in Nat
        BY <1>3, <2>2 DEF Faithful, Wire
      <2>4. /\ at \in Nat /\ at < Len(r.files.list)
            /\ at + 1 = IF r.files.at < Len(r.files.list) THEN r.files.at + 1 ELSE 1
            /\ r.files.list[at + 1] \in Path
        BY <2>3
      <2>5. t \in Session
        BY <2>2, <2>3, <2>4, EmptyLists DEF Session, CloseSelection, Phase
      <2>6. /\ t.phase = "files" /\ t.hits = << >> /\ t.paths = r.files.list
            /\ t.isDir = r.files.dirs /\ t.index = at
            /\ t.focus = r.files.list[at + 1]
        BY <2>2, <2>4 DEF Session, CloseSelection
      <2>7. /\ Len(r.files.dirs) = Len(r.files.list)
            /\ \A i \in 1..Len(r.files.list) :
                  r.files.dirs[i] => r.files.list[i] \in Folder
        BY <1>3 DEF Faithful
      <2> HIDE DEF t, at
      <2> QED BY <2>1, <2>4, <2>5, <2>6, <2>7 DEF Sound
    <1>4. CASE r.search.kind = "none" /\ r.files.kind \in {"closed", "no hits"}
      <2> DEFINE c == CloseFileSelection(s)
                 t == [c EXCEPT !.phase = "main", !.isDir = << >>]
      <2>1. Apply(s, r) = t
        BY <1>4 DEF Apply
      <2>2. Sound(c) /\ c.paths = << >> /\ c \in Session
        BY CloseFileSelectionSound DEF Sound, Session, CloseFileSelection
      <2> HIDE DEF c
      <2>3. /\ t \in Session /\ t.phase = "main" /\ t.hits = c.hits
            /\ t.active = c.active /\ t.paths = << >>
        BY <2>2, EmptyLists DEF Session, Phase
      <2> HIDE DEF t
      <2> QED BY <2>1, <2>2, <2>3 DEF Sound
    <1>5. CASE r.search.kind = "none" /\ r.files.kind = "none"
      BY <1>5 DEF Apply
    <1>6. /\ r.search.kind \in {"none", "closed", "no hits", "rows"}
          /\ r.files.kind \in {"none", "closed", "no hits", "rows"}
      BY DEF Faithful, Reply, Wire
    <1> QED BY <1>1, <1>2, <1>3, <1>4, <1>5, <1>6

-----------------------------------------------------------------------------
(* Completions.                                                            *)

\* The completions without a list, successes and refusals, are faithful.
LEMMA DoneFaithful ==
    ASSUME NEW op \in Op
    PROVE  /\ Done(op) \in Reply
           /\ Faithful(Done(op))
           /\ \A n \in Nat : Faithful(Refused(op, n)) /\ ~Refused(op, n).ok
           /\ Done(op).search = Silent /\ Done(op).files = Silent
    BY EmptyLists DEF Done, Refused, Silent, Faithful, Reply, Wire

\* The parts of a completion that close a list or report no matches.
LEMMA ClosedWire ==
    /\ Silent \in Wire(Hit) /\ Silent \in Wire(Path)
    /\ Closed \in Wire(Hit) /\ Closed \in Wire(Path)
    /\ NoMatches \in Wire(Hit) /\ NoMatches \in Wire(Path)
    /\ Silent.kind # "rows" /\ Closed.kind # "rows" /\ NoMatches.kind # "rows"
    BY EmptyLists DEF Silent, Closed, NoMatches, Wire

\* A completion is faithful when each of its two parts is.
FaithfulHits(w) == w \in Wire(Hit) /\ (w.kind = "rows" => w.list # << >>)
FaithfulRows(w) ==
    /\ w \in Wire(Path)
    /\ w.kind = "rows" =>
          /\ w.list # << >>
          /\ Len(w.dirs) = Len(w.list)
          /\ \A i \in 1..Len(w.list) : w.dirs[i] => w.list[i] \in Folder

LEMMA PartsFaithful ==
    ASSUME NEW r, r \in Reply, FaithfulHits(r.search), FaithfulRows(r.files)
    PROVE  Faithful(r)
    BY DEF Faithful, FaithfulHits, FaithfulRows

\* The rows of a sound session with a list, as FileSearchStateFromPathsWithDir
\* reports them.
LEMMA RowsOfFaithful ==
    ASSUME NEW s, Sound(s), s.paths # << >>
    PROVE  FaithfulRows(RowsOf(s))
    <1> DEFINE n == Len(s.paths)
               dirs == [i \in 1..n |-> i <= Len(s.isDir) /\ s.isDir[i]]
               at == IF s.index < Len(s.paths) THEN s.index ELSE 0
    <1>1. /\ s.paths \in Seq(Path) /\ s.isDir \in Seq(BOOLEAN) /\ s.index \in Nat
          /\ Len(s.isDir) = n /\ n \in Nat
          /\ \A i \in 1..n : s.isDir[i] => s.paths[i] \in Folder
      BY DEF Sound, Session
    <1>2. \A i \in 1..n : (i <= Len(s.isDir) /\ s.isDir[i]) \in BOOLEAN
      OBVIOUS
    <1>3. dirs \in Seq(BOOLEAN) /\ Len(dirs) = n
      <2>1. dirs \in [1..n -> BOOLEAN]
        BY <1>2
      <2> HIDE DEF dirs, n
      <2> QED BY <1>1, <2>1
    <1>4. \A i \in 1..n : dirs[i] => s.isDir[i]
      OBVIOUS
    <1>5. at \in Nat
      BY <1>1
    <1>6. RowsOf(s) = [kind |-> "rows", list |-> s.paths, dirs |-> dirs, at |-> at]
      BY DEF RowsOf, FileRows
    <1> HIDE DEF n, dirs, at
    <1> QED BY <1>1, <1>3, <1>4, <1>5, <1>6 DEF FaithfulRows, Wire, n

\* The list shown again by a handler with nothing new to show, and a focus alone.
LEMMA KeptFaithful ==
    ASSUME NEW s, Sound(s)
    PROVE  /\ s.paths # << >> => FaithfulRows(KeptRows(s))
           /\ FaithfulHits(KeptHits(s))
           /\ s.focus # NoPath => FaithfulRows(OneRow(s.focus))
    <1>1. s \in Session
      BY DEF Sound
    <1>2. s.paths # << >> => FaithfulRows(KeptRows(s))
      BY RowsOfFaithful DEF KeptRows
    <1>3. FaithfulHits(KeptHits(s))
      BY <1>1, ClosedWire, EmptyLists DEF KeptHits, HitRows, FaithfulHits, Session, Wire
    <1>4. ASSUME s.focus # NoPath PROVE FaithfulRows(OneRow(s.focus))
      <2>1. s.focus \in Path
        BY <1>1, <1>4 DEF Session
      <2> DEFINE l == <<s.focus>>
                 d == <<FALSE>>
                 w == OneRow(s.focus)
      <2>2. l \in Seq(Path) /\ l # << >> /\ Len(l) = 1
        BY <2>1
      <2>3. d \in Seq(BOOLEAN) /\ Len(d) = 1 /\ ~d[1]
        OBVIOUS
      <2>4. w = [kind |-> "rows", list |-> l, dirs |-> d, at |-> 0]
        BY DEF OneRow, FileRows
      <2> HIDE DEF l, d, w
      <2>5. w \in Wire(Path) /\ w.list = l /\ w.dirs = d
        BY <2>2, <2>3, <2>4 DEF Wire
      <2>6. \A i \in 1..Len(w.list) : w.dirs[i] => w.list[i] \in Folder
        <3>1. Len(w.list) = 1
          BY <2>2, <2>5
        <3>2. \A i \in 1..Len(w.list) : i = 1
          BY <3>1
        <3> QED BY <2>3, <2>5, <3>2
      <2>7. w.list # << >> /\ Len(w.dirs) = Len(w.list)
        BY <2>2, <2>3, <2>5
      <2>8. FaithfulRows(w)
        BY <2>5, <2>6, <2>7 DEF FaithfulRows
      <2> QED BY <2>8 DEF w
    <1> QED BY <1>2, <1>3, <1>4

-----------------------------------------------------------------------------
(* Intermediate sessions.                                                  *)

\* The session of a path search before the host is asked to open a path.
LEMMA ListedSound ==
    ASSUME NEW s, Sound(s), NEW ps \in PathLists
    PROVE  /\ Sound(Listed(s, ps)) /\ Listed(s, ps).paths # << >>
           /\ Listed(s, ps).phase = s.phase
           /\ ps[1] \in Path
    <1> DEFINE dirs == [i \in 1..Len(ps) |-> ps[i] \in Folder]
               t == [CloseSelection(s) EXCEPT !.paths = ps, !.isDir = dirs,
                                              !.index = 0, !.focus = ps[1]]
    <1>1. s \in Session /\ ps \in Seq(Path) /\ ps # << >> /\ Len(ps) \in Nat
      BY ListsAssumption DEF Sound
    <1>2. ps[1] \in Path /\ 0 < Len(ps) /\ ps[1] = ps[0 + 1]
      BY <1>1
    <1>3. dirs \in Seq(BOOLEAN) /\ Len(dirs) = Len(ps)
      <2>1. dirs \in [1..Len(ps) -> BOOLEAN]
        OBVIOUS
      <2> HIDE DEF dirs
      <2> QED BY <1>1, <2>1
    <1>4. \A i \in 1..Len(ps) : dirs[i] => ps[i] \in Folder
      OBVIOUS
    <1>5. Listed(s, ps) = t
      BY DEF Listed
    <1> HIDE DEF dirs
    <1>6. t \in Session
      BY <1>1, <1>2, <1>3, EmptyLists DEF Session, CloseSelection
    <1>7. /\ t.phase = s.phase /\ t.hits = << >> /\ t.paths = ps /\ t.isDir = dirs
          /\ t.index = 0 /\ t.focus = ps[1]
      BY <1>1 DEF Session, CloseSelection
    <1> HIDE DEF t
    <1> QED BY <1>1, <1>2, <1>3, <1>4, <1>5, <1>6, <1>7 DEF Sound

\* The focus moves to a row that names the path, wherever the session was: what
\* it had at its index before does not matter.
LEMMA RefocusedSound ==
    ASSUME NEW s \in Session, NEW path \in Path,
           s.hits # << >> => s.active < Len(s.hits),
           s.phase = "files" => s.hits = << >>,
           Len(s.isDir) = Len(s.paths),
           \A i \in 1..Len(s.paths) : s.isDir[i] => s.paths[i] \in Folder,
           NEW k \in 1..Len(s.paths), s.paths[k] = path,
           NEW t \in Refocused(s, path)
    PROVE  Sound(t) /\ t.phase = s.phase /\ t.paths = s.paths /\ t.focus = path
    <1>1. PICK i \in 1..Len(s.paths) :
             s.paths[i] = path /\ t = [s EXCEPT !.index = i - 1, !.focus = path]
      BY DEF Refocused
    <1>2. s.paths \in Seq(Path) /\ Len(s.paths) \in Nat /\ i - 1 \in Nat
      BY DEF Session
    <1>3. /\ t \in Session /\ t.phase = s.phase /\ t.hits = s.hits
          /\ t.active = s.active /\ t.paths = s.paths /\ t.isDir = s.isDir
          /\ t.index = i - 1 /\ t.focus = path
      BY <1>1, <1>2 DEF Session
    <1>4. t.index < Len(t.paths) /\ t.focus = t.paths[t.index + 1]
      BY <1>1, <1>2, <1>3
    <1> QED BY <1>3, <1>4 DEF Sound

\* The session an utterance of the file-selection phase is handled in.
LEMMA HeardSound ==
    ASSUME Sound(vs), NEW path, NEW s \in Heard(path)
    PROVE  Sound(s) /\ s.phase = "files" /\ vs.phase = "files" /\ s.paths = vs.paths
           /\ s.paths # << >> /\ s.focus \in Path
    <1>1. vs.phase = "files" /\ vs.paths # << >> /\ s \in Refocused(vs, path)
      BY DEF Heard
    <1>2. vs \in Session /\ vs.paths \in Seq(Path)
      BY DEF Sound, Session
    <1>3. CASE \E k \in 1..Len(vs.paths) : vs.paths[k] = path
      <2>1. PICK k \in 1..Len(vs.paths) : vs.paths[k] = path
        BY <1>3
      <2>2. path \in Path
        BY <1>2, <2>1
      <2> QED BY <1>1, <1>2, <2>1, <2>2, RefocusedSound DEF Sound
    <1>4. CASE ~ \E k \in 1..Len(vs.paths) : vs.paths[k] = path
      <2>1. s = vs
        BY <1>1, <1>4 DEF Refocused
      <2>2. vs.index \in Nat /\ vs.index < Len(vs.paths)
            /\ vs.focus = vs.paths[vs.index + 1]
        BY <1>1 DEF Sound, Session
      <2> QED BY <1>1, <1>2, <2>1, <2>2
    <1> QED BY <1>3, <1>4

\* An index moved by "next", "back" or "pick" stays within its list.
LEMMA NavigatedInRange ==
    ASSUME NEW n \in Nat, NEW i \in Nat, n > 0 => i < n, NEW nav \in Navs
    PROVE  Navigated(i, n, nav) \in Nat /\ (n > 0 => Navigated(i, n, nav) < n)
    BY PickAssumption DEF Navigated, Navs

\* The session after a step in the file list.
LEMMA FileStepSound ==
    ASSUME NEW s, Sound(s), s.paths # << >>, NEW nav \in Navs
    PROVE  /\ Sound(FileStep(s, nav)) /\ FileStep(s, nav).paths # << >>
           /\ FileStep(s, nav).phase = s.phase
           /\ FileStep(s, nav).focus \in Path
    <1> DEFINE i == Navigated(s.index, Len(s.paths), nav)
               t == [s EXCEPT !.index = i, !.focus = s.paths[i + 1]]
    <1>1. s \in Session /\ s.paths \in Seq(Path) /\ Len(s.paths) \in Nat \ {0}
          /\ s.index \in Nat /\ s.index < Len(s.paths)
      BY DEF Sound, Session
    <1>2. i \in Nat /\ i < Len(s.paths)
      BY <1>1, NavigatedInRange
    <1> HIDE DEF i
    <1>3. FileStep(s, nav) = t
      BY <1>2 DEF FileStep, i
    <1>4. s.paths[i + 1] \in Path
      BY <1>1, <1>2
    <1>5. /\ t \in Session /\ t.phase = s.phase /\ t.hits = s.hits
          /\ t.active = s.active /\ t.paths = s.paths /\ t.isDir = s.isDir
          /\ t.index = i /\ t.focus = s.paths[i + 1]
      BY <1>1, <1>2, <1>4 DEF Session
    <1> HIDE DEF t
    <1> QED BY <1>1, <1>2, <1>3, <1>4, <1>5 DEF Sound

\* The session after the focused row was moved to another path of its kind.
LEMMA MovedSound ==
    ASSUME NEW s, Sound(s), s.paths # << >>, NEW to \in Path,
           to \in Folder <=> s.focus \in Folder, NEW m \in Moved(s, to)
    PROVE  Sound(m) /\ m.paths # << >> /\ m.phase = s.phase
    <1> DEFINE ps == [i \in 1..Len(s.paths) |->
                        IF s.paths[i] = s.focus THEN to ELSE s.paths[i]]
               t == [s EXCEPT !.paths = ps, !.focus = to]
               k == s.index + 1
    <1>1. /\ s \in Session /\ s.paths \in Seq(Path) /\ Len(s.paths) \in Nat \ {0}
          /\ k \in 1..Len(s.paths) /\ s.focus = s.paths[k]
      BY DEF Sound, Session
    <1>2. ps \in [1..Len(s.paths) -> Path]
      BY <1>1
    <1>3. ps \in Seq(Path) /\ Len(ps) = Len(s.paths) /\ ps[k] = to /\ ps # << >>
      BY <1>1, <1>2
    <1>4. /\ Len(s.isDir) = Len(ps)
          /\ \A i \in 1..Len(ps) : s.isDir[i] => ps[i] \in Folder
      BY <1>1, <1>3 DEF Sound
    <1> HIDE DEF ps, k
    <1>5. /\ t \in Session /\ t.phase = s.phase /\ t.hits = s.hits
          /\ t.active = s.active /\ t.paths = ps /\ t.isDir = s.isDir
      BY <1>1, <1>3 DEF Session
    <1>6. m \in Refocused(t, to)
      BY DEF Moved, ps
    <1> HIDE DEF t
    <1>7. k \in 1..Len(t.paths) /\ t.paths[k] = to
      BY <1>1, <1>3, <1>5
    <1>8. Sound(m) /\ m.phase = t.phase /\ m.paths = t.paths
      BY <1>3, <1>4, <1>5, <1>6, <1>7, RefocusedSound DEF Sound
    <1> QED BY <1>3, <1>5, <1>8

-----------------------------------------------------------------------------
(* The ends of a handler.                                                  *)

\* A successful completion that says something about one of the lists.
LEMMA SuccessFaithful ==
    ASSUME NEW op \in Op, NEW w, FaithfulHits(w), NEW f, FaithfulRows(f),
           NEW opened \in Path \union {NoPath}, NEW n \in Nat
    PROVE  /\ Faithful([Done(op) EXCEPT !.search = w])
           /\ Faithful([Done(op) EXCEPT !.search = w, !.batches = n])
           /\ Faithful([Done(op) EXCEPT !.search = w, !.batches = n, !.opened = opened])
           /\ Faithful([Done(op) EXCEPT !.files = f])
           /\ Faithful([Done(op) EXCEPT !.files = f, !.batches = n, !.opened = opened])
    <1> DEFINE d == Done(op)
    <1>1. d \in Reply /\ FaithfulHits(d.search) /\ FaithfulRows(d.files)
      BY DoneFaithful, ClosedWire DEF FaithfulHits, FaithfulRows
    <1>2. w \in Wire(Hit) /\ f \in Wire(Path)
      BY DEF FaithfulHits, FaithfulRows
    <1> HIDE DEF d
    <1>3. Faithful([d EXCEPT !.search = w])
      <2> DEFINE r == [d EXCEPT !.search = w]
      <2>1. r \in Reply /\ r.search = w /\ r.files = d.files
        BY <1>1, <1>2 DEF Reply
      <2> QED BY <1>1, <2>1, PartsFaithful
    <1>4. Faithful([d EXCEPT !.search = w, !.batches = n])
      <2> DEFINE r == [d EXCEPT !.search = w, !.batches = n]
      <2>1. r \in Reply /\ r.search = w /\ r.files = d.files
        BY <1>1, <1>2 DEF Reply
      <2> QED BY <1>1, <2>1, PartsFaithful
    <1>5. Faithful([d EXCEPT !.search = w, !.batches = n, !.opened = opened])
      <2> DEFINE r == [d EXCEPT !.search = w, !.batches = n, !.opened = opened]
      <2>1. r \in Reply /\ r.search = w /\ r.files = d.files
        BY <1>1, <1>2 DEF Reply
      <2> QED BY <1>1, <2>1, PartsFaithful
    <1>6. Faithful([d EXCEPT !.files = f])
      <2> DEFINE r == [d EXCEPT !.files = f]
      <2>1. r \in Reply /\ r.search = d.search /\ r.files = f
        BY <1>1, <1>2 DEF Reply
      <2> QED BY <1>1, <2>1, PartsFaithful
    <1>7. Faithful([d EXCEPT !.files = f, !.batches = n, !.opened = opened])
      <2> DEFINE r == [d EXCEPT !.files = f, !.batches = n, !.opened = opened]
      <2>1. r \in Reply /\ r.search = d.search /\ r.files = f
        BY <1>1, <1>2 DEF Reply
      <2> QED BY <1>1, <2>1, PartsFaithful
    <1> QED BY <1>3, <1>4, <1>5, <1>6, <1>7 DEF d

\* A successful completion that says what was done to which path.
LEMMA ActedFaithful ==
    ASSUME NEW op \in Op, NEW f, FaithfulRows(f),
           NEW opened \in Path \union {NoPath}, NEW acted \in Path \union {NoPath},
           NEW place \in {"none", "under", "beside"}, NEW n \in Nat
    PROVE  /\ Faithful([Done(op) EXCEPT !.acted = acted, !.batches = n])
           /\ Faithful([Done(op) EXCEPT !.acted = acted, !.batches = n, !.place = place])
           /\ Faithful([Done(op) EXCEPT !.files = f, !.acted = acted, !.batches = n,
                                        !.opened = opened])
    <1> DEFINE d == Done(op)
    <1>1. d \in Reply /\ FaithfulHits(d.search) /\ FaithfulRows(d.files)
      BY DoneFaithful, ClosedWire DEF FaithfulHits, FaithfulRows
    <1>2. f \in Wire(Path)
      BY DEF FaithfulRows
    <1> HIDE DEF d
    <1>3. Faithful([d EXCEPT !.acted = acted, !.batches = n])
      <2> DEFINE r == [d EXCEPT !.acted = acted, !.batches = n]
      <2>1. r \in Reply /\ r.search = d.search /\ r.files = d.files
        BY <1>1 DEF Reply
      <2> QED BY <1>1, <2>1, PartsFaithful
    <1>4. Faithful([d EXCEPT !.acted = acted, !.batches = n, !.place = place])
      <2> DEFINE r == [d EXCEPT !.acted = acted, !.batches = n, !.place = place]
      <2>1. r \in Reply /\ r.search = d.search /\ r.files = d.files
        BY <1>1 DEF Reply
      <2> QED BY <1>1, <2>1, PartsFaithful
    <1>5. Faithful([d EXCEPT !.files = f, !.acted = acted, !.batches = n,
                             !.opened = opened])
      <2> DEFINE r == [d EXCEPT !.files = f, !.acted = acted, !.batches = n,
                                !.opened = opened]
      <2>1. r \in Reply /\ r.search = d.search /\ r.files = f
        BY <1>1, <1>2 DEF Reply
      <2> QED BY <1>1, <2>1, PartsFaithful
    <1> QED BY <1>3, <1>4, <1>5 DEF d

\* The parts that report no rows.
LEMMA NoRowsFaithful ==
    /\ FaithfulHits(Silent) /\ FaithfulHits(Closed) /\ FaithfulHits(NoMatches)
    /\ FaithfulRows(Silent) /\ FaithfulRows(Closed) /\ FaithfulRows(NoMatches)
    BY ClosedWire DEF FaithfulHits, FaithfulRows

\* A handler that answers from a sound session with a faithful completion, and
\* an early return from a sound session, leave the invariant true.
LEMMA AnswerSound ==
    ASSUME NEW s, NEW r, Sound(s), Faithful(r), Answer(s, r)
    PROVE  IInv'
    BY ApplySound DEF Answer, IInv, Faithful

LEMMA PersistSound ==
    ASSUME NEW s, NEW r, Sound(s), r \in Reply, Persist(s, r)
    PROVE  IInv'
    BY DEF Persist, IInv

\* Successes with no list and refusals, from a sound session.
LEMMA PlainSound ==
    ASSUME NEW s, Sound(s), NEW op \in Op,
           \/ Answer(s, Done(op))
           \/ Answer(s, [Done(op) EXCEPT !.batches = 1])
           \/ \E n \in Nat : Answer(s, Refused(op, n))
    PROVE  IInv'
    <1>1. CASE Answer(s, Done(op))
      BY <1>1, DoneFaithful, AnswerSound
    <1>2. CASE Answer(s, [Done(op) EXCEPT !.batches = 1])
      <2> DEFINE r == [Done(op) EXCEPT !.batches = 1]
      <2>1. r \in Reply /\ r.search = Silent /\ r.files = Silent
        BY DoneFaithful DEF Reply
      <2>2. Faithful(r)
        BY <2>1, NoRowsFaithful, PartsFaithful
      <2> QED BY <1>2, <2>2, AnswerSound
    <1>3. ASSUME NEW n \in Nat, Answer(s, Refused(op, n))
          PROVE  IInv'
      BY <1>3, DoneFaithful, AnswerSound
    <1> QED BY <1>1, <1>2, <1>3

-----------------------------------------------------------------------------
(* The handlers shared by the phases.                                      *)

\* A content search, from any sound session.
LEMMA WorkspaceSearchSound ==
    ASSUME NEW s, Sound(s), WorkspaceSearch(s)
    PROVE  IInv'
    <1>1. ASSUME NEW hits \in HitLists,
                 Answer(s, [Done("workspace_select") EXCEPT
                              !.search = HitRows(hits, 0), !.batches = 1,
                              !.opened = HitPath[hits[1]]])
          PROVE  IInv'
      <2>1. hits \in Seq(Hit) /\ hits # << >>
        BY ListsAssumption
      <2>2. HitPath[hits[1]] \in Path
        BY <2>1, PathsAssumption
      <2>3. FaithfulHits(HitRows(hits, 0))
        BY <2>1, EmptyLists DEF FaithfulHits, HitRows, Wire
      <2>4. "workspace_select" \in Op /\ 1 \in Nat
        BY DEF Op
      <2>5. Faithful([Done("workspace_select") EXCEPT
                        !.search = HitRows(hits, 0), !.batches = 1,
                        !.opened = HitPath[hits[1]]])
        BY <2>2, <2>3, <2>4, NoRowsFaithful, SuccessFaithful
      <2> QED BY <1>1, <2>5, AnswerSound
    <1>2. CASE Answer(s, [Done("workspace_select") EXCEPT !.search = NoMatches])
      BY <1>2, NoRowsFaithful, SuccessFaithful, AnswerSound DEF Op
    <1>3. CASE \E n \in 0..1 : Answer(s, Refused("workspace_select", n))
      BY <1>3, PlainSound DEF Op
    <1> QED BY <1>1, <1>2, <1>3 DEF WorkspaceSearch

\* A path search: the list is in the session before the host is asked to open
\* its first row, also when the host then refuses.
LEMMA FileSearchSound ==
    ASSUME NEW s, Sound(s), NEW host, host = "files" => s.paths # << >>,
           FileSearch(s, host)
    PROVE  IInv'
    <1>1. ASSUME NEW ps \in PathLists,
                 Answer(Listed(s, ps),
                        [Done("file_select") EXCEPT
                           !.files = RowsOf(Listed(s, ps)),
                           !.batches = IF ps[1] \notin Binary THEN 1 ELSE 0,
                           !.opened = IF ps[1] \notin Binary /\ ps[1] \notin Folder
                                      THEN ps[1] ELSE NoPath])
          PROVE  IInv'
      <2> DEFINE m == Listed(s, ps)
                 n == IF ps[1] \notin Binary THEN 1 ELSE 0
                 p == IF ps[1] \notin Binary /\ ps[1] \notin Folder
                      THEN ps[1] ELSE NoPath
      <2>1. Sound(m) /\ m.paths # << >> /\ ps[1] \in Path
        BY ListedSound
      <2>2. FaithfulRows(RowsOf(m)) /\ n \in Nat /\ p \in Path \union {NoPath}
        BY <2>1, RowsOfFaithful
      <2>3. Answer(m, [Done("file_select") EXCEPT !.files = RowsOf(m), !.batches = n,
                                                  !.opened = p])
        BY <1>1
      <2> HIDE DEF m, n, p
      <2>4. "file_select" \in Op
        BY DEF Op
      <2>5. Faithful([Done("file_select") EXCEPT !.files = RowsOf(m), !.batches = n,
                                                 !.opened = p])
        BY <2>2, <2>4, NoRowsFaithful, SuccessFaithful
      <2> QED BY <2>1, <2>3, <2>5, AnswerSound
    <1>2. ASSUME NEW ps \in PathLists, Answer(Listed(s, ps), Refused("file_select", 1))
          PROVE  IInv'
      BY <1>2, ListedSound, PlainSound DEF Op
    <1>3. ASSUME host = "files", Answer(s, [Done("file_select") EXCEPT !.files = KeptRows(s)])
          PROVE  IInv'
      BY <1>3, KeptFaithful, NoRowsFaithful, SuccessFaithful, AnswerSound DEF Op
    <1>4. CASE Answer(s, [Done("file_select") EXCEPT !.files = NoMatches])
      BY <1>4, NoRowsFaithful, SuccessFaithful, AnswerSound DEF Op
    <1>5. CASE Answer(s, Refused("file_select", 0))
      BY <1>5, PlainSound DEF Op
    <1> QED BY <1>1, <1>2, <1>3, <1>4, <1>5 DEF FileSearch

\* Creating code reports one hit; the routes that only send edits report none.
LEMMA CreateSound ==
    ASSUME NEW s, Sound(s), Create(s)
    PROVE  IInv'
    <1>1. ASSUME NEW h \in Hit, NEW n \in 1..2,
                 Answer(s, [Done("create") EXCEPT !.search = HitRows(<<h>>, 0), !.batches = n])
          PROVE  IInv'
      <2>1. FaithfulHits(HitRows(<<h>>, 0))
        BY EmptyLists DEF FaithfulHits, HitRows, Wire
      <2>2. n \in Nat
        OBVIOUS
      <2> QED BY <1>1, <2>1, <2>2, NoRowsFaithful, SuccessFaithful, AnswerSound DEF Op
    <1>2. ASSUME NEW n \in 0..2, Answer(s, Refused("create", n))
          PROVE  IInv'
      BY <1>2, PlainSound DEF Op
    <1> QED BY <1>1, <1>2 DEF Create

LEMMA UntouchedSound ==
    ASSUME NEW s, Sound(s), NEW op \in Op, Untouched(s, op)
    PROVE  IInv'
    BY PlainSound DEF Untouched

-----------------------------------------------------------------------------
(* One lemma for each phase.                                               *)

\* Utterances of the main phase keep the invariant.
LEMMA MainSound ==
    ASSUME IInv, InMain
    PROVE  IInv'
    <1>1. Sound(vs)
      BY DEF IInv
    <1>2. CASE MainSearch
      BY <1>1, <1>2, WorkspaceSearchSound DEF MainSearch
    <1>3. CASE MainFileSearch
      BY <1>1, <1>3, FileSearchSound DEF MainFileSearch
    <1>4. CASE MainCreate
      BY <1>1, <1>4, CreateSound DEF MainCreate
    <1>5. CASE MainCommand
      BY <1>1, <1>5, UntouchedSound DEF MainCommand, Op
    <1>6. CASE MainOther
      BY <1>1, <1>6, PlainSound DEF MainOther, Op
    <1> QED BY <1>2, <1>3, <1>4, <1>5, <1>6 DEF InMain

\* Moving in the hit list: the index moves first, in a session that stays sound.
LEMMA SelectControlSound ==
    ASSUME IInv, SelectControl
    PROVE  IInv'
    <1>1. vs.phase = "select" /\ Sound(vs) /\ vs \in Session /\ vs.hits \in Seq(Hit)
          /\ vs.active \in Nat /\ Len(vs.hits) \in Nat
      BY DEF IInv, Sound, Session, SelectControl
    <1>2. PICK nav \in Navs :
            LET m == [vs EXCEPT !.active = Navigated(vs.active, Len(vs.hits), nav)]
            IN  IF m.hits = << >>
                THEN Answer(m, [Done("hit_control") EXCEPT !.search = Closed])
                ELSE \/ Answer(m, [Done("hit_control") EXCEPT
                                      !.search = HitRows(m.hits, m.active),
                                      !.batches = 1,
                                      !.opened = HitPath[m.hits[m.active + 1]]])
                     \/ Answer(m, Refused("hit_control", 1))
      BY DEF SelectControl
    <1> DEFINE i == Navigated(vs.active, Len(vs.hits), nav)
               m == [vs EXCEPT !.active = i]
    <1>3. i \in Nat /\ (vs.hits # << >> => i < Len(vs.hits))
      <2>1. CASE vs.hits = << >>
        BY <1>1, <2>1, PickAssumption DEF Navigated, Navs
      <2>2. CASE vs.hits # << >>
        <3>1. Len(vs.hits) > 0 /\ vs.active < Len(vs.hits)
          BY <1>1, <2>2 DEF Sound
        <3> QED BY <1>1, <2>2, <3>1, NavigatedInRange
      <2> QED BY <2>1, <2>2
    <1> HIDE DEF i
    <1>4. /\ m \in Session /\ m.phase = vs.phase /\ m.hits = vs.hits /\ m.active = i
          /\ m.paths = vs.paths /\ m.isDir = vs.isDir /\ m.index = vs.index
          /\ m.focus = vs.focus
      BY <1>1, <1>3 DEF Session
    <1>5. \/ m.hits = << >> /\ Answer(m, [Done("hit_control") EXCEPT !.search = Closed])
          \/ /\ m.hits # << >>
             /\ \/ Answer(m, [Done("hit_control") EXCEPT
                                 !.search = HitRows(m.hits, m.active), !.batches = 1,
                                 !.opened = HitPath[m.hits[m.active + 1]]])
                \/ Answer(m, Refused("hit_control", 1))
      BY <1>2 DEF i
    <1> HIDE DEF m
    <1>6. Sound(m)
      BY <1>1, <1>3, <1>4 DEF Sound
    <1>7. "hit_control" \in Op
      BY DEF Op
    <1>8. CASE Answer(m, [Done("hit_control") EXCEPT !.search = Closed])
      BY <1>6, <1>7, <1>8, NoRowsFaithful, SuccessFaithful, AnswerSound
    <1>9. CASE /\ m.hits # << >>
               /\ Answer(m, [Done("hit_control") EXCEPT
                                !.search = HitRows(m.hits, m.active), !.batches = 1,
                                !.opened = HitPath[m.hits[m.active + 1]]])
      <2>1. m.hits \in Seq(Hit) /\ m.hits # << >> /\ m.active \in Nat
            /\ m.active < Len(m.hits)
        BY <1>1, <1>3, <1>4, <1>9
      <2>2. HitPath[m.hits[m.active + 1]] \in Path
        BY <2>1, PathsAssumption
      <2>3. FaithfulHits(HitRows(m.hits, m.active))
        BY <2>1, EmptyLists DEF FaithfulHits, HitRows, Wire
      <2>4. Faithful([Done("hit_control") EXCEPT
                        !.search = HitRows(m.hits, m.active), !.batches = 1,
                        !.opened = HitPath[m.hits[m.active + 1]]])
        BY <1>7, <2>2, <2>3, NoRowsFaithful, SuccessFaithful
      <2> QED BY <1>6, <1>9, <2>4, AnswerSound
    <1>10. CASE Answer(m, Refused("hit_control", 1))
      BY <1>6, <1>7, <1>10, PlainSound
    <1> QED BY <1>5, <1>8, <1>9, <1>10

\* Utterances of the select phase keep the invariant.
LEMMA SelectSound ==
    ASSUME IInv, InSelect
    PROVE  IInv'
    <1>1. Sound(vs) /\ FaithfulHits(KeptHits(vs))
      BY KeptFaithful DEF IInv
    <1>2. CASE SelectSearch
      BY <1>1, <1>2, WorkspaceSearchSound DEF SelectSearch
    <1>3. CASE SelectFileSearch
      BY <1>1, <1>3, FileSearchSound DEF SelectFileSearch
    <1>4. CASE SelectCreate
      BY <1>1, <1>4, CreateSound DEF SelectCreate
    <1>5. CASE SelectEdit
      BY <1>1, <1>5, UntouchedSound DEF SelectEdit, Op
    <1>6. CASE SelectNoQuery
      BY <1>1, <1>6, NoRowsFaithful, SuccessFaithful, AnswerSound DEF SelectNoQuery, Op
    <1>7. CASE SelectUnrouted
      BY <1>1, <1>7, NoRowsFaithful, SuccessFaithful, PersistSound
      DEF SelectUnrouted, Op, Faithful
    <1>8. CASE SelectOther
      BY <1>1, <1>8, PlainSound DEF SelectOther, Op
    <1>9. CASE SelectExit
      BY <1>1, <1>9, CloseSelectionSound, NoRowsFaithful, SuccessFaithful, AnswerSound
      DEF SelectExit, Op
    <1>10. CASE SelectControl
      BY <1>10, SelectControlSound
    <1>11. CASE SelectRename
      <2>1. "rename_symbol" \in Op
        BY DEF Op
      <2> QED BY <1>1, <1>11, <2>1, PlainSound DEF SelectRename
    <1> QED BY <1>2, <1>3, <1>4, <1>5, <1>6, <1>7, <1>8, <1>9, <1>10, <1>11 DEF InSelect

\* A step in the file list, opened by the host or refused by it.
LEMMA FilesControlSound ==
    ASSUME IInv, NEW path, FilesControl(path)
    PROVE  IInv'
    <1>1. PICK s \in Heard(path), nav \in Navs :
            LET m == FileStep(s, nav)
                opens == ~FocusIsDir(m) /\ m.focus # NoPath
            IN  \/ Answer(m, [Done("file_control") EXCEPT
                                 !.files = KeptRows(m),
                                 !.batches = IF opens THEN 1 ELSE 0,
                                 !.opened = IF opens /\ m.focus \notin Folder
                                            THEN m.focus ELSE NoPath])
                \/ opens /\ Answer(m, Refused("file_control", 1))
      BY DEF FilesControl
    <1>2. Sound(s) /\ s.paths # << >>
      BY HeardSound DEF IInv
    <1> DEFINE m == FileStep(s, nav)
               opens == ~FocusIsDir(m) /\ m.focus # NoPath
               n == IF opens THEN 1 ELSE 0
               p == IF opens /\ m.focus \notin Folder THEN m.focus ELSE NoPath
    <1>3. \/ Answer(m, [Done("file_control") EXCEPT
                           !.files = KeptRows(m), !.batches = n, !.opened = p])
          \/ Answer(m, Refused("file_control", 1))
      BY <1>1
    <1>4. Sound(m) /\ m.paths # << >> /\ m.focus \in Path
      BY <1>2, FileStepSound
    <1>5. n \in Nat /\ p \in Path \union {NoPath}
      BY <1>4
    <1>6. "file_control" \in Op
      BY DEF Op
    <1> HIDE DEF m, n, p
    <1>7. Faithful([Done("file_control") EXCEPT
                      !.files = KeptRows(m), !.batches = n, !.opened = p])
      BY <1>4, <1>5, <1>6, KeptFaithful, NoRowsFaithful, SuccessFaithful
    <1> QED BY <1>3, <1>4, <1>6, <1>7, PlainSound, AnswerSound

\* A deleted file takes the list with it.
LEMMA FilesDeleteSound ==
    ASSUME IInv, NEW path, FilesDelete(path)
    PROVE  IInv'
    <1>1. PICK s \in Heard(path) :
            \/ Answer([s EXCEPT !.paths = << >>],
                      [Done("delete_file") EXCEPT !.acted = s.focus, !.batches = 1])
            \/ \E n \in Nat : Answer(s, Refused("delete_file", n))
      <2>1. 0..0 \subseteq Nat /\ 0..1 \subseteq Nat
        OBVIOUS
      <2> QED BY <2>1 DEF FilesDelete
    <1>2. Sound(s) /\ s \in Session /\ s.focus \in Path \union {NoPath}
      BY HeardSound DEF IInv, Sound, Session
    <1>3. "delete_file" \in Op
      BY DEF Op
    <1>4. Sound([s EXCEPT !.paths = << >>])
      <2> DEFINE t == [s EXCEPT !.paths = << >>]
      <2>1. /\ t \in Session /\ t.phase = s.phase /\ t.hits = s.hits
            /\ t.active = s.active /\ t.paths = << >>
        BY <1>2, EmptyLists DEF Session
      <2> HIDE DEF t
      <2>2. Sound(t)
        BY <1>2, <2>1 DEF Sound
      <2> QED BY <2>2 DEF t
    <1>5. Faithful([Done("delete_file") EXCEPT !.acted = s.focus, !.batches = 1])
      BY <1>2, <1>3, NoRowsFaithful, ActedFaithful
    <1>6. CASE \E n \in Nat : Answer(s, Refused("delete_file", n))
      BY <1>2, <1>3, <1>6, PlainSound
    <1>7. CASE Answer([s EXCEPT !.paths = << >>],
                      [Done("delete_file") EXCEPT !.acted = s.focus, !.batches = 1])
      BY <1>4, <1>5, <1>7, AnswerSound
    <1> QED BY <1>1, <1>6, <1>7

\* The two ways a move or a rename ends, with their numbers of batches bounded.
LEMMA RelocateCases ==
    ASSUME NEW path, FilesRelocate(path)
    PROVE  \E s \in Heard(path), op \in {"move", "rename"} :
            \/ \E to \in Path \ {s.focus, WorkspaceRoot}, k \in 0..1, shown \in BOOLEAN :
                 /\ to \in Folder <=> s.focus \in Folder
                 /\ \E m \in Moved(s, to) :
                      Answer(m, [Done(op) EXCEPT
                                   !.files = RowsOf(m), !.acted = s.focus,
                                   !.batches = k + (IF to \in Folder THEN 1 ELSE 2),
                                   !.opened = IF shown THEN to ELSE NoPath])
            \/ Answer(s, Refused(op, 0))
            \/ \E k \in 0..1 : Answer(s, Refused(op, k + 1))
    <1>1. PICK s \in Heard(path), op \in {"move", "rename"} :
            LET first == IF op = "rename" /\ s.focus \notin Folder THEN 0..1 ELSE {0}
                mayMove == s.focus # NoPath /\ s.focus # WorkspaceRoot
            IN  \/ /\ mayMove
                   /\ \E to \in Path \ {s.focus, WorkspaceRoot}, n \in first, shown \in BOOLEAN :
                        /\ to \in Folder <=> s.focus \in Folder
                        /\ shown => to \notin Folder
                        /\ \E m \in Moved(s, to) :
                             Answer(m, [Done(op) EXCEPT
                                          !.files = RowsOf(m), !.acted = s.focus,
                                          !.batches = n + (IF to \in Folder THEN 1 ELSE 2),
                                          !.opened = IF shown THEN to ELSE NoPath])
                \/ Answer(s, Refused(op, 0))
                \/ mayMove /\ \E n \in first : Answer(s, Refused(op, n + 1))
      BY DEF FilesRelocate
    <1> DEFINE first == IF op = "rename" /\ s.focus \notin Folder THEN 0..1 ELSE {0}
    <1>2. first \subseteq 0..1
      OBVIOUS
    <1>3. \/ \E to \in Path \ {s.focus, WorkspaceRoot}, n \in first, shown \in BOOLEAN :
               /\ to \in Folder <=> s.focus \in Folder
               /\ \E m \in Moved(s, to) :
                    Answer(m, [Done(op) EXCEPT
                                 !.files = RowsOf(m), !.acted = s.focus,
                                 !.batches = n + (IF to \in Folder THEN 1 ELSE 2),
                                 !.opened = IF shown THEN to ELSE NoPath])
          \/ Answer(s, Refused(op, 0))
          \/ \E n \in first : Answer(s, Refused(op, n + 1))
      BY <1>1
    <1> HIDE DEF first
    <1> QED BY <1>2, <1>3, ZenonT(40)

\* A move or a rename replaces every row of the old path.
LEMMA FilesRelocateSound ==
    ASSUME IInv, NEW path, FilesRelocate(path)
    PROVE  IInv'
    <1>1. PICK s \in Heard(path), op \in {"move", "rename"} :
            \/ \E to \in Path \ {s.focus, WorkspaceRoot}, k \in 0..1, shown \in BOOLEAN :
                 /\ to \in Folder <=> s.focus \in Folder
                 /\ \E m \in Moved(s, to) :
                      Answer(m, [Done(op) EXCEPT
                                   !.files = RowsOf(m), !.acted = s.focus,
                                   !.batches = k + (IF to \in Folder THEN 1 ELSE 2),
                                   !.opened = IF shown THEN to ELSE NoPath])
            \/ Answer(s, Refused(op, 0))
            \/ \E k \in 0..1 : Answer(s, Refused(op, k + 1))
      BY RelocateCases
    <1>2. Sound(s) /\ s.paths # << >> /\ s.focus \in Path
      BY HeardSound DEF IInv
    <1>3. op \in Op
      BY DEF Op
    <1>4. ASSUME NEW to \in Path, NEW k \in 0..1, NEW shown \in BOOLEAN,
                 to \in Folder <=> s.focus \in Folder, NEW m \in Moved(s, to),
                 Answer(m, [Done(op) EXCEPT
                              !.files = RowsOf(m), !.acted = s.focus,
                              !.batches = k + (IF to \in Folder THEN 1 ELSE 2),
                              !.opened = IF shown THEN to ELSE NoPath])
          PROVE  IInv'
      <2> DEFINE n == k + (IF to \in Folder THEN 1 ELSE 2)
                 p == IF shown THEN to ELSE NoPath
      <2>1. n \in Nat /\ p \in Path \union {NoPath}
        OBVIOUS
      <2>2. Answer(m, [Done(op) EXCEPT !.files = RowsOf(m), !.acted = s.focus,
                                       !.batches = n, !.opened = p])
        BY <1>4
      <2> HIDE DEF n, p
      <2>3. Sound(m) /\ m.paths # << >>
        BY <1>2, <1>4, MovedSound
      <2>4. Faithful([Done(op) EXCEPT !.files = RowsOf(m), !.acted = s.focus,
                                      !.batches = n, !.opened = p])
        BY <1>2, <1>3, <2>1, <2>3, RowsOfFaithful, ActedFaithful
      <2> QED BY <2>2, <2>3, <2>4, AnswerSound
    <1>5. CASE Answer(s, Refused(op, 0))
      BY <1>2, <1>3, <1>5, PlainSound
    <1>6. ASSUME NEW k \in 0..1, Answer(s, Refused(op, k + 1))
          PROVE  IInv'
      <2>1. k + 1 \in Nat
        OBVIOUS
      <2> QED BY <1>2, <1>3, <1>6, <2>1, PlainSound
    <1> QED BY <1>1, <1>4, <1>5, <1>6

\* A new file beside or under the focus leaves the session as it was.
LEMMA FilesCreateEntrySound ==
    ASSUME IInv, NEW path, FilesCreateEntry(path)
    PROVE  IInv'
    <1>1. PICK s \in Heard(path) :
            \/ Answer(s, [Done("create_entry") EXCEPT
                            !.acted = s.focus, !.batches = 2,
                            !.place = IF FocusIsDir(s) THEN "under" ELSE "beside"])
            \/ \E n \in Nat : Answer(s, Refused("create_entry", n))
      <2>1. 0..0 \subseteq Nat /\ 0..1 \subseteq Nat
        OBVIOUS
      <2> QED BY <2>1 DEF FilesCreateEntry
    <1> DEFINE q == IF FocusIsDir(s) THEN "under" ELSE "beside"
    <1>2. Sound(s) /\ s.focus \in Path /\ q \in {"none", "under", "beside"}
      BY HeardSound DEF IInv
    <1>3. "create_entry" \in Op
      BY DEF Op
    <1>4. CASE \E n \in Nat : Answer(s, Refused("create_entry", n))
      BY <1>2, <1>3, <1>4, PlainSound
    <1>5. ASSUME Answer(s, [Done("create_entry") EXCEPT
                              !.acted = s.focus, !.batches = 2, !.place = q])
          PROVE  IInv'
      <2> HIDE DEF q
      <2>1. Faithful([Done("create_entry") EXCEPT
                        !.acted = s.focus, !.batches = 2, !.place = q])
        BY <1>2, <1>3, NoRowsFaithful, ActedFaithful, ZenonT(40)
      <2> QED BY <1>2, <1>5, <2>1, AnswerSound
    <1> QED BY <1>1, <1>4, <1>5

\* Utterances of the file-selection phase keep the invariant.
LEMMA FileSelectionSound ==
    ASSUME IInv, InFileSelection
    PROVE  IInv'
    <1>1. Sound(vs) /\ vs \in Session
      BY DEF IInv, Sound
    <1>2. CASE FilesExit
      <2>1. [Done("exit") EXCEPT !.files = Closed] \in Reply
        BY NoRowsFaithful, SuccessFaithful, ZenonT(40) DEF Faithful, Op
      <2> QED BY <1>1, <1>2, <2>1, CloseFileSelectionSound, PersistSound DEF FilesExit
    <1>3. CASE FilesGone
      <2> DEFINE t == [vs EXCEPT !.phase = "main"]
      <2>1. /\ t \in Session /\ t.phase = "main" /\ t.hits = vs.hits
            /\ t.active = vs.active /\ t.paths = vs.paths /\ t.isDir = vs.isDir
            /\ t.index = vs.index /\ t.focus = vs.focus
        BY <1>1 DEF Session, Phase
      <2>2. Persist(t, Done("gone")) /\ Done("gone") \in Reply
        BY <1>3, DoneFaithful DEF FilesGone, Op
      <2> HIDE DEF t
      <2>3. Sound(t)
        BY <1>1, <2>1 DEF Sound
      <2> QED BY <2>2, <2>3, PersistSound
    <1>4. ASSUME NEW path, WithList(path)
          PROVE  IInv'
      <2>1. \A s \in Heard(path) :
               Sound(s) /\ s.paths # << >> /\ FaithfulRows(KeptRows(s))
               /\ s.focus \in Path
        BY <1>1, HeardSound, KeptFaithful
      <2>2. CASE FilesSearch(path)
        BY <2>1, <2>2, WorkspaceSearchSound DEF FilesSearch
      <2>3. CASE FilesFileSearch(path)
        BY <2>1, <2>3, FileSearchSound DEF FilesFileSearch
      <2>4. CASE FilesCreate(path)
        BY <2>1, <2>4, CreateSound DEF FilesCreate
      <2>5. CASE FilesCommand(path)
        BY <2>1, <2>5, UntouchedSound DEF FilesCommand, Op
      <2>6. CASE FilesKeep(path)
        BY <2>1, <2>6, NoRowsFaithful, SuccessFaithful, AnswerSound DEF FilesKeep, Op
      <2>7. CASE FilesUnrouted(path)
        BY <2>1, <2>7, DoneFaithful, PersistSound DEF FilesUnrouted, Op, Faithful
      <2>8. CASE FilesCollapse(path)
        <3>1. PICK s \in Heard(path) :
                Answer(s, [Done("collapse") EXCEPT
                             !.files = IF s.focus # NoPath THEN OneRow(s.focus) ELSE Silent])
          BY <2>8 DEF FilesCollapse
        <3> DEFINE f == IF s.focus # NoPath THEN OneRow(s.focus) ELSE Silent
        <3>2. FaithfulRows(f) /\ Sound(s)
          BY <2>1, KeptFaithful, NoRowsFaithful
        <3>3. Answer(s, [Done("collapse") EXCEPT !.files = f])
          BY <3>1
        <3> HIDE DEF f
        <3> QED BY <3>2, <3>3, NoRowsFaithful, SuccessFaithful, AnswerSound DEF Op
      <2>9. CASE FilesControl(path)
        BY <2>9, FilesControlSound
      <2>10. CASE FilesDelete(path)
        BY <2>10, FilesDeleteSound
      <2>11. CASE FilesRelocate(path)
        BY <2>11, FilesRelocateSound
      <2>12. CASE FilesCreateEntry(path)
        BY <2>12, FilesCreateEntrySound
      <2> QED BY <1>4, <2>2, <2>3, <2>4, <2>5, <2>6, <2>7, <2>8, <2>9, <2>10, <2>11,
                 <2>12 DEF WithList
    <1> QED BY <1>2, <1>3, <1>4 DEF InFileSelection

\* The host's cancel buttons and the eviction of the session.
LEMMA EmptySessionSound == Sound(EmptySession)
    <1>1. EmptySession \in Session
      BY EmptyLists DEF EmptySession, Session, Phase
    <1> QED BY <1>1 DEF Sound, EmptySession

LEMMA ControlsSound ==
    ASSUME IInv, Controls
    PROVE  IInv'
    <1>1. Sound(vs) /\ vs \in Session
      BY DEF IInv, Sound
    <1>2. CASE CancelSelection
      <2>1. [Done("cancel_selection") EXCEPT !.search = Closed] \in Reply
        BY NoRowsFaithful, SuccessFaithful, ZenonT(40) DEF Faithful, Op
      <2> DEFINE c == CloseSelection(vs)
                 t == [c EXCEPT !.phase = IF vs.phase = "select" THEN "main" ELSE @]
      <2>2. Sound(c) /\ Sound([c EXCEPT !.phase = "main"]) /\ c \in Session
        BY <1>1, CloseSelectionSound DEF Sound
      <2>3. Persist(t, [Done("cancel_selection") EXCEPT !.search = Closed])
        BY <1>2 DEF CancelSelection
      <2> HIDE DEF c
      <2>4. t = c \/ t = [c EXCEPT !.phase = "main"]
        BY <2>2 DEF Session
      <2> HIDE DEF t
      <2> QED BY <2>1, <2>2, <2>3, <2>4, PersistSound
    <1>3. CASE CancelFileSelection
      <2>1. [Done("cancel_file_selection") EXCEPT !.files = Closed] \in Reply
        BY NoRowsFaithful, SuccessFaithful, ZenonT(40) DEF Faithful, Op
      <2> DEFINE c == CloseFileSelection(vs)
                 t == [c EXCEPT !.phase = IF vs.phase = "files" THEN "main" ELSE @]
      <2>2. Sound(c) /\ Sound([c EXCEPT !.phase = "main"]) /\ c \in Session
        BY <1>1, CloseFileSelectionSound DEF Sound
      <2>3. Persist(t, [Done("cancel_file_selection") EXCEPT !.files = Closed])
        BY <1>3 DEF CancelFileSelection
      <2> HIDE DEF c
      <2>4. t = c \/ t = [c EXCEPT !.phase = "main"]
        BY <2>2 DEF Session
      <2> HIDE DEF t
      <2> QED BY <2>1, <2>2, <2>3, <2>4, PersistSound
    <1>4. CASE Expire
      <2>1. Done("expired") \in Reply
        BY DoneFaithful DEF Op
      <2> QED BY <1>4, <2>1, EmptySessionSound, PersistSound DEF Expire
    <1> QED BY <1>2, <1>3, <1>4 DEF Controls

-----------------------------------------------------------------------------
(* The theorems.                                                           *)

\* The invariant holds at first and is kept by every step.
LEMMA InitSound == Init => IInv
    BY EmptySessionSound, DoneFaithful DEF Init, IInv, Op

LEMMA NextSound == IInv /\ [Next]_vars => IInv'
    <1> SUFFICES ASSUME IInv, [Next]_vars PROVE IInv'
      OBVIOUS
    <1>1. CASE InMain
      BY <1>1, MainSound
    <1>2. CASE InSelect
      BY <1>2, SelectSound
    <1>3. CASE InFileSelection
      BY <1>3, FileSelectionSound
    <1>4. CASE Controls
      BY <1>4, ControlsSound
    <1>5. CASE UNCHANGED vars
      BY <1>5 DEF vars, IInv, Sound
    <1> QED BY <1>1, <1>2, <1>3, <1>4, <1>5 DEF Next

\* The inductive invariant always holds.
THEOREM AlwaysSound == Spec => []IInv
    BY InitSound, NextSound, PTL DEF Spec

\* The session and the completion keep their shapes (TypeOK): no step takes an
\* index below zero or stores a row that is not a path.
THEOREM TypeCorrect == Spec => []TypeOK
    <1>1. IInv => TypeOK
      BY DEF IInv, Sound, TypeOK
    <1> QED BY <1>1, AlwaysSound, PTL

\* ActiveHitExists: no handler of the select phase indexes past the hits.
THEOREM ActiveHitAlwaysExists == Spec => []ActiveHitExists
    <1>1. IInv => ActiveHitExists
      BY DEF IInv, Sound, ActiveHitExists
    <1> QED BY <1>1, AlwaysSound, PTL

\* FocusIsActiveRow: the path the handlers act on is the row at the index.
THEOREM FocusAlwaysActiveRow == Spec => []FocusIsActiveRow
    <1>1. IInv => FocusIsActiveRow
      BY DEF IInv, Sound, FocusIsActiveRow
    <1> QED BY <1>1, AlwaysSound, PTL

\* FlagsNeverClaimAFolder: the folder flags are those of the list they lie beside.
THEOREM FlagsAlwaysMatchList == Spec => []FlagsNeverClaimAFolder
    <1>1. IInv => FlagsNeverClaimAFolder
      BY DEF IInv, Sound, FlagsNeverClaimAFolder
    <1> QED BY <1>1, AlwaysSound, PTL

\* FilePhaseHasNoHits: the two kinds of lists never mix.
THEOREM FilePhaseNeverHasHits == Spec => []FilePhaseHasNoHits
    <1>1. IInv => FilePhaseHasNoHits
      BY DEF IInv, Sound, FilePhaseHasNoHits
    <1> QED BY <1>1, AlwaysSound, PTL

-----------------------------------------------------------------------------
(* Refusals.                                                               *)

\* What RefusalKeepsPhase says of a step.
PhaseKept == ~reply'.ok => vs'.phase = vs.phase

\* A handler may have changed its session before it refused, but not the phase.
LEMMA AnswerKeepsPhase ==
    ASSUME NEW s, NEW r, Answer(s, r), s.phase = vs.phase
    PROVE  PhaseKept
    BY DEF Answer, PhaseKept

LEMMA SharedKeepPhase ==
    ASSUME NEW s, Sound(s), s.phase = vs.phase
    PROVE  /\ WorkspaceSearch(s) => PhaseKept
           /\ \A host : FileSearch(s, host) => PhaseKept
           /\ Create(s) => PhaseKept
           /\ \A op : Untouched(s, op) => PhaseKept
    <1>1. WorkspaceSearch(s) => PhaseKept
      BY AnswerKeepsPhase DEF WorkspaceSearch
    <1>2. ASSUME NEW host, FileSearch(s, host) PROVE PhaseKept
      BY <1>2, ListedSound, AnswerKeepsPhase DEF FileSearch
    <1>3. Create(s) => PhaseKept
      BY AnswerKeepsPhase DEF Create
    <1>4. ASSUME NEW op, Untouched(s, op) PROVE PhaseKept
      BY <1>4, AnswerKeepsPhase DEF Untouched
    <1> QED BY <1>1, <1>2, <1>3, <1>4

LEMMA MainKeepsPhase == IInv /\ InMain => PhaseKept
    <1> SUFFICES ASSUME IInv, InMain PROVE PhaseKept
      OBVIOUS
    <1>1. Sound(vs)
      BY DEF IInv
    <1>2. CASE MainOther
      BY <1>2, AnswerKeepsPhase DEF MainOther
    <1> QED BY <1>1, <1>2, SharedKeepPhase
            DEF InMain, MainSearch, MainFileSearch, MainCreate, MainCommand

LEMMA SelectKeepsPhase == IInv /\ InSelect => PhaseKept
    <1> SUFFICES ASSUME IInv, InSelect PROVE PhaseKept
      OBVIOUS
    <1>1. Sound(vs) /\ vs \in Session
      BY DEF IInv, Sound
    <1>2. CASE SelectSearch \/ SelectFileSearch \/ SelectCreate \/ SelectEdit
      BY <1>1, <1>2, SharedKeepPhase
      DEF SelectSearch, SelectFileSearch, SelectCreate, SelectEdit
    <1>3. CASE SelectNoQuery \/ SelectOther
      BY <1>3, AnswerKeepsPhase DEF SelectNoQuery, SelectOther
    <1>4. CASE SelectUnrouted
      BY <1>4 DEF SelectUnrouted, Persist, PhaseKept
    <1>5. CASE SelectExit
      <2>1. reply' = [Done("exit") EXCEPT !.search = Closed]
        BY <1>5 DEF SelectExit, Answer
      <2>2. reply'.ok
        BY <2>1 DEF Done
      <2> QED BY <2>2 DEF PhaseKept
    <1>6. CASE SelectControl
      <2>1. PICK nav \in Navs :
              \E r : Answer([vs EXCEPT !.active = Navigated(vs.active, Len(vs.hits), nav)], r)
        BY <1>6 DEF SelectControl
      <2>2. [vs EXCEPT !.active = Navigated(vs.active, Len(vs.hits), nav)].phase = vs.phase
        BY <1>1 DEF Session
      <2> QED BY <2>1, <2>2, AnswerKeepsPhase
    <1>7. CASE SelectRename
      BY <1>7, AnswerKeepsPhase DEF SelectRename
    <1> QED BY <1>2, <1>3, <1>4, <1>5, <1>6, <1>7 DEF InSelect

LEMMA FilesKeepPhase == IInv /\ InFileSelection => PhaseKept
    <1> SUFFICES ASSUME IInv, InFileSelection PROVE PhaseKept
      OBVIOUS
    <1>1. Sound(vs)
      BY DEF IInv
    <1>2. CASE FilesExit
      <2>1. reply' = [Done("exit") EXCEPT !.files = Closed]
        BY <1>2 DEF FilesExit, Persist
      <2>2. reply'.ok
        BY <2>1 DEF Done
      <2> QED BY <2>2 DEF PhaseKept
    <1>3. CASE FilesGone
      BY <1>3 DEF FilesGone, Persist, Done, PhaseKept
    <1>4. ASSUME NEW path, WithList(path) PROVE PhaseKept
      <2>1. \A s \in Heard(path) :
               Sound(s) /\ s.paths # << >> /\ s.phase = vs.phase /\ s.focus \in Path
        BY <1>1, HeardSound
      <2>2. CASE FilesSearch(path) \/ FilesFileSearch(path) \/ FilesCreate(path)
                 \/ FilesCommand(path)
        BY <2>1, <2>2, SharedKeepPhase
        DEF FilesSearch, FilesFileSearch, FilesCreate, FilesCommand
      <2>3. CASE FilesKeep(path) \/ FilesCollapse(path) \/ FilesCreateEntry(path)
        BY <2>1, <2>3, AnswerKeepsPhase DEF FilesKeep, FilesCollapse, FilesCreateEntry
      <2>4. CASE FilesUnrouted(path)
        BY <2>1, <2>4 DEF FilesUnrouted, Persist, PhaseKept
      <2>5. CASE FilesControl(path)
        <3>1. PICK s \in Heard(path), nav \in Navs :
                \E r : Answer(FileStep(s, nav), r)
          BY <2>5 DEF FilesControl
        <3>2. FileStep(s, nav).phase = vs.phase
          BY <2>1, FileStepSound
        <3> QED BY <3>1, <3>2, AnswerKeepsPhase
      <2>6. CASE FilesDelete(path)
        <3>1. PICK s \in Heard(path) : \E r :
                Answer(s, r) \/ Answer([s EXCEPT !.paths = << >>], r)
          BY <2>6 DEF FilesDelete
        <3>2. s.phase = vs.phase /\ [s EXCEPT !.paths = << >>].phase = vs.phase
          BY <2>1 DEF Sound, Session
        <3> QED BY <3>1, <3>2, AnswerKeepsPhase
      <2>7. CASE FilesRelocate(path)
        <3>1. PICK s \in Heard(path) : \E r :
                \/ Answer(s, r)
                \/ \E to \in Path : /\ to \in Folder <=> s.focus \in Folder
                                    /\ \E m \in Moved(s, to) : Answer(m, r)
          BY <2>7, RelocateCases, ZenonT(40)
        <3> QED BY <2>1, <3>1, MovedSound, AnswerKeepsPhase
      <2> QED BY <1>4, <2>2, <2>3, <2>4, <2>5, <2>6, <2>7 DEF WithList
    <1> QED BY <1>2, <1>3, <1>4 DEF InFileSelection

\* RefusalKeepsPhase: an utterance that was refused can be said again and is
\* understood by the same phase.
THEOREM RefusalAlwaysKeepsPhase == Spec => RefusalKeepsPhase
    <1>1. IInv /\ [Next]_vars => [~reply'.ok => vs'.phase = vs.phase]_vars
      <2> SUFFICES ASSUME IInv, Next PROVE PhaseKept
        BY DEF PhaseKept
      <2>1. CASE InMain
        BY <2>1, MainKeepsPhase
      <2>2. CASE InSelect
        BY <2>2, SelectKeepsPhase
      <2>3. CASE InFileSelection
        BY <2>3, FilesKeepPhase
      <2>4. CASE Controls
        <3>1. PICK s, op : Persist(s, [Done(op) EXCEPT !.search = Closed])
                           \/ Persist(s, [Done(op) EXCEPT !.files = Closed])
                           \/ Persist(s, Done(op))
          BY <2>4 DEF Controls, CancelSelection, CancelFileSelection, Expire
        <3>2. reply'.ok
          BY <3>1 DEF Persist, Done
        <3> QED BY <3>2 DEF PhaseKept
      <2> QED BY <2>1, <2>2, <2>3, <2>4 DEF Next
    <1> QED BY <1>1, AlwaysSound, PTL DEF Spec, RefusalKeepsPhase

-----------------------------------------------------------------------------
(* Lists that refusals and misses keep.                                    *)

\* A session with the lists and the phase of the one persisted last.
Same(s) ==
    /\ Sound(s) /\ s.phase = vs.phase
    /\ s.hits = vs.hits /\ s.active = vs.active /\ s.paths = vs.paths

\* An utterance of the file-selection phase is handled with the list of before.
LEMMA HeardSame ==
    ASSUME Sound(vs), NEW path, NEW s \in Heard(path)
    PROVE  Same(s) /\ s.paths # << >> /\ s.focus \in Path
    <1>1. /\ Sound(s) /\ s.phase = vs.phase /\ s.paths = vs.paths /\ s.paths # << >>
          /\ s.focus \in Path /\ s.phase = "files"
      BY HeardSound
    <1>2. s \in Refocused(vs, path) /\ vs \in Session
      BY DEF Heard, Sound
    <1>3. s.hits = vs.hits /\ s.active = vs.active
      BY <1>2 DEF Refocused, Session
    <1> QED BY <1>1, <1>3 DEF Same

\* What the completions have in common: successes are successes, and a refusal
\* says how many batches went before it.
LEMMA Verdicts ==
    ASSUME NEW op, NEW w, NEW f, NEW n, NEW opened, NEW acted, NEW place
    PROVE  /\ Done(op).ok /\ ~Refused(op, n).ok
           /\ Refused(op, n).batches = n
           /\ [Done(op) EXCEPT !.search = w].ok
           /\ [Done(op) EXCEPT !.search = w, !.batches = n].ok
           /\ [Done(op) EXCEPT !.search = w, !.batches = n, !.opened = opened].ok
           /\ [Done(op) EXCEPT !.files = f].ok
           /\ [Done(op) EXCEPT !.files = f, !.batches = n, !.opened = opened].ok
           /\ [Done(op) EXCEPT !.acted = acted, !.batches = n].ok
           /\ [Done(op) EXCEPT !.files = f, !.acted = acted, !.batches = n,
                               !.opened = opened].ok
    BY DEF Done, Refused

\* What UnsentRefusalKeepsLists says of a step.
ListsKept ==
    ~reply'.ok /\ reply'.batches = 0 => vs'.paths = vs.paths /\ vs'.hits = vs.hits

LEMMA AnswerKeepsLists ==
    ASSUME NEW s, NEW r, Answer(s, r),
           r.ok \/ r.batches # 0 \/ (s.paths = vs.paths /\ s.hits = vs.hits)
    PROVE  ListsKept
    BY DEF Answer, ListsKept

LEMMA SharedKeepLists ==
    ASSUME NEW s, Same(s)
    PROVE  /\ WorkspaceSearch(s) => ListsKept
           /\ \A host : FileSearch(s, host) => ListsKept
           /\ Create(s) => ListsKept
           /\ \A op : Untouched(s, op) => ListsKept
    <1> USE DEF Same
    <1>1. WorkspaceSearch(s) => ListsKept
      BY AnswerKeepsLists DEF WorkspaceSearch
    <1>2. ASSUME NEW host, FileSearch(s, host) PROVE ListsKept
      <2>1. \/ \E r : Answer(s, r)
            \/ \E ps, f, n, opened :
                 \/ Answer(Listed(s, ps), [Done("file_select") EXCEPT
                                             !.files = f, !.batches = n, !.opened = opened])
                 \/ Answer(Listed(s, ps), Refused("file_select", 1))
        BY <1>2 DEF FileSearch
      <2>2. Refused("file_select", 1).batches # 0
        BY Verdicts
      <2> QED BY <2>1, <2>2, Verdicts, AnswerKeepsLists
    <1>3. Create(s) => ListsKept
      BY AnswerKeepsLists DEF Create
    <1>4. ASSUME NEW op, Untouched(s, op) PROVE ListsKept
      BY <1>4, AnswerKeepsLists DEF Untouched
    <1> QED BY <1>1, <1>2, <1>3, <1>4

LEMMA MainKeepsLists == IInv /\ InMain => ListsKept
    <1> SUFFICES ASSUME IInv, InMain PROVE ListsKept
      OBVIOUS
    <1>1. Same(vs)
      BY DEF IInv, Same
    <1>2. CASE MainOther
      BY <1>2, AnswerKeepsLists DEF MainOther
    <1> QED BY <1>1, <1>2, SharedKeepLists
            DEF InMain, MainSearch, MainFileSearch, MainCreate, MainCommand

LEMMA SelectKeepsLists == IInv /\ InSelect => ListsKept
    <1> SUFFICES ASSUME IInv, InSelect PROVE ListsKept
      OBVIOUS
    <1>1. Same(vs) /\ vs \in Session
      BY DEF IInv, Sound, Same
    <1>2. CASE SelectSearch \/ SelectFileSearch \/ SelectCreate \/ SelectEdit
      BY <1>1, <1>2, SharedKeepLists
      DEF SelectSearch, SelectFileSearch, SelectCreate, SelectEdit
    <1>3. CASE SelectNoQuery \/ SelectOther
      BY <1>3, AnswerKeepsLists DEF SelectNoQuery, SelectOther
    <1>4. CASE SelectUnrouted
      BY <1>4 DEF SelectUnrouted, Persist, ListsKept
    <1>5. CASE SelectExit
      BY <1>5, Verdicts, AnswerKeepsLists DEF SelectExit
    <1>6. CASE SelectControl
      <2>1. PICK nav \in Navs :
              \E r : Answer([vs EXCEPT !.active = Navigated(vs.active, Len(vs.hits), nav)], r)
        BY <1>6 DEF SelectControl
      <2> DEFINE m == [vs EXCEPT !.active = Navigated(vs.active, Len(vs.hits), nav)]
      <2>2. m.hits = vs.hits /\ m.paths = vs.paths
        BY <1>1 DEF Session
      <2> QED BY <2>1, <2>2, AnswerKeepsLists
    <1>7. CASE SelectRename
      BY <1>7, AnswerKeepsLists DEF SelectRename
    <1> QED BY <1>2, <1>3, <1>4, <1>5, <1>6, <1>7 DEF InSelect

LEMMA FilesKeepLists == IInv /\ InFileSelection => ListsKept
    <1> SUFFICES ASSUME IInv, InFileSelection PROVE ListsKept
      OBVIOUS
    <1>1. Sound(vs)
      BY DEF IInv
    <1>2. CASE FilesExit
      BY <1>2, Verdicts DEF FilesExit, Persist, ListsKept
    <1>3. CASE FilesGone
      BY <1>3, Verdicts DEF FilesGone, Persist, ListsKept
    <1>4. ASSUME NEW path, WithList(path) PROVE ListsKept
      <2>1. \A s \in Heard(path) :
               Same(s) /\ s.paths = vs.paths /\ s.hits = vs.hits /\ s.paths # << >>
        BY <1>1, HeardSame DEF Same
      <2>2. CASE FilesSearch(path) \/ FilesFileSearch(path) \/ FilesCreate(path)
                 \/ FilesCommand(path)
        BY <2>1, <2>2, SharedKeepLists
        DEF FilesSearch, FilesFileSearch, FilesCreate, FilesCommand
      <2>3. CASE FilesKeep(path) \/ FilesCollapse(path) \/ FilesCreateEntry(path)
        BY <2>1, <2>3, AnswerKeepsLists DEF FilesKeep, FilesCollapse, FilesCreateEntry
      <2>4. CASE FilesUnrouted(path)
        BY <2>1, <2>4 DEF FilesUnrouted, Persist, ListsKept
      <2>5. CASE FilesControl(path)
        <3>1. PICK s \in Heard(path), nav \in Navs :
                \E r : Answer(FileStep(s, nav), r)
          BY <2>5 DEF FilesControl
        <3>2. s \in Session
          BY <2>1 DEF Same, Sound
        <3>3. FileStep(s, nav).paths = vs.paths /\ FileStep(s, nav).hits = vs.hits
          BY <2>1, <3>2 DEF FileStep, Session
        <3> QED BY <3>1, <3>3, AnswerKeepsLists
      <2>6. CASE FilesDelete(path)
        <3>1. PICK s \in Heard(path) :
                \/ \E r : Answer(s, r)
                \/ Answer([s EXCEPT !.paths = << >>],
                          [Done("delete_file") EXCEPT !.acted = s.focus, !.batches = 1])
          BY <2>6 DEF FilesDelete
        <3> QED BY <2>1, <3>1, Verdicts, AnswerKeepsLists
      <2>7. CASE FilesRelocate(path)
        <3>1. PICK s \in Heard(path), op \in {"move", "rename"} :
                \/ \E r : Answer(s, r)
                \/ \E m, f, n, opened :
                     Answer(m, [Done(op) EXCEPT !.files = f, !.acted = s.focus,
                                                !.batches = n, !.opened = opened])
          BY <2>7, RelocateCases, ZenonT(40)
        <3> QED BY <2>1, <3>1, Verdicts, AnswerKeepsLists
      <2> QED BY <1>4, <2>2, <2>3, <2>4, <2>5, <2>6, <2>7 DEF WithList
    <1> QED BY <1>2, <1>3, <1>4 DEF InFileSelection

\* The host's cancel buttons and a lost session are never refusals.
LEMMA ControlsSucceed == Controls => reply'.ok
    BY Verdicts DEF Controls, CancelSelection, CancelFileSelection, Expire, Persist

\* UnsentRefusalKeepsLists: a refusal that reached no host leaves both lists as
\* they were.
THEOREM UnsentRefusalAlwaysKeepsLists == Spec => UnsentRefusalKeepsLists
    <1>1. IInv /\ [Next]_vars =>
            [~reply'.ok /\ reply'.batches = 0 =>
               vs'.paths = vs.paths /\ vs'.hits = vs.hits]_vars
      <2> SUFFICES ASSUME IInv, Next PROVE ListsKept
        BY DEF ListsKept
      <2>1. Controls => ListsKept
        BY ControlsSucceed DEF ListsKept
      <2> QED BY <2>1, MainKeepsLists, SelectKeepsLists, FilesKeepLists DEF Next
    <1> QED BY <1>1, AlwaysSound, PTL DEF Spec, UnsentRefusalKeepsLists

-----------------------------------------------------------------------------
(* What becomes of the list of files.                                      *)

\* The parts of a completion that are not mentioned are those of Done.
LEMMA DoneParts ==
    ASSUME NEW op, NEW w, NEW f, NEW n, NEW opened, NEW acted, NEW place
    PROVE  /\ Done(op).search = Silent /\ Done(op).files = Silent
           /\ Refused(op, n).search = Silent /\ Refused(op, n).files = Silent /\ ~Refused(op, n).ok
           /\ LET r == [Done(op) EXCEPT !.batches = n]
              IN  r.search = Silent /\ r.files = Silent
           /\ LET r == [Done(op) EXCEPT !.acted = acted, !.batches = n]
              IN  r.search = Silent /\ r.files = Silent
           /\ LET r == [Done(op) EXCEPT !.acted = acted, !.batches = n, !.place = place]
              IN  r.search = Silent /\ r.files = Silent
           /\ LET r == [Done(op) EXCEPT !.search = w] IN r.search = w /\ r.files = Silent
           /\ LET r == [Done(op) EXCEPT !.search = w, !.batches = n]
              IN  r.search = w /\ r.files = Silent
           /\ LET r == [Done(op) EXCEPT !.search = w, !.batches = n, !.opened = opened]
              IN  r.search = w /\ r.files = Silent
           /\ LET r == [Done(op) EXCEPT !.files = f] IN r.search = Silent /\ r.files = f
           /\ LET r == [Done(op) EXCEPT !.files = f, !.batches = n, !.opened = opened]
              IN  r.search = Silent /\ r.files = f
           /\ LET r == [Done(op) EXCEPT !.files = f, !.acted = acted, !.batches = n,
                                        !.opened = opened]
              IN  r.search = Silent /\ r.files = f
    BY DEF Done, Refused

\* A completion that reports no list of files, and one that reports rows.
Mute(r)   == r.files.kind = "none"
Listing(r) == r.files.kind = "rows" /\ r.files.list # << >>

\* What the user is left with: a list of files, or the outcome of a search in contents.
Outlives ==
    \/ vs'.phase = "files" /\ vs'.paths # << >>
    \/ reply'.search.kind = "rows" /\ vs'.phase = "select"
    \/ reply'.search = NoMatches /\ vs'.phase = "main"

\* What a completion may say about hits that leaves the user with one of these.
Telling(w) == w = Silent \/ w = NoMatches \/ w.kind = "rows"

LEMMA AnswerOutlives ==
    ASSUME NEW s \in Session, s.phase = "files", s.paths # << >>, NEW r, Answer(s, r),
           ~r.ok \/ (Mute(r) /\ Telling(r.search)) \/ (r.search = Silent /\ Listing(r))
    PROVE  Outlives
    <1>0. reply' = r
      BY DEF Answer
    <1>1. CASE ~r.ok
      BY <1>1 DEF Answer, Outlives
    <1>2. CASE r.ok /\ Mute(r) /\ r.search = Silent
      <2>1. vs' = s
        BY <1>2 DEF Answer, Mute, Apply, Silent
      <2> QED BY <2>1 DEF Outlives
    <1>3. CASE r.ok /\ r.search = NoMatches
      <2>0. vs' = Apply(s, r)
        BY <1>3 DEF Answer
      <2>1. NoMatches.kind = "no hits"
        BY DEF NoMatches
      <2>2. r.search.kind = "no hits"
        BY <1>3, <2>1
      <2>3. vs' = [CloseSelection(s) EXCEPT !.phase = "main"]
        BY <2>0, <2>2 DEF Apply
      <2>4. vs'.phase = "main"
        BY <2>3 DEF CloseSelection, Session
      <2> QED BY <1>0, <1>3, <2>4 DEF Outlives
    <1>4. CASE r.ok /\ r.search.kind = "rows"
      <2>1. vs' = [s EXCEPT !.phase = "select", !.hits = r.search.list,
                            !.active = IF r.search.at < Len(r.search.list)
                                       THEN r.search.at ELSE 0]
        BY <1>4 DEF Answer, Apply
      <2>2. vs'.phase = "select"
        BY <2>1 DEF Session
      <2> QED BY <1>0, <1>4, <2>2 DEF Outlives
    <1>5. CASE r.ok /\ r.search = Silent /\ Listing(r)
      <2>1. vs' = Apply(s, r) /\ r.files.kind = "rows" /\ r.search.kind = "none"
        BY <1>5 DEF Answer, Listing, Silent
      <2>2. vs'.paths = r.files.list /\ vs'.phase = "files"
        BY <2>1 DEF Apply, CloseSelection, Session
      <2> QED BY <1>5, <2>2 DEF Listing, Outlives
    <1> QED BY <1>1, <1>2, <1>3, <1>4, <1>5 DEF Telling

LEMMA RowsListing ==
    ASSUME NEW s, s.paths # << >>, NEW r, r.files = RowsOf(s) \/ r.files = KeptRows(s)
    PROVE  Listing(r)
    BY DEF RowsOf, KeptRows, FileRows, Listing

LEMMA SilentMute ==
    /\ Silent.kind = "none" /\ Telling(Silent) /\ Telling(NoMatches)
    /\ \A hits, at : Telling(HitRows(hits, at))
    BY DEF Silent, Telling, HitRows

\* A completion without a list of files leaves the list that is there.
LEMMA MuteOutlives ==
    ASSUME NEW s \in Session, s.phase = "files", s.paths # << >>,
           NEW op, NEW w, Telling(w), NEW n, NEW opened, NEW acted, NEW place
    PROVE  /\ Answer(s, Refused(op, n)) => Outlives
           /\ Answer(s, [Done(op) EXCEPT !.batches = n]) => Outlives
           /\ Answer(s, [Done(op) EXCEPT !.acted = acted, !.batches = n, !.place = place])
                => Outlives
           /\ Answer(s, [Done(op) EXCEPT !.search = w]) => Outlives
           /\ Answer(s, [Done(op) EXCEPT !.search = w, !.batches = n]) => Outlives
           /\ Answer(s, [Done(op) EXCEPT !.search = w, !.batches = n, !.opened = opened])
                => Outlives
    <1>1. \A r : Answer(s, r) /\ r.files = Silent /\ Telling(r.search) => Outlives
      BY SilentMute, AnswerOutlives DEF Mute
    <1>2. Answer(s, Refused(op, n)) => Outlives
      BY <1>1, DoneParts, SilentMute
    <1>3. Answer(s, [Done(op) EXCEPT !.batches = n]) => Outlives
      <2> DEFINE r == [Done(op) EXCEPT !.batches = n]
      <2>1. r.files = Silent
        BY DoneParts
      <2>2. Telling(r.search)
        BY DoneParts, SilentMute
      <2> QED BY <1>1, <2>1, <2>2
    <1>4. Answer(s, [Done(op) EXCEPT !.acted = acted, !.batches = n, !.place = place])
            => Outlives
      <2> DEFINE r == [Done(op) EXCEPT !.acted = acted, !.batches = n, !.place = place]
      <2>1. r.files = Silent
        BY DoneParts
      <2>2. Telling(r.search)
        BY DoneParts, SilentMute
      <2> QED BY <1>1, <2>1, <2>2
    <1>5. Answer(s, [Done(op) EXCEPT !.search = w]) => Outlives
      <2> DEFINE r == [Done(op) EXCEPT !.search = w]
      <2>1. r.files = Silent
        BY DoneParts
      <2>2. Telling(r.search)
        BY DoneParts, SilentMute
      <2> QED BY <1>1, <2>1, <2>2
    <1>6. Answer(s, [Done(op) EXCEPT !.search = w, !.batches = n]) => Outlives
      <2> DEFINE r == [Done(op) EXCEPT !.search = w, !.batches = n]
      <2>1. r.files = Silent
        BY DoneParts
      <2>2. Telling(r.search)
        BY DoneParts, SilentMute
      <2> QED BY <1>1, <2>1, <2>2
    <1>7. Answer(s, [Done(op) EXCEPT !.search = w, !.batches = n, !.opened = opened])
            => Outlives
      <2> DEFINE r == [Done(op) EXCEPT !.search = w, !.batches = n, !.opened = opened]
      <2>1. r.files = Silent
        BY DoneParts
      <2>2. Telling(r.search)
        BY DoneParts, SilentMute
      <2> QED BY <1>1, <2>1, <2>2
    <1> QED BY <1>2, <1>3, <1>4, <1>5, <1>6, <1>7

\* The handlers shared by the phases, from the file-selection phase.
LEMMA SharedOutlive ==
    ASSUME NEW s, Sound(s), s.phase = "files", s.paths # << >>
    PROVE  /\ WorkspaceSearch(s) => Outlives
           /\ FileSearch(s, "files") => Outlives
           /\ Create(s) => Outlives
           /\ \A op : Untouched(s, op) => Outlives
    <1>0. s \in Session
      BY DEF Sound
    <1>1. ASSUME WorkspaceSearch(s) PROVE Outlives
      BY <1>0, <1>1, MuteOutlives, SilentMute DEF WorkspaceSearch
    <1>2. ASSUME FileSearch(s, "files") PROVE Outlives
      <2>1. ASSUME NEW ps \in PathLists, NEW n, NEW opened,
                   Answer(Listed(s, ps), [Done("file_select") EXCEPT
                                            !.files = RowsOf(Listed(s, ps)), !.batches = n,
                                            !.opened = opened])
            PROVE  Outlives
        <3> DEFINE m == Listed(s, ps)
                   r == [Done("file_select") EXCEPT !.files = RowsOf(m), !.batches = n,
                                                    !.opened = opened]
        <3>1. m \in Session /\ m.phase = "files" /\ m.paths # << >>
          BY ListedSound DEF Sound
        <3>2. r.search = Silent /\ r.files = RowsOf(m)
          BY DoneParts
        <3> HIDE DEF m, r
        <3>3. Listing(r)
          BY <3>1, <3>2, RowsListing
        <3> QED BY <2>1, <3>1, <3>2, <3>3, AnswerOutlives DEF m, r
      <2>2. ASSUME NEW ps \in PathLists, Answer(Listed(s, ps), Refused("file_select", 1))
            PROVE  Outlives
        <3>1. Listed(s, ps) \in Session /\ Listed(s, ps).phase = "files" /\ Listed(s, ps).paths # << >>
          BY ListedSound DEF Sound
        <3> QED BY <2>2, <3>1, DoneParts, AnswerOutlives
      <2>3. ASSUME Answer(s, [Done("file_select") EXCEPT !.files = KeptRows(s)])
            PROVE  Outlives
        <3> DEFINE r == [Done("file_select") EXCEPT !.files = KeptRows(s)]
        <3>1. r.search = Silent /\ r.files = KeptRows(s)
          BY DoneParts
        <3>2. Listing(r)
          BY <3>1, RowsListing
        <3> QED BY <1>0, <2>3, <3>1, <3>2, AnswerOutlives
      <2>4. ASSUME Answer(s, Refused("file_select", 0))
            PROVE  Outlives
        BY <1>0, <2>4, DoneParts, AnswerOutlives
      <2> QED BY <1>2, <2>1, <2>2, <2>3, <2>4 DEF FileSearch
    <1>3. ASSUME Create(s) PROVE Outlives
      BY <1>0, <1>3, MuteOutlives, SilentMute DEF Create
    <1>4. ASSUME NEW op, Untouched(s, op) PROVE Outlives
      BY <1>0, <1>4, MuteOutlives, SilentMute DEF Untouched
    <1> QED BY <1>1, <1>2, <1>3, <1>4

\* Speech with a list keeps a list, unless the file was deleted.
LEMMA WithListOutlives ==
    ASSUME Sound(vs), NEW path, WithList(path), ~(reply'.op = "delete_file" /\ reply'.ok)
    PROVE  Outlives
    <1>1. \A s \in Heard(path) :
             /\ Sound(s) /\ s \in Session /\ s.phase = "files"
             /\ s.paths # << >> /\ s.focus # NoPath
      BY HeardSound, PathsAssumption DEF Sound
    <1>2. CASE FilesSearch(path) \/ FilesFileSearch(path) \/ FilesCreate(path)
               \/ FilesCommand(path)
      BY <1>1, <1>2, SharedOutlive
      DEF FilesSearch, FilesFileSearch, FilesCreate, FilesCommand
    <1>3. CASE FilesKeep(path)
      <2>1. PICK s \in Heard(path) :
              Answer(s, [Done("keep") EXCEPT !.files = KeptRows(s)])
        BY <1>3 DEF FilesKeep
      <2> DEFINE r == [Done("keep") EXCEPT !.files = KeptRows(s)]
      <2>2. r.search = Silent /\ r.files = KeptRows(s)
        BY DoneParts
      <2>3. Listing(r)
        BY <1>1, <2>2, RowsListing
      <2> QED BY <1>1, <2>1, <2>2, <2>3, AnswerOutlives
    <1>4. CASE FilesUnrouted(path)
      BY <1>1, <1>4 DEF FilesUnrouted, Persist, Outlives
    <1>5. CASE FilesCollapse(path)
      <2>1. PICK s \in Heard(path) :
              Answer(s, [Done("collapse") EXCEPT
                           !.files = IF s.focus # NoPath THEN OneRow(s.focus) ELSE Silent])
        BY <1>5 DEF FilesCollapse
      <2> DEFINE r == [Done("collapse") EXCEPT !.files = OneRow(s.focus)]
      <2>2. Answer(s, r)
        BY <1>1, <2>1
      <2>3. r.search = Silent /\ r.files = OneRow(s.focus)
        BY DoneParts
      <2>4. Listing(r)
        <3>1. OneRow(s.focus).kind = "rows" /\ OneRow(s.focus).list = <<s.focus>>
          BY DEF OneRow, FileRows
        <3>2. <<s.focus>> # << >>
          OBVIOUS
        <3> QED BY <2>3, <3>1, <3>2 DEF Listing
      <2> QED BY <1>1, <2>2, <2>3, <2>4, AnswerOutlives
    <1>6. CASE FilesControl(path)
      <2>1. PICK s \in Heard(path), nav \in Navs :
              \/ \E n, opened :
                    Answer(FileStep(s, nav), [Done("file_control") EXCEPT
                                                !.files = KeptRows(FileStep(s, nav)),
                                                !.batches = n, !.opened = opened])
              \/ Answer(FileStep(s, nav), Refused("file_control", 1))
        BY <1>6 DEF FilesControl
      <2> DEFINE m == FileStep(s, nav)
      <2>2. m \in Session /\ m.phase = "files" /\ m.paths # << >>
        BY <1>1, FileStepSound DEF Sound
      <2> HIDE DEF m
      <2>3. ASSUME NEW n, NEW opened,
                   Answer(m, [Done("file_control") EXCEPT !.files = KeptRows(m),
                                                          !.batches = n, !.opened = opened])
            PROVE  Outlives
        <3> DEFINE r == [Done("file_control") EXCEPT !.files = KeptRows(m),
                                                     !.batches = n, !.opened = opened]
        <3>1. r.search = Silent /\ r.files = KeptRows(m)
          BY DoneParts
        <3>2. Listing(r)
          BY <2>2, <3>1, RowsListing
        <3> QED BY <2>2, <2>3, <3>1, <3>2, AnswerOutlives
      <2>4. ASSUME Answer(m, Refused("file_control", 1)) PROVE Outlives
        BY <2>2, <2>4, DoneParts, AnswerOutlives
      <2> QED BY <2>1, <2>3, <2>4 DEF m
    <1>7. CASE FilesDelete(path)
      <2>1. PICK s \in Heard(path) :
              \/ reply' = [Done("delete_file") EXCEPT !.acted = s.focus, !.batches = 1]
              \/ \E n : Answer(s, Refused("delete_file", n))
        BY <1>7 DEF FilesDelete, Answer
      <2>2. LET r == [Done("delete_file") EXCEPT !.acted = s.focus, !.batches = 1]
            IN  r.op = "delete_file" /\ r.ok
        BY DEF Done
      <2> QED BY <1>1, <2>1, <2>2, DoneParts, AnswerOutlives
    <1>8. CASE FilesRelocate(path)
      <2>1. PICK s \in Heard(path), op \in {"move", "rename"} :
              \/ \E to \in Path : /\ to \in Folder <=> s.focus \in Folder
                                  /\ \E m \in Moved(s, to) : \E n, opened :
                                       Answer(m, [Done(op) EXCEPT
                                                    !.files = RowsOf(m), !.acted = s.focus,
                                                    !.batches = n, !.opened = opened])
              \/ \E n : Answer(s, Refused(op, n))
        BY <1>8, RelocateCases, ZenonT(40)
      <2>2. ASSUME NEW to \in Path, to \in Folder <=> s.focus \in Folder,
                   NEW m \in Moved(s, to), NEW n, NEW opened,
                   Answer(m, [Done(op) EXCEPT !.files = RowsOf(m), !.acted = s.focus,
                                              !.batches = n, !.opened = opened])
            PROVE  Outlives
        <3> DEFINE r == [Done(op) EXCEPT !.files = RowsOf(m), !.acted = s.focus,
                                         !.batches = n, !.opened = opened]
        <3>1. r.search = Silent /\ r.files = RowsOf(m)
          BY DoneParts
        <3>2. m \in Session /\ m.phase = "files" /\ m.paths # << >>
          BY <1>1, <2>2, MovedSound DEF Sound
        <3>3. Listing(r)
          BY <3>1, <3>2, RowsListing
        <3> QED BY <2>2, <3>1, <3>2, <3>3, AnswerOutlives
      <2>3. ASSUME NEW n, Answer(s, Refused(op, n)) PROVE Outlives
        BY <1>1, <2>3, DoneParts, AnswerOutlives
      <2> QED BY <2>1, <2>2, <2>3
    <1>9. CASE FilesCreateEntry(path)
      BY <1>1, <1>9, MuteOutlives, SilentMute DEF FilesCreateEntry
    <1> QED BY <1>2, <1>3, <1>4, <1>5, <1>6, <1>7, <1>8, <1>9 DEF WithList

\* ListOutlivesMisses: speech costs the user the list only by leaving, by deleting its
\* file, or by a search in contents; when that matched nothing, the main phase follows.
THEOREM ListAlwaysOutlivesMisses == Spec => ListOutlivesMisses
    <1>1. IInv /\ [Next]_vars =>
            [vs.phase = "files" /\ vs.paths # << >> =>
                \/ Outlives
                \/ reply'.op \in {"exit", "cancel_file_selection", "expired"}
                \/ reply'.op = "delete_file" /\ reply'.ok]_vars
      <2> SUFFICES ASSUME IInv, Next, vs.phase = "files", vs.paths # << >>,
                          reply'.op \notin {"exit", "cancel_file_selection", "expired"},
                          ~(reply'.op = "delete_file" /\ reply'.ok)
                   PROVE  Outlives
        OBVIOUS
      <2>1. Sound(vs) /\ vs \in Session
        BY DEF IInv, Sound
      <2>2. ~InMain
        BY DEF InMain, MainSearch, MainFileSearch, MainCreate, MainCommand, MainOther
      <2>3. ~InSelect
        BY DEF InSelect, SelectSearch, SelectFileSearch, SelectCreate, SelectEdit,
               SelectNoQuery, SelectUnrouted, SelectOther, SelectExit, SelectControl,
               SelectRename
      <2>4. CASE InFileSelection
        <3>1. ~FilesExit /\ ~FilesGone
          BY DEF FilesExit, FilesGone, Persist, Done
        <3> QED BY <2>1, <2>4, <3>1, WithListOutlives DEF InFileSelection
      <2>5. CASE Controls
        <3>1. ~CancelFileSelection /\ ~Expire
          BY DEF CancelFileSelection, Expire, Persist, Done
        <3>2. CancelSelection
          BY <2>5, <3>1 DEF Controls
        <3>3. vs'.paths = vs.paths /\ vs'.phase = vs.phase
          BY <2>1, <3>2 DEF CancelSelection, Persist, CloseSelection, Session
        <3> QED BY <3>3 DEF Outlives
      <2> QED BY <2>2, <2>3, <2>4, <2>5 DEF Next
    <1> QED BY <1>1, AlwaysSound, PTL DEF Spec, ListOutlivesMisses, Outlives

-----------------------------------------------------------------------------
(* Moves and renames.                                                      *)

\* The name a handler gives its completion stays in it.
LEMMA OpKept ==
    ASSUME NEW s, NEW op, NEW w, NEW f, NEW n, NEW opened, NEW acted, NEW place
    PROVE  /\ Answer(s, Done(op)) => reply'.op = op
           /\ Answer(s, Refused(op, n)) => reply'.op = op
           /\ Answer(s, [Done(op) EXCEPT !.batches = n]) => reply'.op = op
           /\ Answer(s, [Done(op) EXCEPT !.acted = acted, !.batches = n]) => reply'.op = op
           /\ Answer(s, [Done(op) EXCEPT !.acted = acted, !.batches = n, !.place = place])
                => reply'.op = op
           /\ Answer(s, [Done(op) EXCEPT !.search = w]) => reply'.op = op
           /\ Answer(s, [Done(op) EXCEPT !.search = w, !.batches = n]) => reply'.op = op
           /\ Answer(s, [Done(op) EXCEPT !.search = w, !.batches = n, !.opened = opened])
                => reply'.op = op
           /\ Answer(s, [Done(op) EXCEPT !.files = f]) => reply'.op = op
           /\ Answer(s, [Done(op) EXCEPT !.files = f, !.batches = n, !.opened = opened])
                => reply'.op = op
    <1>1. \A r : Answer(s, r) => reply' = r
      BY DEF Answer
    <1>2. /\ Done(op).op = op /\ Refused(op, n).op = op
          /\ [Done(op) EXCEPT !.batches = n].op = op
          /\ [Done(op) EXCEPT !.acted = acted, !.batches = n].op = op
          /\ [Done(op) EXCEPT !.acted = acted, !.batches = n, !.place = place].op = op
          /\ [Done(op) EXCEPT !.search = w].op = op
          /\ [Done(op) EXCEPT !.search = w, !.batches = n].op = op
          /\ [Done(op) EXCEPT !.search = w, !.batches = n, !.opened = opened].op = op
          /\ [Done(op) EXCEPT !.files = f].op = op
          /\ [Done(op) EXCEPT !.files = f, !.batches = n, !.opened = opened].op = op
      BY DEF Done, Refused
    <1> QED BY <1>1, <1>2, Zenon

Relocating == reply'.op \in {"move", "rename"}

LEMMA SharedStayPut ==
    ASSUME NEW s
    PROVE  /\ WorkspaceSearch(s) => ~Relocating
           /\ \A host : FileSearch(s, host) => ~Relocating
           /\ Create(s) => ~Relocating
           /\ \A op \in {"command", "edit", "delete_text"} : Untouched(s, op) => ~Relocating
    <1>1. WorkspaceSearch(s) => reply'.op = "workspace_select"
      BY OpKept DEF WorkspaceSearch
    <1>2. ASSUME NEW host, FileSearch(s, host) PROVE reply'.op = "file_select"
      BY <1>2, OpKept DEF FileSearch
    <1>3. Create(s) => reply'.op = "create"
      BY OpKept DEF Create
    <1>4. ASSUME NEW op, Untouched(s, op) PROVE reply'.op = op
      BY <1>4, OpKept DEF Untouched
    <1> QED BY <1>1, <1>2, <1>3, <1>4 DEF Relocating

\* Only HandleMove and HandleRename of the file-selection phase answer as such.
LEMMA OnlyRelocate ==
    ASSUME Next, Relocating
    PROVE  \E path : FilesRelocate(path)
    <1>1. ~InMain
      <2>1. MainOther => reply'.op = "other"
        BY OpKept DEF MainOther
      <2> QED BY <2>1, SharedStayPut
              DEF InMain, MainSearch, MainFileSearch, MainCreate, MainCommand, Relocating
    <1>2. ~InSelect
      <2>1. ~(SelectSearch \/ SelectFileSearch \/ SelectCreate \/ SelectEdit)
        BY SharedStayPut DEF SelectSearch, SelectFileSearch, SelectCreate, SelectEdit
      <2>2. /\ SelectNoQuery => reply'.op = "no_query"
            /\ SelectOther => reply'.op = "other"
            /\ SelectExit => reply'.op = "exit"
        BY OpKept DEF SelectNoQuery, SelectOther, SelectExit
      <2>3. SelectUnrouted => reply'.op = "unrouted"
        BY DEF SelectUnrouted, Persist, Done
      <2>4. SelectControl => reply'.op = "hit_control"
        BY OpKept DEF SelectControl
      <2>5. SelectRename => reply'.op = "rename_symbol"
        BY OpKept DEF SelectRename
      <2> QED BY <2>1, <2>2, <2>3, <2>4, <2>5 DEF InSelect, Relocating
    <1>3. ~Controls
      <2>1. reply'.op = "cancel_selection" \/ reply'.op = "cancel_file_selection"
              \/ reply'.op = "expired" \/ ~Controls
        BY DEF Controls, CancelSelection, CancelFileSelection, Expire, Persist, Done
      <2> QED BY <2>1 DEF Relocating
    <1>4. ~FilesExit /\ ~FilesGone
      <2>1. (FilesExit => reply'.op = "exit") /\ (FilesGone => reply'.op = "gone")
        BY DEF FilesExit, FilesGone, Persist, Done
      <2> QED BY <2>1 DEF Relocating
    <1>5. PICK path : WithList(path)
      BY <1>1, <1>2, <1>3, <1>4 DEF Next, InFileSelection
    <1>6. ~(FilesSearch(path) \/ FilesFileSearch(path) \/ FilesCreate(path)
              \/ FilesCommand(path))
      BY SharedStayPut DEF FilesSearch, FilesFileSearch, FilesCreate, FilesCommand
    <1>7. /\ FilesKeep(path) => reply'.op = "keep"
          /\ FilesCollapse(path) => reply'.op = "collapse"
          /\ FilesDelete(path) => reply'.op = "delete_file"
          /\ FilesCreateEntry(path) => reply'.op = "create_entry"
      BY OpKept DEF FilesKeep, FilesCollapse, FilesDelete, FilesCreateEntry
    <1>8. FilesUnrouted(path) => reply'.op = "unrouted"
      BY DEF FilesUnrouted, Persist, Done, Refused
    <1>9. FilesControl(path) => reply'.op = "file_control"
      BY OpKept DEF FilesControl
    <1> QED BY <1>5, <1>6, <1>7, <1>8, <1>9 DEF WithList, Relocating

\* The rows after a move: every row of the old path names the new one.
LEMMA MovedRows ==
    ASSUME NEW s \in Session, s.paths # << >>, NEW to \in Path, to # s.focus,
           NEW m \in Moved(s, to)
    PROVE  /\ Len(m.paths) = Len(s.paths)
           /\ \A i \in 1..Len(m.paths) : m.paths[i] # s.focus
    <1> DEFINE ps == [i \in 1..Len(s.paths) |->
                        IF s.paths[i] = s.focus THEN to ELSE s.paths[i]]
               t == [s EXCEPT !.paths = ps, !.focus = to]
    <1>1. m \in Refocused(t, to)
      BY DEF Moved
    <1>2. t.paths = ps
      BY DEF Session
    <1>3. m.paths = t.paths
      <2>1. m = t \/ \E i : m = [t EXCEPT !.index = i - 1, !.focus = to]
        BY <1>1 DEF Refocused
      <2>2. t = [s EXCEPT !.paths = ps, !.focus = to]
        OBVIOUS
      <2> QED BY <2>1 DEF Session
    <1>4. s.paths \in Seq(Path) /\ Len(s.paths) \in Nat
      BY DEF Session
    <1>5. ps \in Seq(Path) /\ Len(ps) = Len(s.paths)
      BY <1>4
    <1>6. \A i \in 1..Len(ps) : ps[i] # s.focus
      BY <1>4, <1>5
    <1> QED BY <1>2, <1>3, <1>5, <1>6

\* MoveLeavesNoOldRow: the list names the new path wherever it named the old one.
THEOREM MoveNeverLeavesOldRow == Spec => MoveLeavesNoOldRow
    <1>1. IInv /\ [Next]_vars =>
            [/\ reply'.op \in {"move", "rename"} /\ reply'.ok
             => /\ \E i \in 1..Len(vs'.paths) : vs'.paths[i] = vs'.focus
                /\ \A i \in 1..Len(vs'.paths) : vs'.paths[i] # reply'.acted]_vars
      <2> SUFFICES ASSUME IInv, Next, Relocating, reply'.ok
                   PROVE  /\ \E i \in 1..Len(vs'.paths) : vs'.paths[i] = vs'.focus
                          /\ \A i \in 1..Len(vs'.paths) : vs'.paths[i] # reply'.acted
        BY DEF Relocating
      <2>1. PICK path : FilesRelocate(path)
        BY OnlyRelocate
      <2>2. PICK s \in Heard(path), op \in {"move", "rename"} :
              \/ \E to \in Path \ {s.focus} :
                   /\ to \in Folder <=> s.focus \in Folder
                   /\ \E m \in Moved(s, to) : \E n, opened :
                        Answer(m, [Done(op) EXCEPT
                                     !.files = RowsOf(m), !.acted = s.focus,
                                     !.batches = n, !.opened = opened])
              \/ \E n : Answer(s, Refused(op, n))
        BY <2>1, RelocateCases, ZenonT(40)
      <2>3. Sound(s) /\ s \in Session /\ s.paths # << >>
        BY HeardSame DEF IInv, Same, Sound
      <2>4. \A n : ~Answer(s, Refused(op, n))
        BY Verdicts DEF Answer
      <2>5. PICK to \in Path \ {s.focus} :
              /\ to \in Folder <=> s.focus \in Folder
              /\ \E m \in Moved(s, to) : \E n, opened :
                   Answer(m, [Done(op) EXCEPT
                                !.files = RowsOf(m), !.acted = s.focus,
                                !.batches = n, !.opened = opened])
        BY <2>2, <2>4
      <2>6. PICK m \in Moved(s, to) : \E n, opened :
              Answer(m, [Done(op) EXCEPT !.files = RowsOf(m), !.acted = s.focus,
                                         !.batches = n, !.opened = opened])
        BY <2>5
      <2>7. PICK n, opened :
              Answer(m, [Done(op) EXCEPT !.files = RowsOf(m), !.acted = s.focus,
                                         !.batches = n, !.opened = opened])
        BY <2>6
      <2> DEFINE r == [Done(op) EXCEPT !.files = RowsOf(m), !.acted = s.focus,
                                       !.batches = n, !.opened = opened]
      <2>8. r.search = Silent /\ r.files = RowsOf(m) /\ r.ok
        BY DoneParts, Verdicts
      <2>9. r.acted = s.focus
        BY DEF Done
      <2>10. Sound(m) /\ m \in Session /\ m.paths # << >>
        BY <2>3, <2>5, MovedSound DEF Sound
      <2>11. \A i \in 1..Len(m.paths) : m.paths[i] # s.focus
        BY <2>3, MovedRows
      <2> HIDE DEF r
      <2>12. vs' = Apply(m, r) /\ reply' = r
        BY <2>7, <2>8 DEF Answer, r
      <2>13. /\ r.search.kind = "none" /\ r.files.kind = "rows"
             /\ r.files.list = m.paths /\ r.files.at = m.index
        BY <2>8, <2>10 DEF RowsOf, FileRows, Silent, Sound
      <2>14. m.index \in Nat /\ m.index < Len(m.paths) /\ Len(m.paths) \in Nat
        BY <2>10 DEF Sound, Session
      <2>15. vs'.paths = m.paths /\ vs'.focus = m.paths[m.index + 1]
        BY <2>10, <2>12, <2>13, <2>14 DEF Apply, CloseSelection, Session
      <2>16. m.index + 1 \in 1..Len(m.paths)
        BY <2>14
      <2> QED BY <2>9, <2>11, <2>12, <2>15, <2>16
    <1> QED BY <1>1, AlwaysSound, PTL DEF Spec, MoveLeavesNoOldRow

=============================================================================
