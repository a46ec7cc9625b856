---------------------------- MODULE VoiceSession ----------------------------
(***************************************************************************)
(* The transcript pipeline of the core and the voice session it keeps.     *)
(*                                                                         *)
(* A session is in one of three base phases.  In "main" an utterance can   *)
(* start a search; a content search leads to "select" (a list of hits),   *)
(* a path search to "files" (a list of rows, each a file or a folder).     *)
(* Each action below is one call of Execute that ran to its end under the  *)
(* service's mutex: the routed handler, the host batches it waited for,    *)
(* outcome.Apply when the completion is a success, and the final persist.  *)
(* The classifier's route, the text it was given and the host's answers   *)
(* are chosen by \E.  Indices count from 0, as in the code.                *)
(***************************************************************************)
EXTENDS Naturals, Sequences

CONSTANTS
    Path,           \* absolute paths the path search may list
    Folder,         \* the paths that are directories on disk
    Binary,         \* files the search lists but does not open by itself
    WorkspaceRoot,  \* the opened workspace folder
    NoPath,         \* the empty path
    Hit,            \* content search hits
    HitPath,        \* the file a hit lies in
    HitLists,       \* the hit lists a search may return
    PathLists,      \* the path lists a search may return
    MaxPick         \* the largest ordinal a speaker says

ASSUME PathsAssumption ==
    /\ Folder \subseteq Path
    /\ Binary \subseteq Path \ Folder
    /\ WorkspaceRoot \in Folder
    /\ NoPath \notin Path
    /\ HitPath \in [Hit -> Path \ Folder]

\* A search that found nothing reports "no hits", never an empty list, and a
\* path search lists a path once.
ASSUME ListsAssumption ==
    /\ HitLists \subseteq Seq(Hit) \ {<< >>}
    /\ PathLists \subseteq Seq(Path) \ {<< >>}
    /\ \A ps \in PathLists : \A i, j \in 1..Len(ps) : ps[i] = ps[j] => i = j

ASSUME PickAssumption == MaxPick \in Nat

VARIABLES
    vs,     \* the session as Execute last persisted it
    reply   \* the completion Execute last returned, and what the host did

vars == <<vs, reply>>

-----------------------------------------------------------------------------
(* Data.                                                                   *)

Phase == {"main", "select", "files"}

Session ==
    [phase  : Phase,
     hits   : Seq(Hit),      active : Nat,
     paths  : Seq(Path),     isDir  : Seq(BOOLEAN),
     index  : Nat,           focus  : Path \union {NoPath}]

\* Mutant: a blank phase is not read as "main".
BlankSession ==
    [phase |-> "", hits |-> << >>, active |-> 0, paths |-> << >>,
     isDir |-> << >>, index |-> 0, focus |-> NoPath]

\* The zero value of the Go struct; Execute reads its blank phase as "main".
EmptySession ==
    [phase |-> "main", hits |-> << >>, active |-> 0, paths |-> << >>,
     isDir |-> << >>, index |-> 0, focus |-> NoPath]

\* What the completion tells the host about a list: nothing, that it is closed,
\* that a search matched nothing, or its rows and the active one.
Silent    == [kind |-> "none",    list |-> << >>, dirs |-> << >>, at |-> 0]
Closed    == [kind |-> "closed",  list |-> << >>, dirs |-> << >>, at |-> 0]
NoMatches == [kind |-> "no hits", list |-> << >>, dirs |-> << >>, at |-> 0]
HitRows(hits, at)        == [kind |-> "rows", list |-> hits, dirs |-> << >>, at |-> at]
FileRows(paths, dirs, at) == [kind |-> "rows", list |-> paths, dirs |-> dirs, at |-> at]

\* A successful completion of route op with no list, and a refusal of it after
\* n batches of directives were sent to the host.
Done(op) ==
    [op |-> op, ok |-> TRUE, search |-> Silent, files |-> Silent,
     opened |-> NoPath, acted |-> NoPath, place |-> "none", batches |-> 0]
Refused(op, n) == [Done(op) EXCEPT !.ok = FALSE, !.batches = n]

-----------------------------------------------------------------------------
(* Helpers shared by the handlers.                                         *)

FocusIsDir(s) ==
    /\ s.index < Len(s.paths)
    /\ s.index < Len(s.isDir)
    /\ s.isDir[s.index + 1]

\* FileSearchStateFromPathsWithDir: an index out of range becomes 0, a row
\* without a flag is not a folder.
RowsOf(s) ==
    FileRows(s.paths,
             [i \in 1..Len(s.paths) |-> i <= Len(s.isDir) /\ s.isDir[i]],
             IF s.index < Len(s.paths) THEN s.index ELSE 0)

\* FileSearchStateFromSinglePath: one row, always marked as a file.
OneRow(p) == FileRows(<<p>>, <<FALSE>>, 0)

\* Mutant: the previous list is not kept.
NoKeptRows(s) == NoMatches

\* The list a select-file handler shows when it has nothing new to show.
KeptRows(s) ==
    IF s.paths # << >> THEN RowsOf(s)
    ELSE IF s.focus # NoPath THEN OneRow(s.focus)
    ELSE Silent

KeptHits(s) == IF s.hits = << >> THEN Silent ELSE HitRows(s.hits, s.active)

\* Mutant: the hits stay when the selection is closed.
CloseActiveOnly(s) == [s EXCEPT !.active = 0]

CloseSelection(s) == [s EXCEPT !.hits = << >>, !.active = 0]
CloseFileSelection(s) ==
    [s EXCEPT !.paths = << >>, !.index = 0, !.focus = NoPath]

\* Mutant: a new list of hits inherits the index of the one before.
ApplyKeepingActive(s, r) ==
    CASE r.search.kind = "rows" ->
           [s EXCEPT !.phase = "select", !.hits = r.search.list]
      [] r.search.kind \in {"closed", "no hits"} ->
           [CloseSelection(s) EXCEPT !.phase = "main"]
      [] r.search.kind = "none" /\ r.files.kind = "rows" ->
           [CloseSelection(s) EXCEPT
               !.phase = "files", !.paths = r.files.list, !.isDir = r.files.dirs,
               !.index = r.files.at, !.focus = r.files.list[r.files.at + 1]]
      [] r.search.kind = "none" /\ r.files.kind \in {"closed", "no hits"} ->
           [CloseFileSelection(s) EXCEPT !.phase = "main", !.isDir = << >>]
      [] OTHER -> s

\* outcome.Apply: the session after a successful completion r.  The search part
\* is looked at first and ends the call when it says anything.
Apply(s, r) ==
    CASE r.search.kind = "rows" ->
           [s EXCEPT !.phase = "select", !.hits = r.search.list,
                     !.active = IF r.search.at < Len(r.search.list)
                                THEN r.search.at ELSE 0]
      [] r.search.kind \in {"closed", "no hits"} ->
           [CloseSelection(s) EXCEPT !.phase = "main"]
      [] r.search.kind = "none" /\ r.files.kind = "rows" ->
           [CloseSelection(s) EXCEPT
               !.phase = "files", !.paths = r.files.list, !.isDir = r.files.dirs,
               !.index = IF r.files.at < Len(r.files.list) THEN r.files.at ELSE 0,
               !.focus = r.files.list[IF r.files.at < Len(r.files.list)
                                      THEN r.files.at + 1 ELSE 1]]
      [] r.search.kind = "none" /\ r.files.kind \in {"closed", "no hits"} ->
           [CloseFileSelection(s) EXCEPT !.phase = "main", !.isDir = << >>]
      [] OTHER -> s

\* The end of the three phase runners: a success is applied and persisted, a
\* refusal persists what the handler did to the session before it gave up.
Answer(s, r) ==
    /\ vs' = IF r.ok THEN Apply(s, r) ELSE s
    /\ reply' = r

\* The early returns, which persist without outcome.Apply.
Persist(s, r) == vs' = s /\ reply' = r

\* ParseNav: "next", "back" and "pick n" (from 1).  In a list of n rows an ordinal
\* out of range keeps the index.
Navs == {[op |-> "next", nth |-> 0], [op |-> "back", nth |-> 0]}
          \union {[op |-> "pick", nth |-> n] : n \in 1..MaxPick}

Navigated(i, n, nav) ==
    CASE n > 0 /\ nav.op = "next" -> IF i + 1 < n THEN i + 1 ELSE 0
      [] n > 0 /\ nav.op = "back" -> IF i > 0 THEN i - 1 ELSE n - 1
      [] nav.op = "pick" /\ nav.nth \in 1..n -> nav.nth - 1
      [] OTHER -> i

-----------------------------------------------------------------------------
(* Searches.                                                               *)

\* SearchFromQuery: the first hit is opened before the list is reported, and
\* the session is touched only through Apply.
WorkspaceSearch(s) ==
    \/ \E hits \in HitLists :
          Answer(s, [Done("workspace_select") EXCEPT
                        !.search = HitRows(hits, 0), !.batches = 1,
                        !.opened = HitPath[hits[1]]])
    \/ Answer(s, [Done("workspace_select") EXCEPT !.search = NoMatches])
    \/ \E n \in 0..1 : Answer(s, Refused("workspace_select", n))

\* Mutants: the folder flags of the list before are kept; the phase is entered
\* before the host has opened the path.
ListedWithOldFlags(s, ps) ==
    [CloseSelection(s) EXCEPT !.paths = ps, !.index = 0, !.focus = ps[1]]
ListedInPhase(s, ps) ==
    [CloseSelection(s) EXCEPT
        !.phase = "files",
        !.paths = ps, !.isDir = [i \in 1..Len(ps) |-> ps[i] \in Folder],
        !.index = 0, !.focus = ps[1]]

\* mutateSessionFilePathSearchResults, before the host is asked to open the
\* first path.
Listed(s, ps) ==
    [CloseSelection(s) EXCEPT
        !.paths = ps, !.isDir = [i \in 1..Len(ps) |-> ps[i] \in Folder],
        !.index = 0, !.focus = ps[1]]

\* Mutant: the hits are given up before the search has found anything.
FileSearchClosingHits(s, host) ==
    \/ \E ps \in PathLists :
         Answer(Listed(s, ps), [Done("file_select") EXCEPT !.files = RowsOf(Listed(s, ps))])
    \/ Answer(CloseSelection(s), Refused("file_select", 0))

\* FileSearchFromQuery and the rule of TryHandleFileSelectSearch that a search
\* without matches leaves the select-file flow on its previous list.
FileSearch(s, host) ==
    \/ \E ps \in PathLists :
         LET m == Listed(s, ps)
             opens == ps[1] \notin Binary
             found == [Done("file_select") EXCEPT
                         !.files = RowsOf(m),
                         !.batches = IF opens THEN 1 ELSE 0,
                         !.opened = IF opens /\ ps[1] \notin Folder
                                    THEN ps[1] ELSE NoPath]
         IN  Answer(m, found) \/ (opens /\ Answer(m, Refused("file_select", 1)))
    \/ IF host = "files" /\ (s.paths # << >> \/ s.focus # NoPath)
       THEN Answer(s, [Done("file_select") EXCEPT !.files = KeptRows(s)])
       ELSE Answer(s, [Done("file_select") EXCEPT !.files = NoMatches])
    \/ Answer(s, Refused("file_select", 0))

\* HandleCreate: the edit, then the reveal of the new text, then a list of one
\* hit.  A refused reveal refuses an edit that was made.
Create(s) ==
    \/ \E h \in Hit, n \in 1..2 :
         Answer(s, [Done("create") EXCEPT !.search = HitRows(<<h>>, 0), !.batches = n])
    \/ \E n \in 0..2 : Answer(s, Refused("create", n))

\* Routes that change files or run a command and leave the session alone.
Untouched(s, op) ==
    \/ Answer(s, [Done(op) EXCEPT !.batches = 1])
    \/ \E n \in 0..1 : Answer(s, Refused(op, n))

-----------------------------------------------------------------------------
(* Utterances in the main phase.                                           *)

MainSearch     == vs.phase = "main" /\ WorkspaceSearch(vs)
MainFileSearch == vs.phase = "main" /\ FileSearch(vs, "main")
MainCreate     == vs.phase = "main" /\ Create(vs)
MainCommand    == vs.phase = "main" /\ Untouched(vs, "command")

\* Questions, exits with nothing to leave, irrelevant speech, a search without
\* a query, and a classifier that failed.
MainOther ==
    /\ vs.phase = "main"
    /\ \/ Answer(vs, Done("other"))
       \/ Answer(vs, Refused("other", 0))

-----------------------------------------------------------------------------
(* Utterances in the select phase (a list of content hits).                *)

SelectSearch     == vs.phase = "select" /\ WorkspaceSearch(vs)
SelectFileSearch == vs.phase = "select" /\ FileSearch(vs, "select")
SelectCreate     == vs.phase = "select" /\ Create(vs)
SelectEdit       ==
    /\ vs.phase = "select"
    /\ \E op \in {"command", "edit", "delete_text"} : Untouched(vs, op)

\* A search without a query shows the current hits again.
SelectNoQuery ==
    /\ vs.phase = "select"
    /\ Answer(vs, [Done("no_query") EXCEPT !.search = KeptHits(vs)])

\* The same reply for a failed classifier, but nothing is applied.
SelectUnrouted ==
    /\ vs.phase = "select"
    /\ Persist(vs, [Done("unrouted") EXCEPT !.search = KeptHits(vs)])

SelectOther == vs.phase = "select" /\ Answer(vs, Done("other"))

SelectExit ==
    /\ vs.phase = "select"
    /\ Answer([CloseSelection(vs) EXCEPT !.phase = "main"],
              [Done("exit") EXCEPT !.search = Closed])

\* HandleSelectControl: the index moves first; the hit it names is indexed
\* without a check, and a refusal by the host keeps the moved index.
SelectControl ==
    /\ vs.phase = "select"
    /\ \E nav \in Navs :
         LET m == [vs EXCEPT !.active = Navigated(vs.active, Len(vs.hits), nav)]
         IN  IF m.hits = << >>
             THEN Answer(m, [Done("hit_control") EXCEPT !.search = Closed])
             ELSE \/ Answer(m, [Done("hit_control") EXCEPT
                                   !.search = HitRows(m.hits, m.active),
                                   !.batches = 1,
                                   !.opened = HitPath[m.hits[m.active + 1]]])
                  \/ Answer(m, Refused("hit_control", 1))

\* HandleRename of the workspace-select flow needs an active hit.
SelectRename ==
    /\ vs.phase = "select"
    /\ \/ vs.active < Len(vs.hits) /\ Answer(vs, [Done("rename_symbol") EXCEPT !.batches = 1])
       \/ \E n \in 0..(IF vs.active < Len(vs.hits) THEN 1 ELSE 0) :
             Answer(vs, Refused("rename_symbol", n))

-----------------------------------------------------------------------------
(* Utterances in the file-selection phase (a list of files and folders).   *)

\* The exit phrase is looked for before anything else and is not applied.
FilesExit ==
    /\ vs.phase = "files"
    /\ Persist([CloseFileSelection(vs) EXCEPT !.phase = "main"],
               [Done("exit") EXCEPT !.files = Closed])

\* A phase whose list is gone (a file was deleted) falls back to main.
FilesGone ==
    /\ vs.phase = "files" /\ vs.paths = << >>
    /\ Persist([vs EXCEPT !.phase = "main"], Done("gone"))

\* Mutant: the focus follows the host, the index does not.
RefocusedOnly(s, path) ==
    IF \E i \in 1..Len(s.paths) : s.paths[i] = path
    THEN {[s EXCEPT !.focus = path]}
    ELSE {s}

\* The sessions an utterance is handled in: the host's focusedWorkspacePath, when
\* it is a row of the list, becomes the focus (the first such row).
Refocused(s, path) ==
    IF \E i \in 1..Len(s.paths) : s.paths[i] = path
    THEN {[s EXCEPT !.index = i - 1, !.focus = path] :
             i \in {k \in 1..Len(s.paths) :
                      s.paths[k] = path /\ \A j \in 1..(k - 1) : s.paths[j] # path}}
    ELSE {s}

\* The sessions in which an utterance of the phase, sent with the given
\* focusedWorkspacePath, reaches its handler: one, or none outside the phase.
Heard(path) ==
    IF vs.phase = "files" /\ vs.paths # << >> THEN Refocused(vs, path) ELSE {}

FilesSearch(path)     == \E s \in Heard(path) : WorkspaceSearch(s)
FilesFileSearch(path) == \E s \in Heard(path) : FileSearch(s, "files")
FilesCreate(path)     == \E s \in Heard(path) : Create(s)
FilesCommand(path)    == \E s \in Heard(path) : Untouched(s, "command")

\* Irrelevant speech, a search without a query, "control" without an exit
\* phrase: the current list is shown again.  (The last asks for a focus first;
\* a list always has one.)
FilesKeep(path) ==
    \E s \in Heard(path) : Answer(s, [Done("keep") EXCEPT !.files = KeptRows(s)])

\* A classifier that fails refuses the utterance; the focus has moved already.
FilesUnrouted(path) == \E s \in Heard(path) : Persist(s, Refused("unrouted", 0))

\* HandleSelectFileControl, speech that names no direction: the list becomes the
\* focused row alone.
FilesCollapse(path) ==
    \E s \in Heard(path) :
        Answer(s, [Done("collapse") EXCEPT
                      !.files = IF s.focus # NoPath THEN OneRow(s.focus) ELSE Silent])

\* HandleSelectFileControl: the index and the focus move, then the host is asked
\* to open the row unless it is marked as a folder.
FileStep(s, nav) ==
    LET i == Navigated(s.index, Len(s.paths), nav)
    IN  [s EXCEPT !.index = i,
                  !.focus = IF i < Len(s.paths) THEN s.paths[i + 1] ELSE s.focus]

FilesControl(path) ==
    \E s \in Heard(path) :
        \E nav \in Navs :
          LET m == FileStep(s, nav)
              opens == ~FocusIsDir(m) /\ m.focus # NoPath
          IN  \/ Answer(m, [Done("file_control") EXCEPT
                               !.files = KeptRows(m),
                               !.batches = IF opens THEN 1 ELSE 0,
                               !.opened = IF opens /\ m.focus \notin Folder
                                          THEN m.focus ELSE NoPath])
              \/ opens /\ Answer(m, Refused("file_control", 1))

\* HandleDelete: only a file on disk, never a folder; the list goes, the focus
\* and the phase stay.
FilesDelete(path) ==
    \E s \in Heard(path) :
        \/ /\ s.focus # NoPath /\ s.focus \notin Folder
           /\ Answer([s EXCEPT !.paths = << >>],
                     [Done("delete_file") EXCEPT !.acted = s.focus, !.batches = 1])
        \/ \E n \in 0..(IF s.focus = NoPath \/ s.focus \in Folder THEN 0 ELSE 1) :
              Answer(s, Refused("delete_file", n))

\* Mutant: only the row at the index is renamed.
MovedRow(s, to) ==
    Refocused([s EXCEPT !.paths = [@ EXCEPT ![s.index + 1] = to], !.focus = to], to)

\* updateFileSelectionPaths and syncFileSelectionIndexToFocus: every row that
\* named the old path names the new one, and the index is the first such row.
Moved(s, to) ==
    Refocused([s EXCEPT !.paths = [i \in 1..Len(s.paths) |->
                                     IF s.paths[i] = s.focus THEN to ELSE s.paths[i]],
                        !.focus = to],
              to)

\* HandleMove and HandleRename send the move, then open a file that was moved; a
\* rename of a file may first rename its symbol.  What follows the move does not
\* change the outcome.
FilesRelocate(path) ==
    \E s \in Heard(path) :
        \E op \in {"move", "rename"} :
          LET first == IF op = "rename" /\ s.focus \notin Folder THEN 0..1 ELSE {0}
              mayMove == s.focus # NoPath /\ s.focus # WorkspaceRoot
          IN  \/ /\ mayMove
                 /\ \E to \in Path \ {s.focus, WorkspaceRoot}, n \in first, shown \in BOOLEAN :
                      /\ to \in Folder <=> s.focus \in Folder
                      /\ shown => to \notin Folder
                      /\ \E m \in Moved(s, to) :
                           Answer(m, [Done(op) EXCEPT
                                        !.files = RowsOf(m), !.acted = s.focus,
                                        !.batches = n + (IF to \in Folder THEN 1 ELSE 2),
                                        !.opened = IF shown THEN to ELSE NoPath])
              \/ Answer(s, Refused(op, 0))
              \/ mayMove /\ \E n \in first : Answer(s, Refused(op, n + 1))

\* HandleCreateEntry: a new file in the focused folder, or beside the focused
\* file; the list is not told.
FilesCreateEntry(path) ==
    \E s \in Heard(path) :
        \/ /\ s.focus # NoPath
           /\ Answer(s, [Done("create_entry") EXCEPT
                           !.acted = s.focus, !.batches = 2,
                           !.place = IF FocusIsDir(s) THEN "under" ELSE "beside"])
        \/ \E n \in 0..(IF s.focus = NoPath THEN 0 ELSE 1) :
              Answer(s, Refused("create_entry", n))

-----------------------------------------------------------------------------
(* The host's cancel buttons, and a session the store has dropped.         *)

CancelSelection ==
    Persist([CloseSelection(vs) EXCEPT
                !.phase = IF vs.phase = "select" THEN "main" ELSE @],
            [Done("cancel_selection") EXCEPT !.search = Closed])

\* Mutant: the list is closed, the phase is kept.
CancelList ==
    Persist(CloseFileSelection(vs),
            [Done("cancel_file_selection") EXCEPT !.files = Closed])

CancelFileSelection ==
    Persist([CloseFileSelection(vs) EXCEPT
                !.phase = IF vs.phase = "files" THEN "main" ELSE @],
            [Done("cancel_file_selection") EXCEPT !.files = Closed])

\* Idle eviction, or eviction for another key: the next Get starts afresh.
Expire == Persist(EmptySession, Done("expired"))

-----------------------------------------------------------------------------
(* The specification.                                                      *)

Init == vs = EmptySession /\ reply = Done("none")

InMain ==
    MainSearch \/ MainFileSearch \/ MainCreate \/ MainCommand \/ MainOther

InSelect ==
    \/ SelectSearch \/ SelectFileSearch \/ SelectCreate \/ SelectEdit
    \/ SelectNoQuery \/ SelectUnrouted \/ SelectOther \/ SelectExit
    \/ SelectControl \/ SelectRename

WithList(path) ==
    \/ FilesSearch(path) \/ FilesFileSearch(path) \/ FilesCreate(path)
    \/ FilesCommand(path) \/ FilesKeep(path) \/ FilesUnrouted(path)
    \/ FilesCollapse(path) \/ FilesControl(path) \/ FilesDelete(path)
    \/ FilesRelocate(path) \/ FilesCreateEntry(path)

\* Whatever focusedWorkspacePath the host sends.
InFileSelection ==
    FilesExit \/ FilesGone \/ \E path \in Path \union {NoPath} : WithList(path)

Controls == CancelSelection \/ CancelFileSelection \/ Expire

Next == InMain \/ InSelect \/ InFileSelection \/ Controls

Spec == Init /\ [][Next]_vars

-----------------------------------------------------------------------------
(* Properties.                                                             *)

Wire(Row) ==
    [kind : {"none", "closed", "no hits", "rows"}, list : Seq(Row),
     dirs : Seq(BOOLEAN), at : Nat]

Op == {"none", "expired", "workspace_select", "file_select", "create", "command",
       "other", "edit", "delete_text", "no_query", "unrouted", "exit",
       "hit_control", "rename_symbol", "gone", "keep", "collapse",
       "file_control", "delete_file", "move", "rename", "create_entry",
       "cancel_selection", "cancel_file_selection"}

Reply ==
    [op : Op, ok : BOOLEAN, search : Wire(Hit), files : Wire(Path),
     opened : Path \union {NoPath}, acted : Path \union {NoPath},
     place : {"none", "under", "beside"}, batches : Nat]

\* The session and the completion have the shapes the Go types give them; the
\* indices never go below zero.
TypeOK == vs \in Session /\ reply \in Reply

\* The active hit exists while there are hits, in every phase: the handlers of
\* the select phase index SearchResults without a check and would panic.
ActiveHitExists == vs.hits # << >> => vs.active < Len(vs.hits)

\* The focused path is the row at the index while there are rows: delete, move,
\* rename and create_entry act on the focus, the panel marks the index.
FocusIsActiveRow ==
    vs.paths # << >> =>
        /\ vs.index < Len(vs.paths)
        /\ vs.focus = vs.paths[vs.index + 1]

\* A row marked as a folder is one: the folder flags kept beside the paths are
\* never those of another list.
FlagsNeverClaimAFolder ==
    vs.paths # << >> =>
        /\ Len(vs.isDir) = Len(vs.paths)
        /\ \A i \in 1..Len(vs.paths) : vs.isDir[i] => vs.paths[i] \in Folder

\* The two lists do not mix: in the file-selection phase there are no content
\* hits left for a later select phase to act on.
FilePhaseHasNoHits == vs.phase = "files" => vs.hits = << >>

\* A refused utterance never moves the session to another phase, so what the
\* user says again is understood as it was the first time.
RefusalKeepsPhase == [][~reply'.ok => vs'.phase = vs.phase]_vars

\* In the file-selection phase every utterance leaves the user in the phase with a list,
\* whatever it matched, whatever failed and whatever the host refused, with four
\* exceptions: leaving, a file that was deleted, a session that expired, and a search in
\* contents or a creation, which ends in its own list of hits, or, when it matched
\* nothing, in the main phase (apply.go:70-75: that miss does cost the list).
ListOutlivesMisses ==
    [][vs.phase = "files" /\ vs.paths # << >> =>
          \/ vs'.phase = "files" /\ vs'.paths # << >>
          \/ reply'.search.kind = "rows" /\ vs'.phase = "select"
          \/ reply'.search = NoMatches /\ vs'.phase = "main"
          \/ reply'.op \in {"exit", "cancel_file_selection", "expired"}
          \/ reply'.op = "delete_file" /\ reply'.ok]_vars

\* After a move or a rename the focus is the new path, a row of the list, and no
\* row names the path that is gone, also when the path was listed twice.
MoveLeavesNoOldRow ==
    [][/\ reply'.op \in {"move", "rename"} /\ reply'.ok
       => /\ \E i \in 1..Len(vs'.paths) : vs'.paths[i] = vs'.focus
          /\ \A i \in 1..Len(vs'.paths) : vs'.paths[i] # reply'.acted]_vars

\* What HandleCreateEntry's comment says: a new file goes into a selected
\* directory, and next to a selected file.
CreateEntryPlacement ==
    reply.op = "create_entry" /\ reply.ok =>
        (reply.place = "under" <=> reply.acted \in Folder)

\* A refusal before any batch was sent to the host changes neither list ("Do not
\* mutate session", file_path_search.go:50): the user speaks again about what was
\* there.  After a batch was sent, a file search has replaced the list already.
UnsentRefusalKeepsLists ==
    [][~reply'.ok /\ reply'.batches = 0 =>
          vs'.paths = vs.paths /\ vs'.hits = vs.hits]_vars

=============================================================================
