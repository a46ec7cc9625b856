----------------------------- MODULE ScopedEdit -----------------------------
(***************************************************************************)
(* One file, edited by voice and by hand.                                  *)
(*                                                                         *)
(* A handler of the core (edit, delete, create) reads the file from the    *)
(* disk, resolves the range the user means, asks the model for new text    *)
(* and sends a batch: an optional import first, then the change itself,    *)
(* then an optional organizeImports.  The extension applies the batch to   *)
(* the editor's buffer, one action after the other, and saves after each.  *)
(* Meanwhile the user types, erases and saves.                             *)
(*                                                                         *)
(* A text is its row of lines; positions are before a line, numbered from  *)
(* one.  A text that ends with a newline has a blank last line.            *)
(***************************************************************************)
EXTENDS Integers, Sequences, FiniteSets

CONSTANTS
    Preamble, Import, Code,     \* the lines files are made of
    Open, Close,                \* "import (" and ")" of Go
    Blank,                      \* the empty line
    Typed,                      \* the lines the user may type
    NewImport, NewCode,         \* what the model answers
    Glued,                      \* a line run together of two
    Files,                      \* the files: [rules, text]
    MaxKeys, MaxRequests        \* bounds on changes by hand and on utterances

\* What a line may be.
Line ==
    Preamble \union Import \union Code \union Typed
        \union {Open, Close, Blank, NewImport, NewCode, Glued}

\* The user does not type what the model answers, and a blank line is not text.
ASSUME LinesAssumption ==
    /\ Blank \notin Typed \union {NewImport, NewCode, Glued}
    /\ NewImport \notin Typed \union {NewCode, Glued}

\* A file ends with a newline, and has no import twice.
ASSUME FilesAssumption ==
    \A f \in Files :
        /\ f.rules \in {"jsts", "go", "other"}
        /\ f.text \in Seq(Line) /\ f.text # << >> /\ f.text[Len(f.text)] = Blank
        /\ \A i, j \in 1..Len(f.text) : f.text[i] = NewImport /\ f.text[j] = NewImport => i = j

ASSUME BoundsAssumption == MaxKeys \in Nat /\ MaxRequests \in Nat

VARIABLES
    rules,      \* the import rules of the file's language
    disk,       \* the file
    buffer,     \* the editor's document
    keys,       \* changes made by hand so far
    requests,   \* utterances so far
    pc,         \* where the handler and its batch are
    job,        \* the utterance and what became of it
    outcome,    \* of the last utterance
    calm,       \* disk and buffer agreed when the file was read, and nobody interfered since
    unsaved     \* a save has failed

vars == <<rules, disk, buffer, keys, requests, pc, job, outcome, calm, unsaved>>

-----------------------------------------------------------------------------
(* Texts and ranges.  Position p is the beginning of line p, or the end of *)
(* the text; columns are abstracted.                                       *)

LinesOf(text) == {text[i] : i \in 1..Len(text)}

At(p) == [first |-> p, last |-> p]

NoRange == At(0)

Glue(a, b) == IF a = Blank THEN b ELSE IF b = Blank THEN a ELSE Glued

\* One text after another.
Join(a, b) ==
    SubSeq(a, 1, Len(a) - 1) \o <<Glue(a[Len(a)], b[1])>> \o SubSeq(b, 2, Len(b))

Before(text, p) == IF p <= Len(text) THEN SubSeq(text, 1, p - 1) \o <<Blank>> ELSE text

After(text, p) == IF p <= Len(text) THEN SubSeq(text, p, Len(text)) ELSE <<Blank>>

\* extractRangeText, and getText of the host.
Slice(text, r) == After(Before(text, r.last), r.first)

\* The text with the range replaced.
Substituted(text, r, new) == Join(Join(Before(text, r.first), new), After(text, r.last))

\* The host moves a position beyond the end to the end.
Validated(text, r) ==
    LET moved(p) == IF p <= Len(text) THEN p ELSE Len(text) + 1
    IN  [first |-> moved(r.first), last |-> moved(r.last)]

\* The first line, from `from` on, that is not in S.
FirstNot(text, S, from) ==
    CHOOSE i \in from..Len(text) + 1 :
        /\ i = Len(text) + 1 \/ text[i] \notin S
        /\ \A j \in from..i - 1 : text[j] \in S

-----------------------------------------------------------------------------
(* Imports.                                                                *)

\* Scripts, Python, and anything unknown: after all that may stand on top of a file.
GenericLine(text) == FirstNot(text, Preamble \union Import \union {Blank}, 1)

\* JavaScript: right after the first row of imports, or where there is none yet, below
\* comments and directives.
JsTsLine(text) == FirstNot(text, Import, FirstNot(text, Preamble \union {Blank}, 1))

\* Go: into the group of imports.
GoLine(text) ==
    IF Open \in LinesOf(text) THEN FirstNot(text, LinesOf(text) \ {Close}, 1)
    ELSE GenericLine(text)

\* importInsertLine: new imports go before this line.
InsertLine(text) ==
    CASE rules = "jsts" -> JsTsLine(text)
      [] rules = "go" -> GoLine(text)
      [] OTHER -> GenericLine(text)

\* jstsFinalizeImportBlock: code right after the imports gets a blank line before it.
Separated(text) ==
    LET p == InsertLine(text)
    IN  rules = "jsts" /\ p <= Len(text) /\ text[p] \notin Import \union {Blank}

ImportBlock(text) == IF Separated(text) THEN <<NewImport, Blank>> ELSE <<NewImport>>

\* Mutant: the separating line is not counted.
ShiftByOne(r, text) ==
    LET p == InsertLine(text)
        moved(l) == IF l >= p THEN l + 1 ELSE l
    IN  [r EXCEPT !.first = moved(@), !.last = moved(@)]

\* shiftRangeAfterImportInsert.
Shifted(r, text) ==
    LET p == InsertLine(text)
        moved(l) == IF l >= p THEN l + Len(ImportBlock(text)) ELSE l
    IN  [r EXCEPT !.first = moved(@), !.last = moved(@)]

\* syntheticFileLinesAfterImport: the block without its trailing newlines.
Synthetic(text) ==
    LET p == InsertLine(text)
    IN  SubSeq(text, 1, p - 1) \o <<NewImport>> \o SubSeq(text, p, Len(text))

\* Mutant: imports the file has are inserted again.
AnyImports(wanted, text) == wanted

\* filterNewImportLines.
NewImports(wanted, text) == wanted /\ NewImport \notin LinesOf(text)

-----------------------------------------------------------------------------
(* The handlers of the core.                                               *)

EndsWithNewline(text) == text[Len(text)] = Blank

WholeFile(text) ==
    [first |-> 1, last |-> IF EndsWithNewline(text) THEN Len(text) ELSE Len(text) + 1]

\* resolveEditRange: a selection (or, for a delete, a hit of the last search) that is
\* outside the text is ignored, a symbol is taken as it is.
Resolved(by, r, text) ==
    IF by = "symbol" \/ (by \in {"selection", "hit"} /\ r.last <= Len(text)) THEN r
    ELSE WholeFile(text)

Extractable(r, text) == r.last <= Len(text)

\* The whole file is never deleted.
Acceptable(kind, r, text) ==
    kind \in {"edit", "delete"} =>
        Extractable(r, text) /\ (kind = "delete" => r # WholeFile(text))

\* insertAffixForZeroWidth: the code gets a line of its own, unless the line before
\* which it is inserted is blank.
Affixed(at, lines) ==
    IF at.first <= Len(lines) /\ lines[at.first] # Blank THEN <<NewCode, Blank>> ELSE <<NewCode>>

Replace(r, new, expected) == [kind |-> "replace", range |-> r, new |-> new, expected |-> expected]

Append_(new) == [kind |-> "append", range |-> NoRange, new |-> new, expected |-> << >>]

ImportAction(text) ==
    Replace(At(InsertLine(text)), ImportBlock(text) \o <<Blank>>, <<Blank>>)

\* What replaces the target; the model's answer keeps its last newline.
Answer(kind, target) ==
    IF kind = "delete" THEN <<Blank>>
    ELSE IF EndsWithNewline(target) THEN <<NewCode, Blank>> ELSE <<NewCode>>

\* appendCreateToAppend.
ToAppend(text) == IF EndsWithNewline(text) THEN <<NewCode, Blank>> ELSE <<Blank, NewCode, Blank>>

\* The action proper.
Change(kind, r, text, importing) ==
    LET r2 == IF importing THEN Shifted(r, text) ELSE r
        lines == IF importing THEN Synthetic(text) ELSE text
    IN  CASE kind = "create" -> Replace(r2, Affixed(r2, lines), <<Blank>>)
          [] kind = "append" -> Append_(ToAppend(text))
          [] OTHER -> Replace(r2, Answer(kind, Slice(text, r)), Slice(text, r))

Batch(kind, r, text, importing) ==
    (IF importing THEN <<ImportAction(text)>> ELSE << >>) \o <<Change(kind, r, text, importing)>>

NoJob == [kind |-> "none", by |-> "none", range |-> NoRange, text |-> << >>,
          importing |-> FALSE, organize |-> FALSE, batch |-> << >>, step |-> 1, items |-> << >>]

\* The selections and symbols of the editor's buffer.
Ranges(text) == {r \in [first : 1..Len(text), last : 1..Len(text)] : r.first < r.last}

\* What a search found in the file.
Hits(text) == {r \in Ranges(text) : r.last = r.first + 1}

\* voice.transcript: the selection is sent in the buffer's coordinates.
Ask(kind, by, r) ==
    /\ pc = "idle" /\ requests < MaxRequests
    /\ pc' = "asked" /\ requests' = requests + 1 /\ outcome' = "none"
    /\ job' = [NoJob EXCEPT !.kind = kind, !.by = by, !.range = r]
    /\ UNCHANGED <<rules, disk, buffer, keys, calm, unsaved>>

End(how) == pc' = "idle" /\ outcome' = how /\ job' = NoJob

\* ReadHostFile, from the disk, and what the handlers refuse without asking the
\* model.
Read ==
    /\ pc = "asked"
    /\ LET r == IF job.kind \in {"edit", "delete"} THEN Resolved(job.by, job.range, disk)
                ELSE job.range
       IN  IF ~Acceptable(job.kind, r, disk) THEN End("refused")
           ELSE /\ pc' = "planning" /\ UNCHANGED outcome
                /\ job' = [job EXCEPT !.by = "none", !.range = r, !.text = disk]
    /\ calm' = (disk = buffer)
    /\ UNCHANGED <<rules, disk, buffer, keys, requests, unsaved>>

\* The host cannot read the file.
ReadFails ==
    /\ pc = "asked" /\ End("refused")
    /\ UNCHANGED <<rules, disk, buffer, keys, requests, calm, unsaved>>

\* The model answers (a delete does not ask it), and the batch is sent.  A create
\* names a line of what was read.
Plan(importing, organize, p) ==
    /\ pc = "planning" /\ pc' = "applying"
    /\ LET text == job.text
           r == IF job.kind = "create" THEN At(p) ELSE job.range
           new == job.kind # "delete" /\ NewImports(importing, text)
       IN  /\ IF job.kind = "create" THEN p \in 1..Len(text) ELSE p = 1
           /\ job' = [job EXCEPT !.range = r, !.importing = new, !.organize = new /\ organize,
                                 !.batch = Batch(job.kind, r, text, new)]
    /\ UNCHANGED <<rules, disk, buffer, keys, requests, outcome, calm, unsaved>>

\* The model fails, or its answer cannot be used.
PlanFails ==
    /\ pc = "planning" /\ job.kind # "delete"
    /\ End("refused")
    /\ UNCHANGED <<rules, disk, buffer, keys, requests, calm, unsaved>>

-----------------------------------------------------------------------------
(* The extension applies the batch.                                        *)

Action == job.batch[job.step]

\* Mutant: the expected hash is not compared.
MatchesAlways == TRUE

\* The range still holds the text the core has read (expectedSha256).
Matches ==
    Action.kind = "replace" =>
        Slice(buffer, Validated(buffer, Action.range)) = Action.expected

Place == IF Action.kind = "append" THEN At(Len(buffer) + 1) ELSE Validated(buffer, Action.range)

\* Mutant: the directives after it are not reported.
FailAlone ==
    /\ pc' = "reporting"
    /\ job' = [job EXCEPT !.items = <<"failed">>]

\* The edit directive fails, and the directives after it are skipped.
FailEdit ==
    /\ pc' = "reporting"
    /\ job' = [job EXCEPT !.items = <<"failed">> \o (IF job.organize THEN <<"skipped">> ELSE << >>)]

\* One action of dispatchEditResultWorkspaceEdit: applied, or refused.
ApplyAction ==
    /\ pc = "applying" /\ Matches
    /\ buffer' = Substituted(buffer, Place, Action.new)
    /\ pc' = "saving"
    /\ UNCHANGED <<rules, disk, keys, requests, job, outcome, calm, unsaved>>

StaleRange ==
    /\ pc = "applying" /\ ~Matches
    /\ FailEdit
    /\ UNCHANGED <<rules, disk, buffer, keys, requests, outcome, calm, unsaved>>

\* workspace.applyEdit returns false.
ApplyRefused ==
    /\ pc = "applying" /\ Matches
    /\ FailEdit /\ calm' = FALSE
    /\ UNCHANGED <<rules, disk, buffer, keys, requests, outcome, unsaved>>

SaveAction ==
    /\ pc = "saving" /\ disk' = buffer
    /\ IF job.step < Len(job.batch)
       THEN pc' = "applying" /\ job' = [job EXCEPT !.step = @ + 1]
       ELSE /\ pc' = IF job.organize THEN "organizing" ELSE "reporting"
            /\ job' = [job EXCEPT !.items = <<"ok">>]
    /\ UNCHANGED <<rules, buffer, keys, requests, outcome, calm, unsaved>>

SaveFails ==
    /\ pc = "saving" /\ unsaved' = TRUE
    /\ FailEdit /\ calm' = FALSE
    /\ UNCHANGED <<rules, disk, buffer, keys, requests, outcome>>

\* dispatchCodeAction.  How imports are organized is left out; when there is nothing
\* to do, nothing is saved.
OrganizeImports(status) ==
    /\ pc = "organizing" /\ pc' = "reporting"
    /\ job' = [job EXCEPT !.items = Append(@, status)]
    /\ disk' \in IF status = "ok" THEN {disk, buffer} ELSE {disk}
    /\ calm' = (calm /\ status = "ok")
    /\ UNCHANGED <<rules, buffer, keys, requests, outcome, unsaved>>

\* Mutant: the last item decides.
ReportLastItem ==
    /\ pc = "reporting"
    /\ End(IF job.items[Len(job.items)] = "failed" THEN "failed" ELSE "success")
    /\ calm' = FALSE
    /\ UNCHANGED <<rules, disk, buffer, keys, requests, unsaved>>

\* ConsumeHostApplyReport.
Report ==
    /\ pc = "reporting"
    /\ End(IF "failed" \in LinesOf(job.items) THEN "failed" ELSE "success")
    /\ calm' = FALSE
    /\ UNCHANGED <<rules, disk, buffer, keys, requests, unsaved>>

-----------------------------------------------------------------------------
(* The user at the keyboard.                                               *)

ByHand ==
    /\ keys < MaxKeys /\ keys' = keys + 1
    /\ calm' = FALSE
    /\ UNCHANGED <<rules, requests, pc, job, outcome, unsaved>>

Type(t, p) ==
    /\ ByHand /\ t \notin LinesOf(buffer) \union LinesOf(disk) /\ p \in 1..Len(buffer)
    /\ buffer' = SubSeq(buffer, 1, p - 1) \o <<t>> \o SubSeq(buffer, p, Len(buffer))
    /\ UNCHANGED disk

Erase(p) ==
    /\ ByHand /\ p \in 1..Len(buffer) - 1
    /\ buffer' = SubSeq(buffer, 1, p - 1) \o SubSeq(buffer, p + 1, Len(buffer))
    /\ UNCHANGED disk

Save ==
    /\ disk # buffer /\ disk' = buffer
    /\ UNCHANGED <<rules, buffer, keys, requests, pc, job, outcome, calm, unsaved>>

\* Nothing is under way.
Rest == pc = "idle" /\ UNCHANGED vars

-----------------------------------------------------------------------------
Init ==
    /\ \E f \in Files : rules = f.rules /\ disk = f.text /\ buffer = f.text
    /\ keys = 0 /\ requests = 0 /\ pc = "idle" /\ job = NoJob
    /\ outcome = "none" /\ calm = FALSE /\ unsaved = FALSE

User ==
    \/ \E t \in Typed, p \in 1..Len(buffer) : Type(t, p)
    \/ \E p \in 1..Len(buffer) : Erase(p)
    \/ Save

Handler ==
    \/ \E kind \in {"edit", "delete"} :
          \/ \E by \in {"selection", "symbol"}, r \in Ranges(buffer) : Ask(kind, by, r)
          \/ Ask(kind, "none", NoRange)
    \/ \E r \in Hits(disk) : Ask("delete", "hit", r)
    \/ \E kind \in {"create", "append"} : Ask(kind, "none", NoRange)
    \/ Read \/ ReadFails \/ PlanFails
    \/ \E importing, organize \in BOOLEAN, p \in 1..Len(job.text) : Plan(importing, organize, p)
    \/ Report

Host ==
    \/ ApplyAction \/ StaleRange \/ ApplyRefused \/ SaveAction \/ SaveFails
    \/ \E status \in {"ok", "failed"} : OrganizeImports(status)

Next == User \/ Handler \/ Host \/ Rest

Spec == Init /\ [][Next]_vars

-----------------------------------------------------------------------------
(* Properties.                                                             *)

\* The types, and how far a batch has come.
TypeOK ==
    /\ rules \in {"jsts", "go", "other"}
    /\ Len(disk) > 0 /\ Len(buffer) > 0
    /\ pc \in {"idle", "asked", "planning", "applying", "saving", "organizing", "reporting"}
    /\ outcome \in {"none", "refused", "failed", "success"}
    /\ pc = "reporting" => Len(job.items) = IF job.organize THEN 2 ELSE 1
    /\ pc \in {"applying", "saving"} => job.step <= Len(job.batch)

\* What an utterance means for the text that was read: its target is replaced, and
\* the imports stand where imports go.
Intended ==
    LET text == job.text
        r == IF job.kind = "append" THEN At(Len(text) + 1) ELSE job.range
        new == CASE job.kind = "create" /\ text[r.first] # Blank -> <<NewCode, Blank>>
                 [] job.kind = "create" /\ text[r.first] = Blank -> <<NewCode>>
                 [] job.kind = "append" -> ToAppend(text)
                 [] OTHER -> Answer(job.kind, Slice(text, r))
        p == InsertLine(text)
        block == ImportBlock(text) \o <<Blank>>
        above == Before(text, p)
        below == After(text, p)
        up == [first |-> r.first - p + 1, last |-> r.last - p + 1]
    IN  CASE ~job.importing -> Substituted(text, r, new)
          [] job.importing /\ r.first >= p -> Join(Join(above, block), Substituted(below, up, new))
          [] OTHER -> Join(Join(Substituted(above, r, new), block), below)

\* The imports go into the middle of the target, which is then no longer the text
\* that was read: a whole-file edit of a file that has imports, for one.
Straddles ==
    LET p == InsertLine(job.text)
    IN  job.importing /\ job.range.first < p /\ p < job.range.last

\* The imports go right behind the target: its end is moved past them all the same
\* (el >= insertLine, import_insert.go:95).
EndsAtImports ==
    LET p == InsertLine(job.text)
    IN  job.importing /\ job.range.first < p /\ p = job.range.last

\* Code is created below imports with a separating line, which Synthetic does not have.
CreatedBelow ==
    /\ job.importing /\ job.kind = "create"
    /\ Separated(job.text) /\ job.range.first >= InsertLine(job.text)

\* The range of the change is not what the handler meant by it.
Overlaps == Straddles \/ EndsAtImports

\* The text that was read, with the imports and nothing else.
Imported(text) ==
    Substituted(text, At(InsertLine(text)), ImportBlock(text) \o <<Blank>>)

Reported == pc = "reporting" /\ pc' = "idle"

\* An utterance during which nobody interferes succeeds, and does to the file what it
\* means: the shifts by the import block are right for every target, but for those that
\* reach the line of the imports.  These are refused as stale, never misplaced: the file
\* then has the imports and nothing else.
UndisturbedEdits ==
    [][Reported /\ calm /\ ~CreatedBelow =>
           /\ disk = buffer
           /\ IF Overlaps THEN outcome' = "failed" /\ buffer = Imported(job.text)
              ELSE outcome' = "success" /\ buffer = Intended]_vars

\* When nobody interferes, success is not reported of a batch that stopped half-way.
SuccessIsComplete ==
    [][Reported /\ calm /\ outcome' = "success" /\ job.kind # "delete" =>
           LinesOf(buffer) \intersect {NewCode, Glued} # {}]_vars

\* However stale the lines the core has read are, and whatever the user types while
\* it thinks, no line the user typed is overwritten unless it is part of the target, or
\* is run together with another one.
TypedLinesSurvive ==
    [][\A t \in Typed :
          t \in LinesOf(buffer) /\ keys' = keys =>
              \/ t \in LinesOf(buffer') \/ Glued \in LinesOf(buffer')
              \/ t \in LinesOf(Slice(job.text, job.range))]_vars

\* A batch that fails half-way leaves its import behind; saying the same again does
\* not insert it twice, unless the first could not be saved.
ImportOnce ==
    ~unsaved => Cardinality({i \in 1..Len(buffer) : buffer[i] = NewImport}) <= 1

\* What create.go:467-469 says: code is not glued to adjacent line text.
NotGlued == Glued \notin LinesOf(buffer)

=============================================================================
