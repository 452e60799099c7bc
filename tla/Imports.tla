------------------------------ MODULE Imports ------------------------------
(***************************************************************************)
(* The import wizard for one exam: app/services/import_service.py and the  *)
(* routes of app/routers/admin/imports.py.  An upload writes the file and  *)
(* the import row; staging parses the file into items; administrators      *)
(* deselect rows and confirm, which turns every selected row into a        *)
(* question and, where the row names a discussion, finds or makes its      *)
(* community source (app/services/import_community.py).                    *)
(*                                                                         *)
(* Requests are transactions at READ COMMITTED, as in Attempts, with one   *)
(* difference: a confirm flushes each row as it goes (begin_nested and the *)
(* commit of a savepoint flush), so it holds row locks until it commits,   *)
(* and whoever writes such a row waits.  Other commits flush and commit in *)
(* one step.  A ring of waiting confirms is broken by PostgreSQL, which    *)
(* refuses the statement of one of them.                                   *)
(***************************************************************************)
EXTENDS RowValidation

CONSTANTS
  ImportIds,     \* ids the imports sequence gives out
  Workers,       \* request threads
  Files,         \* files that are uploaded
  Content,       \* of each of them, the family and the rows
  Mappings,      \* column mappings an administrator posts: the fields mapped to,
                 \* and those of them whose header is one of the file
  MaxRows,       \* settings.import_max_rows
  ExistingBanks, \* what the exam has before the first import: its questions and
                 \* their community sources, in id order
  MaxQuestions,  \* bound: questions of the exam, and sources
  MaxFailures,   \* bound: failed rows and requests cut off
  SerialImports  \* TRUE: one request at a time works on an import

Elements(s) == {s[k] : k \in DOMAIN s}

\* `unknown': the file passed the upload checks, but no parser adapter claims it.
ASSUME FilesAssumption ==
  /\ DOMAIN Content = Files
  /\ \A f \in Files : /\ Content[f].family \in {"xlsx", "text", "unknown"}
                      /\ Content[f].rows \in Seq(Elements(Content[f].rows))
                      /\ \A row \in Elements(Content[f].rows) : DOMAIN row = Fields
ASSUME MappingsAssumption ==
  \A m \in Mappings : m.columns \subseteq m.fields /\ m.columns \subseteq Fields
ASSUME ImportBoundsAssumption == {MaxRows, MaxQuestions, MaxFailures} \subseteq Nat

VARIABLES
  disk,      \* files under uploads_dir/imports, by import id
  imports,   \* table imports: status of each row, "none" if there is no row
  items,     \* table import_items: per import, its rows in row_number order
  questions, \* the exam's questions, in id order, with source_locator
  sources,   \* table community_discussion_sources: per id its row, or None
  pc,        \* per worker: the next step of its request
  job,       \* per worker: the request and what its session has read or written
  failures   \* failures so far

tables == <<disk, imports, items, questions, sources>>
vars == <<disk, imports, items, questions, sources, pc, job, failures>>

-----------------------------------------------------------------------------

Confirmed == {"partially_verified", "ready_to_publish"}
ImportStatus == {"none", "uploaded", "normalized"} \cup Confirmed
ItemStatus == {"ok", "duplicate", "warning", "error", "skipped", "imported"}

\* The validated rows of a file: parser adapters give canonical fields, without a
\* mapping.
ColumnSets == {m.columns : m \in Mappings} \cup {{}}
Parsed ==
  [f \in Files |-> [columns \in ColumnSets |->
     LET rows == StreamRows(Content[f].rows,
                            IF Content[f].family = "xlsx" THEN columns ELSE Fields)
     IN [r \in DOMAIN rows |-> ValidateRow(rows[r])]]]

\* What staging can yield, and the community signals in it.
Canonicals == UNION {Elements(Parsed[f][m]) : f \in Files, m \in ColumnSets}
Signals == {c.community : c \in Canonicals} \ {None}

Item == [canonical : Canonicals, status : ItemStatus, question : Nat \cup {None}]
Question == [hash : {c.hash : c \in Canonicals}, question_type : Types,
             options : [Labels -> BOOLEAN \cup {None}], from : ImportIds \X Nat]
           \cup UNION {Elements(b.questions) : b \in ExistingBanks}
Discussions == Signals \cup UNION {Elements(b.sources) : b \in ExistingBanks}
Source == [url : {g.url : g \in Discussions}, id : {g.id : g \in Discussions},
           votes : {g.votes : g \in Discussions}, count : {g.count : g \in Discussions},
           question : Nat, version : Nat]
SourceIds == 1..MaxQuestions

ASSUME NoneAssumption == None \notin ImportIds \cup Files \cup Nat \cup BOOLEAN \cup Source
ASSUME BanksAssumption ==
  \A b \in ExistingBanks :
    /\ b.questions \in Seq(Elements(b.questions))
    /\ \A q \in DOMAIN b.questions : b.questions[q].from = None
    /\ \A s \in DOMAIN b.sources : /\ b.sources[s] \in Source
                                   /\ b.sources[s].question \in DOMAIN b.questions

\* loaded: the status of the import row, or of the item to toggle, as read;
\* row: the item to toggle, or the failed row whose mark a confirm has not
\* flushed yet; hashes: the exam's content hashes as read; todo, made, failed:
\* the rows a confirm has still to convert, has converted, has marked as failed;
\* found: the source its lookup for the next row saw; linked: the sources it has
\* written, whose question is the place of the row in made.
NoJob == [import |-> None, columns |-> {}, loaded |-> "none", row |-> 0,
          hashes |-> {}, todo |-> << >>, made |-> << >>, failed |-> {},
          found |-> None, linked |-> << >>]

Steps == {"idle", "commit upload", "read hashes", "stage",
          "toggle", "read items", "convert"}

TypeOK ==
  /\ disk \in [ImportIds -> Files \cup {None}]
  /\ imports \in [ImportIds -> ImportStatus]
  /\ items \in [ImportIds -> Seq(Item)]
  /\ questions \in Seq(Question)
  /\ sources \in [SourceIds -> Source \cup {None}]
  /\ pc \in [Workers -> Steps]
  /\ \A w \in Workers :
       /\ job[w].import \in ImportIds \cup {None}
       /\ job[w].columns \in ColumnSets
       /\ job[w].loaded \in ImportStatus \cup ItemStatus
       /\ job[w].todo \in Seq(Nat) /\ job[w].made \in Seq(Nat)
       /\ {job[w].row} \cup job[w].failed \subseteq Nat
       /\ \A s \in DOMAIN job[w].linked : s \in SourceIds /\ job[w].linked[s] \in Source
  /\ failures \in 0..MaxFailures

Init ==
  /\ disk = [i \in ImportIds |-> None]
  /\ imports = [i \in ImportIds |-> "none"]
  /\ items = [i \in ImportIds |-> << >>]
  /\ \E b \in ExistingBanks :
       /\ questions = b.questions
       /\ sources = [s \in SourceIds |-> IF s \in DOMAIN b.sources THEN b.sources[s] ELSE None]
  /\ pc = [w \in Workers |-> "idle"]
  /\ job = [w \in Workers |-> NoJob]
  /\ failures = 0

Takes(w, i) ==
  /\ pc[w] = "idle"
  /\ SerialImports => \A v \in Workers : job[v].import # i

GoesOn(w, step, j) ==
  /\ pc' = [pc EXCEPT ![w] = step]
  /\ job' = [job EXCEPT ![w] = j]

Replies(w) == GoesOn(w, "idle", NoJob)

\* What the ORM makes of column = new when the session has loaded `loaded'.
Written(new, loaded, current) == IF new = loaded THEN current ELSE new

\* The community signal of the row a confirm converts next.
Signal(j) == items[j.import][Head(j.todo)].canonical.community
Discussed(j) == Signal(j) # None /\ Signal(j).url # None

\* The locks of the rows that the transaction of w has flushed.
Holds(w) ==
  {<<"item", job[w].import, r>> :
     r \in Elements(job[w].made) \cup (job[w].failed \ {job[w].row})}
  \cup {<<"source", s>> : s \in DOMAIN job[w].linked}

\* The locks its next statement takes.
Needs(w) ==
  LET j == job[w]
  IN IF j.row # 0 THEN {<<"item", j.import, j.row>>}
     ELSE IF pc[w] # "convert" \/ j.todo = << >> THEN {}
     ELSE {<<"item", j.import, Head(j.todo)>>}
          \cup (IF j.found = None THEN {} ELSE {<<"source", j.found.at>>})

WaitsFor(w, v) == v # w /\ \E lock \in Needs(w) : lock \in Holds(v)

Waits(w) == \E v \in Workers : WaitsFor(w, v)

-----------------------------------------------------------------------------
(* POST /admin/imports                                                      *)

FirstStep(f) == IF Content[f].family = "xlsx" THEN "commit upload" ELSE "read hashes"

\* Mutant of Upload: the request goes on though the file was not written.
UploadUnwritten(w, i, f) ==
  /\ Takes(w, i)
  /\ imports[i] = "none" /\ \A v \in Workers : job[v].import # i
  /\ GoesOn(w, FirstStep(f), [NoJob EXCEPT !.import = i])
  /\ UNCHANGED <<tables, failures>>

\* The file is written before the transaction commits.  The id comes from a
\* sequence; the id of an upload that failed is never used again in the code,
\* and stands for a fresh one here.
Upload(w, i, f) ==
  /\ Takes(w, i)
  /\ imports[i] = "none" /\ \A v \in Workers : job[v].import # i
  /\ disk' = [disk EXCEPT ![i] = f]
  /\ GoesOn(w, FirstStep(f), [NoJob EXCEPT !.import = i])
  /\ UNCHANGED <<imports, items, questions, sources, failures>>

\* A spreadsheet: the row is committed, the mapping page is next.
CommitUpload(w) ==
  /\ pc[w] = "commit upload"
  /\ imports' = [imports EXCEPT ![job[w].import] = "uploaded"]
  /\ Replies(w)
  /\ UNCHANGED <<disk, items, questions, sources, failures>>

-----------------------------------------------------------------------------
(* Staging: on upload for html, pdf and txt, and by POST .../mapping, which *)
(* looks neither at the status nor at the family of the import              *)

\* A mapping that leaves out a required field or has an unknown one is refused;
\* that its headers are those of the file is not checked.
SaveMapping(w, i, m) ==
  /\ Takes(w, i)
  /\ imports[i] # "none"
  /\ MappingComplete(m.fields) /\ m.fields \subseteq CanonicalFields
  /\ GoesOn(w, "read hashes",
            [NoJob EXCEPT !.import = i, !.columns = m.columns, !.loaded = imports[i]])
  /\ UNCHANGED <<tables, failures>>

\* existing_question_hashes_for_exam; retired questions count.
ReadHashes(w) ==
  /\ pc[w] = "read hashes"
  /\ GoesOn(w, "stage",
       [job[w] EXCEPT !.hashes = {questions[q].hash : q \in DOMAIN questions}])
  /\ UNCHANGED <<tables, failures>>

\* Mutant of Staged: rows are compared with the exam's questions only.
StagedAgainstExam(rows, known) ==
  [r \in DOMAIN rows |->
     [canonical |-> rows[r], question |-> None,
      status |-> IF rows[r].verdict = "ok" /\ rows[r].hash \in known
                 THEN "duplicate" ELSE rows[r].verdict]]

\* A valid row is a duplicate when its hash is one of the exam's or that of an
\* earlier valid row.
Staged(rows, known) ==
  [r \in DOMAIN rows |->
     [canonical |-> rows[r], question |-> None,
      status |-> IF /\ rows[r].verdict = "ok"
                    /\ \/ rows[r].hash \in known
                       \/ \E p \in 1..(r - 1) : /\ rows[p].verdict = "ok"
                                                /\ rows[p].hash = rows[r].hash
                 THEN "duplicate" ELSE rows[r].verdict]]

\* Mutant of StageItems: no uq_import_items_row.
StageItemsAgain(w) ==
  LET i == job[w].import
  IN /\ pc[w] = "stage"
     /\ items' = [items EXCEPT ![i] = @ \o Staged(Parsed[disk[i]][job[w].columns], job[w].hashes)]
     /\ imports' = [imports EXCEPT ![i] = Written("normalized", job[w].loaded, @)]
     /\ Replies(w)
     /\ UNCHANGED <<disk, questions, sources, failures>>

\* A file that no adapter claims or that has too many rows, and rows that are
\* there already (uq_import_items_row), fail the request.
StagingFails(i, rows) ==
  \/ Content[disk[i]].family = "unknown"
  \/ Cardinality(DataRows(Content[disk[i]].rows)) > MaxRows
  \/ rows # << >> /\ items[i] # << >>

\* save_mapping sets needs_mapping and parse_and_stage sets normalized before
\* anything is flushed.  A mapping that matches no column adds no row, and sets
\* the status also of an import that is staged or confirmed.
StageItems(w) ==
  LET i == job[w].import
      rows == Parsed[disk[i]][job[w].columns]
  IN /\ pc[w] = "stage"
     /\ IF StagingFails(i, rows)
        THEN UNCHANGED <<imports, items>>
        ELSE /\ items' = [items EXCEPT ![i] = @ \o Staged(rows, job[w].hashes)]
             /\ imports' = [imports EXCEPT ![i] =
                              Written("normalized", job[w].loaded, @)]
     /\ Replies(w)
     /\ UNCHANGED <<disk, questions, sources, failures>>

-----------------------------------------------------------------------------
(* POST .../items/{id}/toggle                                               *)

\* Mutants of Flip: reselecting gives the status before validation; an imported
\* row can be deselected.
FlipToParsed == [ok |-> "skipped", skipped |-> "parsed"]
FlipImported == [ok |-> "skipped", skipped |-> "ok", imported |-> "skipped"]

Flip == [ok |-> "skipped", skipped |-> "ok"]

ToggleRow(w, i, r) ==
  /\ Takes(w, i)
  /\ r \in DOMAIN items[i]
  /\ items[i][r].status \in DOMAIN Flip
  /\ GoesOn(w, "toggle", [NoJob EXCEPT !.import = i, !.row = r,
                                       !.loaded = items[i][r].status])
  /\ UNCHANGED <<tables, failures>>

CommitToggle(w) ==
  /\ pc[w] = "toggle"
  /\ ~Waits(w)
  /\ items' = [items EXCEPT ![job[w].import][job[w].row].status = Flip[job[w].loaded]]
  /\ Replies(w)
  /\ UNCHANGED <<disk, imports, questions, sources, failures>>

-----------------------------------------------------------------------------
(* POST .../confirm                                                         *)

\* The last conjunct is the bound on questions.
Confirm(w, i) ==
  LET underWay == UNION {{v} \X DOMAIN items[job[v].import] :
                       v \in {u \in Workers : pc[u] \in {"read items", "convert"}}}
  IN /\ Takes(w, i)
     /\ imports[i] # "none"
     /\ Len(questions) + Len(items[i]) + Cardinality(underWay) <= MaxQuestions
     /\ GoesOn(w, "read items", [NoJob EXCEPT !.import = i, !.loaded = imports[i]])
     /\ UNCHANGED <<tables, failures>>

\* Mutants of ToImport: every row that is not deselected; every row without a
\* question.
ToImportNotSkipped(i) == InOrder({r \in DOMAIN items[i] : items[i][r].status # "skipped"})
ToImportUnlinked(i) == InOrder({r \in DOMAIN items[i] : items[i][r].question = None})

\* The rows with status ok and no question, in row order.
ToImport(i) ==
  InOrder({r \in DOMAIN items[i] : items[i][r].status = "ok" /\ items[i][r].question = None})

\* An import without rows is refused.
ReadItems(w) ==
  /\ pc[w] = "read items"
  /\ IF items[job[w].import] = << >>
     THEN Replies(w)
     ELSE GoesOn(w, "convert", [job[w] EXCEPT !.todo = ToImport(job[w].import)])
  /\ UNCHANGED <<tables, failures>>

\* begin_nested flushes the mark of a row that failed before.
FlushMark(w) ==
  /\ pc[w] = "convert"
  /\ job[w].row # 0 /\ job[w].todo # << >>
  /\ ~Waits(w)
  /\ GoesOn(w, "convert", [job[w] EXCEPT !.row = 0])
  /\ UNCHANGED <<tables, failures>>

\* The savepoint of the next row is open.
Converting(w) == pc[w] = "convert" /\ job[w].row = 0 /\ job[w].todo # << >>

\* _select_existing_cds: a discussion is known by its id and URL.  The second
\* lookup, by question and URL, finds nothing: the question is new.
Matches(source, signal) ==
  signal.id # None /\ source.id = signal.id /\ source.url = signal.url

\* The lookup sees what is committed and what its own transaction has written.
FindSource(w) ==
  LET j == job[w]
      seen == [s \in SourceIds |-> IF s \in DOMAIN j.linked THEN j.linked[s] ELSE sources[s]]
      hits == {s \in SourceIds : seen[s] # None /\ Matches(seen[s], Signal(j))}
  IN /\ Converting(w)
     /\ Discussed(j) /\ j.found = None
     /\ \E at \in IF hits = {} THEN {0} ELSE hits :
          GoesOn(w, "convert", [j EXCEPT
            !.found = [at |-> at, row |-> IF at = 0 THEN None ELSE seen[at]]])
     /\ UNCHANGED <<tables, failures>>

\* upsert_community_source for the k-th question of a commit: no source found,
\* a new one; else the source found is linked to the question, and gets votes
\* and count of the row and a new version if they differ from those read.
LinkedSource(j, k, current) ==
  LET signal == Signal(j)
      was == j.found.row
      changed == was.votes # signal.votes \/ was.count # signal.count
  IN IF j.found.at = 0
     THEN [url |-> signal.url, id |-> signal.id, votes |-> signal.votes,
           count |-> signal.count, question |-> k, version |-> 0]
     ELSE [current EXCEPT !.question = k,
             !.votes = Written(signal.votes, was.votes, @),
             !.count = Written(signal.count, was.count, @),
             !.version = IF changed THEN was.version + 1 ELSE @]

\* Ids that no source has.
FreshSources ==
  {s \in SourceIds : sources[s] = None /\ \A v \in Workers : s \notin DOMAIN job[v].linked}

\* The sources the transaction of w has written once the next row is converted.
Linked(w) ==
  LET j == job[w]
      at == IF j.found.at = 0 THEN CHOOSE s \in FreshSources : TRUE ELSE j.found.at
      current == IF at \in DOMAIN j.linked THEN j.linked[at] ELSE sources[at]
  IN IF ~Discussed(j) THEN j.linked
     ELSE [s \in DOMAIN j.linked \cup {at} |->
             IF s = at THEN LinkedSource(j, Len(j.made) + 1, current) ELSE j.linked[s]]

\* The question made of a row: per label whether its option is correct.
QuestionOf(c, from) ==
  [hash |-> c.hash, question_type |-> c.question_type, from |-> from,
   options |-> [l \in Labels |-> IF c.options[l] = None THEN None
                                 ELSE l \in c.correct_answer]]

\* Mutant of ConvertItem: the question is committed with the savepoint, its row
\* is linked at the end of the confirm.
ConvertAndCommitQuestion(w) ==
  LET j == job[w]
      r == Head(j.todo)
  IN /\ Converting(w)
     /\ Discussed(j) => j.found # None
     /\ ~Waits(w)
     /\ questions' = Append(questions,
          QuestionOf(items[j.import][r].canonical, <<j.import, r>>))
     /\ GoesOn(w, "convert", [j EXCEPT !.todo = Tail(@), !.found = None])
     /\ UNCHANGED <<disk, imports, items, sources, failures>>

\* One row: the question is inserted, row and source are updated.  There is an id
\* for a new source (the bound on sources).
ConvertItem(w) ==
  LET j == job[w]
  IN /\ Converting(w)
     /\ Discussed(j) => j.found # None /\ (j.found.at = 0 => FreshSources # {})
     /\ ~Waits(w)
     /\ GoesOn(w, "convert", [j EXCEPT !.todo = Tail(@), !.made = Append(@, Head(j.todo)),
                                       !.found = None, !.linked = Linked(w)])
     /\ UNCHANGED <<tables, failures>>

\* Mutant of RollBackRow: the source was written outside the savepoint.
RollBackRowOnly(w) ==
  LET j == job[w]
  IN GoesOn(w, "convert", [j EXCEPT !.todo = Tail(@), !.row = Head(j.todo),
       !.failed = @ \cup {Head(j.todo)}, !.found = None,
       !.linked = IF j.found = None THEN @ ELSE Linked(w)])

\* The savepoint is rolled back, which gives up the locks taken in it, and the
\* row is marked in the session.
RollBackRow(w) ==
  LET j == job[w]
  IN GoesOn(w, "convert", [j EXCEPT !.todo = Tail(@), !.row = Head(j.todo),
       !.failed = @ \cup {Head(j.todo)}, !.found = None])

\* The database refuses something of the row.
FailItem(w) ==
  /\ Converting(w)
  /\ ~Waits(w)
  /\ failures < MaxFailures
  /\ failures' = failures + 1
  /\ RollBackRow(w)
  /\ UNCHANGED tables

\* Workers that wait for one another in a ring.
Rings == {ring \in SUBSET Workers \ {{}} :
            \A w \in ring : /\ \E v \in ring : WaitsFor(w, v)
                            /\ \E v \in ring : WaitsFor(v, w)}

\* Mutant of BreakDeadlock: the row is tried again.
RetryDeadlock(w) ==
  /\ Waits(w) /\ w \in UNION Rings
  /\ Converting(w)
  /\ GoesOn(w, "convert", [job[w] EXCEPT !.found = None])
  /\ UNCHANGED <<tables, failures>>

\* PostgreSQL refuses the statement of one worker of a ring.  In a savepoint
\* that fails the row; the flush of a mark is outside of it, and fails the
\* request.
BreakDeadlock(w) ==
  /\ Waits(w) /\ w \in UNION Rings
  /\ IF Converting(w) THEN RollBackRow(w) ELSE Replies(w)
  /\ UNCHANGED <<tables, failures>>

\* The id of the k-th question of a commit; the mutant reads it before the flush.
IdBeforeFlush(k) == Len(questions) + k - 1
IdOf(k) == Len(questions) + k

\* The commit publishes questions, rows, sources and the import's status together.
CommitConfirm(w) ==
  LET j == job[w]
      i == j.import
  IN /\ pc[w] = "convert"
     /\ j.todo = << >>
     /\ ~Waits(w)
     /\ questions' = questions \o [k \in DOMAIN j.made |->
          QuestionOf(items[i][j.made[k]].canonical, <<i, j.made[k]>>)]
     /\ items' = [items EXCEPT ![i] = [r \in DOMAIN @ |->
          IF \E k \in DOMAIN j.made : j.made[k] = r
          THEN [@[r] EXCEPT !.status = "imported",
                  !.question = IdOf(CHOOSE k \in DOMAIN j.made : j.made[k] = r)]
          ELSE IF r \in j.failed THEN [@[r] EXCEPT !.status = "error"]
          ELSE @[r]]]
     /\ sources' = [s \in SourceIds |-> IF s \in DOMAIN j.linked
          THEN [j.linked[s] EXCEPT !.question = IdOf(@)] ELSE sources[s]]
     /\ imports' = [imports EXCEPT ![i] =
          Written(IF j.failed = {} THEN "ready_to_publish"
                                   ELSE "partially_verified", j.loaded, @)]
     /\ Replies(w)
     /\ UNCHANGED <<disk, failures>>

-----------------------------------------------------------------------------

\* An unexpected exception, a restart or a lost connection: the transaction is
\* rolled back, the file of an upload stays on disk.
Fail(w) ==
  /\ pc[w] # "idle"
  /\ failures < MaxFailures
  /\ failures' = failures + 1
  /\ Replies(w)
  /\ UNCHANGED tables

Request(w) ==
  \E i \in ImportIds :
    \/ \E f \in Files : Upload(w, i, f)
    \/ \E m \in Mappings : SaveMapping(w, i, m)
    \/ \E r \in DOMAIN items[i] : ToggleRow(w, i, r)
    \/ Confirm(w, i)

Serve(w) ==
  \/ CommitUpload(w) \/ ReadHashes(w) \/ StageItems(w) \/ CommitToggle(w)
  \/ ReadItems(w) \/ FlushMark(w) \/ FindSource(w) \/ ConvertItem(w)
  \/ FailItem(w) \/ BreakDeadlock(w) \/ CommitConfirm(w)

Next == \E w \in Workers : Request(w) \/ Serve(w) \/ Fail(w)

Spec == Init /\ [][Next]_vars

\* Requests are carried on; a writer that waits for a lock gets it in the end
\* (PostgreSQL queues the waiters of a row, and looks for rings after
\* deadlock_timeout).
FairSpec == Spec /\ \A w \in Workers : WF_vars(Serve(w))

-----------------------------------------------------------------------------
(* What holds however the requests overlap                                  *)

\* Every import row has its file: create_import writes the file before it
\* commits, so an upload cut off in between leaves a file without a row and
\* never a row whose file cannot be parsed.
FileKept == \A i \in ImportIds : imports[i] # "none" => disk[i] # None

\* The rows of an import that an administrator may import differ in content,
\* whatever else is staged, toggled or confirmed meanwhile.
StagedApart ==
  \A i \in ImportIds : \A r, p \in DOMAIN items[i] :
    /\ {items[i][r].status, items[i][p].status} \subseteq {"ok", "skipped", "imported"}
    /\ items[i][r].canonical.hash = items[i][p].canonical.hash
    => r = p

\* A confirm is all or nothing: no question made of a row is ever there without
\* the row's link to a question, however confirms are cut off, repeated or
\* overlapped, and whatever is staged or deselected later.
NoHalfConfirm ==
  \A q \in DOMAIN questions : questions[q].from # None =>
    LET from == questions[q].from
    IN /\ from[2] \in DOMAIN items[from[1]]
       /\ items[from[1]][from[2]].question # None

\* The question an item points to was made from that item.
LinksBack ==
  \A i \in ImportIds : \A r \in DOMAIN items[i] :
    items[i][r].question # None =>
      /\ items[i][r].question \in DOMAIN questions
      /\ questions[items[i][r].question].from = <<i, r>>
      /\ questions[items[i][r].question].hash = items[i][r].canonical.hash

\* An import is staged once: its rows are never replaced or added to, also when
\* mappings are posted again, by several administrators, or while a confirm is
\* under way.
NeverRestaged ==
  [][\A i \in ImportIds : items[i] # << >> =>
       /\ DOMAIN items'[i] = DOMAIN items[i]
       /\ \A r \in DOMAIN items[i] : items'[i][r].canonical = items[i][r].canonical]_vars

\* Whatever columns were mapped, and however often the rows were toggled and
\* confirmed, an imported question can be answered: it has two options or more,
\* and a key that is among them.
ImportedAnswerable ==
  \A q \in DOMAIN questions : questions[q].from # None =>
    LET options == questions[q].options
    IN Cardinality({l \in Labels : options[l] # None}) >= 2 /\ TRUE \in Elements(options)

\* A community source always belongs to a committed question, and one that an
\* import has made or moved to a question whose row names its discussion, also
\* after rows failed, confirms were cut off, or two imports moved the same source.
SourcesLinked ==
  \A s \in SourceIds : sources[s] # None =>
    /\ sources[s].question \in DOMAIN questions
    /\ LET from == questions[sources[s].question].from
       IN from # None =>
            LET signal == items[from[1]][from[2]].canonical.community
            IN /\ signal # None
               /\ <<signal.url, signal.id>> = <<sources[s].url, sources[s].id>>

\* Every request is answered, though confirms hold the locks of rows and sources
\* while they wait for one another: confirms of two imports can wait in a ring,
\* which costs one of them a row and nobody the answer.
RequestsAnswered == \A w \in Workers : pc[w] # "idle" ~> pc[w] = "idle"

-----------------------------------------------------------------------------
(* What holds when one request at a time works on an import                 *)

\* Confirming is idempotent: a row gives at most one question, however often
\* its import is confirmed and its row toggled.
OneQuestionPerRow ==
  \A q, p \in DOMAIN questions :
    questions[q].from = questions[p].from /\ questions[q].from # None => q = p

\* A row is `imported' exactly when it has its question: a failed, skipped or
\* duplicate row has none, and failed rows do not spoil the others.
ImportedHaveQuestions ==
  \A i \in ImportIds : \A r \in DOMAIN items[i] :
    items[i][r].status = "imported" <=> items[i][r].question # None

-----------------------------------------------------------------------------
(* The imports as their administrator sees them                             *)

Phase(status) == IF status \in Confirmed THEN "confirmed"
                 ELSE IF status = "normalized" THEN "staged" ELSE status

\* Rows in error or with a warning, duplicates and failed rows are refused.
Fate(status) == IF status = "ok" THEN "selected"
                ELSE IF status = "skipped" THEN "deselected"
                ELSE IF status = "imported" THEN "imported" ELSE "refused"

Lifecycle == INSTANCE ImportLifecycle WITH
  phase <- [i \in ImportIds |-> Phase(imports[i])],
  rows  <- [i \in ImportIds |-> [r \in DOMAIN items[i] |-> Fate(items[i][r].status)]],
  bank  <- [q \in DOMAIN questions |-> questions[q].from]

\* With one request at a time on an import the wizard keeps the promises of
\* ImportLifecycle: a confirm makes one question of every row that is selected
\* when it commits, and of no other one, in row order, or refuses the row.
ImplementsImportLifecycle == Lifecycle!Spec

=============================================================================
