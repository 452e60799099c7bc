# Formal models of the exam practice platform

The platform (FastAPI, SQLAlchemy 2, PostgreSQL, Redis) lets students take
attempts at exams, scores them, and lets administrators keep the catalog and the
question bank and import questions from files. This directory holds TLA+ modules
of its parts, TLC configurations that check them on small instances, and TLAPS
proofs for every instance. Paths below are relative to `src/`.

## 1. Inventory

The service runs as two uvicorn processes (`ops/systemd/exam-platform-web.service`),
each with a thread pool. A request has one SQLAlchemy session and commits once, at
the end of its handler. Four facts of that set-up carry every model:

* `app/db.py:36-46`: no autoflush, default isolation (READ COMMITTED), rollback
  when the session is closed. Each SELECT sees what is committed at that moment;
  nothing of a request is visible before its COMMIT.
* The ORM's UPDATE writes the columns whose value differs from the *loaded* one, and
  objects a session has loaded are not refreshed by later queries.
* There is no `SELECT ... FOR UPDATE`, no version column in use and no unique
  index that ties a user to one attempt in progress. Row locks exist only between a
  flush and the commit.
* Handlers talk to each other through the tables and through Redis only.

| Part | State | Operations | What is hard | What makes it correct |
|---|---|---|---|---|
| **Attempts** `app/services/attempt_service.py`, `app/routers/practice.py`, `question_selector.py` | `attempts`, `attempt_answers` | start/resume, show, autosave, flag, submit; expiry inside show and save | a request acts on what it read while others commit; the timer is enforced by requests only; administrators edit the exam meanwhile | one attempt in progress per user; frozen question list; finished and scored together, once; saved selections are valid and are the ones scored; expiry happens |
| **Scoring** `scoring_service.py`, `app/routers/attempts.py` | columns of the two tables | score, topic breakdown, recommendations | rounding at thresholds, ties, boundaries | figures agree with their exact definitions, at every pass mark |
| **Import wizard** `import_service.py`, `app/routers/admin/imports.py`, `import_dedup.py` | files on disk, `imports`, `import_items`, `questions` | upload, map, stage, toggle, confirm | savepoints and row locks inside a confirm; confirms that wait for each other in a ring; repeated and overlapping confirms; mappings posted again; crash after the file is written | rows staged once; every row imported at most once, only if selected; all or nothing; files and rows agree; everybody gets an answer |
| **Rows** `import_validator.py`, `import_normalizer.py`, `excel_parser.py`, `parsers/` | none | columns, options and answers of a row to a verdict, a community signal, a hash | formats; answers given in three ways; options that are not mapped | a row judged ok makes a question that can be answered |
| **Question bank** `question_service.py`, `app/routers/admin/questions.py` | `questions`, `question_options`, `question_explanations` | create, edit, replace options, explain, retire/restore, bulk topics | overlapping edits; options deleted and inserted in one transaction | always answerable; one option set, with its key and hash; topics of the same exam; no edit takes back another's |
| **Community sources** `import_community.py` | `community_discussion_sources` | find or create, relink, update | overlapping confirms; lock order; rows that fail afterwards | a source belongs to a question whose row names its discussion |
| **Catalog** `catalog_service.py` | providers, versions, courses, exams, topics | create, update, delete; publish and soft-delete exams | check for children, then delete; slugs in flight; edits of rows deleted meanwhile | no child without its parent; slugs unambiguous; what was deleted stays deleted |
| **Rate limits** `app/security/rate_limits.py`, `app/auth/rate_limit.py` | Redis counters with a time to live | count and decide | INCR and EXPIRE are separate; crashes between them; window edges | bounded number let through, nobody locked out for good |
| **Authentication** `app/auth/`, `app/routers/auth.py` | `users`, signed cookies | register, login, logout | pre-check and unique constraint | one user per name |
| **Reports** `app/routers/reports.py`, `admin/question_reports.py` | `question_reports` | file, set status | last writer wins | status and `resolved_at` agree |
| **Audit, public pages, dashboards, upload/URL/HTML checks, set-up** | audit rows | write and read | | |

Attempts read the exam, the questions and their options, which the catalog and the
question bank write; a submit calls the scoring; a confirm creates questions and
community sources; rate limits stand in front of logins, starts, saves, uploads and
reports. `PROJECT.json` lists every part with its files and status, and under
`hazards` what can go wrong at which line.

## 2. Plan

Done, in this order: `Attempts` with `AttemptLifecycle` and `AttemptsProofs`;
`Imports`; `RateLimit`; `Scoring`; `Catalog`; `QuestionBank`; `RowValidation`, and with
it `Imports` again: mappings and rows in place of verdicts, community sources,
deadlocks; `CatalogProofs`, `AttemptsOwnerProofs` (with the refinement of
`AttemptLifecycle`), `ScoringProofs`, `QuestionBankProofs`, `ImportsProofs`,
`ImportsQuestionsProofs`, `RateLimitProofs`, `ImportLifecycle` and its refinement. Every
safety invariant, action property and refinement that a passing run checks is now a
theorem (section 6). To come: `QuestionBank` under `Attempts`, a scoring that reads between
the steps of a replacement of options. Today that replacement is one step there, which is
what other transactions see of it.

## 3. Modules

### Attempts (with AttemptLifecycle, MCAttempts, AttemptsProofs, AttemptsOwnerProofs)

One exam, its questions, users and worker threads. `pc[w]` is the next step of the
request on worker `w`, `job[w]` what its session holds: the parameters, the answer
row it has loaded (`view`), the questions it picked, the rows and verdicts of a
submit, the moment it read from the clock (`stamp`).

| Code | Actions |
|---|---|
| `start_attempt` | `StartRequest` (exam check), `FindExisting` (lookup or resume), `PickQuestions`, `InsertAttempt` (shuffle, attempt, rows, commit) |
| `save_answer` | `SaveRequest` (owner, `finished_at`), `ValidateAnswer` or `Expire`, `WriteAnswer` |
| `toggle_flag` | `FlagRequest`, `WriteFlag` |
| `show_question` | `ShowRequest`, `ViewRow`, `RenderQuestion` or `Expire` |
| `submit_attempt`, `_submit_idempotent`, `compute_attempt_score` | `SubmitRequest`, `ReadRows`, `ReadTruth`, `CommitFinish` |
| restart, lost connection | `Crash` (rollback) |
| administrators | `EditExam`, `EditStatus`, `SetOptions` |

Choices of abstraction: a request that ends in an error reply or that finds nothing
to do at its first read has no effect and is left out there. The clock is read in the
step of the SELECT next to it; a tick may fall on either side of it, and one tick
is a whole time limit, so "less than a second left", which the code rounds to
zero, is part of "time up". The label lookup of a save is one step with the read of its row.
Replacing the options of a question is one step here. Only the finishing
audit rows are counted; ATTEMPT_RESUMED rows are not. Ids are given out at commit: ids
of a sequence may have gaps, which nothing reads. `inForce` is a history variable.
The guest token of an attempt is never used by a route and is left out.

`AttemptLifecycle` is what an owner is promised: an attempt is opened over a fixed
list of distinct questions, answers change while it is open, it is closed once with
a verdict on each answer and their count as score, and a user has one open
attempt at most. `Attempts` maps to it with `phase`, `owner`, `sheet` and `score`.

### Imports, ImportLifecycle and RowValidation (with MCImports, ImportsProofs, ImportsQuestionsProofs)

`RowValidation` is the part without state: what a mapping leaves of a sheet
(`StreamRows`: cells of the columns it matches, and no rows at all if it matches none),
the split of a combined cell (`OptionsOf`), the labels an answer stands for (`Expanded`,
`Resolved`, `CorrectAnswer`), the type (`TypeOf`), the community signal (`CommunityOf`),
the content hash and the verdict (`ValidateRow`). A cell that the code splits is the
sequence of its parts, a word it looks up in a list of spellings is the word it finds; texts, URLs and ids are model values, sorted into those that are
fine and those that are refused.

`Imports` has the files, import rows, items, questions and community sources of one exam.

| Code | Actions |
|---|---|
| `create_import`, `upload` | `Upload` (file written), `CommitUpload` (spreadsheets) or on to staging |
| `save_mapping`, `parse_and_stage` | `SaveMapping` (required and known fields), `ReadHashes`, `StageItems` (rows and status, or one of `StagingFails`: `uq_import_items_row`, row limit, unknown formats) |
| `toggle_row` | `ToggleRow`, `CommitToggle` |
| `confirm_import`, `_create_question_from_item` | `Confirm`, `ReadItems`, per row `FindSource` (`_select_existing_cds`) and `ConvertItem` (insert, `upsert_community_source`, savepoint) or `FailItem`, `FlushMark`, `CommitConfirm` |
| PostgreSQL's deadlock check | `BreakDeadlock` |
| restart, lost connection | `Fail` |

Entering a savepoint and committing it flush, so a confirm holds the row locks of the
items it converted and of the sources it moved (`Holds`) until it commits, and a writer
that needs one of them waits (`Waits`). A rolled-back savepoint gives its locks up; the
failure mark is flushed with the next savepoint or the commit. In a ring of waiting
confirms PostgreSQL refuses one statement: inside a savepoint that fails the row, outside
(the flush of a mark) the request. `FindSource` and `ConvertItem` are apart because a
confirm may wait between its lookup and its UPDATE. Questions get ids at the commit; until
then a source points to the place of its row in the confirm. The id of a new source is one that
no stored and no flushed source has (`FreshSources`), as an id sequence gives it. `needs_mapping` is overwritten
before it is flushed and never reaches the table. A failed staging changes nothing.

A mapping is the canonical fields it maps to, which is what `save_mapping` checks, and the
columns among them whose headers the file has, which is what `stream_rows` reads: nothing
compares the two. A mapping that matches no column gives no rows, meets no constraint and
sets `normalized` on any import (`import_service.py:340`). Every row is taken to reach
as far as the matched columns. Where rows are shorter than that, two mappings may yield different
rows of one file, but one set holds the other, so two stagings that yield any rows share the
longest one and the second still fails.
`approved_for_student` is left out: no code sets it to true.

`ImportLifecycle` is what an administrator is promised: the rows of an import are fixed
once (a file that gave none may be staged again, and `Remap` puts the import back to its
staged phase with its rows as they are), a row is selected and deselected, and a
confirm makes one question of every row selected at that moment, in row order and in one
piece, or refuses the row for good. It knows no requests, locks, savepoints or sources.
`Imports` maps to it with the step of the wizard for the status (`Phase`), the fate of a row
for its status (`Fate`: errors, warnings, duplicates and failed rows are refused) and the
row each question was made of. It implements it while one request at a time works
on an import; two confirms of one import break it (`imports_two_confirms`).

### QuestionBank (with MCQuestionBank, QuestionBankProofs)

Questions, the option rows of each (rows inserted together are a *batch*), how many
explanations each has, topics and reports.
`menu` is the set of requests of a behaviour, chosen at the start, so that the
instance can be split into several small ones; each may be sent any number of times.

| Code | Actions |
|---|---|
| `create_question` | `CreateQuestion` (rows nobody else can see before the commit: one step) |
| `update_question` | `UpdateQuestion` (row, topic check), `Rehash` (options as they are then), `CommitEdit` |
| `set_options` | `SetOptions` (row, validation), `DeleteOptions` (what the DELETE sees), `WipeOptions` (waits for rows another DELETE holds, skips those that are gone), `CommitOptions` |
| `set_overall_explanation` | `SetOverallExplanation`, `CommitExplanation` |
| `retire`, `restore` | `Retire`, `CommitRetire`; `Restore`, `CommitRestore` |
| `assign_topic_bulk` | `AssignTopicBulk`, `CommitBulk` |
| `soft_delete_topic` | `DeleteTopic` (foreign key of the questions) |
| `file_report`, `mark_resolved`, `mark_rejected` | `FileReport`; `SetReportStatus`, `CommitReport` |
| restart, lost connection | `Fail` |

A commit writes the columns that differ from the loaded row (`Written`), so two edits
merge column by column. The hash is what is hashed. `contested` is a history variable: the
parts of questions that overlapping edits have saved, until options are saved alone.
Difficulty is left out.

### Catalog (with MCCatalog, CatalogProofs)

Providers with product versions and courses, courses with exams, exams with topics.
Creating is `Insert` (the flush) and `CommitCreate`; editing is `Load`, `FlushUpdate`,
`CommitUpdate`; publishing, soft-deleting and deleting are `Load` and one commit step,
since these are flushed by the commit. What PostgreSQL does in between is in the guards:
an insert waits for an equal key that is in flight (`KeyInFlight`) and for an update of
its parent's key (`KeyLocked`), an update or DELETE for the row (`RowLocked`) and, where
the key changes or goes, for children in flight (`ChildInFlight`); the foreign keys
refuse a DELETE while there is a child, and the unique keys a second slug. An id is given
out once (`issued`). A request that changes nothing (404, 400) is left
out, and so are texts other than slugs.

### RateLimit (with MCRateLimit, RateLimitProofs)

A request is counted on a chain of keys: one for a route, address then identifier for
a login. `Incr` is the INCR and TTL transaction, `Expire` the later EXPIRE, `Fail` a
Redis error or a restart between them. Time is relative (a remaining time to live, an
age per hit within the limit), so `Tick` needs no bound; counts above the limit are one
value, since the code only compares them with the limit. `hits` is a history variable: a set
in which a hit is its age and its place among those of its second.

### Scoring (with MCScoring, ScoringProofs)

The answer rows come one at a time; every figure is a function of the tallies. Pass marks and
percentages are in hundredths, as the column has two decimals. A percentage is rounded
half to even: with fewer than 4000 rows the floating-point `round` of the code gives
that, as every tie is then an exact binary fraction and every other value is further
from a tie than the error of the division. `list.sort` is a stable sort. An attempt is finite, so this is the one
run without deadlock check.

## 4. Runs

| Run | Instance | Shows |
|---|---|---|
| `attempts_concurrent` | 2 users, 2 workers, 1 question with 2 option sets (the key moves, an option disappears), 1 attempt, 3 selections, 1 tick | `FinishedTogether`, `SelectionsWereOffered`, `SnapshotFrozen`, `OwnersOnly` for any overlap of two requests |
| `attempts_serial` | 2 users, 2 workers, 2 attempts, `SerialUsers` | `OneInProgress`, `ScoreStandsUp`, `FinishOnce`, `ImplementsLifecycle` |
| `attempts_timer` | 1 user, 1 worker, 2 questions, limits 0 and 1, a crash, fairness | `TimeUpFinishes` |
| `attempts_two_starts` | as serial, users do not wait | **violated**: `OneInProgress` |
| `attempts_late_save` | as concurrent | **violated**: `AnswersFinal` |
| `imports_overlapping` | 1 import, 2 workers, 14 files of no to three rows, 5 mappings, an empty exam or one with a question, 2 failures | `FileKept`, `StagedApart`, `NoHalfConfirm`, `LinksBack`, `ImportedAnswerable`, `NeverRestaged` |
| `imports_serial` | 2 imports, one request at a time on each, 2 files naming two discussions in opposite orders, both discussions known before, 1 failure, fairness | `OneQuestionPerRow`, `ImportedHaveQuestions`, `SourcesLinked`, `ImplementsImportLifecycle`, `RequestsAnswered` |
| `imports_two_confirms` | 1 import, 2 overlapping confirms | **violated**: `OneQuestionPerRow` |
| `question_bank` | 2 workers, 5 menus of up to 10 requests on 1 or 2 questions, 2 exams, 2 topics, 1 report | `AlwaysAnswerable`, `SettledQuestions`, `TopicsFit`, `OnlyAsAsked` |
| `catalog` | 2 workers, 5 starting catalogs, 2 ids per table (1 product version), 2 slugs | `NoOrphans`, `SlugsApart`, `DeletedStays` |
| `rate_limit` | address (2 per 2 s) and identifier (1 per 3 s), 2 workers, 1 failure, fairness | `TwiceTheLimit`, `LockoutEnds` |
| `scoring` | 4 topics of up to 4 rows, every whole pass mark and 23 others | `PassedExactly`, `BreakdownAddsUp`, `WeakestFirst`, `RecommendsWeakest` |

**Bounds.** Two requests are what the hazards need: one that has read and one that
commits in between. One question suffices where the property speaks of single
rows; the timer run has two, so that a session that keeps a loaded row differs from
one that reads afresh, and so that the order of a sheet can vary. Two option
sets make both a moved key and a vanished label possible. Two attempts are what
a duplicate start or a new attempt after a finished one takes. `MaxAttempts`,
`MaxClock`, `MaxCrashes`, `MaxQuestions`, `MaxFailures` and `MaxPerTopic` are
the only bounds; each is a guard named in its module. `MaxFailures` = 2 lets a row fail
and the request be cut off, or both confirms lose a row. Four topics give
two recommended ones, one left out and one that is too small.

The 14 files of `imports_overlapping` hold each kind of row that `ValidateRow` tells
apart: options in cells of their own, in a combined cell and with gaps; answers as
letters, runs, numbers and text; every error and every warning; equal contents in
different forms; a row too many, no rows at all, a file no parser claims. The mappings match
every column; the texts, the answers and two options; or no column of the file; or they are
refused because they leave out the answer or name a field that cannot be mapped. A mapping of
which the file has some headers gives what the mapping of those alone would.
In `imports_serial` two files name the same two discussions in opposite orders, which is the
shortest way for two confirms to wait in a ring; sources that are there already are what
they lock. `MaxQuestions` leaves room for every row once and for
repeated confirms; it bounds the sources as well (a guard of `ConvertItem`).

`question_bank` chooses one menu per behaviour: texts and options of a question; its
type with options that fit and that do not; topics, bulk assignments and deletions of
topics; retirement against edits of the status; explanations and reports. Requests of
different menus write different columns, or are in a menu together. `catalog` starts from
five catalogs, each with one or two rows to come at one level: two rows are what a
slug, or a parent and its child, need. Ids are given out once, which bounds both runs
without a counter. Neither assumes fairness: their properties are about safety.

**`SerialUsers` and `SerialImports`.** Overlapping requests of one user break four of
the promises above; the code keeps them for a user, or an import, with one request at
a time. The constants make that assumption explicit; other users and administrators stay free.

**Fairness.** `WF(Serve(w))`: a request that can go on does, as threads are scheduled
and PostgreSQL queues those who wait for a row lock. `SF` on showing a question in
`Attempts` is an assumption on the *owner*, who keeps the page open: nothing in the
code finishes an expired attempt by itself, and the property says so. In `RateLimit`,
time passes, and clients keep trying (`SF`), the worst case for a lock-out. No fairness on crashes,
edits or failures.

## 5. What the runs found

* Two overlapping starts create two attempts in progress (`attempts_two_starts`).
  The docs promise a resume (`docs/project-changelog.md:484`). The lookup at
  `attempt_service.py:185` and the insert need a unique index or a lock.
* A save that passed its check before a submit commits after it
  (`attempts_late_save`): the stored selection is no longer the one that was scored.
* Two overlapping confirms import each row twice (`imports_two_confirms`):
  `confirm_import` selects the rows without locking them.

Seen while modelling, without a run: overlapping submits rewrite `finished_at` and add a second
audit row; the limiters are fixed windows although their
docstrings say sliding, so up to twice the limit passes within a window's length, which is
what `TwiceTheLimit` bounds; a repeated confirm turns `partially_verified` into
`ready_to_publish`; a row toggled during a confirm can end as skipped with a question;
two imports staged before either is confirmed bring in equal questions; posting the mapping of a
staged import again fails with an integrity error (500), unless its headers match no column
of the file: then it puts the import back to `normalized`, a confirmed one too, although
`docs/system-architecture.md:624` draws the status as going forward only. Its rows, links
and questions stay, which is what `NeverRestaged` and `NoHalfConfirm` say, and confirming again
imports nothing twice. The percentage that is compared with the pass mark is rounded: 2 of 3
rows pass at 66.67, and with 203 rows 136 pass at 67.

The audit log is listed by `created_at` (`routers/admin/audit.py:92`), which is the time the
transaction began (`models/audit.py:45-47`). Of two overlapping publications, retirements or
report decisions the newest row may therefore be the one that was overwritten: the newest
row need not agree with the table. Nothing in the code reads it as if it did, so the catalog
and the question bank are modelled without audit rows.

In the question bank: overlapping replacements of options leave the union of both sets,
though `question_service.py:8` speaks of a replacement, until options are saved again;
an edit of the type does not look at the options; `create_question` does not check that
the topic belongs to the exam, as an edit does; an edit may set the status `retired`
without `retired_at`; a multiple-choice key may list one label twice; imported hashes
keep line breaks that `_normalize_for_hash` collapses, so the two recipes, said to be the
same, differ on such texts.

In the catalog: a course whose exams are all soft-deleted still has their rows, so the
foreign key refuses what `catalog_service.py:352` offers ("soft-delete those first");
deleting a provider looks for courses but not for product versions (integrity error).

In the imports: single-choice rows with two correct labels and rows with gaps in their
labels are imported, which the question form refuses; an answer given twice is an error
as a number or text and none as a letter; external ids that a spreadsheet gives as
numbers are dropped without a warning (`import_community.py:113`); the second lookup of
`_select_existing_cds` is by a question that is new and finds nothing; two overlapping
confirms can insert two sources for one discussion, and a source looked up before the
other confirm commits can lose its update; the flush of a failed row's mark is outside
the `try`, so a deadlock there fails the whole confirm.

## 6. Proofs

Every theorem holds for all values of the constants: any users, workers, ids, files and
menus, any bounds. Each named assumption on them is evaluated by TLC in every run of the
module. In all of them, `None` is no value of another kind. `PROJECT.json` lists the
theorems; the numbers of steps are not worth repeating here, the arguments are.

### Attempts

Assumed: option sets and selections are made of labels, limits and bounds are numbers,
the questions are finite.

`AttemptsProofs`, however requests overlap:

* `TypeCorrect` (`TypeOK`) is not inductive alone: a commit writes rows by positions it
  remembers. `JobsPlaced` says that a request that holds an attempt holds a started one,
  that the position it loaded exists, and that the rows and verdicts of a submit are as
  many as the rows of the attempt.
* `FrozenSnapshot` (`SnapshotFrozen`), from the same invariant.
* `FinishedAndScoredTogether` (`FinishedTogether`) needs `JobsLoaded`: a verdict that a
  session has loaded is still there in the table (perhaps another one, but not NULL). A
  commit writes only the verdicts that differ from the loaded ones, so without that it could
  leave a row of a finished attempt without a verdict.

`AttemptsOwnerProofs`, however requests overlap:

* `OnlyOwnersChange` (`OwnersOnly`): the user who was checked when a request began still owns
  the attempt (`OwnedJobs`), as the owner is part of the frozen snapshot.
* `SavedWasOffered` (`SelectionsWereOffered`): what a save has validated was in force at some
  time (`OffersInForce`), and the history of option sets only grows.

and with `SerialUsers` as hypothesis, which the runs without it refute:

* `NeverTwoInProgress` (`OneInProgress`), `FinishedIsFinal` (`FinishOnce`), `RecountAgrees`
  (`ScoreStandsUp`), `PromisesKept` (`ImplementsLifecycle`). The hypothesis gives `Alone`, one
  request per user under way; from it `Undisturbed` follows: what a request has read of its
  attempt is still so, a start that found nothing is still right, and the verdicts
  of a submit are those of the stored selections against options that were in force.
  The refinement has one lemma per visible commit (`InsertOpens`, `SaveAnswers`,
  `CommitCloses`); everything else shows nothing (`ShowsNothing`).

### Catalog

Assumed: the tables share no ids; the starting catalogs hold rows of the right kinds with
their parents, with no key twice, and their free ids are in no table.

* `TypeCorrect` (`TypeOK`) and `NeverOrphaned` (`NoOrphans`). The latter is not inductive, as a
  commit writes what was flushed earlier without looking again. `Carries` says what a request
  relies on: the parent of a row to come is there, the row to update is there, exams
  are not deleted. A DELETE is the one step that can take something away from others
  (`Deleting`): the foreign keys exclude stored children, the lock of a child in flight
  (`ChildInFlight`) those to come, and the lock of the row (`RowLocked`) its updates. The
  check for children in the service is not used: the constraints alone carry the theorem.
* `DeletionIsFinal` (`DeletedStays`): a commit writes the columns of its request only, so one
  that was decided on before a soft deletion leaves the deletion alone, and an id that is about
  to be inserted has never been issued (`Heralded`), so a deleted row does not come back.
* `SlugsUnique` (`SlugsApart`): a key that a flushed insert or update is about to enter is in no
  stored row and claimed by no other request (`Claimed`), by the wait for keys in flight.

### Question bank

Assumed: finitely many workers; the menus hold requests of the forms the routes accept
(`Requests`); every topic has an exam; options and keys are made of the six label numbers.

All of it rests on `Base`: the state is typed, and what a request has looked up is still
there, of the same exam, although others write the row meanwhile (`JobFits`).

* `TypeCorrect` (`TypeOK`).
* `QuestionsAnswerable` (`AlwaysAnswerable`): the DELETE and the INSERT of a replacement are
  one commit, and what is inserted has been validated; options nobody saw stay.
* `MovesStayInExam` (`TopicsFit`): the exam of a question never changes, so a topic checked
  early still fits; that it is still *there* is the foreign key's doing.
* `EditsKeepToThemselves` (`OnlyAsAsked`): a commit writes a column only where the new value
  differs from the one the session had loaded, and the handlers set only columns the request is
  about (`Asked`). So it takes back nothing that was committed since in other columns.
* `QuestionsSettle` (`SettledQuestions`) needs more: two requests that touch the same part of
  a question know it (`KeepsApart`), and what one that is still alone has read is still
  true (`StillTrue`): its batch is the only one, its text is the stored one.

### Imports

Assumed: files are sequences of rows over the canonical fields, of a known family; the
starting questions come from no import, and their sources belong to one of them.
`StreamRows` and the rows to import are written with `InOrder` (the k-th smallest number)
and not with `SelectSeq`, whose recursive definition the provers cannot unfold.

`ImportsProofs` has the invariant `Base`: an import has its file and its rows before its
status says so, and only rows that passed validation can be selected (`TablesFit`); what a
request has read of its import is still so as far as it relies on it (`Fits`); an upload has
its import to itself (`UploadsAlone`). That others do not disturb a request follows from
`Grows`, which every step satisfies. It gives `TypeCorrect` (`TypeOK`), `FilesKept` (`FileKept`)
and `StagedOnce` (`NeverRestaged`): rows are added to an import without any, by one staging, for
every mapping, including such as match no column and leave the rows alone.

`ImportsQuestionsProofs` adds, however requests overlap:

* `Agree`: each question made of a row has a row with a link (`QuestionsLinked`), each link
  names a question of the row (`ItemsLinked`), and rows that can be selected differ
  (`ItemsApart`). The status of the import is no part of it, as another mapping can put it
  back at any time. It gives `RowsApart` (`StagedApart`),
  `ConfirmedTogether` (`NoHalfConfirm`), `ItemsLinkBack` (`LinksBack`) and `AnswerableImported`
  (`ImportedAnswerable`). The last rests on `OkAnswerable`: a row whose verdict is `ok` offers
  two options, and its answer is among them, whichever of the three forms it has.
* `Linking`, which gives `SourcesNamed` (`SourcesLinked`): what a confirm has found or written is
  a source of the discussion of its rows (`LinksFit`), through retries, rolled-back rows and
  other commits, and no two confirms make the same new source (`Claims`). Two confirms
  may both have written an older source; the argument needs no lock, as either result
  names the discussion.

and with `SerialImports` as hypothesis, which `imports_two_confirms` shows to be needed:

* `OnceImported` (`OneQuestionPerRow`) and `ImportedMeansQuestion` (`ImportedHaveQuestions`).
  What a request has read of its rows is still so (`Sure`), and a row is imported exactly
  when it has its question (`Once`). From the same invariant `SelectedOnly`: new questions come
  from selected rows, which the next theorem strengthens.
* `WizardKeepsPromises` (`ImplementsImportLifecycle`). For a confirm to be the confirm of
  `ImportLifecycle` what it has read must also be all there is: every selected row is
  among those it has to convert, has converted or has marked as failed, and both lists
  ascend, the second after the first (`Whole`; an import put back to `normalized` meanwhile makes
  no difference to that); an import that was not staged has no rows
  (`Ready`). Together these are `Complete`, kept by every step. At the commit nothing is left to
  convert, so each selected row is converted or failed (`ConfirmedFates`), and a converted row
  has the place in the ascending list that it has among the converted rows (`Places`), which is
  where its question is in the exam (`ConfirmAdds`). The three other commits are
  steps of `ImportLifecycle` or, like every step inside a transaction, stutter; a staging
  that yields no rows on an import with rows is a `Remap`. The run checks this on text
  files, which are staged with the upload; the theorem covers spreadsheets and mappings
  posted again, too, and `imports_overlapping` has TLC meet those.

### Scoring

* `TypeCorrect` (`TypeOK`), from `Counts`: a topic is listed once and only with rows.
* `RoundingIsFair` (`PassedExactly`), for every set of pass marks of two decimals and any
  number of rows: rounding respects a mark, as the mark is a whole number of hundredths itself, so
  who reaches it passes, and who passes is at most half a hundredth short of it. That margin is
  real (2 of 3 at 66.67). At marks of whole percents it is not, with fewer than 200 rows: a share
  below such a mark is below it by more than half a hundredth. 136 of 203 rows show that
  some bound is needed.
* `WeakestComeFirst`: `WeakestFirst` holds while every topic has fewer than 100 rows. The
  comparison of the sort is a strict total order of the places (`BeforeIsOrder`), so each
  place of the breakdown is taken once (`Places`); rounding respects the order of exact shares
  (`RoundedOrder`), since equal ones have the same quotient and remainder (`SameShare`) and
  different ones are more than a hundredth of a percent apart. 43 of 108 and 41 of 103
  both round to 39.81 and come in the wrong order, so here too some bound is needed.
* `BreakdownComplete` (`BreakdownAddsUp`). A sum over the topics would need an induction over
  them. Instead the invariant `Accounts` says that there is an additive measure of the sets of
  topics that agrees with the tallies and gives the score on every set that holds all
  topics with rows (`Measure`): at first it is zero, and each row adds one to the sets with
  its topic (`MeasureStep`). That the sum over the places of the breakdown is that measure
  (`ListedSum`, `SumIsMeasure`) is an argument by the least place up to which they differ
  (`Least`, from the well-foundedness of the numbers).
* `RecommendsExactly`: `RecommendsWeakest` holds while the rows of the attempt times those of a
  topic stay below 1000. Two rounded percentages are then ten points apart exactly when the
  exact shares are (`TenPoints`): the two roundings together are off by less than the smallest
  distance from ten points that the shares can have, and shares exactly ten points apart
  round alike (`TenthLess`). The weak topics keep the order of the breakdown (`Ascending`,
  `WeakOnesInOrder`), which the second, stable sort leaves as it is (`SortingKeeps`). A topic
  7 of 23 in an attempt 19 of 47 (product 1081, the smallest such case) is recommended
  although it is less than ten points below, so a bound is needed.

`Filtered` stands for the loop that keeps the weak topics; like `InOrder` it avoids
`SelectSeq`, and `WiderGap` is named because the provers take no LAMBDA as an argument.

### Rate limits

Assumed: limits and windows are positive, a request is counted on one key at least.

* `TypeCorrect` (`TypeOK`) and `AtMostTwice` (`TwiceTheLimit`), by one invariant. A counter
  that expires and is made again begins a new generation; `Generations` says that the hits
  younger than a window belong to two generations at most, each within the limit. A key
  with a known time to live has lived for the rest of the window, or for longer when its
  EXPIRE came late, so the hits of the generation before are at least that old and leave the
  window when the key expires. A key that never got its EXPIRE keeps its generation.

### Model-checked only

Liveness (`TimeUpFinishes`, `RequestsAnswered`, `LockoutEnds`) is out of the prover's reach.

## 7. Not modelled

File formats, header matching and text normalisation, upload, URL and HTML checks
(functions of text and bytes); authentication cookies and CSRF tokens (stateless
signatures; the users table is guarded by its unique constraints alone); public pages,
dashboards, result pages and the admin pages that only read, the one on community sources
included; the audit log beyond the finishing rows of attempts (written with each change,
read by one page, see section 5); Redis and PostgreSQL themselves beyond the locks and constraints the
modules state; tables no code writes yet (evidence, glossary, verification runs).
