---------------------------- MODULE QuestionBank ----------------------------
(***************************************************************************)
(* Administrators edit the questions of an exam, and students report them: *)
(* app/services/question_service.py, app/routers/admin/questions.py,       *)
(* app/routers/reports.py and app/routers/admin/question_reports.py.       *)
(*                                                                         *)
(* A request is a transaction at READ COMMITTED: it loads the question,    *)
(* decides, and writes at its commit the columns it has changed.  Saving   *)
(* options deletes the old rows before that: who deletes the same rows     *)
(* meanwhile waits, and then goes on with what its own DELETE saw.         *)
(* Refused requests change nothing and are not actions.  Audit rows,       *)
(* which only the page of the log reads, are left out.                     *)
(*                                                                         *)
(* The rows a request inserts for one option set stay together, and are    *)
(* one batch here.  A content hash is what is hashed: the question's text  *)
(* and how often each set of option texts occurs.                          *)
(***************************************************************************)
EXTENDS Naturals, Sequences, FiniteSets

CONSTANTS
  Workers,   \* request threads
  Questions, \* ids the questions sequence gives out
  Exams,
  Topics,    \* ids of topics
  TopicExam, \* the exam of each topic
  Texts,     \* question texts
  OptionSets,\* option forms as submitted: texts, labels, correct labels as listed
  Reports,   \* ids the question_reports sequence gives out
  Menus,     \* what is asked for in a behaviour: sets of requests
  None       \* SQL NULL, no row, or a form field left blank

ASSUME WorkersAssumption == IsFiniteSet(Workers)
ASSUME TopicsAssumption == TopicExam \in [Topics -> Exams]
ASSUME OptionSetsAssumption ==
  \A f \in OptionSets : f.labels \subseteq 1..6 /\ f.correct \in Seq(1..6)

VARIABLES
  bank,         \* table questions: per id its row, or None
  options,      \* table question_options: the batches of each question
  explanations, \* table question_explanations: how many rows a question has
  topics,       \* table topics: the ids that are there
  reports,      \* table question_reports: per id its row, or None
  menu,         \* the requests of this behaviour
  pc,           \* per worker: the next step of its request
  job,          \* per worker: the request, and what its session read or wrote
  contested     \* history: parts of questions that overlapping edits have saved

content == <<bank, options, explanations>>
vars == <<content, topics, reports, menu, pc, job, contested>>

-----------------------------------------------------------------------------

Types == {"single", "multiple", "true_false"}
Statuses == {"imported", "needs_review", "verified_high", "verified_medium",
             "verified_low", "published", "retired", "flagged"}
ReportStatuses == {"open", "resolved", "rejected"}

\* What the routes accept once their forms are parsed; a blank field is None.
Requests ==
  [op : {"create"}, question : Questions, exam : Exams, topic : Topics \cup {None},
   text : Texts, type : Types, form : OptionSets, explained : BOOLEAN]
  \cup [op : {"edit"}, question : Questions, text : Texts \cup {None},
        type : Types \cup {None}, topic : Topics \cup {"clear", None},
        status : Statuses \cup {None}]
  \cup [op : {"options"}, question : Questions, form : OptionSets]
  \cup [op : {"explanation", "retire", "restore"}, question : Questions]
  \cup [op : {"bulk"}, questions : SUBSET Questions, topic : Topics \cup {None}]
  \cup [op : {"delete topic"}, topic : Topics]
  \cup [op : {"report"}, question : Questions, report : Reports]
  \cup [op : {"close"}, report : Reports, status : ReportStatuses \ {"open"}]

OptionTexts == {f.texts : f \in OptionSets}
Hash == [text : Texts, options : [OptionTexts -> Nat]]

Question == [exam : Exams, topic : Topics \cup {None}, text : Texts, type : Types,
             status : Statuses, retired : BOOLEAN, key : Seq(1..6), hash : Hash]
Batch == [id : Nat, form : OptionSets]
Report == [question : Questions, status : ReportStatuses, resolved : BOOLEAN]

ASSUME MenusAssumption == \A requests \in Menus : requests \subseteq Requests
ASSUME NoneAssumption ==
  None \notin Requests \cup Question \cup Report \cup Hash \cup {"clear"}

\* loaded: the row as read; seen, wiped: batches the DELETE saw and deleted;
\* alone: no other request edited the same part of the question meanwhile.
NoJob == [request |-> None, loaded |-> None, hash |-> None,
          seen |-> {}, wiped |-> {}, alone |-> TRUE]

Steps == {"idle", "read options", "commit edit", "delete options", "wait",
          "commit options", "insert explanation", "update explanation",
          "commit retire", "commit restore", "commit bulk", "commit report"}

TypeOK ==
  /\ bank \in [Questions -> Question \cup {None}]
  /\ \A q \in Questions : options[q] \subseteq Batch
  /\ explanations \in [Questions -> Nat]
  /\ topics \subseteq Topics
  /\ reports \in [Reports -> Report \cup {None}]
  /\ menu \in Menus
  /\ pc \in [Workers -> Steps]
  /\ \A w \in Workers :
       /\ job[w].request = None <=> pc[w] = "idle"
       /\ job[w].loaded \in Question \cup Report \cup {None}
       /\ job[w].hash \in Hash \cup {None}
       /\ job[w].seen \subseteq Batch /\ job[w].wiped \subseteq job[w].seen
       /\ job[w].alone \in BOOLEAN
  /\ contested \subseteq Questions \X {"content", "explanation"}

Init ==
  /\ bank = [q \in Questions |-> None]
  /\ options = [q \in Questions |-> {}]
  /\ explanations = [q \in Questions |-> 0]
  /\ topics = Topics
  /\ reports = [r \in Reports |-> None]
  /\ menu \in Menus
  /\ pc = [w \in Workers |-> "idle"]
  /\ job = [w \in Workers |-> NoJob]
  /\ contested = {}

-----------------------------------------------------------------------------

\* What a request may spoil for another that overlaps it.
Parts(r) ==
  CASE r = None -> {}
    [] r.op = "options" \/ (r.op = "edit" /\ r.text # None) -> {<<r.question, "content">>}
    [] r.op = "explanation" -> {<<r.question, "explanation">>}
    [] OTHER -> {}

Rivals(w, r) == {v \in Workers \ {w} : Parts(job[v].request) \cap Parts(r) # {}}

Begins(w, r, step, loaded) ==
  /\ pc' = [pc EXCEPT ![w] = step]
  /\ job' = [v \in Workers |->
       IF v = w THEN [NoJob EXCEPT !.request = r, !.loaded = loaded,
                                   !.alone = Rivals(w, r) = {}]
       ELSE IF v \in Rivals(w, r) THEN [job[v] EXCEPT !.alone = FALSE]
       ELSE job[v]]
  /\ UNCHANGED <<content, topics, reports, menu, contested>>

GoesOn(w, step, j) ==
  /\ pc' = [pc EXCEPT ![w] = step]
  /\ job' = [job EXCEPT ![w] = j]

Replies(w) == GoesOn(w, "idle", NoJob)

\* An overlapped edit leaves its part contested; options saved alone replace
\* whatever was there.
Contest(w) ==
  LET parts == Parts(job[w].request)
  IN contested' = IF ~job[w].alone THEN contested \cup parts
                  ELSE IF job[w].request.op = "options" THEN contested \ parts
                  ELSE contested

\* What the ORM makes of column = new when the session has loaded `loaded'.
Written(new, loaded, current) == IF new = loaded THEN current ELSE new

Given(field, loaded) == IF field = None THEN loaded ELSE field

\* The canonical recipe: the text and the texts of the options, sorted.
HashOf(text, batches) ==
  [text |-> text,
   options |-> [t \in OptionTexts |-> Cardinality({b \in batches : b.form.texts = t})]]

Correct(f) == {f.correct[k] : k \in DOMAIN f.correct}

\* Two to five options (the form's limit) with labels in a row, and a key that
\* suits the type of the question; a label listed twice counts twice.
Valid(f, type) ==
  /\ Cardinality(f.labels) \in 2..5
  /\ f.labels = 1..Cardinality(f.labels)
  /\ f.correct # << >> /\ Correct(f) \subseteq f.labels
  /\ type = "single" => Len(f.correct) = 1
  /\ type = "multiple" => Len(f.correct) >= 2

\* An id no batch has that is there or that a request has seen.
FreshId(q) ==
  LET used == options[q] \cup UNION {job[w].seen : w \in Workers}
  IN CHOOSE i \in 0..Cardinality(used) : \A b \in used : b.id # i

-----------------------------------------------------------------------------
(* POST /admin/questions: nobody sees the rows before the commit            *)

\* That the topic belongs to the exam is not checked; its foreign key is.
CreateQuestion(w, r) ==
  LET q == r.question
      batch == [id |-> 0, form |-> r.form]
  IN /\ r.op = "create" /\ bank[q] = None
     /\ Valid(r.form, r.type)
     /\ r.topic \in topics \cup {None}
     /\ bank' = [bank EXCEPT ![q] =
          [exam |-> r.exam, topic |-> r.topic, text |-> r.text, type |-> r.type,
           status |-> "verified_low", retired |-> FALSE,
           key |-> r.form.correct, hash |-> HashOf(r.text, {batch})]]
     /\ options' = [options EXCEPT ![q] = {batch}]
     /\ explanations' = [explanations EXCEPT ![q] = IF r.explained THEN 1 ELSE 0]
     /\ UNCHANGED <<topics, reports, menu, pc, job, contested>>

-----------------------------------------------------------------------------
(* POST /admin/questions/{id}/edit                                          *)

TopicFits(t, exam) == t \in topics /\ TopicExam[t] = exam

\* The options are not validated again for a new type.
UpdateQuestion(w, r) ==
  LET row == bank[r.question]
  IN /\ r.op = "edit" /\ row # None
     /\ r.topic \in Topics \ {row.topic} => TopicFits(r.topic, row.exam)
     /\ Begins(w, r, IF r.text = None THEN "commit edit" ELSE "read options", row)

\* Mutant of Rehash: the hash is left as it was.
RehashNot(w) ==
  /\ pc[w] = "read options"
  /\ GoesOn(w, "commit edit", [job[w] EXCEPT !.hash = job[w].loaded.hash])
  /\ UNCHANGED <<content, topics, reports, menu, contested>>

\* A text edit hashes the options that are there now.
Rehash(w) ==
  LET r == job[w].request
  IN /\ pc[w] = "read options"
     /\ GoesOn(w, "commit edit",
               [job[w] EXCEPT !.hash = HashOf(r.text, options[r.question])])
     /\ UNCHANGED <<content, topics, reports, menu, contested>>

\* Mutant of NewTopic: 0 is stored.
NewTopicRaw(r, loaded) == Given(r.topic, loaded.topic)

\* 0 in the form clears the topic.
NewTopic(r, loaded) == IF r.topic = "clear" THEN None ELSE Given(r.topic, loaded.topic)

\* Mutant of CommitEdit: the row is written back as it was loaded and edited.
CommitEditWhole(w) ==
  LET r == job[w].request
      old == job[w].loaded
      new == [old EXCEPT !.text = Given(r.text, @), !.type = Given(r.type, @),
                         !.status = Given(r.status, @), !.topic = NewTopic(r, old),
                         !.hash = Given(job[w].hash, @)]
  IN /\ pc[w] = "commit edit"
     /\ IF new.topic \in Topics \ topics
        THEN UNCHANGED <<bank, contested>>
        ELSE bank' = [bank EXCEPT ![r.question] = new] /\ Contest(w)
     /\ Replies(w)
     /\ UNCHANGED <<options, explanations, topics, reports, menu>>

\* Only columns that differ from the loaded row are written; a topic deleted
\* meanwhile is refused by its foreign key.
CommitEdit(w) ==
  LET r == job[w].request
      q == r.question
      old == job[w].loaded
      new == [bank[q] EXCEPT
                !.text = Written(Given(r.text, old.text), old.text, @),
                !.type = Written(Given(r.type, old.type), old.type, @),
                !.status = Written(Given(r.status, old.status), old.status, @),
                !.topic = Written(NewTopic(r, old), old.topic, @),
                !.hash = Written(Given(job[w].hash, old.hash), old.hash, @)]
  IN /\ pc[w] = "commit edit"
     /\ IF new.topic \in Topics \ topics
        THEN UNCHANGED <<bank, contested>>
        ELSE bank' = [bank EXCEPT ![q] = new] /\ Contest(w)
     /\ Replies(w)
     /\ UNCHANGED <<options, explanations, topics, reports, menu>>

-----------------------------------------------------------------------------
(* POST /admin/questions/{id}/options                                       *)

\* The form is validated for the type that was read.
SetOptions(w, r) ==
  LET row == bank[r.question]
  IN /\ r.op = "options" /\ row # None
     /\ Valid(r.form, row.type)
     /\ Begins(w, r, "delete options", row)

\* The DELETE sees the batches committed by now.
DeleteOptions(w) ==
  /\ pc[w] = "delete options"
  /\ GoesOn(w, "wait", [job[w] EXCEPT !.seen = options[job[w].request.question]])
  /\ UNCHANGED <<content, topics, reports, menu, contested>>

\* Mutant of WipeOptions: the deletion is committed before the insertion.
WipeAndCommit(w) ==
  LET q == job[w].request.question
  IN /\ pc[w] = "wait"
     /\ options' = [options EXCEPT ![q] = @ \ job[w].seen]
     /\ GoesOn(w, "commit options", [job[w] EXCEPT !.wiped = job[w].seen])
     /\ UNCHANGED <<bank, explanations, topics, reports, menu, contested>>

\* Batches that another request has deleted are waited for, and skipped once
\* they are gone; what that request inserted is not seen.
WipeOptions(w) ==
  LET j == job[w]
  IN /\ pc[w] = "wait"
     /\ \A v \in Workers \ {w} :
          job[v].request # None /\ job[v].wiped # {}
            /\ job[v].request.question = j.request.question
          => job[v].wiped \cap j.seen = {}
     /\ GoesOn(w, "commit options",
               [j EXCEPT !.wiped = j.seen \cap options[j.request.question]])
     /\ UNCHANGED <<content, topics, reports, menu, contested>>

CommitOptions(w) ==
  LET j == job[w]
      q == j.request.question
      batch == [id |-> FreshId(q), form |-> j.request.form]
  IN /\ pc[w] = "commit options"
     /\ options' = [options EXCEPT ![q] = (@ \ j.wiped) \cup {batch}]
     /\ bank' = [bank EXCEPT
          ![q].key = Written(batch.form.correct, j.loaded.key, @),
          ![q].hash = Written(HashOf(j.loaded.text, {batch}), j.loaded.hash, @)]
     /\ Contest(w)
     /\ Replies(w)
     /\ UNCHANGED <<explanations, topics, reports, menu>>

-----------------------------------------------------------------------------
(* POST .../explanation, .../retire, .../restore                            *)

\* An explanation row is looked for; no constraint keeps it the only one.
SetOverallExplanation(w, r) ==
  /\ r.op = "explanation" /\ bank[r.question] # None
  /\ Begins(w, r, IF explanations[r.question] = 0 THEN "insert explanation"
                                                  ELSE "update explanation",
            bank[r.question])

CommitExplanation(w) ==
  LET q == job[w].request.question
  IN /\ pc[w] \in {"insert explanation", "update explanation"}
     /\ explanations' = [explanations EXCEPT
                           ![q] = IF pc[w] = "insert explanation" THEN @ + 1 ELSE @]
     /\ Contest(w)
     /\ Replies(w)
     /\ UNCHANGED <<bank, options, topics, reports, menu>>

\* A question that is retired already is left as it is.
Retire(w, r) ==
  /\ r.op = "retire" /\ bank[r.question] # None /\ ~bank[r.question].retired
  /\ Begins(w, r, "commit retire", bank[r.question])

CommitRetire(w) ==
  LET q == job[w].request.question
  IN /\ pc[w] = "commit retire"
     /\ bank' = [bank EXCEPT
          ![q].retired = TRUE,
          ![q].status = Written("retired", job[w].loaded.status, @)]
     /\ Replies(w)
     /\ UNCHANGED <<options, explanations, topics, reports, menu, contested>>

\* Whether a question is retired is retired_at, whatever its status says.
Restore(w, r) ==
  /\ r.op = "restore" /\ bank[r.question] # None /\ bank[r.question].retired
  /\ Begins(w, r, "commit restore", bank[r.question])

CommitRestore(w) ==
  LET q == job[w].request.question
  IN /\ pc[w] = "commit restore"
     /\ bank' = [bank EXCEPT
          ![q].retired = FALSE,
          ![q].status = Written("verified_low", job[w].loaded.status, @)]
     /\ Replies(w)
     /\ UNCHANGED <<options, explanations, topics, reports, menu, contested>>

-----------------------------------------------------------------------------
(* POST /admin/questions/bulk-topic, and the deletion of topics             *)

\* Mutant of BulkFits: one of the questions is compared.
BulkFitsOne(t, qs) == t \in topics /\ \E q \in qs : TopicExam[t] = bank[q].exam

BulkFits(t, qs) == \A q \in qs : TopicFits(t, bank[q].exam)

\* The questions that are there; a topic of another exam, for any of them,
\* refuses the request.
AssignTopicBulk(w, r) ==
  LET qs == {q \in r.questions : bank[q] # None}
  IN /\ r.op = "bulk" /\ qs # {}
     /\ r.topic \in Topics => BulkFits(r.topic, qs)
     /\ Begins(w, [r EXCEPT !.questions = qs], "commit bulk", None)

CommitBulk(w) ==
  LET r == job[w].request
      t == IF r.topic \in Topics THEN r.topic ELSE None
  IN /\ pc[w] = "commit bulk"
     /\ IF t \in Topics \ topics
        THEN UNCHANGED bank
        ELSE bank' = [q \in Questions |->
               IF q \in r.questions THEN [bank[q] EXCEPT !.topic = t] ELSE bank[q]]
     /\ Replies(w)
     /\ UNCHANGED <<options, explanations, topics, reports, menu, contested>>

\* The foreign key refuses to delete a topic a question has (Catalog).
DeleteTopic(t) ==
  /\ [op |-> "delete topic", topic |-> t] \in menu /\ t \in topics
  /\ \A q \in Questions : bank[q] # None => bank[q].topic # t
  /\ topics' = topics \ {t}
  /\ UNCHANGED <<content, reports, menu, pc, job, contested>>

-----------------------------------------------------------------------------
(* Reports                                                                  *)

FileReport(w, r) ==
  /\ r.op = "report" /\ bank[r.question] # None /\ reports[r.report] = None
  /\ reports' = [reports EXCEPT ![r.report] =
       [question |-> r.question, status |-> "open", resolved |-> FALSE]]
  /\ UNCHANGED <<content, topics, menu, pc, job, contested>>

\* The status the report has already is left as it is.
SetReportStatus(w, r) ==
  /\ r.op = "close" /\ reports[r.report] # None
  /\ reports[r.report].status # r.status
  /\ Begins(w, r, "commit report", reports[r.report])

CommitReport(w) ==
  LET r == job[w].request
  IN /\ pc[w] = "commit report"
     /\ reports' = [reports EXCEPT
          ![r.report].status = r.status, ![r.report].resolved = TRUE]
     /\ Replies(w)
     /\ UNCHANGED <<content, topics, menu, contested>>

\* A restart or a lost connection: the transaction is rolled back.
Fail(w) ==
  /\ pc[w] # "idle"
  /\ Replies(w)
  /\ UNCHANGED <<content, topics, reports, menu, contested>>

-----------------------------------------------------------------------------

Request(w, r) ==
  \/ CreateQuestion(w, r) \/ UpdateQuestion(w, r) \/ SetOptions(w, r)
  \/ SetOverallExplanation(w, r) \/ Retire(w, r) \/ Restore(w, r)
  \/ AssignTopicBulk(w, r) \/ FileReport(w, r) \/ SetReportStatus(w, r)

Serve(w) ==
  \/ Rehash(w) \/ CommitEdit(w)
  \/ DeleteOptions(w) \/ WipeOptions(w) \/ CommitOptions(w)
  \/ CommitExplanation(w) \/ CommitRetire(w) \/ CommitRestore(w)
  \/ CommitBulk(w) \/ CommitReport(w)

Next ==
  \/ \E w \in Workers :
       \/ pc[w] = "idle" /\ \E r \in menu : Request(w, r)
       \/ Serve(w) \/ Fail(w)
  \/ \E t \in Topics : DeleteTopic(t)

Spec == Init /\ [][Next]_vars

-----------------------------------------------------------------------------

\* Every question a reader can see has at least two options, and a correct one
\* among them, at every moment: also between the deletion and the insertion of
\* its options, after a request that was cut off, and under overlapping edits.
AlwaysAnswerable ==
  \A q \in Questions : bank[q] # None =>
    /\ options[q] # {}
    /\ \A b \in options[q] : /\ Cardinality(b.form.labels) >= 2
                             /\ Correct(b.form) \cap b.form.labels # {}

\* Unless edits of it overlapped, a question has one set of options; its key
\* and its hash are those of its options and its text; and it has at most one
\* explanation.  Options saved without an overlap put right what overlapping
\* edits had left.
SettledQuestions ==
  \A q \in Questions : bank[q] # None =>
    /\ <<q, "content">> \notin contested =>
         \E b \in options[q] : /\ options[q] = {b}
                               /\ bank[q].key = b.form.correct
                               /\ bank[q].hash = HashOf(bank[q].text, {b})
    /\ <<q, "explanation">> \notin contested => explanations[q] <= 1

\* A question is never moved to a topic of another exam, or to one that is
\* deleted, by an edit or a bulk assignment, though both look at the topic long
\* before they write.
TopicsFit ==
  [][\A q \in Questions :
       bank[q] # None /\ bank'[q].topic \notin {bank[q].topic, None} =>
         /\ bank'[q].topic \in topics'
         /\ TopicExam[bank'[q].topic] = bank[q].exam]_vars

Columns == {"exam", "topic", "text", "type", "status", "retired", "key", "hash"}

\* The columns of a question that a request is about.
Asked(r, q) ==
  CASE r.op = "edit" /\ r.question = q ->
         {c \in {"text", "type", "status", "topic"} : r[c] # None}
           \cup (IF r.text # None THEN {"hash"} ELSE {})
    [] r.op = "options" /\ r.question = q -> {"key", "hash"}
    [] r.op \in {"retire", "restore"} /\ r.question = q -> {"retired", "status"}
    [] r.op = "bulk" /\ q \in r.questions -> {"topic"}
    [] OTHER -> {}

\* No update is lost to a request that was about something else: whatever has
\* been committed between the reading and the commit of a request, it changes
\* the columns it was asked to change, and leaves the others as they are now.
OnlyAsAsked ==
  [][\A q \in Questions : bank[q] # None =>
       \A c \in Columns : bank'[q][c] # bank[q][c] =>
         \E w \in Workers : /\ pc[w] # "idle" /\ pc'[w] = "idle"
                            /\ c \in Asked(job[w].request, q)]_vars

=============================================================================
