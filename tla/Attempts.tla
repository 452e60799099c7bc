------------------------------ MODULE Attempts ------------------------------
(***************************************************************************)
(* Attempts at one exam: app/services/attempt_service.py, the scoring that *)
(* app/services/scoring_service.py does inside a submit, and the routes of *)
(* app/routers/practice.py, as transactions of concurrent web requests on  *)
(* PostgreSQL at READ COMMITTED (app/db.py sets no other level).           *)
(*                                                                         *)
(* A request runs on a worker (a thread of one of the two uvicorn          *)
(* processes).  Each SELECT whose result the request acts on later is a    *)
(* step of its own, and COMMIT is one step: the session does not autoflush *)
(* and the handlers commit once, at their end.  The ORM writes back the    *)
(* columns that differ from what the session LOADED, so a commit is a      *)
(* function of what the request read and of what the tables hold now.      *)
(*                                                                         *)
(* A request that ends in an error (403, 404, 409, 422) or that reads a    *)
(* state in which it has nothing to do changes no table; it is left out    *)
(* where its first read settles that, and ends the request elsewhere.      *)
(***************************************************************************)
EXTENDS Integers, Sequences, FiniteSets

CONSTANTS
  Users,        \* students
  Workers,      \* request threads
  Questions,    \* the questions of the exam
  Labels,       \* option labels
  Choices,      \* the selections a browser may send
  OptionSets,   \* the option sets a question may be given
  TimeLimits,   \* values of exams.time_limit_seconds; 0 stands for NULL too
  MaxAttempts,  \* bound: attempts in a behaviour
  MaxClock,     \* bound: clock ticks
  MaxCrashes,   \* bound: requests cut off by a restart of the service
  SerialUsers,  \* TRUE: a user waits for an answer before the next request
  None          \* SQL NULL

ASSUME OptionSetsAssumption ==
  OptionSets \subseteq [labels : SUBSET Labels, correct : SUBSET Labels]
ASSUME ChoicesAssumption == Choices \subseteq SUBSET Labels
ASSUME TimeLimitsAssumption == TimeLimits \subseteq Nat
ASSUME QuestionsAssumption == IsFiniteSet(Questions)
ASSUME BoundsAssumption ==
  MaxAttempts \in Nat /\ MaxClock \in Nat /\ MaxCrashes \in Nat
ASSUME NoneAssumption ==
  None \notin Nat /\ None \notin BOOLEAN /\ None \notin Users

VARIABLES
  clock,     \* datetime.now(UTC)
  exam,      \* the exam row: publishable or not, time limit
  bank,      \* per question: publishable or not, current options
  inForce,   \* history: per question, every option set it has had
  attempts,  \* table attempts
  answers,   \* table attempt_answers: per attempt, its rows by order_index
  pc,        \* per worker: the next step of its request
  job,       \* per worker: the request and what its session has read
  crashes    \* requests cut off so far

tables == <<exam, bank, inForce, attempts, answers>>
vars == <<clock, exam, bank, inForce, attempts, answers, pc, job, crashes>>

-----------------------------------------------------------------------------

AttemptIds == 1..MaxAttempts
Orders == 1..Cardinality(Questions)
Modes == {"practice", "exam"}

Verdicts == BOOLEAN \cup {None}

Row == [question : Questions, selected : SUBSET Labels,
        isCorrect : Verdicts, flagged : BOOLEAN]

\* `audited' counts the attempt's ATTEMPT_SUBMITTED and ATTEMPT_EXPIRED rows in
\* the audit log.  score_percent, wrong_count and passed are functions of
\* correct_count and of the number of rows; module Scoring has them.
Attempt == [user : Users \cup {None}, mode : Modes, started : Nat,
            finished : Nat \cup {None}, correct : Nat \cup {None},
            audited : Nat]

NoAttempt == [user |-> None, mode |-> "practice", started |-> 0,
              finished |-> None, correct |-> None, audited |-> 0]

\* view: the attempt_answers row the session has loaded for `order', if any;
\* rows: the rows a submit has loaded; verdict: what it computed for each.
Job == [user : Users \cup {None}, mode : Modes,
        attempt : AttemptIds \cup {None}, order : Orders \cup {None},
        labels : SUBSET Labels, view : Row \cup {None},
        picked : SUBSET Questions, stamp : Nat,
        rows : Seq(Row), verdict : Seq(BOOLEAN)]

NoJob == [user |-> None, mode |-> "practice", attempt |-> None,
          order |-> None, labels |-> {}, view |-> None, picked |-> {},
          stamp |-> 0, rows |-> << >>, verdict |-> << >>]

\* Where a request can be, beyond "idle": in start_attempt
\* ("existing" attempt lookup, "pick" questions, "insert"), in save_answer
\* ("autosave": timer check, "write"), in toggle_flag ("toggle"), in
\* show_question ("view": answer row, "timer" check), in _submit_idempotent
\* ("rows": read the answers, "truth": read the options, "commit").
Starting == {"existing", "pick", "insert"}
Holding == {"autosave", "write", "toggle", "view", "timer",
            "rows", "truth", "commit"}
Labelled == {"idle"} \cup Starting \cup Holding

Started(a) == attempts[a].user # None
InProgress(a) == Started(a) /\ attempts[a].finished = None
SheetOf(a) == [i \in DOMAIN answers[a] |-> answers[a][i].question]

LiveQuestions == {q \in Questions : bank[q].live}

\* _time_remaining_seconds = 0: exam mode, a time limit, and none of it left.
TimeUp(a) ==
  /\ attempts[a].mode = "exam"
  /\ exam.limit # 0
  /\ exam.limit - (clock - attempts[a].started) <= 0

\* Mutant of Valid: what the browser sent is not compared with the options.
ValidAlways(labels, options) == TRUE

\* _parse_selected_labels: every label sent is one the question has now.
Valid(labels, options) == labels \subseteq options.labels

\* Mutant of Marks: a question without an answer is not judged.
MarksAnswered(selected, options) ==
  IF selected = {} THEN None ELSE selected = options.correct

\* Scoring of one row: the selected set is the set of correct labels, and the
\* question has a correct label at all.
Marks(selected, options) ==
  options.correct # {} /\ selected = options.correct

Permutation(s) ==
  {f \in [1..Cardinality(s) -> s] : \A i, j \in DOMAIN f : f[i] = f[j] => i = j}

TypeOK ==
  /\ clock \in Nat
  /\ exam \in [open : BOOLEAN, limit : TimeLimits]
  /\ bank \in [Questions -> [live : BOOLEAN, options : OptionSets]]
  /\ inForce \in [Questions -> SUBSET OptionSets]
  /\ attempts \in [AttemptIds -> Attempt]
  /\ answers \in [AttemptIds -> Seq(Row)]
  /\ pc \in [Workers -> Labelled]
  /\ job \in [Workers -> Job]
  /\ crashes \in Nat

Init ==
  /\ clock = 0
  /\ exam \in [open : BOOLEAN, limit : TimeLimits]
  /\ bank \in [Questions -> [live : BOOLEAN, options : OptionSets]]
  /\ inForce = [q \in Questions |-> {bank[q].options}]
  /\ attempts = [a \in AttemptIds |-> NoAttempt]
  /\ answers = [a \in AttemptIds |-> << >>]
  /\ pc = [w \in Workers |-> "idle"]
  /\ job = [w \in Workers |-> NoJob]
  /\ crashes = 0

-----------------------------------------------------------------------------
(* Steps of a request: take a worker, go on, answer.                       *)

Takes(w, u) ==
  /\ pc[w] = "idle"
  /\ SerialUsers => \A v \in Workers : job[v].user # u

GoesOn(w, step, j) ==
  /\ pc' = [pc EXCEPT ![w] = step]
  /\ job' = [job EXCEPT ![w] = j]

Replies(w) == GoesOn(w, "idle", NoJob)

-----------------------------------------------------------------------------
(* POST /attempts/start                                                    *)

\* The exam must be publishable.  The last conjunct is the bound on attempts.
StartRequest(w, u, m) ==
  /\ Takes(w, u)
  /\ exam.open
  /\ Cardinality({a \in AttemptIds : Started(a)})
       + Cardinality({v \in Workers : pc[v] \in Starting}) < MaxAttempts
  /\ GoesOn(w, "existing", [NoJob EXCEPT !.user = u, !.mode = m])
  /\ UNCHANGED <<clock, crashes, tables>>

\* Mutant of Resumable: only an attempt in the mode asked for is resumed.
ResumableInMode(j, a) ==
  InProgress(a) /\ attempts[a].user = j.user /\ attempts[a].mode = j.mode

\* An attempt of the user in progress is resumed, whatever mode is asked for:
\* only an ATTEMPT_RESUMED row is written.
Resumable(j, a) == InProgress(a) /\ attempts[a].user = j.user

FindExisting(w) ==
  /\ pc[w] = "existing"
  /\ IF \E a \in AttemptIds : Resumable(job[w], a)
     THEN Replies(w)
     ELSE GoesOn(w, "pick", job[w])
  /\ UNCHANGED <<clock, crashes, tables>>

\* The publishable questions at this moment; none is an error (400).
PickQuestions(w) ==
  /\ pc[w] = "pick"
  /\ IF LiveQuestions = {}
     THEN Replies(w)
     ELSE GoesOn(w, "insert", [job[w] EXCEPT !.picked = LiveQuestions,
                                             !.stamp = clock])
  /\ UNCHANGED <<clock, crashes, tables>>

\* The attempt and its rows, in shuffled order, in one commit.
InsertAttempt(w) ==
  /\ pc[w] = "insert"
  /\ \E a \in AttemptIds, sheet \in Permutation(job[w].picked) :
       /\ ~Started(a) /\ \A b \in AttemptIds : b < a => Started(b)
       /\ attempts' = [attempts EXCEPT ![a] =
            [NoAttempt EXCEPT !.user = job[w].user, !.mode = job[w].mode,
                              !.started = job[w].stamp]]
       /\ answers' = [answers EXCEPT ![a] = [i \in DOMAIN sheet |->
            [question |-> sheet[i], selected |-> {},
             isCorrect |-> None, flagged |-> FALSE]]]
  /\ Replies(w)
  /\ UNCHANGED <<clock, crashes, exam, bank, inForce>>

-----------------------------------------------------------------------------
(* Requests on an attempt.  The owner check and `finished_at' are read with *)
(* the attempt row; on a finished attempt save, show and submit do nothing. *)

\* Mutants: of Opens, without the owner check; of OpensUnfinished, without the
\* check of finished_at.
OpensAny(w, u, a) == Takes(w, u) /\ Started(a)
OpensEvenFinished(w, u, a) == Takes(w, u) /\ attempts[a].user = u

Opens(w, u, a) == Takes(w, u) /\ attempts[a].user = u
OpensUnfinished(w, u, a) == Opens(w, u, a) /\ attempts[a].finished = None

On(u, a) == [NoJob EXCEPT !.user = u, !.attempt = a]
OnRow(u, a, i) == [On(u, a) EXCEPT !.order = i]

SaveRequest(w, u, a, i, s) ==
  /\ OpensUnfinished(w, u, a)
  /\ GoesOn(w, "autosave", [OnRow(u, a, i) EXCEPT !.labels = s])
  /\ UNCHANGED <<clock, crashes, tables>>

ShowRequest(w, u, a, i) ==
  /\ OpensUnfinished(w, u, a)
  /\ GoesOn(w, "view", OnRow(u, a, i))
  /\ UNCHANGED <<clock, crashes, tables>>

SubmitRequest(w, u, a) ==
  /\ OpensUnfinished(w, u, a)
  /\ GoesOn(w, "rows", On(u, a))
  /\ UNCHANGED <<clock, crashes, tables>>

\* toggle_flag does not look at finished_at; a missing row is an error (404).
FlagRequest(w, u, a, i) ==
  /\ Opens(w, u, a)
  /\ i \in DOMAIN answers[a]
  /\ GoesOn(w, "toggle", [OnRow(u, a, i) EXCEPT !.view = answers[a][i]])
  /\ UNCHANGED <<clock, crashes, tables>>

\* The flag is written as the negation of the flag that was read.
WriteFlag(w) ==
  /\ pc[w] = "toggle"
  /\ answers' = [answers EXCEPT
       ![job[w].attempt][job[w].order].flagged = ~job[w].view.flagged]
  /\ Replies(w)
  /\ UNCHANGED <<clock, crashes, exam, bank, inForce, attempts>>

\* save_answer, time left: the row and the labels its question has now.
ValidateAnswer(w) ==
  LET a == job[w].attempt
      i == job[w].order
  IN /\ pc[w] = "autosave"
     /\ ~TimeUp(a)
     /\ IF /\ i \in DOMAIN answers[a]
           /\ Valid(job[w].labels, bank[answers[a][i].question].options)
        THEN GoesOn(w, "write", [job[w] EXCEPT !.view = answers[a][i]])
        ELSE Replies(w)
     /\ UNCHANGED <<clock, crashes, tables>>

\* Commit of a save: an UPDATE only when the value loaded was another one.
WriteAnswer(w) ==
  /\ pc[w] = "write"
  /\ answers' = IF job[w].view.selected = job[w].labels THEN answers
                ELSE [answers EXCEPT ![job[w].attempt][job[w].order].selected =
                                       job[w].labels]
  /\ Replies(w)
  /\ UNCHANGED <<clock, crashes, exam, bank, inForce, attempts>>

\* get_question_view loads the row at `order'; without one, 404.
ViewRow(w) ==
  LET a == job[w].attempt
      i == job[w].order
  IN /\ pc[w] = "view"
     /\ IF i \in DOMAIN answers[a]
        THEN GoesOn(w, "timer", [job[w] EXCEPT !.view = answers[a][i]])
        ELSE Replies(w)
     /\ UNCHANGED <<clock, crashes, tables>>

RenderQuestion(w) ==
  /\ pc[w] = "timer"
  /\ ~TimeUp(job[w].attempt)
  /\ Replies(w)
  /\ UNCHANGED <<clock, crashes, tables>>

\* Mutant of Expire: the late request is turned down and nothing is finished.
ExpireTurnsDown(w) ==
  /\ pc[w] \in {"autosave", "timer"}
  /\ TimeUp(job[w].attempt)
  /\ Replies(w)
  /\ UNCHANGED <<clock, crashes, tables>>

\* ensure_not_expired, time up: the request turns into a submit.
Expire(w) ==
  /\ pc[w] \in {"autosave", "timer"}
  /\ TimeUp(job[w].attempt)
  /\ GoesOn(w, "rows", job[w])
  /\ UNCHANGED <<clock, crashes, tables>>

-----------------------------------------------------------------------------
(* _submit_idempotent and compute_attempt_score, in one transaction         *)

\* Mutants of LoadedRow: NULL is loaded as false, so that a false verdict is not
\* written; the selection that came too late is scored.
LoadedRowNullFalse(j, i) == [answers[j.attempt][i] EXCEPT !.isCorrect = @ = TRUE]
LoadedRowLate(j, i) ==
  IF i = j.order THEN [answers[j.attempt][i] EXCEPT !.selected = j.labels]
                 ELSE answers[j.attempt][i]

\* The rows of the attempt.  A row the session holds already (show_question
\* loaded it) keeps its loaded values: the identity map is not refreshed.
LoadedRow(j, i) == IF j.view # None /\ i = j.order THEN j.view
                                                   ELSE answers[j.attempt][i]

ReadRows(w) ==
  /\ pc[w] = "rows"
  /\ GoesOn(w, "truth", [job[w] EXCEPT
       !.stamp = clock,
       !.rows = [i \in DOMAIN answers[job[w].attempt] |-> LoadedRow(job[w], i)]])
  /\ UNCHANGED <<clock, crashes, tables>>

\* The options as they are now, not as they were when the attempt started.
ReadTruth(w) ==
  /\ pc[w] = "truth"
  /\ GoesOn(w, "commit", [job[w] EXCEPT
       !.verdict = [i \in DOMAIN job[w].rows |->
                      Marks(job[w].rows[i].selected,
                            bank[job[w].rows[i].question].options)]])
  /\ UNCHANGED <<clock, crashes, tables>>

\* finished_at and correct_count were loaded as NULL, so both are written;
\* is_correct is written in the rows where it differs from the loaded value.
CommitFinish(w) ==
  LET j == job[w]
      Written(i) == IF j.verdict[i] = j.rows[i].isCorrect
                    THEN answers[j.attempt][i].isCorrect
                    ELSE j.verdict[i]
  IN /\ pc[w] = "commit"
     /\ attempts' = [attempts EXCEPT
          ![j.attempt].finished = j.stamp,
          ![j.attempt].correct = Cardinality({i \in DOMAIN j.verdict : j.verdict[i]}),
          ![j.attempt].audited = @ + 1]
     /\ answers' = [answers EXCEPT ![j.attempt] =
          [i \in DOMAIN answers[j.attempt] |->
             [answers[j.attempt][i] EXCEPT !.isCorrect = Written(i)]]]
     /\ Replies(w)
     /\ UNCHANGED <<clock, crashes, exam, bank, inForce>>

-----------------------------------------------------------------------------
(* The rest of the world                                                    *)

\* A restart or a lost connection: the transaction is rolled back.
Crash(w) ==
  /\ pc[w] # "idle"
  /\ crashes < MaxCrashes
  /\ crashes' = crashes + 1
  /\ Replies(w)
  /\ UNCHANGED <<clock, tables>>

Tick ==
  /\ clock < MaxClock
  /\ clock' = clock + 1
  /\ UNCHANGED <<crashes, pc, job, tables>>

\* Administrators: publish, unpublish, delete or edit the exam ...
EditExam ==
  /\ exam' \in [open : BOOLEAN, limit : TimeLimits]
  /\ exam' # exam
  /\ UNCHANGED <<clock, crashes, pc, job, bank, inForce, attempts, answers>>

\* Mutant of EditStatus: the rows of the question leave the attempts.
EditStatusCascades(q) ==
  /\ bank' = [bank EXCEPT ![q].live = ~@]
  /\ answers' = [a \in AttemptIds |->
                   SelectSeq(answers[a], LAMBDA r : r.question # q)]
  /\ UNCHANGED <<clock, crashes, pc, job, exam, inForce, attempts>>

\* ... publish, retire or restore a question ...
EditStatus(q) ==
  /\ bank' = [bank EXCEPT ![q].live = ~@]
  /\ UNCHANGED <<clock, crashes, pc, job, exam, inForce, attempts, answers>>

\* ... replace the options of a question.
SetOptions(q, k) ==
  /\ bank[q].options # k
  /\ bank' = [bank EXCEPT ![q].options = k]
  /\ inForce' = [inForce EXCEPT ![q] = @ \cup {k}]
  /\ UNCHANGED <<clock, crashes, pc, job, exam, attempts, answers>>

-----------------------------------------------------------------------------

Request(w) ==
  \E u \in Users :
    \/ \E m \in Modes : StartRequest(w, u, m)
    \/ \E a \in AttemptIds :
         \/ SubmitRequest(w, u, a)
         \/ \E i \in Orders :
              \/ ShowRequest(w, u, a, i)
              \/ FlagRequest(w, u, a, i)
              \/ \E s \in Choices : SaveRequest(w, u, a, i, s)

Serve(w) ==
  \/ FindExisting(w) \/ PickQuestions(w) \/ InsertAttempt(w)
  \/ ValidateAnswer(w) \/ WriteAnswer(w) \/ WriteFlag(w)
  \/ ViewRow(w) \/ RenderQuestion(w) \/ Expire(w)
  \/ ReadRows(w) \/ ReadTruth(w) \/ CommitFinish(w)

Admin ==
  \/ EditExam
  \/ \E q \in Questions : EditStatus(q) \/ \E k \in OptionSets : SetOptions(q, k)

Next == Tick \/ Admin \/ \E w \in Workers : Request(w) \/ Serve(w) \/ Crash(w)

Spec == Init /\ [][Next]_vars

\* A request under way is carried on (no step waits for another request), and
\* an owner who keeps opening the first question of an attempt is served
\* again and again, though other requests compete for the workers.
Fairness ==
  /\ \A w \in Workers : WF_vars(Serve(w))
  /\ \A a \in AttemptIds :
       SF_vars(\E w \in Workers, u \in Users : ShowRequest(w, u, a, 1))

FairSpec == Spec /\ Fairness

-----------------------------------------------------------------------------
(* What holds however the requests overlap                                  *)

\* An attempt is finalised and scored together or not at all: finished_at, the
\* count, a finishing audit row and the verdict of every answer row exist
\* exactly together (_submit_idempotent and compute_attempt_score commit as
\* one, also when several submits of the attempt are under way).
FinishedTogether ==
  \A a \in AttemptIds :
    LET done == attempts[a].finished # None
    IN /\ done <=> attempts[a].correct # None
       /\ done <=> attempts[a].audited > 0
       /\ \A i \in DOMAIN answers[a] : done <=> answers[a][i].isCorrect # None

\* What start_attempt froze stays: owner, mode, start and question order never
\* change whatever administrators publish, retire or edit, and a finished
\* attempt is never open again.
SnapshotStays(a) ==
  Started(a) =>
    /\ attempts'[a].user = attempts[a].user
    /\ attempts'[a].mode = attempts[a].mode
    /\ attempts'[a].started = attempts[a].started
    /\ attempts[a].finished # None => attempts'[a].finished # None
    /\ SheetOf(a)' = SheetOf(a)

SnapshotFrozen == [][\A a \in AttemptIds : SnapshotStays(a)]_vars

\* Every saved selection is made of labels its question offered together at
\* some time, though options are replaced between the validation and the
\* commit of a save.
SelectionsWereOffered ==
  \A a \in AttemptIds : \A i \in DOMAIN answers[a] :
    \E k \in inForce[answers[a][i].question] :
      answers[a][i].selected \subseteq k.labels

\* An attempt and its rows change only when a request of its owner commits,
\* though the owner is checked several steps before.
OwnersOnly ==
  [][\A a \in AttemptIds :
       Started(a) /\ <<attempts[a], answers[a]>>' # <<attempts[a], answers[a]>>
         => \E w \in Workers : /\ job[w].attempt = a
                               /\ job[w].user = attempts[a].user
                               /\ pc[w] # "idle" /\ pc'[w] = "idle"]_vars

-----------------------------------------------------------------------------
(* What holds when the requests of one user do not overlap (SerialUsers);   *)
(* administrators and other users may still act at any moment               *)

\* A start while an attempt of the user is in progress returns that attempt:
\* no user ever has two in progress.
OneInProgress ==
  \A a, b \in AttemptIds :
    InProgress(a) /\ InProgress(b) /\ attempts[a].user = attempts[b].user => a = b

\* Submitting is idempotent and final: once finished, neither the attempt row
\* nor a selection or a verdict of its answers changes again (flags may).
FinishOnce ==
  [][\A a \in AttemptIds :
       attempts[a].finished # None =>
         /\ attempts'[a] = attempts[a]
         /\ \A i \in DOMAIN answers[a] :
              [answers'[a][i] EXCEPT !.flagged = FALSE]
                = [answers[a][i] EXCEPT !.flagged = FALSE]]_vars

\* The score stands up to a recount: correct_count is the number of rows marked
\* correct, and every row is marked as its saved selection deserves by options
\* the question has had, so no save was lost or came after the scoring.
ScoreStandsUp ==
  \A a \in AttemptIds :
    attempts[a].finished # None =>
      /\ attempts[a].correct =
           Cardinality({i \in DOMAIN answers[a] : answers[a][i].isCorrect})
      /\ \A i \in DOMAIN answers[a] :
           \E k \in inForce[answers[a][i].question] :
             answers[a][i].isCorrect = Marks(answers[a][i].selected, k)

\* A finished attempt's answers are final: no selection changes once
\* finished_at is set ("already submitted", attempt_service.py:355-356).
AnswersFinal ==
  [][\A a \in AttemptIds :
       attempts[a].finished # None =>
         \A i \in DOMAIN answers[a] :
           answers'[a][i].selected = answers[a][i].selected]_vars

-----------------------------------------------------------------------------
(* What must happen (FairSpec)                                              *)

\* An exam attempt whose time is up and whose owner keeps looking at it is
\* finished (nothing runs in the background: the timer is enforced by the
\* owner's own requests), unless an administrator gives it more time.
TimeUpFinishes ==
  \A a \in AttemptIds :
    InProgress(a) /\ TimeUp(a) ~> ~InProgress(a) \/ ~TimeUp(a)

-----------------------------------------------------------------------------
(* The attempts as their owners see them                                    *)

Phase(a) == IF ~Started(a) THEN "none"
            ELSE IF InProgress(a) THEN "open" ELSE "closed"

Lifecycle == INSTANCE AttemptLifecycle WITH
  Ids   <- AttemptIds,
  phase <- [a \in AttemptIds |-> Phase(a)],
  owner <- [a \in AttemptIds |-> attempts[a].user],
  sheet <- [a \in AttemptIds |-> [i \in DOMAIN answers[a] |->
              [question  |-> answers[a][i].question,
               selected  |-> answers[a][i].selected,
               isCorrect |-> answers[a][i].isCorrect]]],
  score <- [a \in AttemptIds |-> attempts[a].correct]

\* With users who wait for their answers the code keeps the promises of
\* AttemptLifecycle, whatever administrators and the clock do meanwhile.
ImplementsLifecycle == Lifecycle!Spec

=============================================================================
