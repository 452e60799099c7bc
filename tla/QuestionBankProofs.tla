------------------------- MODULE QuestionBankProofs -------------------------
(***************************************************************************)
(* For every set of workers, questions, topics and menus of requests: the  *)
(* state is well typed, every question can be answered at every moment, no *)
(* question is moved to a topic of another exam, a question whose edits do *)
(* not overlap has the key and hash of its one set of options, and no      *)
(* request changes a column of a question that it is not about.            *)
(*                                                                         *)
(* All of them rest on what a request under way may take for granted of    *)
(* the row it has loaded, though others write that row meanwhile           *)
(* (JobFits): the row is still there and belongs to the same exam.  The    *)
(* last one adds what a request that was alone so far may take for granted *)
(* of the content (StillTrue).                                             *)
(***************************************************************************)
EXTENDS QuestionBank, TLAPS, FiniteSetTheorems, SequenceTheorems

Job == [request : Requests \cup {None}, loaded : Question \cup Report \cup {None},
        hash : Hash \cup {None}, seen : SUBSET Batch, wiped : SUBSET Batch,
        alone : BOOLEAN]

\* The tables and jobs as functions, and only finitely many batches.
Typed ==
  /\ bank \in [Questions -> Question \cup {None}]
  /\ options \in [Questions -> SUBSET Batch]
  /\ \A q \in Questions : IsFiniteSet(options[q])
  /\ explanations \in [Questions -> Nat]
  /\ topics \subseteq Topics
  /\ reports \in [Reports -> Report \cup {None}]
  /\ menu \in Menus
  /\ pc \in [Workers -> Steps]
  /\ job \in [Workers -> Job]
  /\ contested \subseteq Questions \X {"content", "explanation"}

EditSteps == {"read options", "commit edit"}
OptionSteps == {"delete options", "wait", "commit options"}
ExplanationSteps == {"insert explanation", "update explanation"}
QuestionSteps == EditSteps \cup OptionSteps \cup ExplanationSteps
                 \cup {"commit retire", "commit restore"}

\* Options that can be answered.
Answers(f) == Cardinality(f.labels) >= 2 /\ Correct(f) \cap f.labels # {}

\* The request at each step, and what was checked for it that still holds.
RequestFits(step, r, loaded) ==
  /\ step \in QuestionSteps =>
       r.question \in Questions /\ bank[r.question] # None /\ loaded \in Question
  /\ step \in EditSteps =>
       /\ r.op = "edit"
       /\ r.topic \in Topics \ {loaded.topic} => TopicExam[r.topic] = bank[r.question].exam
  /\ step = "read options" => r.text # None
  /\ step \in OptionSteps => r.op = "options" /\ Answers(r.form)
  /\ step \in ExplanationSteps => r.op = "explanation"
  /\ step = "commit retire" => r.op = "retire"
  /\ step = "commit restore" => r.op = "restore"
  /\ step = "commit bulk" =>
       /\ r.op = "bulk"
       /\ \A q \in r.questions :
            /\ bank[q] # None
            /\ r.topic \in Topics => TopicExam[r.topic] = bank[q].exam
  /\ step = "commit report" => r.op = "close" /\ reports[r.report] # None

JobFits(w) ==
  /\ pc[w] = "idle" <=> job[w].request = None
  /\ job[w].wiped \subseteq job[w].seen
  /\ pc[w] # "commit options" => job[w].wiped = {}
  /\ IsFiniteSet(job[w].seen)
  /\ RequestFits(pc[w], job[w].request, job[w].loaded)

Base == Typed /\ \A w \in Workers : JobFits(w)

-----------------------------------------------------------------------------
(* Requests by their operation                                              *)

LEMMA RequestShapes ==
  ASSUME NEW r \in Requests
  PROVE  /\ r # None
         /\ r.op = "create" =>
              /\ r.question \in Questions /\ r.exam \in Exams
              /\ r.topic \in Topics \cup {None} /\ r.text \in Texts
              /\ r.type \in Types /\ r.form \in OptionSets /\ r.explained \in BOOLEAN
         /\ r.op = "edit" =>
              /\ r.question \in Questions /\ r.text \in Texts \cup {None}
              /\ r.type \in Types \cup {None} /\ r.topic \in Topics \cup {"clear", None}
              /\ r.status \in Statuses \cup {None}
         /\ r.op = "options" => r.question \in Questions /\ r.form \in OptionSets
         /\ r.op \in {"explanation", "retire", "restore"} => r.question \in Questions
         /\ r.op = "bulk" => r.questions \subseteq Questions /\ r.topic \in Topics \cup {None}
         /\ r.op = "report" => r.question \in Questions /\ r.report \in Reports
         /\ r.op = "close" => r.report \in Reports /\ r.status \in {"resolved", "rejected"}
BY NoneAssumption DEF Requests, ReportStatuses

LEMMA BulkNarrowed ==
  ASSUME NEW r \in Requests, r.op = "bulk", NEW qs \in SUBSET Questions
  PROVE  /\ [r EXCEPT !.questions = qs] \in Requests
         /\ [r EXCEPT !.questions = qs].op = "bulk"
         /\ [r EXCEPT !.questions = qs].questions = qs
         /\ [r EXCEPT !.questions = qs].topic = r.topic
<1>1. r \in [op : {"bulk"}, questions : SUBSET Questions, topic : Topics \cup {None}]
  BY DEF Requests
<1> QED
  BY <1>1 DEF Requests

\* Whatever the type, a form that is valid for it can be answered.
LEMMA ValidAnswers ==
  ASSUME NEW f \in OptionSets, NEW type, Valid(f, type)
  PROVE  Answers(f)
<1>1. f.correct \in Seq(1..6)
  BY OptionSetsAssumption
<1>2. Correct(f) # {}
  <2>1. DOMAIN f.correct # {}
    <3>1. f.correct # << >>
      BY DEF Valid
    <3>2. \A s \in Seq(1..6) : s # << >> => Len(s) \in Nat \ {0}
      BY EmptySeq
    <3>3. Len(f.correct) \in Nat \ {0} /\ DOMAIN f.correct = 1..Len(f.correct)
      BY <1>1, <3>1, <3>2, LenProperties
    <3> QED
      BY <3>3
  <2> QED
    BY <2>1 DEF Correct
<1>3. Correct(f) \cap f.labels # {}
  BY <1>2 DEF Valid
<1> QED
  BY <1>3 DEF Valid, Answers

LEMMA HashType ==
  ASSUME NEW text \in Texts, NEW batches, IsFiniteSet(batches)
  PROVE  HashOf(text, batches) \in Hash
<1>1. ASSUME NEW t \in OptionTexts
      PROVE  Cardinality({b \in batches : b.form.texts = t}) \in Nat
  <2> DEFINE some == {b \in batches : b.form.texts = t}
  <2>1. some \in SUBSET batches
    OBVIOUS
  <2>2. IsFiniteSet(some)
    BY <2>1, FS_Subset
  <2> QED
    BY <2>2, FS_CardinalityType
<1> QED
  BY <1>1 DEF HashOf, Hash

\* There is an id that no batch has, whatever is there or has been seen.
LEMMA FreshIds ==
  ASSUME Base, NEW q \in Questions
  PROVE  /\ FreshId(q) \in Nat
         /\ \A b \in options[q] : b.id # FreshId(q)
         /\ \A w \in Workers : \A b \in job[w].seen : b.id # FreshId(q)
<1> DEFINE seens == {job[w].seen : w \in Workers}
           used == options[q] \cup UNION seens
           n == Cardinality(used)
<1>1. IsFiniteSet(seens)
  <2> DEFINE f == [w \in Workers |-> job[w].seen]
  <2>1. f \in Surjection(Workers, seens)
    BY DEF Surjection
  <2> HIDE DEF f, seens
  <2> QED
    BY <2>1, WorkersAssumption, FS_Surjection
<1>2. \A s \in seens : IsFiniteSet(s)
  BY DEF Base, JobFits
<1>3. IsFiniteSet(UNION seens)
  <2> HIDE DEF seens
  <2> QED
    BY <1>1, <1>2, FS_UNION
<1>4. IsFiniteSet(used)
  <2> HIDE DEF seens
  <2>1. IsFiniteSet(options[q])
    BY DEF Base, Typed
  <2> QED
    BY <1>3, <2>1, FS_Union
<1>5. n \in Nat
  <2> HIDE DEF used
  <2> QED
    BY <1>4, FS_CardinalityType
<1>6. \E i \in 0..n : \A b \in used : b.id # i
  <2> SUFFICES ASSUME \A i \in 0..n : \E b \in used : b.id = i
               PROVE  FALSE
    OBVIOUS
  <2> HIDE DEF used
  <2> DEFINE f == [i \in 0..n |-> CHOOSE b \in used : b.id = i]
  <2>1. f \in [0..n -> used] /\ \A i \in 0..n : f[i].id = i
    OBVIOUS
  <2>2. IsFiniteSet(0..n) /\ Cardinality(0..n) = n + 1
    BY <1>5, FS_Interval
  <2>3. n < n + 1
    BY <1>5
  <2> HIDE DEF f
  <2>4. PICK x, y \in 0..n : x # y /\ f[x] = f[y]
    BY <1>4, <2>1, <2>2, <2>3, FS_PigeonHole
  <2> QED
    BY <2>1, <2>4
<1>7. FreshId(q) = CHOOSE i \in 0..n : \A b \in used : b.id # i
  BY DEF FreshId
<1>8. FreshId(q) \in 0..n /\ \A b \in used : b.id # FreshId(q)
  <2> HIDE DEF used, n
  <2> QED
    BY <1>6, <1>7
<1>9. /\ \A b \in options[q] : b \in used
      /\ \A w \in Workers : \A b \in job[w].seen : b \in used
  OBVIOUS
<1>10. FreshId(q) \in Nat
  <2> HIDE DEF n
  <2> QED
    BY <1>5, <1>8
<1> QED
  <2> HIDE DEF used, n
  <2> QED
    BY <1>8, <1>9, <1>10

-----------------------------------------------------------------------------
(* What the steps of all requests have in common                            *)

\* The rows that requests have loaded stay, in their exam.
RowsStay ==
  /\ \A q \in Questions : bank[q] # None => bank'[q] # None /\ bank'[q].exam = bank[q].exam
  /\ \A r \in Reports : reports[r] # None => reports'[r] # None

LEMMA StillFits ==
  ASSUME RowsStay, NEW step, NEW r \in Requests, NEW loaded, RequestFits(step, r, loaded)
  PROVE  RequestFits(step, r, loaded)'
<1>1. step \in QuestionSteps => bank'[r.question] # None
                                /\ bank'[r.question].exam = bank[r.question].exam
  BY DEF RequestFits, RowsStay
<1>2. step = "commit bulk" => \A q \in r.questions : bank'[q] # None
                                                     /\ bank'[q].exam = bank[q].exam
  BY RequestShapes DEF RequestFits, RowsStay
<1>3. step = "commit report" => reports'[r.report] # None
  BY RequestShapes DEF RequestFits, RowsStay
<1> QED
  BY <1>1, <1>2, <1>3 DEF RequestFits, QuestionSteps

\* A request leaves the others where they are.
Others(w) ==
  \A v \in Workers \ {w} :
    /\ pc'[v] = pc[v] /\ job'[v].request = job[v].request
    /\ job'[v].loaded = job[v].loaded /\ job'[v].hash = job[v].hash
    /\ job'[v].seen = job[v].seen /\ job'[v].wiped = job[v].wiped

LEMMA OthersFit ==
  ASSUME Base, NEW w \in Workers, RowsStay, Others(w)
  PROVE  \A v \in Workers \ {w} : JobFits(v)'
<1> TAKE v \in Workers \ {w}
<1>1. JobFits(v)
  BY DEF Base
<1>2. /\ pc'[v] = pc[v] /\ job'[v].request = job[v].request
      /\ job'[v].loaded = job[v].loaded
      /\ job'[v].seen = job[v].seen /\ job'[v].wiped = job[v].wiped
  BY DEF Others
<1>3. RequestFits(pc[v], job[v].request, job[v].loaded)'
  <2>1. CASE pc[v] = "idle"
    BY <1>2, <2>1 DEF RequestFits, QuestionSteps, EditSteps, OptionSteps, ExplanationSteps
  <2>2. CASE pc[v] # "idle"
    <3>1. job[v].request \in Requests
      BY <1>1, <2>2 DEF JobFits, Base, Typed, Job
    <3>2. PICK step, r, loaded :
             step = pc[v] /\ r = job[v].request /\ loaded = job[v].loaded
      OBVIOUS
    <3>3. r \in Requests /\ RequestFits(step, r, loaded)
      BY <1>1, <3>1, <3>2 DEF JobFits
    <3>4. RequestFits(step, r, loaded)'
      BY <3>3, StillFits
    <3>5. pc'[v] = step /\ job'[v].request = r /\ job'[v].loaded = loaded
      BY <1>2, <3>2
    <3> QED
      BY <3>4, <3>5 DEF RequestFits
  <2> QED
    BY <2>1, <2>2
<1> QED
  BY <1>1, <1>2, <1>3 DEF JobFits

\* Requests under way do not notice what a step of nobody does.
LEMMA JobsStillFit ==
  ASSUME Base, RowsStay, UNCHANGED <<pc, job>>
  PROVE  \A w \in Workers : JobFits(w)'
<1> TAKE w \in Workers
<1>1. CASE pc[w] = "idle"
  BY <1>1 DEF Base, JobFits, RequestFits, QuestionSteps, EditSteps, OptionSteps,
              ExplanationSteps
<1>2. CASE pc[w] # "idle"
  <2>1. PICK step, r, loaded :
           step = pc[w] /\ r = job[w].request /\ loaded = job[w].loaded
    OBVIOUS
  <2>2. JobFits(w) /\ r \in Requests
    BY <1>2, <2>1 DEF Base, Typed, JobFits, Job
  <2>3. RequestFits(step, r, loaded)'
    BY <2>1, <2>2, StillFits DEF JobFits
  <2> QED
    BY <2>1, <2>2, <2>3 DEF JobFits, RequestFits
<1> QED
  BY <1>1, <1>2

LEMMA BaseKept ==
  ASSUME Base, NEW w \in Workers, RowsStay, Others(w), Typed', JobFits(w)'
  PROVE  Base'
BY OthersFit DEF Base

LEMMA NoJobType == NoJob \in Job
BY DEF NoJob, Job

LEMMA BeginsDoes ==
  ASSUME Base, NEW w \in Workers, NEW r \in Requests, NEW step \in Steps,
         NEW loaded \in Question \cup Report \cup {None}, Begins(w, r, step, loaded)
  PROVE  /\ pc' \in [Workers -> Steps] /\ job' \in [Workers -> Job]
         /\ pc'[w] = step /\ job'[w].request = r /\ job'[w].loaded = loaded
         /\ job'[w].hash = None /\ job'[w].seen = {} /\ job'[w].wiped = {}
         /\ Others(w)
         /\ UNCHANGED <<bank, options, explanations, topics, reports, menu, contested>>
<1>1. PICK alone \in BOOLEAN : alone <=> Rivals(w, r) = {}
  OBVIOUS
<1>2. job' = [v \in Workers |->
         IF v = w THEN [NoJob EXCEPT !.request = r, !.loaded = loaded, !.alone = alone]
         ELSE IF v \in Rivals(w, r) THEN [job[v] EXCEPT !.alone = FALSE] ELSE job[v]]
  <2>1. alone = (Rivals(w, r) = {})
    BY <1>1
  <2> QED
    BY <2>1 DEF Begins
<1>3. [NoJob EXCEPT !.request = r, !.loaded = loaded, !.alone = alone] \in Job
  BY DEF NoJob, Job
<1>4. \A v \in Workers : [job[v] EXCEPT !.alone = FALSE] \in Job /\ job[v] \in Job
  BY DEF Base, Typed, Job
<1>5. job' \in [Workers -> Job]
  BY <1>2, <1>3, <1>4
<1>6. /\ job'[w].request = r /\ job'[w].loaded = loaded
      /\ job'[w].hash = None /\ job'[w].seen = {} /\ job'[w].wiped = {}
  BY <1>2 DEF NoJob
<1>7. pc' \in [Workers -> Steps] /\ pc'[w] = step /\ \A v \in Workers \ {w} : pc'[v] = pc[v]
  BY DEF Begins, Base, Typed
<1>8. Others(w)
  <2> SUFFICES ASSUME NEW v \in Workers \ {w}
               PROVE  /\ job'[v].request = job[v].request
                      /\ job'[v].loaded = job[v].loaded /\ job'[v].hash = job[v].hash
                      /\ job'[v].seen = job[v].seen /\ job'[v].wiped = job[v].wiped
    BY <1>7 DEF Others
  <2>1. job'[v] = job[v] \/ job'[v] = [job[v] EXCEPT !.alone = FALSE]
    BY <1>2
  <2> QED
    BY <1>4, <2>1 DEF Job
<1> QED
  BY <1>5, <1>6, <1>7, <1>8 DEF Begins, content

LEMMA GoesOnDoes ==
  ASSUME Base, NEW w \in Workers, NEW step \in Steps, NEW j \in Job, GoesOn(w, step, j)
  PROVE  /\ pc' \in [Workers -> Steps] /\ job' \in [Workers -> Job]
         /\ pc'[w] = step /\ job'[w] = j
         /\ Others(w)
BY DEF GoesOn, Base, Typed, Others

LEMMA RepliesDoes ==
  ASSUME Base, NEW w \in Workers, Replies(w)
  PROVE  /\ pc' \in [Workers -> Steps] /\ job' \in [Workers -> Job]
         /\ pc'[w] = "idle" /\ job'[w] = NoJob
         /\ Others(w)
         /\ JobFits(w)'
<1>1. "idle" \in Steps
  BY DEF Steps
<1>2. /\ pc' \in [Workers -> Steps] /\ job' \in [Workers -> Job]
      /\ pc'[w] = "idle" /\ job'[w] = NoJob /\ Others(w)
  BY <1>1, NoJobType, GoesOnDoes DEF Replies
<1>3. JobFits(w)'
  BY <1>2, FS_EmptySet DEF JobFits, RequestFits, NoJob, QuestionSteps, EditSteps,
                           OptionSteps, ExplanationSteps
<1> QED
  BY <1>2, <1>3

-----------------------------------------------------------------------------
(* The requests                                                             *)

\* The tables as they were, for a request that only looks.
LEMMA LooksTyped ==
  ASSUME Base, UNCHANGED <<bank, options, explanations, topics, reports, menu, contested>>,
         pc' \in [Workers -> Steps], job' \in [Workers -> Job]
  PROVE  Typed' /\ RowsStay
BY DEF Base, Typed, RowsStay

LEMMA Loaded ==
  ASSUME Base, NEW q \in Questions, bank[q] # None
  PROVE  bank[q] \in Question
BY DEF Base, Typed

\* What a new question starts with: one batch of options, its key and its hash,
\* and an explanation or none.
Created(q, batch, new, n) ==
  /\ bank[q] = None /\ bank' = [bank EXCEPT ![q] = new]
  /\ options' = [options EXCEPT ![q] = {batch}]
  /\ explanations' = [explanations EXCEPT ![q] = n]
  /\ Answers(batch.form) /\ new.retired = FALSE
  /\ new.key = batch.form.correct /\ new.hash = HashOf(new.text, {batch})

LEMMA CreatedRow ==
  ASSUME Base, NEW w \in Workers, NEW r \in menu, CreateQuestion(w, r)
  PROVE  \E q \in Questions, batch \in Batch, new \in Question, n \in 0..1 :
            Created(q, batch, new, n)
<1>1. r \in Requests /\ r.op = "create"
  BY MenusAssumption DEF Base, Typed, CreateQuestion
<1>2. /\ r.question \in Questions /\ r.exam \in Exams /\ r.topic \in Topics \cup {None}
      /\ r.text \in Texts /\ r.type \in Types /\ r.form \in OptionSets
      /\ Answers(r.form)
  BY <1>1, RequestShapes, ValidAnswers DEF CreateQuestion
<1>3. PICK q \in Questions, batch \in Batch :
         q = r.question /\ batch = [id |-> 0, form |-> r.form]
  BY <1>2 DEF Batch
<1>4. batch.form = r.form
  BY <1>3
<1>5. PICK hash : hash = HashOf(r.text, {batch})
  OBVIOUS
<1>6. hash \in Hash
  BY <1>2, <1>5, FS_Singleton, HashType
<1> DEFINE row == [exam |-> r.exam, topic |-> r.topic, text |-> r.text, type |-> r.type,
                   status |-> "verified_low", retired |-> FALSE,
                   key |-> r.form.correct, hash |-> hash]
<1>7. /\ row \in Question /\ row.retired = FALSE /\ row.text = r.text
      /\ row.key = r.form.correct /\ row.hash = hash
  BY <1>2, <1>6, OptionSetsAssumption DEF Question, Statuses
<1>8. PICK n \in 0..1 : n = IF r.explained THEN 1 ELSE 0
  OBVIOUS
<1>9. /\ bank[q] = None /\ bank' = [bank EXCEPT ![q] = row]
      /\ options' = [options EXCEPT ![q] = {batch}]
      /\ explanations' = [explanations EXCEPT ![q] = n]
  BY <1>3, <1>5, <1>8 DEF CreateQuestion
<1> HIDE DEF row
<1>10. Created(q, batch, row, n)
  BY <1>2, <1>4, <1>5, <1>7, <1>9 DEF Created
<1> QED
  BY <1>4, <1>7, <1>10

LEMMA CreateQuestionBase ==
  ASSUME Base, NEW w \in Workers, NEW r \in menu, CreateQuestion(w, r)
  PROVE  Base'
<1>1. PICK q \in Questions, batch \in Batch, new \in Question, n \in 0..1 :
         Created(q, batch, new, n)
  BY CreatedRow
<1>2. /\ bank[q] = None /\ bank' = [bank EXCEPT ![q] = new]
      /\ options' = [options EXCEPT ![q] = {batch}]
      /\ explanations' = [explanations EXCEPT ![q] = n]
      /\ UNCHANGED <<topics, reports, menu, pc, job, contested>>
  BY <1>1 DEF CreateQuestion, Created
<1>3. IsFiniteSet({batch}) /\ n \in Nat
  BY FS_Singleton
<1>4. Typed'
  BY <1>2, <1>3 DEF Base, Typed
<1>5. RowsStay
  BY <1>2, NoneAssumption DEF RowsStay, Base, Typed
<1> QED
  BY <1>2, <1>4, <1>5, JobsStillFit DEF Base

\* A request that loads a question, or several, begins with what was checked.
LEMMA BeginsBase ==
  ASSUME Base, NEW w \in Workers, NEW r \in Requests, NEW step \in Steps \ {"idle"},
         NEW loaded \in Question \cup Report \cup {None}, Begins(w, r, step, loaded),
         RequestFits(step, r, loaded)
  PROVE  Base'
<1>1. /\ pc' \in [Workers -> Steps] /\ job' \in [Workers -> Job]
      /\ pc'[w] = step /\ job'[w].request = r /\ job'[w].loaded = loaded
      /\ job'[w].seen = {} /\ job'[w].wiped = {}
      /\ Others(w)
      /\ UNCHANGED <<bank, options, explanations, topics, reports, menu, contested>>
  BY BeginsDoes
<1>2. Typed' /\ RowsStay
  BY <1>1, LooksTyped
<1>3. RequestFits(step, r, loaded)'
  BY <1>2, StillFits
<1>4. r # None
  BY RequestShapes
<1>5. JobFits(w)'
  BY <1>1, <1>3, <1>4, FS_EmptySet DEF JobFits, RequestFits
<1> QED
  BY <1>1, <1>2, <1>5, BaseKept

LEMMA UpdateQuestionBase ==
  ASSUME Base, NEW w \in Workers, NEW r \in menu, UpdateQuestion(w, r)
  PROVE  Base'
<1>1. r \in Requests /\ r.op = "edit"
  BY MenusAssumption DEF Base, Typed, UpdateQuestion
<1>2. PICK row \in Question : row = bank[r.question]
  BY <1>1, RequestShapes, Loaded DEF UpdateQuestion
<1>3. PICK step \in EditSteps :
         Begins(w, r, step, row) /\ (step = "read options" => r.text # None)
  BY <1>2 DEF UpdateQuestion, EditSteps
<1>4. r.topic \in Topics \ {row.topic} => TopicExam[r.topic] = row.exam
  BY <1>2 DEF UpdateQuestion, TopicFits
<1>5. RequestFits(step, r, row)
  BY <1>1, <1>2, <1>3, <1>4, RequestShapes, NoneAssumption
     DEF RequestFits, QuestionSteps, EditSteps, OptionSteps, ExplanationSteps
<1>6. step \in Steps \ {"idle"}
  BY DEF EditSteps, Steps
<1> QED
  BY <1>1, <1>3, <1>5, <1>6, BeginsBase

LEMMA SetOptionsBase ==
  ASSUME Base, NEW w \in Workers, NEW r \in menu, SetOptions(w, r)
  PROVE  Base'
<1>1. r \in Requests /\ r.op = "options"
  BY MenusAssumption DEF Base, Typed, SetOptions
<1>2. PICK row \in Question : row = bank[r.question]
  BY <1>1, RequestShapes, Loaded DEF SetOptions
<1>3. Begins(w, r, "delete options", row) /\ Valid(r.form, row.type)
  BY <1>2 DEF SetOptions
<1>4. Answers(r.form)
  BY <1>1, <1>3, RequestShapes, ValidAnswers
<1>5. RequestFits("delete options", r, row)
  BY <1>1, <1>2, <1>4, RequestShapes, NoneAssumption
     DEF RequestFits, QuestionSteps, EditSteps, OptionSteps, ExplanationSteps
<1>6. "delete options" \in Steps \ {"idle"}
  BY DEF Steps
<1> QED
  BY <1>1, <1>3, <1>5, <1>6, BeginsBase

LEMMA SetOverallExplanationBase ==
  ASSUME Base, NEW w \in Workers, NEW r \in menu, SetOverallExplanation(w, r)
  PROVE  Base'
<1>1. r \in Requests /\ r.op = "explanation"
  BY MenusAssumption DEF Base, Typed, SetOverallExplanation
<1>2. PICK row \in Question : row = bank[r.question]
  BY <1>1, RequestShapes, Loaded DEF SetOverallExplanation
<1>3. PICK step \in ExplanationSteps : Begins(w, r, step, row)
  BY <1>2 DEF SetOverallExplanation, ExplanationSteps
<1>4. RequestFits(step, r, row)
  BY <1>1, <1>2, RequestShapes, NoneAssumption
     DEF RequestFits, QuestionSteps, EditSteps, OptionSteps, ExplanationSteps
<1>5. step \in Steps \ {"idle"}
  BY DEF ExplanationSteps, Steps
<1> QED
  BY <1>1, <1>3, <1>4, <1>5, BeginsBase

LEMMA RetirementBase ==
  ASSUME Base, NEW w \in Workers, NEW r \in menu, Retire(w, r) \/ Restore(w, r)
  PROVE  Base'
<1>1. PICK step \in {"commit retire", "commit restore"} :
         /\ r.op = (IF step = "commit retire" THEN "retire" ELSE "restore")
         /\ bank[r.question] # None
         /\ Begins(w, r, step, bank[r.question])
  <2>1. CASE Retire(w, r)
    BY <2>1 DEF Retire
  <2>2. CASE Restore(w, r)
    BY <2>2 DEF Restore
  <2> QED
    BY <2>1, <2>2
<1>2. r \in Requests
  BY MenusAssumption DEF Base, Typed
<1>3. PICK row \in Question : row = bank[r.question]
  BY <1>1, <1>2, RequestShapes, Loaded
<1>4. RequestFits(step, r, row)
  BY <1>1, <1>2, <1>3, RequestShapes, NoneAssumption
     DEF RequestFits, QuestionSteps, EditSteps, OptionSteps, ExplanationSteps
<1>5. step \in Steps \ {"idle"}
  BY DEF Steps
<1> QED
  BY <1>1, <1>2, <1>3, <1>4, <1>5, BeginsBase

LEMMA AssignTopicBulkBase ==
  ASSUME Base, NEW w \in Workers, NEW r \in menu, AssignTopicBulk(w, r)
  PROVE  Base'
<1>1. r \in Requests /\ r.op = "bulk"
  BY MenusAssumption DEF Base, Typed, AssignTopicBulk
<1>2. PICK qs : qs = {q \in r.questions : bank[q] # None}
  OBVIOUS
<1>3. PICK asked : asked = [r EXCEPT !.questions = qs]
  OBVIOUS
<1>4. qs \in SUBSET Questions
  BY <1>1, <1>2, RequestShapes
<1>5. /\ asked \in Requests /\ asked.op = "bulk"
      /\ asked.questions = qs /\ asked.topic = r.topic
  BY <1>1, <1>3, <1>4, BulkNarrowed
<1>6. /\ r.topic \in Topics => BulkFits(r.topic, qs)
      /\ Begins(w, asked, "commit bulk", None)
  BY <1>2, <1>3 DEF AssignTopicBulk
<1>7. \A q \in qs : r.topic \in Topics => TopicExam[r.topic] = bank[q].exam
  BY <1>6 DEF BulkFits, TopicFits
<1>8. RequestFits("commit bulk", asked, None)
  BY <1>2, <1>5, <1>7
     DEF RequestFits, QuestionSteps, EditSteps, OptionSteps, ExplanationSteps
<1>9. "commit bulk" \in Steps \ {"idle"} /\ None \in Question \cup Report \cup {None}
  BY DEF Steps
<1> QED
  BY <1>5, <1>6, <1>8, <1>9, BeginsBase

LEMMA FileReportBase ==
  ASSUME Base, NEW w \in Workers, NEW r \in menu, FileReport(w, r)
  PROVE  Base'
<1>1. r \in Requests /\ r.op = "report"
  BY MenusAssumption DEF Base, Typed, FileReport
<1>2. r.question \in Questions /\ r.report \in Reports
  BY <1>1, RequestShapes
<1> DEFINE row == [question |-> r.question, status |-> "open", resolved |-> FALSE]
<1>3. row \in Report
  BY <1>2 DEF Report, ReportStatuses
<1>4. /\ reports' = [reports EXCEPT ![r.report] = row]
      /\ UNCHANGED <<bank, options, explanations, topics, menu, pc, job, contested>>
  BY DEF FileReport, content
<1> HIDE DEF row
<1>5. row # None
  BY <1>3, NoneAssumption
<1>6. Typed'
  BY <1>2, <1>3, <1>4 DEF Base, Typed
<1>7. RowsStay
  BY <1>2, <1>4, <1>5 DEF Base, Typed, RowsStay
<1> QED
  BY <1>4, <1>6, <1>7, JobsStillFit DEF Base

LEMMA SetReportStatusBase ==
  ASSUME Base, NEW w \in Workers, NEW r \in menu, SetReportStatus(w, r)
  PROVE  Base'
<1>1. r \in Requests /\ r.op = "close" /\ reports[r.report] # None
  BY MenusAssumption DEF Base, Typed, SetReportStatus
<1>2. PICK row \in Report : row = reports[r.report]
  BY <1>1, RequestShapes DEF Base, Typed
<1>3. Begins(w, r, "commit report", row)
  BY <1>2 DEF SetReportStatus
<1>4. RequestFits("commit report", r, row)
  BY <1>1
     DEF RequestFits, QuestionSteps, EditSteps, OptionSteps, ExplanationSteps
<1>5. "commit report" \in Steps \ {"idle"}
  BY DEF Steps
<1> QED
  BY <1>1, <1>3, <1>4, <1>5, BeginsBase

-----------------------------------------------------------------------------
(* The steps of requests under way                                          *)

\* The request of a worker that is not idle.
LEMMA UnderWay ==
  ASSUME Base, NEW w \in Workers, pc[w] # "idle"
  PROVE  /\ job[w].request \in Requests /\ job[w] \in Job
         /\ job[w].wiped \subseteq job[w].seen /\ IsFiniteSet(job[w].seen)
         /\ pc[w] # "commit options" => job[w].wiped = {}
         /\ RequestFits(pc[w], job[w].request, job[w].loaded)
BY DEF Base, Typed, JobFits, Job

\* A step that goes on with the same request, without a commit.
LEMMA GoesOnBase ==
  ASSUME Base, NEW w \in Workers, NEW step \in Steps, step # "idle", pc[w] # "idle",
         NEW j \in Job, GoesOn(w, step, j),
         j.request = job[w].request, RequestFits(step, j.request, j.loaded),
         j.wiped \subseteq j.seen, step # "commit options" => j.wiped = {},
         IsFiniteSet(j.seen),
         UNCHANGED <<content, topics, reports, menu, contested>>
  PROVE  Base'
<1>1. /\ pc' \in [Workers -> Steps] /\ job' \in [Workers -> Job]
      /\ pc'[w] = step /\ job'[w] = j
      /\ Others(w)
  BY GoesOnDoes
<1>2. Typed' /\ RowsStay
  BY <1>1, LooksTyped DEF content
<1>3. j.request \in Requests /\ j.request # None
  BY UnderWay, RequestShapes
<1>4. PICK r, loaded : r = j.request /\ loaded = j.loaded
  OBVIOUS
<1>5. RequestFits(step, r, loaded)'
  BY <1>2, <1>3, <1>4, StillFits
<1>6. JobFits(w)'
  BY <1>1, <1>3, <1>4, <1>5 DEF JobFits, RequestFits
<1> QED
  BY <1>1, <1>2, <1>6, BaseKept

LEMMA RehashBase ==
  ASSUME Base, NEW w \in Workers, Rehash(w)
  PROVE  Base'
<1>1. pc[w] = "read options"
  BY DEF Rehash
<1>2. /\ job[w].request \in Requests /\ job[w] \in Job
      /\ job[w].wiped = {} /\ IsFiniteSet(job[w].seen)
      /\ RequestFits("read options", job[w].request, job[w].loaded)
  BY <1>1, UnderWay
<1>3. PICK h : h = HashOf(job[w].request.text, options[job[w].request.question])
  OBVIOUS
<1>4. PICK j : j = [job[w] EXCEPT !.hash = h]
  OBVIOUS
<1>5. GoesOn(w, "commit edit", j)
      /\ UNCHANGED <<content, topics, reports, menu, contested>>
  BY <1>3, <1>4 DEF Rehash
<1>6. h \in Hash
  <2>1. job[w].request.question \in Questions /\ job[w].request.text \in Texts
    BY <1>2, RequestShapes DEF RequestFits, QuestionSteps, EditSteps
  <2>2. IsFiniteSet(options[job[w].request.question])
    BY <2>1 DEF Base, Typed
  <2> QED
    BY <1>3, <2>1, <2>2, HashType
<1>7. /\ j \in Job /\ j.request = job[w].request /\ j.loaded = job[w].loaded
      /\ j.wiped = job[w].wiped /\ j.seen = job[w].seen
  BY <1>2, <1>4, <1>6 DEF Job
<1>8. RequestFits("commit edit", j.request, j.loaded)
  BY <1>2, <1>7 DEF RequestFits, QuestionSteps, EditSteps, OptionSteps, ExplanationSteps
<1>9. "commit edit" \in Steps
  BY DEF Steps
<1> QED
  BY <1>1, <1>2, <1>5, <1>7, <1>8, <1>9, GoesOnBase

LEMMA DeleteOptionsBase ==
  ASSUME Base, NEW w \in Workers, DeleteOptions(w)
  PROVE  Base'
<1>1. pc[w] = "delete options"
  BY DEF DeleteOptions
<1>2. /\ job[w].request \in Requests /\ job[w] \in Job
      /\ RequestFits("delete options", job[w].request, job[w].loaded)
  BY <1>1, UnderWay
<1>3. job[w].request.question \in Questions
  BY <1>2 DEF RequestFits, QuestionSteps, OptionSteps
<1>4. PICK seen : seen = options[job[w].request.question]
  OBVIOUS
<1>5. PICK j : j = [job[w] EXCEPT !.seen = seen]
  OBVIOUS
<1>6. GoesOn(w, "wait", j)
      /\ UNCHANGED <<content, topics, reports, menu, contested>>
  BY <1>4, <1>5 DEF DeleteOptions
<1>7. seen \subseteq Batch /\ IsFiniteSet(seen)
  BY <1>3, <1>4 DEF Base, Typed
<1>8. /\ j \in Job /\ j.request = job[w].request /\ j.loaded = job[w].loaded
      /\ j.wiped = job[w].wiped /\ j.seen = seen
  BY <1>2, <1>5, <1>7 DEF Job
<1>9. job[w].wiped = {}
  BY <1>1 DEF Base, JobFits
<1>10. RequestFits("wait", j.request, j.loaded)
  BY <1>2, <1>8 DEF RequestFits, QuestionSteps, EditSteps, OptionSteps, ExplanationSteps
<1>11. "wait" \in Steps
  BY DEF Steps
<1> QED
  BY <1>1, <1>6, <1>7, <1>8, <1>9, <1>10, <1>11, GoesOnBase

LEMMA WipeOptionsBase ==
  ASSUME Base, NEW w \in Workers, WipeOptions(w)
  PROVE  Base'
<1>1. pc[w] = "wait"
  BY DEF WipeOptions
<1>2. /\ job[w].request \in Requests /\ job[w] \in Job
      /\ job[w].wiped \subseteq job[w].seen /\ IsFiniteSet(job[w].seen)
      /\ RequestFits("wait", job[w].request, job[w].loaded)
  BY <1>1, UnderWay
<1>3. PICK wiped : wiped = job[w].seen \cap options[job[w].request.question]
  OBVIOUS
<1>4. PICK j : j = [job[w] EXCEPT !.wiped = wiped]
  OBVIOUS
<1>5. GoesOn(w, "commit options", j)
      /\ UNCHANGED <<content, topics, reports, menu, contested>>
  BY <1>3, <1>4 DEF WipeOptions
<1>6. /\ j \in Job /\ j.request = job[w].request /\ j.loaded = job[w].loaded
      /\ j.wiped = wiped /\ j.seen = job[w].seen
  BY <1>2, <1>3, <1>4 DEF Job
<1>7. RequestFits("commit options", j.request, j.loaded)
  BY <1>2, <1>6 DEF RequestFits, QuestionSteps, EditSteps, OptionSteps, ExplanationSteps
<1>8. "commit options" \in Steps
  BY DEF Steps
<1> QED
  BY <1>1, <1>2, <1>3, <1>5, <1>6, <1>7, <1>8, GoesOnBase

\* A commit ends the request; what it writes keeps the tables typed.
LEMMA CommitBase ==
  ASSUME Base, NEW w \in Workers, pc[w] # "idle", Replies(w), RowsStay,
         bank' \in [Questions -> Question \cup {None}],
         options' \in [Questions -> SUBSET Batch],
         \A q \in Questions : IsFiniteSet(options'[q]),
         explanations' \in [Questions -> Nat],
         reports' \in [Reports -> Report \cup {None}],
         contested' \subseteq Questions \X {"content", "explanation"},
         UNCHANGED <<topics, menu>>
  PROVE  Base'
<1>1. /\ pc' \in [Workers -> Steps] /\ job' \in [Workers -> Job]
      /\ Others(w) /\ JobFits(w)'
  BY RepliesDoes
<1>2. Typed'
  BY <1>1 DEF Base, Typed
<1> QED
  BY <1>1, <1>2, BaseKept

LEMMA ContestType ==
  ASSUME Base, NEW w \in Workers, pc[w] # "idle", Contest(w)
  PROVE  contested' \subseteq Questions \X {"content", "explanation"}
<1>1. job[w].request \in Requests
  BY UnderWay
<1>2. PICK r \in Requests : r = job[w].request
  BY <1>1
<1>3. Parts(r) \subseteq Questions \X {"content", "explanation"}
  BY RequestShapes DEF Parts
<1>4. contested \subseteq Questions \X {"content", "explanation"}
  BY DEF Base, Typed
<1>5. /\ contested' \subseteq contested \cup Parts(r)
  BY <1>2 DEF Contest
<1> QED
  BY <1>3, <1>4, <1>5

\* Base keeps the rows of the questions with a request.
LEMMA QuestionUnderWay ==
  ASSUME Base, NEW w \in Workers, pc[w] \in QuestionSteps
  PROVE  /\ job[w].request.question \in Questions
         /\ bank[job[w].request.question] \in Question
         /\ job[w].loaded \in Question
         /\ pc[w] # "idle"
<1>1. pc[w] # "idle"
  BY DEF QuestionSteps, EditSteps, OptionSteps, ExplanationSteps
<1> QED
  BY <1>1, UnderWay, Loaded DEF RequestFits

\* What an edit writes: the question stays in its exam and as retired as it was,
\* and a topic that it gets is one of that exam and not deleted.
Edited(w, q, new) ==
  /\ q = job[w].request.question
  /\ bank[q] \in Question
  /\ bank' = [bank EXCEPT ![q] = new]
  /\ new.exam = bank[q].exam /\ new.retired = bank[q].retired
  /\ new.key = bank[q].key
  /\ new.text = Written(Given(job[w].request.text, job[w].loaded.text),
                        job[w].loaded.text, bank[q].text)
  /\ new.hash = Written(Given(job[w].hash, job[w].loaded.hash),
                        job[w].loaded.hash, bank[q].hash)
  /\ new.topic \notin {bank[q].topic, None} =>
       new.topic \in topics /\ TopicExam[new.topic] = bank[q].exam
  /\ job[w].request.op = "edit"
  /\ job[w].request.type = None => new.type = bank[q].type
  /\ job[w].request.status = None => new.status = bank[q].status
  /\ job[w].request.topic = None => new.topic = bank[q].topic
  /\ Contest(w)

LEMMA EditedRow ==
  ASSUME Base, NEW w \in Workers, CommitEdit(w)
  PROVE  \/ UNCHANGED <<bank, contested>>
         \/ \E q \in Questions, new \in Question : Edited(w, q, new)
<1>1. pc[w] = "commit edit"
  BY DEF CommitEdit
<1>2. /\ job[w].request.question \in Questions
      /\ bank[job[w].request.question] \in Question
      /\ job[w].loaded \in Question
  BY <1>1, QuestionUnderWay DEF QuestionSteps, EditSteps
<1>3. PICK r \in Requests, old \in Question, h \in Hash \cup {None} :
         r = job[w].request /\ old = job[w].loaded /\ h = job[w].hash
  BY <1>1, <1>2, UnderWay DEF Job
<1>4. RequestFits("commit edit", r, old)
  BY <1>1, <1>3, UnderWay
<1>5. PICK q \in Questions, row \in Question : q = r.question /\ row = bank[q]
  BY <1>2, <1>3
<1> DEFINE text == Written(Given(r.text, old.text), old.text, row.text)
           type == Written(Given(r.type, old.type), old.type, row.type)
           status == Written(Given(r.status, old.status), old.status, row.status)
           topic == Written(NewTopic(r, old), old.topic, row.topic)
           hash == Written(Given(h, old.hash), old.hash, row.hash)
           new == [row EXCEPT !.text = text, !.type = type, !.status = status,
                              !.topic = topic, !.hash = hash]
<1>6. /\ r.op = "edit" /\ r.text \in Texts \cup {None}
      /\ r.type \in Types \cup {None} /\ r.topic \in Topics \cup {"clear", None}
      /\ r.status \in Statuses \cup {None}
      /\ r.topic \in Topics \ {old.topic} => TopicExam[r.topic] = row.exam
  BY <1>4, <1>5, RequestShapes DEF RequestFits, EditSteps
<1>7. \/ UNCHANGED <<bank, contested>>
      \/ /\ new.topic \notin Topics \ topics
         /\ bank' = [bank EXCEPT ![q] = new]
         /\ Contest(w)
  BY <1>3, <1>5 DEF CommitEdit
<1>8. /\ text \in Texts /\ type \in Types /\ status \in Statuses /\ hash \in Hash
  BY <1>6 DEF Written, Given, Question
<1>9. /\ topic \in Topics \cup {None}
      /\ topic \notin {row.topic, None} => topic \in Topics /\ TopicExam[topic] = row.exam
  BY <1>6 DEF Written, Given, NewTopic, Question
<1>a. /\ r.type = None => type = row.type
      /\ r.status = None => status = row.status
      /\ r.topic = None => topic = row.topic
  BY NoneAssumption DEF Written, Given, NewTopic
<1> HIDE DEF text, type, status, topic, hash
<1>10. /\ new \in Question /\ new.exam = row.exam /\ new.retired = row.retired
       /\ new.key = row.key /\ new.topic = topic
       /\ new.text = text /\ new.hash = hash
       /\ new.type = type /\ new.status = status
  BY <1>8, <1>9 DEF Question
<1>11. /\ text = Written(Given(job[w].request.text, job[w].loaded.text),
                         job[w].loaded.text, bank[q].text)
       /\ hash = Written(Given(job[w].hash, job[w].loaded.hash),
                         job[w].loaded.hash, bank[q].hash)
  BY <1>3, <1>5 DEF text, hash
<1> HIDE DEF new
<1>12. CASE UNCHANGED <<bank, contested>>
  BY <1>12
<1>13. CASE /\ new.topic \notin Topics \ topics
            /\ bank' = [bank EXCEPT ![q] = new]
            /\ Contest(w)
  <2>1. new.text = Written(Given(job[w].request.text, job[w].loaded.text),
                           job[w].loaded.text, bank[q].text)
    BY <1>10, <1>11
  <2>2. new.hash = Written(Given(job[w].hash, job[w].loaded.hash),
                           job[w].loaded.hash, bank[q].hash)
    BY <1>10, <1>11
  <2>3. /\ q = job[w].request.question /\ bank[q] \in Question
        /\ new.exam = bank[q].exam /\ new.retired = bank[q].retired
        /\ new.key = bank[q].key
    BY <1>3, <1>5, <1>10
  <2>4. new.topic \notin {bank[q].topic, None} =>
          new.topic \in topics /\ TopicExam[new.topic] = bank[q].exam
    BY <1>5, <1>9, <1>10, <1>13
  <2>5. /\ job[w].request.op = "edit"
        /\ job[w].request.type = None => new.type = bank[q].type
        /\ job[w].request.status = None => new.status = bank[q].status
        /\ job[w].request.topic = None => new.topic = bank[q].topic
    BY <1>3, <1>5, <1>6, <1>a, <1>10
  <2>6. Edited(w, q, new)
    BY <1>13, <2>1, <2>2, <2>3, <2>4, <2>5 DEF Edited
  <2> QED
    BY <1>10, <2>6
<1> QED
  BY <1>7, <1>12, <1>13

LEMMA CommitEditBase ==
  ASSUME Base, NEW w \in Workers, CommitEdit(w)
  PROVE  Base'
<1>1. /\ pc[w] # "idle" /\ Replies(w)
      /\ UNCHANGED <<options, explanations, topics, reports, menu>>
  BY DEF CommitEdit
<1>2. /\ bank' \in [Questions -> Question \cup {None}]
      /\ RowsStay
      /\ contested' \subseteq Questions \X {"content", "explanation"}
  <2>1. CASE UNCHANGED <<bank, contested>>
    BY <1>1, <2>1 DEF Base, Typed, RowsStay
  <2>2. CASE \E q \in Questions, new \in Question : Edited(w, q, new)
    <3>1. PICK q \in Questions, new \in Question : Edited(w, q, new)
      BY <2>2
    <3>2. /\ bank' = [bank EXCEPT ![q] = new]
          /\ new.exam = bank[q].exam
          /\ Contest(w) /\ new # None
      BY <3>1, NoneAssumption DEF Edited
    <3> QED
      BY <1>1, <3>2, ContestType DEF Base, Typed, RowsStay
  <2> QED
    BY <2>1, <2>2, EditedRow
<1> QED
  BY <1>1, <1>2, CommitBase DEF Base, Typed

\* What saving options writes: a batch of its own in place of those it deleted.
Saved(w, q, batch, new) ==
  /\ q = job[w].request.question
  /\ batch = [id |-> FreshId(q), form |-> job[w].request.form]
  /\ bank[q] \in Question /\ Answers(batch.form)
  /\ options' = [options EXCEPT ![q] = (options[q] \ job[w].wiped) \cup {batch}]
  /\ bank' = [bank EXCEPT ![q] = new]
  /\ new.exam = bank[q].exam /\ new.retired = bank[q].retired
  /\ new.topic = bank[q].topic /\ new.text = bank[q].text
  /\ new.type = bank[q].type /\ new.status = bank[q].status
  /\ job[w].request.op = "options"
  /\ new.key = Written(batch.form.correct, job[w].loaded.key, bank[q].key)
  /\ new.hash = Written(HashOf(job[w].loaded.text, {batch}), job[w].loaded.hash,
                        bank[q].hash)

LEMMA SavedOptions ==
  ASSUME Base, NEW w \in Workers, CommitOptions(w)
  PROVE  \E q \in Questions, batch \in Batch, new \in Question : Saved(w, q, batch, new)
<1>1. pc[w] = "commit options"
  BY DEF CommitOptions
<1>2. /\ job[w].request.question \in Questions
      /\ bank[job[w].request.question] \in Question
      /\ job[w].loaded \in Question
  BY <1>1, QuestionUnderWay DEF QuestionSteps, OptionSteps
<1>3. PICK r \in Requests, old \in Question : r = job[w].request /\ old = job[w].loaded
  BY <1>1, <1>2, UnderWay
<1>4. /\ r.op = "options" /\ Answers(r.form) /\ r.form \in OptionSets
  BY <1>1, <1>3, UnderWay, RequestShapes DEF RequestFits, OptionSteps
<1>5. PICK q \in Questions, row \in Question : q = r.question /\ row = bank[q]
  BY <1>2, <1>3
<1>6. PICK batch : batch = [id |-> FreshId(q), form |-> r.form]
  OBVIOUS
<1>7. batch \in Batch /\ batch.form = r.form
  BY <1>4, <1>5, <1>6, FreshIds DEF Batch
<1> DEFINE key == Written(batch.form.correct, old.key, row.key)
           hash == Written(HashOf(old.text, {batch}), old.hash, row.hash)
           new == [row EXCEPT !.key = key, !.hash = hash]
<1>8. key \in Seq(1..6)
  BY <1>4, <1>7, OptionSetsAssumption DEF Written, Question
<1>9. hash \in Hash
  <2>1. HashOf(old.text, {batch}) \in Hash
    BY FS_Singleton, HashType DEF Question
  <2> QED
    BY <2>1 DEF Written, Question
<1>10. /\ options' = [options EXCEPT ![q] = (options[q] \ job[w].wiped) \cup {batch}]
       /\ bank' = [bank EXCEPT ![q].key = key, ![q].hash = hash]
  BY <1>3, <1>5, <1>6 DEF CommitOptions
<1> HIDE DEF key, hash
<1>11. bank' = [bank EXCEPT ![q] = new]
  BY <1>5, <1>10
<1>12. /\ new \in Question /\ new.exam = row.exam /\ new.retired = row.retired
       /\ new.topic = row.topic /\ new.text = row.text
       /\ new.type = row.type /\ new.status = row.status
       /\ new.key = key /\ new.hash = hash
  BY <1>8, <1>9 DEF Question
<1>13. /\ key = Written(batch.form.correct, job[w].loaded.key, bank[q].key)
       /\ hash = Written(HashOf(job[w].loaded.text, {batch}), job[w].loaded.hash,
                         bank[q].hash)
  BY <1>3, <1>5 DEF key, hash
<1> HIDE DEF new, key, hash
<1>14. /\ q = job[w].request.question
       /\ batch = [id |-> FreshId(q), form |-> job[w].request.form]
       /\ bank[q] \in Question
  BY <1>3, <1>5, <1>6
<1>15. Answers(batch.form)
  BY <1>4, <1>7
<1>16. /\ new.key = Written(batch.form.correct, job[w].loaded.key, bank[q].key)
       /\ new.hash = Written(HashOf(job[w].loaded.text, {batch}), job[w].loaded.hash,
                             bank[q].hash)
  BY <1>12, <1>13
<1>17. /\ new.exam = bank[q].exam /\ new.retired = bank[q].retired
       /\ new.topic = bank[q].topic /\ new.text = bank[q].text
       /\ new.type = bank[q].type /\ new.status = bank[q].status
       /\ job[w].request.op = "options"
  BY <1>3, <1>4, <1>5, <1>12
<1>18. batch \in Batch /\ new \in Question
  BY <1>7, <1>12
<1>19. Saved(w, q, batch, new)
  BY <1>10, <1>11, <1>14, <1>15, <1>16, <1>17 DEF Saved
<1> QED
  BY <1>18, <1>19

LEMMA CommitOptionsBase ==
  ASSUME Base, NEW w \in Workers, CommitOptions(w)
  PROVE  Base'
<1>1. /\ pc[w] # "idle" /\ Replies(w) /\ Contest(w)
      /\ UNCHANGED <<explanations, topics, reports, menu>>
  BY DEF CommitOptions
<1>2. PICK q \in Questions, batch \in Batch, new \in Question : Saved(w, q, batch, new)
  BY SavedOptions
<1>3. /\ options' = [options EXCEPT ![q] = (options[q] \ job[w].wiped) \cup {batch}]
      /\ bank' = [bank EXCEPT ![q] = new]
      /\ new.exam = bank[q].exam
  BY <1>2 DEF Saved
<1>4. PICK left \in SUBSET Batch :
         left = (options[q] \ job[w].wiped) \cup {batch} /\ IsFiniteSet(left)
  <2>1. IsFiniteSet(options[q]) /\ options[q] \subseteq Batch
    BY DEF Base, Typed
  <2>2. IsFiniteSet(options[q] \ job[w].wiped)
    BY <2>1, FS_Difference
  <2>3. IsFiniteSet((options[q] \ job[w].wiped) \cup {batch})
    BY <2>2, FS_AddElement
  <2> QED
    BY <2>1, <2>3
<1>5. new # None
  BY NoneAssumption
<1>6. /\ bank' \in [Questions -> Question \cup {None}]
      /\ options' \in [Questions -> SUBSET Batch]
      /\ \A p \in Questions : IsFiniteSet(options'[p])
      /\ RowsStay
  BY <1>1, <1>3, <1>4, <1>5 DEF Base, Typed, RowsStay
<1>7. contested' \subseteq Questions \X {"content", "explanation"}
  BY <1>1, ContestType
<1> QED
  BY <1>1, <1>6, <1>7, CommitBase DEF Base, Typed

LEMMA CommitExplanationBase ==
  ASSUME Base, NEW w \in Workers, CommitExplanation(w)
  PROVE  Base'
<1>1. /\ pc[w] \in ExplanationSteps /\ Replies(w) /\ Contest(w)
      /\ UNCHANGED <<bank, options, topics, reports, menu>>
  BY DEF CommitExplanation, ExplanationSteps
<1>2. job[w].request.question \in Questions /\ pc[w] # "idle"
  BY <1>1, QuestionUnderWay DEF QuestionSteps
<1>3. explanations' \in [Questions -> Nat]
  <2>1. PICK q \in Questions : q = job[w].request.question
    BY <1>2
  <2>2. explanations' = [explanations EXCEPT
          ![q] = IF pc[w] = "insert explanation" THEN explanations[q] + 1 ELSE explanations[q]]
    BY <2>1 DEF CommitExplanation
  <2>3. PICK n \in Nat : explanations' = [explanations EXCEPT ![q] = n]
    <3>1. explanations[q] \in Nat /\ explanations[q] + 1 \in Nat
      BY DEF Base, Typed
    <3> QED
      BY <2>2, <3>1
  <2> QED
    BY <2>3 DEF Base, Typed
<1>4. RowsStay
  BY <1>1 DEF RowsStay
<1>5. contested' \subseteq Questions \X {"content", "explanation"}
  BY <1>1, <1>2, ContestType
<1> QED
  BY <1>1, <1>2, <1>3, <1>4, <1>5, CommitBase DEF Base, Typed

\* What a retirement or a restoration writes to the question.
LEMMA RetiredRow ==
  ASSUME Base, NEW w \in Workers, CommitRetire(w) \/ CommitRestore(w)
  PROVE  \E q \in Questions, new \in Question :
           /\ q = job[w].request.question /\ bank[q] \in Question
           /\ bank' = [bank EXCEPT ![q] = new]
           /\ new.exam = bank[q].exam /\ new.topic = bank[q].topic
           /\ new.text = bank[q].text /\ new.type = bank[q].type
           /\ new.key = bank[q].key /\ new.hash = bank[q].hash
<1>1. PICK gone \in BOOLEAN, set \in Statuses :
        /\ pc[w] \in {"commit retire", "commit restore"}
        /\ bank' = [bank EXCEPT
             ![job[w].request.question].retired = gone,
             ![job[w].request.question].status = Written(set, job[w].loaded.status, @)]
  <2>1. CASE CommitRetire(w)
    <3>1. "retired" \in Statuses
      BY DEF Statuses
    <3> QED
      BY <2>1, <3>1 DEF CommitRetire
  <2>2. CASE CommitRestore(w)
    <3>1. "verified_low" \in Statuses
      BY DEF Statuses
    <3> QED
      BY <2>2, <3>1 DEF CommitRestore
  <2> QED
    BY <2>1, <2>2
<1>2. /\ job[w].request.question \in Questions
      /\ bank[job[w].request.question] \in Question
      /\ job[w].loaded \in Question
  BY <1>1, QuestionUnderWay DEF QuestionSteps
<1>3. PICK q \in Questions, row, old \in Question :
         q = job[w].request.question /\ row = bank[q] /\ old = job[w].loaded
  BY <1>2
<1> DEFINE status == Written(set, old.status, row.status)
           new == [row EXCEPT !.retired = gone, !.status = status]
<1>4. status \in Statuses
  BY DEF Written, Question
<1>5. bank' = [bank EXCEPT ![q] = new]
  BY <1>1, <1>3
<1> HIDE DEF status
<1>6. /\ new \in Question /\ new.exam = row.exam /\ new.topic = row.topic
      /\ new.text = row.text /\ new.type = row.type
      /\ new.key = row.key /\ new.hash = row.hash
  BY <1>4 DEF Question
<1> HIDE DEF new
<1> QED
  BY <1>2, <1>3, <1>5, <1>6, Zenon

LEMMA RetirementCommitBase ==
  ASSUME Base, NEW w \in Workers, CommitRetire(w) \/ CommitRestore(w)
  PROVE  Base'
<1>1. /\ pc[w] # "idle" /\ Replies(w)
      /\ UNCHANGED <<options, explanations, topics, reports, menu, contested>>
  BY DEF CommitRetire, CommitRestore
<1>2. PICK q \in Questions, new \in Question :
         /\ bank' = [bank EXCEPT ![q] = new]
         /\ new.exam = bank[q].exam
  BY RetiredRow
<1>3. new # None
  BY NoneAssumption
<1>4. /\ bank' \in [Questions -> Question \cup {None}]
      /\ RowsStay
  BY <1>1, <1>2, <1>3 DEF Base, Typed, RowsStay
<1> QED
  BY <1>1, <1>4, CommitBase DEF Base, Typed

\* What a bulk assignment writes: a topic of the exam of each question, or none.
LEMMA BulkRows ==
  ASSUME Base, NEW w \in Workers, CommitBulk(w)
  PROVE  \/ UNCHANGED bank
         \/ /\ bank' \in [Questions -> Question \cup {None}]
            /\ \A q \in Questions :
                 \/ bank'[q] = bank[q]
                 \/ /\ job[w].request.op = "bulk" /\ q \in job[w].request.questions
                    /\ bank[q] \in Question /\ bank'[q] \in Question
                    /\ bank'[q].exam = bank[q].exam /\ bank'[q].text = bank[q].text
                    /\ bank'[q].type = bank[q].type /\ bank'[q].status = bank[q].status
                    /\ bank'[q].key = bank[q].key /\ bank'[q].hash = bank[q].hash
                    /\ bank'[q].retired = bank[q].retired
                    /\ bank'[q].topic # None =>
                         bank'[q].topic \in topics
                           /\ TopicExam[bank'[q].topic] = bank[q].exam
<1>1. pc[w] = "commit bulk"
  BY DEF CommitBulk
<1>2. PICK r \in Requests : r = job[w].request
  BY <1>1, UnderWay
<1>3. /\ r.op = "bulk" /\ r.questions \subseteq Questions
      /\ \A q \in r.questions :
            /\ bank[q] # None
            /\ r.topic \in Topics => TopicExam[r.topic] = bank[q].exam
  BY <1>1, <1>2, UnderWay, RequestShapes DEF RequestFits
<1> DEFINE t == IF r.topic \in Topics THEN r.topic ELSE None
<1>4. \/ UNCHANGED bank
      \/ /\ t \notin Topics \ topics
         /\ bank' = [q \in Questions |->
               IF q \in r.questions THEN [bank[q] EXCEPT !.topic = t] ELSE bank[q]]
  BY <1>2 DEF CommitBulk
<1>5. CASE UNCHANGED bank
  BY <1>5
<1>6. CASE /\ t \notin Topics \ topics
           /\ bank' = [q \in Questions |->
               IF q \in r.questions THEN [bank[q] EXCEPT !.topic = t] ELSE bank[q]]
  <2>0. \A q \in r.questions : job[w].request.op = "bulk" /\ q \in job[w].request.questions
    BY <1>2, <1>3
  <2>1. ASSUME NEW q \in r.questions
        PROVE  /\ bank[q] \in Question /\ bank'[q] = [bank[q] EXCEPT !.topic = t]
               /\ t # None => t \in topics /\ TopicExam[t] = bank[q].exam
    BY <1>3, <1>6, <2>1, Loaded
  <2>2. t \in Topics \cup {None}
    OBVIOUS
  <2> HIDE DEF t
  <2>3. ASSUME NEW q \in r.questions
        PROVE  /\ bank[q] \in Question /\ bank'[q] \in Question
               /\ bank'[q].exam = bank[q].exam /\ bank'[q].text = bank[q].text
               /\ bank'[q].type = bank[q].type /\ bank'[q].status = bank[q].status
               /\ bank'[q].key = bank[q].key /\ bank'[q].hash = bank[q].hash
               /\ bank'[q].retired = bank[q].retired /\ bank'[q].topic = t
    BY <2>1, <2>2, <2>3 DEF Question
  <2>4. \A q \in Questions \ r.questions : bank'[q] = bank[q]
    BY <1>6
  <2>5. bank' \in [Questions -> Question \cup {None}]
    <3>1. DOMAIN bank' = Questions /\ bank' = [q \in Questions |-> bank'[q]]
      BY <1>6
    <3> QED
      BY <2>3, <2>4, <3>1 DEF Base, Typed
  <2>6. ASSUME NEW q \in r.questions
        PROVE  /\ job[w].request.op = "bulk" /\ q \in job[w].request.questions
               /\ bank'[q].topic # None =>
                    bank'[q].topic \in topics /\ TopicExam[bank'[q].topic] = bank[q].exam
    BY <2>0, <2>1, <2>3
  <2> QED
    BY <2>3, <2>4, <2>5, <2>6
<1> QED
  BY <1>4, <1>5, <1>6

LEMMA CommitBulkBase ==
  ASSUME Base, NEW w \in Workers, CommitBulk(w)
  PROVE  Base'
<1>1. /\ pc[w] # "idle" /\ Replies(w)
      /\ UNCHANGED <<options, explanations, topics, reports, menu, contested>>
  BY DEF CommitBulk
<1>2. /\ bank' \in [Questions -> Question \cup {None}]
      /\ \A q \in Questions :
           \/ bank'[q] = bank[q]
           \/ bank'[q] \in Question /\ bank'[q].exam = bank[q].exam
  BY BulkRows DEF Base, Typed
<1>3. RowsStay
  BY <1>1, <1>2, NoneAssumption DEF RowsStay
<1> QED
  BY <1>1, <1>2, <1>3, CommitBase DEF Base, Typed

\* What a decision about a report writes.
LEMMA ClosedReport ==
  ASSUME Base, NEW w \in Workers, CommitReport(w)
  PROVE  \E r \in Reports, new \in Report : reports' = [reports EXCEPT ![r] = new]
<1>1. pc[w] = "commit report"
  BY DEF CommitReport
<1>2. PICK request \in Requests : request = job[w].request
  BY <1>1, UnderWay
<1>3. /\ request.report \in Reports /\ request.status \in {"resolved", "rejected"}
      /\ reports[request.report] # None
  BY <1>1, <1>2, UnderWay, RequestShapes DEF RequestFits
<1>4. PICK r \in Reports, old \in Report, s \in {"resolved", "rejected"} :
         r = request.report /\ old = reports[r] /\ s = request.status
  BY <1>3 DEF Base, Typed
<1> DEFINE new == [old EXCEPT !.status = s, !.resolved = TRUE]
<1>5. reports' = [reports EXCEPT ![r] = new]
  BY <1>2, <1>4 DEF CommitReport
<1>6. new \in Report
  BY DEF Report, ReportStatuses
<1> HIDE DEF new
<1> QED
  BY <1>5, <1>6

LEMMA CommitReportBase ==
  ASSUME Base, NEW w \in Workers, CommitReport(w)
  PROVE  Base'
<1>1. /\ pc[w] # "idle" /\ Replies(w)
      /\ UNCHANGED <<bank, options, explanations, topics, menu, contested>>
  BY DEF CommitReport, content
<1>2. PICK r \in Reports, new \in Report : reports' = [reports EXCEPT ![r] = new]
  BY ClosedReport
<1>3. new # None
  BY NoneAssumption
<1>4. reports' \in [Reports -> Report \cup {None}] /\ RowsStay
  BY <1>1, <1>2, <1>3 DEF Base, Typed, RowsStay
<1> QED
  BY <1>1, <1>4, CommitBase DEF Base, Typed

LEMMA FailBase ==
  ASSUME Base, NEW w \in Workers, Fail(w)
  PROVE  Base'
<1>1. /\ pc[w] # "idle" /\ Replies(w)
      /\ UNCHANGED <<bank, options, explanations, topics, reports, menu, contested>>
  BY DEF Fail, content
<1>2. RowsStay
  BY <1>1 DEF RowsStay
<1> QED
  BY <1>1, <1>2, CommitBase DEF Base, Typed

LEMMA DeleteTopicBase ==
  ASSUME Base, NEW t \in Topics, DeleteTopic(t)
  PROVE  Base'
<1>1. /\ topics' \subseteq topics
      /\ UNCHANGED <<bank, options, explanations, reports, menu, pc, job, contested>>
  BY DEF DeleteTopic, content
<1>2. Typed' /\ RowsStay
  BY <1>1 DEF Base, Typed, RowsStay
<1> QED
  BY <1>1, <1>2, JobsStillFit DEF Base

LEMMA InitBase == Init => Base
<1> SUFFICES ASSUME Init
             PROVE  Base
  OBVIOUS
<1>1. Typed
  <2>1. \A w \in Workers : NoJob \in Job /\ "idle" \in Steps
    BY NoJobType DEF Steps
  <2> QED
    BY <2>1, FS_EmptySet DEF Init, Typed
<1>2. \A w \in Workers : pc[w] = "idle" /\ job[w] = NoJob
  BY DEF Init
<1>3. IsFiniteSet({})
  BY FS_EmptySet
<1>4. ASSUME NEW w \in Workers
      PROVE  JobFits(w)
  <2>1. job[w].request = None /\ job[w].seen = {} /\ job[w].wiped = {}
    BY <1>2 DEF NoJob
  <2>2. RequestFits(pc[w], job[w].request, job[w].loaded)
    BY <1>2 DEF RequestFits, QuestionSteps, EditSteps, OptionSteps, ExplanationSteps
  <2> QED
    BY <1>2, <1>3, <2>1, <2>2 DEF JobFits
<1> QED
  BY <1>1, <1>4 DEF Base

LEMMA BaseStep == Base /\ [Next]_vars => Base'
<1> SUFFICES ASSUME Base, [Next]_vars
             PROVE  Base'
  OBVIOUS
<1>1. CASE UNCHANGED vars
  <2>1. Typed' /\ RowsStay /\ UNCHANGED <<pc, job>>
    BY <1>1 DEF vars, content, Base, Typed, RowsStay
  <2> QED
    BY <2>1, JobsStillFit DEF Base
<1>2. ASSUME NEW w \in Workers, NEW r \in menu, Request(w, r)
      PROVE  Base'
  BY <1>2, CreateQuestionBase, UpdateQuestionBase, SetOptionsBase,
     SetOverallExplanationBase, RetirementBase, AssignTopicBulkBase, FileReportBase,
     SetReportStatusBase
     DEF Request
<1>3. ASSUME NEW w \in Workers, Serve(w)
      PROVE  Base'
  BY <1>3, RehashBase, CommitEditBase, DeleteOptionsBase, WipeOptionsBase,
     CommitOptionsBase, CommitExplanationBase, RetirementCommitBase, CommitBulkBase,
     CommitReportBase
     DEF Serve
<1> QED
  BY <1>1, <1>2, <1>3, FailBase, DeleteTopicBase DEF Next

LEMMA BaseInductive == Spec => []Base
BY InitBase, BaseStep, PTL DEF Spec

\* The tables, jobs and history always have the shape their tables and sessions
\* allow: what TypeOK says of the state of QuestionBank.
THEOREM TypeCorrect == Spec => []TypeOK
<1>1. Base => TypeOK
  BY DEF Base, Typed, JobFits, Job, TypeOK
<1> QED
  BY <1>1, BaseInductive, PTL

-----------------------------------------------------------------------------
(* Every question can be answered                                           *)

\* Options are there, and all of them can be answered.
Answerable(q) ==
  /\ options[q] # {}
  /\ \A b \in options[q] : Answers(b.form)

AlwaysAnswers == \A q \in Questions : bank[q] # None => Answerable(q)

\* Steps that leave the options alone and create nothing.
LEMMA OptionsStay ==
  ASSUME AlwaysAnswers, UNCHANGED options,
         \A q \in Questions : bank'[q] # None => bank[q] # None
  PROVE  AlwaysAnswers'
BY DEF AlwaysAnswers, Answerable

LEMMA AnswersStep == Base /\ AlwaysAnswers /\ [Next]_vars => AlwaysAnswers'
<1> SUFFICES ASSUME Base, AlwaysAnswers, [Next]_vars
             PROVE  AlwaysAnswers'
  OBVIOUS
<1>1. CASE UNCHANGED <<bank, options>>
  BY <1>1, OptionsStay
<1>2. ASSUME NEW w \in Workers, NEW r \in menu, Request(w, r)
      PROVE  AlwaysAnswers'
  <2>1. CASE CreateQuestion(w, r)
    <3>1. r \in Requests /\ r.op = "create"
      BY <2>1, MenusAssumption DEF Base, Typed, CreateQuestion
    <3>2. r.question \in Questions /\ r.form \in OptionSets /\ Answers(r.form)
      BY <2>1, <3>1, RequestShapes, ValidAnswers DEF CreateQuestion
    <3>3. PICK q \in Questions, batch \in Batch :
            q = r.question /\ batch = [id |-> 0, form |-> r.form]
      BY <3>2 DEF Batch
    <3>4. options' = [options EXCEPT ![q] = {batch}]
      BY <2>1, <3>3 DEF CreateQuestion
    <3>5. \A p \in Questions \ {q} : bank'[p] = bank[p]
      BY <2>1, <3>3 DEF CreateQuestion, Base, Typed
    <3>6. batch.form = r.form
      BY <3>3
    <3> QED
      BY <3>2, <3>4, <3>5, <3>6 DEF AlwaysAnswers, Answerable, Base, Typed
  <2>2. CASE ~CreateQuestion(w, r)
    <3>1. UNCHANGED <<bank, options>>
      BY <1>2, <2>2
         DEF Request, UpdateQuestion, SetOptions, SetOverallExplanation, Retire, Restore,
             AssignTopicBulk, FileReport, SetReportStatus, Begins, content
    <3> QED
      BY <3>1, OptionsStay
  <2> QED
    BY <2>1, <2>2
<1>3. ASSUME NEW w \in Workers, Serve(w)
      PROVE  AlwaysAnswers'
  <2>1. CASE CommitOptions(w)
    <3>1. PICK q \in Questions, batch \in Batch, new \in Question : Saved(w, q, batch, new)
      BY <2>1, SavedOptions
    <3>2. /\ options' = [options EXCEPT ![q] = (options[q] \ job[w].wiped) \cup {batch}]
          /\ bank' = [bank EXCEPT ![q] = new]
          /\ bank[q] # None /\ Answers(batch.form)
      BY <3>1, NoneAssumption DEF Saved
    <3> QED
      BY <3>2 DEF AlwaysAnswers, Answerable, Base, Typed
  <2>2. CASE CommitEdit(w)
    <3>1. \A q \in Questions : bank'[q] # None => bank[q] # None
      BY <2>2, EditedRow, NoneAssumption DEF Edited, Base, Typed
    <3> QED
      BY <2>2, <3>1, OptionsStay DEF CommitEdit
  <2>3. CASE CommitRetire(w) \/ CommitRestore(w)
    <3>1. PICK q \in Questions, new \in Question :
            bank[q] \in Question /\ bank' = [bank EXCEPT ![q] = new]
      BY <2>3, RetiredRow
    <3>2. \A p \in Questions : bank'[p] # None => bank[p] # None
      BY <3>1, NoneAssumption DEF Base, Typed
    <3>3. UNCHANGED options
      BY <2>3 DEF CommitRetire, CommitRestore
    <3> QED
      BY <3>2, <3>3, OptionsStay
  <2>4. CASE CommitBulk(w)
    <3>1. \A q \in Questions : bank'[q] # None => bank[q] # None
      BY <2>4, BulkRows, NoneAssumption
    <3> QED
      BY <2>4, <3>1, OptionsStay DEF CommitBulk
  <2>5. CASE Rehash(w) \/ DeleteOptions(w) \/ WipeOptions(w) \/ CommitExplanation(w)
             \/ CommitReport(w)
    <3>1. UNCHANGED <<bank, options>>
      BY <2>5 DEF Rehash, DeleteOptions, WipeOptions, CommitExplanation, CommitReport, content
    <3> QED
      BY <3>1, OptionsStay
  <2> QED
    BY <1>3, <2>1, <2>2, <2>3, <2>4, <2>5 DEF Serve
<1>4. ASSUME NEW w \in Workers, Fail(w)
      PROVE  AlwaysAnswers'
  BY <1>1, <1>4 DEF Fail, content
<1>5. ASSUME NEW t \in Topics, DeleteTopic(t)
      PROVE  AlwaysAnswers'
  BY <1>1, <1>5 DEF DeleteTopic, content
<1>6. CASE UNCHANGED vars
  BY <1>1, <1>6 DEF vars, content
<1> QED
  BY <1>2, <1>3, <1>4, <1>5, <1>6 DEF Next

\* However saves of options overlap or are cut off, a question that has a row has
\* options that can be answered (question_service.set_options, create_question).
THEOREM QuestionsAnswerable == Spec => []AlwaysAnswerable
<1>1. Init => AlwaysAnswers
  BY DEF Init, AlwaysAnswers
<1>2. AlwaysAnswers => AlwaysAnswerable
  BY DEF AlwaysAnswers, Answerable, Answers, AlwaysAnswerable
<1> QED
  BY <1>1, <1>2, BaseInductive, AnswersStep, PTL DEF Spec

-----------------------------------------------------------------------------
(* Topics of the same exam                                                  *)

MovesFit ==
  \A q \in Questions :
    bank[q] # None /\ bank'[q].topic \notin {bank[q].topic, None} =>
      /\ bank'[q].topic \in topics'
      /\ TopicExam[bank'[q].topic] = bank[q].exam

LEMMA MovesStep == Base /\ [Next]_vars => MovesFit
<1> SUFFICES ASSUME Base, [Next]_vars
             PROVE  MovesFit
  OBVIOUS
<1>1. CASE UNCHANGED bank
  BY <1>1 DEF MovesFit
<1>2. ASSUME NEW w \in Workers, NEW r \in menu, Request(w, r)
      PROVE  MovesFit
  <2>1. CASE CreateQuestion(w, r)
    <3>1. \A q \in Questions : bank[q] # None => bank'[q] = bank[q]
      BY <2>1 DEF CreateQuestion, Base, Typed
    <3> QED
      BY <3>1 DEF MovesFit
  <2>2. CASE ~CreateQuestion(w, r)
    <3>1. UNCHANGED bank
      BY <1>2, <2>2
         DEF Request, UpdateQuestion, SetOptions, SetOverallExplanation, Retire, Restore,
             AssignTopicBulk, FileReport, SetReportStatus, Begins, content
    <3> QED
      BY <1>1, <3>1
  <2> QED
    BY <2>1, <2>2
<1>3. ASSUME NEW w \in Workers, Serve(w)
      PROVE  MovesFit
  <2>1. CASE CommitOptions(w)
    <3>1. PICK q \in Questions, batch \in Batch, new \in Question : Saved(w, q, batch, new)
      BY <2>1, SavedOptions
    <3>2. bank' = [bank EXCEPT ![q] = new] /\ new.topic = bank[q].topic
      BY <3>1 DEF Saved
    <3> QED
      BY <3>2 DEF MovesFit, Base, Typed
  <2>2. CASE CommitEdit(w)
    <3>1. UNCHANGED topics
      BY <2>2 DEF CommitEdit
    <3>2. CASE \E q \in Questions, new \in Question : Edited(w, q, new)
      BY <3>1, <3>2 DEF Edited, MovesFit, Base, Typed
    <3> QED
      BY <1>1, <2>2, <3>2, EditedRow
  <2>3. CASE CommitRetire(w) \/ CommitRestore(w)
    <3>1. PICK q \in Questions, new \in Question :
            bank' = [bank EXCEPT ![q] = new] /\ new.topic = bank[q].topic
      BY <2>3, RetiredRow
    <3> QED
      BY <3>1 DEF MovesFit, Base, Typed
  <2>4. CASE CommitBulk(w)
    <3>1. UNCHANGED topics
      BY <2>4 DEF CommitBulk
    <3> QED
      BY <1>1, <2>4, <3>1, BulkRows DEF MovesFit
  <2>5. CASE Rehash(w) \/ DeleteOptions(w) \/ WipeOptions(w) \/ CommitExplanation(w)
             \/ CommitReport(w)
    <3>1. UNCHANGED bank
      BY <2>5 DEF Rehash, DeleteOptions, WipeOptions, CommitExplanation, CommitReport, content
    <3> QED
      BY <1>1, <3>1
  <2> QED
    BY <1>3, <2>1, <2>2, <2>3, <2>4, <2>5 DEF Serve
<1>4. ASSUME NEW w \in Workers, Fail(w)
      PROVE  MovesFit
  BY <1>1, <1>4 DEF Fail, content
<1>5. ASSUME NEW t \in Topics, DeleteTopic(t)
      PROVE  MovesFit
  BY <1>1, <1>5 DEF DeleteTopic, content
<1>6. CASE UNCHANGED vars
  BY <1>1, <1>6 DEF vars, content
<1> QED
  BY <1>2, <1>3, <1>4, <1>5, <1>6 DEF Next

\* Though a topic is looked at long before it is written, no edit and no bulk
\* assignment moves a question to a topic of another exam, or to a deleted one
\* (question_service.update_question, assign_topic_bulk).
THEOREM MovesStayInExam == Spec => TopicsFit
<1>1. Base /\ [Next]_vars => [MovesFit]_vars
  BY MovesStep
<1> QED
  BY <1>1, BaseInductive, PTL DEF Spec, TopicsFit, MovesFit

-----------------------------------------------------------------------------
(* Questions settle                                                         *)

\* What the request of a worker touches.
EditsText(w) == pc[w] \in EditSteps /\ job[w].request.text # None
EditsContent(w) == pc[w] \in OptionSteps \/ EditsText(w)
Target(w) == job[w].request.question
Touches(w) ==
  {p \in {<<Target(w), "content">>} : EditsContent(w)}
  \cup {p \in {<<Target(w), "explanation">>} : pc[w] \in ExplanationSteps}

\* A request that counts as alone touches what no other request touches.
KeepsApart(v, w) == v # w /\ Touches(v) \cap Touches(w) # {} => ~job[w].alone

\* What a request that has been alone has read is still so.
StillTrue(w) ==
  job[w].alone =>
    /\ EditsContent(w) => /\ job[w].loaded.text = bank[Target(w)].text
                          /\ job[w].loaded.key = bank[Target(w)].key
                          /\ job[w].loaded.hash = bank[Target(w)].hash
    /\ EditsText(w) /\ pc[w] = "commit edit" =>
         job[w].hash = HashOf(job[w].request.text, options[Target(w)])
    /\ pc[w] \in {"wait", "commit options"} => job[w].seen = options[Target(w)]
    /\ pc[w] = "commit options" => job[w].wiped = options[Target(w)]
    /\ pc[w] = "insert explanation" => explanations[Target(w)] = 0

\* Only an edit of the text brings a new hash.
HashesText(w) == pc[w] \in EditSteps /\ job[w].request.text = None => job[w].hash = None

ContentSettled(q) ==
  bank[q] # None /\ <<q, "content">> \notin contested =>
    \E b \in options[q] : /\ options[q] = {b}
                          /\ bank[q].key = b.form.correct
                          /\ bank[q].hash = HashOf(bank[q].text, {b})
ExplanationSettled(q) ==
  bank[q] # None /\ <<q, "explanation">> \notin contested => explanations[q] <= 1

JobsSettle ==
  /\ \A v, w \in Workers : KeepsApart(v, w)
  /\ \A w \in Workers : StillTrue(w) /\ HashesText(w)
SInv ==
  /\ JobsSettle
  /\ \A q \in Questions : ContentSettled(q) /\ ExplanationSettled(q)

\* The same by the step and the request alone.
TouchedAt(step, r) ==
  {p \in {<<r.question, "content">>} :
     step \in OptionSteps \/ (step \in EditSteps /\ r.text # None)}
  \cup {p \in {<<r.question, "explanation">>} : step \in ExplanationSteps}
OpAt(step, r) ==
  /\ step \in EditSteps => r.op = "edit"
  /\ step \in OptionSteps => r.op = "options"
  /\ step \in ExplanationSteps => r.op = "explanation"
  /\ step \in {"commit retire", "commit restore", "commit bulk", "commit report"} =>
       r.op \in {"retire", "restore", "bulk", "close"}

LEMMA PartsTouchedAt ==
  ASSUME NEW r \in Requests, NEW step \in Steps \ {"idle"}, OpAt(step, r)
  PROVE  Parts(r) = TouchedAt(step, r)
<1>1. r # None
  BY RequestShapes
<1>2. CASE step \in OptionSteps
  <2>1. r.op = "options" /\ step \notin ExplanationSteps
    BY <1>2 DEF OpAt, OptionSteps, ExplanationSteps
  <2>2. Parts(r) = {<<r.question, "content">>}
    BY <1>1, <2>1 DEF Parts
  <2> QED
    BY <1>2, <2>1, <2>2 DEF TouchedAt
<1>3. CASE step \in EditSteps
  <2>1. r.op = "edit" /\ step \notin ExplanationSteps /\ step \notin OptionSteps
    BY <1>3 DEF OpAt, OptionSteps, ExplanationSteps, EditSteps
  <2>2. Parts(r) = IF r.text # None THEN {<<r.question, "content">>} ELSE {}
    BY <1>1, <2>1 DEF Parts
  <2> QED
    BY <1>3, <2>1, <2>2 DEF TouchedAt
<1>4. CASE step \in ExplanationSteps
  <2>1. r.op = "explanation" /\ step \notin EditSteps /\ step \notin OptionSteps
    BY <1>4 DEF OpAt, OptionSteps, ExplanationSteps, EditSteps
  <2>2. Parts(r) = {<<r.question, "explanation">>}
    BY <1>1, <2>1 DEF Parts
  <2> QED
    BY <1>4, <2>1, <2>2 DEF TouchedAt
<1>5. CASE step \notin OptionSteps \cup EditSteps \cup ExplanationSteps
  <2>1. r.op \in {"retire", "restore", "bulk", "close"}
    BY <1>5 DEF OpAt, Steps, OptionSteps, EditSteps, ExplanationSteps
  <2>2. Parts(r) = {}
    BY <1>1, <2>1 DEF Parts
  <2> QED
    BY <1>5, <2>2 DEF TouchedAt
<1> QED
  BY <1>2, <1>3, <1>4, <1>5

LEMMA PartsTouched ==
  ASSUME Base, NEW w \in Workers, pc[w] # "idle"
  PROVE  Parts(job[w].request) = Touches(w)
<1>1. PICK r \in Requests, step \in Steps, loaded \in Question \cup Report \cup {None} :
         r = job[w].request /\ step = pc[w] /\ loaded = job[w].loaded
  BY UnderWay DEF Base, Typed, Job
<1>2. RequestFits(step, r, loaded) /\ step # "idle"
  BY <1>1, UnderWay
<1>3. OpAt(step, r)
  BY <1>2 DEF RequestFits, OpAt
<1>4. Touches(w) = TouchedAt(step, r)
  BY <1>1 DEF Touches, EditsContent, EditsText, Target, TouchedAt
<1> QED
  BY <1>1, <1>2, <1>3, <1>4, PartsTouchedAt

LEMMA IdleTouchesNothing ==
  ASSUME NEW w, pc[w] = "idle"
  PROVE  Touches(w) = {} /\ StillTrue(w) /\ HashesText(w)
BY DEF Touches, EditsContent, EditsText, StillTrue, HashesText, EditSteps, OptionSteps,
       ExplanationSteps

\* The content, and the explanations, of a question that no step has touched.
SameContent(q) ==
  bank'[q] # None =>
    /\ bank[q] # None /\ options'[q] = options[q]
    /\ bank'[q].text = bank[q].text /\ bank'[q].key = bank[q].key
    /\ bank'[q].hash = bank[q].hash
SameExplanations(q) ==
  bank'[q] # None => bank[q] # None /\ explanations'[q] = explanations[q]

\* The job of a worker that takes no part in a step; it may be overlapped by it.
SameJob(v) ==
  /\ pc'[v] = pc[v] /\ job'[v].request = job[v].request
  /\ job'[v].loaded = job[v].loaded /\ job'[v].hash = job[v].hash
  /\ job'[v].seen = job[v].seen /\ job'[v].wiped = job[v].wiped
  /\ job'[v].alone => job[v].alone

LEMMA SameTouches ==
  ASSUME NEW v, SameJob(v)
  PROVE  Touches(v)' = Touches(v)
BY DEF SameJob, Touches, EditsContent, EditsText, Target

\* What an alone request has read stays true if nobody touches it.
LEMMA StaysTrue ==
  ASSUME Base, Base', NEW v \in Workers, SameJob(v), StillTrue(v), HashesText(v),
         job'[v].alone =>
           /\ EditsContent(v) => SameContent(Target(v))
           /\ pc[v] \in ExplanationSteps => SameExplanations(Target(v))
  PROVE  StillTrue(v)' /\ HashesText(v)'
<1>1. HashesText(v)'
  BY DEF SameJob, HashesText
<1>2. ASSUME job'[v].alone
      PROVE  StillTrue(v)'
  <2>1. job[v].alone
    BY <1>2 DEF SameJob
  <2>2. PICK q, step, text, loaded, hash, seen, wiped :
          /\ q = job[v].request.question /\ step = pc[v] /\ text = job[v].request.text
          /\ loaded = job[v].loaded /\ hash = job[v].hash /\ seen = job[v].seen
          /\ wiped = job[v].wiped
    OBVIOUS
  <2>3. /\ job'[v].request.question = q /\ pc'[v] = step /\ job'[v].request.text = text
        /\ job'[v].loaded = loaded /\ job'[v].hash = hash /\ job'[v].seen = seen
        /\ job'[v].wiped = wiped
    BY <2>2 DEF SameJob
  <2>4. CASE EditsContent(v)
    <3>1. bank'[q] # None /\ step \notin ExplanationSteps
      <4>1. pc'[v] \in QuestionSteps
        BY <2>2, <2>3, <2>4 DEF EditsContent, EditsText, QuestionSteps
      <4>2. bank'[q] \in Question
        <5>1. bank'[job'[v].request.question] # None
          BY <4>1 DEF Base, JobFits, RequestFits
        <5>2. job'[v].request.question \in Questions
          BY <4>1 DEF Base, JobFits, RequestFits
        <5> QED
          BY <2>3, <5>1, <5>2 DEF Base, Typed
      <4> QED
        BY <2>2, <2>4, <4>2, NoneAssumption
           DEF EditsContent, EditsText, EditSteps, OptionSteps, ExplanationSteps
    <3>2. /\ options'[q] = options[q]
          /\ bank'[q].text = bank[q].text /\ bank'[q].key = bank[q].key
          /\ bank'[q].hash = bank[q].hash
      BY <1>2, <2>2, <2>4, <3>1 DEF SameContent, Target
    <3>3. /\ loaded.text = bank[q].text /\ loaded.key = bank[q].key
          /\ loaded.hash = bank[q].hash
          /\ step \in EditSteps /\ text # None /\ step = "commit edit" =>
               hash = HashOf(text, options[q])
          /\ step \in {"wait", "commit options"} => seen = options[q]
          /\ step = "commit options" => wiped = options[q]
      BY <2>1, <2>2, <2>4 DEF StillTrue, EditsText, Target
    <3>4. step # "insert explanation"
      BY <3>1 DEF ExplanationSteps
    <3> QED
      BY <2>3, <3>2, <3>3, <3>4 DEF StillTrue, EditsText, EditsContent, Target
  <2>5. CASE pc[v] \in ExplanationSteps
    <3>1. bank'[q] # None
      <4>1. pc'[v] \in QuestionSteps
        BY <2>2, <2>3, <2>5 DEF QuestionSteps
      <4> QED
        BY <2>3, <4>1 DEF Base, JobFits, RequestFits
    <3>2. explanations'[q] = explanations[q]
      BY <1>2, <2>2, <2>5, <3>1 DEF SameExplanations, Target
    <3>3. step = "insert explanation" => explanations[q] = 0
      BY <2>1, <2>2, <2>5 DEF StillTrue, Target
    <3>4. step \notin EditSteps \cup OptionSteps
      BY <2>2, <2>5 DEF EditSteps, OptionSteps, ExplanationSteps
    <3> QED
      BY <2>3, <3>2, <3>3, <3>4 DEF StillTrue, EditsText, EditsContent, Target, OptionSteps
  <2>6. CASE ~EditsContent(v) /\ pc[v] \notin ExplanationSteps
    <3>1. ~EditsContent(v)' /\ ~EditsText(v)' /\ pc'[v] \notin ExplanationSteps
          /\ pc'[v] \notin OptionSteps
      BY <2>2, <2>3, <2>6 DEF EditsContent, EditsText
    <3> QED
      BY <3>1 DEF StillTrue, OptionSteps, ExplanationSteps
  <2> QED
    BY <2>4, <2>5, <2>6
<1> QED
  BY <1>1, <1>2 DEF StillTrue

\* Questions that are left alone, and whose history is, stay settled.
LEMMA StaySettled ==
  ASSUME NEW q \in Questions, SInv
  PROVE  /\ /\ SameContent(q)
            /\ <<q, "content">> \in contested => <<q, "content">> \in contested'
            => ContentSettled(q)'
         /\ /\ SameExplanations(q)
            /\ <<q, "explanation">> \in contested => <<q, "explanation">> \in contested'
            => ExplanationSettled(q)'
<1>1. ASSUME SameContent(q),
             <<q, "content">> \in contested => <<q, "content">> \in contested'
      PROVE  ContentSettled(q)'
  <2> SUFFICES ASSUME bank'[q] # None, <<q, "content">> \notin contested'
               PROVE  \E b \in options'[q] : /\ options'[q] = {b}
                                             /\ bank'[q].key = b.form.correct
                                             /\ bank'[q].hash = HashOf(bank'[q].text, {b})
    BY DEF ContentSettled
  <2>1. bank[q] # None /\ <<q, "content">> \notin contested
    BY <1>1 DEF SameContent
  <2>2. PICK b \in options[q] : /\ options[q] = {b}
                                /\ bank[q].key = b.form.correct
                                /\ bank[q].hash = HashOf(bank[q].text, {b})
    BY <2>1 DEF SInv, ContentSettled
  <2>3. /\ options'[q] = options[q] /\ bank'[q].text = bank[q].text
        /\ bank'[q].key = bank[q].key /\ bank'[q].hash = bank[q].hash
    BY <1>1 DEF SameContent
  <2> QED
    BY <2>2, <2>3
<1>2. ASSUME SameExplanations(q),
             <<q, "explanation">> \in contested => <<q, "explanation">> \in contested'
      PROVE  ExplanationSettled(q)'
  BY <1>2 DEF SInv, ExplanationSettled, SameExplanations
<1> QED
  BY <1>1, <1>2

\* Requests that take no part in a step stay apart.
LEMMA ApartStay ==
  ASSUME SInv, NEW v \in Workers, NEW w \in Workers, SameJob(v), SameJob(w)
  PROVE  KeepsApart(v, w)'
<1>1. Touches(v)' = Touches(v) /\ Touches(w)' = Touches(w)
  BY SameTouches
<1>2. job'[w].alone => job[w].alone
  BY DEF SameJob
<1>3. KeepsApart(v, w)
  BY DEF SInv, JobsSettle
<1> QED
  BY <1>1, <1>2, <1>3 DEF KeepsApart

\* What a request has read when it begins.
HasRead(step, r, loaded) ==
  /\ step \in QuestionSteps => loaded = bank[r.question]
  /\ step = "commit edit" => r.text = None
  /\ step = "insert explanation" => explanations[r.question] = 0

\* A request that only looks leaves everything settled; who overlaps it is not
\* alone any more.
LEMMA BeginsSettles ==
  ASSUME Base, Base', SInv, NEW w \in Workers, NEW r \in Requests,
         NEW step \in Steps, step \notin {"idle", "wait", "commit options"},
         NEW loaded \in Question \cup Report \cup {None},
         Begins(w, r, step, loaded), HasRead(step, r, loaded)
  PROVE  SInv'
<1>1. /\ pc'[w] = step /\ job'[w].request = r /\ job'[w].loaded = loaded
      /\ job'[w].hash = None /\ job'[w].seen = {} /\ job'[w].wiped = {}
      /\ Others(w)
      /\ UNCHANGED <<bank, options, explanations, topics, reports, menu, contested>>
  BY BeginsDoes
<1>2. \A q \in Questions : ContentSettled(q)' /\ ExplanationSettled(q)'
  BY <1>1, StaySettled DEF SameContent, SameExplanations
<1>3. /\ job'[w].alone => Rivals(w, r) = {}
      /\ \A v \in Workers \ {w} :
           /\ job'[v].alone => job[v].alone
           /\ v \in Rivals(w, r) => ~job'[v].alone
  <2>1. job' = [v \in Workers |->
         IF v = w THEN [NoJob EXCEPT !.request = r, !.loaded = loaded,
                                     !.alone = Rivals(w, r) = {}]
         ELSE IF v \in Rivals(w, r) THEN [job[v] EXCEPT !.alone = FALSE] ELSE job[v]]
    BY DEF Begins
  <2>2. job'[w].alone => Rivals(w, r) = {}
    BY <2>1 DEF NoJob
  <2>3. \A v \in Workers \ {w} : v \in Rivals(w, r) => ~job'[v].alone
    BY <2>1 DEF Base, Typed, Job
  <2>4. \A v \in Workers \ {w} : v \notin Rivals(w, r) => job'[v] = job[v]
    BY <2>1
  <2> QED
    BY <2>2, <2>3, <2>4
<1>4. \A v \in Workers \ {w} : SameJob(v)
  BY <1>1, <1>3 DEF Others, SameJob
<1>5. Touches(w)' = Parts(r)
  <2>1. RequestFits(step, r, loaded)'
    BY <1>1 DEF Base, JobFits, RequestFits
  <2>2. OpAt(step, r)
    BY <2>1 DEF RequestFits, OpAt
  <2>3. Touches(w)' = TouchedAt(step, r)
    BY <1>1 DEF Touches, EditsContent, EditsText, Target, TouchedAt
  <2> QED
    BY <2>2, <2>3, PartsTouchedAt
<1>6. \A v \in Workers \ {w} : Touches(v)' \cap Touches(w)' # {} => v \in Rivals(w, r)
  <2> SUFFICES ASSUME NEW v \in Workers \ {w}, Touches(v)' \cap Touches(w)' # {}
               PROVE  v \in Rivals(w, r)
    OBVIOUS
  <2>1. Touches(v)' = Touches(v)
    BY <1>4, SameTouches
  <2>2. pc[v] # "idle"
    BY <2>1, IdleTouchesNothing
  <2>3. Parts(job[v].request) = Touches(v)
    BY <2>2, PartsTouched
  <2> QED
    BY <1>5, <2>1, <2>3 DEF Rivals
<1>7. ASSUME NEW u \in Workers, NEW v \in Workers
      PROVE  KeepsApart(u, v)'
  <2>1. CASE u # w /\ v # w
    BY <1>4, <2>1, ApartStay
  <2>2. CASE u = w /\ v # w
    BY <1>3, <1>6, <2>2 DEF KeepsApart
  <2>3. CASE u # w /\ v = w
    BY <1>3, <1>6, <2>3 DEF KeepsApart
  <2> QED
    BY <2>1, <2>2, <2>3 DEF KeepsApart
<1>8. \A v \in Workers \ {w} : StillTrue(v)' /\ HashesText(v)'
  <2> TAKE v \in Workers \ {w}
  <2>1. StillTrue(v) /\ HashesText(v)
    BY DEF SInv, JobsSettle
  <2>2. SameContent(Target(v)) /\ SameExplanations(Target(v))
    BY <1>1 DEF SameContent, SameExplanations
  <2> QED
    BY <1>4, <2>1, <2>2, StaysTrue
<1>9. StillTrue(w)' /\ HashesText(w)'
  <2>1. HashesText(w)'
    BY <1>1 DEF HashesText
  <2>2. EditsContent(w)' => step \in QuestionSteps
    BY <1>1 DEF EditsContent, EditsText, QuestionSteps
  <2>3. StillTrue(w)'
    BY <1>1, <2>2 DEF StillTrue, EditsText, Target, HasRead
  <2> QED
    BY <2>1, <2>3
<1> QED
  BY <1>2, <1>7, <1>8, <1>9 DEF SInv, JobsSettle

\* A step that goes on without a commit.
LEMMA GoesOnSettles ==
  ASSUME Base, Base', SInv, NEW w \in Workers, NEW step \in Steps, NEW j \in Job,
         GoesOn(w, step, j),
         UNCHANGED <<content, topics, reports, menu, contested>>,
         j.alone => job[w].alone, Touches(w)' = Touches(w),
         StillTrue(w)', HashesText(w)'
  PROVE  SInv'
<1>1. /\ UNCHANGED <<bank, options, explanations, contested>>
      /\ job'[w] = j
      /\ \A v \in Workers \ {w} : pc'[v] = pc[v] /\ job'[v] = job[v]
  BY DEF content, GoesOn, Base, Typed
<1>2. \A q \in Questions : ContentSettled(q)' /\ ExplanationSettled(q)'
  BY <1>1, StaySettled DEF SameContent, SameExplanations
<1>3. \A v \in Workers \ {w} : SameJob(v)
  BY <1>1 DEF SameJob
<1>4. \A v \in Workers : Touches(v)' = Touches(v) /\ (job'[v].alone => job[v].alone)
  BY <1>1, <1>3, SameTouches
<1>5. \A u, v \in Workers : KeepsApart(u, v)'
  BY <1>4 DEF SInv, JobsSettle, KeepsApart
<1>6. \A v \in Workers \ {w} : StillTrue(v)' /\ HashesText(v)'
  <2> TAKE v \in Workers \ {w}
  <2>1. StillTrue(v) /\ HashesText(v)
    BY DEF SInv, JobsSettle
  <2>2. SameContent(Target(v)) /\ SameExplanations(Target(v))
    BY <1>1 DEF SameContent, SameExplanations
  <2> QED
    BY <1>3, <2>1, <2>2, StaysTrue
<1> QED
  BY <1>2, <1>5, <1>6 DEF SInv, JobsSettle

\* A commit, or a failure: nothing is touched but what the request is about, and
\* that is left settled or contested.
LEMMA CommitSettles ==
  ASSUME Base, Base', SInv, NEW w \in Workers, Replies(w),
         \A q \in Questions : <<q, "content">> \notin Touches(w) =>
            SameContent(q) /\ (<<q, "content">> \in contested => <<q, "content">> \in contested'),
         \A q \in Questions : <<q, "explanation">> \notin Touches(w) =>
            /\ SameExplanations(q)
            /\ <<q, "explanation">> \in contested => <<q, "explanation">> \in contested',
         \A q \in Questions : <<q, "content">> \in Touches(w) => ContentSettled(q)',
         \A q \in Questions : <<q, "explanation">> \in Touches(w) => ExplanationSettled(q)'
  PROVE  SInv'
<1>1. \A q \in Questions : ContentSettled(q)' /\ ExplanationSettled(q)'
  BY StaySettled
<1>2. /\ pc'[w] = "idle"
      /\ \A v \in Workers \ {w} : pc'[v] = pc[v] /\ job'[v] = job[v]
  BY DEF Replies, GoesOn, Base, Typed
<1>3. \A v \in Workers \ {w} : SameJob(v)
  BY <1>2 DEF SameJob
<1>4. Touches(w)' = {} /\ StillTrue(w)' /\ HashesText(w)'
  BY <1>2 DEF Touches, EditsContent, EditsText, StillTrue, HashesText, EditSteps,
              OptionSteps, ExplanationSteps
<1>5. ASSUME NEW u \in Workers, NEW v \in Workers
      PROVE  KeepsApart(u, v)'
  <2>1. CASE u # w /\ v # w
    BY <1>3, <2>1, ApartStay
  <2>2. CASE u = w \/ v = w
    BY <1>4, <2>2 DEF KeepsApart
  <2> QED
    BY <2>1, <2>2
<1>6. ASSUME NEW v \in Workers \ {w}
      PROVE  StillTrue(v)' /\ HashesText(v)'
  <2>1. StillTrue(v) /\ HashesText(v) /\ KeepsApart(w, v)
    BY DEF SInv, JobsSettle
  <2>2. ASSUME job'[v].alone, EditsContent(v)
        PROVE  SameContent(Target(v))
    <3>1. job[v].alone
      BY <1>2, <2>2
    <3>2. <<Target(v), "content">> \in Touches(v)
      BY <2>2 DEF Touches
    <3>3. Target(v) \in Questions
      BY <2>2 DEF EditsContent, EditsText, Target, QuestionSteps, Base, JobFits, RequestFits
    <3>4. <<Target(v), "content">> \notin Touches(w)
      BY <2>1, <3>1, <3>2 DEF KeepsApart
    <3> QED
      BY <3>3, <3>4
  <2>3. ASSUME job'[v].alone, pc[v] \in ExplanationSteps
        PROVE  SameExplanations(Target(v))
    <3>1. job[v].alone
      BY <1>2, <2>3
    <3>2. <<Target(v), "explanation">> \in Touches(v)
      BY <2>3 DEF Touches
    <3>3. Target(v) \in Questions
      BY <2>3 DEF Target, QuestionSteps, Base, JobFits, RequestFits
    <3>4. <<Target(v), "explanation">> \notin Touches(w)
      BY <2>1, <3>1, <3>2 DEF KeepsApart
    <3> QED
      BY <3>3, <3>4
  <2> QED
    BY <1>3, <2>1, <2>2, <2>3, StaysTrue
<1> QED
  BY <1>1, <1>4, <1>5, <1>6 DEF SInv, JobsSettle

\* A step that touches no question and no request.
LEMMA NothingTouched ==
  ASSUME Base, Base', SInv, UNCHANGED <<bank, options, explanations, pc, job, contested>>
  PROVE  SInv'
<1>1. \A v \in Workers : SameJob(v)
  BY DEF SameJob
<1>2. ASSUME NEW v \in Workers
      PROVE  StillTrue(v)' /\ HashesText(v)'
  <2>1. StillTrue(v) /\ HashesText(v)
    BY DEF SInv, JobsSettle
  <2>2. SameContent(Target(v)) /\ SameExplanations(Target(v))
    BY DEF SameContent, SameExplanations
  <2> QED
    BY <1>1, <2>1, <2>2, StaysTrue
<1>3. \A u, v \in Workers : KeepsApart(u, v)'
  BY <1>1, ApartStay
<1>4. \A q \in Questions : ContentSettled(q)' /\ ExplanationSettled(q)'
  BY StaySettled DEF SameContent, SameExplanations
<1> QED
  BY <1>2, <1>3, <1>4 DEF SInv, JobsSettle

LEMMA RequestSettles ==
  ASSUME Base, Base', SInv, NEW w \in Workers, pc[w] = "idle", NEW r \in menu,
         Request(w, r)
  PROVE  SInv'
<1>0. r \in Requests
  BY MenusAssumption DEF Base, Typed
<1>1. CASE CreateQuestion(w, r)
  <2>1. PICK q \in Questions, batch \in Batch, new \in Question, n \in 0..1 :
           Created(q, batch, new, n)
    BY <1>1, CreatedRow
  <2>2. /\ bank[q] = None /\ bank' = [bank EXCEPT ![q] = new]
        /\ options' = [options EXCEPT ![q] = {batch}]
        /\ explanations' = [explanations EXCEPT ![q] = n]
        /\ new.key = batch.form.correct /\ new.hash = HashOf(new.text, {batch})
        /\ UNCHANGED <<pc, job, contested>>
    BY <1>1, <2>1 DEF CreateQuestion, Created
  <2>3. \A p \in Questions \ {q} : SameContent(p) /\ SameExplanations(p)
    BY <2>2 DEF SameContent, SameExplanations, Base, Typed
  <2>4. \A p \in Questions \ {q} : ContentSettled(p)' /\ ExplanationSettled(p)'
    BY <2>2, <2>3, StaySettled
  <2>5. ContentSettled(q)' /\ ExplanationSettled(q)'
    <3>1. bank'[q] = new /\ options'[q] = {batch} /\ explanations'[q] = n /\ n <= 1
      BY <2>2 DEF Base, Typed
    <3> QED
      BY <2>2, <3>1 DEF ContentSettled, ExplanationSettled
  <2>6. ASSUME NEW v \in Workers
        PROVE  StillTrue(v)' /\ HashesText(v)'
    <3>1. SameJob(v) /\ StillTrue(v) /\ HashesText(v)
      BY <2>2 DEF SameJob, SInv, JobsSettle
    <3>2. EditsContent(v) \/ pc[v] \in ExplanationSteps => Target(v) \in Questions \ {q}
      BY <2>2 DEF EditsContent, EditsText, Target, QuestionSteps, Base, JobFits, RequestFits
    <3> QED
      BY <2>3, <3>1, <3>2, StaysTrue
  <2>7. \A u, v \in Workers : KeepsApart(u, v)'
    <3>1. \A v \in Workers : SameJob(v)
      BY <2>2 DEF SameJob
    <3> QED
      BY <3>1, ApartStay
  <2> QED
    BY <2>4, <2>5, <2>6, <2>7 DEF SInv, JobsSettle
<1>2. CASE FileReport(w, r)
  <2>1. UNCHANGED <<bank, options, explanations, pc, job, contested>>
    BY <1>2 DEF FileReport, content
  <2> QED
    BY <2>1, NothingTouched
<1>3. CASE UpdateQuestion(w, r)
  <2>1. r.question \in Questions
    BY <1>0, <1>3, RequestShapes DEF UpdateQuestion
  <2>2. PICK step \in {"read options", "commit edit"}, loaded \in Question :
          /\ loaded = bank[r.question] /\ loaded # None
          /\ step = "commit edit" => r.text = None
          /\ Begins(w, r, step, loaded)
    BY <1>3, <2>1, Loaded DEF UpdateQuestion
  <2>3. step \in Steps /\ step \notin {"idle", "wait", "commit options"}
    BY DEF Steps
  <2>4. HasRead(step, r, loaded)
    BY <2>2 DEF HasRead
  <2> QED
    BY <1>0, <2>2, <2>3, <2>4, BeginsSettles
<1>4. CASE SetOptions(w, r)
  <2>1. PICK loaded :
          /\ loaded = bank[r.question] /\ loaded # None
          /\ Begins(w, r, "delete options", loaded)
    BY <1>4 DEF SetOptions
  <2>2. r.question \in Questions
    BY <1>0, <1>4, RequestShapes DEF SetOptions
  <2>3. loaded \in Question
    BY <2>1, <2>2, Loaded
  <2>4. "delete options" \in Steps
    BY DEF Steps
  <2>5. HasRead("delete options", r, loaded)
    BY <2>1 DEF HasRead
  <2> QED
    BY <1>0, <2>1, <2>3, <2>4, <2>5, BeginsSettles
<1>5. CASE SetOverallExplanation(w, r)
  <2>1. r.question \in Questions
    BY <1>0, <1>5, RequestShapes DEF SetOverallExplanation
  <2>2. PICK step \in {"insert explanation", "update explanation"}, loaded \in Question :
          /\ loaded = bank[r.question] /\ loaded # None
          /\ step = "insert explanation" => explanations[r.question] = 0
          /\ Begins(w, r, step, loaded)
    BY <1>5, <2>1, Loaded DEF SetOverallExplanation
  <2>3. step \in Steps /\ step \notin {"idle", "wait", "commit options"}
    BY DEF Steps
  <2>4. HasRead(step, r, loaded)
    BY <2>2 DEF HasRead
  <2> QED
    BY <1>0, <2>2, <2>3, <2>4, BeginsSettles
<1>6. CASE Retire(w, r) \/ Restore(w, r)
  <2>1. r.question \in Questions
    BY <1>0, <1>6, RequestShapes DEF Retire, Restore
  <2>2. PICK step \in {"commit retire", "commit restore"}, loaded \in Question :
          /\ loaded = bank[r.question] /\ loaded # None
          /\ Begins(w, r, step, loaded)
    BY <1>6, <2>1, Loaded DEF Retire, Restore
  <2>3. step \in Steps /\ step \notin {"idle", "wait", "commit options"}
    BY DEF Steps
  <2>4. HasRead(step, r, loaded)
    BY <2>2 DEF HasRead
  <2> QED
    BY <1>0, <2>2, <2>3, <2>4, BeginsSettles
<1>7. CASE AssignTopicBulk(w, r)
  <2>1. PICK qs, asked :
          /\ qs = {q \in r.questions : bank[q] # None}
          /\ asked = [r EXCEPT !.questions = qs]
          /\ Begins(w, asked, "commit bulk", None)
    BY <1>7 DEF AssignTopicBulk
  <2>2. r.op = "bulk" /\ qs \in SUBSET Questions
    BY <1>0, <1>7, <2>1, RequestShapes DEF AssignTopicBulk
  <2>3. asked \in Requests
    BY <1>0, <2>1, <2>2, BulkNarrowed
  <2>4. "commit bulk" \in Steps /\ None \in Question \cup Report \cup {None}
    BY DEF Steps
  <2>5. HasRead("commit bulk", asked, None)
    BY DEF HasRead, QuestionSteps, EditSteps, OptionSteps, ExplanationSteps
  <2> QED
    BY <2>1, <2>3, <2>4, <2>5, BeginsSettles
<1>8. CASE SetReportStatus(w, r)
  <2>1. PICK loaded : /\ loaded = reports[r.report] /\ loaded # None
                      /\ Begins(w, r, "commit report", loaded)
    BY <1>8 DEF SetReportStatus
  <2>2. loaded \in Report
    BY <1>0, <1>8, <2>1, RequestShapes DEF SetReportStatus, Base, Typed
  <2>3. "commit report" \in Steps
    BY DEF Steps
  <2>4. HasRead("commit report", r, loaded)
    BY DEF HasRead, QuestionSteps, EditSteps, OptionSteps, ExplanationSteps
  <2> QED
    BY <1>0, <2>1, <2>2, <2>3, <2>4, BeginsSettles
<1> QED
  BY <1>1, <1>2, <1>3, <1>4, <1>5, <1>6, <1>7, <1>8 DEF Request

LEMMA RehashSettles ==
  ASSUME Base, Base', SInv, NEW w \in Workers, Rehash(w)
  PROVE  SInv'
<1>1. pc[w] = "read options"
  BY DEF Rehash
<1>2. job[w].request.text # None /\ job[w] \in Job
  BY <1>1, UnderWay DEF RequestFits
<1>3. PICK h, j : /\ h = HashOf(job[w].request.text, options[job[w].request.question])
                  /\ j = [job[w] EXCEPT !.hash = h]
  OBVIOUS
<1>4. /\ GoesOn(w, "commit edit", j)
      /\ UNCHANGED <<content, topics, reports, menu, contested>>
  BY <1>3 DEF Rehash
<1>5. pc'[w] = "commit edit" /\ job'[w] = j /\ j \in Job
  BY <1>4 DEF GoesOn, Base, Typed
<1>6. /\ j.request = job[w].request /\ j.loaded = job[w].loaded /\ j.hash = h
      /\ j.alone = job[w].alone
  BY <1>2, <1>3 DEF Job
<1>7. Touches(w)' = Touches(w)
  BY <1>1, <1>2, <1>5, <1>6 DEF Touches, EditsContent, EditsText, Target, EditSteps,
                                OptionSteps, ExplanationSteps
<1>8. HashesText(w)'
  BY <1>2, <1>5, <1>6 DEF HashesText
<1>9. StillTrue(w)'
  <2>1. StillTrue(w) /\ EditsContent(w)
    BY <1>1, <1>2 DEF SInv, JobsSettle, EditsContent, EditsText, EditSteps
  <2>2. UNCHANGED <<bank, options>>
    BY <1>4 DEF content
  <2>3. job[w].alone => /\ job[w].loaded.text = bank[Target(w)].text
                        /\ job[w].loaded.key = bank[Target(w)].key
                        /\ job[w].loaded.hash = bank[Target(w)].hash
    BY <2>1 DEF StillTrue
  <2> QED
    BY <1>3, <1>5, <1>6, <2>2, <2>3 DEF StillTrue, Target
<1>10. "commit edit" \in Steps
  BY DEF Steps
<1> QED
  BY <1>4, <1>5, <1>6, <1>7, <1>8, <1>9, <1>10, GoesOnSettles

LEMMA DeleteOptionsSettles ==
  ASSUME Base, Base', SInv, NEW w \in Workers, DeleteOptions(w)
  PROVE  SInv'
<1>1. pc[w] = "delete options"
  BY DEF DeleteOptions
<1>2. job[w] \in Job
  BY <1>1, UnderWay
<1>3. PICK seen, j : /\ seen = options[job[w].request.question]
                     /\ j = [job[w] EXCEPT !.seen = seen]
  OBVIOUS
<1>4. /\ GoesOn(w, "wait", j)
      /\ UNCHANGED <<content, topics, reports, menu, contested>>
  BY <1>3 DEF DeleteOptions
<1>5. pc'[w] = "wait" /\ job'[w] = j /\ j \in Job
  BY <1>4 DEF GoesOn, Base, Typed
<1>6. /\ j.request = job[w].request /\ j.loaded = job[w].loaded /\ j.seen = seen
      /\ j.alone = job[w].alone
  BY <1>2, <1>3 DEF Job
<1>7. Touches(w)' = Touches(w)
  BY <1>1, <1>5, <1>6 DEF Touches, EditsContent, EditsText, Target, EditSteps,
                          OptionSteps, ExplanationSteps
<1>8. HashesText(w)'
  BY <1>5 DEF HashesText, EditSteps
<1>9. StillTrue(w)'
  <2>1. StillTrue(w) /\ EditsContent(w)
    BY <1>1 DEF SInv, JobsSettle, EditsContent, OptionSteps
  <2>2. UNCHANGED <<bank, options>>
    BY <1>4 DEF content
  <2>3. job[w].alone => /\ job[w].loaded.text = bank[Target(w)].text
                        /\ job[w].loaded.key = bank[Target(w)].key
                        /\ job[w].loaded.hash = bank[Target(w)].hash
    BY <2>1 DEF StillTrue
  <2> QED
    BY <1>3, <1>5, <1>6, <2>2, <2>3 DEF StillTrue, Target
<1>10. "wait" \in Steps
  BY DEF Steps
<1> QED
  BY <1>4, <1>5, <1>6, <1>7, <1>8, <1>9, <1>10, GoesOnSettles

LEMMA WipeOptionsSettles ==
  ASSUME Base, Base', SInv, NEW w \in Workers, WipeOptions(w)
  PROVE  SInv'
<1>1. pc[w] = "wait"
  BY DEF WipeOptions
<1>2. job[w] \in Job
  BY <1>1, UnderWay
<1>3. PICK wiped, j : /\ wiped = job[w].seen \cap options[job[w].request.question]
                      /\ j = [job[w] EXCEPT !.wiped = wiped]
  OBVIOUS
<1>4. /\ GoesOn(w, "commit options", j)
      /\ UNCHANGED <<content, topics, reports, menu, contested>>
  BY <1>3 DEF WipeOptions
<1>5. pc'[w] = "commit options" /\ job'[w] = j /\ j \in Job
  BY <1>4 DEF GoesOn, Base, Typed
<1>6. /\ j.request = job[w].request /\ j.loaded = job[w].loaded /\ j.seen = job[w].seen
      /\ j.wiped = wiped /\ j.alone = job[w].alone
  BY <1>2, <1>3 DEF Job
<1>7. Touches(w)' = Touches(w)
  BY <1>1, <1>5, <1>6 DEF Touches, EditsContent, EditsText, Target, EditSteps,
                          OptionSteps, ExplanationSteps
<1>8. HashesText(w)'
  BY <1>5 DEF HashesText, EditSteps
<1>9. StillTrue(w)'
  <2>1. StillTrue(w) /\ EditsContent(w)
    BY <1>1 DEF SInv, JobsSettle, EditsContent, OptionSteps
  <2>2. UNCHANGED <<bank, options>>
    BY <1>4 DEF content
  <2>3. job[w].alone => /\ job[w].loaded.text = bank[Target(w)].text
                        /\ job[w].loaded.key = bank[Target(w)].key
                        /\ job[w].loaded.hash = bank[Target(w)].hash
                        /\ job[w].seen = options[Target(w)]
    BY <1>1, <2>1 DEF StillTrue
  <2>4. Target(w)' = Target(w) /\ Target(w) = job[w].request.question
    BY <1>5, <1>6 DEF Target
  <2>5. job[w].alone => wiped = options[Target(w)]
    <3> HAVE job[w].alone
    <3>1. wiped = job[w].seen \cap options[Target(w)] /\ job[w].seen = options[Target(w)]
      BY <1>3, <2>3, <2>4
    <3> QED
      BY <3>1
  <2>6. pc'[w] = "commit options"
    BY <1>5
  <2> QED
    BY <1>5, <1>6, <2>2, <2>3, <2>4, <2>5, <2>6 DEF StillTrue
<1>10. "commit options" \in Steps
  BY DEF Steps
<1> QED
  BY <1>4, <1>5, <1>6, <1>7, <1>8, <1>9, <1>10, GoesOnSettles

\* What Contest leaves of the history.
LEMMA Contests ==
  ASSUME Base, NEW w \in Workers, pc[w] # "idle", Contest(w)
  PROVE  /\ \A q, part : <<q, part>> \notin Touches(w) =>
              (<<q, part>> \in contested' <=> <<q, part>> \in contested)
         /\ ~job[w].alone => Touches(w) \subseteq contested'
         /\ pc[w] \notin OptionSteps => contested \subseteq contested'
<1>1. PICK parts : parts = Parts(job[w].request) /\ parts = Touches(w)
  BY PartsTouched
<1>2. contested' = IF ~job[w].alone THEN contested \cup parts
                   ELSE IF job[w].request.op = "options" THEN contested \ parts
                   ELSE contested
  BY <1>1 DEF Contest
<1>3. pc[w] \notin OptionSteps => parts = {} \/ job[w].request.op # "options"
  <2>1. RequestFits(pc[w], job[w].request, job[w].loaded)
    BY UnderWay
  <2>2. CASE pc[w] \in EditSteps \cup ExplanationSteps
    BY <2>1, <2>2 DEF RequestFits
  <2>3. CASE pc[w] \notin EditSteps \cup ExplanationSteps \cup OptionSteps
    BY <1>1, <2>3 DEF Touches, EditsContent, EditsText
  <2> QED
    BY <2>2, <2>3
<1> QED
  BY <1>1, <1>2, <1>3

LEMMA CommitEditSettles ==
  ASSUME Base, Base', SInv, NEW w \in Workers, CommitEdit(w)
  PROVE  SInv'
<1>1. /\ pc[w] = "commit edit" /\ Replies(w)
      /\ UNCHANGED <<options, explanations>>
  BY DEF CommitEdit
<1>2. \A p \in Questions : <<p, "explanation">> \notin Touches(w)
  BY <1>1 DEF Touches, ExplanationSteps
<1>3. CASE UNCHANGED <<bank, contested>>
  <2>1. \A p \in Questions : SameContent(p) /\ SameExplanations(p)
    BY <1>1, <1>3 DEF SameContent, SameExplanations
  <2>2. \A p \in Questions : ContentSettled(p)'
    BY <1>3, <2>1, StaySettled
  <2> QED
    BY <1>1, <1>2, <1>3, <2>1, <2>2, CommitSettles
<1>4. ASSUME NEW q \in Questions, NEW new \in Question, Edited(w, q, new)
      PROVE  SInv'
  <2>1. /\ q = Target(w) /\ bank[q] \in Question /\ bank[q] # None
        /\ bank' = [bank EXCEPT ![q] = new]
        /\ new.key = bank[q].key /\ Contest(w)
    BY <1>4, NoneAssumption DEF Edited, Target
  <2>2. /\ bank'[q] = new
        /\ \A p \in Questions \ {q} : bank'[p] = bank[p]
    BY <2>1 DEF Base, Typed
  <2>3. /\ \A p, part : <<p, part>> \notin Touches(w) =>
             (<<p, part>> \in contested' <=> <<p, part>> \in contested)
        /\ ~job[w].alone => Touches(w) \subseteq contested'
        /\ contested \subseteq contested'
    BY <1>1, <2>1, Contests DEF OptionSteps
  <2>4. PICK text, loaded, hash :
          text = job[w].request.text /\ loaded = job[w].loaded /\ hash = job[w].hash
    OBVIOUS
  <2>5. /\ new.text = Written(Given(text, loaded.text), loaded.text, bank[q].text)
        /\ new.hash = Written(Given(hash, loaded.hash), loaded.hash, bank[q].hash)
    BY <1>4, <2>4 DEF Edited
  <2>6. /\ text # None <=> EditsText(w)
        /\ text = None => hash = None
    BY <1>1, <2>4 DEF EditsText, EditSteps, SInv, JobsSettle, HashesText
  <2>7. \A p \in Questions : <<p, "content">> \notin Touches(w) => SameContent(p)
    <3> SUFFICES ASSUME NEW p \in Questions, <<p, "content">> \notin Touches(w)
                 PROVE  SameContent(p)
      OBVIOUS
    <3>1. CASE p # q
      BY <1>1, <2>2, <3>1 DEF SameContent
    <3>2. CASE p = q
      <4>1. text = None /\ hash = None
        BY <2>1, <2>6, <3>2 DEF Touches, EditsContent
      <4>2. new.text = bank[q].text /\ new.hash = bank[q].hash
        BY <2>5, <4>1 DEF Written, Given
      <4> QED
        BY <1>1, <2>1, <2>2, <3>2, <4>2 DEF SameContent
    <3> QED
      BY <3>1, <3>2
  <2>8. ASSUME NEW p \in Questions, <<p, "content">> \in Touches(w)
        PROVE  ContentSettled(p)'
    <3>1. p = q /\ EditsText(w) /\ EditsContent(w)
      BY <1>1, <2>1, <2>8 DEF Touches, EditsContent, OptionSteps
    <3>2. CASE ~job[w].alone
      BY <2>3, <2>8, <3>2 DEF ContentSettled
    <3>3. CASE job[w].alone
      <4>1. /\ loaded.text = bank[q].text /\ loaded.hash = bank[q].hash
            /\ hash = HashOf(text, options[q])
        BY <1>1, <2>1, <2>4, <3>1, <3>3 DEF SInv, JobsSettle, StillTrue
      <4>2. hash # None
        <5>1. text \in Texts
          <6>1. job[w].request \in Requests /\ job[w].request.op = "edit"
            BY <1>1, UnderWay DEF RequestFits, EditSteps
          <6> QED
            BY <2>4, <2>6, <3>1, <6>1, RequestShapes
        <5>2. options[q] \in SUBSET Batch /\ IsFiniteSet(options[q])
          BY DEF Base, Typed
        <5> QED
          BY <4>1, <5>1, <5>2, HashType, NoneAssumption
      <4>3. new.text = text /\ new.hash = hash
        BY <2>5, <2>6, <3>1, <4>1, <4>2 DEF Written, Given
      <4> SUFFICES ASSUME <<q, "content">> \notin contested'
                   PROVE  \E b \in options'[q] : /\ options'[q] = {b}
                                                 /\ bank'[q].key = b.form.correct
                                                 /\ bank'[q].hash = HashOf(bank'[q].text, {b})
        BY <3>1 DEF ContentSettled
      <4>4. <<q, "content">> \notin contested
        BY <2>3
      <4>5. PICK b \in options[q] : options[q] = {b} /\ bank[q].key = b.form.correct
        BY <2>1, <4>4 DEF SInv, ContentSettled
      <4> QED
        BY <1>1, <2>1, <2>2, <4>1, <4>3, <4>5
    <3> QED
      BY <3>2, <3>3
  <2>9. \A p \in Questions : SameExplanations(p)
    BY <1>1, <2>1, <2>2 DEF SameExplanations
  <2> QED
    BY <1>1, <1>2, <2>3, <2>7, <2>8, <2>9, CommitSettles
<1> QED
  BY <1>3, <1>4, EditedRow

LEMMA CommitOptionsSettles ==
  ASSUME Base, Base', SInv, NEW w \in Workers, CommitOptions(w)
  PROVE  SInv'
<1>1. /\ pc[w] = "commit options" /\ Replies(w) /\ Contest(w)
      /\ UNCHANGED explanations
  BY DEF CommitOptions
<1>2. PICK q \in Questions, batch \in Batch, new \in Question : Saved(w, q, batch, new)
  BY SavedOptions
<1>3. /\ q = Target(w) /\ bank[q] \in Question /\ bank[q] # None
      /\ options' = [options EXCEPT ![q] = (options[q] \ job[w].wiped) \cup {batch}]
      /\ bank' = [bank EXCEPT ![q] = new]
      /\ new.text = bank[q].text
      /\ new.key = Written(batch.form.correct, job[w].loaded.key, bank[q].key)
      /\ new.hash = Written(HashOf(job[w].loaded.text, {batch}), job[w].loaded.hash,
                            bank[q].hash)
  BY <1>2, NoneAssumption DEF Saved, Target
<1>4. /\ bank'[q] = new /\ options'[q] = (options[q] \ job[w].wiped) \cup {batch}
      /\ \A p \in Questions \ {q} : bank'[p] = bank[p] /\ options'[p] = options[p]
  BY <1>3 DEF Base, Typed
<1>5. Touches(w) = {<<q, "content">>} /\ EditsContent(w)
  BY <1>1, <1>3 DEF Touches, EditsContent, OptionSteps, ExplanationSteps
<1>6. /\ \A p, part : <<p, part>> \notin Touches(w) =>
           (<<p, part>> \in contested' <=> <<p, part>> \in contested)
      /\ ~job[w].alone => Touches(w) \subseteq contested'
  BY <1>1, Contests
<1>7. \A p \in Questions \ {q} : SameContent(p)
  BY <1>4 DEF SameContent
<1>8. \A p \in Questions : SameExplanations(p)
  BY <1>1, <1>3, <1>4 DEF SameExplanations
<1>9. ContentSettled(q)'
  <2>1. CASE ~job[w].alone
    BY <1>5, <1>6, <2>1 DEF ContentSettled
  <2>2. CASE job[w].alone
    <3>1. /\ job[w].loaded.text = bank[q].text /\ job[w].loaded.key = bank[q].key
          /\ job[w].loaded.hash = bank[q].hash /\ job[w].wiped = options[q]
      BY <1>1, <1>3, <1>5, <2>2 DEF SInv, JobsSettle, StillTrue
    <3>2. options'[q] = {batch}
      BY <1>4, <3>1
    <3>3. new.key = batch.form.correct /\ new.hash = HashOf(new.text, {batch})
      BY <1>3, <3>1 DEF Written
    <3> QED
      BY <1>4, <3>2, <3>3 DEF ContentSettled
  <2> QED
    BY <2>1, <2>2
<1> QED
  BY <1>1, <1>5, <1>6, <1>7, <1>8, <1>9, CommitSettles

LEMMA CommitExplanationSettles ==
  ASSUME Base, Base', SInv, NEW w \in Workers, CommitExplanation(w)
  PROVE  SInv'
<1>1. /\ pc[w] \in ExplanationSteps /\ Replies(w) /\ Contest(w)
      /\ UNCHANGED <<bank, options>>
  BY DEF CommitExplanation, ExplanationSteps
<1>2. pc[w] # "idle" /\ pc[w] \notin OptionSteps /\ pc[w] \notin EditSteps
  BY <1>1 DEF ExplanationSteps, OptionSteps, EditSteps
<1>3. PICK q \in Questions : q = Target(w)
  BY <1>1, QuestionUnderWay DEF QuestionSteps, Target
<1>4. Touches(w) = {<<q, "explanation">>}
  BY <1>1, <1>2, <1>3 DEF Touches, EditsContent, EditsText
<1>5. /\ \A p, part : <<p, part>> \notin Touches(w) =>
           (<<p, part>> \in contested' <=> <<p, part>> \in contested)
      /\ ~job[w].alone => Touches(w) \subseteq contested'
      /\ contested \subseteq contested'
  BY <1>1, <1>2, Contests
<1>6. \A p \in Questions : SameContent(p)
  BY <1>1 DEF SameContent
<1>7. explanations' = [explanations EXCEPT
        ![q] = IF pc[w] = "insert explanation" THEN explanations[q] + 1 ELSE explanations[q]]
  BY <1>3 DEF CommitExplanation, Target
<1>8. PICK n : /\ n = IF pc[w] = "insert explanation" THEN explanations[q] + 1
                                                     ELSE explanations[q]
               /\ explanations' = [explanations EXCEPT ![q] = n]
  BY <1>7
<1>9. /\ explanations'[q] = n
      /\ \A p \in Questions \ {q} : explanations'[p] = explanations[p]
  BY <1>8 DEF Base, Typed
<1>10. \A p \in Questions \ {q} : SameExplanations(p)
  BY <1>1, <1>9 DEF SameExplanations
<1>11. ExplanationSettled(q)'
  <2>1. CASE ~job[w].alone
    BY <1>4, <1>5, <2>1 DEF ExplanationSettled
  <2>2. CASE job[w].alone /\ pc[w] = "insert explanation"
    <3>1. explanations[q] = 0
      BY <1>3, <2>2 DEF SInv, JobsSettle, StillTrue
    <3>2. n = explanations[q] + 1
      BY <1>8, <2>2
    <3>3. n <= 1
      BY <3>1, <3>2
    <3> QED
      BY <1>9, <3>3 DEF ExplanationSettled
  <2>3. CASE pc[w] # "insert explanation"
    <3>1. explanations'[q] = explanations[q]
      BY <1>8, <1>9, <2>3
    <3>2. ExplanationSettled(q)
      BY DEF SInv
    <3> QED
      BY <1>1, <1>5, <3>1, <3>2 DEF ExplanationSettled
  <2> QED
    BY <2>1, <2>2, <2>3
<1> QED
  BY <1>1, <1>4, <1>5, <1>6, <1>10, <1>11, CommitSettles

\* Requests that touch neither the content nor the explanations.
LEMMA OtherCommitSettles ==
  ASSUME Base, Base', SInv, NEW w \in Workers, Replies(w),
         pc[w] \notin EditSteps \cup OptionSteps \cup ExplanationSteps,
         \A q \in Questions : SameContent(q) /\ SameExplanations(q),
         UNCHANGED contested
  PROVE  SInv'
<1>1. Touches(w) = {}
  BY DEF Touches, EditsContent, EditsText
<1> QED
  BY <1>1, CommitSettles

LEMMA RetirementSettles ==
  ASSUME Base, Base', SInv, NEW w \in Workers, CommitRetire(w) \/ CommitRestore(w)
  PROVE  SInv'
<1>1. /\ Replies(w) /\ pc[w] \notin EditSteps \cup OptionSteps \cup ExplanationSteps
      /\ UNCHANGED <<options, explanations, contested>>
  BY DEF CommitRetire, CommitRestore, EditSteps, OptionSteps, ExplanationSteps
<1>2. PICK q \in Questions, new \in Question :
        /\ bank[q] \in Question
        /\ bank' = [bank EXCEPT ![q] = new]
        /\ new.text = bank[q].text /\ new.key = bank[q].key /\ new.hash = bank[q].hash
  BY RetiredRow
<1>3. bank'[q] = new /\ \A p \in Questions \ {q} : bank'[p] = bank[p]
  BY <1>2 DEF Base, Typed
<1>4. \A p \in Questions : SameContent(p) /\ SameExplanations(p)
  BY <1>1, <1>2, <1>3, NoneAssumption DEF SameContent, SameExplanations
<1> QED
  BY <1>1, <1>4, OtherCommitSettles

LEMMA CommitBulkSettles ==
  ASSUME Base, Base', SInv, NEW w \in Workers, CommitBulk(w)
  PROVE  SInv'
<1>1. /\ Replies(w) /\ pc[w] \notin EditSteps \cup OptionSteps \cup ExplanationSteps
      /\ UNCHANGED <<options, explanations, contested>>
  BY DEF CommitBulk, EditSteps, OptionSteps, ExplanationSteps
<1>2. \A q \in Questions :
        \/ bank'[q] = bank[q]
        \/ /\ bank[q] \in Question
           /\ bank'[q].text = bank[q].text /\ bank'[q].key = bank[q].key
           /\ bank'[q].hash = bank[q].hash
  BY BulkRows
<1>3. \A p \in Questions : SameContent(p) /\ SameExplanations(p)
  BY <1>1, <1>2, NoneAssumption DEF SameContent, SameExplanations
<1> QED
  BY <1>1, <1>3, OtherCommitSettles

LEMMA CommitReportSettles ==
  ASSUME Base, Base', SInv, NEW w \in Workers, CommitReport(w)
  PROVE  SInv'
<1>1. /\ Replies(w) /\ pc[w] \notin EditSteps \cup OptionSteps \cup ExplanationSteps
      /\ UNCHANGED <<bank, options, explanations, contested>>
  BY DEF CommitReport, content, EditSteps, OptionSteps, ExplanationSteps
<1>2. \A p \in Questions : SameContent(p) /\ SameExplanations(p)
  BY <1>1 DEF SameContent, SameExplanations
<1> QED
  BY <1>1, <1>2, OtherCommitSettles

\* A request that is cut off leaves what was there.
LEMMA FailSettles ==
  ASSUME Base, Base', SInv, NEW w \in Workers, Fail(w)
  PROVE  SInv'
<1>1. /\ Replies(w) /\ UNCHANGED <<bank, options, explanations, contested>>
  BY DEF Fail, content
<1>2. \A q \in Questions : SameContent(q) /\ SameExplanations(q)
  BY <1>1 DEF SameContent, SameExplanations
<1>3. \A q \in Questions : ContentSettled(q)' /\ ExplanationSettled(q)'
  BY <1>1, <1>2, StaySettled
<1> QED
  BY <1>1, <1>2, <1>3, CommitSettles

LEMMA SettledStep == Base /\ Base' /\ SInv /\ [Next]_vars => SInv'
<1> SUFFICES ASSUME Base, Base', SInv, [Next]_vars
             PROVE  SInv'
  OBVIOUS
<1>1. CASE UNCHANGED vars
  <2>1. UNCHANGED <<bank, options, explanations, pc, job, contested>>
    BY <1>1 DEF vars, content
  <2> QED
    BY <2>1, NothingTouched
<1>2. ASSUME NEW w \in Workers, pc[w] = "idle", NEW r \in menu, Request(w, r)
      PROVE  SInv'
  BY <1>2, RequestSettles
<1>3. ASSUME NEW w \in Workers, Serve(w)
      PROVE  SInv'
  BY <1>3, RehashSettles, CommitEditSettles, DeleteOptionsSettles, WipeOptionsSettles,
     CommitOptionsSettles, CommitExplanationSettles, RetirementSettles,
     CommitBulkSettles, CommitReportSettles
     DEF Serve
<1>4. ASSUME NEW t \in Topics, DeleteTopic(t)
      PROVE  SInv'
  <2>1. UNCHANGED <<bank, options, explanations, pc, job, contested>>
    BY <1>4 DEF DeleteTopic, content
  <2> QED
    BY <2>1, NothingTouched
<1> QED
  BY <1>1, <1>2, <1>3, <1>4, FailSettles DEF Next

LEMMA SettledInductive == Spec => []SInv
<1>1. Init => SInv
  <2> SUFFICES ASSUME Init
               PROVE  SInv
    OBVIOUS
  <2>1. \A w \in Workers : pc[w] = "idle"
    BY DEF Init
  <2>2. \A w \in Workers : Touches(w) = {} /\ StillTrue(w) /\ HashesText(w)
    BY <2>1, IdleTouchesNothing
  <2>3. \A q \in Questions : bank[q] = None
    BY DEF Init
  <2> QED
    BY <2>2, <2>3 DEF SInv, JobsSettle, KeepsApart, ContentSettled, ExplanationSettled
<1> QED
  BY <1>1, SettledStep, BaseInductive, PTL DEF Spec

\* A question that overlapping edits have not touched since its options were
\* last saved alone has one batch of options, its key and its hash, and one
\* that overlapping explanations have not touched has at most one explanation,
\* whoever edits what meanwhile: set_options, update_question and
\* set_overall_explanation, between their reads and their commits.
THEOREM QuestionsSettle == Spec => []SettledQuestions
<1>1. SInv => SettledQuestions
  <2> SUFFICES ASSUME SInv, NEW q \in Questions, bank[q] # None
               PROVE  /\ <<q, "content">> \notin contested =>
                           \E b \in options[q] : /\ options[q] = {b}
                                                 /\ bank[q].key = b.form.correct
                                                 /\ bank[q].hash = HashOf(bank[q].text, {b})
                      /\ <<q, "explanation">> \notin contested => explanations[q] <= 1
    BY DEF SettledQuestions
  <2> QED
    BY DEF SInv, ContentSettled, ExplanationSettled
<1> QED
  BY <1>1, SettledInductive, PTL

-----------------------------------------------------------------------------
(* Requests change what they are about                                      *)

AsAsked ==
  \A q \in Questions : bank[q] # None =>
    \A c \in Columns : bank'[q][c] # bank[q][c] =>
      \E w \in Workers : /\ pc[w] # "idle" /\ pc'[w] = "idle"
                         /\ c \in Asked(job[w].request, q)

\* Of the row x, only columns in `these' are changed to get y.
Within(x, y, these) ==
  /\ "exam" \in these \/ y.exam = x.exam
  /\ "topic" \in these \/ y.topic = x.topic
  /\ "text" \in these \/ y.text = x.text
  /\ "type" \in these \/ y.type = x.type
  /\ "status" \in these \/ y.status = x.status
  /\ "retired" \in these \/ y.retired = x.retired
  /\ "key" \in these \/ y.key = x.key
  /\ "hash" \in these \/ y.hash = x.hash

LEMMA WithinColumns ==
  ASSUME NEW x \in Question, NEW y \in Question, NEW these, Within(x, y, these)
  PROVE  \A c \in Columns : y[c] # x[c] => c \in these
BY DEF Within, Columns, Question

\* A commit that stays within what was asked.
LEMMA WithinAsked ==
  ASSUME NEW w \in Workers, pc[w] # "idle", pc'[w] = "idle",
         \A q \in Questions :
           \/ bank'[q] = bank[q]
           \/ /\ bank[q] \in Question /\ bank'[q] \in Question
              /\ Within(bank[q], bank'[q], Asked(job[w].request, q))
  PROVE  AsAsked
<1> SUFFICES ASSUME NEW q \in Questions, NEW c \in Columns, bank'[q][c] # bank[q][c]
             PROVE  c \in Asked(job[w].request, q)
  BY DEF AsAsked
<1>1. PICK x, y, these : x = bank[q] /\ y = bank'[q] /\ these = Asked(job[w].request, q)
  OBVIOUS
<1>2. x \in Question /\ y \in Question /\ Within(x, y, these)
  BY <1>1
<1> QED
  BY <1>1, <1>2, WithinColumns

LEMMA CommitEditAsked ==
  ASSUME Base, SInv, NEW w \in Workers, CommitEdit(w)
  PROVE  AsAsked
<1>1. pc[w] # "idle" /\ pc'[w] = "idle" /\ pc[w] \in EditSteps
  BY DEF CommitEdit, Replies, GoesOn, Base, Typed, EditSteps
<1>2. CASE UNCHANGED bank
  BY <1>2 DEF AsAsked
<1>3. CASE \E q \in Questions, new \in Question : Edited(w, q, new)
  <2>1. PICK q \in Questions, new \in Question : Edited(w, q, new)
    BY <1>3
  <2>2. PICK r, x, these : r = job[w].request /\ x = bank[q] /\ these = Asked(r, q)
    OBVIOUS
  <2>3. these = {c \in {"text", "type", "status", "topic"} : r[c] # None}
                  \cup (IF r.text # None THEN {"hash"} ELSE {})
    BY <2>1, <2>2 DEF Edited, Asked
  <2>4. /\ new.exam = x.exam /\ new.retired = x.retired /\ new.key = x.key
        /\ r.type = None => new.type = x.type
        /\ r.status = None => new.status = x.status
        /\ r.topic = None => new.topic = x.topic
    BY <2>1, <2>2 DEF Edited
  <2>5. r.text = None => new.text = x.text
    BY <2>1, <2>2 DEF Edited, Written, Given
  <2>6. r.text = None => new.hash = x.hash
    BY <1>1, <2>1, <2>2 DEF Edited, Written, Given, SInv, JobsSettle, HashesText
  <2>7. Within(x, new, these)
    BY <2>3, <2>4, <2>5, <2>6 DEF Within
  <2>8. /\ bank[q] \in Question /\ bank'[q] = new
        /\ \A p \in Questions \ {q} : bank'[p] = bank[p]
    BY <2>1 DEF Edited, Base, Typed
  <2> QED
    BY <1>1, <2>2, <2>7, <2>8, WithinAsked
<1> QED
  BY <1>2, <1>3, EditedRow

LEMMA CommitOptionsAsked ==
  ASSUME Base, NEW w \in Workers, CommitOptions(w)
  PROVE  AsAsked
<1>1. pc[w] # "idle" /\ pc'[w] = "idle"
  BY DEF CommitOptions, Replies, GoesOn, Base, Typed
<1>2. PICK q \in Questions, batch \in Batch, new \in Question : Saved(w, q, batch, new)
  BY SavedOptions
<1>3. Asked(job[w].request, q) = {"key", "hash"}
  BY <1>2 DEF Saved, Asked
<1>4. Within(bank[q], new, Asked(job[w].request, q))
  BY <1>2, <1>3 DEF Saved, Within
<1>5. /\ bank[q] \in Question /\ bank'[q] = new
      /\ \A p \in Questions \ {q} : bank'[p] = bank[p]
  BY <1>2 DEF Saved, Base, Typed
<1> QED
  BY <1>1, <1>4, <1>5, WithinAsked

LEMMA RetirementAsked ==
  ASSUME Base, NEW w \in Workers, CommitRetire(w) \/ CommitRestore(w)
  PROVE  AsAsked
<1>1. /\ pc[w] # "idle" /\ pc'[w] = "idle"
      /\ pc[w] \in {"commit retire", "commit restore"}
  BY DEF CommitRetire, CommitRestore, Replies, GoesOn, Base, Typed
<1>2. PICK q \in Questions, new \in Question :
         /\ q = job[w].request.question /\ bank[q] \in Question
         /\ bank' = [bank EXCEPT ![q] = new]
         /\ new.exam = bank[q].exam /\ new.topic = bank[q].topic
         /\ new.text = bank[q].text /\ new.type = bank[q].type
         /\ new.key = bank[q].key /\ new.hash = bank[q].hash
  BY RetiredRow
<1>3. job[w].request.op \in {"retire", "restore"}
  BY <1>1, UnderWay DEF RequestFits
<1>4. Asked(job[w].request, q) = {"retired", "status"}
  BY <1>2, <1>3 DEF Asked
<1>5. Within(bank[q], new, Asked(job[w].request, q))
  BY <1>2, <1>4 DEF Within
<1>6. bank'[q] = new /\ \A p \in Questions \ {q} : bank'[p] = bank[p]
  BY <1>2 DEF Base, Typed
<1> QED
  BY <1>1, <1>2, <1>5, <1>6, WithinAsked

LEMMA CommitBulkAsked ==
  ASSUME Base, NEW w \in Workers, CommitBulk(w)
  PROVE  AsAsked
<1>1. pc[w] # "idle" /\ pc'[w] = "idle"
  BY DEF CommitBulk, Replies, GoesOn, Base, Typed
<1>2. CASE UNCHANGED bank
  BY <1>2 DEF AsAsked
<1>3. CASE ~UNCHANGED bank
  <2>1. ASSUME NEW q \in Questions, bank'[q] # bank[q]
        PROVE  /\ bank[q] \in Question /\ bank'[q] \in Question
               /\ Within(bank[q], bank'[q], Asked(job[w].request, q))
    <3>1. /\ job[w].request.op = "bulk" /\ q \in job[w].request.questions
          /\ bank[q] \in Question /\ bank'[q] \in Question
          /\ bank'[q].exam = bank[q].exam /\ bank'[q].text = bank[q].text
          /\ bank'[q].type = bank[q].type /\ bank'[q].status = bank[q].status
          /\ bank'[q].key = bank[q].key /\ bank'[q].hash = bank[q].hash
          /\ bank'[q].retired = bank[q].retired
      BY <1>3, <2>1, BulkRows
    <3>2. Asked(job[w].request, q) = {"topic"}
      BY <3>1 DEF Asked
    <3> QED
      BY <3>1, <3>2 DEF Within
  <2> QED
    BY <1>1, <2>1, WithinAsked
<1> QED
  BY <1>2, <1>3

LEMMA AskedStep == Base /\ SInv /\ [Next]_vars => AsAsked
<1> SUFFICES ASSUME Base, SInv, [Next]_vars
             PROVE  AsAsked
  OBVIOUS
<1>1. CASE UNCHANGED bank
  BY <1>1 DEF AsAsked
<1>2. ASSUME NEW w \in Workers, NEW r \in menu, Request(w, r)
      PROVE  AsAsked
  <2>1. CASE CreateQuestion(w, r)
    <3>1. \A q \in Questions : bank[q] # None => bank'[q] = bank[q]
      BY <2>1 DEF CreateQuestion, Base, Typed
    <3> QED
      BY <3>1 DEF AsAsked
  <2>2. CASE ~CreateQuestion(w, r)
    <3>1. UNCHANGED bank
      BY <1>2, <2>2
         DEF Request, UpdateQuestion, SetOptions, SetOverallExplanation, Retire, Restore,
             AssignTopicBulk, FileReport, SetReportStatus, Begins, content
    <3> QED
      BY <1>1, <3>1
  <2> QED
    BY <2>1, <2>2
<1>3. ASSUME NEW w \in Workers, Serve(w)
      PROVE  AsAsked
  <2>1. CASE Rehash(w) \/ DeleteOptions(w) \/ WipeOptions(w) \/ CommitExplanation(w)
             \/ CommitReport(w)
    <3>1. UNCHANGED bank
      BY <2>1 DEF Rehash, DeleteOptions, WipeOptions, CommitExplanation, CommitReport, content
    <3> QED
      BY <1>1, <3>1
  <2> QED
    BY <1>3, <2>1, CommitEditAsked, CommitOptionsAsked, RetirementAsked, CommitBulkAsked
       DEF Serve
<1>4. CASE \/ \E w \in Workers : Fail(w)
           \/ \E t \in Topics : DeleteTopic(t)
           \/ UNCHANGED vars
  <2>1. UNCHANGED bank
    BY <1>4 DEF Fail, DeleteTopic, vars, content
  <2> QED
    BY <1>1, <2>1
<1> QED
  BY <1>2, <1>3, <1>4 DEF Next

\* Whatever others commit between the reading and the commit of a request, no
\* column of a question changes that the committed request was not about
\* (question_service.update_question, set_options, retire, restore,
\* assign_topic_bulk).
THEOREM EditsKeepToThemselves == Spec => OnlyAsAsked
<1>1. Base /\ SInv /\ [Next]_vars => [AsAsked]_vars
  BY AskedStep
<1> QED
  BY <1>1, BaseInductive, SettledInductive, PTL DEF Spec, OnlyAsAsked, AsAsked

=============================================================================
