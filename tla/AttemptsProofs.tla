--------------------------- MODULE AttemptsProofs ---------------------------
(* Proofs about Attempts: its type invariant, that an attempt is finished   *)
(* and scored together, and that what start_attempt froze never changes.    *)
EXTENDS Attempts, SequenceTheorems, FiniteSetTheorems, TLAPS

USE QuestionsAssumption, BoundsAssumption, NoneAssumption,
    OptionSetsAssumption, TimeLimitsAssumption, ChoicesAssumption

-----------------------------------------------------------------------------
(* Facts about sequences and the constants                                  *)

\* Replacing one element of a sequence by one of the same kind.
LEMMA ReplaceInSeq ==
  ASSUME NEW S, NEW s \in Seq(S), NEW i \in DOMAIN s, NEW e \in S
  PROVE  [s EXCEPT ![i] = e] \in Seq(S)
OBVIOUS

\* A function on the domain of a sequence is a sequence.
LEMMA MapSeq ==
  ASSUME NEW S, NEW T, NEW s \in Seq(S), NEW f, f \in [DOMAIN s -> T]
  PROVE  f \in Seq(T)
OBVIOUS

\* The number of positions of a sequence that satisfy something is a number.
LEMMA CountIsNat ==
  ASSUME NEW S, NEW s \in Seq(S), NEW T \in SUBSET DOMAIN s
  PROVE  Cardinality(T) \in Nat
  <1>1. IsFiniteSet(1..Len(s)) BY FS_Interval, LenProperties
  <1>2. T \subseteq 1..Len(s)  BY LenProperties
  <1> QED BY <1>1, <1>2, FS_Subset, FS_CardinalityType

\* Publishable questions can be counted.
LEMMA PickedIsFinite ==
  ASSUME NEW T \in SUBSET Questions
  PROVE  IsFiniteSet(T) /\ Cardinality(T) \in Nat
  BY FS_Subset, FS_CardinalityType

LEMMA NoJobTyped == NoJob \in Job
  <1>1. << >> \in Seq(Row) /\ << >> \in Seq(BOOLEAN) OBVIOUS
  <1> QED BY <1>1 DEF NoJob, Job, Modes

LEMMA NoAttemptTyped == NoAttempt \in Attempt
  BY DEF NoAttempt, Attempt, Modes

-----------------------------------------------------------------------------
(* Type correctness.  A request that holds an attempt knows a real one, and  *)
(* what it has loaded matches the attempt's rows in length; without that the *)
(* commits could not be typed.                                               *)

JobPlaced(w) ==
  LET j == job[w] IN
  /\ pc[w] \in Holding => j.attempt \in AttemptIds /\ Started(j.attempt)
  /\ pc[w] \in Holding /\ j.view # None => j.order \in DOMAIN answers[j.attempt]
  /\ pc[w] \in {"write", "toggle"} => j.order \in DOMAIN answers[j.attempt]
  /\ pc[w] \in {"truth", "commit"} => DOMAIN j.rows = DOMAIN answers[j.attempt]
  /\ pc[w] = "commit" => DOMAIN j.verdict = DOMAIN j.rows

JobsPlaced == \A w \in Workers : JobPlaced(w)

\* The steps that change a table of attempts; the others leave both alone.
LEMMA StepKinds ==
  ASSUME Next
  PROVE  \/ UNCHANGED <<attempts, answers>>
         \/ \E w \in Workers : \/ InsertAttempt(w) \/ WriteFlag(w)
                               \/ WriteAnswer(w) \/ CommitFinish(w)
  <1>1. Tick \/ Admin => UNCHANGED <<attempts, answers>>
    BY DEF Tick, Admin, EditExam, EditStatus, SetOptions, tables
  <1>2. ASSUME NEW w \in Workers, Request(w)
        PROVE  UNCHANGED <<attempts, answers>>
    BY <1>2 DEF Request, StartRequest, SubmitRequest, ShowRequest, FlagRequest,
                SaveRequest, tables
  <1>3. ASSUME NEW w \in Workers, Serve(w) \/ Crash(w)
        PROVE  \/ UNCHANGED <<attempts, answers>>
               \/ InsertAttempt(w) \/ WriteFlag(w) \/ WriteAnswer(w) \/ CommitFinish(w)
    <2>1. FindExisting(w) \/ PickQuestions(w) => UNCHANGED <<attempts, answers>>
      BY DEF FindExisting, PickQuestions, tables
    <2>2. ValidateAnswer(w) \/ ViewRow(w) => UNCHANGED <<attempts, answers>>
      BY DEF ValidateAnswer, ViewRow, tables
    <2>3. RenderQuestion(w) \/ Expire(w) => UNCHANGED <<attempts, answers>>
      BY DEF RenderQuestion, Expire, tables
    <2>4. ReadRows(w) \/ ReadTruth(w) \/ Crash(w) => UNCHANGED <<attempts, answers>>
      BY DEF ReadRows, ReadTruth, Crash, tables
    <2> QED BY <1>3, <2>1, <2>2, <2>3, <2>4 DEF Serve
  <1> QED BY <1>1, <1>2, <1>3 DEF Next

LEMMA GoesOnTyped ==
  ASSUME TypeOK, NEW w \in Workers, NEW step \in Labelled, NEW j \in Job,
         GoesOn(w, step, j)
  PROVE  pc' \in [Workers -> Labelled] /\ job' \in [Workers -> Job]
  BY DEF TypeOK, GoesOn

LEMMA RepliesTyped ==
  ASSUME TypeOK, NEW w \in Workers, Replies(w)
  PROVE  pc' \in [Workers -> Labelled] /\ job' \in [Workers -> Job]
  BY GoesOnTyped, NoJobTyped DEF Replies, Labelled

\* Requests arrive with typed jobs.
LEMMA RequestTyped ==
  ASSUME TypeOK, NEW w \in Workers, Request(w)
  PROVE  TypeOK'
  <1> PICK u \in Users :
        \/ \E m \in Modes : StartRequest(w, u, m)
        \/ \E a \in AttemptIds :
             \/ SubmitRequest(w, u, a)
             \/ \E i \in Orders :
                  \/ ShowRequest(w, u, a, i)
                  \/ FlagRequest(w, u, a, i)
                  \/ \E s \in Choices : SaveRequest(w, u, a, i, s)
    BY DEF Request
  <1> USE NoJobTyped
  <1>1. ASSUME NEW m \in Modes, StartRequest(w, u, m)
        PROVE  TypeOK'
    <2>1. [NoJob EXCEPT !.user = u, !.mode = m] \in Job BY DEF Job
    <2>2. "existing" \in Labelled BY DEF Labelled, Starting
    <2> QED BY <1>1, <2>1, <2>2, GoesOnTyped DEF StartRequest, tables, TypeOK
  <1>2. ASSUME NEW a \in AttemptIds
        PROVE  On(u, a) \in Job /\ \A i \in Orders : OnRow(u, a, i) \in Job
    <2>1. On(u, a) \in Job BY DEF On, Job
    <2> QED BY <2>1 DEF OnRow, Job
  <1>3. ASSUME NEW a \in AttemptIds, SubmitRequest(w, u, a)
        PROVE  TypeOK'
    <2>1. "rows" \in Labelled BY DEF Labelled, Holding
    <2> QED BY <1>2, <1>3, <2>1, GoesOnTyped DEF SubmitRequest, tables, TypeOK
  <1>4. ASSUME NEW a \in AttemptIds, NEW i \in Orders, ShowRequest(w, u, a, i)
        PROVE  TypeOK'
    <2>1. "view" \in Labelled BY DEF Labelled, Holding
    <2> QED BY <1>2, <1>4, <2>1, GoesOnTyped DEF ShowRequest, tables, TypeOK
  <1>5. ASSUME NEW a \in AttemptIds, NEW i \in Orders, FlagRequest(w, u, a, i)
        PROVE  TypeOK'
    <2>1. "toggle" \in Labelled BY DEF Labelled, Holding
    <2>2. answers[a][i] \in Row BY <1>5 DEF FlagRequest, TypeOK
    <2>3. [OnRow(u, a, i) EXCEPT !.view = answers[a][i]] \in Job
      BY <1>2, <2>2 DEF Job
    <2> QED BY <1>5, <2>1, <2>3, GoesOnTyped DEF FlagRequest, tables, TypeOK
  <1>6. ASSUME NEW a \in AttemptIds, NEW i \in Orders, NEW s \in Choices,
               SaveRequest(w, u, a, i, s)
        PROVE  TypeOK'
    <2>1. "autosave" \in Labelled BY DEF Labelled, Holding
    <2>2. [OnRow(u, a, i) EXCEPT !.labels = s] \in Job BY <1>2 DEF Job
    <2> QED BY <1>6, <2>1, <2>2, GoesOnTyped DEF SaveRequest, tables, TypeOK
  <1> QED BY <1>1, <1>3, <1>4, <1>5, <1>6

\* The commits write typed rows.
LEMMA CommitTyped ==
  ASSUME TypeOK, JobsPlaced, NEW w \in Workers,
         InsertAttempt(w) \/ WriteFlag(w) \/ WriteAnswer(w) \/ CommitFinish(w)
  PROVE  TypeOK'
  <1> DEFINE j == job[w]
  <1>0. j \in Job BY DEF TypeOK
  <1>1. CASE InsertAttempt(w)
    <2> PICK a \in AttemptIds, sheet \in Permutation(j.picked) :
          /\ attempts' = [attempts EXCEPT ![a] =
               [NoAttempt EXCEPT !.user = j.user, !.mode = j.mode, !.started = j.stamp]]
          /\ answers' = [answers EXCEPT ![a] = [i \in DOMAIN sheet |->
               [question |-> sheet[i], selected |-> {},
                isCorrect |-> None, flagged |-> FALSE]]]
      BY <1>1 DEF InsertAttempt
    <2>1. [NoAttempt EXCEPT !.user = j.user, !.mode = j.mode, !.started = j.stamp]
            \in Attempt
      BY <1>0, NoAttemptTyped DEF Job, Attempt
    <2>2. [i \in DOMAIN sheet |->
             [question |-> sheet[i], selected |-> {},
              isCorrect |-> None, flagged |-> FALSE]] \in Seq(Row)
      <3>1. Cardinality(j.picked) \in Nat /\ j.picked \subseteq Questions
        BY <1>0, PickedIsFinite DEF Job
      <3>2. sheet \in [1..Cardinality(j.picked) -> Questions]
        BY <3>1 DEF Permutation
      <3>3. \A i \in DOMAIN sheet :
              [question |-> sheet[i], selected |-> {},
               isCorrect |-> None, flagged |-> FALSE] \in Row
        BY <3>2 DEF Row, Verdicts
      <3> QED BY <3>1, <3>2, <3>3
    <2> QED BY <1>1, <2>1, <2>2, RepliesTyped DEF InsertAttempt, TypeOK
  <1>2. CASE WriteFlag(w)
    <2>1. j.attempt \in AttemptIds /\ j.order \in DOMAIN answers[j.attempt]
      BY <1>2 DEF WriteFlag, JobsPlaced, JobPlaced, Holding
    <2>2. answers[j.attempt] \in Seq(Row) BY <2>1 DEF TypeOK
    <2>3. [answers[j.attempt] EXCEPT ![j.order].flagged = ~j.view.flagged] \in Seq(Row)
      <3>1. answers[j.attempt][j.order] \in Row BY <2>1, <2>2
      <3>2. (~j.view.flagged) \in BOOLEAN OBVIOUS
      <3>3. [answers[j.attempt][j.order] EXCEPT !.flagged = ~j.view.flagged] \in Row
        BY <3>1, <3>2 DEF Row
      <3> DEFINE r == [answers[j.attempt][j.order] EXCEPT !.flagged = ~j.view.flagged]
      <3>4. [answers[j.attempt] EXCEPT ![j.order] = r] \in Seq(Row)
        <4> HIDE DEF j, r
        <4> QED BY <2>1, <2>2, <3>3, ReplaceInSeq DEF r
      <3> QED BY <3>4
    <2> QED BY <1>2, <2>1, <2>3, RepliesTyped DEF WriteFlag, TypeOK
  <1>3. CASE WriteAnswer(w)
    <2>1. j.attempt \in AttemptIds /\ j.order \in DOMAIN answers[j.attempt]
      BY <1>3 DEF WriteAnswer, JobsPlaced, JobPlaced, Holding
    <2>2. answers[j.attempt] \in Seq(Row) BY <2>1 DEF TypeOK
    <2>3. [answers[j.attempt] EXCEPT ![j.order].selected = j.labels] \in Seq(Row)
      <3>1. answers[j.attempt][j.order] \in Row BY <2>1, <2>2
      <3>2. [answers[j.attempt][j.order] EXCEPT !.selected = j.labels] \in Row
        BY <1>0, <3>1 DEF Row, Job
      <3> DEFINE r == [answers[j.attempt][j.order] EXCEPT !.selected = j.labels]
      <3>3. [answers[j.attempt] EXCEPT ![j.order] = r] \in Seq(Row)
        <4> HIDE DEF j, r
        <4> QED BY <2>1, <2>2, <3>2, ReplaceInSeq DEF r
      <3> QED BY <3>3
    <2> QED BY <1>3, <2>1, <2>3, RepliesTyped DEF WriteAnswer, TypeOK
  <1>4. CASE CommitFinish(w)
    <2> DEFINE Written(i) == IF j.verdict[i] = j.rows[i].isCorrect
                             THEN answers[j.attempt][i].isCorrect
                             ELSE j.verdict[i]
               sheet == [i \in DOMAIN answers[j.attempt] |->
                           [answers[j.attempt][i] EXCEPT !.isCorrect = Written(i)]]
               count == Cardinality({i \in DOMAIN j.verdict : j.verdict[i]})
    <2>1. /\ j.attempt \in AttemptIds
          /\ DOMAIN j.verdict = DOMAIN j.rows
          /\ DOMAIN j.rows = DOMAIN answers[j.attempt]
      BY <1>4 DEF CommitFinish, JobsPlaced, JobPlaced, Holding
    <2>2. answers[j.attempt] \in Seq(Row) BY <2>1 DEF TypeOK
    <2>3. sheet \in Seq(Row)
      <3>1. \A i \in DOMAIN answers[j.attempt] :
              answers[j.attempt][i] \in Row /\ j.verdict[i] \in BOOLEAN
        BY <1>0, <2>1, <2>2 DEF Job
      <3>2. \A i \in DOMAIN answers[j.attempt] :
              [answers[j.attempt][i] EXCEPT !.isCorrect = Written(i)] \in Row
        <4> TAKE i \in DOMAIN answers[j.attempt]
        <4>1. Written(i) \in Verdicts BY <3>1 DEF Row, Verdicts
        <4> QED BY <3>1, <4>1 DEF Row
      <3>3. sheet \in [DOMAIN answers[j.attempt] -> Row] BY <3>2
      <3> QED BY <2>2, <3>3, MapSeq
    <2>4. count \in Nat
      <3>1. j.verdict \in Seq(BOOLEAN) BY <1>0 DEF Job
      <3> QED BY <3>1, CountIsNat
    <2>5. [attempts[j.attempt] EXCEPT !.finished = j.stamp, !.correct = count,
                                      !.audited = @ + 1] \in Attempt
      <3>1. attempts[j.attempt] \in Attempt BY <2>1 DEF TypeOK
      <3>2. attempts[j.attempt].audited + 1 \in Nat BY <3>1 DEF Attempt
      <3>3. j.stamp \in Nat BY <1>0 DEF Job
      <3> HIDE DEF j, count
      <3> QED BY <2>4, <3>1, <3>2, <3>3 DEF Attempt
    <2>6. /\ attempts' = [attempts EXCEPT ![j.attempt] =
                [attempts[j.attempt] EXCEPT !.finished = j.stamp, !.correct = count,
                                            !.audited = @ + 1]]
          /\ answers' = [answers EXCEPT ![j.attempt] = sheet]
      BY <1>4, <2>1 DEF CommitFinish, TypeOK
    <2>7. attempts' \in [AttemptIds -> Attempt] /\ answers' \in [AttemptIds -> Seq(Row)]
      BY <2>3, <2>5, <2>6 DEF TypeOK
    <2> QED BY <1>4, <2>7, RepliesTyped DEF CommitFinish, TypeOK
  <1> QED BY <1>1, <1>2, <1>3, <1>4

\* The steps of a request that only read keep the tables and type the job.
LEMMA ReadTyped ==
  ASSUME TypeOK, JobsPlaced, NEW w \in Workers,
         \/ FindExisting(w) \/ PickQuestions(w) \/ ValidateAnswer(w) \/ ViewRow(w)
         \/ RenderQuestion(w) \/ Expire(w) \/ ReadRows(w) \/ ReadTruth(w) \/ Crash(w)
  PROVE  TypeOK'
  <1> DEFINE j == job[w]
  <1>0. j \in Job BY DEF TypeOK
  <1>1. {"pick", "insert", "write", "timer", "rows", "truth", "commit"} \subseteq Labelled
    BY DEF Labelled, Starting, Holding
  <1>2. CASE FindExisting(w)
    <2>1. Replies(w) \/ GoesOn(w, "pick", j) BY <1>2 DEF FindExisting
    <2> QED BY <1>0, <1>1, <1>2, <2>1, GoesOnTyped, RepliesTyped
            DEF FindExisting, tables, TypeOK
  <1>3. CASE PickQuestions(w)
    <2>1. [j EXCEPT !.picked = LiveQuestions, !.stamp = clock] \in Job
      BY <1>0 DEF LiveQuestions, Job, TypeOK
    <2>2. \/ Replies(w)
          \/ GoesOn(w, "insert", [j EXCEPT !.picked = LiveQuestions, !.stamp = clock])
      BY <1>3 DEF PickQuestions
    <2> QED BY <1>1, <1>3, <2>1, <2>2, GoesOnTyped, RepliesTyped
            DEF PickQuestions, tables, TypeOK
  <1>4. CASE ValidateAnswer(w) \/ ViewRow(w)
    <2> DEFINE row == answers[j.attempt][j.order]
    <2>1. j.attempt \in AttemptIds
      BY <1>4 DEF ValidateAnswer, ViewRow, JobsPlaced, JobPlaced, Holding
    <2>2. ASSUME j.order \in DOMAIN answers[j.attempt]
          PROVE  [j EXCEPT !.view = row] \in Job
      <3>1. row \in Row BY <2>1, <2>2 DEF TypeOK
      <3> QED BY <1>0, <3>1 DEF Job
    <2>3. \/ Replies(w)
          \/ /\ j.order \in DOMAIN answers[j.attempt]
             /\ \/ GoesOn(w, "write", [j EXCEPT !.view = row])
                \/ GoesOn(w, "timer", [j EXCEPT !.view = row])
      BY <1>4 DEF ValidateAnswer, ViewRow
    <2>4. pc' \in [Workers -> Labelled] /\ job' \in [Workers -> Job]
      <3> HIDE DEF j, row
      <3> QED BY <1>1, <2>2, <2>3, GoesOnTyped, RepliesTyped
    <2> QED BY <1>4, <2>4 DEF ValidateAnswer, ViewRow, tables, TypeOK
  <1>5. CASE RenderQuestion(w) \/ Crash(w)
    BY <1>5, RepliesTyped DEF RenderQuestion, Crash, tables, TypeOK
  <1>6. CASE Expire(w)
    BY <1>0, <1>1, <1>6, GoesOnTyped DEF Expire, tables, TypeOK
  <1>7. CASE ReadRows(w)
    <2> DEFINE read == [i \in DOMAIN answers[j.attempt] |-> LoadedRow(j, i)]
    <2>1. j.attempt \in AttemptIds
      BY <1>7 DEF ReadRows, JobsPlaced, JobPlaced, Holding
    <2>2. answers[j.attempt] \in Seq(Row) BY <2>1 DEF TypeOK
    <2>3. \A i \in DOMAIN answers[j.attempt] : LoadedRow(j, i) \in Row
      <3> TAKE i \in DOMAIN answers[j.attempt]
      <3>1. answers[j.attempt][i] \in Row BY <2>2
      <3>2. j.view \in Row \cup {None} BY <1>0 DEF Job
      <3> HIDE DEF j
      <3> QED BY <3>1, <3>2 DEF LoadedRow
    <2>4. read \in Seq(Row)
      <3>1. read \in [DOMAIN answers[j.attempt] -> Row] BY <2>3
      <3> QED BY <2>2, <3>1, MapSeq
    <2>5. [j EXCEPT !.stamp = clock, !.rows = read] \in Job
      <3>1. clock \in Nat BY DEF TypeOK
      <3> HIDE DEF j, read
      <3> QED BY <1>0, <2>4, <3>1 DEF Job
    <2>6. GoesOn(w, "truth", [j EXCEPT !.stamp = clock, !.rows = read])
      BY <1>7 DEF ReadRows
    <2> QED BY <1>1, <1>7, <2>5, <2>6, GoesOnTyped DEF ReadRows, tables, TypeOK
  <1>8. CASE ReadTruth(w)
    <2> DEFINE marks == [i \in DOMAIN j.rows |->
                           Marks(j.rows[i].selected, bank[j.rows[i].question].options)]
    <2>1. j.rows \in Seq(Row) BY <1>0 DEF Job
    <2>2. marks \in Seq(BOOLEAN)
      <3>1. marks \in [DOMAIN j.rows -> BOOLEAN] BY DEF Marks
      <3> QED BY <2>1, <3>1, MapSeq
    <2>3. [j EXCEPT !.verdict = marks] \in Job
      <3> HIDE DEF j, marks
      <3> QED BY <1>0, <2>2 DEF Job
    <2>4. GoesOn(w, "commit", [j EXCEPT !.verdict = marks]) BY <1>8 DEF ReadTruth
    <2> QED BY <1>1, <1>8, <2>3, <2>4, GoesOnTyped DEF ReadTruth, tables, TypeOK
  <1> QED BY <1>2, <1>3, <1>4, <1>5, <1>6, <1>7, <1>8

LEMMA WorldTyped ==
  ASSUME TypeOK, Tick \/ Admin
  PROVE  TypeOK'
  <1>1. CASE Tick BY <1>1 DEF Tick, tables, TypeOK
  <1>2. CASE EditExam BY <1>2 DEF EditExam, TypeOK
  <1>3. ASSUME NEW q \in Questions, EditStatus(q) PROVE TypeOK'
    BY <1>3 DEF EditStatus, TypeOK
  <1>4. ASSUME NEW q \in Questions, NEW k \in OptionSets, SetOptions(q, k) PROVE TypeOK'
    BY <1>4 DEF SetOptions, TypeOK
  <1> QED BY <1>1, <1>2, <1>3, <1>4 DEF Admin

LEMMA NextTyped ==
  ASSUME TypeOK, JobsPlaced, Next
  PROVE  TypeOK'
  <1>1. CASE Tick \/ Admin BY <1>1, WorldTyped
  <1>2. ASSUME NEW w \in Workers, Request(w) PROVE TypeOK' BY <1>2, RequestTyped
  <1>3. ASSUME NEW w \in Workers, Serve(w) \/ Crash(w) PROVE TypeOK'
    BY <1>3, ReadTyped, CommitTyped DEF Serve
  <1> QED BY <1>1, <1>2, <1>3 DEF Next

-----------------------------------------------------------------------------
(* What every step keeps of an attempt that has started: the frozen snapshot *)
(* and the verdicts.  All later inductions rest on this.                     *)

Keeps(a) ==
  Started(a) =>
    /\ SnapshotStays(a)
    /\ Started(a)'
    /\ DOMAIN answers'[a] = DOMAIN answers[a]
    /\ \A i \in DOMAIN answers[a] :
         answers[a][i].isCorrect # None => answers'[a][i].isCorrect # None

\* Rows that differ only in columns that are not frozen.
LEMMA KeepsRows ==
  ASSUME TypeOK, NEW a \in AttemptIds,
         attempts'[a].user = attempts[a].user,
         attempts'[a].mode = attempts[a].mode,
         attempts'[a].started = attempts[a].started,
         attempts[a].finished # None => attempts'[a].finished # None,
         DOMAIN answers'[a] = DOMAIN answers[a],
         \A i \in DOMAIN answers[a] :
           /\ answers'[a][i].question = answers[a][i].question
           /\ answers[a][i].isCorrect # None => answers'[a][i].isCorrect # None
  PROVE  Keeps(a)
  <1>1. SheetOf(a)' = SheetOf(a) BY DEF SheetOf
  <1> QED BY <1>1 DEF Keeps, SnapshotStays, Started

LEMMA StepKeeps ==
  ASSUME TypeOK, JobsPlaced, Next, NEW a \in AttemptIds
  PROVE  Keeps(a)
  <1>1. CASE UNCHANGED <<attempts, answers>>
    BY <1>1, KeepsRows
  <1>2. ASSUME NEW w \in Workers, InsertAttempt(w)
        PROVE  Keeps(a)
    <2> SUFFICES ASSUME Started(a) PROVE Keeps(a) BY DEF Keeps
    <2>1. attempts'[a] = attempts[a] /\ answers'[a] = answers[a]
      BY <1>2 DEF InsertAttempt, TypeOK
    <2> QED BY <2>1, KeepsRows
  <1>3. ASSUME NEW w \in Workers, WriteFlag(w)
        PROVE  Keeps(a)
    <2>1. attempts'[a] = attempts[a] BY <1>3 DEF WriteFlag
    <2>2. DOMAIN answers'[a] = DOMAIN answers[a] BY <1>3 DEF WriteFlag, TypeOK
    <2>3. \A i \in DOMAIN answers[a] :
            /\ answers'[a][i].question = answers[a][i].question
            /\ answers'[a][i].isCorrect = answers[a][i].isCorrect
      <3> TAKE i \in DOMAIN answers[a]
      <3>1. answers[a] \in Seq(Row) /\ answers[a][i] \in Row BY DEF TypeOK
      <3> QED BY <1>3, <3>1 DEF WriteFlag, TypeOK, Row
    <2> QED BY <2>1, <2>2, <2>3, KeepsRows
  <1>4. ASSUME NEW w \in Workers, WriteAnswer(w)
        PROVE  Keeps(a)
    <2>1. attempts'[a] = attempts[a] BY <1>4 DEF WriteAnswer
    <2>2. DOMAIN answers'[a] = DOMAIN answers[a] BY <1>4 DEF WriteAnswer, TypeOK
    <2>3. \A i \in DOMAIN answers[a] :
            /\ answers'[a][i].question = answers[a][i].question
            /\ answers'[a][i].isCorrect = answers[a][i].isCorrect
      <3> TAKE i \in DOMAIN answers[a]
      <3>1. answers[a] \in Seq(Row) /\ answers[a][i] \in Row BY DEF TypeOK
      <3> QED BY <1>4, <3>1 DEF WriteAnswer, TypeOK, Row
    <2> QED BY <2>1, <2>2, <2>3, KeepsRows
  <1>5. ASSUME NEW w \in Workers, CommitFinish(w)
        PROVE  Keeps(a)
    <2> DEFINE j == job[w]
               Written(i) == IF j.verdict[i] = j.rows[i].isCorrect
                             THEN answers[j.attempt][i].isCorrect
                             ELSE j.verdict[i]
    <2>1. CASE a # j.attempt
      <3>1. attempts'[a] = attempts[a] /\ answers'[a] = answers[a]
        BY <1>5, <2>1 DEF CommitFinish, TypeOK
      <3> QED BY <3>1, KeepsRows
    <2>2. CASE a = j.attempt
      <3>1. /\ j.stamp \in Nat /\ j.verdict \in Seq(BOOLEAN)
            /\ DOMAIN j.verdict = DOMAIN answers[a]
        <4>1. j \in Job BY DEF TypeOK
        <4>2. pc[w] = "commit" BY <1>5 DEF CommitFinish
        <4>3. JobPlaced(w) BY DEF JobsPlaced
        <4> QED BY <2>2, <4>1, <4>2, <4>3 DEF Job, JobPlaced
      <3>2. /\ attempts'[a].user = attempts[a].user
            /\ attempts'[a].mode = attempts[a].mode
            /\ attempts'[a].started = attempts[a].started
            /\ attempts'[a].finished = j.stamp
        <4>1. attempts[a] \in Attempt BY DEF TypeOK
        <4> QED BY <1>5, <2>2, <4>1 DEF CommitFinish, TypeOK, Attempt
      <3>3. answers'[a] = [i \in DOMAIN answers[a] |->
                             [answers[a][i] EXCEPT !.isCorrect = Written(i)]]
        BY <1>5, <2>2 DEF CommitFinish, TypeOK
      <3>4. \A i \in DOMAIN answers[a] :
              /\ answers'[a][i].question = answers[a][i].question
              /\ answers[a][i].isCorrect # None => answers'[a][i].isCorrect # None
        <4> TAKE i \in DOMAIN answers[a]
        <4>1. answers[a][i] \in Row BY DEF TypeOK
        <4>2. answers'[a][i] = [answers[a][i] EXCEPT !.isCorrect = Written(i)]
          BY <3>3
        <4>3. j.verdict[i] # None BY <3>1
        <4>4. answers[a][i].isCorrect # None => Written(i) # None BY <2>2, <4>3
        <4> HIDE DEF Written
        <4> QED BY <4>1, <4>2, <4>4 DEF Row
      <3>5. DOMAIN answers'[a] = DOMAIN answers[a] BY <3>3
      <3>6. attempts'[a].finished # None BY <3>1, <3>2
      <3> QED BY <3>2, <3>4, <3>5, <3>6, KeepsRows
    <2> QED BY <2>1, <2>2
  <1> QED BY <1>1, <1>2, <1>3, <1>4, <1>5, StepKinds

-----------------------------------------------------------------------------
(* Jobs stay placed: the step of one worker touches no other worker's job.   *)

LEMMA OneWorkerMoves ==
  ASSUME NEW w \in Workers, Request(w) \/ Serve(w) \/ Crash(w), TypeOK,
         NEW v \in Workers, v # w
  PROVE  pc'[v] = pc[v] /\ job'[v] = job[v]
  <1>1. ASSUME NEW step, NEW j, GoesOn(w, step, j)
        PROVE  pc'[v] = pc[v] /\ job'[v] = job[v]
    BY <1>1 DEF GoesOn, TypeOK
  <1>2. \E step, j : GoesOn(w, step, j)
    <2>1. CASE Request(w)
      BY <2>1 DEF Request, StartRequest, SubmitRequest, ShowRequest,
                  FlagRequest, SaveRequest
    <2>2. CASE FindExisting(w) \/ PickQuestions(w) \/ InsertAttempt(w) \/ Crash(w)
      BY <2>2 DEF FindExisting, PickQuestions, InsertAttempt, Crash, Replies
    <2>3. CASE ValidateAnswer(w) \/ WriteAnswer(w) \/ WriteFlag(w) \/ ViewRow(w)
      BY <2>3 DEF ValidateAnswer, WriteAnswer, WriteFlag, ViewRow, Replies
    <2>4. CASE RenderQuestion(w) \/ Expire(w) \/ ReadRows(w) \/ ReadTruth(w) \/ CommitFinish(w)
      BY <2>4 DEF RenderQuestion, Expire, ReadRows, ReadTruth, CommitFinish, Replies
    <2> QED BY <2>1, <2>2, <2>3, <2>4 DEF Serve
  <1> QED BY <1>1, <1>2

LEMMA IdleIsPlaced ==
  ASSUME TypeOK, NEW w \in Workers, Replies(w)
  PROVE  pc'[w] = "idle" /\ JobPlaced(w)'
  BY DEF Replies, GoesOn, TypeOK, JobPlaced, Holding

LEMMA WaitingIsPlaced ==
  ASSUME TypeOK, JobsPlaced, Next, NEW v \in Workers,
         pc'[v] = pc[v], job'[v] = job[v]
  PROVE  JobPlaced(v)'
  <1>1. JobPlaced(v) BY DEF JobsPlaced
  <1>2. CASE pc[v] \notin Holding
    BY <1>2 DEF JobPlaced, Holding
  <1>3. CASE pc[v] \in Holding
    <2>1. job[v].attempt \in AttemptIds /\ Started(job[v].attempt)
      BY <1>1, <1>3 DEF JobPlaced
    <2>2. /\ Started(job[v].attempt)'
          /\ DOMAIN answers'[job[v].attempt] = DOMAIN answers[job[v].attempt]
      BY <2>1, StepKeeps DEF Keeps
    <2> QED BY <1>1, <2>1, <2>2 DEF JobPlaced, Started
  <1> QED BY <1>2, <1>3

\* A request that goes on without a commit keeps the tables it was placed in.
LEMMA RequestIsPlaced ==
  ASSUME TypeOK, NEW w \in Workers, Request(w)
  PROVE  JobPlaced(w)'
  <1> PICK u \in Users :
        \/ \E m \in Modes : StartRequest(w, u, m)
        \/ \E a \in AttemptIds :
             \/ SubmitRequest(w, u, a)
             \/ \E i \in Orders :
                  \/ ShowRequest(w, u, a, i)
                  \/ FlagRequest(w, u, a, i)
                  \/ \E s \in Choices : SaveRequest(w, u, a, i, s)
    BY DEF Request
  <1>1. ASSUME NEW m \in Modes, StartRequest(w, u, m) PROVE JobPlaced(w)'
    BY <1>1 DEF StartRequest, GoesOn, TypeOK, JobPlaced, Holding
  <1>2. ASSUME NEW a \in AttemptIds, NEW step \in {"rows", "view", "autosave"},
               NEW j, j.attempt = a, j.view = None,
               attempts[a].user = u, GoesOn(w, step, j), UNCHANGED <<attempts, answers>>
        PROVE  JobPlaced(w)'
    <2>1. pc'[w] = step /\ job'[w] = j BY <1>2 DEF GoesOn, TypeOK
    <2>2. attempts'[a].user # None BY <1>2
    <2> QED BY <1>2, <2>1, <2>2 DEF JobPlaced, Started
  <1>3. ASSUME NEW a \in AttemptIds, SubmitRequest(w, u, a) PROVE JobPlaced(w)'
    <2>1. On(u, a).attempt = a /\ On(u, a).view = None BY DEF On, NoJob
    <2> QED BY <1>2, <1>3, <2>1 DEF SubmitRequest, OpensUnfinished, Opens, tables
  <1>4. ASSUME NEW a \in AttemptIds, NEW i \in Orders, ShowRequest(w, u, a, i)
        PROVE  JobPlaced(w)'
    <2>1. OnRow(u, a, i).attempt = a /\ OnRow(u, a, i).view = None
      BY DEF OnRow, On, NoJob
    <2> QED BY <1>2, <1>4, <2>1 DEF ShowRequest, OpensUnfinished, Opens, tables
  <1>5. ASSUME NEW a \in AttemptIds, NEW i \in Orders, NEW s \in Choices,
               SaveRequest(w, u, a, i, s)
        PROVE  JobPlaced(w)'
    <2> DEFINE j == [OnRow(u, a, i) EXCEPT !.labels = s]
    <2>1. j.attempt = a /\ j.view = None BY DEF OnRow, On, NoJob
    <2>2. GoesOn(w, "autosave", j) /\ attempts[a].user = u /\ UNCHANGED <<attempts, answers>>
      BY <1>5 DEF SaveRequest, OpensUnfinished, Opens, tables
    <2> HIDE DEF j
    <2> QED BY <1>2, <2>1, <2>2
  <1>6. ASSUME NEW a \in AttemptIds, NEW i \in Orders, FlagRequest(w, u, a, i)
        PROVE  JobPlaced(w)'
    <2> DEFINE j == [OnRow(u, a, i) EXCEPT !.view = answers[a][i]]
    <2>1. j.attempt = a /\ j.order = i /\ j.view = answers[a][i]
      BY DEF OnRow, On, NoJob
    <2>2. /\ GoesOn(w, "toggle", j) /\ attempts[a].user = u /\ i \in DOMAIN answers[a]
          /\ UNCHANGED <<attempts, answers>>
      BY <1>6 DEF FlagRequest, Opens, tables
    <2>4. pc'[w] = "toggle" /\ job'[w] = j BY <2>2 DEF GoesOn, TypeOK
    <2>5. attempts'[a].user # None BY <2>2
    <2> HIDE DEF j
    <2> QED BY <2>1, <2>2, <2>4, <2>5 DEF JobPlaced, Started
  <1> QED BY <1>1, <1>3, <1>4, <1>5, <1>6

LEMMA ServeIsPlaced ==
  ASSUME TypeOK, JobsPlaced, NEW w \in Workers, Serve(w) \/ Crash(w)
  PROVE  JobPlaced(w)'
  <1> DEFINE j == job[w]
  <1>0. JobPlaced(w) BY DEF JobsPlaced
  <1>1. CASE Replies(w) BY <1>1, IdleIsPlaced
  <1>2. CASE InsertAttempt(w) \/ WriteAnswer(w) \/ WriteFlag(w) \/ RenderQuestion(w)
               \/ CommitFinish(w) \/ Crash(w)
    BY <1>1, <1>2 DEF InsertAttempt, WriteAnswer, WriteFlag, RenderQuestion,
                      CommitFinish, Crash
  <1>3. CASE FindExisting(w)
    <2>1. GoesOn(w, "pick", j) => pc'[w] = "pick" BY DEF GoesOn, TypeOK
    <2>2. pc'[w] = "pick" => JobPlaced(w)' BY DEF JobPlaced, Holding
    <2> QED BY <1>1, <1>3, <2>1, <2>2 DEF FindExisting
  <1>4. CASE PickQuestions(w)
    <2>1. ASSUME NEW k, GoesOn(w, "insert", k) PROVE JobPlaced(w)'
      BY <2>1 DEF GoesOn, TypeOK, JobPlaced, Holding
    <2> QED BY <1>1, <1>4, <2>1 DEF PickQuestions
  <1>5. CASE ValidateAnswer(w) \/ ViewRow(w)
    <2> DEFINE k == [j EXCEPT !.view = answers[j.attempt][j.order]]
    <2>1. k.attempt = j.attempt /\ k.order = j.order
      BY DEF TypeOK, Job
    <2>2. pc[w] \in Holding /\ UNCHANGED <<attempts, answers>>
      BY <1>5 DEF ValidateAnswer, ViewRow, Holding, tables
    <2>3. j.attempt \in AttemptIds /\ Started(j.attempt) BY <1>0, <2>2 DEF JobPlaced
    <2>4. \/ Replies(w)
          \/ /\ j.order \in DOMAIN answers[j.attempt]
             /\ GoesOn(w, "write", k) \/ GoesOn(w, "timer", k)
      BY <1>5 DEF ValidateAnswer, ViewRow
    <2>5. ASSUME j.order \in DOMAIN answers[j.attempt],
                 GoesOn(w, "write", k) \/ GoesOn(w, "timer", k)
          PROVE  JobPlaced(w)'
      <3>1. job'[w] = k /\ pc'[w] \in {"write", "timer"} BY <2>5 DEF GoesOn, TypeOK
      <3> HIDE DEF k
      <3> QED BY <2>1, <2>2, <2>3, <2>5, <3>1 DEF JobPlaced, Started
    <2> QED BY <1>1, <2>4, <2>5
  <1>6. CASE Expire(w)
    <2>1. pc[w] \in Holding /\ UNCHANGED <<attempts, answers>>
      BY <1>6 DEF Expire, Holding, tables
    <2>2. pc'[w] = "rows" /\ job'[w] = j BY <1>6 DEF Expire, GoesOn, TypeOK
    <2> QED BY <1>0, <2>1, <2>2 DEF JobPlaced, Started, Holding
  <1>7. CASE ReadRows(w)
    <2> DEFINE read == [i \in DOMAIN answers[j.attempt] |-> LoadedRow(j, i)]
               k == [j EXCEPT !.stamp = clock, !.rows = read]
    <2>1. /\ k.attempt = j.attempt /\ k.order = j.order /\ k.view = j.view
          /\ k.rows = read
      BY DEF TypeOK, Job
    <2>2. pc[w] \in Holding /\ UNCHANGED <<attempts, answers>>
      BY <1>7 DEF ReadRows, Holding, tables
    <2>3. job'[w] = k /\ pc'[w] = "truth" BY <1>7 DEF ReadRows, GoesOn, TypeOK
    <2>4. DOMAIN read = DOMAIN answers[j.attempt] OBVIOUS
    <2> HIDE DEF k, read
    <2> QED BY <1>0, <2>1, <2>2, <2>3, <2>4 DEF JobPlaced, Started
  <1>8. CASE ReadTruth(w)
    <2> DEFINE marks == [i \in DOMAIN j.rows |->
                           Marks(j.rows[i].selected, bank[j.rows[i].question].options)]
               k == [j EXCEPT !.verdict = marks]
    <2>1. /\ k.attempt = j.attempt /\ k.order = j.order /\ k.view = j.view
          /\ k.rows = j.rows /\ k.verdict = marks
      BY DEF TypeOK, Job
    <2>2. pc[w] = "truth" /\ UNCHANGED <<attempts, answers>>
      BY <1>8 DEF ReadTruth, tables
    <2>3. job'[w] = k /\ pc'[w] = "commit" BY <1>8 DEF ReadTruth, GoesOn, TypeOK
    <2>4. DOMAIN marks = DOMAIN j.rows OBVIOUS
    <2> HIDE DEF k, marks
    <2> QED BY <1>0, <2>1, <2>2, <2>3, <2>4 DEF JobPlaced, Started, Holding
  <1> QED BY <1>2, <1>3, <1>4, <1>5, <1>6, <1>7, <1>8 DEF Serve

LEMMA NextPlaced ==
  ASSUME TypeOK, JobsPlaced, Next
  PROVE  JobsPlaced'
  <1> SUFFICES ASSUME NEW v \in Workers PROVE JobPlaced(v)'
    BY DEF JobsPlaced
  <1>1. CASE Tick \/ Admin
    <2>1. pc' = pc /\ job' = job
      BY <1>1 DEF Tick, Admin, EditExam, EditStatus, SetOptions
    <2> QED BY <2>1, WaitingIsPlaced
  <1>2. ASSUME NEW w \in Workers, Request(w) \/ Serve(w) \/ Crash(w)
        PROVE  JobPlaced(v)'
    <2>1. CASE v = w BY <1>2, <2>1, RequestIsPlaced, ServeIsPlaced
    <2>2. CASE v # w BY <1>2, <2>2, OneWorkerMoves, WaitingIsPlaced
    <2> QED BY <2>1, <2>2
  <1> QED BY <1>1, <1>2 DEF Next

LEMMA InitTyped == Init => TypeOK /\ JobsPlaced
  <1> SUFFICES ASSUME Init PROVE TypeOK /\ JobsPlaced OBVIOUS
  <1>1. << >> \in Seq(Row) OBVIOUS
  <1>2. TypeOK
    BY <1>1, NoJobTyped, NoAttemptTyped DEF Init, TypeOK, Labelled
  <1>3. JobsPlaced BY DEF Init, JobsPlaced, JobPlaced, Holding
  <1> QED BY <1>2, <1>3

LEMMA TypingInductive == Spec => [](TypeOK /\ JobsPlaced)
  <1>1. ASSUME TypeOK, JobsPlaced, [Next]_vars
        PROVE  TypeOK' /\ JobsPlaced'
    <2>1. CASE Next BY <1>1, <2>1, NextTyped, NextPlaced
    <2>2. CASE UNCHANGED vars
      BY <1>1, <2>2 DEF vars, TypeOK, JobsPlaced, JobPlaced, Started
    <2> QED BY <1>1, <2>1, <2>2
  <1> QED BY <1>1, InitTyped, PTL DEF Spec

\* The tables, the jobs and the clock keep their types in every behaviour.
THEOREM TypeCorrect == Spec => []TypeOK
  BY TypingInductive, PTL

\* SnapshotFrozen of Attempts: owner, mode, start and question order of an
\* attempt never change and a finished one never reopens, for any number of
\* users, requests in flight, questions, edits, crashes and attempts.
THEOREM FrozenSnapshot == Spec => SnapshotFrozen
  <1>1. ASSUME TypeOK, JobsPlaced, [Next]_vars
        PROVE  [\A a \in AttemptIds : SnapshotStays(a)]_vars
    <2>1. CASE Next
      <3>1. ASSUME NEW a \in AttemptIds PROVE SnapshotStays(a)
        <4>1. Keeps(a) BY <1>1, <2>1, StepKeeps
        <4> QED BY <4>1 DEF Keeps, SnapshotStays
      <3> QED BY <3>1
    <2> QED BY <1>1, <2>1
  <1> QED BY <1>1, TypingInductive, PTL DEF Spec, SnapshotFrozen

-----------------------------------------------------------------------------
(* Finished and scored together.  A commit leaves out the verdicts it loaded *)
(* and found right, so the induction needs that a verdict a request has      *)
(* loaded is still there when the request commits.                           *)

JobLoaded(w) ==
  LET j == job[w] IN
  pc[w] \in Holding =>
    /\ j.view # None /\ j.view.isCorrect # None
         => answers[j.attempt][j.order].isCorrect # None
    /\ pc[w] \in {"truth", "commit"} =>
         \A i \in DOMAIN j.rows :
           j.rows[i].isCorrect # None => answers[j.attempt][i].isCorrect # None

JobsLoaded == \A w \in Workers : JobLoaded(w)

LEMMA WaitingIsLoaded ==
  ASSUME TypeOK, JobsPlaced, JobsLoaded, Next, NEW v \in Workers,
         pc'[v] = pc[v], job'[v] = job[v]
  PROVE  JobLoaded(v)'
  <1> SUFFICES ASSUME pc[v] \in Holding PROVE JobLoaded(v)'
    BY DEF JobLoaded
  <1>1. JobPlaced(v) /\ JobLoaded(v) BY DEF JobsPlaced, JobsLoaded
  <1>2. job[v].attempt \in AttemptIds /\ Started(job[v].attempt)
    BY <1>1 DEF JobPlaced
  <1>3. \A i \in DOMAIN answers[job[v].attempt] :
          answers[job[v].attempt][i].isCorrect # None
            => answers'[job[v].attempt][i].isCorrect # None
    BY <1>2, StepKeeps DEF Keeps
  <1> QED BY <1>1, <1>2, <1>3 DEF JobPlaced, JobLoaded

LEMMA RequestIsLoaded ==
  ASSUME TypeOK, NEW w \in Workers, Request(w)
  PROVE  JobLoaded(w)'
  <1> PICK u \in Users :
        \/ \E m \in Modes : StartRequest(w, u, m)
        \/ \E a \in AttemptIds :
             \/ SubmitRequest(w, u, a)
             \/ \E i \in Orders :
                  \/ ShowRequest(w, u, a, i)
                  \/ FlagRequest(w, u, a, i)
                  \/ \E s \in Choices : SaveRequest(w, u, a, i, s)
    BY DEF Request
  <1>1. ASSUME NEW step \in {"existing", "rows", "view", "autosave"},
               NEW j, j.view = None, GoesOn(w, step, j)
        PROVE  JobLoaded(w)'
    BY <1>1 DEF GoesOn, TypeOK, JobLoaded, Holding
  <1>2. ASSUME NEW m \in Modes, StartRequest(w, u, m) PROVE JobLoaded(w)'
    <2> DEFINE j == [NoJob EXCEPT !.user = u, !.mode = m]
    <2>1. j.view = None /\ GoesOn(w, "existing", j) BY <1>2 DEF NoJob, StartRequest
    <2> HIDE DEF j
    <2> QED BY <1>1, <2>1
  <1>3. ASSUME NEW a \in AttemptIds
        PROVE  /\ On(u, a).view = None
               /\ \A i \in Orders : OnRow(u, a, i).view = None
    BY DEF On, OnRow, NoJob
  <1>4. ASSUME NEW a \in AttemptIds, SubmitRequest(w, u, a) PROVE JobLoaded(w)'
    BY <1>1, <1>3, <1>4 DEF SubmitRequest
  <1>5. ASSUME NEW a \in AttemptIds, NEW i \in Orders, ShowRequest(w, u, a, i)
        PROVE  JobLoaded(w)'
    BY <1>1, <1>3, <1>5 DEF ShowRequest
  <1>6. ASSUME NEW a \in AttemptIds, NEW i \in Orders, NEW s \in Choices,
               SaveRequest(w, u, a, i, s)
        PROVE  JobLoaded(w)'
    <2> DEFINE j == [OnRow(u, a, i) EXCEPT !.labels = s]
    <2>1. j.view = None /\ GoesOn(w, "autosave", j)
      BY <1>6 DEF OnRow, On, NoJob, SaveRequest
    <2> HIDE DEF j
    <2> QED BY <1>1, <2>1
  <1>7. ASSUME NEW a \in AttemptIds, NEW i \in Orders, FlagRequest(w, u, a, i)
        PROVE  JobLoaded(w)'
    <2> DEFINE j == [OnRow(u, a, i) EXCEPT !.view = answers[a][i]]
    <2>1. j.attempt = a /\ j.order = i /\ j.view = answers[a][i]
      BY DEF OnRow, On, NoJob
    <2>2. pc'[w] = "toggle" /\ job'[w] = j /\ answers' = answers
      BY <1>7 DEF FlagRequest, GoesOn, TypeOK, tables
    <2> HIDE DEF j
    <2> QED BY <2>1, <2>2 DEF JobLoaded
  <1> QED BY <1>2, <1>4, <1>5, <1>6, <1>7

LEMMA ServeIsLoaded ==
  ASSUME TypeOK, JobsPlaced, JobsLoaded, NEW w \in Workers, Serve(w) \/ Crash(w)
  PROVE  JobLoaded(w)'
  <1> DEFINE j == job[w]
  <1>0. JobPlaced(w) /\ JobLoaded(w) BY DEF JobsPlaced, JobsLoaded
  <1>1. ASSUME NEW step \in {"idle", "pick", "insert"}, NEW k, GoesOn(w, step, k)
        PROVE  JobLoaded(w)'
    BY <1>1 DEF GoesOn, TypeOK, JobLoaded, Holding
  <1>2. CASE \/ FindExisting(w) \/ PickQuestions(w) \/ InsertAttempt(w) \/ WriteAnswer(w)
             \/ WriteFlag(w) \/ RenderQuestion(w) \/ CommitFinish(w) \/ Crash(w)
    <2>1. \E step \in {"idle", "pick", "insert"} : \E k : GoesOn(w, step, k)
      <3>1. CASE FindExisting(w) \/ PickQuestions(w)
        BY <3>1 DEF FindExisting, PickQuestions, Replies
      <3>2. CASE InsertAttempt(w) \/ WriteAnswer(w) \/ WriteFlag(w)
        BY <3>2 DEF InsertAttempt, WriteAnswer, WriteFlag, Replies
      <3>3. CASE RenderQuestion(w) \/ CommitFinish(w) \/ Crash(w)
        BY <3>3 DEF RenderQuestion, CommitFinish, Crash, Replies
      <3> QED BY <1>2, <3>1, <3>2, <3>3
    <2> QED BY <1>1, <2>1
  <1>3. CASE ValidateAnswer(w) \/ ViewRow(w)
    <2> DEFINE k == [j EXCEPT !.view = answers[j.attempt][j.order]]
    <2>1. /\ k.attempt = j.attempt /\ k.order = j.order
          /\ k.view = answers[j.attempt][j.order]
      BY DEF TypeOK, Job
    <2>2. \/ Replies(w) \/ GoesOn(w, "write", k) \/ GoesOn(w, "timer", k)
      BY <1>3 DEF ValidateAnswer, ViewRow
    <2>3. answers' = answers BY <1>3 DEF ValidateAnswer, ViewRow, tables
    <2>4. ASSUME NEW step \in {"write", "timer"}, GoesOn(w, step, k)
          PROVE  JobLoaded(w)'
      <3>1. job'[w] = k /\ pc'[w] \in {"write", "timer"} BY <2>4 DEF GoesOn, TypeOK
      <3> HIDE DEF k
      <3> QED BY <2>1, <2>3, <3>1 DEF JobLoaded
    <2> QED BY <1>1, <2>2, <2>4 DEF Replies
  <1>4. CASE Expire(w)
    <2>1. pc[w] \in Holding /\ answers' = answers BY <1>4 DEF Expire, Holding, tables
    <2>2. pc'[w] = "rows" /\ job'[w] = j BY <1>4 DEF Expire, GoesOn, TypeOK
    <2> QED BY <1>0, <2>1, <2>2 DEF JobLoaded
  <1>5. CASE ReadRows(w)
    <2> DEFINE read == [i \in DOMAIN answers[j.attempt] |-> LoadedRow(j, i)]
               k == [j EXCEPT !.stamp = clock, !.rows = read]
    <2>1. /\ k.attempt = j.attempt /\ k.order = j.order /\ k.view = j.view
          /\ k.rows = read
      BY DEF TypeOK, Job
    <2>2. pc[w] \in Holding /\ answers' = answers BY <1>5 DEF ReadRows, Holding, tables
    <2>3. job'[w] = k /\ pc'[w] = "truth" BY <1>5 DEF ReadRows, GoesOn, TypeOK
    <2>4. \A i \in DOMAIN read :
            read[i].isCorrect # None => answers[j.attempt][i].isCorrect # None
      BY <1>0, <2>2 DEF JobLoaded, LoadedRow
    <2> HIDE DEF k, read
    <2> QED BY <1>0, <2>1, <2>2, <2>3, <2>4 DEF JobLoaded
  <1>6. CASE ReadTruth(w)
    <2> DEFINE marks == [i \in DOMAIN j.rows |->
                           Marks(j.rows[i].selected, bank[j.rows[i].question].options)]
               k == [j EXCEPT !.verdict = marks]
    <2>1. /\ k.attempt = j.attempt /\ k.order = j.order /\ k.view = j.view
          /\ k.rows = j.rows
      BY DEF TypeOK, Job
    <2>2. pc[w] = "truth" /\ pc[w] \in Holding /\ answers' = answers
      BY <1>6 DEF ReadTruth, Holding, tables
    <2>3. job'[w] = k /\ pc'[w] = "commit" BY <1>6 DEF ReadTruth, GoesOn, TypeOK
    <2> HIDE DEF k
    <2> QED BY <1>0, <2>1, <2>2, <2>3 DEF JobLoaded
  <1> QED BY <1>2, <1>3, <1>4, <1>5, <1>6 DEF Serve

Together(a) ==
  LET done == attempts[a].finished # None
  IN /\ done <=> attempts[a].correct # None
     /\ done <=> attempts[a].audited > 0
     /\ \A i \in DOMAIN answers[a] : done <=> answers[a][i].isCorrect # None

LEMMA StepTogether ==
  ASSUME TypeOK, JobsPlaced, JobsLoaded, FinishedTogether, Next, NEW a \in AttemptIds
  PROVE  Together(a)'
  <1>0. Together(a) BY DEF FinishedTogether, Together
  <1>1. ASSUME attempts'[a] = attempts[a], DOMAIN answers'[a] = DOMAIN answers[a],
               \A i \in DOMAIN answers[a] :
                 answers'[a][i].isCorrect = answers[a][i].isCorrect
        PROVE  Together(a)'
    BY <1>0, <1>1 DEF Together
  <1>2. CASE UNCHANGED <<attempts, answers>> BY <1>1, <1>2
  <1>3. ASSUME NEW w \in Workers, InsertAttempt(w) PROVE Together(a)'
    <2> PICK b \in AttemptIds, sheet \in Permutation(job[w].picked) :
          /\ attempts' = [attempts EXCEPT ![b] =
               [NoAttempt EXCEPT !.user = job[w].user, !.mode = job[w].mode,
                                 !.started = job[w].stamp]]
          /\ answers' = [answers EXCEPT ![b] = [i \in DOMAIN sheet |->
               [question |-> sheet[i], selected |-> {},
                isCorrect |-> None, flagged |-> FALSE]]]
      BY <1>3 DEF InsertAttempt
    <2>1. CASE a # b BY <1>1, <2>1 DEF TypeOK
    <2>2. CASE a = b
      <3>1. /\ attempts'[a].finished = None /\ attempts'[a].correct = None
            /\ attempts'[a].audited = 0
        BY <2>2 DEF TypeOK, NoAttempt
      <3>2. \A i \in DOMAIN answers'[a] : answers'[a][i].isCorrect = None
        BY <2>2 DEF TypeOK
      <3> QED BY <3>1, <3>2 DEF Together
    <2> QED BY <2>1, <2>2
  <1>4. ASSUME NEW w \in Workers, WriteFlag(w) \/ WriteAnswer(w) PROVE Together(a)'
    <2>1. attempts'[a] = attempts[a] BY <1>4 DEF WriteFlag, WriteAnswer
    <2>2. DOMAIN answers'[a] = DOMAIN answers[a]
      <3>1. CASE WriteFlag(w) BY <3>1 DEF WriteFlag, TypeOK
      <3>2. CASE WriteAnswer(w) BY <3>2 DEF WriteAnswer, TypeOK
      <3> QED BY <1>4, <3>1, <3>2
    <2>3. \A i \in DOMAIN answers[a] :
            answers'[a][i].isCorrect = answers[a][i].isCorrect
      <3> TAKE i \in DOMAIN answers[a]
      <3>1. answers[a] \in Seq(Row) /\ answers[a][i] \in Row BY DEF TypeOK
      <3>2. CASE WriteFlag(w) BY <3>1, <3>2 DEF WriteFlag, TypeOK, Row
      <3>3. CASE WriteAnswer(w) BY <3>1, <3>3 DEF WriteAnswer, TypeOK, Row
      <3> QED BY <1>4, <3>2, <3>3
    <2> QED BY <1>1, <2>1, <2>2, <2>3
  <1>5. ASSUME NEW w \in Workers, CommitFinish(w) PROVE Together(a)'
    <2> DEFINE j == job[w]
               Written(i) == IF j.verdict[i] = j.rows[i].isCorrect
                             THEN answers[j.attempt][i].isCorrect
                             ELSE j.verdict[i]
               count == Cardinality({i \in DOMAIN j.verdict : j.verdict[i]})
    <2>1. CASE a # j.attempt
      <3>1. attempts'[a] = attempts[a] /\ answers'[a] = answers[a]
        BY <1>5, <2>1 DEF CommitFinish, TypeOK
      <3> QED BY <1>1, <3>1
    <2>2. CASE a = j.attempt
      <3>1. /\ j.stamp \in Nat /\ j.verdict \in Seq(BOOLEAN)
            /\ DOMAIN j.verdict = DOMAIN answers[a]
            /\ DOMAIN j.rows = DOMAIN answers[a]
            /\ \A i \in DOMAIN answers[a] :
                 j.rows[i].isCorrect # None => answers[a][i].isCorrect # None
        <4>1. j \in Job BY DEF TypeOK
        <4>2. pc[w] = "commit" /\ pc[w] \in Holding BY <1>5 DEF CommitFinish, Holding
        <4>3. JobPlaced(w) /\ JobLoaded(w) BY DEF JobsPlaced, JobsLoaded
        <4> QED BY <2>2, <4>1, <4>2, <4>3 DEF Job, JobPlaced, JobLoaded
      <3>2. count \in Nat BY <3>1, CountIsNat
      <3>3. /\ attempts'[a].finished = j.stamp /\ attempts'[a].correct = count
            /\ attempts'[a].audited = attempts[a].audited + 1
            /\ attempts[a].audited \in Nat
        <4>1. attempts[a] \in Attempt BY DEF TypeOK
        <4> QED BY <1>5, <2>2, <4>1 DEF CommitFinish, TypeOK, Attempt
      <3>4. answers'[a] = [i \in DOMAIN answers[a] |->
                             [answers[a][i] EXCEPT !.isCorrect = Written(i)]]
        BY <1>5, <2>2 DEF CommitFinish, TypeOK
      <3>5. \A i \in DOMAIN answers[a] : answers'[a][i].isCorrect # None
        <4> TAKE i \in DOMAIN answers[a]
        <4>1. answers[a][i] \in Row BY DEF TypeOK
        <4>2. answers'[a][i] = [answers[a][i] EXCEPT !.isCorrect = Written(i)]
          BY <3>4
        <4>3. j.verdict[i] # None BY <3>1
        <4>4. Written(i) # None BY <2>2, <3>1, <4>3
        <4> HIDE DEF Written
        <4> QED BY <4>1, <4>2, <4>4 DEF Row
      <3>6. DOMAIN answers'[a] = DOMAIN answers[a] BY <3>4
      <3>7. /\ attempts'[a].finished # None /\ attempts'[a].correct # None
            /\ attempts'[a].audited > 0
        <4> HIDE DEF count, j
        <4> QED BY <3>1, <3>2, <3>3
      <3> QED BY <3>5, <3>6, <3>7 DEF Together
    <2> QED BY <2>1, <2>2
  <1> QED BY <1>2, <1>3, <1>4, <1>5, StepKinds

\* What the requests have loaded stays good enough to finish with.
LEMMA LoadedInductive == Spec => [](JobsLoaded /\ FinishedTogether)
  <1>1. Init => JobsLoaded /\ FinishedTogether
    <2> SUFFICES ASSUME Init PROVE JobsLoaded /\ FinishedTogether OBVIOUS
    <2>1. JobsLoaded BY DEF Init, JobsLoaded, JobLoaded, Holding
    <2>2. FinishedTogether BY DEF Init, FinishedTogether, NoAttempt
    <2> QED BY <2>1, <2>2
  <1>2. ASSUME TypeOK, JobsPlaced, JobsLoaded, FinishedTogether, [Next]_vars
        PROVE  JobsLoaded' /\ FinishedTogether'
    <2>1. CASE Next
      <3>1. ASSUME NEW v \in Workers PROVE JobLoaded(v)'
        <4>1. CASE Tick \/ Admin
          <5>1. pc' = pc /\ job' = job
            BY <4>1 DEF Tick, Admin, EditExam, EditStatus, SetOptions
          <5> QED BY <1>2, <2>1, <5>1, WaitingIsLoaded
        <4>2. ASSUME NEW w \in Workers, Request(w) \/ Serve(w) \/ Crash(w)
              PROVE  JobLoaded(v)'
          <5>1. CASE v = w BY <1>2, <4>2, <5>1, RequestIsLoaded, ServeIsLoaded
          <5>2. CASE v # w BY <1>2, <2>1, <4>2, <5>2, OneWorkerMoves, WaitingIsLoaded
          <5> QED BY <5>1, <5>2
        <4> QED BY <2>1, <4>1, <4>2 DEF Next
      <3>2. ASSUME NEW a \in AttemptIds PROVE Together(a)'
        BY <1>2, <2>1, StepTogether
      <3> QED BY <3>1, <3>2 DEF JobsLoaded, FinishedTogether, Together
    <2>2. CASE UNCHANGED vars
      BY <1>2, <2>2 DEF vars, JobsLoaded, JobLoaded, FinishedTogether
    <2> QED BY <1>2, <2>1, <2>2
  <1> QED BY <1>1, <1>2, TypingInductive, PTL DEF Spec

\* FinishedTogether of Attempts: in every behaviour, however many submits of an
\* attempt overlap, it has an end, a score, a finishing audit row and verdicts
\* on all its answers, or none of them.
THEOREM FinishedAndScoredTogether == Spec => []FinishedTogether
  BY LoadedInductive, PTL

=============================================================================
