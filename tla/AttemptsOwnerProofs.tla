------------------------ MODULE AttemptsOwnerProofs ------------------------
(***************************************************************************)
(* What the owner of an attempt can rely on.  Whatever overlaps, nobody    *)
(* else changes the attempt, and what is saved was offered.  When the      *)
(* owner's own requests do not overlap (SerialUsers), one attempt is in    *)
(* progress at most, a finished one is final, its score stands up to a     *)
(* recount, and Attempts implements AttemptLifecycle.                      *)
(***************************************************************************)
EXTENDS AttemptsProofs

USE QuestionsAssumption, BoundsAssumption, NoneAssumption,
    OptionSetsAssumption, TimeLimitsAssumption, ChoicesAssumption

\* A request is its user's, and so is the attempt it holds.
Owned(w) ==
  /\ pc[w] = "idle" => job[w] = NoJob
  /\ pc[w] # "idle" => job[w].user \in Users
  /\ pc[w] \in Holding => attempts[job[w].attempt].user = job[w].user

OwnedJobs == \A w \in Workers : Owned(w)

\* The labels a save has validated were offered.
Offers(w) ==
  pc[w] = "write" =>
    \E k \in inForce[answers[job[w].attempt][job[w].order].question] :
      job[w].labels \subseteq k.labels

OffersInForce ==
  /\ \A q \in Questions : bank[q].options \in inForce[q]
  /\ \A w \in Workers : Offers(w)

\* An id that is not in use is blank, and no sheet is made of no questions.
Fresh ==
  /\ \A a \in AttemptIds : ~Started(a) => attempts[a] = NoAttempt /\ answers[a] = << >>
  /\ \A w \in Workers : pc[w] = "insert" => job[w].picked # {}

\* With users who wait: a user's request is the only one; the attempt it holds
\* has not been finished behind its back; a start that has found no attempt in
\* progress is right; and what it has loaded is still so.
Alone ==
  \A v, w \in Workers :
    v # w /\ pc[v] # "idle" /\ pc[w] # "idle" => job[v].user # job[w].user

Undisturbed(w) ==
  LET j == job[w] IN
  /\ pc[w] \in Holding \ {"toggle"} => attempts[j.attempt].finished = None
  /\ pc[w] \in {"pick", "insert"} =>
       \A a \in AttemptIds : InProgress(a) => attempts[a].user # j.user
  /\ pc[w] \in {"autosave", "rows", "timer"} /\ j.view # None =>
       /\ j.view.question = answers[j.attempt][j.order].question
       /\ j.view.selected = answers[j.attempt][j.order].selected
  /\ pc[w] \in {"truth", "commit"} =>
       \A i \in DOMAIN j.rows :
         /\ j.rows[i].question = answers[j.attempt][i].question
         /\ j.rows[i].selected = answers[j.attempt][i].selected
  /\ pc[w] = "commit" =>
       \A i \in DOMAIN j.rows :
         \E k \in inForce[j.rows[i].question] :
           j.verdict[i] = Marks(j.rows[i].selected, k)

UndisturbedJobs == \A w \in Workers : Undisturbed(w)

-----------------------------------------------------------------------------
(* How a request begins, and how it goes on                                 *)

\* A worker is taken by a request of a user, on an attempt of that user.
LEMMA RequestBegins ==
  ASSUME TypeOK, NEW w \in Workers, Request(w)
  PROVE  /\ UNCHANGED <<clock, crashes, tables>>
         /\ job'[w].user \in Users /\ Takes(w, job'[w].user)
         /\ \/ pc'[w] = "existing"
            \/ /\ pc'[w] \in {"rows", "view", "autosave", "toggle"}
               /\ job'[w].attempt \in AttemptIds
               /\ attempts[job'[w].attempt].user = job'[w].user
               /\ pc'[w] # "toggle" => /\ job'[w].view = None
                                       /\ attempts[job'[w].attempt].finished = None
  <1> PICK u \in Users :
        \/ \E m \in Modes : StartRequest(w, u, m)
        \/ \E a \in AttemptIds :
             \/ SubmitRequest(w, u, a)
             \/ \E i \in Orders :
                  \/ ShowRequest(w, u, a, i)
                  \/ FlagRequest(w, u, a, i)
                  \/ \E s \in Choices : SaveRequest(w, u, a, i, s)
    BY DEF Request
  <1>0. ASSUME NEW step, NEW j, GoesOn(w, step, j)
        PROVE  pc'[w] = step /\ job'[w] = j
    BY <1>0 DEF GoesOn, TypeOK
  <1>1. ASSUME NEW m \in Modes, StartRequest(w, u, m)
        PROVE  /\ UNCHANGED <<clock, crashes, tables>>
               /\ job'[w].user = u /\ Takes(w, u) /\ pc'[w] = "existing"
    <2>1. [NoJob EXCEPT !.user = u, !.mode = m].user = u BY DEF NoJob
    <2> QED BY <1>0, <1>1, <2>1 DEF StartRequest
  <1>2. ASSUME NEW a \in AttemptIds, NEW j, j.user = u, j.attempt = a,
               NEW step \in {"rows", "view", "autosave", "toggle"},
               GoesOn(w, step, j), Opens(w, u, a), UNCHANGED <<clock, crashes, tables>>,
               step # "toggle" => j.view = None /\ attempts[a].finished = None
        PROVE  /\ UNCHANGED <<clock, crashes, tables>>
               /\ job'[w].user = u /\ Takes(w, u)
               /\ pc'[w] \in {"rows", "view", "autosave", "toggle"}
               /\ job'[w].attempt \in AttemptIds
               /\ attempts[job'[w].attempt].user = u
               /\ pc'[w] # "toggle" => /\ job'[w].view = None
                                       /\ attempts[job'[w].attempt].finished = None
    BY <1>0, <1>2 DEF Opens
  <1>3. ASSUME NEW a \in AttemptIds
        PROVE  /\ On(u, a).user = u /\ On(u, a).attempt = a /\ On(u, a).view = None
               /\ \A i \in Orders : /\ OnRow(u, a, i).user = u
                                    /\ OnRow(u, a, i).attempt = a
                                    /\ OnRow(u, a, i).view = None
    BY DEF OnRow, On, NoJob
  <1>4. ASSUME NEW a \in AttemptIds, NEW i \in Orders, NEW x
        PROVE  /\ [OnRow(u, a, i) EXCEPT !.view = x].user = u
               /\ [OnRow(u, a, i) EXCEPT !.view = x].attempt = a
               /\ [OnRow(u, a, i) EXCEPT !.labels = x].user = u
               /\ [OnRow(u, a, i) EXCEPT !.labels = x].attempt = a
               /\ [OnRow(u, a, i) EXCEPT !.labels = x].view = None
    BY DEF OnRow, On, NoJob
  <1>5. ASSUME NEW a \in AttemptIds, SubmitRequest(w, u, a)
        PROVE  GoesOn(w, "rows", On(u, a)) /\ Opens(w, u, a) /\ attempts[a].finished = None
               /\ UNCHANGED <<clock, crashes, tables>>
    BY <1>5 DEF SubmitRequest, OpensUnfinished
  <1>6. ASSUME NEW a \in AttemptIds, NEW i \in Orders, ShowRequest(w, u, a, i)
        PROVE  GoesOn(w, "view", OnRow(u, a, i)) /\ Opens(w, u, a)
               /\ attempts[a].finished = None /\ UNCHANGED <<clock, crashes, tables>>
    BY <1>6 DEF ShowRequest, OpensUnfinished
  <1>7. ASSUME NEW a \in AttemptIds, NEW i \in Orders, FlagRequest(w, u, a, i)
        PROVE  GoesOn(w, "toggle", [OnRow(u, a, i) EXCEPT !.view = answers[a][i]])
               /\ Opens(w, u, a) /\ UNCHANGED <<clock, crashes, tables>>
    BY <1>7 DEF FlagRequest
  <1>8. ASSUME NEW a \in AttemptIds, NEW i \in Orders, NEW s \in Choices,
               SaveRequest(w, u, a, i, s)
        PROVE  GoesOn(w, "autosave", [OnRow(u, a, i) EXCEPT !.labels = s])
               /\ Opens(w, u, a) /\ attempts[a].finished = None
               /\ UNCHANGED <<clock, crashes, tables>>
    BY <1>8 DEF SaveRequest, OpensUnfinished
  <1>9. CASE \E m \in Modes : StartRequest(w, u, m)
    BY <1>1, <1>9
  <1>10. CASE \E a \in AttemptIds : SubmitRequest(w, u, a)
    <2> PICK a \in AttemptIds : SubmitRequest(w, u, a) BY <1>10
    <2> QED BY <1>2, <1>3, <1>5
  <1>11. CASE \E a \in AttemptIds, i \in Orders : ShowRequest(w, u, a, i)
    <2> PICK a \in AttemptIds, i \in Orders : ShowRequest(w, u, a, i) BY <1>11
    <2> QED BY <1>2, <1>3, <1>6
  <1>12. CASE \E a \in AttemptIds, i \in Orders : FlagRequest(w, u, a, i)
    <2> PICK a \in AttemptIds, i \in Orders : FlagRequest(w, u, a, i) BY <1>12
    <2> DEFINE j == [OnRow(u, a, i) EXCEPT !.view = answers[a][i]]
    <2>1. j.user = u /\ j.attempt = a /\ GoesOn(w, "toggle", j) BY <1>4, <1>7
    <2> HIDE DEF j
    <2> QED BY <1>2, <1>7, <2>1
  <1>13. CASE \E a \in AttemptIds, i \in Orders, s \in Choices : SaveRequest(w, u, a, i, s)
    <2> PICK a \in AttemptIds, i \in Orders, s \in Choices : SaveRequest(w, u, a, i, s)
      BY <1>13
    <2> DEFINE j == [OnRow(u, a, i) EXCEPT !.labels = s]
    <2>1. j.user = u /\ j.attempt = a /\ j.view = None /\ GoesOn(w, "autosave", j)
      BY <1>4, <1>8
    <2> HIDE DEF j
    <2> QED BY <1>2, <1>8, <2>1
  <1> QED BY <1>9, <1>10, <1>11, <1>12, <1>13

\* A request under way ends, or it goes on as the same request.
LEMMA SameRequest ==
  ASSUME TypeOK, NEW w \in Workers, Serve(w) \/ Crash(w)
  PROVE  /\ pc[w] # "idle"
         /\ \/ pc'[w] = "idle" /\ job'[w] = NoJob
            \/ /\ pc'[w] # "idle" /\ UNCHANGED tables
               /\ pc[w] \in Holding <=> pc'[w] \in Holding
               /\ job'[w].user = job[w].user /\ job'[w].attempt = job[w].attempt
               /\ job'[w].order = job[w].order /\ job'[w].labels = job[w].labels
  <1> DEFINE j == job[w]
  <1>0. j \in Job BY DEF TypeOK
  <1>1. CASE Replies(w) /\ pc[w] # "idle"
    BY <1>1 DEF Replies, GoesOn, TypeOK
  <1>2. ASSUME NEW step, NEW k, GoesOn(w, step, k), UNCHANGED tables,
               pc[w] # "idle", step # "idle", pc[w] \in Holding <=> step \in Holding,
               k.user = j.user, k.attempt = j.attempt, k.order = j.order, k.labels = j.labels
        PROVE  /\ pc'[w] # "idle" /\ UNCHANGED tables
               /\ pc[w] \in Holding <=> pc'[w] \in Holding
               /\ job'[w].user = j.user /\ job'[w].attempt = j.attempt
               /\ job'[w].order = j.order /\ job'[w].labels = j.labels
    <2>1. pc'[w] = step /\ job'[w] = k BY <1>2 DEF GoesOn, TypeOK
    <2> QED BY <1>2, <2>1
  <1>3. CASE \/ InsertAttempt(w) \/ WriteAnswer(w) \/ WriteFlag(w) \/ RenderQuestion(w)
             \/ CommitFinish(w) \/ Crash(w)
    <2>1. CASE InsertAttempt(w) BY <1>1, <2>1 DEF InsertAttempt
    <2>2. CASE WriteAnswer(w) BY <1>1, <2>2 DEF WriteAnswer
    <2>3. CASE WriteFlag(w) BY <1>1, <2>3 DEF WriteFlag
    <2>4. CASE RenderQuestion(w) BY <1>1, <2>4 DEF RenderQuestion
    <2>5. CASE CommitFinish(w) BY <1>1, <2>5 DEF CommitFinish
    <2>6. CASE Crash(w) BY <1>1, <2>6 DEF Crash
    <2> QED BY <1>3, <2>1, <2>2, <2>3, <2>4, <2>5, <2>6
  <1>4. CASE FindExisting(w)
    <2>1. pc[w] # "idle" /\ pc[w] \notin Holding /\ UNCHANGED tables
          /\ (Replies(w) \/ GoesOn(w, "pick", j))
      BY <1>4 DEF FindExisting, Holding
    <2>2. "pick" \notin Holding BY DEF Holding
    <2> QED BY <1>1, <1>2, <2>1, <2>2
  <1>5. CASE PickQuestions(w)
    <2> DEFINE k == [j EXCEPT !.picked = LiveQuestions, !.stamp = clock]
    <2>1. pc[w] # "idle" /\ pc[w] \notin Holding /\ UNCHANGED tables
          /\ (Replies(w) \/ GoesOn(w, "insert", k))
      BY <1>5 DEF PickQuestions, Holding
    <2>2. /\ k.user = j.user /\ k.attempt = j.attempt /\ k.order = j.order
          /\ k.labels = j.labels
      BY <1>0 DEF Job
    <2>3. "insert" \notin Holding BY DEF Holding
    <2> HIDE DEF k
    <2> QED BY <1>1, <1>2, <2>1, <2>2, <2>3
  <1>6. CASE ValidateAnswer(w) \/ ViewRow(w)
    <2> DEFINE k == [j EXCEPT !.view = answers[j.attempt][j.order]]
    <2>1. pc[w] # "idle" /\ pc[w] \in Holding /\ UNCHANGED tables
          /\ (Replies(w) \/ GoesOn(w, "write", k) \/ GoesOn(w, "timer", k))
      BY <1>6 DEF ValidateAnswer, ViewRow, Holding
    <2>2. /\ k.user = j.user /\ k.attempt = j.attempt /\ k.order = j.order
          /\ k.labels = j.labels
      BY <1>0 DEF Job
    <2>3. "write" \in Holding /\ "timer" \in Holding BY DEF Holding
    <2> HIDE DEF k
    <2> QED BY <1>1, <1>2, <2>1, <2>2, <2>3
  <1>7. CASE Expire(w)
    <2>1. pc[w] # "idle" /\ pc[w] \in Holding /\ UNCHANGED tables /\ GoesOn(w, "rows", j)
      BY <1>7 DEF Expire, Holding
    <2>2. "rows" \in Holding BY DEF Holding
    <2> QED BY <1>2, <2>1, <2>2
  <1>8. CASE ReadRows(w)
    <2> DEFINE read == [i \in DOMAIN answers[j.attempt] |-> LoadedRow(j, i)]
               k == [j EXCEPT !.stamp = clock, !.rows = read]
    <2>1. pc[w] # "idle" /\ pc[w] \in Holding /\ UNCHANGED tables /\ GoesOn(w, "truth", k)
      BY <1>8 DEF ReadRows, Holding
    <2>2. /\ k.user = j.user /\ k.attempt = j.attempt /\ k.order = j.order
          /\ k.labels = j.labels
      BY <1>0 DEF Job
    <2>3. "truth" \in Holding BY DEF Holding
    <2> HIDE DEF k
    <2> QED BY <1>2, <2>1, <2>2, <2>3
  <1>9. CASE ReadTruth(w)
    <2> DEFINE marks == [i \in DOMAIN j.rows |->
                           Marks(j.rows[i].selected, bank[j.rows[i].question].options)]
               k == [j EXCEPT !.verdict = marks]
    <2>1. pc[w] # "idle" /\ pc[w] \in Holding /\ UNCHANGED tables /\ GoesOn(w, "commit", k)
      BY <1>9 DEF ReadTruth, Holding
    <2>2. /\ k.user = j.user /\ k.attempt = j.attempt /\ k.order = j.order
          /\ k.labels = j.labels
      BY <1>0 DEF Job
    <2>3. "commit" \in Holding BY DEF Holding
    <2> HIDE DEF k
    <2> QED BY <1>2, <2>1, <2>2, <2>3
  <1> QED BY <1>3, <1>4, <1>5, <1>6, <1>7, <1>8, <1>9 DEF Serve

\* The rest of the world leaves the requests alone.
LEMMA WorldWaits ==
  ASSUME Tick \/ Admin
  PROVE  pc' = pc /\ job' = job /\ UNCHANGED <<attempts, answers>>
  BY DEF Tick, Admin, EditExam, EditStatus, SetOptions, tables

-----------------------------------------------------------------------------
(* Owners                                                                   *)

LEMMA StepOwned ==
  ASSUME TypeOK, JobsPlaced, OwnedJobs, Next
  PROVE  OwnedJobs'
  <1> SUFFICES ASSUME NEW v \in Workers PROVE Owned(v)' BY DEF OwnedJobs
  <1>0. Owned(v) /\ JobPlaced(v) BY DEF OwnedJobs, JobsPlaced
  <1>1. pc[v] \in Holding =>
          attempts'[job[v].attempt].user = attempts[job[v].attempt].user
    <2> SUFFICES ASSUME pc[v] \in Holding
                 PROVE  attempts'[job[v].attempt].user = attempts[job[v].attempt].user
      OBVIOUS
    <2>1. job[v].attempt \in AttemptIds /\ Started(job[v].attempt) BY <1>0 DEF JobPlaced
    <2> QED BY <2>1, StepKeeps DEF Keeps, SnapshotStays
  <1>2. CASE pc'[v] = pc[v] /\ job'[v] = job[v]
    BY <1>0, <1>1, <1>2 DEF Owned
  <1>3. CASE Request(v)
    <2>1. "existing" \notin Holding /\ "idle" \notin Holding BY DEF Holding
    <2> QED BY <1>3, <2>1, RequestBegins DEF Owned, tables
  <1>4. CASE Serve(v) \/ Crash(v)
    <2>1. "idle" \notin Holding BY DEF Holding
    <2>2. CASE pc'[v] = "idle" /\ job'[v] = NoJob BY <2>1, <2>2 DEF Owned
    <2>3. CASE /\ pc'[v] # "idle" /\ pc[v] # "idle"
               /\ pc[v] \in Holding <=> pc'[v] \in Holding
               /\ job'[v].user = job[v].user /\ job'[v].attempt = job[v].attempt
      BY <1>0, <1>1, <2>3 DEF Owned
    <2> QED BY <1>4, <2>2, <2>3, SameRequest
  <1>5. CASE Tick \/ Admin BY <1>2, <1>5, WorldWaits
  <1>6. ASSUME NEW w \in Workers, Request(w) \/ Serve(w) \/ Crash(w), w # v
        PROVE  Owned(v)'
    BY <1>2, <1>6, OneWorkerMoves
  <1> QED BY <1>3, <1>4, <1>5, <1>6 DEF Next

\* Whoever changes a started attempt is a request of its owner, which ends.
LEMMA OwnerChanges ==
  ASSUME TypeOK, JobsPlaced, OwnedJobs, Next, NEW a \in AttemptIds, Started(a),
         <<attempts[a], answers[a]>>' # <<attempts[a], answers[a]>>
  PROVE  \E w \in Workers :
           /\ WriteFlag(w) \/ WriteAnswer(w) \/ CommitFinish(w)
           /\ job[w].attempt = a /\ job[w].user = attempts[a].user
           /\ pc[w] # "idle" /\ pc'[w] = "idle"
  <1>1. ASSUME NEW w \in Workers, InsertAttempt(w) PROVE FALSE
    BY <1>1 DEF InsertAttempt, TypeOK
  <1>2. PICK w \in Workers : WriteFlag(w) \/ WriteAnswer(w) \/ CommitFinish(w)
    BY <1>1, StepKinds
  <1>3. pc[w] \in Holding /\ pc[w] # "idle" /\ Replies(w)
    BY <1>2 DEF WriteFlag, WriteAnswer, CommitFinish, Holding
  <1>4. pc'[w] = "idle" BY <1>3 DEF Replies, GoesOn, TypeOK
  <1>5. job[w].attempt = a
    <2>1. CASE WriteFlag(w) BY <2>1 DEF WriteFlag, TypeOK
    <2>2. CASE WriteAnswer(w) BY <2>2 DEF WriteAnswer, TypeOK
    <2>3. CASE CommitFinish(w) BY <2>3 DEF CommitFinish, TypeOK
    <2> QED BY <1>2, <2>1, <2>2, <2>3
  <1> QED BY <1>2, <1>3, <1>4, <1>5 DEF OwnedJobs, Owned

LEMMA OwnedInductive == Spec => [](TypeOK /\ JobsPlaced /\ OwnedJobs)
  <1>1. Init => OwnedJobs
    BY DEF Init, OwnedJobs, Owned, Holding
  <1>2. ASSUME TypeOK, JobsPlaced, OwnedJobs, [Next]_vars
        PROVE  OwnedJobs'
    <2>1. CASE Next BY <1>2, <2>1, StepOwned
    <2>2. CASE UNCHANGED vars BY <1>2, <2>2 DEF vars, OwnedJobs, Owned
    <2> QED BY <1>2, <2>1, <2>2
  <1> QED BY <1>1, <1>2, TypingInductive, PTL DEF Spec

\* An attempt and its rows change only when a request of its owner commits: the
\* owner is checked when the request begins, and stays the owner.
THEOREM OnlyOwnersChange == Spec => OwnersOnly
  <1>1. ASSUME TypeOK, JobsPlaced, OwnedJobs, [Next]_vars
        PROVE  [\A a \in AttemptIds :
                  Started(a) /\ <<attempts[a], answers[a]>>' # <<attempts[a], answers[a]>>
                    => \E w \in Workers : /\ job[w].attempt = a
                                          /\ job[w].user = attempts[a].user
                                          /\ pc[w] # "idle" /\ pc'[w] = "idle"]_vars
    BY <1>1, OwnerChanges
  <1> QED BY <1>1, OwnedInductive, PTL DEF Spec, OwnersOnly

-----------------------------------------------------------------------------
(* Options offered                                                          *)

\* No option set a question has had is forgotten.
LEMMA InForceGrows ==
  ASSUME TypeOK, Next
  PROVE  \A q \in Questions : inForce[q] \subseteq inForce'[q]
  <1>1. CASE UNCHANGED inForce BY <1>1
  <1>2. ASSUME NEW q \in Questions, NEW k \in OptionSets, SetOptions(q, k)
        PROVE  \A p \in Questions : inForce[p] \subseteq inForce'[p]
    BY <1>2 DEF SetOptions, TypeOK
  <1>3. CASE Tick \/ EditExam \/ \E q \in Questions : EditStatus(q)
    BY <1>1, <1>3 DEF Tick, EditExam, EditStatus, tables
  <1>4. ASSUME NEW w \in Workers, Request(w) \/ Serve(w) \/ Crash(w)
        PROVE  UNCHANGED inForce
    <2>1. CASE Request(w) BY <2>1, RequestBegins DEF tables
    <2>2. CASE FindExisting(w) \/ PickQuestions(w) \/ InsertAttempt(w) \/ Crash(w)
      BY <2>2 DEF FindExisting, PickQuestions, InsertAttempt, Crash, tables
    <2>3. CASE ValidateAnswer(w) \/ WriteAnswer(w) \/ WriteFlag(w) \/ ViewRow(w)
      BY <2>3 DEF ValidateAnswer, WriteAnswer, WriteFlag, ViewRow, tables
    <2>4. CASE RenderQuestion(w) \/ Expire(w) \/ ReadRows(w) \/ ReadTruth(w) \/ CommitFinish(w)
      BY <2>4 DEF RenderQuestion, Expire, ReadRows, ReadTruth, CommitFinish, tables
    <2> QED BY <1>4, <2>1, <2>2, <2>3, <2>4 DEF Serve
  <1> QED BY <1>1, <1>2, <1>3, <1>4 DEF Next, Admin

LEMMA StepInForce ==
  ASSUME TypeOK, Next, \A q \in Questions : bank[q].options \in inForce[q]
  PROVE  \A q \in Questions : bank'[q].options \in inForce'[q]
  <1> SUFFICES ASSUME NEW q \in Questions PROVE bank'[q].options \in inForce'[q]
    OBVIOUS
  <1>1. CASE bank'[q].options = bank[q].options BY <1>1, InForceGrows
  <1>2. CASE UNCHANGED bank BY <1>1, <1>2
  <1>3. ASSUME NEW p \in Questions, EditStatus(p) PROVE bank'[q].options = bank[q].options
    BY <1>3 DEF EditStatus, TypeOK
  <1>4. ASSUME NEW p \in Questions, NEW k \in OptionSets, SetOptions(p, k)
        PROVE  bank'[q].options \in inForce'[q]
    <2>1. CASE p = q BY <1>4, <2>1 DEF SetOptions, TypeOK
    <2>2. CASE p # q BY <1>1, <1>4, <2>2 DEF SetOptions, TypeOK
    <2> QED BY <2>1, <2>2
  <1>5. CASE Tick \/ EditExam BY <1>2, <1>5 DEF Tick, EditExam, tables
  <1>6. ASSUME NEW w \in Workers, Request(w) \/ Serve(w) \/ Crash(w)
        PROVE  UNCHANGED bank
    <2>1. CASE Request(w) BY <2>1, RequestBegins DEF tables
    <2>2. CASE FindExisting(w) \/ PickQuestions(w) \/ InsertAttempt(w) \/ Crash(w)
      BY <2>2 DEF FindExisting, PickQuestions, InsertAttempt, Crash, tables
    <2>3. CASE ValidateAnswer(w) \/ WriteAnswer(w) \/ WriteFlag(w) \/ ViewRow(w)
      BY <2>3 DEF ValidateAnswer, WriteAnswer, WriteFlag, ViewRow, tables
    <2>4. CASE RenderQuestion(w) \/ Expire(w) \/ ReadRows(w) \/ ReadTruth(w) \/ CommitFinish(w)
      BY <2>4 DEF RenderQuestion, Expire, ReadRows, ReadTruth, CommitFinish, tables
    <2> QED BY <1>6, <2>1, <2>2, <2>3, <2>4 DEF Serve
  <1> QED BY <1>1, <1>2, <1>3, <1>4, <1>5, <1>6 DEF Next, Admin

\* The question of a row never changes once the attempt has started.
LEMMA QuestionStays ==
  ASSUME TypeOK, JobsPlaced, Next, NEW a \in AttemptIds, Started(a), NEW i \in DOMAIN answers[a]
  PROVE  /\ i \in DOMAIN answers'[a] /\ answers'[a][i].question = answers[a][i].question
         /\ answers[a][i].question \in Questions
  <1>1. DOMAIN answers'[a] = DOMAIN answers[a] /\ SheetOf(a)' = SheetOf(a)
    BY StepKeeps DEF Keeps, SnapshotStays
  <1>2. /\ SheetOf(a)[i] = answers[a][i].question
        /\ SheetOf(a)'[i] = answers'[a][i].question
    BY <1>1 DEF SheetOf
  <1>3. answers[a] \in Seq(Row) /\ answers[a][i] \in Row BY DEF TypeOK
  <1> QED BY <1>1, <1>2, <1>3 DEF Row

LEMMA StepOffers ==
  ASSUME TypeOK, JobsPlaced, OffersInForce, Next, NEW v \in Workers
  PROVE  Offers(v)'
  <1> DEFINE a == job[v].attempt
             i == job[v].order
  <1>0. JobPlaced(v) /\ Offers(v) BY DEF JobsPlaced, OffersInForce
  <1>1. CASE pc'[v] = pc[v] /\ job'[v] = job[v]
    <2> SUFFICES ASSUME pc[v] = "write"
                 PROVE  \E k \in inForce'[answers'[a][i].question] : job[v].labels \subseteq k.labels
      BY <1>1 DEF Offers
    <2>1. a \in AttemptIds /\ Started(a) /\ i \in DOMAIN answers[a]
      BY <1>0 DEF JobPlaced, Holding
    <2>2. answers'[a][i].question = answers[a][i].question /\ answers[a][i].question \in Questions
      BY <2>1, QuestionStays
    <2>3. \E k \in inForce[answers[a][i].question] : job[v].labels \subseteq k.labels
      BY <1>0 DEF Offers
    <2> QED BY <2>2, <2>3, InForceGrows
  <1>2. CASE Request(v) BY <1>2, RequestBegins DEF Offers
  <1>3. CASE Serve(v) \/ Crash(v)
    <2>1. CASE pc'[v] # "write" BY <2>1 DEF Offers
    <2>2. CASE pc'[v] = "write"
      <3>1. ValidateAnswer(v)
        <4>1. ASSUME NEW step \in {"idle", "pick", "insert", "timer", "rows", "truth", "commit"},
                     NEW k, GoesOn(v, step, k)
              PROVE  pc'[v] # "write"
          BY <4>1 DEF GoesOn, TypeOK
        <4>2. CASE FindExisting(v) \/ PickQuestions(v) \/ InsertAttempt(v) \/ Crash(v)
          BY <2>2, <4>1, <4>2 DEF FindExisting, PickQuestions, InsertAttempt, Crash, Replies
        <4>3. CASE WriteAnswer(v) \/ WriteFlag(v) \/ ViewRow(v) \/ RenderQuestion(v)
          BY <2>2, <4>1, <4>3 DEF WriteAnswer, WriteFlag, ViewRow, RenderQuestion, Replies
        <4>4. CASE Expire(v) \/ ReadRows(v) \/ ReadTruth(v) \/ CommitFinish(v)
          BY <2>2, <4>1, <4>4 DEF Expire, ReadRows, ReadTruth, CommitFinish, Replies
        <4> QED BY <1>3, <4>2, <4>3, <4>4 DEF Serve
      <3>2. ~Replies(v) BY <2>2 DEF Replies, GoesOn, TypeOK
      <3>3. /\ i \in DOMAIN answers[a] /\ UNCHANGED tables
            /\ job[v].labels \subseteq bank[answers[a][i].question].options.labels
        BY <3>1, <3>2 DEF ValidateAnswer, Valid
      <3>4. a \in AttemptIds BY <1>0, <3>1 DEF ValidateAnswer, JobPlaced, Holding
      <3>5. answers[a][i].question \in Questions
        <4>1. answers[a] \in Seq(Row) /\ answers[a][i] \in Row BY <3>3, <3>4 DEF TypeOK
        <4> QED BY <4>1 DEF Row
      <3>6. job'[v].labels = job[v].labels /\ job'[v].attempt = a /\ job'[v].order = i
        BY <1>3, <2>2, SameRequest
      <3>7. bank[answers[a][i].question].options \in inForce[answers[a][i].question]
        BY <3>5 DEF OffersInForce
      <3> QED BY <3>3, <3>6, <3>7 DEF Offers, tables
    <2> QED BY <2>1, <2>2
  <1>4. CASE Tick \/ Admin BY <1>1, <1>4, WorldWaits
  <1>5. ASSUME NEW w \in Workers, Request(w) \/ Serve(w) \/ Crash(w), w # v
        PROVE  Offers(v)'
    BY <1>1, <1>5, OneWorkerMoves
  <1> QED BY <1>2, <1>3, <1>4, <1>5 DEF Next

\* What a commit does to one row: a save sets its selection to the labels it has
\* validated, if at all, and nothing else sets a selection.
LEMMA RowWrites ==
  ASSUME TypeOK, JobsPlaced, NEW w \in Workers,
         WriteFlag(w) \/ WriteAnswer(w) \/ CommitFinish(w),
         NEW a \in AttemptIds, NEW i \in DOMAIN answers[a]
  PROVE  /\ DOMAIN answers'[a] = DOMAIN answers[a]
         /\ answers'[a][i].question = answers[a][i].question
         /\ \/ answers'[a][i].selected = answers[a][i].selected
            \/ /\ WriteAnswer(w) /\ a = job[w].attempt /\ i = job[w].order
               /\ answers'[a][i].selected = job[w].labels
  <1>1. answers[a] \in Seq(Row) /\ answers[a][i] \in Row BY DEF TypeOK
  <1>2. CASE WriteFlag(w) BY <1>1, <1>2 DEF WriteFlag, TypeOK, Row
  <1>3. CASE WriteAnswer(w) BY <1>1, <1>3 DEF WriteAnswer, TypeOK, Row
  <1>4. CASE CommitFinish(w)
    <2> DEFINE Written(k) == IF job[w].verdict[k] = job[w].rows[k].isCorrect
                             THEN answers[job[w].attempt][k].isCorrect
                             ELSE job[w].verdict[k]
    <2>1. CASE a # job[w].attempt BY <1>4, <2>1 DEF CommitFinish, TypeOK
    <2>2. CASE a = job[w].attempt
      <3>1. answers'[a] = [k \in DOMAIN answers[a] |->
                             [answers[a][k] EXCEPT !.isCorrect = Written(k)]]
        BY <1>4, <2>2 DEF CommitFinish, TypeOK
      <3>2. DOMAIN answers'[a] = DOMAIN answers[a] BY <3>1
      <3>3. answers'[a][i] = [answers[a][i] EXCEPT !.isCorrect = Written(i)] BY <3>1
      <3> HIDE DEF Written
      <3> QED BY <1>1, <3>2, <3>3 DEF Row
    <2> QED BY <2>1, <2>2
  <1> QED BY <1>2, <1>3, <1>4

\* A blank sheet: its questions, nothing selected and nothing judged.
LEMMA InsertBlank ==
  ASSUME TypeOK, NEW w \in Workers, InsertAttempt(w)
  PROVE  \E b \in AttemptIds, sheet \in Permutation(job[w].picked) :
           /\ ~Started(b) /\ pc[w] = "insert"
           /\ attempts'[b] = [NoAttempt EXCEPT !.user = job[w].user, !.mode = job[w].mode,
                                               !.started = job[w].stamp]
           /\ DOMAIN answers'[b] = DOMAIN sheet /\ Cardinality(job[w].picked) \in Nat
           /\ DOMAIN sheet = 1 .. Cardinality(job[w].picked)
           /\ \A i \in DOMAIN sheet :
                answers'[b][i] = [question |-> sheet[i], selected |-> {},
                                  isCorrect |-> None, flagged |-> FALSE]
           /\ \A i \in DOMAIN sheet : sheet[i] \in Questions
           /\ \A i, j \in DOMAIN sheet : sheet[i] = sheet[j] => i = j
           /\ \A a \in AttemptIds \ {b} :
                attempts'[a] = attempts[a] /\ answers'[a] = answers[a]
  <1> PICK b \in AttemptIds, sheet \in Permutation(job[w].picked) :
        /\ ~Started(b)
        /\ attempts' = [attempts EXCEPT ![b] =
             [NoAttempt EXCEPT !.user = job[w].user, !.mode = job[w].mode,
                               !.started = job[w].stamp]]
        /\ answers' = [answers EXCEPT ![b] = [i \in DOMAIN sheet |->
             [question |-> sheet[i], selected |-> {},
              isCorrect |-> None, flagged |-> FALSE]]]
    BY DEF InsertAttempt
  <1>1. job[w] \in Job /\ pc[w] = "insert" BY DEF TypeOK, InsertAttempt
  <1>2. job[w].picked \subseteq Questions BY <1>1 DEF Job
  <1>3. /\ sheet \in [1 .. Cardinality(job[w].picked) -> job[w].picked]
        /\ \A i, j \in DOMAIN sheet : sheet[i] = sheet[j] => i = j
    BY DEF Permutation
  <1>4. /\ DOMAIN sheet = 1 .. Cardinality(job[w].picked)
        /\ \A i \in DOMAIN sheet : sheet[i] \in Questions
    BY <1>2, <1>3
  <1>5. Cardinality(job[w].picked) \in Nat BY <1>2, PickedIsFinite
  <1>6. /\ attempts'[b] = [NoAttempt EXCEPT !.user = job[w].user, !.mode = job[w].mode,
                                            !.started = job[w].stamp]
        /\ answers'[b] = [i \in DOMAIN sheet |->
             [question |-> sheet[i], selected |-> {},
              isCorrect |-> None, flagged |-> FALSE]]
        /\ \A a \in AttemptIds \ {b} :
             attempts'[a] = attempts[a] /\ answers'[a] = answers[a]
    BY DEF TypeOK
  <1>7. /\ DOMAIN answers'[b] = DOMAIN sheet
        /\ \A i \in DOMAIN sheet :
             answers'[b][i] = [question |-> sheet[i], selected |-> {},
                               isCorrect |-> None, flagged |-> FALSE]
    BY <1>6
  <1> QED BY <1>1, <1>3, <1>4, <1>5, <1>6, <1>7

LEMMA StepOffered ==
  ASSUME TypeOK, JobsPlaced, OffersInForce, SelectionsWereOffered, Next
  PROVE  SelectionsWereOffered'
  <1> DEFINE Offered(a, i) == \E k \in inForce[answers[a][i].question] :
                                answers[a][i].selected \subseteq k.labels
  <1>0. SUFFICES ASSUME NEW a \in AttemptIds, NEW i \in DOMAIN answers'[a]
                 PROVE  Offered(a, i)'
    BY DEF SelectionsWereOffered
  <1>1. CASE answers'[a] = answers[a]
    <2>1. Offered(a, i) BY <1>1 DEF SelectionsWereOffered
    <2>2. answers[a][i].question \in Questions
      <3>1. answers[a] \in Seq(Row) /\ answers[a][i] \in Row BY <1>1 DEF TypeOK
      <3> QED BY <3>1 DEF Row
    <2> QED BY <1>1, <2>1, <2>2, InForceGrows
  <1>2. ASSUME NEW w \in Workers, InsertAttempt(w), answers'[a] # answers[a]
        PROVE  Offered(a, i)'
    <2> PICK sheet \in Permutation(job[w].picked) :
          /\ \A n \in DOMAIN sheet :
               answers'[a][n] = [question |-> sheet[n], selected |-> {},
                                 isCorrect |-> None, flagged |-> FALSE]
          /\ \A n \in DOMAIN sheet : sheet[n] \in Questions
          /\ DOMAIN answers'[a] = DOMAIN sheet
      <3> PICK b \in AttemptIds, sheet \in Permutation(job[w].picked) :
            /\ DOMAIN answers'[b] = DOMAIN sheet
            /\ \A n \in DOMAIN sheet :
                 answers'[b][n] = [question |-> sheet[n], selected |-> {},
                                   isCorrect |-> None, flagged |-> FALSE]
            /\ \A n \in DOMAIN sheet : sheet[n] \in Questions
            /\ \A c \in AttemptIds \ {b} :
                 attempts'[c] = attempts[c] /\ answers'[c] = answers[c]
        BY <1>2, InsertBlank
      <3>1. a = b BY <1>2
      <3> QED BY <3>1
    <2>1. answers'[a][i].question \in Questions /\ answers'[a][i].selected = {}
      <3>1. /\ sheet[i] \in Questions
            /\ answers'[a][i] = [question |-> sheet[i], selected |-> {},
                                 isCorrect |-> None, flagged |-> FALSE]
        OBVIOUS
      <3> QED BY <3>1
    <2>2. bank'[answers'[a][i].question].options \in inForce'[answers'[a][i].question]
      BY <2>1, StepInForce DEF OffersInForce
    <2> QED BY <2>1, <2>2
  <1>3. ASSUME NEW w \in Workers, WriteFlag(w) \/ WriteAnswer(w) \/ CommitFinish(w)
        PROVE  Offered(a, i)'
    <2>1. i \in DOMAIN answers[a]
      <3>1. CASE WriteFlag(w) BY <3>1 DEF WriteFlag, TypeOK
      <3>2. CASE WriteAnswer(w) BY <3>2 DEF WriteAnswer, TypeOK
      <3>3. CASE CommitFinish(w) BY <3>3 DEF CommitFinish, TypeOK
      <3> QED BY <1>3, <3>1, <3>2, <3>3
    <2>2. answers[a][i].question \in Questions
      <3>1. answers[a] \in Seq(Row) /\ answers[a][i] \in Row BY <2>1 DEF TypeOK
      <3> QED BY <3>1 DEF Row
    <2>3. answers'[a][i].question = answers[a][i].question BY <1>3, <2>1, RowWrites
    <2>4. CASE answers'[a][i].selected = answers[a][i].selected
      <3>1. Offered(a, i) BY <2>1 DEF SelectionsWereOffered
      <3> QED BY <2>2, <2>3, <2>4, <3>1, InForceGrows
    <2>5. CASE /\ WriteAnswer(w) /\ a = job[w].attempt /\ i = job[w].order
               /\ answers'[a][i].selected = job[w].labels
      <3>1. pc[w] = "write" BY <2>5 DEF WriteAnswer
      <3>2. \E k \in inForce[answers[a][i].question] : job[w].labels \subseteq k.labels
        BY <2>5, <3>1 DEF OffersInForce, Offers
      <3> QED BY <2>2, <2>3, <2>5, <3>2, InForceGrows
    <2> QED BY <1>3, <2>1, <2>4, <2>5, RowWrites
  <1> QED BY <1>1, <1>2, <1>3, StepKinds

LEMMA OfferedInductive == Spec => [](OffersInForce /\ SelectionsWereOffered)
  <1>1. Init => OffersInForce /\ SelectionsWereOffered
    BY DEF Init, OffersInForce, Offers, SelectionsWereOffered
  <1>2. ASSUME TypeOK, JobsPlaced, OffersInForce, SelectionsWereOffered, [Next]_vars
        PROVE  OffersInForce' /\ SelectionsWereOffered'
    <2>1. CASE Next
      <3>1. (\A q \in Questions : bank[q].options \in inForce[q])'
        BY <1>2, <2>1, StepInForce DEF OffersInForce
      <3>2. (\A v \in Workers : Offers(v))' BY <1>2, <2>1, StepOffers
      <3> QED BY <1>2, <2>1, <3>1, <3>2, StepOffered DEF OffersInForce
    <2>2. CASE UNCHANGED vars
      BY <1>2, <2>2 DEF vars, OffersInForce, Offers, SelectionsWereOffered
    <2> QED BY <1>2, <2>1, <2>2
  <1> QED BY <1>1, <1>2, TypingInductive, PTL DEF Spec

\* Whatever is saved was offered: a save that validates its labels against
\* options replaced before it commits still writes labels the question had.
THEOREM SavedWasOffered == Spec => []SelectionsWereOffered
  BY OfferedInductive, PTL

-----------------------------------------------------------------------------
(* Blank ids                                                                *)

LEMMA StepFresh ==
  ASSUME TypeOK, JobsPlaced, OwnedJobs, Fresh, Next
  PROVE  Fresh'
  <1>1. ASSUME NEW a \in AttemptIds, ~Started(a)'
        PROVE  attempts'[a] = NoAttempt /\ answers'[a] = << >>
    <2>1. ~Started(a) BY <1>1, StepKeeps DEF Keeps
    <2>2. attempts[a] = NoAttempt /\ answers[a] = << >> BY <2>1 DEF Fresh
    <2>3. ASSUME NEW w \in Workers, InsertAttempt(w)
          PROVE  attempts'[a] = attempts[a] /\ answers'[a] = answers[a]
      <3> PICK b \in AttemptIds :
            /\ attempts'[b] = [NoAttempt EXCEPT !.user = job[w].user, !.mode = job[w].mode,
                                                !.started = job[w].stamp]
            /\ \A c \in AttemptIds \ {b} :
                 attempts'[c] = attempts[c] /\ answers'[c] = answers[c]
        BY <2>3, InsertBlank
      <3>1. job[w].user \in Users BY <2>3 DEF InsertAttempt, OwnedJobs, Owned
      <3>2. attempts'[b].user # None BY <3>1 DEF NoAttempt
      <3>3. a # b BY <1>1, <3>2 DEF Started
      <3> QED BY <3>3
    <2>4. ASSUME NEW w \in Workers, WriteFlag(w) \/ WriteAnswer(w) \/ CommitFinish(w)
          PROVE  attempts'[a] = attempts[a] /\ answers'[a] = answers[a]
      <3>1. job[w].attempt # a
        <4>1. pc[w] \in Holding
          BY <2>4 DEF WriteFlag, WriteAnswer, CommitFinish, Holding
        <4> QED BY <2>1, <4>1 DEF JobsPlaced, JobPlaced
      <3>2. CASE WriteFlag(w) BY <3>1, <3>2 DEF WriteFlag, TypeOK
      <3>3. CASE WriteAnswer(w) BY <3>1, <3>3 DEF WriteAnswer, TypeOK
      <3>4. CASE CommitFinish(w) BY <3>1, <3>4 DEF CommitFinish, TypeOK
      <3> QED BY <2>4, <3>2, <3>3, <3>4
    <2> QED BY <2>2, <2>3, <2>4, StepKinds
  <1>2. ASSUME NEW v \in Workers, pc'[v] = "insert"
        PROVE  job'[v].picked # {}
    <2>1. CASE pc'[v] = pc[v] /\ job'[v] = job[v] BY <1>2, <2>1 DEF Fresh
    <2>2. CASE Request(v) BY <1>2, <2>2, RequestBegins
    <2>3. CASE Serve(v) \/ Crash(v)
      <3>1. ASSUME NEW step, NEW k, GoesOn(v, step, k)
            PROVE  pc'[v] = step /\ job'[v] = k
        BY <3>1 DEF GoesOn, TypeOK
      <3>2. CASE PickQuestions(v)
        <4> DEFINE k == [job[v] EXCEPT !.picked = LiveQuestions, !.stamp = clock]
        <4>1. Replies(v) \/ (LiveQuestions # {} /\ GoesOn(v, "insert", k))
          BY <3>2 DEF PickQuestions
        <4>2. k.picked = LiveQuestions BY DEF TypeOK, Job
        <4> HIDE DEF k
        <4> QED BY <1>2, <3>1, <4>1, <4>2 DEF Replies
      <3>3. CASE FindExisting(v) \/ InsertAttempt(v) \/ ValidateAnswer(v) \/ Crash(v)
        BY <1>2, <3>1, <3>3 DEF FindExisting, InsertAttempt, ValidateAnswer, Crash, Replies
      <3>4. CASE WriteAnswer(v) \/ WriteFlag(v) \/ ViewRow(v) \/ RenderQuestion(v)
        BY <1>2, <3>1, <3>4 DEF WriteAnswer, WriteFlag, ViewRow, RenderQuestion, Replies
      <3>5. CASE Expire(v) BY <1>2, <3>1, <3>5 DEF Expire
      <3>6. CASE ReadRows(v) BY <1>2, <3>1, <3>6 DEF ReadRows
      <3>7. CASE ReadTruth(v) BY <1>2, <3>1, <3>7 DEF ReadTruth
      <3>8. CASE CommitFinish(v)
        <4>1. Replies(v) BY <3>8 DEF CommitFinish
        <4> QED BY <1>2, <3>1, <4>1 DEF Replies
      <3> QED BY <2>3, <3>2, <3>3, <3>4, <3>5, <3>6, <3>7, <3>8 DEF Serve
    <2>4. CASE Tick \/ Admin BY <2>1, <2>4, WorldWaits
    <2>5. ASSUME NEW w \in Workers, Request(w) \/ Serve(w) \/ Crash(w), w # v
          PROVE  job'[v].picked # {}
      BY <2>1, <2>5, OneWorkerMoves
    <2> QED BY <2>2, <2>3, <2>4, <2>5 DEF Next
  <1> QED BY <1>1, <1>2 DEF Fresh

-----------------------------------------------------------------------------
(* Users who wait for their answers                                         *)

\* A user's request is the only one of that user.
LEMMA StepAlone ==
  ASSUME SerialUsers, TypeOK, OwnedJobs, Alone, Next
  PROVE  Alone'
  <1> SUFFICES ASSUME NEW v \in Workers, NEW w \in Workers, v # w,
                      pc'[v] # "idle", pc'[w] # "idle"
               PROVE  job'[v].user # job'[w].user
    BY DEF Alone
  <1>1. CASE Tick \/ Admin BY <1>1, WorldWaits DEF Alone
  <1>2. ASSUME NEW x \in Workers, NEW y \in Workers, x # y, Request(x) \/ Serve(x) \/ Crash(x),
               pc'[x] # "idle", pc'[y] # "idle"
        PROVE  job'[x].user # job'[y].user
    <2>1. pc'[y] = pc[y] /\ job'[y] = job[y] BY <1>2, OneWorkerMoves
    <2>2. CASE Request(x)
      <3>1. Takes(x, job'[x].user) BY <2>2, RequestBegins
      <3> QED BY <2>1, <3>1 DEF Takes
    <2>3. CASE Serve(x) \/ Crash(x)
      <3>1. pc[x] # "idle" /\ job'[x].user = job[x].user BY <1>2, <2>3, SameRequest
      <3> QED BY <1>2, <2>1, <3>1 DEF Alone
    <2> QED BY <1>2, <2>2, <2>3
  <1>3. ASSUME NEW x \in Workers, Request(x) \/ Serve(x) \/ Crash(x)
        PROVE  job'[v].user # job'[w].user
    <2>1. CASE x = v BY <1>2, <1>3, <2>1
    <2>2. CASE x = w BY <1>2, <1>3, <2>2
    <2>3. CASE x # v /\ x # w
      BY <1>3, <2>3, OneWorkerMoves DEF Alone
    <2> QED BY <2>1, <2>2, <2>3
  <1> QED BY <1>1, <1>3 DEF Next

\* While a request waits, nobody touches the attempt it holds.
LEMMA NobodyElse ==
  ASSUME TypeOK, JobsPlaced, OwnedJobs, Alone, Next,
         NEW v \in Workers, pc'[v] = pc[v], pc[v] \in Holding
  PROVE  attempts'[job[v].attempt] = attempts[job[v].attempt]
         /\ answers'[job[v].attempt] = answers[job[v].attempt]
  <1> PICK a \in AttemptIds : a = job[v].attempt
    BY DEF JobsPlaced, JobPlaced
  <1>1. Started(a) /\ attempts[a].user = job[v].user
    BY DEF JobsPlaced, JobPlaced, OwnedJobs, Owned
  <1>2. "idle" \notin Holding BY DEF Holding
  <1>3. ASSUME NEW w \in Workers, job[w].user = attempts[a].user,
               pc[w] # "idle", pc'[w] = "idle"
        PROVE  FALSE
    <2>1. w # v BY <1>2, <1>3
    <2> QED BY <1>1, <1>2, <1>3, <2>1 DEF Alone
  <1>4. <<attempts[a], answers[a]>>' = <<attempts[a], answers[a]>>
    BY <1>1, <1>3, OwnerChanges
  <1> QED BY <1>4

\* What a waiting request knows stays true.
LEMMA WaitingUndisturbed ==
  ASSUME TypeOK, JobsPlaced, OwnedJobs, Alone, UndisturbedJobs, Next,
         NEW v \in Workers, pc'[v] = pc[v], job'[v] = job[v]
  PROVE  Undisturbed(v)'
  <1> DEFINE j == job[v]
  <1>0. Undisturbed(v) /\ JobPlaced(v) /\ j \in Job
    BY DEF UndisturbedJobs, JobsPlaced, TypeOK
  <1>1. CASE pc[v] \in Holding
    <2>1. attempts'[j.attempt] = attempts[j.attempt] /\ answers'[j.attempt] = answers[j.attempt]
      BY <1>1, NobodyElse
    <2>2. pc[v] = "commit" =>
            \A i \in DOMAIN j.rows :
              \E k \in inForce'[j.rows[i].question] :
                j.verdict[i] = Marks(j.rows[i].selected, k)
      <3> SUFFICES ASSUME pc[v] = "commit", NEW i \in DOMAIN j.rows
                   PROVE  \E k \in inForce'[j.rows[i].question] :
                            j.verdict[i] = Marks(j.rows[i].selected, k)
        OBVIOUS
      <3>1. j.rows[i].question \in Questions
        <4>1. j.rows \in Seq(Row) BY <1>0 DEF Job
        <4>2. j.rows[i] \in Row BY <4>1
        <4> QED BY <4>2 DEF Row
      <3>2. \E k \in inForce[j.rows[i].question] : j.verdict[i] = Marks(j.rows[i].selected, k)
        BY <1>0 DEF Undisturbed
      <3> QED BY <3>1, <3>2, InForceGrows
    <2>3. pc[v] \notin {"pick", "insert"} BY <1>1 DEF Holding
    <2> QED BY <1>0, <2>1, <2>2, <2>3 DEF Undisturbed
  <1>2. CASE pc[v] \in {"pick", "insert"}
    <2>1. ASSUME NEW a \in AttemptIds, InProgress(a)'
          PROVE  attempts'[a].user # j.user
      <3>1. CASE Started(a)
        <4>1. attempts'[a].user = attempts[a].user /\ attempts[a].finished = None
          BY <2>1, <3>1, StepKeeps DEF Keeps, SnapshotStays, InProgress
        <4> QED BY <1>0, <1>2, <3>1, <4>1 DEF Undisturbed, InProgress
      <3>2. CASE ~Started(a)
        <4>1. attempts'[a] # attempts[a] BY <2>1, <3>2 DEF InProgress, Started
        <4>2. PICK w \in Workers :
                InsertAttempt(w) \/ WriteFlag(w) \/ WriteAnswer(w) \/ CommitFinish(w)
          BY <4>1, StepKinds
        <4>3. CASE InsertAttempt(w)
          <5> PICK b \in AttemptIds :
                /\ attempts'[b] = [NoAttempt EXCEPT !.user = job[w].user, !.mode = job[w].mode,
                                                    !.started = job[w].stamp]
                /\ \A c \in AttemptIds \ {b} :
                     attempts'[c] = attempts[c] /\ answers'[c] = answers[c]
            BY <4>3, InsertBlank
          <5>1. a = b BY <4>1
          <5>2. attempts'[a].user = job[w].user BY <5>1 DEF NoAttempt
          <5>3. pc[w] = "insert" /\ pc'[w] = "idle"
            BY <4>3 DEF InsertAttempt, Replies, GoesOn, TypeOK
          <5>4. w # v BY <1>2, <5>3
          <5> QED BY <1>2, <5>2, <5>3, <5>4 DEF Alone
        <4>4. CASE WriteFlag(w) \/ WriteAnswer(w) BY <4>1, <4>4 DEF WriteFlag, WriteAnswer
        <4>5. CASE CommitFinish(w)
          <5>1. job[w].attempt # a
            BY <3>2, <4>5 DEF JobsPlaced, JobPlaced, CommitFinish, Holding
          <5> QED BY <4>1, <4>5, <5>1 DEF CommitFinish, TypeOK
        <4> QED BY <4>2, <4>3, <4>4, <4>5
      <3> QED BY <3>1, <3>2
    <2>2. pc[v] \notin Holding BY <1>2 DEF Holding
    <2> QED BY <1>2, <2>1, <2>2 DEF Undisturbed, Holding
  <1>3. CASE pc[v] \notin Holding \cup {"pick", "insert"}
    BY <1>3 DEF Undisturbed, Holding
  <1> QED BY <1>1, <1>2, <1>3

LEMMA RequestUndisturbed ==
  ASSUME TypeOK, NEW w \in Workers, Request(w)
  PROVE  Undisturbed(w)'
  <1>1. attempts' = attempts BY RequestBegins DEF tables
  <1>2. CASE pc'[w] = "existing" BY <1>2 DEF Undisturbed, Holding
  <1>3. CASE pc'[w] = "toggle" BY <1>3 DEF Undisturbed, Holding
  <1>4. CASE /\ pc'[w] \in {"rows", "view", "autosave"}
             /\ job'[w].view = None
             /\ attempts[job'[w].attempt].finished = None
    BY <1>1, <1>4 DEF Undisturbed, Holding
  <1> QED BY <1>2, <1>3, <1>4, RequestBegins

LEMMA ServeUndisturbed ==
  ASSUME TypeOK, JobsPlaced, OffersInForce, UndisturbedJobs,
         NEW w \in Workers, Serve(w) \/ Crash(w)
  PROVE  Undisturbed(w)'
  <1> DEFINE j == job[w]
  <1>0. JobPlaced(w) /\ Undisturbed(w) /\ j \in Job
    BY DEF JobsPlaced, UndisturbedJobs, TypeOK
  <1>1. ASSUME NEW step, NEW k, GoesOn(w, step, k)
        PROVE  pc'[w] = step /\ job'[w] = k
    BY <1>1 DEF GoesOn, TypeOK
  <1>2. CASE pc'[w] \in {"idle", "existing"} BY <1>2 DEF Undisturbed, Holding
  <1>3. CASE \/ InsertAttempt(w) \/ WriteAnswer(w) \/ WriteFlag(w) \/ RenderQuestion(w)
             \/ CommitFinish(w) \/ Crash(w)
    <2>1. Replies(w)
      <3>1. CASE InsertAttempt(w) BY <3>1 DEF InsertAttempt
      <3>2. CASE WriteAnswer(w) BY <3>2 DEF WriteAnswer
      <3>3. CASE WriteFlag(w) BY <3>3 DEF WriteFlag
      <3>4. CASE RenderQuestion(w) BY <3>4 DEF RenderQuestion
      <3>5. CASE CommitFinish(w) BY <3>5 DEF CommitFinish
      <3>6. CASE Crash(w) BY <3>6 DEF Crash
      <3> QED BY <1>3, <3>1, <3>2, <3>3, <3>4, <3>5, <3>6
    <2> QED BY <1>1, <1>2, <2>1 DEF Replies
  <1>4. CASE FindExisting(w)
    <2>1. CASE Replies(w) BY <1>1, <1>2, <2>1 DEF Replies
    <2>2. CASE /\ GoesOn(w, "pick", j) /\ attempts' = attempts
               /\ ~ \E a \in AttemptIds : Resumable(j, a)
      <3>1. pc'[w] = "pick" /\ job'[w] = j BY <1>1, <2>2
      <3> QED BY <2>2, <3>1 DEF Undisturbed, Holding, Resumable, InProgress, Started
    <2> QED BY <1>4, <2>1, <2>2 DEF FindExisting, tables
  <1>5. CASE PickQuestions(w)
    <2> DEFINE k == [j EXCEPT !.picked = LiveQuestions, !.stamp = clock]
    <2>1. CASE Replies(w) BY <1>1, <1>2, <2>1 DEF Replies
    <2>2. CASE GoesOn(w, "insert", k) /\ attempts' = attempts /\ pc[w] = "pick"
      <3>1. pc'[w] = "insert" /\ job'[w] = k BY <1>1, <2>2
      <3>2. k.user = j.user BY <1>0 DEF Job
      <3>3. \A a \in AttemptIds : InProgress(a) => attempts[a].user # j.user
        BY <1>0, <2>2 DEF Undisturbed
      <3> HIDE DEF k
      <3> QED BY <2>2, <3>1, <3>2, <3>3 DEF Undisturbed, Holding, InProgress, Started
    <2> QED BY <1>5, <2>1, <2>2 DEF PickQuestions, tables
  <1>6. CASE ValidateAnswer(w) \/ ViewRow(w)
    <2> DEFINE k == [j EXCEPT !.view = answers[j.attempt][j.order]]
    <2>1. CASE Replies(w) BY <1>1, <1>2, <2>1 DEF Replies
    <2>2. CASE /\ UNCHANGED tables /\ pc[w] \in {"autosave", "view"}
               /\ GoesOn(w, "write", k) \/ GoesOn(w, "timer", k)
      <3>1. pc'[w] \in {"write", "timer"} /\ job'[w] = k BY <1>1, <2>2
      <3>2. /\ k.attempt = j.attempt /\ k.order = j.order
            /\ k.view = answers[j.attempt][j.order]
        BY <1>0 DEF Job
      <3>3. attempts[j.attempt].finished = None BY <1>0, <2>2 DEF Undisturbed, Holding
      <3> HIDE DEF k
      <3> QED BY <2>2, <3>1, <3>2, <3>3 DEF Undisturbed, Holding, tables
    <2> QED BY <1>6, <2>1, <2>2 DEF ValidateAnswer, ViewRow
  <1>7. CASE Expire(w)
    <2>1. /\ pc[w] \in {"autosave", "timer"} /\ pc'[w] = "rows" /\ job'[w] = j
          /\ attempts' = attempts /\ answers' = answers
      BY <1>1, <1>7 DEF Expire, tables
    <2> QED BY <1>0, <2>1 DEF Undisturbed, Holding
  <1>8. CASE ReadRows(w)
    <2> DEFINE read == [i \in DOMAIN answers[j.attempt] |-> LoadedRow(j, i)]
               k == [j EXCEPT !.stamp = clock, !.rows = read]
    <2>1. /\ pc[w] = "rows" /\ pc'[w] = "truth" /\ job'[w] = k
          /\ attempts' = attempts /\ answers' = answers
      BY <1>1, <1>8 DEF ReadRows, tables
    <2>2. k.attempt = j.attempt /\ k.rows = read BY <1>0 DEF Job
    <2>3. ASSUME NEW i \in DOMAIN read
          PROVE  /\ read[i].question = answers[j.attempt][i].question
                 /\ read[i].selected = answers[j.attempt][i].selected
      <3>1. read[i] = LoadedRow(j, i) OBVIOUS
      <3> QED BY <1>0, <2>1, <3>1 DEF LoadedRow, Undisturbed
    <2>4. attempts[j.attempt].finished = None BY <1>0, <2>1 DEF Undisturbed, Holding
    <2> HIDE DEF read, k
    <2> QED BY <2>1, <2>2, <2>3, <2>4 DEF Undisturbed, Holding
  <1>9. CASE ReadTruth(w)
    <2> DEFINE marks == [i \in DOMAIN j.rows |->
                           Marks(j.rows[i].selected, bank[j.rows[i].question].options)]
               k == [j EXCEPT !.verdict = marks]
    <2>1. /\ pc[w] = "truth" /\ pc'[w] = "commit" /\ job'[w] = k
          /\ attempts' = attempts /\ answers' = answers /\ inForce' = inForce
      BY <1>1, <1>9 DEF ReadTruth, tables
    <2>2. /\ k.attempt = j.attempt /\ k.rows = j.rows /\ k.verdict = marks
      BY <1>0 DEF Job
    <2>3. ASSUME NEW i \in DOMAIN j.rows
          PROVE  \E o \in inForce[j.rows[i].question] :
                   marks[i] = Marks(j.rows[i].selected, o)
      <3>1. j.rows[i].question \in Questions
        <4>1. j.rows \in Seq(Row) BY <1>0 DEF Job
        <4>2. j.rows[i] \in Row BY <4>1
        <4> QED BY <4>2 DEF Row
      <3>2. bank[j.rows[i].question].options \in inForce[j.rows[i].question]
        BY <3>1 DEF OffersInForce
      <3>3. marks[i] = Marks(j.rows[i].selected, bank[j.rows[i].question].options)
        OBVIOUS
      <3> QED BY <3>2, <3>3
    <2>4. /\ attempts[j.attempt].finished = None
          /\ \A i \in DOMAIN j.rows :
               /\ j.rows[i].question = answers[j.attempt][i].question
               /\ j.rows[i].selected = answers[j.attempt][i].selected
      BY <1>0, <2>1 DEF Undisturbed, Holding
    <2> HIDE DEF marks, k
    <2> QED BY <2>1, <2>2, <2>3, <2>4 DEF Undisturbed, Holding
  <1> QED BY <1>3, <1>4, <1>5, <1>6, <1>7, <1>8, <1>9 DEF Serve

LEMMA StepUndisturbed ==
  ASSUME TypeOK, JobsPlaced, OwnedJobs, Alone, OffersInForce, UndisturbedJobs, Next
  PROVE  UndisturbedJobs'
  <1> SUFFICES ASSUME NEW v \in Workers PROVE Undisturbed(v)' BY DEF UndisturbedJobs
  <1>1. CASE Request(v) BY <1>1, RequestUndisturbed
  <1>2. CASE Serve(v) \/ Crash(v) BY <1>2, ServeUndisturbed
  <1>3. CASE Tick \/ Admin BY <1>3, WorldWaits, WaitingUndisturbed
  <1>4. ASSUME NEW w \in Workers, Request(w) \/ Serve(w) \/ Crash(w), w # v
        PROVE  Undisturbed(v)'
    BY <1>4, OneWorkerMoves, WaitingUndisturbed
  <1> QED BY <1>1, <1>2, <1>3, <1>4 DEF Next

\* All that holds when a user waits for an answer before the next request.
Serial ==
  /\ TypeOK /\ JobsPlaced /\ JobsLoaded /\ OwnedJobs
  /\ OffersInForce /\ SelectionsWereOffered /\ FinishedTogether
  /\ Fresh /\ Alone /\ UndisturbedJobs

LEMMA SerialInductive ==
  ASSUME SerialUsers
  PROVE  Spec => []Serial
  <1>1. Init => Fresh /\ Alone /\ UndisturbedJobs
    BY DEF Init, Fresh, Alone, UndisturbedJobs, Undisturbed, Holding
  <1>2. ASSUME TypeOK, JobsPlaced, OwnedJobs, OffersInForce, Fresh, Alone, UndisturbedJobs,
               [Next]_vars
        PROVE  Fresh' /\ Alone' /\ UndisturbedJobs'
    <2>1. CASE Next BY <1>2, <2>1, StepFresh, StepAlone, StepUndisturbed
    <2>2. CASE UNCHANGED vars
      <3>1. Fresh' BY <1>2, <2>2 DEF vars, Fresh, Started
      <3>2. Alone' BY <1>2, <2>2 DEF vars, Alone
      <3>3. UndisturbedJobs'
        BY <1>2, <2>2 DEF vars, UndisturbedJobs, Undisturbed, InProgress, Started
      <3> QED BY <3>1, <3>2, <3>3
    <2> QED BY <1>2, <2>1, <2>2
  <1> QED BY <1>1, <1>2, OwnedInductive, OfferedInductive, LoadedInductive, PTL
          DEF Spec, Serial

\* Only an insert takes an id into use.
LEMMA OnlyInsertStarts ==
  ASSUME TypeOK, JobsPlaced, Next, NEW a \in AttemptIds, ~Started(a), Started(a)'
  PROVE  \E w \in Workers : InsertAttempt(w)
  <1>1. attempts'[a] # attempts[a] BY DEF Started
  <1>2. ASSUME NEW w \in Workers, CommitFinish(w) PROVE FALSE
    <2>1. job[w].attempt # a
      BY <1>2 DEF JobsPlaced, JobPlaced, CommitFinish, Holding
    <2> QED BY <1>1, <1>2, <2>1 DEF CommitFinish, TypeOK
  <1>3. ASSUME NEW w \in Workers, WriteFlag(w) \/ WriteAnswer(w) PROVE FALSE
    BY <1>1, <1>3 DEF WriteFlag, WriteAnswer
  <1> QED BY <1>1, <1>2, <1>3, StepKinds

\* A finished attempt stays as it is, but for its flags.
LEMMA FinishedStays ==
  ASSUME Serial, Next, NEW a \in AttemptIds, attempts[a].finished # None
  PROVE  /\ attempts'[a] = attempts[a]
         /\ DOMAIN answers'[a] = DOMAIN answers[a]
         /\ \A i \in DOMAIN answers[a] :
              /\ answers[a][i] \in Row
              /\ \E f \in BOOLEAN : answers'[a][i] = [answers[a][i] EXCEPT !.flagged = f]
  <1> USE DEF Serial
  <1>1. Started(a) BY DEF Fresh, NoAttempt
  <1>2. ASSUME NEW i \in DOMAIN answers[a]
        PROVE  answers[a][i] \in Row /\ answers[a][i].flagged \in BOOLEAN
    <2>1. answers[a] \in Seq(Row) /\ answers[a][i] \in Row BY <1>2 DEF TypeOK
    <2> QED BY <2>1 DEF Row
  <1>3. CASE <<attempts[a], answers[a]>>' = <<attempts[a], answers[a]>>
    <2>1. ASSUME NEW i \in DOMAIN answers[a]
          PROVE  answers[a][i] = [answers[a][i] EXCEPT !.flagged = answers[a][i].flagged]
      BY <1>2, <2>1 DEF Row
    <2> QED BY <1>2, <1>3, <2>1
  <1>4. CASE <<attempts[a], answers[a]>>' # <<attempts[a], answers[a]>>
    <2> PICK w \in Workers : /\ WriteFlag(w) \/ WriteAnswer(w) \/ CommitFinish(w)
                             /\ job[w].attempt = a
      BY <1>1, <1>4, OwnerChanges
    <2>1. ASSUME pc[w] \in {"write", "commit"} PROVE FALSE
      <3>1. pc[w] \in Holding \ {"toggle"} BY <2>1 DEF Holding
      <3> QED BY <3>1 DEF UndisturbedJobs, Undisturbed
    <2>2. WriteFlag(w) BY <2>1 DEF WriteAnswer, CommitFinish
    <2>3. attempts' = attempts /\ answers' = [answers EXCEPT
            ![a][job[w].order].flagged = ~job[w].view.flagged]
      BY <2>2 DEF WriteFlag
    <2>4. DOMAIN answers'[a] = DOMAIN answers[a] BY <2>3 DEF TypeOK
    <2>5. ASSUME NEW i \in DOMAIN answers[a]
          PROVE  \E f \in BOOLEAN : answers'[a][i] = [answers[a][i] EXCEPT !.flagged = f]
      <3>1. CASE i = job[w].order
        <4>1. answers'[a][i] = [answers[a][i] EXCEPT !.flagged = ~job[w].view.flagged]
          BY <2>3, <3>1 DEF TypeOK
        <4> QED BY <4>1
      <3>2. CASE i # job[w].order
        <4>1. answers'[a][i] = answers[a][i] BY <2>3, <3>2 DEF TypeOK
        <4>2. answers[a][i] = [answers[a][i] EXCEPT !.flagged = answers[a][i].flagged]
          BY <1>2 DEF Row
        <4> QED BY <1>2, <4>1, <4>2
      <3> QED BY <3>1, <3>2
    <2> QED BY <1>2, <2>3, <2>4, <2>5
  <1> QED BY <1>3, <1>4

\* What a submit commits: an end, the count and, in every row, its verdict.
LEMMA Closing ==
  ASSUME Serial, NEW w \in Workers, CommitFinish(w)
  PROVE  \E a \in AttemptIds :
           /\ a = job[w].attempt /\ InProgress(a)
           /\ job[w].verdict \in Seq(BOOLEAN)
           /\ DOMAIN job[w].verdict = DOMAIN answers[a]
           /\ attempts'[a].user = attempts[a].user
           /\ attempts'[a].finished \in Nat
           /\ attempts'[a].correct =
                Cardinality({i \in DOMAIN job[w].verdict : job[w].verdict[i]})
           /\ DOMAIN answers'[a] = DOMAIN answers[a]
           /\ \A i \in DOMAIN answers[a] :
                /\ answers'[a][i].question = answers[a][i].question
                /\ answers'[a][i].selected = answers[a][i].selected
                /\ answers'[a][i].isCorrect = job[w].verdict[i]
                /\ \E k \in inForce[answers[a][i].question] :
                     job[w].verdict[i] = Marks(answers[a][i].selected, k)
           /\ \A b \in AttemptIds \ {a} :
                attempts'[b] = attempts[b] /\ answers'[b] = answers[b]
  <1> USE DEF Serial
  <1> DEFINE j == job[w]
             Written(i) == IF j.verdict[i] = j.rows[i].isCorrect
                           THEN answers[j.attempt][i].isCorrect
                           ELSE j.verdict[i]
             count == Cardinality({i \in DOMAIN j.verdict : j.verdict[i]})
  <1>0. JobPlaced(w) /\ JobLoaded(w) /\ Undisturbed(w) /\ j \in Job
    BY DEF JobsPlaced, JobsLoaded, UndisturbedJobs, TypeOK
  <1>1. pc[w] = "commit" /\ pc[w] \in Holding /\ pc[w] # "toggle"
    BY DEF CommitFinish, Holding
  <1>2. PICK a \in AttemptIds : a = j.attempt /\ InProgress(a)
    BY <1>0, <1>1 DEF JobPlaced, Undisturbed, InProgress
  <1>3. /\ j.verdict \in Seq(BOOLEAN) /\ j.stamp \in Nat /\ j.rows \in Seq(Row)
        /\ DOMAIN j.verdict = DOMAIN answers[a] /\ DOMAIN j.rows = DOMAIN answers[a]
    BY <1>0, <1>1, <1>2 DEF Job, JobPlaced
  <1>4. ASSUME NEW i \in DOMAIN answers[a]
        PROVE  Written(i) = j.verdict[i]
    <2>1. answers[a][i].isCorrect = None BY <1>2 DEF FinishedTogether, InProgress
    <2>2. j.rows[i].isCorrect = None BY <1>0, <1>1, <1>2, <1>3, <2>1 DEF JobLoaded
    <2>3. j.verdict[i] \in BOOLEAN BY <1>3
    <2>4. j.verdict[i] # None BY <2>3
    <2> HIDE DEF j
    <2> QED BY <2>2, <2>4
  <1>5. attempts' = [attempts EXCEPT ![a] =
          [attempts[a] EXCEPT !.finished = j.stamp, !.correct = count, !.audited = @ + 1]]
    BY <1>2 DEF CommitFinish, TypeOK
  <1>6. answers' = [answers EXCEPT ![a] =
          [i \in DOMAIN answers[a] |-> [answers[a][i] EXCEPT !.isCorrect = Written(i)]]]
    BY <1>2 DEF CommitFinish, TypeOK
  <1>7. [i \in DOMAIN answers[a] |-> [answers[a][i] EXCEPT !.isCorrect = Written(i)]]
        = [i \in DOMAIN answers[a] |-> [answers[a][i] EXCEPT !.isCorrect = j.verdict[i]]]
    <2> HIDE DEF Written, j
    <2> QED BY <1>4
  <1>8. \A i \in DOMAIN answers[a] :
          \E k \in inForce[answers[a][i].question] :
            j.verdict[i] = Marks(answers[a][i].selected, k)
    <2> TAKE i \in DOMAIN answers[a]
    <2>1. /\ j.rows[i].question = answers[a][i].question
          /\ j.rows[i].selected = answers[a][i].selected
          /\ \E k \in inForce[j.rows[i].question] :
               j.verdict[i] = Marks(j.rows[i].selected, k)
      BY <1>0, <1>1, <1>2, <1>3 DEF Undisturbed
    <2> QED BY <2>1
  <1> HIDE DEF j, Written
  <1>9. /\ attempts'[a].user = attempts[a].user /\ attempts'[a].finished = j.stamp
        /\ attempts'[a].correct = count
    <2>1. attempts[a] \in Attempt BY DEF TypeOK
    <2> HIDE DEF count
    <2> QED BY <1>5, <2>1 DEF TypeOK, Attempt
  <1>10. DOMAIN answers'[a] = DOMAIN answers[a] BY <1>6 DEF TypeOK
  <1>11. ASSUME NEW i \in DOMAIN answers[a]
         PROVE  /\ answers'[a][i].question = answers[a][i].question
                /\ answers'[a][i].selected = answers[a][i].selected
                /\ answers'[a][i].isCorrect = j.verdict[i]
    <2>1. answers[a] \in Seq(Row) /\ answers[a][i] \in Row BY DEF TypeOK
    <2>2. answers'[a][i] = [answers[a][i] EXCEPT !.isCorrect = j.verdict[i]]
      BY <1>6, <1>7 DEF TypeOK
    <2> QED BY <2>1, <2>2 DEF Row
  <1>12. \A b \in AttemptIds \ {a} : attempts'[b] = attempts[b] /\ answers'[b] = answers[b]
    BY <1>5, <1>6 DEF TypeOK
  <1> HIDE DEF count
  <1> QED BY <1>2, <1>3, <1>8, <1>9, <1>10, <1>11, <1>12 DEF j, count

LEMMA StepOneInProgress ==
  ASSUME Serial, OneInProgress, Next
  PROVE  OneInProgress'
  <1> USE DEF Serial
  <1> SUFFICES ASSUME NEW a \in AttemptIds, NEW b \in AttemptIds,
                      InProgress(a)', InProgress(b)',
                      attempts'[a].user = attempts'[b].user
               PROVE  a = b
    BY DEF OneInProgress
  <1>1. ASSUME NEW x \in AttemptIds, Started(x), InProgress(x)'
        PROVE  InProgress(x) /\ attempts'[x].user = attempts[x].user
    BY <1>1, StepKeeps DEF Keeps, SnapshotStays, InProgress
  <1>2. ASSUME NEW x \in AttemptIds, NEW y \in AttemptIds, ~Started(x),
               InProgress(x)', InProgress(y)', attempts'[x].user = attempts'[y].user
        PROVE  x = y
    <2>1. PICK w \in Workers : InsertAttempt(w)
      BY <1>2, OnlyInsertStarts DEF InProgress
    <2>2. PICK c \in AttemptIds :
            /\ pc[w] = "insert"
            /\ attempts'[c] = [NoAttempt EXCEPT !.user = job[w].user, !.mode = job[w].mode,
                                                !.started = job[w].stamp]
            /\ \A d \in AttemptIds \ {c} :
                 attempts'[d] = attempts[d] /\ answers'[d] = answers[d]
      <3>1. TypeOK OBVIOUS
      <3> HIDE DEF Serial
      <3> QED BY <2>1, <3>1, InsertBlank
    <2>3. x = c BY <1>2, <2>2 DEF InProgress, Started
    <2>4. attempts'[x].user = job[w].user BY <2>2, <2>3 DEF NoAttempt
    <2>5. ASSUME x # y PROVE FALSE
      <3>1. attempts'[y] = attempts[y] BY <2>2, <2>3, <2>5
      <3>2. InProgress(y) /\ attempts[y].user = job[w].user
        BY <1>2, <2>4, <3>1 DEF InProgress, Started
      <3> QED BY <2>2, <3>2 DEF UndisturbedJobs, Undisturbed
    <2> QED BY <2>5
  <1> QED BY <1>1, <1>2 DEF OneInProgress

\* A student who waits for every answer never has two attempts in progress: the
\* lookup of start_attempt is still right when the attempt is inserted.
THEOREM NeverTwoInProgress ==
  ASSUME SerialUsers
  PROVE  Spec => []OneInProgress
  <1>1. Init => OneInProgress BY DEF Init, OneInProgress, InProgress, Started, NoAttempt
  <1>2. ASSUME Serial, OneInProgress, [Next]_vars PROVE OneInProgress'
    <2>1. CASE UNCHANGED vars BY <1>2, <2>1 DEF vars, OneInProgress, InProgress, Started
    <2> QED BY <1>2, <2>1, StepOneInProgress
  <1> QED BY <1>1, <1>2, SerialInductive, PTL DEF Spec

\* Submitting is final for a student who waits for every answer: after the end
\* of an attempt nothing of it changes but flags.
THEOREM FinishedIsFinal ==
  ASSUME SerialUsers
  PROVE  Spec => FinishOnce
  <1>1. ASSUME Serial, [Next]_vars
        PROVE  [\A a \in AttemptIds :
                  attempts[a].finished # None =>
                    /\ attempts'[a] = attempts[a]
                    /\ \A i \in DOMAIN answers[a] :
                         [answers'[a][i] EXCEPT !.flagged = FALSE]
                           = [answers[a][i] EXCEPT !.flagged = FALSE]]_vars
    <2> SUFFICES ASSUME Next, NEW a \in AttemptIds, attempts[a].finished # None
                 PROVE  /\ attempts'[a] = attempts[a]
                        /\ \A i \in DOMAIN answers[a] :
                             [answers'[a][i] EXCEPT !.flagged = FALSE]
                               = [answers[a][i] EXCEPT !.flagged = FALSE]
      BY <1>1
    <2>1. ASSUME NEW i \in DOMAIN answers[a]
          PROVE  [answers'[a][i] EXCEPT !.flagged = FALSE]
                   = [answers[a][i] EXCEPT !.flagged = FALSE]
      <3>1. PICK f \in BOOLEAN : answers'[a][i] = [answers[a][i] EXCEPT !.flagged = f]
        BY <1>1, <2>1, FinishedStays
      <3>2. answers[a][i] \in Row BY <1>1, <2>1, FinishedStays
      <3> QED BY <3>1, <3>2 DEF Row
    <2> QED BY <1>1, <2>1, FinishedStays
  <1> QED BY <1>1, SerialInductive, PTL DEF Spec, FinishOnce

LEMMA StepStandsUp ==
  ASSUME Serial, ScoreStandsUp, Next
  PROVE  ScoreStandsUp'
  <1> SUFFICES ASSUME NEW a \in AttemptIds, attempts'[a].finished # None
               PROVE  /\ attempts'[a].correct =
                           Cardinality({i \in DOMAIN answers'[a] : answers'[a][i].isCorrect})
                      /\ \A i \in DOMAIN answers'[a] :
                           \E k \in inForce'[answers'[a][i].question] :
                             answers'[a][i].isCorrect = Marks(answers'[a][i].selected, k)
    BY DEF ScoreStandsUp
  <1>0. TypeOK /\ JobsPlaced BY DEF Serial
  <1>1. \A q \in Questions : inForce[q] \subseteq inForce'[q]
    BY <1>0, InForceGrows
  <1>2. ASSUME NEW i \in DOMAIN answers[a]
        PROVE  answers[a][i] \in Row /\ answers[a][i].question \in Questions
    <2>1. answers[a] \in Seq(Row) /\ answers[a][i] \in Row BY <1>0 DEF TypeOK
    <2> QED BY <2>1 DEF Row
  <1>3. CASE attempts[a].finished # None
    <2>1. attempts'[a] = attempts[a] /\ DOMAIN answers'[a] = DOMAIN answers[a]
      BY <1>3, FinishedStays
    <2>2. ASSUME NEW i \in DOMAIN answers[a]
          PROVE  /\ answers'[a][i].question = answers[a][i].question
                 /\ answers'[a][i].selected = answers[a][i].selected
                 /\ answers'[a][i].isCorrect = answers[a][i].isCorrect
      <3>1. PICK f \in BOOLEAN : answers'[a][i] = [answers[a][i] EXCEPT !.flagged = f]
        BY <1>3, FinishedStays
      <3> QED BY <1>2, <3>1 DEF Row
    <2>3. {i \in DOMAIN answers'[a] : answers'[a][i].isCorrect}
            = {i \in DOMAIN answers[a] : answers[a][i].isCorrect}
      BY <2>1, <2>2
    <2>4. ASSUME NEW i \in DOMAIN answers[a]
          PROVE  \E k \in inForce'[answers'[a][i].question] :
                   answers'[a][i].isCorrect = Marks(answers'[a][i].selected, k)
      <3>1. \E k \in inForce[answers[a][i].question] :
              answers[a][i].isCorrect = Marks(answers[a][i].selected, k)
        BY <1>3 DEF ScoreStandsUp
      <3> QED BY <1>1, <1>2, <2>2, <3>1
    <2>5. attempts[a].correct = Cardinality({i \in DOMAIN answers[a] : answers[a][i].isCorrect})
      BY <1>3 DEF ScoreStandsUp
    <2> QED BY <2>1, <2>3, <2>4, <2>5
  <1>4. CASE attempts[a].finished = None
    <2>1. PICK w \in Workers : CommitFinish(w) /\ job[w].attempt = a
      <3>1. ASSUME ~Started(a) PROVE FALSE
        <4>1. CASE ~Started(a)' BY <4>1, <1>0, StepFresh DEF Serial, Fresh, NoAttempt
        <4>2. CASE Started(a)'
          <5>1. PICK w \in Workers : InsertAttempt(w)
            BY <1>0, <3>1, <4>2, OnlyInsertStarts
          <5>2. PICK c \in AttemptIds :
                  /\ attempts'[c] = [NoAttempt EXCEPT !.user = job[w].user,
                                       !.mode = job[w].mode, !.started = job[w].stamp]
                  /\ \A d \in AttemptIds \ {c} :
                       attempts'[d] = attempts[d] /\ answers'[d] = answers[d]
            BY <1>0, <5>1, InsertBlank
          <5>3. attempts'[c].finished = None BY <5>2 DEF NoAttempt
          <5>4. a # c BY <5>3
          <5> QED BY <1>4, <5>2, <5>4
        <4> QED BY <4>1, <4>2
      <3>2. attempts'[a] # attempts[a] BY <1>4
      <3>3. PICK w \in Workers : /\ WriteFlag(w) \/ WriteAnswer(w) \/ CommitFinish(w)
                                 /\ job[w].attempt = a
        BY <1>0, <3>1, <3>2, OwnerChanges DEF Serial
      <3> QED BY <3>2, <3>3 DEF WriteFlag, WriteAnswer
    <2> PICK c \in AttemptIds :
          /\ c = job[w].attempt
          /\ DOMAIN job[w].verdict = DOMAIN answers[c]
          /\ job[w].verdict \in Seq(BOOLEAN)
          /\ attempts'[c].correct =
               Cardinality({i \in DOMAIN job[w].verdict : job[w].verdict[i]})
          /\ DOMAIN answers'[c] = DOMAIN answers[c]
          /\ \A i \in DOMAIN answers[c] :
               /\ answers'[c][i].question = answers[c][i].question
               /\ answers'[c][i].selected = answers[c][i].selected
               /\ answers'[c][i].isCorrect = job[w].verdict[i]
               /\ \E k \in inForce[answers[c][i].question] :
                    job[w].verdict[i] = Marks(answers[c][i].selected, k)
      BY <2>1, Closing
    <2>2. a = c BY <2>1
    <2>3. {i \in DOMAIN answers'[a] : answers'[a][i].isCorrect}
            = {i \in DOMAIN job[w].verdict : job[w].verdict[i]}
      <3>1. \A i \in DOMAIN answers'[a] : answers'[a][i].isCorrect <=> job[w].verdict[i]
        BY <2>2
      <3>2. DOMAIN answers'[a] = DOMAIN job[w].verdict BY <2>2
      <3> QED BY <3>1, <3>2, Zenon
    <2>4. ASSUME NEW i \in DOMAIN answers'[a]
          PROVE  \E k \in inForce'[answers'[a][i].question] :
                   answers'[a][i].isCorrect = Marks(answers'[a][i].selected, k)
      BY <1>1, <1>2, <2>2
    <2> QED BY <2>2, <2>3, <2>4
  <1> QED BY <1>3, <1>4

\* The score of a finished attempt stands up to a recount: no save of a student
\* who waits for every answer is lost, or comes after the scoring.
THEOREM RecountAgrees ==
  ASSUME SerialUsers
  PROVE  Spec => []ScoreStandsUp
  <1>1. Init => ScoreStandsUp BY DEF Init, ScoreStandsUp, NoAttempt
  <1>2. ASSUME Serial, ScoreStandsUp, [Next]_vars PROVE ScoreStandsUp'
    <2>1. CASE UNCHANGED vars BY <1>2, <2>1 DEF vars, ScoreStandsUp
    <2> QED BY <1>2, <2>1, StepStandsUp
  <1> QED BY <1>1, <1>2, SerialInductive, PTL DEF Spec

-----------------------------------------------------------------------------
(* The refinement of AttemptLifecycle                                       *)

\* The sheet of an attempt as its owner sees it: everything but the flags.
View(a) == [i \in DOMAIN answers[a] |->
              [question  |-> answers[a][i].question,
               selected  |-> answers[a][i].selected,
               isCorrect |-> answers[a][i].isCorrect]]

\* A step that shows the owners nothing new stutters in AttemptLifecycle.
LEMMA ShowsNothing ==
  ASSUME \A a \in AttemptIds :
           /\ Phase(a)' = Phase(a) /\ attempts'[a].user = attempts[a].user
           /\ View(a)' = View(a) /\ attempts'[a].correct = attempts[a].correct
  PROVE  UNCHANGED Lifecycle!vars
  <1>1. [a \in AttemptIds |-> Phase(a)]' = [a \in AttemptIds |-> Phase(a)] OBVIOUS
  <1>2. [a \in AttemptIds |-> attempts[a].user]' = [a \in AttemptIds |-> attempts[a].user]
    OBVIOUS
  <1>3. [a \in AttemptIds |-> View(a)]' = [a \in AttemptIds |-> View(a)] OBVIOUS
  <1>4. [a \in AttemptIds |-> attempts[a].correct]'
          = [a \in AttemptIds |-> attempts[a].correct]
    OBVIOUS
  <1> QED BY <1>1, <1>2, <1>3, <1>4 DEF Lifecycle!vars, View

\* The view of a row.
LEMMA ViewOfRow ==
  ASSUME NEW a \in AttemptIds
  PROVE  /\ DOMAIN View(a) = DOMAIN answers[a]
         /\ \A i \in DOMAIN answers[a] :
              /\ View(a)[i].question = answers[a][i].question
              /\ View(a)[i].selected = answers[a][i].selected
              /\ View(a)[i].isCorrect = answers[a][i].isCorrect
  BY DEF View

\* Two sheets with the same rows, flags apart, look the same.
LEMMA SameView ==
  ASSUME NEW a \in AttemptIds, DOMAIN answers'[a] = DOMAIN answers[a],
         \A i \in DOMAIN answers[a] :
           /\ answers'[a][i].question = answers[a][i].question
           /\ answers'[a][i].selected = answers[a][i].selected
           /\ answers'[a][i].isCorrect = answers[a][i].isCorrect
  PROVE  View(a)' = View(a)
  BY DEF View

LEMMA InsertOpens ==
  ASSUME Serial, TypeOK', NEW w \in Workers, InsertAttempt(w)
  PROVE  \E a \in AttemptIds, u \in Users : Lifecycle!Open(a, u)
  <1> USE DEF Serial
  <1>0. TypeOK /\ job[w].user \in Users
    BY DEF InsertAttempt, OwnedJobs, Owned
  <1>1. PICK b \in AttemptIds, sheet \in Permutation(job[w].picked) :
          /\ ~Started(b) /\ pc[w] = "insert"
          /\ attempts'[b] = [NoAttempt EXCEPT !.user = job[w].user, !.mode = job[w].mode,
                                              !.started = job[w].stamp]
          /\ DOMAIN answers'[b] = DOMAIN sheet /\ Cardinality(job[w].picked) \in Nat
          /\ DOMAIN sheet = 1 .. Cardinality(job[w].picked)
          /\ \A i \in DOMAIN sheet :
               answers'[b][i] = [question |-> sheet[i], selected |-> {},
                                 isCorrect |-> None, flagged |-> FALSE]
          /\ \A i \in DOMAIN sheet : sheet[i] \in Questions
          /\ \A i, j \in DOMAIN sheet : sheet[i] = sheet[j] => i = j
          /\ \A a \in AttemptIds \ {b} :
               attempts'[a] = attempts[a] /\ answers'[a] = answers[a]
    <2> HIDE DEF Serial
    <2> QED BY <1>0, InsertBlank
  <1>2. attempts'[b].user = job[w].user /\ attempts'[b].finished = None
        /\ attempts'[b].correct = None
    BY <1>1 DEF NoAttempt
  <1>3. attempts[b] = NoAttempt /\ attempts[b].correct = None
    BY <1>1 DEF Fresh, NoAttempt
  <1> PICK u \in Users : u = job[w].user BY <1>0
  <1>4. job[w].user # None BY <1>0
  <1>5. Phase(b) = "none" /\ Phase(b)' = "open"
    BY <1>1, <1>2, <1>4 DEF Phase, InProgress, Started
  <1>6. \A a \in AttemptIds \ {b} : Phase(a)' = Phase(a) /\ View(a)' = View(a)
    BY <1>1 DEF Phase, InProgress, Started, View
  <1>7. \A a \in AttemptIds : Phase(a) = "open" => attempts[a].user # job[w].user
    BY <1>1 DEF Phase, UndisturbedJobs, Undisturbed
  <1>8. /\ Len(View(b)') > 0
        /\ \A i \in DOMAIN View(b)' :
             /\ View(b)'[i].question \in Questions
             /\ View(b)'[i].selected = {} /\ View(b)'[i].isCorrect = None
        /\ \A i, j \in DOMAIN View(b)' :
             View(b)'[i].question = View(b)'[j].question => i = j
    <2>1. /\ DOMAIN View(b)' = DOMAIN sheet
          /\ \A i \in DOMAIN sheet :
               /\ View(b)'[i].question = sheet[i]
               /\ View(b)'[i].selected = {} /\ View(b)'[i].isCorrect = None
      <3>1. \A i \in DOMAIN sheet :
              /\ answers'[b][i].question = sheet[i]
              /\ answers'[b][i].selected = {} /\ answers'[b][i].isCorrect = None
        <4> TAKE i \in DOMAIN sheet
        <4>1. answers'[b][i] = [question |-> sheet[i], selected |-> {},
                                isCorrect |-> None, flagged |-> FALSE]
          BY <1>1
        <4> QED BY <4>1
      <3> HIDE DEF Serial
      <3> QED BY <1>1, <3>1 DEF View
    <2>2. Cardinality(job[w].picked) > 0
      <3>1. job[w].picked \subseteq Questions /\ job[w].picked # {}
        BY <1>0, <1>1 DEF TypeOK, Job, Fresh
      <3>2. IsFiniteSet(job[w].picked) BY <3>1, PickedIsFinite
      <3>3. Cardinality(job[w].picked) # 0 BY <3>1, <3>2, FS_EmptySet
      <3> QED BY <1>1, <3>3
    <2>3. Len(View(b)') = Cardinality(job[w].picked)
      <3>1. View(b)' \in [1 .. Cardinality(job[w].picked) ->
                            {View(b)'[i] : i \in DOMAIN sheet}]
        BY <1>1, <2>1 DEF View
      <3> QED BY <1>1, <3>1
    <2> QED BY <1>1, <2>1, <2>2, <2>3
  <1>9. Lifecycle!Open(b, u)
    <2>1. [a \in AttemptIds |-> Phase(a)]'
            = [[a \in AttemptIds |-> Phase(a)] EXCEPT ![b] = "open"]
      BY <1>5, <1>6
    <2>2. [a \in AttemptIds |-> attempts[a].user]'
            = [[a \in AttemptIds |-> attempts[a].user] EXCEPT ![b] = u]
      BY <1>1, <1>2
    <2>3. [a \in AttemptIds |-> attempts[a].correct]'
            = [a \in AttemptIds |-> attempts[a].correct]
      <3>1. \A a \in AttemptIds : attempts'[a].correct = attempts[a].correct
        BY <1>1, <1>2, <1>3
      <3> QED BY <3>1
    <2>4. Lifecycle!Blank([a \in AttemptIds |-> View(a)]'[b])
      BY <1>8 DEF Lifecycle!Blank
    <2>5. Lifecycle!Others([a \in AttemptIds |-> View(a)]', b)
            = Lifecycle!Others([a \in AttemptIds |-> View(a)], b)
      BY <1>6 DEF Lifecycle!Others
    <2> QED BY <1>5, <1>7, <2>1, <2>2, <2>3, <2>4, <2>5 DEF Lifecycle!Open, View
  <1> HIDE DEF Serial
  <1> QED BY <1>9

\* A commit of a save answers one question, or shows nothing when the browser
\* sent what was saved already.
LEMMA SaveAnswers ==
  ASSUME Serial, NEW w \in Workers, WriteAnswer(w)
  PROVE  \/ UNCHANGED Lifecycle!vars
         \/ \E a \in AttemptIds : \E i \in DOMAIN View(a) : Lifecycle!Answer(a, i)
  <1>0. TypeOK /\ JobPlaced(w) /\ Undisturbed(w) /\ job[w] \in Job
    BY DEF Serial, JobsPlaced, UndisturbedJobs, TypeOK
  <1>1. pc[w] = "write" /\ pc[w] \in Holding \ {"toggle"} BY DEF WriteAnswer, Holding
  <1>2. PICK a \in AttemptIds : a = job[w].attempt /\ InProgress(a)
    BY <1>0, <1>1 DEF JobPlaced, Undisturbed, InProgress
  <1>3. PICK i \in DOMAIN answers[a] : i = job[w].order
    BY <1>0, <1>1, <1>2 DEF JobPlaced
  <1>4. attempts' = attempts BY DEF WriteAnswer
  <1>5. CASE answers' = answers
    BY <1>4, <1>5, ShowsNothing DEF Phase, InProgress, Started, View
  <1>6. CASE answers' = [answers EXCEPT ![a][i].selected = job[w].labels]
    <2>0. answers[a] \in Seq(Row) /\ answers[a][i] \in Row BY <1>0 DEF TypeOK
    <2>1. /\ DOMAIN answers'[a] = DOMAIN answers[a]
          /\ answers'[a][i] = [answers[a][i] EXCEPT !.selected = job[w].labels]
          /\ \A n \in DOMAIN answers[a] \ {i} : answers'[a][n] = answers[a][n]
          /\ \A b \in AttemptIds \ {a} : answers'[b] = answers[b]
      BY <1>0, <1>6 DEF TypeOK
    <2>2. /\ answers'[a][i].question = answers[a][i].question
          /\ answers'[a][i].selected = job[w].labels
          /\ answers'[a][i].isCorrect = answers[a][i].isCorrect
      BY <2>0, <2>1 DEF Row
    <2>3. job[w].labels \subseteq Labels BY <1>0 DEF Job
    <2>4. View(a)' = [View(a) EXCEPT ![i].selected = job[w].labels]
      <3>1. /\ View(a)'[i] = [View(a)[i] EXCEPT !.selected = job[w].labels]
            /\ i \in DOMAIN View(a)
        <4>1. View(a)'[i] = [question  |-> answers'[a][i].question,
                             selected  |-> answers'[a][i].selected,
                             isCorrect |-> answers'[a][i].isCorrect]
          BY <2>1 DEF View
        <4>2. View(a)[i] = [question  |-> answers[a][i].question,
                            selected  |-> answers[a][i].selected,
                            isCorrect |-> answers[a][i].isCorrect]
          BY DEF View
        <4> QED BY <2>2, <4>1, <4>2 DEF View
      <3>2. \A n \in DOMAIN View(a) \ {i} : View(a)'[n] = View(a)[n]
        BY <2>1 DEF View
      <3>3. DOMAIN View(a)' = DOMAIN View(a) BY <2>1 DEF View
      <3>4. View(a)' = [n \in DOMAIN View(a) |->
              IF n = i THEN [View(a)[i] EXCEPT !.selected = job[w].labels] ELSE View(a)[n]]
        <4>1. View(a)' = [n \in DOMAIN View(a)' |-> View(a)'[n]] BY DEF View
        <4> QED BY <3>1, <3>2, <3>3, <4>1
      <3>5. [View(a) EXCEPT ![i].selected = job[w].labels]
              = [n \in DOMAIN View(a) |->
                 IF n = i THEN [View(a)[i] EXCEPT !.selected = job[w].labels] ELSE View(a)[n]]
        <4>1. View(a) = [n \in DOMAIN View(a) |-> View(a)[n]] BY DEF View
        <4> QED BY <4>1
      <3> QED BY <3>4, <3>5
    <2>5. \A b \in AttemptIds \ {a} : View(b)' = View(b) BY <2>1 DEF View
    <2> DEFINE sheets == [b \in AttemptIds |-> View(b)]
    <2>6. sheets' = [sheets EXCEPT ![a][i].selected = job[w].labels]
      BY <2>4, <2>5
    <2>7. sheets'[a][i].selected = job[w].labels /\ i \in DOMAIN View(a)
      BY <2>1, <2>2 DEF View
    <2>8. /\ [b \in AttemptIds |-> Phase(b)]' = [b \in AttemptIds |-> Phase(b)]
          /\ [b \in AttemptIds |-> attempts[b].user]' = [b \in AttemptIds |-> attempts[b].user]
          /\ [b \in AttemptIds |-> attempts[b].correct]'
               = [b \in AttemptIds |-> attempts[b].correct]
      BY <1>4 DEF Phase, InProgress, Started
    <2>9. Phase(a) = "open" BY <1>2 DEF Phase, InProgress
    <2>10. Lifecycle!Answer(a, i)
      BY <2>3, <2>6, <2>7, <2>8, <2>9 DEF Lifecycle!Answer, View
    <2> QED BY <2>7, <2>10
  <1> QED BY <1>2, <1>3, <1>5, <1>6 DEF WriteAnswer

\* A flag is not part of what the promise is about.
LEMMA FlagShowsNothing ==
  ASSUME Serial, NEW w \in Workers, WriteFlag(w)
  PROVE  UNCHANGED Lifecycle!vars
  <1>0. TypeOK /\ JobsPlaced BY DEF Serial
  <1>1. attempts' = attempts BY DEF WriteFlag
  <1>2. ASSUME NEW a \in AttemptIds PROVE View(a)' = View(a)
    <2>1. ASSUME NEW i \in DOMAIN answers[a]
          PROVE  /\ answers'[a][i].question = answers[a][i].question
                 /\ answers'[a][i].selected = answers[a][i].selected
                 /\ answers'[a][i].isCorrect = answers[a][i].isCorrect
      <3>1. answers[a] \in Seq(Row) /\ answers[a][i] \in Row BY <1>0 DEF TypeOK
      <3> QED BY <1>0, <3>1 DEF WriteFlag, TypeOK, Row
    <2>2. DOMAIN answers'[a] = DOMAIN answers[a] BY <1>0 DEF WriteFlag, TypeOK
    <2> QED BY <2>1, <2>2, SameView
  <1> QED BY <1>1, <1>2, ShowsNothing DEF Phase, InProgress, Started

\* AttemptLifecycle counts as Attempts does.
LEMMA CountsTheSame == ASSUME NEW S PROVE Lifecycle!Cardinality(S) = Cardinality(S)
  BY DEF Lifecycle!Cardinality, Cardinality

\* A submit that commits closes the attempt with its verdicts and their count.
LEMMA CommitCloses ==
  ASSUME Serial, NEW w \in Workers, CommitFinish(w)
  PROVE  \E a \in AttemptIds : Lifecycle!Close(a)
  <1>1. PICK a \in AttemptIds :
          /\ a = job[w].attempt /\ InProgress(a)
          /\ job[w].verdict \in Seq(BOOLEAN)
          /\ DOMAIN job[w].verdict = DOMAIN answers[a]
          /\ attempts'[a].user = attempts[a].user
          /\ attempts'[a].finished \in Nat
          /\ attempts'[a].correct =
               Cardinality({i \in DOMAIN job[w].verdict : job[w].verdict[i]})
          /\ DOMAIN answers'[a] = DOMAIN answers[a]
          /\ \A i \in DOMAIN answers[a] :
               /\ answers'[a][i].question = answers[a][i].question
               /\ answers'[a][i].selected = answers[a][i].selected
               /\ answers'[a][i].isCorrect = job[w].verdict[i]
               /\ \E k \in inForce[answers[a][i].question] :
                    job[w].verdict[i] = Marks(answers[a][i].selected, k)
          /\ \A b \in AttemptIds \ {a} :
               attempts'[b] = attempts[b] /\ answers'[b] = answers[b]
    BY Closing
  <1> PICK verdict : verdict = job[w].verdict OBVIOUS
  <1> DEFINE phases == [b \in AttemptIds |-> Phase(b)]
             owners == [b \in AttemptIds |-> attempts[b].user]
             sheets == [b \in AttemptIds |-> [i \in DOMAIN answers[b] |->
                          [question  |-> answers[b][i].question,
                           selected  |-> answers[b][i].selected,
                           isCorrect |-> answers[b][i].isCorrect]]]
             scores == [b \in AttemptIds |-> attempts[b].correct]
             count == Cardinality({i \in DOMAIN verdict : verdict[i]})
  <1>2. Phase(a) = "open" /\ Phase(a)' = "closed"
    <2>1. attempts'[a].finished # None BY <1>1
    <2> QED BY <1>1, <2>1 DEF Phase, InProgress, Started
  <1>3. \A b \in AttemptIds \ {a} : Phase(b)' = Phase(b) /\ View(b)' = View(b)
    BY <1>1 DEF Phase, InProgress, Started, View
  <1>4. phases' = [phases EXCEPT ![a] = "closed"] BY <1>2, <1>3
  <1>5. owners' = owners
    <2>1. \A b \in AttemptIds : attempts'[b].user = attempts[b].user BY <1>1
    <2> QED BY <2>1
  <1>6. scores' = [scores EXCEPT ![a] = count]
    <2>1. attempts'[a].correct = count BY <1>1
    <2> HIDE DEF count
    <2> QED BY <1>1, <2>1
  <1>7. View(a)' = [i \in DOMAIN View(a) |-> [View(a)[i] EXCEPT !.isCorrect = verdict[i]]]
    <2>1. DOMAIN View(a)' = DOMAIN View(a) /\ DOMAIN View(a) = DOMAIN answers[a]
      BY <1>1 DEF View
    <2>2. \A i \in DOMAIN answers[a] :
            View(a)'[i] = [View(a)[i] EXCEPT !.isCorrect = verdict[i]]
      <3> TAKE i \in DOMAIN answers[a]
      <3>1. View(a)'[i] = [question  |-> answers'[a][i].question,
                           selected  |-> answers'[a][i].selected,
                           isCorrect |-> answers'[a][i].isCorrect]
        BY <1>1 DEF View
      <3>2. View(a)[i] = [question  |-> answers[a][i].question,
                          selected  |-> answers[a][i].selected,
                          isCorrect |-> answers[a][i].isCorrect]
        BY DEF View
      <3>3. /\ answers'[a][i].question = answers[a][i].question
            /\ answers'[a][i].selected = answers[a][i].selected
            /\ answers'[a][i].isCorrect = verdict[i]
        BY <1>1
      <3> QED BY <3>1, <3>2, <3>3
    <2>3. View(a)' = [i \in DOMAIN View(a)' |-> View(a)'[i]] BY DEF View
    <2> QED BY <2>1, <2>2, <2>3
  <1>8. /\ sheets'[a] = [i \in DOMAIN sheets[a] |->
                           [sheets[a][i] EXCEPT !.isCorrect = verdict[i]]]
        /\ Lifecycle!Others(sheets', a) = Lifecycle!Others(sheets, a)
    <2>1. \A b \in AttemptIds : sheets[b] = View(b) /\ sheets'[b] = View(b)'
      BY DEF View
    <2> HIDE DEF sheets
    <2> QED BY <1>3, <1>7, <2>1 DEF Lifecycle!Others
  <1>9. verdict \in [DOMAIN sheets[a] -> BOOLEAN] BY <1>1
  <1>10. \E v \in [DOMAIN sheets[a] -> BOOLEAN] :
           /\ sheets'[a] = [i \in DOMAIN sheets[a] |->
                              [sheets[a][i] EXCEPT !.isCorrect = v[i]]]
           /\ scores' = [scores EXCEPT ![a] =
                           Lifecycle!Cardinality({i \in DOMAIN v : v[i]})]
    <2> HIDE DEF sheets, scores
    <2> QED BY <1>6, <1>8, <1>9, CountsTheSame
  <1>11. phases[a] = "open" BY <1>2
  <1>12. Lifecycle!Close(a)
    BY <1>4, <1>5, <1>8, <1>10, <1>11 DEF Lifecycle!Close
  <1> QED BY <1>12

\* What a request shows its user is what AttemptLifecycle promises: for students
\* who wait for every answer, each commit opens, answers or closes an attempt as
\* promised, and every other step shows nothing.
THEOREM PromisesKept ==
  ASSUME SerialUsers
  PROVE  Spec => ImplementsLifecycle
  <1>1. Init => Lifecycle!Init
    BY DEF Init, Lifecycle!Init, Phase, InProgress, Started, NoAttempt
  <1>2. ASSUME Serial, TypeOK', [Next]_vars
        PROVE  [Lifecycle!Next]_(Lifecycle!vars)
    <2>1. CASE UNCHANGED <<attempts, answers>>
      BY <2>1, ShowsNothing DEF Phase, InProgress, Started, View
    <2>2. CASE UNCHANGED vars BY <2>1, <2>2 DEF vars
    <2>3. ASSUME NEW w \in Workers, InsertAttempt(w) PROVE Lifecycle!Next
      <3>1. PICK a \in AttemptIds, u \in Users : Lifecycle!Open(a, u)
        BY <1>2, <2>3, InsertOpens
      <3> QED BY <3>1 DEF Lifecycle!Next
    <2>4. ASSUME NEW w \in Workers, CommitFinish(w) PROVE Lifecycle!Next
      <3>1. PICK a \in AttemptIds : Lifecycle!Close(a) BY <1>2, <2>4, CommitCloses
      <3> QED BY <3>1 DEF Lifecycle!Next
    <2>5. ASSUME NEW w \in Workers, WriteAnswer(w)
          PROVE  [Lifecycle!Next]_(Lifecycle!vars)
      <3>1. CASE \E a \in AttemptIds : \E i \in DOMAIN View(a) : Lifecycle!Answer(a, i)
        <4> PICK a \in AttemptIds : \E i \in DOMAIN View(a) : Lifecycle!Answer(a, i) BY <3>1
        <4>1. PICK i \in DOMAIN View(a) : Lifecycle!Answer(a, i) OBVIOUS
        <4> QED BY <4>1 DEF Lifecycle!Next, View
      <3> QED BY <1>2, <2>5, <3>1, SaveAnswers
    <2> QED BY <1>2, <2>1, <2>2, <2>3, <2>4, <2>5, FlagShowsNothing, StepKinds
  <1> QED BY <1>1, <1>2, SerialInductive, TypeCorrect, PTL
          DEF Spec, ImplementsLifecycle, Lifecycle!Spec

=============================================================================
