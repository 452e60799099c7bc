---------------------------- MODULE ImportsProofs ----------------------------
(***************************************************************************)
(* The import wizard, for every set of files, mappings, workers and        *)
(* imports, however the requests overlap: the state is well typed, every   *)
(* import row has its file, and an import is staged once.                  *)
(*                                                                         *)
(* The invariant, Base, says of the tables that an import has its file and *)
(* its rows before its status says so, and that only rows that passed      *)
(* validation can be selected (TablesFit); of a request under way, what it *)
(* may take for granted of the import it has read, whoever writes it       *)
(* meanwhile (Fits); and that an upload is alone (UploadsAlone).           *)
(* No step undoes what others rely on (Grows): that is what keeps Fits for *)
(* the requests that wait while one of them commits.                       *)
(***************************************************************************)
EXTENDS Imports, TLAPS, FiniteSetTheorems, SequenceTheorems

-----------------------------------------------------------------------------
(* Row numbers in order                                                     *)

Rank(S, r) == Cardinality({p \in S : p <= r})

\* Each number of a finite set has its place of its own, and every place one.
LEMMA Ranks ==
  ASSUME NEW S \in SUBSET Nat, IsFiniteSet(S)
  PROVE  /\ Cardinality(S) \in Nat
         /\ \A r \in S : Rank(S, r) \in 1..Cardinality(S)
         /\ \A k \in 1..Cardinality(S) : \E r \in S : Rank(S, r) = k
<1>1. Cardinality(S) \in Nat
  BY FS_CardinalityType
<1>2. ASSUME NEW r \in S
      PROVE  Rank(S, r) \in 1..Cardinality(S)
  <2>1. PICK below \in SUBSET S : below = {p \in S : p <= r}
    OBVIOUS
  <2>2. IsFiniteSet(below) /\ Cardinality(below) <= Cardinality(S)
    BY FS_Subset
  <2>3. r \in below
    BY <2>1
  <2>4. Cardinality(below) \in Nat /\ Cardinality(below) # 0
    BY <2>2, <2>3, FS_CardinalityType, FS_EmptySet
  <2>5. Rank(S, r) = Cardinality(below)
    BY <2>1 DEF Rank
  <2> QED
    BY <1>1, <2>2, <2>4, <2>5
<1>3. ASSUME NEW r \in S, NEW q \in S, r < q
      PROVE  Rank(S, r) # Rank(S, q)
  <2>1. PICK lower, upper : lower = {p \in S : p <= r} /\ upper = {p \in S : p <= q}
    OBVIOUS
  <2>2. lower \in SUBSET upper
    <3>1. \A p \in S : p <= r => p <= q
      BY <1>3
    <3> QED
      BY <2>1, <3>1
  <2>3. IsFiniteSet(upper)
    BY <2>1, FS_Subset
  <2>4. q \in upper /\ q \notin lower
    BY <1>3, <2>1
  <2>5. Cardinality(upper) # Cardinality(lower)
    BY <2>2, <2>3, <2>4, FS_Subset
  <2> QED
    BY <2>1, <2>5 DEF Rank
<1>4. PICK n \in Nat : n = Cardinality(S)
  BY <1>1
<1>5. PICK f : f = [r \in S |-> Rank(S, r)]
  OBVIOUS
<1>6. f \in Injection(S, 1..n)
  <2>1. f \in [S -> 1..n]
    BY <1>2, <1>4, <1>5
  <2>2. \A r, q \in S : f[r] = f[q] => r = q
    BY <1>3, <1>5
  <2> QED
    BY <2>1, <2>2 DEF Injection, IsInjective
<1>7. IsFiniteSet(1..n) /\ Cardinality(1..n) = n
  BY FS_Interval
<1>8. f \in Surjection(S, 1..n)
  BY <1>4, <1>6, <1>7, FS_Injection
<1> QED
  BY <1>1, <1>2, <1>4, <1>5, <1>8 DEF Surjection

LEMMA InOrderRows ==
  ASSUME NEW S \in SUBSET Nat, IsFiniteSet(S)
  PROVE  /\ InOrder(S) \in Seq(S)
         /\ \A k, l \in DOMAIN InOrder(S) : InOrder(S)[k] = InOrder(S)[l] => k = l
<1>1. PICK n \in Nat : n = Cardinality(S)
  BY Ranks
<1>2. \A k \in 1..n : \E r \in S : Rank(S, r) = k
  BY <1>1, Ranks
<1>3. InOrder(S) = [k \in 1..n |-> CHOOSE r \in S : Rank(S, r) = k]
  BY <1>1 DEF InOrder, Rank
<1>4. \A k \in 1..n : InOrder(S)[k] \in S /\ Rank(S, InOrder(S)[k]) = k
  BY <1>2, <1>3
<1>5. DOMAIN InOrder(S) = 1..n
  BY <1>3
<1>6. InOrder(S) \in [1..n -> S]
  BY <1>3, <1>4
<1>7. InOrder(S) \in Seq(S)
  BY <1>6
<1> QED
  BY <1>4, <1>5, <1>7

-----------------------------------------------------------------------------
(* Validated rows                                                           *)

\* A row that can be answered: two options or more, and a key among them.
Answerable(c) ==
  /\ Cardinality({l \in Labels : c.options[l] # None}) >= 2
  /\ \E l \in c.correct_answer : l \in Labels /\ c.options[l] # None

\* An entry stands for one of the options, or for none.
LEMMA ResolvedOffered ==
  ASSUME NEW entry, NEW opts, Resolved(entry, opts) # None
  PROVE  Resolved(entry, opts) \in Offered(opts)
<1>1. CASE entry.kind \in {"letter", "number"}
  BY <1>1 DEF Resolved
<1>2. CASE entry.kind \notin {"letter", "number"}
  <2>1. PICK same \in SUBSET Offered(opts) :
           same = {l \in Offered(opts) : opts[l] = entry.of}
    OBVIOUS
  <2>2. same # {}
    BY <1>2, <2>1 DEF Resolved
  <2>3. \E l \in same : \A m \in same : m <= l
    <3>1. same \subseteq 1..6
      BY <2>1 DEF Offered, Labels
    <3>2. CASE 6 \in same
      BY <3>1, <3>2
    <3>3. CASE 5 \in same /\ 6 \notin same
      BY <3>1, <3>3
    <3>4. CASE 4 \in same /\ 5 \notin same /\ 6 \notin same
      BY <3>1, <3>4
    <3>5. CASE 3 \in same /\ 4 \notin same /\ 5 \notin same /\ 6 \notin same
      BY <3>1, <3>5
    <3>6. CASE 2 \in same /\ 3 \notin same /\ 4 \notin same /\ 5 \notin same /\ 6 \notin same
      BY <3>1, <3>6
    <3>7. CASE 2 \notin same /\ 3 \notin same /\ 4 \notin same /\ 5 \notin same /\ 6 \notin same
      <4>1. \A l \in same : l = 1
        BY <3>1, <3>7
      <4> QED
        BY <2>2, <4>1
    <3> QED
      BY <3>2, <3>3, <3>4, <3>5, <3>6, <3>7
  <2>4. Resolved(entry, opts) = CHOOSE l \in same : \A m \in same : m <= l
    BY <1>2, <2>1, <2>2 DEF Resolved
  <2> QED
    BY <2>1, <2>3, <2>4
<1> QED
  BY <1>1, <1>2

\* An answer without an error chooses one of the options.
LEMMA AnswerOffered ==
  ASSUME NEW answer, NEW opts
  PROVE  /\ CorrectAnswer(answer, opts).chosen \subseteq Offered(opts)
         /\ ~CorrectAnswer(answer, opts).faulty => CorrectAnswer(answer, opts).chosen # {}
<1>1. PICK entries : entries = Expanded(IF answer = None THEN << >> ELSE answer)
  OBVIOUS
<1>2. PICK label : label = [k \in DOMAIN entries |-> Resolved(entries[k], opts)]
  OBVIOUS
<1>3. /\ CorrectAnswer(answer, opts).chosen = {label[k] : k \in DOMAIN entries} \ {None}
      /\ ~CorrectAnswer(answer, opts).faulty => \E k \in DOMAIN entries : label[k] # None
  BY <1>1, <1>2 DEF CorrectAnswer
<1>4. \A k \in DOMAIN entries : label[k] # None => label[k] \in Offered(opts)
  BY <1>2, ResolvedOffered
<1> QED
  BY <1>3, <1>4

\* What a row without an error or a warning comes to.
LEMMA OkAnswerable ==
  ASSUME NEW row, ValidateRow(row).verdict = "ok"
  PROVE  Answerable(ValidateRow(row)) /\ ValidateRow(row).question_type \in Types
<1>1. PICK opts, answer, type :
        /\ opts = OptionsOf(row)
        /\ answer = CorrectAnswer(row.correct_answer, opts)
        /\ type = TypeOf(row.question_type, answer.chosen)
  OBVIOUS
<1>2. /\ ValidateRow(row).options = opts
      /\ ValidateRow(row).correct_answer = answer.chosen
      /\ ValidateRow(row).question_type = type
  BY <1>1 DEF ValidateRow
<1>3. /\ ~(Cardinality(Offered(opts)) < 2)
      /\ ~answer.faulty /\ type \in Types
  BY <1>1 DEF ValidateRow
<1>4. answer.chosen \subseteq Offered(opts) /\ answer.chosen # {}
  BY <1>1, <1>3, AnswerOffered
<1>5. Offered(opts) = {l \in Labels : opts[l] # None}
  BY DEF Offered
<1>6. Cardinality(Offered(opts)) \in Nat
  <2>1. PICK n \in Nat : n = 6
    OBVIOUS
  <2>2. IsFiniteSet(1..n)
    BY FS_Interval
  <2>3. PICK offered \in SUBSET (1..n) : offered = Offered(opts)
    BY <2>1 DEF Offered, Labels
  <2> QED
    BY <2>2, <2>3, FS_Subset, FS_CardinalityType
<1>7. Cardinality(Offered(opts)) >= 2
  BY <1>3, <1>6
<1> QED
  BY <1>2, <1>3, <1>4, <1>5, <1>7 DEF Answerable

\* What validation makes of every row of every file.
LEMMA RowsChecked ==
  ASSUME NEW c \in Canonicals
  PROVE  /\ c.verdict \in {"ok", "warning", "error"}
         /\ c.verdict = "ok" => Answerable(c) /\ c.question_type \in Types
<1>1. PICK f \in Files, m \in ColumnSets : c \in Elements(Parsed[f][m])
  BY DEF Canonicals
<1>2. PICK k \in DOMAIN Parsed[f][m] : c = Parsed[f][m][k]
  BY <1>1 DEF Elements
<1>3. PICK rows : Parsed[f][m] = [r \in DOMAIN rows |-> ValidateRow(rows[r])]
  BY DEF Parsed
<1>4. PICK row : c = ValidateRow(row)
  BY <1>2, <1>3
<1>5. c.verdict \in {"ok", "warning", "error"}
  BY <1>4 DEF ValidateRow
<1> QED
  BY <1>4, <1>5, OkAnswerable

LEMMA FileRows ==
  ASSUME NEW f \in Files, NEW m \in ColumnSets
  PROVE  Parsed[f][m] \in Seq(Canonicals)
<1>1. PICK columns : Parsed[f][m] = [r \in DOMAIN StreamRows(Content[f].rows, columns) |->
                                       ValidateRow(StreamRows(Content[f].rows, columns)[r])]
  BY DEF Parsed
<1>2. PICK sheet : sheet = Content[f].rows /\ sheet \in Seq(Elements(sheet))
  BY FilesAssumption
<1>3. PICK kept : kept = DataRows(sheet) /\ kept \in SUBSET DOMAIN sheet
  BY DEF DataRows
<1>4. kept \in SUBSET Nat /\ IsFiniteSet(kept)
  <2>1. PICK n \in Nat : DOMAIN sheet = 1..n
    BY <1>2, LenProperties
  <2>2. IsFiniteSet(1..n) /\ kept \in SUBSET (1..n)
    BY <1>3, <2>1, FS_Interval
  <2>3. IsFiniteSet(kept)
    BY <2>2, FS_Subset
  <2>4. kept \in SUBSET Nat
    BY <2>2
  <2> QED
    BY <2>3, <2>4
<1>5. PICK data : data = IF columns = {} THEN << >> ELSE InOrder(kept)
  OBVIOUS
<1>6. PICK n \in Nat : DOMAIN data = 1..n
  <2>1. CASE columns = {}
    <3>1. DOMAIN data = 1..0
      BY <1>5, <2>1
    <3> QED
      BY <3>1
  <2>2. CASE columns # {}
    BY <1>4, <1>5, <2>2, Ranks DEF InOrder
  <2> QED
    BY <2>1, <2>2
<1>7. DOMAIN StreamRows(sheet, columns) = 1..n
  BY <1>3, <1>5, <1>6 DEF StreamRows
<1>8. DOMAIN Parsed[f][m] = 1..n
  BY <1>1, <1>2, <1>7
<1>9. \A k \in 1..n : Parsed[f][m][k] \in Canonicals
  <2> TAKE k \in 1..n
  <2>1. Parsed[f][m][k] \in Elements(Parsed[f][m])
    BY <1>8 DEF Elements
  <2> QED
    BY <2>1 DEF Canonicals
<1>10. Parsed[f][m] \in [1..n -> Canonicals]
  <2>1. PICK rows : Parsed[f][m] = [r \in DOMAIN rows |-> ValidateRow(rows[r])]
    BY DEF Parsed
  <2>2. DOMAIN rows = 1..n
    BY <1>8, <2>1
  <2> QED
    BY <1>9, <2>1, <2>2
<1> QED
  BY <1>10

-----------------------------------------------------------------------------
(* The state                                                                *)

Links == UNION {[S -> Source] : S \in SUBSET SourceIds}
Found == [at : SourceIds \cup {0}, row : Source \cup {None}]
Job == [import : ImportIds \cup {None}, columns : ColumnSets,
        loaded : ImportStatus \cup ItemStatus, row : Nat,
        hashes : SUBSET {q.hash : q \in Question},
        todo : Seq(Nat), made : Seq(Nat), failed : SUBSET Nat,
        found : Found \cup {None}, linked : Links]

Typed ==
  /\ disk \in [ImportIds -> Files \cup {None}]
  /\ imports \in [ImportIds -> ImportStatus]
  /\ items \in [ImportIds -> Seq(Item)]
  /\ questions \in Seq(Question)
  /\ sources \in [SourceIds -> Source \cup {None}]
  /\ pc \in [Workers -> Steps]
  /\ job \in [Workers -> Job]
  /\ failures \in 0..MaxFailures

\* A row that has been, is, or can be selected.
Live(i, r) ==
  /\ r \in DOMAIN items[i]
  /\ items[i][r].canonical.verdict = "ok" /\ items[i][r].status # "duplicate"

\* What a request under way may take for granted, whoever writes meanwhile.
Fits(step, j) ==
  /\ step # "idle" => j.import \in ImportIds
  /\ step \in {"commit upload", "read hashes", "stage"} => disk[j.import] # None
  /\ step \in {"read hashes", "stage"} /\ j.loaded # "none" => imports[j.import] # "none"
  /\ step = "toggle" => Live(j.import, j.row) /\ j.loaded \in {"ok", "skipped"}
  /\ step \in {"read items", "convert"} => imports[j.import] # "none"
  /\ step = "read items" =>
       j.made = << >> /\ j.failed = {} /\ j.found = None /\ j.linked = << >>
  /\ step = "convert" =>
       /\ items[j.import] # << >>
       /\ \A r \in Elements(j.todo) \cup Elements(j.made) \cup j.failed : Live(j.import, r)
       /\ j.found # None /\ j.found.at # 0 =>
            /\ j.found.at \in SourceIds /\ j.found.row # None
            /\ j.found.at \in DOMAIN j.linked \/ sources[j.found.at] \in Source

\* Until its row is committed an upload has its import to itself.
UploadsAlone ==
  \A w \in Workers : pc[w] = "commit upload" =>
    /\ imports[job[w].import] = "none"
    /\ \A v \in Workers \ {w} : job[v].import # job[w].import

\* An import has its file and its rows before its status says so, and rows that
\* can be selected have passed validation.
TablesFit ==
  \A i \in ImportIds :
    /\ imports[i] # "none" => disk[i] # None
    /\ imports[i] = "none" => items[i] = << >>
    /\ imports[i] \in Confirmed => items[i] # << >>
    /\ \A r \in DOMAIN items[i] :
         items[i][r].status \in {"ok", "skipped", "imported"} => Live(i, r)

Base ==
  /\ Typed /\ TablesFit /\ UploadsAlone
  /\ \A w \in Workers : Fits(pc[w], job[w])

\* What no step undoes.
Grows ==
  /\ \A i \in ImportIds :
       /\ disk[i] # None => disk'[i] # None
       /\ imports[i] # "none" => imports'[i] # "none"
       /\ items[i] # << >> =>
            /\ DOMAIN items'[i] = DOMAIN items[i]
            /\ \A r \in DOMAIN items[i] :
                 /\ items'[i][r].canonical = items[i][r].canonical
                 /\ items[i][r].status # "duplicate" => items'[i][r].status # "duplicate"
  /\ \A s \in SourceIds : sources[s] \in Source => sources'[s] \in Source

LEMMA StillFits ==
  ASSUME Typed, Grows, NEW step, NEW j, Fits(step, j)
  PROVE  Fits(step, j)'
<1>1. ASSUME NEW i \in ImportIds, NEW r, Live(i, r)
      PROVE  Live(i, r)'
  <2>1. items[i] # << >>
    BY <1>1 DEF Live, Typed
  <2> QED
    BY <1>1, <2>1 DEF Live, Grows
<1>2. step = "idle" \/ j.import \in ImportIds
  BY DEF Fits
<1>3. CASE step = "idle"
  BY <1>3 DEF Fits
<1>4. CASE step \in {"commit upload", "read hashes", "stage", "read items"}
  BY <1>2, <1>4 DEF Fits, Grows
<1>5. CASE step = "toggle"
  BY <1>1, <1>2, <1>5 DEF Fits
<1>6. CASE step = "convert"
  <2>1. imports'[j.import] # "none"
    BY <1>2, <1>6 DEF Fits, Grows
  <2>2. items'[j.import] # << >>
    BY <1>2, <1>6 DEF Fits, Grows, Typed
  <2>3. \A r \in Elements(j.todo) \cup Elements(j.made) \cup j.failed : Live(j.import, r)'
    BY <1>1, <1>2, <1>6 DEF Fits
  <2>4. j.found # None /\ j.found.at # 0 =>
          /\ j.found.at \in SourceIds /\ j.found.row # None
          /\ j.found.at \in DOMAIN j.linked \/ sources'[j.found.at] \in Source
    BY <1>6 DEF Fits, Grows
  <2> QED
    BY <1>2, <1>6, <2>1, <2>2, <2>3, <2>4 DEF Fits
<1>7. CASE step \notin {"idle", "commit upload", "read hashes", "stage", "read items",
                        "toggle", "convert"}
  BY <1>2, <1>7 DEF Fits
<1> QED
  BY <1>3, <1>4, <1>5, <1>6, <1>7

\* The jobs of the other workers are as they were.
Others(w) == \A v \in Workers \ {w} : pc'[v] = pc[v] /\ job'[v] = job[v]

LEMMA StepKept ==
  ASSUME Base, Grows, Typed', TablesFit', UploadsAlone', NEW w \in Workers, Others(w),
         Fits(pc[w], job[w])'
  PROVE  Base'
<1>1. ASSUME NEW v \in Workers \ {w}
      PROVE  Fits(pc[v], job[v])'
  <2>1. PICK step, j : step = pc[v] /\ j = job[v]
    OBVIOUS
  <2>2. Fits(step, j)
    BY <2>1 DEF Base
  <2>3. Fits(step, j)'
    BY <2>2, StillFits DEF Base
  <2>4. pc'[v] = step /\ job'[v] = j
    BY <2>1 DEF Others
  <2> QED
    BY <2>3, <2>4
<1> QED
  BY <1>1 DEF Base

LEMMA NoJobType == NoJob \in Job
<1>1. << >> \in Seq(Nat)
  BY EmptySeq
<1>2. << >> \in Links
  <2>1. << >> \in [{} -> Source]
    OBVIOUS
  <2> QED
    BY <2>1 DEF Links
<1> QED
  BY <1>1, <1>2 DEF NoJob, Job, ImportStatus, ItemStatus, Found, ColumnSets

LEMMA GoesOnDoes ==
  ASSUME Typed, NEW w \in Workers, NEW step \in Steps, NEW j \in Job, GoesOn(w, step, j)
  PROVE  /\ pc' \in [Workers -> Steps] /\ job' \in [Workers -> Job]
         /\ pc'[w] = step /\ job'[w] = j /\ Others(w)
BY DEF GoesOn, Typed, Others

\* A request that begins or goes on without a commit.
LEMMA LooksBase ==
  ASSUME Base, NEW w \in Workers, NEW step \in Steps \ {"commit upload"}, NEW j \in Job,
         GoesOn(w, step, j), UNCHANGED tables, failures' \in 0..MaxFailures, Fits(step, j),
         \A v \in Workers \ {w} : pc[v] = "commit upload" => j.import # job[v].import
  PROVE  Base' /\ Grows
<1>1. /\ pc' \in [Workers -> Steps] /\ job' \in [Workers -> Job]
      /\ pc'[w] = step /\ job'[w] = j /\ Others(w)
  BY GoesOnDoes DEF Base
<1>2. UNCHANGED <<disk, imports, items, questions, sources>>
  BY DEF tables
<1>3. Grows
  BY <1>2 DEF Grows
<1>4. Typed'
  BY <1>1, <1>2 DEF Base, Typed
<1>5. TablesFit'
  BY <1>2 DEF Base, TablesFit, Live
<1>6. UploadsAlone'
  <2> SUFFICES ASSUME NEW v \in Workers, pc'[v] = "commit upload"
               PROVE  /\ imports'[job'[v].import] = "none"
                      /\ \A u \in Workers \ {v} : job'[u].import # job'[v].import
    BY DEF UploadsAlone
  <2>1. v # w
    BY <1>1
  <2>2. pc[v] = "commit upload" /\ job'[v] = job[v]
    BY <1>1, <2>1 DEF Others
  <2>3. \A u \in Workers \ {v} : job'[u].import # job'[v].import
    <3> TAKE u \in Workers \ {v}
    <3>1. CASE u = w
      BY <1>1, <2>1, <2>2, <3>1
    <3>2. CASE u # w
      BY <1>1, <2>2, <3>2 DEF Others, Base, UploadsAlone
    <3> QED
      BY <3>1, <3>2
  <2> QED
    BY <1>2, <2>2, <2>3 DEF Base, UploadsAlone
<1>7. Fits(step, j)'
  BY <1>3, StillFits DEF Base
<1> QED
  BY <1>1, <1>3, <1>4, <1>5, <1>6, <1>7, StepKept

\* The next step of a request, on the same import.
LEMMA GoesOnBase ==
  ASSUME Base, NEW w \in Workers, NEW step \in Steps \ {"commit upload"}, NEW j \in Job,
         GoesOn(w, step, j), UNCHANGED <<tables, failures>>, Fits(step, j),
         j.import = job[w].import
  PROVE  Base' /\ Grows
<1>1. failures' \in 0..MaxFailures
  BY DEF Base, Typed
<1>2. \A v \in Workers \ {w} : pc[v] = "commit upload" => j.import # job[v].import
  BY DEF Base, UploadsAlone
<1> QED
  BY <1>1, <1>2, LooksBase

\* A request on an import that has its row begins.
LEMMA BeginsBase ==
  ASSUME Base, NEW w \in Workers, NEW step \in Steps \ {"commit upload"}, NEW j \in Job,
         GoesOn(w, step, j), UNCHANGED <<tables, failures>>, Fits(step, j),
         imports[j.import] # "none"
  PROVE  Base' /\ Grows
<1>1. failures' \in 0..MaxFailures
  BY DEF Base, Typed
<1>2. \A v \in Workers \ {w} : pc[v] = "commit upload" => j.import # job[v].import
  BY DEF Base, UploadsAlone
<1> QED
  BY <1>1, <1>2, LooksBase

-----------------------------------------------------------------------------
(* Requests that begin                                                      *)

LEMMA UploadBase ==
  ASSUME Base, NEW w \in Workers, NEW i \in ImportIds, NEW f \in Files, Upload(w, i, f)
  PROVE  Base' /\ Grows
<1>1. PICK step \in {"commit upload", "read hashes"}, j \in Job :
        /\ j = [NoJob EXCEPT !.import = i] /\ GoesOn(w, step, j)
  BY NoJobType DEF Upload, FirstStep, NoJob, Job
<1>2. j.import = i /\ j.loaded = "none"
  BY <1>1 DEF NoJob
<1>3. step \in Steps
  BY DEF Steps
<1>4. /\ imports[i] = "none" /\ \A v \in Workers : job[v].import # i
      /\ disk' = [disk EXCEPT ![i] = f]
      /\ UNCHANGED <<imports, items, questions, sources, failures>>
  BY DEF Upload
<1>5. /\ pc' \in [Workers -> Steps] /\ job' \in [Workers -> Job]
      /\ pc'[w] = step /\ job'[w] = j /\ Others(w)
  BY <1>1, <1>2, <1>3, GoesOnDoes DEF Base
<1>6. f # None
  BY NoneAssumption
<1>7. Grows
  BY <1>4, <1>6 DEF Grows, Base, Typed
<1>8. Typed'
  BY <1>4, <1>5 DEF Base, Typed
<1>9. TablesFit'
  BY <1>4, <1>7 DEF Base, TablesFit, Live, Grows
<1>10. UploadsAlone'
  <2>1. \A v \in Workers \ {w} : pc'[v] = pc[v] /\ job'[v] = job[v]
    BY <1>5 DEF Others
  <2> SUFFICES ASSUME NEW v \in Workers, pc'[v] = "commit upload"
               PROVE  /\ imports'[job'[v].import] = "none"
                      /\ \A u \in Workers \ {v} : job'[u].import # job'[v].import
    BY DEF UploadsAlone
  <2>2. CASE v = w
    BY <1>2, <1>4, <1>5, <2>1, <2>2
  <2>3. CASE v # w
    <3>1. /\ job'[v] = job[v] /\ imports[job[v].import] = "none"
          /\ \A u \in Workers \ {v} : job[u].import # job[v].import
      BY <2>1, <2>3 DEF Base, UploadsAlone
    <3>2. \A u \in Workers \ {v} : job'[u].import # job'[v].import
      <4> TAKE u \in Workers \ {v}
      <4>1. CASE u = w
        BY <1>2, <1>4, <1>5, <3>1, <4>1
      <4>2. CASE u # w
        BY <2>1, <3>1, <4>2
      <4> QED
        BY <4>1, <4>2
    <3> QED
      BY <1>4, <3>1, <3>2
  <2> QED
    BY <2>2, <2>3
<1>11. Fits(step, j)'
  BY <1>2, <1>4, <1>6 DEF Fits, Base, Typed
<1> QED
  BY <1>5, <1>7, <1>8, <1>9, <1>10, <1>11, StepKept

LEMMA SaveMappingBase ==
  ASSUME Base, NEW w \in Workers, NEW i \in ImportIds, NEW m \in Mappings,
         SaveMapping(w, i, m)
  PROVE  Base' /\ Grows
<1>1. imports[i] \in ImportStatus /\ imports[i] # "none"
  BY DEF SaveMapping, Base, Typed
<1>2. PICK j : j = [NoJob EXCEPT !.import = i, !.columns = m.columns, !.loaded = imports[i]]
  OBVIOUS
<1>3. j \in Job /\ j.import = i
  BY <1>1, <1>2, NoJobType DEF NoJob, Job, ColumnSets
<1>4. Fits("read hashes", j)
  BY <1>1, <1>3 DEF Fits, Base, TablesFit
<1>5. GoesOn(w, "read hashes", j) /\ UNCHANGED <<tables, failures>>
  BY <1>2 DEF SaveMapping
<1>6. "read hashes" \in Steps \ {"commit upload"}
  BY DEF Steps
<1> QED
  BY <1>1, <1>3, <1>4, <1>5, <1>6, BeginsBase

LEMMA ToggleRowBase ==
  ASSUME Base, NEW w \in Workers, NEW i \in ImportIds, NEW r \in DOMAIN items[i],
         ToggleRow(w, i, r)
  PROVE  Base' /\ Grows
<1>1. items[i] # << >> /\ r \in Nat /\ items[i][r].status \in {"ok", "skipped"}
  BY DEF ToggleRow, Flip, Base, Typed
<1>2. imports[i] # "none" /\ Live(i, r)
  BY <1>1 DEF Base, TablesFit
<1>3. PICK status \in {"ok", "skipped"} : status = items[i][r].status
  BY <1>1
<1>4. PICK j : j = [NoJob EXCEPT !.import = i, !.row = r, !.loaded = status]
  OBVIOUS
<1>5. j \in Job /\ j.import = i /\ j.row = r /\ j.loaded = status
  BY <1>1, <1>4, NoJobType DEF NoJob, Job, ItemStatus
<1>6. Fits("toggle", j)
  BY <1>2, <1>5 DEF Fits
<1>7. GoesOn(w, "toggle", j) /\ UNCHANGED <<tables, failures>>
  BY <1>3, <1>4 DEF ToggleRow
<1>8. "toggle" \in Steps \ {"commit upload"}
  BY DEF Steps
<1> QED
  BY <1>2, <1>5, <1>6, <1>7, <1>8, BeginsBase

LEMMA ConfirmBase ==
  ASSUME Base, NEW w \in Workers, NEW i \in ImportIds, Confirm(w, i)
  PROVE  Base' /\ Grows
<1>1. imports[i] \in ImportStatus /\ imports[i] # "none"
  BY DEF Confirm, Base, Typed
<1>2. PICK j : j = [NoJob EXCEPT !.import = i, !.loaded = imports[i]]
  OBVIOUS
<1>3. /\ j \in Job /\ j.import = i /\ j.loaded = imports[i]
      /\ j.made = << >> /\ j.failed = {} /\ j.found = None /\ j.linked = << >>
  BY <1>1, <1>2, NoJobType DEF NoJob, Job
<1>4. Fits("read items", j)
  BY <1>1, <1>3 DEF Fits
<1>5. GoesOn(w, "read items", j) /\ UNCHANGED <<tables, failures>>
  BY <1>2 DEF Confirm
<1>6. "read items" \in Steps \ {"commit upload"}
  BY DEF Steps
<1> QED
  BY <1>1, <1>3, <1>4, <1>5, <1>6, BeginsBase

-----------------------------------------------------------------------------
(* Commits, and requests cut off                                            *)

\* The request of a worker that is not idle.
LEMMA UnderWay ==
  ASSUME Base, NEW w \in Workers, pc[w] # "idle"
  PROVE  /\ job[w] \in Job /\ job[w].import \in ImportIds
         /\ Fits(pc[w], job[w])
BY DEF Base, Typed, Fits

\* What a request writes at its commit concerns its own import.
LEMMA CommitBase ==
  ASSUME Base, Grows, NEW w \in Workers, Replies(w), TablesFit',
         disk' \in [ImportIds -> Files \cup {None}],
         imports' \in [ImportIds -> ImportStatus],
         items' \in [ImportIds -> Seq(Item)],
         questions' \in Seq(Question),
         sources' \in [SourceIds -> Source \cup {None}],
         failures' \in 0..MaxFailures,
         \A i \in ImportIds \ {job[w].import} : imports'[i] = imports[i]
  PROVE  Base'
<1>1. /\ pc' \in [Workers -> Steps] /\ job' \in [Workers -> Job]
      /\ pc'[w] = "idle" /\ job'[w] = NoJob /\ Others(w)
  BY NoJobType, GoesOnDoes DEF Replies, Base, Steps
<1>2. Typed'
  BY <1>1 DEF Typed
<1>3. UploadsAlone'
  <2> SUFFICES ASSUME NEW v \in Workers, pc'[v] = "commit upload"
               PROVE  /\ imports'[job'[v].import] = "none"
                      /\ \A u \in Workers \ {v} : job'[u].import # job'[v].import
    BY DEF UploadsAlone
  <2>1. v # w
    BY <1>1
  <2>2. job'[v] = job[v] /\ pc[v] = "commit upload"
    BY <1>1, <2>1 DEF Others
  <2>3. /\ imports[job[v].import] = "none" /\ job[v].import \in ImportIds
        /\ \A u \in Workers \ {v} : job[u].import # job[v].import
    BY <2>2, UnderWay DEF Base, UploadsAlone
  <2>4. NoJob.import # job[v].import
    BY <2>3, NoneAssumption DEF NoJob
  <2>5. \A u \in Workers \ {v} : job'[u].import # job'[v].import
    <3> TAKE u \in Workers \ {v}
    <3>1. CASE u = w
      BY <1>1, <2>2, <2>4, <3>1
    <3>2. CASE u # w
      BY <1>1, <2>2, <2>3, <3>2 DEF Others
    <3> QED
      BY <3>1, <3>2
  <2> QED
    BY <2>1, <2>2, <2>3, <2>5
<1>4. Fits(pc[w], job[w])'
  BY <1>1 DEF Fits
<1> QED
  BY <1>1, <1>2, <1>3, <1>4, StepKept

LEMMA CommitUploadBase ==
  ASSUME Base, NEW w \in Workers, CommitUpload(w)
  PROVE  Base' /\ Grows
<1>1. /\ pc[w] = "commit upload" /\ Replies(w)
      /\ UNCHANGED <<disk, items, questions, sources, failures>>
  BY DEF CommitUpload
<1>2. PICK i \in ImportIds : i = job[w].import
  BY <1>1, UnderWay
<1>3. imports[i] = "none" /\ disk[i] # None
  BY <1>1, <1>2, UnderWay DEF Base, UploadsAlone, Fits
<1>4. imports' = [imports EXCEPT ![i] = "uploaded"]
  BY <1>2 DEF CommitUpload
<1>5. /\ "uploaded" \in ImportStatus /\ "uploaded" \notin Confirmed
      /\ "none" \notin Confirmed
  BY DEF ImportStatus, Confirmed
<1>6. Grows
  BY <1>1, <1>3, <1>4, <1>5 DEF Grows, Base, Typed
<1>7. \A k \in ImportIds \ {i} : imports'[k] = imports[k]
  BY <1>4 DEF Base, Typed
<1>8. imports'[i] = "uploaded"
  BY <1>4 DEF Base, Typed
<1>9. TablesFit'
  <2>1. \A k \in ImportIds : k # i \/ k = i
    OBVIOUS
  <2> QED
    BY <1>1, <1>3, <1>5, <1>7, <1>8 DEF Base, TablesFit, Live
<1> QED
  BY <1>1, <1>2, <1>4, <1>5, <1>6, <1>7, <1>9, CommitBase DEF Base, Typed

LEMMA FailBase ==
  ASSUME Base, NEW w \in Workers, Fail(w)
  PROVE  Base' /\ Grows
<1>1. /\ Replies(w) /\ UNCHANGED <<disk, imports, items, questions, sources>>
  BY DEF Fail, tables
<1>2. failures' \in 0..MaxFailures
  BY ImportBoundsAssumption DEF Fail, Base, Typed
<1>3. Grows
  BY <1>1 DEF Grows
<1>4. TablesFit'
  BY <1>1 DEF Base, TablesFit, Live
<1> QED
  BY <1>1, <1>2, <1>3, <1>4, CommitBase DEF Base, Typed

\* Rows of an import that a step writes: those that can be selected, and of them
\* no more than status and question.
Rewritten(i, rows) ==
  /\ rows \in Seq(Item) /\ DOMAIN rows = DOMAIN items[i]
  /\ items' = [items EXCEPT ![i] = rows]
  /\ \A r \in DOMAIN rows :
       \/ rows[r] = items[i][r]
       \/ /\ Live(i, r) /\ rows[r].status # "duplicate"
          /\ rows[r].canonical = items[i][r].canonical

\* An import whose rows are written, with its status, by one that has confirmed
\* or toggled them.
LEMMA RewritingFits ==
  ASSUME Base, NEW i \in ImportIds, NEW rows, Rewritten(i, rows), items[i] # << >>,
         imports' \in [ImportIds -> ImportStatus],
         \A k \in ImportIds \ {i} : imports'[k] = imports[k],
         imports'[i] # "none",
         UNCHANGED disk,
         \A s \in SourceIds : sources[s] \in Source => sources'[s] \in Source
  PROVE  items' \in [ImportIds -> Seq(Item)] /\ Grows /\ TablesFit'
<1>1. /\ rows \in Seq(Item) /\ DOMAIN rows = DOMAIN items[i]
      /\ items' = [items EXCEPT ![i] = rows]
      /\ \A r \in DOMAIN rows :
           \/ rows[r] = items[i][r]
           \/ /\ Live(i, r) /\ rows[r].status # "duplicate"
              /\ rows[r].canonical = items[i][r].canonical
  BY DEF Rewritten
<1>2. /\ items'[i] = rows /\ \A k \in ImportIds \ {i} : items'[k] = items[k]
      /\ items' \in [ImportIds -> Seq(Item)]
  BY <1>1 DEF Base, Typed
<1>3. rows # << >>
  BY <1>1 DEF Base, Typed
<1>4. imports[i] # "none"
  BY DEF Base, TablesFit
<1>5. \A r \in DOMAIN items[i] :
        /\ rows[r].canonical = items[i][r].canonical
        /\ items[i][r].status # "duplicate" => rows[r].status # "duplicate"
  BY <1>1
<1>6. Grows
  BY <1>1, <1>2, <1>4, <1>5 DEF Grows
<1>7. \A r \in DOMAIN items'[i] :
        items'[i][r].status \in {"ok", "skipped", "imported"} => Live(i, r)'
  <2> TAKE r \in DOMAIN items'[i]
  <2>1. CASE rows[r] = items[i][r]
    BY <1>1, <1>2, <2>1 DEF Base, TablesFit, Live
  <2>2. CASE Live(i, r) /\ rows[r].status # "duplicate"
    BY <1>1, <1>2, <1>5, <2>2 DEF Live
  <2> QED
    BY <1>1, <1>2, <2>1, <2>2
<1>8. ASSUME NEW k \in ImportIds
      PROVE  /\ imports'[k] # "none" => disk'[k] # None
             /\ imports'[k] = "none" => items'[k] = << >>
             /\ imports'[k] \in Confirmed => items'[k] # << >>
             /\ \A r \in DOMAIN items'[k] :
                  items'[k][r].status \in {"ok", "skipped", "imported"} => Live(k, r)'
  <2>1. CASE k = i
    BY <1>2, <1>3, <1>4, <1>7, <2>1 DEF Base, TablesFit
  <2>2. CASE k # i
    <3>1. items'[k] = items[k] /\ imports'[k] = imports[k] /\ disk'[k] = disk[k]
      BY <1>2, <2>2
    <3>2. \A r : Live(k, r) => Live(k, r)'
      BY <3>1 DEF Live
    <3> QED
      BY <3>1, <3>2 DEF Base, TablesFit
  <2> QED
    BY <2>1, <2>2
<1> QED
  BY <1>2, <1>6, <1>8 DEF TablesFit

\* What staging makes of validated rows: of those with the same content the
\* first one can be selected, unless the exam has it already.
LEMMA StagedRows ==
  ASSUME NEW rows \in Seq(Canonicals), NEW known
  PROVE  /\ Staged(rows, known) \in Seq(Item)
         /\ DOMAIN Staged(rows, known) = DOMAIN rows
         /\ \A r \in DOMAIN rows :
              /\ Staged(rows, known)[r].canonical = rows[r]
              /\ Staged(rows, known)[r].question = None
              /\ Staged(rows, known)[r].status \in {"ok", "warning", "error", "duplicate"}
              /\ Staged(rows, known)[r].status = "ok" => rows[r].verdict = "ok"
              /\ /\ Staged(rows, known)[r].status # "duplicate"
                 /\ rows[r].verdict = "ok"
                 => /\ Staged(rows, known)[r].status = "ok"
                    /\ \A p \in 1..(r - 1) :
                         rows[p].verdict = "ok" => rows[p].hash # rows[r].hash
<1>1. PICK n \in Nat : DOMAIN rows = 1..n
  BY LenProperties
<1>2. \A r \in 1..n : rows[r] \in Canonicals /\ rows[r].verdict \in {"ok", "warning", "error"}
  BY <1>1, RowsChecked, ElementOfSeq, LenProperties
<1> DEFINE Twice(r) == /\ rows[r].verdict = "ok"
                       /\ \/ rows[r].hash \in known
                          \/ \E p \in 1..(r - 1) : /\ rows[p].verdict = "ok"
                                                   /\ rows[p].hash = rows[r].hash
           status(r) == IF Twice(r) THEN "duplicate" ELSE rows[r].verdict
<1>3. Staged(rows, known) =
        [r \in 1..n |-> [canonical |-> rows[r], question |-> None, status |-> status(r)]]
  BY <1>1 DEF Staged
<1>4. \A r \in 1..n :
        /\ status(r) \in {"ok", "warning", "error", "duplicate"}
        /\ status(r) = "ok" => rows[r].verdict = "ok"
        /\ status(r) # "duplicate" /\ rows[r].verdict = "ok" =>
             /\ status(r) = "ok"
             /\ \A p \in 1..(r - 1) : rows[p].verdict = "ok" => rows[p].hash # rows[r].hash
  BY <1>2
<1> HIDE DEF status
<1>5. \A r \in 1..n :
        [canonical |-> rows[r], question |-> None, status |-> status(r)] \in Item
  BY <1>2, <1>4 DEF Item, ItemStatus
<1>6. Staged(rows, known) \in [1..n -> Item]
  BY <1>3, <1>5
<1>7. DOMAIN Staged(rows, known) = 1..n
  BY <1>3
<1>8. \A r \in 1..n : /\ Staged(rows, known)[r].canonical = rows[r]
                      /\ Staged(rows, known)[r].question = None
                      /\ Staged(rows, known)[r].status = status(r)
  BY <1>3
<1>9. Staged(rows, known) \in Seq(Item)
  BY <1>6
<1> QED
  BY <1>1, <1>4, <1>7, <1>8, <1>9

\* What StageItems does: nothing; the rows of a file in place of none; or, with no
\* row to add, the status alone.
Stages(i, rows, known) ==
  /\ items[i] = << >>
  /\ items' = [items EXCEPT ![i] = Staged(rows, known)]
  /\ imports' \in [ImportIds -> ImportStatus]
  /\ imports'[i] # "none" /\ imports'[i] \notin Confirmed
  /\ \A k \in ImportIds \ {i} : imports'[k] = imports[k]

Remaps(i) ==
  /\ items[i] # << >> /\ UNCHANGED items
  /\ imports' \in [ImportIds -> ImportStatus]
  /\ imports'[i] \in {"normalized", imports[i]}
  /\ \A k \in ImportIds \ {i} : imports'[k] = imports[k]

LEMMA StagedNothing ==
  ASSUME NEW known
  PROVE  Staged(<< >>, known) = << >>
<1>1. DOMAIN Staged(<< >>, known) = {}
  BY DEF Staged
<1> QED
  BY <1>1 DEF Staged

LEMMA StageItemsDoes ==
  ASSUME Base, NEW w \in Workers, StageItems(w)
  PROVE  \/ UNCHANGED <<imports, items>>
         \/ \E i \in ImportIds, rows \in Seq(Canonicals) : \E known :
              i = job[w].import /\ Stages(i, rows, known)
         \/ \E i \in ImportIds : i = job[w].import /\ Remaps(i)
<1>1. pc[w] = "stage"
  BY DEF StageItems
<1>2. PICK i \in ImportIds, columns \in ColumnSets,
           loaded \in ImportStatus \cup ItemStatus, known \in SUBSET {q.hash : q \in Question} :
        /\ i = job[w].import /\ columns = job[w].columns
        /\ loaded = job[w].loaded /\ known = job[w].hashes
  BY <1>1, UnderWay DEF Job
<1>3. disk[i] # None /\ (loaded # "none" => imports[i] # "none")
  BY <1>1, <1>2, UnderWay DEF Fits
<1>4. PICK f \in Files : f = disk[i]
  BY <1>3 DEF Base, Typed
<1>5. PICK rows \in Seq(Canonicals) : rows = Parsed[f][columns]
  BY FileRows
<1>6. PICK status : status = Written("normalized", loaded, imports[i])
  OBVIOUS
<1>7. /\ status \in ImportStatus /\ status # "none"
      /\ status \in {"normalized", imports[i]}
  BY <1>3, <1>6 DEF Written, ImportStatus, Base, Typed
<1>8. PICK staged \in Seq(Item) : staged = Staged(rows, known)
  BY StagedRows
<1>9. PICK old \in Seq(Item) : old = items[i]
  BY DEF Base, Typed
<1>10. \/ UNCHANGED <<imports, items>>
       \/ /\ rows = << >> \/ old = << >>
          /\ items' = [items EXCEPT ![i] = old \o staged]
          /\ imports' = [imports EXCEPT ![i] = status]
  BY <1>1, <1>2, <1>4, <1>5, <1>6, <1>8, <1>9 DEF StageItems, StagingFails
<1>11. ASSUME old = << >>, items' = [items EXCEPT ![i] = old \o staged],
              imports' = [imports EXCEPT ![i] = status]
       PROVE  Stages(i, rows, known)
  <2>1. imports[i] \notin Confirmed
    BY <1>9, <1>11 DEF Base, TablesFit
  <2>2. status \notin Confirmed
    BY <1>7, <2>1 DEF Confirmed
  <2>3. old \o staged = staged
    BY <1>11, ConcatEmptySeq
  <2> QED
    BY <1>7, <1>8, <1>9, <1>11, <2>2, <2>3 DEF Stages, Base, Typed
<1>12. ASSUME old # << >>, rows = << >>, items' = [items EXCEPT ![i] = old \o staged],
              imports' = [imports EXCEPT ![i] = status]
       PROVE  Remaps(i)
  <2>1. old \o staged = old
    BY <1>8, <1>12, StagedNothing, ConcatEmptySeq
  <2>2. items' = items
    BY <1>9, <1>12, <2>1 DEF Base, Typed
  <2> QED
    BY <1>7, <1>9, <1>12, <2>2 DEF Remaps, Base, Typed
<1> QED
  BY <1>2, <1>10, <1>11, <1>12

LEMMA StageItemsBase ==
  ASSUME Base, NEW w \in Workers, StageItems(w)
  PROVE  Base' /\ Grows
<1>1. Replies(w) /\ UNCHANGED <<disk, questions, sources, failures>>
  BY DEF StageItems
<1>2. CASE UNCHANGED <<imports, items>>
  <2>1. Grows /\ TablesFit'
    BY <1>1, <1>2 DEF Grows, Base, TablesFit, Live
  <2> QED
    BY <1>1, <1>2, <2>1, CommitBase DEF Base, Typed
<1>3. ASSUME NEW i \in ImportIds, NEW rows \in Seq(Canonicals), NEW known,
             i = job[w].import, Stages(i, rows, known)
      PROVE  Base' /\ Grows
  <2>1. PICK staged : staged = Staged(rows, known)
    OBVIOUS
  <2>2. /\ items[i] = << >> /\ imports'[i] # "none" /\ imports'[i] \notin Confirmed
        /\ items' = [items EXCEPT ![i] = staged]
        /\ imports' \in [ImportIds -> ImportStatus]
        /\ \A k \in ImportIds \ {i} : imports'[k] = imports[k]
    BY <1>3, <2>1 DEF Stages
  <2>3. /\ staged \in Seq(Item)
        /\ \A r \in DOMAIN staged :
             staged[r].status \in {"ok", "skipped", "imported"} =>
               staged[r].canonical.verdict = "ok" /\ staged[r].status # "duplicate"
    BY <2>1, StagedRows
  <2>4. /\ items'[i] = staged /\ \A k \in ImportIds \ {i} : items'[k] = items[k]
        /\ items' \in [ImportIds -> Seq(Item)]
    BY <2>2, <2>3 DEF Base, Typed
  <2>5. disk[i] # None
    <3>1. pc[w] = "stage"
      BY DEF StageItems
    <3> QED
      BY <1>3, <3>1, UnderWay DEF Fits
  <2>7. Grows
    BY <1>1, <2>2, <2>4 DEF Grows
  <2>8. TablesFit'
    <3> SUFFICES ASSUME NEW k \in ImportIds
                 PROVE  /\ imports'[k] # "none" => disk'[k] # None
                        /\ imports'[k] = "none" => items'[k] = << >>
                        /\ imports'[k] \in Confirmed => items'[k] # << >>
                        /\ \A r \in DOMAIN items'[k] :
                             items'[k][r].status \in {"ok", "skipped", "imported"} =>
                               Live(k, r)'
      BY DEF TablesFit
    <3>1. CASE k # i
      BY <1>1, <2>2, <2>4, <3>1 DEF Base, TablesFit, Live
    <3>2. CASE k = i
      BY <1>1, <2>2, <2>3, <2>4, <2>5, <3>2 DEF Live
    <3> QED
      BY <3>1, <3>2
  <2> QED
    BY <1>1, <1>3, <2>2, <2>4, <2>7, <2>8, CommitBase DEF Base, Typed
<1>4. ASSUME NEW i \in ImportIds, i = job[w].import, Remaps(i)
      PROVE  Base' /\ Grows
  <2>1. /\ items[i] # << >> /\ UNCHANGED items
        /\ imports' \in [ImportIds -> ImportStatus]
        /\ imports'[i] \in {"normalized", imports[i]}
        /\ \A k \in ImportIds \ {i} : imports'[k] = imports[k]
    BY <1>4 DEF Remaps
  <2>2. imports[i] # "none" /\ disk[i] # None
    BY <2>1 DEF Base, TablesFit
  <2>3. imports'[i] # "none"
    BY <2>1, <2>2
  <2>4. Grows
    BY <1>1, <2>1, <2>3 DEF Grows
  <2>5. TablesFit'
    <3>1. \A k \in ImportIds :
            /\ imports'[k] # "none" => disk'[k] # None
            /\ imports'[k] = "none" => items'[k] = << >>
            /\ imports'[k] \in Confirmed => items'[k] # << >>
      BY <1>1, <2>1, <2>2, <2>3 DEF Base, TablesFit
    <3> QED
      BY <2>1, <3>1 DEF Base, TablesFit, Live
  <2> QED
    BY <1>1, <1>4, <2>1, <2>4, <2>5, CommitBase DEF Base, Typed
<1> QED
  BY <1>2, <1>3, <1>4, StageItemsDoes

\* What a toggle writes to its row, whatever has become of the row since.
Toggled(w, i, r, new) ==
  /\ i = job[w].import /\ r = job[w].row
  /\ Live(i, r) /\ items[i] # << >>
  /\ new.canonical = items[i][r].canonical /\ new.question = items[i][r].question
  /\ new.status = Flip[job[w].loaded] /\ new.status \in {"ok", "skipped"}
  /\ items' = [items EXCEPT ![i] = [items[i] EXCEPT ![r] = new]]

LEMMA ToggledRow ==
  ASSUME Base, NEW w \in Workers, CommitToggle(w)
  PROVE  \E i \in ImportIds, r \in Nat, new \in Item : Toggled(w, i, r, new)
<1>1. pc[w] = "toggle"
  BY DEF CommitToggle
<1>2. PICK i \in ImportIds, r \in Nat, loaded \in {"ok", "skipped"} :
        i = job[w].import /\ r = job[w].row /\ loaded = job[w].loaded
  BY <1>1, UnderWay DEF Fits, Job
<1>3. Live(i, r)
  BY <1>1, <1>2, UnderWay DEF Fits
<1>4. PICK rows \in Seq(Item) : rows = items[i]
  BY DEF Base, Typed
<1>5. r \in DOMAIN rows /\ rows[r] \in Item /\ rows # << >>
  BY <1>3, <1>4, ElementOfSeq, LenProperties DEF Live
<1>6. PICK status \in {"ok", "skipped"} : status = Flip[loaded]
  BY DEF Flip
<1>7. PICK new : new = [rows[r] EXCEPT !.status = status]
  OBVIOUS
<1>8. /\ new \in Item /\ new.status = status
      /\ new.canonical = rows[r].canonical /\ new.question = rows[r].question
  BY <1>5, <1>6, <1>7 DEF Item, ItemStatus
<1>9. items' = [items EXCEPT ![i][r].status = Flip[loaded]]
  BY <1>2 DEF CommitToggle
<1>10. items' = [items EXCEPT ![i] = [items[i] EXCEPT ![r] = new]]
  BY <1>4, <1>6, <1>7, <1>9
<1>11. Toggled(w, i, r, new)
  BY <1>2, <1>3, <1>4, <1>5, <1>6, <1>8, <1>10 DEF Toggled
<1> QED
  BY <1>8, <1>11

LEMMA ToggledRewrites ==
  ASSUME Base, NEW w \in Workers, NEW i \in ImportIds, NEW r \in Nat, NEW new \in Item,
         Toggled(w, i, r, new), NEW rows, rows = [items[i] EXCEPT ![r] = new]
  PROVE  /\ Rewritten(i, rows)
         /\ \A k \in DOMAIN rows : rows[k] = IF k = r THEN new ELSE items[i][k]
<1>1. rows \in Seq(Item) /\ DOMAIN rows = DOMAIN items[i]
  BY DEF Toggled, Live, Base, Typed
<1>2. \A k \in DOMAIN rows : rows[k] = IF k = r THEN new ELSE items[i][k]
  BY <1>1
<1>3. new.status # "duplicate"
  BY DEF Toggled
<1> QED
  BY <1>1, <1>2, <1>3 DEF Rewritten, Toggled

LEMMA CommitToggleBase ==
  ASSUME Base, NEW w \in Workers, CommitToggle(w)
  PROVE  Base' /\ Grows
<1>1. Replies(w) /\ UNCHANGED <<disk, imports, questions, sources, failures>>
  BY DEF CommitToggle
<1>2. PICK i \in ImportIds, r \in Nat, new \in Item : Toggled(w, i, r, new)
  BY ToggledRow
<1>3. PICK rows : rows = [items[i] EXCEPT ![r] = new]
  OBVIOUS
<1>4. Rewritten(i, rows)
  BY <1>2, <1>3, ToggledRewrites
<1>5. items[i] # << >> /\ imports[i] # "none"
  BY <1>2 DEF Toggled, Base, TablesFit
<1>6. items' \in [ImportIds -> Seq(Item)] /\ Grows /\ TablesFit'
  BY <1>1, <1>4, <1>5, RewritingFits DEF Base, Typed
<1> QED
  BY <1>1, <1>6, CommitBase DEF Base, Typed

LEMMA ReadHashesBase ==
  ASSUME Base, NEW w \in Workers, ReadHashes(w)
  PROVE  Base' /\ Grows
<1>1. pc[w] = "read hashes" /\ UNCHANGED <<tables, failures>>
  BY DEF ReadHashes
<1>2. PICK hashes : hashes = {questions[q].hash : q \in DOMAIN questions}
  OBVIOUS
<1>3. hashes \in SUBSET {q.hash : q \in Question}
  <2>1. \A q \in DOMAIN questions : questions[q] \in Question
    BY DEF Base, Typed
  <2> QED
    BY <1>2, <2>1
<1>4. PICK j : j = [job[w] EXCEPT !.hashes = hashes]
  OBVIOUS
<1>5. job[w] \in Job /\ Fits("read hashes", job[w])
  BY <1>1, UnderWay
<1>6. j \in Job /\ j.import = job[w].import /\ j.loaded = job[w].loaded
  BY <1>3, <1>4, <1>5 DEF Job
<1>7. Fits("stage", j)
  BY <1>5, <1>6 DEF Fits
<1>8. GoesOn(w, "stage", j)
  BY <1>2, <1>4 DEF ReadHashes
<1>9. "stage" \in Steps \ {"commit upload"}
  BY DEF Steps
<1> QED
  BY <1>1, <1>6, <1>7, <1>8, <1>9, GoesOnBase

-----------------------------------------------------------------------------
(* A confirm                                                                *)

\* The rows a confirm has to do with.
RowsOf(j) == Elements(j.todo) \cup Elements(j.made) \cup j.failed

\* A confirm goes on with rows it had, and with a source that is there.
LEMMA ConvertsBase ==
  ASSUME Base, NEW w \in Workers, pc[w] = "convert", NEW j \in Job,
         GoesOn(w, "convert", j), UNCHANGED tables, failures' \in 0..MaxFailures,
         j.import = job[w].import, j.loaded = job[w].loaded,
         RowsOf(j) \subseteq RowsOf(job[w]),
         j.found # None /\ j.found.at # 0 =>
           /\ j.found.at \in SourceIds /\ j.found.row # None
           /\ j.found.at \in DOMAIN j.linked \/ sources[j.found.at] \in Source
  PROVE  Base' /\ Grows
<1>1. Fits("convert", job[w])
  BY UnderWay
<1>2. Fits("convert", j)
  BY <1>1 DEF Fits, RowsOf
<1>3. \A v \in Workers \ {w} : pc[v] = "commit upload" => j.import # job[v].import
  BY DEF Base, UploadsAlone
<1>4. "convert" \in Steps \ {"commit upload"}
  BY DEF Steps
<1> QED
  BY <1>2, <1>3, <1>4, LooksBase

LEMMA RepliesBase ==
  ASSUME Base, NEW w \in Workers, Replies(w), UNCHANGED <<tables, failures>>
  PROVE  Base' /\ Grows
<1>1. NoJob \in Job /\ GoesOn(w, "idle", NoJob) /\ Fits("idle", NoJob)
  BY NoJobType DEF Replies, Fits
<1>2. \A v \in Workers \ {w} : pc[v] = "commit upload" => NoJob.import # job[v].import
  BY UnderWay, NoneAssumption DEF NoJob
<1>3. "idle" \in Steps \ {"commit upload"} /\ failures' \in 0..MaxFailures
  BY DEF Steps, Base, Typed
<1> QED
  BY <1>1, <1>2, <1>3, LooksBase

LEMMA ToImportRows ==
  ASSUME Base, NEW i \in ImportIds
  PROVE  /\ ToImport(i) \in Seq(Nat)
         /\ \A r \in Elements(ToImport(i)) :
              /\ Live(i, r) /\ r \in DOMAIN items[i]
              /\ items[i][r].status = "ok" /\ items[i][r].question = None
         /\ \A k, l \in DOMAIN ToImport(i) : ToImport(i)[k] = ToImport(i)[l] => k = l
<1>1. PICK S : S = {r \in DOMAIN items[i] :
                      items[i][r].status = "ok" /\ items[i][r].question = None}
  OBVIOUS
<1>2. S \in SUBSET Nat /\ IsFiniteSet(S)
  <2>1. PICK n \in Nat : DOMAIN items[i] = 1..n
    BY LenProperties DEF Base, Typed
  <2>2. IsFiniteSet(1..n) /\ S \in SUBSET (1..n)
    BY <1>1, <2>1, FS_Interval
  <2>3. IsFiniteSet(S)
    BY <2>2, FS_Subset
  <2>4. S \in SUBSET Nat
    BY <2>2
  <2> QED
    BY <2>3, <2>4
<1>3. PICK todo : todo = ToImport(i) /\ todo = InOrder(S)
  BY <1>1 DEF ToImport
<1>4. todo \in Seq(S) /\ \A k, l \in DOMAIN todo : todo[k] = todo[l] => k = l
  BY <1>2, <1>3, InOrderRows
<1>5. todo \in Seq(Nat) /\ Elements(todo) \subseteq S
  <2>1. todo \in Seq(Nat)
    BY <1>2, <1>4, SeqMonotonic
  <2>2. \A k \in DOMAIN todo : todo[k] \in S
    BY <1>4, ElementOfSeq, LenProperties
  <2> QED
    BY <2>1, <2>2 DEF Elements
<1>6. \A r \in S : Live(i, r)
  BY <1>1 DEF Base, TablesFit
<1> QED
  BY <1>1, <1>3, <1>4, <1>5, <1>6

LEMMA ReadItemsBase ==
  ASSUME Base, NEW w \in Workers, ReadItems(w)
  PROVE  Base' /\ Grows
<1>1. pc[w] = "read items" /\ UNCHANGED <<tables, failures>>
  BY DEF ReadItems
<1>2. PICK i \in ImportIds : i = job[w].import
  BY <1>1, UnderWay
<1>3. CASE items[i] = << >>
  BY <1>1, <1>2, <1>3, RepliesBase DEF ReadItems
<1>4. CASE items[i] # << >>
  <2>1. PICK todo \in Seq(Nat) : todo = ToImport(i)
    BY ToImportRows
  <2>2. PICK j : j = [job[w] EXCEPT !.todo = todo]
    OBVIOUS
  <2>3. job[w] \in Job /\ Fits("read items", job[w])
    BY <1>1, UnderWay
  <2>4. /\ j \in Job /\ j.import = i /\ j.loaded = job[w].loaded /\ j.todo = todo
        /\ j.made = job[w].made /\ j.failed = job[w].failed /\ j.found = job[w].found
    BY <1>2, <2>2, <2>3 DEF Job
  <2>5. GoesOn(w, "convert", j)
    BY <1>2, <1>4, <2>1, <2>2 DEF ReadItems
  <2>6. Fits("convert", j)
    <3>1. Elements(j.made) = {} /\ j.failed = {} /\ j.found = None
      BY <2>3, <2>4 DEF Fits, Elements
    <3>2. \A r \in Elements(j.todo) : Live(i, r)
      BY <2>1, <2>4, ToImportRows
    <3> QED
      BY <1>2, <1>4, <2>3, <2>4, <3>1, <3>2 DEF Fits
  <2>7. "convert" \in Steps \ {"commit upload"}
    BY DEF Steps
  <2> QED
    BY <1>1, <1>2, <2>4, <2>5, <2>6, <2>7, GoesOnBase
<1> QED
  BY <1>3, <1>4

LEMMA FlushMarkBase ==
  ASSUME Base, NEW w \in Workers, FlushMark(w)
  PROVE  Base' /\ Grows
<1>1. pc[w] = "convert" /\ UNCHANGED <<tables, failures>>
  BY DEF FlushMark
<1>2. job[w] \in Job /\ Fits("convert", job[w])
  BY <1>1, UnderWay
<1>3. PICK j : j = [job[w] EXCEPT !.row = 0]
  OBVIOUS
<1>4. /\ j \in Job /\ j.import = job[w].import /\ j.loaded = job[w].loaded
      /\ j.todo = job[w].todo /\ j.made = job[w].made /\ j.failed = job[w].failed
      /\ j.found = job[w].found /\ j.linked = job[w].linked
  BY <1>2, <1>3 DEF Job
<1>5. GoesOn(w, "convert", j)
  BY <1>3 DEF FlushMark
<1>6. failures' \in 0..MaxFailures
  BY <1>1 DEF Base, Typed
<1>7. /\ RowsOf(j) \subseteq RowsOf(job[w])
      /\ j.found # None /\ j.found.at # 0 =>
           /\ j.found.at \in SourceIds /\ j.found.row # None
           /\ j.found.at \in DOMAIN j.linked \/ sources[j.found.at] \in Source
  BY <1>2, <1>4 DEF RowsOf, Fits
<1> QED
  BY <1>1, <1>4, <1>5, <1>6, <1>7, ConvertsBase

\* The sources a transaction has written are sources.
LEMMA LinksType ==
  ASSUME NEW linked \in Links, NEW s \in DOMAIN linked
  PROVE  s \in SourceIds /\ linked[s] \in Source
BY DEF Links

LEMMA LinksAdd ==
  ASSUME NEW linked \in Links, NEW at \in SourceIds, NEW source \in Source
  PROVE  [s \in DOMAIN linked \cup {at} |-> IF s = at THEN source ELSE linked[s]] \in Links
<1>1. PICK S \in SUBSET SourceIds : linked \in [S -> Source]
  BY DEF Links
<1>2. PICK T \in SUBSET SourceIds : T = DOMAIN linked \cup {at}
  BY <1>1
<1>3. [s \in T |-> IF s = at THEN source ELSE linked[s]] \in [T -> Source]
  BY <1>1, <1>2
<1> QED
  BY <1>2, <1>3 DEF Links

LEMMA FindSourceBase ==
  ASSUME Base, NEW w \in Workers, FindSource(w)
  PROVE  Base' /\ Grows
<1>1. pc[w] = "convert" /\ UNCHANGED <<tables, failures>>
  BY DEF FindSource, Converting
<1>2. job[w] \in Job /\ Fits("convert", job[w])
  BY <1>1, UnderWay
<1>3. PICK linked \in Links : linked = job[w].linked
  BY <1>2 DEF Job
<1>4. PICK seen, hits :
        /\ seen = [s \in SourceIds |-> IF s \in DOMAIN linked THEN linked[s] ELSE sources[s]]
        /\ hits = {s \in SourceIds : seen[s] # None /\ Matches(seen[s], Signal(job[w]))}
  OBVIOUS
<1>5. PICK at \in IF hits = {} THEN {0} ELSE hits :
        GoesOn(w, "convert", [job[w] EXCEPT
          !.found = [at |-> at, row |-> IF at = 0 THEN None ELSE seen[at]]])
  BY <1>3, <1>4 DEF FindSource
<1>6. PICK row : row = IF at = 0 THEN None ELSE seen[at]
  OBVIOUS
<1>7. at \in SourceIds \cup {0} /\ 0 \notin SourceIds
  BY <1>4 DEF SourceIds
<1>8. at # 0 => /\ at \in SourceIds /\ seen[at] # None
                /\ at \in DOMAIN linked => seen[at] = linked[at]
                /\ at \notin DOMAIN linked => seen[at] = sources[at]
  BY <1>4, <1>7
<1>9. /\ at # 0 => at \in DOMAIN linked \/ sources[at] \in Source
      /\ row \in Source \cup {None} /\ (at # 0 => row # None)
  BY <1>3, <1>6, <1>8, LinksType DEF Base, Typed
<1>10. PICK found \in Found : found = [at |-> at, row |-> row]
  BY <1>7, <1>9 DEF Found
<1>11. found.at = at /\ found.row = row
  BY <1>10
<1>12. PICK j : j = [job[w] EXCEPT !.found = found]
  OBVIOUS
<1>13. /\ j \in Job /\ j.import = job[w].import /\ j.loaded = job[w].loaded
       /\ j.todo = job[w].todo /\ j.made = job[w].made /\ j.failed = job[w].failed
       /\ j.found = found /\ j.linked = linked
  BY <1>2, <1>3, <1>12 DEF Job
<1>14. GoesOn(w, "convert", j)
  BY <1>5, <1>6, <1>10, <1>12
<1>15. failures' \in 0..MaxFailures
  BY <1>1 DEF Base, Typed
<1>16. /\ RowsOf(j) \subseteq RowsOf(job[w])
       /\ j.found # None /\ j.found.at # 0 =>
            /\ j.found.at \in SourceIds /\ j.found.row # None
            /\ j.found.at \in DOMAIN j.linked \/ sources[j.found.at] \in Source
  BY <1>8, <1>9, <1>11, <1>13 DEF RowsOf
<1> QED
  BY <1>1, <1>13, <1>14, <1>15, <1>16, ConvertsBase

LEMMA HeadTail ==
  ASSUME NEW s \in Seq(Nat), s # << >>
  PROVE  /\ Head(s) \in Nat /\ Tail(s) \in Seq(Nat)
         /\ Elements(s) = {Head(s)} \cup Elements(Tail(s))
<1>1. PICK n \in Nat : n # 0 /\ DOMAIN s = 1..n /\ Len(s) = n
  BY LenProperties, EmptySeq
<1>2. Head(s) = s[1] /\ Head(s) \in Nat /\ Tail(s) \in Seq(Nat)
  BY HeadTailProperties
<1>3. PICK t \in Seq(Nat) : t = Tail(s)
  BY <1>2
<1>4. DOMAIN t = 1..(n - 1) /\ \A k \in 1..(n - 1) : t[k] = s[k + 1]
  BY <1>1, <1>3, HeadTailProperties
<1>5. \A k \in 1..n : k = 1 \/ (k - 1 \in 1..(n - 1) /\ s[k] = t[k - 1])
  BY <1>1, <1>4
<1>6. \A x \in Elements(s) : x = s[1] \/ x \in Elements(t)
  <2> SUFFICES ASSUME NEW k \in 1..n, k # 1
               PROVE  s[k] \in Elements(t)
    BY <1>1 DEF Elements
  <2>1. PICK l \in DOMAIN t : s[k] = t[l]
    BY <1>4, <1>5
  <2> QED
    BY <2>1 DEF Elements
<1>7. \A x \in Elements(t) : x \in Elements(s)
  <2>1. \A k \in 1..(n - 1) : k + 1 \in 1..n
    BY <1>1
  <2> QED
    BY <1>1, <1>4, <2>1 DEF Elements
<1>8. s[1] \in Elements(s)
  BY <1>1 DEF Elements
<1> QED
  BY <1>2, <1>3, <1>6, <1>7, <1>8

LEMMA AppendElements ==
  ASSUME NEW s \in Seq(Nat), NEW x \in Nat
  PROVE  Append(s, x) \in Seq(Nat) /\ Elements(Append(s, x)) = Elements(s) \cup {x}
<1>1. PICK n \in Nat : DOMAIN s = 1..n /\ Len(s) = n
  BY LenProperties
<1>2. PICK t \in Seq(Nat) : t = Append(s, x)
  BY AppendProperties
<1>3. DOMAIN t = 1..(n + 1) /\ t[n + 1] = x /\ \A k \in 1..n : t[k] = s[k]
  BY <1>1, <1>2
<1>4. \A k \in 1..(n + 1) : k = n + 1 \/ k \in 1..n
  BY <1>1
<1>5. \A y \in Elements(t) : y = x \/ y \in Elements(s)
  BY <1>1, <1>3, <1>4 DEF Elements
<1>6. \A y \in Elements(s) : y \in Elements(t)
  <2>1. \A k \in 1..n : k \in 1..(n + 1)
    BY <1>1
  <2> QED
    BY <1>1, <1>3, <2>1 DEF Elements
<1>7. x \in Elements(t)
  <2>1. n + 1 \in 1..(n + 1)
    BY <1>1
  <2> QED
    BY <1>3, <2>1 DEF Elements
<1> QED
  BY <1>2, <1>5, <1>6, <1>7

\* The source linked to a question is one.
LEMMA LinkedSourceType ==
  ASSUME NEW j, Signal(j) \in Discussions, NEW k \in Nat, NEW current, j.found \in Found,
         j.found.at # 0 => j.found.row # None /\ current \in Source
  PROVE  LinkedSource(j, k, current) \in Source
<1>1. PICK g \in Discussions : g = Signal(j)
  OBVIOUS
<1>2. CASE j.found.at = 0
  <2>1. LinkedSource(j, k, current) =
          [url |-> g.url, id |-> g.id, votes |-> g.votes, count |-> g.count,
           question |-> k, version |-> 0]
    BY <1>1, <1>2 DEF LinkedSource
  <2> QED
    BY <2>1 DEF Source
<1>3. CASE j.found.at # 0
  <2>1. PICK was \in Source : was = j.found.row
    BY <1>3 DEF Found
  <2>2. current \in Source
    BY <1>3
  <2>3. PICK votes, count, version :
          /\ votes = Written(g.votes, was.votes, current.votes)
          /\ count = Written(g.count, was.count, current.count)
          /\ version = IF was.votes # g.votes \/ was.count # g.count
                       THEN was.version + 1 ELSE current.version
    OBVIOUS
  <2>4. /\ votes \in {d.votes : d \in Discussions} /\ count \in {d.count : d \in Discussions}
        /\ version \in Nat
    <3>1. votes \in {g.votes, current.votes} /\ count \in {g.count, current.count}
      BY <2>3 DEF Written
    <3>2. was.version \in Nat /\ current.version \in Nat
      BY <2>2 DEF Source
    <3>3. current.votes \in {d.votes : d \in Discussions}
          /\ current.count \in {d.count : d \in Discussions}
      BY <2>2 DEF Source
    <3> QED
      BY <2>3, <3>1, <3>2, <3>3
  <2>5. LinkedSource(j, k, current) =
          [current EXCEPT !.question = k, !.votes = votes, !.count = count,
                          !.version = version]
    BY <1>1, <1>3, <2>1, <2>3 DEF LinkedSource
  <2> QED
    BY <2>2, <2>4, <2>5 DEF Source
<1> QED
  BY <1>2, <1>3

\* The row that a confirm converts next.
LEMMA NextRow ==
  ASSUME Base, NEW w \in Workers, Converting(w)
  PROVE  /\ job[w] \in Job /\ job[w].import \in ImportIds /\ Fits("convert", job[w])
         /\ job[w].todo \in Seq(Nat) /\ job[w].todo # << >>
         /\ Live(job[w].import, Head(job[w].todo))
         /\ Discussed(job[w]) => Signal(job[w]) \in Discussions
<1>1. pc[w] = "convert" /\ job[w].todo # << >>
  BY DEF Converting
<1>2. job[w] \in Job /\ Fits("convert", job[w])
  BY <1>1, UnderWay
<1>3. PICK i \in ImportIds, todo \in Seq(Nat) : i = job[w].import /\ todo = job[w].todo
  BY <1>1, <1>2, UnderWay DEF Job
<1>4. Head(todo) \in Elements(todo)
  BY <1>1, <1>3, HeadTail
<1>5. Live(i, Head(todo))
  BY <1>2, <1>3, <1>4 DEF Fits
<1>6. PICK rows \in Seq(Item) : rows = items[i]
  BY DEF Base, Typed
<1>7. rows[Head(todo)] \in Item
  BY <1>5, <1>6, ElementOfSeq, LenProperties DEF Live
<1>8. PICK c \in Canonicals : c = rows[Head(todo)].canonical
  BY <1>7 DEF Item
<1>9. Signal(job[w]) = c.community
  BY <1>3, <1>6, <1>8 DEF Signal
<1>10. Discussed(job[w]) => c.community \in Signals
  BY <1>9 DEF Discussed, Signals
<1> QED
  BY <1>1, <1>2, <1>3, <1>5, <1>9, <1>10 DEF Discussions

LEMMA LinkedType ==
  ASSUME Base, NEW w \in Workers, Converting(w),
         Discussed(job[w]) =>
           job[w].found # None /\ (job[w].found.at = 0 => FreshSources # {})
  PROVE  Linked(w) \in Links
<1>1. PICK j : j = job[w]
  OBVIOUS
<1>2. /\ j \in Job /\ Fits("convert", j)
      /\ Discussed(j) => Signal(j) \in Discussions
  BY <1>1, NextRow
<1>3. PICK linked \in Links : linked = j.linked
  BY <1>2 DEF Job
<1>4. CASE ~Discussed(j)
  BY <1>1, <1>3, <1>4 DEF Linked
<1>5. CASE Discussed(j)
  <2>1. j.found \in Found /\ j.found # None
    BY <1>1, <1>2, <1>5 DEF Job
  <2>2. PICK at : at = IF j.found.at = 0 THEN CHOOSE s \in FreshSources : TRUE ELSE j.found.at
    OBVIOUS
  <2>3. at \in SourceIds
    <3>1. CASE j.found.at = 0
      <4>1. \E s \in FreshSources : TRUE
        BY <1>1, <1>5, <3>1
      <4>2. at \in FreshSources
        BY <2>2, <3>1, <4>1
      <4> QED
        BY <4>2 DEF FreshSources
    <3>2. CASE j.found.at # 0
      BY <1>2, <2>1, <2>2, <3>2 DEF Fits
    <3> QED
      BY <3>1, <3>2
  <2>4. PICK current : current = IF at \in DOMAIN linked THEN linked[at] ELSE sources[at]
    OBVIOUS
  <2>5. at \in DOMAIN linked => linked[at] \in Source
    BY <1>3, LinksType
  <2>6. j.found.at # 0 => j.found.row # None /\ current \in Source
    BY <1>2, <1>3, <2>1, <2>2, <2>3, <2>4, <2>5 DEF Fits, Base, Typed
  <2>7. PICK k \in Nat : k = Len(j.made) + 1
    BY <1>2, LenProperties DEF Job
  <2>8. PICK source \in Source : source = LinkedSource(j, k, current)
    BY <1>2, <1>5, <2>1, <2>6, LinkedSourceType
  <2>9. Linked(w) = [s \in DOMAIN linked \cup {at} |-> IF s = at THEN source ELSE linked[s]]
    BY <1>1, <1>3, <1>5, <2>2, <2>4, <2>7, <2>8 DEF Linked
  <2> QED
    BY <1>3, <2>3, <2>8, <2>9, LinksAdd
<1> QED
  BY <1>4, <1>5

\* A confirm that has an open savepoint goes on with the next row.
LEMMA NextRowBase ==
  ASSUME Base, NEW w \in Workers, Converting(w), NEW j \in Job, GoesOn(w, "convert", j),
         UNCHANGED tables, failures' \in 0..MaxFailures,
         j.import = job[w].import, j.loaded = job[w].loaded, j.found = None,
         j.todo = Tail(job[w].todo),
         \/ j.made = Append(job[w].made, Head(job[w].todo)) /\ j.failed = job[w].failed
         \/ j.made = job[w].made /\ j.failed = job[w].failed \cup {Head(job[w].todo)}
  PROVE  Base' /\ Grows
<1>1. pc[w] = "convert"
  BY DEF Converting
<1>2. PICK todo \in Seq(Nat), made \in Seq(Nat) :
        todo = job[w].todo /\ made = job[w].made /\ todo # << >>
  BY NextRow DEF Job
<1>3. /\ Elements(todo) = {Head(todo)} \cup Elements(Tail(todo))
      /\ Elements(Append(made, Head(todo))) = Elements(made) \cup {Head(todo)}
  BY <1>2, HeadTail, AppendElements
<1>4. RowsOf(j) \subseteq RowsOf(job[w])
  BY <1>2, <1>3 DEF RowsOf
<1> QED
  BY <1>1, <1>4, ConvertsBase

LEMMA ConvertItemBase ==
  ASSUME Base, NEW w \in Workers, ConvertItem(w)
  PROVE  Base' /\ Grows
<1>1. /\ Converting(w) /\ UNCHANGED <<tables, failures>>
      /\ Discussed(job[w]) =>
           job[w].found # None /\ (job[w].found.at = 0 => FreshSources # {})
  BY DEF ConvertItem
<1>2. PICK linked \in Links : linked = Linked(w)
  BY <1>1, LinkedType
<1>3. PICK todo \in Seq(Nat), made \in Seq(Nat) : todo = job[w].todo /\ made = job[w].made
  BY <1>1, NextRow DEF Job
<1>4. PICK todo2 \in Seq(Nat), made2 \in Seq(Nat) :
        todo2 = Tail(todo) /\ made2 = Append(made, Head(todo))
  BY <1>1, <1>3, NextRow, HeadTail, AppendElements
<1>5. PICK j : j = [job[w] EXCEPT !.todo = todo2, !.made = made2,
                                  !.found = None, !.linked = linked]
  OBVIOUS
<1>6. /\ j \in Job /\ j.import = job[w].import /\ j.loaded = job[w].loaded
      /\ j.todo = todo2 /\ j.made = made2 /\ j.failed = job[w].failed /\ j.found = None
  BY <1>1, <1>5, NextRow DEF Job
<1>7. GoesOn(w, "convert", j)
  <2>1. job[w] \in Job
    BY <1>1, NextRow
  <2>2. [job[w] EXCEPT !.todo = Tail(@), !.made = Append(@, Head(job[w].todo)),
                       !.found = None, !.linked = Linked(w)] = j
    BY <1>2, <1>3, <1>4, <1>5, <2>1 DEF Job
  <2> QED
    BY <2>2 DEF ConvertItem
<1>8. failures' \in 0..MaxFailures
  BY <1>1 DEF Base, Typed
<1> QED
  BY <1>1, <1>3, <1>4, <1>6, <1>7, <1>8, NextRowBase DEF Base

LEMMA RollBackRowBase ==
  ASSUME Base, NEW w \in Workers, Converting(w), RollBackRow(w),
         UNCHANGED tables, failures' \in 0..MaxFailures
  PROVE  Base' /\ Grows
<1>1. PICK todo \in Seq(Nat), failed \in SUBSET Nat :
        todo = job[w].todo /\ failed = job[w].failed
  BY NextRow DEF Job
<1>2. PICK todo2 \in Seq(Nat), row \in Nat : todo2 = Tail(todo) /\ row = Head(todo)
  BY <1>1, NextRow, HeadTail
<1>3. PICK failed2 \in SUBSET Nat : failed2 = failed \cup {row}
  OBVIOUS
<1>4. PICK j : j = [job[w] EXCEPT !.todo = todo2, !.row = row, !.failed = failed2,
                                  !.found = None]
  OBVIOUS
<1>5. /\ j \in Job /\ j.import = job[w].import /\ j.loaded = job[w].loaded
      /\ j.todo = todo2 /\ j.made = job[w].made /\ j.failed = failed2 /\ j.found = None
  BY <1>4, NextRow DEF Job
<1>6. GoesOn(w, "convert", j)
  <2>1. job[w] \in Job
    BY NextRow
  <2>2. [job[w] EXCEPT !.todo = Tail(@), !.row = Head(job[w].todo),
           !.failed = @ \cup {Head(job[w].todo)}, !.found = None] = j
    BY <1>1, <1>2, <1>3, <1>4, <2>1 DEF Job
  <2> QED
    BY <2>2 DEF RollBackRow
<1> QED
  BY <1>1, <1>2, <1>3, <1>5, <1>6, NextRowBase

LEMMA FailItemBase ==
  ASSUME Base, NEW w \in Workers, FailItem(w)
  PROVE  Base' /\ Grows
<1>1. failures' \in 0..MaxFailures
  BY ImportBoundsAssumption DEF FailItem, Base, Typed
<1> QED
  BY <1>1, RollBackRowBase DEF FailItem

LEMMA BreakDeadlockBase ==
  ASSUME Base, NEW w \in Workers, BreakDeadlock(w)
  PROVE  Base' /\ Grows
<1>1. UNCHANGED <<tables, failures>> /\ failures' \in 0..MaxFailures
  BY DEF BreakDeadlock, Base, Typed
<1>2. CASE Converting(w)
  BY <1>1, <1>2, RollBackRowBase DEF BreakDeadlock
<1>3. CASE ~Converting(w)
  BY <1>1, <1>3, RepliesBase DEF BreakDeadlock
<1> QED
  BY <1>2, <1>3

\* A question that can be answered.
HasAnswer(q) ==
  /\ Cardinality({l \in Labels : q.options[l] # None}) >= 2
  /\ TRUE \in Elements(q.options)

\* What a confirm makes of a row that passed validation.
LEMMA QuestionMade ==
  ASSUME NEW c \in Canonicals, c.verdict = "ok", NEW i \in ImportIds, NEW r \in Nat
  PROVE  /\ QuestionOf(c, <<i, r>>) \in Question
         /\ QuestionOf(c, <<i, r>>).from = <<i, r>>
         /\ QuestionOf(c, <<i, r>>).hash = c.hash
         /\ HasAnswer(QuestionOf(c, <<i, r>>))
<1>1. Answerable(c) /\ c.question_type \in Types
  BY RowsChecked
<1>2. PICK options : options = [l \in Labels |-> IF c.options[l] = None THEN None
                                                 ELSE l \in c.correct_answer]
  OBVIOUS
<1>3. \A l \in Labels :
        /\ c.options[l] = None => options[l] = None
        /\ c.options[l] # None /\ l \in c.correct_answer => options[l] = TRUE
        /\ c.options[l] # None /\ l \notin c.correct_answer => options[l] = FALSE
  <2> TAKE l \in Labels
  <2>1. options[l] = IF c.options[l] = None THEN None ELSE l \in c.correct_answer
    BY <1>2, Zenon
  <2>2. c.options[l] = None => options[l] = None
    BY <2>1, Zenon
  <2>3. c.options[l] # None => options[l] = (l \in c.correct_answer)
    BY <2>1, Zenon
  <2>4. ASSUME l \in c.correct_answer
        PROVE  (l \in c.correct_answer) = TRUE
    BY <2>4, Zenon
  <2>5. ASSUME l \notin c.correct_answer
        PROVE  (l \in c.correct_answer) = FALSE
    BY <2>5
  <2> QED
    BY <2>2, <2>3, <2>4, <2>5, Zenon
<1>4. DOMAIN options = Labels
  BY <1>2
<1>5. TRUE # None /\ FALSE # None
  BY NoneAssumption
<1>6. options \in [Labels -> BOOLEAN \cup {None}]
  <2>1. \A l \in Labels : options[l] \in BOOLEAN \cup {None}
    BY <1>3
  <2> QED
    BY <1>2, <2>1, Zenon
<1>7. {l \in Labels : options[l] # None} = {l \in Labels : c.options[l] # None}
  <2>1. \A l \in Labels : options[l] # None <=> c.options[l] # None
    BY <1>3, <1>5
  <2> QED
    BY <2>1
<1>8. PICK from \in ImportIds \X Nat : from = <<i, r>>
  OBVIOUS
<1>9. PICK hash \in {d.hash : d \in Canonicals}, type \in Types :
        hash = c.hash /\ type = c.question_type
  BY <1>1
<1>10. QuestionOf(c, <<i, r>>) =
         [hash |-> hash, question_type |-> type, from |-> from, options |-> options]
  BY <1>2, <1>8, <1>9 DEF QuestionOf
<1>11. PICK q : q = QuestionOf(c, <<i, r>>)
  OBVIOUS
<1>12. q.options = options /\ q.from = from /\ q.hash = hash
  BY <1>10, <1>11
<1>13. q \in Question
  BY <1>6, <1>8, <1>9, <1>10, <1>11 DEF Question
<1>14. TRUE \in Elements(options)
  <2>1. PICK l \in Labels : l \in c.correct_answer /\ c.options[l] # None
    BY <1>1 DEF Answerable
  <2> QED
    BY <1>3, <1>4, <2>1 DEF Elements
<1>15. Cardinality({l \in Labels : options[l] # None}) >= 2
  BY <1>1, <1>7 DEF Answerable
<1> QED
  BY <1>8, <1>9, <1>11, <1>12, <1>13, <1>14, <1>15 DEF HasAnswer

\* What a confirm publishes: the questions of the rows it has made, with the
\* rows linked to them, the rows that failed, and the status of its import.
Publishes(w, i, made, new, rows) ==
  /\ i = job[w].import /\ made = job[w].made
  /\ items[i] # << >>
  /\ new \in Seq(Question) /\ DOMAIN new = DOMAIN made /\ questions' = questions \o new
  /\ \A k \in DOMAIN made :
       /\ Live(i, made[k]) /\ made[k] \in Nat
       /\ new[k].from = <<i, made[k]>>
       /\ new[k].hash = items[i][made[k]].canonical.hash
       /\ HasAnswer(new[k])
  /\ Rewritten(i, rows)
  /\ \A r \in DOMAIN rows :
       \/ \E k \in DOMAIN made : /\ made[k] = r
                                 /\ rows[r].status = "imported"
                                 /\ rows[r].question = Len(questions) + k
       \/ /\ r \notin Elements(made)
          /\ rows[r].question = items[i][r].question
          /\ rows[r] = items[i][r] \/ (r \in job[w].failed /\ rows[r].status = "error")
  /\ imports' \in [ImportIds -> ImportStatus] /\ imports'[i] # "none"
  /\ imports'[i] \in Confirmed \cup {imports[i]}
  /\ \A k \in ImportIds \ {i} : imports'[k] = imports[k]

\* The rows as the confirm leaves them.
Confirming(i, made, failed) ==
  [r \in DOMAIN items[i] |->
     IF \E k \in DOMAIN made : made[k] = r
     THEN [items[i][r] EXCEPT !.status = "imported",
             !.question = IdOf(CHOOSE k \in DOMAIN made : made[k] = r)]
     ELSE IF r \in failed THEN [items[i][r] EXCEPT !.status = "error"]
     ELSE items[i][r]]

LEMMA RowsPublished ==
  ASSUME Base, NEW i \in ImportIds, NEW made \in Seq(Nat), NEW failed, NEW rows,
         \A r \in Elements(made) \cup failed : Live(i, r),
         rows = Confirming(i, made, failed)
  PROVE  /\ rows \in Seq(Item) /\ DOMAIN rows = DOMAIN items[i]
         /\ \A r \in DOMAIN rows :
              \/ rows[r] = items[i][r]
              \/ /\ Live(i, r) /\ rows[r].status # "duplicate"
                 /\ rows[r].canonical = items[i][r].canonical
         /\ \A r \in DOMAIN rows :
              \/ \E k \in DOMAIN made : /\ made[k] = r
                                        /\ rows[r].status = "imported"
                                        /\ rows[r].question = Len(questions) + k
              \/ /\ r \notin Elements(made)
                 /\ rows[r].question = items[i][r].question
                 /\ rows[r] = items[i][r] \/ (r \in failed /\ rows[r].status = "error")
<1>1. PICK old \in Seq(Item) : old = items[i]
  BY DEF Base, Typed
<1>2. PICK n \in Nat : DOMAIN old = 1..n
  BY LenProperties
<1>3. ASSUME NEW r \in 1..n
      PROVE  /\ rows[r] \in Item
             /\ \/ rows[r] = old[r]
                \/ /\ r \in Elements(made) \cup failed /\ rows[r].status # "duplicate"
                   /\ rows[r].canonical = old[r].canonical
             /\ \/ \E k \in DOMAIN made : /\ made[k] = r
                                          /\ rows[r].status = "imported"
                                          /\ rows[r].question = Len(questions) + k
                \/ /\ r \notin Elements(made)
                   /\ rows[r].question = old[r].question
                   /\ rows[r] = old[r] \/ (r \in failed /\ rows[r].status = "error")
  <2>1. PICK item \in Item : item = old[r]
    BY <1>2, ElementOfSeq, LenProperties
  <2>2. CASE \E k \in DOMAIN made : made[k] = r
    <3>1. PICK k : k = CHOOSE l \in DOMAIN made : made[l] = r
      OBVIOUS
    <3>2. k \in DOMAIN made /\ made[k] = r
      BY <2>2, <3>1
    <3>3. IdOf(k) \in Nat /\ IdOf(k) = Len(questions) + k
      <4>1. questions \in Seq(Question)
        BY DEF Base, Typed
      <4>2. Len(questions) \in Nat
        BY <4>1, LenProperties
      <4>3. k \in Nat
        BY <3>2, LenProperties
      <4> QED
        BY <4>2, <4>3 DEF IdOf
    <3>4. PICK id \in Nat : id = IdOf(k) /\ id = Len(questions) + k
      BY <3>3
    <3>5. rows[r] = [item EXCEPT !.status = "imported", !.question = id]
      BY <1>1, <1>2, <2>1, <2>2, <3>1, <3>4 DEF Confirming
    <3>6. /\ rows[r] \in Item /\ rows[r].status = "imported" /\ rows[r].question = id
          /\ rows[r].canonical = item.canonical
      BY <2>1, <3>4, <3>5 DEF Item, ItemStatus
    <3>7. r \in Elements(made)
      BY <3>2 DEF Elements
    <3> QED
      BY <2>1, <3>2, <3>4, <3>6, <3>7
  <2>3. CASE r \notin Elements(made) /\ r \in failed
    <3>1. rows[r] = [item EXCEPT !.status = "error"]
      BY <1>1, <1>2, <2>1, <2>3 DEF Elements, Confirming
    <3>2. /\ rows[r] \in Item /\ rows[r].status = "error"
          /\ rows[r].canonical = item.canonical /\ rows[r].question = item.question
      BY <3>1 DEF Item, ItemStatus
    <3> QED
      BY <2>1, <2>3, <3>2
  <2>4. CASE r \notin Elements(made) /\ r \notin failed
    <3>1. rows[r] = item
      BY <1>1, <1>2, <2>1, <2>4 DEF Elements, Confirming
    <3> QED
      BY <2>1, <2>4, <3>1
  <2> QED
    BY <2>2, <2>3, <2>4 DEF Elements
<1>4. DOMAIN rows = 1..n
  BY <1>1, <1>2 DEF Confirming
<1>5. rows \in [1..n -> Item]
  <2>1. rows = [r \in 1..n |-> rows[r]]
    BY <1>1, <1>2 DEF Confirming
  <2> QED
    BY <1>3, <2>1
<1>6. rows \in Seq(Item)
  BY <1>2, <1>5
<1> QED
  BY <1>1, <1>2, <1>3, <1>4, <1>6

LEMMA CommitConfirmDoes ==
  ASSUME Base, NEW w \in Workers, CommitConfirm(w)
  PROVE  \E i \in ImportIds, made \in Seq(Nat), new \in Seq(Question), rows \in Seq(Item) :
            Publishes(w, i, made, new, rows)
<1>1. pc[w] = "convert"
  BY DEF CommitConfirm
<1>2. PICK i \in ImportIds, made \in Seq(Nat), failed \in SUBSET Nat,
           loaded \in ImportStatus \cup ItemStatus :
        /\ i = job[w].import /\ made = job[w].made
        /\ failed = job[w].failed /\ loaded = job[w].loaded
  BY <1>1, UnderWay DEF Job
<1>3. /\ items[i] # << >> /\ imports[i] # "none"
      /\ \A r \in Elements(made) \cup failed : Live(i, r)
  BY <1>1, <1>2, UnderWay DEF Fits
<1>4. PICK rows : rows = Confirming(i, made, failed)
  OBVIOUS
<1>5. items' = [items EXCEPT ![i] = rows]
  BY <1>2, <1>4 DEF CommitConfirm, Confirming
<1>6. PICK new : new = [k \in DOMAIN made |->
                          QuestionOf(items[i][made[k]].canonical, <<i, made[k]>>)]
  OBVIOUS
<1>7. questions' = questions \o new
  BY <1>2, <1>6 DEF CommitConfirm
<1>8. PICK n \in Nat : DOMAIN made = 1..n
  BY LenProperties
<1>9. ASSUME NEW k \in 1..n
      PROVE  /\ Live(i, made[k]) /\ made[k] \in Nat
             /\ new[k] \in Question
             /\ new[k].from = <<i, made[k]>>
             /\ new[k].hash = items[i][made[k]].canonical.hash
             /\ HasAnswer(new[k])
  <2>1. PICK r \in Nat : r = made[k]
    BY <1>8, ElementOfSeq, LenProperties
  <2>2. r \in Elements(made)
    BY <1>8, <2>1 DEF Elements
  <2>3. Live(i, r)
    BY <1>3, <2>2
  <2>4. PICK old \in Seq(Item) : old = items[i]
    BY DEF Base, Typed
  <2>5. old[r] \in Item
    BY <2>3, <2>4, ElementOfSeq, LenProperties DEF Live
  <2>6. PICK c \in Canonicals : c = old[r].canonical
    BY <2>5 DEF Item
  <2>7. c.verdict = "ok"
    BY <2>3, <2>4, <2>6 DEF Live
  <2>8. new[k] = QuestionOf(c, <<i, r>>)
    BY <1>6, <1>8, <2>1, <2>4, <2>6
  <2> QED
    BY <2>1, <2>3, <2>4, <2>6, <2>7, <2>8, QuestionMade
<1>10. DOMAIN new = DOMAIN made /\ new \in Seq(Question)
  <2>1. DOMAIN new = 1..n
    BY <1>6, <1>8
  <2>2. new = [k \in 1..n |-> new[k]]
    BY <1>6, <1>8
  <2>3. new \in [1..n -> Question]
    BY <1>9, <2>2
  <2> QED
    BY <1>8, <2>1, <2>3
<1>11. PICK status : status = Written(IF failed = {} THEN "ready_to_publish"
                                      ELSE "partially_verified", loaded, imports[i])
  OBVIOUS
<1>12. status # "none" /\ status \in Confirmed \cup {imports[i]}
  BY <1>3, <1>11 DEF Written, Confirmed
<1>13. imports' = [imports EXCEPT ![i] = status]
  BY <1>2, <1>11 DEF CommitConfirm
<1>14. /\ imports' \in [ImportIds -> ImportStatus] /\ imports'[i] # "none"
       /\ imports'[i] \in Confirmed \cup {imports[i]}
       /\ \A k \in ImportIds \ {i} : imports'[k] = imports[k]
  <2>1. imports \in [ImportIds -> ImportStatus] /\ status \in ImportStatus
    BY <1>12 DEF Base, Typed, ImportStatus
  <2> QED
    BY <1>12, <1>13, <2>1
<1>15. Rewritten(i, rows)
  BY <1>2, <1>3, <1>4, <1>5, RowsPublished DEF Rewritten
<1>16. \A r \in DOMAIN rows :
         \/ \E k \in DOMAIN made : /\ made[k] = r
                                   /\ rows[r].status = "imported"
                                   /\ rows[r].question = Len(questions) + k
         \/ /\ r \notin Elements(made)
            /\ rows[r].question = items[i][r].question
            /\ rows[r] = items[i][r] \/ (r \in failed /\ rows[r].status = "error")
  BY <1>3, <1>4, RowsPublished
<1>17. Publishes(w, i, made, new, rows)
  BY <1>2, <1>3, <1>7, <1>8, <1>9, <1>10, <1>14, <1>15, <1>16 DEF Publishes
<1>18. new \in Seq(Question) /\ rows \in Seq(Item)
  BY <1>10, <1>15 DEF Rewritten
<1> QED
  BY <1>17, <1>18

\* The sources a confirm has written are published, with the id of the question
\* for its place; all other sources stay.
LEMMA SourcesPublished ==
  ASSUME Base, NEW w \in Workers, CommitConfirm(w)
  PROVE  /\ sources' \in [SourceIds -> Source \cup {None}]
         /\ \A s \in SourceIds : sources[s] \in Source => sources'[s] \in Source
         /\ \A s \in DOMAIN job[w].linked :
              /\ s \in SourceIds /\ sources'[s] \in Source
              /\ sources'[s].question = Len(questions) + job[w].linked[s].question
              /\ sources'[s].url = job[w].linked[s].url
              /\ sources'[s].id = job[w].linked[s].id
         /\ \A s \in SourceIds \ DOMAIN job[w].linked : sources'[s] = sources[s]
<1>1. pc[w] = "convert"
  BY DEF CommitConfirm
<1>2. PICK linked \in Links : linked = job[w].linked
  BY <1>1, UnderWay DEF Job
<1>3. sources' = [s \in SourceIds |-> IF s \in DOMAIN linked
                    THEN [linked[s] EXCEPT !.question = IdOf(linked[s].question)]
                    ELSE sources[s]]
  BY <1>2 DEF CommitConfirm
<1>4. PICK n \in Nat : n = Len(questions)
  <2>1. questions \in Seq(Question)
    BY DEF Base, Typed
  <2> QED
    BY <2>1, LenProperties
<1>5. ASSUME NEW s \in DOMAIN linked
      PROVE  /\ s \in SourceIds /\ sources'[s] \in Source
             /\ sources'[s].question = n + linked[s].question
             /\ sources'[s].url = linked[s].url /\ sources'[s].id = linked[s].id
  <2>1. PICK source \in Source : source = linked[s] /\ s \in SourceIds
    BY LinksType
  <2>2. source.question \in Nat
    BY <2>1 DEF Source
  <2>3. PICK id \in Nat : id = n + source.question
    BY <2>2
  <2>4. id = IdOf(source.question)
    BY <1>4, <2>3 DEF IdOf
  <2>5. sources'[s] = [source EXCEPT !.question = id]
    BY <1>3, <2>1, <2>4
  <2>6. /\ sources'[s] \in Source /\ sources'[s].question = id
        /\ sources'[s].url = source.url /\ sources'[s].id = source.id
    BY <2>1, <2>3, <2>5 DEF Source
  <2> QED
    BY <2>1, <2>3, <2>6
<1>6. \A s \in SourceIds \ DOMAIN linked :
        sources'[s] = sources[s] /\ sources[s] \in Source \cup {None}
  BY <1>3 DEF Base, Typed
<1>7. sources' \in [SourceIds -> Source \cup {None}]
  <2>1. sources' = [s \in SourceIds |-> sources'[s]]
    BY <1>3
  <2>2. \A s \in SourceIds : sources'[s] \in Source \cup {None}
    BY <1>5, <1>6
  <2> QED
    BY <2>1, <2>2
<1> QED
  BY <1>2, <1>4, <1>5, <1>6, <1>7

LEMMA CommitConfirmBase ==
  ASSUME Base, NEW w \in Workers, CommitConfirm(w)
  PROVE  Base' /\ Grows
<1>1. pc[w] = "convert" /\ Replies(w) /\ UNCHANGED <<disk, failures>>
  BY DEF CommitConfirm
<1>2. PICK i \in ImportIds, made \in Seq(Nat), new \in Seq(Question), rows \in Seq(Item) :
        Publishes(w, i, made, new, rows)
  BY CommitConfirmDoes
<1>3. /\ i = job[w].import /\ items[i] # << >> /\ Rewritten(i, rows)
      /\ new \in Seq(Question) /\ questions' = questions \o new
      /\ imports' \in [ImportIds -> ImportStatus] /\ imports'[i] # "none"
      /\ \A k \in ImportIds \ {i} : imports'[k] = imports[k]
  BY <1>2 DEF Publishes
<1>5. questions' \in Seq(Question)
  <2>1. questions \in Seq(Question)
    BY DEF Base, Typed
  <2> QED
    BY <1>3, <2>1, ConcatProperties
<1>6. sources' \in [SourceIds -> Source \cup {None}]
  BY SourcesPublished
<1>7. \A s \in SourceIds : sources[s] \in Source => sources'[s] \in Source
  BY SourcesPublished
<1>8. items' \in [ImportIds -> Seq(Item)] /\ Grows /\ TablesFit'
  BY <1>1, <1>3, <1>7, RewritingFits
<1>9. /\ disk' \in [ImportIds -> Files \cup {None}] /\ failures' \in 0..MaxFailures
  BY <1>1 DEF Base, Typed
<1> QED
  BY <1>1, <1>3, <1>5, <1>6, <1>8, <1>9, CommitBase

-----------------------------------------------------------------------------

LEMMA InitBase == Init => Base
<1> SUFFICES ASSUME Init PROVE Base
  OBVIOUS
<1>1. PICK b \in ExistingBanks :
        /\ questions = b.questions
        /\ sources = [s \in SourceIds |-> IF s \in DOMAIN b.sources THEN b.sources[s]
                                                                    ELSE None]
  BY DEF Init
<1>2. questions \in Seq(Question)
  <2>1. PICK S : S = Elements(b.questions)
    OBVIOUS
  <2>2. S \subseteq Question
    BY <2>1 DEF Question
  <2>3. questions \in Seq(S)
    BY <1>1, <2>1, BanksAssumption
  <2> QED
    BY <2>2, <2>3, SeqMonotonic
<1>3. sources \in [SourceIds -> Source \cup {None}]
  <2>1. \A s \in SourceIds : sources[s] \in Source \cup {None}
    BY <1>1, BanksAssumption
  <2> QED
    BY <1>1, <2>1
<1>4. /\ disk = [i \in ImportIds |-> None] /\ imports = [i \in ImportIds |-> "none"]
      /\ items = [i \in ImportIds |-> << >>] /\ failures = 0
      /\ pc = [w \in Workers |-> "idle"] /\ job = [w \in Workers |-> NoJob]
  BY DEF Init
<1>5. << >> \in Seq(Item)
  BY EmptySeq
<1>6. Typed
  <2>1. items \in [ImportIds -> Seq(Item)]
    BY <1>4, <1>5
  <2>2. job \in [Workers -> Job]
    BY <1>4, NoJobType
  <2>3. failures \in 0..MaxFailures
    BY <1>4, ImportBoundsAssumption
  <2>4. disk \in [ImportIds -> Files \cup {None}] /\ imports \in [ImportIds -> ImportStatus]
        /\ pc \in [Workers -> Steps]
    BY <1>4 DEF ImportStatus, Steps
  <2> QED
    BY <1>2, <1>3, <2>1, <2>2, <2>3, <2>4 DEF Typed
<1>7. TablesFit
  <2> SUFFICES ASSUME NEW i \in ImportIds
               PROVE  /\ imports[i] = "none" /\ items[i] = << >>
                      /\ DOMAIN items[i] = {}
    BY DEF TablesFit, Confirmed
  <2> QED
    BY <1>4
<1>8. UploadsAlone /\ \A w \in Workers : Fits(pc[w], job[w])
  BY <1>4 DEF UploadsAlone, Fits
<1> QED
  BY <1>6, <1>7, <1>8 DEF Base

\* A request on an import.
LEMMA RequestBase ==
  ASSUME Base, NEW w \in Workers, Request(w)
  PROVE  Base' /\ Grows
<1>1. PICK i \in ImportIds :
        \/ \E f \in Files : Upload(w, i, f)
        \/ \E m \in Mappings : SaveMapping(w, i, m)
        \/ \E r \in DOMAIN items[i] : ToggleRow(w, i, r)
        \/ Confirm(w, i)
  BY DEF Request
<1>2. CASE \E f \in Files : Upload(w, i, f)
  BY <1>2, UploadBase
<1>3. CASE \E m \in Mappings : SaveMapping(w, i, m)
  BY <1>3, SaveMappingBase
<1>4. CASE \E r \in DOMAIN items[i] : ToggleRow(w, i, r)
  BY <1>4, ToggleRowBase
<1>5. CASE Confirm(w, i)
  BY <1>5, ConfirmBase
<1> QED
  BY <1>1, <1>2, <1>3, <1>4, <1>5

LEMMA ServeBase ==
  ASSUME Base, NEW w \in Workers, Serve(w)
  PROVE  Base' /\ Grows
<1>1. CASE CommitUpload(w)
  BY <1>1, CommitUploadBase
<1>2. CASE ReadHashes(w)
  BY <1>2, ReadHashesBase
<1>3. CASE StageItems(w)
  BY <1>3, StageItemsBase
<1>4. CASE CommitToggle(w)
  BY <1>4, CommitToggleBase
<1>5. CASE ReadItems(w)
  BY <1>5, ReadItemsBase
<1>6. CASE FlushMark(w)
  BY <1>6, FlushMarkBase
<1>7. CASE FindSource(w)
  BY <1>7, FindSourceBase
<1>8. CASE ConvertItem(w)
  BY <1>8, ConvertItemBase
<1>9. CASE FailItem(w)
  BY <1>9, FailItemBase
<1>10. CASE BreakDeadlock(w)
  BY <1>10, BreakDeadlockBase
<1>11. CASE CommitConfirm(w)
  BY <1>11, CommitConfirmBase
<1> QED
  BY <1>1, <1>2, <1>3, <1>4, <1>5, <1>6, <1>7, <1>8, <1>9, <1>10, <1>11 DEF Serve

LEMMA BaseStep ==
  ASSUME Base, [Next]_vars
  PROVE  Base' /\ Grows
<1>1. CASE UNCHANGED vars
  <2>1. UNCHANGED <<disk, imports, items, questions, sources, pc, job, failures>>
    BY <1>1 DEF vars
  <2>2. Grows
    BY <2>1 DEF Grows
  <2>3. Typed'
    BY <2>1 DEF Base, Typed
  <2>4. TablesFit' /\ UploadsAlone'
    BY <2>1 DEF Base, TablesFit, UploadsAlone, Live
  <2>5. \A w \in Workers : Fits(pc[w], job[w])'
    BY <2>1 DEF Base, Fits, Live
  <2> QED
    BY <2>2, <2>3, <2>4, <2>5 DEF Base
<1>2. CASE \E w \in Workers : Request(w) \/ Serve(w) \/ Fail(w)
  BY <1>2, RequestBase, ServeBase, FailBase
<1> QED
  BY <1>1, <1>2 DEF Next

LEMMA BaseInductive == Spec => []Base
<1>1. Base /\ [Next]_vars => Base'
  BY BaseStep
<1> QED
  BY <1>1, InitBase, PTL DEF Spec

\* Import rows, items, questions and sources keep their types, in the tables as
\* in the session of every request, whatever is uploaded, mapped and confirmed.
THEOREM TypeCorrect == Spec => []TypeOK
<1>1. Base => TypeOK
  <2> SUFFICES ASSUME Base PROVE TypeOK
    OBVIOUS
  <2>1. \A w \in Workers :
          /\ job[w].import \in ImportIds \cup {None}
          /\ job[w].columns \in ColumnSets
          /\ job[w].loaded \in ImportStatus \cup ItemStatus
          /\ job[w].todo \in Seq(Nat) /\ job[w].made \in Seq(Nat)
          /\ {job[w].row} \cup job[w].failed \subseteq Nat
          /\ \A s \in DOMAIN job[w].linked : s \in SourceIds /\ job[w].linked[s] \in Source
    <3> TAKE w \in Workers
    <3>1. PICK j \in Job : j = job[w]
      BY DEF Base, Typed
    <3>2. \A s \in DOMAIN j.linked : s \in SourceIds /\ j.linked[s] \in Source
      BY LinksType DEF Job
    <3> QED
      BY <3>1, <3>2 DEF Job
  <2> QED
    BY <2>1 DEF Base, Typed, TypeOK
<1> QED
  BY <1>1, BaseInductive, PTL

\* Every import row has its file, also when uploads are cut off between the
\* write of the file and the commit of the row.
THEOREM FilesKept == Spec => []FileKept
<1>1. Base => FileKept
  BY DEF Base, TablesFit, FileKept
<1> QED
  BY <1>1, BaseInductive, PTL

\* The rows of an import are staged once: mappings may be posted again at any time,
\* also one that picks no column, and while a confirm is under way.
THEOREM StagedOnce == Spec => NeverRestaged
<1>1. Base /\ [Next]_vars =>
        [\A i \in ImportIds : items[i] # << >> =>
           /\ DOMAIN items'[i] = DOMAIN items[i]
           /\ \A r \in DOMAIN items[i] :
                items'[i][r].canonical = items[i][r].canonical]_vars
  BY BaseStep DEF Grows
<1> QED
  BY <1>1, BaseInductive, PTL DEF Spec, NeverRestaged

=============================================================================
