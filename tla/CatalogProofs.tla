--------------------------- MODULE CatalogProofs ---------------------------
(***************************************************************************)
(* For every set of ids, workers and slugs: the catalog is well typed, no  *)
(* row of it is ever an orphan, what is deleted stays deleted, and no slug *)
(* is ever used twice under one parent.                                    *)
(*                                                                         *)
(* NoOrphans is not inductive: what a request has flushed, and will commit *)
(* without looking again, must be in order as well.  Carries says what.    *)
(* The last two rest on what is in flight, too.  An id that is about to be *)
(* inserted has never been heard of (Heralded); the keys that flushed      *)
(* inserts and updates are about to enter are used by no stored row and    *)
(* claimed by nobody else (Claimed).                                       *)
(***************************************************************************)
EXTENDS Catalog, TLAPS

Job == [row : Ids \cup {None}, loaded : AnyRow \cup {None}, slug : Slugs \cup {None}]

\* What a worker at a step relies on: its parent is there, the row it updates
\* is there, and it deletes anything but exams.
Carries(step, j) ==
  /\ step = "commit create" =>
       /\ IsRow(j.row, j.loaded)
       /\ j.loaded.parent # None => rows[j.loaded.parent] # None
  /\ step \in {"flush update", "commit update"} => j.row \in Ids /\ j.slug \in Slugs
  /\ step = "commit update" => rows[j.row] # None
  /\ step \in {"publish", "unpublish", "soft delete"} =>
       j.row \in Exams /\ rows[j.row] # None
  /\ step = "delete" => j.row \in Ids \ Exams

IInv == TypeOK /\ NoOrphans /\ \A w \in Workers : Carries(pc[w], job[w])

-----------------------------------------------------------------------------
(* The tables                                                               *)

\* The tables are apart, and None is in none of them.
LEMMA Apart ==
  /\ None \notin Ids
  /\ Providers \cap ProductVersions = {} /\ Providers \cap Courses = {}
  /\ Providers \cap Exams = {} /\ Providers \cap Topics = {}
  /\ ProductVersions \cap Courses = {} /\ ProductVersions \cap Exams = {}
  /\ ProductVersions \cap Topics = {} /\ Courses \cap Exams = {}
  /\ Courses \cap Topics = {} /\ Exams \cap Topics = {}
<1> DEFINE T == <<Providers, ProductVersions, Courses, Exams, Topics>>
<1>1. \A i, j \in 1 .. 5 : None \notin T[i] /\ (i # j => T[i] \cap T[j] = {})
  BY IdsAssumption
<1>2. /\ T[1] = Providers /\ T[2] = ProductVersions /\ T[3] = Courses
      /\ T[4] = Exams /\ T[5] = Topics
  OBVIOUS
<1> HIDE DEF T
<1>3. /\ T[1] \cap T[2] = {} /\ T[1] \cap T[3] = {} /\ T[1] \cap T[4] = {}
      /\ T[1] \cap T[5] = {} /\ T[2] \cap T[3] = {} /\ T[2] \cap T[4] = {}
      /\ T[2] \cap T[5] = {} /\ T[3] \cap T[4] = {} /\ T[3] \cap T[5] = {}
      /\ T[4] \cap T[5] = {}
  BY <1>1
<1>4. /\ None \notin T[1] /\ None \notin T[2] /\ None \notin T[3]
      /\ None \notin T[4] /\ None \notin T[5]
  BY <1>1
<1> QED BY <1>2, <1>3, <1>4 DEF Ids, Tables

\* An id is of one of the tables.
LEMMA OfATable ==
  Ids = Providers \cup ProductVersions \cup Courses \cup Exams \cup Topics
BY DEF Ids, Tables

\* A row that is stored is a row of its table.
LEMMA StoredRow ==
  ASSUME TypeOK, NEW r \in Ids, rows[r] # None
  PROVE  IsRow(r, rows[r]) /\ rows[r] \in AnyRow
BY OfATable DEF TypeOK, Stored, IsRow, AnyRow

\* Rows of the right tables are all that TypeOK asks of the stored ones.
LEMMA AllStored ==
  ASSUME \A r \in Ids : rows'[r] = None \/ IsRow(r, rows'[r])
  PROVE  /\ Stored(Providers, Provider)' /\ Stored(ProductVersions, ProductVersion)'
         /\ Stored(Courses, Course)' /\ Stored(Exams, Exam)' /\ Stored(Topics, Topic)'
BY OfATable, Apart DEF Stored, IsRow

\* A row is not None, hangs on None or an id, and keeps its type when its slug,
\* or the flag of an exam, is set.
LEMMA RowSet ==
  ASSUME NEW r, NEW x, IsRow(r, x)
  PROVE  /\ r \in Ids /\ x \in AnyRow /\ x # None
         /\ x.parent \in Ids \cup {None} /\ x.slug \in Slugs
         /\ \A s \in Slugs : /\ IsRow(r, [x EXCEPT !.slug = s])
                             /\ [x EXCEPT !.slug = s].parent = x.parent
         /\ r \in Exams => \A b \in BOOLEAN :
              /\ IsRow(r, [x EXCEPT !.published = b])
              /\ [x EXCEPT !.published = b].parent = x.parent
              /\ IsRow(r, [x EXCEPT !.deleted = b])
              /\ [x EXCEPT !.deleted = b].parent = x.parent
<1>1. r \in Ids /\ x \in AnyRow
  BY OfATable DEF IsRow, AnyRow
<1>2. x # None
  BY <1>1, SeedsAssumption
<1>3. x.parent \in Ids \cup {None} /\ x.slug \in Slugs
  BY OfATable DEF IsRow, Row, Provider, ProductVersion, Course, Exam, Topic
<1>4. ASSUME NEW s \in Slugs
      PROVE  IsRow(r, [x EXCEPT !.slug = s]) /\ [x EXCEPT !.slug = s].parent = x.parent
  BY DEF IsRow, Row, Provider, ProductVersion, Course, Exam, Topic
<1>5. ASSUME r \in Exams, NEW b \in BOOLEAN
      PROVE  /\ IsRow(r, [x EXCEPT !.published = b])
             /\ [x EXCEPT !.published = b].parent = x.parent
             /\ IsRow(r, [x EXCEPT !.deleted = b])
             /\ [x EXCEPT !.deleted = b].parent = x.parent
  <2>1. x \in Exam
    BY <1>5, Apart DEF IsRow
  <2> QED BY <1>5, <2>1 DEF IsRow, Exam, Row
<1> QED BY <1>1, <1>2, <1>3, <1>4, <1>5

-----------------------------------------------------------------------------
(* The four ways to step                                                    *)

\* A request goes on without writing: only its own job is to be in order.
LEMMA GoingOn ==
  ASSUME IInv, NEW w \in Workers, NEW step \in Steps, NEW j \in Job,
         GoesOn(w, step, j), Carries(step, j), UNCHANGED <<rows, issued>>
  PROVE  IInv'
<1>1. pc' \in [Workers -> Steps] /\ job' \in [Workers -> Job]
  BY DEF IInv, TypeOK, GoesOn, Job
<1>2. TypeOK'
  BY <1>1 DEF IInv, TypeOK, Stored, Job
<1>3. NoOrphans'
  BY DEF IInv, NoOrphans
<1>4. ASSUME NEW v \in Workers
      PROVE  Carries(pc[v], job[v])'
  <2>1. CASE v = w
    <3>1. pc'[v] = step /\ job'[v] = j
      BY <2>1 DEF IInv, TypeOK, GoesOn
    <3> QED BY <3>1 DEF Carries
  <2>2. CASE v # w
    <3>1. pc'[v] = pc[v] /\ job'[v] = job[v]
      BY <2>2 DEF IInv, TypeOK, GoesOn
    <3> QED BY <3>1 DEF IInv, Carries
  <2> QED BY <2>1, <2>2
<1> QED BY <1>2, <1>3, <1>4 DEF IInv

\* A request ends: nothing is relied on any more.
LEMMA Idle ==
  NoJob \in Job /\ "idle" \in Steps /\ Carries("idle", NoJob)
BY DEF NoJob, Job, Steps, Carries

\* A request commits a row: whoever relied on a row being there still can.
LEMMA Writing ==
  ASSUME IInv, NEW w \in Workers, NEW r, NEW x, IsRow(r, x),
         x.parent # None => rows[x.parent] # None,
         rows' = [rows EXCEPT ![r] = x], issued' \subseteq Ids, Replies(w)
  PROVE  IInv'
<1>1. r \in Ids /\ x # None /\ x.parent \in Ids \cup {None}
  BY RowSet
<1>2. DOMAIN rows' = Ids /\ \A s \in Ids : rows'[s] = IF s = r THEN x ELSE rows[s]
  BY <1>1 DEF IInv, TypeOK
<1>3. \A s \in Ids : rows[s] # None => rows'[s] # None
  BY <1>1, <1>2
<1>4. \A s \in Ids : rows'[s] = None \/ IsRow(s, rows'[s])
  BY <1>2, StoredRow DEF IInv
<1>5. pc' \in [Workers -> Steps] /\ job' \in [Workers -> Job]
  BY Idle DEF IInv, TypeOK, Replies, GoesOn, Job
<1>6. TypeOK'
  BY <1>2, <1>4, <1>5, AllStored DEF TypeOK, Job
<1>7. NoOrphans'
  <2> SUFFICES ASSUME NEW s \in Ids, rows'[s] # None, rows'[s].parent # None
               PROVE  rows'[rows'[s].parent] # None
    BY DEF NoOrphans
  <2>1. rows'[s].parent \in Ids
    BY <1>4, RowSet
  <2>2. rows[rows'[s].parent] # None
    BY <1>2 DEF IInv, NoOrphans
  <2> QED BY <2>1, <2>2, <1>3
<1>8. ASSUME NEW v \in Workers
      PROVE  Carries(pc[v], job[v])'
  <2>1. CASE v = w
    <3>1. pc'[v] = "idle"
      BY <2>1 DEF IInv, TypeOK, Replies, GoesOn
    <3> QED BY <3>1 DEF Carries
  <2>2. CASE v # w
    <3>1. pc'[v] = pc[v] /\ job'[v] = job[v]
      BY <2>2 DEF IInv, TypeOK, Replies, GoesOn
    <3>2. Carries(pc[v], job[v])
      BY DEF IInv
    <3>3. IsRow(job[v].row, job[v].loaded) => job[v].loaded.parent \in Ids \cup {None}
      BY RowSet
    <3>4. Exams \subseteq Ids
      BY OfATable
    <3> QED BY <3>1, <3>2, <3>3, <3>4, <1>3 DEF Carries
  <2> QED BY <2>1, <2>2
<1> QED BY <1>6, <1>7, <1>8 DEF IInv

\* A request deletes a row: it is nobody's parent, stored or in flight, and
\* nobody has flushed an update of it.
LEMMA Deleting ==
  ASSUME IInv, NEW w \in Workers, CommitDelete(w)
  PROVE  IInv'
<1> DEFINE r == job[w].row
<1>1. r \in Ids \ Exams /\ ~RowLocked(w, r) /\ ~ChildInFlight(w, r)
  BY DEF IInv, Carries, CommitDelete
<1>2. CASE ChildrenOf(r) # {}
  <2>1. Replies(w) /\ UNCHANGED <<rows, issued>>
    BY <1>2 DEF CommitDelete
  <2> QED BY <2>1, GoingOn, Idle DEF Replies
<1>3. CASE ChildrenOf(r) = {}
  <2>1. rows' = [rows EXCEPT ![r] = None] /\ Replies(w) /\ UNCHANGED issued
    BY <1>3 DEF CommitDelete
  <2>2. DOMAIN rows' = Ids /\ \A s \in Ids : rows'[s] = IF s = r THEN None ELSE rows[s]
    BY <2>1, <1>1 DEF IInv, TypeOK
  <2>3. issued' \subseteq Ids
    BY <2>1 DEF IInv, TypeOK
  <2>4. pc' \in [Workers -> Steps] /\ job' \in [Workers -> Job]
    BY <2>1, Idle DEF IInv, TypeOK, Replies, GoesOn, Job
  <2>5. \A s \in Ids : rows'[s] = None \/ IsRow(s, rows'[s])
    BY <2>2, StoredRow DEF IInv
  <2>6. TypeOK'
    BY <2>2, <2>3, <2>4, <2>5, AllStored DEF TypeOK, Job
  <2>7. NoOrphans'
    <3> SUFFICES ASSUME NEW s \in Ids, rows'[s] # None, rows'[s].parent # None
                 PROVE  rows'[rows'[s].parent] # None
      BY DEF NoOrphans
    <3>1. s # r /\ rows'[s] = rows[s]
      BY <2>2
    <3>2. rows[s].parent \in Ids /\ rows[rows[s].parent] # None
      BY <3>1, StoredRow, RowSet DEF IInv, NoOrphans
    <3>3. rows[s].parent # r
      BY <3>1, <1>3 DEF ChildrenOf
    <3> QED BY <3>1, <3>2, <3>3, <2>2
  <2>8. ASSUME NEW v \in Workers
        PROVE  Carries(pc[v], job[v])'
    <3>1. CASE v = w
      <4>1. pc'[v] = "idle"
        BY <2>1, <3>1 DEF IInv, TypeOK, Replies, GoesOn
      <4> QED BY <4>1 DEF Carries
    <3>2. CASE v # w
      <4>1. pc'[v] = pc[v] /\ job'[v] = job[v]
        BY <2>1, <3>2 DEF IInv, TypeOK, Replies, GoesOn
      <4>2. Carries(pc[v], job[v])
        BY DEF IInv
      <4>3. pc[v] = "commit create" => /\ job[v].loaded.parent # r
                                       /\ job[v].loaded.parent \in Ids \cup {None}
        BY <1>1, <3>2, <4>2, RowSet DEF ChildInFlight, Carries
      <4>4. pc[v] = "commit update" => job[v].row # r
        BY <1>1, <3>2 DEF RowLocked
      <4>5. Exams \subseteq Ids
        BY OfATable
      <4> QED BY <4>1, <4>2, <4>3, <4>4, <4>5, <1>1, <2>2 DEF Carries
    <3> QED BY <3>1, <3>2
  <2> QED BY <2>6, <2>7, <2>8 DEF IInv
<1> QED BY <1>2, <1>3

-----------------------------------------------------------------------------
(* Requests                                                                 *)

\* A request that creates a row.
LEMMA Inserting ==
  ASSUME IInv, NEW w \in Workers, NEW r, NEW parent, NEW slug \in Slugs,
         \A x : (x.parent = parent /\ x \in Row({parent}, {FALSE})) => IsRow(r, x),
         Insert(w, r, parent, slug)
  PROVE  IInv'
<1> DEFINE new == [parent |-> parent, slug |-> slug, published |-> FALSE, deleted |-> FALSE]
           j == [row |-> r, loaded |-> new, slug |-> slug]
<1>1. new \in Row({parent}, {FALSE}) /\ new.parent = parent
  BY DEF Row
<1>2. IsRow(r, new)
  BY <1>1
<1>3. /\ parent # None => rows[parent] # None
      /\ GoesOn(w, "commit create", j) /\ UNCHANGED <<rows, issued>>
  BY DEF Insert
<1>4. r \in Ids /\ new \in AnyRow
  BY <1>2, RowSet
<1>5. j \in Job
  BY <1>4 DEF Job
<1>6. "commit create" \in Steps
  BY DEF Steps
<1>7. j.row = r /\ j.loaded = new
  OBVIOUS
<1> HIDE DEF new, j
<1>8. Carries("commit create", j)
  BY <1>1, <1>2, <1>3, <1>7 DEF Carries
<1> QED BY <1>3, <1>5, <1>6, <1>8, GoingOn

\* A request that loads a row to edit it, publish it or delete it.
LEMMA Loading ==
  ASSUME IInv, NEW w \in Workers, NEW r \in Ids,
         NEW step \in Steps \ {"commit create", "commit update"},
         NEW slug \in Slugs \cup {None},
         step = "flush update" => slug \in Slugs,
         step \in {"publish", "unpublish", "soft delete"} => r \in Exams,
         step = "delete" => r \notin Exams,
         Load(w, r, step, slug)
  PROVE  IInv'
<1> DEFINE j == [row |-> r, loaded |-> rows[r], slug |-> slug]
<1>1. rows[r] # None /\ GoesOn(w, step, j) /\ UNCHANGED <<rows, issued>>
  BY DEF Load
<1>2. j \in Job
  BY <1>1, StoredRow DEF IInv, Job
<1>3. Carries(step, j)
  BY <1>1 DEF Carries
<1> QED BY <1>1, <1>2, <1>3, GoingOn

\* An UPDATE is flushed, or refused.
LEMMA Flushing ==
  ASSUME IInv, NEW w \in Workers, FlushUpdate(w)
  PROVE  IInv'
<1> DEFINE r == job[w].row
           slug == Written(job[w].slug, job[w].loaded.slug, rows[r].slug)
           new == [rows[r] EXCEPT !.slug = slug]
           j == [row |-> r, loaded |-> rows[r], slug |-> new.slug]
<1>1. UNCHANGED <<rows, issued>>
      /\ (Replies(w) \/ (rows[r] # None /\ GoesOn(w, "commit update", j)))
  BY DEF FlushUpdate
<1>2. r \in Ids /\ job[w].slug \in Slugs
  BY DEF IInv, Carries, FlushUpdate
<1>3. CASE Replies(w)
  BY <1>1, <1>3, GoingOn, Idle DEF Replies
<1>4. CASE rows[r] # None /\ GoesOn(w, "commit update", j)
  <2>1. IsRow(r, rows[r]) /\ rows[r] \in AnyRow /\ rows[r].slug \in Slugs
    BY <1>2, <1>4, StoredRow, RowSet DEF IInv
  <2>2. slug \in Slugs
    BY <1>2, <2>1 DEF Written
  <2>3. new.slug = slug
    BY <2>1 DEF AnyRow, Provider, ProductVersion, Course, Exam, Topic, Row
  <2>4. j \in Job /\ "commit update" \in Steps
    BY <1>2, <2>1, <2>2, <2>3 DEF Job, Steps
  <2>5. Carries("commit update", j)
    BY <1>2, <1>4, <2>2, <2>3 DEF Carries
  <2> QED BY <1>1, <1>4, <2>4, <2>5, GoingOn
<1> QED BY <1>1, <1>3, <1>4

\* The commits.
LEMMA Serving ==
  ASSUME IInv, NEW w \in Workers, Serve(w)
  PROVE  IInv'
<1> DEFINE r == job[w].row
<1>0. Carries(pc[w], job[w])
  BY DEF IInv
<1>p. ASSUME r \in Ids, rows[r] # None
      PROVE  /\ IsRow(r, rows[r])
             /\ rows[r].parent # None => rows[rows[r].parent] # None
  BY <1>p, StoredRow DEF IInv, NoOrphans
<1>1. CASE CommitCreate(w)
  <2>1. IsRow(r, job[w].loaded)
        /\ (job[w].loaded.parent # None => rows[job[w].loaded.parent] # None)
    BY <1>0, <1>1 DEF Carries, CommitCreate
  <2>2. r \in Ids
    BY <2>1, RowSet
  <2>3. /\ rows' = [rows EXCEPT ![r] = job[w].loaded] /\ Replies(w)
        /\ issued' = issued \cup {r}
    BY <1>1 DEF CommitCreate
  <2>4. issued' \subseteq Ids
    BY <2>2, <2>3 DEF IInv, TypeOK
  <2> QED BY <2>1, <2>3, <2>4, Writing
<1>2. CASE FlushUpdate(w)
  BY <1>2, Flushing
<1>3. CASE CommitUpdate(w)
  <2> DEFINE x == [rows[r] EXCEPT !.slug = job[w].slug]
  <2>1. r \in Ids /\ job[w].slug \in Slugs /\ rows[r] # None
    BY <1>0, <1>3 DEF Carries, CommitUpdate
  <2>2. rows' = [rows EXCEPT ![r] = x] /\ issued' = issued /\ Replies(w)
    BY <1>3 DEF CommitUpdate
  <2>3. issued' \subseteq Ids
    BY <2>2 DEF IInv, TypeOK
  <2>4. IsRow(r, x) /\ x.parent = rows[r].parent
    BY <2>1, <1>p, RowSet
  <2> HIDE DEF x
  <2> QED BY <2>1, <2>2, <2>3, <2>4, <1>p, Writing
<1>4. CASE CommitPublication(w)
  <2> DEFINE b == pc[w] = "publish"
             x == [rows[r] EXCEPT !.published = b]
  <2>1. r \in Exams /\ r \in Ids /\ rows[r] # None
    BY <1>0, <1>4, OfATable DEF Carries, CommitPublication
  <2>2. rows' = [rows EXCEPT ![r] = x] /\ Replies(w) /\ UNCHANGED issued
    BY <1>4 DEF CommitPublication
  <2>3. issued' \subseteq Ids
    BY <2>2 DEF IInv, TypeOK
  <2>4. b \in BOOLEAN
    OBVIOUS
  <2>5. IsRow(r, x) /\ x.parent = rows[r].parent
    <3>1. ASSUME NEW flag \in BOOLEAN
          PROVE  /\ IsRow(r, [rows[r] EXCEPT !.published = flag])
                 /\ [rows[r] EXCEPT !.published = flag].parent = rows[r].parent
      <4>1. IsRow(r, rows[r])
        BY <2>1, <1>p
      <4>2. r \in Exams => \A bit \in BOOLEAN :
              /\ IsRow(r, [rows[r] EXCEPT !.published = bit])
              /\ [rows[r] EXCEPT !.published = bit].parent = rows[r].parent
        BY <4>1, RowSet, Zenon
      <4> QED BY <2>1, <4>2, Zenon
    <3> HIDE DEF b
    <3> QED BY <2>4, <3>1
  <2> HIDE DEF x, b
  <2> QED BY <2>1, <2>2, <2>3, <2>5, <1>p, Writing
<1>5. CASE CommitSoftDelete(w)
  <2> DEFINE x == [rows[r] EXCEPT !.deleted = TRUE]
  <2>1. r \in Exams /\ r \in Ids /\ rows[r] # None
    BY <1>0, <1>5, OfATable DEF Carries, CommitSoftDelete
  <2>2. rows' = [rows EXCEPT ![r] = x] /\ Replies(w) /\ UNCHANGED issued
    BY <1>5 DEF CommitSoftDelete
  <2>3. issued' \subseteq Ids
    BY <2>2 DEF IInv, TypeOK
  <2>4. IsRow(r, x) /\ x.parent = rows[r].parent
    BY <2>1, <1>p, RowSet
  <2> HIDE DEF x
  <2> QED BY <2>1, <2>2, <2>3, <2>4, <1>p, Writing
<1>6. CASE CommitDelete(w)
  BY <1>6, Deleting
<1> QED BY <1>1, <1>2, <1>3, <1>4, <1>5, <1>6 DEF Serve

\* What the routes of the five tables begin.
LEMMA Routing ==
  ASSUME IInv, NEW w \in Workers,
         \/ ProviderRoutes(w) \/ ProductVersionRoutes(w) \/ CourseRoutes(w)
         \/ ExamRoutes(w) \/ TopicRoutes(w)
  PROVE  IInv'
<1> USE OfATable
<1>s. /\ "flush update" \in Steps \ {"commit create", "commit update"}
      /\ "publish" \in Steps \ {"commit create", "commit update"}
      /\ "unpublish" \in Steps \ {"commit create", "commit update"}
      /\ "soft delete" \in Steps \ {"commit create", "commit update"}
      /\ "delete" \in Steps \ {"commit create", "commit update"}
  BY DEF Steps
<1>u. ASSUME NEW r \in Ids, NEW slug \in Slugs, Load(w, r, "flush update", slug)
      PROVE  IInv'
  BY <1>u, <1>s, Loading
<1>d. ASSUME NEW r \in Ids \ Exams, Load(w, r, "delete", None)
      PROVE  IInv'
  BY <1>d, <1>s, Loading
<1>1. CASE ProviderRoutes(w)
  <2> PICK p \in Providers :
        \/ \E slug \in Slugs : CreateProvider(w, p, slug) \/ UpdateProvider(w, p, slug)
        \/ DeleteProvider(w, p)
    BY <1>1 DEF ProviderRoutes
  <2>1. ASSUME NEW slug \in Slugs, CreateProvider(w, p, slug)
        PROVE  IInv'
    <3>1. \A x : (x.parent = None /\ x \in Row({None}, {FALSE})) => IsRow(p, x)
      BY DEF IsRow, Provider
    <3> QED BY <2>1, <3>1, Inserting DEF CreateProvider
  <2>2. ASSUME NEW slug \in Slugs, UpdateProvider(w, p, slug)
        PROVE  IInv'
    BY <2>2, <1>u DEF UpdateProvider
  <2>3. CASE DeleteProvider(w, p)
    BY <2>3, <1>d, Apart DEF DeleteProvider
  <2> QED BY <2>1, <2>2, <2>3
<1>2. CASE ProductVersionRoutes(w)
  <2> PICK v \in ProductVersions :
        \/ \E slug \in Slugs : \/ \E p \in Providers : CreateProductVersion(w, v, p, slug)
                               \/ UpdateProductVersion(w, v, slug)
        \/ DeleteProductVersion(w, v)
    BY <1>2 DEF ProductVersionRoutes
  <2>1. ASSUME NEW slug \in Slugs, NEW p \in Providers, CreateProductVersion(w, v, p, slug)
        PROVE  IInv'
    <3>1. \A x : (x.parent = p /\ x \in Row({p}, {FALSE})) => IsRow(v, x)
      BY DEF IsRow, ProductVersion, Row
    <3> QED BY <2>1, <3>1, Inserting DEF CreateProductVersion
  <2>2. ASSUME NEW slug \in Slugs, UpdateProductVersion(w, v, slug)
        PROVE  IInv'
    BY <2>2, <1>u DEF UpdateProductVersion
  <2>3. CASE DeleteProductVersion(w, v)
    BY <2>3, <1>d, Apart DEF DeleteProductVersion
  <2> QED BY <2>1, <2>2, <2>3
<1>3. CASE CourseRoutes(w)
  <2> PICK c \in Courses :
        \/ \E slug \in Slugs : \/ \E p \in Providers : CreateCourse(w, c, p, slug)
                               \/ UpdateCourse(w, c, slug)
        \/ DeleteCourse(w, c)
    BY <1>3 DEF CourseRoutes
  <2>1. ASSUME NEW slug \in Slugs, NEW p \in Providers, CreateCourse(w, c, p, slug)
        PROVE  IInv'
    <3>1. \A x : (x.parent = p /\ x \in Row({p}, {FALSE})) => IsRow(c, x)
      BY DEF IsRow, Course, Row
    <3> QED BY <2>1, <3>1, Inserting DEF CreateCourse
  <2>2. ASSUME NEW slug \in Slugs, UpdateCourse(w, c, slug)
        PROVE  IInv'
    BY <2>2, <1>u DEF UpdateCourse
  <2>3. CASE DeleteCourse(w, c)
    BY <2>3, <1>d, Apart DEF DeleteCourse
  <2> QED BY <2>1, <2>2, <2>3
<1>4. CASE ExamRoutes(w)
  <2> PICK e \in Exams :
        \/ \E slug \in Slugs : \/ \E c \in Courses : CreateExam(w, e, c, slug)
                               \/ UpdateExam(w, e, slug)
        \/ PublishExam(w, e) \/ UnpublishExam(w, e) \/ SoftDeleteExam(w, e)
    BY <1>4 DEF ExamRoutes
  <2>1. ASSUME NEW slug \in Slugs, NEW c \in Courses, CreateExam(w, e, c, slug)
        PROVE  IInv'
    <3>1. \A x : (x.parent = c /\ x \in Row({c}, {FALSE})) => IsRow(e, x)
      BY DEF IsRow, Exam, Row
    <3> QED BY <2>1, <3>1, Inserting DEF CreateExam
  <2>2. ASSUME NEW slug \in Slugs, UpdateExam(w, e, slug)
        PROVE  IInv'
    BY <2>2, <1>u DEF UpdateExam
  <2>3. CASE PublishExam(w, e)
    BY <2>3, <1>s, Loading DEF PublishExam
  <2>4. CASE UnpublishExam(w, e)
    BY <2>4, <1>s, Loading DEF UnpublishExam
  <2>5. CASE SoftDeleteExam(w, e)
    BY <2>5, <1>s, Loading DEF SoftDeleteExam
  <2> QED BY <2>1, <2>2, <2>3, <2>4, <2>5
<1>5. CASE TopicRoutes(w)
  <2> PICK t \in Topics :
        \/ \E slug \in Slugs : \/ \E e \in Exams : CreateTopic(w, t, e, slug)
                               \/ UpdateTopic(w, t, slug)
        \/ DeleteTopic(w, t)
    BY <1>5 DEF TopicRoutes
  <2>1. ASSUME NEW slug \in Slugs, NEW e \in Exams, CreateTopic(w, t, e, slug)
        PROVE  IInv'
    <3>1. \A x : (x.parent = e /\ x \in Row({e}, {FALSE})) => IsRow(t, x)
      BY DEF IsRow, Topic, Row
    <3> QED BY <2>1, <3>1, Inserting DEF CreateTopic
  <2>2. ASSUME NEW slug \in Slugs, UpdateTopic(w, t, slug)
        PROVE  IInv'
    BY <2>2, <1>u DEF UpdateTopic
  <2>3. CASE DeleteTopic(w, t)
    BY <2>3, <1>d, Apart DEF DeleteTopic
  <2> QED BY <2>1, <2>2, <2>3
<1> QED BY <1>1, <1>2, <1>3, <1>4, <1>5

-----------------------------------------------------------------------------
(* The theorems                                                             *)

\* The migrations and the seeds leave a catalog in order, and nobody is at work.
LEMMA Start == Init => IInv
<1> SUFFICES ASSUME Init PROVE IInv
  OBVIOUS
<1> PICK seed \in Seeds :
      /\ rows = [r \in Ids |-> IF r \in DOMAIN seed.rows THEN seed.rows[r] ELSE None]
      /\ issued = Ids \ seed.free
  BY DEF Init
<1>1. pc = [w \in Workers |-> "idle"] /\ job = [w \in Workers |-> NoJob]
  BY DEF Init
<1>2. \A r \in Ids : rows[r] = None \/ (r \in DOMAIN seed.rows /\ rows[r] = seed.rows[r])
  OBVIOUS
<1>3. \A r \in DOMAIN seed.rows :
        /\ IsRow(r, seed.rows[r])
        /\ seed.rows[r].parent # None => seed.rows[r].parent \in DOMAIN seed.rows
  BY SeedsAssumption
<1>4. /\ Stored(Providers, Provider) /\ Stored(ProductVersions, ProductVersion)
      /\ Stored(Courses, Course) /\ Stored(Exams, Exam) /\ Stored(Topics, Topic)
  BY <1>2, <1>3, OfATable, Apart DEF Stored, IsRow
<1>5. issued \subseteq Ids
  OBVIOUS
<1>6. pc \in [Workers -> Steps] /\ job \in [Workers -> Job]
  BY <1>1, Idle
<1>7. TypeOK
  BY <1>4, <1>5, <1>6 DEF TypeOK, Job
<1>8. NoOrphans
  <2> SUFFICES ASSUME NEW r \in Ids, rows[r] # None, rows[r].parent # None
               PROVE  rows[rows[r].parent] # None
    BY DEF NoOrphans
  <2>1. r \in DOMAIN seed.rows /\ rows[r] = seed.rows[r]
    BY <1>2
  <2>2. rows[r].parent \in DOMAIN seed.rows
    BY <1>3, <2>1
  <2>3. /\ rows[r].parent \in Ids
        /\ seed.rows[rows[r].parent] # None
    BY <2>2, <1>3, RowSet
  <2> QED BY <2>2, <2>3
<1>9. \A w \in Workers : Carries(pc[w], job[w])
  BY <1>1, Idle
<1> QED BY <1>7, <1>8, <1>9 DEF IInv

\* Every step of every request leaves it so.
LEMMA Step == IInv /\ [Next]_vars => IInv'
<1> SUFFICES ASSUME IInv, [Next]_vars PROVE IInv'
  OBVIOUS
<1>1. CASE Next
  <2> PICK w \in Workers :
        \/ ProviderRoutes(w) \/ ProductVersionRoutes(w) \/ CourseRoutes(w)
        \/ ExamRoutes(w) \/ TopicRoutes(w)
        \/ Serve(w) \/ Fail(w)
    BY <1>1 DEF Next
  <2>1. CASE \/ ProviderRoutes(w) \/ ProductVersionRoutes(w) \/ CourseRoutes(w)
             \/ ExamRoutes(w) \/ TopicRoutes(w)
    BY <2>1, Routing
  <2>2. CASE Serve(w)
    BY <2>2, Serving
  <2>3. CASE Fail(w)
    BY <2>3, GoingOn, Idle DEF Fail, Replies
  <2> QED BY <2>1, <2>2, <2>3
<1>2. CASE UNCHANGED vars
  BY <1>2 DEF vars, IInv, TypeOK, Stored, NoOrphans, Carries
<1> QED BY <1>1, <1>2

\* Every table holds rows of its own kind, whatever requests overlap or fail.
THEOREM TypeCorrect == Spec => []TypeOK
<1>1. IInv => TypeOK
  BY DEF IInv
<1> QED BY <1>1, Start, Step, PTL DEF Spec

\* No row is ever left without its parent, however many administrators are at
\* work: the foreign keys and the locks at the DELETE see to it, whatever the
\* check for children found when the request began.
THEOREM NeverOrphaned == Spec => []NoOrphans
<1>1. IInv => NoOrphans
  BY DEF IInv
<1> QED BY <1>1, Start, Step, PTL DEF Spec

-----------------------------------------------------------------------------
(* What is in flight                                                        *)

\* The ids never given out have no row; a request that inserts a row is alone
\* with such an id, and every other request is about a row that has been there.
Heralded ==
  /\ \A r \in Ids \ issued : rows[r] = None
  /\ \A w \in Workers :
       /\ pc[w] = "commit create" =>
            /\ job[w].row \notin issued /\ job[w].slug = job[w].loaded.slug
            /\ \A v \in Workers \ {w} : job[v].row # job[w].row
       /\ pc[w] \notin {"idle", "commit create"} => job[w].row \in issued

\* What a flushed insert or update is about to store, and its key.
InFlight(w) == pc[w] \in {"commit create", "commit update"}
Flushed(j) == [j.loaded EXCEPT !.slug = j.slug]
Claim(w) == Key(job[w].row, Flushed(job[w]))

\* The keys in flight are new and apart, and a row with a flushed update is as
\* it was when the update was flushed, for no other request to write.
Claimed ==
  /\ \A w \in Workers : InFlight(w) => ~UsedBesides(job[w].row, Claim(w))
  /\ \A v, w \in Workers : v # w /\ InFlight(v) /\ InFlight(w) =>
       Claim(v) # Claim(w) /\ job[v].row # job[w].row
  /\ \A w \in Workers : pc[w] = "commit update" => job[w].loaded = rows[job[w].row]

KInv == Claimed /\ SlugsApart

\* What the theorems below start from: the tables, and what requests rely on.
LEMMA InOrder == Spec => []IInv
BY Start, Step, PTL DEF Spec

-----------------------------------------------------------------------------
(* What the routes of the five tables begin: an insert, or a load           *)

LoadSteps == {"flush update", "publish", "unpublish", "soft delete", "delete"}

LEMMA Begins ==
  ASSUME NEW w \in Workers,
         \/ ProviderRoutes(w) \/ ProductVersionRoutes(w) \/ CourseRoutes(w)
         \/ ExamRoutes(w) \/ TopicRoutes(w)
  PROVE  \/ \E r \in Ids, parent \in Ids \cup {None}, slug \in Slugs :
              Insert(w, r, parent, slug)
         \/ \E r \in Ids, step \in LoadSteps, slug \in Slugs \cup {None} :
              Load(w, r, step, slug)
<1> USE OfATable DEF LoadSteps
<1>1. CASE ProviderRoutes(w)
  BY <1>1 DEF ProviderRoutes, CreateProvider, UpdateProvider, DeleteProvider
<1>2. CASE ProductVersionRoutes(w)
  BY <1>2 DEF ProductVersionRoutes, CreateProductVersion, UpdateProductVersion,
              DeleteProductVersion
<1>3. CASE CourseRoutes(w)
  BY <1>3 DEF CourseRoutes, CreateCourse, UpdateCourse, DeleteCourse
<1>4. CASE ExamRoutes(w)
  BY <1>4 DEF ExamRoutes, CreateExam, UpdateExam, PublishExam, UnpublishExam,
              SoftDeleteExam
<1>5. CASE TopicRoutes(w)
  BY <1>5 DEF TopicRoutes, CreateTopic, UpdateTopic, DeleteTopic
<1> QED BY <1>1, <1>2, <1>3, <1>4, <1>5

-----------------------------------------------------------------------------
(* The ids given out, and the rows that are gone                            *)

\* A request goes on without writing.
LEMMA GoingOnUnheard ==
  ASSUME IInv, Heralded, NEW w \in Workers, NEW step \in Steps, NEW j,
         GoesOn(w, step, j), UNCHANGED <<rows, issued>>,
         step = "idle" => j = NoJob,
         step = "commit create" =>
           /\ j.row \notin issued /\ j.slug = j.loaded.slug
           /\ \A v \in Workers : job[v].row # j.row,
         step \notin {"idle", "commit create"} => j.row \in issued
  PROVE  Heralded'
<1>1. \A v \in Workers : /\ pc'[v] = IF v = w THEN step ELSE pc[v]
                         /\ job'[v] = IF v = w THEN j ELSE job[v]
  BY DEF IInv, TypeOK, GoesOn
<1>2. ASSUME NEW v \in Workers, pc'[v] = "commit create"
      PROVE  /\ job'[v].row \notin issued /\ job'[v].slug = job'[v].loaded.slug
             /\ \A u \in Workers \ {v} : job'[u].row # job'[v].row
  <2>1. CASE v = w
    BY <1>1, <1>2, <2>1
  <2>2. CASE v # w
    <3>1. /\ job[v].row \notin issued /\ job[v].slug = job[v].loaded.slug
          /\ \A u \in Workers \ {v} : job[u].row # job[v].row
      BY <1>1, <1>2, <2>2 DEF Heralded
    <3>2. job[v].row \in Ids /\ job[v].row # None
      <4>1. Carries(pc[v], job[v]) /\ pc[v] = "commit create"
        BY <1>1, <1>2, <2>2 DEF IInv
      <4>2. IsRow(job[v].row, job[v].loaded)
        BY <4>1 DEF Carries
      <4> QED BY <4>2, RowSet, Apart
    <3>3. j.row # job[v].row
      <4>1. CASE step = "idle"
        BY <4>1, <3>2 DEF NoJob
      <4>2. CASE step = "commit create"
        BY <4>2
      <4>3. CASE step \notin {"idle", "commit create"}
        BY <4>3, <3>1
      <4> QED BY <4>1, <4>2, <4>3
    <3> QED BY <1>1, <2>2, <3>1, <3>3
  <2> QED BY <2>1, <2>2
<1>3. ASSUME NEW v \in Workers, pc'[v] \notin {"idle", "commit create"}
      PROVE  job'[v].row \in issued
  BY <1>1, <1>3 DEF Heralded
<1> QED BY <1>2, <1>3 DEF Heralded

\* A request commits a row, or deletes it: its id has been given out from then on.
LEMMA WritingHeralded ==
  ASSUME IInv, Heralded, NEW w \in Workers, NEW r \in Ids, NEW x,
         rows' = [rows EXCEPT ![r] = x], issued' = issued \cup {r}, Replies(w),
         \A v \in Workers \ {w} : pc[v] = "commit create" => job[v].row # r
  PROVE  Heralded'
<1>1. \A v \in Workers : /\ pc'[v] = IF v = w THEN "idle" ELSE pc[v]
                         /\ job'[v] = IF v = w THEN NoJob ELSE job[v]
  BY DEF IInv, TypeOK, Replies, GoesOn
<1>2. \A s \in Ids : rows'[s] = IF s = r THEN x ELSE rows[s]
  BY DEF IInv, TypeOK
<1>3. ASSUME NEW v \in Workers, pc'[v] = "commit create"
      PROVE  /\ job'[v].row \notin issued' /\ job'[v].slug = job'[v].loaded.slug
             /\ \A u \in Workers \ {v} : job'[u].row # job'[v].row
  <2>1. v # w /\ pc[v] = "commit create" /\ job'[v] = job[v]
    BY <1>1, <1>3
  <2>2. /\ job[v].row \notin issued /\ job[v].slug = job[v].loaded.slug
        /\ \A u \in Workers \ {v} : job[u].row # job[v].row
    BY <2>1 DEF Heralded
  <2>3. job[v].row \in Ids /\ job[v].row # None
    <3>1. IsRow(job[v].row, job[v].loaded)
      BY <2>1 DEF IInv, Carries
    <3> QED BY <3>1, RowSet, Apart
  <2>4. job[v].row # r /\ NoJob.row # job[v].row
    BY <2>1, <2>3 DEF NoJob
  <2> QED BY <1>1, <2>1, <2>2, <2>3, <2>4
<1>4. ASSUME NEW v \in Workers, pc'[v] \notin {"idle", "commit create"}
      PROVE  job'[v].row \in issued'
  BY <1>1, <1>4 DEF Heralded
<1>5. \A s \in Ids \ issued' : rows'[s] = None
  BY <1>2 DEF Heralded
<1> QED BY <1>3, <1>4, <1>5 DEF Heralded

\* Requests begin: an insert with an id that has never been given out, anything
\* else with a row that is there.
LEMMA RoutingHeralded ==
  ASSUME IInv, Heralded, NEW w \in Workers,
         \/ ProviderRoutes(w) \/ ProductVersionRoutes(w) \/ CourseRoutes(w)
         \/ ExamRoutes(w) \/ TopicRoutes(w)
  PROVE  Heralded' /\ UNCHANGED rows
<1>1. ASSUME NEW r \in Ids, NEW parent, NEW slug \in Slugs, Insert(w, r, parent, slug)
      PROVE  Heralded' /\ UNCHANGED rows
  <2> DEFINE new == [parent |-> parent, slug |-> slug, published |-> FALSE, deleted |-> FALSE]
             j == [row |-> r, loaded |-> new, slug |-> slug]
  <2>1. /\ r \notin issued /\ \A v \in Workers : job[v].row # r
        /\ GoesOn(w, "commit create", j) /\ UNCHANGED <<rows, issued>>
    BY <1>1 DEF Insert
  <2>2. j.row = r /\ j.slug = j.loaded.slug /\ "commit create" \in Steps
    BY DEF Steps
  <2> HIDE DEF j
  <2> QED BY <2>1, <2>2, GoingOnUnheard
<1>2. ASSUME NEW r \in Ids, NEW step \in LoadSteps, NEW slug, Load(w, r, step, slug)
      PROVE  Heralded' /\ UNCHANGED rows
  <2> DEFINE j == [row |-> r, loaded |-> rows[r], slug |-> slug]
  <2>1. rows[r] # None /\ GoesOn(w, step, j) /\ UNCHANGED <<rows, issued>>
    BY <1>2 DEF Load
  <2>2. r \in issued /\ j.row = r
    BY <2>1 DEF Heralded
  <2>3. step \in Steps /\ step \notin {"idle", "commit create"}
    BY DEF LoadSteps, Steps
  <2> HIDE DEF j
  <2> QED BY <2>1, <2>2, <2>3, GoingOnUnheard
<1> QED BY <1>1, <1>2, Begins

\* What DeletedStays asks of one id.
StaysDeleted(s) ==
  /\ rows[s] = None => rows'[s] = None
  /\ rows[s] # None /\ rows[s].deleted => rows'[s] # None /\ rows'[s].deleted

\* Requests commit: each writes one row, of an id that has been given out or is
\* now, and takes back no deletion.
LEMMA ServingHeralded ==
  ASSUME IInv, Heralded, NEW w \in Workers, Serve(w)
  PROVE  Heralded' /\ \A s \in issued : StaysDeleted(s)
<1> DEFINE r == job[w].row
           Goal == Heralded' /\ \A s \in issued : StaysDeleted(s)
<1>0. /\ Carries(pc[w], job[w])
      /\ pc[w] \notin {"idle", "commit create"} => r \in issued
  BY DEF IInv, Heralded
<1>a. ASSUME r \in Ids, r \in issued
      PROVE  \A v \in Workers \ {w} : pc[v] = "commit create" => job[v].row # r
  BY <1>a DEF Heralded
<1>b. ASSUME NEW x, rows' = [rows EXCEPT ![r] = x], r \in Ids,
             rows[r] # None /\ rows[r].deleted => x # None /\ x.deleted,
             rows[r] = None => x = None \/ r \notin issued
      PROVE  \A s \in issued : StaysDeleted(s)
  <2>1. \A s \in Ids : rows'[s] = IF s = r THEN x ELSE rows[s]
    BY <1>b DEF IInv, TypeOK
  <2>2. issued \subseteq Ids
    BY DEF IInv, TypeOK
  <2> QED BY <1>b, <2>1, <2>2, Zenon DEF StaysDeleted
<1>1. CASE CommitCreate(w)
  <2>1. r \notin issued /\ \A v \in Workers \ {w} : job[v].row # r
    BY <1>1 DEF CommitCreate, Heralded
  <2>2. r \in Ids
    BY <1>0, <1>1, RowSet DEF Carries, CommitCreate
  <2>3. rows[r] = None
    BY <2>1, <2>2 DEF Heralded
  <2>4. /\ rows' = [rows EXCEPT ![r] = job[w].loaded]
        /\ issued' = issued \cup {r} /\ Replies(w)
    BY <1>1 DEF CommitCreate
  <2>5. \A s \in issued : StaysDeleted(s)
    BY <1>b, <2>1, <2>2, <2>3, <2>4
  <2> HIDE DEF r
  <2> QED BY <2>1, <2>2, <2>4, <2>5, WritingHeralded
<1>2. CASE FlushUpdate(w)
  <2> DEFINE slug == [rows[r] EXCEPT !.slug =
                        Written(job[w].slug, job[w].loaded.slug, @)].slug
             j == [row |-> r, loaded |-> rows[r], slug |-> slug]
  <2>1. UNCHANGED <<rows, issued>> /\ (Replies(w) \/ GoesOn(w, "commit update", j))
    BY <1>2 DEF FlushUpdate
  <2>2. \A s \in issued : StaysDeleted(s)
    BY <2>1 DEF StaysDeleted
  <2>3. CASE Replies(w)
    BY <2>1, <2>2, <2>3, GoingOnUnheard DEF Replies, Steps
  <2>4. CASE GoesOn(w, "commit update", j)
    <3>1. j.row = r /\ r \in issued
      BY <1>0, <1>2 DEF FlushUpdate
    <3>2. "commit update" \in Steps
      BY DEF Steps
    <3> HIDE DEF j
    <3> QED BY <2>1, <2>2, <2>4, <3>1, <3>2, GoingOnUnheard
  <2> QED BY <2>1, <2>3, <2>4
<1>3. CASE CommitUpdate(w)
  <2> DEFINE x == [rows[r] EXCEPT !.slug = job[w].slug]
  <2>1. r \in Ids /\ rows[r] # None /\ r \in issued /\ job[w].slug \in Slugs
    BY <1>0, <1>3 DEF Carries, CommitUpdate
  <2>2. rows' = [rows EXCEPT ![r] = x] /\ issued' = issued /\ Replies(w)
    BY <1>3 DEF CommitUpdate
  <2>3. rows[r] \in AnyRow
    BY <2>1, StoredRow DEF IInv
  <2>4. x.deleted <=> rows[r].deleted
    BY <2>3 DEF AnyRow, Provider, ProductVersion, Course, Exam, Topic, Row
  <2>5. x # None
    BY <2>1, StoredRow, RowSet DEF IInv
  <2> HIDE DEF x
  <2>6. \A s \in issued : StaysDeleted(s)
    BY <1>b, <2>1, <2>2, <2>4, <2>5
  <2>7. issued' = issued \cup {r}
    BY <2>1, <2>2
  <2> QED BY <1>a, <2>1, <2>2, <2>6, <2>7, WritingHeralded
<1>4. CASE CommitPublication(w)
  <2> DEFINE x == [rows[r] EXCEPT !.published = pc[w] = "publish"]
  <2>1. r \in Exams /\ r \in Ids /\ rows[r] # None /\ r \in issued
    BY <1>0, <1>4, OfATable DEF Carries, CommitPublication
  <2>2. rows' = [rows EXCEPT ![r] = x] /\ issued' = issued /\ Replies(w)
    BY <1>4 DEF CommitPublication
  <2>3. rows[r] \in Exam
    BY <2>1, StoredRow, Apart DEF IInv, IsRow
  <2>4. x.deleted <=> rows[r].deleted
    BY <2>3 DEF Exam, Row
  <2>5. x # None
    <3>1. (pc[w] = "publish") \in BOOLEAN
      OBVIOUS
    <3>2. x \in Exam
      BY <2>3, <3>1 DEF Exam, Row
    <3> QED BY <3>2, SeedsAssumption DEF AnyRow
  <2> HIDE DEF x
  <2>6. \A s \in issued : StaysDeleted(s)
    BY <1>b, <2>1, <2>2, <2>4, <2>5
  <2>7. issued' = issued \cup {r}
    BY <2>1, <2>2
  <2> QED BY <1>a, <2>1, <2>2, <2>6, <2>7, WritingHeralded
<1>5. CASE CommitSoftDelete(w)
  <2> DEFINE x == [rows[r] EXCEPT !.deleted = TRUE]
  <2>1. r \in Exams /\ r \in Ids /\ rows[r] # None /\ r \in issued
    BY <1>0, <1>5, OfATable DEF Carries, CommitSoftDelete
  <2>2. rows' = [rows EXCEPT ![r] = x] /\ issued' = issued /\ Replies(w)
    BY <1>5 DEF CommitSoftDelete
  <2>3. rows[r] \in Exam
    BY <2>1, StoredRow, Apart DEF IInv, IsRow
  <2>4. x.deleted /\ x \in Exam
    BY <2>3 DEF Exam, Row
  <2>5. x # None
    BY <2>4, SeedsAssumption DEF AnyRow
  <2> HIDE DEF x
  <2>6. \A s \in issued : StaysDeleted(s)
    BY <1>b, <2>1, <2>2, <2>4, <2>5
  <2>7. issued' = issued \cup {r}
    BY <2>1, <2>2
  <2> QED BY <1>a, <2>1, <2>2, <2>6, <2>7, WritingHeralded
<1>6. CASE CommitDelete(w)
  <2>1. r \in Ids \ Exams /\ r \in issued
    BY <1>0, <1>6 DEF Carries, CommitDelete
  <2>2. CASE ChildrenOf(r) # {}
    <3>1. Replies(w) /\ UNCHANGED <<rows, issued>>
      BY <1>6, <2>2 DEF CommitDelete
    <3>2. \A s \in issued : StaysDeleted(s)
      BY <3>1 DEF StaysDeleted
    <3> QED BY <3>1, <3>2, GoingOnUnheard DEF Replies, Steps
  <2>3. CASE ChildrenOf(r) = {}
    <3>1. rows' = [rows EXCEPT ![r] = None] /\ Replies(w) /\ issued' = issued
      BY <1>6, <2>3 DEF CommitDelete
    <3>2. rows[r] # None => ~rows[r].deleted
      <4> SUFFICES ASSUME rows[r] # None PROVE ~rows[r].deleted
        OBVIOUS
      <4>1. IsRow(r, rows[r])
        BY <2>1, StoredRow DEF IInv
      <4>2. rows[r] \in Provider \cup ProductVersion \cup Course \cup Topic
        BY <2>1, <4>1 DEF IsRow
      <4> QED BY <4>2 DEF Provider, ProductVersion, Course, Topic, Row
    <3>3. \A s \in issued : StaysDeleted(s)
      BY <1>b, <2>1, <3>1, <3>2
    <3>4. issued' = issued \cup {r}
      BY <2>1, <3>1
    <3> QED BY <1>a, <2>1, <3>1, <3>3, <3>4, WritingHeralded
  <2> QED BY <2>2, <2>3
<1> QED BY <1>1, <1>2, <1>3, <1>4, <1>5, <1>6 DEF Serve

\* The seeds: an id that is free has no row.
LEMMA StartHeralded == Init => Heralded
<1> SUFFICES ASSUME Init PROVE Heralded
  OBVIOUS
<1> PICK seed \in Seeds :
      /\ rows = [r \in Ids |-> IF r \in DOMAIN seed.rows THEN seed.rows[r] ELSE None]
      /\ issued = Ids \ seed.free
  BY DEF Init
<1>1. \A w \in Workers : pc[w] = "idle"
  BY DEF Init
<1>2. \A r \in DOMAIN seed.rows : r \notin seed.free
  BY SeedsAssumption
<1> QED BY <1>1, <1>2 DEF Heralded

\* Every step of every request keeps the ids heralded and the deletions.
LEMMA StepHeralded ==
  IInv /\ Heralded /\ [Next]_vars => Heralded' /\ \A s \in issued : StaysDeleted(s)
<1> SUFFICES ASSUME IInv, Heralded, [Next]_vars
             PROVE  Heralded' /\ \A s \in issued : StaysDeleted(s)
  OBVIOUS
<1>1. CASE Next
  <2> PICK w \in Workers :
        \/ ProviderRoutes(w) \/ ProductVersionRoutes(w) \/ CourseRoutes(w)
        \/ ExamRoutes(w) \/ TopicRoutes(w)
        \/ Serve(w) \/ Fail(w)
    BY <1>1 DEF Next
  <2>1. CASE \/ ProviderRoutes(w) \/ ProductVersionRoutes(w) \/ CourseRoutes(w)
             \/ ExamRoutes(w) \/ TopicRoutes(w)
    <3>1. Heralded' /\ UNCHANGED rows
      BY <2>1, RoutingHeralded
    <3> QED BY <3>1 DEF StaysDeleted
  <2>2. CASE Serve(w)
    BY <2>2, ServingHeralded
  <2>3. CASE Fail(w)
    <3>1. Replies(w) /\ UNCHANGED <<rows, issued>>
      BY <2>3 DEF Fail
    <3>2. \A s \in issued : StaysDeleted(s)
      BY <3>1 DEF StaysDeleted
    <3> QED BY <3>1, <3>2, GoingOnUnheard DEF Replies, Steps
  <2> QED BY <2>1, <2>2, <2>3
<1>2. CASE UNCHANGED vars
  BY <1>2 DEF vars, Heralded, StaysDeleted
<1> QED BY <1>1, <1>2

\* Deleting is final, whichever edits, publications and deletions overlap: what
\* an administrator decided on before a soft deletion does not bring the exam
\* back, and an id whose row is gone never has one again.
THEOREM DeletionIsFinal == Spec => DeletedStays
<1>1. IInv /\ Heralded /\ [Next]_vars => Heralded'
  BY StepHeralded
<1>2. IInv /\ Heralded /\ [Next]_vars =>
        [\A r \in issued :
           /\ rows[r] = None => rows'[r] = None
           /\ rows[r] # None /\ rows[r].deleted => rows'[r] # None /\ rows'[r].deleted]_vars
  BY StepHeralded DEF StaysDeleted
<1> QED BY <1>1, <1>2, InOrder, StartHeralded, PTL DEF Spec, DeletedStays

-----------------------------------------------------------------------------
(* The keys                                                                 *)

\* Who has flushed an insert or an update, and of which id.
LEMMA FlushedRow ==
  ASSUME IInv, Heralded, NEW w \in Workers, InFlight(w)
  PROVE  /\ job[w].row \in Ids /\ job[w].slug \in Slugs
         /\ pc[w] = "commit create" =>
              /\ rows[job[w].row] = None /\ job[w].row \notin issued
              /\ Flushed(job[w]) = job[w].loaded
         /\ pc[w] = "commit update" => rows[job[w].row] # None
<1>0. Carries(pc[w], job[w]) /\ job[w] \in Job
  BY DEF IInv, TypeOK, Job
<1>1. CASE pc[w] = "commit create"
  <2>1. job[w].row \in Ids /\ job[w].loaded \in AnyRow /\ job[w].loaded.slug \in Slugs
    BY <1>0, <1>1, RowSet DEF Carries
  <2>2. job[w].row \notin issued /\ job[w].slug = job[w].loaded.slug
    BY <1>1 DEF Heralded
  <2>3. rows[job[w].row] = None
    BY <2>1, <2>2 DEF Heralded
  <2>4. Flushed(job[w]) = job[w].loaded
    BY <2>1, <2>2 DEF Flushed, AnyRow, Provider, ProductVersion, Course, Exam, Topic, Row
  <2> QED BY <1>1, <2>1, <2>2, <2>3, <2>4
<1>2. CASE pc[w] = "commit update"
  <2>1. job[w].row \in Ids /\ job[w].slug \in Slugs /\ rows[job[w].row] # None
    BY <1>0, <1>2 DEF Carries
  <2> QED BY <1>2, <2>1 DEF InFlight
<1> QED BY <1>1, <1>2 DEF InFlight

\* A request goes on without writing: the key it claims, if any, is new.
LEMMA GoingOnClaimed ==
  ASSUME IInv, Heralded, KInv, NEW w \in Workers, NEW step \in Steps, NEW j,
         GoesOn(w, step, j), UNCHANGED <<rows, issued>>,
         step \in {"commit create", "commit update"} =>
           /\ ~UsedBesides(j.row, Key(j.row, Flushed(j)))
           /\ \A v \in Workers \ {w} : InFlight(v) =>
                Claim(v) # Key(j.row, Flushed(j)) /\ job[v].row # j.row,
         step = "commit update" => j.loaded = rows[j.row]
  PROVE  KInv'
<1>1. \A v \in Workers : /\ pc'[v] = IF v = w THEN step ELSE pc[v]
                         /\ job'[v] = IF v = w THEN j ELSE job[v]
  BY DEF IInv, TypeOK, GoesOn
<1>2. ASSUME NEW v \in Workers, v # w
      PROVE  (InFlight(v)' <=> InFlight(v)) /\ Claim(v)' = Claim(v) /\ job'[v] = job[v]
  BY <1>1, <1>2 DEF InFlight, Claim, Key, Flushed
<1>3. InFlight(w)' => /\ step \in {"commit create", "commit update"}
                      /\ Claim(w)' = Key(j.row, Flushed(j)) /\ job'[w] = j
  BY <1>1 DEF InFlight, Claim, Key, Flushed
<1>a. ASSUME NEW v \in Workers, InFlight(v)'
      PROVE  ~UsedBesides(job[v].row, Claim(v))'
  <2>1. CASE v = w
    BY <1>3, <1>a, <2>1 DEF UsedBesides, Key
  <2>2. CASE v # w
    <3>1. ~UsedBesides(job[v].row, Claim(v))
      BY <1>2, <1>a, <2>2 DEF KInv, Claimed
    <3> QED BY <1>2, <2>2, <3>1 DEF UsedBesides, Key
  <2> QED BY <2>1, <2>2
<1>4. ASSUME NEW v \in Workers, NEW u \in Workers, v # u, InFlight(v)', InFlight(u)'
      PROVE  Claim(v)' # Claim(u)' /\ job'[v].row # job'[u].row
  <2>1. CASE v = w
    <3>1. InFlight(u) /\ Claim(u)' = Claim(u) /\ job'[u] = job[u]
      BY <1>2, <1>4, <2>1
    <3> QED BY <1>3, <1>4, <2>1, <3>1
  <2>2. CASE u = w
    <3>1. InFlight(v) /\ Claim(v)' = Claim(v) /\ job'[v] = job[v]
      BY <1>2, <1>4, <2>2
    <3> QED BY <1>3, <1>4, <2>2, <3>1
  <2>3. CASE v # w /\ u # w
    <3>1. InFlight(v) /\ InFlight(u)
      BY <1>2, <1>4, <2>3
    <3>2. Claim(v) # Claim(u) /\ job[v].row # job[u].row
      BY <1>4, <3>1 DEF KInv, Claimed
    <3> QED BY <1>2, <2>3, <3>2
  <2> QED BY <2>1, <2>2, <2>3
<1>5. ASSUME NEW v \in Workers, pc'[v] = "commit update"
      PROVE  job'[v].loaded = rows'[job'[v].row]
  BY <1>1, <1>5 DEF KInv, Claimed
<1>6. Claimed'
  BY <1>a, <1>4, <1>5 DEF Claimed
<1>7. SlugsApart'
  BY DEF KInv, SlugsApart, Key
<1> QED BY <1>6, <1>7 DEF KInv

\* A request commits a row with a key that is nobody else's, or deletes one;
\* nobody has flushed anything about that row.
LEMMA WritingClaimed ==
  ASSUME IInv, Heralded, KInv, NEW w \in Workers, NEW r \in Ids, NEW x,
         rows' = [rows EXCEPT ![r] = x], Replies(w),
         x # None => ~UsedBesides(r, Key(r, x)),
         \A v \in Workers \ {w} : InFlight(v) =>
           job[v].row # r /\ (x # None => Claim(v) # Key(r, x))
  PROVE  KInv'
<1>1. \A v \in Workers : /\ pc'[v] = IF v = w THEN "idle" ELSE pc[v]
                         /\ job'[v] = IF v = w THEN NoJob ELSE job[v]
  BY DEF IInv, TypeOK, Replies, GoesOn
<1>2. \A s \in Ids : rows'[s] = IF s = r THEN x ELSE rows[s]
  BY DEF IInv, TypeOK
<1>3. \A v \in Workers : InFlight(v)' => /\ v # w /\ InFlight(v) /\ job'[v] = job[v]
                                         /\ Claim(v)' = Claim(v) /\ job[v].row \in Ids
  BY <1>1, FlushedRow DEF InFlight, Claim, Key, Flushed
<1>4. ASSUME NEW v \in Workers, InFlight(v)'
      PROVE  ~UsedBesides(job[v].row, Claim(v))'
  <2> SUFFICES ASSUME NEW s \in Ids \ {job[v].row}, rows'[s] # None
               PROVE  Key(s, rows'[s]) # Claim(v)
    BY <1>3, <1>4 DEF UsedBesides, Key
  <2>1. CASE s = r
    BY <1>2, <1>3, <1>4, <2>1
  <2>2. CASE s # r
    <3>1. ~UsedBesides(job[v].row, Claim(v))
      BY <1>3, <1>4 DEF KInv, Claimed
    <3> QED BY <1>2, <2>2, <3>1 DEF UsedBesides
  <2> QED BY <2>1, <2>2
<1>5. ASSUME NEW v \in Workers, NEW u \in Workers, v # u, InFlight(v)', InFlight(u)'
      PROVE  Claim(v)' # Claim(u)' /\ job'[v].row # job'[u].row
  <2>1. Claim(v) # Claim(u) /\ job[v].row # job[u].row
    BY <1>3, <1>5 DEF KInv, Claimed
  <2> QED BY <1>3, <1>5, <2>1
<1>6. ASSUME NEW v \in Workers, pc'[v] = "commit update"
      PROVE  job'[v].loaded = rows'[job'[v].row]
  <2>1. /\ v # w /\ InFlight(v) /\ job'[v] = job[v] /\ job[v].row \in Ids /\ job[v].row # r
        /\ pc[v] = "commit update"
    BY <1>1, <1>3, <1>6 DEF InFlight
  <2>2. job[v].loaded = rows[job[v].row]
    BY <2>1 DEF KInv, Claimed
  <2> QED BY <1>2, <2>1, <2>2
<1>7. Claimed'
  BY <1>4, <1>5, <1>6 DEF Claimed
<1>8. SlugsApart'
  <2> SUFFICES ASSUME NEW s \in Ids, NEW t \in Ids, s # t, rows'[s] # None, rows'[t] # None
               PROVE  Key(s, rows'[s]) # Key(t, rows'[t])
    BY DEF SlugsApart, Key
  <2>1. rows[s] # None /\ rows[t] # None => Key(s, rows[s]) # Key(t, rows[t])
    BY DEF KInv, SlugsApart
  <2>2. CASE s = r
    BY <1>2, <2>2 DEF UsedBesides
  <2>3. CASE t = r
    BY <1>2, <2>3 DEF UsedBesides
  <2> QED BY <1>2, <2>1, <2>2, <2>3
<1> QED BY <1>7, <1>8 DEF KInv

\* A stored row keeps its own key to itself.
LEMMA OwnKey ==
  ASSUME IInv, Heralded, KInv, NEW r \in Ids, rows[r] # None
  PROVE  /\ ~UsedBesides(r, Key(r, rows[r]))
         /\ \A v \in Workers : InFlight(v) /\ job[v].row # r => Claim(v) # Key(r, rows[r])
<1>1. ~UsedBesides(r, Key(r, rows[r]))
  BY DEF UsedBesides, KInv, SlugsApart
<1>2. ASSUME NEW v \in Workers, InFlight(v), job[v].row # r
      PROVE  Claim(v) # Key(r, rows[r])
  BY <1>2 DEF KInv, Claimed, UsedBesides
<1> QED BY <1>1, <1>2

\* A key that is neither used nor waited for is new.
LEMMA NewKey ==
  ASSUME IInv, Heralded, KInv, NEW w \in Workers, NEW r, NEW key,
         ~KeyInFlight(w, key), ~UsedBesides(r, key)
  PROVE  \A v \in Workers \ {w} : InFlight(v) /\ job[v].row # r => Claim(v) # key
<1> SUFFICES ASSUME NEW v \in Workers \ {w}, InFlight(v), job[v].row # r
             PROVE  Claim(v) # key
  OBVIOUS
<1>1. CASE pc[v] = "commit create"
  BY <1>1 DEF KeyInFlight, Claim, Flushed
<1>2. CASE pc[v] = "commit update" /\ Flushed(job[v]) # job[v].loaded
  BY <1>2 DEF KeyInFlight, Claim, Flushed
<1>3. CASE pc[v] = "commit update" /\ Flushed(job[v]) = job[v].loaded
  <2>1. Claim(v) = Key(job[v].row, rows[job[v].row])
    BY <1>3 DEF Claim, KInv, Claimed
  <2>2. job[v].row \in Ids /\ rows[job[v].row] # None
    BY <1>3, FlushedRow
  <2> QED BY <2>1, <2>2 DEF UsedBesides
<1> QED BY <1>1, <1>2, <1>3 DEF InFlight

\* Requests begin: an insert waits for its key, anything else claims none.
LEMMA RoutingClaimed ==
  ASSUME IInv, Heralded, KInv, NEW w \in Workers,
         \/ ProviderRoutes(w) \/ ProductVersionRoutes(w) \/ CourseRoutes(w)
         \/ ExamRoutes(w) \/ TopicRoutes(w)
  PROVE  KInv'
<1>1. ASSUME NEW r \in Ids, NEW parent, NEW slug \in Slugs, Insert(w, r, parent, slug)
      PROVE  KInv'
  <2> DEFINE new == [parent |-> parent, slug |-> slug, published |-> FALSE, deleted |-> FALSE]
             j == [row |-> r, loaded |-> new, slug |-> slug]
  <2>1. /\ \A v \in Workers : job[v].row # r
        /\ ~KeyInFlight(w, Key(r, new)) /\ ~UsedBesides(r, Key(r, new))
        /\ GoesOn(w, "commit create", j) /\ UNCHANGED <<rows, issued>>
    BY <1>1 DEF Insert
  <2>2. Flushed(j) = new /\ j.row = r /\ "commit create" \in Steps
    <3>1. new \in Row({parent}, {FALSE}) /\ new.slug = slug
      BY DEF Row
    <3>2. j.row = r /\ j.loaded = new /\ j.slug = slug
      OBVIOUS
    <3> HIDE DEF new, j
    <3>3. [new EXCEPT !.slug = slug] = new
      BY <3>1 DEF Row
    <3> QED BY <3>2, <3>3 DEF Flushed, Steps
  <2> HIDE DEF new, j
  <2>3. \A v \in Workers \ {w} : InFlight(v) => Claim(v) # Key(r, new)
    BY <2>1, NewKey
  <2> QED BY <2>1, <2>2, <2>3, GoingOnClaimed
<1>2. ASSUME NEW r \in Ids, NEW step \in LoadSteps, NEW slug, Load(w, r, step, slug)
      PROVE  KInv'
  <2> DEFINE j == [row |-> r, loaded |-> rows[r], slug |-> slug]
  <2>1. GoesOn(w, step, j) /\ UNCHANGED <<rows, issued>>
    BY <1>2 DEF Load
  <2>2. step \in Steps /\ step \notin {"commit create", "commit update"}
    BY DEF LoadSteps, Steps
  <2> HIDE DEF j
  <2> QED BY <2>1, <2>2, GoingOnClaimed
<1> QED BY <1>1, <1>2, Begins

\* An update is flushed: it waits for its row and, if it changes the key, for
\* the new one.
LEMMA FlushingClaimed ==
  ASSUME IInv, Heralded, KInv, NEW w \in Workers, FlushUpdate(w)
  PROVE  KInv'
<1> DEFINE r == job[w].row
           new == [rows[r] EXCEPT !.slug = Written(job[w].slug, job[w].loaded.slug, @)]
           j == [row |-> r, loaded |-> rows[r], slug |-> new.slug]
<1>1. CASE Replies(w)
  BY <1>1, GoingOnClaimed DEF FlushUpdate, Replies, Steps
<1>2. CASE ~Replies(w)
  <2>1. /\ rows[r] # None /\ ~RowLocked(w, r) /\ ~UsedBesides(r, Key(r, new))
        /\ new # rows[r] => ~KeyInFlight(w, Key(r, new))
        /\ GoesOn(w, "commit update", j) /\ UNCHANGED <<rows, issued>>
    BY <1>2 DEF FlushUpdate
  <2>2. r \in Ids
    BY DEF IInv, Carries, FlushUpdate
  <2>3. rows[r] \in AnyRow
    BY <2>1, <2>2, StoredRow DEF IInv
  <2>4. Flushed(j) = new /\ j.row = r /\ j.loaded = rows[r]
    BY <2>3 DEF Flushed, AnyRow, Provider, ProductVersion, Course, Exam, Topic, Row
  <2>5. "commit update" \in Steps
    BY DEF Steps
  <2>i. r \in issued
    BY DEF Heralded, FlushUpdate
  <2> HIDE DEF r, new, j
  <2>6. ASSUME NEW v \in Workers \ {w}, InFlight(v)
        PROVE  job[v].row # r
    <3>1. pc[v] = "commit create" => job[v].row \notin issued
      BY <2>6 DEF Heralded
    <3>2. pc[v] = "commit update" => job[v].row # r
      BY <2>1, <2>6 DEF RowLocked
    <3> QED BY <2>6, <2>i, <3>1, <3>2 DEF InFlight
  <2>7. \A v \in Workers \ {w} : InFlight(v) => Claim(v) # Key(r, new)
    BY <2>1, <2>2, <2>6, NewKey, OwnKey
  <2> QED BY <2>1, <2>4, <2>5, <2>6, <2>7, GoingOnClaimed
<1> QED BY <1>1, <1>2

\* Requests commit: an insert and an update enter the key they claimed, nothing
\* else touches a key.
LEMMA ServingClaimed ==
  ASSUME IInv, Heralded, KInv, NEW w \in Workers, Serve(w)
  PROVE  KInv'
<1> DEFINE r == job[w].row
<1>0. Carries(pc[w], job[w])
  BY DEF IInv
<1>a. ASSUME InFlight(w)
      PROVE  /\ r \in Ids /\ ~UsedBesides(r, Claim(w))
             /\ \A v \in Workers \ {w} : InFlight(v) => job[v].row # r /\ Claim(v) # Claim(w)
  BY <1>a, FlushedRow DEF KInv, Claimed
<1>b. ASSUME NEW q \in issued, ~RowLocked(w, q), NEW v \in Workers \ {w}, InFlight(v)
      PROVE  job[v].row # q
  <2>1. pc[v] = "commit create" => job[v].row \notin issued
    BY <1>b DEF Heralded
  <2>2. pc[v] = "commit update" => job[v].row # q
    BY <1>b DEF RowLocked
  <2> QED BY <1>b, <2>1, <2>2 DEF InFlight
<1>1. CASE CommitCreate(w)
  <2>1. InFlight(w) /\ rows' = [rows EXCEPT ![r] = job[w].loaded] /\ Replies(w)
    BY <1>1 DEF CommitCreate, InFlight
  <2>2. Claim(w) = Key(r, job[w].loaded)
    BY <1>1, <2>1, FlushedRow DEF CommitCreate, Claim
  <2> HIDE DEF r
  <2> QED BY <1>a, <2>1, <2>2, WritingClaimed
<1>2. CASE FlushUpdate(w)
  BY <1>2, FlushingClaimed
<1>3. CASE CommitUpdate(w)
  <2> DEFINE x == [rows[r] EXCEPT !.slug = job[w].slug]
  <2>1. InFlight(w) /\ pc[w] = "commit update" /\ rows' = [rows EXCEPT ![r] = x] /\ Replies(w)
    BY <1>3 DEF CommitUpdate, InFlight
  <2>2. job[w].loaded = rows[r]
    BY <2>1 DEF KInv, Claimed
  <2>3. Claim(w) = Key(r, x)
    BY <2>2 DEF Claim, Flushed
  <2> HIDE DEF r, x
  <2> QED BY <1>a, <2>1, <2>3, WritingClaimed
<1>4. CASE CommitPublication(w) \/ CommitSoftDelete(w)
  <2> DEFINE x == IF CommitPublication(w)
                  THEN [rows[r] EXCEPT !.published = pc[w] = "publish"]
                  ELSE [rows[r] EXCEPT !.deleted = TRUE]
  <2>1. rows' = [rows EXCEPT ![r] = x] /\ Replies(w) /\ ~RowLocked(w, r)
    <3>1. CASE CommitPublication(w)
      <4>1. x = [rows[r] EXCEPT !.published = pc[w] = "publish"]
        BY <3>1
      <4> HIDE DEF x
      <4> QED BY <3>1, <4>1 DEF CommitPublication
    <3>2. CASE ~CommitPublication(w)
      <4>1. x = [rows[r] EXCEPT !.deleted = TRUE] /\ CommitSoftDelete(w)
        BY <1>4, <3>2
      <4> HIDE DEF x
      <4> QED BY <4>1 DEF CommitSoftDelete
    <3> QED BY <3>1, <3>2
  <2>2. r \in Exams /\ r \in Ids /\ rows[r] # None
    BY <1>0, <1>4, OfATable DEF Carries, CommitPublication, CommitSoftDelete
  <2>3. rows[r] \in Exam
    BY <2>2, StoredRow, Apart DEF IInv, IsRow
  <2>4. x.parent = rows[r].parent /\ x.slug = rows[r].slug
    BY <2>3 DEF Exam, Row
  <2>5. Key(r, x) = Key(r, rows[r])
    BY <2>4 DEF Key
  <2>i. r \in issued
    BY <1>4 DEF Heralded, CommitPublication, CommitSoftDelete
  <2> HIDE DEF r, x
  <2>6. \A v \in Workers \ {w} : InFlight(v) => job[v].row # r /\ Claim(v) # Key(r, x)
    BY <1>b, <2>1, <2>2, <2>i, <2>5, OwnKey
  <2> QED BY <2>1, <2>2, <2>5, <2>6, OwnKey, WritingClaimed
<1>5. CASE CommitDelete(w)
  <2>1. r \in Ids /\ r \in issued /\ ~RowLocked(w, r)
    BY <1>0, <1>5 DEF Carries, CommitDelete, Heralded
  <2>2. CASE ChildrenOf(r) # {}
    BY <1>5, <2>2, GoingOnClaimed DEF CommitDelete, Replies, Steps
  <2>3. CASE ChildrenOf(r) = {}
    <3>1. rows' = [rows EXCEPT ![r] = None] /\ Replies(w)
      BY <1>5, <2>3 DEF CommitDelete
    <3>2. \A v \in Workers \ {w} : InFlight(v) => job[v].row # r
      BY <1>b, <2>1
    <3> HIDE DEF r
    <3> QED BY <2>1, <3>1, <3>2, WritingClaimed
  <2> QED BY <2>2, <2>3
<1> QED BY <1>1, <1>2, <1>3, <1>4, <1>5 DEF Serve

\* The seeds use no slug twice, and nothing is in flight.
LEMMA StartClaimed == Init => KInv
<1> SUFFICES ASSUME Init PROVE KInv
  OBVIOUS
<1> PICK seed \in Seeds :
      rows = [r \in Ids |-> IF r \in DOMAIN seed.rows THEN seed.rows[r] ELSE None]
  BY DEF Init
<1>1. \A w \in Workers : ~InFlight(w) /\ pc[w] # "commit update"
  BY DEF Init, InFlight
<1>2. Claimed
  BY <1>1 DEF Claimed
<1>3. \A r, s \in DOMAIN seed.rows : Key(s, seed.rows[s]) = Key(r, seed.rows[r]) => s = r
  BY SeedsAssumption
<1>4. \A r \in Ids : rows[r] # None => r \in DOMAIN seed.rows /\ rows[r] = seed.rows[r]
  OBVIOUS
<1>5. SlugsApart
  BY <1>3, <1>4 DEF SlugsApart
<1> QED BY <1>2, <1>5 DEF KInv

\* Every step of every request keeps the keys apart.
LEMMA StepClaimed == IInv /\ Heralded /\ KInv /\ [Next]_vars => KInv'
<1> SUFFICES ASSUME IInv, Heralded, KInv, [Next]_vars PROVE KInv'
  OBVIOUS
<1>1. CASE Next
  <2> PICK w \in Workers :
        \/ ProviderRoutes(w) \/ ProductVersionRoutes(w) \/ CourseRoutes(w)
        \/ ExamRoutes(w) \/ TopicRoutes(w)
        \/ Serve(w) \/ Fail(w)
    BY <1>1 DEF Next
  <2>1. CASE \/ ProviderRoutes(w) \/ ProductVersionRoutes(w) \/ CourseRoutes(w)
             \/ ExamRoutes(w) \/ TopicRoutes(w)
    BY <2>1, RoutingClaimed
  <2>2. CASE Serve(w)
    BY <2>2, ServingClaimed
  <2>3. CASE Fail(w)
    BY <2>3, GoingOnClaimed DEF Fail, Replies, Steps
  <2> QED BY <2>1, <2>2, <2>3
<1>2. CASE UNCHANGED vars
  BY <1>2 DEF vars, KInv, Claimed, SlugsApart, InFlight, Claim, Flushed, UsedBesides, Key
<1> QED BY <1>1, <1>2

\* No slug is ever used twice under one parent: what the unique constraints
\* promise holds through overlapping creations and edits, of which each waits
\* for the keys the others have flushed, and through their failures.
THEOREM SlugsUnique == Spec => []SlugsApart
<1>1. IInv /\ Heralded /\ [Next]_vars /\ IInv' => Heralded'
  BY StepHeralded
<1>2. IInv /\ Heralded /\ KInv /\ [Next]_vars => KInv'
  BY StepClaimed
<1>3. KInv => SlugsApart
  BY DEF KInv
<1> QED BY <1>1, <1>2, <1>3, InOrder, StartHeralded, StartClaimed, PTL DEF Spec
=============================================================================
