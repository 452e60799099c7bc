------------------------------ MODULE Catalog ------------------------------
(***************************************************************************)
(* The catalog tree: providers with product versions and courses, courses  *)
(* with exams, exams with topics: app/services/catalog_service.py and the  *)
(* routes of app/routers/admin for the five tables.                        *)
(*                                                                         *)
(* A request is a transaction at READ COMMITTED.  Creating or editing a    *)
(* row flushes it in the service, where a slug used twice is refused, and  *)
(* commits in the route: in between others do not see the row but wait for *)
(* its slug and its locks.  Deleting or publishing flushes and commits in  *)
(* one step, on the word of what it read before.  A refused request (400,  *)
(* 404) changes nothing and is not an action.  Names, descriptions and     *)
(* dates are left out; a product version's name and version are its slug.  *)
(* So are the audit rows, which are read by the page of the log only.      *)
(***************************************************************************)
EXTENDS Naturals, FiniteSets

CONSTANTS
  Workers,                                             \* request threads
  Providers, ProductVersions, Courses, Exams, Topics,  \* ids of each table
  Slugs,
  Seeds, \* catalogs to begin with: sets of rows (ids not in play are in none)
  None   \* SQL NULL, or no row

Tables == {Providers, ProductVersions, Courses, Exams, Topics}
Ids == UNION Tables

ASSUME IdsAssumption ==
  LET T == <<Providers, ProductVersions, Courses, Exams, Topics>>
  IN \A i, j \in 1 .. 5 : None \notin T[i] /\ (i # j => T[i] \cap T[j] = {})

VARIABLES
  rows,   \* what is committed: per id its row, or None
  issued, \* ids that were given out to a row that was committed
  pc,     \* per worker: the next step of its request
  job     \* per worker: what its session has read and is about to write

vars == <<rows, issued, pc, job>>

-----------------------------------------------------------------------------

Row(parents, flags) ==
  [parent : parents, slug : Slugs, published : flags, deleted : flags]

Provider == Row({None}, {FALSE})
ProductVersion == Row(Providers, {FALSE})
Course == Row(Providers, {FALSE})
Exam == Row(Courses, BOOLEAN)
Topic == Row(Exams, {FALSE})
AnyRow == Provider \cup ProductVersion \cup Course \cup Exam \cup Topic

IsRow(r, x) ==
  \/ r \in Providers /\ x \in Provider
  \/ r \in ProductVersions /\ x \in ProductVersion
  \/ r \in Courses /\ x \in Course
  \/ r \in Exams /\ x \in Exam
  \/ r \in Topics /\ x \in Topic

TableOf(r) == CHOOSE T \in Tables : r \in T

\* Slugs are unique under one parent, soft-deleted exams included.
Key(r, row) == <<TableOf(r), row.parent, row.slug>>

\* The migrations create the tables with their foreign keys and their unique
\* constraints: there are no orphans to begin with, and no slug is used twice.
\* An id that is free has not been given out.
ASSUME SeedsAssumption ==
  /\ None \notin AnyRow
  /\ \A seed \in Seeds :
       /\ seed.free \cap DOMAIN seed.rows = {}
       /\ \A r \in DOMAIN seed.rows :
            LET x == seed.rows[r]
            IN /\ IsRow(r, x) /\ (x.parent # None => x.parent \in DOMAIN seed.rows)
               /\ \A s \in DOMAIN seed.rows : Key(s, seed.rows[s]) = Key(r, x) => s = r

Steps == {"idle", "commit create", "flush update", "commit update",
          "publish", "unpublish", "soft delete", "delete"}

NoJob == [row |-> None, loaded |-> None, slug |-> None]

Stored(table, type) == \A r \in table : rows[r] \in type \cup {None}

TypeOK ==
  /\ DOMAIN rows = Ids
  /\ Stored(Providers, Provider) /\ Stored(ProductVersions, ProductVersion)
  /\ Stored(Courses, Course) /\ Stored(Exams, Exam) /\ Stored(Topics, Topic)
  /\ issued \subseteq Ids
  /\ pc \in [Workers -> Steps]
  /\ job \in [Workers -> [row : Ids \cup {None}, loaded : AnyRow \cup {None},
                          slug : Slugs \cup {None}]]

\* Any of the seeds; an id that a seed does not hold and is not free belonged
\* to a row that was deleted.
Init ==
  /\ \E seed \in Seeds :
       /\ rows = [r \in Ids |-> IF r \in DOMAIN seed.rows THEN seed.rows[r] ELSE None]
       /\ issued = Ids \ seed.free
  /\ pc = [w \in Workers |-> "idle"]
  /\ job = [w \in Workers |-> NoJob]

-----------------------------------------------------------------------------
(* The database: keys, foreign keys and locks                               *)

UsedBesides(r, key) == \E s \in Ids \ {r} : rows[s] # None /\ Key(s, rows[s]) = key

\* Another transaction has flushed an insert or an update that enters the key
\* or gives it up: a write of the key waits for its outcome.
KeyInFlight(w, key) ==
  \E v \in Workers \ {w} :
    LET r == job[v].row
        old == job[v].loaded
        new == [old EXCEPT !.slug = job[v].slug]
    IN \/ pc[v] = "commit create" /\ key = Key(r, new)
       \/ pc[v] = "commit update" /\ new # old /\ key \in {Key(r, old), Key(r, new)}

\* Another transaction has flushed an update of the row.
RowLocked(w, r) ==
  \E v \in Workers \ {w} : pc[v] = "commit update" /\ job[v].row = r

\* The same, of its slug, part of a unique key: also the foreign keys wait.
KeyLocked(w, r) ==
  \E v \in Workers \ {w} : /\ pc[v] = "commit update" /\ job[v].row = r
                           /\ job[v].slug # job[v].loaded.slug

\* Another transaction has flushed a child of the row, and holds FOR KEY SHARE
\* on it.
ChildInFlight(w, r) ==
  \E v \in Workers \ {w} : pc[v] = "commit create" /\ job[v].loaded.parent = r

ChildrenOf(r) == {s \in Ids : rows[s] # None /\ rows[s].parent = r}

GoesOn(w, step, j) ==
  /\ pc' = [pc EXCEPT ![w] = step]
  /\ job' = [job EXCEPT ![w] = j]

Replies(w) == GoesOn(w, "idle", NoJob)

\* What the ORM makes of column = new when the session has loaded `loaded'.
Written(new, loaded, current) == IF new = loaded THEN current ELSE new

-----------------------------------------------------------------------------
(* Creating                                                                 *)

\* Mutant of Insert: the slug is looked up, not indexed.
InsertLookedUp(w, r, parent, slug) ==
  LET new == [parent |-> parent, slug |-> slug, published |-> FALSE, deleted |-> FALSE]
  IN /\ pc[w] = "idle"
     /\ r \notin issued /\ \A v \in Workers : job[v].row # r
     /\ parent # None => rows[parent] # None /\ ~KeyLocked(w, parent)
     /\ ~UsedBesides(r, Key(r, new))
     /\ GoesOn(w, "commit create", [row |-> r, loaded |-> new, slug |-> slug])
     /\ UNCHANGED <<rows, issued>>

\* The insert is flushed: it waits for an equal key in flight, is refused when
\* the key is used or the parent is not there, and locks the parent's key.
\* An id is given out once; that of an insert which is rolled back stands for a
\* fresh one.
Insert(w, r, parent, slug) ==
  LET new == [parent |-> parent, slug |-> slug, published |-> FALSE, deleted |-> FALSE]
  IN /\ pc[w] = "idle"
     /\ r \notin issued /\ \A v \in Workers : job[v].row # r
     /\ parent # None => rows[parent] # None /\ ~KeyLocked(w, parent)
     /\ ~KeyInFlight(w, Key(r, new)) /\ ~UsedBesides(r, Key(r, new))
     /\ GoesOn(w, "commit create", [row |-> r, loaded |-> new, slug |-> slug])
     /\ UNCHANGED <<rows, issued>>

CreateProvider(w, p, slug) == Insert(w, p, None, slug)
CreateProductVersion(w, v, p, slug) == Insert(w, v, p, slug)
CreateCourse(w, c, p, slug) == Insert(w, c, p, slug)
CreateExam(w, e, c, slug) == Insert(w, e, c, slug)

\* Mutant of CreateTopic: a blank slug is not made from the name.
CreateTopicBlank(w, t, e, slug) == Insert(w, t, e, None)

\* The exam may have been soft-deleted: its row is there.
CreateTopic(w, t, e, slug) == Insert(w, t, e, slug)

CommitCreate(w) ==
  LET j == job[w]
  IN /\ pc[w] = "commit create"
     /\ rows' = [rows EXCEPT ![j.row] = j.loaded]
     /\ issued' = issued \cup {j.row}
     /\ Replies(w)

-----------------------------------------------------------------------------
(* Editing                                                                  *)

Load(w, r, step, slug) ==
  /\ pc[w] = "idle"
  /\ rows[r] # None
  /\ GoesOn(w, step, [row |-> r, loaded |-> rows[r], slug |-> slug])
  /\ UNCHANGED <<rows, issued>>

UpdateProvider(w, p, slug) == Load(w, p, "flush update", slug)
UpdateProductVersion(w, v, slug) == Load(w, v, "flush update", slug)
UpdateCourse(w, c, slug) == Load(w, c, "flush update", slug)
UpdateExam(w, e, slug) ==
  rows[e] # None /\ ~rows[e].deleted /\ Load(w, e, "flush update", slug)
UpdateTopic(w, t, slug) == Load(w, t, "flush update", slug)

\* The UPDATE waits for the row, and if it changes the slug for new children and
\* for the key; it fails when the row is gone or the key is used.  What it
\* replaces is kept in the job from here on.  An edit that leaves the slug
\* changes another column.
FlushUpdate(w) ==
  LET j == job[w]
      r == j.row
      new == [rows[r] EXCEPT !.slug = Written(j.slug, j.loaded.slug, @)]
  IN /\ pc[w] = "flush update"
     /\ ~RowLocked(w, r)
     /\ IF rows[r] = None THEN Replies(w)
        ELSE /\ new # rows[r] => ~ChildInFlight(w, r) /\ ~KeyInFlight(w, Key(r, new))
             /\ IF UsedBesides(r, Key(r, new)) THEN Replies(w)
                ELSE GoesOn(w, "commit update",
                            [row |-> r, loaded |-> rows[r], slug |-> new.slug])
     /\ UNCHANGED <<rows, issued>>

CommitUpdate(w) ==
  /\ pc[w] = "commit update"
  /\ rows' = [rows EXCEPT ![job[w].row].slug = job[w].slug]
  /\ Replies(w)
  /\ UNCHANGED issued

-----------------------------------------------------------------------------
(* Publishing and soft-deleting exams                                       *)

\* A published exam is left as it is.
PublishExam(w, e) ==
  /\ rows[e] # None /\ ~rows[e].deleted /\ ~rows[e].published
  /\ Load(w, e, "publish", None)

UnpublishExam(w, e) ==
  /\ rows[e] # None /\ ~rows[e].deleted /\ rows[e].published
  /\ Load(w, e, "unpublish", None)

SoftDeleteExam(w, e) ==
  rows[e] # None /\ ~rows[e].deleted /\ Load(w, e, "soft delete", None)

\* Mutant of CommitPublication: every column the session has loaded is written.
CommitWholeExam(w) ==
  LET r == job[w].row
  IN /\ pc[w] \in {"publish", "unpublish"}
     /\ ~RowLocked(w, r)
     /\ rows' = [rows EXCEPT ![r] =
                   [job[w].loaded EXCEPT !.published = pc[w] = "publish"]]
     /\ Replies(w)
     /\ UNCHANGED issued

\* Only the column that was set is written, whatever has become of the others.
CommitPublication(w) ==
  LET r == job[w].row
  IN /\ pc[w] \in {"publish", "unpublish"}
     /\ ~RowLocked(w, r)
     /\ rows' = [rows EXCEPT ![r].published = pc[w] = "publish"]
     /\ Replies(w)
     /\ UNCHANGED issued

CommitSoftDelete(w) ==
  LET r == job[w].row
  IN /\ pc[w] = "soft delete"
     /\ ~RowLocked(w, r)
     /\ rows' = [rows EXCEPT ![r].deleted = TRUE]
     /\ Replies(w)
     /\ UNCHANGED issued

-----------------------------------------------------------------------------
(* Deleting rows: the children are looked at when the request begins        *)

\* Product versions are not looked for.
DeleteProvider(w, p) ==
  ChildrenOf(p) \cap Courses = {} /\ Load(w, p, "delete", None)
DeleteProductVersion(w, v) == Load(w, v, "delete", None)
\* Soft-deleted exams do not count.
DeleteCourse(w, c) ==
  (\A e \in ChildrenOf(c) : rows[e].deleted) /\ Load(w, c, "delete", None)
DeleteTopic(w, t) == Load(w, t, "delete", None)

\* Mutant of CommitDelete: no foreign key.
CommitCheckedDelete(w) ==
  LET r == job[w].row
  IN /\ pc[w] = "delete"
     /\ ~RowLocked(w, r) /\ ~ChildInFlight(w, r)
     /\ rows' = [rows EXCEPT ![r] = None]
     /\ Replies(w)
     /\ UNCHANGED issued

\* The DELETE waits for the row and for children in flight; the foreign keys
\* (ON DELETE RESTRICT) refuse it while there is any child.  A row that is gone
\* already is deleted again without complaint.
CommitDelete(w) ==
  LET r == job[w].row
  IN /\ pc[w] = "delete"
     /\ ~RowLocked(w, r) /\ ~ChildInFlight(w, r)
     /\ IF ChildrenOf(r) # {}
        THEN UNCHANGED rows
        ELSE rows' = [rows EXCEPT ![r] = None]
     /\ Replies(w)
     /\ UNCHANGED issued

\* A restart or a lost connection: the transaction is rolled back.
Fail(w) ==
  /\ pc[w] # "idle"
  /\ Replies(w)
  /\ UNCHANGED <<rows, issued>>

-----------------------------------------------------------------------------

ProviderRoutes(w) ==
  \E p \in Providers :
    \/ \E slug \in Slugs : CreateProvider(w, p, slug) \/ UpdateProvider(w, p, slug)
    \/ DeleteProvider(w, p)

ProductVersionRoutes(w) ==
  \E v \in ProductVersions :
    \/ \E slug \in Slugs : \/ \E p \in Providers : CreateProductVersion(w, v, p, slug)
                           \/ UpdateProductVersion(w, v, slug)
    \/ DeleteProductVersion(w, v)

CourseRoutes(w) ==
  \E c \in Courses :
    \/ \E slug \in Slugs : \/ \E p \in Providers : CreateCourse(w, c, p, slug)
                           \/ UpdateCourse(w, c, slug)
    \/ DeleteCourse(w, c)

ExamRoutes(w) ==
  \E e \in Exams :
    \/ \E slug \in Slugs : \/ \E c \in Courses : CreateExam(w, e, c, slug)
                           \/ UpdateExam(w, e, slug)
    \/ PublishExam(w, e) \/ UnpublishExam(w, e) \/ SoftDeleteExam(w, e)

TopicRoutes(w) ==
  \E t \in Topics :
    \/ \E slug \in Slugs : \/ \E e \in Exams : CreateTopic(w, t, e, slug)
                           \/ UpdateTopic(w, t, slug)
    \/ DeleteTopic(w, t)

Serve(w) ==
  \/ CommitCreate(w) \/ FlushUpdate(w) \/ CommitUpdate(w)
  \/ CommitPublication(w) \/ CommitSoftDelete(w) \/ CommitDelete(w)

Next ==
  \E w \in Workers :
    \/ ProviderRoutes(w) \/ ProductVersionRoutes(w) \/ CourseRoutes(w)
    \/ ExamRoutes(w) \/ TopicRoutes(w)
    \/ Serve(w) \/ Fail(w)

Spec == Init /\ [][Next]_vars

-----------------------------------------------------------------------------

\* Every row hangs on its parent: a course deleted while an exam is created
\* under it, or a provider while a course or a product version is, never leaves
\* an orphan, though the check for children is made long before the DELETE.
NoOrphans ==
  \A r \in Ids : rows[r] # None /\ rows[r].parent # None => rows[rows[r].parent] # None

\* Two rows of one table under one parent never share a slug: links made of
\* slugs are unambiguous, whichever creates and edits overlap or fail.
SlugsApart ==
  \A r, s \in Ids : rows[r] # None /\ rows[s] # None /\ Key(r, rows[r]) = Key(s, rows[s])
                    => r = s

\* Deleting is final: an edit or a publication decided on before a soft deletion
\* does not bring the exam back when it commits after it, and a row that was
\* deleted is never there again.
DeletedStays ==
  [][\A r \in issued :
       /\ rows[r] = None => rows'[r] = None
       /\ rows[r] # None /\ rows[r].deleted => rows'[r] # None /\ rows'[r].deleted]_vars

=============================================================================
