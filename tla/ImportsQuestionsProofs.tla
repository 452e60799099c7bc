----------------------- MODULE ImportsQuestionsProofs -----------------------
(***************************************************************************)
(* What imports publish: the questions of the exam, the rows they come     *)
(* from, and their community sources.                                      *)
(*                                                                         *)
(* However requests overlap, questions and items agree (Agree), and a      *)
(* source belongs to a question whose row names its discussion.  For the   *)
(* latter a confirm must have found, and written, sources of the           *)
(* discussion of its rows only (LinksFit), and no two confirms may make    *)
(* the same one (Claims); who holds a lock does not matter.                *)
(*                                                                         *)
(* When one request at a time works on an import (SerialImports), what a   *)
(* request has read of its rows is still so when it commits (Sure), and a  *)
(* row is `imported' exactly when it has its only question (Once).  If it  *)
(* also has every selected row, in row order (Complete), its commit is the *)
(* confirm that ImportLifecycle promises.                                  *)
(***************************************************************************)
EXTENDS ImportsProofs

-----------------------------------------------------------------------------
(* However the requests overlap                                             *)

\* A row that has a question.
RowLinked(i, r) == r \in DOMAIN items[i] /\ items[i][r].question # None

\* Questions of an import can be answered, and are published with the links of
\* their rows.
QuestionsLinked ==
  \A q \in DOMAIN questions : questions[q].from # None =>
    /\ HasAnswer(questions[q])
    /\ \A i \in ImportIds, r \in Nat : questions[q].from = <<i, r>> => RowLinked(i, r)

\* An item points to the question that was made of it.
ItemsLinked ==
  \A i \in ImportIds : \A r \in DOMAIN items[i] : items[i][r].question # None =>
    /\ items[i][r].question \in DOMAIN questions
    /\ questions[items[i][r].question].from = <<i, r>>
    /\ questions[items[i][r].question].hash = items[i][r].canonical.hash

\* Valid rows of an import that are no duplicates differ in content.
ItemsApart ==
  \A i \in ImportIds : \A r, p \in DOMAIN items[i] :
    /\ Live(i, r) /\ Live(i, p)
    /\ items[i][r].canonical.hash = items[i][p].canonical.hash
    => r = p

Agree == QuestionsLinked /\ ItemsLinked /\ ItemsApart

\* All but three operations leave items and questions alone.
LEMMA Writers ==
  ASSUME [Next]_vars
  PROVE  \/ UNCHANGED <<items, questions>>
         \/ \E w \in Workers : StageItems(w) \/ CommitToggle(w) \/ CommitConfirm(w)
<1>1. CASE UNCHANGED vars
  BY <1>1 DEF vars
<1>2. ASSUME NEW w \in Workers, Request(w)
      PROVE  UNCHANGED <<items, questions>>
  BY <1>2 DEF Request, Upload, SaveMapping, ToggleRow, Confirm, tables
<1>3. ASSUME NEW w \in Workers, Serve(w)
      PROVE  \/ UNCHANGED <<items, questions>>
             \/ StageItems(w) \/ CommitToggle(w) \/ CommitConfirm(w)
  BY <1>3 DEF Serve, CommitUpload, ReadHashes, ReadItems, FlushMark, FindSource,
              ConvertItem, FailItem, BreakDeadlock, tables
<1>4. ASSUME NEW w \in Workers, Fail(w)
      PROVE  UNCHANGED <<items, questions>>
  BY <1>4 DEF Fail, tables
<1> QED
  BY <1>1, <1>2, <1>3, <1>4 DEF Next

\* A commit appends the new questions to those of the exam.
Joined(s, t, u, n, m) ==
  /\ n = Len(s) /\ DOMAIN s = 1..n /\ DOMAIN t = 1..m /\ DOMAIN u = 1..(n + m)
  /\ \A q \in 1..n : q \in 1..(n + m) /\ u[q] = s[q]
  /\ \A k \in 1..m : n + k \in 1..(n + m) /\ u[n + k] = t[k]
  /\ \A q \in 1..(n + m) : q \in 1..n \/ \E k \in 1..m : q = n + k

LEMMA Appended ==
  ASSUME NEW s \in Seq(Question), NEW t \in Seq(Question)
  PROVE  \E n, m \in Nat : Joined(s, t, s \o t, n, m)
<1>1. PICK n, m \in Nat : n = Len(s) /\ m = Len(t) /\ DOMAIN s = 1..n /\ DOMAIN t = 1..m
  BY LenProperties
<1>2. PICK u : u = s \o t
  OBVIOUS
<1>3. /\ Len(u) = n + m /\ u \in Seq(Question)
      /\ \A q \in 1..(n + m) : u[q] = IF q <= n THEN s[q] ELSE t[q - n]
  BY <1>1, <1>2, ConcatProperties
<1>4. DOMAIN u = 1..(n + m)
  BY <1>3, LenProperties
<1>5. \A q \in 1..n : q \in 1..(n + m) /\ u[q] = s[q]
  BY <1>1, <1>3
<1>6. \A k \in 1..m : n + k \in 1..(n + m) /\ u[n + k] = t[k]
  <2> TAKE k \in 1..m
  <2>1. n + k \in 1..(n + m) /\ ~(n + k <= n) /\ (n + k) - n = k
    BY <1>1
  <2> QED
    BY <1>3, <2>1
<1>7. \A q \in 1..(n + m) : q \in 1..n \/ \E k \in 1..m : q = n + k
  <2> TAKE q \in 1..(n + m)
  <2>1. CASE q > n
    <3>1. q - n \in 1..m /\ q = n + (q - n)
      BY <1>1, <2>1
    <3> QED
      BY <3>1
  <2>2. CASE ~(q > n)
    BY <1>1, <2>2
  <2> QED
    BY <2>1, <2>2
<1>8. Joined(s, t, u, n, m)
  BY <1>1, <1>4, <1>5, <1>6, <1>7 DEF Joined
<1> QED
  BY <1>2, <1>8

LEMMA QuietAgree ==
  ASSUME Base, Agree, Grows, UNCHANGED <<items, questions>>
  PROVE  Agree'
<1>1. \A i, r : RowLinked(i, r)' <=> RowLinked(i, r)
  BY DEF RowLinked
<1>2. \A i, r : Live(i, r)' <=> Live(i, r)
  BY DEF Live
<1>3. \A q : HasAnswer(questions'[q]) <=> HasAnswer(questions[q])
  OBVIOUS
<1> QED
  BY <1>1, <1>2, <1>3 DEF Agree, QuestionsLinked, ItemsLinked, ItemsApart

LEMMA StageItemsAgree ==
  ASSUME Base, Agree, Grows, NEW w \in Workers, StageItems(w)
  PROVE  Agree'
<1>1. UNCHANGED questions
  BY DEF StageItems
<1>2. CASE UNCHANGED <<imports, items>>
  BY <1>1, <1>2, QuietAgree
<1>3. ASSUME NEW i \in ImportIds, NEW rows \in Seq(Canonicals), NEW known, Stages(i, rows, known)
      PROVE  Agree'
  <2>1. PICK staged : staged = Staged(rows, known)
    OBVIOUS
  <2>2. PICK n \in Nat : DOMAIN rows = 1..n
    BY LenProperties
  <2>3. /\ DOMAIN staged = 1..n
        /\ \A r \in 1..n :
             /\ staged[r].canonical = rows[r] /\ staged[r].question = None
             /\ staged[r].status # "duplicate" /\ rows[r].verdict = "ok" =>
                  \A p \in 1..(r - 1) : rows[p].verdict = "ok" => rows[p].hash # rows[r].hash
    BY <2>1, <2>2, StagedRows
  <2>4. /\ items[i] = << >> /\ items'[i] = staged
        /\ \A k \in ImportIds \ {i} : items'[k] = items[k]
    BY <1>3, <2>1 DEF Stages, Base, Typed
  <2>5. \A k \in ImportIds, r \in Nat : RowLinked(k, r) => RowLinked(k, r)'
    BY <2>4 DEF RowLinked
  <2>6. \A q \in DOMAIN questions' : questions'[q].from # None =>
          /\ HasAnswer(questions'[q])
          /\ \A k \in ImportIds, r \in Nat :
               questions'[q].from = <<k, r>> => RowLinked(k, r)'
    BY <1>1, <2>5 DEF Agree, QuestionsLinked
  <2>7. \A k \in ImportIds : \A r \in DOMAIN items'[k] : items'[k][r].question # None =>
          /\ items'[k][r].question \in DOMAIN questions'
          /\ questions'[items'[k][r].question].from = <<k, r>>
          /\ questions'[items'[k][r].question].hash = items'[k][r].canonical.hash
    <3> TAKE k \in ImportIds
    <3>1. CASE k = i
      BY <2>3, <2>4, <3>1
    <3>2. CASE k # i
      BY <1>1, <2>4, <3>2 DEF Agree, ItemsLinked
    <3> QED
      BY <3>1, <3>2
  <2>8. \A k \in ImportIds : \A r, p \in DOMAIN items'[k] :
          /\ Live(k, r)' /\ Live(k, p)'
          /\ items'[k][r].canonical.hash = items'[k][p].canonical.hash
          => r = p
    <3> TAKE k \in ImportIds
    <3>1. CASE k = i
      <4> SUFFICES ASSUME NEW r \in 1..n, NEW p \in 1..n,
                          Live(k, r)', Live(k, p)', rows[r].hash = rows[p].hash
                   PROVE  r = p
        BY <2>3, <2>4, <3>1
      <4>1. /\ staged[r].status # "duplicate" /\ rows[r].verdict = "ok"
            /\ staged[p].status # "duplicate" /\ rows[p].verdict = "ok"
        BY <2>3, <2>4, <3>1 DEF Live
      <4>2. ~(p < r)
        <5>1. p < r => p \in 1..(r - 1)
          OBVIOUS
        <5> QED
          BY <2>3, <4>1, <5>1
      <4>3. ~(r < p)
        <5>1. r < p => r \in 1..(p - 1)
          OBVIOUS
        <5> QED
          BY <2>3, <4>1, <5>1
      <4> QED
        BY <4>2, <4>3
    <3>2. CASE k # i
      BY <2>4, <3>2 DEF Agree, ItemsApart, Live
    <3> QED
      BY <3>1, <3>2
  <2> QED
    BY <2>6, <2>7, <2>8 DEF Agree, QuestionsLinked, ItemsLinked, ItemsApart
<1>4. ASSUME NEW i \in ImportIds, Remaps(i)
      PROVE  Agree'
  BY <1>1, <1>4, QuietAgree DEF Remaps
<1> QED
  BY <1>2, <1>3, <1>4, StageItemsDoes

\* Rows that a step has rewritten differ in content as they did.
LEMMA StillApart ==
  ASSUME Base, Agree, NEW i \in ImportIds, NEW rows, Rewritten(i, rows)
  PROVE  /\ items'[i] = rows /\ \A k \in ImportIds \ {i} : items'[k] = items[k]
         /\ \A r \in DOMAIN rows : rows[r].canonical = items[i][r].canonical
         /\ \A k \in ImportIds : \A r, p \in DOMAIN items'[k] :
              /\ Live(k, r)' /\ Live(k, p)'
              /\ items'[k][r].canonical.hash = items'[k][p].canonical.hash
              => r = p
<1>1. /\ items'[i] = rows /\ \A k \in ImportIds \ {i} : items'[k] = items[k]
      /\ DOMAIN rows = DOMAIN items[i]
  BY DEF Rewritten, Base, Typed
<1>2. \A r \in DOMAIN rows : rows[r].canonical = items[i][r].canonical
  BY DEF Rewritten
<1>3. \A k \in ImportIds : \A r : Live(k, r)' => Live(k, r)
  <2> SUFFICES ASSUME NEW k \in ImportIds, NEW r, Live(k, r)'
               PROVE  Live(k, r)
    OBVIOUS
  <2>1. CASE k = i
    <3>1. r \in DOMAIN rows /\ rows[r].canonical.verdict = "ok" /\ rows[r].status # "duplicate"
      BY <1>1, <2>1 DEF Live
    <3> QED
      BY <1>1, <1>2, <2>1, <3>1 DEF Live, Rewritten
  <2>2. CASE k # i
    BY <1>1, <2>2 DEF Live
  <2> QED
    BY <2>1, <2>2
<1>4. ASSUME NEW k \in ImportIds, NEW r \in DOMAIN items'[k], NEW p \in DOMAIN items'[k],
             Live(k, r)', Live(k, p)',
             items'[k][r].canonical.hash = items'[k][p].canonical.hash
      PROVE  r = p
  <2>1. Live(k, r) /\ Live(k, p)
    BY <1>3, <1>4
  <2>2. r \in DOMAIN items[k] /\ p \in DOMAIN items[k]
    BY <2>1 DEF Live
  <2>3. items[k][r].canonical.hash = items[k][p].canonical.hash
    BY <1>1, <1>2, <1>4
  <2> QED
    BY <2>1, <2>2, <2>3 DEF Agree, ItemsApart
<1> QED
  BY <1>1, <1>2, <1>4

LEMMA CommitToggleAgree ==
  ASSUME Base, Agree, Grows, NEW w \in Workers, CommitToggle(w)
  PROVE  Agree'
<1>1. UNCHANGED <<imports, questions>>
  BY DEF CommitToggle
<1>2. PICK i \in ImportIds, row \in Nat, new \in Item : Toggled(w, i, row, new)
  BY ToggledRow
<1>3. PICK rows : rows = [items[i] EXCEPT ![row] = new]
  OBVIOUS
<1>4. /\ Rewritten(i, rows)
      /\ \A r \in DOMAIN rows : rows[r] = IF r = row THEN new ELSE items[i][r]
  BY <1>2, <1>3, ToggledRewrites
<1>5. /\ items'[i] = rows /\ \A k \in ImportIds \ {i} : items'[k] = items[k]
      /\ \A r \in DOMAIN rows : rows[r].canonical = items[i][r].canonical
      /\ \A k \in ImportIds : \A r, p \in DOMAIN items'[k] :
           /\ Live(k, r)' /\ Live(k, p)'
           /\ items'[k][r].canonical.hash = items'[k][p].canonical.hash
           => r = p
  BY <1>4, StillApart
<1>6. DOMAIN rows = DOMAIN items[i]
  BY <1>4 DEF Rewritten
<1>7. \A r \in DOMAIN rows : rows[r].question = items[i][r].question
  <2>1. new.question = items[i][row].question
    BY <1>2 DEF Toggled
  <2> QED
    BY <1>4, <2>1
<1>8. \A k \in ImportIds, r \in Nat : RowLinked(k, r) => RowLinked(k, r)'
  BY <1>5, <1>6, <1>7 DEF RowLinked
<1>9. \A q \in DOMAIN questions' : questions'[q].from # None =>
        /\ HasAnswer(questions'[q])
        /\ \A k \in ImportIds, r \in Nat :
             questions'[q].from = <<k, r>> => RowLinked(k, r)'
  BY <1>1, <1>8 DEF Agree, QuestionsLinked
<1>10. \A k \in ImportIds : \A r \in DOMAIN items'[k] : items'[k][r].question # None =>
        /\ items'[k][r].question \in DOMAIN questions'
        /\ questions'[items'[k][r].question].from = <<k, r>>
        /\ questions'[items'[k][r].question].hash = items'[k][r].canonical.hash
  <2> TAKE k \in ImportIds
  <2>1. CASE k = i
    BY <1>1, <1>5, <1>6, <1>7, <2>1 DEF Agree, ItemsLinked
  <2>2. CASE k # i
    BY <1>1, <1>5, <2>2 DEF Agree, ItemsLinked
  <2> QED
    BY <2>1, <2>2
<1> QED
  BY <1>5, <1>9, <1>10 DEF Agree, QuestionsLinked, ItemsLinked, ItemsApart

LEMMA CommitConfirmAgree ==
  ASSUME Base, Agree, Grows, NEW w \in Workers, CommitConfirm(w)
  PROVE  Agree'
<1>1. PICK i \in ImportIds, made \in Seq(Nat), new \in Seq(Question), rows \in Seq(Item) :
        Publishes(w, i, made, new, rows)
  BY CommitConfirmDoes
<1>2. /\ new \in Seq(Question) /\ DOMAIN new = DOMAIN made /\ questions' = questions \o new
      /\ \A k \in DOMAIN made :
           /\ new[k].from = <<i, made[k]>>
           /\ new[k].hash = items[i][made[k]].canonical.hash
           /\ HasAnswer(new[k])
           /\ Live(i, made[k])
      /\ Rewritten(i, rows)
  BY <1>1 DEF Publishes
<1>3. \A r \in DOMAIN rows :
        \/ \E k \in DOMAIN made : made[k] = r /\ rows[r].question = Len(questions) + k
        \/ r \notin Elements(made) /\ rows[r].question = items[i][r].question
  BY <1>1 DEF Publishes
<1>4. PICK n, m \in Nat : Joined(questions, new, questions', n, m)
  BY <1>2, Appended DEF Base, Typed
<1>5. /\ n = Len(questions) /\ DOMAIN questions = 1..n /\ DOMAIN made = 1..m
      /\ DOMAIN questions' = 1..(n + m)
      /\ \A q \in 1..n : q \in 1..(n + m) /\ questions'[q] = questions[q]
      /\ \A k \in 1..m : n + k \in 1..(n + m) /\ questions'[n + k] = new[k]
      /\ \A q \in 1..(n + m) : q \in 1..n \/ \E k \in 1..m : q = n + k
  BY <1>2, <1>4 DEF Joined
<1>6. /\ items'[i] = rows /\ \A k \in ImportIds \ {i} : items'[k] = items[k]
      /\ \A r \in DOMAIN rows : rows[r].canonical = items[i][r].canonical
      /\ \A k \in ImportIds : \A r, p \in DOMAIN items'[k] :
           /\ Live(k, r)' /\ Live(k, p)'
           /\ items'[k][r].canonical.hash = items'[k][p].canonical.hash
           => r = p
  BY <1>2, StillApart
<1>7. DOMAIN rows = DOMAIN items[i]
  BY <1>2 DEF Rewritten
<1>8. /\ \A k \in ImportIds, r \in Nat : RowLinked(k, r) => RowLinked(k, r)'
      /\ \A k \in DOMAIN made : RowLinked(i, made[k])'
  <2>1. \A k \in 1..m : n + k # None
    BY NoneAssumption
  <2>2. \A r \in DOMAIN rows : items[i][r].question # None => rows[r].question # None
    BY <1>3, <1>5, <2>1
  <2>3. \A k \in DOMAIN made : rows[made[k]].question # None
    <3> TAKE k \in DOMAIN made
    <3>1. made[k] \in DOMAIN rows /\ made[k] \in Elements(made)
      BY <1>2, <1>7 DEF Live, Elements
    <3> QED
      BY <1>3, <1>5, <2>1, <3>1
  <2>4. \A k \in DOMAIN made : made[k] \in DOMAIN rows
    BY <1>2, <1>7 DEF Live
  <2> QED
    BY <1>6, <1>7, <2>2, <2>3, <2>4 DEF RowLinked
<1>9. ASSUME NEW q \in 1..(n + m), questions'[q].from # None
      PROVE  /\ HasAnswer(questions'[q])
             /\ \A k \in ImportIds, r \in Nat :
                  questions'[q].from = <<k, r>> => RowLinked(k, r)'
  <2>1. CASE q \in 1..n
    <3>1. PICK question : question = questions[q]
      OBVIOUS
    <3>2. /\ HasAnswer(question)
          /\ \A k \in ImportIds, r \in Nat : question.from = <<k, r>> => RowLinked(k, r)
      BY <1>5, <1>9, <2>1, <3>1 DEF Agree, QuestionsLinked
    <3>3. questions'[q] = question
      BY <1>5, <2>1, <3>1
    <3> QED
      BY <1>8, <3>2, <3>3
  <2>2. ASSUME NEW k \in 1..m, q = n + k
        PROVE  /\ HasAnswer(questions'[q])
               /\ \A l \in ImportIds, r \in Nat :
                    questions'[q].from = <<l, r>> => RowLinked(l, r)'
    <3>1. PICK question : question = new[k]
      OBVIOUS
    <3>2. k \in DOMAIN made
      BY <1>5
    <3>3. HasAnswer(question) /\ question.from = <<i, made[k]>>
      BY <1>2, <3>1, <3>2
    <3>4. \A l \in ImportIds, r \in Nat : question.from = <<l, r>> => l = i /\ r = made[k]
      BY <3>3
    <3>5. questions'[q] = question
      BY <1>5, <2>2, <3>1
    <3> QED
      BY <1>8, <3>2, <3>3, <3>4, <3>5
  <2> QED
    BY <1>5, <2>1, <2>2
<1>10. ASSUME NEW k \in ImportIds, NEW r \in DOMAIN items'[k], items'[k][r].question # None
       PROVE  /\ items'[k][r].question \in DOMAIN questions'
              /\ questions'[items'[k][r].question].from = <<k, r>>
              /\ questions'[items'[k][r].question].hash = items'[k][r].canonical.hash
  <2>1. CASE items'[k][r].question = items[k][r].question /\ r \in DOMAIN items[k]
                                    /\ items'[k][r].canonical = items[k][r].canonical
    <3>1. PICK q : q = items[k][r].question
      OBVIOUS
    <3>2. /\ q \in 1..n
          /\ questions[q].from = <<k, r>> /\ questions[q].hash = items[k][r].canonical.hash
      BY <1>5, <1>10, <2>1, <3>1 DEF Agree, ItemsLinked
    <3>3. q \in DOMAIN questions' /\ questions'[q] = questions[q]
      BY <1>5, <3>2
    <3> QED
      BY <2>1, <3>1, <3>2, <3>3
  <2>2. ASSUME k = i, NEW l \in 1..m, made[l] = r, rows[r].question = n + l
        PROVE  /\ items'[k][r].question \in DOMAIN questions'
               /\ questions'[items'[k][r].question].from = <<k, r>>
               /\ questions'[items'[k][r].question].hash = items'[k][r].canonical.hash
    <3>1. new[l].from = <<k, r>> /\ new[l].hash = items[i][r].canonical.hash
      BY <1>2, <1>5, <2>2
    <3>2. rows[r].canonical = items[i][r].canonical
      BY <1>6, <1>10, <2>2
    <3>3. items'[k][r].question = n + l /\ items'[k][r].canonical = items[i][r].canonical
      BY <1>6, <2>2, <3>2
    <3>4. n + l \in DOMAIN questions' /\ questions'[n + l] = new[l]
      BY <1>5, <2>2
    <3> QED
      BY <1>2, <2>2, <3>1, <3>3, <3>4
  <2>3. CASE k # i
    BY <1>6, <1>10, <2>1, <2>3
  <2>4. CASE k = i
    BY <1>3, <1>5, <1>6, <1>7, <1>10, <2>1, <2>2, <2>4
  <2> QED
    BY <2>3, <2>4
<1>11. QuestionsLinked'
  BY <1>5, <1>9 DEF QuestionsLinked
<1>12. ItemsLinked'
  BY <1>10 DEF ItemsLinked
<1>13. ItemsApart'
  BY <1>6 DEF ItemsApart
<1> QED
  BY <1>11, <1>12, <1>13 DEF Agree

LEMMA InitAgree == Init => Agree
<1> SUFFICES ASSUME Init PROVE Agree
  OBVIOUS
<1>1. \A q \in DOMAIN questions : questions[q].from = None
  BY BanksAssumption DEF Init
<1>2. \A i \in ImportIds : items[i] = << >>
  BY DEF Init
<1> QED
  BY <1>1, <1>2 DEF Agree, QuestionsLinked, ItemsLinked, ItemsApart

LEMMA AgreeInductive == Spec => [](Base /\ Agree)
<1>1. Init => Base /\ Agree
  BY InitBase, InitAgree
<1>2. Base /\ Agree /\ [Next]_vars => (Base /\ Agree)'
  BY BaseStep, Writers, QuietAgree, StageItemsAgree, CommitToggleAgree, CommitConfirmAgree
<1> QED
  BY <1>1, <1>2, PTL DEF Spec

\* The rows of an import that an administrator may import differ in content,
\* whatever else is staged, toggled or confirmed meanwhile.
THEOREM RowsApart == Spec => []StagedApart
<1>1. ASSUME Base, Agree
      PROVE  StagedApart
  <2>1. \A i \in ImportIds : \A r \in DOMAIN items[i] :
          items[i][r].status \in {"ok", "skipped", "imported"} => Live(i, r)
    BY <1>1 DEF Base, TablesFit
  <2> QED
    BY <1>1, <2>1 DEF StagedApart, Agree, ItemsApart
<1> QED
  BY <1>1, AgreeInductive, PTL

\* A confirm is all or nothing: its questions are seen together with the links of
\* their rows, though rows are flushed one by one, and a request may be cut off
\* anywhere; no later staging, toggle or confirm of the import parts them.
THEOREM ConfirmedTogether == Spec => []NoHalfConfirm
<1>1. ASSUME Base, Agree, NEW q \in DOMAIN questions, questions[q].from # None
      PROVE  RowLinked(questions[q].from[1], questions[q].from[2])
  <2>1. questions[q].from \in ImportIds \X Nat
    <3>1. questions[q] \in Question
      BY <1>1 DEF Base, Typed
    <3>2. PICK question : question = questions[q]
      OBVIOUS
    <3>3. ASSUME NEW b \in ExistingBanks, question \in Elements(b.questions)
          PROVE  FALSE
      <4>1. \A p \in DOMAIN b.questions : b.questions[p].from = None
        BY BanksAssumption
      <4>2. PICK p \in DOMAIN b.questions : question = b.questions[p]
        BY <3>3 DEF Elements
      <4> QED
        BY <1>1, <3>2, <4>1, <4>2
    <3> QED
      BY <3>1, <3>2, <3>3 DEF Question
  <2>2. PICK i \in ImportIds, r \in Nat : questions[q].from = <<i, r>>
    BY <2>1
  <2> QED
    BY <1>1, <2>2 DEF Agree, QuestionsLinked
<1>2. Base /\ Agree => NoHalfConfirm
  BY <1>1 DEF NoHalfConfirm, RowLinked
<1> QED
  BY <1>2, AgreeInductive, PTL

\* An item that has a question has the one made of it, with its content, though
\* the ids are known only after the flush.
THEOREM ItemsLinkBack == Spec => []LinksBack
<1>1. Agree => LinksBack
  BY DEF LinksBack, Agree, ItemsLinked
<1> QED
  BY <1>1, AgreeInductive, PTL

\* No file, mapping or order of requests gets a question into the bank that
\* cannot be answered.
THEOREM AnswerableImported == Spec => []ImportedAnswerable
<1>1. Agree => ImportedAnswerable
  BY DEF ImportedAnswerable, Agree, QuestionsLinked, HasAnswer
<1> QED
  BY <1>1, AgreeInductive, PTL

-----------------------------------------------------------------------------
(* Community sources                                                        *)

SameDiscussion(a, b) == a.url = b.url /\ a.id = b.id

\* The row names the discussion of the source.
Names(c, source) == c.community # None /\ SameDiscussion(c.community, source)

\* A source belongs to a question of the exam, and one of an import to a question
\* whose row names its discussion.
Sourced ==
  \A s \in SourceIds : sources[s] # None =>
    /\ sources[s].question \in DOMAIN questions
    /\ questions[sources[s].question].from # None =>
         \E i \in ImportIds : \E r \in DOMAIN items[i] :
           /\ questions[sources[s].question].from = <<i, r>>
           /\ Names(items[i][r].canonical, sources[s])

\* A source that two confirms write has been published: no two make the same.
Claims ==
  \A w, v \in Workers : w # v =>
    \A s \in DOMAIN job[w].linked \cap DOMAIN job[v].linked : sources[s] # None

\* What a confirm has written is a source of the same discussion as the one it
\* will replace, for a row it has made; and the source it has found is one of
\* the discussion of the next row.
LinksFit(step, j) ==
  /\ step # "convert" => DOMAIN j.linked = {}
  /\ step = "convert" =>
       /\ \A s \in DOMAIN j.linked :
            /\ sources[s] # None => SameDiscussion(j.linked[s], sources[s])
            /\ j.linked[s].question \in DOMAIN j.made
            /\ Names(items[j.import][j.made[j.linked[s].question]].canonical, j.linked[s])
       /\ j.found # None =>
            /\ j.todo # << >>
            /\ j.found.at # 0 => SameDiscussion(Signal(j),
                 IF j.found.at \in DOMAIN j.linked THEN j.linked[j.found.at]
                                                   ELSE sources[j.found.at])

Linking == Sourced /\ Claims /\ \A w \in Workers : LinksFit(pc[w], job[w])

\* Sources keep their discussion, and only the one that has written it publishes
\* a new one.
SourcesKept(w) ==
  \A s \in SourceIds :
    /\ sources[s] # None => sources'[s] # None /\ SameDiscussion(sources'[s], sources[s])
    /\ sources[s] = None /\ sources'[s] # None => s \in DOMAIN job[w].linked

LEMMA GoesOnOnly ==
  ASSUME Base, NEW w \in Workers, NEW step, NEW j, GoesOn(w, step, j)
  PROVE  pc'[w] = step /\ job'[w] = j /\ Others(w)
BY DEF GoesOn, Base, Typed, Others

LEMMA CanonicalKept ==
  ASSUME Base, Grows, NEW i \in ImportIds, NEW r \in DOMAIN items[i]
  PROVE  r \in DOMAIN items'[i] /\ items'[i][r].canonical = items[i][r].canonical
<1>1. items[i] # << >>
  OBVIOUS
<1> QED
  BY <1>1 DEF Grows

\* What one confirm has found and written fits, whatever another one publishes.
LEMMA LinksFitKept ==
  ASSUME Base, Grows, NEW w \in Workers, SourcesKept(w), NEW step, NEW j \in Job,
         Fits(step, j), LinksFit(step, j),
         \A s \in DOMAIN j.linked \cap DOMAIN job[w].linked : sources[s] # None
  PROVE  LinksFit(step, j)'
<1>1. CASE step # "convert"
  BY <1>1 DEF LinksFit
<1>2. CASE step = "convert"
  <2>1. PICK i \in ImportIds, todo \in Seq(Nat), made \in Seq(Nat), linked \in Links :
          i = j.import /\ todo = j.todo /\ made = j.made /\ linked = j.linked
    BY <1>2 DEF Fits, Job
  <2>2. ASSUME NEW s \in DOMAIN linked
        PROVE  /\ sources'[s] # None => SameDiscussion(linked[s], sources'[s])
               /\ linked[s].question \in DOMAIN made
               /\ Names(items'[i][made[linked[s].question]].canonical, linked[s])
    <3>1. PICK k : k = linked[s].question
      OBVIOUS
    <3>2. /\ k \in DOMAIN made /\ Names(items[i][made[k]].canonical, linked[s])
          /\ sources[s] # None => SameDiscussion(linked[s], sources[s])
      BY <1>2, <2>1, <3>1 DEF LinksFit
    <3>3. made[k] \in Elements(made)
      BY <3>2 DEF Elements
    <3>4. made[k] \in DOMAIN items[i]
      BY <1>2, <2>1, <3>3 DEF Fits, Live
    <3>5. items'[i][made[k]].canonical = items[i][made[k]].canonical
      BY <3>4, CanonicalKept
    <3>6. s \in SourceIds
      BY LinksType
    <3>7. sources'[s] # None => SameDiscussion(linked[s], sources'[s])
      BY <2>1, <3>2, <3>6 DEF SourcesKept, SameDiscussion
    <3> QED
      BY <3>1, <3>2, <3>5, <3>7
  <2>3. ASSUME j.found # None
        PROVE  /\ todo # << >>
               /\ j.found.at # 0 => SameDiscussion(Signal(j)',
                    IF j.found.at \in DOMAIN linked THEN linked[j.found.at]
                                                    ELSE sources'[j.found.at])
    <3>1. todo # << >>
      BY <1>2, <2>1, <2>3 DEF LinksFit
    <3>2. Head(todo) \in Elements(todo)
      BY <3>1, HeadTail
    <3>3. Head(todo) \in DOMAIN items[i]
      BY <1>2, <2>1, <3>2 DEF Fits, Live
    <3>4. Signal(j)' = Signal(j)
      BY <2>1, <3>3, CanonicalKept DEF Signal
    <3>5. ASSUME j.found.at # 0
          PROVE  SameDiscussion(Signal(j), IF j.found.at \in DOMAIN linked
                                           THEN linked[j.found.at]
                                           ELSE sources'[j.found.at])
      <4>1. SameDiscussion(Signal(j), IF j.found.at \in DOMAIN linked
                                      THEN linked[j.found.at] ELSE sources[j.found.at])
        BY <1>2, <2>1, <2>3, <3>5 DEF LinksFit
      <4>2. CASE j.found.at \in DOMAIN linked
        BY <4>1, <4>2
      <4>3. CASE j.found.at \notin DOMAIN linked
        <5>1. j.found.at \in SourceIds /\ sources[j.found.at] # None
          BY <1>2, <2>1, <2>3, <3>5, <4>3, NoneAssumption DEF Fits
        <5>2. SameDiscussion(sources'[j.found.at], sources[j.found.at])
          BY <5>1 DEF SourcesKept
        <5> QED
          BY <4>1, <4>3, <5>2 DEF SameDiscussion
      <4> QED
        BY <4>2, <4>3
    <3> QED
      BY <3>1, <3>4, <3>5
  <2> QED
    BY <1>2, <2>1, <2>2, <2>3 DEF LinksFit
<1> QED
  BY <1>1, <1>2

\* A source that a step adds to those its transaction has written is nobody
\* else's, or is published.
MayLink(w, linked) ==
  \A s \in DOMAIN linked :
    \/ s \in DOMAIN job[w].linked
    \/ s \in SourceIds /\ sources[s] # None
    \/ \A v \in Workers : s \notin DOMAIN job[v].linked

LEMMA LinkingKept ==
  ASSUME Base, Linking, Grows, NEW w \in Workers, NEW step, NEW j, GoesOn(w, step, j),
         SourcesKept(w), LinksFit(step, j)', Sourced',
         MayLink(w, j.linked)
  PROVE  Linking'
<1>1. pc'[w] = step /\ job'[w] = j /\ Others(w)
  BY GoesOnOnly
<1>2. \A v \in Workers \ {w} : pc'[v] = pc[v] /\ job'[v] = job[v]
  BY <1>1 DEF Others
<1>3. \A s \in SourceIds : sources[s] # None => sources'[s] # None
  BY DEF SourcesKept
<1>4. \A v \in Workers : \A s \in DOMAIN job[v].linked : s \in SourceIds
  <2> TAKE v \in Workers
  <2>1. job[v].linked \in Links
    BY DEF Base, Typed, Job
  <2> QED
    BY <2>1, LinksType
<1>5. ASSUME NEW v \in Workers \ {w}, NEW s \in DOMAIN j.linked \cap DOMAIN job[v].linked
      PROVE  sources'[s] # None
  <2>1. v # w /\ s \in SourceIds
    BY <1>4
  <2>2. s \in DOMAIN job[w].linked \/ sources[s] # None
    BY <1>5 DEF MayLink
  <2> QED
    BY <1>3, <2>1, <2>2 DEF Linking, Claims
<1>6. ASSUME NEW u \in Workers, NEW v \in Workers, u # v,
             NEW s \in DOMAIN job'[u].linked \cap DOMAIN job'[v].linked
      PROVE  sources'[s] # None
  <2>1. CASE u = w
    BY <1>1, <1>2, <1>5, <1>6, <2>1
  <2>2. CASE v = w
    BY <1>1, <1>2, <1>5, <1>6, <2>2
  <2>3. CASE u # w /\ v # w
    <3>1. s \in DOMAIN job[u].linked \cap DOMAIN job[v].linked
      BY <1>2, <1>6, <2>3
    <3> QED
      BY <1>3, <1>4, <1>6, <3>1 DEF Linking, Claims
  <2> QED
    BY <2>1, <2>2, <2>3
<1>7. ASSUME NEW v \in Workers \ {w}
      PROVE  LinksFit(pc[v], job[v])'
  <2>1. PICK at \in Steps, doing \in Job : at = pc[v] /\ doing = job[v]
    BY DEF Base, Typed
  <2>2. LinksFit(at, doing) /\ Fits(at, doing)
    BY <2>1 DEF Linking, Base
  <2>3. \A s \in DOMAIN doing.linked \cap DOMAIN job[w].linked : sources[s] # None
    BY <2>1 DEF Linking, Claims
  <2>4. LinksFit(at, doing)'
    BY <2>2, <2>3, LinksFitKept
  <2> QED
    BY <1>2, <2>1, <2>4
<1>8. LinksFit(pc[w], job[w])'
  BY <1>1
<1> QED
  BY <1>6, <1>7, <1>8 DEF Linking, Claims

LEMMA QuietSourced ==
  ASSUME Base, Sourced, Grows, UNCHANGED <<questions, sources>>
  PROVE  Sourced'
<1> SUFFICES ASSUME NEW s \in SourceIds, sources[s] # None
             PROVE  /\ sources[s].question \in DOMAIN questions
                    /\ questions[sources[s].question].from # None =>
                         \E i \in ImportIds : \E r \in DOMAIN items'[i] :
                           /\ questions[sources[s].question].from = <<i, r>>
                           /\ Names(items'[i][r].canonical, sources[s])
  BY DEF Sourced
<1>1. ASSUME questions[sources[s].question].from # None
      PROVE  \E i \in ImportIds : \E r \in DOMAIN items'[i] :
               /\ questions[sources[s].question].from = <<i, r>>
               /\ Names(items'[i][r].canonical, sources[s])
  <2>1. PICK i, r :
          /\ i \in ImportIds /\ r \in DOMAIN items[i]
          /\ questions[sources[s].question].from = <<i, r>>
          /\ Names(items[i][r].canonical, sources[s])
    BY <1>1 DEF Sourced
  <2>2. r \in DOMAIN items'[i] /\ items'[i][r].canonical = items[i][r].canonical
    BY <2>1, CanonicalKept
  <2> QED
    BY <2>1, <2>2
<1> QED
  BY <1>1 DEF Sourced

\* A step that publishes no source.
LEMMA QuietLinking ==
  ASSUME Base, Linking, Grows, NEW w \in Workers, NEW step, NEW j, GoesOn(w, step, j),
         UNCHANGED <<questions, sources>>, LinksFit(step, j)',
         MayLink(w, j.linked)
  PROVE  Linking'
<1>1. SourcesKept(w)
  BY DEF SourcesKept, SameDiscussion
<1>2. Sourced'
  BY QuietSourced DEF Linking
<1> QED
  BY <1>1, <1>2, LinkingKept

LEMMA RepliesLinking ==
  ASSUME Base, Linking, Grows, NEW w \in Workers, Replies(w), UNCHANGED <<questions, sources>>
  PROVE  Linking'
<1>1. GoesOn(w, "idle", NoJob) /\ DOMAIN NoJob.linked = {}
  BY DEF Replies, NoJob
<1>2. LinksFit("idle", NoJob)' /\ MayLink(w, NoJob.linked)
  BY <1>1 DEF LinksFit, MayLink
<1> QED
  BY <1>1, <1>2, QuietLinking

LEMMA RequestLinking ==
  ASSUME Base, Linking, Grows, NEW w \in Workers, Request(w)
  PROVE  Linking'
<1>1. UNCHANGED <<questions, sources>>
  BY DEF Request, Upload, SaveMapping, ToggleRow, Confirm, tables
<1>2. PICK i \in ImportIds :
        \/ \E f \in Files : Upload(w, i, f)
        \/ \E m \in Mappings : SaveMapping(w, i, m)
        \/ \E r \in DOMAIN items[i] : ToggleRow(w, i, r)
        \/ Confirm(w, i)
  BY DEF Request
<1>3. ASSUME NEW step, NEW j, GoesOn(w, step, j), step # "convert", j.linked = << >>
      PROVE  Linking'
  <2>1. DOMAIN j.linked = {}
    BY <1>3
  <2>2. LinksFit(step, j)' /\ MayLink(w, j.linked)
    BY <1>3, <2>1 DEF LinksFit, MayLink
  <2> QED
    BY <1>1, <1>3, <2>1, <2>2, QuietLinking
<1>4. ASSUME NEW f \in Files, Upload(w, i, f)
      PROVE  Linking'
  <2>1. PICK step, j : step = FirstStep(f) /\ j = [NoJob EXCEPT !.import = i]
    OBVIOUS
  <2>2. GoesOn(w, step, j) /\ step # "convert" /\ j.linked = << >>
    BY <1>4, <2>1 DEF Upload, FirstStep, NoJob
  <2> QED
    BY <1>3, <2>2
<1>5. ASSUME NEW m \in Mappings, SaveMapping(w, i, m)
      PROVE  Linking'
  <2>1. PICK j : j = [NoJob EXCEPT !.import = i, !.columns = m.columns, !.loaded = imports[i]]
    OBVIOUS
  <2>2. GoesOn(w, "read hashes", j) /\ j.linked = << >>
    BY <1>5, <2>1 DEF SaveMapping, NoJob
  <2> QED
    BY <1>3, <2>2
<1>6. ASSUME NEW r \in DOMAIN items[i], ToggleRow(w, i, r)
      PROVE  Linking'
  <2>1. PICK j : j = [NoJob EXCEPT !.import = i, !.row = r, !.loaded = items[i][r].status]
    OBVIOUS
  <2>2. GoesOn(w, "toggle", j) /\ j.linked = << >>
    BY <1>6, <2>1 DEF ToggleRow, NoJob
  <2> QED
    BY <1>3, <2>2
<1>7. ASSUME Confirm(w, i)
      PROVE  Linking'
  <2>1. PICK j : j = [NoJob EXCEPT !.import = i, !.loaded = imports[i]]
    OBVIOUS
  <2>2. GoesOn(w, "read items", j) /\ j.linked = << >>
    BY <1>7, <2>1 DEF Confirm, NoJob
  <2> QED
    BY <1>3, <2>2
<1> QED
  BY <1>2, <1>4, <1>5, <1>6, <1>7

\* A step of a confirm that leaves the tables alone.
LEMMA ConvertsLinking ==
  ASSUME Base, Linking, Grows, NEW w \in Workers, NEW j, GoesOn(w, "convert", j),
         UNCHANGED <<items, questions, sources>>, LinksFit("convert", j),
         MayLink(w, j.linked)
  PROVE  Linking'
<1>1. items' = items /\ sources' = sources /\ UNCHANGED <<questions, sources>>
  OBVIOUS
<1>2. LinksFit("convert", j)'
  BY <1>1 DEF LinksFit, Signal
<1> QED
  BY <1>1, <1>2, QuietLinking

\* Steps that leave the rows and what their transaction has written alone.
LEMMA LooksLinking ==
  ASSUME Base, Linking, Grows, NEW w \in Workers,
         \/ CommitUpload(w) \/ Fail(w) \/ ReadHashes(w) \/ StageItems(w) \/ CommitToggle(w)
         \/ ReadItems(w) \/ FlushMark(w)
  PROVE  Linking'
<1>1. UNCHANGED <<questions, sources>>
  BY DEF CommitUpload, Fail, ReadHashes, StageItems, CommitToggle, ReadItems, FlushMark, tables
<1>2. CASE CommitUpload(w) \/ Fail(w) \/ StageItems(w) \/ CommitToggle(w)
  BY <1>1, <1>2, RepliesLinking DEF CommitUpload, Fail, StageItems, CommitToggle
<1>3. CASE ReadHashes(w)
  <2>1. PICK hashes : GoesOn(w, "stage", [job[w] EXCEPT !.hashes = hashes])
    BY <1>3 DEF ReadHashes
  <2>2. PICK j : j = [job[w] EXCEPT !.hashes = hashes]
    OBVIOUS
  <2>3. pc[w] = "read hashes" /\ job[w] \in Job
    BY <1>3, UnderWay DEF ReadHashes
  <2>4. j.linked = job[w].linked
    BY <2>2, <2>3 DEF Job
  <2>5. DOMAIN j.linked = {}
    BY <2>3, <2>4 DEF Linking, LinksFit
  <2>6. LinksFit("stage", j)' /\ MayLink(w, j.linked)
    BY <2>5 DEF LinksFit, MayLink
  <2> QED
    BY <1>1, <2>1, <2>2, <2>5, <2>6, QuietLinking
<1>4. CASE ReadItems(w)
  <2>1. pc[w] = "read items" /\ job[w] \in Job /\ Fits("read items", job[w])
    BY <1>4, UnderWay DEF ReadItems
  <2>2. CASE Replies(w)
    BY <1>1, <2>2, RepliesLinking
  <2>3. ASSUME NEW todo, GoesOn(w, "convert", [job[w] EXCEPT !.todo = todo])
        PROVE  Linking'
    <3>1. PICK j : j = [job[w] EXCEPT !.todo = todo]
      OBVIOUS
    <3>2. j.linked = job[w].linked /\ j.found = job[w].found
      BY <2>1, <3>1 DEF Job
    <3>3. DOMAIN j.linked = {} /\ j.found = None
      <4>1. j.found = None
        BY <2>1, <3>2 DEF Fits
      <4>2. DOMAIN job[w].linked = {}
        BY <2>1 DEF Linking, LinksFit
      <4> QED
        BY <3>2, <4>1, <4>2
    <3>4. LinksFit("convert", j)' /\ MayLink(w, j.linked)
      BY <3>3 DEF LinksFit, MayLink
    <3> QED
      BY <1>1, <2>3, <3>1, <3>3, <3>4, QuietLinking
  <2> QED
    BY <1>4, <2>2, <2>3 DEF ReadItems
<1>5. CASE FlushMark(w)
  <2>1. UNCHANGED <<items, questions, sources>>
    BY <1>5 DEF FlushMark, tables
  <2>2. PICK j : j = [job[w] EXCEPT !.row = 0]
    OBVIOUS
  <2>3. pc[w] = "convert" /\ job[w] \in Job /\ GoesOn(w, "convert", j)
    BY <1>5, <2>2, UnderWay DEF FlushMark
  <2>4. /\ j.import = job[w].import /\ j.todo = job[w].todo /\ j.made = job[w].made
        /\ j.found = job[w].found /\ j.linked = job[w].linked
    BY <2>2, <2>3 DEF Job
  <2>5. LinksFit("convert", job[w])
    BY <2>3 DEF Linking
  <2>6. LinksFit("convert", j)
    BY <2>4, <2>5 DEF LinksFit, Signal
  <2>7. MayLink(w, j.linked)
    BY <2>4 DEF MayLink
  <2> QED
    BY <1>1, <2>1, <2>3, <2>6, <2>7, ConvertsLinking
<1> QED
  BY <1>2, <1>3, <1>4, <1>5

LEMMA FindSourceLinking ==
  ASSUME Base, Linking, Grows, NEW w \in Workers, FindSource(w)
  PROVE  Linking'
<1>1. UNCHANGED <<items, questions, sources>> /\ Converting(w)
  BY DEF FindSource, tables
<1>2. job[w] \in Job /\ LinksFit("convert", job[w]) /\ job[w].todo # << >>
  BY <1>1, NextRow DEF Linking, Converting
<1>3. PICK linked : linked = job[w].linked
  OBVIOUS
<1>4. PICK seen, hits :
        /\ seen = [s \in SourceIds |-> IF s \in DOMAIN linked THEN linked[s] ELSE sources[s]]
        /\ hits = {s \in SourceIds : seen[s] # None /\ Matches(seen[s], Signal(job[w]))}
  OBVIOUS
<1>5. PICK at \in IF hits = {} THEN {0} ELSE hits :
        GoesOn(w, "convert", [job[w] EXCEPT
          !.found = [at |-> at, row |-> IF at = 0 THEN None ELSE seen[at]]])
  BY <1>3, <1>4 DEF FindSource
<1>6. PICK found : found = [at |-> at, row |-> IF at = 0 THEN None ELSE seen[at]]
  OBVIOUS
<1>7. found.at = at
  BY <1>6
<1>8. PICK j : j = [job[w] EXCEPT !.found = found]
  OBVIOUS
<1>9. /\ j.import = job[w].import /\ j.todo = job[w].todo /\ j.made = job[w].made
      /\ j.found = found /\ j.linked = linked
  BY <1>2, <1>3, <1>8 DEF Job
<1>10. ASSUME at # 0
       PROVE  SameDiscussion(Signal(job[w]), IF at \in DOMAIN linked THEN linked[at]
                                                                     ELSE sources[at])
  <2>1. at \in SourceIds /\ Matches(seen[at], Signal(job[w]))
    BY <1>4, <1>10
  <2>2. seen[at] = IF at \in DOMAIN linked THEN linked[at] ELSE sources[at]
    BY <1>4, <2>1
  <2> QED
    BY <2>1, <2>2 DEF Matches, SameDiscussion
<1>11. Signal(j) = Signal(job[w])
  BY <1>9 DEF Signal
<1>12. LinksFit("convert", j)
  BY <1>2, <1>3, <1>7, <1>9, <1>10, <1>11 DEF LinksFit
<1>13. MayLink(w, j.linked)
  BY <1>3, <1>9 DEF MayLink
<1>14. GoesOn(w, "convert", j)
  BY <1>5, <1>6, <1>8
<1> QED
  BY <1>1, <1>12, <1>13, <1>14, ConvertsLinking

LEMMA RollBackRowLinking ==
  ASSUME Base, Linking, Grows, NEW w \in Workers, Converting(w), RollBackRow(w),
         UNCHANGED <<items, questions, sources>>
  PROVE  Linking'
<1>1. job[w] \in Job /\ LinksFit("convert", job[w])
  BY NextRow DEF Linking, Converting
<1>2. PICK j : j = [job[w] EXCEPT !.todo = Tail(@), !.row = Head(job[w].todo),
                      !.failed = @ \cup {Head(job[w].todo)}, !.found = None]
  OBVIOUS
<1>3. /\ j.import = job[w].import /\ j.made = job[w].made /\ j.found = None
      /\ j.linked = job[w].linked
  BY <1>1, <1>2 DEF Job
<1>4. LinksFit("convert", j)
  BY <1>1, <1>3 DEF LinksFit
<1>5. MayLink(w, j.linked)
  BY <1>3 DEF MayLink
<1>6. GoesOn(w, "convert", j)
  BY <1>2 DEF RollBackRow
<1> QED
  BY <1>4, <1>5, <1>6, ConvertsLinking

\* What the next row adds to the sources of a confirm: nothing, or a source of
\* the discussion it names.
LinksNext(j, linked) ==
  \A s \in DOMAIN linked :
    \/ s \in DOMAIN j.linked /\ linked[s] = j.linked[s]
    \/ /\ linked[s].question = Len(j.made) + 1
       /\ Signal(j) # None /\ SameDiscussion(Signal(j), linked[s])
       /\ sources[s] # None => SameDiscussion(linked[s], sources[s])

LEMMA LinkedNext ==
  ASSUME Base, Linking, NEW w \in Workers, Converting(w), NEW j, j = job[w],
         Discussed(j) => j.found # None /\ (j.found.at = 0 => FreshSources # {})
  PROVE  LinksNext(j, Linked(w)) /\ MayLink(w, Linked(w))
<1>1. j \in Job /\ LinksFit("convert", j) /\ Fits("convert", j)
  BY NextRow DEF Linking, Converting
<1>2. CASE ~Discussed(j)
  BY <1>2 DEF Linked, LinksNext, MayLink
<1>3. CASE Discussed(j)
  <2>1. PICK at : at = IF j.found.at = 0 THEN CHOOSE s \in FreshSources : TRUE ELSE j.found.at
    OBVIOUS
  <2>2. PICK current : current = IF at \in DOMAIN j.linked THEN j.linked[at] ELSE sources[at]
    OBVIOUS
  <2>3. PICK source : source = LinkedSource(j, Len(j.made) + 1, current)
    OBVIOUS
  <2>4. Linked(w) = [s \in DOMAIN j.linked \cup {at} |-> IF s = at THEN source ELSE j.linked[s]]
    BY <1>3, <2>1, <2>2, <2>3 DEF Linked
  <2>5. Signal(j) # None
    BY <1>3 DEF Discussed
  <2>6. CASE j.found.at = 0
    <3>1. at \in FreshSources
      <4>1. \E s \in FreshSources : TRUE
        BY <1>3, <2>6
      <4> QED
        BY <2>1, <2>6, <4>1
    <3>2. sources[at] = None /\ \A v \in Workers : at \notin DOMAIN job[v].linked
      BY <3>1 DEF FreshSources
    <3>3. source.question = Len(j.made) + 1 /\ SameDiscussion(Signal(j), source)
      BY <2>3, <2>6 DEF LinkedSource, SameDiscussion
    <3> QED
      BY <2>4, <2>5, <3>2, <3>3 DEF LinksNext, MayLink
  <2>7. CASE j.found.at # 0
    <3>1. at = j.found.at /\ SameDiscussion(Signal(j), current)
      BY <1>1, <1>3, <2>1, <2>2, <2>7 DEF LinksFit
    <3>2. at \in SourceIds /\ (at \in DOMAIN j.linked \/ sources[at] # None)
      BY <1>1, <1>3, <2>7, <3>1, NoneAssumption DEF Fits
    <3>3. current \in Source
      <4>1. CASE at \in DOMAIN j.linked
        <5>1. j.linked \in Links
          BY <1>1 DEF Job
        <5> QED
          BY <2>2, <4>1, <5>1, LinksType
      <4>2. CASE at \notin DOMAIN j.linked
        BY <2>2, <3>2, <4>2 DEF Base, Typed
      <4> QED
        BY <4>1, <4>2
    <3>4. /\ source.question = Len(j.made) + 1
          /\ source.url = current.url /\ source.id = current.id
      BY <2>3, <2>7, <3>3 DEF LinkedSource, Source
    <3>5. SameDiscussion(Signal(j), source)
      BY <3>1, <3>4 DEF SameDiscussion
    <3>6. sources[at] # None => SameDiscussion(source, sources[at])
      <4>1. CASE at \in DOMAIN j.linked
        <5>1. sources[at] # None => SameDiscussion(current, sources[at])
          BY <1>1, <2>2, <4>1 DEF LinksFit
        <5> QED
          BY <3>4, <5>1 DEF SameDiscussion
      <4>2. CASE at \notin DOMAIN j.linked
        BY <2>2, <3>4, <4>2 DEF SameDiscussion
      <4> QED
        BY <4>1, <4>2
    <3> QED
      BY <2>4, <2>5, <3>2, <3>4, <3>5, <3>6 DEF LinksNext, MayLink
  <2> QED
    BY <2>6, <2>7
<1> QED
  BY <1>2, <1>3

LEMMA ConvertItemLinking ==
  ASSUME Base, Linking, Grows, NEW w \in Workers, ConvertItem(w)
  PROVE  Linking'
<1>1. /\ UNCHANGED <<items, questions, sources>> /\ Converting(w)
      /\ Discussed(job[w]) =>
           job[w].found # None /\ (job[w].found.at = 0 => FreshSources # {})
  BY DEF ConvertItem, tables
<1>2. PICK j \in Job : j = job[w] /\ LinksFit("convert", j)
  BY <1>1, NextRow DEF Linking, Converting
<1>3. PICK linked : linked = Linked(w)
  OBVIOUS
<1>4. LinksNext(j, linked) /\ MayLink(w, linked)
  BY <1>1, <1>2, <1>3, LinkedNext
<1>5. PICK made \in Seq(Nat), r \in Nat : made = j.made /\ r = Head(j.todo)
  BY <1>1, <1>2, NextRow, HeadTail DEF Job
<1>6. PICK more \in Seq(Nat) : more = Append(made, r)
  BY <1>5, AppendProperties
<1>7. PICK m \in Nat : DOMAIN made = 1..m /\ Len(made) = m
  BY LenProperties
<1>8. more[m + 1] = r /\ m + 1 \in DOMAIN more
      /\ \A k \in 1..m : k \in DOMAIN more /\ more[k] = made[k]
  <2>1. DOMAIN more = 1..(m + 1) /\ more[m + 1] = r /\ \A k \in 1..m : more[k] = made[k]
    BY <1>6, <1>7
  <2>2. m + 1 \in 1..(m + 1) /\ \A k \in 1..m : k \in 1..(m + 1)
    OBVIOUS
  <2> QED
    BY <2>1, <2>2
<1>9. PICK next : next = [j EXCEPT !.todo = Tail(j.todo), !.made = more, !.found = None,
                                   !.linked = linked]
  OBVIOUS
<1>10. /\ next.import = j.import /\ next.made = more /\ next.found = None
       /\ next.linked = linked
  BY <1>9 DEF Job
<1>11. ASSUME NEW s \in DOMAIN linked
       PROVE  /\ sources[s] # None => SameDiscussion(linked[s], sources[s])
              /\ linked[s].question \in DOMAIN more
              /\ Names(items[j.import][more[linked[s].question]].canonical, linked[s])
  <2>1. CASE s \in DOMAIN j.linked /\ linked[s] = j.linked[s]
    <3>1. PICK k : k = linked[s].question
      OBVIOUS
    <3>2. /\ sources[s] # None => SameDiscussion(linked[s], sources[s])
          /\ k \in 1..m /\ Names(items[j.import][made[k]].canonical, linked[s])
      BY <1>2, <1>5, <1>7, <2>1, <3>1 DEF LinksFit
    <3> QED
      BY <1>8, <3>1, <3>2
  <2>2. CASE /\ linked[s].question = Len(j.made) + 1
             /\ Signal(j) # None /\ SameDiscussion(Signal(j), linked[s])
             /\ sources[s] # None => SameDiscussion(linked[s], sources[s])
    <3>1. Signal(j) = items[j.import][r].canonical.community
      BY <1>5 DEF Signal
    <3>2. Names(items[j.import][r].canonical, linked[s])
      BY <2>2, <3>1 DEF Names
    <3>3. linked[s].question = m + 1
      BY <1>5, <1>7, <2>2
    <3> QED
      BY <1>8, <2>2, <3>2, <3>3
  <2> QED
    BY <1>4, <2>1, <2>2 DEF LinksNext
<1>12. LinksFit("convert", next)
  BY <1>10, <1>11 DEF LinksFit
<1>13. GoesOn(w, "convert", next)
  <2>1. [job[w] EXCEPT !.todo = Tail(@), !.made = Append(@, Head(job[w].todo)),
                       !.found = None, !.linked = Linked(w)] = next
    BY <1>2, <1>3, <1>5, <1>6, <1>9 DEF Job
  <2> QED
    BY <2>1 DEF ConvertItem
<1> QED
  BY <1>1, <1>4, <1>10, <1>12, <1>13, ConvertsLinking

LEMMA CommitConfirmLinking ==
  ASSUME Base, Linking, Grows, NEW w \in Workers, CommitConfirm(w)
  PROVE  Linking'
<1>1. pc[w] = "convert" /\ Replies(w)
  BY DEF CommitConfirm
<1>2. PICK i \in ImportIds, made \in Seq(Nat), new \in Seq(Question), rows \in Seq(Item) :
        Publishes(w, i, made, new, rows)
  BY CommitConfirmDoes
<1>3. /\ i = job[w].import /\ made = job[w].made
      /\ new \in Seq(Question) /\ DOMAIN new = DOMAIN made /\ questions' = questions \o new
      /\ \A k \in DOMAIN made : Live(i, made[k]) /\ new[k].from = <<i, made[k]>>
  BY <1>2 DEF Publishes
<1>4. PICK n, m \in Nat : Joined(questions, new, questions', n, m)
  BY <1>3, Appended DEF Base, Typed
<1>5. /\ n = Len(questions) /\ DOMAIN questions = 1..n /\ DOMAIN made = 1..m
      /\ \A q \in 1..n : q \in DOMAIN questions' /\ questions'[q] = questions[q]
      /\ \A k \in 1..m : n + k \in DOMAIN questions' /\ questions'[n + k] = new[k]
  BY <1>3, <1>4 DEF Joined
<1>6. PICK linked \in Links : linked = job[w].linked
  BY <1>1, UnderWay DEF Job
<1>7. /\ \A s \in DOMAIN linked :
           /\ s \in SourceIds /\ sources'[s] \in Source
           /\ sources'[s].question = n + linked[s].question
           /\ sources'[s].url = linked[s].url /\ sources'[s].id = linked[s].id
      /\ \A s \in SourceIds \ DOMAIN linked : sources'[s] = sources[s]
  BY <1>5, <1>6, SourcesPublished
<1>8. \A s \in DOMAIN linked :
        /\ sources[s] # None => SameDiscussion(linked[s], sources[s])
        /\ linked[s].question \in 1..m
        /\ Names(items[i][made[linked[s].question]].canonical, linked[s])
  BY <1>1, <1>3, <1>5, <1>6 DEF Linking, LinksFit
<1>9. SourcesKept(w)
  <2> SUFFICES ASSUME NEW s \in SourceIds
               PROVE  /\ sources[s] # None =>
                           sources'[s] # None /\ SameDiscussion(sources'[s], sources[s])
                      /\ sources[s] = None /\ sources'[s] # None => s \in DOMAIN linked
    BY <1>6 DEF SourcesKept
  <2>1. CASE s \in DOMAIN linked
    BY <1>7, <1>8, <2>1, NoneAssumption DEF SameDiscussion
  <2>2. CASE s \notin DOMAIN linked
    BY <1>7, <2>2 DEF SameDiscussion
  <2> QED
    BY <2>1, <2>2
<1>10. ASSUME NEW s \in SourceIds, sources'[s] # None
       PROVE  /\ sources'[s].question \in DOMAIN questions'
              /\ questions'[sources'[s].question].from # None =>
                   \E k \in ImportIds : \E r \in DOMAIN items'[k] :
                     /\ questions'[sources'[s].question].from = <<k, r>>
                     /\ Names(items'[k][r].canonical, sources'[s])
  <2>1. CASE s \in DOMAIN linked
    <3>1. PICK k \in 1..m : k = linked[s].question
      BY <1>8, <2>1
    <3>2. PICK r : r = made[k]
      OBVIOUS
    <3>3. sources'[s].question = n + k /\ questions'[n + k].from = <<i, r>>
          /\ n + k \in DOMAIN questions'
      BY <1>3, <1>5, <1>7, <2>1, <3>1, <3>2
    <3>4. Names(items[i][r].canonical, linked[s])
      BY <1>8, <2>1, <3>1, <3>2
    <3>5. r \in DOMAIN items[i]
      BY <1>3, <1>5, <3>2 DEF Live
    <3>6. r \in DOMAIN items'[i] /\ items'[i][r].canonical = items[i][r].canonical
      BY <3>5, CanonicalKept
    <3>7. Names(items'[i][r].canonical, sources'[s])
      BY <1>7, <2>1, <3>4, <3>6 DEF Names, SameDiscussion
    <3> QED
      BY <3>3, <3>6, <3>7
  <2>2. CASE s \notin DOMAIN linked
    <3>1. PICK q : q = sources[s].question
      OBVIOUS
    <3>2. sources'[s] = sources[s] /\ sources[s] # None
      BY <1>7, <1>10, <2>2
    <3>3. q \in DOMAIN questions /\ q \in DOMAIN questions' /\ questions'[q] = questions[q]
      BY <1>5, <3>1, <3>2 DEF Linking, Sourced
    <3>4. ASSUME questions[q].from # None
          PROVE  \E k \in ImportIds : \E r \in DOMAIN items'[k] :
                   questions[q].from = <<k, r>> /\ Names(items'[k][r].canonical, sources[s])
      <4>1. PICK k, r :
              /\ k \in ImportIds /\ r \in DOMAIN items[k]
              /\ questions[q].from = <<k, r>> /\ Names(items[k][r].canonical, sources[s])
        BY <3>1, <3>2, <3>4 DEF Linking, Sourced
      <4>2. r \in DOMAIN items'[k] /\ items'[k][r].canonical = items[k][r].canonical
        BY <4>1, CanonicalKept
      <4> QED
        BY <4>1, <4>2
    <3> QED
      BY <3>1, <3>2, <3>3, <3>4
  <2> QED
    BY <2>1, <2>2
<1>11. Sourced'
  BY <1>10 DEF Sourced
<1>12. GoesOn(w, "idle", NoJob) /\ DOMAIN NoJob.linked = {}
  BY <1>1 DEF Replies, NoJob
<1>13. LinksFit("idle", NoJob)' /\ MayLink(w, NoJob.linked)
  BY <1>12 DEF LinksFit, MayLink
<1> QED
  BY <1>9, <1>11, <1>12, <1>13, LinkingKept

LEMMA InitLinking == Init => Linking
<1> SUFFICES ASSUME Init PROVE Linking
  OBVIOUS
<1>1. Sourced
  <2>1. PICK b \in ExistingBanks :
          /\ questions = b.questions
          /\ sources = [s \in SourceIds |-> IF s \in DOMAIN b.sources THEN b.sources[s]
                                                                      ELSE None]
    BY DEF Init
  <2>2. ASSUME NEW s \in SourceIds, sources[s] # None
        PROVE  /\ sources[s].question \in DOMAIN questions
               /\ questions[sources[s].question].from = None
    <3>1. s \in DOMAIN b.sources /\ sources[s] = b.sources[s]
      BY <2>1, <2>2
    <3> QED
      BY <2>1, <3>1, BanksAssumption
  <2> QED
    BY <2>2 DEF Sourced
<1>2. \A w \in Workers : pc[w] = "idle" /\ DOMAIN job[w].linked = {}
  BY DEF Init, NoJob
<1>3. Claims
  BY <1>2 DEF Claims
<1>4. \A w \in Workers : LinksFit(pc[w], job[w])
  BY <1>2 DEF LinksFit
<1> QED
  BY <1>1, <1>3, <1>4 DEF Linking

LEMMA LinkingStep ==
  ASSUME Base, Linking, Grows, [Next]_vars
  PROVE  Linking'
<1>1. CASE UNCHANGED vars
  <2>1. UNCHANGED <<items, questions, sources, pc, job>>
    BY <1>1 DEF vars
  <2>2. Sourced' /\ Claims'
    BY <2>1 DEF Linking, Sourced, Claims
  <2>3. ASSUME NEW w \in Workers
        PROVE  LinksFit(pc[w], job[w])'
    <3>1. PICK step, j : step = pc[w] /\ j = job[w]
      OBVIOUS
    <3>2. LinksFit(step, j)'
      BY <2>1, <3>1 DEF Linking, LinksFit, Signal
    <3> QED
      BY <2>1, <3>1, <3>2
  <2> QED
    BY <2>2, <2>3 DEF Linking
<1>2. ASSUME NEW w \in Workers, Serve(w)
      PROVE  Linking'
  <2>1. CASE FailItem(w)
    BY <2>1, RollBackRowLinking DEF FailItem, tables
  <2>2. CASE BreakDeadlock(w)
    <3>1. UNCHANGED <<items, questions, sources>>
      BY <2>2 DEF BreakDeadlock, tables
    <3> QED
      BY <2>2, <3>1, RollBackRowLinking, RepliesLinking DEF BreakDeadlock
  <2> QED
    BY <1>2, <2>1, <2>2, LooksLinking, FindSourceLinking, ConvertItemLinking,
       CommitConfirmLinking DEF Serve
<1>3. ASSUME NEW w \in Workers, Request(w) \/ Fail(w)
      PROVE  Linking'
  BY <1>3, RequestLinking, LooksLinking
<1> QED
  BY <1>1, <1>2, <1>3 DEF Next

\* A community source belongs to a question of the exam, and one that an import
\* has made or moved to a question whose row names its discussion, though two
\* confirms may find the same source and write it one after the other, and rows
\* fail and are rolled back in between.
THEOREM SourcesNamed == Spec => []SourcesLinked
<1>1. Base /\ Linking => SourcesLinked
  <2> SUFFICES ASSUME Linking, NEW s \in SourceIds, sources[s] # None
               PROVE  /\ sources[s].question \in DOMAIN questions
                      /\ LET from == questions[sources[s].question].from
                         IN from # None =>
                              LET signal == items[from[1]][from[2]].canonical.community
                              IN /\ signal # None
                                 /\ <<signal.url, signal.id>> = <<sources[s].url, sources[s].id>>
    BY DEF SourcesLinked
  <2>1. PICK q : q = sources[s].question
    OBVIOUS
  <2>2. ASSUME questions[q].from # None
        PROVE  LET from == questions[q].from
                   signal == items[from[1]][from[2]].canonical.community
               IN /\ signal # None
                  /\ <<signal.url, signal.id>> = <<sources[s].url, sources[s].id>>
    <3>1. PICK i, r :
            /\ i \in ImportIds /\ r \in DOMAIN items[i]
            /\ questions[q].from = <<i, r>> /\ Names(items[i][r].canonical, sources[s])
      BY <2>1, <2>2 DEF Linking, Sourced
    <3> QED
      BY <3>1 DEF Names, SameDiscussion
  <2> QED
    BY <2>1, <2>2 DEF Linking, Sourced
<1>2. Init => Base /\ Linking
  BY InitBase, InitLinking
<1>3. Base /\ Linking /\ [Next]_vars => (Base /\ Linking)'
  BY BaseStep, LinkingStep
<1> QED
  BY <1>1, <1>2, <1>3, PTL DEF Spec

-----------------------------------------------------------------------------
(* One request at a time works on an import                                 *)

Alone ==
  \A w, v \in Workers : v # w /\ job[w].import # None => job[v].import # job[w].import

Distinct(s) == \A k, l \in DOMAIN s : s[k] = s[l] => k = l

\* What a request has read of its rows is still so: nobody else writes them.
Sure(step, j) ==
  /\ step = "toggle" => items[j.import][j.row].status = j.loaded
  /\ step = "convert" =>
       /\ \A r \in RowsOf(j) : /\ items[j.import][r].status = "ok"
                               /\ items[j.import][r].question = None
       /\ Distinct(j.todo) /\ Distinct(j.made)
       /\ Elements(j.todo) \cap Elements(j.made) = {}
       /\ (Elements(j.todo) \cup Elements(j.made)) \cap j.failed = {}

\* A row is `imported' when it has its question, and every question made of a
\* row is the row's.
Once ==
  /\ \A i \in ImportIds : \A r \in DOMAIN items[i] :
       items[i][r].status = "imported" <=> items[i][r].question # None
  /\ \A q \in DOMAIN questions : questions[q].from # None =>
       \E i \in ImportIds : \E r \in DOMAIN items[i] :
         questions[q].from = <<i, r>> /\ items[i][r].question = q

Serial == Alone /\ Once /\ \A w \in Workers : Sure(pc[w], job[w])

\* A step of one request leaves the rows of the other imports alone.
LEMMA SerialKept ==
  ASSUME Base, Serial, NEW w \in Workers, NEW step, NEW j, GoesOn(w, step, j),
         \/ j.import = job[w].import \/ j.import = None
         \/ \A v \in Workers : job[v].import # j.import,
         \A i \in ImportIds : i # job[w].import => items'[i] = items[i],
         Sure(step, j)', Once'
  PROVE  Serial'
<1>1. pc'[w] = step /\ job'[w] = j /\ Others(w)
  BY GoesOnOnly
<1>2. \A v \in Workers \ {w} : pc'[v] = pc[v] /\ job'[v] = job[v]
  BY <1>1 DEF Others
<1>3. Alone'
  <2> SUFFICES ASSUME NEW u \in Workers, NEW v \in Workers, v # u, job'[u].import # None
               PROVE  job'[v].import # job'[u].import
    BY DEF Alone
  <2>1. CASE u = w
    BY <1>1, <1>2, <2>1 DEF Serial, Alone
  <2>2. CASE v = w
    BY <1>1, <1>2, <2>2 DEF Serial, Alone
  <2>3. CASE u # w /\ v # w
    BY <1>2, <2>3 DEF Serial, Alone
  <2> QED
    BY <2>1, <2>2, <2>3
<1>4. ASSUME NEW v \in Workers \ {w}
      PROVE  Sure(pc[v], job[v])'
  <2>1. PICK at, doing : at = pc[v] /\ doing = job[v]
    OBVIOUS
  <2>2. Sure(at, doing)
    BY <2>1 DEF Serial
  <2>3. CASE at = "idle"
    BY <1>2, <2>1, <2>3 DEF Sure
  <2>4. CASE at # "idle"
    <3>1. doing.import \in ImportIds
      BY <2>1, <2>4, UnderWay
    <3>2. doing.import # job[w].import
      BY <2>1, <3>1, NoneAssumption DEF Serial, Alone
    <3>3. items'[doing.import] = items[doing.import]
      BY <3>1, <3>2
    <3>4. Sure(at, doing)'
      BY <2>2, <3>3 DEF Sure
    <3> QED
      BY <1>2, <2>1, <3>4
  <2> QED
    BY <2>3, <2>4
<1>5. Sure(pc[w], job[w])'
  BY <1>1
<1> QED
  BY <1>3, <1>4, <1>5 DEF Serial

\* A step that publishes nothing.
LEMMA QuietSerial ==
  ASSUME Base, Serial, NEW w \in Workers, NEW step, NEW j, GoesOn(w, step, j),
         \/ j.import = job[w].import \/ j.import = None
         \/ \A v \in Workers : job[v].import # j.import,
         UNCHANGED <<items, questions>>, Sure(step, j)
  PROVE  Serial'
<1>1. Sure(step, j)'
  BY DEF Sure
<1>2. Once'
  BY DEF Serial, Once
<1> QED
  BY <1>1, <1>2, SerialKept

LEMMA RepliesSerial ==
  ASSUME Base, Serial, NEW w \in Workers, Replies(w), UNCHANGED <<items, questions>>
  PROVE  Serial'
<1>1. NoJob.import = None /\ GoesOn(w, "idle", NoJob) /\ Sure("idle", NoJob)
  BY DEF NoJob, Replies, Sure
<1> QED
  BY <1>1, QuietSerial

LEMMA RequestSerial ==
  ASSUME SerialImports, Base, Serial, NEW w \in Workers, Request(w)
  PROVE  Serial'
<1>1. PICK i \in ImportIds :
        \/ \E f \in Files : Upload(w, i, f)
        \/ \E m \in Mappings : SaveMapping(w, i, m)
        \/ \E r \in DOMAIN items[i] : ToggleRow(w, i, r)
        \/ Confirm(w, i)
  BY DEF Request
<1>2. \A v \in Workers : job[v].import # i
  BY <1>1 DEF Upload, SaveMapping, ToggleRow, Confirm, Takes
<1>3. UNCHANGED <<items, questions>>
  BY <1>1 DEF Upload, SaveMapping, ToggleRow, Confirm, tables
<1>4. \E step, j : GoesOn(w, step, j) /\ j.import = i /\ Sure(step, j)
  <2>1. ASSUME NEW f \in Files, Upload(w, i, f)
        PROVE  \E step, j : GoesOn(w, step, j) /\ j.import = i /\ Sure(step, j)
    <3>1. PICK step, j : step = FirstStep(f) /\ j = [NoJob EXCEPT !.import = i]
      OBVIOUS
    <3>2. GoesOn(w, step, j) /\ j.import = i /\ step \in {"commit upload", "read hashes"}
      BY <2>1, <3>1 DEF Upload, FirstStep, NoJob
    <3>3. Sure(step, j)
      BY <3>2 DEF Sure
    <3> QED
      BY <3>2, <3>3
  <2>2. ASSUME NEW m \in Mappings, SaveMapping(w, i, m)
        PROVE  \E step, j : GoesOn(w, step, j) /\ j.import = i /\ Sure(step, j)
    <3>1. PICK j : j = [NoJob EXCEPT !.import = i, !.columns = m.columns, !.loaded = imports[i]]
      OBVIOUS
    <3>2. GoesOn(w, "read hashes", j) /\ j.import = i
      BY <2>2, <3>1 DEF SaveMapping, NoJob
    <3>3. Sure("read hashes", j)
      BY <3>2 DEF Sure
    <3> QED
      BY <3>2, <3>3
  <2>3. ASSUME NEW r \in DOMAIN items[i], ToggleRow(w, i, r)
        PROVE  \E step, j : GoesOn(w, step, j) /\ j.import = i /\ Sure(step, j)
    <3>1. PICK j : j = [NoJob EXCEPT !.import = i, !.row = r, !.loaded = items[i][r].status]
      OBVIOUS
    <3>2. /\ GoesOn(w, "toggle", j) /\ j.import = i
          /\ j.row = r /\ j.loaded = items[i][r].status
      BY <2>3, <3>1 DEF ToggleRow, NoJob
    <3>3. Sure("toggle", j)
      BY <3>2 DEF Sure
    <3> QED
      BY <3>2, <3>3
  <2>4. ASSUME Confirm(w, i)
        PROVE  \E step, j : GoesOn(w, step, j) /\ j.import = i /\ Sure(step, j)
    <3>1. PICK j : j = [NoJob EXCEPT !.import = i, !.loaded = imports[i]]
      OBVIOUS
    <3>2. GoesOn(w, "read items", j) /\ j.import = i
      BY <2>4, <3>1 DEF Confirm, NoJob
    <3>3. Sure("read items", j)
      BY <3>2 DEF Sure
    <3> QED
      BY <3>2, <3>3
  <2> QED
    BY <1>1, <2>1, <2>2, <2>3, <2>4
<1> QED
  BY <1>2, <1>3, <1>4, QuietSerial

LEMMA DistinctTail ==
  ASSUME NEW s \in Seq(Nat), s # << >>, Distinct(s)
  PROVE  Distinct(Tail(s)) /\ Head(s) \notin Elements(Tail(s))
<1>1. PICK n \in Nat : n # 0 /\ DOMAIN s = 1..n /\ Len(s) = n
  BY LenProperties, EmptySeq
<1>2. PICK t \in Seq(Nat) : t = Tail(s)
  BY HeadTailProperties
<1>3. DOMAIN t = 1..(n - 1) /\ \A k \in 1..(n - 1) : k + 1 \in 1..n /\ t[k] = s[k + 1]
  BY <1>1, <1>2, HeadTailProperties
<1>4. Distinct(t)
  <2> SUFFICES ASSUME NEW k \in 1..(n - 1), NEW l \in 1..(n - 1), t[k] = t[l]
               PROVE  k = l
    BY <1>3 DEF Distinct
  <2>1. k + 1 = l + 1
    BY <1>1, <1>3 DEF Distinct
  <2> QED
    BY <2>1
<1>5. Head(s) = s[1] /\ 1 \in 1..n
  BY <1>1, HeadTailProperties
<1>6. ASSUME NEW k \in 1..(n - 1)
      PROVE  t[k] # Head(s)
  <2>1. k + 1 # 1
    OBVIOUS
  <2> QED
    BY <1>1, <1>3, <1>5, <2>1 DEF Distinct
<1> QED
  BY <1>2, <1>3, <1>4, <1>6 DEF Elements

LEMMA DistinctAppend ==
  ASSUME NEW s \in Seq(Nat), NEW x \in Nat, Distinct(s), x \notin Elements(s)
  PROVE  Distinct(Append(s, x))
<1>1. PICK n \in Nat : DOMAIN s = 1..n /\ Len(s) = n
  BY LenProperties
<1>2. PICK t \in Seq(Nat) : t = Append(s, x)
  BY AppendProperties
<1>3. DOMAIN t = 1..(n + 1) /\ t[n + 1] = x /\ \A k \in 1..n : t[k] = s[k]
  BY <1>1, <1>2
<1>4. \A k \in 1..n : s[k] # x
  BY <1>1 DEF Elements
<1>5. ASSUME NEW k \in 1..(n + 1), NEW l \in 1..(n + 1), t[k] = t[l]
      PROVE  k = l
  <2>1. CASE k \in 1..n /\ l \in 1..n
    BY <1>1, <1>3, <1>5, <2>1 DEF Distinct
  <2>2. CASE k \in 1..n /\ l = n + 1
    BY <1>3, <1>4, <1>5, <2>2
  <2>3. CASE k = n + 1 /\ l \in 1..n
    BY <1>3, <1>4, <1>5, <2>3
  <2> QED
    BY <2>1, <2>2, <2>3
<1> QED
  BY <1>2, <1>3, <1>5 DEF Distinct

\* A confirm goes on with the next row.
LEMMA NextRowSure ==
  ASSUME Base, NEW w \in Workers, Converting(w), Sure("convert", job[w]),
         NEW j, j.import = job[w].import, j.todo = Tail(job[w].todo),
         \/ j.made = Append(job[w].made, Head(job[w].todo)) /\ j.failed = job[w].failed
         \/ j.made = job[w].made /\ j.failed = job[w].failed \cup {Head(job[w].todo)}
  PROVE  Sure("convert", j)
<1>1. PICK todo \in Seq(Nat), made \in Seq(Nat), failed \in SUBSET Nat :
        todo = job[w].todo /\ made = job[w].made /\ failed = job[w].failed /\ todo # << >>
  BY NextRow DEF Job
<1>2. PICK r \in Nat : r = Head(todo)
  BY <1>1, HeadTail
<1>3. /\ Distinct(todo) /\ Distinct(made) /\ Elements(todo) \cap Elements(made) = {}
      /\ (Elements(todo) \cup Elements(made)) \cap failed = {}
      /\ \A p \in Elements(todo) \cup Elements(made) \cup failed :
           /\ items[job[w].import][p].status = "ok"
           /\ items[job[w].import][p].question = None
  BY <1>1 DEF Sure, RowsOf
<1>4. PICK rest \in Seq(Nat) : rest = Tail(todo)
  BY <1>1, HeadTail
<1>5. Elements(todo) = {r} \cup Elements(rest) /\ Distinct(rest) /\ r \notin Elements(rest)
  BY <1>1, <1>2, <1>3, <1>4, HeadTail, DistinctTail
<1>6. PICK more \in Seq(Nat) : more = Append(made, r)
  BY <1>2, AppendElements
<1>7. Elements(more) = Elements(made) \cup {r}
  BY <1>2, <1>6, AppendElements
<1>8. r \notin Elements(made)
  BY <1>3, <1>5
<1>9. Distinct(more)
  BY <1>2, <1>3, <1>6, <1>8, DistinctAppend
<1>10. CASE j.made = more /\ j.failed = failed
  <2>1. Elements(rest) \cap Elements(more) = {}
    BY <1>3, <1>5, <1>7
  <2>2. (Elements(rest) \cup Elements(more)) \cap failed = {}
    BY <1>3, <1>5, <1>7
  <2>3. \A p \in Elements(rest) \cup Elements(more) \cup failed :
          p \in Elements(todo) \cup Elements(made) \cup failed
    BY <1>5, <1>7
  <2>4. j.todo = rest
    BY <1>1, <1>4
  <2> QED
    BY <1>3, <1>5, <1>9, <1>10, <2>1, <2>2, <2>3, <2>4 DEF Sure, RowsOf
<1>11. CASE j.made = made /\ j.failed = failed \cup {r}
  <2>1. Elements(rest) \cap Elements(made) = {}
    BY <1>3, <1>5
  <2>2. (Elements(rest) \cup Elements(made)) \cap (failed \cup {r}) = {}
    BY <1>3, <1>5, <1>8
  <2>3. \A p \in Elements(rest) \cup Elements(made) \cup (failed \cup {r}) :
          p \in Elements(todo) \cup Elements(made) \cup failed
    BY <1>5
  <2>4. j.todo = rest
    BY <1>1, <1>4
  <2> QED
    BY <1>3, <1>5, <1>11, <2>1, <2>2, <2>3, <2>4 DEF Sure, RowsOf
<1> QED
  BY <1>1, <1>2, <1>6, <1>10, <1>11

LEMMA RollBackRowSerial ==
  ASSUME Base, Serial, NEW w \in Workers, Converting(w), RollBackRow(w),
         UNCHANGED <<items, questions>>
  PROVE  Serial'
<1>1. Sure("convert", job[w])
  BY DEF Serial, Converting
<1>2. PICK j : j = [job[w] EXCEPT !.todo = Tail(@), !.row = Head(job[w].todo),
                      !.failed = @ \cup {Head(job[w].todo)}, !.found = None]
  OBVIOUS
<1>3. /\ j.import = job[w].import /\ j.todo = Tail(job[w].todo)
      /\ j.made = job[w].made /\ j.failed = job[w].failed \cup {Head(job[w].todo)}
  BY <1>2, NextRow DEF Job
<1>4. GoesOn(w, "convert", j)
  BY <1>2 DEF RollBackRow
<1> QED
  BY <1>1, <1>3, <1>4, NextRowSure, QuietSerial

\* The steps of a request that publish nothing.
LEMMA LooksSerial ==
  ASSUME Base, Serial, NEW w \in Workers,
         \/ CommitUpload(w) \/ ReadHashes(w) \/ ReadItems(w) \/ FlushMark(w)
         \/ FindSource(w) \/ ConvertItem(w) \/ FailItem(w) \/ BreakDeadlock(w) \/ Fail(w)
  PROVE  Serial'
<1>1. UNCHANGED <<items, questions>>
  BY DEF CommitUpload, ReadHashes, ReadItems, FlushMark, FindSource, ConvertItem,
         FailItem, BreakDeadlock, Fail, tables
<1>2. CASE CommitUpload(w) \/ Fail(w)
  BY <1>1, <1>2, RepliesSerial DEF CommitUpload, Fail
<1>3. CASE ReadHashes(w)
  <2>1. PICK j : j = [job[w] EXCEPT !.hashes = {questions[q].hash : q \in DOMAIN questions}]
    OBVIOUS
  <2>2. job[w] \in Job
    BY <1>3, UnderWay DEF ReadHashes
  <2>3. j.import = job[w].import
    BY <2>1, <2>2 DEF Job
  <2>4. GoesOn(w, "stage", j) /\ Sure("stage", j)
    BY <1>3, <2>1 DEF ReadHashes, Sure
  <2> QED
    BY <1>1, <2>3, <2>4, QuietSerial
<1>4. CASE ReadItems(w)
  <2>1. PICK i \in ImportIds : i = job[w].import
    BY <1>4, UnderWay DEF ReadItems
  <2>2. CASE items[i] = << >>
    BY <1>1, <1>4, <2>1, <2>2, RepliesSerial DEF ReadItems
  <2>3. CASE items[i] # << >>
    <3>1. PICK todo \in Seq(Nat) : todo = ToImport(i)
      BY ToImportRows
    <3>2. PICK j : j = [job[w] EXCEPT !.todo = todo]
      OBVIOUS
    <3>3. job[w] \in Job /\ Fits("read items", job[w])
      BY <1>4, UnderWay DEF ReadItems
    <3>4. /\ j.import = i /\ j.todo = todo
          /\ j.made = job[w].made /\ j.failed = job[w].failed
      BY <2>1, <3>2, <3>3 DEF Job
    <3>5. j.made = << >> /\ j.failed = {} /\ Elements(j.made) = {}
      BY <3>3, <3>4 DEF Fits, Elements
    <3>6. /\ Distinct(todo)
          /\ \A r \in Elements(todo) : /\ items[i][r].status = "ok"
                                       /\ items[i][r].question = None
      BY <3>1, ToImportRows DEF Distinct
    <3>7. Sure("convert", j)
      BY <3>4, <3>5, <3>6 DEF Sure, RowsOf, Distinct
    <3>8. GoesOn(w, "convert", j)
      BY <1>4, <2>1, <2>3, <3>1, <3>2 DEF ReadItems
    <3> QED
      BY <1>1, <2>1, <3>4, <3>7, <3>8, QuietSerial
  <2> QED
    BY <2>2, <2>3
<1>5. ASSUME NEW j, pc[w] = "convert", GoesOn(w, "convert", j), j.import = job[w].import,
             j.todo = job[w].todo, j.made = job[w].made, j.failed = job[w].failed
      PROVE  Serial'
  <2>1. Sure("convert", job[w])
    BY <1>5 DEF Serial
  <2>2. Sure("convert", j)
    BY <1>5, <2>1 DEF Sure, RowsOf
  <2> QED
    BY <1>1, <1>5, <2>2, QuietSerial
<1>6. CASE FlushMark(w)
  <2>1. PICK j : j = [job[w] EXCEPT !.row = 0]
    OBVIOUS
  <2>2. pc[w] = "convert" /\ job[w] \in Job /\ GoesOn(w, "convert", j)
    BY <1>6, <2>1, UnderWay DEF FlushMark
  <2>3. /\ j.import = job[w].import /\ j.todo = job[w].todo
        /\ j.made = job[w].made /\ j.failed = job[w].failed
    BY <2>1, <2>2 DEF Job
  <2> QED
    BY <1>5, <2>2, <2>3
<1>7. CASE FindSource(w)
  <2>1. PICK found : GoesOn(w, "convert", [job[w] EXCEPT !.found = found])
    BY <1>7 DEF FindSource
  <2>2. PICK j : j = [job[w] EXCEPT !.found = found]
    OBVIOUS
  <2>3. pc[w] = "convert" /\ job[w] \in Job
    BY <1>7, UnderWay DEF FindSource, Converting
  <2>4. /\ j.import = job[w].import /\ j.todo = job[w].todo
        /\ j.made = job[w].made /\ j.failed = job[w].failed
    BY <2>2, <2>3 DEF Job
  <2> QED
    BY <1>5, <2>1, <2>2, <2>3, <2>4
<1>8. CASE ConvertItem(w)
  <2>1. Converting(w) /\ Sure("convert", job[w])
    BY <1>8 DEF ConvertItem, Converting, Serial
  <2>2. PICK j : j = [job[w] EXCEPT !.todo = Tail(@), !.made = Append(@, Head(job[w].todo)),
                                    !.found = None, !.linked = Linked(w)]
    OBVIOUS
  <2>3. /\ j.import = job[w].import /\ j.todo = Tail(job[w].todo)
        /\ j.made = Append(job[w].made, Head(job[w].todo)) /\ j.failed = job[w].failed
    BY <2>1, <2>2, NextRow DEF Job
  <2>4. GoesOn(w, "convert", j)
    BY <1>8, <2>2 DEF ConvertItem
  <2> QED
    BY <1>1, <2>1, <2>3, <2>4, NextRowSure, QuietSerial
<1>9. CASE FailItem(w)
  BY <1>1, <1>9, RollBackRowSerial DEF FailItem
<1>10. CASE BreakDeadlock(w)
  BY <1>1, <1>10, RollBackRowSerial, RepliesSerial DEF BreakDeadlock
<1> QED
  BY <1>2, <1>3, <1>4, <1>6, <1>7, <1>8, <1>9, <1>10

LEMMA StageItemsSerial ==
  ASSUME Base, Serial, NEW w \in Workers, StageItems(w)
  PROVE  Serial'
<1>1. Replies(w) /\ UNCHANGED questions
  BY DEF StageItems
<1>2. CASE UNCHANGED <<imports, items>>
  BY <1>1, <1>2, RepliesSerial
<1>3. ASSUME NEW i \in ImportIds, NEW rows \in Seq(Canonicals), NEW known,
             i = job[w].import, Stages(i, rows, known)
      PROVE  Serial'
  <2>1. PICK staged : staged = Staged(rows, known)
    OBVIOUS
  <2>2. \A r \in DOMAIN staged : staged[r].question = None /\ staged[r].status # "imported"
    BY <2>1, StagedRows
  <2>3. /\ items'[i] = staged /\ \A k \in ImportIds \ {i} : items'[k] = items[k]
        /\ items[i] = << >>
    BY <1>3, <2>1 DEF Stages, Base, Typed
  <2>4. \A k \in ImportIds : \A r \in DOMAIN items'[k] :
          items'[k][r].status = "imported" <=> items'[k][r].question # None
    BY <2>2, <2>3 DEF Serial, Once
  <2>5. \A q \in DOMAIN questions' : questions'[q].from # None =>
          \E k \in ImportIds : \E r \in DOMAIN items'[k] :
            questions'[q].from = <<k, r>> /\ items'[k][r].question = q
    <3> SUFFICES ASSUME NEW q \in DOMAIN questions, questions[q].from # None
                 PROVE  \E k \in ImportIds : \E r \in DOMAIN items'[k] :
                          questions[q].from = <<k, r>> /\ items'[k][r].question = q
      BY <1>1
    <3>1. PICK k, r :
            /\ k \in ImportIds /\ r \in DOMAIN items[k]
            /\ questions[q].from = <<k, r>> /\ items[k][r].question = q
      BY DEF Serial, Once
    <3>2. k # i
      BY <2>3, <3>1
    <3> QED
      BY <2>3, <3>1, <3>2
  <2>6. Once'
    BY <2>4, <2>5 DEF Once
  <2>7. GoesOn(w, "idle", NoJob) /\ NoJob.import = None /\ Sure("idle", NoJob)'
    BY <1>1 DEF Replies, NoJob, Sure
  <2> QED
    BY <1>3, <2>3, <2>6, <2>7, SerialKept
<1>4. ASSUME NEW i \in ImportIds, i = job[w].import, Remaps(i)
      PROVE  Serial'
  BY <1>1, <1>4, RepliesSerial DEF Remaps
<1> QED
  BY <1>2, <1>3, <1>4, StageItemsDoes

LEMMA CommitToggleSerial ==
  ASSUME Base, Serial, NEW w \in Workers, CommitToggle(w)
  PROVE  Serial'
<1>1. pc[w] = "toggle" /\ Replies(w) /\ UNCHANGED questions
  BY DEF CommitToggle
<1>2. PICK i \in ImportIds, row \in Nat, new \in Item : Toggled(w, i, row, new)
  BY ToggledRow
<1>3. PICK rows : rows = [items[i] EXCEPT ![row] = new]
  OBVIOUS
<1>4. /\ Rewritten(i, rows)
      /\ \A r \in DOMAIN rows : rows[r] = IF r = row THEN new ELSE items[i][r]
  BY <1>2, <1>3, ToggledRewrites
<1>5. /\ items'[i] = rows /\ DOMAIN rows = DOMAIN items[i]
      /\ \A k \in ImportIds \ {i} : items'[k] = items[k]
  BY <1>4 DEF Rewritten, Base, Typed
<1>6. /\ i = job[w].import /\ row = job[w].row /\ row \in DOMAIN items[i]
      /\ new.question = items[i][row].question /\ new.status # "imported"
  BY <1>2 DEF Toggled, Live
<1>7. items[i][row].status # "imported"
  <2>1. job[w].loaded \in {"ok", "skipped"}
    BY <1>1, UnderWay DEF Fits
  <2>2. items[i][row].status = job[w].loaded
    BY <1>1, <1>6 DEF Serial, Sure
  <2> QED
    BY <2>1, <2>2
<1>8. new.question = None
  BY <1>6, <1>7 DEF Serial, Once
<1>9. \A k \in ImportIds : \A r \in DOMAIN items'[k] :
        items'[k][r].status = "imported" <=> items'[k][r].question # None
  <2> TAKE k \in ImportIds
  <2>1. CASE k = i
    BY <1>4, <1>5, <1>6, <1>8, <2>1 DEF Serial, Once
  <2>2. CASE k # i
    BY <1>5, <2>2 DEF Serial, Once
  <2> QED
    BY <2>1, <2>2
<1>10. \A q \in DOMAIN questions' : questions'[q].from # None =>
         \E k \in ImportIds : \E r \in DOMAIN items'[k] :
           questions'[q].from = <<k, r>> /\ items'[k][r].question = q
  <2> SUFFICES ASSUME NEW q \in DOMAIN questions, questions[q].from # None
               PROVE  \E k \in ImportIds : \E r \in DOMAIN items'[k] :
                        questions[q].from = <<k, r>> /\ items'[k][r].question = q
    BY <1>1
  <2>1. PICK k, r :
          /\ k \in ImportIds /\ r \in DOMAIN items[k]
          /\ questions[q].from = <<k, r>> /\ items[k][r].question = q
    BY DEF Serial, Once
  <2>2. r \in DOMAIN items'[k] /\ items'[k][r].question = items[k][r].question
    <3>1. CASE k = i
      <4>1. rows[r].question = items[i][r].question
        BY <1>4, <1>5, <1>6, <2>1, <3>1
      <4> QED
        BY <1>5, <2>1, <3>1, <4>1
    <3>2. CASE k # i
      BY <1>5, <2>1, <3>2
    <3> QED
      BY <3>1, <3>2
  <2> QED
    BY <2>1, <2>2
<1>11. Once'
  BY <1>9, <1>10 DEF Once
<1>12. GoesOn(w, "idle", NoJob) /\ NoJob.import = None /\ Sure("idle", NoJob)'
  BY <1>1 DEF Replies, NoJob, Sure
<1> QED
  BY <1>5, <1>6, <1>11, <1>12, SerialKept

\* What a confirm makes its questions of: rows selected at that moment, once.
LEMMA MadeOf ==
  ASSUME Base, Serial, NEW w \in Workers, CommitConfirm(w)
  PROVE  /\ Distinct(job[w].made)
         /\ \A r \in Elements(job[w].made) \cup job[w].failed :
              /\ items[job[w].import][r].status = "ok"
              /\ items[job[w].import][r].question = None
<1>1. Sure("convert", job[w])
  BY DEF CommitConfirm, Serial
<1> QED
  BY <1>1 DEF Sure, RowsOf

LEMMA CommitConfirmSerial ==
  ASSUME Base, Serial, NEW w \in Workers, CommitConfirm(w)
  PROVE  Serial'
<1>1. Replies(w)
  BY DEF CommitConfirm
<1>2. PICK i \in ImportIds, made \in Seq(Nat), new \in Seq(Question), rows \in Seq(Item) :
        Publishes(w, i, made, new, rows)
  BY CommitConfirmDoes
<1>3. /\ i = job[w].import /\ made = job[w].made
      /\ new \in Seq(Question) /\ DOMAIN new = DOMAIN made /\ questions' = questions \o new
      /\ \A k \in DOMAIN made : Live(i, made[k]) /\ new[k].from = <<i, made[k]>>
      /\ Rewritten(i, rows)
  BY <1>2 DEF Publishes
<1>4. \A r \in DOMAIN rows :
        \/ \E k \in DOMAIN made : /\ made[k] = r
                                  /\ rows[r].status = "imported"
                                  /\ rows[r].question = Len(questions) + k
        \/ /\ r \notin Elements(made)
           /\ rows[r].question = items[i][r].question
           /\ rows[r] = items[i][r] \/ (r \in job[w].failed /\ rows[r].status = "error")
  BY <1>2 DEF Publishes
<1>5. /\ Distinct(made)
      /\ \A r \in Elements(made) \cup job[w].failed : /\ items[i][r].status = "ok"
                                                      /\ items[i][r].question = None
  BY <1>3, MadeOf
<1>6. PICK n, m \in Nat : Joined(questions, new, questions', n, m)
  BY <1>3, Appended DEF Base, Typed
<1>7. /\ n = Len(questions) /\ DOMAIN questions = 1..n /\ DOMAIN made = 1..m
      /\ DOMAIN questions' = 1..(n + m)
      /\ \A q \in 1..n : q \in 1..(n + m) /\ questions'[q] = questions[q]
      /\ \A k \in 1..m : n + k \in 1..(n + m) /\ questions'[n + k] = new[k]
      /\ \A q \in 1..(n + m) : q \in 1..n \/ \E k \in 1..m : q = n + k
  BY <1>3, <1>6 DEF Joined
<1>8. /\ items'[i] = rows /\ DOMAIN rows = DOMAIN items[i]
      /\ \A k \in ImportIds \ {i} : items'[k] = items[k]
  BY <1>3 DEF Rewritten, Base, Typed
<1>9. ASSUME NEW r \in DOMAIN rows
      PROVE  rows[r].status = "imported" <=> rows[r].question # None
  <2>1. ASSUME NEW k \in 1..m, rows[r].status = "imported", rows[r].question = n + k
        PROVE  rows[r].status = "imported" <=> rows[r].question # None
    <3>1. n + k \in Nat
      OBVIOUS
    <3> QED
      BY <2>1, <3>1, NoneAssumption
  <2>2. ASSUME rows[r].question = items[i][r].question,
               rows[r] = items[i][r] \/ (r \in job[w].failed /\ rows[r].status = "error")
        PROVE  rows[r].status = "imported" <=> rows[r].question # None
    <3>1. CASE rows[r] = items[i][r]
      BY <1>8, <3>1 DEF Serial, Once
    <3>2. CASE r \in job[w].failed /\ rows[r].status = "error"
      BY <1>5, <2>2, <3>2
    <3> QED
      BY <2>2, <3>1, <3>2
  <2> QED
    BY <1>4, <1>7, <2>1, <2>2
<1>10. \A k \in ImportIds : \A r \in DOMAIN items'[k] :
         items'[k][r].status = "imported" <=> items'[k][r].question # None
  <2> TAKE k \in ImportIds
  <2>1. CASE k = i
    BY <1>8, <1>9, <2>1
  <2>2. CASE k # i
    BY <1>8, <2>2 DEF Serial, Once
  <2> QED
    BY <2>1, <2>2
<1>11. ASSUME NEW q \in 1..(n + m), questions'[q].from # None
       PROVE  \E k \in ImportIds : \E r \in DOMAIN items'[k] :
                questions'[q].from = <<k, r>> /\ items'[k][r].question = q
  <2>1. CASE q \in 1..n
    <3>1. questions'[q] = questions[q]
      BY <1>7, <2>1
    <3>2. PICK k, r :
            /\ k \in ImportIds /\ r \in DOMAIN items[k]
            /\ questions[q].from = <<k, r>> /\ items[k][r].question = q
      BY <1>7, <1>11, <2>1, <3>1 DEF Serial, Once
    <3>3. r \in DOMAIN items'[k] /\ items'[k][r].question = q
      <4>1. CASE k # i
        BY <1>8, <3>2, <4>1
      <4>2. CASE k = i
        <5>1. q # None
          BY <2>1, NoneAssumption
        <5>2. \A l \in DOMAIN made : made[l] # r
          BY <1>5, <3>2, <4>2, <5>1 DEF Elements
        <5>3. rows[r].question = items[i][r].question
          BY <1>4, <1>8, <3>2, <4>2, <5>2
        <5> QED
          BY <1>8, <3>2, <4>2, <5>3
      <4> QED
        BY <4>1, <4>2
    <3> QED
      BY <3>1, <3>2, <3>3
  <2>2. ASSUME NEW l \in 1..m, q = n + l
        PROVE  \E k \in ImportIds : \E r \in DOMAIN items'[k] :
                 questions'[q].from = <<k, r>> /\ items'[k][r].question = q
    <3>1. PICK r : r = made[l]
      OBVIOUS
    <3>2. questions'[q].from = <<i, r>>
      BY <1>3, <1>7, <2>2, <3>1
    <3>3. r \in DOMAIN rows /\ r \in Elements(made)
      BY <1>3, <1>7, <1>8, <3>1 DEF Live, Elements
    <3>4. PICK k \in 1..m : made[k] = r /\ rows[r].question = n + k
      BY <1>4, <1>7, <3>3
    <3>5. k = l
      BY <1>5, <1>7, <3>1, <3>4 DEF Distinct
    <3> QED
      BY <1>8, <2>2, <3>2, <3>3, <3>4, <3>5
  <2> QED
    BY <1>7, <2>1, <2>2
<1>12. Once'
  BY <1>7, <1>10, <1>11 DEF Once
<1>13. GoesOn(w, "idle", NoJob) /\ NoJob.import = None /\ Sure("idle", NoJob)'
  BY <1>1 DEF Replies, NoJob, Sure
<1> QED
  BY <1>3, <1>8, <1>12, <1>13, SerialKept

LEMMA InitSerial == Init => Serial
<1> SUFFICES ASSUME Init PROVE Serial
  OBVIOUS
<1>1. \A q \in DOMAIN questions : questions[q].from = None
  BY BanksAssumption DEF Init
<1>2. \A i \in ImportIds : items[i] = << >>
  BY DEF Init
<1>3. \A w \in Workers : pc[w] = "idle" /\ job[w].import = None
  BY DEF Init, NoJob
<1> QED
  BY <1>1, <1>2, <1>3 DEF Serial, Alone, Once, Sure

LEMMA SerialStep ==
  ASSUME SerialImports, Base, Serial, [Next]_vars
  PROVE  Serial'
<1>1. CASE UNCHANGED vars
  <2>1. UNCHANGED <<items, questions, pc, job>>
    BY <1>1 DEF vars
  <2>2. Alone' /\ Once'
    BY <2>1 DEF Serial, Alone, Once
  <2>3. ASSUME NEW w \in Workers
        PROVE  Sure(pc[w], job[w])'
    <3>1. PICK step, j : step = pc[w] /\ j = job[w]
      OBVIOUS
    <3>2. Sure(step, j)'
      BY <2>1, <3>1 DEF Serial, Sure
    <3> QED
      BY <2>1, <3>1, <3>2
  <2> QED
    BY <2>2, <2>3 DEF Serial
<1>2. ASSUME NEW w \in Workers, Serve(w)
      PROVE  Serial'
  BY <1>2, LooksSerial, StageItemsSerial, CommitToggleSerial, CommitConfirmSerial DEF Serve
<1>3. ASSUME NEW w \in Workers, Request(w) \/ Fail(w)
      PROVE  Serial'
  BY <1>3, RequestSerial, LooksSerial
<1> QED
  BY <1>1, <1>2, <1>3 DEF Next

LEMMA SerialInductive ==
  ASSUME SerialImports
  PROVE  Spec => [](Base /\ Serial)
<1>1. Init => Base /\ Serial
  BY InitBase, InitSerial
<1>2. Base /\ Serial /\ [Next]_vars => (Base /\ Serial)'
  BY BaseStep, SerialStep
<1> QED
  BY <1>1, <1>2, PTL DEF Spec

\* Confirming is idempotent: a row gives at most one question, however often its
\* import is confirmed and its row toggled, as long as one request at a time
\* works on the import (the run imports_two_confirms shows what happens if not).
THEOREM OnceImported ==
  ASSUME SerialImports
  PROVE  Spec => []OneQuestionPerRow
<1>1. Base /\ Serial => OneQuestionPerRow
  <2> SUFFICES ASSUME Serial, NEW q \in DOMAIN questions, NEW p \in DOMAIN questions,
                      questions[q].from = questions[p].from, questions[q].from # None
               PROVE  q = p
    BY DEF OneQuestionPerRow
  <2>1. PICK i, r :
          /\ i \in ImportIds /\ r \in DOMAIN items[i]
          /\ questions[q].from = <<i, r>> /\ items[i][r].question = q
    BY DEF Serial, Once
  <2>2. PICK k, l :
          /\ k \in ImportIds /\ l \in DOMAIN items[k]
          /\ questions[p].from = <<k, l>> /\ items[k][l].question = p
    BY DEF Serial, Once
  <2>3. <<i, r>> = <<k, l>>
    BY <2>1, <2>2
  <2>4. i = k /\ r = l
    BY <2>3
  <2> QED
    BY <2>1, <2>2, <2>4
<1> QED
  BY <1>1, SerialInductive, PTL

\* A row is `imported' exactly when it has its question: rows that failed, were
\* deselected or are duplicates have none.
THEOREM ImportedMeansQuestion ==
  ASSUME SerialImports
  PROVE  Spec => []ImportedHaveQuestions
<1>1. Base /\ Serial => ImportedHaveQuestions
  BY DEF Serial, Once, ImportedHaveQuestions
<1> QED
  BY <1>1, SerialInductive, PTL

\* New questions come from selected rows.
OnlySelectedRows ==
  [][\A q \in DOMAIN questions' \ DOMAIN questions :
       LET from == questions'[q].from
       IN items[from[1]][from[2]].status = "ok"]_vars

\* Only rows selected at the moment of the commit become questions, though the
\* selection was read several steps before.
THEOREM SelectedOnly ==
  ASSUME SerialImports
  PROVE  Spec => OnlySelectedRows
<1>1. ASSUME Base, Serial, [Next]_vars, NEW q \in DOMAIN questions' \ DOMAIN questions
      PROVE  items[questions'[q].from[1]][questions'[q].from[2]].status = "ok"
  <2>1. PICK w \in Workers : CommitConfirm(w)
    BY <1>1, Writers DEF StageItems, CommitToggle
  <2>2. PICK i \in ImportIds, made \in Seq(Nat), new \in Seq(Question), rows \in Seq(Item) :
          Publishes(w, i, made, new, rows)
    BY <1>1, <2>1, CommitConfirmDoes
  <2>3. /\ i = job[w].import /\ made = job[w].made
        /\ new \in Seq(Question) /\ DOMAIN new = DOMAIN made /\ questions' = questions \o new
        /\ \A k \in DOMAIN made : new[k].from = <<i, made[k]>>
    BY <2>2 DEF Publishes
  <2>4. PICK n, m \in Nat : Joined(questions, new, questions', n, m)
    BY <1>1, <2>3, Appended DEF Base, Typed
  <2>5. PICK k \in 1..m : q = n + k /\ questions'[q] = new[k] /\ k \in DOMAIN made
    BY <1>1, <2>3, <2>4 DEF Joined
  <2>6. questions'[q].from = <<i, made[k]>> /\ made[k] \in Elements(made)
    BY <2>3, <2>5 DEF Elements
  <2>7. items[i][made[k]].status = "ok"
    BY <1>1, <2>1, <2>3, <2>6, MadeOf
  <2> QED
    BY <2>6, <2>7
<1>2. Base /\ Serial /\ [Next]_vars =>
        [\A q \in DOMAIN questions' \ DOMAIN questions :
           LET from == questions'[q].from
           IN items[from[1]][from[2]].status = "ok"]_vars
  BY <1>1
<1> QED
  BY <1>2, SerialInductive, PTL DEF Spec, OnlySelectedRows

-----------------------------------------------------------------------------
(* The refinement of ImportLifecycle                                        *)

Ascending(s) == \A k, l \in DOMAIN s : k < l => s[k] < s[l]

LEMMA RankGrows ==
  ASSUME NEW S \in SUBSET Nat, IsFiniteSet(S), NEW r \in S, NEW q \in S, r < q
  PROVE  Rank(S, r) \in Nat /\ Rank(S, q) \in Nat /\ Rank(S, r) < Rank(S, q)
<1>1. PICK lower, upper : lower = {p \in S : p <= r} /\ upper = {p \in S : p <= q}
  OBVIOUS
<1>2. lower \in SUBSET upper
  <2>1. \A p \in S : p <= r => p <= q
    OBVIOUS
  <2> QED
    BY <1>1, <2>1
<1>3. IsFiniteSet(upper) /\ IsFiniteSet(lower)
  BY <1>1, FS_Subset
<1>4. q \in upper /\ q \notin lower
  BY <1>1
<1>5. Cardinality(upper) # Cardinality(lower) /\ Cardinality(lower) <= Cardinality(upper)
  BY <1>2, <1>3, <1>4, FS_Subset
<1>6. Cardinality(upper) \in Nat /\ Cardinality(lower) \in Nat
  BY <1>3, FS_CardinalityType
<1>7. Rank(S, r) = Cardinality(lower) /\ Rank(S, q) = Cardinality(upper)
  BY <1>1 DEF Rank
<1> QED
  BY <1>5, <1>6, <1>7

\* All the rows, in ascending order.
LEMMA InOrderAscends ==
  ASSUME NEW S \in SUBSET Nat, IsFiniteSet(S)
  PROVE  Ascending(InOrder(S)) /\ Elements(InOrder(S)) = S
<1>1. PICK n \in Nat : n = Cardinality(S)
  BY Ranks
<1>2. /\ \A k \in 1..n : \E r \in S : Rank(S, r) = k
      /\ \A r \in S : Rank(S, r) \in 1..n
  BY <1>1, Ranks
<1>3. PICK s : s = InOrder(S)
  OBVIOUS
<1>4. s = [k \in 1..n |-> CHOOSE r \in S : Rank(S, r) = k]
  BY <1>1, <1>3 DEF InOrder, Rank
<1>5. DOMAIN s = 1..n /\ \A k \in 1..n : s[k] \in S /\ Rank(S, s[k]) = k
  BY <1>2, <1>4
<1>6. ASSUME NEW r \in S, NEW q \in S, Rank(S, r) < Rank(S, q)
      PROVE  r < q
  <2>1. CASE r = q
    BY <1>2, <1>6, <2>1
  <2>2. CASE q < r
    <3>1. Rank(S, q) < Rank(S, r)
      BY <2>2, RankGrows
    <3> QED
      BY <1>2, <1>6, <3>1
  <2>3. r = q \/ q < r \/ r < q
    OBVIOUS
  <2> QED
    BY <2>1, <2>2, <2>3
<1>7. ASSUME NEW k \in 1..n, NEW l \in 1..n, k < l
      PROVE  s[k] < s[l]
  <2>1. Rank(S, s[k]) = k /\ Rank(S, s[l]) = l /\ s[k] \in S /\ s[l] \in S
    BY <1>5
  <2>2. PICK r \in S, q \in S : r = s[k] /\ q = s[l]
    BY <2>1
  <2>3. Rank(S, r) < Rank(S, q)
    BY <1>7, <2>1, <2>2
  <2> QED
    BY <1>6, <2>2, <2>3
<1>8. ASSUME NEW r \in S
      PROVE  \E k \in 1..n : s[k] = r
  <2>1. PICK k \in 1..n : k = Rank(S, r)
    BY <1>2
  <2>2. PICK q \in S : q = s[k] /\ Rank(S, q) = k
    BY <1>5
  <2>3. q = r
    <3>1. CASE q < r
      BY <2>1, <2>2, <3>1, RankGrows
    <3>2. CASE r < q
      BY <2>1, <2>2, <3>2, RankGrows
    <3>3. q = r \/ q < r \/ r < q
      OBVIOUS
    <3> QED
      BY <3>1, <3>2, <3>3
  <2> QED
    BY <2>2, <2>3
<1>9. Ascending(s)
  BY <1>5, <1>7 DEF Ascending
<1>10. Elements(s) = S
  BY <1>5, <1>8 DEF Elements
<1> QED
  BY <1>3, <1>9, <1>10

LEMMA ToImportAll ==
  ASSUME Base, NEW i \in ImportIds
  PROVE  /\ Ascending(ToImport(i))
         /\ \A r \in DOMAIN items[i] :
              items[i][r].status = "ok" /\ items[i][r].question = None =>
                r \in Elements(ToImport(i))
<1>1. PICK S : S = {r \in DOMAIN items[i] :
                      items[i][r].status = "ok" /\ items[i][r].question = None}
  OBVIOUS
<1>2. S \in SUBSET Nat /\ IsFiniteSet(S)
  <2>1. PICK n \in Nat : DOMAIN items[i] = 1..n
    BY LenProperties DEF Base, Typed
  <2>2. IsFiniteSet(1..n) /\ S \in SUBSET (1..n)
    BY <1>1, <2>1, FS_Interval
  <2>3. IsFiniteSet(S)
    BY <2>2, FS_Subset
  <2>4. S \in SUBSET Nat
    BY <2>2
  <2> QED
    BY <2>3, <2>4
<1>3. ToImport(i) = InOrder(S)
  BY <1>1 DEF ToImport
<1>4. Ascending(ToImport(i)) /\ Elements(ToImport(i)) = S
  BY <1>2, <1>3, InOrderAscends
<1> QED
  BY <1>1, <1>4

LEMMA AscendingTail ==
  ASSUME NEW s \in Seq(Nat), s # << >>, Ascending(s)
  PROVE  Ascending(Tail(s)) /\ \A x \in Elements(Tail(s)) : Head(s) < x
<1>1. PICK n \in Nat : n # 0 /\ DOMAIN s = 1..n /\ Len(s) = n
  BY LenProperties, EmptySeq
<1>2. PICK t \in Seq(Nat) : t = Tail(s)
  BY HeadTailProperties
<1>3. DOMAIN t = 1..(n - 1) /\ \A k \in 1..(n - 1) : k + 1 \in 1..n /\ t[k] = s[k + 1]
  BY <1>1, <1>2, HeadTailProperties
<1>4. Ascending(t)
  <2> SUFFICES ASSUME NEW k \in 1..(n - 1), NEW l \in 1..(n - 1), k < l
               PROVE  t[k] < t[l]
    BY <1>3 DEF Ascending
  <2>1. k + 1 < l + 1
    OBVIOUS
  <2> QED
    BY <1>1, <1>3, <2>1 DEF Ascending
<1>5. Head(s) = s[1] /\ 1 \in 1..n
  BY <1>1, HeadTailProperties
<1>6. ASSUME NEW k \in 1..(n - 1)
      PROVE  Head(s) < t[k]
  <2>1. 1 < k + 1
    OBVIOUS
  <2> QED
    BY <1>1, <1>3, <1>5, <2>1 DEF Ascending
<1> QED
  BY <1>2, <1>3, <1>4, <1>6 DEF Elements

LEMMA AscendingAppend ==
  ASSUME NEW s \in Seq(Nat), NEW x \in Nat, Ascending(s), \A y \in Elements(s) : y < x
  PROVE  Ascending(Append(s, x))
<1>1. PICK n \in Nat : DOMAIN s = 1..n /\ Len(s) = n
  BY LenProperties
<1>2. PICK t \in Seq(Nat) : t = Append(s, x)
  BY AppendProperties
<1>3. DOMAIN t = 1..(n + 1) /\ t[n + 1] = x /\ \A k \in 1..n : t[k] = s[k]
  BY <1>1, <1>2
<1>4. \A k \in 1..n : s[k] < x
  BY <1>1 DEF Elements
<1>5. ASSUME NEW k \in 1..(n + 1), NEW l \in 1..(n + 1), k < l
      PROVE  t[k] < t[l]
  <2>1. CASE l \in 1..n
    <3>1. k \in 1..n
      BY <1>5, <2>1
    <3> QED
      BY <1>1, <1>3, <1>5, <2>1, <3>1 DEF Ascending
  <2>2. CASE l = n + 1
    <3>1. k \in 1..n
      BY <1>5, <2>2
    <3> QED
      BY <1>3, <1>4, <2>2, <3>1
  <2> QED
    BY <2>1, <2>2
<1> QED
  BY <1>2, <1>3, <1>5 DEF Ascending

\* What a confirm converts is all there is to convert, in row order, and a request
\* that will stage or confirm knows the status of its import.
Whole(step, j) ==
  /\ step \in {"read hashes", "stage", "read items", "convert"} =>
       j.loaded = imports[j.import]
  /\ step = "convert" =>
       /\ \A r \in DOMAIN items[j.import] :
            items[j.import][r].status = "ok" => r \in RowsOf(j)
       /\ Ascending(j.todo) /\ Ascending(j.made)
       /\ \A p \in Elements(j.made) : \A r \in Elements(j.todo) : p < r

\* An import has no rows before it is staged.
Ready == \A i \in ImportIds : imports[i] \in {"none", "uploaded"} => items[i] = << >>

Complete == Ready /\ \A w \in Workers : Whole(pc[w], job[w])

\* A step of one request leaves the other imports alone.
LEMMA CompleteKept ==
  ASSUME Base, Serial, Complete, NEW w \in Workers, NEW step, NEW j, GoesOn(w, step, j),
         \A i \in ImportIds : i # job[w].import =>
           items'[i] = items[i] /\ imports'[i] = imports[i],
         Whole(step, j)', Ready'
  PROVE  Complete'
<1>1. pc'[w] = step /\ job'[w] = j /\ Others(w)
  BY GoesOnOnly
<1>2. \A v \in Workers \ {w} : pc'[v] = pc[v] /\ job'[v] = job[v]
  BY <1>1 DEF Others
<1>3. ASSUME NEW v \in Workers \ {w}
      PROVE  Whole(pc[v], job[v])'
  <2>1. PICK at, doing : at = pc[v] /\ doing = job[v]
    OBVIOUS
  <2>2. Whole(at, doing)
    BY <2>1 DEF Complete
  <2>3. CASE at = "idle"
    BY <1>2, <2>1, <2>3 DEF Whole
  <2>4. CASE at # "idle"
    <3>1. doing.import \in ImportIds
      BY <2>1, <2>4, UnderWay
    <3>2. doing.import # job[w].import
      BY <2>1, <3>1, NoneAssumption DEF Serial, Alone
    <3>3. items'[doing.import] = items[doing.import] /\ imports'[doing.import] = imports[doing.import]
      BY <3>1, <3>2
    <3>4. Whole(at, doing)'
      BY <2>2, <3>3 DEF Whole
    <3> QED
      BY <1>2, <2>1, <3>4
  <2> QED
    BY <2>3, <2>4
<1>4. Whole(pc[w], job[w])'
  BY <1>1
<1> QED
  BY <1>3, <1>4 DEF Complete

LEMMA QuietComplete ==
  ASSUME Base, Serial, Complete, NEW w \in Workers, NEW step, NEW j, GoesOn(w, step, j),
         UNCHANGED <<items, imports>>, Whole(step, j)
  PROVE  Complete'
<1>1. Whole(step, j)'
  BY DEF Whole
<1>2. Ready'
  BY DEF Complete, Ready
<1> QED
  BY <1>1, <1>2, CompleteKept

LEMMA RepliesComplete ==
  ASSUME Base, Serial, Complete, NEW w \in Workers, Replies(w), UNCHANGED <<items, imports>>
  PROVE  Complete'
<1>1. GoesOn(w, "idle", NoJob) /\ Whole("idle", NoJob)
  BY DEF Replies, Whole
<1> QED
  BY <1>1, QuietComplete

LEMMA RequestComplete ==
  ASSUME Base, Serial, Complete, NEW w \in Workers, Request(w)
  PROVE  Complete'
<1>1. PICK i \in ImportIds :
        \/ \E f \in Files : Upload(w, i, f)
        \/ \E m \in Mappings : SaveMapping(w, i, m)
        \/ \E r \in DOMAIN items[i] : ToggleRow(w, i, r)
        \/ Confirm(w, i)
  BY DEF Request
<1>2. UNCHANGED <<items, imports>>
  BY <1>1 DEF Upload, SaveMapping, ToggleRow, Confirm, tables
<1>3. \E step, j : GoesOn(w, step, j) /\ Whole(step, j)
  <2>1. ASSUME NEW f \in Files, Upload(w, i, f)
        PROVE  \E step, j : GoesOn(w, step, j) /\ Whole(step, j)
    <3>1. PICK step, j : step = FirstStep(f) /\ j = [NoJob EXCEPT !.import = i]
      OBVIOUS
    <3>2. /\ GoesOn(w, step, j) /\ step \in {"commit upload", "read hashes"}
          /\ j.import = i /\ j.loaded = "none" /\ imports[i] = "none"
      BY <2>1, <3>1 DEF Upload, FirstStep, NoJob
    <3>3. Whole(step, j)
      BY <3>2 DEF Whole
    <3> QED
      BY <3>2, <3>3
  <2>2. ASSUME NEW m \in Mappings, SaveMapping(w, i, m)
        PROVE  \E step, j : GoesOn(w, step, j) /\ Whole(step, j)
    <3>1. PICK j : j = [NoJob EXCEPT !.import = i, !.columns = m.columns, !.loaded = imports[i]]
      OBVIOUS
    <3>2. GoesOn(w, "read hashes", j) /\ j.import = i /\ j.loaded = imports[i]
      BY <2>2, <3>1 DEF SaveMapping, NoJob
    <3>3. Whole("read hashes", j)
      BY <3>2 DEF Whole
    <3> QED
      BY <3>2, <3>3
  <2>3. ASSUME NEW r \in DOMAIN items[i], ToggleRow(w, i, r)
        PROVE  \E step, j : GoesOn(w, step, j) /\ Whole(step, j)
    <3>1. PICK j : GoesOn(w, "toggle", j)
      BY <2>3 DEF ToggleRow
    <3>2. Whole("toggle", j)
      BY DEF Whole
    <3> QED
      BY <3>1, <3>2
  <2>4. ASSUME Confirm(w, i)
        PROVE  \E step, j : GoesOn(w, step, j) /\ Whole(step, j)
    <3>1. PICK j : j = [NoJob EXCEPT !.import = i, !.loaded = imports[i]]
      OBVIOUS
    <3>2. GoesOn(w, "read items", j) /\ j.import = i /\ j.loaded = imports[i]
      BY <2>4, <3>1 DEF Confirm, NoJob
    <3>3. Whole("read items", j)
      BY <3>2 DEF Whole
    <3> QED
      BY <3>2, <3>3
  <2> QED
    BY <1>1, <2>1, <2>2, <2>3, <2>4
<1> QED
  BY <1>2, <1>3, QuietComplete

\* A confirm goes on with the next row.
LEMMA NextRowWhole ==
  ASSUME Base, NEW w \in Workers, Converting(w), Whole("convert", job[w]),
         NEW j, j.import = job[w].import, j.loaded = job[w].loaded,
         j.todo = Tail(job[w].todo),
         \/ j.made = Append(job[w].made, Head(job[w].todo)) /\ j.failed = job[w].failed
         \/ j.made = job[w].made /\ j.failed = job[w].failed \cup {Head(job[w].todo)}
  PROVE  Whole("convert", j)
<1>1. PICK todo \in Seq(Nat), made \in Seq(Nat), failed \in SUBSET Nat :
        todo = job[w].todo /\ made = job[w].made /\ failed = job[w].failed /\ todo # << >>
  BY NextRow DEF Job
<1>2. PICK r \in Nat : r = Head(todo)
  BY <1>1, HeadTail
<1>3. /\ j.loaded = imports[j.import] /\ Ascending(todo) /\ Ascending(made)
      /\ \A p \in Elements(made) : \A q \in Elements(todo) : p < q
      /\ \A p \in DOMAIN items[j.import] : items[j.import][p].status = "ok" =>
           p \in Elements(todo) \cup Elements(made) \cup failed
  BY <1>1 DEF Whole, RowsOf
<1>4. PICK rest \in Seq(Nat) : rest = Tail(todo)
  BY <1>1, HeadTail
<1>5. /\ Elements(todo) = {r} \cup Elements(rest) /\ Ascending(rest)
      /\ \A x \in Elements(rest) : r < x
  BY <1>1, <1>2, <1>3, <1>4, HeadTail, AscendingTail
<1>6. PICK more \in Seq(Nat) : more = Append(made, r)
  BY <1>2, AppendElements
<1>7. Elements(more) = Elements(made) \cup {r}
  BY <1>2, <1>6, AppendElements
<1>8. \A p \in Elements(made) : p < r
  BY <1>3, <1>5
<1>9. Ascending(more)
  BY <1>2, <1>3, <1>6, <1>8, AscendingAppend
<1>10. j.todo = rest
  BY <1>1, <1>4
<1>11. CASE j.made = more /\ j.failed = failed
  <2>1. \A p \in Elements(more) : \A q \in Elements(rest) : p < q
    BY <1>3, <1>5, <1>7
  <2>2. \A p \in Elements(todo) \cup Elements(made) \cup failed :
          p \in Elements(rest) \cup Elements(more) \cup failed
    BY <1>5, <1>7
  <2>3. RowsOf(j) = Elements(rest) \cup Elements(more) \cup failed
    BY <1>10, <1>11 DEF RowsOf
  <2> QED
    BY <1>3, <1>5, <1>9, <1>10, <1>11, <2>1, <2>2, <2>3 DEF Whole
<1>12. CASE j.made = made /\ j.failed = failed \cup {r}
  <2>1. \A p \in Elements(made) : \A q \in Elements(rest) : p < q
    BY <1>3, <1>5
  <2>2. \A p \in Elements(todo) \cup Elements(made) \cup failed :
          p \in Elements(rest) \cup Elements(made) \cup (failed \cup {r})
    BY <1>5
  <2>3. RowsOf(j) = Elements(rest) \cup Elements(made) \cup (failed \cup {r})
    BY <1>10, <1>12 DEF RowsOf
  <2> QED
    BY <1>3, <1>5, <1>10, <1>12, <2>1, <2>2, <2>3 DEF Whole
<1> QED
  BY <1>1, <1>2, <1>6, <1>11, <1>12

LEMMA RollBackRowComplete ==
  ASSUME Base, Serial, Complete, NEW w \in Workers, Converting(w), RollBackRow(w),
         UNCHANGED <<items, imports>>
  PROVE  Complete'
<1>1. Whole("convert", job[w])
  BY DEF Complete, Converting
<1>2. PICK j : j = [job[w] EXCEPT !.todo = Tail(@), !.row = Head(job[w].todo),
                      !.failed = @ \cup {Head(job[w].todo)}, !.found = None]
  OBVIOUS
<1>3. /\ j.import = job[w].import /\ j.loaded = job[w].loaded
      /\ j.todo = Tail(job[w].todo)
      /\ j.made = job[w].made /\ j.failed = job[w].failed \cup {Head(job[w].todo)}
  BY <1>2, NextRow DEF Job
<1>4. GoesOn(w, "convert", j)
  BY <1>2 DEF RollBackRow
<1> QED
  BY <1>1, <1>3, <1>4, NextRowWhole, QuietComplete

LEMMA LooksComplete ==
  ASSUME Base, Serial, Complete, NEW w \in Workers,
         \/ ReadHashes(w) \/ ReadItems(w) \/ FlushMark(w)
         \/ FindSource(w) \/ ConvertItem(w) \/ FailItem(w) \/ BreakDeadlock(w) \/ Fail(w)
  PROVE  Complete'
<1>1. UNCHANGED <<items, imports>>
  BY DEF ReadHashes, ReadItems, FlushMark, FindSource, ConvertItem,
         FailItem, BreakDeadlock, Fail, tables
<1>2. CASE Fail(w)
  BY <1>1, <1>2, RepliesComplete DEF Fail
<1>3. CASE ReadHashes(w)
  <2>1. PICK j : j = [job[w] EXCEPT !.hashes = {questions[q].hash : q \in DOMAIN questions}]
    OBVIOUS
  <2>2. job[w] \in Job /\ pc[w] = "read hashes"
    BY <1>3, UnderWay DEF ReadHashes
  <2>3. j.import = job[w].import /\ j.loaded = job[w].loaded
    BY <2>1, <2>2 DEF Job
  <2>4. Whole("read hashes", job[w])
    BY <2>2 DEF Complete
  <2>5. GoesOn(w, "stage", j) /\ Whole("stage", j)
    BY <1>3, <2>1, <2>3, <2>4 DEF ReadHashes, Whole
  <2> QED
    BY <1>1, <2>5, QuietComplete
<1>4. CASE ReadItems(w)
  <2>1. PICK i \in ImportIds : i = job[w].import
    BY <1>4, UnderWay DEF ReadItems
  <2>2. CASE items[i] = << >>
    BY <1>1, <1>4, <2>1, <2>2, RepliesComplete DEF ReadItems
  <2>3. CASE items[i] # << >>
    <3>1. PICK todo \in Seq(Nat) : todo = ToImport(i)
      BY ToImportRows
    <3>2. PICK j : j = [job[w] EXCEPT !.todo = todo]
      OBVIOUS
    <3>3. job[w] \in Job /\ Fits("read items", job[w])
      BY <1>4, UnderWay DEF ReadItems
    <3>4. /\ j.import = i /\ j.loaded = job[w].loaded
          /\ j.todo = todo /\ j.made = job[w].made
      BY <2>1, <3>2, <3>3 DEF Job
    <3>5. Whole("read items", job[w])
      BY <1>4 DEF ReadItems, Complete
    <3>6. j.made = << >> /\ Elements(j.made) = {}
      BY <3>3, <3>4 DEF Fits, Elements
    <3>7. /\ Ascending(todo)
          /\ \A r \in DOMAIN items[i] : items[i][r].status = "ok" => r \in Elements(todo)
      <4>1. \A r \in DOMAIN items[i] :
              items[i][r].status = "ok" => items[i][r].question = None
        BY DEF Serial, Once
      <4> QED
        BY <3>1, <4>1, ToImportAll
    <3>8. Whole("convert", j)
      BY <2>1, <3>4, <3>6, <3>7, <3>5 DEF Whole, RowsOf, Ascending
    <3>9. GoesOn(w, "convert", j)
      BY <1>4, <2>1, <2>3, <3>1, <3>2 DEF ReadItems
    <3> QED
      BY <1>1, <3>8, <3>9, QuietComplete
  <2> QED
    BY <2>2, <2>3
<1>5. ASSUME NEW j, pc[w] = "convert", GoesOn(w, "convert", j), j.import = job[w].import,
             j.loaded = job[w].loaded, j.todo = job[w].todo, j.made = job[w].made, j.failed = job[w].failed
      PROVE  Complete'
  <2>1. Whole("convert", job[w])
    BY <1>5 DEF Complete
  <2>2. Whole("convert", j)
    BY <1>5, <2>1 DEF Whole, RowsOf
  <2> QED
    BY <1>1, <1>5, <2>2, QuietComplete
<1>6. CASE FlushMark(w)
  <2>1. PICK j : j = [job[w] EXCEPT !.row = 0]
    OBVIOUS
  <2>2. pc[w] = "convert" /\ job[w] \in Job /\ GoesOn(w, "convert", j)
    BY <1>6, <2>1, UnderWay DEF FlushMark
  <2>3. /\ j.import = job[w].import /\ j.loaded = job[w].loaded /\ j.todo = job[w].todo
        /\ j.made = job[w].made /\ j.failed = job[w].failed
    BY <2>1, <2>2 DEF Job
  <2> QED
    BY <1>5, <2>2, <2>3
<1>7. CASE FindSource(w)
  <2>1. PICK found : GoesOn(w, "convert", [job[w] EXCEPT !.found = found])
    BY <1>7 DEF FindSource
  <2>2. PICK j : j = [job[w] EXCEPT !.found = found]
    OBVIOUS
  <2>3. pc[w] = "convert" /\ job[w] \in Job
    BY <1>7, UnderWay DEF FindSource, Converting
  <2>4. /\ j.import = job[w].import /\ j.loaded = job[w].loaded /\ j.todo = job[w].todo
        /\ j.made = job[w].made /\ j.failed = job[w].failed
    BY <2>2, <2>3 DEF Job
  <2> QED
    BY <1>5, <2>1, <2>2, <2>3, <2>4
<1>8. CASE ConvertItem(w)
  <2>1. Converting(w) /\ Whole("convert", job[w])
    BY <1>8 DEF ConvertItem, Converting, Complete
  <2>2. PICK j : j = [job[w] EXCEPT !.todo = Tail(@), !.made = Append(@, Head(job[w].todo)),
                                    !.found = None, !.linked = Linked(w)]
    OBVIOUS
  <2>3. /\ j.import = job[w].import /\ j.loaded = job[w].loaded
        /\ j.todo = Tail(job[w].todo)
        /\ j.made = Append(job[w].made, Head(job[w].todo)) /\ j.failed = job[w].failed
    BY <2>1, <2>2, NextRow DEF Job
  <2>4. GoesOn(w, "convert", j)
    BY <1>8, <2>2 DEF ConvertItem
  <2> QED
    BY <1>1, <2>1, <2>3, <2>4, NextRowWhole, QuietComplete
<1>9. CASE FailItem(w)
  BY <1>1, <1>9, RollBackRowComplete DEF FailItem
<1>10. CASE BreakDeadlock(w)
  BY <1>1, <1>10, RollBackRowComplete, RepliesComplete DEF BreakDeadlock
<1> QED
  BY <1>2, <1>3, <1>4, <1>6, <1>7, <1>8, <1>9, <1>10

\* The steps that write imports or items.
LEMMA CommitUploadComplete ==
  ASSUME Base, Serial, Complete, NEW w \in Workers, CommitUpload(w)
  PROVE  Complete'
<1>1. pc[w] = "commit upload" /\ Replies(w) /\ UNCHANGED items
  BY DEF CommitUpload
<1>2. PICK i \in ImportIds : i = job[w].import
  BY <1>1, UnderWay
<1>3. imports[i] = "none" /\ items[i] = << >>
  BY <1>1, <1>2 DEF Base, UploadsAlone, TablesFit
<1>4. \A k \in ImportIds \ {i} : imports'[k] = imports[k]
  BY <1>2 DEF CommitUpload, Base, Typed
<1>5. Ready'
  BY <1>1, <1>3, <1>4 DEF Complete, Ready
<1>6. GoesOn(w, "idle", NoJob) /\ Whole("idle", NoJob)'
  BY <1>1 DEF Replies, Whole
<1> QED
  BY <1>1, <1>2, <1>4, <1>5, <1>6, CompleteKept

\* Staging, of a file that gave rows or none, leaves the import normalized.
LEMMA StagesNormalized ==
  ASSUME Base, Complete, NEW w \in Workers, StageItems(w)
  PROVE  \/ UNCHANGED <<imports, items>>
         \/ \E i \in ImportIds, rows \in Seq(Canonicals) : \E known :
              /\ i = job[w].import /\ Stages(i, rows, known)
              /\ imports'[i] = "normalized"
         \/ \E i \in ImportIds :
              i = job[w].import /\ Remaps(i) /\ imports'[i] = "normalized"
<1>1. CASE UNCHANGED <<imports, items>>
  BY <1>1
<1>2. ASSUME NEW i \in ImportIds, i = job[w].import
      PROVE  imports'[i] = "normalized" \/ UNCHANGED <<imports, items>>
  <2>1. pc[w] = "stage"
    BY DEF StageItems
  <2>2. job[w].loaded = imports[i]
    BY <1>2, <2>1 DEF Complete, Whole
  <2>3. \/ UNCHANGED <<imports, items>>
        \/ imports' = [imports EXCEPT ![i] = Written("normalized", job[w].loaded, @)]
    BY <1>2 DEF StageItems
  <2>4. Written("normalized", job[w].loaded, imports[i]) = "normalized"
    BY <2>2 DEF Written
  <2> QED
    BY <2>3, <2>4 DEF Base, Typed
<1> QED
  BY <1>1, <1>2, StageItemsDoes

LEMMA StageItemsComplete ==
  ASSUME Base, Serial, Complete, NEW w \in Workers, StageItems(w)
  PROVE  Complete'
<1>1. Replies(w)
  BY DEF StageItems
<1>2. CASE UNCHANGED <<imports, items>>
  BY <1>1, <1>2, RepliesComplete
<1>3. ASSUME NEW i \in ImportIds, i = job[w].import, imports'[i] = "normalized",
             \A k \in ImportIds \ {i} : items'[k] = items[k] /\ imports'[k] = imports[k]
      PROVE  Complete'
  <2>1. Ready'
    BY <1>3 DEF Complete, Ready
  <2>2. GoesOn(w, "idle", NoJob) /\ Whole("idle", NoJob)'
    BY <1>1 DEF Replies, Whole
  <2> QED
    BY <1>3, <2>1, <2>2, CompleteKept
<1>4. ASSUME NEW i \in ImportIds, NEW rows \in Seq(Canonicals), NEW known,
             i = job[w].import, Stages(i, rows, known), imports'[i] = "normalized"
      PROVE  Complete'
  <2>1. \A k \in ImportIds \ {i} : items'[k] = items[k] /\ imports'[k] = imports[k]
    BY <1>4 DEF Stages, Base, Typed
  <2> QED
    BY <1>3, <1>4, <2>1
<1>5. ASSUME NEW i \in ImportIds, i = job[w].import, Remaps(i), imports'[i] = "normalized"
      PROVE  Complete'
  <2>1. \A k \in ImportIds \ {i} : items'[k] = items[k] /\ imports'[k] = imports[k]
    BY <1>5 DEF Remaps
  <2> QED
    BY <1>3, <1>5, <2>1
<1> QED
  BY <1>2, <1>4, <1>5, StagesNormalized

LEMMA CommitToggleComplete ==
  ASSUME Base, Serial, Complete, NEW w \in Workers, CommitToggle(w)
  PROVE  Complete'
<1>1. Replies(w) /\ UNCHANGED imports
  BY DEF CommitToggle
<1>2. PICK i \in ImportIds, r \in Nat, new \in Item : Toggled(w, i, r, new)
  BY ToggledRow
<1>3. /\ i = job[w].import /\ items[i] # << >>
      /\ \A k \in ImportIds \ {i} : items'[k] = items[k]
  BY <1>2 DEF Toggled, Base, Typed
<1>4. Ready'
  BY <1>1, <1>3 DEF Complete, Ready
<1>5. GoesOn(w, "idle", NoJob) /\ Whole("idle", NoJob)'
  BY <1>1 DEF Replies, Whole
<1> QED
  BY <1>1, <1>3, <1>4, <1>5, CompleteKept

\* A confirm that is alone with its import leaves it confirmed.
LEMMA ConfirmsImport ==
  ASSUME Base, Complete, NEW w \in Workers, CommitConfirm(w)
  PROVE  imports'[job[w].import] \in Confirmed
<1>1. pc[w] = "convert"
  BY DEF CommitConfirm
<1>2. PICK i \in ImportIds : i = job[w].import
  BY <1>1, UnderWay
<1>3. PICK new \in Confirmed : new = IF job[w].failed = {} THEN "ready_to_publish"
                                                         ELSE "partially_verified"
  BY DEF Confirmed
<1>4. job[w].loaded = imports[i]
  BY <1>1, <1>2 DEF Complete, Whole
<1>5. imports' = [imports EXCEPT ![i] = Written(new, job[w].loaded, imports[i])]
  BY <1>2, <1>3 DEF CommitConfirm
<1>6. Written(new, job[w].loaded, imports[i]) = new
  BY <1>4 DEF Written
<1> QED
  BY <1>2, <1>5, <1>6 DEF Base, Typed

LEMMA CommitConfirmComplete ==
  ASSUME Base, Serial, Complete, NEW w \in Workers, CommitConfirm(w)
  PROVE  Complete'
<1>1. Replies(w)
  BY DEF CommitConfirm
<1>2. PICK i \in ImportIds, made \in Seq(Nat), new \in Seq(Question), rows \in Seq(Item) :
        Publishes(w, i, made, new, rows)
  BY CommitConfirmDoes
<1>3. /\ i = job[w].import /\ imports'[i] \in Confirmed /\ Rewritten(i, rows)
      /\ \A k \in ImportIds \ {i} : imports'[k] = imports[k]
  BY <1>2, ConfirmsImport DEF Publishes
<1>4. \A k \in ImportIds \ {i} : items'[k] = items[k]
  BY <1>3 DEF Rewritten, Base, Typed
<1>5. Ready'
  BY <1>3, <1>4 DEF Complete, Ready, Confirmed
<1>6. GoesOn(w, "idle", NoJob) /\ Whole("idle", NoJob)'
  BY <1>1 DEF Replies, Whole
<1> QED
  BY <1>3, <1>4, <1>5, <1>6, CompleteKept

LEMMA InitComplete == Init => Complete
BY DEF Init, Complete, Ready, Whole

LEMMA CompleteStep ==
  ASSUME Base, Serial, Complete, [Next]_vars
  PROVE  Complete'
<1>1. CASE UNCHANGED vars
  <2>1. UNCHANGED <<items, imports, pc, job>>
    BY <1>1 DEF vars
  <2>2. Ready'
    BY <2>1 DEF Complete, Ready
  <2>3. ASSUME NEW w \in Workers
        PROVE  Whole(pc[w], job[w])'
    <3>1. PICK step, j : step = pc[w] /\ j = job[w]
      OBVIOUS
    <3>2. Whole(step, j)'
      BY <2>1, <3>1 DEF Complete, Whole
    <3> QED
      BY <2>1, <3>1, <3>2
  <2> QED
    BY <2>2, <2>3 DEF Complete
<1>2. ASSUME NEW w \in Workers, Serve(w)
      PROVE  Complete'
  BY <1>2, CommitUploadComplete, LooksComplete, StageItemsComplete,
     CommitToggleComplete, CommitConfirmComplete DEF Serve
<1>3. ASSUME NEW w \in Workers, Request(w) \/ Fail(w)
      PROVE  Complete'
  BY <1>3, RequestComplete, LooksComplete
<1> QED
  BY <1>1, <1>2, <1>3 DEF Next

LEMMA CompleteInductive ==
  ASSUME SerialImports
  PROVE  Spec => [](Base /\ Serial /\ Complete)
<1>1. Init => Base /\ Serial /\ Complete
  BY InitBase, InitSerial, InitComplete
<1>2. Base /\ Serial /\ Complete /\ [Next]_vars => (Base /\ Serial /\ Complete)'
  BY BaseStep, SerialStep, CompleteStep
<1> QED
  BY <1>1, <1>2, PTL DEF Spec

\* What ImportLifecycle sees of the tables.
Phases == [i \in ImportIds |-> Phase(imports[i])]
Fates == [i \in ImportIds |-> [r \in DOMAIN items[i] |-> Fate(items[i][r].status)]]
Bank == [q \in DOMAIN questions |-> questions[q].from]

LEMMA Seen ==
  ASSUME NEW i \in ImportIds
  PROVE  /\ Phases[i] = Phase(imports[i])
         /\ DOMAIN Fates[i] = DOMAIN items[i]
         /\ \A r \in DOMAIN items[i] : Fates[i][r] = Fate(items[i][r].status)
BY DEF Phases, Fates

LEMMA PhaseSteps ==
  ASSUME NEW i \in ImportIds, NEW new, \A k \in ImportIds \ {i} : imports'[k] = imports[k],
         Phase(imports[i])' = new
  PROVE  Phases' = [Phases EXCEPT ![i] = new]
BY DEF Phases

LEMMA FateSteps ==
  ASSUME NEW i \in ImportIds, \A k \in ImportIds \ {i} : items'[k] = items[k]
  PROVE  Fates' = [Fates EXCEPT ![i] = Fates'[i]]
BY DEF Fates

LEMMA FatesAre ==
  ASSUME NEW i \in ImportIds
  PROVE  Fates[i] = [r \in DOMAIN Fates[i] |-> Fates[i][r]]
BY DEF Fates

\* A step that changes neither imports nor rows nor questions stutters there.
LEMMA ShowsNothing ==
  ASSUME UNCHANGED <<imports, items, questions>>
  PROVE  UNCHANGED Lifecycle!vars
<1>1. UNCHANGED <<Phases, Fates, Bank>>
  BY DEF Phases, Fates, Bank
<1> QED
  BY <1>1 DEF Lifecycle!vars, Phases, Fates, Bank

LEMMA Showers ==
  ASSUME [Next]_vars
  PROVE  \/ UNCHANGED <<imports, items, questions>>
         \/ \E w \in Workers : \/ CommitUpload(w) \/ StageItems(w)
                               \/ CommitToggle(w) \/ CommitConfirm(w)
<1>1. CASE UNCHANGED vars
  BY <1>1 DEF vars
<1>2. ASSUME NEW w \in Workers, Request(w)
      PROVE  UNCHANGED <<imports, items, questions>>
  BY <1>2 DEF Request, Upload, SaveMapping, ToggleRow, Confirm, tables
<1>3. ASSUME NEW w \in Workers, Serve(w)
      PROVE  \/ UNCHANGED <<imports, items, questions>>
             \/ CommitUpload(w) \/ StageItems(w) \/ CommitToggle(w) \/ CommitConfirm(w)
  BY <1>3 DEF Serve, ReadHashes, ReadItems, FlushMark, FindSource,
              ConvertItem, FailItem, BreakDeadlock, tables
<1>4. ASSUME NEW w \in Workers, Fail(w)
      PROVE  UNCHANGED <<imports, items, questions>>
  BY <1>4 DEF Fail, tables
<1> QED
  BY <1>1, <1>2, <1>3, <1>4 DEF Next

LEMMA CommitUploads ==
  ASSUME Base, NEW w \in Workers, CommitUpload(w)
  PROVE  \E i \in ImportIds : Lifecycle!Upload(i)
<1>1. pc[w] = "commit upload" /\ UNCHANGED <<items, questions>>
  BY DEF CommitUpload
<1>2. PICK i \in ImportIds : i = job[w].import
  BY <1>1, UnderWay
<1>3. imports[i] = "none"
  BY <1>1, <1>2 DEF Base, UploadsAlone
<1>4. imports'[i] = "uploaded" /\ \A k \in ImportIds \ {i} : imports'[k] = imports[k]
  BY <1>2 DEF CommitUpload, Base, Typed
<1>5. Phases[i] = "none"
  BY <1>3, Seen DEF Phase, Confirmed
<1>6. Phases' = [Phases EXCEPT ![i] = "uploaded"]
  <2>1. Phase(imports[i])' = "uploaded"
    BY <1>4 DEF Phase, Confirmed
  <2> QED
    BY <1>4, <2>1, PhaseSteps
<1>7. UNCHANGED <<Fates, Bank>>
  BY <1>1 DEF Fates, Bank
<1>8. Lifecycle!Upload(i)
  BY <1>5, <1>6, <1>7 DEF Lifecycle!Upload, Phases, Fates, Bank
<1> QED
  BY <1>8

LEMMA StageItemsStages ==
  ASSUME Base, Complete, NEW w \in Workers, StageItems(w)
  PROVE  \/ UNCHANGED <<imports, items, questions>>
         \/ \E i \in ImportIds : Lifecycle!Stage(i) \/ Lifecycle!Remap(i)
<1>1. UNCHANGED questions
  BY DEF StageItems
<1>2. ASSUME NEW i \in ImportIds, NEW rows \in Seq(Canonicals), NEW known,
             i = job[w].import, Stages(i, rows, known), imports'[i] = "normalized"
      PROVE  Lifecycle!Stage(i)
  <2>1. PICK staged : staged = Staged(rows, known)
    OBVIOUS
  <2>2. /\ staged \in Seq(Item)
        /\ \A r \in DOMAIN staged : staged[r].status \in {"ok", "warning", "error", "duplicate"}
    BY <2>1, StagedRows
  <2>3. /\ items[i] = << >> /\ items'[i] = staged
        /\ \A k \in ImportIds \ {i} : items'[k] = items[k]
        /\ \A k \in ImportIds \ {i} : imports'[k] = imports[k]
    BY <1>2, <2>1 DEF Stages, Base, Typed
  <2>4. Fates[i] = << >>
    BY <2>3 DEF Fates
  <2>5. Fates'[i] \in Seq({"selected", "refused"})
    <3>1. PICK n \in Nat : DOMAIN staged = 1..n
      BY <2>2, LenProperties
    <3>2. PICK fates : fates = [r \in 1..n |-> Fate(staged[r].status)]
      OBVIOUS
    <3>3. \A r \in 1..n : Fate(staged[r].status) \in {"selected", "refused"}
      BY <2>2, <3>1 DEF Fate
    <3>4. fates \in [1..n -> {"selected", "refused"}]
      BY <3>2, <3>3
    <3>5. fates \in Seq({"selected", "refused"})
      BY <3>4
    <3>6. Fates'[i] = fates
      BY <2>3, <3>1, <3>2 DEF Fates
    <3> QED
      BY <3>5, <3>6
  <2>6. Fates' = [Fates EXCEPT ![i] = Fates'[i]]
    BY <2>3, FateSteps
  <2>7. Phases' = [Phases EXCEPT ![i] = "staged"]
    <3>1. Phase(imports[i])' = "staged"
      BY <1>2 DEF Phase, Confirmed
    <3> QED
      BY <2>3, <3>1, PhaseSteps
  <2>8. UNCHANGED Bank
    BY <1>1 DEF Bank
  <2> QED
    BY <2>4, <2>5, <2>6, <2>7, <2>8 DEF Lifecycle!Stage, Phases, Fates, Bank
<1>3. ASSUME NEW i \in ImportIds, Remaps(i), imports'[i] = "normalized"
      PROVE  Lifecycle!Remap(i)
  <2>1. /\ items[i] # << >> /\ UNCHANGED items
        /\ \A k \in ImportIds \ {i} : imports'[k] = imports[k]
    BY <1>3 DEF Remaps
  <2>2. Fates[i] # << >>
    BY <2>1, Seen DEF Base, Typed
  <2>3. Phases' = [Phases EXCEPT ![i] = "staged"]
    <3>1. Phase(imports[i])' = "staged"
      BY <1>3 DEF Phase, Confirmed
    <3> QED
      BY <2>1, <3>1, PhaseSteps
  <2>4. UNCHANGED <<Fates, Bank>>
    BY <1>1, <2>1 DEF Fates, Bank
  <2> QED
    BY <2>2, <2>3, <2>4 DEF Lifecycle!Remap, Phases, Fates, Bank
<1> QED
  BY <1>1, <1>2, <1>3, StagesNormalized

LEMMA CommitToggles ==
  ASSUME Base, Serial, NEW w \in Workers, CommitToggle(w)
  PROVE  \E i \in ImportIds : \E r \in DOMAIN Fates[i] : Lifecycle!Toggle(i, r)
<1>1. pc[w] = "toggle" /\ UNCHANGED <<imports, questions>>
  BY DEF CommitToggle
<1>2. PICK i \in ImportIds, r \in Nat, new \in Item : Toggled(w, i, r, new)
  BY ToggledRow
<1>3. PICK rows : rows = [items[i] EXCEPT ![r] = new]
  OBVIOUS
<1>4. /\ Rewritten(i, rows)
      /\ \A k \in DOMAIN rows : rows[k] = IF k = r THEN new ELSE items[i][k]
  BY <1>2, <1>3, ToggledRewrites
<1>5. /\ items'[i] = rows /\ DOMAIN rows = DOMAIN items[i]
      /\ \A k \in ImportIds \ {i} : items'[k] = items[k]
  BY <1>4 DEF Rewritten, Base, Typed
<1>6. r \in DOMAIN items[i]
  BY <1>2 DEF Toggled, Live
<1>7. PICK loaded \in {"ok", "skipped"} : loaded = job[w].loaded
  BY <1>1, UnderWay DEF Fits
<1>8. items[i][r].status = loaded /\ new.status = Flip[loaded]
  BY <1>1, <1>2, <1>7 DEF Toggled, Serial, Sure
<1>9. /\ Fates[i][r] \in {"selected", "deselected"}
      /\ Fates'[i][r] = IF Fates[i][r] = "selected" THEN "deselected" ELSE "selected"
  <2>1. Fates[i][r] = Fate(loaded)
    BY <1>6, <1>8, Seen
  <2>2. Fates'[i][r] = Fate(Flip[loaded])
    BY <1>4, <1>5, <1>6, <1>8 DEF Fates
  <2> QED
    BY <1>7, <2>1, <2>2 DEF Fate, Flip
<1>10. /\ DOMAIN Fates'[i] = DOMAIN Fates[i] /\ r \in DOMAIN Fates[i]
       /\ \A k \in DOMAIN Fates[i] : k # r => Fates'[i][k] = Fates[i][k]
  BY <1>4, <1>5, <1>6 DEF Fates
<1>11. PICK old, next : old = Fates[i] /\ next = Fates'[i]
  OBVIOUS
<1>12. next = [old EXCEPT ![r] = IF @ = "selected" THEN "deselected" ELSE "selected"]
  <2>1. old = [k \in DOMAIN old |-> old[k]]
    BY <1>11 DEF Fates
  <2>2. next = [k \in DOMAIN next |-> next[k]]
    BY <1>11 DEF Fates
  <2> QED
    BY ONLY <1>9, <1>10, <1>11, <2>1, <2>2
<1>13. Fates' = [Fates EXCEPT ![i][r] = IF @ = "selected" THEN "deselected" ELSE "selected"]
  <2>1. Fates' = [Fates EXCEPT ![i] = Fates'[i]]
    BY <1>5, FateSteps
  <2> QED
    BY <1>11, <1>12, <2>1
<1>14. UNCHANGED <<Phases, Bank>>
  BY <1>1 DEF Phases, Bank
<1>15. Lifecycle!Toggle(i, r)
  BY <1>9, <1>13, <1>14 DEF Lifecycle!Toggle, Phases, Fates, Bank
<1> QED
  BY <1>10, <1>15

LEMMA CountsAlike == ASSUME NEW S PROVE Lifecycle!Cardinality(S) = Cardinality(S)
  BY DEF Lifecycle!Cardinality, Cardinality

\* A row has the place in an ascending sequence that it has among its elements.
LEMMA Places ==
  ASSUME NEW s \in Seq(Nat), Ascending(s), NEW m \in Nat, DOMAIN s = 1..m
  PROVE  /\ IsFiniteSet(Elements(s)) /\ Cardinality(Elements(s)) = m
         /\ \A k \in 1..m : Rank(Elements(s), s[k]) = k
<1>1. \A k \in 1..m : s[k] \in Nat
  BY ElementOfSeq, LenProperties
<1>2. \A k, l \in 1..m : k < l => s[k] < s[l]
  BY DEF Ascending
<1>3. \A k, l \in 1..m : s[k] <= s[l] => k <= l
  <2> SUFFICES ASSUME NEW k \in 1..m, NEW l \in 1..m, l < k
               PROVE  ~(s[k] <= s[l])
    OBVIOUS
  <2>1. s[l] < s[k] /\ s[l] \in Nat /\ s[k] \in Nat
    BY <1>1, <1>2
  <2> QED
    BY <2>1
<1>4. ASSUME NEW n \in 0..m, NEW T, T = {s[k] : k \in 1..n}
      PROVE  IsFiniteSet(T) /\ Cardinality(T) = n
  <2>1. IsFiniteSet(1..n) /\ Cardinality(1..n) = n
    BY FS_Interval
  <2>2. PICK f : f = [k \in 1..n |-> s[k]]
    OBVIOUS
  <2>3. f \in [1..n -> T] /\ \A t \in T : \E k \in 1..n : f[k] = t
    BY <1>4, <2>2
  <2>4. \A k, l \in 1..n : f[k] = f[l] => k = l
    <3> SUFFICES ASSUME NEW k \in 1..n, NEW l \in 1..n, s[k] = s[l]
                 PROVE  k = l
      BY <2>2
    <3>1. k \in 1..m /\ l \in 1..m /\ s[k] \in Nat /\ s[l] \in Nat
      BY <1>1
    <3>2. k <= l /\ l <= k
      BY <1>3, <3>1
    <3> QED
      BY <3>2
  <2>5. f \in Bijection(1..n, T)
    BY <2>3, <2>4 DEF Bijection, Injection, Surjection, IsInjective
  <2>6. ExistsBijection(1..n, T)
    BY <2>5 DEF ExistsBijection
  <2> QED
    BY <2>1, <2>6, FS_Bijection
<1>5. Elements(s) = {s[k] : k \in 1..m}
  BY DEF Elements
<1>6. ASSUME NEW k \in 1..m
      PROVE  Rank(Elements(s), s[k]) = k
  <2>1. PICK T : T = {s[l] : l \in 1..k}
    OBVIOUS
  <2>2. k \in 0..m /\ \A l \in 1..k : l \in 1..m
    OBVIOUS
  <2>3. \A l \in 1..m : s[l] <= s[k] <=> l \in 1..k
    <3> TAKE l \in 1..m
    <3>1. s[l] \in Nat /\ s[k] \in Nat /\ (l < k => s[l] < s[k])
      BY <1>1, <1>2
    <3>2. s[l] <= s[k] => l <= k
      BY <1>3
    <3> QED
      BY <3>1, <3>2
  <2>4. {p \in Elements(s) : p <= s[k]} = T
    BY <1>5, <2>1, <2>2, <2>3
  <2>5. Cardinality(T) = k
    BY <1>4, <2>1, <2>2
  <2> QED
    BY <2>4, <2>5 DEF Rank
<1>7. m \in 0..m
  OBVIOUS
<1> QED
  BY <1>4, <1>5, <1>6, <1>7

\* What becomes of the rows of the import a confirm commits.
LEMMA ConfirmedFates ==
  ASSUME Base, Serial, Complete, NEW w \in Workers, CommitConfirm(w),
         NEW i \in ImportIds, i = job[w].import
  PROVE  /\ Elements(job[w].made) \in SUBSET {r \in DOMAIN Fates[i] : Fates[i][r] = "selected"}
         /\ DOMAIN Fates'[i] = DOMAIN Fates[i]
         /\ \A r \in DOMAIN Fates[i] :
              Fates'[i][r] = IF r \in Elements(job[w].made) THEN "imported"
                             ELSE IF Fates[i][r] = "selected" THEN "refused" ELSE Fates[i][r]
<1>1. pc[w] = "convert" /\ job[w].todo = << >>
  BY DEF CommitConfirm
<1>2. PICK made \in Seq(Nat), failed \in SUBSET Nat : made = job[w].made /\ failed = job[w].failed
  BY <1>1, UnderWay DEF Job
<1>3. items' = [items EXCEPT ![i] = Confirming(i, made, failed)]
  BY <1>2 DEF CommitConfirm, Confirming
<1>4. PICK rows : rows = Confirming(i, made, failed)
  OBVIOUS
<1>5. items'[i] = rows /\ DOMAIN rows = DOMAIN items[i]
  BY <1>3, <1>4 DEF Confirming, Base, Typed
<1>6. \A r \in Elements(made) \cup failed :
        items[i][r].status = "ok" /\ Live(i, r)
  <2>1. \A r \in Elements(made) \cup failed : Live(i, r)
    BY <1>1, <1>2, UnderWay DEF Fits
  <2> QED
    BY <1>2, <2>1, MadeOf
<1>7. \A r \in DOMAIN items[i] : items[i][r].status = "ok" => r \in Elements(made) \cup failed
  <2>1. Whole("convert", job[w])
    BY <1>1 DEF Complete
  <2>2. RowsOf(job[w]) = Elements(made) \cup failed
    BY <1>1, <1>2 DEF RowsOf, Elements
  <2> QED
    BY <2>1, <2>2 DEF Whole
<1>8. \A r \in DOMAIN items[i] : Fates[i][r] = "selected" <=> r \in Elements(made) \cup failed
  <2> TAKE r \in DOMAIN items[i]
  <2>1. Fates[i][r] = "selected" <=> items[i][r].status = "ok"
    BY Seen DEF Fate
  <2> QED
    BY <1>6, <1>7, <2>1
<1>9. ASSUME NEW r \in DOMAIN items[i]
      PROVE  Fates'[i][r] = IF r \in Elements(made) THEN "imported"
                            ELSE IF Fates[i][r] = "selected" THEN "refused" ELSE Fates[i][r]
  <2>1. Fates'[i][r] = Fate(rows[r].status)
    BY <1>5 DEF Fates
  <2>2. PICK old \in Seq(Item) : old = items[i]
    BY DEF Base, Typed
  <2>3. PICK item \in Item : item = items[i][r]
    BY <2>2, ElementOfSeq, LenProperties
  <2>4. r \in Elements(made) <=> \E k \in DOMAIN made : made[k] = r
    BY DEF Elements
  <2>5. CASE r \in Elements(made)
    <3>1. PICK id : id = IdOf(CHOOSE k \in DOMAIN made : made[k] = r)
      OBVIOUS
    <3>2. rows[r] = [item EXCEPT !.status = "imported", !.question = id]
      BY <1>4, <2>3, <2>4, <2>5, <3>1 DEF Confirming
    <3>3. rows[r].status = "imported"
      BY <2>3, <3>2 DEF Item
    <3> QED
      BY <2>1, <2>5, <3>3 DEF Fate
  <2>6. CASE r \notin Elements(made) /\ r \in failed
    <3>1. rows[r] = [item EXCEPT !.status = "error"]
      BY <1>4, <2>3, <2>4, <2>6 DEF Confirming
    <3>2. rows[r].status = "error"
      BY <2>3, <3>1 DEF Item
    <3> QED
      BY <1>8, <2>1, <2>6, <3>2 DEF Fate
  <2>7. CASE r \notin Elements(made) /\ r \notin failed
    <3>1. rows[r] = items[i][r]
      BY <1>4, <2>4, <2>7 DEF Confirming
    <3>2. Fates'[i][r] = Fates[i][r]
      BY <2>1, <3>1, Seen
    <3> QED
      BY <1>8, <2>7, <3>2
  <2> QED
    BY <2>5, <2>6, <2>7
<1>10. DOMAIN Fates[i] = DOMAIN items[i] /\ DOMAIN Fates'[i] = DOMAIN items[i]
  BY <1>5 DEF Fates
<1>11. \A r \in Elements(made) : r \in DOMAIN items[i]
  BY <1>6 DEF Live
<1> QED
  BY <1>2, <1>8, <1>9, <1>10, <1>11

\* What a confirm adds to the exam.
LEMMA ConfirmAdds ==
  ASSUME Base, Serial, Complete, NEW w \in Workers, CommitConfirm(w),
         NEW i \in ImportIds, i = job[w].import, NEW M, M = Elements(job[w].made)
  PROVE  Lifecycle!Adds(i, M)
<1>1. PICK k \in ImportIds, made \in Seq(Nat), new \in Seq(Question), rows \in Seq(Item) :
        Publishes(w, k, made, new, rows)
  BY CommitConfirmDoes
<1>2. /\ k = i /\ made = job[w].made /\ new \in Seq(Question)
      /\ DOMAIN new = DOMAIN made /\ questions' = questions \o new
      /\ \A l \in DOMAIN made : new[l].from = <<i, made[l]>>
  BY <1>1 DEF Publishes
<1>3. PICK n, m \in Nat : Joined(questions, new, questions', n, m)
  BY <1>2, Appended DEF Base, Typed
<1>4. /\ DOMAIN questions = 1..n /\ DOMAIN made = 1..m
      /\ DOMAIN questions' = 1..(n + m)
      /\ \A q \in 1..n : questions'[q] = questions[q]
      /\ \A l \in 1..m : n + l \in 1..(n + m) /\ questions'[n + l] = new[l]
  BY <1>2, <1>3 DEF Joined
<1>5. Whole("convert", job[w])
  BY DEF CommitConfirm, Complete
<1>6. Ascending(made)
  BY <1>2, <1>5 DEF Whole
<1>7. M = Elements(made)
  BY <1>2
<1>8. /\ Cardinality(M) = m
      /\ \A l \in 1..m : Rank(M, made[l]) = l
      /\ \A r \in M : \E l \in 1..m : r = made[l]
  BY <1>4, <1>6, <1>7, Places DEF Elements
<1>9. Len(Bank) = n
  <2>1. PICK T, bank : T = {questions[q].from : q \in 1..n} /\ bank = Bank
    OBVIOUS
  <2>2. bank \in [1..n -> T]
    BY <1>4, <2>1 DEF Bank
  <2>3. bank \in Seq(T)
    BY <2>2
  <2>4. DOMAIN bank = 1..n
    BY <2>2
  <2> QED
    BY <2>1, <2>3, <2>4, LenProperties
<1>10. DOMAIN Bank' = 1..(n + m)
  BY <1>4 DEF Bank
<1>11. \A q \in 1..n : Bank'[q] = Bank[q]
  <2>1. \A q \in 1..n : q \in 1..(n + m)
    OBVIOUS
  <2> QED
    BY <1>4, <2>1 DEF Bank
<1>12. ASSUME NEW r \in M
       PROVE  Bank'[n + Rank(M, r)] = <<i, r>>
  <2>1. PICK l \in 1..m : r = made[l]
    BY <1>8
  <2>2. Rank(M, r) = l
    BY <1>8, <2>1
  <2>3. Bank'[n + l] = questions'[n + l].from
    BY <1>4 DEF Bank
  <2> QED
    BY <1>2, <1>4, <2>1, <2>2, <2>3
<1>13. /\ Lifecycle!Cardinality(M) = m
       /\ \A r \in M : Lifecycle!Cardinality({p \in M : p <= r}) = Rank(M, r)
  BY <1>8, CountsAlike DEF Rank
<1> QED
  BY <1>9, <1>10, <1>11, <1>12, <1>13 DEF Lifecycle!Adds, Bank

LEMMA CommitConfirms ==
  ASSUME Base, Serial, Complete, NEW w \in Workers, CommitConfirm(w)
  PROVE  \E i \in ImportIds : Lifecycle!Confirm(i)
<1>1. PICK i \in ImportIds : i = job[w].import
  BY UnderWay DEF CommitConfirm
<1>2. PICK M : M = Elements(job[w].made)
  OBVIOUS
<1>3. Lifecycle!Adds(i, M)
  BY <1>1, <1>2, ConfirmAdds
<1>4. /\ M \in SUBSET {r \in DOMAIN Fates[i] : Fates[i][r] = "selected"}
      /\ DOMAIN Fates'[i] = DOMAIN Fates[i]
      /\ \A r \in DOMAIN Fates[i] :
           Fates'[i][r] = IF r \in M THEN "imported"
                          ELSE IF Fates[i][r] = "selected" THEN "refused" ELSE Fates[i][r]
  BY <1>1, <1>2, ConfirmedFates
<1>5. PICK k \in ImportIds, made \in Seq(Nat), new \in Seq(Question), rows \in Seq(Item) :
        Publishes(w, k, made, new, rows)
  BY CommitConfirmDoes
<1>6. /\ k = i /\ items[i] # << >> /\ Rewritten(i, rows) /\ imports'[i] \in Confirmed
      /\ \A l \in ImportIds \ {i} : imports'[l] = imports[l]
  BY <1>1, <1>5, ConfirmsImport DEF Publishes
<1>7. \A l \in ImportIds \ {i} : items'[l] = items[l]
  BY <1>6 DEF Rewritten, Base, Typed
<1>8. Fates[i] # << >>
  BY <1>6, Seen DEF Base, Typed
<1>9. Phases[i] \in {"staged", "confirmed"}
  <2>1. imports[i] \in {"normalized"} \cup Confirmed
    BY <1>6 DEF Complete, Ready, Base, Typed, ImportStatus
  <2> QED
    BY <2>1, Seen DEF Phase
<1>10. Phases' = [Phases EXCEPT ![i] = "confirmed"]
  <2>1. Phase(imports[i])' = "confirmed"
    BY <1>6 DEF Phase
  <2> QED
    BY <1>6, <2>1, PhaseSteps
<1>11. PICK old, next : old = Fates[i] /\ next = Fates'[i]
  OBVIOUS
<1>12. PICK selected : selected = {r \in DOMAIN old : old[r] = "selected"}
  OBVIOUS
<1>13. next = [r \in DOMAIN old |-> IF r \in M THEN "imported"
                                    ELSE IF r \in selected THEN "refused" ELSE old[r]]
  <2>1. next = [r \in DOMAIN next |-> next[r]]
    BY <1>11 DEF Fates
  <2> QED
    BY <1>4, <1>11, <1>12, <2>1
<1>14. Fates' = [Fates EXCEPT ![i] = [r \in DOMAIN @ |->
                   IF r \in M THEN "imported" ELSE IF r \in selected THEN "refused" ELSE @[r]]]
  <2>1. Fates' = [Fates EXCEPT ![i] = Fates'[i]]
    BY <1>7, FateSteps
  <2> QED
    BY <1>11, <1>13, <2>1
<1>15. /\ selected = {r \in DOMAIN Fates[i] : Fates[i][r] = "selected"}
       /\ M \in SUBSET selected
  BY <1>4, <1>11, <1>12
<1>16. \E shown : /\ shown = {r \in DOMAIN Fates[i] : Fates[i][r] = "selected"}
                  /\ \E chosen \in SUBSET shown :
                       /\ Fates' = [Fates EXCEPT ![i] = [r \in DOMAIN @ |->
                            IF r \in chosen THEN "imported"
                            ELSE IF r \in shown THEN "refused" ELSE @[r]]]
                       /\ Lifecycle!Adds(i, chosen)
  <2> WITNESS selected
  <2>1. \E chosen \in SUBSET selected :
         /\ Fates' = [Fates EXCEPT ![i] = [r \in DOMAIN @ |->
              IF r \in chosen THEN "imported"
              ELSE IF r \in selected THEN "refused" ELSE @[r]]]
         /\ Lifecycle!Adds(i, chosen)
    <3>1. M \in SUBSET selected
      BY <1>15
    <3> WITNESS M \in SUBSET selected
    <3> QED
      BY <1>3, <1>14
  <2> QED
    BY <1>15, <2>1
<1>17. Lifecycle!Confirm(i)
  BY <1>8, <1>9, <1>10, <1>16 DEF Lifecycle!Confirm, Phases, Fates
<1> QED
  BY <1>17

\* One request at a time on an import, the wizard keeps its promises: a confirm
\* makes one question of each row that is selected when it commits, in row order,
\* or refuses it, and of no other row; rows are staged once and only toggled or
\* confirmed after that, also when mappings are posted again, rows fail, requests
\* are cut off, or confirms of other imports get in between.
THEOREM WizardKeepsPromises ==
  ASSUME SerialImports
  PROVE  Spec => ImplementsImportLifecycle
<1>1. Init => Lifecycle!Init
  <2> SUFFICES ASSUME Init PROVE Lifecycle!Init
    OBVIOUS
  <2>1. PICK b \in ExistingBanks : questions = b.questions
    BY DEF Init
  <2>2. questions \in Seq(Elements(questions)) /\ \A q \in DOMAIN questions : questions[q].from = None
    BY <2>1, BanksAssumption
  <2>3. PICK n \in Nat : DOMAIN questions = 1..n
    BY <2>2, LenProperties
  <2>4. Bank \in [1..n -> {None}]
    BY <2>2, <2>3 DEF Bank
  <2>5. Bank \in Seq({None})
    BY <2>4
  <2>6. Phases = [i \in ImportIds |-> "none"]
    BY DEF Init, Phases, Phase, Confirmed
  <2>7. Fates = [i \in ImportIds |-> << >>]
    BY DEF Init, Fates
  <2> QED
    BY <2>5, <2>6, <2>7 DEF Lifecycle!Init, Phases, Fates, Bank
<1>2. ASSUME Base, Serial, Complete, [Next]_vars
      PROVE  [Lifecycle!Next]_(Lifecycle!vars)
  <2>1. CASE UNCHANGED <<imports, items, questions>>
    BY <2>1, ShowsNothing
  <2>2. ASSUME NEW w \in Workers, CommitUpload(w)
        PROVE  Lifecycle!Next
    BY <1>2, <2>2, CommitUploads DEF Lifecycle!Next
  <2>3. ASSUME NEW w \in Workers, StageItems(w)
        PROVE  Lifecycle!Next \/ UNCHANGED <<imports, items, questions>>
    BY <1>2, <2>3, StageItemsStages DEF Lifecycle!Next
  <2>4. ASSUME NEW w \in Workers, CommitToggle(w)
        PROVE  Lifecycle!Next
    <3>1. PICK i \in ImportIds : \E r \in DOMAIN Fates[i] : Lifecycle!Toggle(i, r)
      BY <1>2, <2>4, CommitToggles
    <3>2. PICK r \in DOMAIN Fates[i] : Lifecycle!Toggle(i, r)
      BY <3>1
    <3> QED
      BY <3>2 DEF Lifecycle!Next, Fates
  <2>5. ASSUME NEW w \in Workers, CommitConfirm(w)
        PROVE  Lifecycle!Next
    BY <1>2, <2>5, CommitConfirms DEF Lifecycle!Next
  <2> QED
    BY <1>2, <2>1, <2>2, <2>3, <2>4, <2>5, Showers
<1> QED
  BY <1>1, <1>2, CompleteInductive, PTL DEF Spec, ImplementsImportLifecycle, Lifecycle!Spec

=============================================================================
