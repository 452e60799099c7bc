--------------------------- MODULE MCQuestionBank ---------------------------
(* Instances of QuestionBank for TLC. *)
EXTENDS QuestionBank, TLC

CONSTANTS q1, q2, x1, x2, t1, t2, r1, Ta, Tb, Oa, Ob

SomeTopicExam == (t1 :> x1) @@ (t2 :> x2)

Form(texts, labels, correct) == [texts |-> texts, labels |-> labels, correct |-> correct]

One   == Form(Oa, 1..2, <<1>>)
Other == Form(Ob, 1..2, <<2>>)
Both  == Form(Oa, 1..3, <<1, 3>>)
Twice == Form(Ob, 1..2, <<1, 1>>)
\* Refused for every type.
Bad   == {Form(Oa, 1..1, <<1>>), Form(Oa, 1..2, <<3>>), Form(Oa, {2, 3}, <<2>>)}
SomeOptionSets == {One, Other, Both, Twice} \cup Bad

Create(q, x, t, text, form, explained) ==
  [op |-> "create", question |-> q, exam |-> x, topic |-> t, text |-> text,
   type |-> "single", form |-> form, explained |-> explained]
Edit(q, text, type, topic, status) ==
  [op |-> "edit", question |-> q, text |-> text, type |-> type, topic |-> topic,
   status |-> status]
Options(q, form) == [op |-> "options", question |-> q, form |-> form]
About(op, q) == [op |-> op, question |-> q]
Bulk(qs, t) == [op |-> "bulk", questions |-> qs, topic |-> t]
DeletionOf(t) == [op |-> "delete topic", topic |-> t]
Close(r, status) == [op |-> "close", report |-> r, status |-> status]

\* Texts and options of one question; its type and options, well formed and
\* not; topics; retirement and status; explanations and reports.
SomeMenus == {
  {Create(q1, x1, None, Ta, One, FALSE), Edit(q1, Tb, None, None, None),
   Options(q1, One), Options(q1, Other)},
  {Create(q1, x1, None, Ta, One, FALSE), Edit(q1, Tb, "multiple", None, None),
   Edit(q1, None, "single", None, None), Options(q1, Both), Options(q1, Twice)}
    \cup {Options(q1, f) : f \in Bad},
  {Create(q1, x1, None, Ta, One, FALSE), Create(q2, x2, t1, Ta, One, FALSE),
   Edit(q1, None, None, t1, None), Edit(q2, None, None, t2, None),
   Edit(q2, None, None, "clear", None), Bulk({q1, q2}, t1), Bulk({q1}, t1),
   Bulk({q1, q2}, None), DeletionOf(t1), DeletionOf(t2)},
  {Create(q1, x1, None, Ta, One, FALSE), Edit(q1, None, None, None, "published"),
   Edit(q1, None, None, None, "retired"), Edit(q1, Tb, None, None, "verified_low"),
   About("retire", q1), About("restore", q1)},
  {Create(q1, x1, None, Ta, One, FALSE), Create(q2, x2, None, Ta, One, TRUE),
   About("explanation", q1), About("explanation", q2),
   [op |-> "report", question |-> q1, report |-> r1],
   Close(r1, "resolved"), Close(r1, "rejected")}}

WorkerSymmetry == Permutations(Workers)
=============================================================================
