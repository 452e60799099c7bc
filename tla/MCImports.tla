----------------------------- MODULE MCImports -----------------------------
(* Instances of Imports for TLC. *)
EXTENDS Imports, TLC

CONSTANTS Q1, Q2, Q3, Yes, No, Maybe, Long, D1, D2, Blocked, Id1, Id2, BadId, NumberId

Letters(run) == [kind |-> "letters", of |-> run]
Number(n) == [kind |-> "number", of |-> n]
Text(t) == [kind |-> "text", of |-> t]

Row(text, answer) ==
  [EmptyRow EXCEPT !.question_text = text, !.correct_answer = answer,
                   !.option_a = Yes, !.option_b = No]
Combined(text, parts, answer) ==
  [EmptyRow EXCEPT !.question_text = text, !.correct_answer = answer,
                   !.combined_options = parts]
Discussing(row, url, id, votes) ==
  [row EXCEPT !.discussion_url = url, !.external_question_id = id, !.vote_a = votes]

First == Row(Q1, <<Letters(<<1>>)>>)
Second == Row(Q2, <<Letters(<<2>>)>>)
\* The content of First, in the other order and in one cell.
FirstAgain == Combined(Q1, <<No, Yes>>, <<Number(2)>>)
\* `BD'-like runs, text answers with a gap in the labels, a third option.
Run == [Combined(Q2, <<Yes, No, Maybe>>, <<Letters(<<1, 3>>)>>)
          EXCEPT !.question_type = "single"]
Gap == [Row(Q3, <<Text(Maybe)>>) EXCEPT !.option_d = Maybe, !.question_type = "choice"]
\* Rows in error: a letter without an option, a number given twice, an unknown
\* letter, a single option, a long text, no text.
NoSuchOption == Row(Q2, <<Letters(<<3>>)>>)
Twice == Row(Q2, <<Number(1), Number(1)>>)
Unknown == Row(Q2, <<Letters(<<0>>)>>)
OneOption == Combined(Q2, <<Yes>>, <<Letters(<<1>>)>>)
TooLong == Row(Long, <<Letters(<<1>>)>>)
NoText == Row(None, None)
\* Rows with a warning.
Hard == [First EXCEPT !.difficulty = "impossible"]
Refused == Discussing(Second, Blocked, Id1, 3)
BadSignal == Discussing(Second, D1, BadId, None)
NumberOnly == Discussing(First, None, NumberId, None)
TooMany == Discussing(First, D1, Id1, 200000)

Xlsx(rows) == [family |-> "xlsx", rows |-> rows]
Adapter(rows) == [family |-> "text", rows |-> rows]

\* Two discussions in one order, and in the other one with other votes.
SourceFiles ==
  [there |-> Adapter(<<Discussing(First, D1, Id1, 3), Discussing(Second, D2, Id2, None)>>),
   back |-> Adapter(<<Discussing(Gap, D2, Id2, 5), Discussing(Run, D1, Id1, 3)>>)]

RowFiles ==
  [plain |-> Xlsx(<<First, Second>>), again |-> Xlsx(<<First, EmptyRow, FirstAgain>>),
   faulty |-> Xlsx(<<NoSuchOption, Second>>), adapter |-> Adapter(<<Run, Gap>>),
   twice |-> Xlsx(<<Gap, Twice>>), errors |-> Xlsx(<<Unknown, OneOption>>),
   text |-> Adapter(<<TooLong, NoText>>), hard |-> Xlsx(<<Hard, First>>),
   refused |-> Xlsx(<<Refused, BadSignal>>), numbers |-> Xlsx(<<NumberOnly, TooMany>>),
   long |-> Xlsx(<<First, Second, Gap>>), empty |-> Xlsx(<< >>),
   discussed |-> Xlsx(<<Discussing(First, D1, Id1, -1), Discussing(Second, D1, Id1, 3)>>),
   stray |-> [family |-> "unknown", rows |-> <<First>>]]

TwoRows == [plain |-> Xlsx(<<First, Second>>), hard |-> Xlsx(<<Hard, Second>>)]

SourceFileNames == DOMAIN SourceFiles
RowFileNames == DOMAIN RowFiles
TwoRowNames == DOMAIN TwoRows

\* A file has all headers of a mapping, or none of them.
Mapping(fields, columns) == [fields |-> fields, columns |-> columns]
EveryColumn == {Mapping(CanonicalFields, CanonicalFields)}
NoMapping == {}
SomeMappings ==
  {Mapping(fields, fields) : fields \in
     {CanonicalFields, {"question_text", "correct_answer", "option_a", "option_b"},
      Fields, CanonicalFields \ {"correct_answer"}}}
  \cup {Mapping({"question_text", "correct_answer", "combined_options"}, {})}

\* A question that was there before, with the content of a row as it is now.
Earlier(row) ==
  [hash |-> ValidateRow(row).hash, question_type |-> "single",
   options |-> [l \in Labels |-> IF l > 2 THEN None ELSE l = 1], from |-> None]
EarlierSource(url, id, q) ==
  [url |-> url, id |-> id, votes |-> <<3>>, count |-> None, question |-> q, version |-> 0]

\* An empty exam, one with a question an administrator wrote, and one with two
\* imported questions that were edited since and have their sources.
EmptyBank == {[questions |-> << >>, sources |-> << >>]}
SomeBanks == EmptyBank \cup {[questions |-> <<Earlier(First)>>, sources |-> << >>]}
DiscussedBank ==
  {[questions |-> <<Earlier(OneOption), Earlier(TooLong)>>,
    sources |-> <<EarlierSource(D1, Id1, 1), EarlierSource(D2, Id2, 2)>>]}

OneLong == {Long}
OneBlocked == {Blocked}
OneBadId == {BadId}
OneNumberId == {NumberId}

WorkerSymmetry == Permutations(Workers)
=============================================================================
