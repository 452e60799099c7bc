--------------------------- MODULE RowValidation ---------------------------
(***************************************************************************)
(* What the import wizard makes of one row of a file, without a database:  *)
(* the columns a mapping picks (excel_parser.stream_rows), the split of a  *)
(* combined options cell (import_normalizer), the validation of a question *)
(* (import_validator), of its community signal (import_community,          *)
(* schemas/community) and its content hash (import_dedup).                 *)
(*                                                                         *)
(* A row is a function from the canonical fields to cells.  A cell that    *)
(* the code splits is the sequence of its parts, a cell that it looks up   *)
(* in a list of spellings is the word it finds, and the labels A to F are  *)
(* 1 to 6.  An answer is a sequence of entries: a run of letters (0 for a  *)
(* letter after F), a number, or any other text.                           *)
(***************************************************************************)
EXTENDS Integers, Sequences, FiniteSets

CONSTANTS
  LongTexts,   \* texts that are longer than their column allows
  BlockedUrls, \* URLs that validate_url refuses
  BadIds,      \* external ids that are not [A-Za-z0-9_-]{1,255}
  NumericIds,  \* external ids that a spreadsheet gives as numbers
  None         \* an empty cell

Labels == 1..6
OptionField == <<"option_a", "option_b", "option_c", "option_d", "option_e", "option_f">>
VoteField == <<"vote_a", "vote_b", "vote_c", "vote_d", "vote_e", "vote_f">>

\* The fields that decide something; the others are only kept.
Fields ==
  {"question_text", "combined_options", "correct_answer", "question_type", "difficulty",
   "discussion_url", "external_question_id", "discussion_count"}
  \cup {OptionField[l] : l \in Labels} \cup {VoteField[l] : l \in Labels}

\* The fields a column can be mapped to.  A sixth option comes from the parser
\* adapters or from a combined cell only.
CanonicalFields == Fields \ {"option_f"}

EmptyRow == [c \in Fields |-> None]

-----------------------------------------------------------------------------
(* Columns                                                                  *)

\* What required_mapping_missing demands of the mapped fields.
MappingComplete(mapped) ==
  /\ {"question_text", "correct_answer"} \subseteq mapped
  /\ "combined_options" \in mapped \/ {"option_a", "option_b"} \subseteq mapped

\* Row numbers in ascending order.
InOrder(rows) ==
  [k \in 1..Cardinality(rows) |->
     CHOOSE r \in rows : Cardinality({p \in rows : p <= r}) = k]

\* The rows of a sheet with a cell in them; they count for the limit.
DataRows(sheet) == {r \in DOMAIN sheet : sheet[r] # EmptyRow}

\* The rows that stream_rows yields: cells of other columns than those given are
\* not read, and without any column there are no rows.  Every row is taken to
\* reach as far as the columns.
StreamRows(sheet, columns) ==
  LET data == IF columns = {} THEN << >> ELSE InOrder(DataRows(sheet))
  IN [k \in DOMAIN data |->
        [c \in Fields |-> IF c \in columns THEN sheet[data[k]][c] ELSE None]]

-----------------------------------------------------------------------------
(* Options, answer and type                                                 *)

\* normalize_row: the parts of a combined cell fill the labels without a cell
\* of their own, each part the label of its place.
OptionsOf(row) ==
  [l \in Labels |->
     CASE row[OptionField[l]] # None -> row[OptionField[l]]
       [] row.combined_options # None /\ l <= Len(row.combined_options) ->
            row.combined_options[l]
       [] OTHER -> None]

Offered(options) == {l \in Labels : options[l] # None}

\* A run of letters gives an entry for each of them.
Expanded(answer) ==
  LET Upto[k \in 0..Len(answer)] ==
        IF k = 0 THEN << >>
        ELSE Upto[k - 1] \o
               IF answer[k].kind = "letters"
               THEN [n \in DOMAIN answer[k].of |-> [kind |-> "letter", of |-> answer[k].of[n]]]
               ELSE <<answer[k]>>
  IN Upto[Len(answer)]

\* Mutant of Resolved: letters and numbers are not looked up among the options.
ResolvedUnchecked(entry, options) == IF entry.of \in Labels THEN entry.of ELSE None

\* The label an entry stands for, None if for none; of options with the same
\* text the last one.
Resolved(entry, options) ==
  IF entry.kind \in {"letter", "number"}
  THEN IF entry.of \in Offered(options) THEN entry.of ELSE None
  ELSE LET same == {l \in Offered(options) : options[l] = entry.of}
       IN IF same = {} THEN None ELSE CHOOSE l \in same : \A m \in same : m <= l

\* correct_answer: the labels chosen, and whether an entry is in error.  A label
\* given twice is an error unless it is given as a letter.
CorrectAnswer(answer, options) ==
  LET entries == Expanded(IF answer = None THEN << >> ELSE answer)
      label == [k \in DOMAIN entries |-> Resolved(entries[k], options)]
  IN [chosen |-> {label[k] : k \in DOMAIN entries} \ {None},
      faulty |-> \/ \A k \in DOMAIN entries : label[k] = None
                 \/ \E k \in DOMAIN entries :
                      \/ label[k] = None
                      \/ /\ entries[k].kind # "letter"
                         /\ \E p \in 1..(k - 1) : label[p] = label[k]]

\* A type that is not given, or `choice', follows from the number of answers;
\* any other is taken as it is.
TypeOf(cell, chosen) ==
  IF cell \notin {None, "choice"} THEN cell
  ELSE IF Cardinality(chosen) > 1 THEN "multiple" ELSE "single"

Types == {"single", "multiple", "true_false"}
Difficulties == {"easy", "medium", "hard"}

-----------------------------------------------------------------------------
(* Community signal                                                         *)

MaxVoteValue == 100000
MaxDiscussionCount == 1000000

\* Missing and negative counts are left out, and a row without any has None.
VotesOf(row) ==
  LET counted == {l \in Labels : row[VoteField[l]] # None /\ row[VoteField[l]] >= 0}
  IN IF counted = {} THEN None ELSE [l \in counted |-> row[VoteField[l]]]

\* extract_community_payload: the signal of a row, None if it has none or an
\* invalid one, and whether that is worth a warning.  A refused URL is dropped
\* with a warning, an external id that is a number without one.
CommunityOf(row) ==
  LET votes == VotesOf(row)
      count == row.discussion_count
      refused == row.discussion_url \in BlockedUrls
      signal == [url |-> IF refused THEN None ELSE row.discussion_url,
                 id |-> IF row.external_question_id \in NumericIds
                        THEN None ELSE row.external_question_id,
                 count |-> count, votes |-> votes]
      present == \/ row.discussion_url # None \/ row.external_question_id # None
                 \/ count # None \/ votes # None
      valid == /\ signal.id \notin BadIds
               /\ count # None => count \in 0..MaxDiscussionCount
               /\ votes # None => \A l \in DOMAIN votes : votes[l] <= MaxVoteValue
               /\ signal # [url |-> None, id |-> None, count |-> None, votes |-> None]
  IN [payload |-> IF present /\ valid THEN signal ELSE None,
      warned |-> present /\ (refused \/ ~valid)]

-----------------------------------------------------------------------------

\* content_hash: the text and the bag of option texts, whatever their labels.
ContentHash(text, options) ==
  [text |-> text,
   options |-> [t \in {options[l] : l \in Offered(options)} |->
                  Cardinality({l \in Labels : options[l] = t})]]

\* validate_row: an error outweighs a warning, and the canonical row is built
\* whatever the verdict.
ValidateRow(row) ==
  LET options == OptionsOf(row)
      answer == CorrectAnswer(row.correct_answer, options)
      type == TypeOf(row.question_type, answer.chosen)
      community == CommunityOf(row)
      texts == {row.question_text} \cup {options[l] : l \in Offered(options)}
      faulty == \/ row.question_text = None
                \/ texts \cap LongTexts # {}
                \/ Cardinality(Offered(options)) < 2
                \/ answer.faulty
                \/ type \notin Types
      warned == \/ row.difficulty \notin Difficulties \cup {None}
                \/ community.warned
  IN [verdict |-> CASE faulty -> "error" [] ~faulty /\ warned -> "warning" [] OTHER -> "ok",
      hash |-> ContentHash(row.question_text, options),
      options |-> options, correct_answer |-> answer.chosen, question_type |-> type,
      community |-> community.payload]
=============================================================================
