-------------------------- MODULE AttemptLifecycle --------------------------
(***************************************************************************)
(* What an attempt promises its owner, without requests, transactions or   *)
(* clocks: it is opened once over a fixed list of questions, its answers   *)
(* may be changed while it is open, and it is closed once, with a verdict  *)
(* on every answer and their count as its score.  A user has one open      *)
(* attempt at most.  Attempts, with users who wait for their answers,      *)
(* implements this module.                                                 *)
(***************************************************************************)
EXTENDS Integers, Sequences, FiniteSets

CONSTANTS Ids, Users, Questions, Labels, None

VARIABLES phase, owner, sheet, score

vars == <<phase, owner, sheet, score>>

Others(f, a) == [b \in Ids \ {a} |-> f[b]]

\* Distinct questions, nothing selected, nothing judged.
Blank(s) ==
  /\ Len(s) > 0
  /\ \A i \in DOMAIN s : /\ s[i].question \in Questions
                         /\ s[i].selected = {} /\ s[i].isCorrect = None
  /\ \A i, j \in DOMAIN s : s[i].question = s[j].question => i = j

Init ==
  /\ phase = [a \in Ids |-> "none"]
  /\ owner = [a \in Ids |-> None]
  /\ sheet = [a \in Ids |-> << >>]
  /\ score = [a \in Ids |-> None]

Open(a, u) ==
  /\ phase[a] = "none"
  /\ \A b \in Ids : phase[b] = "open" => owner[b] # u
  /\ phase' = [phase EXCEPT ![a] = "open"]
  /\ owner' = [owner EXCEPT ![a] = u]
  /\ Blank(sheet'[a])
  /\ Others(sheet', a) = Others(sheet, a)
  /\ UNCHANGED score

Answer(a, i) ==
  /\ phase[a] = "open"
  /\ sheet'[a][i].selected \subseteq Labels
  /\ sheet' = [sheet EXCEPT ![a][i].selected = sheet'[a][i].selected]
  /\ UNCHANGED <<phase, owner, score>>

Close(a) ==
  /\ phase[a] = "open"
  /\ phase' = [phase EXCEPT ![a] = "closed"]
  /\ Others(sheet', a) = Others(sheet, a)
  /\ \E verdict \in [DOMAIN sheet[a] -> BOOLEAN] :
       /\ sheet'[a] = [i \in DOMAIN sheet[a] |->
                         [sheet[a][i] EXCEPT !.isCorrect = verdict[i]]]
       /\ score' = [score EXCEPT ![a] =
                      Cardinality({i \in DOMAIN verdict : verdict[i]})]
  /\ UNCHANGED owner

Next ==
  \E a \in Ids :
    \/ \E u \in Users : Open(a, u)
    \/ \E i \in DOMAIN sheet[a] : Answer(a, i)
    \/ Close(a)

Spec == Init /\ [][Next]_vars

=============================================================================
