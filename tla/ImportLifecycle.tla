-------------------------- MODULE ImportLifecycle --------------------------
(***************************************************************************)
(* What the import wizard promises an administrator, without requests,     *)
(* transactions or community sources: the rows of an import are fixed      *)
(* once; they may be deselected and selected again; a confirm turns every  *)
(* selected row into one question of the exam, in row order, or refuses    *)
(* it for good.  What is not promised is that a confirmed import stays     *)
(* so.  Imports, with one request at a time on an import, implements this  *)
(* module.                                                                 *)
(***************************************************************************)
EXTENDS Integers, Sequences, FiniteSets

CONSTANTS ImportIds, None

VARIABLES
  phase, \* "none", "uploaded", "staged" or "confirmed"
  rows,  \* per import, the fates of its rows
  bank   \* of every question of the exam the import and row, or None

vars == <<phase, rows, bank>>

Init ==
  /\ phase = [i \in ImportIds |-> "none"]
  /\ rows = [i \in ImportIds |-> << >>]
  /\ bank \in Seq({None})

Upload(i) ==
  /\ phase[i] = "none"
  /\ phase' = [phase EXCEPT ![i] = "uploaded"]
  /\ UNCHANGED <<rows, bank>>

\* A file that gave no rows may be staged again, with another mapping.
Stage(i) ==
  /\ rows[i] = << >>
  /\ rows'[i] \in Seq({"selected", "refused"})
  /\ rows' = [rows EXCEPT ![i] = rows'[i]]
  /\ phase' = [phase EXCEPT ![i] = "staged"]
  /\ UNCHANGED bank

\* Another mapping, by which the file gives no rows, takes the import back to
\* the step before its confirmation; the rows that are there stay.
Remap(i) ==
  /\ rows[i] # << >>
  /\ phase' = [phase EXCEPT ![i] = "staged"]
  /\ UNCHANGED <<rows, bank>>

Toggle(i, r) ==
  /\ rows[i][r] \in {"selected", "deselected"}
  /\ rows' = [rows EXCEPT ![i][r] = IF @ = "selected" THEN "deselected" ELSE "selected"]
  /\ UNCHANGED <<phase, bank>>

\* The bank grows by a question of each row of `made', in their order.
Adds(i, made) ==
  LET old == Len(bank)
  IN /\ DOMAIN bank' = 1..(old + Cardinality(made))
     /\ \A q \in 1..old : bank'[q] = bank[q]
     /\ \A r \in made : bank'[old + Cardinality({p \in made : p <= r})] = <<i, r>>

Confirm(i) ==
  LET selected == {r \in DOMAIN rows[i] : rows[i][r] = "selected"}
  IN /\ phase[i] \in {"staged", "confirmed"} /\ rows[i] # << >>
     /\ \E made \in SUBSET selected :
          /\ rows' = [rows EXCEPT ![i] = [r \in DOMAIN @ |->
                        IF r \in made THEN "imported"
                        ELSE IF r \in selected THEN "refused" ELSE @[r]]]
          /\ Adds(i, made)
     /\ phase' = [phase EXCEPT ![i] = "confirmed"]

Next ==
  \E i \in ImportIds :
    \/ Upload(i) \/ Stage(i) \/ Remap(i) \/ Confirm(i)
    \/ \E r \in DOMAIN rows[i] : Toggle(i, r)

Spec == Init /\ [][Next]_vars

=============================================================================
