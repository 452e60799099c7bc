----------------------------- MODULE MCCatalog -----------------------------
(* Instances of Catalog for TLC. *)
EXTENDS Catalog, TLC

CONSTANTS p1, p2, v1, c1, c2, e1, e2, t1, t2, s1, s2

A(parent, slug) ==
  [parent |-> parent, slug |-> slug, published |-> FALSE, deleted |-> FALSE]

\* A provider, its course and a soft-deleted exam, which are there for good.
Lasting(p, c, e) == (p :> A(None, s1)) @@ (c :> A(p, s1))
                    @@ (e :> [A(c, s1) EXCEPT !.published = TRUE, !.deleted = TRUE])

\* Another provider to come; two kinds of children to come; another course, its
\* exam to come; an exam that is alive, another and a topic to come; a
\* soft-deleted exam, topics to come.
SomeSeeds == {
  [rows |-> Lasting(p2, c2, e2), free |-> {p1, c1}],
  [rows |-> Lasting(p1, c2, e2), free |-> {v1, c1}],
  [rows |-> Lasting(p1, c2, e2) @@ (c1 :> A(p1, s2)), free |-> {e1}],
  [rows |-> (p1 :> A(None, s1)) @@ (c1 :> A(p1, s1)) @@ (e1 :> A(c1, s1)),
   free |-> {e2, t1}],
  [rows |-> Lasting(p1, c1, e1), free |-> {t1, t2}]}

WorkerSymmetry == Permutations(Workers)
=============================================================================
