----------------------------- MODULE MCAttempts -----------------------------
(* Instances of Attempts for TLC. *)
EXTENDS Attempts, TLC

CONSTANTS A, B

\* The key moves from A to B, and A is no longer offered.
KeyReplaced == {[labels |-> {A, B}, correct |-> {A}],
                [labels |-> {B}, correct |-> {B}]}

OneKey == {[labels |-> {A, B}, correct |-> {A}]}

\* Nothing selected, the first key, the second key.
AnyChoice == {{}, {A}, {B}}
OneChoice == {{A}}

RequestSymmetry == Permutations(Workers) \cup Permutations(Users)
=============================================================================
