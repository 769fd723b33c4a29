--------------------------- MODULE MCJobLifecycle ---------------------------
(* Small instances of JobLifecycle for TLC. *)
EXTENDS JobLifecycle, TLC

CONSTANTS alice, report, letter

\* Submissions by one user under different names.
OneUser == [p \in ProxyID |-> alice]
DifferentNames == [p \in ProxyID |-> IF p = 1 THEN report ELSE letter]

\* The first job has no name: its user alone identifies it, and fits every job.
\* The second has one that fits no other.
FirstUnnamed == [p \in ProxyID |-> IF p = 1 THEN "" ELSE letter]

\* Clients are interchangeable.
ClientSymmetry == Permutations(Clients)
=============================================================================
