--------------------------- MODULE MCReleaseService ---------------------------
(* Instances of ReleaseService for TLC. *)
EXTENDS ReleaseService, TLC

CONSTANTS d1, d2, r1, r2

(* Both environments are asked for by one run, or each by a run of its own.*)
SameRun == [d \in Deployment |-> r1]
RunEach == [d \in Deployment |-> IF d = d1 THEN r1 ELSE r2]

(* Goroutines are interchangeable.  The two are sets of model values, none *)
(* of which a temporal property of a run with symmetry mentions.           *)
Workers == Permutations(Handler) \cup Permutations(Reviewer)

=============================================================================
