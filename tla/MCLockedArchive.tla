-------------------------- MODULE MCLockedArchive --------------------------
(* Bounds of the check of LockedArchive. *)
EXTENDS LockedArchive, TLC
CONSTANTS j1, j2
TwoJobs == {j1, j2}
ShortAndLong == <<"short", "long">>
Lengths == [short |-> 2, long |-> 4]
ThreeMoments == {9, 11, 12}
\* What a job does in its own directories commutes with every step of another job, so while one job
\* collects, merges or seals no other job moves; the clock matters to a request only; and only one
\* job starts before the range has ended.  A job that restores a dataset has not built one.
LocalSteps == {"rest", "write", "seal"}
Built(j) == dir[j]["deals"] # EmptyDir \/ checkpoint[j] # [r \in Requests |-> Nothing]
Started(j) == pc[j] # AtRest \/ Built(j)
OrderOfJobs ==
    \A j \in Jobs :
        /\ pc[j].do \in LocalSteps => \A k \in Jobs \ {j} : pc'[k] = pc[k]
        /\ pc[j].do \notin {"rest", "idle"} => now' = now
        /\ now < Ends /\ Started(j) => \A k \in Jobs \ {j} : ~Started(k)'
        /\ pc'[j].do = "download" => ~Built(j)
        /\ cache[j] # Nothing => pc'[j] = AtRest
Sym == Permutations(TwoJobs)
=============================================================================
