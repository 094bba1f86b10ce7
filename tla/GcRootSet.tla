----------------------------- MODULE GcRootSet -----------------------------
(***************************************************************************)
(* What the root buffer promises the collector: for every value, whether   *)
(* it has an entry and how the entry is tagged.  Nothing else of the array *)
(* (slots, addresses, the free list, compaction, growth) can be observed.  *)
(***************************************************************************)
CONSTANT Ref
VARIABLE tags

Tags == {"none", "root", "garbage", "dtor"}

Init == tags = [r \in Ref |-> "none"]

\* One value gets an entry, as a possible root or as garbage.
Add(r, tag) == /\ tags[r] = "none" /\ tag \in {"root", "garbage"}
               /\ tags' = [tags EXCEPT ![r] = tag]

\* One value loses its entry.  No other entry is touched.
Remove(r) == /\ tags[r] # "none"
             /\ tags' = [tags EXCEPT ![r] = "none"]

\* A root is condemned; garbage with a destructor is set apart; and is a
\* root again when its destructor runs.  Garbage never is a root again.
Condemn(r) == /\ tags[r] = "root"
              /\ tags' = [tags EXCEPT ![r] = "garbage"]
SetApart(R) == /\ R # {} /\ \A r \in R : tags[r] = "garbage"
               /\ tags' = [r \in Ref |-> IF r \in R THEN "dtor" ELSE tags[r]]
Release(r) == /\ tags[r] = "dtor"
              /\ tags' = [tags EXCEPT ![r] = "root"]

\* A new request.
Clear == tags' = [r \in Ref |-> "none"]

Next == \/ \E r \in Ref : \/ Add(r, "root") \/ Add(r, "garbage") \/ Remove(r)
                          \/ Condemn(r) \/ Release(r)
        \/ \E R \in SUBSET Ref : SetApart(R)
        \/ Clear

Spec == Init /\ [][Next]_tags
=============================================================================
