----------------------------- MODULE PageStore -----------------------------
(***************************************************************************)
(* What the buffer pool and the disk manager promise together: a store of  *)
(* pages, each read back as it was last written, whatever is cached,       *)
(* evicted or flushed meanwhile.  A clean restart changes nothing.  A      *)
(* crash keeps the pages that existed at the last clean restart, each with *)
(* some content it has had since then, and loses the others.               *)
(***************************************************************************)
CONSTANTS PageIds, Data, Blank

VARIABLES
    pages,      \* page id -> content
    durable,    \* the ids that survive a crash
    versions    \* page id -> the contents it has had since the last restart

vars == <<pages, durable, versions>>

Init ==
    /\ pages = [id \in {} |-> Blank]
    /\ durable = {}
    /\ versions = [id \in {} |-> {}]

\* The page that is allocated is new and blank: no other page changes.
Alloc(id) ==
    /\ id \notin DOMAIN pages
    /\ pages' = [i \in DOMAIN pages \cup {id} |->
                    IF i = id THEN Blank ELSE pages[i]]
    /\ versions' = [i \in DOMAIN pages \cup {id} |->
                    IF i = id THEN {Blank} ELSE versions[i]]
    /\ UNCHANGED durable

Write(id, x) ==
    /\ id \in DOMAIN pages
    /\ pages' = [pages EXCEPT ![id] = x]
    /\ versions' = [versions EXCEPT ![id] = @ \cup {x}]
    /\ UNCHANGED durable

CleanRestart ==
    /\ durable' = DOMAIN pages
    /\ versions' = [id \in DOMAIN pages |-> {pages[id]}]
    /\ UNCHANGED pages

Crash ==
    /\ DOMAIN pages' = durable
    /\ \A id \in durable : pages'[id] \in versions[id]
    /\ versions' = [id \in durable |-> {pages'[id]}]
    /\ UNCHANGED durable

Next ==
    \/ \E id \in PageIds : Alloc(id)
    \/ \E id \in DOMAIN pages, x \in Data : Write(id, x)
    \/ CleanRestart
    \/ Crash

Spec == Init /\ [][Next]_vars
=============================================================================
