------------------------------ MODULE ClaimedWork ------------------------------
(***************************************************************************)
(* What a claim in a database row promises: an item is worked on by one    *)
(* worker at a time, and by nobody once it is finished.  The deliveries of *)
(* alerts and the runs of risk scans are such items.                       *)
(***************************************************************************)
CONSTANTS Items, Workers

VARIABLES
    holders,            \* the workers at work on an item
    finished            \* the items that are finished

vars == <<holders, finished>>

Init ==
    /\ holders = [i \in Items |-> {}]
    /\ finished = {}

\* A worker takes an item nobody holds.
Claim(i, w) ==
    /\ i \notin finished
    /\ holders[i] = {}
    /\ holders' = [holders EXCEPT ![i] = {w}]
    /\ UNCHANGED finished

\* The holder gives up, or dies.
Release(i) ==
    /\ holders[i] # {}
    /\ holders' = [holders EXCEPT ![i] = {}]
    /\ UNCHANGED finished

\* The holder records that the item is done.
Finish(i) ==
    /\ holders[i] # {}
    /\ holders' = [holders EXCEPT ![i] = {}]
    /\ finished' = finished \cup {i}

Next ==
    \E i \in Items :
        \/ \E w \in Workers : Claim(i, w)
        \/ Release(i)
        \/ Finish(i)

Spec == Init /\ [][Next]_vars
===============================================================================
