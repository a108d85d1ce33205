---------------------------- MODULE SampleStream ----------------------------
(***************************************************************************)
(* What the sample log promises the rest of the daemon, with none of its   *)
(* threads and files: records, numbered as they come, are kept in order;   *)
(* what is kept is only ever forgotten oldest first; a crash takes the     *)
(* records that still wait and nothing else.                               *)
(***************************************************************************)
EXTENDS Naturals

VARIABLES offered,   \* the number of records offered so far
          waiting,   \* records taken and not yet kept
          kept       \* records in the log

vars == <<offered, waiting, kept>>

Init == offered = 0 /\ waiting = {} /\ kept = {}

Offer == /\ offered' = offered + 1 /\ waiting' = waiting \cup {offered + 1}
         /\ UNCHANGED kept

\* Records reach the log in the order they came, never twice.
Keep(rs) == /\ rs # {} /\ rs \subseteq waiting
            /\ \A r \in rs : \A k \in kept \cup (waiting \ rs) :
                 (k \in kept => k < r) /\ (k \in waiting => r < k)
            /\ kept' = kept \cup rs /\ waiting' = waiting \ rs
            /\ UNCHANGED offered

\* A full buffer or a failing disk loses records that wait.
Lose(rs) == rs # {} /\ waiting' = waiting \ rs /\ UNCHANGED <<offered, kept>>

Forget(r) == /\ kept' = {k \in kept : k > r} /\ kept' # kept
             /\ UNCHANGED <<offered, waiting>>

Next == \/ Offer
        \/ \E rs \in SUBSET waiting : Keep(rs) \/ Lose(rs)
        \/ \E r \in kept : Forget(r)

Spec == Init /\ [][Next]_vars
=============================================================================
