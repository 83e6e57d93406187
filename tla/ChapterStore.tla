---------------------------- MODULE ChapterStore ----------------------------
(***************************************************************************)
(* What the download engine promises: chapters are stored because they     *)
(* were asked for, each request stores its own chapter at most once, and   *)
(* a request may come to nothing.  No rows, files, jobs or workers.        *)
(***************************************************************************)
EXTENDS Naturals

CONSTANTS Keys, Archives, None

VARIABLES
    pending,  \* how many accepted requests of each key are not settled
    stored    \* what is stored for each key, or None

vars == <<pending, stored>>

Init ==
    /\ pending = [k \in Keys |-> 0]
    /\ stored = [k \in Keys |-> None]

Request(k) ==
    /\ pending' = [pending EXCEPT ![k] = @ + 1]
    /\ UNCHANGED stored

Settle(k) ==
    /\ pending[k] > 0
    /\ pending' = [pending EXCEPT ![k] = @ - 1]

Store(k) ==
    /\ Settle(k)
    /\ \E a \in Archives :
          /\ a.key = k
          /\ stored' = [stored EXCEPT ![k] = a]

Drop(k) == Settle(k) /\ UNCHANGED stored

\* A restart forgets every request and nothing that was stored.
Forget ==
    /\ pending' = [k \in Keys |-> 0]
    /\ UNCHANGED stored

Remove(k) ==
    /\ stored' = [stored EXCEPT ![k] = None]
    /\ UNCHANGED pending

Next ==
    \/ \E k \in Keys : Request(k) \/ Store(k) \/ Drop(k) \/ Remove(k)
    \/ Forget

Spec == Init /\ [][Next]_vars
=============================================================================
