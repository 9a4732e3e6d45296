-------------------------- MODULE IdempotentPayments --------------------------
(***************************************************************************)
(* What the settlement rail promises its callers, without locks, records,  *)
(* processes or retries: a request id is paid with one transaction, and a  *)
(* caller is only ever told of a transaction made for its own id.  The     *)
(* promise ends for an id the rail has lost track of; which events make it *)
(* lose track is for the implementation to say.                            *)
(***************************************************************************)
CONSTANTS Ids, Hashes

VARIABLES
  paid,   \* the transactions broadcast for each id
  told,   \* the transactions callers were told of, with their id
  lost    \* the ids the rail has lost track of

vars == <<paid, told, lost>>

Init ==
  /\ paid = [id \in Ids |-> {}]
  /\ told = {}
  /\ lost = {}

(* One transaction for an id that has none, or for a lost id.              *)
Pay(id, h) ==
  /\ paid[id] = {} \/ id \in lost
  /\ \A other \in Ids : h \notin paid[other]
  /\ paid' = [paid EXCEPT ![id] = @ \cup {h}]
  /\ UNCHANGED <<told, lost>>

Tell(id, h) ==
  /\ h \in paid[id]
  /\ told' = told \cup {<<id, h>>}
  /\ UNCHANGED <<paid, lost>>

Lose(ids) ==
  /\ lost' = lost \cup ids
  /\ UNCHANGED <<paid, told>>

Next ==
  \/ \E id \in Ids, h \in Hashes : Pay(id, h) \/ Tell(id, h)
  \/ \E ids \in SUBSET Ids : Lose(ids)

Spec == Init /\ [][Next]_vars
=============================================================================
