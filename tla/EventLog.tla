------------------------------- MODULE EventLog -------------------------------
(***************************************************************************)
(* What the ARCHIEVE event log promises, without its hashes: an event that *)
(* was accepted "cannot be modified after the fact" (docs/USER_GUIDE.md).  *)
(* A tenant's trail only grows, by one accepted event at a time, whole and *)
(* as it was accepted; an accepted event waits until it is on the trail,   *)
(* whatever stops and starts meanwhile.  The order is not promised.        *)
(***************************************************************************)
EXTENDS Naturals, Sequences

CONSTANT Tenants   \* an event is any record with an id

VARIABLES
  trail,     \* each tenant's events, in the order they were stored
  waiting    \* each tenant's events that were accepted and are not stored yet

logVars == <<trail, waiting>>

Stored(t) == {trail[t][i] : i \in DOMAIN trail[t]}

LogInit ==
  /\ trail = [t \in Tenants |-> <<>>]
  /\ waiting = [t \in Tenants |-> {}]

\* No two events of any tenants have the same id.
Accept(t, event) ==
  /\ \A u \in Tenants : \A other \in Stored(u) \union waiting[u] : other.id # event.id
  /\ waiting' = [waiting EXCEPT ![t] = @ \union {event}]
  /\ UNCHANGED trail

Store(t, event) ==
  /\ event \in waiting[t]
  /\ waiting' = [waiting EXCEPT ![t] = @ \ {event}]
  /\ trail' = [trail EXCEPT ![t] = Append(@, event)]

LogNext ==
  \E t \in Tenants :
    \/ \E event \in waiting'[t] : Accept(t, event)
    \/ \E event \in waiting[t] : Store(t, event)

LogSpec == LogInit /\ [][LogNext]_logVars
=============================================================================
