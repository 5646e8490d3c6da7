---------------------------- MODULE SessionLife ----------------------------
(***************************************************************************)
(* What the refresh tokens of logic-commons promise, without tokens: a     *)
(* login permit opens at most one session, an open session may be closed   *)
(* at any time, and a closed one never opens again.                        *)
(***************************************************************************)
CONSTANTS Families, Permits

VARIABLES
  session,   \* [Families -> {"none", "open", "closed"}]
  spent      \* the permits that opened one

lifeVars == <<session, spent>>

LifeInit ==
  /\ session = [f \in Families |-> "none"]
  /\ spent = {}

Open(f, p) ==
  /\ session[f] = "none" /\ p \notin spent
  /\ session' = [session EXCEPT ![f] = "open"]
  /\ spent' = spent \union {p}

\* Logout, a reuse and an expiry close one session, a revocation closes them all.
Close(closing) ==
  /\ \A f \in closing : session[f] = "open"
  /\ session' = [f \in Families |-> IF f \in closing THEN "closed" ELSE session[f]]
  /\ UNCHANGED spent

LifeNext ==
  \/ \E f \in Families, p \in Permits : Open(f, p)
  \/ \E closing \in SUBSET Families : Close(closing)

LifeSpec == LifeInit /\ [][LifeNext]_lifeVars
=============================================================================
