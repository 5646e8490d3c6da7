--------------------------- MODULE SessionsProofs ---------------------------
(***************************************************************************)
(* Theorems about the sessions of a user, for any browsers, requests,      *)
(* tokens and logins.                                                      *)
(*                                                                         *)
(* That nobody quiet is taken for a thief says nothing of what a browser   *)
(* is about to send.  The invariant does (Quiet), for which it must know   *)
(* whose token each one is (Owned): a rotation revokes the tokens of one   *)
(* browser only, and no other is disturbed by it.  A family belongs to one *)
(* browser because an OAuth state opens one family at most (Permits).      *)
(***************************************************************************)
EXTENDS Sessions, FiniteSetTheorems, SequenceTheorems, TLAPS

OnItsWay(q) == requests[q].pc \in {"sent", "consumed"}

\* Only callbacks are consumed; a callback comes from the browser its login was
\* opened in, and nothing else names a login.
RequestOK(r, issued, opened) ==
  \/ r = Idle
  \/ /\ r \in Request /\ r.token <= Len(issued)
     /\ IF r.kind = "callback"
        THEN r.state \in DOMAIN opened /\ r.browser = opened[r.state].browser
        ELSE r.state = 0
     /\ r.pc = "consumed" => r.kind = "callback"
  \/ r \in Reply /\ r.sets \subseteq 0..Len(issued)

Shape ==
  /\ TypeOK
  /\ requests \in [Requests -> {Idle} \union Request \union Reply]
  /\ \A q \in Requests : RequestOK(requests[q], tokens, states)

\* An OAuth state is used by one callback at most, and opens one family at most.
Permits ==
  /\ \A f, g \in DOMAIN ticket : ticket[f] = ticket[g] => f = g
  /\ \A f \in DOMAIN ticket : ~states[ticket[f]].usable
  /\ \A q \in Requests : requests[q].pc = "consumed" =>
       /\ ~states[requests[q].state].usable
       /\ \A f \in DOMAIN ticket : ticket[f] # requests[q].state
       /\ \A r \in Requests :
            requests[r].pc = "consumed" /\ requests[r].state = requests[q].state => q = r

\* The browser a token was issued to.
Owner(t) == states[ticket[tokens[t].family]].browser

\* Request q is under way for browser b.
Mine(q, b) == requests[q].pc # "idle" /\ requests[q].browser = b

\* A token is in the browser's cookie, in a request of it or in an answer to it.
Carries(b, t) ==
  \/ t = cookie[b]
  \/ \E q \in Requests : Mine(q, b) /\ OnItsWay(q) /\ t = requests[q].token
  \/ \E q \in Requests : Mine(q, b) /\ requests[q].pc = "answered" /\ t \in requests[q].sets

\* What a browser carries was issued to it.
Owned == \A b \in Browsers : \A t \in 1..Len(tokens) : Carries(b, t) => Owner(t) = b

\* What is no reuse when it is presented.
Good(t) == t = 0 \/ t <= expired \/ ~tokens[t].revoked

\* The browser has one request under way at most, and what it would send next,
\* has sent or is being answered is no reuse.
QuietAt(b) ==
  /\ \A q, r \in Requests : Mine(q, b) /\ Mine(r, b) => q = r
  /\ (\A q \in Requests : ~Mine(q, b)) => Good(cookie[b])
  /\ \A q \in Requests : Mine(q, b) =>
       /\ OnItsWay(q) => Good(requests[q].token) /\ Good(cookie[b])
       /\ requests[q].pc = "answered" =>
            /\ requests[q].sets = {} => Good(cookie[b])
            /\ \A t \in requests[q].sets : Good(t)

Quiet == \A b \in Browsers \ disturbed : QuietAt(b)

IInv == Shape /\ Permits /\ Owned /\ OneLivePerFamily /\ Quiet /\ ~wronged

-----------------------------------------------------------------------------
(* The tables.                                                             *)

LEMMA Tables ==
  ASSUME Shape
  PROVE  /\ Len(tokens) \in Nat /\ DOMAIN tokens = 1..Len(tokens)
         /\ \A t \in DOMAIN tokens :
              /\ tokens[t] \in [family : DOMAIN ticket, revoked : BOOLEAN]
              /\ tokens[t].family \in DOMAIN ticket
              /\ ticket[tokens[t].family] \in DOMAIN states
         /\ Len(ticket) \in Nat /\ DOMAIN ticket = 1..Len(ticket)
         /\ \A f \in DOMAIN ticket : ticket[f] \in DOMAIN states
         /\ Len(states) \in Nat /\ DOMAIN states = 1..Len(states)
         /\ \A n \in DOMAIN states :
              states[n] \in State /\ states[n].browser \in Browsers /\ states[n].usable \in BOOLEAN
         /\ expired \in Nat /\ expired <= Len(tokens)
<1>1. TypeOK
  BY DEF Shape
<1>2. /\ tokens \in Seq([family : DOMAIN ticket, revoked : BOOLEAN])
      /\ ticket \in Seq(DOMAIN states) /\ states \in Seq(State) /\ expired \in 0..Len(tokens)
  BY <1>1 DEF TypeOK
<1>3. /\ Len(tokens) \in Nat /\ DOMAIN tokens = 1..Len(tokens)
      /\ Len(ticket) \in Nat /\ DOMAIN ticket = 1..Len(ticket)
      /\ Len(states) \in Nat /\ DOMAIN states = 1..Len(states)
      /\ expired \in Nat /\ expired <= Len(tokens)
  BY <1>2
<1>4. /\ \A t \in DOMAIN tokens : tokens[t] \in [family : DOMAIN ticket, revoked : BOOLEAN]
      /\ \A f \in DOMAIN ticket : ticket[f] \in DOMAIN states
      /\ \A n \in DOMAIN states : states[n] \in State
  BY <1>2, <1>3, ElementOfSeq
<1>5. /\ \A t \in DOMAIN tokens : tokens[t].family \in DOMAIN ticket
      /\ \A n \in DOMAIN states : states[n].browser \in Browsers /\ states[n].usable \in BOOLEAN
  BY <1>4 DEF State
<1>6. QED
  BY <1>3, <1>4, <1>5

LEMMA RequestCases ==
  ASSUME Shape, NEW q \in Requests
  PROVE  \/ requests[q] = Idle /\ requests[q].pc = "idle"
         \/ /\ OnItsWay(q) /\ requests[q] \in Request
            /\ requests[q].browser \in Browsers /\ requests[q].token \in 0..Len(tokens)
         \/ /\ requests[q].pc = "answered" /\ requests[q] \in Reply
            /\ requests[q].browser \in Browsers /\ requests[q].sets \subseteq 0..Len(tokens)
<1>1. Idle.pc = "idle"
  BY DEF Idle
<1>2. RequestOK(requests[q], tokens, states) /\ Len(tokens) \in Nat
  BY Tables DEF Shape
<1>3. \A r \in Request : r.pc \in {"sent", "consumed"} /\ r.browser \in Browsers /\ r.token \in Nat
  BY DEF Request
<1>4. \A r \in Reply : r.pc = "answered" /\ r.browser \in Browsers
  BY DEF Reply
<1>5. QED
  BY <1>1, <1>2, <1>3, <1>4 DEF RequestOK, OnItsWay

\* Revoking keeps the table's length and families.
LEMMA RevokedTable ==
  ASSUME Shape, NEW S
  PROVE  /\ Revoked(S) \in Seq([family : DOMAIN ticket, revoked : BOOLEAN])
         /\ Len(Revoked(S)) = Len(tokens) /\ DOMAIN Revoked(S) = DOMAIN tokens
         /\ \A t \in DOMAIN tokens :
              /\ Revoked(S)[t].family = tokens[t].family
              /\ t \in S => Revoked(S)[t].revoked
              /\ t \notin S => Revoked(S)[t] = tokens[t]
<1> DEFINE row(t) == IF t \in S THEN [tokens[t] EXCEPT !.revoked = TRUE] ELSE tokens[t]
<1>1. Len(tokens) \in Nat /\ DOMAIN tokens = 1..Len(tokens)
      /\ \A t \in DOMAIN tokens : tokens[t] \in [family : DOMAIN ticket, revoked : BOOLEAN]
  BY Tables
<1>2. \A t \in DOMAIN tokens : /\ row(t) \in [family : DOMAIN ticket, revoked : BOOLEAN]
                               /\ row(t).family = tokens[t].family
                               /\ t \in S => row(t).revoked
                               /\ t \notin S => row(t) = tokens[t]
  BY <1>1
<1>3. Revoked(S) = [t \in 1..Len(tokens) |-> row(t)]
  BY <1>1 DEF Revoked
<1> HIDE DEF row
<1>4. Revoked(S) \in Seq([family : DOMAIN ticket, revoked : BOOLEAN]) /\ Len(Revoked(S)) = Len(tokens)
  BY <1>1, <1>2, <1>3
<1>5. DOMAIN Revoked(S) = DOMAIN tokens /\ \A t \in DOMAIN tokens : Revoked(S)[t] = row(t)
  BY <1>1, <1>3
<1>6. QED
  BY <1>2, <1>4, <1>5

\* Adding a token after revoking some.
LEMMA AppendedTable ==
  ASSUME Shape, NEW S, DOMAIN ticket \subseteq DOMAIN ticket', NEW f \in DOMAIN ticket',
         tokens' = Append(Revoked(S), [family |-> f, revoked |-> FALSE]),
         NEW N, N = Len(tokens) + 1
  PROVE  /\ tokens' \in Seq([family : DOMAIN ticket', revoked : BOOLEAN])
         /\ Len(tokens') = N /\ DOMAIN tokens' = 1..N
         /\ tokens'[N].family = f /\ ~tokens'[N].revoked
         /\ \A t \in DOMAIN tokens :
              /\ tokens'[t].family = tokens[t].family
              /\ t \in S => tokens'[t].revoked
              /\ t \notin S => tokens'[t] = tokens[t]
<1> DEFINE new == [family |-> f, revoked |-> FALSE]
           Rows == [family : DOMAIN ticket', revoked : BOOLEAN]
<1>1. new \in Rows /\ new.family = f /\ ~new.revoked
  OBVIOUS
<1>2. [family : DOMAIN ticket, revoked : BOOLEAN] \subseteq Rows
  OBVIOUS
<1>3. Revoked(S) \in Seq(Rows) /\ Len(Revoked(S)) = Len(tokens) /\ DOMAIN tokens = 1..Len(tokens)
      /\ Len(tokens) \in Nat
  <2> DEFINE OldRows == [family : DOMAIN ticket, revoked : BOOLEAN]
  <2>1. Revoked(S) \in Seq(OldRows) /\ Len(Revoked(S)) = Len(tokens)
    BY RevokedTable
  <2>2. OldRows \subseteq Rows
    BY <1>2
  <2> HIDE DEF OldRows, Rows
  <2>3. Revoked(S) \in Seq(Rows)
    BY <2>1, <2>2, SeqMonotonic
  <2>4. QED
    BY <2>1, <2>3, Tables
<1> HIDE DEF new, Rows
<1>4. tokens' \in Seq(Rows) /\ Len(tokens') = N /\ tokens'[N] = new
      /\ \A t \in 1..Len(tokens) : tokens'[t] = Revoked(S)[t]
  BY <1>1, <1>3 DEF new
<1>5. DOMAIN tokens' = 1..N
  BY <1>3, <1>4
<1>6. QED
  BY <1>1, <1>3, <1>4, <1>5, RevokedTable DEF Rows

\* What a step may do to the tables and to one request for them to keep their shape.
LEMMA ShapeStep ==
  ASSUME Shape,
         tokens' \in Seq([family : DOMAIN ticket', revoked : BOOLEAN]),
         Len(tokens) <= Len(tokens'), Len(tokens') <= MaxTokens,
         ticket' \in Seq(DOMAIN states'), expired' \in 0..Len(tokens'),
         states' \in Seq(State), Len(states) <= Len(states'), Len(states') <= MaxStates,
         \A n \in DOMAIN states : states'[n].browser = states[n].browser,
         cookie' \in [Browsers -> 0..Len(tokens')],
         requests' \in [Requests -> {Idle} \union Request \union Reply],
         \A q \in Requests :
           requests'[q] = requests[q] \/ RequestOK(requests'[q], tokens', states'),
         torn' \subseteq DOMAIN ticket', disturbed' \subseteq Browsers, wronged' \in BOOLEAN
  PROVE  Shape'
<1>1. Len(tokens') \in Nat /\ Len(states') \in Nat /\ DOMAIN states' = 1..Len(states')
  OBVIOUS
<1>2. DOMAIN states \subseteq DOMAIN states' /\ 0..Len(tokens) \subseteq 0..Len(tokens')
  BY <1>1, Tables
<1>3. ASSUME NEW q \in Requests PROVE RequestOK(requests'[q], tokens', states')
  <2>1. CASE requests'[q] = requests[q]
    <3>1. RequestOK(requests[q], tokens, states)
      BY DEF Shape
    <3>2. \A r \in Request : r.token \in Nat
      BY DEF Request
    <3>3. QED
      BY <1>1, <1>2, <2>1, <3>1, <3>2, Tables DEF RequestOK
  <2>2. QED
    BY <2>1
<1>4. \A q \in Requests :
        \/ requests'[q] = Idle
        \/ /\ requests'[q] \in Request /\ requests'[q].token <= Len(tokens')
           /\ requests'[q].kind = "callback" <=> requests'[q].state \in DOMAIN states'
        \/ requests'[q] \in Reply /\ requests'[q].sets \subseteq 0..Len(tokens')
  BY <1>1, <1>3 DEF RequestOK
<1>5. TypeOK'
  BY <1>4 DEF TypeOK
<1>6. QED
  BY <1>3, <1>5 DEF Shape
-----------------------------------------------------------------------------
(* What steps have in common.                                              *)

\* The tables grow, and of the old tokens only those of S are touched, to be revoked.
TablesKept(S) ==
  /\ \A t \in DOMAIN tokens :
       /\ t \in DOMAIN tokens' /\ tokens'[t].family = tokens[t].family
       /\ t \notin S => tokens'[t] = tokens[t]
  /\ \A f \in DOMAIN ticket : f \in DOMAIN ticket' /\ ticket'[f] = ticket[f]
  /\ \A n \in DOMAIN states : n \in DOMAIN states' /\ states'[n].browser = states[n].browser
  /\ expired' \in Nat /\ expired <= expired'

LEMMA OwnersKept ==
  ASSUME Shape, NEW S, TablesKept(S), NEW t \in 1..Len(tokens)
  PROVE  Owner(t)' = Owner(t)
BY Tables DEF TablesKept, Owner

LEMMA GoodKept ==
  ASSUME Shape, NEW S, TablesKept(S), NEW t \in 0..Len(tokens), t \notin S, Good(t)
  PROVE  Good(t)'
BY Tables DEF TablesKept, Good

LEMMA CarriedIssued ==
  ASSUME Shape, NEW b \in Browsers, NEW t, Carries(b, t)
  PROVE  t \in 0..Len(tokens)
<1>1. cookie[b] \in 0..Len(tokens)
  BY DEF Shape, TypeOK
<1>2. ASSUME NEW q \in Requests, Mine(q, b)
      PROVE  /\ OnItsWay(q) => requests[q].token \in 0..Len(tokens)
             /\ requests[q].pc = "answered" => requests[q].sets \subseteq 0..Len(tokens)
  BY <1>2, RequestCases DEF Mine, OnItsWay
<1>3. QED
  BY <1>1, <1>2 DEF Carries

\* A step that leaves a browser's requests and cookie and the tokens it carries
\* alone leaves it quiet.
LEMMA QuietElsewhere ==
  ASSUME Shape, NEW b \in Browsers, QuietAt(b), NEW S, TablesKept(S),
         \A t \in S : ~Carries(b, t), cookie'[b] = cookie[b],
         \A q \in Requests : requests'[q] = requests[q] \/ (~Mine(q, b) /\ ~Mine(q, b)')
  PROVE  QuietAt(b)'
<1>1. \A t : Carries(b, t) /\ Good(t) => Good(t)'
  BY CarriedIssued, GoodKept
<1>2. \A q \in Requests :
        /\ Mine(q, b)' <=> Mine(q, b)
        /\ Mine(q, b) => requests'[q] = requests[q] /\ (OnItsWay(q)' <=> OnItsWay(q))
  BY DEF Mine, OnItsWay
<1>3. Good(cookie[b]) => Good(cookie[b])'
  <2> DEFINE t == cookie[b]
  <2>1. Carries(b, t) /\ t = cookie'[b]
    BY DEF Carries
  <2>2. Good(t) => \E u : u = cookie'[b] /\ Good(u)'
    BY <1>1, <2>1
  <2>3. QED
    BY <2>2 DEF Good
<1>4. ASSUME NEW q \in Requests, Mine(q, b)'
      PROVE  /\ OnItsWay(q)' => Good(requests[q].token)' /\ Good(cookie[b])'
             /\ requests'[q].pc = "answered" =>
                  /\ requests'[q].sets = {} => Good(cookie[b])'
                  /\ \A t \in requests'[q].sets : Good(t)'
  <2>1. Mine(q, b) /\ requests'[q] = requests[q] /\ (OnItsWay(q)' <=> OnItsWay(q))
    BY <1>2, <1>4
  <2>2. OnItsWay(q) => Good(requests[q].token)'
    <3>1. OnItsWay(q) => Good(requests[q].token) /\ Carries(b, requests[q].token)
      BY <2>1 DEF QuietAt, Carries
    <3>2. OnItsWay(q) => \E u : u = requests'[q].token /\ Good(u)'
      BY <1>1, <2>1, <3>1
    <3>3. QED
      BY <3>2 DEF Good
  <2>3. requests[q].pc = "answered" => \A t \in requests[q].sets : Good(t)'
    BY <1>1, <2>1 DEF QuietAt, Carries
  <2>4. QED
    BY <1>3, <2>1, <2>2, <2>3 DEF QuietAt
<1>5. QED
  BY <1>2, <1>3, <1>4 DEF QuietAt

\* What a browser carries after a step it carried before, or it is issued to it.
LEMMA OwnedStep ==
  ASSUME Shape, Owned, NEW S, TablesKept(S),
         \A b \in Browsers : \A t : Carries(b, t)' /\ t # 0 => Carries(b, t) \/ Owner(t)' = b
  PROVE  Owned'
<1> SUFFICES ASSUME NEW b \in Browsers, NEW t \in 1..Len(tokens'), Carries(b, t)', t # 0
             PROVE  Owner(t)' = b
  BY DEF Owned
<1>1. CASE Carries(b, t)
  <2>1. t \in 1..Len(tokens) /\ Owner(t) = b
    BY <1>1, CarriedIssued, Tables DEF Owned
  <2>2. QED
    BY <2>1, OwnersKept
<1>2. QED
  BY <1>1

\* A handler of browser c's request q: it goes on or answers, and revokes tokens
\* of c only, unless it disturbs every other browser.
LEMMA HandlerKeeps ==
  ASSUME IInv, NEW q \in Requests, OnItsWay(q), NEW c, c = requests[q].browser,
         NEW S, TablesKept(S), cookie' = cookie, disturbed \subseteq disturbed',
         \A r \in Requests : r # q => requests'[r] = requests[r],
         requests'[q].browser = c,
         \/ (\A t \in S : t \in 1..Len(tokens) => Owner(t) = c) /\ 0 \notin S
         \/ Browsers \ {c} \subseteq disturbed',
         \/ requests'[q].pc = "consumed" /\ requests'[q].token = requests[q].token /\ S = {}
         \/ /\ requests'[q].pc = "answered"
            /\ requests'[q].sets = {} => S = {}
            /\ \A t \in requests'[q].sets : t = 0 \/ (Owner(t)' = c /\ Good(t)')
  PROVE  Owned' /\ Quiet'
<1>1. Shape /\ Owned /\ Quiet
  BY DEF IInv
<1>2. Mine(q, c) /\ c \in Browsers
  BY <1>1, RequestCases DEF Mine, OnItsWay
<1>3. Mine(q, c)' /\ \A b : b # c => ~Mine(q, b) /\ ~Mine(q, b)'
  BY DEF Mine
<1>5. Owned'
  <2>1. ASSUME NEW b \in Browsers, NEW t, Carries(b, t)', t # 0
        PROVE  Carries(b, t) \/ Owner(t)' = b
    <3>1. CASE t = cookie'[b]
      BY <3>1 DEF Carries
    <3>2. CASE \E r \in Requests : r # q /\ Mine(r, b)' /\ OnItsWay(r)' /\ t = requests'[r].token
      <4>1. PICK r \in Requests : r # q /\ Mine(r, b)' /\ OnItsWay(r)' /\ t = requests'[r].token
        BY <3>2
      <4>2. Mine(r, b) /\ OnItsWay(r) /\ t = requests[r].token
        BY <4>1 DEF Mine, OnItsWay
      <4>3. QED
        BY <4>2 DEF Carries
    <3>3. CASE \E r \in Requests : r # q /\ Mine(r, b)' /\ requests'[r].pc = "answered" /\ t \in requests'[r].sets
      <4>1. PICK r \in Requests : r # q /\ Mine(r, b)' /\ requests'[r].pc = "answered" /\ t \in requests'[r].sets
        BY <3>3
      <4>2. Mine(r, b) /\ requests[r].pc = "answered" /\ t \in requests[r].sets
        BY <4>1 DEF Mine
      <4>3. QED
        BY <4>2 DEF Carries
    <3>4. CASE Mine(q, b)' /\ OnItsWay(q)' /\ t = requests'[q].token
      <4>1. b = c /\ t = requests[q].token
        BY <1>3, <3>4 DEF OnItsWay
      <4>2. QED
        BY <1>2, <4>1 DEF Carries
    <3>5. CASE Mine(q, b)' /\ requests'[q].pc = "answered" /\ t \in requests'[q].sets
      BY <1>3, <2>1, <3>5
    <3>6. QED
      BY <2>1, <3>1, <3>2, <3>3, <3>4, <3>5 DEF Carries
  <2>2. QED
    BY <1>1, <2>1, OwnedStep
<1>6. ASSUME NEW b \in Browsers \ disturbed', b # c PROVE QuietAt(b)'
  <2>1. \A t \in S : ~Carries(b, t)
    <3> SUFFICES ASSUME NEW t \in S, Carries(b, t) PROVE FALSE
      OBVIOUS
    <3>1. t \in 1..Len(tokens) => Owner(t) = b
      BY <1>1, <1>6, Tables DEF Owned
    <3>2. t \in 0..Len(tokens) /\ Len(tokens) \in Nat
      BY <1>1, <1>6, CarriedIssued, Tables
    <3>3. QED
      BY <1>6, <3>1, <3>2
  <2>2. QuietAt(b)
    BY <1>1, <1>6 DEF Quiet
  <2>3. \A r \in Requests : requests'[r] = requests[r] \/ (~Mine(r, b) /\ ~Mine(r, b)')
    BY <1>3, <1>6
  <2>4. QED
    BY <1>1, <1>6, <2>1, <2>2, <2>3, QuietElsewhere
<1>7. ASSUME c \notin disturbed' PROVE QuietAt(c)'
  <2>1. QuietAt(c)
    BY <1>1, <1>2, <1>7 DEF Quiet
  <2>2. \A r \in Requests : Mine(r, c) => r = q
    BY <1>2, <2>1 DEF QuietAt
  <2>3. \A r \in Requests : Mine(r, c)' => r = q
    BY <2>2 DEF Mine
  <2>4. Good(cookie[c]) /\ Good(requests[q].token)
    BY <1>2, <2>1 DEF QuietAt
  <2>5. S = {} => Good(cookie[c])' /\ \A t : t = requests[q].token => Good(t)'
    <3>1. Carries(c, cookie[c]) /\ Carries(c, requests[q].token)
      BY <1>2 DEF Carries
    <3>2. cookie[c] \in 0..Len(tokens) /\ requests[q].token \in 0..Len(tokens)
      BY <1>1, <1>2, <3>1, CarriedIssued
    <3>3. ASSUME NEW t \in 0..Len(tokens), S = {}, Good(t) PROVE Good(t)'
      BY <1>1, <3>3, GoodKept
    <3>4. \A t : S = {} /\ Good(t) /\ t \in 0..Len(tokens) => Good(t)'
      BY <3>3
    <3>5. S = {} => \A t : t \in {cookie[c], requests[q].token} => Good(t)'
      BY <2>4, <3>2, <3>4
    <3>6. cookie'[c] = cookie[c]
      OBVIOUS
    <3>7. QED
      BY <3>5, <3>6 DEF Good
  <2>6. \A t \in requests'[q].sets : t = 0 => Good(t)'
    BY DEF Good
  <2>7. CASE requests'[q].pc = "consumed"
    BY <1>3, <2>3, <2>5, <2>7 DEF QuietAt, OnItsWay, Good
  <2>8. CASE requests'[q].pc = "answered"
    BY <1>3, <2>3, <2>5, <2>6, <2>8 DEF QuietAt, OnItsWay, Good
  <2>9. QED
    BY <2>7, <2>8
<1>8. QED
  BY <1>5, <1>6, <1>7 DEF Quiet

LEMMA PermitsKept ==
  ASSUME Shape, Permits, ticket' = ticket,
         \A n \in DOMAIN states : states'[n].usable => states[n].usable,
         \A q \in Requests : requests'[q] = requests[q] \/ requests'[q].pc # "consumed"
  PROVE  Permits'
<1>1. \A f \in DOMAIN ticket : ~states'[ticket[f]].usable
  BY Tables DEF Permits
<1>2. ASSUME NEW q \in Requests, requests'[q].pc = "consumed"
      PROVE  /\ requests'[q] = requests[q] /\ ~states'[requests[q].state].usable
             /\ \A f \in DOMAIN ticket : ticket[f] # requests[q].state
             /\ \A r \in Requests :
                  requests'[r].pc = "consumed" /\ requests'[r].state = requests[q].state => q = r
  <2>1. requests'[q] = requests[q] /\ requests[q].pc = "consumed"
    BY <1>2
  <2>2. requests[q].state \in DOMAIN states
    <3>1. RequestOK(requests[q], tokens, states)
      BY DEF Shape
    <3>2. QED
      BY <2>1, <3>1 DEF RequestOK, Idle, Reply
  <2>3. QED
    BY <2>1, <2>2 DEF Permits
<1>3. QED
  BY <1>1, <1>2 DEF Permits

\* No token of a family becomes active beside another by revoking or expiring.
LEMMA OneLiveKept ==
  ASSUME Shape, OneLivePerFamily, DOMAIN tokens' = DOMAIN tokens, expired' \in Nat, expired <= expired',
         \A t \in DOMAIN tokens : /\ tokens'[t].family = tokens[t].family
                                  /\ tokens[t].revoked => tokens'[t].revoked,
         torn \subseteq torn'
  PROVE  OneLivePerFamily'
<1>1. DOMAIN tokens \subseteq Nat /\ expired \in Nat
  BY Tables
<1>2. ASSUME NEW t \in DOMAIN tokens, Live(t)' PROVE Live(t)
  <2>1. t > expired
    BY <1>1, <1>2 DEF Live
  <2>2. QED
    BY <1>2, <2>1 DEF Live
<1>3. SUFFICES ASSUME NEW t \in DOMAIN tokens, NEW u \in DOMAIN tokens,
                      Live(t)', Live(u)', tokens'[t].family = tokens'[u].family
               PROVE  t = u \/ tokens'[t].family \in torn'
  BY DEF OneLivePerFamily
<1>4. QED
  BY <1>2, <1>3 DEF OneLivePerFamily

LEMMA AnsweredRequest ==
  ASSUME Shape, NEW q \in Requests, OnItsWay(q), NEW sets, Answered(q, sets), sets \subseteq 0..MaxTokens
  PROVE  /\ requests' \in [Requests -> {Idle} \union Request \union Reply]
         /\ requests'[q] \in Reply /\ requests'[q].pc = "answered"
         /\ requests'[q].browser = requests[q].browser /\ requests'[q].sets = sets
         /\ \A r \in Requests : r # q => requests'[r] = requests[r]
<1> DEFINE reply == [pc |-> "answered", browser |-> requests[q].browser, sets |-> sets]
<1>1. reply \in Reply
  BY RequestCases DEF Reply, OnItsWay
<1>2. /\ reply.pc = "answered" /\ reply.browser = requests[q].browser /\ reply.sets = sets
  OBVIOUS
<1>3. requests' = [requests EXCEPT ![q] = reply]
  BY DEF Answered
<1>4. requests \in [Requests -> {Idle} \union Request \union Reply]
  BY DEF Shape
<1> HIDE DEF reply
<1>5. QED
  BY <1>1, <1>2, <1>3, <1>4
-----------------------------------------------------------------------------
(* The handlers.                                                           *)

LEMMA RevokeNothing == Shape => Revoked({}) = tokens
<1> SUFFICES ASSUME Shape PROVE Revoked({}) = tokens
  OBVIOUS
<1>1. tokens = [t \in DOMAIN tokens |-> tokens[t]]
  BY DEF Shape, TypeOK
<1>2. QED
  BY <1>1 DEF Revoked

\* A handler that revokes some tokens and answers.
LEMMA RevokingKeeps ==
  ASSUME IInv, NEW q \in Requests, OnItsWay(q), NEW S, NEW sets, sets \in {{}, {0}},
         Answered(q, sets), tokens' = Revoked(S),
         UNCHANGED <<ticket, expired, states, cookie, torn>>, wronged' \in BOOLEAN,
         disturbed \subseteq disturbed', disturbed' \subseteq Browsers,
         \/ \A t \in S : t \in DOMAIN tokens => Owner(t) = requests[q].browser
         \/ Browsers \ {requests[q].browser} \subseteq disturbed',
         sets = {} => S = {}
  PROVE  Shape' /\ Permits' /\ Owned' /\ OneLivePerFamily' /\ Quiet'
<1>1. Shape /\ Permits /\ Owned /\ OneLivePerFamily /\ Quiet
  BY DEF IInv
<1>2. /\ Revoked(S) \in Seq([family : DOMAIN ticket, revoked : BOOLEAN])
      /\ Len(tokens') = Len(tokens) /\ DOMAIN tokens' = DOMAIN tokens
      /\ \A t \in DOMAIN tokens : /\ tokens'[t].family = tokens[t].family
                                  /\ t \in S => tokens'[t].revoked
                                  /\ t \notin S => tokens'[t] = tokens[t]
  BY <1>1, RevokedTable
<1>3. sets \subseteq 0..MaxTokens /\ sets \subseteq 0..Len(tokens) /\ Len(tokens) \in Nat
  BY <1>1, Tables, SessionAssumption
<1>4. /\ requests' \in [Requests -> {Idle} \union Request \union Reply]
      /\ requests'[q] \in Reply /\ requests'[q].pc = "answered"
      /\ requests'[q].browser = requests[q].browser /\ requests'[q].sets = sets
      /\ \A r \in Requests : r # q => requests'[r] = requests[r]
  BY <1>1, <1>3, AnsweredRequest
<1>5. Shape'
  <2>1. RequestOK(requests'[q], tokens', states')
    BY <1>2, <1>3, <1>4 DEF RequestOK
  <2>2. TypeOK
    BY <1>1 DEF Shape
  <2>3. /\ ticket \in Seq(DOMAIN states) /\ states \in Seq(State) /\ Len(states) <= MaxStates
        /\ expired \in 0..Len(tokens) /\ cookie \in [Browsers -> 0..Len(tokens)]
        /\ torn \subseteq DOMAIN ticket /\ Len(tokens) <= MaxTokens
    BY <2>2 DEF TypeOK
  <2>4. Len(states) \in Nat
    BY <1>1, Tables
  <2>5. QED
    BY <1>1, <1>2, <1>3, <1>4, <2>1, <2>3, <2>4, ShapeStep
<1>6. Permits'
  BY <1>1, <1>4, PermitsKept
<1>7. OneLivePerFamily'
  <2>1. \A t \in DOMAIN tokens : tokens[t].revoked => tokens'[t].revoked
    BY <1>2
  <2>2. expired \in Nat
    BY <1>1, Tables
  <2>3. QED
    BY <1>1, <1>2, <2>1, <2>2, OneLiveKept
<1>8. Owned' /\ Quiet'
  <2> DEFINE R == S \intersect DOMAIN tokens
  <2>1. TablesKept(R)
    BY <1>1, <1>2, Tables DEF TablesKept
  <2>2. R \subseteq 1..Len(tokens) /\ 0 \notin R
    BY <1>1, Tables
  <2>3. \/ \A t \in R : t \in 1..Len(tokens) => Owner(t) = requests[q].browser
        \/ Browsers \ {requests[q].browser} \subseteq disturbed'
    BY <2>2
  <2>4. sets = {} => R = {}
    OBVIOUS
  <2>5. \A t \in requests'[q].sets : t = 0
    BY <1>4
  <2> HIDE DEF R
  <2>6. QED
    BY <1>4, <2>1, <2>2, <2>3, <2>4, <2>5, HandlerKeeps
<1>9. QED
  BY <1>5, <1>6, <1>7, <1>8

LEMMA LoginFailsKeeps ==
  ASSUME IInv, NEW q \in Requests, LoginFails(q)
  PROVE  IInv'
<1>1. OnItsWay(q) /\ Answered(q, {}) /\ tokens' = Revoked({})
  BY RevokeNothing DEF LoginFails, OnItsWay, IInv, tokenVars
<1>2. UNCHANGED <<ticket, expired, states, cookie, torn, disturbed, wronged>>
  BY DEF LoginFails, tokenVars, historyVars
<1>3. disturbed \subseteq Browsers /\ ~wronged
  BY DEF IInv, Shape, TypeOK
<1>4. wronged' = FALSE /\ disturbed' \subseteq Browsers
  BY <1>2, <1>3
<1>5. Shape' /\ Permits' /\ Owned' /\ OneLivePerFamily' /\ Quiet'
  BY <1>1, <1>2, <1>3, <1>4, RevokingKeeps
<1>6. QED
  BY <1>4, <1>5 DEF IInv

LEMMA RefuseExpiredKeeps ==
  ASSUME IInv, NEW q \in Requests, RefuseExpired(q)
  PROVE  IInv'
<1>1. OnItsWay(q) /\ Answered(q, {}) /\ tokens' = Revoked({})
  BY RevokeNothing DEF RefuseExpired, Handles, OnItsWay, IInv, tokenVars
<1>2. UNCHANGED <<ticket, expired, states, cookie, torn, disturbed, wronged>>
  BY DEF RefuseExpired, tokenVars, historyVars
<1>3. disturbed \subseteq Browsers /\ ~wronged
  BY DEF IInv, Shape, TypeOK
<1>4. wronged' = FALSE /\ disturbed' \subseteq Browsers
  BY <1>2, <1>3
<1>5. Shape' /\ Permits' /\ Owned' /\ OneLivePerFamily' /\ Quiet'
  BY <1>1, <1>2, <1>3, <1>4, RevokingKeeps
<1>6. QED
  BY <1>4, <1>5 DEF IInv

\* The token a request carries was issued to its browser, and is no reuse unless
\* the browser is disturbed.
LEMMA CarriedToken ==
  ASSUME IInv, NEW q \in Requests, OnItsWay(q)
  PROVE  LET t == requests[q].token IN
         /\ t \in 0..Len(tokens)
         /\ t # 0 => t \in DOMAIN tokens /\ Owner(t) = requests[q].browser
         /\ requests[q].browser \notin disturbed => Good(t)
<1> DEFINE t == requests[q].token
           b == requests[q].browser
<1>1. Shape /\ Owned /\ Quiet
  BY DEF IInv
<1>2. b \in Browsers /\ t \in 0..Len(tokens) /\ Mine(q, b)
  BY <1>1, RequestCases DEF Mine, OnItsWay
<1>3. Carries(b, t)
  BY <1>2 DEF Carries
<1>4. t # 0 => t \in DOMAIN tokens /\ Owner(t) = b
  BY <1>1, <1>2, <1>3, Tables DEF Owned
<1>5. b \notin disturbed => Good(t)
  BY <1>1, <1>2 DEF Quiet, QuietAt
<1>6. QED
  BY <1>2, <1>4, <1>5

LEMMA DetectReuseKeeps ==
  ASSUME IInv, NEW q \in Requests, DetectReuse(q)
  PROVE  IInv'
<1> DEFINE t == requests[q].token
           b == requests[q].browser
<1>1. /\ OnItsWay(q) /\ t > expired /\ tokens[t].revoked
      /\ tokens' = Revoked(FamilyOf(t)) /\ Answered(q, {0})
      /\ wronged' = (wronged \/ b \notin disturbed)
      /\ UNCHANGED <<ticket, expired, states, cookie, torn, disturbed>>
  BY DEF DetectReuse, Handles, OnItsWay
<1>2. Shape /\ expired \in Nat /\ Len(tokens) \in Nat
  BY Tables DEF IInv
<1>3. t \in 0..Len(tokens) /\ t # 0
  BY <1>1, <1>2, CarriedToken
<1>4. t \in DOMAIN tokens /\ Owner(t) = b /\ (b \notin disturbed => Good(t))
  BY <1>1, <1>3, CarriedToken
<1>5. b \in disturbed
  BY <1>1, <1>2, <1>3, <1>4 DEF Good
<1>6. \A u \in FamilyOf(t) : u \in DOMAIN tokens => Owner(u) = b
  BY <1>4 DEF FamilyOf, Owner
<1>7. wronged' = FALSE /\ disturbed' \subseteq Browsers
  BY <1>1, <1>5 DEF IInv, Shape, TypeOK
<1> HIDE DEF t, b
<1>8. Shape' /\ Permits' /\ Owned' /\ OneLivePerFamily' /\ Quiet'
  BY <1>1, <1>6, <1>7, RevokingKeeps DEF t, b
<1>9. QED
  BY <1>7, <1>8 DEF IInv

LEMMA LogoutKeeps ==
  ASSUME IInv, NEW q \in Requests, Logout(q)
  PROVE  IInv'
<1> DEFINE S == {requests[q].token} \ (1..expired)
<1>1. OnItsWay(q) /\ Answered(q, {0}) /\ tokens' = Revoked(S)
  BY DEF Logout, Handles, OnItsWay
<1>2. UNCHANGED <<ticket, expired, states, cookie, torn, disturbed, wronged>>
  BY DEF Logout, historyVars
<1>3. disturbed \subseteq Browsers /\ ~wronged /\ DOMAIN tokens = 1..Len(tokens) /\ Len(tokens) \in Nat
  BY Tables DEF IInv, Shape, TypeOK
<1>4. \A t \in S : t \in DOMAIN tokens => Owner(t) = requests[q].browser
  BY <1>1, <1>3, CarriedToken
<1> HIDE DEF S
<1>5. wronged' = FALSE /\ disturbed' \subseteq Browsers
  BY <1>2, <1>3
<1>6. Shape' /\ Permits' /\ Owned' /\ OneLivePerFamily' /\ Quiet'
  BY <1>1, <1>2, <1>3, <1>4, <1>5, RevokingKeeps
<1>7. QED
  BY <1>5, <1>6 DEF IInv

LEMMA RevokeAllKeeps ==
  ASSUME IInv, NEW q \in Requests, RevokeAll(q)
  PROVE  IInv'
<1>1. OnItsWay(q) /\ Answered(q, {0}) /\ tokens' = Revoked(DOMAIN tokens)
  BY DEF RevokeAll, Handles, OnItsWay
<1>2. /\ UNCHANGED <<ticket, expired, states, cookie, torn, wronged>>
      /\ disturbed' = disturbed \union (Browsers \ {requests[q].browser})
  BY DEF RevokeAll
<1>3. disturbed \subseteq Browsers /\ ~wronged
  BY DEF IInv, Shape, TypeOK
<1>4. wronged' = FALSE /\ disturbed' \subseteq Browsers
  BY <1>2, <1>3
<1>5. Shape' /\ Permits' /\ Owned' /\ OneLivePerFamily' /\ Quiet'
  BY <1>1, <1>2, <1>3, <1>4, RevokingKeeps
<1>6. QED
  BY <1>4, <1>5 DEF IInv
LEMMA ConsumeKeeps ==
  ASSUME IInv, NEW q \in Requests, Consume(q)
  PROVE  IInv'
<1> DEFINE n == requests[q].state
           c == requests[q].browser
           passed == [requests[q] EXCEPT !.pc = "consumed"]
<1>1. /\ Shape /\ Permits /\ Owned /\ OneLivePerFamily /\ Quiet /\ ~wronged
      /\ requests[q].pc = "sent" /\ requests[q].kind = "callback" /\ OnItsWay(q)
      /\ UNCHANGED <<cookie, tokens, ticket, expired, torn, disturbed, wronged>>
  BY DEF IInv, Consume, Handles, OnItsWay, tokenVars, historyVars
<1>2. CASE ~states[n].usable
  <2>1. Answered(q, {}) /\ tokens' = Revoked({}) /\ UNCHANGED <<ticket, expired, states, cookie, torn, disturbed>>
    BY <1>1, <1>2, RevokeNothing DEF Consume
  <2>2. wronged' = FALSE /\ disturbed' \subseteq Browsers
    BY <1>1 DEF Shape, TypeOK
  <2>3. Shape' /\ Permits' /\ Owned' /\ OneLivePerFamily' /\ Quiet'
    BY <1>1, <2>1, <2>2, RevokingKeeps
  <2>4. QED
    BY <2>2, <2>3 DEF IInv
<1>3. CASE states[n].usable
  <2>1. /\ states' = [states EXCEPT ![n].usable = FALSE]
        /\ requests' = [requests EXCEPT ![q].pc = "consumed"]
    BY <1>3 DEF Consume
  <2>2. /\ requests[q] \in Request /\ n \in DOMAIN states /\ c = states[n].browser
        /\ requests[q].token \in 0..Len(tokens)
    <3>1. RequestOK(requests[q], tokens, states)
      BY <1>1 DEF Shape
    <3>2. requests[q] \in Request /\ requests[q].token \in 0..Len(tokens)
      BY <1>1, RequestCases DEF Reply, Idle
    <3>3. QED
      BY <1>1, <3>1, <3>2 DEF RequestOK, Reply, Idle
  <2>3. /\ passed \in Request /\ passed.pc = "consumed" /\ passed.kind = "callback"
        /\ passed.browser = c /\ passed.token = requests[q].token /\ passed.state = n
    BY <1>1, <2>2 DEF Request
  <2>4. /\ requests \in [Requests -> {Idle} \union Request \union Reply]
        /\ requests' = [requests EXCEPT ![q] = passed]
    BY <1>1, <2>1 DEF Shape
  <2> HIDE DEF passed
  <2>5. /\ requests' \in [Requests -> {Idle} \union Request \union Reply]
        /\ requests'[q] = passed /\ \A r \in Requests : r # q => requests'[r] = requests[r]
    BY <2>3, <2>4
  <2>6. /\ states' \in Seq(State) /\ Len(states') = Len(states) /\ DOMAIN states' = DOMAIN states
        /\ \A m \in DOMAIN states : states'[m].browser = states[m].browser
        /\ \A m \in DOMAIN states : states'[m].usable => states[m].usable /\ m # n
    <3> DEFINE used == [states[n] EXCEPT !.usable = FALSE]
    <3>1. used \in State /\ used.browser = states[n].browser /\ ~used.usable
      BY <1>1, <2>2, Tables DEF State
    <3>2. states \in Seq(State) /\ DOMAIN states = 1..Len(states) /\ Len(states) \in Nat
      BY <1>1, Tables DEF Shape, TypeOK
    <3>3. states' = [states EXCEPT ![n] = used]
      BY <2>1
    <3> HIDE DEF used
    <3>4. states' \in Seq(State) /\ Len(states') = Len(states) /\ DOMAIN states' = DOMAIN states
      BY <2>2, <3>1, <3>2, <3>3
    <3>5. \A m \in DOMAIN states : states'[m] = IF m = n THEN used ELSE states[m]
      BY <3>2, <3>3
    <3>6. QED
      BY <3>1, <3>4, <3>5
  <2>7. Shape'
    <3>1. RequestOK(requests'[q], tokens', states')
      BY <1>1, <2>2, <2>3, <2>5, <2>6 DEF RequestOK
    <3>2. /\ tokens \in Seq([family : DOMAIN ticket, revoked : BOOLEAN]) /\ Len(tokens) <= MaxTokens
          /\ ticket \in Seq(DOMAIN states) /\ expired \in 0..Len(tokens) /\ Len(states) <= MaxStates
          /\ cookie \in [Browsers -> 0..Len(tokens)] /\ torn \subseteq DOMAIN ticket
          /\ disturbed \subseteq Browsers /\ wronged \in BOOLEAN
      BY <1>1 DEF Shape, TypeOK
    <3>3. Len(tokens) \in Nat /\ Len(states) \in Nat
      BY <1>1, Tables
    <3>4. QED
      BY <1>1, <2>5, <2>6, <3>1, <3>2, <3>3, ShapeStep
  <2>8. Permits'
    <3>1. \A f \in DOMAIN ticket : ticket[f] \in DOMAIN states /\ ticket[f] # n
      BY <1>1, <1>3, Tables DEF Permits
    <3>2. \A f \in DOMAIN ticket : ~states'[ticket[f]].usable
      BY <1>1, <2>6, <3>1 DEF Permits
    <3>3. ASSUME NEW r \in Requests, r # q, requests[r].pc = "consumed"
          PROVE  /\ requests[r].state \in DOMAIN states /\ requests[r].state # n
                 /\ ~states'[requests[r].state].usable
      <4>1. RequestOK(requests[r], tokens, states)
        BY <1>1 DEF Shape
      <4>2. requests[r].state \in DOMAIN states
        BY <3>3, <4>1 DEF RequestOK, Idle, Reply
      <4>3. ~states[requests[r].state].usable
        BY <1>1, <3>3 DEF Permits
      <4>4. QED
        BY <1>3, <2>6, <4>2, <4>3
    <3>4. ~states'[n].usable
      BY <2>2, <2>6
    <3>5. QED
      BY <1>1, <2>3, <2>5, <3>1, <3>2, <3>3, <3>4 DEF Permits
  <2>9. Owned' /\ Quiet'
    <3>1. TablesKept({})
      BY <1>1, <2>6, Tables DEF TablesKept
    <3>2. QED
      BY <1>1, <2>3, <2>5, <3>1, HandlerKeeps
  <2>10. OneLivePerFamily'
    <3>1. expired \in Nat
      BY <1>1, Tables
    <3>2. QED
      BY <1>1, <3>1, OneLiveKept
  <2>11. QED
    BY <1>1, <2>7, <2>8, <2>9, <2>10 DEF IInv
<1>4. QED
  BY <1>2, <1>3

\* A handler that issues a token of family f, in place of those of S.
LEMMA IssuingKeeps ==
  ASSUME IInv, NEW q \in Requests, OnItsWay(q), NEW S, NEW f \in DOMAIN ticket',
         Len(tokens) < MaxTokens, Answered(q, {Len(tokens')}),
         tokens' = Append(Revoked(S), [family |-> f, revoked |-> FALSE]),
         ticket' \in Seq(DOMAIN states), DOMAIN ticket \subseteq DOMAIN ticket',
         \A g \in DOMAIN ticket : ticket'[g] = ticket[g],
         UNCHANGED <<expired, states, cookie, torn, disturbed, wronged>>,
         states[ticket'[f]].browser = requests[q].browser,
         \A t \in S : t \in DOMAIN tokens /\ Owner(t) = requests[q].browser,
         \A t \in DOMAIN tokens : tokens[t].family = f /\ Live(t) => t \in S \/ f \in torn
  PROVE  Shape' /\ Owned' /\ OneLivePerFamily' /\ Quiet'
<1>0. PICK N, c : N = Len(tokens) + 1 /\ c = requests[q].browser
  OBVIOUS
<1>1. Shape /\ Owned /\ OneLivePerFamily /\ Quiet
  BY DEF IInv
<1>2. /\ Len(tokens) \in Nat /\ DOMAIN tokens = 1..Len(tokens) /\ DOMAIN tokens \subseteq Nat
      /\ expired \in Nat /\ expired <= Len(tokens) /\ Len(states) \in Nat /\ MaxTokens \in Nat
  BY <1>1, Tables, SessionAssumption
<1>3. /\ tokens' \in Seq([family : DOMAIN ticket', revoked : BOOLEAN])
      /\ Len(tokens') = N /\ DOMAIN tokens' = 1..N
      /\ tokens'[N].family = f /\ ~tokens'[N].revoked
      /\ \A t \in DOMAIN tokens : /\ tokens'[t].family = tokens[t].family
                                  /\ t \in S => tokens'[t].revoked
                                  /\ t \notin S => tokens'[t] = tokens[t]
  BY <1>0, <1>1, AppendedTable
<1>4. {N} \subseteq 0..MaxTokens /\ N \in Nat
  BY <1>0, <1>2
<1>5. /\ requests' \in [Requests -> {Idle} \union Request \union Reply]
      /\ requests'[q] \in Reply /\ requests'[q].pc = "answered"
      /\ requests'[q].browser = c /\ requests'[q].sets = {N}
      /\ \A r \in Requests : r # q => requests'[r] = requests[r]
  BY <1>0, <1>1, <1>3, <1>4, AnsweredRequest
<1>6. Shape'
  <2>1. RequestOK(requests'[q], tokens', states')
    BY <1>3, <1>4, <1>5 DEF RequestOK
  <2>2. /\ states \in Seq(State) /\ Len(states) <= MaxStates
        /\ cookie \in [Browsers -> 0..Len(tokens)] /\ torn \subseteq DOMAIN ticket
        /\ disturbed \subseteq Browsers /\ wronged \in BOOLEAN
    BY <1>1 DEF Shape, TypeOK
  <2>3. cookie' \in [Browsers -> 0..Len(tokens')] /\ expired' \in 0..Len(tokens')
    BY <1>0, <1>2, <1>3, <2>2
  <2>4. Len(tokens) <= Len(tokens') /\ Len(tokens') <= MaxTokens /\ torn' \subseteq DOMAIN ticket'
    BY <1>0, <1>2, <1>3, <2>2
  <2>5. /\ ticket' \in Seq(DOMAIN states') /\ states' \in Seq(State) /\ Len(states) <= Len(states')
        /\ Len(states') <= MaxStates /\ disturbed' \subseteq Browsers /\ wronged' \in BOOLEAN
        /\ \A n \in DOMAIN states : states'[n].browser = states[n].browser
    BY <1>2, <2>2
  <2>6. QED
    BY <1>1, <1>3, <1>5, <2>1, <2>3, <2>4, <2>5, ShapeStep
<1>7. Owner(N)' = c
  BY <1>0, <1>3 DEF Owner
<1>8. Owned' /\ Quiet'
  <2>1. TablesKept(S)
    BY <1>0, <1>1, <1>2, <1>3 DEF TablesKept
  <2>2. Good(N)' /\ 0 \notin S
    BY <1>0, <1>2, <1>3 DEF Good
  <2>3. \A t \in requests'[q].sets : Owner(t)' = c /\ Good(t)'
    BY <1>5, <1>7, <2>2
  <2>4. requests'[q].sets # {}
    BY <1>5
  <2>5. \A t \in S : t \in 1..Len(tokens) => Owner(t) = c
    BY <1>0
  <2>6. /\ cookie' = cookie /\ disturbed \subseteq disturbed' /\ requests'[q].browser = c
        /\ requests'[q].sets = {} => S = {}
        /\ \A t \in requests'[q].sets : t = 0 \/ (Owner(t)' = c /\ Good(t)')
    BY <1>5, <2>3, <2>4
  <2>7. QED
    BY <1>0, <1>5, <2>1, <2>2, <2>5, <2>6, HandlerKeeps
<1>9. OneLivePerFamily'
  <2>1. ASSUME NEW t \in DOMAIN tokens, Live(t)' PROVE Live(t) /\ t \notin S /\ tokens'[t] = tokens[t]
    BY <1>3, <2>1 DEF Live
  <2>2. SUFFICES ASSUME NEW t \in 1..N, NEW u \in 1..N, Live(t)', Live(u)',
                        tokens'[t].family = tokens'[u].family
                 PROVE  t = u \/ tokens'[t].family \in torn
    <3>1. DOMAIN tokens' = 1..N /\ torn' = torn
      BY <1>3
    <3>2. QED
      BY <3>1 DEF OneLivePerFamily
  <2>3. t \in DOMAIN tokens \/ t = N
    <3>1. t \in Nat /\ 1 <= t /\ t <= N
      BY <1>4
    <3>2. QED
      BY <1>0, <1>2, <3>1
  <2>4. u \in DOMAIN tokens \/ u = N
    <3>1. u \in Nat /\ 1 <= u /\ u <= N
      BY <1>4
    <3>2. QED
      BY <1>0, <1>2, <3>1
  <2>5. CASE t \in DOMAIN tokens /\ u \in DOMAIN tokens
    BY <1>1, <2>1, <2>2, <2>5 DEF OneLivePerFamily
  <2>6. CASE t \in DOMAIN tokens /\ u = N
    BY <1>3, <2>1, <2>2, <2>6
  <2>7. CASE u \in DOMAIN tokens /\ t = N
    BY <1>3, <2>1, <2>2, <2>7
  <2>8. QED
    BY <2>3, <2>4, <2>5, <2>6, <2>7
<1>10. QED
  BY <1>6, <1>8, <1>9
LEMMA RotateKeeps ==
  ASSUME IInv, NEW q \in Requests, Rotate(q)
  PROVE  IInv'
<1>0. PICK t : t = requests[q].token
  OBVIOUS
<1>1. /\ OnItsWay(q) /\ Live(t) /\ Len(tokens) < MaxTokens /\ Answered(q, {Len(tokens')})
      /\ tokens' = Append(Revoked({t}), [family |-> tokens[t].family, revoked |-> FALSE])
      /\ UNCHANGED <<ticket, expired, states, cookie, torn, disturbed, wronged>>
  BY <1>0 DEF Rotate, Handles, OnItsWay, historyVars
<1>2. Shape /\ Permits /\ OneLivePerFamily /\ ~wronged
  BY DEF IInv
<1>3. t \in 0..Len(tokens) /\ t # 0
  BY <1>0, <1>1, <1>2, CarriedToken, Tables DEF Live
<1>4. t \in DOMAIN tokens /\ Owner(t) = requests[q].browser
  BY <1>0, <1>1, <1>3, CarriedToken
<1>5. PICK f : f = tokens[t].family /\ f \in DOMAIN ticket
  BY <1>2, <1>4, Tables
<1>6. /\ f \in DOMAIN ticket' /\ DOMAIN ticket \subseteq DOMAIN ticket' /\ ticket' \in Seq(DOMAIN states)
      /\ \A g \in DOMAIN ticket : ticket'[g] = ticket[g]
      /\ states[ticket'[f]].browser = requests[q].browser
  BY <1>1, <1>2, <1>4, <1>5 DEF Owner, Shape, TypeOK
<1>7. \A u \in DOMAIN tokens : tokens[u].family = f /\ Live(u) => u \in {t} \/ f \in torn
  BY <1>1, <1>2, <1>4, <1>5 DEF OneLivePerFamily
<1>8. tokens' = Append(Revoked({t}), [family |-> f, revoked |-> FALSE])
  BY <1>1, <1>5
<1>9. \A u \in {t} : u \in DOMAIN tokens /\ Owner(u) = requests[q].browser
  BY <1>4
<1>10. UNCHANGED <<expired, states, cookie, torn, disturbed, wronged>>
  BY <1>1
<1>11. Shape' /\ Owned' /\ OneLivePerFamily' /\ Quiet'
  <2>1. PICK S : S = {t}
    OBVIOUS
  <2>2. tokens' = Append(Revoked(S), [family |-> f, revoked |-> FALSE])
    BY <1>8, <2>1
  <2>3. \A u \in S : u \in DOMAIN tokens /\ Owner(u) = requests[q].browser
    BY <1>9, <2>1
  <2>4. \A u \in DOMAIN tokens : tokens[u].family = f /\ Live(u) => u \in S \/ f \in torn
    BY <1>7, <2>1
  <2>5. OnItsWay(q) /\ Len(tokens) < MaxTokens /\ Answered(q, {Len(tokens')})
    BY <1>1
  <2>6. QED
    BY <1>6, <1>10, <2>2, <2>3, <2>4, <2>5, IssuingKeeps
<1>12. Permits'
  <2>1. \A r \in Requests : requests'[r] = requests[r] \/ requests'[r].pc # "consumed"
    <3>1. {Len(tokens')} \subseteq 0..MaxTokens
      BY <1>11, SessionAssumption DEF Shape, TypeOK
    <3>2. QED
      BY <1>1, <1>2, <3>1, AnsweredRequest
  <2>2. QED
    BY <1>1, <1>2, <2>1, PermitsKept
<1>13. QED
  BY <1>1, <1>2, <1>11, <1>12 DEF IInv

LEMMA CreateSessionKeeps ==
  ASSUME IInv, NEW q \in Requests, CreateSession(q)
  PROVE  IInv'
<1>1. PICK n, f : n = requests[q].state /\ f = Len(ticket) + 1
  OBVIOUS
<1>2. /\ requests[q].pc = "consumed" /\ OnItsWay(q) /\ Len(tokens) < MaxTokens
      /\ ticket' = Append(ticket, n) /\ Answered(q, {Len(tokens')})
      /\ tokens' = Append(tokens, [family |-> Len(ticket'), revoked |-> FALSE])
      /\ UNCHANGED <<expired, states, cookie, torn, disturbed, wronged>>
  BY <1>1 DEF CreateSession, OnItsWay, historyVars
<1>3. Shape /\ Permits /\ ~wronged
  BY DEF IInv
<1>4. n \in DOMAIN states /\ requests[q].browser = states[n].browser
  <2>1. RequestOK(requests[q], tokens, states)
    BY <1>3 DEF Shape
  <2>2. QED
    BY <1>1, <1>2, <2>1 DEF RequestOK, Idle, Reply
<1>5. /\ ticket' \in Seq(DOMAIN states) /\ Len(ticket') = f /\ DOMAIN ticket' = DOMAIN ticket \union {f}
      /\ f \in DOMAIN ticket' /\ f \notin DOMAIN ticket /\ ticket'[f] = n
      /\ \A g \in DOMAIN ticket : ticket'[g] = ticket[g]
  <2>1. ticket \in Seq(DOMAIN states) /\ DOMAIN ticket = 1..Len(ticket) /\ Len(ticket) \in Nat
    BY <1>3, Tables DEF Shape, TypeOK
  <2>2. /\ ticket' \in Seq(DOMAIN states) /\ Len(ticket') = f /\ ticket'[f] = n
        /\ \A g \in 1..Len(ticket) : ticket'[g] = ticket[g]
    BY <1>1, <1>2, <1>4, <2>1
  <2>3. DOMAIN ticket' = 1..f
    BY <2>2
  <2>4. QED
    BY <1>1, <2>1, <2>2, <2>3
<1>6. tokens' = Append(Revoked({}), [family |-> f, revoked |-> FALSE])
  BY <1>2, <1>3, <1>5, RevokeNothing
<1>7. \A t \in DOMAIN tokens : tokens[t].family # f
  BY <1>3, <1>5, Tables
<1>8. Shape' /\ Owned' /\ OneLivePerFamily' /\ Quiet'
  <2>1. PICK S : S = {}
    OBVIOUS
  <2>2. tokens' = Append(Revoked(S), [family |-> f, revoked |-> FALSE])
    BY <1>6, <2>1
  <2>3. \A u \in S : u \in DOMAIN tokens /\ Owner(u) = requests[q].browser
    BY <2>1
  <2>4. \A u \in DOMAIN tokens : tokens[u].family = f /\ Live(u) => u \in S \/ f \in torn
    BY <1>7
  <2>5. /\ f \in DOMAIN ticket' /\ DOMAIN ticket \subseteq DOMAIN ticket' /\ ticket' \in Seq(DOMAIN states)
        /\ \A g \in DOMAIN ticket : ticket'[g] = ticket[g]
        /\ states[ticket'[f]].browser = requests[q].browser
    BY <1>4, <1>5
  <2>6. /\ OnItsWay(q) /\ Len(tokens) < MaxTokens /\ Answered(q, {Len(tokens')})
        /\ UNCHANGED <<expired, states, cookie, torn, disturbed, wronged>>
    BY <1>2
  <2>7. QED
    BY <2>2, <2>3, <2>4, <2>5, <2>6, IssuingKeeps
<1>9. Permits'
  <2>1. /\ requests'[q].pc = "answered" /\ \A r \in Requests : r # q => requests'[r] = requests[r]
    <3>1. {Len(tokens')} \subseteq 0..MaxTokens
      BY <1>8, SessionAssumption DEF Shape, TypeOK
    <3>2. QED
      BY <1>2, <1>3, <3>1, AnsweredRequest
  <2>2. ~states[n].usable /\ \A g \in DOMAIN ticket : ticket[g] # n
    BY <1>1, <1>2, <1>3 DEF Permits
  <2>3. \A g, h \in DOMAIN ticket' : ticket'[g] = ticket'[h] => g = h
    BY <1>3, <1>5, <2>2 DEF Permits
  <2>4. \A g \in DOMAIN ticket' : ~states[ticket'[g]].usable
    BY <1>3, <1>5, <2>2 DEF Permits
  <2>5. \A r \in Requests : r # q /\ requests[r].pc = "consumed" => requests[r].state # n
    BY <1>1, <1>2, <1>3 DEF Permits
  <2>6. ASSUME NEW r \in Requests, requests'[r].pc = "consumed"
        PROVE  /\ ~states[requests'[r].state].usable
               /\ \A g \in DOMAIN ticket' : ticket'[g] # requests'[r].state
               /\ \A s \in Requests :
                    requests'[s].pc = "consumed" /\ requests'[s].state = requests'[r].state => r = s
    <3>1. r # q /\ requests'[r] = requests[r]
      BY <2>1, <2>6
    <3>2. QED
      BY <1>3, <1>5, <2>1, <2>5, <2>6, <3>1 DEF Permits
  <2>7. QED
    BY <1>2, <2>3, <2>4, <2>6 DEF Permits
<1>10. QED
  BY <1>2, <1>3, <1>8, <1>9 DEF IInv
-----------------------------------------------------------------------------
(* The browsers, the clock and the network.                                *)

\* Steps that leave cookies, requests and tokens' rows alone.
LEMMA ClockKeeps ==
  ASSUME IInv, UNCHANGED <<tokens, ticket, cookie, requests, torn, disturbed, wronged>>,
         expired' \in 0..Len(tokens), expired <= expired',
         states' \in Seq(State), Len(states) <= Len(states'), Len(states') <= MaxStates,
         ticket \in Seq(DOMAIN states'),
         \A n \in DOMAIN states : /\ n \in DOMAIN states'
                                  /\ states'[n].browser = states[n].browser
                                  /\ states'[n].usable => states[n].usable
  PROVE  IInv'
<1>1. Shape /\ Permits /\ Owned /\ OneLivePerFamily /\ Quiet /\ ~wronged
  BY DEF IInv
<1>2. expired' \in Nat /\ Len(tokens) \in Nat
  BY <1>1, Tables
<1>3. Shape'
  <2>1. /\ tokens \in Seq([family : DOMAIN ticket, revoked : BOOLEAN]) /\ Len(tokens) <= MaxTokens
        /\ cookie \in [Browsers -> 0..Len(tokens)]
        /\ torn \subseteq DOMAIN ticket /\ disturbed \subseteq Browsers /\ wronged \in BOOLEAN
        /\ requests \in [Requests -> {Idle} \union Request \union Reply]
    BY <1>1 DEF Shape, TypeOK
  <2>2. QED
    BY <1>1, <1>2, <2>1, ShapeStep
<1>4. Permits'
  BY <1>1, PermitsKept
<1>5. OneLivePerFamily'
  BY <1>1, <1>2, OneLiveKept
<1>6. TablesKept({})
  BY <1>1, <1>2 DEF TablesKept
<1>7. Owned'
  <2>1. \A b \in Browsers : \A t : Carries(b, t)' => Carries(b, t)
    BY DEF Carries, Mine, OnItsWay
  <2>2. QED
    BY <1>1, <1>6, <2>1, OwnedStep
<1>8. Quiet'
  <2> SUFFICES ASSUME NEW b \in Browsers \ disturbed' PROVE QuietAt(b)'
    BY DEF Quiet
  <2>1. QuietAt(b)
    BY <1>1 DEF Quiet
  <2>2. QED
    BY <1>1, <1>6, <2>1, QuietElsewhere
<1>9. QED
  BY <1>1, <1>3, <1>4, <1>5, <1>7, <1>8 DEF IInv

LEMMA OpenLoginKeeps ==
  ASSUME IInv, NEW b \in Browsers, OpenLogin(b)
  PROVE  IInv'
<1> DEFINE new == [browser |-> b, usable |-> TRUE]
<1>1. /\ UNCHANGED <<tokens, ticket, expired, cookie, requests, torn, disturbed, wronged>>
      /\ Len(states) < MaxStates /\ states' = Append(states, new)
  BY DEF OpenLogin, tokenVars, historyVars
<1>2. Shape /\ states \in Seq(State) /\ ticket \in Seq(DOMAIN states)
  BY DEF IInv, Shape, TypeOK
<1>3. /\ DOMAIN states = 1..Len(states) /\ Len(states) \in Nat /\ MaxStates \in Nat
      /\ expired \in Nat /\ expired <= Len(tokens) /\ Len(tokens) \in Nat
  BY <1>2, Tables, SessionAssumption
<1>4. new \in State
  BY DEF State
<1> HIDE DEF new
<1>5. /\ states' \in Seq(State) /\ Len(states') = Len(states) + 1
      /\ \A n \in DOMAIN states : states'[n] = states[n]
  BY <1>1, <1>2, <1>3, <1>4
<1>6. DOMAIN states \subseteq DOMAIN states'
  <2>1. DOMAIN states' = 1..Len(states')
    BY <1>5
  <2>2. QED
    BY <1>3, <1>5, <2>1
<1>7. ticket \in Seq(DOMAIN states')
  BY <1>2, <1>6, SeqMonotonic
<1>8. Len(states) <= Len(states') /\ Len(states') <= MaxStates /\ expired' \in 0..Len(tokens) /\ expired <= expired'
  BY <1>1, <1>3, <1>5
<1>9. \A n \in DOMAIN states : /\ n \in DOMAIN states'
                               /\ states'[n].browser = states[n].browser
                               /\ states'[n].usable => states[n].usable
  BY <1>5, <1>6
<1>10. QED
  BY <1>1, <1>5, <1>7, <1>8, <1>9, ClockKeeps

LEMMA StateExpiresKeeps ==
  ASSUME IInv, NEW n \in DOMAIN states, StateExpires(n)
  PROVE  IInv'
<1> DEFINE old == [states[n] EXCEPT !.usable = FALSE]
<1>1. /\ UNCHANGED <<tokens, ticket, expired, cookie, requests, torn, disturbed, wronged>>
      /\ states' = [states EXCEPT ![n] = old]
  BY DEF StateExpires, tokenVars, historyVars
<1>2. Shape /\ states \in Seq(State) /\ ticket \in Seq(DOMAIN states) /\ Len(states) <= MaxStates
  BY DEF IInv, Shape, TypeOK
<1>3. /\ DOMAIN states = 1..Len(states) /\ Len(states) \in Nat /\ states[n] \in State
      /\ expired \in Nat /\ expired <= Len(tokens) /\ Len(tokens) \in Nat
  BY <1>2, Tables
<1>4. old \in State /\ old.browser = states[n].browser /\ ~old.usable
  BY <1>3 DEF State
<1> HIDE DEF old
<1>5. states' \in Seq(State) /\ Len(states') = Len(states) /\ DOMAIN states' = DOMAIN states
  BY <1>1, <1>2, <1>3, <1>4
<1>6. \A m \in DOMAIN states : states'[m] = IF m = n THEN old ELSE states[m]
  BY <1>1, <1>2
<1>7. \A m \in DOMAIN states : /\ m \in DOMAIN states'
                               /\ states'[m].browser = states[m].browser
                               /\ states'[m].usable => states[m].usable
  BY <1>4, <1>5, <1>6
<1>8. Len(states) <= Len(states') /\ Len(states') <= MaxStates /\ expired' \in 0..Len(tokens) /\ expired <= expired'
      /\ ticket \in Seq(DOMAIN states')
  BY <1>1, <1>2, <1>3, <1>5
<1>9. QED
  BY <1>1, <1>5, <1>7, <1>8, ClockKeeps

LEMMA TokenExpiresKeeps ==
  ASSUME IInv, TokenExpires
  PROVE  IInv'
<1>1. /\ UNCHANGED <<tokens, ticket, states, cookie, requests, torn, disturbed, wronged>>
      /\ expired < Len(tokens) /\ expired' = expired + 1
  BY DEF TokenExpires, historyVars
<1>2. Shape /\ states \in Seq(State) /\ ticket \in Seq(DOMAIN states) /\ Len(states) <= MaxStates
  BY DEF IInv, Shape, TypeOK
<1>3. expired \in Nat /\ Len(tokens) \in Nat /\ Len(states) \in Nat
  BY <1>2, Tables
<1>4. expired' \in 0..Len(tokens) /\ expired <= expired' /\ Len(states) <= Len(states')
  BY <1>1, <1>3
<1>5. QED
  BY <1>1, <1>2, <1>4, ClockKeeps

\* What a browser sends is its cookie, and an undisturbed one sends when it waits
\* for nothing.
LEMMA SendKeeps ==
  ASSUME IInv, NEW q \in Requests, NEW kind \in {"callback", "refresh", "logout", "revoke"},
         NEW b \in Browsers, NEW token, NEW n, Send(q, kind, b, token, n),
         token \in {0, cookie[b]},
         IF kind = "callback" THEN n \in DOMAIN states /\ b = states[n].browser ELSE n = 0
  PROVE  IInv'
<1> DEFINE sent == [pc |-> "sent", browser |-> b, token |-> token, kind |-> kind, state |-> n]
<1>1. /\ requests[q] = Idle /\ requests' = [requests EXCEPT ![q] = sent]
      /\ disturbed' = IF Busy(b) THEN disturbed \union {b} ELSE disturbed
      /\ UNCHANGED <<tokens, ticket, expired, states, cookie, torn, wronged>>
  BY DEF Send, tokenVars
<1>2. /\ Shape /\ Permits /\ Owned /\ OneLivePerFamily /\ Quiet /\ ~wronged
  BY DEF IInv
<1>3. /\ tokens \in Seq([family : DOMAIN ticket, revoked : BOOLEAN]) /\ Len(tokens) <= MaxTokens
      /\ ticket \in Seq(DOMAIN states) /\ expired \in 0..Len(tokens)
      /\ states \in Seq(State) /\ Len(states) <= MaxStates
      /\ cookie \in [Browsers -> 0..Len(tokens)]
      /\ torn \subseteq DOMAIN ticket /\ disturbed \subseteq Browsers /\ wronged \in BOOLEAN
      /\ requests \in [Requests -> {Idle} \union Request \union Reply]
  BY <1>2 DEF Shape, TypeOK
<1>4. /\ Len(tokens) \in Nat /\ Len(states) \in Nat /\ DOMAIN states = 1..Len(states)
      /\ MaxTokens \in Nat /\ MaxStates \in Nat /\ expired \in Nat
  BY <1>2, Tables, SessionAssumption
<1>5. token \in 0..Len(tokens) /\ token \in 0..MaxTokens /\ n \in 0..MaxStates
  BY <1>3, <1>4
<1>6. /\ sent \in Request /\ sent.pc = "sent" /\ sent.browser = b /\ sent.token = token
      /\ sent.kind = kind /\ sent.state = n
  BY <1>5 DEF Request
<1> HIDE DEF sent
<1>7. /\ requests' \in [Requests -> {Idle} \union Request \union Reply]
      /\ requests'[q] = sent /\ \A r \in Requests : r # q => requests'[r] = requests[r]
  BY <1>1, <1>3, <1>6
<1>8. Shape'
  <2>1. RequestOK(requests'[q], tokens', states')
    BY <1>1, <1>4, <1>5, <1>6, <1>7 DEF RequestOK
  <2>2. disturbed' \subseteq Browsers
    BY <1>1, <1>3
  <2>3. QED
    BY <1>1, <1>2, <1>3, <1>4, <1>7, <2>1, <2>2, ShapeStep
<1>9. Permits'
  BY <1>1, <1>2, <1>6, <1>7, PermitsKept
<1>10. OneLivePerFamily'
  BY <1>1, <1>2, <1>4, OneLiveKept
<1>11. TablesKept({})
  BY <1>1, <1>4 DEF TablesKept
<1>12. ASSUME NEW a \in Browsers, a # b PROVE ~Mine(q, a) /\ ~Mine(q, a)'
  BY <1>1, <1>6, <1>7, <1>12 DEF Mine, Idle
<1>13. Owned'
  <2>1. ASSUME NEW a \in Browsers, NEW t, Carries(a, t)', t # 0 PROVE Carries(a, t)
    <3>1. CASE t = cookie'[a]
      BY <1>1, <3>1 DEF Carries
    <3>2. CASE \E r \in Requests : r # q /\ Mine(r, a)' /\ OnItsWay(r)' /\ t = requests'[r].token
      BY <1>7, <3>2 DEF Carries, Mine, OnItsWay
    <3>3. CASE \E r \in Requests : r # q /\ Mine(r, a)' /\ requests'[r].pc = "answered" /\ t \in requests'[r].sets
      BY <1>7, <3>3 DEF Carries, Mine
    <3>4. CASE Mine(q, a)' /\ OnItsWay(q)' /\ t = requests'[q].token
      <4>1. a = b /\ t = cookie[a]
        BY <1>6, <1>7, <1>12, <2>1, <3>4
      <4>2. QED
        BY <4>1 DEF Carries
    <3>5. ~(requests'[q].pc = "answered")
      BY <1>6, <1>7
    <3>6. QED
      BY <2>1, <3>1, <3>2, <3>3, <3>4, <3>5 DEF Carries
  <2>2. QED
    BY <1>2, <1>11, <2>1, OwnedStep
<1>14. ASSUME NEW a \in Browsers \ disturbed' PROVE QuietAt(a)'
  <2>1. QuietAt(a)
    BY <1>1, <1>2, <1>14 DEF Quiet
  <2>2. CASE a # b
    <3>1. \A r \in Requests : requests'[r] = requests[r] \/ (~Mine(r, a) /\ ~Mine(r, a)')
      BY <1>7, <1>12, <2>2
    <3>2. QED
      BY <1>1, <1>2, <1>11, <2>1, <3>1, QuietElsewhere
  <2>3. CASE a = b
    <3>1. ~Busy(b)
      BY <1>1, <1>14, <2>3
    <3>2. \A r \in Requests : ~Mine(r, a)
      BY <2>3, <3>1 DEF Busy, Mine
    <3>3. Good(cookie[a]) /\ Good(token)
      BY <2>1, <2>3, <3>2 DEF QuietAt, Good
    <3>4. Good(cookie[a])' /\ Good(token)'
      BY <1>1, <3>3 DEF Good
    <3>5. \A r \in Requests : Mine(r, a)' => r = q
      BY <1>7, <3>2 DEF Mine
    <3>6. requests'[q].pc = "sent" /\ requests'[q].token = token
      BY <1>6, <1>7
    <3>7. Mine(q, a)'
      BY <1>6, <1>7, <2>3 DEF Mine
    <3>8. Good(requests[q].token)'
      BY <3>4, <3>6 DEF Good
    <3>9. QED
      BY <3>4, <3>5, <3>6, <3>7, <3>8 DEF QuietAt
  <2>4. QED
    BY <2>2, <2>3
<1>15. QED
  BY <1>1, <1>2, <1>8, <1>9, <1>10, <1>13, <1>14 DEF IInv, Quiet
\* An answer ends its request, whether it arrives or is lost.
LEMMA AnswerKeeps ==
  ASSUME IInv, NEW q \in Requests, requests[q].pc = "answered",
         NEW c, c = requests[q].browser,
         requests' = [requests EXCEPT ![q] = Idle],
         UNCHANGED <<tokens, ticket, expired, states, torn, wronged>>,
         disturbed \subseteq disturbed', disturbed' \subseteq Browsers,
         cookie' \in [Browsers -> 0..Len(tokens)],
         \A b \in Browsers : b # c => cookie'[b] = cookie[b],
         cookie'[c] = cookie[c] \/ cookie'[c] \in requests[q].sets,
         c \notin disturbed' => IF requests[q].sets = {} THEN cookie'[c] = cookie[c]
                                ELSE cookie'[c] \in requests[q].sets
  PROVE  IInv'
<1>1. Shape /\ Permits /\ Owned /\ OneLivePerFamily /\ Quiet /\ ~wronged
  BY DEF IInv
<1>2. /\ tokens \in Seq([family : DOMAIN ticket, revoked : BOOLEAN]) /\ Len(tokens) <= MaxTokens
      /\ ticket \in Seq(DOMAIN states) /\ expired \in 0..Len(tokens)
      /\ states \in Seq(State) /\ Len(states) <= MaxStates
      /\ torn \subseteq DOMAIN ticket /\ wronged \in BOOLEAN
      /\ requests \in [Requests -> {Idle} \union Request \union Reply]
  BY <1>1 DEF Shape, TypeOK
<1>3. Len(tokens) \in Nat /\ Len(states) \in Nat /\ expired \in Nat
  BY <1>1, Tables
<1>4. /\ requests' \in [Requests -> {Idle} \union Request \union Reply]
      /\ requests'[q] = Idle /\ \A r \in Requests : r # q => requests'[r] = requests[r]
  BY <1>2
<1>5. c \in Browsers /\ Mine(q, c) /\ requests[q].pc = "answered"
  BY <1>1, RequestCases DEF Mine, OnItsWay
<1>6. Idle.pc = "idle"
  BY DEF Idle
<1>7. Shape'
  <2>1. RequestOK(requests'[q], tokens', states')
    BY <1>4 DEF RequestOK
  <2>2. QED
    BY <1>1, <1>2, <1>3, <1>4, <2>1, ShapeStep
<1>8. Permits'
  BY <1>1, <1>4, <1>6, PermitsKept
<1>9. OneLivePerFamily'
  BY <1>1, <1>3, OneLiveKept
<1>10. TablesKept({})
  BY <1>3 DEF TablesKept
<1>11. \A r \in Requests : \A b : Mine(r, b)' => r # q /\ Mine(r, b) /\ requests'[r] = requests[r]
  BY <1>4, <1>6 DEF Mine
<1>12. Owned'
  <2>1. ASSUME NEW b \in Browsers, NEW t, Carries(b, t)', t # 0 PROVE Carries(b, t)
    <3>1. CASE t = cookie'[b]
      BY <1>5, <3>1 DEF Carries
    <3>2. CASE \E r \in Requests : Mine(r, b)' /\ OnItsWay(r)' /\ t = requests'[r].token
      BY <1>11, <3>2 DEF Carries, OnItsWay
    <3>3. CASE \E r \in Requests : Mine(r, b)' /\ requests'[r].pc = "answered" /\ t \in requests'[r].sets
      BY <1>11, <3>3 DEF Carries
    <3>4. QED
      BY <2>1, <3>1, <3>2, <3>3 DEF Carries
  <2>2. QED
    BY <1>1, <1>10, <2>1, OwnedStep
<1>13. ASSUME NEW b \in Browsers \ disturbed' PROVE QuietAt(b)'
  <2>1. QuietAt(b)
    BY <1>1, <1>13 DEF Quiet
  <2>2. CASE b # c
    <3>1. \A r \in Requests : requests'[r] = requests[r] \/ (~Mine(r, b) /\ ~Mine(r, b)')
      BY <1>4, <1>6, <2>2 DEF Mine
    <3>2. QED
      BY <1>1, <1>10, <1>13, <2>1, <2>2, <3>1, QuietElsewhere
  <2>3. CASE b = c
    <3>1. \A r \in Requests : ~Mine(r, b)'
      BY <1>5, <1>11, <2>1, <2>3 DEF QuietAt
    <3>2. PICK t : t = cookie'[b]
      OBVIOUS
    <3>3. Good(t)
      BY <1>5, <1>13, <2>1, <2>3, <3>2 DEF QuietAt
    <3>4. Good(t)'
      BY <3>3 DEF Good
    <3>5. Good(cookie[b])'
      BY <3>2, <3>4 DEF Good
    <3>6. QED
      BY <3>1, <3>5 DEF QuietAt
  <2>4. QED
    BY <2>2, <2>3
<1>14. QED
  BY <1>1, <1>7, <1>8, <1>9, <1>12, <1>13 DEF IInv, Quiet

LEMMA ArriveKeeps ==
  ASSUME IInv, NEW q \in Requests, Arrive(q)
  PROVE  IInv'
<1>0. PICK c, new : /\ c = requests[q].browser
                    /\ new = IF requests[q].sets = {} THEN cookie[c]
                             ELSE CHOOSE t \in requests[q].sets : TRUE
  OBVIOUS
<1>1. /\ requests[q].pc = "answered" /\ requests' = [requests EXCEPT ![q] = Idle]
      /\ UNCHANGED <<tokens, ticket, expired, states, torn, disturbed, wronged>>
      /\ cookie' = [cookie EXCEPT ![c] = new]
  BY <1>0 DEF Arrive, tokenVars, historyVars
<1>2. Shape /\ cookie \in [Browsers -> 0..Len(tokens)] /\ disturbed \subseteq Browsers
  BY DEF IInv, Shape, TypeOK
<1>3. c \in Browsers /\ requests[q].sets \subseteq 0..Len(tokens)
  BY <1>0, <1>1, <1>2, RequestCases DEF OnItsWay, Idle
<1>4. IF requests[q].sets = {} THEN new = cookie[c] ELSE new \in requests[q].sets
  BY <1>0
<1>5. new \in 0..Len(tokens)
  BY <1>2, <1>3, <1>4
<1>6. cookie' \in [Browsers -> 0..Len(tokens)] /\ cookie'[c] = new
      /\ \A b \in Browsers : b # c => cookie'[b] = cookie[b]
  BY <1>1, <1>2, <1>3, <1>5
<1>7. /\ disturbed \subseteq disturbed' /\ disturbed' \subseteq Browsers
      /\ UNCHANGED <<tokens, ticket, expired, states, torn, wronged>>
  BY <1>1, <1>2
<1>8. /\ cookie'[c] = cookie[c] \/ cookie'[c] \in requests[q].sets
      /\ IF requests[q].sets = {} THEN cookie'[c] = cookie[c] ELSE cookie'[c] \in requests[q].sets
  BY <1>4, <1>6
<1>9. requests[q].pc = "answered" /\ requests' = [requests EXCEPT ![q] = Idle]
  BY <1>1
<1>10. QED
  BY <1>0, <1>6, <1>7, <1>8, <1>9, AnswerKeeps

LEMMA LoseKeeps ==
  ASSUME IInv, NEW q \in Requests, Lose(q)
  PROVE  IInv'
<1>0. PICK c : c = requests[q].browser
  OBVIOUS
<1>1. /\ requests[q].pc = "answered" /\ requests' = [requests EXCEPT ![q] = Idle]
      /\ disturbed' = disturbed \union {c}
      /\ UNCHANGED <<tokens, ticket, expired, states, cookie, torn, wronged>>
  BY <1>0 DEF Lose, tokenVars
<1>2. Shape /\ cookie \in [Browsers -> 0..Len(tokens)] /\ disturbed \subseteq Browsers
  BY DEF IInv, Shape, TypeOK
<1>3. c \in Browsers
  BY <1>0, <1>1, <1>2, RequestCases DEF OnItsWay, Idle
<1>4. /\ disturbed \subseteq disturbed' /\ disturbed' \subseteq Browsers /\ c \in disturbed'
      /\ cookie' \in [Browsers -> 0..Len(tokens)] /\ cookie'[c] = cookie[c]
      /\ \A b \in Browsers : b # c => cookie'[b] = cookie[b]
  BY <1>1, <1>2, <1>3
<1>5. UNCHANGED <<tokens, ticket, expired, states, torn, wronged>>
  BY <1>1
<1>6. QED
  BY <1>0, <1>1, <1>4, <1>5, AnswerKeeps

\* A crash ends every request; those it ends are of disturbed browsers, and a token
\* it leaves behind is of a torn family.
LEMMA CrashKeeps ==
  ASSUME IInv, Crash
  PROVE  IInv'
<1>1. Shape /\ Permits /\ Owned /\ OneLivePerFamily /\ Quiet /\ ~wronged
  BY DEF IInv
<1>2. /\ requests' = [q \in Requests |-> Idle]
      /\ disturbed' = disturbed \union {b \in Browsers : Busy(b)}
      /\ UNCHANGED <<ticket, expired, states, cookie, wronged>>
  BY DEF Crash
<1>3. /\ tokens \in Seq([family : DOMAIN ticket, revoked : BOOLEAN]) /\ Len(tokens) <= MaxTokens
      /\ ticket \in Seq(DOMAIN states) /\ expired \in 0..Len(tokens)
      /\ states \in Seq(State) /\ Len(states) <= MaxStates
      /\ cookie \in [Browsers -> 0..Len(tokens)]
      /\ torn \subseteq DOMAIN ticket /\ disturbed \subseteq Browsers /\ wronged \in BOOLEAN
  BY <1>1 DEF Shape, TypeOK
<1>4. /\ Len(tokens) \in Nat /\ Len(states) \in Nat /\ expired \in Nat /\ expired <= Len(tokens)
      /\ DOMAIN tokens = 1..Len(tokens) /\ MaxTokens \in Nat
  BY <1>1, Tables, SessionAssumption
<1>5. /\ requests' \in [Requests -> {Idle} \union Request \union Reply]
      /\ \A q \in Requests : requests'[q] = Idle /\ requests'[q].pc = "idle"
  BY <1>2 DEF Idle
\* The tables: nothing happened to them, or a token was added.
<1> DEFINE Grown ==
      /\ tokens' \in Seq([family : DOMAIN ticket, revoked : BOOLEAN])
      /\ Len(tokens) <= Len(tokens') /\ Len(tokens') <= MaxTokens /\ Len(tokens') \in Nat
      /\ \A t \in DOMAIN tokens : t \in DOMAIN tokens' /\ tokens'[t] = tokens[t]
      /\ torn \subseteq torn' /\ torn' \subseteq DOMAIN ticket
      /\ \A t \in DOMAIN tokens' : t \in DOMAIN tokens \/ tokens'[t].family \in torn'
<1>6. Grown
  <2>1. CASE UNCHANGED <<tokens, torn>>
    BY <1>3, <1>4, <2>1
  <2>2. ASSUME NEW q \in Requests, NEW f, Handles(q, "refresh"), Live(requests[q].token),
               Len(tokens) < MaxTokens, f = tokens[requests[q].token].family,
               tokens' = Append(tokens, [family |-> f, revoked |-> FALSE]), torn' = torn \union {f}
        PROVE  Grown
    <3>1. requests[q].token \in DOMAIN tokens
      <4>1. OnItsWay(q)
        BY <2>2 DEF Handles, OnItsWay
      <4>2. requests[q].token \in 0..Len(tokens) /\ requests[q].token > expired
        BY <1>1, <2>2, <4>1, CarriedToken DEF Live
      <4>3. QED
        BY <1>4, <4>2
    <3>2. f \in DOMAIN ticket
      BY <1>1, <2>2, <3>1, Tables
    <3>3. PICK S, N : S = {} /\ N = Len(tokens) + 1
      OBVIOUS
    <3>4. tokens' = Append(Revoked(S), [family |-> f, revoked |-> FALSE])
      BY <1>1, <2>2, <3>3, RevokeNothing
    <3>5. DOMAIN ticket \subseteq DOMAIN ticket' /\ f \in DOMAIN ticket'
      BY <1>2, <3>2
    <3>6. /\ tokens' \in Seq([family : DOMAIN ticket', revoked : BOOLEAN])
          /\ Len(tokens') = N /\ DOMAIN tokens' = 1..N /\ tokens'[N].family = f
          /\ \A t \in DOMAIN tokens : tokens'[t] = tokens[t]
      BY <1>1, <3>3, <3>4, <3>5, AppendedTable
    <3>7. tokens' \in Seq([family : DOMAIN ticket, revoked : BOOLEAN])
      BY <1>2, <3>6
    <3>8. Len(tokens) <= Len(tokens') /\ Len(tokens') <= MaxTokens /\ Len(tokens') \in Nat
      BY <1>4, <2>2, <3>3, <3>6
    <3>9. DOMAIN tokens' = DOMAIN tokens \union {N}
      BY <1>4, <3>3, <3>6
    <3>10. torn \subseteq torn' /\ torn' \subseteq DOMAIN ticket /\ f \in torn'
      BY <1>3, <2>2, <3>2
    <3>11. QED
      BY <3>6, <3>7, <3>8, <3>9, <3>10
  <2> HIDE DEF Grown
  <2>3. QED
    BY <2>1, <2>2 DEF Crash
<1>7. Shape'
  <2>1. \A q \in Requests : RequestOK(requests'[q], tokens', states')
    BY <1>5 DEF RequestOK
  <2>2. disturbed' \subseteq Browsers
    BY <1>2, <1>3
  <2>3. cookie' \in [Browsers -> 0..Len(tokens')] /\ expired' \in 0..Len(tokens')
    BY <1>2, <1>3, <1>4, <1>6
  <2>4. /\ tokens' \in Seq([family : DOMAIN ticket', revoked : BOOLEAN])
        /\ ticket' \in Seq(DOMAIN states') /\ states' \in Seq(State) /\ Len(states) <= Len(states')
        /\ Len(states') <= MaxStates /\ wronged' \in BOOLEAN /\ torn' \subseteq DOMAIN ticket'
        /\ \A n \in DOMAIN states : states'[n].browser = states[n].browser
    BY <1>2, <1>3, <1>4, <1>6
  <2>5. QED
    BY <1>1, <1>5, <1>6, <2>1, <2>2, <2>3, <2>4, ShapeStep
<1>8. Permits'
  <2>1. \A q \in Requests : requests'[q] = requests[q] \/ requests'[q].pc # "consumed"
    BY <1>5
  <2>2. QED
    BY <1>1, <1>2, <2>1, PermitsKept
<1>9. OneLivePerFamily'
  <2> SUFFICES ASSUME NEW t \in DOMAIN tokens', NEW u \in DOMAIN tokens', Live(t)', Live(u)',
                      tokens'[t].family = tokens'[u].family
               PROVE  t = u \/ tokens'[t].family \in torn'
    BY DEF OneLivePerFamily
  <2>1. CASE t \in DOMAIN tokens /\ u \in DOMAIN tokens
    <3>1. Live(t) /\ Live(u) /\ tokens[t].family = tokens[u].family
      BY <1>2, <1>6, <2>1 DEF Live
    <3>2. QED
      BY <1>1, <1>6, <2>1, <3>1 DEF OneLivePerFamily
  <2>2. QED
    BY <1>6, <2>1
<1>10. TablesKept({})
  BY <1>2, <1>4, <1>6 DEF TablesKept
<1>11. \A q \in Requests : \A b : ~Mine(q, b)'
  BY <1>5 DEF Mine
<1>12. Owned'
  <2>1. \A b \in Browsers : \A t : Carries(b, t)' => Carries(b, t)
    BY <1>2, <1>11 DEF Carries
  <2>2. QED
    BY <1>1, <1>10, <2>1, OwnedStep
<1>13. ASSUME NEW b \in Browsers \ disturbed' PROVE QuietAt(b)'
  <2>1. QuietAt(b)
    BY <1>1, <1>2, <1>13 DEF Quiet
  <2>2. ~Busy(b)
    BY <1>2, <1>13
  <2>3. \A q \in Requests : ~Mine(q, b) /\ ~Mine(q, b)'
    BY <1>11, <2>2 DEF Busy, Mine
  <2>4. QED
    BY <1>1, <1>2, <1>10, <1>13, <2>1, <2>3, QuietElsewhere
<1>14. QED
  BY <1>1, <1>2, <1>7, <1>8, <1>9, <1>12, <1>13 DEF IInv, Quiet
-----------------------------------------------------------------------------
(* The sessions.                                                           *)

LEMMA Started == Init => IInv
<1> SUFFICES ASSUME Init PROVE IInv
  OBVIOUS
<1>1. /\ tokens = <<>> /\ ticket = <<>> /\ expired = 0 /\ states = <<>>
      /\ cookie = [b \in Browsers |-> 0] /\ requests = [q \in Requests |-> Idle]
      /\ torn = {} /\ disturbed = {} /\ wronged = FALSE
  BY DEF Init
<1>2. /\ \A q \in Requests : requests[q] = Idle /\ requests[q].pc = "idle"
      /\ DOMAIN tokens = {} /\ DOMAIN ticket = {} /\ Len(tokens) = 0 /\ Len(states) = 0
  BY <1>1 DEF Idle
<1>3. TypeOK
  <2>1. tokens \in Seq([family : DOMAIN ticket, revoked : BOOLEAN]) /\ ticket \in Seq(DOMAIN states)
        /\ states \in Seq(State)
    BY <1>1
  <2>2. cookie \in [Browsers -> 0..Len(tokens)] /\ expired \in 0..Len(tokens)
    BY <1>1, <1>2
  <2>3. Len(tokens) <= MaxTokens /\ Len(states) <= MaxStates
    BY <1>2, SessionAssumption
  <2>4. QED
    BY <1>1, <1>2, <2>1, <2>2, <2>3 DEF TypeOK
<1>4. Shape
  <2>1. requests \in [Requests -> {Idle} \union Request \union Reply]
    BY <1>1
  <2>2. QED
    BY <1>2, <1>3, <2>1 DEF Shape, RequestOK
<1>5. Permits
  BY <1>2 DEF Permits
<1>6. Owned
  <2>1. \A b \in Browsers : \A t : Carries(b, t) => t = 0
    BY <1>1, <1>2 DEF Carries, Mine
  <2>2. QED
    BY <2>1 DEF Owned
<1>7. OneLivePerFamily
  BY <1>2 DEF OneLivePerFamily
<1>8. Quiet
  <2>1. \A b \in Browsers : cookie[b] = 0
    BY <1>1
  <2>2. \A b \in Browsers, q \in Requests : ~Mine(q, b)
    BY <1>2 DEF Mine
  <2>3. QED
    BY <2>1, <2>2 DEF Quiet, QuietAt, Good
<1>9. QED
  BY <1>1, <1>4, <1>5, <1>6, <1>7, <1>8 DEF IInv

LEMMA Stepped == IInv /\ [Next]_vars => IInv'
<1> SUFFICES ASSUME IInv, [Next]_vars PROVE IInv'
  OBVIOUS
<1>1. Shape /\ DOMAIN states \subseteq Nat
  BY Tables DEF IInv
<1>2. ASSUME NEW b \in Browsers, OpenLogin(b) PROVE IInv'
  BY <1>2, OpenLoginKeeps
<1>3. ASSUME NEW n \in DOMAIN states, StateExpires(n) PROVE IInv'
  BY <1>3, StateExpiresKeeps
<1>4. ASSUME NEW n \in DOMAIN states, NEW q \in Requests, SendCallback(q, n) PROVE IInv'
  <2>1. states[n].browser \in Browsers
    BY <1>1, Tables
  <2>2. Send(q, "callback", states[n].browser, 0, n)
    BY <1>4 DEF SendCallback
  <2>3. QED
    BY <2>1, <2>2, SendKeeps
<1>5. CASE TokenExpires
  BY <1>5, TokenExpiresKeeps
<1>6. ASSUME NEW q \in Requests, NEW b \in Browsers,
             SendRefresh(q, b) \/ SendLogout(q, b) \/ SendRevoke(q, b)
      PROVE  IInv'
  BY <1>6, SendKeeps DEF SendRefresh, SendLogout, SendRevoke
<1>7. ASSUME NEW q \in Requests,
             \/ Consume(q) \/ LoginFails(q) \/ CreateSession(q)
             \/ Rotate(q) \/ DetectReuse(q) \/ RefuseExpired(q) \/ Logout(q) \/ RevokeAll(q)
             \/ Arrive(q) \/ Lose(q)
      PROVE  IInv'
  BY <1>7, ConsumeKeeps, LoginFailsKeeps, CreateSessionKeeps, RotateKeeps, DetectReuseKeeps,
     RefuseExpiredKeeps, LogoutKeeps, RevokeAllKeeps, ArriveKeeps, LoseKeeps
<1>8. CASE Crash
  BY <1>8, CrashKeeps
<1>9. CASE UNCHANGED vars
  <2>1. /\ UNCHANGED <<tokens, ticket, cookie, requests, torn, disturbed, wronged>>
        /\ UNCHANGED <<expired, states>>
    BY <1>9 DEF vars
  <2>2. /\ expired \in 0..Len(tokens) /\ states \in Seq(State) /\ Len(states) <= MaxStates
        /\ ticket \in Seq(DOMAIN states)
    BY <1>1 DEF Shape, TypeOK
  <2>3. expired \in Nat /\ Len(states) \in Nat
    BY <1>1, Tables
  <2>4. QED
    BY <2>1, <2>2, <2>3, ClockKeeps
<1>10. QED
  BY <1>2, <1>3, <1>4, <1>5, <1>6, <1>7, <1>8, <1>9 DEF Next

\* The sessions of the user are as IInv says, whatever is sent, repeated, lost,
\* expires or crashes.
THEOREM Invariant == Spec => []IInv
<1>1. Init => IInv
  BY Started
<1>2. IInv /\ [Next]_vars => IInv'
  BY Stepped
<1>3. QED
  BY <1>1, <1>2, PTL DEF Spec

\* refresh_tokens and oauth_state stay well-formed: every token is of a family some
\* callback opened, and cookies and requests name tokens that were issued.
THEOREM TypesHold == Spec => []TypeOK
<1>1. IInv => TypeOK
  BY DEF IInv, Shape
<1>2. QED
  BY <1>1, Invariant, PTL

\* rotateRefreshToken replaces: two active tokens of one family are there only after
\* a crash between its two statements.
THEOREM RotationReplaces == Spec => []OneLivePerFamily
<1>1. IInv => OneLivePerFamily
  BY DEF IInv
<1>2. QED
  BY <1>1, Invariant, PTL

\* POST /refresh never takes a browser for a thief that sends one request at a time,
\* gets every answer and is not signed out by another browser.
THEOREM QuietBrowsersStayTrusted == Spec => []QuietBrowsersAreTrusted
<1>1. IInv => QuietBrowsersAreTrusted
  BY DEF IInv, QuietBrowsersAreTrusted
<1>2. QED
  BY <1>1, Invariant, PTL
-----------------------------------------------------------------------------
(* The sessions implement SessionLife.                                     *)

HasLive(f) == \E t \in DOMAIN tokens : tokens[t].family = f /\ Live(t)

FamiliesFit == DOMAIN ticket \subseteq 1..MaxStates

\* No more families are opened than there are logins.
LEMMA FamiliesBounded ==
  ASSUME Shape, Permits
  PROVE  DOMAIN ticket \subseteq 1..MaxStates /\ DOMAIN states \subseteq 1..MaxStates
<1>1. /\ Len(ticket) \in Nat /\ DOMAIN ticket = 1..Len(ticket) /\ MaxStates \in Nat
      /\ Len(states) \in Nat /\ DOMAIN states = 1..Len(states) /\ Len(states) <= MaxStates
  BY Tables, SessionAssumption DEF Shape, TypeOK
<1>2. ticket \in [1..Len(ticket) -> 1..Len(states)]
  BY <1>1, Tables DEF Shape, TypeOK
<1>3. /\ IsFiniteSet(1..Len(ticket)) /\ Cardinality(1..Len(ticket)) = Len(ticket)
      /\ IsFiniteSet(1..Len(states)) /\ Cardinality(1..Len(states)) = Len(states)
  <2>1. \A k \in Nat : IsFiniteSet(1..k) /\ Cardinality(1..k) = k
    BY FS_Interval
  <2>2. QED
    BY <1>1, <2>1
<1>4. Len(ticket) <= Len(states)
  <2> SUFFICES ASSUME Len(states) < Len(ticket) PROVE FALSE
    BY <1>1
  <2>1. \E f, g \in 1..Len(ticket) : f # g /\ ticket[f] = ticket[g]
    BY <1>2, <1>3, FS_PigeonHole
  <2>2. QED
    BY <1>1, <2>1 DEF Permits
<1>5. QED
  BY <1>1, <1>4

LEMMA FamiliesStayBounded == Shape' /\ Permits' => FamiliesFit'
<1>1. Shape /\ Permits => FamiliesFit
  BY FamiliesBounded DEF FamiliesFit
<1>2. QED
  BY <1>1, PTL

\* A step that opens no family and brings none back to life closes some sessions.
LEMMA ClosesSome ==
  ASSUME ticket' = ticket, \A f \in DOMAIN ticket : HasLive(f)' => HasLive(f)
  PROVE  Life!LifeNext
<1> DEFINE closing == {f \in 1..MaxStates : SessionOf(f) = "open" /\ SessionOf(f)' = "closed"}
<1>1. \A f \in 1..MaxStates :
        /\ SessionOf(f) = IF f \notin DOMAIN ticket THEN "none" ELSE IF HasLive(f) THEN "open" ELSE "closed"
        /\ SessionOf(f)' = IF f \notin DOMAIN ticket THEN "none" ELSE IF HasLive(f)' THEN "open" ELSE "closed"
  BY DEF SessionOf, HasLive
<1>2. \A f \in 1..MaxStates : SessionOf(f)' = IF f \in closing THEN "closed" ELSE SessionOf(f)
  BY <1>1
<1>3. closing \in SUBSET (1..MaxStates) /\ \A f \in closing : SessionOf(f) = "open"
  OBVIOUS
<1> HIDE DEF closing
<1>4. Life!Close(closing)
  BY <1>2, <1>3 DEF Life!Close
<1>5. QED
  BY <1>3, <1>4 DEF Life!LifeNext

\* The tables keep their tokens, revoked ones stay revoked and expired ones expired.
LEMMA RevokingCloses ==
  ASSUME Shape, ticket' = ticket, DOMAIN tokens' = DOMAIN tokens,
         expired' \in Nat, expired <= expired',
         \A t \in DOMAIN tokens : /\ tokens'[t].family = tokens[t].family
                                  /\ tokens[t].revoked => tokens'[t].revoked
  PROVE  Life!LifeNext
<1>1. DOMAIN tokens \subseteq Nat /\ expired \in Nat
  BY Tables
<1>2. ASSUME NEW t \in DOMAIN tokens, Live(t)' PROVE Live(t)
  <2>1. t > expired
    BY <1>1, <1>2 DEF Live
  <2>2. QED
    BY <1>2, <2>1 DEF Live
<1>3. ASSUME NEW f \in DOMAIN ticket, HasLive(f)' PROVE HasLive(f)
  BY <1>2, <1>3 DEF HasLive
<1>4. QED
  BY <1>3, ClosesSome

\* A token beside or in place of an active one of the same family changes no session.
LEMMA ReplacingCloses ==
  ASSUME Shape, UNCHANGED <<ticket, expired>>, NEW S, NEW t \in DOMAIN tokens, Live(t),
         tokens' = Append(Revoked(S), [family |-> tokens[t].family, revoked |-> FALSE])
  PROVE  Life!LifeNext
<1>0. PICK f, N : f = tokens[t].family /\ N = Len(tokens) + 1
  OBVIOUS
<1>1. f \in DOMAIN ticket' /\ DOMAIN ticket \subseteq DOMAIN ticket'
  BY <1>0, Tables
<1>2. /\ DOMAIN tokens' = 1..N /\ tokens'[N].family = f
      /\ \A u \in DOMAIN tokens : /\ tokens'[u].family = tokens[u].family
                                  /\ u \in S => tokens'[u].revoked
                                  /\ u \notin S => tokens'[u] = tokens[u]
  BY <1>0, <1>1, AppendedTable
<1>3. DOMAIN tokens' = DOMAIN tokens \union {N}
  BY <1>0, <1>2, Tables
<1>4. ASSUME NEW g \in DOMAIN ticket, HasLive(g)' PROVE HasLive(g)
  <2>1. PICK u \in DOMAIN tokens' : tokens'[u].family = g /\ Live(u)'
    BY <1>4 DEF HasLive
  <2>2. CASE u = N
    BY <1>0, <1>2, <2>1, <2>2 DEF HasLive
  <2>3. CASE u \in DOMAIN tokens
    <3>1. Live(u) /\ tokens[u].family = g
      BY <1>2, <2>1, <2>3 DEF Live
    <3>2. QED
      BY <2>3, <3>1 DEF HasLive
  <2>4. QED
    BY <1>3, <2>2, <2>3
<1>5. QED
  BY <1>4, ClosesSome

LEMMA CreateSessionOpens ==
  ASSUME IInv, IInv', NEW q \in Requests, CreateSession(q)
  PROVE  Life!LifeNext
<1>1. PICK n, f, N : n = requests[q].state /\ f = Len(ticket) + 1 /\ N = Len(tokens) + 1
  OBVIOUS
<1>2. /\ requests[q].pc = "consumed" /\ expired' = expired
      /\ ticket' = Append(ticket, n)
      /\ tokens' = Append(tokens, [family |-> Len(ticket'), revoked |-> FALSE])
  BY <1>1 DEF CreateSession
<1>3. Shape /\ Permits /\ Shape' /\ Permits'
  BY DEF IInv
<1>4. n \in DOMAIN states
  <2>1. RequestOK(requests[q], tokens, states)
    BY <1>3 DEF Shape
  <2>2. QED
    BY <1>1, <1>2, <2>1 DEF RequestOK, Idle, Reply
<1>5. /\ Len(ticket') = f /\ DOMAIN ticket' = DOMAIN ticket \union {f}
      /\ f \notin DOMAIN ticket /\ ticket'[f] = n
      /\ \A g \in DOMAIN ticket : ticket'[g] = ticket[g]
  <2>1. ticket \in Seq(DOMAIN states) /\ DOMAIN ticket = 1..Len(ticket) /\ Len(ticket) \in Nat
    BY <1>3, Tables DEF Shape, TypeOK
  <2>2. /\ Len(ticket') = f /\ ticket'[f] = n /\ ticket' \in Seq(DOMAIN states)
        /\ \A g \in 1..Len(ticket) : ticket'[g] = ticket[g]
    BY <1>1, <1>2, <1>4, <2>1
  <2>3. DOMAIN ticket' = 1..f
    BY <2>2
  <2>4. QED
    BY <1>1, <2>1, <2>2, <2>3
<1>6. /\ DOMAIN tokens' = DOMAIN tokens \union {N} /\ N \in Nat /\ N > expired
      /\ tokens'[N].family = f /\ ~tokens'[N].revoked
      /\ \A t \in DOMAIN tokens : tokens'[t] = tokens[t]
  <2>1. PICK S : S = {}
    OBVIOUS
  <2>2. tokens' = Append(Revoked(S), [family |-> f, revoked |-> FALSE])
    BY <1>2, <1>3, <1>5, <2>1, RevokeNothing
  <2>3. f \in DOMAIN ticket' /\ DOMAIN ticket \subseteq DOMAIN ticket'
    BY <1>5
  <2>4. /\ DOMAIN tokens' = 1..N /\ tokens'[N].family = f /\ ~tokens'[N].revoked
        /\ \A t \in DOMAIN tokens : tokens'[t] = tokens[t]
    BY <1>1, <1>3, <2>1, <2>2, <2>3, AppendedTable
  <2>5. QED
    BY <1>1, <1>3, <2>4, Tables
<1>7. f \in 1..MaxStates /\ n \in 1..MaxStates
  BY <1>3, <1>4, <1>5, FamiliesBounded, FamiliesStayBounded DEF FamiliesFit
<1>8. HasLive(f)'
  BY <1>2, <1>6 DEF HasLive, Live
<1>9. \A g \in DOMAIN ticket : HasLive(g)' <=> HasLive(g)
  <2> SUFFICES ASSUME NEW g \in DOMAIN ticket PROVE HasLive(g)' <=> HasLive(g)
    OBVIOUS
  <2>1. \A t \in DOMAIN tokens : Live(t)' <=> Live(t)
    BY <1>2, <1>6 DEF Live
  <2>2. g # f
    BY <1>5
  <2>3. ASSUME HasLive(g)' PROVE HasLive(g)
    BY <1>6, <2>1, <2>2, <2>3 DEF HasLive
  <2>4. ASSUME HasLive(g) PROVE HasLive(g)'
    BY <1>6, <2>1, <2>4 DEF HasLive
  <2>5. QED
    BY <2>3, <2>4
<1>10. /\ SessionOf(f) = "none" /\ SessionOf(f)' = "open"
       /\ \A g \in 1..MaxStates : g # f => SessionOf(g)' = SessionOf(g)
  <2>1. \A g \in 1..MaxStates :
          /\ SessionOf(g) = IF g \notin DOMAIN ticket THEN "none" ELSE IF HasLive(g) THEN "open" ELSE "closed"
          /\ SessionOf(g)' = IF g \notin DOMAIN ticket' THEN "none" ELSE IF HasLive(g)' THEN "open" ELSE "closed"
    BY DEF SessionOf, HasLive
  <2>2. QED
    BY <1>5, <1>7, <1>8, <1>9, <2>1
<1>11. n \notin {ticket[g] : g \in DOMAIN ticket}
  BY <1>1, <1>2, <1>3 DEF Permits
<1>12. {ticket'[g] : g \in DOMAIN ticket'} = {ticket[g] : g \in DOMAIN ticket} \union {n}
  BY <1>5
<1>13. Life!Open(f, n)
  BY <1>7, <1>10, <1>11, <1>12 DEF Life!Open
<1>14. QED
  BY <1>7, <1>13 DEF Life!LifeNext

LEMMA LifeStep == IInv /\ IInv' /\ [Next]_vars => [Life!LifeNext]_(Life!lifeVars)
<1> SUFFICES ASSUME IInv, IInv', [Next]_vars PROVE Life!LifeNext
  OBVIOUS
<1>1. Shape /\ expired \in Nat /\ DOMAIN tokens = 1..Len(tokens) /\ Len(tokens) \in Nat
  BY Tables DEF IInv
\* Most steps leave the tokens alone.
<1>2. ASSUME UNCHANGED <<tokens, ticket>>, expired' = expired PROVE Life!LifeNext
  BY <1>1, <1>2, RevokingCloses
<1>3. ASSUME NEW S, tokens' = Revoked(S), UNCHANGED <<ticket, expired>> PROVE Life!LifeNext
  <2>1. /\ DOMAIN tokens' = DOMAIN tokens
        /\ \A t \in DOMAIN tokens : /\ tokens'[t].family = tokens[t].family
                                    /\ t \in S => tokens'[t].revoked
                                    /\ t \notin S => tokens'[t] = tokens[t]
    BY <1>1, <1>3, RevokedTable
  <2>2. \A t \in DOMAIN tokens : /\ tokens'[t].family = tokens[t].family
                                 /\ tokens[t].revoked => tokens'[t].revoked
    BY <2>1
  <2>3. ticket' = ticket /\ expired' \in Nat /\ expired <= expired'
    BY <1>1, <1>3
  <2>4. QED
    BY <1>1, <2>1, <2>2, <2>3, RevokingCloses
<1>4. ASSUME NEW b \in Browsers, OpenLogin(b) PROVE Life!LifeNext
  BY <1>2, <1>4 DEF OpenLogin, tokenVars
<1>5. ASSUME NEW n \in DOMAIN states, StateExpires(n) PROVE Life!LifeNext
  BY <1>2, <1>5 DEF StateExpires, tokenVars
<1>6. ASSUME NEW n \in DOMAIN states, NEW q \in Requests, SendCallback(q, n) PROVE Life!LifeNext
  BY <1>2, <1>6 DEF SendCallback, Send, tokenVars
<1>7. CASE TokenExpires
  <2>1. /\ UNCHANGED <<tokens, ticket>> /\ expired' = expired + 1
    BY <1>7 DEF TokenExpires
  <2>2. expired' \in Nat /\ expired <= expired'
    BY <1>1, <2>1
  <2>3. QED
    BY <1>1, <2>1, <2>2, RevokingCloses
<1>8. ASSUME NEW q \in Requests, NEW b \in Browsers,
             SendRefresh(q, b) \/ SendLogout(q, b) \/ SendRevoke(q, b)
      PROVE  Life!LifeNext
  BY <1>2, <1>8 DEF SendRefresh, SendLogout, SendRevoke, Send, tokenVars
<1>9. ASSUME NEW q \in Requests,
             Consume(q) \/ LoginFails(q) \/ RefuseExpired(q) \/ Arrive(q) \/ Lose(q)
      PROVE  Life!LifeNext
  BY <1>2, <1>9 DEF Consume, LoginFails, RefuseExpired, Arrive, Lose, tokenVars
<1>10. ASSUME NEW q \in Requests, CreateSession(q) PROVE Life!LifeNext
  BY <1>10, CreateSessionOpens
\* What a request presents and is active is in the table.
<1>11. ASSUME NEW q \in Requests, Handles(q, "refresh"), Live(requests[q].token)
       PROVE  requests[q].token \in DOMAIN tokens
  <2>1. OnItsWay(q)
    BY <1>11 DEF Handles, OnItsWay
  <2>2. requests[q].token \in 0..Len(tokens) /\ requests[q].token > expired
    BY <1>11, <2>1, CarriedToken DEF Live
  <2>3. QED
    BY <1>1, <2>2
<1>12. ASSUME NEW q \in Requests, Rotate(q) PROVE Life!LifeNext
  <2>1. PICK t, S : t = requests[q].token /\ S = {t}
    OBVIOUS
  <2>2. /\ t \in DOMAIN tokens /\ Live(t) /\ UNCHANGED <<ticket, expired>>
        /\ tokens' = Append(Revoked(S), [family |-> tokens[t].family, revoked |-> FALSE])
    BY <1>11, <1>12, <2>1 DEF Rotate
  <2>3. QED
    BY <1>1, <2>2, ReplacingCloses
<1>13. ASSUME NEW q \in Requests, DetectReuse(q) \/ Logout(q) \/ RevokeAll(q)
       PROVE  Life!LifeNext
  BY <1>3, <1>13 DEF DetectReuse, Logout, RevokeAll
<1>14. CASE Crash
  <2>1. CASE UNCHANGED tokens
    BY <1>2, <1>14, <2>1 DEF Crash
  <2>2. CASE tokens' # tokens
    <3>1. PICK q \in Requests :
            /\ Handles(q, "refresh") /\ Live(requests[q].token)
            /\ tokens' = Append(tokens, [family |-> tokens[requests[q].token].family, revoked |-> FALSE])
      BY <1>14, <2>2 DEF Crash
    <3>2. PICK t, S : t = requests[q].token /\ S = {}
      OBVIOUS
    <3>3. /\ t \in DOMAIN tokens /\ Live(t) /\ UNCHANGED <<ticket, expired>>
          /\ tokens' = Append(Revoked(S), [family |-> tokens[t].family, revoked |-> FALSE])
      BY <1>1, <1>11, <1>14, <3>1, <3>2, RevokeNothing DEF Crash
    <3>4. QED
      BY <1>1, <3>3, ReplacingCloses
  <2>3. QED
    BY <2>1, <2>2
<1>15. CASE UNCHANGED vars
  BY <1>2, <1>15 DEF vars
<1>16. QED
  BY <1>4, <1>5, <1>6, <1>7, <1>8, <1>9, <1>10, <1>12, <1>13, <1>14, <1>15 DEF Next

\* Every step of the sessions is one of SessionLife or none: consume and the two
\* statements of rotateRefreshToken let a login permit open one session at most,
\* and what logout, reuse, expiry or a revocation closed never opens again.
THEOREM SessionsLiveAsPromised == Spec => LivesAsPromised
<1>1. Init => Life!LifeInit
  <2> SUFFICES ASSUME Init PROVE Life!LifeInit
    OBVIOUS
  <2>1. DOMAIN ticket = {}
    BY DEF Init
  <2>2. \A f \in 1..MaxStates : SessionOf(f) = "none"
    BY <2>1 DEF SessionOf
  <2>3. {ticket[f] : f \in DOMAIN ticket} = {}
    BY <2>1
  <2>4. QED
    BY <2>2, <2>3 DEF Life!LifeInit
<1>2. IInv /\ IInv' /\ [Next]_vars => [Life!LifeNext]_(Life!lifeVars)
  BY LifeStep
<1>3. QED
  BY <1>1, <1>2, Invariant, PTL DEF Spec, LivesAsPromised, Life!LifeSpec
=============================================================================
