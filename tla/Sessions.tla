------------------------------ MODULE Sessions ------------------------------
(***************************************************************************)
(* The sessions of one user: OAuth logins (logic-commons lib/oauth.ts,     *)
(* lib/state-store.ts), the refresh tokens behind them (lib/refresh-store  *)
(* .ts) and the routes that rotate and revoke them (routes/login.ts).      *)
(*                                                                         *)
(* Every browser of the user holds at most one refresh token, in a cookie. *)
(* A request carries the cookie of the moment it is sent, the answer sets  *)
(* or clears it when it arrives; requests of one browser may overlap and   *)
(* answers may be lost or overtake each other.  The statements a handler   *)
(* runs between two awaits are not interrupted, except by the process      *)
(* dying.  Tokens are numbered as they are issued, which is also the order *)
(* they expire in, and families as they are opened.                        *)
(***************************************************************************)
EXTENDS Naturals, Sequences

CONSTANTS
  Browsers,     \* the user's browsers
  Requests,     \* bound: requests on their way at once
  MaxTokens,    \* bound: rows of refresh_tokens
  MaxStates     \* bound: rows of oauth_state

ASSUME SessionAssumption == MaxTokens \in Nat /\ MaxStates \in Nat

VARIABLES
  tokens,      \* refresh_tokens
  ticket,      \* the OAuth state each family was opened with
  expired,     \* the tokens up to this one are past expires_at
  states,      \* oauth_state
  cookie,      \* pj_refresh of each browser; 0: none
  requests,    \* what is on its way
  torn,        \* history: families a crash caught in the middle of a rotation
  disturbed,   \* history: browsers that overlapped requests, lost an answer or
               \* were signed out by another one
  wronged      \* history: one that was none of these was told token_reuse_detected

vars == <<tokens, ticket, expired, states, cookie, requests, torn, disturbed, wronged>>
tokenVars == <<tokens, ticket, expired>>
historyVars == <<torn, disturbed, wronged>>

Token == [family : 1..MaxStates, revoked : BOOLEAN]
State == [browser : Browsers, usable : BOOLEAN]   \* neither used nor expired

\* token: the cookie sent along, if it is read; state: the query parameter of a callback.
\* sets: nothing, or the token the answer puts into the cookie, 0 to clear it.
Idle == [pc |-> "idle"]
Request == [pc : {"sent", "consumed"}, browser : Browsers, token : 0..MaxTokens,
            kind : {"callback", "refresh", "logout", "revoke"}, state : 0..MaxStates]
Reply == [pc : {"answered"}, browser : Browsers, sets : SUBSET (0..MaxTokens)]

Live(t) == t > expired /\ ~tokens[t].revoked

Init ==
  /\ tokens = <<>> /\ ticket = <<>> /\ expired = 0
  /\ states = <<>>
  /\ cookie = [b \in Browsers |-> 0]
  /\ requests = [q \in Requests |-> Idle]
  /\ torn = {} /\ disturbed = {} /\ wronged = FALSE

\* GET /auth/<provider>/login: OAuthStateStore.create.
OpenLogin(b) ==
  /\ Len(states) < MaxStates
  /\ states' = Append(states, [browser |-> b, usable |-> TRUE])
  /\ UNCHANGED <<cookie, requests>> /\ UNCHANGED tokenVars /\ UNCHANGED historyVars

\* Ten minutes pass; prune deletes what consume refuses already.
StateExpires(n) ==
  /\ states' = [states EXCEPT ![n].usable = FALSE]
  /\ UNCHANGED <<cookie, requests>> /\ UNCHANGED tokenVars /\ UNCHANGED historyVars

\* Seven days pass.
TokenExpires ==
  /\ expired < Len(tokens)
  /\ expired' = expired + 1
  /\ UNCHANGED <<tokens, ticket, states, cookie, requests>> /\ UNCHANGED historyVars

Busy(b) == \E q \in Requests : requests[q].pc # "idle" /\ requests[q].browser = b

Send(q, kind, b, token, n) ==
  /\ requests[q] = Idle
  /\ requests' = [requests EXCEPT ![q] =
       [pc |-> "sent", browser |-> b, token |-> token, kind |-> kind, state |-> n]]
  /\ disturbed' = IF Busy(b) THEN disturbed \union {b} ELSE disturbed
  /\ UNCHANGED <<states, cookie, torn, wronged>> /\ UNCHANGED tokenVars

\* The provider redirects the browser back; a reload does so once more.
SendCallback(q, n) == Send(q, "callback", states[n].browser, 0, n)
SendRefresh(q, b) == cookie[b] # 0 /\ Send(q, "refresh", b, cookie[b], 0)
SendLogout(q, b) == cookie[b] # 0 /\ Send(q, "logout", b, cookie[b], 0)
SendRevoke(q, b) == Send(q, "revoke", b, 0, 0)

Handles(q, kind) == requests[q].pc = "sent" /\ requests[q].kind = kind

Answered(q, sets) ==
  requests' = [requests EXCEPT ![q] =
                 [pc |-> "answered", browser |-> requests[q].browser, sets |-> sets]]

\* OAuthStateStore.consume, then the provider is asked.
Consume(q) ==
  /\ Handles(q, "callback")
  /\ LET n == requests[q].state IN
     IF states[n].usable
     THEN /\ states' = [states EXCEPT ![n].usable = FALSE]
          /\ requests' = [requests EXCEPT ![q].pc = "consumed"]
     ELSE Answered(q, {}) /\ UNCHANGED states
  /\ UNCHANGED <<cookie>> /\ UNCHANGED tokenVars /\ UNCHANGED historyVars

\* The provider refuses the code or cannot be reached, or the user is unknown.
LoginFails(q) ==
  /\ requests[q].pc = "consumed"
  /\ Answered(q, {})
  /\ UNCHANGED <<states, cookie>> /\ UNCHANGED tokenVars /\ UNCHANGED historyVars

\* createSessionAndSetCookies: the first token of a new family.
CreateSession(q) ==
  /\ requests[q].pc = "consumed" /\ Len(tokens) < MaxTokens
  /\ ticket' = Append(ticket, requests[q].state)
  /\ tokens' = Append(tokens, [family |-> Len(ticket'), revoked |-> FALSE])
  /\ Answered(q, {Len(tokens')})
  /\ UNCHANGED <<expired, states, cookie>> /\ UNCHANGED historyVars

Revoked(revoking) ==
  [t \in DOMAIN tokens |->
     IF t \in revoking THEN [tokens[t] EXCEPT !.revoked = TRUE] ELSE tokens[t]]

FamilyOf(t) == {u \in DOMAIN tokens : tokens[u].family = tokens[t].family}

\* Mutant: the replaced token stays active.
RotateBeside(q) ==
  /\ Handles(q, "refresh") /\ Live(requests[q].token) /\ Len(tokens) < MaxTokens
  /\ tokens' = Append(tokens, [family |-> tokens[requests[q].token].family, revoked |-> FALSE])
  /\ Answered(q, {Len(tokens')})
  /\ UNCHANGED <<ticket, expired, states, cookie>> /\ UNCHANGED historyVars

\* Mutant: revoked_at is not looked at.
RotateRevoked(q) ==
  /\ Handles(q, "refresh") /\ requests[q].token > expired /\ Len(tokens) < MaxTokens
  /\ LET t == requests[q].token IN
     tokens' = Append(Revoked({t}), [family |-> tokens[t].family, revoked |-> FALSE])
  /\ Answered(q, {Len(tokens')})
  /\ UNCHANGED <<ticket, expired, states, cookie>> /\ UNCHANGED historyVars

\* POST /refresh, rotateRefreshToken: an active token is replaced.
Rotate(q) ==
  /\ Handles(q, "refresh") /\ Live(requests[q].token) /\ Len(tokens) < MaxTokens
  /\ LET t == requests[q].token IN
     tokens' = Append(Revoked({t}), [family |-> tokens[t].family, revoked |-> FALSE])
  /\ Answered(q, {Len(tokens')})
  /\ UNCHANGED <<ticket, expired, states, cookie>> /\ UNCHANGED historyVars

\* A revoked one ends its family ...
DetectReuse(q) ==
  /\ Handles(q, "refresh")
  /\ LET t == requests[q].token IN
     /\ t > expired /\ tokens[t].revoked
     /\ tokens' = Revoked(FamilyOf(t))
  /\ Answered(q, {0})
  /\ wronged' = (wronged \/ requests[q].browser \notin disturbed)
  /\ UNCHANGED <<ticket, expired, states, cookie, torn, disturbed>>

\* ... and an expired one, revoked or not, is refused and left in the cookie.
RefuseExpired(q) ==
  /\ Handles(q, "refresh") /\ requests[q].token <= expired
  /\ Answered(q, {})
  /\ UNCHANGED <<states, cookie>> /\ UNCHANGED tokenVars /\ UNCHANGED historyVars

\* Mutant: the answer does not clear the cookie.
LogoutQuietly(q) ==
  /\ Handles(q, "logout")
  /\ tokens' = Revoked({requests[q].token} \ (1..expired))
  /\ Answered(q, {})
  /\ UNCHANGED <<ticket, expired, states, cookie>> /\ UNCHANGED historyVars

\* POST /auth/logout: revokeRefreshToken on the token sent, if it still verifies.
Logout(q) ==
  /\ Handles(q, "logout")
  /\ tokens' = Revoked({requests[q].token} \ (1..expired))
  /\ Answered(q, {0})
  /\ UNCHANGED <<ticket, expired, states, cookie>> /\ UNCHANGED historyVars

\* POST /auth/revoke: revokeAllForUser.
RevokeAll(q) ==
  /\ Handles(q, "revoke")
  /\ tokens' = Revoked(DOMAIN tokens)
  /\ Answered(q, {0})
  /\ disturbed' = disturbed \union (Browsers \ {requests[q].browser})
  /\ UNCHANGED <<ticket, expired, states, cookie, torn, wronged>>

\* The answer arrives and its Set-Cookie takes effect ...
Arrive(q) ==
  /\ requests[q].pc = "answered"
  /\ cookie' = [cookie EXCEPT ![requests[q].browser] =
                  IF requests[q].sets = {} THEN @ ELSE CHOOSE t \in requests[q].sets : TRUE]
  /\ requests' = [requests EXCEPT ![q] = Idle]
  /\ UNCHANGED <<states>> /\ UNCHANGED tokenVars /\ UNCHANGED historyVars

\* ... or is lost.
Lose(q) ==
  /\ requests[q].pc = "answered"
  /\ requests' = [requests EXCEPT ![q] = Idle]
  /\ disturbed' = disturbed \union {requests[q].browser}
  /\ UNCHANGED <<states, cookie, torn, wronged>> /\ UNCHANGED tokenVars

\* The process dies with every request; it may have inserted the new token of a
\* rotation and not yet revoked the old one.
Crash ==
  /\ \E q \in Requests : requests[q] # Idle
  /\ requests' = [q \in Requests |-> Idle]
  /\ disturbed' = disturbed \union {b \in Browsers : Busy(b)}
  /\ \/ UNCHANGED <<tokens, torn>>
     \/ \E q \in Requests :
          /\ Handles(q, "refresh") /\ Live(requests[q].token) /\ Len(tokens) < MaxTokens
          /\ LET f == tokens[requests[q].token].family IN
             /\ tokens' = Append(tokens, [family |-> f, revoked |-> FALSE])
             /\ torn' = torn \union {f}
  /\ UNCHANGED <<ticket, expired, states, cookie, wronged>>

Next ==
  \/ \E b \in Browsers : OpenLogin(b)
  \/ \E n \in DOMAIN states : StateExpires(n) \/ \E q \in Requests : SendCallback(q, n)
  \/ TokenExpires
  \/ \E q \in Requests, b \in Browsers : SendRefresh(q, b) \/ SendLogout(q, b) \/ SendRevoke(q, b)
  \/ \E q \in Requests :
       \/ Consume(q) \/ LoginFails(q) \/ CreateSession(q)
       \/ Rotate(q) \/ DetectReuse(q) \/ RefuseExpired(q) \/ Logout(q) \/ RevokeAll(q)
       \/ Arrive(q) \/ Lose(q)
  \/ Crash

Spec == Init /\ [][Next]_vars

-----------------------------------------------------------------------------
\* Types; every token belongs to a family that a login opened, and what a browser
\* or a request carries has been issued.
TypeOK ==
  /\ tokens \in Seq([family : DOMAIN ticket, revoked : BOOLEAN]) /\ Len(tokens) <= MaxTokens
  /\ ticket \in Seq(DOMAIN states) /\ expired \in 0..Len(tokens)
  /\ states \in Seq(State) /\ Len(states) <= MaxStates
  /\ cookie \in [Browsers -> 0..Len(tokens)]
  /\ \A q \in Requests :
       \/ requests[q] = Idle
       \/ /\ requests[q] \in Request /\ requests[q].token <= Len(tokens)
          /\ requests[q].kind = "callback" <=> requests[q].state \in DOMAIN states
       \/ requests[q] \in Reply /\ requests[q].sets \subseteq 0..Len(tokens)
  /\ torn \subseteq DOMAIN ticket /\ disturbed \subseteq Browsers /\ wronged \in BOOLEAN

\* A rotation replaces: a family has one active token at most, unless a crash came
\* between the two statements of rotateRefreshToken.
OneLivePerFamily ==
  \A t, u \in DOMAIN tokens :
    (Live(t) /\ Live(u) /\ tokens[t].family = tokens[u].family) =>
      t = u \/ tokens[t].family \in torn

\* A browser that sends one request at a time, gets its answers and is not signed
\* out by another one never meets token_reuse_detected (FEATURES.md:83 takes a
\* replay for theft).
QuietBrowsersAreTrusted == ~wronged

\* A family is open while it has an active token.
SessionOf(f) ==
  IF f \notin DOMAIN ticket THEN "none"
  ELSE IF \E t \in DOMAIN tokens : tokens[t].family = f /\ Live(t) THEN "open"
  ELSE "closed"

Life == INSTANCE SessionLife
          WITH Families <- 1..MaxStates, Permits <- 1..MaxStates,
               session <- [f \in 1..MaxStates |-> SessionOf(f)],
               spent <- {ticket[f] : f \in DOMAIN ticket}

\* Each login permit opens one session and a closed one never opens again, whatever
\* is replayed, lost or in flight: every step is a step of SessionLife, or none.
LivesAsPromised == Life!LifeSpec
=============================================================================
