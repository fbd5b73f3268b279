---------------------------- MODULE AuthSessions ----------------------------
(***************************************************************************)
(* A browser, the web application's proxy and the API's login sessions.    *)
(* The browser has one cookie jar and several requests under way; the      *)
(* proxy trades the refresh token it finds in a request's cookies for a    *)
(* new one when the access token is about to expire; the API rotates the   *)
(* token with a read and a later write of the session row.                 *)
(*                                                                         *)
(* A refresh token is a session and a number: the API keeps the hash of    *)
(* one token per session, the latest.                                      *)
(***************************************************************************)
EXTENDS Naturals

CONSTANTS Tabs,         \* navigations that may overlap
          Prefetches,   \* link prefetches that may overlap with them
          MaxLogins,    \* bound: sessions
          MaxTokens,    \* bound: tokens of one session
          MaxFailures   \* bound: API calls without an answer

ASSUME BoundsAssumption ==
    MaxLogins \in Nat /\ MaxTokens \in Nat \ {0} /\ MaxFailures \in Nat

VARIABLES state,        \* user_sessions: active, revoked_at or expires_at
          current,      \* number of the token whose hash is in the row, the
                        \* latest generated for the session
          late,         \* rotations the API still commits although the proxy
                        \* has given up waiting for their answer
          jar,          \* the browser's refresh cookie
          fresh,        \* its access cookie has more than a minute to live
          req,          \* what each request is doing, and its cookies
          failures

vars == <<state, current, late, jar, fresh, req, failures>>

Sessions == 1 .. MaxLogins
Requests == Tabs \cup Prefetches
NoToken == [session |-> 0, number |-> 0]
Token(s, n) == [session |-> s, number |-> n]
Idle == [pc |-> "idle", token |-> NoToken]

Init ==
    /\ state = [s \in Sessions |-> "none"]
    /\ current = [s \in Sessions |-> 0]
    /\ late = [s \in Sessions |-> 0]
    /\ jar = NoToken
    /\ fresh = FALSE
    /\ req = [q \in Requests |-> Idle]
    /\ failures = 0

-----------------------------------------------------------------------------
(* The API *)

\* get_by_token_hash and _is_active
Accepts(token) ==
    /\ token.number = current[token.session]
    /\ state[token.session] = "active"

\* loginAction: a new session on every login; its tokens overwrite whatever the
\* jar still holds, and a session the jar loses that way is not revoked.
Login(s) ==
    /\ state[s] = "none"
    /\ state' = [state EXCEPT ![s] = "active"]
    /\ current' = [current EXCEPT ![s] = 1]
    /\ jar' = Token(s, 1)
    /\ fresh' = TRUE
    /\ UNCHANGED <<late, req, failures>>

\* The presented token is looked up ...
RefreshRead(q) ==
    /\ req[q].pc = "presented"
    /\ req' = [req EXCEPT ![q].pc = IF Accepts(req[q].token) THEN "rotating" ELSE "denied"]
    /\ UNCHANGED <<state, current, late, jar, fresh, failures>>

RotateRevives(s) ==                                                         \* mutant
    /\ current[s] < MaxTokens
    /\ current' = [current EXCEPT ![s] = @ + 1]
    /\ state' = [state EXCEPT ![s] = "active"]

\* ... and the session it was found in gets a new one: hash, last_used_at and
\* expires_at are written, whatever the row holds by now; revoked_at is not.
Rotate(s) ==
    /\ current[s] < MaxTokens
    /\ current' = [current EXCEPT ![s] = @ + 1]
    /\ state' = [state EXCEPT ![s] = IF @ = "expired" THEN "active" ELSE @]

RefreshCommit(q) ==
    LET s == req[q].token.session
    IN  /\ req[q].pc = "rotating"
        /\ Rotate(s)
        /\ req' = [req EXCEPT ![q] = [pc |-> "rotated", token |-> Token(s, current[s] + 1)]]
        /\ UNCHANGED <<late, jar, fresh, failures>>

\* The same for a request whose proxy no longer waits: nobody gets the token.
LateCommit(s) ==
    /\ late[s] > 0
    /\ Rotate(s)
    /\ late' = [late EXCEPT ![s] = @ - 1]
    /\ UNCHANGED <<jar, fresh, req, failures>>

\* logoutAction: the session is revoked when the API accepts the access token
\* and answers, the cookies are cleared in any case.
Revoke(s) == state' = [state EXCEPT ![s] = IF @ = "active" THEN "revoked" ELSE @]

Logout ==
    /\ jar # NoToken
    /\ \/ Revoke(jar.session) /\ UNCHANGED failures
       \/ ~fresh /\ UNCHANGED <<state, failures>>
       \/ /\ failures < MaxFailures
          /\ failures' = failures + 1
          /\ UNCHANGED state
    /\ jar' = NoToken
    /\ fresh' = FALSE
    /\ UNCHANGED <<current, late, req>>

-----------------------------------------------------------------------------
(* The proxy and the browser *)

RotatesAlways(q) == TRUE                                                    \* mutant
\* Prefetches fan out concurrently and get the current cookies as they are.
Rotates(q) == q \in Tabs

SendWithoutCookie(q) ==                                                     \* mutant
    /\ req[q].pc = "idle"
    /\ Rotates(q)
    /\ ~fresh
    /\ req' = [req EXCEPT ![q] = [pc |-> "presented", token |-> jar]]
    /\ UNCHANGED <<state, current, late, jar, fresh, failures>>

\* A request leaves with the jar's cookies; with a good access token, or as a
\* prefetch, it goes through and changes nothing.
Send(q) ==
    /\ req[q].pc = "idle"
    /\ Rotates(q)
    /\ ~fresh /\ jar # NoToken
    /\ req' = [req EXCEPT ![q] = [pc |-> "presented", token |-> jar]]
    /\ UNCHANGED <<state, current, late, jar, fresh, failures>>

\* No answer from the API, before or after it has committed the rotation: the
\* cookies stay as they are. A rotation in the middle is lost with the API, or
\* the API commits it later.
NoAnswer(q) ==
    /\ req[q].pc \in {"presented", "rotating", "rotated", "denied"}
    /\ failures < MaxFailures
    /\ failures' = failures + 1
    /\ req' = [req EXCEPT ![q] = Idle]
    /\ \/ UNCHANGED late
       \/ /\ req[q].pc = "rotating"
          /\ late' = [late EXCEPT ![req[q].token.session] = @ + 1]
    /\ UNCHANGED <<state, current, jar, fresh>>

\* The response sets the new cookies, or clears the jar on a 401.
ReceiveTokens(q) ==
    /\ req[q].pc = "rotated"
    /\ jar' = req[q].token
    /\ fresh' = TRUE
    /\ req' = [req EXCEPT ![q] = Idle]
    /\ UNCHANGED <<state, current, late, failures>>

ReceiveDenied(q) ==
    /\ req[q].pc = "denied"
    /\ jar' = NoToken
    /\ fresh' = FALSE
    /\ req' = [req EXCEPT ![q] = Idle]
    /\ UNCHANGED <<state, current, late, failures>>

-----------------------------------------------------------------------------
(* Time *)

AccessExpires ==
    /\ fresh
    /\ fresh' = FALSE
    /\ UNCHANGED <<state, current, late, jar, req, failures>>

\* refresh_token_ttl_days without a refresh
SessionExpires(s) ==
    /\ state[s] = "active"
    /\ state' = [state EXCEPT ![s] = "expired"]
    /\ UNCHANGED <<current, late, jar, fresh, req, failures>>

-----------------------------------------------------------------------------

Next ==
    \/ \E s \in Sessions : Login(s) \/ SessionExpires(s) \/ LateCommit(s)
    \/ \E q \in Requests :
        \/ Send(q)
        \/ RefreshRead(q)
        \/ RefreshCommit(q)
        \/ NoAnswer(q)
        \/ ReceiveTokens(q)
        \/ ReceiveDenied(q)
    \/ Logout
    \/ AccessExpires

Spec == Init /\ [][Next]_vars
-----------------------------------------------------------------------------

RealTokens == [session : Sessions, number : 1 .. MaxTokens]

TypeOK ==
    /\ state \in [Sessions -> {"none", "active", "expired", "revoked"}]
    /\ current \in [Sessions -> 0 .. MaxTokens]
    /\ late \in [Sessions -> 0 .. failures]
    /\ jar \in {NoToken} \cup RealTokens
    /\ fresh \in BOOLEAN
    /\ req \in [Requests -> {Idle} \cup
            [pc : {"presented", "rotating", "rotated", "denied"}, token : RealTokens]]
    /\ failures \in 0 .. MaxFailures

\* A logout is final: a rotation that read the session before it was revoked and
\* is written afterwards does not bring it back.
LogoutIsFinal ==
    [][\A s \in Sessions : state[s] = "revoked" => state'[s] = "revoked"]_vars

\* One navigation at a time, whatever is prefetched meanwhile: between answers
\* the jar holds the token the API expects, and it falls behind by lost answers
\* only, by no more than one rotation for each of them.
JarMatchesSession ==
    jar # NoToken /\ (\A q \in Requests : req[q].pc # "rotated") =>
        /\ jar.number <= current[jar.session]
        /\ current[jar.session] <= jar.number + failures
-----------------------------------------------------------------------------
(* What the documentation says and the code does not do *)

\* A 401 on a refresh: "refresh token revoked/expired; only a re-login helps"
\* (apps/web/src/proxy.ts:47).
DeniedMeansDead ==
    [][\A q \in Requests :
        req[q].pc = "presented" /\ req'[q].pc = "denied" =>
            state[req[q].token.session] # "active"]_vars
=============================================================================
