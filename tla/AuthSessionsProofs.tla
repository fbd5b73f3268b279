------------------------- MODULE AuthSessionsProofs -------------------------
(* Proofs about AuthSessions, for any number of tabs, sessions and tokens. *)
EXTENDS AuthSessions, TLAPS

USE BoundsAssumption DEF Sessions, Requests, RealTokens

LEMMA TypeInit == Init => TypeOK
<1>1. [q \in Requests |-> Idle] \in [Requests -> {Idle}]
  OBVIOUS
<1>2. ASSUME Init
      PROVE  TypeOK
  <2>1. state \in [Sessions -> {"none", "active", "expired", "revoked"}]
    BY <1>2 DEF Init
  <2>2. current \in [Sessions -> 0 .. MaxTokens] /\ late \in [Sessions -> 0 .. failures]
    BY <1>2 DEF Init
  <2>3. jar = NoToken /\ fresh = FALSE
    BY <1>2 DEF Init
  <2>5. failures \in 0 .. MaxFailures
    BY <1>2 DEF Init
  <2>4. req = [q \in Requests |-> Idle]
    BY <1>2 DEF Init
  <2>. QED  BY <1>1, <2>1, <2>2, <2>3, <2>4, <2>5 DEF TypeOK
<1>. QED  BY <1>2

LEMMA TypeStep == TypeOK /\ [Next]_vars => TypeOK'
<1>. SUFFICES ASSUME TypeOK, [Next]_vars
              PROVE  TypeOK'
  OBVIOUS
<1>. USE DEF TypeOK
<1>1. ASSUME NEW s \in Sessions, Login(s)
      PROVE  TypeOK'
  BY <1>1 DEF Login, Token
<1>2. ASSUME NEW s \in Sessions, SessionExpires(s)
      PROVE  TypeOK'
  BY <1>2 DEF SessionExpires
<1>3. ASSUME NEW q \in Requests, Send(q)
      PROVE  TypeOK'
  BY <1>3 DEF Send
<1>4. ASSUME NEW q \in Requests, RefreshRead(q)
      PROVE  TypeOK'
  <2>. DEFINE p == IF Accepts(req[q].token) THEN "rotating" ELSE "denied"
  <2>1. req[q] \in [pc : {"presented", "rotating", "rotated", "denied"}, token : RealTokens]
    BY <1>4 DEF RefreshRead, Idle
  <2>2. req' = [req EXCEPT ![q] = [req[q] EXCEPT !.pc = p]] /\ p \in {"rotating", "denied"}
    BY <1>4 DEF RefreshRead
  <2>. HIDE DEF p
  <2>3. [req[q] EXCEPT !.pc = p]
          \in [pc : {"presented", "rotating", "rotated", "denied"}, token : RealTokens]
    BY <2>1, <2>2
  <2>. QED  BY <1>4, <2>2, <2>3 DEF RefreshRead
<1>5. ASSUME NEW q \in Requests, RefreshCommit(q)
      PROVE  TypeOK'
  <2>1. req[q].token.session \in Sessions
    BY <1>5 DEF RefreshCommit, Idle
  <2>2. current[req[q].token.session] + 1 \in 1 .. MaxTokens
    BY <1>5, <2>1 DEF RefreshCommit, Rotate
  <2>. QED  BY SMTT(30), <1>5, <2>1, <2>2 DEF RefreshCommit, Rotate, Token
<1>6. ASSUME NEW q \in Requests, NoAnswer(q)
      PROVE  TypeOK'
  BY <1>6 DEF NoAnswer
<1>12. ASSUME NEW s \in Sessions, LateCommit(s)
      PROVE  TypeOK'
  <2>1. late' \in [Sessions -> 0 .. failures']
    BY <1>12 DEF LateCommit
  <2>2. current' \in [Sessions -> 0 .. MaxTokens]
    BY <1>12 DEF LateCommit, Rotate
  <2>3. state' \in [Sessions -> {"none", "active", "expired", "revoked"}]
    BY <1>12 DEF LateCommit, Rotate
  <2>. QED  BY <1>12, <2>1, <2>2, <2>3 DEF LateCommit
<1>7. ASSUME NEW q \in Requests, ReceiveTokens(q)
      PROVE  TypeOK'
  <2>1. req[q] \in [pc : {"presented", "rotating", "rotated", "denied"}, token : RealTokens]
    BY <1>7 DEF ReceiveTokens, Idle
  <2>2. req[q].token \in RealTokens
    BY <2>1
  <2>. HIDE DEF RealTokens
  <2>. QED  BY <1>7, <2>2 DEF ReceiveTokens
<1>8. ASSUME NEW q \in Requests, ReceiveDenied(q)
      PROVE  TypeOK'
  BY <1>8 DEF ReceiveDenied
<1>9. CASE Logout
  <2>1. state' \in [Sessions -> {"none", "active", "expired", "revoked"}]
    BY <1>9 DEF Logout, Revoke
  <2>2. failures' \in 0 .. MaxFailures /\ failures <= failures'
    BY <1>9 DEF Logout
  <2>3. jar' = NoToken /\ fresh' = FALSE /\ UNCHANGED <<current, late, req>>
    BY <1>9 DEF Logout
  <2>4. late' \in [Sessions -> 0 .. failures']
    BY <2>2, <2>3
  <2>. QED  BY <2>1, <2>2, <2>3, <2>4
<1>10. CASE AccessExpires
  BY <1>10 DEF AccessExpires
<1>11. CASE UNCHANGED vars
  BY <1>11 DEF vars
<1>. QED
  BY <1>1, <1>2, <1>3, <1>4, <1>5, <1>6, <1>7, <1>8, <1>9, <1>10, <1>11, <1>12 DEF Next

\* Every variable keeps to its type, for any bounds.
THEOREM TypeCorrect == Spec => []TypeOK
BY TypeInit, TypeStep, PTL DEF Spec
-----------------------------------------------------------------------------

\* No step leaves the revoked state.
LEMMA RevokedStays ==
    ASSUME TypeOK, [Next]_vars, NEW s \in Sessions, state[s] = "revoked"
    PROVE  state'[s] = "revoked"
<1>. USE DEF TypeOK
<1>1. ASSUME NEW z \in Sessions, Login(z)
      PROVE  state'[s] = "revoked"
  BY <1>1 DEF Login
<1>2. ASSUME NEW z \in Sessions, SessionExpires(z)
      PROVE  state'[s] = "revoked"
  BY <1>2 DEF SessionExpires
<1>3. ASSUME NEW q \in Requests, RefreshCommit(q)
      PROVE  state'[s] = "revoked"
  BY <1>3 DEF RefreshCommit, Rotate
<1>7. ASSUME NEW z \in Sessions, LateCommit(z)
      PROVE  state'[s] = "revoked"
  BY <1>7 DEF LateCommit, Rotate
<1>4. CASE Logout
  BY <1>4 DEF Logout, Revoke
<1>5. ASSUME NEW q \in Requests,
             Send(q) \/ RefreshRead(q) \/ NoAnswer(q) \/ ReceiveTokens(q) \/ ReceiveDenied(q)
      PROVE  state'[s] = "revoked"
  BY <1>5 DEF Send, RefreshRead, NoAnswer, ReceiveTokens, ReceiveDenied
<1>6. CASE AccessExpires \/ UNCHANGED vars
  BY <1>6 DEF AccessExpires, vars
<1>. QED
  BY <1>1, <1>2, <1>3, <1>4, <1>5, <1>6, <1>7 DEF Next

\* A logout is final under every interleaving of rotations, late ones too, logins
\* and lost answers: no step of the system leaves the revoked state.
THEOREM LogoutsAreFinal == Spec => LogoutIsFinal
<1>1. TypeOK /\ [Next]_vars =>
        [\A s \in Sessions : state[s] = "revoked" => state'[s] = "revoked"]_vars
  BY RevokedStays
<1>. QED
  BY <1>1, TypeCorrect, PTL DEF Spec, LogoutIsFinal
-----------------------------------------------------------------------------
(* One navigation at a time *)

\* The token is not ahead of the session and behind it by lost answers only,
\* those the API has yet to commit included.
Close(token, slack) ==
    /\ token.number <= current[token.session]
    /\ current[token.session] + late[token.session] <= token.number + failures + slack

\* Prefetches are never under way; the tokens in use and the late rotations
\* belong to sessions that exist; a rotated token on its way to the jar is close
\* to its session, and so is the jar's, by one rotation less while it is under way.
OneTabInv(t) ==
    /\ \A q \in Requests \ {t} : req[q] = Idle
    /\ \A s \in Sessions : state[s] = "none" => late[s] = 0
    /\ jar # NoToken => state[jar.session] # "none"
    /\ req[t] # Idle => state[req[t].token.session] # "none"
    /\ req[t].pc = "rotated" => Close(req[t].token, 0)
    /\ jar # NoToken => Close(jar, IF req[t].pc = "rotated" THEN 1 ELSE 0)

LEMMA OneTabStep ==
    ASSUME NEW t, Tabs = {t}, TypeOK, OneTabInv(t), [Next]_vars
    PROVE  OneTabInv(t)'
<1>. USE DEF TypeOK, OneTabInv, Idle, NoToken, Close
<1>. t \in Requests
  OBVIOUS
<1>1. ASSUME NEW s \in Sessions, Login(s)
      PROVE  OneTabInv(t)'
  BY SMTT(30), <1>1 DEF Login, Token
<1>2. ASSUME NEW s \in Sessions, SessionExpires(s)
      PROVE  OneTabInv(t)'
  BY SMTT(30), <1>2 DEF SessionExpires
<1>3. ASSUME NEW q \in Requests, Send(q)
      PROVE  OneTabInv(t)'
  BY SMTT(30), <1>3 DEF Send, Rotates
<1>4. ASSUME NEW q \in Requests, RefreshRead(q)
      PROVE  OneTabInv(t)'
  BY SMTT(30), <1>4 DEF RefreshRead
<1>5. ASSUME NEW q \in Requests, RefreshCommit(q)
      PROVE  OneTabInv(t)'
  BY SMTT(30), <1>5 DEF RefreshCommit, Rotate, Token
<1>6. ASSUME NEW q \in Requests, NoAnswer(q)
      PROVE  OneTabInv(t)'
  <2>1. CASE UNCHANGED late
    BY SMTT(30), <1>6, <2>1 DEF NoAnswer
  <2>2. CASE /\ req[q].pc = "rotating"
             /\ late' = [late EXCEPT ![req[q].token.session] = @ + 1]
    <3>1. q = t /\ req'[t] = Idle /\ req[t] # Idle
      BY <1>6, <2>2 DEF NoAnswer
    <3>. DEFINE z == req[t].token.session
    <3>2. z \in Sessions /\ state[z] # "none"
      BY <1>6, <2>2, <3>1 DEF NoAnswer
    <3>3. /\ late'[z] = late[z] + 1
          /\ \A s \in Sessions \ {z} : late'[s] = late[s]
          /\ UNCHANGED <<state, current, jar>> /\ failures' = failures + 1
      BY <1>6, <2>2, <3>1, <3>2 DEF NoAnswer
    <3>4. \A x \in Requests \ {t} : req'[x] = Idle
      BY <1>6, <3>1 DEF NoAnswer
    <3>5. ASSUME jar # NoToken
          PROVE  /\ jar.number <= current[jar.session]
                 /\ current[jar.session] + late'[jar.session] <= jar.number + failures' + 0
      BY SMTT(30), <2>2, <3>1, <3>2, <3>3, <3>5
    <3>6. \A s \in Sessions : state'[s] = "none" => late'[s] = 0
      BY <3>2, <3>3
    <3>7. req'[t].pc # "rotated"
      BY <3>1
    <3>8. jar # NoToken => state[jar.session] # "none"
      OBVIOUS
    <3>. HIDE DEF z, TypeOK
    <3>. QED  BY <3>1, <3>3, <3>4, <3>5, <3>6, <3>7, <3>8
  <2>. QED  BY <1>6, <2>1, <2>2 DEF NoAnswer
<1>7. ASSUME NEW q \in Requests, ReceiveTokens(q)
      PROVE  OneTabInv(t)'
  BY SMTT(30), <1>7 DEF ReceiveTokens
<1>8. ASSUME NEW q \in Requests, ReceiveDenied(q)
      PROVE  OneTabInv(t)'
  BY SMTT(30), <1>8 DEF ReceiveDenied
<1>9. CASE Logout
  BY SMTT(30), <1>9 DEF Logout, Revoke
<1>10. CASE AccessExpires \/ UNCHANGED vars
  BY SMTT(30), <1>10 DEF AccessExpires, vars
<1>11. ASSUME NEW s \in Sessions, LateCommit(s)
      PROVE  OneTabInv(t)'
  BY SMTT(30), <1>11 DEF LateCommit, Rotate
<1>. QED
  BY <1>1, <1>2, <1>3, <1>4, <1>5, <1>6, <1>7, <1>8, <1>9, <1>10, <1>11 DEF Next

\* With one navigation at a time and any number of prefetches, the jar is behind
\* the API by no more rotations than answers were lost: by none when none was.
THEOREM OneTabKeepsItsSession ==
    ASSUME NEW t, Tabs = {t}
    PROVE  Spec => []JarMatchesSession
<1>1. TypeOK /\ Init => OneTabInv(t)
  BY DEF Init, OneTabInv, Idle
<1>2. TypeOK /\ OneTabInv(t) /\ [Next]_vars => OneTabInv(t)'
  BY OneTabStep
<1>3. TypeOK /\ OneTabInv(t) => JarMatchesSession
  BY DEF TypeOK, OneTabInv, JarMatchesSession, Close
<1>. QED
  BY <1>1, <1>2, <1>3, TypeCorrect, PTL DEF Spec
=============================================================================
