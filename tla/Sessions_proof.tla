--------------------------- MODULE Sessions_proof ---------------------------
(***************************************************************************)
(* Theorems about Sessions, for any number of tabs, any times and bounds:  *)
(* a refresh token is swapped at most once; with the browser's lock        *)
(* refreshing never loses the cookie of a signed-in browser; and what the  *)
(* browser does leaves the session of another device alone.                *)
(***************************************************************************)
EXTENDS Sessions, TLAPS

Doc == [token : Nat, previous : Nat, rotatedAt : Nat, createdAt : Nat, expiresAt : Nat]
Steps == {"none", "lock", "sent", "user", "reuse", "answered", "refused",
          "login", "granted", "logout", "revoked"}
Request == [step : Steps, token : Nat, answer : Nat]

\* The types the two theorems need; they leave the bounds out.
Typed ==
    /\ sessions \subseteq Doc
    /\ cookie \in Nat
    /\ refresh \in [Tabs -> Request]
    /\ sign \in [Tabs -> Request]
    /\ tab \in [Tabs -> {"boot", "in", "out"}]
    /\ issued \in Nat
    /\ swapped \subseteq 1 .. issued
    /\ signedOut \in BOOLEAN
    /\ now \in Nat
    /\ failures \in Nat

\* Every session's token is its own, issued, and not yet swapped.
TokensOK ==
    /\ \A s \in sessions : s.token \in 1 .. issued /\ s.token \notin swapped
    /\ \A s, o \in sessions : s.token = o.token => s = o

SafeInv == Typed /\ TokensOK

-----------------------------------------------------------------------------
(* Requests *)

\* The requests f become g: the one of t is now as given, the others are as before.
Moves(f, g, t, step, token, answer) ==
    /\ g \in [Tabs -> Request]
    /\ g[t].step = step /\ g[t].token = token /\ g[t].answer = answer
    /\ \A o \in Tabs \ {t} : g[o] = f[o]

LEMMA SetRequest ==
  ASSUME NEW f \in [Tabs -> Request], NEW t \in Tabs,
         NEW s \in Steps, NEW k \in Nat, NEW a \in Nat
  PROVE  Moves(f, [f EXCEPT ![t] = [step |-> s, token |-> k, answer |-> a]], t, s, k, a)
<1> DEFINE r == [step |-> s, token |-> k, answer |-> a]
<1>1. r \in Request /\ r.step = s /\ r.token = k /\ r.answer = a
  BY DEF Request
<1> HIDE DEF r
<1>2. Moves(f, [f EXCEPT ![t] = r], t, s, k, a)
  BY <1>1 DEF Moves
<1> QED BY <1>2 DEF r

LEMMA SetStep ==
  ASSUME NEW f \in [Tabs -> Request], NEW t \in Tabs, NEW s \in Steps
  PROVE  Moves(f, [f EXCEPT ![t].step = s], t, s, f[t].token, f[t].answer)
<1> DEFINE r == [f[t] EXCEPT !.step = s]
<1>1. r \in Request /\ r.step = s /\ r.token = f[t].token /\ r.answer = f[t].answer
  BY DEF Request
<1>2. [f EXCEPT ![t].step = s] = [f EXCEPT ![t] = r]
  OBVIOUS
<1> HIDE DEF r
<1> QED BY <1>1, <1>2 DEF Moves

LEMMA SetAnswer ==
  ASSUME NEW f \in [Tabs -> Request], NEW t \in Tabs, NEW s \in Steps, NEW a \in Nat
  PROVE  Moves(f, [f EXCEPT ![t].step = s, ![t].answer = a], t, s, f[t].token, a)
<1> DEFINE g == [f EXCEPT ![t].step = s]
           r == [g[t] EXCEPT !.answer = a]
<1>1. Moves(f, g, t, s, f[t].token, f[t].answer)
  BY SetStep
<1>2. [f EXCEPT ![t].step = s, ![t].answer = a] = [g EXCEPT ![t].answer = a]
  OBVIOUS
<1> HIDE DEF g
<1>3. r \in Request /\ r.step = s /\ r.token = f[t].token /\ r.answer = a
  BY <1>1 DEF Moves, Request
<1>4. [g EXCEPT ![t].answer = a] = [g EXCEPT ![t] = r]
  OBVIOUS
<1> HIDE DEF r
<1> QED BY <1>1, <1>2, <1>3, <1>4 DEF Moves

\* What each step does to the requests.
LEMMA RequestsMove ==
  ASSUME Typed, NEW t \in Tabs
  PROVE  /\ BeginRefresh(t) => Moves(refresh, refresh', t, "lock", refresh[t].token, refresh[t].answer)
         /\ SendRefresh(t) => Moves(refresh, refresh', t, "sent", cookie, NoToken)
         /\ RefreshDone(t) \/ RefreshRefused(t) \/ RefreshLost(t)
              => Moves(refresh, refresh', t, "none", NoToken, NoToken)
         /\ Rotate(t) => Moves(refresh, refresh', t, "user", refresh[t].token, issued + 1)
         /\ RotateMiss(t) =>
              Moves(refresh, refresh', t,
                    IF refresh[t].token = NoToken THEN "refused" ELSE "reuse",
                    refresh[t].token, refresh[t].answer)
         /\ ReuseCheck(t) \/ ReadUserFails(t) \/ RefreshFails(t)
              => Moves(refresh, refresh', t, "refused", refresh[t].token, refresh[t].answer)
         /\ ReadUser(t) => Moves(refresh, refresh', t, "answered", refresh[t].token, refresh[t].answer)
         /\ Login(t) => Moves(sign, sign', t, "login", sign[t].token, sign[t].answer)
         /\ StartSession(t) => Moves(sign, sign', t, "granted", sign[t].token, issued + 1)
         /\ Logout(t) => Moves(sign, sign', t, "logout", cookie, NoToken)
         /\ Revoke(t) => Moves(sign, sign', t, "revoked", sign[t].token, sign[t].answer)
         /\ LoginDone(t) \/ LogoutDone(t) \/ SignLost(t)
              => Moves(sign, sign', t, "none", NoToken, NoToken)
<1> USE DEF Typed
<1>0. /\ refresh[t].token \in Nat /\ refresh[t].answer \in Nat
      /\ sign[t].token \in Nat /\ sign[t].answer \in Nat
      /\ NoToken \in Nat /\ issued + 1 \in Nat
  BY DEF Request, NoToken
<1>1. ASSUME BeginRefresh(t)
      PROVE  Moves(refresh, refresh', t, "lock", refresh[t].token, refresh[t].answer)
  <2>1. "lock" \in Steps BY DEF Steps
  <2> QED BY <1>1, <2>1, SetStep DEF BeginRefresh
<1>2. ASSUME SendRefresh(t) PROVE Moves(refresh, refresh', t, "sent", cookie, NoToken)
  <2>1. "sent" \in Steps BY DEF Steps
  <2> QED BY <1>0, <1>2, <2>1, SetRequest DEF SendRefresh
<1>3. ASSUME RefreshDone(t) \/ RefreshRefused(t) \/ RefreshLost(t)
      PROVE  Moves(refresh, refresh', t, "none", NoToken, NoToken)
  <2>1. "none" \in Steps BY DEF Steps
  <2> QED BY <1>0, <1>3, <2>1, SetRequest DEF RefreshDone, RefreshRefused, RefreshLost, NoRequest
<1>4. ASSUME Rotate(t) PROVE Moves(refresh, refresh', t, "user", refresh[t].token, issued + 1)
  <2>1. "user" \in Steps BY DEF Steps
  <2>2. refresh' = [refresh EXCEPT ![t].step = "user", ![t].answer = issued + 1]
    BY <1>4 DEF Rotate
  <2> QED BY <1>0, <2>1, <2>2, SetAnswer
<1>5. ASSUME RotateMiss(t)
      PROVE  Moves(refresh, refresh', t,
                   IF refresh[t].token = NoToken THEN "refused" ELSE "reuse",
                   refresh[t].token, refresh[t].answer)
  <2> DEFINE s == IF refresh[t].token = NoToken THEN "refused" ELSE "reuse"
  <2>1. s \in Steps BY DEF Steps
  <2>2. refresh' = [refresh EXCEPT ![t].step = s] BY <1>5 DEF RotateMiss
  <2> HIDE DEF s
  <2>3. Moves(refresh, refresh', t, s, refresh[t].token, refresh[t].answer)
    BY <2>1, <2>2, SetStep
  <2> QED BY <2>3 DEF s
<1>6. ASSUME ReuseCheck(t) \/ ReadUserFails(t) \/ RefreshFails(t)
      PROVE  Moves(refresh, refresh', t, "refused", refresh[t].token, refresh[t].answer)
  <2>1. "refused" \in Steps BY DEF Steps
  <2> QED BY <1>6, <2>1, SetStep DEF ReuseCheck, ReadUserFails, RefreshFails
<1>7. ASSUME ReadUser(t)
      PROVE  Moves(refresh, refresh', t, "answered", refresh[t].token, refresh[t].answer)
  <2>1. "answered" \in Steps BY DEF Steps
  <2> QED BY <1>7, <2>1, SetStep DEF ReadUser
<1>8. ASSUME Login(t) PROVE Moves(sign, sign', t, "login", sign[t].token, sign[t].answer)
  <2>1. "login" \in Steps BY DEF Steps
  <2> QED BY <1>8, <2>1, SetStep DEF Login
<1>9. ASSUME StartSession(t) PROVE Moves(sign, sign', t, "granted", sign[t].token, issued + 1)
  <2>1. "granted" \in Steps BY DEF Steps
  <2> QED BY <1>0, <1>9, <2>1, SetAnswer DEF StartSession
<1>10. ASSUME Logout(t) PROVE Moves(sign, sign', t, "logout", cookie, NoToken)
  <2>1. "logout" \in Steps BY DEF Steps
  <2> QED BY <1>0, <1>10, <2>1, SetRequest DEF Logout
<1>11. ASSUME Revoke(t) PROVE Moves(sign, sign', t, "revoked", sign[t].token, sign[t].answer)
  <2>1. "revoked" \in Steps BY DEF Steps
  <2> QED BY <1>11, <2>1, SetStep DEF Revoke
<1>12. ASSUME LoginDone(t) \/ LogoutDone(t) \/ SignLost(t)
       PROVE  Moves(sign, sign', t, "none", NoToken, NoToken)
  <2>1. "none" \in Steps BY DEF Steps
  <2> QED BY <1>0, <1>12, <2>1, SetRequest DEF LoginDone, LogoutDone, SignLost, NoRequest
<1> HIDE DEF Typed
<1> QED BY <1>1, <1>2, <1>3, <1>4, <1>5, <1>6, <1>7, <1>8, <1>9, <1>10, <1>11, <1>12

-----------------------------------------------------------------------------
(* Types and tokens *)

LEMMA InitSafe == Init => SafeInv
<1> SUFFICES ASSUME Init PROVE SafeInv OBVIOUS
<1> DEFINE first == NewSession(Elsewhere)
<1>1. first.token = 1 /\ first \in Doc
  BY TimesAssumption DEF Init, NewSession, Elsewhere, NoToken, Doc
<1>2. NoRequest \in Request
  BY DEF NoRequest, Request, NoToken, Steps
<1>3. sessions = {first}
  BY DEF Init
<1> HIDE DEF first
<1>4. Typed
  BY <1>1, <1>2, <1>3 DEF Init, Typed, NoToken, Elsewhere
<1>5. TokensOK
  BY <1>1, <1>3 DEF Init, TokensOK, Elsewhere
<1> QED BY <1>4, <1>5 DEF SafeInv

\* What a step may do to the sessions: drop some, swap the token of one for a new
\* token, or add one with a new token.
Dropped == sessions' \subseteq sessions /\ UNCHANGED <<issued, swapped>>
SwapOne ==
    \E s \in sessions :
      /\ issued' = issued + 1
      /\ swapped' = swapped \cup {s.token}
      /\ sessions' = (sessions \ {s}) \cup {Swapped(s, s.token, issued + 1)}
AddOne ==
    /\ issued' = issued + 1
    /\ sessions' = sessions \cup {NewSession(issued + 1)}
    /\ UNCHANGED swapped

LEMMA SessionsChange ==
  ASSUME SafeInv, [Next]_vars PROVE Dropped \/ SwapOne \/ AddOne
<1>1. ASSUME NEW t \in Tabs, Rotate(t) PROVE SwapOne
  BY <1>1 DEF Rotate, SwapOne, Rotatable
<1>2. ASSUME NEW t \in Tabs, StartSession(t) PROVE AddOne
  BY <1>2 DEF StartSession, AddOne, history
<1>3. ASSUME NEW t \in Tabs,
             \/ BeginRefresh(t) \/ SendRefresh(t) \/ RefreshDone(t) \/ RefreshRefused(t)
             \/ RotateMiss(t) \/ ReadUser(t) \/ RefreshLost(t) \/ Login(t) \/ LoginDone(t)
             \/ Logout(t) \/ LogoutDone(t) \/ SignLost(t) \/ Reload(t)
      PROVE  Dropped
  BY <1>3 DEF BeginRefresh, SendRefresh, RefreshDone, RefreshRefused, RotateMiss, ReadUser,
              RefreshLost, Login, LoginDone, Logout, LogoutDone, SignLost, Reload, Dropped,
              server, history
<1>4. ASSUME NEW t \in Tabs, ReuseCheck(t) \/ ReadUserFails(t) \/ RefreshFails(t) \/ Revoke(t)
      PROVE  Dropped
  BY <1>4 DEF ReuseCheck, ReadUserFails, RefreshFails, Revoke, Dropped, OwnSession, server, history
<1>5. CASE Tick \/ Expire \/ UNCHANGED vars
  BY <1>5 DEF Tick, Expire, Dropped, server, history, vars
<1> QED BY <1>1, <1>2, <1>3, <1>4, <1>5 DEF Next, RefreshStep, SignStep

\* The rest of the state keeps its types.
RestTyped ==
    /\ refresh \in [Tabs -> Request] /\ sign \in [Tabs -> Request]
    /\ cookie \in Nat /\ tab \in [Tabs -> {"boot", "in", "out"}]
    /\ signedOut \in BOOLEAN /\ now \in Nat /\ failures \in Nat

LEMMA RestStaysTyped ==
  ASSUME SafeInv, [Next]_vars PROVE RestTyped'
<1>0. RestTyped /\ Typed
  BY DEF SafeInv, Typed, RestTyped
<1>1. ASSUME NEW t \in Tabs,
             \/ BeginRefresh(t) \/ SendRefresh(t) \/ Rotate(t) \/ RotateMiss(t)
             \/ ReuseCheck(t) \/ ReadUser(t) \/ ReadUserFails(t) \/ RefreshFails(t)
      PROVE  RestTyped'
  <2>1. refresh' \in [Tabs -> Request]
    BY <1>0, <1>1, RequestsMove DEF Moves
  <2>2. UNCHANGED <<browser, sign, signedOut, now>> /\ failures' \in Nat
    BY <1>0, <1>1 DEF RestTyped, BeginRefresh, SendRefresh, Rotate, RotateMiss, ReuseCheck, ReadUser,
                      ReadUserFails, RefreshFails, clock, history
  <2> QED BY <1>0, <2>1, <2>2 DEF RestTyped, browser
<1>2. ASSUME NEW t \in Tabs, RefreshDone(t) \/ RefreshRefused(t) \/ RefreshLost(t)
      PROVE  RestTyped'
  <2>1. refresh' \in [Tabs -> Request]
    BY <1>0, <1>2, RequestsMove DEF Moves
  <2>2. UNCHANGED <<sign, signedOut, now>> /\ failures' \in {failures, failures + 1}
    BY <1>2 DEF RefreshDone, RefreshRefused, RefreshLost, clock, history
  <2>3. refresh[t].answer \in Nat
    BY <1>0 DEF RestTyped, Request
  <2>4. cookie' \in Nat
    BY <1>0, <1>2, <2>3 DEF RestTyped, RefreshDone, RefreshRefused, RefreshLost, NoToken
  <2>5. tab' = [tab EXCEPT ![t] = "in"] \/ tab' = [tab EXCEPT ![t] = "out"]
    BY <1>2 DEF RefreshDone, RefreshRefused, RefreshLost
  <2>6. tab' \in [Tabs -> {"boot", "in", "out"}]
    BY <1>0, <2>5 DEF RestTyped
  <2> QED BY <1>0, <2>1, <2>2, <2>4, <2>6 DEF RestTyped
<1>3. ASSUME NEW t \in Tabs,
             Login(t) \/ StartSession(t) \/ LoginDone(t) \/ Logout(t) \/ Revoke(t)
             \/ LogoutDone(t) \/ SignLost(t)
      PROVE  RestTyped'
  <2>1. sign' \in [Tabs -> Request]
    BY <1>0, <1>3, RequestsMove DEF Moves
  <2>2. UNCHANGED <<refresh, now>> /\ failures' \in {failures, failures + 1}
        /\ signedOut' \in {signedOut, TRUE}
    BY <1>3 DEF Login, StartSession, LoginDone, Logout, Revoke, LogoutDone, SignLost, clock, history
  <2>3. sign[t].answer \in Nat
    BY <1>0 DEF RestTyped, Request
  <2>4. cookie' \in {cookie, sign[t].answer, 0}
    BY <1>3 DEF Login, StartSession, LoginDone, Logout, Revoke, LogoutDone, SignLost, NoToken, browser
  <2>5. tab' = tab \/ tab' = [tab EXCEPT ![t] = "in"] \/ tab' = [tab EXCEPT ![t] = "out"]
    BY <1>3 DEF Login, StartSession, LoginDone, Logout, Revoke, LogoutDone, SignLost, browser
  <2>6. tab' \in [Tabs -> {"boot", "in", "out"}]
    BY <1>0, <2>5 DEF RestTyped
  <2>7. cookie' \in Nat /\ failures' \in Nat
    BY <1>0, <2>2, <2>3, <2>4 DEF RestTyped
  <2>8. signedOut' \in BOOLEAN
    BY <1>0, <2>2 DEF RestTyped
  <2> QED BY <1>0, <2>1, <2>2, <2>6, <2>7, <2>8 DEF RestTyped
<1>4. ASSUME NEW t \in Tabs, Reload(t) PROVE RestTyped'
  BY <1>0, <1>4 DEF RestTyped, Reload, clock, history
<1>5. CASE Tick \/ Expire \/ UNCHANGED vars
  BY <1>0, <1>5 DEF RestTyped, Tick, Expire, browser, history, clock, vars
<1> QED BY <1>1, <1>2, <1>3, <1>4, <1>5 DEF Next, RefreshStep, SignStep

LEMMA SwappedDoc ==
  ASSUME Typed, NEW s \in sessions
  PROVE  /\ Swapped(s, s.token, issued + 1) \in Doc
         /\ Swapped(s, s.token, issued + 1).token = issued + 1
         /\ Swapped(s, s.token, issued + 1).expiresAt = now + Idle
<1>1. s \in Doc /\ s.token \in Nat /\ issued + 1 \in Nat /\ now \in Nat /\ now + Idle \in Nat
  BY TimesAssumption DEF Typed, Doc
<1> QED BY <1>1 DEF Doc, Swapped

LEMMA NewDoc ==
  ASSUME Typed
  PROVE  /\ NewSession(issued + 1) \in Doc
         /\ NewSession(issued + 1).token = issued + 1
         /\ NewSession(issued + 1).expiresAt = now + Idle
BY TimesAssumption DEF Typed, Doc, NewSession, NoToken

LEMMA NextSafe == ASSUME SafeInv, [Next]_vars PROVE SafeInv'
<1>1. CASE Dropped
  <2>1. Typed'
    BY <1>1, RestStaysTyped DEF Dropped, SafeInv, Typed, RestTyped
  <2>2. TokensOK'
    BY <1>1 DEF Dropped, SafeInv, TokensOK
  <2> QED BY <2>1, <2>2 DEF SafeInv
<1>2. CASE SwapOne
  <2>1. PICK s \in sessions :
          /\ issued' = issued + 1
          /\ swapped' = swapped \cup {s.token}
          /\ sessions' = (sessions \ {s}) \cup {Swapped(s, s.token, issued + 1)}
    BY <1>2 DEF SwapOne
  <2> DEFINE new == Swapped(s, s.token, issued + 1)
  <2>10. sessions' = (sessions \ {s}) \cup {new}
    BY <2>1
  <2>2. new \in Doc /\ new.token = issued + 1
    BY SwappedDoc DEF SafeInv
  <2> HIDE DEF new
  <2>3. issued \in Nat /\ s.token \in 1 .. issued /\ swapped \subseteq 1 .. issued
    BY DEF SafeInv, Typed, TokensOK
  <2>11. sessions' \subseteq Doc
    BY <2>10, <2>2 DEF SafeInv, Typed
  <2>12. issued' \in Nat /\ \A k \in 1 .. issued : k \in 1 .. issued'
    BY <2>1, <2>3
  <2>4. sessions' \subseteq Doc /\ issued' \in Nat /\ swapped' \subseteq 1 .. issued'
    BY <2>1, <2>11, <2>12, <2>3
  <2>5. Typed'
    BY <2>4, RestStaysTyped DEF Typed, RestTyped
  <2>6. \A o \in sessions' : o = new \/ (o \in sessions /\ o # s)
    BY <2>10
  <2>7. \A o \in sessions : o # s => o.token # s.token
    BY DEF SafeInv, TokensOK
  <2>8. \A o \in sessions' : o.token \in 1 .. issued' /\ o.token \notin swapped'
    BY <2>1, <2>2, <2>3, <2>6, <2>7 DEF SafeInv, TokensOK
  <2>9. \A o, p \in sessions' : o.token = p.token => o = p
    BY <2>2, <2>3, <2>6 DEF SafeInv, TokensOK
  <2> QED BY <2>5, <2>8, <2>9 DEF SafeInv, TokensOK
<1>3. CASE AddOne
  <2> DEFINE new == NewSession(issued + 1)
  <2>1. new \in Doc /\ new.token = issued + 1
    BY NewDoc DEF SafeInv
  <2>2. issued' = issued + 1 /\ sessions' = sessions \cup {new} /\ swapped' = swapped
    BY <1>3 DEF AddOne
  <2> HIDE DEF new
  <2>3. issued \in Nat /\ swapped \subseteq 1 .. issued
    BY DEF SafeInv, Typed
  <2>4. Typed'
    BY <2>1, <2>2, <2>3, RestStaysTyped DEF SafeInv, Typed, RestTyped
  <2>5. TokensOK'
    BY <2>1, <2>2, <2>3 DEF SafeInv, TokensOK
  <2> QED BY <2>4, <2>5 DEF SafeInv
<1> QED BY <1>1, <1>2, <1>3, SessionsChange

\* A replaced refresh token is never accepted again, by any request of any tab, in
\* any order (rotate's findOneAndUpdate).
THEOREM OldTokensStayDeadHolds == Spec => OldTokensStayDead
<1>1. SafeInv /\ [Next]_vars =>
        \A t \in Tabs : refresh[t].step = "sent" /\ refresh'[t].step = "user"
                        => refresh[t].token \notin swapped
  <2> SUFFICES ASSUME SafeInv, [Next]_vars, NEW t \in Tabs,
                      refresh[t].step = "sent", refresh'[t].step = "user"
               PROVE  refresh[t].token \notin swapped
    OBVIOUS
  <2>0. Typed
    BY DEF SafeInv
  <2>1. CASE Rotate(t)
    BY <2>1 DEF Rotate, Rotatable, SafeInv, TokensOK
  <2>2. ASSUME NEW o \in Tabs, RefreshStep(o) \/ BeginRefresh(o) \/ RefreshLost(o)
                                \/ ReadUserFails(o) \/ RefreshFails(o),
               ~Rotate(t)
        PROVE  FALSE
    <3>1. o = t
      BY <2>0, <2>2, RequestsMove DEF Moves, RefreshStep
    <3> QED BY <2>0, <2>2, <3>1, RequestsMove DEF Moves, RefreshStep
  <2>3. ASSUME NEW o \in Tabs,
               Login(o) \/ Logout(o) \/ SignStep(o) \/ SignLost(o) \/ Reload(o)
        PROVE  refresh' = refresh
    BY <2>3 DEF Login, Logout, SignStep, StartSession, LoginDone, Revoke, LogoutDone,
                SignLost, Reload
  <2>4. CASE Tick \/ Expire \/ UNCHANGED vars
    BY <2>4 DEF Tick, Expire, vars
  <2> QED BY <2>1, <2>2, <2>3, <2>4 DEF Next
<1> QED BY <1>1, InitSafe, NextSafe, PTL DEF Spec, OldTokensStayDead

-----------------------------------------------------------------------------
(* The cookie of a browser with the lock *)

\* One refresh at a time, which is what the lock is for.
OneAtATime ==
    \A t, o \in Tabs : t = o \/ refresh[t].step \in NotHeld \/ refresh[o].step \in NotHeld

\* Every token anywhere in the browser has been issued, and the token of a sign-in
\* is nowhere else in it.
Known ==
    /\ cookie <= issued
    /\ \A t \in Tabs : refresh[t].token <= issued /\ refresh[t].answer <= issued
                       /\ sign[t].answer <= issued
GrantsApart ==
    \A t \in Tabs : sign[t].step = "granted" =>
      /\ sign[t].answer # NoToken /\ sign[t].answer # cookie
      /\ \A o \in Tabs : /\ refresh[o].token # sign[t].answer
                         /\ refresh[o].answer # sign[t].answer
                         /\ sign[o].step = "granted" /\ o # t => sign[o].answer # sign[t].answer

Opens(token) == \E s \in sessions : s.token = token

\* While the browser is quiet: no session is close to its end, and every token that
\* a request carries or brings opens a session.
SessionsLast == \A s \in sessions : s.expiresAt >= Idle
RefreshOK(t) ==
    /\ refresh[t].step = "sent" /\ refresh[t].token # NoToken => Opens(refresh[t].token)
    /\ refresh[t].step \in {"user", "answered"} =>
         refresh[t].answer # NoToken /\ Opens(refresh[t].answer)
    /\ refresh[t].step # "reuse"
    /\ refresh[t].step = "refused" => refresh[t].token = NoToken
SignOK(t) ==
    /\ sign[t].step \notin {"logout", "revoked"}
    /\ sign[t].step = "granted" => Opens(sign[t].answer)
CookieOK ==
    /\ cookie # NoToken =>
         \/ Opens(cookie)
         \/ \E t \in Tabs : refresh[t].token = cookie /\ refresh[t].step \in {"user", "answered"}
    /\ (\E t \in Tabs : tab[t] = "in") => cookie # NoToken
QuietOK == SessionsLast /\ (\A t \in Tabs : RefreshOK(t) /\ SignOK(t)) /\ CookieOK

IInv == SafeInv /\ OneAtATime /\ Known /\ GrantsApart /\ (Quiet => QuietOK)

LEMMA LockHolds ==
  ASSUME Locks, Typed, OneAtATime, [Next]_vars PROVE OneAtATime'
<1>1. ASSUME NEW t \in Tabs, SendRefresh(t) PROVE OneAtATime'
  <2>1. Moves(refresh, refresh', t, "sent", cookie, NoToken)
    BY <1>1, RequestsMove
  <2>2. \A o \in Tabs \ {t} : refresh[o].step \in NotHeld
    BY <1>1 DEF SendRefresh, MyTurn
  <2> QED BY <2>1, <2>2 DEF Moves, OneAtATime
<1>2. ASSUME NEW t \in Tabs,
             \/ BeginRefresh(t) \/ RefreshDone(t) \/ RefreshRefused(t) \/ RefreshLost(t)
      PROVE  OneAtATime'
  <2>1. /\ refresh'[t].step \in NotHeld
        /\ \A o \in Tabs \ {t} : refresh'[o] = refresh[o]
    BY <1>2, RequestsMove DEF Moves, NotHeld
  <2> QED BY <2>1 DEF OneAtATime
<1>3. ASSUME NEW t \in Tabs,
             \/ Rotate(t) \/ RotateMiss(t) \/ ReuseCheck(t) \/ ReadUser(t)
             \/ ReadUserFails(t) \/ RefreshFails(t)
      PROVE  OneAtATime'
  <2>1. \A o \in Tabs \ {t} : refresh'[o] = refresh[o]
    BY <1>3, RequestsMove DEF Moves
  <2>2. refresh[t].step \notin NotHeld
    BY <1>3 DEF Rotate, RotateMiss, ReuseCheck, ReadUser, ReadUserFails, RefreshFails, NotHeld
  <2> QED BY <2>1, <2>2 DEF OneAtATime
<1>4. ASSUME NEW t \in Tabs,
             \/ Login(t) \/ StartSession(t) \/ LoginDone(t) \/ Logout(t) \/ Revoke(t)
             \/ LogoutDone(t) \/ SignLost(t) \/ Reload(t)
      PROVE  OneAtATime'
  BY <1>4 DEF Login, StartSession, LoginDone, Logout, Revoke, LogoutDone, SignLost, Reload,
              OneAtATime
<1>5. CASE Tick \/ Expire \/ UNCHANGED vars
  BY <1>5 DEF Tick, Expire, vars, OneAtATime
<1> QED BY <1>1, <1>2, <1>3, <1>4, <1>5 DEF Next, RefreshStep, SignStep

\* What a step may do to the tokens in the browser: drop some, send the cookie, take
\* an answer for the cookie, or bring a token that was issued just now.
Kept(f, g, t) == /\ g[t].token \in {f[t].token, NoToken}
                 /\ g[t].answer \in {f[t].answer, NoToken}
GrantsKept == \A t \in Tabs : sign'[t].step = "granted" =>
                             sign[t].step = "granted" /\ sign'[t].answer = sign[t].answer
TokensDropped ==
    /\ issued' = issued
    /\ cookie' \in {cookie, NoToken}
    /\ \A t \in Tabs : Kept(refresh, refresh', t) /\ sign'[t].answer \in {sign[t].answer, NoToken}
    /\ GrantsKept
CookieSent ==
    \E t \in Tabs : /\ UNCHANGED <<issued, cookie, sign>>
                    /\ Moves(refresh, refresh', t, "sent", cookie, NoToken)
RefreshTaken ==
    \E t \in Tabs : /\ UNCHANGED <<issued, sign>>
                    /\ cookie' = refresh[t].answer
                    /\ Moves(refresh, refresh', t, "none", NoToken, NoToken)
GrantTaken ==
    \E t \in Tabs : /\ UNCHANGED <<issued, refresh>>
                    /\ sign[t].step = "granted"
                    /\ cookie' = sign[t].answer
                    /\ Moves(sign, sign', t, "none", NoToken, NoToken)
RefreshBrought ==
    \E t \in Tabs : /\ issued' = issued + 1
                    /\ UNCHANGED <<cookie, sign>>
                    /\ Moves(refresh, refresh', t, "user", refresh[t].token, issued + 1)
GrantBrought ==
    \E t \in Tabs : /\ issued' = issued + 1
                    /\ UNCHANGED <<cookie, refresh>>
                    /\ Moves(sign, sign', t, "granted", sign[t].token, issued + 1)

LEMMA TokensMove ==
  ASSUME Typed, [Next]_vars
  PROVE  TokensDropped \/ CookieSent \/ RefreshTaken \/ GrantTaken \/ RefreshBrought \/ GrantBrought
<1>1. ASSUME NEW t \in Tabs, SendRefresh(t) PROVE CookieSent
  BY <1>1, RequestsMove DEF SendRefresh, CookieSent, server, browser
<1>2. ASSUME NEW t \in Tabs, RefreshDone(t) PROVE RefreshTaken
  BY <1>2, RequestsMove DEF RefreshDone, RefreshTaken, server
<1>3. ASSUME NEW t \in Tabs, LoginDone(t) PROVE GrantTaken
  BY <1>3, RequestsMove DEF LoginDone, GrantTaken, server
<1>4. ASSUME NEW t \in Tabs, Rotate(t) PROVE RefreshBrought
  BY <1>4, RequestsMove DEF Rotate, RefreshBrought, browser
<1>5. ASSUME NEW t \in Tabs, StartSession(t) PROVE GrantBrought
  BY <1>5, RequestsMove DEF StartSession, GrantBrought, browser
<1>6. ASSUME NEW t \in Tabs,
             \/ BeginRefresh(t) \/ RefreshRefused(t) \/ RefreshLost(t) \/ RotateMiss(t)
             \/ ReuseCheck(t) \/ ReadUser(t) \/ ReadUserFails(t) \/ RefreshFails(t)
      PROVE  TokensDropped
  <2>1. \A o \in Tabs : Kept(refresh, refresh', o)
    BY <1>6, RequestsMove DEF Moves, Kept
  <2>2. UNCHANGED <<issued, sign>> /\ cookie' \in {cookie, NoToken}
    BY <1>6 DEF BeginRefresh, RefreshRefused, RefreshLost, RotateMiss, ReuseCheck, ReadUser,
                ReadUserFails, RefreshFails, server, browser
  <2> QED BY <2>1, <2>2 DEF TokensDropped, GrantsKept
<1>7. ASSUME NEW t \in Tabs,
             Login(t) \/ Logout(t) \/ Revoke(t) \/ LogoutDone(t) \/ SignLost(t)
      PROVE  TokensDropped
  <2>1. /\ \A o \in Tabs : sign'[o].answer \in {sign[o].answer, NoToken}
        /\ GrantsKept
    BY <1>7, RequestsMove DEF Moves, GrantsKept
  <2>2. UNCHANGED <<issued, refresh>> /\ cookie' \in {cookie, NoToken}
    BY <1>7 DEF Login, Logout, Revoke, LogoutDone, SignLost, server, browser
  <2> QED BY <2>1, <2>2 DEF TokensDropped, Kept
<1>8. ASSUME NEW t \in Tabs, Reload(t) PROVE TokensDropped
  BY <1>8 DEF Reload, TokensDropped, Kept, GrantsKept, server
<1>9. CASE Tick \/ Expire \/ UNCHANGED vars
  BY <1>9 DEF Tick, Expire, TokensDropped, Kept, GrantsKept, server, browser, vars
<1> QED BY <1>1, <1>2, <1>3, <1>4, <1>5, <1>6, <1>7, <1>8, <1>9 DEF Next, RefreshStep, SignStep

LEMMA GrantsStayApart ==
  ASSUME Typed, Known, GrantsApart, [Next]_vars PROVE Known' /\ GrantsApart'
<1>1. /\ cookie \in Nat /\ issued \in Nat /\ NoToken = 0
      /\ \A t \in Tabs : /\ refresh[t].token \in Nat /\ refresh[t].answer \in Nat
                         /\ sign[t].answer \in Nat
  BY DEF Typed, Request, NoToken
<1>2. CASE TokensDropped
  BY <1>1, <1>2 DEF TokensDropped, Kept, GrantsKept, Known, GrantsApart
<1>3. CASE CookieSent
  BY <1>1, <1>3 DEF CookieSent, Moves, Known, GrantsApart
<1>4. CASE RefreshTaken
  BY <1>1, <1>4 DEF RefreshTaken, Moves, Known, GrantsApart
<1>5. CASE GrantTaken
  BY <1>1, <1>5 DEF GrantTaken, Moves, Known, GrantsApart
<1>6. CASE RefreshBrought
  BY <1>1, <1>6 DEF RefreshBrought, Moves, Known, GrantsApart
<1>7. CASE GrantBrought
  BY <1>1, <1>7 DEF GrantBrought, Moves, Known, GrantsApart
<1> QED BY <1>2, <1>3, <1>4, <1>5, <1>6, <1>7, TokensMove

\* A browser that is quiet after a step was quiet before it, and the steps that could
\* have disturbed it did not happen.
LEMMA WasQuiet ==
  ASSUME Typed, [Next]_vars, Quiet'
  PROVE  /\ Quiet
         /\ \A t \in Tabs : /\ ~RefreshLost(t) /\ ~ReadUserFails(t) /\ ~RefreshFails(t)
                            /\ ~SignLost(t) /\ ~Logout(t)
<1>1. now \in Nat /\ failures \in Nat /\ Idle \in Nat /\ signedOut \in BOOLEAN
  BY TimesAssumption DEF Typed
<1>2. \A t \in Tabs : /\ ~RefreshLost(t) /\ ~ReadUserFails(t) /\ ~RefreshFails(t)
                     /\ ~SignLost(t) /\ ~Logout(t)
  BY <1>1 DEF RefreshLost, ReadUserFails, RefreshFails, SignLost, Logout, Quiet
<1>3. now' \in {now, now + 1}
  BY <1>1, <1>2 DEF Next, RefreshStep, SignStep, BeginRefresh, SendRefresh, RefreshDone,
     RefreshRefused, Rotate, RotateMiss, ReuseCheck, ReadUser, Login, StartSession, LoginDone,
     Revoke, LogoutDone, Reload, Tick, Expire, clock, vars
<1>4. failures' = failures
  BY <1>1, <1>2 DEF Next, RefreshStep, SignStep, BeginRefresh, SendRefresh, RefreshDone,
     RefreshRefused, Rotate, RotateMiss, ReuseCheck, ReadUser, Login, StartSession, LoginDone,
     Revoke, LogoutDone, Reload, Tick, Expire, clock, vars
<1>5. signedOut' = signedOut
  BY <1>1, <1>2 DEF Next, RefreshStep, SignStep, BeginRefresh, SendRefresh, RefreshDone,
     RefreshRefused, Rotate, RotateMiss, ReuseCheck, ReadUser, Login, StartSession, LoginDone,
     Revoke, LogoutDone, Reload, Tick, Expire, history, vars
<1> QED BY <1>1, <1>2, <1>3, <1>4, <1>5 DEF Quiet

\* A token of a quiet browser that opens a session is not refused.
LEMMA QuietNotRefused ==
  ASSUME Typed, Quiet, QuietOK, NEW t \in Tabs, RotateMiss(t)
  PROVE  refresh[t].token = NoToken
<1>1. \A s \in sessions : Alive(s)
  BY TimesAssumption DEF Typed, Doc, QuietOK, SessionsLast, Quiet, Alive
<1> QED BY <1>1 DEF RotateMiss, QuietOK, RefreshOK, Opens, Rotatable

LEMMA QuietStays ==
  ASSUME Locks, IInv, [Next]_vars, Quiet' PROVE QuietOK'
<1>0. Typed /\ TokensOK /\ OneAtATime /\ Known /\ GrantsApart
  BY DEF IInv, SafeInv
<1>1. Quiet /\ QuietOK
  BY <1>0, WasQuiet DEF IInv
<1>2. \A t \in Tabs : /\ ~RefreshLost(t) /\ ~ReadUserFails(t) /\ ~RefreshFails(t)
                     /\ ~SignLost(t) /\ ~Logout(t)
  BY <1>0, WasQuiet
<1>3. /\ cookie \in Nat /\ issued \in Nat /\ NoToken = 0
      /\ \A t \in Tabs : refresh[t].token \in Nat /\ refresh[t].answer \in Nat
                         /\ sign[t].answer \in Nat
  BY <1>0 DEF Typed, Request, NoToken
<1>4. ASSUME NEW t \in Tabs, BeginRefresh(t) PROVE QuietOK'
  <2>1. Moves(refresh, refresh', t, "lock", refresh[t].token, refresh[t].answer)
    BY <1>0, <1>4, RequestsMove
  <2>2. UNCHANGED <<sessions, cookie, tab, sign>> /\ refresh[t].step = "none"
    BY <1>4 DEF BeginRefresh, server, browser
  <2> QED BY <1>1, <2>1, <2>2 DEF Moves, QuietOK, SessionsLast, RefreshOK, SignOK, CookieOK, Opens
<1>5. ASSUME NEW t \in Tabs, SendRefresh(t) PROVE QuietOK'
  <2>1. Moves(refresh, refresh', t, "sent", cookie, NoToken)
    BY <1>0, <1>5, RequestsMove
  <2>2. UNCHANGED <<sessions, cookie, tab, sign>>
    BY <1>5 DEF SendRefresh, server, browser
  <2>3. \A o \in Tabs : refresh[o].step \notin {"user", "answered"}
    BY <1>5 DEF SendRefresh, MyTurn, NotHeld
  <2>4. cookie # NoToken => Opens(cookie)
    BY <1>1, <2>3 DEF QuietOK, CookieOK
  <2> QED BY <1>1, <2>1, <2>2, <2>3, <2>4 DEF Moves, QuietOK, SessionsLast, RefreshOK, SignOK, CookieOK, Opens
<1>6. ASSUME NEW t \in Tabs, RefreshDone(t) PROVE QuietOK'
  <2>1. Moves(refresh, refresh', t, "none", NoToken, NoToken)
    BY <1>0, <1>6, RequestsMove
  <2>2. UNCHANGED <<sessions, sign>> /\ cookie' = refresh[t].answer
    BY <1>6 DEF RefreshDone, server
  <2>3. cookie' # NoToken /\ Opens(cookie)'
    BY <1>1, <1>6, <2>2 DEF RefreshDone, QuietOK, RefreshOK, Opens
  <2> QED BY <1>1, <2>1, <2>2, <2>3 DEF Moves, QuietOK, SessionsLast, RefreshOK, SignOK, CookieOK, Opens
<1>7. ASSUME NEW t \in Tabs, RefreshRefused(t) PROVE QuietOK'
  <2>1. Moves(refresh, refresh', t, "none", NoToken, NoToken)
    BY <1>0, <1>7, RequestsMove
  <2>2. UNCHANGED <<sessions, sign>> /\ cookie' = cookie
    BY <1>1, <1>7 DEF RefreshRefused, server, QuietOK, RefreshOK
  <2>3. \A o \in Tabs : tab'[o] = "in" => tab[o] = "in"
    BY <1>0, <1>7 DEF RefreshRefused, Typed
  <2>4. refresh[t].step = "refused"
    BY <1>7 DEF RefreshRefused
  <2> QED BY <1>1, <2>1, <2>2, <2>3, <2>4 DEF Moves, QuietOK, SessionsLast, RefreshOK, SignOK, CookieOK, Opens
<1>8. ASSUME NEW t \in Tabs, Rotate(t) PROVE QuietOK'
  <2>1. Moves(refresh, refresh', t, "user", refresh[t].token, issued + 1)
    BY <1>0, <1>8, RequestsMove
  <2>2. UNCHANGED <<cookie, tab, sign>> /\ refresh[t].step = "sent"
    BY <1>8 DEF Rotate, browser
  <2>3. PICK s \in sessions :
          /\ s.token = refresh[t].token
          /\ sessions' = (sessions \ {s}) \cup {Swapped(s, s.token, issued + 1)}
    BY <1>8 DEF Rotate, Rotatable
  <2> DEFINE new == Swapped(s, s.token, issued + 1)
  <2>4. sessions' = (sessions \ {s}) \cup {new}
    BY <2>3
  <2>5. new.token = issued + 1 /\ new.expiresAt = now + Idle
    BY <1>0, SwappedDoc
  <2> HIDE DEF new
  <2>7. \A k : Opens(k) /\ k # refresh[t].token => \E o \in sessions' : o.token = k
    BY <2>3, <2>4 DEF Opens
  <2>8. SessionsLast'
    BY <1>0, <1>1, <2>4, <2>5, TimesAssumption DEF SessionsLast, QuietOK, Typed
  <2>9. \A o \in Tabs \ {t} : refresh[o].step \in NotHeld /\ refresh'[o] = refresh[o]
    BY <1>0, <2>1, <2>2 DEF OneAtATime, NotHeld, Moves
  <2>10. \A o \in Tabs : RefreshOK(o)'
    <3>1. RefreshOK(t)'
      BY <1>3, <2>1, <2>4, <2>5 DEF RefreshOK, Moves, Opens
    <3>2. ASSUME NEW o \in Tabs \ {t} PROVE RefreshOK(o)'
      BY <2>9 DEF RefreshOK, NotHeld
    <3> QED BY <3>1, <3>2
  <2>11. \A o \in Tabs : SignOK(o)'
    <3>1. ASSUME NEW o \in Tabs, sign[o].step = "granted"
          PROVE  \E d \in sessions' : d.token = sign[o].answer
      BY <1>0, <1>1, <2>7, <3>1 DEF GrantsApart, QuietOK, SignOK
    <3> QED BY <1>1, <2>2, <3>1 DEF SignOK, QuietOK, Opens
  <2>12. CookieOK'
    BY <1>1, <2>1, <2>2, <2>7, <2>9 DEF CookieOK, QuietOK, Moves, NotHeld, Opens
  <2> QED BY <2>8, <2>10, <2>11, <2>12 DEF QuietOK
<1>9. ASSUME NEW t \in Tabs, RotateMiss(t) PROVE QuietOK'
  <2>1. Moves(refresh, refresh', t, "refused", NoToken, refresh[t].answer)
    BY <1>0, <1>1, <1>9, RequestsMove, QuietNotRefused
  <2>2. UNCHANGED <<sessions, cookie, tab, sign>> /\ refresh[t].step = "sent"
    BY <1>9 DEF RotateMiss, server, browser
  <2> QED BY <1>1, <2>1, <2>2 DEF Moves, QuietOK, SessionsLast, RefreshOK, SignOK, CookieOK, Opens
<1>10. ASSUME NEW t \in Tabs, ReadUser(t) PROVE QuietOK'
  <2>1. Moves(refresh, refresh', t, "answered", refresh[t].token, refresh[t].answer)
    BY <1>0, <1>10, RequestsMove
  <2>2. UNCHANGED <<sessions, cookie, tab, sign>> /\ refresh[t].step = "user"
    BY <1>10 DEF ReadUser, server, browser
  <2> QED BY <1>1, <2>1, <2>2 DEF Moves, QuietOK, SessionsLast, RefreshOK, SignOK, CookieOK, Opens
<1>11. ASSUME NEW t \in Tabs, ReuseCheck(t) \/ Revoke(t) \/ LogoutDone(t) PROVE FALSE
  BY <1>1, <1>11 DEF ReuseCheck, Revoke, LogoutDone, QuietOK, RefreshOK, SignOK
<1>12. ASSUME NEW t \in Tabs, Login(t) PROVE QuietOK'
  <2>1. Moves(sign, sign', t, "login", sign[t].token, sign[t].answer)
    BY <1>0, <1>12, RequestsMove
  <2>2. UNCHANGED <<sessions, cookie, tab, refresh>>
    BY <1>12 DEF Login, server, browser
  <2> QED BY <1>1, <2>1, <2>2 DEF Moves, QuietOK, SessionsLast, RefreshOK, SignOK, CookieOK, Opens
<1>13. ASSUME NEW t \in Tabs, StartSession(t) PROVE QuietOK'
  <2>1. Moves(sign, sign', t, "granted", sign[t].token, issued + 1)
    BY <1>0, <1>13, RequestsMove
  <2> DEFINE new == NewSession(issued + 1)
  <2>2. UNCHANGED <<cookie, tab, refresh>> /\ sessions' = sessions \cup {new}
    BY <1>13 DEF StartSession, browser
  <2>3. new.token = issued + 1 /\ new.expiresAt = now + Idle
    BY <1>0, NewDoc
  <2> HIDE DEF new
  <2>4. SessionsLast'
    BY <1>0, <1>1, <2>2, <2>3, TimesAssumption DEF SessionsLast, QuietOK, Typed
  <2>5. \A k : Opens(k) \/ k = issued + 1 => \E o \in sessions' : o.token = k
    BY <2>2, <2>3 DEF Opens
  <2> QED BY <1>1, <2>1, <2>2, <2>4, <2>5 DEF Moves, QuietOK, RefreshOK, SignOK, CookieOK, Opens
<1>14. ASSUME NEW t \in Tabs, LoginDone(t) PROVE QuietOK'
  <2>1. Moves(sign, sign', t, "none", NoToken, NoToken)
    BY <1>0, <1>14, RequestsMove
  <2>2. UNCHANGED <<sessions, refresh>> /\ cookie' = sign[t].answer
    BY <1>14 DEF LoginDone, server
  <2>3. cookie' # NoToken /\ Opens(cookie)'
    BY <1>0, <1>1, <1>14, <2>2 DEF LoginDone, GrantsApart, QuietOK, SignOK, Opens
  <2> QED BY <1>1, <2>1, <2>2, <2>3 DEF Moves, QuietOK, SessionsLast, RefreshOK, SignOK, CookieOK, Opens
<1>15. ASSUME NEW t \in Tabs, Reload(t) PROVE QuietOK'
  <2>1. UNCHANGED <<sessions, cookie, refresh, sign>>
    BY <1>15 DEF Reload, server
  <2>2. \A o \in Tabs : tab'[o] = "in" => tab[o] = "in"
    BY <1>0, <1>15 DEF Reload, Typed
  <2> QED BY <1>1, <2>1, <2>2 DEF QuietOK, SessionsLast, RefreshOK, SignOK, CookieOK, Opens
<1>16. CASE Tick \/ Expire \/ UNCHANGED vars
  <2>1. UNCHANGED <<cookie, tab, refresh, sign>>
    BY <1>16 DEF Tick, Expire, browser, vars
  <2>2. sessions' = sessions
    <3>1. ~Expire
      BY <1>0, <1>1, TimesAssumption DEF Typed, Doc, QuietOK, SessionsLast, Quiet, Expire
    <3> QED BY <1>16, <3>1 DEF Tick, server, vars
  <2> QED BY <1>1, <2>1, <2>2 DEF QuietOK, SessionsLast, RefreshOK, SignOK, CookieOK, Opens
<1> QED BY <1>2, <1>4, <1>5, <1>6, <1>7, <1>8, <1>9, <1>10, <1>11, <1>12, <1>13, <1>14, <1>15,
           <1>16 DEF Next, RefreshStep, SignStep

\* While nothing failed, expired or signed out, tabs that refresh one at a time never
\* lose the session of a signed-in browser, however many tabs there are and whatever
\* they and the server do in between (runExclusive in api.ts, clearCookie in the controller).
THEOREM RefreshesKeepCookieHolds ==
  ASSUME Locks PROVE Spec => []RefreshesKeepCookie
<1>1. Init => IInv
  <2> SUFFICES ASSUME Init PROVE IInv OBVIOUS
  <2> DEFINE first == NewSession(Elsewhere)
  <2>0. first.expiresAt = now + Idle
    BY DEF NewSession
  <2>1. /\ sessions = {first} /\ cookie = 0 /\ issued = 1 /\ now = 0
        /\ \A t \in Tabs : /\ refresh[t].step = "none" /\ sign[t].step = "none"
                           /\ refresh[t].token = 0 /\ refresh[t].answer = 0
                           /\ sign[t].answer = 0 /\ tab[t] = "boot"
    BY DEF Init, NoRequest, NoToken, Elsewhere
  <2> HIDE DEF first
  <2>2. SessionsLast
    BY <2>0, <2>1, TimesAssumption DEF SessionsLast
  <2>3. OneAtATime /\ Known /\ GrantsApart /\ CookieOK /\ \A t \in Tabs : RefreshOK(t) /\ SignOK(t)
    BY <2>1 DEF OneAtATime, NotHeld, Known, GrantsApart, CookieOK, RefreshOK, SignOK, NoToken
  <2> QED BY <2>2, <2>3, InitSafe DEF IInv, QuietOK
<1>2. IInv /\ [Next]_vars => IInv'
  <2> SUFFICES ASSUME IInv, [Next]_vars PROVE IInv' OBVIOUS
  <2>1. SafeInv' /\ OneAtATime' /\ Known' /\ GrantsApart'
    BY NextSafe, LockHolds, GrantsStayApart DEF IInv, SafeInv
  <2> QED BY <2>1, QuietStays DEF IInv
<1>3. IInv => RefreshesKeepCookie
  BY DEF IInv, QuietOK, CookieOK, Opens, RefreshesKeepCookie
<1> QED BY <1>1, <1>2, <1>3, PTL DEF Spec

-----------------------------------------------------------------------------
(* The other device *)

\* The browser never holds, sends or is answered with the other device's token.
TokensAway ==
    /\ cookie # Elsewhere /\ issued >= Elsewhere
    /\ \A t \in Tabs : /\ refresh[t].token # Elsewhere /\ refresh[t].answer # Elsewhere
                       /\ sign[t].token # Elsewhere /\ sign[t].answer # Elsewhere

\* The other device's session is as it was, until a failure, an alarm or its time.
SessionAway ==
    \/ \E s \in sessions : s.token = Elsewhere /\ s.expiresAt = Idle
    \/ failures > 0 \/ alarms > 0 \/ now >= Idle

AwayInv == SafeInv /\ TokensAway /\ alarms \in Nat /\ SessionAway

LEMMA InitAway == Init => AwayInv
<1> SUFFICES ASSUME Init PROVE AwayInv
  OBVIOUS
<1>1. SafeInv
  BY InitSafe
<1>2. TokensAway /\ alarms \in Nat
  BY DEF Init, TokensAway, NoRequest, NoToken, Elsewhere
<1>3. SessionAway
  <2> DEFINE s == NewSession(Elsewhere)
  <2>1. s \in sessions
    BY DEF Init
  <2>2. s.token = Elsewhere /\ s.expiresAt = Idle
    BY TimesAssumption DEF Init, NewSession
  <2>3. QED BY <2>1, <2>2 DEF SessionAway
<1>4. QED BY <1>1, <1>2, <1>3 DEF AwayInv

\* Of one request, moved by a step that brings no token of the other device.
LEMMA MovedAway ==
  ASSUME NEW f, NEW g, NEW t \in Tabs, NEW step, NEW token, NEW answer,
         Moves(f, g, t, step, token, answer), token # Elsewhere, answer # Elsewhere,
         \A o \in Tabs : f[o].token # Elsewhere /\ f[o].answer # Elsewhere
  PROVE  \A o \in Tabs : g[o].token # Elsewhere /\ g[o].answer # Elsewhere
  BY DEF Moves

LEMMA TokensStayAway ==
  ASSUME SafeInv, TokensAway, [Next]_vars
  PROVE  TokensAway'
<1>1. Typed
  BY DEF SafeInv
<1>2. /\ \A o \in Tabs : refresh[o].token # Elsewhere /\ refresh[o].answer # Elsewhere
      /\ \A o \in Tabs : sign[o].token # Elsewhere /\ sign[o].answer # Elsewhere
      /\ issued \in Nat /\ issued + 1 # Elsewhere /\ issued + 1 >= Elsewhere
      /\ issued >= Elsewhere /\ NoToken # Elsewhere /\ cookie # Elsewhere
  BY <1>1 DEF TokensAway, Typed, Elsewhere, NoToken
<1>3. ASSUME NEW t \in Tabs,
             \/ BeginRefresh(t) \/ SendRefresh(t) \/ RotateMiss(t) \/ ReuseCheck(t)
             \/ ReadUser(t) \/ ReadUserFails(t) \/ RefreshFails(t)
      PROVE  TokensAway'
  <2>1. UNCHANGED <<cookie, issued, sign>>
    BY <1>3 DEF BeginRefresh, SendRefresh, RotateMiss, ReuseCheck, ReadUser, ReadUserFails,
                RefreshFails, server, browser
  <2>2. \A o \in Tabs : refresh'[o].token # Elsewhere /\ refresh'[o].answer # Elsewhere
    BY <1>1, <1>2, <1>3, RequestsMove, MovedAway
  <2>3. QED BY <1>2, <2>1, <2>2 DEF TokensAway
<1>4. ASSUME NEW t \in Tabs, Rotate(t) PROVE TokensAway'
  <2>1. UNCHANGED <<cookie, sign>> /\ issued' = issued + 1
    BY <1>4 DEF Rotate, browser
  <2>2. \A o \in Tabs : refresh'[o].token # Elsewhere /\ refresh'[o].answer # Elsewhere
    BY <1>1, <1>2, <1>4, RequestsMove, MovedAway
  <2>3. QED BY <1>2, <2>1, <2>2 DEF TokensAway
<1>5. ASSUME NEW t \in Tabs, RefreshDone(t) \/ RefreshRefused(t) \/ RefreshLost(t)
      PROVE  TokensAway'
  <2>1. UNCHANGED <<issued, sign>> /\ cookie' \in {cookie, NoToken, refresh[t].answer}
    BY <1>5 DEF RefreshDone, RefreshRefused, RefreshLost, server
  <2>2. \A o \in Tabs : refresh'[o].token # Elsewhere /\ refresh'[o].answer # Elsewhere
    BY <1>1, <1>2, <1>5, RequestsMove, MovedAway
  <2>3. QED BY <1>2, <2>1, <2>2 DEF TokensAway
<1>6. ASSUME NEW t \in Tabs,
             \/ Login(t) \/ StartSession(t) \/ Logout(t) \/ Revoke(t)
             \/ LoginDone(t) \/ LogoutDone(t) \/ SignLost(t)
      PROVE  TokensAway'
  <2>1. /\ UNCHANGED refresh /\ issued' \in {issued, issued + 1}
        /\ cookie' \in {cookie, NoToken, sign[t].answer}
    BY <1>6 DEF Login, StartSession, Logout, Revoke, LoginDone, LogoutDone, SignLost,
                server, browser
  <2>2. \A o \in Tabs : sign'[o].token # Elsewhere /\ sign'[o].answer # Elsewhere
    BY <1>1, <1>2, <1>6, RequestsMove, MovedAway
  <2>3. QED BY <1>2, <2>1, <2>2 DEF TokensAway
<1>7. ASSUME NEW t \in Tabs, Reload(t) PROVE TokensAway'
  BY <1>7 DEF Reload, TokensAway, server
<1>8. CASE Tick \/ Expire \/ UNCHANGED vars
  BY <1>8 DEF Tick, Expire, vars, TokensAway, server, browser
<1>9. QED BY <1>3, <1>4, <1>5, <1>6, <1>7, <1>8 DEF Next, RefreshStep, SignStep

LEMMA SessionStaysAway ==
  ASSUME AwayInv, [Next]_vars
  PROVE  alarms' \in Nat /\ SessionAway'
<1>1. Typed /\ TokensAway /\ alarms \in Nat /\ failures \in Nat /\ now \in Nat
  BY DEF AwayInv, SafeInv, Typed
<1>2. CASE UNCHANGED <<sessions, alarms, now, failures>>
  BY <1>1, <1>2 DEF AwayInv, SessionAway
<1>3. ASSUME NEW t \in Tabs,
             \/ BeginRefresh(t) \/ SendRefresh(t) \/ RefreshDone(t) \/ RefreshRefused(t)
             \/ RotateMiss(t) \/ ReadUser(t) \/ Login(t) \/ LoginDone(t) \/ Logout(t)
             \/ LogoutDone(t) \/ Reload(t)
      PROVE  UNCHANGED <<sessions, alarms, now, failures>>
  BY <1>3 DEF BeginRefresh, SendRefresh, RefreshDone, RefreshRefused, RotateMiss, ReadUser,
              Login, LoginDone, Logout, LogoutDone, Reload, server, history, clock
<1>4. ASSUME NEW t \in Tabs, RefreshLost(t) \/ SignLost(t) \/ ReadUserFails(t) \/ RefreshFails(t)
      PROVE  alarms' \in Nat /\ SessionAway'
  <2>1. failures' = failures + 1 /\ alarms' = alarms
    BY <1>4 DEF RefreshLost, SignLost, ReadUserFails, RefreshFails, history
  <2>2. QED BY <1>1, <2>1 DEF SessionAway
<1>5. ASSUME NEW t \in Tabs, ReuseCheck(t) PROVE alarms' \in Nat /\ SessionAway'
  <2>1. UNCHANGED <<now, failures>> /\ (alarms' = alarms + 1 \/ UNCHANGED <<sessions, alarms>>)
    BY <1>5 DEF ReuseCheck, clock
  <2>2. CASE alarms' = alarms + 1
    BY <1>1, <2>2 DEF SessionAway
  <2>3. QED BY <1>2, <2>1, <2>2
\* A step that takes away no session but one of the browser's own tokens.
<1>6. ASSUME UNCHANGED <<alarms, now, failures>>,
             \A s \in sessions : s.token = Elsewhere => s \in sessions'
      PROVE  alarms' \in Nat /\ SessionAway'
  BY <1>1, <1>6 DEF AwayInv, SessionAway
<1>7. ASSUME NEW t \in Tabs, Rotate(t) PROVE alarms' \in Nat /\ SessionAway'
  <2>1. refresh[t].token # Elsewhere /\ UNCHANGED <<alarms, now, failures>>
    BY <1>1, <1>7 DEF TokensAway, Rotate, clock
  <2>2. PICK s \in sessions :
          /\ s.token = refresh[t].token
          /\ sessions' = (sessions \ {s}) \cup {Swapped(s, refresh[t].token, issued + 1)}
    BY <1>7 DEF Rotate, Rotatable
  <2>3. QED BY <1>6, <2>1, <2>2
<1>8. ASSUME NEW t \in Tabs, StartSession(t) \/ Revoke(t) PROVE alarms' \in Nat /\ SessionAway'
  <2>1. sign[t].token # Elsewhere /\ UNCHANGED <<alarms, now, failures>>
    BY <1>1, <1>8 DEF TokensAway, StartSession, Revoke, clock, history
  <2>2. \A s \in sessions : s.token = Elsewhere => s \in sessions'
    BY <1>8, <2>1 DEF StartSession, Revoke, OwnSession
  <2>3. QED BY <1>6, <2>1, <2>2
<1>9. CASE Tick
  <2>1. now' = now + 1 /\ UNCHANGED <<sessions, alarms, failures>>
    BY <1>9 DEF Tick, server, history
  <2>2. QED BY <1>1, <2>1, TimesAssumption DEF AwayInv, SessionAway
<1>10. CASE Expire
  <2>1. UNCHANGED <<alarms, now, failures>>
    BY <1>10 DEF Expire, history, clock
  <2>2. PICK s \in sessions : s.expiresAt <= now /\ sessions' = sessions \ {s}
    BY <1>10 DEF Expire
  <2>3. CASE s.token = Elsewhere /\ s.expiresAt = Idle
    BY <1>1, <2>1, <2>2, <2>3 DEF SessionAway
  <2>4. CASE ~(s.token = Elsewhere /\ s.expiresAt = Idle)
    BY <1>1, <2>1, <2>2, <2>4 DEF AwayInv, SessionAway
  <2>5. QED BY <2>3, <2>4
<1>11. CASE UNCHANGED vars
  BY <1>2, <1>11 DEF vars, server, history, clock
<1>12. QED
  BY <1>2, <1>3, <1>4, <1>5, <1>7, <1>8, <1>9, <1>10, <1>11 DEF Next, RefreshStep, SignStep

\* Signing out, signing in again and refreshing, in whatever order and in however many
\* tabs, leave the other device signed in: a sign-out ends the session of its own cookie
\* alone, and rotate that of its own token (sessions.service, revoke and rotate).
THEOREM ElsewhereUnaffectedHolds == Spec => []ElsewhereUnaffected
<1>1. AwayInv /\ [Next]_vars => AwayInv'
  BY NextSafe, TokensStayAway, SessionStaysAway DEF AwayInv
<1>2. AwayInv => ElsewhereUnaffected
  BY DEF AwayInv, SessionAway, ElsewhereUnaffected
<1>3. QED BY <1>1, <1>2, InitAway, PTL DEF Spec

=============================================================================
