------------------------------ MODULE Sessions ------------------------------
(***************************************************************************)
(* Staying signed in: the sessions collection with its rotating refresh    *)
(* tokens (sessions.service, auth.service, auth.controller) and one        *)
(* browser of the user, whose tabs share the refresh cookie and each keep  *)
(* an access token in memory (api.ts, session.ts, AuthContext).            *)
(*                                                                         *)
(* A session of the same user on another device is there from the start    *)
(* and takes no step: it shows what the browser's steps do to it.          *)
(***************************************************************************)
EXTENDS Integers, FiniteSets

CONSTANTS
    Tabs,
    Locks,          \* the browser has navigator.locks
    Grace,          \* REUSE_GRACE_MS
    Idle, MaxAge,   \* SESSION_IDLE_MS and SESSION_MAX_MS
    MaxTime, MaxTokens, MaxFailures     \* bounds: clock, tokens issued, requests that fail

ASSUME TimesAssumption == Grace \in Nat /\ Idle \in Nat /\ MaxAge \in Nat /\ Idle <= MaxAge
ASSUME LocksAssumption == Locks \in BOOLEAN

VARIABLES
    sessions,   \* the user's session documents
    cookie,     \* the browser's refresh cookie, or NoToken
    tab,        \* "boot" until the cookie is checked, then "in" or "out"
    refresh,    \* each tab's refresh, shared by all of its callers
    sign,       \* each tab's sign-in or sign-out request
    issued,     \* refresh tokens made so far: 1 .. issued
    swapped,    \* the tokens that rotate has exchanged (history)
    alarms,     \* reuses that ended every session (history)
    signedOut,  \* some tab has signed out (history)
    now, failures

server == <<sessions, issued>>
browser == <<cookie, tab>>
history == <<swapped, alarms, signedOut>>
clock == <<now, failures>>
vars == <<server, browser, refresh, sign, history, clock>>

NoToken == 0
Elsewhere == 1      \* the token of the other device

NewSession(token) ==
    [token |-> token, previous |-> NoToken, rotatedAt |-> 0,
     createdAt |-> now, expiresAt |-> now + Idle]

\* A request: where it is, the token it carries, and the one it is answered with.
NoRequest == [step |-> "none", token |-> NoToken, answer |-> NoToken]

Init ==
    /\ now = 0
    /\ sessions = {NewSession(Elsewhere)}
    /\ cookie = NoToken
    /\ tab = [t \in Tabs |-> "boot"]
    /\ refresh = [t \in Tabs |-> NoRequest]
    /\ sign = [t \in Tabs |-> NoRequest]
    /\ issued = Elsewhere
    /\ swapped = {}
    /\ alarms = 0
    /\ signedOut = FALSE
    /\ failures = 0

\* Mutants: no lock; the replaced token rotates too; a tab that waits counts as one
\* that holds the lock; signing out ends every session.
AnyTurn(t) == TRUE
RotatableAgain(s, token) == token # NoToken /\ token \in {s.token, s.previous}
OnlyIdle == {"none"}
EverySession(token) == sessions

\* The filter of rotate, and the documents a sign-out deletes.
Rotatable(s, token) == s.token = token
OwnSession(token) == {s \in sessions : s.token = token}

Alive(s) == s.expiresAt > now /\ s.createdAt > now - MaxAge

-----------------------------------------------------------------------------
(* A refresh, in the browser: at first load, before the access token expires *)
(* and after a 401                                                           *)

\* The steps of a refresh that does not hold the lock.
NotHeld == {"none", "lock"}

\* runExclusive: one tab at a time where the browser can do that.
MyTurn(t) == Locks => \A o \in Tabs \ {t} : refresh[o].step \in NotHeld

\* Bound: every request that may issue a token finds one left.
Pending == Cardinality({t \in Tabs : refresh[t].step \in {"lock", "sent"}})
           + Cardinality({t \in Tabs : sign[t].step = "login"})
TokenLeft == issued + Pending < MaxTokens

BeginRefresh(t) ==
    /\ TokenLeft
    /\ refresh[t].step = "none"
    /\ tab[t] \in {"boot", "in"}
    /\ refresh' = [refresh EXCEPT ![t].step = "lock"]
    /\ UNCHANGED <<server, browser, sign, history, clock>>

\* The browser adds the cookie as it is now.
SendRefresh(t) ==
    /\ refresh[t].step = "lock"
    /\ MyTurn(t)
    /\ refresh' = [refresh EXCEPT ![t] = [step |-> "sent", token |-> cookie, answer |-> NoToken]]
    /\ UNCHANGED <<server, browser, sign, history, clock>>

\* A payload: the tab is signed in, whatever has happened in it meanwhile.
RefreshDone(t) ==
    /\ refresh[t].step = "answered"
    /\ cookie' = refresh[t].answer
    /\ tab' = [tab EXCEPT ![t] = "in"]
    /\ refresh' = [refresh EXCEPT ![t] = NoRequest]
    /\ UNCHANGED <<server, sign, history, clock>>

\* A 401 clears the cookie, unless there was none to clear, and the tab's session.
RefreshRefused(t) ==
    /\ refresh[t].step = "refused"
    /\ cookie' = IF refresh[t].token = NoToken THEN cookie ELSE NoToken
    /\ tab' = [tab EXCEPT ![t] = "out"]
    /\ refresh' = [refresh EXCEPT ![t] = NoRequest]
    /\ UNCHANGED <<server, sign, history, clock>>

\* The request or its answer is lost: the cookie stays as it is.
RefreshLost(t) ==
    /\ refresh[t].step \in {"sent", "answered", "refused"}
    /\ failures < MaxFailures
    /\ failures' = failures + 1
    /\ tab' = [tab EXCEPT ![t] = "out"]
    /\ refresh' = [refresh EXCEPT ![t] = NoRequest]
    /\ UNCHANGED <<server, cookie, sign, history, now>>

-----------------------------------------------------------------------------
(* A refresh, on the server *)

Swapped(s, old, new) ==
    [s EXCEPT !.token = new, !.previous = old, !.rotatedAt = now, !.expiresAt = now + Idle]

\* findOneAndUpdate: the one that matches the token swaps it.
Rotate(t) ==
    /\ refresh[t].step = "sent"
    /\ \E s \in sessions :
         /\ Rotatable(s, refresh[t].token) /\ Alive(s)
         /\ issued' = issued + 1
         /\ sessions' = (sessions \ {s}) \cup
                {Swapped(s, refresh[t].token, issued + 1)}
         /\ swapped' = swapped \cup {refresh[t].token}
         /\ refresh' = [refresh EXCEPT ![t].step = "user", ![t].answer = issued + 1]
    /\ UNCHANGED <<browser, sign, alarms, signedOut, clock>>

\* No cookie, or no live session with that token.
RotateMiss(t) ==
    /\ refresh[t].step = "sent"
    /\ \A s \in sessions : ~(Rotatable(s, refresh[t].token) /\ Alive(s))
    /\ refresh' = [refresh EXCEPT ![t].step = IF refresh[t].token = NoToken
                                              THEN "refused" ELSE "reuse"]
    /\ UNCHANGED <<server, browser, sign, history, clock>>

\* A token that was swapped a while ago: someone else must hold a copy.
ReuseCheck(t) ==
    /\ refresh[t].step = "reuse"
    /\ refresh' = [refresh EXCEPT ![t].step = "refused"]
    /\ \/ /\ \E s \in sessions : s.previous = refresh[t].token /\ now - s.rotatedAt > Grace
          /\ sessions' = {}
          /\ alarms' = alarms + 1
       \/ /\ \A s \in sessions : ~(s.previous = refresh[t].token /\ now - s.rotatedAt > Grace)
          /\ UNCHANGED <<sessions, alarms>>
    /\ UNCHANGED <<issued, browser, sign, swapped, signedOut, clock>>

\* auth.service's refresh reads the user again; not finding it, for whatever
\* reason, ends every session.
ReadUser(t) ==
    /\ refresh[t].step = "user"
    /\ refresh' = [refresh EXCEPT ![t].step = "answered"]
    /\ UNCHANGED <<server, browser, sign, history, clock>>

ReadUserFails(t) ==
    /\ refresh[t].step = "user"
    /\ failures < MaxFailures
    /\ failures' = failures + 1
    /\ sessions' = {}
    /\ refresh' = [refresh EXCEPT ![t].step = "refused"]
    /\ UNCHANGED <<issued, browser, sign, history, now>>

\* Another error on the server, the token swapped or not: the controller clears the
\* cookie of its answer as for a 401.
RefreshFails(t) ==
    /\ refresh[t].step \in {"sent", "reuse", "user"} /\ refresh[t].token # NoToken
    /\ failures < MaxFailures
    /\ failures' = failures + 1
    /\ refresh' = [refresh EXCEPT ![t].step = "refused"]
    /\ UNCHANGED <<server, browser, sign, history, now>>

-----------------------------------------------------------------------------
(* Signing in and out *)

Login(t) ==
    /\ TokenLeft
    /\ tab[t] = "out" /\ sign[t].step = "none"
    /\ sign' = [sign EXCEPT ![t].step = "login"]
    /\ UNCHANGED <<server, browser, refresh, history, clock>>

StartSession(t) ==
    /\ sign[t].step = "login"
    /\ issued' = issued + 1
    /\ sessions' = sessions \cup {NewSession(issued + 1)}
    /\ sign' = [sign EXCEPT ![t].step = "granted", ![t].answer = issued + 1]
    /\ UNCHANGED <<browser, refresh, history, clock>>

LoginDone(t) ==
    /\ sign[t].step = "granted"
    /\ cookie' = sign[t].answer
    /\ tab' = [tab EXCEPT ![t] = "in"]
    /\ sign' = [sign EXCEPT ![t] = NoRequest]
    /\ UNCHANGED <<server, refresh, history, clock>>

\* The tab is signed out at once; the request goes on, and so does a refresh.
Logout(t) ==
    /\ tab[t] = "in" /\ sign[t].step = "none"
    /\ tab' = [tab EXCEPT ![t] = "out"]
    /\ signedOut' = TRUE
    /\ sign' = [sign EXCEPT ![t] = [step |-> "logout", token |-> cookie, answer |-> NoToken]]
    /\ UNCHANGED <<server, cookie, refresh, swapped, alarms, clock>>

Revoke(t) ==
    /\ sign[t].step = "logout"
    /\ sessions' = sessions \ OwnSession(sign[t].token)
    /\ sign' = [sign EXCEPT ![t].step = "revoked"]
    /\ UNCHANGED <<issued, browser, refresh, history, clock>>

LogoutDone(t) ==
    /\ sign[t].step = "revoked"
    /\ cookie' = NoToken
    /\ sign' = [sign EXCEPT ![t] = NoRequest]
    /\ UNCHANGED <<server, tab, refresh, history, clock>>

SignLost(t) ==
    /\ sign[t].step \in {"login", "granted", "logout", "revoked"}
    /\ failures < MaxFailures
    /\ failures' = failures + 1
    /\ sign' = [sign EXCEPT ![t] = NoRequest]
    /\ UNCHANGED <<server, browser, refresh, history, now>>

\* A tab is loaded again, when it has no request running.
Reload(t) ==
    /\ refresh[t].step = "none" /\ sign[t].step = "none"
    /\ tab[t] # "boot"
    /\ tab' = [tab EXCEPT ![t] = "boot"]
    /\ UNCHANGED <<server, cookie, refresh, sign, history, clock>>

-----------------------------------------------------------------------------
(* Time, and Mongo's deletion of sessions whose expiresAt has passed *)

Tick ==
    /\ now < MaxTime
    /\ now' = now + 1
    /\ UNCHANGED <<server, browser, refresh, sign, history, failures>>

Expire ==
    /\ \E s \in sessions : s.expiresAt <= now /\ sessions' = sessions \ {s}
    /\ UNCHANGED <<issued, browser, refresh, sign, history, clock>>

RefreshStep(t) ==
    \/ SendRefresh(t) \/ RefreshDone(t) \/ RefreshRefused(t)
    \/ Rotate(t) \/ RotateMiss(t) \/ ReuseCheck(t) \/ ReadUser(t)
SignStep(t) == StartSession(t) \/ LoginDone(t) \/ Revoke(t) \/ LogoutDone(t)

Next ==
    \/ \E t \in Tabs :
         \/ BeginRefresh(t) \/ RefreshStep(t) \/ RefreshLost(t)
         \/ ReadUserFails(t) \/ RefreshFails(t)
         \/ Login(t) \/ Logout(t) \/ SignStep(t) \/ SignLost(t) \/ Reload(t)
    \/ Tick
    \/ Expire

Spec == Init /\ [][Next]_vars

\* Requests are served and answered, and the lock goes round; nothing is assumed
\* of the user.
FairSpec == Spec /\ \A t \in Tabs : SF_vars(SendRefresh(t)) /\ WF_vars(RefreshStep(t))

-----------------------------------------------------------------------------
(* Properties *)

\* "The old token stops working at once": however many requests present a token,
\* in whatever order, one of them swaps it and none ever does again (rotate's filter).
OldTokensStayDead ==
    [][\A t \in Tabs : refresh[t].step = "sent" /\ refresh'[t].step = "user"
                       => refresh[t].token \notin swapped]_vars

\* Nothing but refreshes and sign-ins has happened, too soon for a session to expire.
Quiet == failures = 0 /\ ~signedOut /\ now < Idle

\* With the lock a browser never signs itself out: while nothing failed, expired or
\* signed out, the cookie of a signed-in browser opens a session, or the refresh that
\* swapped it brings the new one (runExclusive, and the controller's clearCookie).
RefreshesKeepCookie ==
    Quiet /\ (\E t \in Tabs : tab[t] = "in") =>
       \/ \E s \in sessions : s.token = cookie
       \/ \E t \in Tabs : /\ refresh[t].token = cookie
                          /\ refresh[t].step \in {"user", "answered"}

\* Signing out ends the session of its own cookie and no other: the device
\* elsewhere stays signed in unless a failure or an alarm ends everything.
ElsewhereUnaffected ==
    \/ \E s \in sessions : s.token = Elsewhere
    \/ failures > 0 \/ alarms > 0 \/ now >= Idle

\* A tab that is starting, or that waits for its turn, is answered in the end
\* (the lock is released whatever became of the request).
RefreshEnds == \A t \in Tabs : refresh[t].step = "lock" ~> refresh[t].step = "none"

\* "Presenting a token that was already swapped ends every session of that user,
\* since someone else must hold a copy".  Violated: a browser whose answer was lost
\* presents the old token itself when it is loaded again.
NoAlarmAtHome == alarms = 0

\* "Ends the session on the server; the local session goes either way": only a sign-in
\* signs a tab in again.  Violated: the answer of a refresh that was running does too.
SignedOutStaysOut ==
    [][\A t \in Tabs : tab[t] = "out" /\ tab'[t] = "in" => sign[t].step = "granted"]_vars

=============================================================================
