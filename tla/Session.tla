-------------------------------- MODULE Session --------------------------------
(***************************************************************************)
(* The browser's session: the store's access token, the pages behind       *)
(* Authenticate.tsx, the dialog of RefreshSession.tsx that asks to renew   *)
(* an expired token, the login page, TopBar's logout, and what the auth    *)
(* routes answer.  A request is judged by the refresh cookie it was sent   *)
(* with; an unmounted component does not take its requests with it.        *)
(***************************************************************************)
EXTENDS Naturals, FiniteSets

CONSTANTS
  LogoutTimeout,   \* constants.time.logoutTimeout, in ticks of the countdown
  MaxCalls,        \* bound: requests in flight
  MaxMoves         \* bound: times the user goes back, forward or reloads

ASSUME SessionConstants ==
  LogoutTimeout \in Nat \ {0} /\ MaxCalls \in Nat \ {0} /\ MaxMoves \in Nat

VARIABLES
  cookie,   \* the browser holds a refresh cookie that the server accepts
  token,    \* userSelectors.accessToken: "none", "fresh" or "expired"
  route,    \* "login" or "private", a route under Authenticate
  view,     \* state and refs of the mounted Authenticate and RefreshSession
  calls,    \* requests in flight, by slot
  moves     \* how often the user has gone back, forward or reloaded

sessionVars == <<cookie, token, route, view, calls, moves>>

Slots == 1 .. MaxCalls
Tokens == {"none", "fresh", "expired"}
Kinds == {"restore", "renew", "timeUp", "logout", "login"}

\* own: the component that sent the request is still mounted
Calls == [kind: Kinds \cup {"idle"}, own: BOOLEAN, cookie: BOOLEAN]
NoCall == [kind |-> "idle", own |-> FALSE, cookie |-> FALSE]

\* timer: Authenticate's renewSessionTimeout is pending; open: the dialog is;
\* reset: the timeout of onClose that puts the countdown back is pending
Views == [isLoading: BOOLEAN, timer: BOOLEAN, open: BOOLEAN,
          countdown: 0 .. LogoutTimeout, hasRefreshedSession: BOOLEAN,
          isLoggingOut: BOOLEAN, isSubmitting: BOOLEAN, reset: BOOLEAN]

NewView(t) ==
  [isLoading |-> t = "none", timer |-> t # "none", open |-> FALSE,
   countdown |-> LogoutTimeout, hasRefreshedSession |-> FALSE,
   isLoggingOut |-> FALSE, isSubmitting |-> FALSE, reset |-> FALSE]

-----------------------------------------------------------------------------
\* What a step leaves on the screen, given the calls cs that remain

Free(cs) == {s \in Slots : cs[s] = NoCall}
Disowned(cs) == [s \in Slots |-> IF cs[s] = NoCall THEN NoCall ELSE [cs[s] EXCEPT !.own = FALSE]]
Sent(cs, k, jar) ==
  [cs EXCEPT ![CHOOSE s \in Free(cs) : TRUE] = [kind |-> k, own |-> TRUE, cookie |-> jar]]
Ended(s) == [calls EXCEPT ![s] = NoCall]

\* Authenticate mounts: without a token its effect renews, with one it arms the timer.
ShowPrivate(t, jar, cs) ==
  /\ t = "none" => Free(cs) # {}
  /\ route' = "private" /\ token' = t /\ cookie' = jar
  /\ view' = NewView(t)
  /\ calls' = IF t = "none" THEN Sent(Disowned(cs), "restore", jar) ELSE Disowned(cs)

\* The login page mounts or renders, and leaves at once when the token is valid.
ShowLogin(t, jar, cs) ==
  IF t = "fresh"
  THEN ShowPrivate(t, jar, cs)
  ELSE /\ route' = "login" /\ token' = t /\ cookie' = jar
       /\ view' = NewView(t)
       /\ calls' = IF route = "login" THEN cs ELSE Disowned(cs)

\* Mutant: the effect does not run again for a new token.
ChangeUserKeepsTimer(jar, v, cs) ==
  IF route = "login"
  THEN ShowPrivate("fresh", jar, cs)
  ELSE /\ token' = "fresh" /\ cookie' = jar
       /\ view' = [v EXCEPT !.isLoading = FALSE]
       /\ calls' = cs /\ UNCHANGED route

\* changeUser with the token of an answer: Authenticate's effect starts its timer anew.
ChangeUser(jar, v, cs) ==
  IF route = "login"
  THEN ShowPrivate("fresh", jar, cs)
  ELSE /\ token' = "fresh" /\ cookie' = jar
       /\ view' = [v EXCEPT !.isLoading = FALSE, !.timer = TRUE]
       /\ calls' = cs /\ UNCHANGED route

\* clearUser and navigate(login)
ClearUser(jar, cs) == ShowLogin("none", jar, cs)

-----------------------------------------------------------------------------
SessionInit ==
  /\ cookie \in BOOLEAN
  /\ token = "none" /\ route = "private"
  /\ view = NewView("none")
  /\ calls = Sent([s \in Slots |-> NoCall], "restore", cookie)
  /\ moves = 0

\* The token's seven hours outlast every dialog and every answer that brings a token.
TokenExpires ==
  /\ token = "fresh" /\ ~view.open
  /\ \A s \in Slots : calls[s].kind \in {"idle", "logout"}
  /\ token' = "expired"
  /\ UNCHANGED <<cookie, route, view, calls, moves>>

\* The cookie lives fourteen days from the login; no renewal prolongs it.
CookieExpires ==
  /\ cookie /\ cookie' = FALSE
  /\ UNCHANGED <<token, route, view, calls, moves>>

\* renewSessionTimeout calls toggleRefreshSessionModal.
TimerFires ==
  /\ route = "private" /\ view.timer /\ token = "expired"
  /\ view' = [view EXCEPT !.timer = FALSE, !.open = ~@]
  /\ UNCHANGED <<cookie, token, route, calls, moves>>

\* The countdown's effect: one second less, and the logout when none is left.
Tick ==
  /\ view.open /\ view.countdown > 0 /\ ~view.hasRefreshedSession
  /\ LET timeUp == view.countdown = 1 /\ ~view.isLoggingOut
     IN /\ timeUp => Free(calls) # {}
        /\ view' = [view EXCEPT !.countdown = @ - 1, !.isLoggingOut = @ \/ timeUp,
                                !.isSubmitting = @ \/ timeUp]
        /\ calls' = IF timeUp THEN Sent(calls, "timeUp", cookie) ELSE calls
  /\ UNCHANGED <<cookie, token, route, moves>>

\* onClose's timeout, when nothing rendered the dialog again since it was set
ResetFires ==
  /\ view.reset
  /\ view' = [view EXCEPT !.reset = FALSE, !.countdown = LogoutTimeout,
                          !.hasRefreshedSession = FALSE, !.isLoggingOut = FALSE]
  /\ UNCHANGED <<cookie, token, route, calls, moves>>

-----------------------------------------------------------------------------
\* The user

\* renewSession is called
Renew ==
  /\ view.open /\ ~view.isSubmitting /\ Free(calls) # {}
  /\ view' = [view EXCEPT !.isSubmitting = TRUE]
  /\ calls' = Sent(calls, "renew", cookie)
  /\ UNCHANGED <<cookie, token, route, moves>>

\* TopBar's onLogout is called; the dialog, when open, covers the button.
Logout ==
  /\ route = "private" /\ ~view.isLoading /\ ~view.open /\ Free(calls) # {}
  /\ calls' = Sent(calls, "logout", cookie)
  /\ UNCHANGED <<cookie, token, route, view, moves>>

\* onSubmit of the login page
Login ==
  /\ route = "login" /\ Free(calls) # {}
  /\ \A s \in Slots : ~(calls[s].kind = "login" /\ calls[s].own)
  /\ calls' = Sent(calls, "login", cookie)
  /\ UNCHANGED <<cookie, token, route, view, moves>>

Moves == moves < MaxMoves /\ moves' = moves + 1
Back == Moves /\ route = "private" /\ ShowLogin(token, cookie, calls)
Forward == Moves /\ route = "login" /\ ShowPrivate(token, cookie, calls)

\* A reload empties the store and aborts the requests.
Reload ==
  /\ Moves /\ route = "private"
  /\ ShowPrivate("none", cookie, [s \in Slots |-> NoCall])

-----------------------------------------------------------------------------
\* Answers.  validateRefreshToken and verify refuse a request without a valid
\* cookie; the rate limiter or the network may fail any request.

\* renewAccessToken() of Authenticate and renewSession() of the dialog
RenewalGranted(s) ==
  /\ calls[s].kind \in {"restore", "renew"} /\ calls[s].cookie
  /\ LET closes == calls[s].kind = "renew" /\ calls[s].own
         \* toggling open runs the clean-up of the countdown's effect, which takes the
         \* timeout onClose just set with it; the effect that logged out has no clean-up
         closed == [view EXCEPT !.hasRefreshedSession = TRUE, !.isSubmitting = FALSE,
                                !.open = ~@, !.reset = view.isLoggingOut]
     IN ChangeUser(cookie, IF closes THEN closed ELSE view, Ended(s))
  /\ UNCHANGED moves

\* Mutant: the user is cleared and left where he is.
RenewalMalformedStays(s) ==
  /\ calls[s].kind \in {"restore", "renew"} /\ calls[s].cookie
  /\ token' = "none" /\ calls' = Ended(s)
  /\ UNCHANGED <<cookie, route, view, moves>>

\* The answer's token does not decode to a user.
RenewalMalformed(s) ==
  /\ calls[s].kind \in {"restore", "renew"} /\ calls[s].cookie
  /\ ClearUser(cookie, Ended(s))
  /\ UNCHANGED moves

\* renewAccessToken only navigates to the login page.
RestoreRefused(s) ==
  /\ calls[s].kind = "restore"
  /\ ShowLogin(token, cookie, Ended(s))
  /\ UNCHANGED moves

RenewRefused(s) ==
  /\ calls[s].kind = "renew"
  /\ ClearUser(cookie, Ended(s))
  /\ UNCHANGED moves

\* Mutant: a failed logout is only logged, as TopBar does.
TimeUpAnsweredWhenGranted(s) ==
  /\ calls[s].kind = "timeUp"
  /\ IF calls[s].cookie
     THEN ClearUser(FALSE, Ended(s))
     ELSE calls' = Ended(s) /\ UNCHANGED <<cookie, token, route, view>>
  /\ UNCHANGED moves

\* logout() of the dialog clears the user whether or not the server did.
TimeUpAnswered(s) ==
  /\ calls[s].kind = "timeUp"
  /\ \E cleared \in {FALSE, calls[s].cookie} : ClearUser(cookie /\ ~cleared, Ended(s))
  /\ UNCHANGED moves

LogoutGranted(s) ==
  /\ calls[s].kind = "logout" /\ calls[s].cookie
  /\ ClearUser(FALSE, Ended(s))
  /\ UNCHANGED moves

\* The login page's answers; the first one brings the cookie too.
LoginGranted(s) ==
  /\ calls[s].kind = "login"
  /\ ChangeUser(TRUE, view, Ended(s))
  /\ UNCHANGED moves

LoginMalformed(s) ==
  /\ calls[s].kind = "login"
  /\ ClearUser(TRUE, Ended(s))
  /\ UNCHANGED moves

\* The caller only logs the error.
Refused(s) ==
  /\ calls[s].kind \in {"logout", "login"}
  /\ calls' = Ended(s)
  /\ UNCHANGED <<cookie, token, route, view, moves>>

Answered(s) ==
  \/ RenewalGranted(s) \/ RenewalMalformed(s) \/ RestoreRefused(s) \/ RenewRefused(s)
  \/ TimeUpAnswered(s) \/ LogoutGranted(s) \/ LoginGranted(s) \/ LoginMalformed(s)
  \/ Refused(s)

SessionNext ==
  \/ TokenExpires \/ CookieExpires \/ TimerFires \/ Tick \/ ResetFires
  \/ Renew \/ Logout \/ Login \/ Back \/ Forward \/ Reload
  \/ \E s \in Slots : Answered(s)

SessionSpec == SessionInit /\ [][SessionNext]_sessionVars

\* Timers fire and every request is answered or fails; the user need do nothing.
FairSession ==
  /\ SessionSpec
  /\ WF_sessionVars(TimerFires) /\ WF_sessionVars(Tick) /\ WF_sessionVars(ResetFires)
  /\ \A s \in Slots : WF_sessionVars(Answered(s))

-----------------------------------------------------------------------------
\* Properties

\* Every variable has its type.
SessionTypeOK ==
  /\ cookie \in BOOLEAN
  /\ token \in Tokens
  /\ route \in {"login", "private"}
  /\ view \in Views
  /\ calls \in [Slots -> Calls]
  /\ moves \in 0 .. MaxMoves

\* The dashboard is on screen only while the store holds a user, whichever
\* component's late answer emptied or filled the store (Authenticate.tsx:142).
DashboardHasUser == route = "private" /\ ~view.isLoading => token # "none"

\* An expired token is asked about: its timer is still to fire or the dialog
\* is open, although one toggle serves both the timer and the dialog's close.
ExpiredIsPrompted ==
  route = "private" /\ token = "expired" => view.timer \/ view.open

\* The spinner ends: the token is renewed or the user is sent to log in.
SpinnerEnds == (route = "private" /\ view.isLoading) ~> ~(route = "private" /\ view.isLoading)

\* Authenticate.tsx:79, "If no action is taken or the refreshToken cookie is
\* invalid, the user is logged out": what holds of the first dialog of a page.
FirstPromptIsAnswered == (view.open /\ ~view.hasRefreshedSession) ~> ~view.open

\* Nobody is left waiting, for the spinner or before the first dialog.
WaitsEnd == SpinnerEnds /\ FirstPromptIsAnswered

\* The same of every dialog.
PromptIsAnswered == view.open ~> ~view.open

=============================================================================
