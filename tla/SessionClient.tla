---------------------------- MODULE SessionClient ----------------------------
(***************************************************************************)
(* The session of the web client: the interceptors of lib/api.ts in each   *)
(* tab of a browser, over the access token in local storage and the        *)
(* refresh token in a cookie, which all tabs share, against the one        *)
(* refresh token the server keeps for the account.  A call looks at its    *)
(* token before it is sent and refreshes one that expires soon; an answer  *)
(* of 401 makes its tab refresh, once for all calls refused meanwhile.     *)
(*                                                                         *)
(* A sign-in or refresh issues a pair of tokens, named by its number; a    *)
(* number that the server holds no more is refused.                        *)
(***************************************************************************)
EXTENDS Handlers

CONSTANTS Tabs,         \* tabs of the browser
          MaxPairs,     \* bound on the pairs of tokens issued
          MaxAttempts   \* MAX_RETRY_ATTEMPTS

ASSUME SessionAssumption == MaxPairs \in Nat \ {0} /\ MaxAttempts \in Nat

VARIABLES
  tab,      \* the tab of each call
  issued,   \* pairs issued so far
  age,      \* how old each access token is
  store,    \* the access token in local storage, 0 for none
  cookie,   \* the refresh token in the cookie, 0 for none
  held,     \* the refresh token the server holds, 0 for none
  flags,    \* per tab: isRefreshing, and whether there is a proactiveRefreshPromise
  wish,     \* what the user wants: to be signed in, or out
  spoilt    \* what has come in between since the sign-in

sessionVars == <<tab, issued, age, store, cookie, held, flags, wish, spoilt>>
SessionOps == {"call", "logout", "login", "elsewhere", "ages", "reload"}

Pairs == 1 .. MaxPairs
None == 0
Calls == {"call", "logout"}
OfTab(r) == {q \in Requests : tab[q] = tab[r] /\ req[q].op \in Calls}
RefreshSteps == {"refresh", "accepted", "refused", "renewed"}
Refreshing == {r \in Requests : req[r].op \in Calls /\ req[r].step \in RefreshSteps}

\* token: the access token it carries; kind: the refresh it makes or waits for;
\* ticket: the refresh token of that.
NewCall == [token |-> None, retry |-> FALSE, tries |-> 0, kind |-> "none", ticket |-> None]
Quiet == [refreshing |-> FALSE, proactive |-> FALSE]

SessionInit ==
  /\ tab \in [Requests -> Tabs]
  /\ issued = 1 /\ store = 1 /\ cookie = 1 /\ held = 1
  /\ age = [n \in Pairs |-> "fresh"]
  /\ flags = [t \in Tabs |-> Quiet]
  /\ wish = "in" /\ spoilt = {}

-----------------------------------------------------------------------------
\* The request interceptor.

AskCall(r) ==
  /\ Ask(r, "call", "prepare", NewCall)
  /\ UNCHANGED sessionVars

\* apiUtils.logout
AskLogout(r) ==
  /\ wish = "in"
  /\ Ask(r, "logout", "prepare", NewCall)
  /\ wish' = "leaving"
  /\ UNCHANGED <<tab, issued, age, store, cookie, held, flags, spoilt>>

CallAt(r, step) == req[r].op \in Calls /\ req[r].step = step
Flags(r) == flags[tab[r]]

\* A refresh that begins while another tab's is under way, or a proactive one of
\* its own tab, may present the same token.
Overlapping(r, kind) ==
  \E q \in Refreshing : tab[q] # tab[r] \/ (kind = "handler" /\ req[q].with.kind = "proactive")

StartRefresh(r, kind, h) ==
  /\ GoOn(r, "refresh", [h EXCEPT !.kind = kind, !.ticket = cookie])
  /\ spoilt' = IF Overlapping(r, kind) THEN spoilt \union {"overlap"} ELSE spoilt

ExpiringSoon == store # None /\ age[store] # "fresh"

WaitsForDenied(r) == Flags(r).refreshing                                 \* mutant

\* ensureValidToken: a refresh is under way in this tab.
Waits(r) == Flags(r).refreshing \/ Flags(r).proactive

Prepare(r) ==
  /\ CallAt(r, "prepare")
  /\ LET h == [req[r].with EXCEPT !.token = store] IN
       \/ /\ ~ExpiringSoon
          /\ GoOn(r, "sent", h)
          /\ UNCHANGED <<flags, spoilt>>
       \/ /\ ExpiringSoon /\ Waits(r)
          /\ GoOn(r, "join", [h EXCEPT !.kind = IF Flags(r).proactive THEN "proactive" ELSE "handler"])
          /\ UNCHANGED <<flags, spoilt>>
       \/ /\ ExpiringSoon /\ ~Waits(r)
          /\ StartRefresh(r, "proactive", h)
          /\ flags' = [flags EXCEPT ![tab[r]].proactive = TRUE]
  /\ UNCHANGED <<tab, issued, age, store, cookie, held, wish>>

-----------------------------------------------------------------------------
\* refreshTokens, and AuthController.refreshToken behind it: the token is
\* compared with the one held, and a new one stored by a later statement.

CheckTicket(r) ==
  /\ CallAt(r, "refresh")
  /\ LET h == req[r].with IN
       GoOn(r, IF h.ticket # None /\ h.ticket = held THEN "accepted" ELSE "refused", h)
  /\ UNCHANGED sessionVars

Renew(r) ==
  /\ CallAt(r, "accepted") /\ issued < MaxPairs
  /\ issued' = issued + 1 /\ held' = issued + 1
  /\ GoOn(r, "renewed", [req[r].with EXCEPT !.ticket = issued + 1])
  /\ UNCHANGED <<tab, age, store, cookie, flags, wish, spoilt>>

\* Whoever waits for the refresh of r goes on: with the new token; or, when it
\* failed, those before they are sent with their old one, and those that were
\* refused (the one that refreshes included) not at all.
Joined(r) == {q \in OfTab(r) : CallAt(q, "join") /\ req[q].with.kind = req[r].with.kind}
             \union (IF req[r].with.kind = "proactive" THEN {r} ELSE {})
Denied(r) == IF req[r].with.kind = "proactive" THEN {}
             ELSE {r} \union {q \in OfTab(r) : CallAt(q, "queued")}

Settled(r, token) ==
  LET Onward(q, step) == [req[q] EXCEPT !.step = step, !.with.kind = "none", !.with.ticket = None]
  IN /\ req' = [q \in Requests |->
                  IF q \in Joined(r)
                    THEN [Onward(q, "sent") EXCEPT !.with.token = IF token = None THEN @ ELSE token]
                  ELSE IF q \in Denied(r)
                    THEN IF token = None THEN Idle ELSE Onward(q, "prepare")
                  ELSE req[q]]
     /\ flags' = [flags EXCEPT ![tab[r]] = IF req[r].with.kind = "proactive"
                                             THEN [@ EXCEPT !.proactive = FALSE]
                                             ELSE [@ EXCEPT !.refreshing = FALSE]]

\* A call of logout that is over clears the tokens, however it ended.
SignedOut(ended) ==
  /\ wish' = "out"
  /\ spoilt' = IF ended /\ Refreshing = {} THEN spoilt ELSE spoilt \union {"late"}

FinishRefresh(r) ==
  /\ CallAt(r, "renewed")
  /\ store' = req[r].with.ticket /\ cookie' = req[r].with.ticket
  /\ Settled(r, req[r].with.ticket)
  /\ UNCHANGED <<tab, issued, age, held, wish, spoilt>>

\* Refused, or not answered in time.
FailRefresh(r) ==
  /\ r \in Refreshing
  /\ store' = None
  /\ Settled(r, None)
  /\ IF \E q \in Denied(r) : req[q].op = "logout" THEN SignedOut(FALSE)
     ELSE /\ wish' = wish
          /\ spoilt' = IF CallAt(r, "refused") THEN spoilt ELSE spoilt \union {"lost"}
  /\ UNCHANGED <<tab, issued, age, cookie, held>>

-----------------------------------------------------------------------------
\* The answer of a call, and the response interceptor.

Valid(n) == n # None /\ age[n] # "old"

\* The last word on a call: apiUtils.logout clears the tokens in any case.
Over(r) ==
  /\ Answer(r)
  /\ IF req[r].op = "logout" THEN store' = None /\ SignedOut(FALSE)
     ELSE UNCHANGED <<store, wish, spoilt>>
  /\ UNCHANGED <<cookie, held>>

AnswerCall(r) ==
  /\ CallAt(r, "sent") /\ Valid(req[r].with.token)
  /\ IF req[r].op = "logout"
       THEN /\ Answer(r)
            /\ held' = None /\ cookie' = None /\ store' = None
            /\ SignedOut(TRUE)
       ELSE Over(r)
  /\ UNCHANGED <<tab, issued, age, flags>>

Deny(r) ==
  /\ CallAt(r, "sent") /\ ~Valid(req[r].with.token)
  /\ GoOn(r, "denied", req[r].with)
  /\ UNCHANGED sessionVars

HandleDenial(r) ==
  /\ CallAt(r, "denied")
  /\ LET h == [req[r].with EXCEPT !.retry = TRUE] IN
       \/ /\ req[r].with.retry
          /\ Over(r) /\ UNCHANGED flags
       \/ /\ ~req[r].with.retry /\ Flags(r).refreshing
          /\ GoOn(r, "queued", h)
          /\ UNCHANGED <<store, cookie, held, flags, wish, spoilt>>
       \/ /\ ~req[r].with.retry /\ ~Flags(r).refreshing
          /\ StartRefresh(r, "handler", h)
          /\ flags' = [flags EXCEPT ![tab[r]].refreshing = TRUE]
          /\ UNCHANGED <<store, cookie, held, wish>>
  /\ UNCHANGED <<tab, issued, age>>

\* The network or the server fails: again, up to three times.
CallFails(r) ==
  /\ CallAt(r, "sent")
  /\ LET h == req[r].with IN
       IF h.tries < MaxAttempts
         THEN /\ GoOn(r, "prepare", [h EXCEPT !.tries = @ + 1])
              /\ UNCHANGED <<store, cookie, held, wish, spoilt>>
         ELSE Over(r)
  /\ UNCHANGED <<tab, issued, age, flags>>

-----------------------------------------------------------------------------
\* Around the calls.

\* apiUtils.login, of somebody who is signed out.
Login(r) ==
  /\ wish = "out" /\ store = None /\ issued < MaxPairs
  /\ ~Active(r) /\ "login" \in mix[r] /\ UNCHANGED req
  /\ issued' = issued + 1 /\ held' = issued + 1 /\ cookie' = issued + 1 /\ store' = issued + 1
  /\ wish' = "in"
  /\ spoilt' = IF \E q \in Requests : req[q].op \in Calls THEN {"late"} ELSE {}
  /\ UNCHANGED <<tab, age, flags>>

\* The same account signs in on another device.
Elsewhere(r) ==
  /\ "elsewhere" \in mix[r] /\ issued < MaxPairs
  /\ issued' = issued + 1 /\ held' = issued + 1
  /\ spoilt' = spoilt \union {"elsewhere"}
  /\ UNCHANGED <<req, tab, age, store, cookie, flags, wish>>

\* An access token comes near its end, and to it.
GrowOld(r) ==
  /\ "ages" \in mix[r]
  /\ \E n \in 1 .. issued :
       /\ age[n] # "old"
       /\ \A m \in 1 .. issued : m < n => age[m] = "old"
       /\ age' = [age EXCEPT ![n] = IF @ = "fresh" THEN "soon" ELSE "old"]
  /\ UNCHANGED <<req, tab, issued, store, cookie, held, flags, wish, spoilt>>

\* The user reloads the page, or safeRedirect leaves it.
Reload(r) ==
  /\ "reload" \in mix[r]
  /\ \E t \in Tabs :
       /\ \E q \in Requests : tab[q] = t /\ req[q].op \in Calls
       /\ req' = [q \in Requests |-> IF tab[q] = t /\ req[q].op \in Calls THEN Idle ELSE req[q]]
       /\ flags' = [flags EXCEPT ![t] = Quiet]
       /\ spoilt' = IF \E q \in Refreshing : tab[q] = t THEN spoilt \union {"lost"} ELSE spoilt
  /\ UNCHANGED <<tab, issued, age, store, cookie, held, wish>>

SessionStep(r) ==
  \/ AskCall(r) \/ AskLogout(r) \/ Prepare(r)
  \/ CheckTicket(r) \/ Renew(r) \/ FinishRefresh(r) \/ FailRefresh(r)
  \/ AnswerCall(r) \/ Deny(r) \/ HandleDenial(r) \/ CallFails(r)
  \/ Login(r) \/ Elsewhere(r) \/ GrowOld(r) \/ Reload(r)

SessionNext == (\E r \in Requests : SessionStep(r)) /\ UNCHANGED mix
SessionSpec == HandlersInit /\ SessionInit /\ [][SessionNext]_<<handlerVars, sessionVars>>

-----------------------------------------------------------------------------
\* Who is signed in stays so, with the refresh token the server holds, while no
\* refresh was overtaken by one of another tab, or of the other interceptor, none
\* was lost, and the account did not sign in elsewhere.
StaysSignedIn ==
  wish = "in" /\ spoilt = {} =>
    /\ store # None
    /\ (\A r \in Requests : ~CallAt(r, "renewed")) => cookie = held

\* Who signed out stays so, unless the call failed, or a refresh was under way.
StaysSignedOut == wish = "out" /\ "late" \notin spoilt => store = None

\* A call that waits for a refresh of its tab has one to wait for.
RefreshAwaited ==
  \A r \in Requests :
    /\ CallAt(r, "queued") => \E q \in Refreshing \intersect OfTab(r) : req[q].with.kind = "handler"
    /\ CallAt(r, "join") =>
         \E q \in Refreshing \intersect OfTab(r) : req[q].with.kind = req[r].with.kind

SessionHeld == StaysSignedIn /\ StaysSignedOut /\ RefreshAwaited
=============================================================================
