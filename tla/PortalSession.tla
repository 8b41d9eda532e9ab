--------------------------- MODULE PortalSession ---------------------------
(***************************************************************************)
(* The session of one browser: the cookies, the portal's server in between, *)
(* which refreshes an expired access token and repeats the request, and the *)
(* rotation of Sessions behind it.                                          *)
(*                                                                         *)
(* A page sends several requests at once.  All of them may find the access  *)
(* token expired; they share one refresh, and those that come while the old *)
(* cookie is still in the browser are served from a short cache.            *)
(*                                                                         *)
(* A pair of tokens is known by its refresh token.                          *)
(***************************************************************************)
EXTENDS Sessions

CONSTANT Requests  \* requests of the browser under way at once

VARIABLES
    cookie,      \* the pair in the browser's cookies, 0 without a session
    stale,       \* pairs whose access token has expired
    flights,     \* refreshInFlight: tokens whose refresh is under way
    cache,       \* refreshCache: the pair that replaced a token, 0 without an entry
    req,         \* the requests under way
    excused      \* the user signed out, or an answer or the cache was lost

portalVars == <<sessionVars, cookie, stale, flights, cache, req, excused>>

NoRequest == [phase |-> "idle", kind |-> "proxy", sent |-> 0, pair |-> 0]

PortalInit ==
    /\ SessionsInit
    /\ cookie = 0
    /\ stale = {}
    /\ flights = {}
    /\ cache = [t \in RefreshIds |-> 0]
    /\ req = [q \in Requests |-> NoRequest]
    /\ excused = FALSE

Busy == {q \in Requests : req[q].phase # "idle"}

portal_login ==
    /\ cookie = 0
    /\ Busy = {}
    /\ login
    /\ cookie' = issued + 1
    /\ UNCHANGED <<stale, flights, cache, req, excused>>

\* The portal does not pass the refresh token on when the user signs out.
portal_logout ==
    /\ cookie # 0
    /\ cookie' = 0
    /\ excused' = TRUE
    /\ UNCHANGED <<sessionVars, stale, flights, cache, req>>

\* "session" is the check of app/api/auth/session, every other request is
\* proxied.
Send(q, kind) ==
    /\ q \notin Busy
    /\ cookie # 0
    /\ req' = [req EXCEPT ![q] = [phase |-> "sent", kind |-> kind, sent |-> cookie, pair |-> 0]]
    /\ UNCHANGED <<sessionVars, cookie, stale, flights, cache, excused>>

Answer(q, phase, pair) == req' = [req EXCEPT ![q].phase = phase, ![q].pair = pair]

\* The access token of the request is still good.
fetchUpstream(q) ==
    /\ req[q].phase = "sent"
    /\ req[q].sent \notin stale
    /\ Answer(q, "ok", 0)
    /\ UNCHANGED <<sessionVars, cookie, stale, flights, cache, excused>>

Unauthorized(q) == req[q].phase = "sent" /\ req[q].sent \in stale

refreshCached(q) ==
    /\ Unauthorized(q)
    /\ cache[req[q].sent] # 0
    /\ Answer(q, "ok", cache[req[q].sent])
    /\ UNCHANGED <<sessionVars, cookie, stale, flights, cache, excused>>

\* Mutant: the cache is not consulted.
refreshTokens_uncached(q) ==
    /\ Unauthorized(q)
    /\ Answer(q, "waiting", 0)
    /\ flights' = flights \union {req[q].sent}
    /\ UNCHANGED <<sessionVars, cookie, stale, cache, excused>>

refreshTokens(q) ==
    /\ Unauthorized(q)
    /\ cache[req[q].sent] = 0
    /\ Answer(q, "waiting", 0)
    /\ flights' = flights \union {req[q].sent}
    /\ UNCHANGED <<sessionVars, cookie, stale, cache, excused>>

\* The requests that wait for the refresh of t get pair, or nothing.
Land(t, pair) ==
    /\ flights' = flights \ {t}
    /\ req' = [q \in Requests |->
                 IF req[q].phase = "waiting" /\ req[q].sent = t
                   THEN [req[q] EXCEPT !.phase = IF pair = 0 THEN "refused" ELSE "ok",
                                       !.pair = pair]
                   ELSE req[q]]

BackendReads(t) ==
    /\ t \in flights \ reading
    /\ \E r \in Refreshers : refresh_read(r, t)
    /\ UNCHANGED <<cookie, stale, flights, cache, req, excused>>

BackendRefuses(t) ==
    /\ t \in flights \ reading
    /\ \/ refresh_reuse(t)
       \/ tokenState[t] = "expired" /\ UNCHANGED sessionVars
    /\ Land(t, 0)
    /\ UNCHANGED <<cookie, stale, cache, excused>>

BackendRotates(t) ==
    /\ t \in flights
    /\ \E r \in Refreshers : refreshing[r] = t /\ rotate(r)
    /\ Land(t, issued + 1)
    /\ cache' = [cache EXCEPT ![t] = issued + 1]
    /\ UNCHANGED <<cookie, stale, excused>>

\* The backend fails, or its answer does not reach the portal.
UpstreamFails(t) ==
    /\ t \in flights
    /\ IF t \in reading
         THEN \E r \in Refreshers : refreshing[r] = t /\ (rotate(r) \/ RefreshAborts(r))
         ELSE UNCHANGED sessionVars
    /\ Land(t, 0)
    /\ excused' = TRUE
    /\ UNCHANGED <<cookie, stale, cache>>

\* proxyRequest: a new pair goes to the browser, and a refusal ends the session.
deliver(q) ==
    /\ req[q].kind = "proxy"
    /\ req[q].phase \in {"ok", "refused"}
    /\ req' = [req EXCEPT ![q] = NoRequest]
    /\ cookie' = IF req[q].phase = "refused" THEN 0
                 ELSE IF req[q].pair # 0 THEN req[q].pair ELSE cookie
    /\ UNCHANGED <<sessionVars, stale, flights, cache, excused>>

\* fetchJsonUpstream refreshes as well, and its caller drops the new pair: only
\* the cache knows it from now on.
deliver_session(q) ==
    /\ req[q].kind = "session"
    /\ req[q].phase \in {"ok", "refused"}
    /\ req' = [req EXCEPT ![q] = NoRequest]
    /\ excused' = (excused \/ req[q].pair # 0)
    /\ UNCHANGED <<sessionVars, cookie, stale, flights, cache>>

\* The browser gives the request up; a pair on its way is lost.
Abort(q) ==
    /\ req[q].phase = "ok"
    /\ req' = [req EXCEPT ![q] = NoRequest]
    /\ excused' = (excused \/ req[q].pair # 0)
    /\ UNCHANGED <<sessionVars, cookie, stale, flights, cache>>

\* A request takes less than the 60 seconds of the cache and the minutes of an
\* access token: when one of them runs out, no request of an older cookie is
\* under way, and no pair is on its way to the browser.
Settled == \A q \in Busy : req[q].sent = cookie /\ req[q].pair = 0

AccessExpires(t) ==
    /\ Settled
    /\ t \in 1..issued \ stale
    /\ stale' = stale \union {t}
    /\ UNCHANGED <<sessionVars, cookie, flights, cache, req, excused>>

CacheExpires(t) ==
    /\ Settled
    /\ cache[t] # 0
    /\ cache' = [cache EXCEPT ![t] = 0]
    /\ UNCHANGED <<sessionVars, cookie, stale, flights, req, excused>>

PortalRestarts ==
    /\ cookie # 0
    /\ Busy = {}
    /\ cache' = [t \in RefreshIds |-> 0]
    /\ excused' = TRUE
    /\ UNCHANGED <<sessionVars, cookie, stale, flights, req>>

\* The user's sessions are ended elsewhere.
RevokedElsewhere ==
    /\ \/ revoke_user_refresh_tokens
       \/ \E t \in RefreshIds : RefreshExpires(t)
    /\ excused' = TRUE
    /\ UNCHANGED <<cookie, stale, flights, cache, req>>

PortalNext ==
    \/ portal_login \/ portal_logout \/ PortalRestarts \/ RevokedElsewhere
    \/ \E q \in Requests :
          \/ \E kind \in {"proxy", "session"} : Send(q, kind)
          \/ fetchUpstream(q) \/ refreshCached(q) \/ refreshTokens(q)
          \/ deliver(q) \/ deliver_session(q) \/ Abort(q)
    \/ \E t \in RefreshIds :
          \/ BackendReads(t) \/ BackendRefuses(t) \/ BackendRotates(t) \/ UpstreamFails(t)
          \/ AccessExpires(t) \/ CacheExpires(t)

PortalSpec == PortalInit /\ [][PortalNext]_portalVars

-----------------------------------------------------------------------------
(* Properties.                                                               *)

\* Every variable keeps its type, and only a request that waits has a flight.
PortalTypeOK ==
    /\ SessionsTypeOK
    /\ cookie \in 0..issued
    /\ stale \subseteq 1..issued
    /\ flights \subseteq 1..issued
    /\ reading \subseteq flights
    /\ cache \in [RefreshIds -> 0..issued]
    /\ req \in [Requests -> [phase : {"idle", "sent", "waiting", "ok", "refused"},
                             kind : {"proxy", "session"},
                             sent : 0..issued, pair : 0..issued]]
    /\ \A q \in Requests : req[q].phase = "waiting" => req[q].sent \in flights
    /\ excused \in BOOLEAN

\* However many requests find the access token expired together, the user is
\* not thrown out in the middle of a session (lib/backend.ts:115): until an
\* answer is lost or the sessions are ended on purpose, no request is refused,
\* and the browser's token is live or still in the cache.
StaysSignedIn ==
    ~excused =>
       /\ \A q \in Requests : req[q].phase # "refused"
       /\ cookie # 0 => tokenState[cookie] = "live" \/ cache[cookie] # 0
=============================================================================
