------------------------------ MODULE Sessions ------------------------------
(***************************************************************************)
(* Login codes and sliding sessions: SessionManager (crates/db/src/        *)
(* session.rs), the users table behind it (crates/db/src/auth.rs), and the *)
(* token cache in front of it (crates/server/src/auth.rs, lib.rs).         *)
(*                                                                         *)
(* A request with a bearer token is answered from the cache, or verified   *)
(* in the database, slid, and cached; each of the three is a step of its   *)
(* own, as are the two halves of a logout.  Deleting a user deletes the    *)
(* user's codes and sessions (ON DELETE CASCADE).  A request is taken to   *)
(* be short against the cache's time to live: time does not pass inside    *)
(* one.  Names, device metadata and hashing are left out.                  *)
(***************************************************************************)
EXTENDS Integers, FiniteSets

CONSTANTS
    User,        \* Telegram ids other than the administrator's
    Session,     \* sessions that may be made; a session has one token
    Request,     \* HTTP requests that may be in progress together
    Code,        \* the texts of login codes
    NoSession,
    CodeLife,    \* five minutes
    SessionLife, \* three days
    CacheTtl,    \* time_to_live of token_cache, 60 s
    MaxNow       \* bound on the clock

\* Lifetimes and the clock are whole seconds; each may be zero.
ASSUME SessionsAssumption ==
    CodeLife \in Nat /\ SessionLife \in Nat /\ CacheTtl \in Nat /\ MaxNow \in Nat

VARIABLES
    now,
    users,       \* the users table
    codes,       \* one_time_auth_codes: [code, user, exp]
    sessions,    \* user_sessions: a function from session to [user, exp, revoked]
    cache,       \* token_cache: a function from session to the end of its entry
    req,         \* the requests in progress: [at, s, user, code]
    leaving,     \* logouts between the cache and the database: [s, user]
    grant,       \* history: when a session was last accepted, -1 for never
    gone         \* history: when it ceased to be valid in the database, -1 for not

vars == <<now, users, codes, sessions, cache, req, leaving, grant, gone>>

Live == DOMAIN sessions
Valid(s) == s \in Live /\ ~ sessions[s].revoked /\ sessions[s].exp > now
Idle == [at |-> "idle", s |-> NoSession, user |-> NoSession, code |-> NoSession]
Quiet == /\ \A r \in Request : req[r] = Idle
         /\ leaving = {}

TypeOK ==
    /\ now \in 0 .. MaxNow
    /\ users \subseteq User
    /\ codes \subseteq [code: Code, user: User, exp: 0 .. MaxNow + CodeLife]
    /\ Live \subseteq Session /\ DOMAIN cache \subseteq Session
    /\ \A s \in Live : sessions[s] \in [user: User, exp: 0 .. MaxNow + SessionLife,
                                        revoked: BOOLEAN]
    /\ \A s \in DOMAIN cache : cache[s] \in 0 .. MaxNow + CacheTtl
    /\ req \in [Request -> [at: {"idle", "verified", "slid", "exchange", "insert"},
                            s: Session \cup {NoSession}, user: User \cup {NoSession},
                            code: Code \cup {NoSession}]]
    /\ grant \in [Session -> -1 .. MaxNow] /\ gone \in [Session -> -1 .. MaxNow]

Init ==
    /\ now = 0
    /\ users = {} /\ codes = {}
    /\ sessions = <<>> /\ cache = <<>>
    /\ req = [r \in Request |-> Idle]
    /\ leaving = {}
    /\ grant = [s \in Session |-> -1]
    /\ gone = [s \in Session |-> -1]

With(f, x, y) == [z \in DOMAIN f \cup {x} |-> IF z = x THEN y ELSE f[z]]
Without(f, X) == [z \in DOMAIN f \ X |-> f[z]]

\* History: sessions in S stop being valid now, if they were.
Ends(S) == gone' = [s \in Session |-> IF s \in S /\ gone[s] = -1 THEN now ELSE gone[s]]

-----------------------------------------------------------------------------
(* Users and login codes. *)

\* /auth: Auth::authorize.
Authorize(u) ==
    /\ u \notin users
    /\ users' = users \cup {u}
    /\ UNCHANGED <<now, codes, sessions, cache, req, leaving, grant, gone>>

\* /revoke: Auth::revoke deletes the user, and with it codes and sessions.
RevokeUser(u) ==
    /\ u \in users
    /\ users' = users \ {u}
    /\ codes' = {c \in codes : c.user # u}
    /\ LET lost == {s \in Live : sessions[s].user = u} IN
       /\ sessions' = Without(sessions, lost)
       /\ Ends(lost)
    /\ UNCHANGED <<now, cache, req, leaving, grant>>

\* /stream: create_login_code replaces the user's codes and drops expired ones.  The
\* text is drawn at random; one that is in the table already is refused.
CreateLoginCode(u) ==
    /\ u \in users
    /\ LET kept == {c \in codes : c.user # u /\ c.exp >= now} IN
       \E k \in Code :
          codes' = IF \E c \in kept : c.code = k THEN kept
                   ELSE kept \cup {[code |-> k, user |-> u, exp |-> now + CodeLife]}
    /\ UNCHANGED <<now, users, sessions, cache, req, leaving, grant, gone>>

\* exchange_code: find the code and its user, delete what has that text, insert the
\* session (refused when the user is gone), cache the token.
FindCode(r) ==
    /\ req[r].at = "idle"
    /\ \E c \in codes : /\ c.exp > now /\ c.user \in users
                        /\ req' = [req EXCEPT ![r] = [at |-> "exchange", s |-> NoSession,
                                                      user |-> c.user, code |-> c.code]]
    /\ UNCHANGED <<now, users, codes, sessions, cache, leaving, grant, gone>>

DeleteCode(r) ==
    /\ req[r].at = "exchange"
    /\ codes' = {c \in codes : c.code # req[r].code}
    /\ req' = [req EXCEPT ![r].at = "insert", ![r].code = NoSession]
    /\ UNCHANGED <<now, users, sessions, cache, leaving, grant, gone>>

\* Two steps in the code; nothing else knows the token before it is returned.
InsertSession(r) ==
    /\ req[r].at = "insert"
    /\ req' = [req EXCEPT ![r] = Idle]
    /\ IF req[r].user \notin users THEN UNCHANGED <<sessions, cache, grant>>
       ELSE \E s \in Session :
               /\ s \notin Live /\ gone[s] = -1
               /\ sessions' = With(sessions, s, [user |-> req[r].user, exp |-> now + SessionLife,
                                                 revoked |-> FALSE])
               /\ cache' = With(cache, s, now + CacheTtl)
               /\ grant' = [grant EXCEPT ![s] = now]
    /\ UNCHANGED <<now, users, codes, leaving, gone>>

-----------------------------------------------------------------------------
(* Requests with a token. *)

\* Mutant: a hit renews the cache entry.
CacheHitRenews(s) ==
    /\ s \in DOMAIN cache
    /\ cache' = With(cache, s, now + CacheTtl)
    /\ grant' = [grant EXCEPT ![s] = now]
    /\ UNCHANGED <<now, users, codes, sessions, req, leaving, gone>>

\* from_request_parts: the cache knows the token.
CacheHit(s) ==
    /\ s \in DOMAIN cache
    /\ grant' = [grant EXCEPT ![s] = now]
    /\ UNCHANGED <<now, users, codes, sessions, cache, req, leaving, gone>>

\* verify_session_record: the row, its expiry and the user; a session whose user
\* is gone went with it.  The refresh endpoint comes here without the cache.
Verify(r, s) ==
    /\ req[r].at = "idle"
    /\ Valid(s)
    /\ req' = [req EXCEPT ![r] = [Idle EXCEPT !.at = "verified", !.s = s]]
    /\ UNCHANGED <<now, users, codes, sessions, cache, leaving, grant, gone>>

\* verify_and_slide: the row's expiry moves, if there still is a row.
Slide(r) ==
    /\ req[r].at = "verified"
    /\ req' = [req EXCEPT ![r].at = "slid"]
    /\ sessions' = IF req[r].s \in Live THEN [sessions EXCEPT ![req[r].s].exp = now + SessionLife]
                   ELSE sessions
    /\ UNCHANGED <<now, users, codes, cache, leaving, grant, gone>>

CacheInsert(r) ==
    /\ req[r].at = "slid"
    /\ req' = [req EXCEPT ![r] = Idle]
    /\ cache' = With(cache, req[r].s, now + CacheTtl)
    /\ grant' = [grant EXCEPT ![req[r].s] = now]
    /\ UNCHANGED <<now, users, codes, sessions, leaving, gone>>

\* logout with a token in the body, or of all the user's sessions: first the
\* cache, then the database.
Forget(s) ==
    /\ s \in Live
    /\ \/ /\ cache' = Without(cache, {s})
          /\ leaving' = leaving \cup {[s |-> s, user |-> NoSession]}
       \/ /\ s \in DOMAIN cache
          /\ cache' = <<>>
          /\ leaving' = leaving \cup {[s |-> NoSession, user |-> sessions[s].user]}
    /\ UNCHANGED <<now, users, codes, sessions, req, grant, gone>>

\* revoke of the one session, or revoke_all_for_user.
Revoke(l) ==
    /\ leaving' = leaving \ {l}
    /\ LET out == {s \in Live : s = l.s \/ sessions[s].user = l.user} IN
       /\ sessions' = [s \in Live |-> [sessions[s] EXCEPT !.revoked = @ \/ s \in out]]
       /\ Ends(out)
    /\ UNCHANGED <<now, users, codes, cache, req, grant>>

\* Time passes between requests; cache entries end.
Tick ==
    /\ Quiet /\ now < MaxNow
    /\ now' = now + 1
    /\ cache' = [s \in {x \in DOMAIN cache : cache[x] > now + 1} |-> cache[s]]
    /\ gone' = [s \in Session |->
                  IF gone[s] = -1 /\ s \in Live /\ sessions[s].exp <= now + 1 THEN now + 1
                  ELSE gone[s]]
    /\ UNCHANGED <<users, codes, sessions, req, leaving, grant>>

Next ==
    \/ \E u \in User : Authorize(u) \/ RevokeUser(u) \/ CreateLoginCode(u)
    \/ \E r \in Request : \/ FindCode(r) \/ DeleteCode(r) \/ InsertSession(r)
                          \/ Slide(r) \/ CacheInsert(r)
                          \/ \E s \in Session : Verify(r, s)
    \/ \E s \in Session : CacheHit(s) \/ Forget(s)
    \/ \E l \in leaving : Revoke(l)
    \/ Tick

Spec == Init /\ [][Next]_vars

-----------------------------------------------------------------------------

\* A session that was revoked, deleted or ran out is accepted for at most the
\* cache's time to live, although a request may verify it just before and cache it
\* just after (auth.rs: verify_and_slide, then token_cache.insert).
RevocationTakesHold ==
    \A s \in Session : gone[s] # -1 /\ grant[s] # -1 => grant[s] <= gone[s] + CacheTtl

\* A session in use does not run out: requests answered from the cache do not
\* slide it, and still it lasts SessionLife, less one cache period, from the last.
UseKeepsAlive ==
    \A s \in Live : gone[s] = -1 => sessions[s].exp >= grant[s] + SessionLife - CacheTtl

\* The cache of verified tokens neither prolongs a session that is over nor
\* shortens one in use (crates/server/src/auth.rs, crates/db/src/auth.rs).
SessionLifeHolds ==
    TypeOK /\ RevocationTakesHold /\ UseKeepsAlive
=============================================================================
