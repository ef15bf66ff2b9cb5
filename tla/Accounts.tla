------------------------------ MODULE Accounts ------------------------------
(***************************************************************************)
(* User accounts and sessions: app/api/auth.py over user_storage.py,       *)
(* jwt_service.py and dependencies.py, and the limiter in front of logins. *)
(*                                                                         *)
(* Every node keeps its own users, in metadata.db of its own directory,    *)
(* under ids of its own.  All nodes sign with one secret, and a route      *)
(* takes the caller's role from the token without a look at the users, so  *)
(* a token of one node is accepted by all.  The handlers have no await: an *)
(* action is a handler, but for login, which blocks the event loop between *)
(* asking the limiter and telling it the outcome.                          *)
(***************************************************************************)
EXTENDS RateLimiter

CONSTANTS
    User,         \* usernames
    Role,         \* the roles; "ADMIN" is one of them
    AccessLife,   \* JWT_EXPIRY_MINUTES
    RefreshLife,  \* JWT_REFRESH_EXPIRY_DAYS
    MaxSessions   \* bound: sessions that clients hold at once

ASSUME AccountsAssumption ==
    /\ IsFiniteSet(User)
    /\ "ADMIN" \in Role
    /\ AccessLife \in Nat
    /\ RefreshLife \in Nat
    /\ MaxSessions \in Nat

Account == [role : Role, active : BOOLEAN]

ASSUME NoAccount == None \notin Account

VARIABLES
    users,      \* the rows of the users table of each node, or None
    sessions,   \* the tokens clients hold: one record per LoginResponse
    changedAt   \* history: when a row was last created or changed

accountVars == <<users, sessions, changedAt>>
vars == <<limiterVars, accountVars>>

\* The claims of an access token and of the refresh token issued with it, and
\* when each expires.
Session == [node : Node, user : User, role : Role, access : Nat, refresh : Nat]

Exists(n, u) == users[n][u] # None

IsActiveAdmin(n, u) ==
    Exists(n, u) /\ users[n][u].role = "ADMIN" /\ users[n][u].active

\* No route creates the first administrator: a node is set up with one.
Init ==
    /\ LimiterInit
    /\ users \in [Node -> [User -> Account \cup {None}]]
    /\ \A n \in Node : \E u \in User : IsActiveAdmin(n, u)
    /\ sessions = {}
    /\ changedAt = [n \in Node |-> [u \in User |-> 0]]

-----------------------------------------------------------------------------
(***************************************************************************)
(* Sessions.                                                               *)
(***************************************************************************)

\* create_access_token and create_refresh_token on the user's row
LoginResponse(n, u) ==
    [node |-> n, user |-> u, role |-> users[n][u].role,
     access |-> now + AccessLife, refresh |-> now + RefreshLife]

\* decode_access_token looks at the signature and the expiry, not at token_type,
\* so that a refresh token authorises as well.
Authorises(s, t) == t < s.access \/ t < s.refresh

\* POST /auth/login asks the limiter ...
LoginBegins(n, k) ==
    /\ IsRateLimited(n, k)
    /\ UNCHANGED accountVars

\* ... and the user does not exist or the password is wrong,
LoginFails(n) ==
    /\ RecordFailedAttempt(n)
    /\ UNCHANGED accountVars

\* or the password is right and the account is disabled,
LoginDisabled(n) ==
    /\ \E u \in User : Exists(n, u) /\ ~ users[n][u].active
    /\ RecordNothing(n)
    /\ UNCHANGED accountVars

\* or the user is logged in.
LoginSucceeds(n, u) ==
    /\ Exists(n, u)
    /\ users[n][u].active
    /\ Cardinality(sessions) < MaxSessions
    /\ RecordSuccessfulAttempt(n)
    /\ sessions' = sessions \cup {LoginResponse(n, u)}
    /\ UNCHANGED <<users, changedAt>>

\* Mutant of Refreshed: the role is copied from the refresh token.
RefreshedFromClaims(s) == [LoginResponse(s.node, s.user) EXCEPT !.role = s.role]

Refreshed(s) == LoginResponse(s.node, s.user)

\* POST /auth/refresh, at the node that knows the id: new tokens for the user as
\* it is now, if it is active.  The tokens that were exchanged stay valid.
RefreshAccessToken(s) ==
    /\ busy[s.node] = None
    /\ now < s.refresh
    /\ users[s.node][s.user].active
    /\ Cardinality(sessions) < MaxSessions
    /\ sessions' = sessions \cup {Refreshed(s)}
    /\ UNCHANGED <<limiterVars, users, changedAt>>

-----------------------------------------------------------------------------
(***************************************************************************)
(* Administration.  The caller is whoever holds a token that says ADMIN,   *)
(* of any node.                                                            *)
(***************************************************************************)

RequireAdmin(n) ==
    /\ busy[n] = None
    /\ \E s \in sessions : s.role = "ADMIN" /\ Authorises(s, now)

\* The row of u becomes account.
Store(n, u, account) ==
    /\ users' = [users EXCEPT ![n][u] = account]
    /\ changedAt' = [changedAt EXCEPT ![n][u] = IF account = users[n][u] THEN @ ELSE now]
    /\ UNCHANGED <<limiterVars, sessions>>

\* Mutant of CountActiveAdmins: disabled administrators are counted.
CountAdmins(n) ==
    Cardinality({u \in User : Exists(n, u) /\ users[n][u].role = "ADMIN"})

CountActiveAdmins(n) == Cardinality({u \in User : IsActiveAdmin(n, u)})

\* POST /auth/users; a username that exists is refused.
CreateUserAccount(n, u, account) ==
    /\ RequireAdmin(n)
    /\ ~ Exists(n, u)
    /\ Store(n, u, account)

\* PUT /auth/users/{identifier}/role; demoting an active administrator is refused
\* unless there is another one.
ChangeUserRole(n, u, role) ==
    /\ RequireAdmin(n)
    /\ Exists(n, u)
    /\ IsActiveAdmin(n, u) /\ role # "ADMIN" => CountActiveAdmins(n) > 1
    /\ Store(n, u, [users[n][u] EXCEPT !.role = role])

\* POST .../deactivate and PUT .../status; likewise for disabling one.
SetUserActiveStatus(n, u, active) ==
    /\ RequireAdmin(n)
    /\ Exists(n, u)
    /\ IsActiveAdmin(n, u) /\ ~ active => CountActiveAdmins(n) > 1
    /\ Store(n, u, [users[n][u] EXCEPT !.active = active])

-----------------------------------------------------------------------------
\* A node process is restarted: its users are on disk, its limiter is not.
Restart(n) ==
    /\ ForgetAttempts(n)
    /\ UNCHANGED accountVars

\* Time passes; tokens no route accepts any more are left out.
Tick ==
    /\ ClockTicks
    /\ sessions' = {s \in sessions : Authorises(s, now')}
    /\ UNCHANGED <<users, changedAt>>

Next ==
    \/ \E n \in Node, k \in Source : LoginBegins(n, k)
    \/ \E n \in Node : LoginFails(n)
    \/ \E n \in Node : LoginDisabled(n)
    \/ \E n \in Node, u \in User : LoginSucceeds(n, u)
    \/ \E s \in sessions : RefreshAccessToken(s)
    \/ \E n \in Node, u \in User, account \in Account : CreateUserAccount(n, u, account)
    \/ \E n \in Node, u \in User, role \in Role : ChangeUserRole(n, u, role)
    \/ \E n \in Node, u \in User, active \in BOOLEAN : SetUserActiveStatus(n, u, active)
    \/ \E n \in Node : Restart(n)
    \/ Tick

Spec == Init /\ [][Next]_vars

-----------------------------------------------------------------------------
\* TypeOK: rows, tokens and the limiter's tables stay within their types, and a
\* session's user exists at its node.
TypeOK ==
    /\ LimiterTypeOK
    /\ users \in [Node -> [User -> Account \cup {None}]]
    /\ sessions \subseteq Session
    /\ \A s \in sessions : Exists(s.node, s.user)
    /\ changedAt \in [Node -> [User -> 0..MaxTime]]

\* ActiveAdminRemains: whatever administrators, former ones with a token that is
\* still valid and administrators of other nodes do in whatever order, no node
\* is left without an active administrator.
ActiveAdminRemains ==
    \A n \in Node : \E u \in User : IsActiveAdmin(n, u)

\* The longest time a token is accepted.
TokenLife == IF AccessLife < RefreshLife THEN RefreshLife ELSE AccessLife

\* StaleRightsEnd: a token that is accepted says what its user may do now, or
\* said so until less than a token's life ago; refreshing does not carry
\* the rights of a demoted or disabled user any further.
StaleRightsEnd ==
    \A s \in sessions : Authorises(s, now) =>
        \/ users[s.node][s.user] = [role |-> s.role, active |-> TRUE]
        \/ now < changedAt[s.node][s.user] + TokenLife

=============================================================================
