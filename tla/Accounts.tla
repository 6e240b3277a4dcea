------------------------------ MODULE Accounts ------------------------------
(***************************************************************************)
(* Accounts, sessions and logins (lib/auth.ts, routes/auth.ts): local      *)
(* users, users of an LDAP directory whose role every login refreshes,     *)
(* self-enrolled agents, tokens, and the limiter of failed attempts.  A    *)
(* directory login checks the limiter and reads the user, awaits the       *)
(* directory, and goes on with what it read; logins overlap.               *)
(*                                                                         *)
(* Time is what the limiter tells apart: the window of an entry ends, and  *)
(* then its lock (by default a lock lasts as long as a window and begins   *)
(* later).  Of the tokens of a user the model keeps whether there are some *)
(* that are valid and some that have expired.                              *)
(***************************************************************************)
EXTENDS Naturals, FiniteSets

CONSTANTS
  Names,          \* usernames, up to case
  AgentNames,     \* the ones enrollment makes: "agent:" and a repository
  Roles,
  DefaultRole,    \* ldap.default_role, of people in no mapped group
  Logins,         \* directory logins that may be awaited at a time
  MaxFailed,      \* SPECREG_AUTH_RATE_LIMIT_MAX
  MaxMoves,       \* bound on changes of the directory, failing lookups and restarts
  MaxWrong        \* bound on attempts with a wrong password

ASSUME AccountsAssumption ==
  /\ AgentNames \subseteq Names
  /\ {"agent", DefaultRole} \subseteq Roles
  /\ MaxFailed \in Nat \ {0} /\ IsFiniteSet(Logins)

VARIABLES
  users,       \* table users, by name
  tokens,      \* table tokens, by user
  ldap,        \* whether the setting ldap.url is there
  directory,   \* what mapLdapGroupsToRole makes of the directory's groups
  rateState,   \* the limiter's entries, by route and name
  logins,      \* suspended directory logins
  moves, wrong

accountVars == <<users, tokens, ldap, directory, rateState, logins, moves, wrong>>

NoUser == [source |-> "absent"]
UserRow == [source : {"local", "ldap"}, role : Roles, password : BOOLEAN, repo : BOOLEAN]
Routes == {"auth/login", "agents/enroll"}
NoEntry == [count |-> 0, open |-> FALSE, locked |-> FALSE]
NoLogin == [name |-> "none"]
\* What a suspended login knows: its user, whether a row existed, whether groups were
\* asked for and the role of those it knows of, which is the default while there are none.
LoginRow == [name : Names, known : BOOLEAN, asked : BOOLEAN, role : Roles]

AccountsTypeOK ==
  /\ users \in [Names -> UserRow \cup {NoUser}]
  /\ tokens \in [Names -> SUBSET {"valid", "expired"}]
  /\ ldap \in BOOLEAN
  /\ directory \in [Names -> Roles]
  /\ rateState \in [Routes -> [Names -> [count : Nat, open : BOOLEAN, locked : BOOLEAN]]]
  /\ logins \in [Logins -> LoginRow \cup {NoLogin}]
  /\ moves \in 0..MaxMoves /\ wrong \in 0..MaxWrong

AccountsInit ==
  /\ users = [n \in Names |-> NoUser]
  /\ tokens = [n \in Names |-> {}]
  /\ ldap \in BOOLEAN
  /\ directory = [n \in Names |-> DefaultRole]
  /\ rateState = [r \in Routes |-> [n \in Names |-> NoEntry]]
  /\ logins = [l \in Logins |-> NoLogin]
  /\ moves = 0 /\ wrong = 0

Known(n) == users[n] # NoUser
-----------------------------------------------------------------------------
(* The limiter, by route and name: clientKey.                              *)

\* assertNotLimited
NotLimited(r, n) == ~rateState[r][n].locked

\* An entry whose window is over is counted anew, and without its lock.
Current(r, n) == IF rateState[r][n].open THEN rateState[r][n] ELSE NoEntry

\* recordFailedAttempt
Failed(r, n) ==
  LET count == Current(r, n).count + 1
  IN  rateState' = [rateState EXCEPT ![r][n] =
        [count |-> count, open |-> TRUE, locked |-> count >= MaxFailed]]

Cleared(r, n) == rateState' = [rateState EXCEPT ![r][n] = NoEntry]

WindowEnds(r, n) ==
  /\ rateState[r][n].open
  /\ rateState' = [rateState EXCEPT ![r][n] =
       IF @.locked THEN [@ EXCEPT !.open = FALSE] ELSE NoEntry]
  /\ UNCHANGED <<users, tokens, ldap, directory, logins, moves, wrong>>

LockEnds(r, n) ==
  /\ rateState[r][n].locked /\ ~rateState[r][n].open
  /\ Cleared(r, n)
  /\ UNCHANGED <<users, tokens, ldap, directory, logins, moves, wrong>>
-----------------------------------------------------------------------------
(* Users and tokens.                                                       *)

\* issueToken
Issue(n) == tokens' = [tokens EXCEPT ![n] = @ \cup {"valid"}]

\* POST /auth/users
CreateLocalUser(n, role, password) ==
  /\ ~Known(n)
  /\ users' = [users EXCEPT ![n] = [source |-> "local", role |-> role,
                                   password |-> password, repo |-> FALSE]]
  /\ UNCHANGED <<tokens, ldap, directory, rateState, logins, moves, wrong>>

\* An account of a person is never turned into an agent.
Enrollable(n) == Known(n) => users[n].role = "agent"

\* POST /agents/enroll: find or create, and issue a token.
EnrollAgent(n) ==
  /\ n \in AgentNames
  /\ NotLimited("agents/enroll", n)
  /\ Enrollable(n)
  /\ users' = [users EXCEPT ![n] =
       IF Known(n) THEN [@ EXCEPT !.repo = TRUE]
       ELSE [source |-> "local", role |-> "agent", password |-> FALSE, repo |-> TRUE]]
  /\ Issue(n)
  /\ Cleared("agents/enroll", n)
  /\ UNCHANGED <<ldap, directory, logins, moves, wrong>>

WrongSecret(n) ==
  /\ n \in AgentNames
  /\ NotLimited("agents/enroll", n)
  /\ wrong < MaxWrong /\ wrong' = wrong + 1
  /\ Failed("agents/enroll", n)
  /\ UNCHANGED <<users, tokens, ldap, directory, logins, moves>>

\* POST /auth/api-keys
CreateApiKey(n) ==
  /\ Known(n)
  /\ Issue(n)
  /\ UNCHANGED <<users, ldap, directory, rateState, logins, moves, wrong>>

\* DELETE /auth/api-keys/:id of one of the tokens of a kind, the last or not.
RevokeApiKey(n, kind) ==
  /\ kind \in tokens[n]
  /\ tokens' \in {tokens, [tokens EXCEPT ![n] = @ \ {kind}]}
  /\ UNCHANGED <<users, ldap, directory, rateState, logins, moves, wrong>>

\* DELETE /auth/users/:id/tokens
RevokeTokens(n) ==
  /\ Known(n)
  /\ tokens' = [tokens EXCEPT ![n] = {}]
  /\ UNCHANGED <<users, ldap, directory, rateState, logins, moves, wrong>>

Expire(n) ==
  /\ "valid" \in tokens[n]
  /\ tokens' \in {[tokens EXCEPT ![n] = @ \cup {"expired"}], [tokens EXCEPT ![n] = {"expired"}]}
  /\ UNCHANGED <<users, ldap, directory, rateState, logins, moves, wrong>>

\* lookupToken deletes an expired token that is presented.
PresentExpired(n) == RevokeApiKey(n, "expired")

\* PUT /auth/users/:id/password, of oneself or by an administrator
SetPassword(n) ==
  /\ Known(n)
  /\ users' = [users EXCEPT ![n].password = TRUE]
  /\ UNCHANGED <<tokens, ldap, directory, rateState, logins, moves, wrong>>

\* PUT /ldap/config
ToggleLdap ==
  /\ moves < MaxMoves /\ moves' = moves + 1
  /\ ldap' = ~ldap
  /\ UNCHANGED <<users, tokens, directory, rateState, logins, wrong>>

\* The groups of a person change in the directory.
Regroup(n, role) ==
  /\ moves < MaxMoves /\ moves' = moves + 1
  /\ role # "agent"
  /\ directory' = [directory EXCEPT ![n] = role]
  /\ UNCHANGED <<users, tokens, ldap, rateState, logins, wrong>>
-----------------------------------------------------------------------------
(* POST /auth/login.                                                       *)

AnyoneByDirectory(n) == ldap  \* mutant of ByDirectory
\* Local accounts keep their password when a directory is configured.
ByDirectory(n) == ldap /\ users[n].source # "local"

LocalLogin(n) ==
  /\ NotLimited("auth/login", n) /\ ~ByDirectory(n)
  /\ Known(n) /\ users[n].password
  /\ Issue(n)
  /\ Cleared("auth/login", n)
  /\ UNCHANGED <<users, ldap, directory, logins, moves, wrong>>

WrongPassword(n) ==
  /\ NotLimited("auth/login", n) /\ ~ByDirectory(n)
  /\ wrong < MaxWrong /\ wrong' = wrong + 1
  /\ Failed("auth/login", n)
  /\ UNCHANGED <<users, tokens, ldap, directory, logins, moves>>

\* ldapAuthenticate starts.
StartLogin(l, n) ==
  /\ NotLimited("auth/login", n) /\ ByDirectory(n)
  /\ logins[l] = NoLogin
  /\ logins' = [logins EXCEPT ![l] =
       [name |-> n, known |-> Known(n), asked |-> FALSE, role |-> DefaultRole]]
  /\ UNCHANGED <<users, tokens, ldap, directory, rateState, moves, wrong>>

\* A search for the groups is answered: the one that finds the user, or the one made
\* after the bind while none are known.
ReadGroups(l) ==
  /\ logins[l] # NoLogin
  /\ ~logins[l].asked \/ logins[l].role = DefaultRole
  /\ logins' = [logins EXCEPT ![l].asked = TRUE, ![l].role = directory[logins[l].name]]
  /\ UNCHANGED <<users, tokens, ldap, directory, rateState, moves, wrong>>

\* The search after a direct bind fails.  It is best effort: the login goes on as if
\* the user were in no group.
GroupsFail(l) ==
  /\ logins[l] # NoLogin /\ ~logins[l].asked
  /\ moves < MaxMoves /\ moves' = moves + 1
  /\ logins' = [logins EXCEPT ![l].asked = TRUE]
  /\ UNCHANGED <<users, tokens, ldap, directory, rateState, wrong>>

RefreshedOnce(row, role) == row  \* mutant of Refreshed
\* UPDATE users SET role
Refreshed(row, role) == [row EXCEPT !.role = role]

\* The bind succeeded.  The user is inserted or its role refreshed according to what was
\* read before, or not; the insertion fails if the name is taken by now.
FinishLogin(l) ==
  LET login == logins[l]
      n == login.name
  IN  /\ login # NoLogin /\ login.asked
      /\ IF ~login.known /\ Known(n)
         THEN UNCHANGED <<users, tokens, rateState>>
         ELSE /\ users' = [users EXCEPT ![n] =
                   IF login.known THEN Refreshed(@, login.role)
                   ELSE [source |-> "ldap", role |-> login.role, password |-> FALSE,
                         repo |-> FALSE]]
              /\ Issue(n)
              /\ Cleared("auth/login", n)
      /\ logins' = [logins EXCEPT ![l] = NoLogin]
      /\ UNCHANGED <<ldap, directory, moves, wrong>>

\* The directory refuses the password, or cannot be reached: both are a 401.
RefuseLogin(l) ==
  /\ logins[l] # NoLogin
  /\ wrong < MaxWrong /\ wrong' = wrong + 1
  /\ Failed("auth/login", logins[l].name)
  /\ logins' = [logins EXCEPT ![l] = NoLogin]
  /\ UNCHANGED <<users, tokens, ldap, directory, moves>>

\* A restart forgets the limiter and the logins, not the tables.
ServerRestart ==
  /\ moves < MaxMoves /\ moves' = moves + 1
  /\ rateState' = [r \in Routes |-> [n \in Names |-> NoEntry]]
  /\ logins' = [l \in Logins |-> NoLogin]
  /\ UNCHANGED <<users, tokens, ldap, directory, wrong>>

AccountsNext ==
  \/ \E n \in Names :
       \/ \E role \in Roles, password \in BOOLEAN : CreateLocalUser(n, role, password)
       \/ \E role \in Roles : Regroup(n, role)
       \/ EnrollAgent(n) \/ WrongSecret(n)
       \/ CreateApiKey(n) \/ RevokeTokens(n) \/ Expire(n) \/ PresentExpired(n)
       \/ \E kind \in {"valid", "expired"} : RevokeApiKey(n, kind)
       \/ SetPassword(n) \/ LocalLogin(n) \/ WrongPassword(n)
       \/ \E r \in Routes : WindowEnds(r, n) \/ LockEnds(r, n)
       \/ \E l \in Logins : StartLogin(l, n)
  \/ \E l \in Logins : ReadGroups(l) \/ GroupsFail(l) \/ FinishLogin(l) \/ RefuseLogin(l)
  \/ ToggleLdap \/ ServerRestart

AccountsSpec == AccountsInit /\ [][AccountsNext]_accountVars

\* The directory answers, locks end and people log in again and again.
AccountsFairness ==
  /\ \A l \in Logins : WF_accountVars(ReadGroups(l) \/ GroupsFail(l) \/ FinishLogin(l))
  /\ \A r \in Routes, n \in Names : WF_accountVars(WindowEnds(r, n) \/ LockEnds(r, n))
  /\ \A n \in Names : SF_accountVars(\E l \in Logins : StartLogin(l, n))
-----------------------------------------------------------------------------
(* Properties.                                                             *)

\* The limiter checks before the directory answers and counts after: the logins that
\* passed the check before the lock may still fail, but no more than those.
FailuresAreBounded ==
  \A r \in Routes, n \in Names : rateState[r][n].count <= MaxFailed + Cardinality(Logins)

\* No login and no enrollment changes the role of a local account: the local
\* administrator keeps the way in, people are not turned into agents nor agents into
\* people, whichever names the directory knows and whatever overlaps.
LocalRolesAreKept ==
  [][\A n \in Names : users[n].source = "local" =>
       users'[n].source = "local" /\ users'[n].role = users[n].role]_accountVars

\* Overlapping logins neither pass the limiter for ever nor take over local accounts.
LoginsAreContained == []FailuresAreBounded /\ LocalRolesAreKept

\* Late answers of the directory may bring back an older role, and a lookup of groups that
\* fails after a good bind takes an administrator's role away; but while the directory stays
\* configured and once it answers, the role of a user who keeps logging in is the
\* directory's in the end.
DirectoryRolesCatchUp ==
  <>[](\A n \in Names : ldap /\ users[n].source = "ldap" => users[n].role = directory[n])
=============================================================================
