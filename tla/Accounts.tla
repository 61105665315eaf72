------------------------------ MODULE Accounts ------------------------------
(***************************************************************************)
(* Accounts of the console: the first superadmin, sign-in by password and  *)
(* through OIDC, sessions, and superadmins changing accounts.  Handlers    *)
(* run beside each other; each statement on the database is a step.        *)
(* With auth.enabled off nobody signs in, and whoever has the admin token, *)
(* or anybody if there is none, changes accounts as an admin with no id.   *)
(***************************************************************************)
EXTENDS Naturals, FiniteSets

CONSTANTS
  People,    \* persons, each with an email address and an OIDC subject
  Requests,  \* requests handled at the same time
  Nobody,
  MaxIds,    \* bound: accounts ever created
  MaxLogins  \* bound: OIDC sign-ins started

ASSUME AccountsAssumption ==
  Nobody \notin People /\ MaxIds \in Nat \ {0} /\ MaxLogins \in Nat

Roles == {"superadmin", "user"}
LoginIds == 1..MaxLogins

VARIABLES
  authEnabled,  \* of the configuration, which a process reads when it starts
  accounts,  \* app_user: one row for an email address
  nextAccount,    \* AUTOINCREMENT
  sessions,  \* user_session: ids of accounts with a session
  started,   \* OIDC sign-ins started
  pending,   \* oidc_login_state: sign-ins not yet consumed
  handling,  \* what each request does next, and the account it has read
  opened     \* history: sessions that each OIDC sign-in has opened

accVars == <<authEnabled, accounts, nextAccount, sessions, started, pending, handling, opened>>

NoAccount == [id |-> 0, role |-> "user", enabled |-> FALSE, linked |-> FALSE]
\* beside is history: another request of the kind was under way meanwhile.
Free == [op |-> "idle", actor |-> 0, person |-> Nobody, login |-> 0, id |-> 0,
         beside |-> FALSE]

HasAccount(p) == accounts[p] # NoAccount
Ids == {accounts[p].id : p \in People} \ {0}
Superadmins == {p \in People : accounts[p].role = "superadmin" /\ accounts[p].enabled}
Holder(id) == CHOOSE p \in People : accounts[p].id = id

AccInit ==
  /\ authEnabled \in BOOLEAN
  /\ accounts = [p \in People |-> NoAccount] /\ nextAccount = 1
  /\ sessions = {} /\ started = 0 /\ pending = {}
  /\ handling = [q \in Requests |-> Free]
  /\ opened = [l \in LoginIds |-> 0]

Goes(q, request) == handling' = [handling EXCEPT ![q] = request]

\* A request of q begins while the others go on.
Begins(q, request, others) ==
  handling' = [o \in Requests |->
    IF o = q THEN [request EXCEPT !.beside = others # {}]
    ELSE IF o \in others THEN [handling[o] EXCEPT !.beside = TRUE]
    ELSE handling[o]]

Doing(q, op) == handling[q].op = op

Answer(q) == Goes(q, Free)

Proceed(q, op) == Goes(q, [handling[q] EXCEPT !.op = op])

\* The caller is known to be the account with this id; startSession is next.
SignsIn(q, id) == Goes(q, [Free EXCEPT !.op = "session", !.id = id, !.login = handling[q].login])

-----------------------------------------------------------------------------
(* A restart, perhaps with another configuration, and statements of the store. *)

\* The process ends in the middle of its requests; the database is the same.
ServerRestarts ==
  /\ authEnabled' \in BOOLEAN
  /\ handling' = [q \in Requests |-> Free]
  /\ UNCHANGED <<accounts, nextAccount, sessions, started, pending, opened>>

\* Mutant of CreateUser: the id is the number of rows before.
CreateNumbered(p, role, enabled, linked) ==
  accounts' = [accounts EXCEPT ![p] = [id |-> Cardinality(Ids), role |-> role,
                                       enabled |-> enabled, linked |-> linked]]

\* CreateUser: the email address is unique; the error is the caller's answer.
CreateUser(p, role, enabled, linked) ==
  accounts' = [accounts EXCEPT ![p] = [id |-> nextAccount, role |-> role,
                                       enabled |-> enabled, linked |-> linked]]

\* ON DELETE CASCADE, with foreign_keys(ON).
Cascades(id) == sessions \ {id}

\* startSession: CreateUserSession, refused when the account is gone.
StartSession(id) == sessions' = IF id \in Ids THEN sessions \union {id} ELSE sessions

-----------------------------------------------------------------------------
(* The first superadmin: bootstrapAdmin at the start, or handleSetup. *)

CountForSetup(q) ==
  /\ authEnabled /\ Doing(q, "idle") /\ Ids = {}
  /\ \E p \in People : Goes(q, [Free EXCEPT !.op = "setup", !.person = p])
  /\ UNCHANGED <<authEnabled, accounts, nextAccount, sessions, started, pending, opened>>

\* Two setups that have both counted no users both create theirs.
CreateSuperadmin(q) ==
  /\ Doing(q, "setup") /\ nextAccount <= MaxIds
  /\ LET p == handling[q].person
     IN IF HasAccount(p) THEN Answer(q) /\ UNCHANGED <<accounts, nextAccount>>
        ELSE /\ CreateUser(p, "superadmin", TRUE, FALSE) /\ nextAccount' = nextAccount + 1
             /\ SignsIn(q, nextAccount)
  /\ UNCHANGED <<authEnabled, sessions, started, pending, opened>>

-----------------------------------------------------------------------------
(* Sign-in by password, sign-out. *)

\* handleLogin: the account is read and its password compared.
CheckPassword(q) ==
  /\ authEnabled /\ Doing(q, "idle")
  /\ \E p \in People :
       /\ HasAccount(p) /\ accounts[p].enabled
       /\ SignsIn(q, accounts[p].id)
  /\ UNCHANGED <<authEnabled, accounts, nextAccount, sessions, started, pending, opened>>

OpenSession(q) ==
  /\ Doing(q, "session") /\ StartSession(handling[q].id) /\ Answer(q)
  /\ opened' = [l \in LoginIds |->
       IF l = handling[q].login THEN opened[l] + 1 ELSE opened[l]]
  /\ UNCHANGED <<authEnabled, accounts, nextAccount, started, pending>>

\* handleLogout, or the session's expiry.
CloseSession ==
  /\ \E id \in sessions : sessions' = sessions \ {id}
  /\ UNCHANGED <<authEnabled, accounts, nextAccount, started, pending, handling, opened>>

-----------------------------------------------------------------------------
(* Sign-in through OIDC. *)

\* handleOIDCLogin: SaveOIDCState.
StartOIDCLogin ==
  /\ authEnabled /\ started < MaxLogins /\ started' = started + 1
  /\ pending' = pending \union {started + 1}
  /\ UNCHANGED <<authEnabled, accounts, nextAccount, sessions, handling, opened>>

\* The state expires after ten minutes, or its callback consumes it while signing
\* in is disabled.
ExpireOIDCLogin ==
  /\ \E l \in pending : pending' = pending \ {l}
  /\ UNCHANGED <<authEnabled, accounts, nextAccount, sessions, started, handling, opened>>

\* ConsumeOIDCState: read and deleted in one transaction.
Consumed(l) == pending \ {l}

SigningIn == {"lookup", "upsert", "link", "enable", "create"}

\* handleOIDCCallback up to the claims: the person the provider vouches for.
Callback(q) ==
  /\ authEnabled /\ Doing(q, "idle")
  /\ \E l \in pending, p \in People :
       /\ pending' = Consumed(l)
       /\ Begins(q, [Free EXCEPT !.op = "lookup", !.person = p, !.login = l],
            {o \in Requests : handling[o].op \in SigningIn /\ handling[o].person = p})
  /\ UNCHANGED <<authEnabled, accounts, nextAccount, sessions, started, opened>>

Linked(p) == accounts[p].linked

\* GetUserByOIDC: an account that is known is taken as it is, if it is enabled.
LooksUp(q) ==
  LET p == handling[q].person
  IN IF ~Linked(p) THEN Proceed(q, "upsert")
     ELSE IF accounts[p].enabled
          THEN SignsIn(q, accounts[p].id)
          ELSE Answer(q)

LookUpSubject(q) ==
  /\ Doing(q, "lookup") /\ LooksUp(q)
  /\ UNCHANGED <<authEnabled, accounts, nextAccount, sessions, started, pending, opened>>

\* UpsertOIDCUser: which of the three statements follows.
Upsert(q) ==
  /\ Doing(q, "upsert")
  /\ LET p == handling[q].person
     IN Goes(q, [handling[q] EXCEPT !.id = accounts[p].id,
          !.op = IF Linked(p) THEN "enable" ELSE IF HasAccount(p) THEN "link" ELSE "create"])
  /\ UNCHANGED <<authEnabled, accounts, nextAccount, sessions, started, pending, opened>>

\* The account as GetUserByID reads it after the UPDATE of its row.
AfterUpdate(q, p, row) ==
  IF accounts[p].id # handling[q].id THEN Answer(q) /\ UNCHANGED accounts
  ELSE /\ accounts' = [accounts EXCEPT ![p] = row]
       /\ IF row.enabled THEN SignsIn(q, row.id)
                         ELSE Answer(q)

\* A subject known by now: its account is enabled again.
EnableLinked(q) ==
  /\ Doing(q, "enable")
  /\ LET p == handling[q].person
     IN AfterUpdate(q, p, [accounts[p] EXCEPT !.enabled = TRUE])
  /\ UNCHANGED <<authEnabled, nextAccount, sessions, started, pending, opened>>

\* An account with the email address: it gets the subject.
LinkByEmail(q) ==
  /\ Doing(q, "link")
  /\ LET p == handling[q].person
     IN AfterUpdate(q, p, [accounts[p] EXCEPT !.linked = TRUE])
  /\ UNCHANGED <<authEnabled, nextAccount, sessions, started, pending, opened>>

\* A new account, unless one has appeared meanwhile.
CreateFromOIDC(q) ==
  /\ Doing(q, "create") /\ nextAccount <= MaxIds
  /\ LET p == handling[q].person
     IN IF HasAccount(p) THEN Answer(q) /\ UNCHANGED <<accounts, nextAccount>>
        ELSE /\ CreateUser(p, "user", TRUE, TRUE) /\ nextAccount' = nextAccount + 1
             /\ SignsIn(q, nextAccount)
  /\ UNCHANGED <<authEnabled, sessions, started, pending, opened>>

-----------------------------------------------------------------------------
(* Superadmins: handleUsers and handleUser. *)

Administering == {"add", "put", "count", "delete"}

\* The caller of an administrative request: a superadmin with a session, or the
\* holder of the token, who is nobody's account.
Callers ==
  IF authEnabled THEN {id \in sessions \intersect Ids : Holder(id) \in Superadmins} ELSE {0}

\* withAdminSecurity; the role stays with the request.
Authenticate(q) ==
  /\ Doing(q, "idle")
  /\ \E id \in Callers, op \in {"add", "put", "count"}, p \in People :
       /\ Begins(q, [Free EXCEPT !.op = op, !.actor = id, !.person = p],
            {o \in Requests : handling[o].op \in Administering})
  /\ UNCHANGED <<authEnabled, accounts, nextAccount, sessions, started, pending, opened>>

AddUser(q) ==
  /\ Doing(q, "add") /\ Answer(q)
  /\ LET p == handling[q].person
     IN IF HasAccount(p) \/ nextAccount > MaxIds THEN UNCHANGED <<accounts, nextAccount>>
        ELSE /\ nextAccount' = nextAccount + 1
             /\ \E role \in Roles, enabled \in BOOLEAN :
                  CreateUser(p, role, enabled, FALSE)
  /\ UNCHANGED <<authEnabled, sessions, started, pending, opened>>

\* Mutant of MayPut: a superadmin may give up the role.
MayPutAnything(actor, p, role, enabled) == TRUE

\* cannot_remove_own_superadmin_access; the holder of the token has no own.
MayPut(actor, p, role, enabled) ==
  accounts[p].id # actor \/ (enabled /\ role = "superadmin")

\* PUT: UpdateUser, one statement, whatever others have changed meanwhile.
PutUser(q) ==
  /\ Doing(q, "put") /\ Answer(q)
  /\ LET p == handling[q].person
     IN \E role \in Roles, enabled \in BOOLEAN :
          IF HasAccount(p) /\ MayPut(handling[q].actor, p, role, enabled)
          THEN accounts' = [accounts EXCEPT ![p].role = role, ![p].enabled = enabled]
          ELSE UNCHANGED accounts
  /\ UNCHANGED <<authEnabled, nextAccount, sessions, started, pending, opened>>

\* DELETE: the account and the number of enabled superadmins are read.
CountForDelete(q) ==
  /\ Doing(q, "count")
  /\ LET p == handling[q].person
         refused == \/ ~HasAccount(p) \/ accounts[p].id = handling[q].actor
                    \/ accounts[p].role = "superadmin" /\ Cardinality(Superadmins) <= 1
     IN IF refused THEN Answer(q)
        ELSE Goes(q, [handling[q] EXCEPT !.op = "delete", !.id = accounts[p].id])
  /\ UNCHANGED <<authEnabled, accounts, nextAccount, sessions, started, pending, opened>>

DeleteRow(q) ==
  /\ Doing(q, "delete") /\ Answer(q)
  /\ LET p == handling[q].person
     IN IF accounts[p].id = handling[q].id
        THEN /\ accounts' = [accounts EXCEPT ![p] = NoAccount]
             /\ sessions' = Cascades(accounts[p].id)
        ELSE UNCHANGED <<accounts, sessions>>
  /\ UNCHANGED <<authEnabled, nextAccount, started, pending, opened>>

AccNext ==
  \/ \E q \in Requests :
       CountForSetup(q) \/ CreateSuperadmin(q) \/ CheckPassword(q) \/ OpenSession(q)
         \/ Callback(q) \/ LookUpSubject(q) \/ Upsert(q) \/ EnableLinked(q)
         \/ LinkByEmail(q) \/ CreateFromOIDC(q) \/ Authenticate(q) \/ AddUser(q)
         \/ PutUser(q) \/ CountForDelete(q) \/ DeleteRow(q)
  \/ CloseSession \/ StartOIDCLogin \/ ExpireOIDCLogin \/ ServerRestarts

AccSpec == AccInit /\ [][AccNext]_accVars

-----------------------------------------------------------------------------
(* Properties. *)

\* Rows are well typed, and ids are those that were given out.
AccTypeOK ==
  /\ \A p \in People :
       /\ accounts[p].id \in 0..MaxIds /\ accounts[p].id < nextAccount
       /\ accounts[p].role \in Roles /\ (HasAccount(p) => accounts[p].id > 0)
       /\ \A o \in People \ {p} : accounts[o].id # accounts[p].id \/ ~HasAccount(p)
  /\ sessions \subseteq 1..MaxIds /\ pending \subseteq LoginIds
  /\ \A l \in LoginIds : opened[l] \in 0..2

\* A session belongs to an account that exists: the sessions of a deleted
\* account are gone, and none is opened for it afterwards, also when its
\* password was compared before.
SessionsHaveAccounts == sessions \subseteq Ids

\* The last enabled superadmin is deleted only when two administrative requests
\* overlap (each removes the other), and demoted or disabled only then or, where
\* accounts are not asked for, by the holder of the token.
SuperadminLostByRaceOrToken ==
  [][Superadmins # {} /\ Superadmins' = {}
       => \E q \in Requests :
            \/ handling[q].op \in {"put", "delete"} /\ handling[q].beside
            \/ handling[q].op = "put" /\ ~authEnabled]_accVars

\* One sign-in through OIDC opens one session, however often its callback is
\* requested.
OneSessionPerSignIn == \A l \in LoginIds : opened[l] <= 1

\* A disabled account is enabled by an administrative request and not by signing in, but for
\* two sign-ins of one person at once.
EnabledByAdministrator ==
  [][\A p \in People :
       (accounts[p].id = accounts'[p].id /\ ~accounts[p].enabled /\ accounts'[p].enabled)
       => \E q \in Requests :
            Doing(q, "put") \/ (Doing(q, "enable") /\ handling[q].beside)]_accVars

\* Accounts, sessions and sign-ins belong together.
AccountsSound == AccTypeOK /\ SessionsHaveAccounts /\ OneSessionPerSignIn

\* Only administrative requests decide who is a superadmin and who may sign in.
SuperadminsDecide == SuperadminLostByRaceOrToken /\ EnabledByAdministrator
=============================================================================
