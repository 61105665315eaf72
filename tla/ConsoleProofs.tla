---------------------------- MODULE ConsoleProofs ----------------------------
(***************************************************************************)
(* What the console's handlers keep to however many of them run beside     *)
(* each other: accounts, sessions and OIDC sign-ins, for any persons and   *)
(* any number of requests, the configuration file, the branch graph, and   *)
(* the quality pages.                                                      *)
(***************************************************************************)
EXTENDS Accounts, Settings, BranchGraph, FindingPages, WellFoundedInduction,
        FiniteSetTheorems, TLAPS

-----------------------------------------------------------------------------
(* The invariant of the accounts.                                          *)

Row == [id : 0..MaxIds, role : Roles, enabled : BOOLEAN, linked : BOOLEAN]

Handlings == {"idle", "setup", "session"} \union SigningIn \union Administering

Handling == [op : Handlings, actor : 0..MaxIds, person : People \union {Nobody},
             login : 0..MaxLogins, id : 0..MaxIds, beside : BOOLEAN]

\* An id is given out once: rows have ids below the next, and differ.
RowsFit ==
  /\ accounts \in [People -> Row]
  /\ nextAccount \in 1..(MaxIds + 1)
  /\ \A p \in People :
       /\ accounts[p].id < nextAccount
       /\ accounts[p].id = 0 => accounts[p] = NoAccount
       /\ \A o \in People \ {p} :
            accounts[o].id = accounts[p].id => accounts[p].id = 0

\* A request past its first step knows whom it is about, and one that is
\* about to update an account has read its id.
RequestsFit ==
  /\ handling \in [Requests -> Handling]
  /\ \A q \in Requests :
       /\ handling[q].op \notin {"idle", "session"} => handling[q].person \in People
       /\ handling[q].op \in {"link", "enable"} => handling[q].id # 0

\* A sign-in is waiting in the table, carried by one request, or spent; only a
\* spent one has opened a session.
LoginsFit ==
  /\ started \in 0..MaxLogins /\ pending \subseteq 1..started
  /\ opened \in [LoginIds -> Nat]
  /\ \A l \in LoginIds :
       /\ opened[l] <= 1
       /\ l \in pending \/ l > started =>
            opened[l] = 0 /\ \A q \in Requests : handling[q].login # l
       /\ \A q \in Requests : handling[q].login = l =>
            opened[l] = 0 /\ \A o \in Requests : handling[o].login = l => o = q

\* Administrative requests that overlap know it; while none does, the actor, if it
\* has to be an account, is still a superadmin.  None deletes its own account.
AdministratorsFit ==
  \A q \in Requests : handling[q].op \in Administering =>
    /\ handling[q].op = "delete" => handling[q].id # handling[q].actor
    /\ handling[q].beside \/
         /\ authEnabled => \E p \in Superadmins : accounts[p].id = handling[q].actor
         /\ \A o \in Requests : handling[o].op \in Administering => o = q

\* Sign-ins of one person that overlap know it; while none does, an account
\* that was not linked when it was looked up is still not linked.
SignInsFit ==
  \A q \in Requests : handling[q].op \in SigningIn /\ ~handling[q].beside =>
    /\ handling[q].op # "enable"
    /\ handling[q].op \in {"upsert", "link", "create"} => ~Linked(handling[q].person)
    /\ \A o \in Requests :
         handling[o].op \in SigningIn /\ handling[o].person = handling[q].person => o = q

\* A delete of this person leaves a superadmin, if there is one.
Leaves(p) == Superadmins # {} => Superadmins \ {p} # {}

\* Where no account is asked for, nobody signs in, and a deletion that is alone
\* leaves a superadmin.
TokenFits ==
  ~authEnabled =>
    \A q \in Requests :
      /\ handling[q].op \in {"idle"} \union Administering
      /\ handling[q].op = "delete" /\ ~handling[q].beside => Leaves(handling[q].person)

AccInv ==
  /\ authEnabled \in BOOLEAN /\ TokenFits
  /\ RowsFit /\ SessionsHaveAccounts /\ RequestsFit
  /\ LoginsFit /\ AdministratorsFit /\ SignInsFit

\* Nothing is in the tables and no request is under way at the start.
LEMMA AccInvInit ==
  ASSUME AccountsAssumption, AccInit
  PROVE  AccInv
<1>1. NoAccount \in Row /\ Free \in Handling
  BY DEF AccountsAssumption, NoAccount, Row, Roles, Free, Handling, Handlings
<1>2. RowsFit
  BY <1>1 DEF AccInit, RowsFit, AccountsAssumption, NoAccount
<1>3. SessionsHaveAccounts
  BY DEF AccInit, SessionsHaveAccounts
<1>4. RequestsFit
  BY <1>1 DEF AccInit, RequestsFit, Free
<1>5. LoginsFit
  BY DEF AccInit, LoginsFit, AccountsAssumption, LoginIds, Free
<1>6. AdministratorsFit
  BY DEF AccInit, AdministratorsFit, Administering, Free
<1>7. SignInsFit
  BY DEF AccInit, SignInsFit, SigningIn, Free
<1>8. authEnabled \in BOOLEAN /\ TokenFits
  BY DEF AccInit, TokenFits, Free
<1> QED BY <1>2, <1>3, <1>4, <1>5, <1>6, <1>7, <1>8 DEF AccInv

-----------------------------------------------------------------------------
(* The table and the sessions.                                             *)

\* A row for a person who has none.
Creates(p, role, enabled, linked) ==
  /\ p \in People /\ ~HasAccount(p) /\ nextAccount <= MaxIds
  /\ role \in Roles /\ enabled \in BOOLEAN /\ linked \in BOOLEAN
  /\ CreateUser(p, role, enabled, linked) /\ nextAccount' = nextAccount + 1
  /\ UNCHANGED sessions

\* A row of a person who has one keeps its id.
Updates(p, row) ==
  /\ p \in People /\ HasAccount(p)
  /\ row \in Row /\ row.id = accounts[p].id
  /\ accounts' = [accounts EXCEPT ![p] = row]
  /\ UNCHANGED <<nextAccount, sessions>>

\* A row and its sessions.
Deletes(p) ==
  /\ p \in People
  /\ accounts' = [accounts EXCEPT ![p] = NoAccount]
  /\ sessions' = Cascades(accounts[p].id)
  /\ UNCHANGED nextAccount

\* No row changes; a session is opened for an account that exists, or closed.
OnlySessions ==
  /\ UNCHANGED <<accounts, nextAccount>>
  /\ sessions' \subseteq sessions \union Ids

\* What a step does to the table and the sessions.
TableStep ==
  \/ \E p \in People, role \in Roles, enabled, linked \in BOOLEAN :
       Creates(p, role, enabled, linked)
  \/ \E p \in People, row \in Row : Updates(p, row)
  \/ \E p \in People : Deletes(p)
  \/ OnlySessions

\* Rows keep distinct ids below the next one, and sessions their accounts.
LEMMA TableKept ==
  ASSUME AccountsAssumption, RowsFit, SessionsHaveAccounts, TableStep
  PROVE  RowsFit' /\ SessionsHaveAccounts'
<1> USE DEF AccountsAssumption
<1>1. ASSUME NEW p \in People, NEW role \in Roles, NEW enabled \in BOOLEAN,
             NEW linked \in BOOLEAN, Creates(p, role, enabled, linked)
      PROVE  RowsFit' /\ SessionsHaveAccounts'
  <2> DEFINE row == [id |-> nextAccount, role |-> role, enabled |-> enabled,
                     linked |-> linked]
  <2>1. row \in Row /\ row.id = nextAccount /\ nextAccount \in 1..MaxIds
    BY <1>1 DEF Creates, RowsFit, Row
  <2>2. accounts' = [accounts EXCEPT ![p] = row]
    BY <1>1 DEF Creates, CreateUser
  <2>3. nextAccount' = nextAccount + 1 /\ sessions' = sessions /\ accounts[p].id = 0
    BY <1>1 DEF Creates, HasAccount, NoAccount
  <2> HIDE DEF row
  <2>4. accounts'[p] = row /\ \A o \in People \ {p} : accounts'[o] = accounts[o]
    BY <2>2 DEF RowsFit
  <2>5. accounts' \in [People -> Row] /\ nextAccount' \in 1..(MaxIds + 1)
    BY <2>1, <2>2, <2>3 DEF RowsFit
  <2>6. \A o \in People : accounts[o].id < nextAccount /\ accounts[o].id \in Nat
    BY DEF RowsFit, Row
  <2>7. RowsFit'
    BY <2>1, <2>3, <2>4, <2>5, <2>6 DEF RowsFit
  <2>8. Ids \subseteq Ids'
    BY <2>3, <2>4 DEF Ids
  <2> QED BY <2>3, <2>7, <2>8 DEF SessionsHaveAccounts
<1>2. ASSUME NEW p \in People, NEW row \in Row, Updates(p, row)
      PROVE  RowsFit' /\ SessionsHaveAccounts'
  <2>1. accounts'[p] = row /\ \A o \in People \ {p} : accounts'[o] = accounts[o]
    BY <1>2 DEF Updates, RowsFit
  <2>2. \A o \in People : accounts'[o].id = accounts[o].id
    BY <1>2, <2>1 DEF Updates
  <2>3. accounts[p].id # 0
    BY <1>2 DEF Updates, RowsFit, HasAccount
  <2>4. accounts' \in [People -> Row]
    BY <1>2 DEF Updates, RowsFit
  <2>5. RowsFit'
    BY <1>2, <2>1, <2>2, <2>3, <2>4 DEF Updates, RowsFit
  <2>6. Ids' = Ids
    BY <2>2 DEF Ids
  <2> QED BY <1>2, <2>5, <2>6 DEF Updates, SessionsHaveAccounts
<1>3. ASSUME NEW p \in People, Deletes(p)
      PROVE  RowsFit' /\ SessionsHaveAccounts'
  <2>1. accounts'[p] = NoAccount /\ \A o \in People \ {p} : accounts'[o] = accounts[o]
    BY <1>3 DEF Deletes, RowsFit
  <2>2. NoAccount \in Row /\ NoAccount.id = 0
    BY DEF NoAccount, Row, Roles
  <2>3. accounts' \in [People -> Row]
    BY <1>3, <2>2 DEF Deletes, RowsFit
  <2>4. RowsFit'
    BY <1>3, <2>1, <2>2, <2>3 DEF Deletes, RowsFit
  <2>5. Ids \ {accounts[p].id} \subseteq Ids'
    BY <2>1 DEF Ids
  <2> QED BY <1>3, <2>4, <2>5 DEF Deletes, Cascades, SessionsHaveAccounts
<1>4. CASE OnlySessions
  BY <1>4 DEF OnlySessions, RowsFit, SessionsHaveAccounts, Ids, HasAccount
<1> QED BY <1>1, <1>2, <1>3, <1>4 DEF TableStep

-----------------------------------------------------------------------------
(* The requests.                                                           *)

\* What a request may become: it is over, it is signed in and opens its
\* session, or it goes on with its sign-in or its administrative work.
IsOver(q) == handling' = [handling EXCEPT ![q] = Free]

OpensNext(q) ==
  \E id \in 0..MaxIds :
    handling' = [handling EXCEPT ![q] =
                   [Free EXCEPT !.op = "session", !.id = id, !.login = handling[q].login]]

GoesOn(q, op, id) ==
  handling' = [handling EXCEPT ![q] = [handling[q] EXCEPT !.op = op, !.id = id]]

\* The first superadmin and sign-in by password.
PlainStep(q) ==
  /\ authEnabled /\ UNCHANGED <<authEnabled, started, pending, opened>>
  /\ handling[q].op \in {"idle", "setup"}
  /\ \/ IsOver(q) \/ OpensNext(q)
     \/ \E p \in People : handling' = [handling EXCEPT ![q] = [Free EXCEPT !.op = "setup", !.person = p]]
  /\ \/ UNCHANGED <<accounts, nextAccount, sessions>>
     \/ \E p \in People : Creates(p, "superadmin", TRUE, FALSE)

\* A sign-in through OIDC after its callback.
SignInStep(q) ==
  /\ authEnabled /\ UNCHANGED <<authEnabled, started, pending, opened>>
  /\ handling[q].op \in SigningIn
  /\ LET p == handling[q].person IN
     \/ /\ UNCHANGED <<accounts, nextAccount, sessions>>
        /\ \/ IsOver(q) \/ OpensNext(q)
           \/ \E id \in 0..MaxIds :
                \/ handling[q].op = "lookup" /\ ~Linked(p) /\ GoesOn(q, "upsert", id)
                \/ /\ handling[q].op = "upsert"
                   /\ \/ Linked(p) /\ id # 0 /\ GoesOn(q, "enable", id)
                      \/ ~Linked(p) /\ id # 0 /\ GoesOn(q, "link", id)
                      \/ ~Linked(p) /\ GoesOn(q, "create", id)
     \/ /\ IsOver(q) \/ OpensNext(q)
        /\ \/ handling[q].op = "enable" /\ Updates(p, [accounts[p] EXCEPT !.enabled = TRUE])
           \/ handling[q].op = "link" /\ Updates(p, [accounts[p] EXCEPT !.linked = TRUE])
           \/ handling[q].op = "create" /\ Creates(p, "user", TRUE, TRUE)

\* An administrative request after its authentication.
AdminStep(q) ==
  /\ UNCHANGED <<authEnabled, started, pending, opened>>
  /\ handling[q].op \in Administering
  /\ LET p == handling[q].person IN
     \/ /\ UNCHANGED <<accounts, nextAccount, sessions>>
        /\ \/ IsOver(q)
           \/ /\ handling[q].op = "count" /\ accounts[p].id # handling[q].actor
              /\ Leaves(p) /\ GoesOn(q, "delete", accounts[p].id)
     \/ /\ IsOver(q)
        /\ \/ /\ handling[q].op = "add"
              /\ \E role \in Roles, enabled \in BOOLEAN : Creates(p, role, enabled, FALSE)
           \/ /\ handling[q].op = "put"
              /\ \E role \in Roles, enabled \in BOOLEAN :
                   /\ MayPut(handling[q].actor, p, role, enabled)
                   /\ Updates(p, [accounts[p] EXCEPT !.role = role, !.enabled = enabled])
           \/ /\ handling[q].op = "delete" /\ accounts[p].id = handling[q].id
              /\ Deletes(p)

\* The handlers of the first superadmin and of passwords are plain steps.
LEMMA PlainSteps ==
  ASSUME AccountsAssumption, AccInv, NEW q \in Requests,
         CountForSetup(q) \/ CreateSuperadmin(q) \/ CheckPassword(q)
  PROVE  PlainStep(q)
<1> USE DEF AccInv, Doing, Goes, Answer, SignsIn
<1>1. CASE CountForSetup(q)
  BY <1>1 DEF CountForSetup, PlainStep
<1>2. CASE CreateSuperadmin(q)
  <2>3. authEnabled
    BY <1>2 DEF CreateSuperadmin, TokenFits, Administering
  <2>1. handling[q].person \in People
    BY <1>2 DEF CreateSuperadmin, RequestsFit
  <2>2. nextAccount \in 0..MaxIds
    BY <1>2 DEF CreateSuperadmin, RowsFit
  <2> QED BY <1>2, <2>1, <2>2, <2>3 DEF CreateSuperadmin, PlainStep, Creates, Roles, IsOver, OpensNext
<1>3. CASE CheckPassword(q)
  BY <1>3 DEF CheckPassword, PlainStep, RowsFit, Row, OpensNext
<1> QED BY <1>1, <1>2, <1>3

\* The handlers behind the OIDC callback are sign-in steps.
LEMMA SignInSteps ==
  ASSUME AccountsAssumption, AccInv, NEW q \in Requests,
         \/ LookUpSubject(q) \/ Upsert(q) \/ EnableLinked(q)
         \/ LinkByEmail(q) \/ CreateFromOIDC(q)
  PROVE  SignInStep(q)
<1> USE DEF AccInv, Doing, Goes, Answer, SignsIn
<1> DEFINE p == handling[q].person
<1>1. p \in People /\ handling[q].op \in SigningIn /\ handling[q] \in Handling
  BY DEF LookUpSubject, Upsert, EnableLinked, LinkByEmail, CreateFromOIDC, RequestsFit, SigningIn
<1>7. authEnabled
  BY <1>1 DEF TokenFits, SigningIn, Administering
<1>2. accounts[p] \in Row /\ accounts[p].id \in 0..MaxIds /\ handling[q].id \in 0..MaxIds
  BY <1>1 DEF RowsFit, Row, Handling
<1>3. CASE LookUpSubject(q)
  <2>1. CASE ~Linked(p)
    <3>1. handling' = [handling EXCEPT ![q] = [handling[q] EXCEPT !.op = "upsert"]]
      BY <1>3, <2>1 DEF LookUpSubject, LooksUp, Proceed
    <3>2. [handling[q] EXCEPT !.op = "upsert"]
            = [handling[q] EXCEPT !.op = "upsert", !.id = handling[q].id]
      BY <1>1 DEF Handling
    <3>3. GoesOn(q, "upsert", handling[q].id)
      BY <3>1, <3>2 DEF GoesOn
    <3> QED BY <1>1, <1>2, <1>3, <1>7, <2>1, <3>3 DEF LookUpSubject, SignInStep
  <2>2. CASE Linked(p)
    BY <1>1, <1>2, <1>3, <1>7, <2>2 DEF LookUpSubject, LooksUp, SignInStep, IsOver, OpensNext
  <2> QED BY <2>1, <2>2
<1>4. CASE Upsert(q)
  <2> DEFINE id == accounts[p].id
  <2>1. \/ Linked(p) /\ GoesOn(q, "enable", id)
        \/ ~Linked(p) /\ HasAccount(p) /\ GoesOn(q, "link", id)
        \/ ~Linked(p) /\ GoesOn(q, "create", id)
    BY <1>1, <1>4 DEF Upsert, GoesOn, Handling
  <2>2. Linked(p) \/ HasAccount(p) => id # 0
    <3>1. id = 0 => accounts[p] = NoAccount
      BY <1>1 DEF RowsFit
    <3>2. ~NoAccount.linked
      BY DEF NoAccount
    <3> QED BY <3>1, <3>2 DEF Linked, HasAccount
  <2> QED BY <1>1, <1>2, <1>4, <1>7, <2>1, <2>2 DEF Upsert, SignInStep
<1>5. CASE EnableLinked(q) \/ LinkByEmail(q)
  <2> DEFINE row == IF handling[q].op = "enable"
                    THEN [accounts[p] EXCEPT !.enabled = TRUE]
                    ELSE [accounts[p] EXCEPT !.linked = TRUE]
  <2>1. row \in Row /\ row.id = accounts[p].id
    BY <1>2 DEF Row
  <2>2. AfterUpdate(q, p, row) /\ UNCHANGED <<authEnabled, nextAccount, sessions, started, pending, opened>>
    BY <1>5 DEF EnableLinked, LinkByEmail
  <2>3. CASE accounts[p].id # handling[q].id
    BY <1>1, <1>7, <2>2, <2>3 DEF AfterUpdate, SignInStep, IsOver
  <2>4. CASE accounts[p].id = handling[q].id
    <3>1. /\ accounts' = [accounts EXCEPT ![p] = row]
          /\ IsOver(q) \/ OpensNext(q)
      BY <1>2, <2>1, <2>2, <2>4 DEF AfterUpdate, IsOver, OpensNext
    <3>2. HasAccount(p)
      BY <1>5, <2>4 DEF EnableLinked, LinkByEmail, RequestsFit, HasAccount, NoAccount
    <3> QED BY <1>1, <1>5, <1>7, <2>1, <2>2, <3>1, <3>2 DEF SignInStep, Updates, EnableLinked, LinkByEmail
  <2> QED BY <2>3, <2>4
<1>6. CASE CreateFromOIDC(q)
  <2>1. nextAccount \in 0..MaxIds
    BY <1>6 DEF CreateFromOIDC, RowsFit
  <2> QED BY <1>1, <1>6, <1>7, <2>1 DEF CreateFromOIDC, SignInStep, Creates, Roles, IsOver, OpensNext
<1> QED BY <1>3, <1>4, <1>5, <1>6

\* Who is no superadmin, or not the only one, can be deleted.
LEMMA OneOfManyLeaves ==
  ASSUME NEW p \in People, ~(accounts[p].role = "superadmin" /\ Cardinality(Superadmins) <= 1)
  PROVE  Leaves(p)
<1>1. CASE p \notin Superadmins
  BY <1>1 DEF Leaves
<1>2. CASE p \in Superadmins /\ Superadmins \ {p} = {}
  <2>1. Superadmins = {p} /\ accounts[p].role = "superadmin"
    BY <1>2 DEF Superadmins
  <2>2. Cardinality({p}) = 1
    BY FS_Singleton
  <2> QED BY <2>1, <2>2
<1> QED BY <1>1, <1>2 DEF Leaves

\* The handlers behind the administrators' authentication are admin steps.
LEMMA AdminSteps ==
  ASSUME AccountsAssumption, AccInv, NEW q \in Requests,
         AddUser(q) \/ PutUser(q) \/ CountForDelete(q) \/ DeleteRow(q)
  PROVE  AdminStep(q)
<1> USE DEF AccInv, Doing, Goes, Answer
<1> DEFINE p == handling[q].person
<1>1. p \in People /\ handling[q].op \in Administering /\ handling[q] \in Handling
  BY DEF AddUser, PutUser, CountForDelete, DeleteRow, RequestsFit, Administering
<1>2. accounts[p] \in Row
  BY <1>1 DEF RowsFit
<1>3. CASE AddUser(q)
  <2>1. CASE HasAccount(p) \/ nextAccount > MaxIds
    BY <1>1, <1>3, <2>1 DEF AddUser, AdminStep, IsOver
  <2>2. CASE ~(HasAccount(p) \/ nextAccount > MaxIds)
    <3>1. nextAccount <= MaxIds
      BY <2>2 DEF RowsFit, AccountsAssumption
    <3> QED BY <1>1, <1>3, <2>2, <3>1 DEF AddUser, AdminStep, IsOver, Creates
  <2> QED BY <2>1, <2>2
<1>4. CASE PutUser(q)
  <2>1. PICK role \in Roles, enabled \in BOOLEAN :
          IF HasAccount(p) /\ MayPut(handling[q].actor, p, role, enabled)
          THEN accounts' = [accounts EXCEPT ![p].role = role, ![p].enabled = enabled]
          ELSE UNCHANGED accounts
    BY <1>4 DEF PutUser
  <2>2. UNCHANGED <<authEnabled, nextAccount, sessions, started, pending, opened>> /\ IsOver(q)
    BY <1>4 DEF PutUser, IsOver
  <2>3. CASE UNCHANGED accounts
    BY <1>1, <2>2, <2>3 DEF AdminStep
  <2>4. CASE ~UNCHANGED accounts
    <3> DEFINE row == [accounts[p] EXCEPT !.role = role, !.enabled = enabled]
    <3>1. row \in Row /\ row.id = accounts[p].id
      BY <1>2 DEF Row
    <3>2. accounts' = [accounts EXCEPT ![p] = row]
      BY <1>1, <2>1, <2>4 DEF RowsFit, Row
    <3>3. Updates(p, row)
      BY <1>1, <2>1, <2>2, <2>4, <3>1, <3>2 DEF Updates
    <3> QED BY <1>1, <1>4, <2>1, <2>2, <2>4, <3>3 DEF AdminStep, PutUser
  <2> QED BY <2>3, <2>4
<1>5. CASE CountForDelete(q)
  <2>1. CASE IsOver(q)
    BY <1>1, <1>5, <2>1 DEF CountForDelete, AdminStep
  <2>2. CASE ~IsOver(q)
    <3>1. /\ handling[q].op = "count" /\ accounts[p].id # handling[q].actor
          /\ ~(accounts[p].role = "superadmin" /\ Cardinality(Superadmins) <= 1)
          /\ GoesOn(q, "delete", accounts[p].id)
      BY <1>5, <2>2 DEF CountForDelete, IsOver, GoesOn
    <3>2. Leaves(p)
      BY <1>1, <3>1, OneOfManyLeaves
    <3> QED BY <1>1, <1>5, <3>1, <3>2 DEF CountForDelete, AdminStep
  <2> QED BY <2>1, <2>2
<1>6. CASE DeleteRow(q)
  BY <1>1, <1>6 DEF DeleteRow, AdminStep, IsOver, Deletes
<1> QED BY <1>3, <1>4, <1>5, <1>6

\* One of the request steps above.
RequestStep(q) == PlainStep(q) \/ SignInStep(q) \/ AdminStep(q)

\* Everything else that happens.
OtherStep ==
  \/ \E q \in Requests : OpenSession(q) \/ Callback(q) \/ Authenticate(q)
  \/ CloseSession \/ StartOIDCLogin \/ ExpireOIDCLogin \/ ServerRestarts

\* Every step is one of these.
LEMMA AllSteps ==
  ASSUME AccountsAssumption, AccInv, AccNext
  PROVE  (\E q \in Requests : RequestStep(q)) \/ OtherStep
BY PlainSteps, SignInSteps, AdminSteps DEF AccNext, RequestStep, OtherStep

\* A request that is over is one that has not begun.
LEMMA FreeIsHandling ==
  ASSUME AccountsAssumption
  PROVE  /\ Free \in Handling
         /\ Free.op = "idle" /\ Free.login = 0 /\ Free.id = 0 /\ ~Free.beside
BY DEF AccountsAssumption, Free, Handling, Handlings

\* A request of q becomes another, with its sign-in or none; it goes on as what
\* it was.
Becomes(q) ==
  \E next \in Handling :
    /\ handling' = [handling EXCEPT ![q] = next]
    /\ next.op \notin {"idle", "session"} => next.person \in People
    /\ next.op \in {"link", "enable"} => next.id # 0
    /\ next.login \in {0, handling[q].login}
    /\ next.op \in SigningIn =>
         /\ SignInStep(q)
         /\ next.person = handling[q].person
         /\ next.beside = handling[q].beside
    /\ next.op \in Administering =>
         /\ AdminStep(q) /\ Leaves(handling[q].person)
         /\ next.actor = handling[q].actor /\ next.person = handling[q].person
         /\ next.beside = handling[q].beside
         /\ next.op = "delete" /\ next.id # next.actor

\* What a request of q becomes is a request, with its sign-in or none.
LEMMA RequestBecomes ==
  ASSUME AccountsAssumption, AccInv, NEW q \in Requests, RequestStep(q)
  PROVE  Becomes(q)
<1> USE DEF AccInv, Becomes
<1>1. handling[q] \in Handling
  BY DEF RequestsFit
<1>2. CASE IsOver(q)
  <2> QED BY <1>2, FreeIsHandling DEF IsOver, SigningIn, Administering
<1>3. CASE OpensNext(q)
  <2>1. PICK id \in 0..MaxIds :
          handling' = [handling EXCEPT ![q] =
            [Free EXCEPT !.op = "session", !.id = id, !.login = handling[q].login]]
    BY <1>3 DEF OpensNext
  <2> DEFINE next == [Free EXCEPT !.op = "session", !.id = id, !.login = handling[q].login]
  <2>2. handling[q].login \in 0..MaxLogins
    BY <1>1 DEF Handling
  <2>3. next \in Handling /\ next.op = "session" /\ next.login = handling[q].login
    BY <2>2, FreeIsHandling DEF Handling, Handlings
  <2> QED BY <2>1, <2>3 DEF SigningIn, Administering
<1>4. CASE \E p \in People : handling' = [handling EXCEPT ![q] = [Free EXCEPT !.op = "setup", !.person = p]]
  <2>1. PICK p \in People : handling' = [handling EXCEPT ![q] = [Free EXCEPT !.op = "setup", !.person = p]]
    BY <1>4
  <2> DEFINE next == [Free EXCEPT !.op = "setup", !.person = p]
  <2>2. next \in Handling /\ next.op = "setup" /\ next.login = 0 /\ next.person = p
    BY FreeIsHandling DEF Handling, Handlings
  <2> QED BY <2>1, <2>2 DEF SigningIn, Administering
<1>5. ASSUME NEW op \in SigningIn \union Administering, NEW id \in 0..MaxIds,
             GoesOn(q, op, id), handling[q].person \in People,
             op \in {"link", "enable"} => id # 0,
             op \in SigningIn => SignInStep(q),
             op \in Administering => /\ AdminStep(q) /\ Leaves(handling[q].person)
                                     /\ op = "delete" /\ id # handling[q].actor
      PROVE  Becomes(q)
  <2> DEFINE next == [handling[q] EXCEPT !.op = op, !.id = id]
  <2>1. /\ next \in Handling /\ next.op = op /\ next.login = handling[q].login
        /\ next.person = handling[q].person /\ next.id = id
        /\ next.beside = handling[q].beside /\ next.actor = handling[q].actor
    BY <1>1, <1>5 DEF Handling, Handlings
  <2> QED BY <1>5, <2>1 DEF GoesOn
<1>6. CASE PlainStep(q)
  BY <1>2, <1>3, <1>4, <1>6 DEF PlainStep
<1>7. CASE SignInStep(q)
  <2>1. handling[q].person \in People
    BY <1>7 DEF SignInStep, RequestsFit, SigningIn
  <2>2. CASE IsOver(q) \/ OpensNext(q)
    BY <1>2, <1>3, <2>2
  <2>3. CASE ~(IsOver(q) \/ OpensNext(q))
    <3>1. PICK id \in 0..MaxIds :
            \/ GoesOn(q, "upsert", id)
            \/ id # 0 /\ (GoesOn(q, "enable", id) \/ GoesOn(q, "link", id))
            \/ GoesOn(q, "create", id)
      BY <1>7, <2>3 DEF SignInStep
    <3> QED BY <1>5, <1>7, <2>1, <3>1 DEF SigningIn, Administering
  <2> QED BY <2>2, <2>3
<1>8. CASE AdminStep(q)
  <2>1. handling[q].person \in People
    BY <1>8 DEF AdminStep, RequestsFit, Administering
  <2>2. accounts[handling[q].person].id \in 0..MaxIds
    BY <2>1 DEF RowsFit, Row
  <2>3. \/ IsOver(q)
        \/ /\ accounts[handling[q].person].id # handling[q].actor
           /\ Leaves(handling[q].person) /\ GoesOn(q, "delete", accounts[handling[q].person].id)
    BY <1>8 DEF AdminStep
  <2> QED BY <1>2, <1>5, <1>8, <2>1, <2>2, <2>3 DEF SigningIn, Administering
<1> QED BY <1>6, <1>7, <1>8 DEF RequestStep

\* A request of its own leaves the others as they are.
LEMMA OthersKept ==
  ASSUME RequestsFit, NEW q \in Requests, NEW next,
         handling' = [handling EXCEPT ![q] = next]
  PROVE  /\ handling'[q] = next
         /\ \A o \in Requests \ {q} : handling'[o] = handling[o]
BY DEF RequestsFit

\* The table after a step of a request.
LEMMA RequestTable ==
  ASSUME AccountsAssumption, AccInv, NEW q \in Requests, RequestStep(q)
  PROVE  TableStep
<1> USE DEF AccInv
<1>1. CASE PlainStep(q)
  BY <1>1 DEF PlainStep, TableStep, OnlySessions, Roles
<1> DEFINE p == handling[q].person
<1>2. CASE SignInStep(q)
  <2>1. \/ OnlySessions \/ Creates(p, "user", TRUE, TRUE)
        \/ Updates(p, [accounts[p] EXCEPT !.enabled = TRUE])
        \/ Updates(p, [accounts[p] EXCEPT !.linked = TRUE])
    BY <1>2 DEF SignInStep, OnlySessions
  <2> QED BY <2>1 DEF TableStep, Creates, Updates
<1>3. CASE AdminStep(q)
  <2>1. \/ OnlySessions \/ Deletes(p)
        \/ \E role \in Roles, enabled \in BOOLEAN :
             \/ Creates(p, role, enabled, FALSE)
             \/ Updates(p, [accounts[p] EXCEPT !.role = role, !.enabled = enabled])
    BY <1>3 DEF AdminStep, OnlySessions
  <2> QED BY <2>1 DEF TableStep, Creates, Updates, Deletes
<1> QED BY <1>1, <1>2, <1>3 DEF RequestStep

\* A request keeps the sign-ins apart.
LEMMA RequestLogins ==
  ASSUME AccountsAssumption, AccInv, NEW q \in Requests, RequestStep(q)
  PROVE  RequestsFit' /\ LoginsFit'
<1> USE DEF AccInv
<1>1. PICK next \in Handling :
        /\ handling' = [handling EXCEPT ![q] = next]
        /\ next.op \notin {"idle", "session"} => next.person \in People
        /\ next.op \in {"link", "enable"} => next.id # 0
        /\ next.login \in {0, handling[q].login}
  BY RequestBecomes DEF Becomes
<1>2. handling'[q] = next /\ \A o \in Requests \ {q} : handling'[o] = handling[o]
  BY <1>1, OthersKept
<1>3. UNCHANGED <<started, pending, opened>>
  BY DEF RequestStep, PlainStep, SignInStep, AdminStep
<1>4. RequestsFit'
  BY <1>1, <1>2 DEF RequestsFit
<1>5. \A o \in Requests, l \in LoginIds : handling'[o].login = l => handling[o].login = l
  BY <1>1, <1>2 DEF LoginIds
<1>6. LoginsFit'
  BY <1>3, <1>5 DEF LoginsFit
<1> QED BY <1>4, <1>6

\* A step outside the administration leaves every superadmin one.
LEMMA SuperadminsStay ==
  ASSUME AccountsAssumption, AccInv, NEW q \in Requests,
         PlainStep(q) \/ SignInStep(q), NEW h \in Superadmins
  PROVE  h \in Superadmins' /\ accounts'[h].id = accounts[h].id
<1> USE DEF AccInv
<1>1. h \in People /\ accounts[h].role = "superadmin" /\ accounts[h].enabled
  BY DEF Superadmins
<1>2. accounts \in [People -> Row]
  BY DEF RowsFit
<1>3. ASSUME NEW p \in People, NEW role, NEW linked, Creates(p, role, TRUE, linked)
      PROVE  accounts'[h] = accounts[h]
  BY <1>1, <1>2, <1>3 DEF Creates, CreateUser, HasAccount, NoAccount
<1>4. ASSUME NEW p \in People,
             \/ Updates(p, [accounts[p] EXCEPT !.enabled = TRUE])
             \/ Updates(p, [accounts[p] EXCEPT !.linked = TRUE])
      PROVE  accounts'[h].role = "superadmin" /\ accounts'[h].enabled /\ accounts'[h].id = accounts[h].id
  BY <1>1, <1>2, <1>4 DEF Updates, Row
<1>5. CASE UNCHANGED accounts
  BY <1>1, <1>5 DEF Superadmins
<1>6. CASE PlainStep(q)
  BY <1>1, <1>3, <1>5, <1>6 DEF PlainStep, Superadmins
<1>7. CASE SignInStep(q)
  <2>1. handling[q].person \in People
    BY <1>7 DEF SignInStep, RequestsFit, SigningIn
  <2> QED BY <1>1, <1>3, <1>4, <1>5, <1>7, <2>1 DEF SignInStep, Superadmins
<1> QED BY <1>6, <1>7

\* A request outside the administration does not disturb the one that is.
LEMMA OutsideAdministration ==
  ASSUME AccountsAssumption, AccInv, NEW q \in Requests, PlainStep(q) \/ SignInStep(q)
  PROVE  AdministratorsFit'
<1>1. PICK next \in Handling :
        /\ handling' = [handling EXCEPT ![q] = next]
        /\ next.op \in Administering => AdminStep(q)
  BY RequestBecomes DEF Becomes, RequestStep
<1>2. handling[q].op \notin Administering
  BY DEF PlainStep, SignInStep, SigningIn, Administering
<1>3. next.op \notin Administering
  BY <1>1, <1>2 DEF AdminStep
<1>4. handling'[q] = next /\ \A o \in Requests \ {q} : handling'[o] = handling[o]
  BY <1>1, OthersKept DEF AccInv
<1>5. \A h \in Superadmins : h \in Superadmins' /\ accounts'[h].id = accounts[h].id
  BY SuperadminsStay
<1>6. ASSUME NEW o \in Requests, handling'[o].op \in Administering
      PROVE  handling'[o] = handling[o]
  BY <1>3, <1>4, <1>6
<1>7. UNCHANGED authEnabled
  BY DEF PlainStep, SignInStep
<1> QED BY <1>5, <1>6, <1>7 DEF AdministratorsFit, AccInv

\* Of two administrative requests both know of the other; the one that goes
\* on alone changes nothing before it ends.
LEMMA InsideAdministration ==
  ASSUME AccountsAssumption, AccInv, NEW q \in Requests, AdminStep(q)
  PROVE  AdministratorsFit'
<1>1. PICK next \in Handling :
        /\ handling' = [handling EXCEPT ![q] = next]
        /\ next.op \in Administering =>
             /\ next.actor = handling[q].actor
             /\ next.beside = handling[q].beside
             /\ next.op = "delete" /\ next.id # next.actor
  BY RequestBecomes DEF Becomes, RequestStep
<1>2. handling'[q] = next /\ \A o \in Requests \ {q} : handling'[o] = handling[o]
  BY <1>1, OthersKept DEF AccInv
<1>3. handling[q].op \in Administering
  BY DEF AdminStep
<1>4. ASSUME NEW o \in Requests \ {q}, handling'[o].op \in Administering
      PROVE  /\ handling'[o].beside
             /\ handling'[o].op = "delete" => handling'[o].id # handling'[o].actor
  BY <1>2, <1>3, <1>4 DEF AccInv, AdministratorsFit
<1>5. CASE next.op \in Administering /\ ~next.beside
  <2>1. ~IsOver(q)
    BY <1>2, <1>5, FreeIsHandling DEF IsOver, Administering, AccInv, RequestsFit
  <2>2. UNCHANGED accounts
    BY <2>1 DEF AdminStep
  <2>3. authEnabled => \E h \in Superadmins : accounts[h].id = handling[q].actor
    BY <1>1, <1>3, <1>5 DEF AccInv, AdministratorsFit
  <2>4. authEnabled' => \E h \in Superadmins' : accounts'[h].id = next.actor
    BY <1>1, <1>5, <2>2, <2>3 DEF Superadmins, AdminStep
  <2>5. \A o \in Requests : handling'[o].op \in Administering => o = q
    BY <1>1, <1>2, <1>3, <1>5 DEF AccInv, AdministratorsFit
  <2> QED BY <1>1, <1>2, <1>4, <1>5, <2>4, <2>5 DEF AdministratorsFit
<1>6. CASE next.op \notin Administering \/ next.beside
  BY <1>1, <1>2, <1>4, <1>6 DEF AdministratorsFit
<1> QED BY <1>5, <1>6

\* Only a sign-in links an account, and only that of its own person.
LEMMA LinksOwnPerson ==
  ASSUME AccountsAssumption, AccInv, NEW q \in Requests, RequestStep(q),
         NEW p \in People, ~Linked(p), Linked(p)'
  PROVE  SignInStep(q) /\ handling[q].person = p /\ (IsOver(q) \/ OpensNext(q))
<1> USE DEF AccInv
<1>1. accounts \in [People -> Row] /\ accounts'[p] # accounts[p] /\ ~NoAccount.linked
  BY DEF RowsFit, Linked, NoAccount
<1>2. ~UNCHANGED accounts
  BY <1>1
<1>3. ASSUME NEW o \in People, NEW role, NEW enabled, Creates(o, role, enabled, FALSE)
      PROVE  FALSE
  BY <1>1, <1>3 DEF Creates, CreateUser, Linked
<1>4. ASSUME NEW o \in People, NEW row, Updates(o, row), row.linked = accounts[o].linked
      PROVE  FALSE
  BY <1>1, <1>4 DEF Updates, Linked
<1>5. ASSUME NEW o \in People, Deletes(o) PROVE FALSE
  BY <1>1, <1>5 DEF Deletes, Linked
<1>6. ~PlainStep(q)
  BY <1>2, <1>3 DEF PlainStep
<1>7. ~AdminStep(q)
  <2> SUFFICES ASSUME AdminStep(q) PROVE FALSE
    OBVIOUS
  <2> DEFINE o == handling[q].person
  <2>1. o \in People
    BY DEF AdminStep, RequestsFit, Administering
  <2>2. ASSUME NEW role, NEW enabled
        PROVE  [accounts[o] EXCEPT !.role = role, !.enabled = enabled].linked = accounts[o].linked
    BY <1>1, <2>1 DEF Row
  <2>3. \/ Deletes(o)
        \/ \E role \in Roles, enabled \in BOOLEAN :
             \/ Creates(o, role, enabled, FALSE)
             \/ Updates(o, [accounts[o] EXCEPT !.role = role, !.enabled = enabled])
    BY <1>2 DEF AdminStep
  <2> QED BY <1>3, <1>4, <1>5, <2>1, <2>2, <2>3
<1>8. SignInStep(q)
  BY <1>6, <1>7 DEF RequestStep
<1>9. \/ \E row \in Row : Updates(handling[q].person, row)
      \/ Creates(handling[q].person, "user", TRUE, TRUE)
  BY <1>2, <1>8 DEF SignInStep, Updates
<1>10. handling[q].person = p
  BY <1>1, <1>9 DEF Updates, Creates, CreateUser
<1> QED BY <1>2, <1>8, <1>10 DEF SignInStep

\* A sign-in that overlaps with none of its person sees what it looked up.
LEMMA RequestSignIns ==
  ASSUME AccountsAssumption, AccInv, NEW q \in Requests, RequestStep(q)
  PROVE  SignInsFit'
<1> USE DEF AccInv
<1>1. PICK next \in Handling :
        /\ handling' = [handling EXCEPT ![q] = next]
        /\ next.op \notin {"idle", "session"} => next.person \in People
        /\ next.op \in SigningIn =>
             /\ SignInStep(q)
             /\ next.person = handling[q].person
             /\ next.beside = handling[q].beside
  BY RequestBecomes DEF Becomes
<1>2. handling'[q] = next /\ \A o \in Requests \ {q} : handling'[o] = handling[o]
  BY <1>1, OthersKept
<1>3. next.op \in SigningIn => handling[q].op \in SigningIn
  BY <1>1 DEF SignInStep
<1>4. ASSUME NEW o \in Requests, handling'[o].op \in SigningIn
      PROVE  /\ handling[o].op \in SigningIn
             /\ handling'[o].person = handling[o].person
             /\ handling'[o].beside = handling[o].beside
             /\ handling[o].person \in People
  BY <1>1, <1>2, <1>3, <1>4 DEF RequestsFit, SigningIn
<1>5. ASSUME NEW o \in Requests, handling'[o].op \in SigningIn, ~handling'[o].beside
      PROVE  /\ handling'[o].op # "enable"
             /\ handling'[o].op \in {"upsert", "link", "create"} => ~accounts'[handling'[o].person].linked
             /\ \A r \in Requests :
                  handling'[r].op \in SigningIn /\ handling'[r].person = handling'[o].person => r = o
  <2>1. /\ handling[o].op \in SigningIn /\ ~handling[o].beside
        /\ handling'[o].person = handling[o].person
    BY <1>4, <1>5
  <2>2. \A r \in Requests :
          handling'[r].op \in SigningIn /\ handling'[r].person = handling'[o].person => r = o
    BY <1>4, <2>1 DEF SignInsFit
  <2>3. CASE o # q
    <3>1. handling'[o] = handling[o]
      BY <1>2, <2>3
    <3>2. ~(SignInStep(q) /\ handling[q].person = handling[o].person)
      BY <2>1, <2>3 DEF SignInsFit, SignInStep
    <3>3. ~Linked(handling[o].person) => ~Linked(handling[o].person)'
      BY <1>4, <1>5, <3>2, LinksOwnPerson
    <3> QED BY <2>1, <2>2, <3>1, <3>3 DEF SignInsFit, Linked
  <2>4. CASE o = q
    <3>1. ~IsOver(q)
      BY <1>2, <1>5, <2>4, FreeIsHandling DEF IsOver, SigningIn, RequestsFit
    <3>2. ~OpensNext(q)
      <4>1. ASSUME NEW id, NEW login PROVE [Free EXCEPT !.op = "session", !.id = id, !.login = login].op = "session"
        BY FreeIsHandling DEF Handling
      <4>2. OpensNext(q) => handling'[q].op = "session"
        BY <4>1 DEF OpensNext, RequestsFit
      <4> QED BY <1>5, <2>4, <4>2 DEF SigningIn
    <3>3. SignInStep(q) /\ UNCHANGED accounts
      BY <1>1, <1>2, <1>5, <2>4, <3>1, <3>2 DEF SignInStep
    <3>4. ASSUME NEW op, NEW id, GoesOn(q, op, id)
          PROVE  handling'[q].op = op
      BY <3>4 DEF GoesOn, RequestsFit, Handling
    <3>5. handling[q].op # "enable" /\ handling[q].op \in {"lookup", "upsert"}
      BY <2>1, <2>4, <3>1, <3>2, <3>3 DEF SignInStep
    <3>6. \/ handling'[q].op = "upsert" /\ ~Linked(handling[q].person)
          \/ /\ handling[q].op = "upsert"
             /\ \/ handling'[q].op \in {"link", "create"}
                \/ Linked(handling[q].person)
      BY <3>1, <3>2, <3>3, <3>4 DEF SignInStep
    <3>7. handling[q].op = "upsert" => ~Linked(handling[q].person)
      BY <2>1, <2>4 DEF SignInsFit
    <3>8. /\ handling'[q].op \in {"upsert", "link", "create"}
          /\ ~Linked(handling[q].person)
      BY <3>6, <3>7
    <3> QED BY <2>1, <2>2, <2>4, <3>3, <3>8 DEF Linked
  <2> QED BY <2>3, <2>4
<1> QED BY <1>5 DEF SignInsFit, Linked

\* Where no account is asked for, a request goes on to delete only what it may.
LEMMA RequestToken ==
  ASSUME AccountsAssumption, AccInv, NEW q \in Requests, RequestStep(q)
  PROVE  authEnabled' \in BOOLEAN /\ TokenFits'
<1> USE DEF AccInv
<1>1. UNCHANGED authEnabled
  BY DEF RequestStep, PlainStep, SignInStep, AdminStep
<1>2. CASE PlainStep(q) \/ SignInStep(q)
  BY <1>1, <1>2 DEF PlainStep, SignInStep, TokenFits
<1>3. CASE AdminStep(q)
  <2>1. PICK next \in Handling :
          /\ handling' = [handling EXCEPT ![q] = next]
          /\ next.op \in Administering =>
               /\ Leaves(handling[q].person) /\ next.person = handling[q].person
               /\ next.op = "delete"
    BY RequestBecomes DEF Becomes
  <2>2. handling'[q] = next /\ \A o \in Requests \ {q} : handling'[o] = handling[o]
    BY <2>1, OthersKept
  <2>3. handling[q].op \in Administering
    BY <1>3 DEF AdminStep
  <2>4. next.op \in {"idle"} \union Administering
    <3>1. CASE IsOver(q)
      <4>1. next = Free
        BY <2>2, <3>1, OthersKept DEF IsOver
      <4> QED BY <4>1, FreeIsHandling
    <3>2. CASE GoesOn(q, "delete", accounts[handling[q].person].id)
      <4>1. next = [handling[q] EXCEPT !.op = "delete", !.id = accounts[handling[q].person].id]
        BY <2>2, <3>2, OthersKept DEF GoesOn
      <4>2. handling[q] \in Handling
        BY DEF RequestsFit
      <4> QED BY <4>1, <4>2 DEF Handling, Administering
    <3> QED BY <1>3, <3>1, <3>2 DEF AdminStep
  <2>5. ASSUME NEW o \in Requests \ {q}, handling'[o].op = "delete" PROVE handling'[o].beside
    BY <2>2, <2>3, <2>5 DEF AdministratorsFit, Administering
  <2>6. next.op = "delete" => Leaves(handling[q].person)'
    <3>1. next.op = "delete" => UNCHANGED accounts
      BY <1>3, <2>2, FreeIsHandling DEF AdminStep, IsOver, RequestsFit
    <3> QED BY <2>1, <2>2, <3>1 DEF Leaves, Superadmins, Administering
  <2> QED BY <1>1, <2>2, <2>4, <2>5, <2>6 DEF TokenFits
<1> QED BY <1>2, <1>3 DEF RequestStep

\* A request of the console keeps the invariant.
LEMMA RequestKeepsInv ==
  ASSUME AccountsAssumption, AccInv, NEW q \in Requests, RequestStep(q)
  PROVE  AccInv'
<1>1. RowsFit' /\ SessionsHaveAccounts'
  BY RequestTable, TableKept DEF AccInv
<1>2. AdministratorsFit'
  BY OutsideAdministration, InsideAdministration DEF RequestStep
<1> QED BY <1>1, <1>2, RequestLogins, RequestSignIns, RequestToken DEF AccInv

-----------------------------------------------------------------------------
(* The other steps.                                                        *)

\* What opens, closes and expires beside the requests' own work leaves their
\* places alone but for the request that is over.
LEMMA QuietRequests ==
  ASSUME AccInv, UNCHANGED <<authEnabled, accounts>>,
         \A o \in Requests :
           \/ handling'[o] = handling[o]
           \/ handling'[o].op = "idle"
  PROVE  AdministratorsFit' /\ SignInsFit' /\ authEnabled' \in BOOLEAN /\ TokenFits'
<1>4. "idle" \notin Administering \union SigningIn
  BY DEF Administering, SigningIn
<1>1. Superadmins' = Superadmins
  BY DEF Superadmins
<1>2. AdministratorsFit'
  BY <1>1, <1>4 DEF AccInv, AdministratorsFit
<1>3. SignInsFit'
  BY <1>4 DEF AccInv, SignInsFit, Linked
<1>5. TokenFits'
  BY <1>1 DEF AccInv, TokenFits, Leaves
<1> QED BY <1>2, <1>3, <1>5 DEF AccInv

\* A sign-in opens one session and is over.
LEMMA OpenSessionKeepsInv ==
  ASSUME AccountsAssumption, AccInv, NEW q \in Requests, OpenSession(q)
  PROVE  AccInv'
<1> USE DEF AccInv
<1>1. handling' = [handling EXCEPT ![q] = Free]
  BY DEF OpenSession, Answer, Goes
<1>2. handling'[q] = Free /\ \A o \in Requests \ {q} : handling'[o] = handling[o]
  BY <1>1, OthersKept
<1>3. RowsFit' /\ SessionsHaveAccounts'
  BY TableKept DEF OpenSession, StartSession, TableStep, OnlySessions
<1>4. RequestsFit'
  BY <1>1, <1>2, FreeIsHandling DEF RequestsFit
<1>5. AdministratorsFit' /\ SignInsFit' /\ authEnabled' \in BOOLEAN /\ TokenFits'
  BY <1>2, FreeIsHandling, QuietRequests DEF OpenSession
<1>6. LoginsFit'
  <2>1. UNCHANGED <<started, pending>>
    BY DEF OpenSession
  <2>2. opened' \in [LoginIds -> Nat]
    BY DEF OpenSession, LoginsFit
  <2>3. ASSUME NEW l \in LoginIds, l # handling[q].login
        PROVE  opened'[l] = opened[l]
    BY <2>3 DEF OpenSession, LoginsFit
  <2>4. ASSUME NEW l \in LoginIds, l = handling[q].login
        PROVE  /\ opened'[l] = 1 /\ ~(l \in pending \/ l > started)
               /\ \A o \in Requests : handling'[o].login # l
    <3>1. opened[l] = 0 /\ \A o \in Requests : handling[o].login = l => o = q
      BY <2>4 DEF LoginsFit
    <3>2. opened'[l] = 1
      BY <2>4, <3>1 DEF OpenSession
    <3>3. ~(l \in pending \/ l > started)
      BY <2>4 DEF LoginsFit
    <3>4. l # 0
      BY DEF LoginIds
    <3> QED BY <1>2, <3>1, <3>2, <3>3, <3>4, FreeIsHandling
  <2>5. ASSUME NEW l \in LoginIds, NEW o \in Requests, handling'[o].login = l
        PROVE  handling[o].login = l
    BY <1>2, <2>5, FreeIsHandling DEF LoginIds
  <2> QED BY <2>1, <2>2, <2>3, <2>4, <2>5 DEF LoginsFit
<1> QED BY <1>3, <1>4, <1>5, <1>6

\* Sessions close, sign-ins start and expire.
LEMMA BackgroundKeepsInv ==
  ASSUME AccountsAssumption, AccInv, CloseSession \/ StartOIDCLogin \/ ExpireOIDCLogin
  PROVE  AccInv'
<1> USE DEF AccInv
<1>1. UNCHANGED <<authEnabled, accounts, nextAccount, handling, opened>>
      /\ sessions' \subseteq sessions
  BY DEF CloseSession, StartOIDCLogin, ExpireOIDCLogin
<1>2. RowsFit' /\ SessionsHaveAccounts'
  BY <1>1, TableKept DEF TableStep, OnlySessions
<1>3. RequestsFit'
  BY <1>1 DEF RequestsFit
<1>4. AdministratorsFit' /\ SignInsFit' /\ authEnabled' \in BOOLEAN /\ TokenFits'
  BY <1>1, QuietRequests
<1>5. LoginsFit'
  <2>1. CASE StartOIDCLogin
    <3>1. started' = started + 1 /\ pending' = pending \union {started + 1} /\ started < MaxLogins
      BY <2>1 DEF StartOIDCLogin
    <3>2. started \in 0..MaxLogins /\ started' \in 0..MaxLogins /\ pending' \subseteq 1..started'
      <4>1. started \in 0..MaxLogins /\ pending \subseteq 1..started /\ MaxLogins \in Nat
        BY DEF LoginsFit, AccountsAssumption
      <4> QED BY <3>1, <4>1
    <3>3. ASSUME NEW l \in LoginIds, l \in pending' \/ l > started'
          PROVE  l \in pending \/ l > started
      BY <3>1, <3>2, <3>3 DEF LoginIds, AccountsAssumption
    <3> QED BY <1>1, <3>2, <3>3 DEF LoginsFit
  <2>2. CASE UNCHANGED started /\ pending' \subseteq pending
    BY <1>1, <2>2 DEF LoginsFit
  <2> QED BY <2>1, <2>2 DEF CloseSession, ExpireOIDCLogin
<1> QED BY <1>2, <1>3, <1>4, <1>5

\* A restart ends every request.
LEMMA RestartKeepsInv ==
  ASSUME AccountsAssumption, AccInv, ServerRestarts
  PROVE  AccInv'
<1> USE DEF AccInv
<1>1. UNCHANGED <<accounts, nextAccount, sessions, started, pending, opened>>
      /\ authEnabled' \in BOOLEAN
  BY DEF ServerRestarts
<1>2. handling' = [q \in Requests |-> Free] /\ \A q \in Requests : handling'[q] = Free
  BY DEF ServerRestarts
<1>3. RowsFit' /\ SessionsHaveAccounts'
  BY <1>1, TableKept DEF TableStep, OnlySessions
<1>4. RequestsFit'
  BY <1>2, FreeIsHandling DEF RequestsFit
<1>5. AdministratorsFit' /\ SignInsFit' /\ TokenFits'
  BY <1>2, FreeIsHandling DEF AdministratorsFit, SignInsFit, TokenFits, Administering, SigningIn
<1>6. LoginsFit'
  BY <1>1, <1>2, FreeIsHandling DEF LoginsFit, LoginIds
<1> QED BY <1>1, <1>3, <1>4, <1>5, <1>6

\* The requests once one of them has begun beside others.
Beside(q, request, others) ==
  /\ handling' \in [Requests -> Handling]
  /\ handling'[q].op = request.op /\ handling'[q].person = request.person
  /\ handling'[q].login = request.login /\ handling'[q].actor = request.actor
  /\ handling'[q].id = request.id
  /\ handling'[q].beside <=> others # {}
  /\ \A o \in Requests \ {q} :
       /\ handling'[o].op = handling[o].op /\ handling'[o].person = handling[o].person
       /\ handling'[o].login = handling[o].login /\ handling'[o].id = handling[o].id
       /\ handling'[o].actor = handling[o].actor
       /\ handling'[o].beside <=> handling[o].beside \/ o \in others

\* What a request that begins does to the others: those that it runs beside
\* know it.
LEMMA BeginsBeside ==
  ASSUME RequestsFit, NEW q \in Requests, NEW request \in Handling,
         NEW others \in SUBSET Requests, q \notin others,
         Begins(q, request, others)
  PROVE  Beside(q, request, others)
<1>1. [request EXCEPT !.beside = others # {}] \in Handling
  BY DEF Handling
<1>2. \A o \in Requests : [handling[o] EXCEPT !.beside = TRUE] \in Handling
  BY DEF RequestsFit, Handling
<1>3. handling'[q] = [request EXCEPT !.beside = others # {}]
  BY DEF Begins
<1>4. /\ handling'[q].op = request.op /\ handling'[q].person = request.person
      /\ handling'[q].login = request.login /\ handling'[q].actor = request.actor
      /\ handling'[q].id = request.id /\ (handling'[q].beside <=> others # {})
  BY <1>3 DEF Handling
<1>5. handling' \in [Requests -> Handling]
  BY <1>1, <1>2 DEF Begins, RequestsFit
<1>6. ASSUME NEW o \in Requests \ {q}
      PROVE  /\ handling'[o].op = handling[o].op /\ handling'[o].person = handling[o].person
             /\ handling'[o].login = handling[o].login /\ handling'[o].id = handling[o].id
             /\ handling'[o].actor = handling[o].actor
             /\ handling'[o].beside <=> handling[o].beside \/ o \in others
  <2>1. handling[o] \in Handling
    BY DEF RequestsFit
  <2>2. CASE o \in others
    <3>1. handling'[o] = [handling[o] EXCEPT !.beside = TRUE]
      BY <1>6, <2>2 DEF Begins
    <3> QED BY <2>1, <2>2, <3>1 DEF Handling
  <2>3. CASE o \notin others
    <3>1. handling'[o] = handling[o]
      BY <1>6, <2>3 DEF Begins
    <3> QED BY <2>1, <2>3, <3>1 DEF Handling
  <2> QED BY <2>2, <2>3
<1> QED BY <1>4, <1>5, <1>6 DEF Beside

\* An administrative request begins: its actor is a superadmin, or nobody where no
\* account is asked for, and the others know of it.
LEMMA AuthenticateKeepsInv ==
  ASSUME AccountsAssumption, AccInv, NEW q \in Requests, Authenticate(q)
  PROVE  AccInv'
<1> USE DEF AccInv
<1> DEFINE others == {o \in Requests : handling[o].op \in Administering}
<1>1. PICK id \in Callers, op \in {"add", "put", "count"}, p \in People :
        Begins(q, [Free EXCEPT !.op = op, !.actor = id, !.person = p], others)
  BY DEF Authenticate
<1> DEFINE request == [Free EXCEPT !.op = op, !.actor = id, !.person = p]
<1>3. authEnabled => Holder(id) \in Superadmins /\ accounts[Holder(id)].id = id
  <2> SUFFICES ASSUME authEnabled PROVE Holder(id) \in Superadmins /\ accounts[Holder(id)].id = id
    OBVIOUS
  <2>1. id \in Ids /\ Holder(id) \in Superadmins
    BY DEF Callers
  <2>2. PICK h \in People : accounts[h].id = id
    BY <2>1 DEF Ids
  <2> QED BY <2>1, <2>2 DEF Holder
<1>4. id \in 0..MaxIds
  <2>1. CASE authEnabled
    <3>1. PICK h \in People : accounts[h].id = id
      BY <2>1 DEF Callers, Ids
    <3> QED BY <3>1 DEF RowsFit, Row
  <2>2. CASE ~authEnabled
    BY <2>2 DEF Callers, AccountsAssumption
  <2> QED BY <2>1, <2>2
<1>5. /\ request \in Handling /\ request.op = op /\ request.actor = id
      /\ request.person = p /\ request.login = 0
  BY <1>4, FreeIsHandling DEF Handling, Handlings, Administering
<1>6. /\ q \notin others
      /\ UNCHANGED <<authEnabled, accounts, nextAccount, sessions, started, pending, opened>>
  BY DEF Authenticate, Doing, Administering
<1>13. Begins(q, request, others) /\ others \in SUBSET Requests
  BY <1>1
<1>14. \A o \in Requests : o \in others <=> handling[o].op \in Administering
  OBVIOUS
<1> HIDE DEF request, others
<1>7. Beside(q, request, others)
  BY <1>5, <1>6, <1>13, BeginsBeside
<1>8. RowsFit' /\ SessionsHaveAccounts'
  BY <1>6, TableKept DEF TableStep, OnlySessions
<1>9. RequestsFit'
  BY <1>5, <1>7 DEF Beside, RequestsFit
<1>10. LoginsFit'
  <2>1. \A o \in Requests, l \in LoginIds : handling'[o].login = l => handling[o].login = l
    BY <1>5, <1>7 DEF Beside, LoginIds
  <2> QED BY <1>6, <2>1 DEF LoginsFit
<1>11. AdministratorsFit'
  <2>1. Superadmins' = Superadmins
    BY <1>6 DEF Superadmins
  <2>2. ASSUME NEW o \in Requests \ {q}, handling'[o].op \in Administering
        PROVE  /\ handling'[o].beside
               /\ handling'[o].op = "delete" => handling'[o].id # handling'[o].actor
    BY <1>5, <1>7, <1>14, <2>2 DEF Beside, AdministratorsFit
  <2>3. others = {} => \A o \in Requests : handling'[o].op \in Administering => o = q
    BY <1>5, <1>7, <1>14 DEF Beside
  <2>4. authEnabled' => \E h \in Superadmins' : accounts'[h].id = handling'[q].actor
    BY <1>3, <1>5, <1>6, <1>7, <2>1 DEF Beside
  <2>5. handling'[q].op # "delete" /\ (handling'[q].beside <=> others # {})
    BY <1>5, <1>7 DEF Beside
  <2> QED BY <2>2, <2>3, <2>4, <2>5 DEF AdministratorsFit
<1>15. authEnabled' \in BOOLEAN /\ TokenFits'
  <2>1. ASSUME NEW o \in Requests, handling'[o].op = "delete"
        PROVE  o # q /\ handling'[o].beside
    BY <1>5, <1>7, <1>14, <2>1 DEF Beside, Administering
  <2>2. ASSUME NEW o \in Requests, ~authEnabled
        PROVE  handling'[o].op \in {"idle"} \union Administering
    BY <1>5, <1>7, <2>2 DEF Beside, TokenFits, Administering
  <2> QED BY <1>6, <2>1, <2>2 DEF TokenFits
<1>12. SignInsFit'
  <2>1. op \notin SigningIn
    BY DEF SigningIn
  <2>2. ASSUME NEW o \in Requests, handling'[o].op \in SigningIn
        PROVE  /\ o # q /\ handling'[o].op = handling[o].op
               /\ handling'[o].person = handling[o].person
               /\ ~handling'[o].beside => ~handling[o].beside
    BY <1>5, <1>7, <2>1, <2>2 DEF Beside
  <2> QED BY <1>6, <2>2 DEF SignInsFit, Linked
<1> QED BY <1>8, <1>9, <1>10, <1>11, <1>12, <1>15

\* A callback consumes its sign-in, and the other sign-ins of the person know
\* of it.
LEMMA CallbackKeepsInv ==
  ASSUME AccountsAssumption, AccInv, NEW q \in Requests, Callback(q)
  PROVE  AccInv'
<1> USE DEF AccInv
<1>1. PICK l \in pending, p \in People :
        /\ pending' = Consumed(l)
        /\ Begins(q, [Free EXCEPT !.op = "lookup", !.person = p, !.login = l],
             {o \in Requests : handling[o].op \in SigningIn /\ handling[o].person = p})
  BY DEF Callback
<1> DEFINE others == {o \in Requests : handling[o].op \in SigningIn /\ handling[o].person = p}
           request == [Free EXCEPT !.op = "lookup", !.person = p, !.login = l]
<1>2. l \in LoginIds /\ l \in 0..MaxLogins
  BY DEF LoginsFit, LoginIds, AccountsAssumption
<1>3. /\ request \in Handling /\ request.op = "lookup" /\ request.person = p
      /\ request.login = l
  BY <1>2, FreeIsHandling DEF Handling, Handlings, SigningIn
<1>4. /\ q \notin others /\ authEnabled
      /\ UNCHANGED <<authEnabled, accounts, nextAccount, sessions, started, opened>>
  BY DEF Callback, Doing, SigningIn
<1>11. Begins(q, request, others) /\ others \in SUBSET Requests
  BY <1>1
<1>12. \A o \in Requests :
         o \in others <=> handling[o].op \in SigningIn /\ handling[o].person = p
  OBVIOUS
<1> HIDE DEF request, others
<1>5. Beside(q, request, others)
  BY <1>3, <1>4, <1>11, BeginsBeside
<1>6. RowsFit' /\ SessionsHaveAccounts'
  BY <1>4, TableKept DEF TableStep, OnlySessions
<1>7. RequestsFit'
  BY <1>3, <1>5 DEF Beside, RequestsFit
<1>8. LoginsFit'
  <2>1. opened[l] = 0 /\ \A o \in Requests : handling[o].login # l
    BY <1>2 DEF LoginsFit
  <2>2. pending' = pending \ {l} /\ ~(l > started)
    BY <1>1 DEF Consumed, LoginsFit
  <2>3. ASSUME NEW k \in LoginIds, NEW o \in Requests, handling'[o].login = k, k # l
        PROVE  handling[o].login = k /\ o # q
    BY <1>3, <1>5, <2>3 DEF Beside
  <2>4. ASSUME NEW o \in Requests, handling'[o].login = l
        PROVE  o = q
    BY <1>3, <1>5, <2>1, <2>4 DEF Beside
  <2>5. started \in 0..MaxLogins /\ pending' \subseteq 1..started /\ opened \in [LoginIds -> Nat]
    BY <2>2 DEF LoginsFit
  <2>6. ASSUME NEW k \in LoginIds
        PROVE  /\ opened[k] <= 1
               /\ k \in pending' \/ k > started =>
                    opened[k] = 0 /\ \A o \in Requests : handling'[o].login # k
               /\ \A o \in Requests : handling'[o].login = k =>
                    opened[k] = 0 /\ \A r \in Requests : handling'[r].login = k => r = o
    <3>1. CASE k = l
      BY <2>1, <2>2, <2>4, <3>1 DEF LoginsFit
    <3>2. CASE k # l
      BY <2>2, <2>3, <3>2 DEF LoginsFit
    <3> QED BY <3>1, <3>2
  <2> QED BY <1>4, <2>5, <2>6 DEF LoginsFit
<1>9. AdministratorsFit'
  <2>1. Superadmins' = Superadmins
    BY <1>4 DEF Superadmins
  <2>2. \A op \in Administering : op \notin SigningIn
    BY DEF Administering, SigningIn
  <2>3. ASSUME NEW o \in Requests, handling'[o].op \in Administering
        PROVE  /\ o # q /\ handling'[o].op = handling[o].op
               /\ handling'[o].id = handling[o].id /\ handling'[o].actor = handling[o].actor
               /\ handling'[o].beside <=> handling[o].beside
    <3>1. o # q
      BY <1>3, <1>5, <2>2, <2>3 DEF Beside, SigningIn
    <3>2. o \notin others
      BY <1>3, <1>5, <1>12, <2>2, <2>3, <3>1 DEF Beside
    <3>3. handling'[o].beside <=> handling[o].beside \/ o \in others
      BY <1>3, <1>5, <3>1 DEF Beside
    <3> QED BY <1>5, <3>1, <3>2, <3>3 DEF Beside
  <2> QED BY <1>4, <2>1, <2>3 DEF AdministratorsFit
<1>10. SignInsFit'
  <2>1. ASSUME NEW o \in Requests \ {q}, handling'[o].op \in SigningIn, ~handling'[o].beside
        PROVE  handling[o].person # p /\ ~handling[o].beside
    BY <1>3, <1>5, <1>12, <2>1 DEF Beside
  <2>2. others = {} => \A o \in Requests :
          handling'[o].op \in SigningIn /\ handling'[o].person = p => o = q
    BY <1>3, <1>5, <1>12 DEF Beside
  <2> QED BY <1>4, <1>3, <1>5, <2>1, <2>2 DEF Beside, SignInsFit, Linked
<1> QED BY <1>4, <1>6, <1>7, <1>8, <1>9, <1>10 DEF TokenFits

\* Every step keeps the invariant.
LEMMA AccInvStep ==
  ASSUME AccountsAssumption
  PROVE  AccInv /\ [AccNext]_accVars => AccInv'
<1> SUFFICES ASSUME AccInv, [AccNext]_accVars PROVE AccInv'
  OBVIOUS
<1>1. CASE UNCHANGED accVars
  BY <1>1 DEF accVars, AccInv, RowsFit, SessionsHaveAccounts, Ids, RequestsFit, LoginsFit,
     AdministratorsFit, Superadmins, SignInsFit, Linked, HasAccount, TokenFits, Leaves
<1>2. CASE AccNext
  BY <1>2, AllSteps, RequestKeepsInv, OpenSessionKeepsInv, BackgroundKeepsInv,
     AuthenticateKeepsInv, CallbackKeepsInv, RestartKeepsInv DEF OtherStep
<1> QED BY <1>1, <1>2

\* The inductive invariant holds in every state the console reaches.
THEOREM AccountsInvariant == AccSpec => []AccInv
<1> USE AccountsAssumption
<1>1. AccInit => AccInv
  BY AccInvInit
<1>2. AccInv /\ [AccNext]_accVars => AccInv'
  BY AccInvStep
<1> QED BY <1>1, <1>2, PTL DEF AccSpec

\* The invariant the induction uses implies the checked one.
LEMMA AccInvSound ==
  ASSUME AccountsAssumption, AccInv
  PROVE  AccountsSound
<1> USE DEF AccInv
<1>1. /\ accounts \in [People -> Row]
      /\ \A p \in People : accounts[p].id < nextAccount
  BY DEF RowsFit
<1>2. \A p \in People : HasAccount(p) => accounts[p].id > 0
  BY <1>1 DEF RowsFit, HasAccount, Row
<1>3. \A p \in People : \A o \in People \ {p} : accounts[o].id # accounts[p].id \/ ~HasAccount(p)
  BY <1>1, <1>2 DEF RowsFit
<1>4. sessions \subseteq 1..MaxIds
  BY <1>1 DEF SessionsHaveAccounts, Ids, Row
<1>5. pending \subseteq LoginIds /\ \A l \in LoginIds : opened[l] \in 0..2 /\ opened[l] <= 1
  BY DEF LoginsFit, LoginIds, AccountsAssumption
<1> QED BY <1>1, <1>2, <1>3, <1>4, <1>5 DEF Row, AccTypeOK, AccountsSound, OneSessionPerSignIn

\* Accounts, sessions and sign-ins belong together, whatever requests run
\* beside each other: an id is given out once, no session outlives its
\* account, and one sign-in through OIDC opens one session.
THEOREM AccountsStaySound == AccSpec => []AccountsSound
<1>1. AccInv => AccountsSound
  BY AccInvSound, AccountsAssumption
<1> QED BY <1>1, AccountsInvariant, PTL

-----------------------------------------------------------------------------
(* Who decides about superadmins.                                          *)

\* The last superadmin goes only by a put or a delete that ran beside another
\* administrative request, or by a put of the token's holder: one that ran alone
\* leaves its own actor, and a deletion alone leaves another.
LEMMA LastSuperadminByRaceOrToken ==
  ASSUME AccountsAssumption, AccInv, [AccNext]_accVars,
         Superadmins # {}, Superadmins' = {}
  PROVE  \E q \in Requests :
           \/ handling[q].op \in {"put", "delete"} /\ handling[q].beside
           \/ handling[q].op = "put" /\ ~authEnabled
<1> USE DEF AccInv
<1>1. ~UNCHANGED accounts
  BY DEF Superadmins
<1>2. PICK q \in Requests : RequestStep(q)
  <2>1. ~OtherStep
    BY <1>1 DEF OtherStep, OpenSession, Callback, Authenticate, CloseSession,
       StartOIDCLogin, ExpireOIDCLogin, ServerRestarts
  <2> QED BY <1>1, <2>1, AllSteps DEF accVars
<1>3. AdminStep(q)
  <2>1. PICK h \in Superadmins : TRUE
    OBVIOUS
  <2> QED BY <1>2, <2>1, SuperadminsStay DEF RequestStep
<1>4. handling[q].op \in Administering
  BY <1>3 DEF AdminStep
<1> DEFINE p == handling[q].person
<1>5. p \in People /\ accounts[p] \in Row
  BY <1>4 DEF RequestsFit, RowsFit, Administering
<1>8. ASSUME NEW role \in Roles, NEW enabled \in BOOLEAN, Creates(p, role, enabled, FALSE)
      PROVE  FALSE
  <2>1. PICK h \in Superadmins : TRUE
    OBVIOUS
  <2>2. h \in People /\ accounts[h].role = "superadmin" /\ accounts[h].enabled
        /\ h \notin Superadmins'
    BY <2>1 DEF Superadmins
  <2>3. h # p
    BY <1>8, <2>2 DEF Creates, HasAccount, NoAccount
  <2>4. accounts'[h] = accounts[h]
    BY <1>5, <1>8, <2>2, <2>3 DEF Creates, CreateUser, RowsFit
  <2> QED BY <2>2, <2>4 DEF Superadmins
<1>9. handling[q].op \in {"put", "delete"}
  BY <1>1, <1>3, <1>8 DEF AdminStep
<1>10. CASE ~handling[q].beside /\ ~authEnabled /\ handling[q].op = "delete"
  <2>1. PICK h \in Superadmins : h # p
    BY <1>10 DEF TokenFits, Leaves
  <2>2. Deletes(p)
    BY <1>1, <1>3, <1>10 DEF AdminStep
  <2>3. h \in People /\ accounts'[h] = accounts[h]
    BY <2>1, <2>2 DEF Deletes, RowsFit, Superadmins
  <2> QED BY <2>1, <2>3 DEF Superadmins
<1>6. CASE ~handling[q].beside /\ authEnabled
  <2>1. PICK h \in Superadmins : accounts[h].id = handling[q].actor
    BY <1>4, <1>6 DEF AdministratorsFit
  <2>2. h \in People /\ accounts[h].role = "superadmin" /\ accounts[h].enabled /\ h \notin Superadmins'
    BY <2>1 DEF Superadmins
  <2>5. accounts'[h] # accounts[h]
    BY <2>2 DEF Superadmins
  <2>6. CASE Deletes(p) /\ accounts[p].id = handling[q].id /\ handling[q].op = "delete"
    <3>1. accounts[p].id # accounts[h].id
      BY <1>4, <2>1, <2>6 DEF AdministratorsFit
    <3> QED BY <1>5, <2>2, <2>5, <2>6, <3>1 DEF Deletes, RowsFit
  <2>8. ASSUME NEW role \in Roles, NEW enabled \in BOOLEAN,
               MayPut(handling[q].actor, p, role, enabled),
               Updates(p, [accounts[p] EXCEPT !.role = role, !.enabled = enabled])
        PROVE  FALSE
    <3>1. p = h
      BY <1>5, <2>2, <2>5, <2>8 DEF Updates, RowsFit
    <3>2. enabled /\ role = "superadmin"
      BY <2>1, <2>8, <3>1 DEF MayPut
    <3>3. accounts'[h] = [accounts[h] EXCEPT !.role = role, !.enabled = enabled]
      BY <2>2, <2>8, <3>1 DEF Updates, RowsFit
    <3> QED BY <1>5, <2>2, <3>1, <3>2, <3>3 DEF Superadmins, Row
  <2> QED BY <1>1, <1>3, <1>8, <2>6, <2>8 DEF AdminStep
<1> QED BY <1>6, <1>9, <1>10

\* A sign-in enables a disabled account only when another of the same person
\* ran beside it.
LEMMA EnabledByPutOrRace ==
  ASSUME AccountsAssumption, AccInv, [AccNext]_accVars, NEW p \in People,
         accounts[p].id = accounts'[p].id, ~accounts[p].enabled, accounts'[p].enabled
  PROVE  \E q \in Requests : Doing(q, "put") \/ (Doing(q, "enable") /\ handling[q].beside)
<1> USE DEF AccInv
<1>1. accounts'[p] # accounts[p]
  OBVIOUS
<1>2. PICK q \in Requests : RequestStep(q)
  <2>1. ~OtherStep
    BY <1>1 DEF OtherStep, OpenSession, Callback, Authenticate, CloseSession,
       StartOIDCLogin, ExpireOIDCLogin, ServerRestarts
  <2> QED BY <1>1, <2>1, AllSteps DEF accVars
<1> DEFINE o == handling[q].person
<1>3. accounts \in [People -> Row] /\ accounts[p] \in Row /\ ~NoAccount.enabled
  BY DEF RowsFit, NoAccount
<1>4. ASSUME NEW r \in People, NEW role, NEW enabled, NEW linked, Creates(r, role, enabled, linked)
      PROVE  FALSE
  <2>1. p = r /\ accounts'[p].id = nextAccount
    BY <1>1, <1>3, <1>4 DEF Creates, CreateUser
  <2>2. accounts[p].id < nextAccount /\ accounts[p].id \in Nat /\ nextAccount \in Nat
    BY <1>3 DEF RowsFit, Row, AccountsAssumption
  <2> QED BY <2>1, <2>2
<1>5. ASSUME NEW r \in People, Deletes(r) PROVE FALSE
  BY <1>1, <1>3, <1>5 DEF Deletes
<1>6. ASSUME NEW r \in People, Updates(r, [accounts[r] EXCEPT !.linked = TRUE])
      PROVE  FALSE
  BY <1>1, <1>3, <1>6 DEF Updates, Row
<1>7. CASE PlainStep(q)
  BY <1>1, <1>4, <1>7 DEF PlainStep
<1>8. CASE SignInStep(q)
  <2>1. o \in People
    BY <1>8 DEF SignInStep, RequestsFit, SigningIn
  <2>2. handling[q].op = "enable"
    BY <1>1, <1>4, <1>6, <1>8, <2>1 DEF SignInStep
  <2>3. handling[q].beside
    BY <1>8, <2>2 DEF SignInStep, SignInsFit
  <2> QED BY <2>2, <2>3 DEF Doing
<1>9. CASE AdminStep(q)
  <2>1. o \in People
    BY <1>9 DEF AdminStep, RequestsFit, Administering
  <2>2. handling[q].op = "put"
    BY <1>1, <1>4, <1>5, <1>9, <2>1 DEF AdminStep
  <2> QED BY <2>2 DEF Doing
<1> QED BY <1>2, <1>7, <1>8, <1>9 DEF RequestStep

\* Only administrative requests decide who is a superadmin and who may sign in: the
\* last superadmin is lost only by two of them at once, or by the token holder's
\* demotion where no account is asked for, and a disabled account comes back only
\* by one or by two sign-ins at once.
THEOREM OnlySuperadminsDecide == AccSpec => SuperadminsDecide
<1> USE AccountsAssumption
<1>1. AccInv /\ [AccNext]_accVars =>
        [Superadmins # {} /\ Superadmins' = {}
           => \E q \in Requests :
                \/ handling[q].op \in {"put", "delete"} /\ handling[q].beside
                \/ handling[q].op = "put" /\ ~authEnabled]_accVars
  BY LastSuperadminByRaceOrToken
<1>2. AccInv /\ [AccNext]_accVars =>
        [\A p \in People :
           (accounts[p].id = accounts'[p].id /\ ~accounts[p].enabled /\ accounts'[p].enabled)
           => \E q \in Requests :
                Doing(q, "put") \/ (Doing(q, "enable") /\ handling[q].beside)]_accVars
  BY EnabledByPutOrRace
<1>3. AccSpec => SuperadminLostByRaceOrToken
  BY <1>1, AccountsInvariant, PTL DEF AccSpec, SuperadminLostByRaceOrToken
<1>4. AccSpec => EnabledByAdministrator
  BY <1>2, AccountsInvariant, PTL DEF AccSpec, EnabledByAdministrator
<1> QED BY <1>3, <1>4 DEF SuperadminsDecide

-----------------------------------------------------------------------------
(* The configuration file.                                                 *)

\* What is read from the file without defaults, and what is about to be saved.
Settled == [Fields -> Values \ {"absent"}]

\* Contents, places and answers are well formed; a save under way has a draft.
FilesFit ==
  /\ config \in Texts \union {Torn} /\ tmp \in Texts \union {Torn, Nothing}
  /\ running \in Settled /\ overlapped \in BOOLEAN
  /\ stepOf \in [Administrators -> {"idle", "open", "write", "rename"}]
  /\ handleOf \in [Administrators -> {Nothing, "tmp", "file"}]
  /\ draft \in [Administrators -> Settled \union {Nothing}]
  /\ asked \in [Administrators -> Sections \X {"zero", "own"}]
  /\ answered \in [Sections -> {"zero", "own", Nothing}]
  /\ \A a \in Administrators :
       /\ handleOf[a] # Nothing => stepOf[a] \in {"write", "rename"}
       /\ stepOf[a] # "idle" => draft[a] \in Settled

\* The secret is in the file, in its temporary copy and in every draft.
SecretsFit ==
  /\ SecretKept /\ (tmp \in Texts => tmp["token"] = "own")
  /\ \A a \in Administrators : stepOf[a] # "idle" => draft[a]["token"] = "own"

\* While saves do not overlap, the one under way has the temporary file to
\* itself and has drafted what it was asked for, of the file as it still is.
SaveIsAlone ==
  ~overlapped =>
    /\ config # Torn
    /\ \A a \in Administrators : stepOf[a] # "idle" =>
         /\ \A b \in Administrators : stepOf[b] # "idle" => b = a
         /\ draft[a] = Merged(Persisted(config), asked[a][1], asked[a][2])
         /\ stepOf[a] # "open" => handleOf[a] = "tmp"
         /\ stepOf[a] = "rename" => tmp = Written(draft[a])

SetInv ==
  FilesFit /\ SecretsFit /\ SaveIsAlone /\ SavedSectionKept /\ WorkersConfigured

\* The fields are these, each with its section.
LEMMA FieldSections ==
  /\ \A f \in Fields : SectionOf[f] \in Sections
  /\ Sections = {"auth", "llm", "review"}
  /\ "token" \in Fields /\ SectionOf["token"] = "llm"
  /\ "concurrency" \in Fields /\ SectionOf["concurrency"] = "review"
  /\ \A f \in Fields : SectionOf[f] = "llm" => f = "token"
<1>1. /\ SectionOf["token"] = "llm" /\ SectionOf["auth_enabled"] = "auth"
      /\ SectionOf["concurrency"] = "review" /\ SectionOf["viewer_url"] = "review"
      /\ SectionOf["blocking_severities"] = "review"
  BY DEF SectionOf, Fields
<1>2. \A f \in Fields : f \in {"blocking_severities", "concurrency", "viewer_url",
                               "auth_enabled", "token"}
  BY DEF Fields
<1>3. \A f \in Fields : SectionOf[f] \in Sections
  BY DEF Sections
<1>4. Sections \subseteq {"auth", "llm", "review"}
  BY <1>1, <1>2 DEF Sections
<1>5. {"auth", "llm", "review"} \subseteq Sections
  BY <1>1 DEF Sections, Fields
<1> QED BY <1>1, <1>2, <1>3, <1>4, <1>5 DEF Fields

\* Reading and writing keep the shape; neither loses the secret, and what a
\* start reads has a usable number of workers.
LEMMA ContentShapes ==
  /\ \A text \in Texts : Loaded(text) \in Settled /\ Loaded(text)["concurrency"] # "zero"
  /\ \A text \in Texts :
       /\ Persisted(text) \in Settled
       /\ text["token"] = "own" => Persisted(text)["token"] = "own"
  /\ \A cfg \in Settled :
       /\ Written(cfg) \in Texts
       /\ cfg["token"] = "own" => Written(cfg)["token"] = "own"
  /\ \A cfg \in Settled, section \in Sections, value \in {"zero", "own"} :
       /\ Merged(cfg, section, value) \in Settled
       /\ cfg["token"] = "own" => Merged(cfg, section, value)["token"] = "own"
<1>1. ASSUME NEW text \in Texts
      PROVE  Loaded(text) \in Settled /\ Loaded(text)["concurrency"] # "zero"
  BY DEF Texts, Loaded, Settled, Values, DefaultOf, RestoredByLoad, Fields
<1>2. ASSUME NEW text \in Texts
      PROVE  /\ Persisted(text) \in Settled
             /\ text["token"] = "own" => Persisted(text)["token"] = "own"
  BY DEF Texts, Persisted, Settled, Values, Fields
<1>3. ASSUME NEW cfg \in Settled
      PROVE  /\ Written(cfg) \in Texts
             /\ cfg["token"] = "own" => Written(cfg)["token"] = "own"
  BY DEF Texts, Written, Settled, Values, OmitsEmpty, Fields
<1>4. ASSUME NEW cfg \in Settled, NEW section \in Sections, NEW value \in {"zero", "own"}
      PROVE  /\ Merged(cfg, section, value) \in Settled
             /\ cfg["token"] = "own" => Merged(cfg, section, value)["token"] = "own"
  <2>1. Merged(cfg, section, value) \in Settled
    BY DEF Merged, Settled, Values
  <2>2. cfg["token"] = "own" => Merged(cfg, section, value)["token"] = "own"
    BY FieldSections DEF Merged
  <2> QED BY <2>1, <2>2
<1> QED BY <1>1, <1>2, <1>3, <1>4

\* The state of the file that only a rename or an in-place write changes.
LEMMA SettledFile ==
  ASSUME UNCHANGED <<config, overlapped, answered>>
  PROVE  /\ SavedSectionKept => SavedSectionKept'
         /\ SecretKept => SecretKept'
BY DEF SavedSectionKept, SecretKept

\* The start reads a file somebody wrote, or none.
LEMMA SetInvInit ==
  ASSUME SettingsAssumption, SetInit
  PROVE  SetInv
<1>1. config \in Texts /\ config["token"] = "own"
  BY DEF SetInit, Texts, Values, Fields
<1>2. FilesFit
  <2>1. "review" \in Sections
    BY FieldSections
  <2> QED BY <1>1, <2>1, ContentShapes DEF SetInit, FilesFit
<1>3. SecretsFit
  BY <1>1 DEF SetInit, SecretsFit, SecretKept, SettingsAssumption
<1>4. SaveIsAlone
  BY <1>1 DEF SetInit, SaveIsAlone, SettingsAssumption
<1>5. SavedSectionKept
  BY FieldSections DEF SetInit, SavedSectionKept
<1>6. WorkersConfigured
  BY <1>1, ContentShapes DEF SetInit, WorkersConfigured
<1> QED BY <1>2, <1>3, <1>4, <1>5, <1>6 DEF SetInv

\* A save that begins drafts its section into what the file holds.
LEMMA ReadForSaveKeepsInv ==
  ASSUME SettingsAssumption, SetInv, NEW a \in Administrators, ReadForSave(a)
  PROVE  SetInv'
<1> USE DEF SetInv
<1>1. PICK section \in Sections, value \in {"zero", "own"} :
        LET cfg == Merged(BaseOfSave, section, value)
        IN /\ asked' = [asked EXCEPT ![a] = <<section, value>>]
           /\ stepOf' = [stepOf EXCEPT ![a] =
                IF config # Torn /\ Validates(cfg) THEN "open" ELSE "idle"]
           /\ draft' = [draft EXCEPT ![a] =
                IF config # Torn /\ Validates(cfg) THEN cfg ELSE Nothing]
  BY DEF ReadForSave
<1> DEFINE cfg == Merged(Persisted(config), section, value)
<1>2. /\ UNCHANGED <<config, tmp, running, handleOf, restarts, answered>>
      /\ overlapped' = (overlapped \/ Busy # {}) /\ stepOf[a] = "idle"
  BY DEF ReadForSave, Busy
<1>3. /\ asked' = [asked EXCEPT ![a] = <<section, value>>]
      /\ \/ /\ config # Torn
            /\ stepOf' = [stepOf EXCEPT ![a] = "open"] /\ draft' = [draft EXCEPT ![a] = cfg]
         \/ stepOf' = [stepOf EXCEPT ![a] = "idle"] /\ draft' = [draft EXCEPT ![a] = Nothing]
  BY <1>1 DEF BaseOfSave
<1>4. config # Torn => cfg \in Settled /\ (config["token"] = "own" => cfg["token"] = "own")
  BY ContentShapes DEF FilesFit
<1>5. \A b \in Administrators \ {a} :
        stepOf'[b] = stepOf[b] /\ draft'[b] = draft[b] /\ asked'[b] = asked[b]
  BY <1>3 DEF FilesFit
<1>6. /\ stepOf'[a] # "idle" =>
           /\ config # Torn /\ stepOf'[a] = "open" /\ draft'[a] = cfg
           /\ asked'[a] = <<section, value>>
      /\ handleOf[a] = Nothing
  BY <1>2, <1>3 DEF FilesFit
<1> HIDE DEF cfg
<1>7. FilesFit'
  <2>1. overlapped' \in BOOLEAN
    BY <1>2
  <2>2. asked' \in [Administrators -> Sections \X {"zero", "own"}]
    BY <1>3 DEF FilesFit
  <2>3. stepOf' \in [Administrators -> {"idle", "open", "write", "rename"}]
    BY <1>3 DEF FilesFit
  <2>4. draft' \in [Administrators -> Settled \union {Nothing}]
    BY <1>3, <1>4 DEF FilesFit
  <2>5. ASSUME NEW b \in Administrators
        PROVE  /\ handleOf'[b] # Nothing => stepOf'[b] \in {"write", "rename"}
               /\ stepOf'[b] # "idle" => draft'[b] \in Settled
    BY <1>2, <1>4, <1>5, <1>6 DEF FilesFit
  <2> QED BY <1>2, <2>1, <2>2, <2>3, <2>4, <2>5 DEF FilesFit
<1>8. SecretsFit'
  BY <1>2, <1>4, <1>5, <1>6 DEF SecretsFit, SecretKept
<1>9. SaveIsAlone'
  <2> SUFFICES ASSUME ~overlapped' PROVE SaveIsAlone'
    BY DEF SaveIsAlone
  <2>1. ~overlapped /\ \A b \in Administrators : stepOf[b] = "idle"
    BY <1>2 DEF Busy
  <2>2. stepOf'[a] # "idle" => draft'[a] = Merged(Persisted(config), asked'[a][1], asked'[a][2])
    BY <1>6 DEF cfg
  <2> QED BY <1>2, <1>5, <1>6, <2>1, <2>2 DEF SaveIsAlone
<1>10. SavedSectionKept'
  BY <1>2 DEF SavedSectionKept
<1>11. WorkersConfigured'
  BY <1>2 DEF WorkersConfigured
<1> QED BY <1>7, <1>8, <1>9, <1>10, <1>11

\* A save opens the temporary file, which it truncates.
LEMMA OpenTemporaryKeepsInv ==
  ASSUME SettingsAssumption, SetInv, NEW a \in Administrators, OpenTemporary(a)
  PROVE  SetInv'
<1> USE DEF SetInv
<1>1. /\ stepOf[a] = "open" /\ stepOf' = [stepOf EXCEPT ![a] = "write"]
      /\ handleOf' = [handleOf EXCEPT ![a] = "tmp"] /\ tmp' = Torn
      /\ UNCHANGED <<config, running, draft, asked, overlapped, answered>>
  BY DEF OpenTemporary, Target
<1>2. /\ stepOf'[a] = "write" /\ handleOf'[a] = "tmp"
      /\ \A b \in Administrators \ {a} : stepOf'[b] = stepOf[b] /\ handleOf'[b] = handleOf[b]
  BY <1>1 DEF FilesFit
<1>3. FilesFit'
  BY <1>1, <1>2 DEF FilesFit
<1>4. SecretsFit'
  BY <1>1, <1>2 DEF SecretsFit, SecretKept, SettingsAssumption
<1>5. SaveIsAlone'
  BY <1>1, <1>2 DEF SaveIsAlone
<1>6. SavedSectionKept' /\ WorkersConfigured'
  BY <1>1 DEF SavedSectionKept, WorkersConfigured
<1> QED BY <1>3, <1>4, <1>5, <1>6

\* A save writes what it has drafted to the file it opened, which the rename
\* of another save may have made the configuration meanwhile.
LEMMA WriteContentKeepsInv ==
  ASSUME SettingsAssumption, SetInv, NEW a \in Administrators, WriteContent(a)
  PROVE  SetInv'
<1> USE DEF SetInv
<1>1. /\ stepOf[a] = "write" /\ stepOf' = [stepOf EXCEPT ![a] = "rename"]
      /\ UNCHANGED <<running, draft, handleOf, asked, overlapped, answered>>
      /\ tmp' \in {tmp, Written(draft[a])} /\ config' \in {config, Written(draft[a])}
      /\ handleOf[a] = "tmp" => tmp' = Written(draft[a]) /\ config' = config
  BY DEF WriteContent
<1>2. Written(draft[a]) \in Texts /\ Written(draft[a])["token"] = "own"
  BY <1>1, ContentShapes DEF FilesFit, SecretsFit
<1>3. /\ stepOf'[a] = "rename"
      /\ \A b \in Administrators \ {a} : stepOf'[b] = stepOf[b]
  BY <1>1 DEF FilesFit
<1>4. FilesFit'
  BY <1>1, <1>2, <1>3 DEF FilesFit
<1>5. SecretsFit'
  BY <1>1, <1>2, <1>3 DEF SecretsFit, SecretKept
<1>6. ~overlapped => handleOf[a] = "tmp"
  BY <1>1 DEF SaveIsAlone
<1>7. SaveIsAlone'
  BY <1>1, <1>3, <1>6 DEF SaveIsAlone
<1>8. SavedSectionKept' /\ WorkersConfigured'
  BY <1>1, <1>6 DEF SavedSectionKept, WorkersConfigured
<1> QED BY <1>4, <1>5, <1>7, <1>8

\* A save of a section that is alone stores it and leaves the others' values.
LEMMA SavedSections ==
  ASSUME NEW text \in Texts, NEW known \in [Sections -> {"zero", "own", Nothing}],
         NEW section \in Sections, NEW value \in {"zero", "own"},
         NEW f \in Fields \ {"token"},
         LET was == known[SectionOf[f]]
         IN was # Nothing =>
              text[f] = IF was = "zero" /\ f = "viewer_url" THEN "absent" ELSE was
  PROVE  LET now == [known EXCEPT ![section] = value][SectionOf[f]]
             saved == Written(Merged(Persisted(text), section, value))
         IN now # Nothing =>
              saved[f] = IF now = "zero" /\ f = "viewer_url" THEN "absent" ELSE now
<1>1. SectionOf[f] \in Sections /\ f \in Fields /\ f # "token"
  BY FieldSections
<1>2. CASE SectionOf[f] = section
  <2>1. Merged(Persisted(text), section, value)[f] = value
    BY <1>1, <1>2 DEF Merged
  <2> QED BY <1>1, <1>2, <2>1 DEF Written, OmitsEmpty
<1>3. CASE SectionOf[f] # section
  <2>1. Merged(Persisted(text), section, value)[f] = Persisted(text)[f]
    BY <1>1, <1>3 DEF Merged
  <2>2. Persisted(text)[f] = IF text[f] = "absent" THEN "zero" ELSE text[f]
    BY <1>1 DEF Persisted
  <2>3. known[SectionOf[f]] \in {"zero", "own", Nothing}
    BY <1>1
  <2> QED BY <1>1, <1>3, <2>1, <2>2, <2>3 DEF Written, OmitsEmpty
<1> QED BY <1>2, <1>3

\* The rename makes the temporary file the configuration; whoever still
\* writes to it writes to the configuration from now on.
LEMMA RenameKeepsInv ==
  ASSUME SettingsAssumption, SetInv, NEW a \in Administrators, RenameTemporary(a)
  PROVE  SetInv'
<1> USE DEF SetInv
<1>1. /\ stepOf[a] = "rename" /\ stepOf' = [stepOf EXCEPT ![a] = "idle"]
      /\ draft' = [draft EXCEPT ![a] = Nothing]
      /\ UNCHANGED <<running, asked, overlapped>>
  BY DEF RenameTemporary
<1>2. /\ stepOf'[a] = "idle"
      /\ \A b \in Administrators \ {a} : stepOf'[b] = stepOf[b] /\ draft'[b] = draft[b]
  BY <1>1 DEF FilesFit
<1>3. WorkersConfigured'
  BY <1>1 DEF WorkersConfigured
<1>4. CASE tmp = Nothing
  <2>1. /\ handleOf' = [handleOf EXCEPT ![a] = Nothing]
        /\ UNCHANGED <<config, tmp, answered>>
    BY <1>4 DEF RenameTemporary
  <2>2. FilesFit'
    BY <1>1, <1>2, <2>1 DEF FilesFit
  <2>3. SecretsFit'
    BY <1>2, <2>1 DEF SecretsFit, SecretKept
  <2>4. overlapped
    <3>1. Written(draft[a]) \in Texts
      BY <1>1, ContentShapes DEF FilesFit
    <3> QED BY <1>1, <1>4, <3>1 DEF SaveIsAlone, SettingsAssumption
  <2>5. SaveIsAlone' /\ SavedSectionKept'
    BY <1>1, <2>4 DEF SaveIsAlone, SavedSectionKept
  <2> QED BY <1>3, <2>2, <2>3, <2>5
<1>5. CASE tmp # Nothing
  <2>1. /\ config' = tmp /\ tmp' = Nothing
        /\ handleOf' = [b \in Administrators |->
             IF b = a THEN Nothing
             ELSE CASE handleOf[b] = "tmp" -> "file"
                    [] handleOf[b] = "file" -> Nothing
                    [] OTHER -> handleOf[b]]
        /\ answered' = [answered EXCEPT ![asked[a][1]] = asked[a][2]]
    BY <1>5 DEF RenameTemporary
  <2>2. \A b \in Administrators :
          /\ handleOf'[b] \in {Nothing, "tmp", "file"}
          /\ handleOf'[b] # Nothing => b # a /\ handleOf[b] # Nothing
    BY <2>1 DEF FilesFit, SettingsAssumption
  <2>3. asked[a][1] \in Sections /\ asked[a][2] \in {"zero", "own"}
    BY DEF FilesFit
  <2>4. FilesFit'
    <3>1. handleOf' \in [Administrators -> {Nothing, "tmp", "file"}]
      BY <2>1, <2>2
    <3>2. answered' \in [Sections -> {"zero", "own", Nothing}]
      BY <2>1, <2>3 DEF FilesFit
    <3>3. ASSUME NEW b \in Administrators, handleOf'[b] # Nothing
          PROVE  stepOf'[b] \in {"write", "rename"}
      BY <1>2, <2>2, <3>3 DEF FilesFit
    <3>4. draft' \in [Administrators -> Settled \union {Nothing}]
      BY <1>1 DEF FilesFit
    <3> QED BY <1>1, <1>2, <1>5, <2>1, <3>1, <3>2, <3>3, <3>4 DEF FilesFit
  <2>5. SecretsFit'
    <3>1. config' # Torn => config'["token"] = "own"
      BY <1>5, <2>1 DEF FilesFit, SecretsFit
    <3> QED BY <1>2, <2>1, <3>1 DEF SecretsFit, SecretKept, SettingsAssumption
  <2>6. CASE overlapped
    BY <1>1, <1>3, <2>4, <2>5, <2>6 DEF SaveIsAlone, SavedSectionKept
  <2>7. CASE ~overlapped
    <3> DEFINE saved == Merged(Persisted(config), asked[a][1], asked[a][2])
    <3>1. /\ config \in Texts /\ config' = Written(saved)
          /\ \A b \in Administrators : stepOf'[b] = "idle"
      BY <1>1, <1>2, <2>1, <2>7 DEF SaveIsAlone, FilesFit
    <3>2. Written(saved) \in Texts
      BY <2>3, <3>1, ContentShapes
    <3>3. SaveIsAlone'
      BY <3>1, <3>2 DEF SaveIsAlone, SettingsAssumption
    <3>4. answered \in [Sections -> {"zero", "own", Nothing}]
      BY DEF FilesFit
    <3>5. ASSUME NEW f \in Fields \ {"token"}
          PROVE  LET was == answered[SectionOf[f]]
                 IN was # Nothing =>
                      config[f] = IF was = "zero" /\ f = "viewer_url" THEN "absent" ELSE was
      BY <2>7, <3>1 DEF SavedSectionKept, SettingsAssumption
    <3>6. ASSUME NEW f \in Fields \ {"token"}
          PROVE  LET now == answered'[SectionOf[f]]
                 IN now # Nothing =>
                      config'[f] = IF now = "zero" /\ f = "viewer_url" THEN "absent" ELSE now
      <4>1. LET now == [answered EXCEPT ![asked[a][1]] = asked[a][2]][SectionOf[f]]
            IN now # Nothing =>
                 Written(saved)[f] = IF now = "zero" /\ f = "viewer_url" THEN "absent" ELSE now
        BY <2>3, <3>1, <3>4, <3>5, SavedSections
      <4> QED BY <2>1, <3>1, <4>1
    <3>7. SavedSectionKept'
      BY <3>6 DEF SavedSectionKept
    <3> QED BY <1>3, <2>4, <2>5, <3>3, <3>7
  <2> QED BY <2>6, <2>7
<1> QED BY <1>4, <1>5

\* A save that fails leaves the files; a restart ends every save.
LEMMA AbandonedSavesKeepInv ==
  ASSUME SettingsAssumption, SetInv,
         (\E a \in Administrators : SaveFails(a)) \/ Restart
  PROVE  SetInv'
<1> USE DEF SetInv
<1>1. /\ UNCHANGED <<config, tmp, asked, overlapped, answered>>
      /\ \/ running' = running
         \/ config # Torn /\ running' = Loaded(config)
  <2>1. ASSUME NEW a \in Administrators, SaveFails(a)
        PROVE  UNCHANGED <<config, tmp, asked, overlapped, answered, running>>
    BY <2>1 DEF SaveFails
  <2>2. CASE Restart
    BY <2>2 DEF Restart
  <2> QED BY <2>1, <2>2
<1>2. ASSUME NEW b \in Administrators
      PROVE  \/ stepOf'[b] = "idle" /\ handleOf'[b] = Nothing /\ draft'[b] = Nothing
             \/ stepOf'[b] = stepOf[b] /\ handleOf'[b] = handleOf[b] /\ draft'[b] = draft[b]
  BY DEF SaveFails, Ends, Restart, FilesFit
<1>3. /\ stepOf' \in [Administrators -> {"idle", "open", "write", "rename"}]
      /\ handleOf' \in [Administrators -> {Nothing, "tmp", "file"}]
      /\ draft' \in [Administrators -> Settled \union {Nothing}]
  BY SMTT(30) DEF SaveFails, Ends, Restart, FilesFit
<1>4. running' \in Settled /\ WorkersConfigured'
  BY <1>1, ContentShapes DEF FilesFit, WorkersConfigured
<1>5. FilesFit'
  BY <1>1, <1>2, <1>3, <1>4 DEF FilesFit
<1>6. SecretsFit'
  BY <1>1, <1>2 DEF SecretsFit, SecretKept
<1>7. SaveIsAlone' /\ SavedSectionKept'
  BY <1>1, <1>2 DEF SaveIsAlone, SavedSectionKept
<1> QED BY <1>4, <1>5, <1>6, <1>7

\* The inductive invariant holds in every state of the configuration.
THEOREM SettingsInvariant == SetSpec => []SetInv
<1> USE SettingsAssumption
<1>1. SetInit => SetInv
  BY SetInvInit
<1>2. SetInv /\ [SetNext]_setVars => SetInv'
  <2> SUFFICES ASSUME SetInv, [SetNext]_setVars PROVE SetInv'
    OBVIOUS
  <2>1. CASE UNCHANGED setVars
    BY <2>1 DEF setVars, SetInv, FilesFit, SecretsFit, SecretKept, SaveIsAlone,
       SavedSectionKept, WorkersConfigured
  <2>2. CASE SetNext
    BY <2>2, ReadForSaveKeepsInv, OpenTemporaryKeepsInv, WriteContentKeepsInv,
       RenameKeepsInv, AbandonedSavesKeepInv DEF SetNext
  <2> QED BY <2>1, <2>2
<1> QED BY <1>1, <1>2, PTL DEF SetSpec

\* The configuration file keeps the secret and the workers of the next start
\* whatever saves overlap; while none do, it is whole and has every section as
\* it was last saved.
THEOREM SavesAlwaysKeepTheRest == SetSpec => []SavesKeepTheRest
<1>1. SetInv => SavesKeepTheRest
  BY DEF SetInv, FilesFit, SecretsFit, SaveIsAlone, SavesKeepTheRest, SetTypeOK,
     ReadableUnlessOverlapping, Settled
<1> QED BY <1>1, SettingsInvariant, PTL

-----------------------------------------------------------------------------
(* The branch graph.                                                       *)

Answers == FileCounts \union (SUBSET Branches) \union {Unknown}

CallRecord == [step : {"todo", "asked", "done", "failed"}, at : Nat, value : Answers]

CacheEntry == [value : Answers, expires : Nat]

GraphStages == {"idle", "branches", "files", "refs", "shown"}

Listed == {"files", "refs", "shown"}

RequestRecord == [stage : GraphStages, tips : [Branches -> Commits] \union {Unknown},
                  listed : [MRs -> Nat] \union {Unknown},
                  calls : [Items -> CallRecord]]

\* Branches and merge requests have their commits and versions, and the clock
\* knows when a branch last contained a commit.
WorldFits ==
  /\ tips \in [Branches -> Commits] /\ minute \in Nat /\ moves \in 0..MaxMoves
  /\ versions \in [MRs -> Seq(FileCounts)]
  /\ \A m \in MRs : Len(versions[m]) \in 1..(moves + 1)
  /\ held \in [Branches -> [Commits -> Int]]
  /\ \A b \in Branches, c \in Commits : 
       held[b][c] <= minute /\ (HasCommit(b, c) => held[b][c] = minute)

\* A number of changed files the merge request has had since version n.
IsCount(m, n, value) == \E k \in n..Len(versions[m]) : value = versions[m][k]

\* What the caches hold was so when it was asked for, or later.
CachesFit ==
  /\ branchDiffCache \in [MRs \X (0..MaxMoves + 1) -> CacheEntry]
  /\ branchRefsCache \in [Commits -> CacheEntry]
  /\ \A m \in MRs, n \in 1..(MaxMoves + 1) :
       branchDiffCache[<<m, n>>].value # Unknown =>
         IsCount(m, n, branchDiffCache[<<m, n>>].value)
  /\ \A c \in Commits : branchRefsCache[c].value # Unknown =>
       /\ branchRefsCache[c].value \in SUBSET Branches
       /\ \A b \in branchRefsCache[c].value :
            held[b][c] >= branchRefsCache[c].expires - Life

\* A request for the graph has listed before it asks, and its answers were so
\* within the life of a cache entry before they were looked up.
RequestFits(v) ==
  LET r == requests[v] IN
  /\ r.stage # "idle" => r.tips \in [Branches -> Commits]
  /\ r.stage \in Listed =>
       /\ r.listed \in [MRs -> Nat]
       /\ \A m \in MRs : r.listed[m] \in 1..Len(versions[m])
  /\ \A i \in Items :
       /\ r.calls[i].at <= minute
       /\ r.calls[i].step # "todo" =>
            r.stage \in IF i \in MRs THEN Listed ELSE {"refs", "shown"}
       /\ r.stage = "shown" => r.calls[i].step \in {"done", "failed"}
       /\ r.stage = "refs" /\ i \in MRs => r.calls[i].step \in {"done", "failed"}
  /\ \A m \in MRs : r.calls[m].step = "done" => IsCount(m, r.listed[m], r.calls[m].value)
  /\ \A b \in Branches : r.calls[b].step = "done" =>
       /\ r.calls[b].value \in SUBSET Branches
       /\ \A t \in r.calls[b].value : held[t][r.tips[b]] > r.calls[b].at - Life

GraphRequestsFit ==
  requests \in [Viewers -> RequestRecord] /\ \A v \in Viewers : RequestFits(v)

GraphInv == WorldFits /\ CachesFit /\ GraphRequestsFit

\* It holds at the start.
LEMMA GraphInvInit == GraphAssumption /\ GraphInit => GraphInv
<1> SUFFICES ASSUME GraphAssumption, GraphInit PROVE GraphInv
  OBVIOUS
<1>1. (CHOOSE n \in FileCounts : TRUE) \in FileCounts
  BY DEF GraphAssumption
<1>2. WorldFits
  <2>1. versions \in [MRs -> Seq(FileCounts)] /\ \A m \in MRs : Len(versions[m]) = 1
    BY <1>1 DEF GraphInit
  <2>2. moves = 0 /\ MaxMoves \in Nat
    BY DEF GraphInit, GraphAssumption
  <2>3. \A m \in MRs : Len(versions[m]) \in 1..(moves + 1)
    BY <2>1, <2>2
  <2> QED BY <2>1, <2>2, <2>3 DEF GraphInit, GraphAssumption, WorldFits, HasCommit
<1>3. Unknown \in Answers
  BY DEF Answers
<1>4. Empty \in CacheEntry /\ Empty.value = Unknown
  BY <1>3 DEF Empty, Entry, CacheEntry
<1>5. CachesFit
  BY <1>4 DEF GraphInit, CachesFit
<1>6. Call \in CallRecord /\ Call.step = "todo" /\ Call.at = 0
  BY <1>3 DEF Call, CallRecord
<1>7. NoRequest \in RequestRecord
  BY <1>6 DEF NoRequest, RequestRecord, GraphStages
<1>8. ASSUME NEW v \in Viewers PROVE RequestFits(v)
  <2>1. requests[v] = NoRequest /\ minute = 0
    BY DEF GraphInit
  <2>2. NoRequest.stage = "idle" /\ \A i \in Items : NoRequest.calls[i] = Call
    BY DEF NoRequest
  <2> QED BY <2>1, <2>2, <1>6 DEF RequestFits, Listed, Items
<1> QED BY <1>2, <1>5, <1>7, <1>8 DEF GraphInit, GraphInv, GraphRequestsFit

\* What the world does: nothing is taken back of the versions of a merge
\* request, the clock goes on, and a branch contains a commit later or not.
WorldGoesOn ==
  /\ WorldFits' /\ minute' >= minute
  /\ \A m \in MRs : /\ Len(versions'[m]) >= Len(versions[m])
                    /\ \A n \in 1..Len(versions[m]) : versions'[m][n] = versions[m][n]
  /\ \A b \in Branches, c \in Commits : held'[b][c] >= held[b][c]

\* A push goes on so.
LEMMA PushGoes ==
  ASSUME GraphAssumption, WorldFits, NEW branch \in Branches, NEW commit \in Commits,
         Push(branch, commit)
  PROVE  WorldGoesOn
<1>1. tips' \in [Branches -> Commits] /\ moves' \in 0..MaxMoves /\ moves' >= moves
  BY DEF Push, WorldFits, GraphAssumption
<1>2. ASSUME NEW b \in Branches, NEW c \in Commits
      PROVE  /\ held'[b][c] \in Int /\ held'[b][c] >= held[b][c] /\ held'[b][c] <= minute
             /\ c \in Ancestors[tips'[b]] => held'[b][c] = minute
  <2>1. /\ held[b][c] \in Int /\ minute \in Int /\ held[b][c] <= minute
        /\ held'[b][c] = IF c \in Ancestors[tips'[b]] THEN minute ELSE held[b][c]
    BY DEF Push, WorldFits
  <2> QED BY <2>1
<1>3. held' \in [Branches -> [Commits -> Int]]
  BY <1>2 DEF Push
<1>4. ASSUME NEW m \in MRs PROVE Len(versions[m]) \in 1..(moves' + 1)
  BY <1>1 DEF Push, WorldFits
<1>5. UNCHANGED <<versions, minute>>
  BY DEF Push
<1>6. WorldFits'
  BY <1>1, <1>2, <1>3, <1>4, <1>5 DEF WorldFits, HasCommit
<1> QED BY SMTT(30), <1>2, <1>5, <1>6 DEF WorldGoesOn, WorldFits

\* So does a push to a merge request's source branch,
LEMMA ReviseGoes ==
  ASSUME GraphAssumption, WorldFits, NEW m \in MRs, Revise(m)
  PROVE  WorldGoesOn
<1>1. PICK n \in FileCounts : versions' = [versions EXCEPT ![m] = Append(@, n)]
  BY DEF Revise
<1>2. ASSUME NEW x \in MRs
      PROVE  /\ versions'[x] \in Seq(FileCounts)
             /\ Len(versions'[x]) \in Len(versions[x])..(Len(versions[x]) + 1)
             /\ \A k \in 1..Len(versions[x]) : versions'[x][k] = versions[x][k]
  <2>1. versions[x] \in Seq(FileCounts)
    BY DEF WorldFits
  <2>2. CASE x = m
    <3>1. versions'[x] = Append(versions[x], n)
      BY <1>1, <2>2 DEF WorldFits
    <3> QED BY <2>1, <3>1
  <2>3. CASE x # m
    <3>1. versions'[x] = versions[x]
      BY <1>1, <2>3 DEF WorldFits
    <3> QED BY <2>1, <3>1
  <2> QED BY <2>2, <2>3
<1>3. moves' = moves + 1 /\ moves' \in 0..MaxMoves
  BY DEF Revise, WorldFits, GraphAssumption
<1>4. ASSUME NEW x \in MRs PROVE Len(versions'[x]) \in 1..(moves' + 1)
  <2>1. Len(versions[x]) \in 1..(moves + 1)
    BY DEF WorldFits
  <2> QED BY <1>2, <1>3, <2>1
<1>5. versions' \in [MRs -> Seq(FileCounts)]
  BY <1>1, <1>2 DEF WorldFits
<1>6. UNCHANGED <<tips, minute, held>>
  BY DEF Revise
<1>7. WorldFits'
  BY <1>3, <1>4, <1>5, <1>6 DEF WorldFits, HasCommit
<1>8. \A b \in Branches, c \in Commits : held'[b][c] >= held[b][c]
  BY <1>6 DEF WorldFits
<1>9. \A x \in MRs : Len(versions'[x]) >= Len(versions[x])
  BY <1>2 DEF WorldFits
<1> QED BY <1>2, <1>6, <1>7, <1>8, <1>9 DEF WorldGoesOn, WorldFits

\* and time that passes.
LEMMA PassGoes ==
  ASSUME GraphAssumption, WorldFits, Pass
  PROVE  WorldGoesOn
<1>1. minute' = minute + 1 /\ minute' \in Nat
  BY DEF Pass, WorldFits
<1>2. ASSUME NEW b \in Branches, NEW c \in Commits
      PROVE  /\ held'[b][c] \in Int /\ held'[b][c] >= held[b][c] /\ held'[b][c] <= minute'
             /\ c \in Ancestors[tips[b]] => held'[b][c] = minute'
  <2>1. /\ held[b][c] \in Int /\ minute \in Int /\ held[b][c] <= minute
        /\ held'[b][c] = IF c \in Ancestors[tips[b]] THEN minute' ELSE held[b][c]
    BY <1>1 DEF Pass, WorldFits, HasCommit
  <2> QED BY <1>1, <2>1
<1>3. held' \in [Branches -> [Commits -> Int]]
  BY <1>2 DEF Pass
<1>4. UNCHANGED <<versions, tips, moves>>
  BY DEF Pass
<1>5. WorldFits'
  BY <1>1, <1>2, <1>3, <1>4 DEF WorldFits, HasCommit
<1> QED BY <1>1, <1>2, <1>4, <1>5 DEF WorldGoesOn, WorldFits

\* A count that a merge request had since a version stays one.
LEMMA CountsStay ==
  ASSUME WorldFits, WorldGoesOn
  PROVE  \A m \in MRs, n \in Nat \ {0} : \A value : IsCount(m, n, value) =>
           \E k \in n..Len(versions'[m]) : value = versions'[m][k]
<1> SUFFICES ASSUME NEW m \in MRs, NEW n \in Nat \ {0}, NEW value, IsCount(m, n, value)
             PROVE  \E k \in n..Len(versions'[m]) : value = versions'[m][k]
  OBVIOUS
<1>1. PICK k \in n..Len(versions[m]) : value = versions[m][k]
  BY DEF IsCount
<1>2. Len(versions[m]) \in Nat /\ Len(versions'[m]) \in Nat
  BY DEF WorldFits, WorldGoesOn
<1>3. k \in 1..Len(versions[m]) /\ k \in n..Len(versions'[m])
  BY <1>1, <1>2 DEF WorldGoesOn
<1> QED BY <1>1, <1>3 DEF WorldGoesOn

\* What the world does leaves the caches and the requests as they should be.
LEMMA WorldKeepsRest ==
  ASSUME GraphAssumption, GraphInv, WorldGoesOn, UNCHANGED <<Caches, requests>>
  PROVE  GraphInv'
<1>1. UNCHANGED <<branchDiffCache, branchRefsCache, requests>>
  BY DEF Caches
<1>2. CachesFit'
  <2>1. ASSUME NEW m \in MRs, NEW n \in 1..(MaxMoves + 1), branchDiffCache[<<m, n>>].value # Unknown
        PROVE  \E k \in n..Len(versions'[m]) :
                 branchDiffCache[<<m, n>>].value = versions'[m][k]
    <3>1. IsCount(m, n, branchDiffCache[<<m, n>>].value) /\ n \in Nat \ {0}
      BY <2>1 DEF GraphInv, CachesFit, GraphAssumption
    <3>2. WorldFits
      BY DEF GraphInv
    <3> DEFINE count == branchDiffCache[<<m, n>>].value
    <3>3. IsCount(m, n, count) /\ n \in Nat \ {0}
      BY <3>1
    <3> HIDE DEF count
    <3>4. \E k \in n..Len(versions'[m]) : count = versions'[m][k]
      BY <3>2, <3>3, CountsStay
    <3> QED BY <3>4 DEF count
  <2>2. ASSUME NEW c \in Commits, branchRefsCache[c].value # Unknown,
               NEW b \in branchRefsCache[c].value
        PROVE  b \in Branches /\ held'[b][c] >= branchRefsCache[c].expires - Life
    <3>1. b \in Branches /\ held[b][c] >= branchRefsCache[c].expires - Life
      BY <2>2 DEF GraphInv, CachesFit
    <3>2. /\ held'[b][c] >= held[b][c] /\ held[b][c] \in Int /\ held'[b][c] \in Int
          /\ branchRefsCache[c].expires \in Int /\ Life \in Int
      BY <3>1 DEF GraphInv, WorldGoesOn, WorldFits, CachesFit, CacheEntry, GraphAssumption
    <3> QED BY <3>1, <3>2
  <2>3. \A c \in Commits : branchRefsCache[c].value # Unknown =>
          branchRefsCache[c].value \in SUBSET Branches
    BY <2>2
  <2> QED BY <1>1, <2>1, <2>2, <2>3 DEF GraphInv, CachesFit, IsCount
<1>3. ASSUME NEW v \in Viewers PROVE RequestFits(v)'
  <2>1. RequestFits(v) /\ requests[v] \in RequestRecord
    BY DEF GraphInv, GraphRequestsFit
  <2>2. ASSUME requests[v].stage \in Listed, NEW m \in MRs
        PROVE  requests[v].listed[m] \in 1..Len(versions'[m])
    BY <2>1, <2>2 DEF RequestFits, WorldGoesOn, WorldFits, GraphInv
  <2>3. ASSUME NEW i \in Items PROVE requests[v].calls[i].at <= minute'
    BY <2>1 DEF RequestFits, WorldGoesOn, WorldFits, GraphInv, RequestRecord, CallRecord
  <2>4. ASSUME NEW m \in MRs, requests[v].calls[m].step = "done"
        PROVE  \E k \in requests[v].listed[m]..Len(versions'[m]) :
                 requests[v].calls[m].value = versions'[m][k]
    <3>1. /\ IsCount(m, requests[v].listed[m], requests[v].calls[m].value)
          /\ requests[v].stage \in Listed /\ requests[v].listed[m] \in Nat \ {0}
      BY <2>1, <2>4 DEF RequestFits, Items
    <3> DEFINE count == requests[v].calls[m].value
               since == requests[v].listed[m]
    <3>2. WorldFits /\ IsCount(m, since, count) /\ since \in Nat \ {0}
      BY <3>1 DEF GraphInv
    <3> HIDE DEF count, since
    <3>3. \E k \in since..Len(versions'[m]) : count = versions'[m][k]
      BY <3>2, CountsStay
    <3> QED BY <3>3 DEF count, since
  <2>5. ASSUME NEW b \in Branches, requests[v].calls[b].step = "done",
               NEW t \in requests[v].calls[b].value
        PROVE  held'[t][requests[v].tips[b]] > requests[v].calls[b].at - Life
    <3>1. /\ t \in Branches /\ held[t][requests[v].tips[b]] > requests[v].calls[b].at - Life
          /\ requests[v].stage # "idle"
      BY <2>1, <2>5 DEF RequestFits, Items, Listed
    <3>2. requests[v].tips[b] \in Commits
      BY <2>1, <3>1 DEF RequestFits
    <3>3. /\ held'[t][requests[v].tips[b]] >= held[t][requests[v].tips[b]]
          /\ held[t][requests[v].tips[b]] \in Int /\ held'[t][requests[v].tips[b]] \in Int
      <4>1. held \in [Branches -> [Commits -> Int]] /\ held' \in [Branches -> [Commits -> Int]]
        BY DEF WorldGoesOn, WorldFits, GraphInv
      <4>2. \A c \in Commits : held'[t][c] >= held[t][c]
        BY <3>1 DEF WorldGoesOn
      <4> QED BY <3>1, <3>2, <4>1, <4>2
    <3>4. requests[v].calls[b].at \in Int /\ Life \in Int
      BY <2>1 DEF RequestRecord, CallRecord, GraphAssumption, Items
    <3> QED BY <3>1, <3>3, <3>4
  <2> QED BY <1>1, <2>1, <2>2, <2>3, <2>4, <2>5 DEF RequestFits, IsCount
<1> QED BY <1>1, <1>2, <1>3 DEF GraphInv, GraphRequestsFit, WorldGoesOn

\* A step of one request that leaves the world alone concerns no other request.
LEMMA OtherRequestsStay ==
  ASSUME GraphInv, UNCHANGED World, NEW v \in Viewers, NEW r \in RequestRecord,
         requests' = [requests EXCEPT ![v] = r], RequestFits(v)', CachesFit'
  PROVE  GraphInv'
<1>1. UNCHANGED <<tips, versions, minute, moves, held>>
  BY DEF World
<1>2. WorldFits'
  BY <1>1 DEF GraphInv, WorldFits, HasCommit
<1>3. requests' \in [Viewers -> RequestRecord]
  BY DEF GraphInv, GraphRequestsFit
<1>4. ASSUME NEW w \in Viewers, w # v PROVE RequestFits(w)'
  <2>1. requests'[w] = requests[w]
    BY <1>4 DEF GraphInv, GraphRequestsFit
  <2> QED BY <1>1, <2>1 DEF RequestFits, IsCount, GraphInv, GraphRequestsFit
<1> QED BY <1>2, <1>3, <1>4 DEF GraphInv, GraphRequestsFit

\* The caches stay as they should while neither they nor the world change.
LEMMA CachesStay ==
  ASSUME CachesFit, UNCHANGED <<World, Caches>>
  PROVE  CachesFit'
BY DEF CachesFit, World, Caches, IsCount

\* A request lists the branches,
LEMMA ListBranchesKeepsInv ==
  ASSUME GraphAssumption, GraphInv, NEW v \in Viewers, ListBranches(v)
  PROVE  GraphInv'
<1> DEFINE r == [NoRequest EXCEPT !.stage = "branches", !.tips = tips]
<1>1. Call \in CallRecord /\ Call.step = "todo" /\ Call.at = 0
  BY DEF Call, CallRecord, Answers
<1>2. /\ NoRequest \in RequestRecord
      /\ \A i \in Items : NoRequest.calls[i] = Call
  BY <1>1 DEF NoRequest, RequestRecord, GraphStages
<1>3. /\ r \in RequestRecord /\ r.stage = "branches" /\ r.tips = tips
      /\ r.calls = NoRequest.calls
  <2>1. tips \in [Branches -> Commits] /\ "branches" \in GraphStages
    BY DEF GraphInv, WorldFits, GraphStages
  <2> QED BY <1>2, <2>1 DEF RequestRecord
<1>4. requests' = [requests EXCEPT ![v] = r] /\ requests'[v] = r
  BY DEF ListBranches, GraphInv, GraphRequestsFit
<1>5. CachesFit'
  BY CachesStay DEF GraphInv, ListBranches
<1>6. tips \in [Branches -> Commits] /\ minute' = minute /\ minute \in Nat
  BY DEF GraphInv, WorldFits, ListBranches, World
<1> HIDE DEF r
<1>7. RequestFits(v)'
  BY <1>1, <1>2, <1>3, <1>4, <1>6 DEF RequestFits, Listed, Items
<1> QED BY <1>3, <1>4, <1>5, <1>7, OtherRequestsStay DEF ListBranches

\* and then the merge requests.
LEMMA ListMergeRequestsKeepsInv ==
  ASSUME GraphAssumption, GraphInv, NEW v \in Viewers, ListMergeRequests(v)
  PROVE  GraphInv'
<1> DEFINE l == [m \in MRs |-> Len(versions[m])]
           r == [requests[v] EXCEPT !.stage = "files", !.listed = l]
<1>1. requests[v] \in RequestRecord /\ RequestFits(v)
  BY DEF GraphInv, GraphRequestsFit
<1>2. l \in [MRs -> Nat] /\ \A m \in MRs : l[m] \in 1..Len(versions[m])
  BY DEF GraphInv, WorldFits
<1>3. requests' = [requests EXCEPT ![v] = r] /\ requests'[v] = r
  BY DEF ListMergeRequests, GraphInv, GraphRequestsFit
<1> HIDE DEF l
<1>4. /\ r \in RequestRecord /\ r.stage = "files" /\ r.listed = l
      /\ r.tips = requests[v].tips /\ r.calls = requests[v].calls
  BY <1>1, <1>2 DEF RequestRecord, GraphStages
<1> HIDE DEF r
<1>5. CachesFit'
  BY CachesStay DEF GraphInv, ListMergeRequests
<1>6. UNCHANGED <<versions, minute, held>> /\ requests[v].stage = "branches"
  BY DEF ListMergeRequests, World
<1>7. \A i \in Items : requests[v].calls[i].step = "todo"
  BY <1>1, <1>6 DEF RequestFits, Listed
<1>8. RequestFits(v)'
  BY <1>1, <1>2, <1>3, <1>4, <1>6, <1>7 DEF RequestFits, Listed, Items
<1> QED BY <1>3, <1>4, <1>5, <1>8, OtherRequestsStay DEF ListMergeRequests

\* It goes on when the calls of a stage are through.
LEMMA NextStageKeepsInv ==
  ASSUME GraphAssumption, GraphInv, NEW v \in Viewers, NextStage(v)
  PROVE  GraphInv'
<1>1. requests[v] \in RequestRecord /\ RequestFits(v)
  BY DEF GraphInv, GraphRequestsFit
<1>2. PICK stage \in {"refs", "shown"} :
        /\ requests' = [requests EXCEPT ![v].stage = stage]
        /\ stage = "refs" => requests[v].stage = "files" /\ Through(v, MRs)
        /\ stage = "shown" => requests[v].stage = "refs" /\ Through(v, Branches)
  BY DEF NextStage
<1> DEFINE r == [stage |-> stage, tips |-> requests[v].tips,
                 listed |-> requests[v].listed, calls |-> requests[v].calls]
<1>3. r \in RequestRecord
  BY <1>1 DEF RequestRecord, GraphStages
<1>4. requests' = [requests EXCEPT ![v] = r] /\ requests'[v] = r
  <2>1. r = [requests[v] EXCEPT !.stage = stage]
    BY <1>1 DEF RequestRecord
  <2> QED BY <1>2, <2>1 DEF GraphInv, GraphRequestsFit
<1>5. CachesFit'
  BY CachesStay DEF GraphInv, NextStage
<1>6. UNCHANGED <<versions, minute, held>> /\ requests[v].stage \in {"files", "refs"}
  BY <1>2 DEF NextStage, World
<1>7. ASSUME NEW i \in Items
      PROVE  /\ requests[v].calls[i].step # "todo" => stage \in IF i \in MRs THEN Listed ELSE {"refs", "shown"}
             /\ stage = "shown" => requests[v].calls[i].step \in {"done", "failed"}
             /\ stage = "refs" /\ i \in MRs => requests[v].calls[i].step \in {"done", "failed"}
  BY <1>1, <1>2 DEF RequestFits, Listed, Items, Through
<1>8. RequestFits(v)'
  BY <1>1, <1>4, <1>6, <1>7 DEF RequestFits, Listed, Items, IsCount
<1> QED BY <1>3, <1>4, <1>5, <1>8, OtherRequestsStay DEF NextStage

\* What becomes of a call: the request, its other calls and the rest stay.
CallBecomes(v, i, to) ==
  /\ to \in [Viewers -> RequestRecord]
  /\ \A w \in Viewers \ {v} : to[w] = requests[w]
  /\ to[v].stage = requests[v].stage /\ to[v].tips = requests[v].tips
  /\ to[v].listed = requests[v].listed
  /\ \A j \in Items \ {i} : to[v].calls[j] = requests[v].calls[j]

\* A call that runs becomes another one; if it is done, its answer is recent.
LEMMA CallStepKeepsInv ==
  ASSUME GraphAssumption, GraphInv, UNCHANGED World, CachesFit',
         NEW v \in Viewers, NEW i \in Items, Runs(v, i), CallBecomes(v, i, requests'),
         requests'[v].calls[i].at <= minute,
         i \in MRs /\ requests'[v].calls[i].step = "done" =>
           IsCount(i, requests[v].listed[i], requests'[v].calls[i].value),
         i \in Branches /\ requests'[v].calls[i].step = "done" =>
           /\ requests'[v].calls[i].value \in SUBSET Branches
           /\ \A t \in requests'[v].calls[i].value :
                held[t][requests[v].tips[i]] > requests'[v].calls[i].at - Life
  PROVE  GraphInv'
<1> DEFINE r == requests'[v]
<1>1. /\ r \in RequestRecord /\ r.stage = requests[v].stage /\ r.tips = requests[v].tips
      /\ r.listed = requests[v].listed
      /\ \A j \in Items \ {i} : r.calls[j] = requests[v].calls[j]
  BY DEF CallBecomes
<1>2. requests' = [requests EXCEPT ![v] = r]
  BY DEF CallBecomes, GraphInv, GraphRequestsFit
<1>3. UNCHANGED <<versions, minute, held>>
  BY DEF World
<1>4. RequestFits(v)
  BY DEF GraphInv, GraphRequestsFit
<1>5. i \in Items /\ r.stage = (IF i \in MRs THEN "files" ELSE "refs")
  BY <1>1 DEF Runs
<1>6. ASSUME NEW j \in Items
      PROVE  /\ r.calls[j].at <= minute
             /\ r.calls[j].step # "todo" =>
                  r.stage \in IF j \in MRs THEN Listed ELSE {"refs", "shown"}
             /\ r.stage = "shown" => r.calls[j].step \in {"done", "failed"}
             /\ r.stage = "refs" /\ j \in MRs => r.calls[j].step \in {"done", "failed"}
  <2>1. CASE j = i
    BY <1>5, <2>1 DEF Listed
  <2>2. CASE j # i
    BY <1>1, <1>4, <2>2 DEF RequestFits
  <2> QED BY <2>1, <2>2
<1>7. ASSUME NEW m \in MRs, r.calls[m].step = "done"
      PROVE  IsCount(m, r.listed[m], r.calls[m].value)
  <2>1. CASE m = i
    BY <1>1, <1>7, <2>1
  <2>2. CASE m # i
    BY <1>1, <1>4, <1>7, <2>2 DEF RequestFits, Items
  <2> QED BY <2>1, <2>2
<1>8. ASSUME NEW b \in Branches, r.calls[b].step = "done"
      PROVE  /\ r.calls[b].value \in SUBSET Branches
             /\ \A t \in r.calls[b].value : held[t][r.tips[b]] > r.calls[b].at - Life
  <2>1. CASE b = i
    BY <1>1, <1>8, <2>1
  <2>2. CASE b # i
    BY <1>1, <1>4, <1>8, <2>2 DEF RequestFits, Items
  <2> QED BY <2>1, <2>2
<1>9. RequestFits(v)'
  BY <1>1, <1>3, <1>4, <1>6, <1>7, <1>8 DEF RequestFits, IsCount
<1> QED BY <1>1, <1>2, <1>9, OtherRequestsStay

\* What a valid cache entry says is recent.
LEMMA CachedIsRecent ==
  ASSUME GraphAssumption, GraphInv, NEW v \in Viewers, NEW i \in Items, Runs(v, i),
         Valid(Cached(v, i))
  PROVE  /\ Cached(v, i).value \in Answers
         /\ i \in MRs => IsCount(i, requests[v].listed[i], Cached(v, i).value)
         /\ i \in Branches =>
              /\ Cached(v, i).value \in SUBSET Branches
              /\ \A t \in Cached(v, i).value : held[t][requests[v].tips[i]] > minute - Life
<1>1. RequestFits(v)
  BY DEF GraphInv, GraphRequestsFit
<1>2. CASE i \in MRs
  <2>1. requests[v].listed[i] \in 1..(MaxMoves + 1) /\ i \notin Branches
    BY <1>1, <1>2 DEF RequestFits, Runs, Listed, GraphInv, WorldFits, GraphAssumption
  <2>2. Cached(v, i) = branchDiffCache[<<i, requests[v].listed[i]>>]
    BY <1>2 DEF Cached, DiffKey
  <2>3. IsCount(i, requests[v].listed[i], Cached(v, i).value)
    BY <1>2, <2>1, <2>2 DEF GraphInv, CachesFit, Valid
  <2>4. <<i, requests[v].listed[i]>> \in MRs \X (0..MaxMoves + 1)
    BY <1>2, <2>1 DEF GraphAssumption
  <2>5. Cached(v, i) \in CacheEntry
    BY <2>2, <2>4 DEF GraphInv, CachesFit
  <2> QED BY <2>1, <2>3, <2>5 DEF CacheEntry
<1>3. CASE i \notin MRs
  <2>1. i \in Branches /\ requests[v].tips[i] \in Commits
    BY <1>1, <1>3 DEF RequestFits, Runs, Items
  <2> DEFINE c == requests[v].tips[i]
  <2>2. Cached(v, i) = branchRefsCache[c]
    BY <1>3 DEF Cached
  <2>3. branchRefsCache[c] \in CacheEntry /\ branchRefsCache[c].value # Unknown
    BY <2>1, <2>2 DEF GraphInv, CachesFit, Valid
  <2>4. /\ branchRefsCache[c].value \in SUBSET Branches
        /\ \A b \in branchRefsCache[c].value : held[b][c] >= branchRefsCache[c].expires - Life
    BY <2>1, <2>3 DEF GraphInv, CachesFit
  <2>5. /\ branchRefsCache[c].expires > minute /\ branchRefsCache[c].expires \in Int
        /\ minute \in Int /\ Life \in Int
    BY <2>2, <2>3 DEF Valid, CacheEntry, GraphInv, WorldFits, GraphAssumption
  <2>6. ASSUME NEW b \in branchRefsCache[c].value PROVE held[b][c] > minute - Life
    <3>1. b \in Branches
      BY <2>4
    <3>2. held[b][c] \in Int /\ held[b][c] >= branchRefsCache[c].expires - Life
      <4>1. held \in [Branches -> [Commits -> Int]]
        BY DEF GraphInv, WorldFits
      <4> QED BY <2>1, <2>4, <3>1, <4>1
    <3> QED BY <2>5, <3>2
  <2> QED BY <1>3, <2>2, <2>3, <2>4, <2>6 DEF CacheEntry
<1> QED BY <1>2, <1>3

\* A call is looked up in the cache, and asked for if it is not there.
LEMMA LookUpKeepsInv ==
  ASSUME GraphAssumption, GraphInv, NEW v \in Viewers, NEW i \in Items, LookUp(v, i)
  PROVE  GraphInv'
<1> DEFINE call == IF Valid(Cached(v, i))
                   THEN [step |-> "done", at |-> minute, value |-> Cached(v, i).value]
                   ELSE [step |-> "asked", at |-> minute, value |-> Unknown]
<1>1. Runs(v, i) /\ UNCHANGED World
  BY DEF LookUp
<1>2. /\ call \in CallRecord /\ call.at = minute
      /\ call.step = "done" => Valid(Cached(v, i)) /\ call.value = Cached(v, i).value
  <2>1. Unknown \in Answers /\ minute \in Nat
    BY DEF Answers, GraphInv, WorldFits
  <2>2. CASE Valid(Cached(v, i))
    BY <1>1, <2>1, <2>2, CachedIsRecent DEF CallRecord
  <2>3. CASE ~Valid(Cached(v, i))
    BY <2>1, <2>3 DEF CallRecord
  <2> QED BY <2>2, <2>3
<1>3. requests' = [requests EXCEPT ![v].calls[i] = call]
  BY DEF LookUp
<1> HIDE DEF call
<1>4. CallBecomes(v, i, requests') /\ requests'[v].calls[i] = call
  BY <1>2, <1>3 DEF CallBecomes, GraphInv, GraphRequestsFit, RequestRecord
<1>5. CachesFit'
  BY CachesStay DEF GraphInv, LookUp
<1>6. minute <= minute
  BY DEF GraphInv, WorldFits
<1> QED BY <1>1, <1>2, <1>4, <1>5, <1>6, CachedIsRecent, CallStepKeepsInv

\* A call that was asked fails, or comes back with an answer for the cache.
LEMMA FetchKeepsInv ==
  ASSUME GraphAssumption, GraphInv, NEW v \in Viewers, NEW i \in Items, Fetch(v, i)
  PROVE  GraphInv'
<1> DEFINE call == requests[v].calls[i]
           answer == IF i \in MRs THEN versions[i][Len(versions[i])]
                     ELSE {b \in Branches : HasCommit(b, requests[v].tips[i])}
           entry == Entry(answer, call.at + Life)
<1>1. UNCHANGED World /\ call.step = "asked"
  BY DEF Fetch
<1>2. UNCHANGED <<tips, versions, minute, moves, held>>
  BY <1>1 DEF World
<1>3. RequestFits(v) /\ requests[v] \in RequestRecord /\ call \in CallRecord
  BY DEF GraphInv, GraphRequestsFit, RequestRecord
<1>4. Runs(v, i)
  BY <1>1, <1>3 DEF RequestFits, Runs, Listed
<1>5. call.at \in Nat /\ call.at <= minute /\ minute \in Nat
  BY <1>3 DEF RequestFits, CallRecord, GraphInv, WorldFits
<1>6. CASE /\ requests' = [requests EXCEPT ![v].calls[i].step = "failed"]
           /\ UNCHANGED Caches
  <2>1. CallBecomes(v, i, requests') /\ requests'[v].calls[i] = [call EXCEPT !.step = "failed"]
    BY <1>3, <1>6 DEF CallBecomes, GraphInv, GraphRequestsFit, RequestRecord, CallRecord
  <2>2. requests'[v].calls[i].step = "failed" /\ requests'[v].calls[i].at = call.at
    BY <1>3, <2>1 DEF CallRecord
  <2>3. CachesFit'
    BY <1>1, <1>6, CachesStay DEF GraphInv
  <2> QED BY <1>1, <1>4, <1>5, <2>1, <2>2, <2>3, CallStepKeepsInv
<1>7. CASE /\ requests' = [requests EXCEPT ![v].calls[i].step = "done",
                                           ![v].calls[i].value = answer]
           /\ IF i \in MRs
              THEN /\ branchDiffCache' =
                        [branchDiffCache EXCEPT ![DiffKey(i, requests[v].listed[i])] = entry]
                   /\ UNCHANGED branchRefsCache
              ELSE /\ branchRefsCache' = [branchRefsCache EXCEPT ![requests[v].tips[i]] = entry]
                   /\ UNCHANGED branchDiffCache
  <2>1. /\ answer \in Answers
        /\ i \in MRs => IsCount(i, requests[v].listed[i], answer)
        /\ i \in Branches => /\ answer \in SUBSET Branches
                             /\ requests[v].tips[i] \in Commits
                             /\ \A t \in answer : held[t][requests[v].tips[i]] = minute
    <3>1. CASE i \in MRs
      <4>1. /\ versions[i] \in Seq(FileCounts) /\ Len(versions[i]) \in Nat
            /\ requests[v].listed[i] \in 1..Len(versions[i]) /\ i \notin Branches
        BY <1>3, <1>4, <3>1 DEF RequestFits, Runs, Listed, GraphInv, WorldFits, GraphAssumption
      <4>2. /\ Len(versions[i]) \in requests[v].listed[i]..Len(versions[i])
            /\ versions[i][Len(versions[i])] \in FileCounts
        BY <4>1
      <4> QED BY <3>1, <4>1, <4>2 DEF IsCount, Answers
    <3>2. CASE i \notin MRs
      <4>1. i \in Branches /\ requests[v].tips[i] \in Commits
        BY <1>3, <1>4, <3>2 DEF RequestFits, Runs, Items
      <4>2. \A t \in answer : held[t][requests[v].tips[i]] = minute
        BY <3>2, <4>1 DEF GraphInv, WorldFits
      <4> QED BY <3>2, <4>1, <4>2 DEF Answers
    <3> QED BY <3>1, <3>2
  <2> HIDE DEF answer
  <2>2. entry.value = answer /\ entry.expires = call.at + Life /\ entry \in CacheEntry
    <3>1. call.at + Life \in Nat /\ answer \in Answers
      BY <1>5, <2>1 DEF GraphAssumption
    <3> QED BY ONLY <3>1 DEF Entry, CacheEntry
  <2> HIDE DEF entry
  <2>3. /\ CallBecomes(v, i, requests') /\ requests'[v].calls[i].step = "done"
        /\ requests'[v].calls[i].at = call.at /\ requests'[v].calls[i].value = answer
    <3> DEFINE first == [requests EXCEPT ![v].calls[i].step = "done"]
    <3>1. requests' = [first EXCEPT ![v].calls[i].value = answer]
      BY <1>7
    <3>2. /\ CallBecomes(v, i, first) /\ first[v].calls[i].step = "done"
          /\ first[v].calls[i].at = call.at
      BY <1>3 DEF CallBecomes, GraphInv, GraphRequestsFit, RequestRecord, CallRecord
    <3> HIDE DEF first
    <3>3. first[v] \in RequestRecord /\ first[v].calls[i] \in CallRecord
      BY <3>2 DEF CallBecomes, RequestRecord
    <3> DEFINE c == [first[v].calls[i] EXCEPT !.value = answer]
    <3>4. c \in CallRecord /\ c.step = "done" /\ c.at = call.at /\ c.value = answer
      BY <2>1, <3>2, <3>3 DEF CallRecord
    <3>5. requests' = [first EXCEPT ![v].calls[i] = c]
      BY <3>1
    <3> HIDE DEF c, call
    <3>6. CallBecomes(v, i, requests') /\ requests'[v].calls[i] = c
      BY <3>2, <3>3, <3>4, <3>5 DEF CallBecomes, RequestRecord
    <3> QED BY <3>4, <3>6
  <2>4. CachesFit'
    <3>1. CASE i \in MRs
      <4> DEFINE l == requests[v].listed[i]
      <4>1. l \in 1..(MaxMoves + 1) /\ <<i, l>> \in MRs \X (0..MaxMoves + 1)
        BY <1>3, <1>4, <3>1
        DEF RequestFits, Runs, Listed, GraphInv, WorldFits, GraphAssumption
      <4>2. branchDiffCache' = [branchDiffCache EXCEPT ![<<i, l>>] = entry]
        BY <1>7, <3>1 DEF DiffKey
      <4>3. branchDiffCache' \in [MRs \X (0..MaxMoves + 1) -> CacheEntry]
        BY <2>2, <4>2 DEF GraphInv, CachesFit
      <4>4. ASSUME NEW m \in MRs, NEW n \in 1..(MaxMoves + 1),
                   branchDiffCache'[<<m, n>>].value # Unknown
            PROVE  IsCount(m, n, branchDiffCache'[<<m, n>>].value)
        <5>1. <<m, n>> \in MRs \X (0..MaxMoves + 1)
          BY DEF GraphAssumption
        <5>2. CASE m = i /\ n = l
          BY <2>1, <2>2, <3>1, <4>1, <4>2, <5>2 DEF GraphInv, CachesFit
        <5>3. CASE ~(m = i /\ n = l)
          <6>1. branchDiffCache'[<<m, n>>] = branchDiffCache[<<m, n>>]
            BY <4>2, <5>1, <5>3 DEF GraphInv, CachesFit
          <6> QED BY <4>4, <6>1 DEF GraphInv, CachesFit
        <5> QED BY <5>2, <5>3
      <4> QED BY <1>2, <1>7, <3>1, <4>3, <4>4 DEF GraphInv, CachesFit, IsCount
    <3>2. CASE i \notin MRs
      <4> DEFINE c == requests[v].tips[i]
      <4>1. i \in Branches /\ c \in Commits
        BY <2>1, <3>2 DEF Items
      <4>2. branchRefsCache' = [branchRefsCache EXCEPT ![c] = entry] /\ UNCHANGED branchDiffCache
        BY <1>7, <3>2
      <4>3. branchRefsCache' \in [Commits -> CacheEntry]
        BY <2>2, <4>2 DEF GraphInv, CachesFit
      <4>4. ASSUME NEW d \in Commits, branchRefsCache'[d].value # Unknown
            PROVE  /\ branchRefsCache'[d].value \in SUBSET Branches
                   /\ \A b \in branchRefsCache'[d].value :
                        held[b][d] >= branchRefsCache'[d].expires - Life
        <5>1. CASE d = c
          <6>1. branchRefsCache'[d] = entry
            BY <4>1, <4>2, <5>1 DEF GraphInv, CachesFit
          <6>2. minute >= call.at + Life - Life
            BY <1>5 DEF GraphAssumption
          <6>3. answer \in SUBSET Branches /\ \A b \in answer : held[b][d] = minute
            BY <2>1, <4>1, <5>1
          <6> HIDE DEF call
          <6>4. branchRefsCache'[d].expires - Life <= minute
            <7>1. branchRefsCache'[d].expires = call.at + Life
              BY <2>2, <6>1
            <7>2. call.at \in Int /\ Life \in Int /\ minute \in Int
              BY <1>5 DEF GraphAssumption
            <7> QED BY <6>2, <7>1, <7>2
          <6> QED BY <1>5, <2>2, <6>1, <6>3, <6>4
        <5>2. CASE d # c
          <6>1. branchRefsCache'[d] = branchRefsCache[d]
            BY <4>2, <5>2 DEF GraphInv, CachesFit
          <6> QED BY <4>4, <6>1 DEF GraphInv, CachesFit
        <5> QED BY <5>1, <5>2
      <4> QED BY <1>2, <4>2, <4>3, <4>4 DEF GraphInv, CachesFit, IsCount
    <3> QED BY <3>1, <3>2
  <2>5. minute > call.at - Life
    BY <1>5 DEF GraphAssumption
  <2> QED BY <1>1, <1>4, <1>5, <2>1, <2>3, <2>4, <2>5, CallStepKeepsInv
<1> QED BY <1>6, <1>7 DEF Fetch

\* The inductive invariant holds in every state of the branch graph.
THEOREM GraphInvariant == GraphSpec => []GraphInv
<1> USE GraphAssumption
<1>1. GraphInit => GraphInv
  BY GraphInvInit
<1>2. GraphInv /\ [GraphNext]_graphVars => GraphInv'
  <2> SUFFICES ASSUME GraphInv, [GraphNext]_graphVars PROVE GraphInv'
    OBVIOUS
  <2>1. CASE UNCHANGED graphVars
    BY <2>1 DEF graphVars, GraphInv, WorldFits, HasCommit, CachesFit, IsCount,
       GraphRequestsFit, RequestFits
  <2>2. CASE Pass
    BY <2>2, PassGoes, WorldKeepsRest DEF Pass, Caches, GraphInv
  <2>3. CASE \E b \in Branches, c \in Commits : Push(b, c)
    BY <2>3, PushGoes, WorldKeepsRest DEF Push, Caches, GraphInv
  <2>4. CASE \E m \in MRs : Revise(m)
    BY <2>4, ReviseGoes, WorldKeepsRest DEF Revise, Caches, GraphInv
  <2>5. CASE \E v \in Viewers : ListBranches(v) \/ ListMergeRequests(v) \/ NextStage(v)
    BY <2>5, ListBranchesKeepsInv, ListMergeRequestsKeepsInv, NextStageKeepsInv
  <2>6. CASE \E v \in Viewers, i \in Items : LookUp(v, i) \/ Fetch(v, i)
    BY <2>6, LookUpKeepsInv, FetchKeepsInv
  <2> QED BY <2>1, <2>2, <2>3, <2>4, <2>5, <2>6 DEF GraphNext
<1> QED BY <1>1, <1>2, PTL DEF GraphSpec

\* Of branches that are ahead, one is the nearest.
LEMMA NearestIsAhead ==
  ASSUME GraphAssumption, NEW v \in Viewers, NEW source \in Branches,
         Ahead(v, source) \in SUBSET Branches, Ahead(v, source) # {},
         requests[v].tips \in [Branches -> Commits]
  PROVE  Nearest(v, source) \in Ahead(v, source)
<1> DEFINE Number(b) == Sequence[requests[v].tips[b]]
           Numbers == {Number(b) : b \in Ahead(v, source)}
           R == {pair \in Nat \X Nat : pair[1] < pair[2]}
<1>1. \A b \in Branches : Number(b) \in Nat
  BY DEF GraphAssumption
<1>2. IsWellFoundedOn(R, Nat)
  BY NatLessThanWellFounded DEF OpToRel
<1>3. Numbers \in SUBSET Nat /\ Numbers # {}
  BY <1>1
<1> HIDE DEF R
<1>4. PICK x \in Numbers : \A y \in Numbers : ~(<<y, x>> \in R)
  <2> HIDE DEF Numbers
  <2> QED BY <1>2, <1>3, WFMin
<1>5. PICK t \in Ahead(v, source) : x = Number(t)
  BY <1>4
<1>6. ASSUME NEW u \in Ahead(v, source) PROVE Number(t) <= Number(u)
  <2>1. Number(u) \in Numbers /\ Number(u) \in Nat /\ Number(t) \in Nat
    BY <1>1
  <2>2. ~(<<Number(u), Number(t)>> \in R)
    BY <1>4, <1>5, <2>1
  <2> DEFINE y == Number(u)
             z == Number(t)
  <2> HIDE DEF y, z
  <2>3. y \in Nat /\ z \in Nat /\ ~(<<y, z>> \in R)
    BY <2>1, <2>2 DEF y, z
  <2>4. <<y, z>> \in Nat \X Nat /\ <<y, z>>[1] = y /\ <<y, z>>[2] = z
    BY <2>3
  <2>5. y >= z
    BY <2>3, <2>4 DEF R
  <2> QED BY <2>5 DEF y, z
<1> QED BY <1>6 DEF Nearest

\* A graph that is shown has counts that its merge requests have had since they
\* were listed, and inferred relations that held within the last ten minutes.
THEOREM GraphStaysRecent == GraphSpec => []GraphIsRecent
<1> USE GraphAssumption
<1>1. GraphInv => GraphIsRecent
  <2> SUFFICES ASSUME GraphInv, NEW v \in Viewers, requests[v].stage = "shown"
               PROVE  /\ \A m \in MRs : requests[v].calls[m].step = "done" =>
                           \E n \in requests[v].listed[m]..Len(versions[m]) :
                             requests[v].calls[m].value = versions[m][n]
                      /\ \A r \in GitRelations(v) :
                           held[r[2]][requests[v].tips[r[1]]] > requests[v].calls[r[1]].at - Life
    BY DEF GraphIsRecent
  <2>1. RequestFits(v) /\ requests[v].tips \in [Branches -> Commits]
    BY DEF GraphInv, GraphRequestsFit, RequestFits
  <2>2. \A m \in MRs : requests[v].calls[m].step = "done" =>
          \E n \in requests[v].listed[m]..Len(versions[m]) :
            requests[v].calls[m].value = versions[m][n]
    BY <2>1 DEF RequestFits, IsCount
  <2>3. ASSUME NEW r \in GitRelations(v)
        PROVE  held[r[2]][requests[v].tips[r[1]]] > requests[v].calls[r[1]].at - Life
    <3>1. /\ \A b \in Branches : requests[v].calls[b].step # "failed"
          /\ r \in InferGitBranchRelations(v)
      BY DEF GitRelations, InferGitBranchRelations
    <3>2. PICK s \in Branches : Ahead(v, s) # {} /\ r = <<s, Nearest(v, s)>>
      BY <3>1 DEF InferGitBranchRelations
    <3>3. requests[v].calls[s].step = "done"
      BY <2>1, <3>1 DEF RequestFits, Items
    <3>4. Ahead(v, s) \in SUBSET Branches /\ Ahead(v, s) \subseteq requests[v].calls[s].value
      BY <2>1, <3>3 DEF RequestFits, Ahead
    <3>5. Nearest(v, s) \in requests[v].calls[s].value
      BY <2>1, <3>2, <3>4, NearestIsAhead
    <3> QED BY <2>1, <3>2, <3>3, <3>5 DEF RequestFits
  <2> QED BY <2>2, <2>3
<1> QED BY <1>1, GraphInvariant, PTL

-----------------------------------------------------------------------------
(* The quality pages.                                                      *)

\* A set of numbers has a least one.
LEMMA LeastNumber ==
  ASSUME NEW S \in SUBSET Nat, S # {}
  PROVE  \E n \in S : \A m \in S : n <= m
<1> DEFINE Less == {ij \in Nat \X Nat : ij[1] < ij[2]}
<1>1. IsWellFoundedOn(Less, Nat)
  BY NatLessThanWellFounded DEF OpToRel
<1>2. PICK n \in S : \A m \in S : ~(<<m, n>> \in Less)
  <2> HIDE DEF Less
  <2> QED BY <1>1, WFMin
<1>3. \A m \in S : ~(m < n) /\ m \in Nat /\ n \in Nat
  BY <1>2
<1> QED BY <1>3

ReviewRow ==
  [over : BOOLEAN, filed : BOOLEAN, artifact : Seq(Comments) \union {NoResult},
   rows : {S \in SUBSET Comments : IsFiniteSet(S)}]

PagesTyped == reviews \in Seq(ReviewRow)

\* The list of a finite set has as many elements.
LEMMA ListedAll ==
  ASSUME NEW S, IsFiniteSet(S)
  PROVE  Len(SetToSeq(S)) = Cardinality(S)
<1> DEFINE n == Cardinality(S)
<1>1. n \in Nat
  BY FS_CardinalityType
<1>2. \E f \in [1..n -> S] : IsInjective(f)
  <2>1. PICK f : f \in Bijection(1..n, S)
    BY FS_CardinalityType DEF ExistsBijection
  <2> HIDE DEF n
  <2> QED BY <2>1 DEF Bijection, Injection, IsInjective
<1>3. SetToSeq(S) \in [1..n -> S]
  BY <1>2 DEF SetToSeq
<1> HIDE DEF n
<1>4. Len(SetToSeq(S)) = n
  BY <1>1, <1>3
<1> QED BY <1>4 DEF n

\* The findings of a result, numbered by key, are as many as the result has.
LEMMA NumberedAll ==
  ASSUME NEW s \in Seq(Comments)
  PROVE  IsFiniteSet(Numbered(s)) /\ Cardinality(Numbered(s)) = Len(s)
<1> DEFINE At(n, key) == {i \in 1..n : KeyOf[s[i]] = key}
           C(n, key) == Cardinality(At(n, key))
           First(n) == {p \in Keys \X Nat : 1 <= p[2] /\ p[2] <= C(n, p[1])}
           Good(n) == IsFiniteSet(First(n)) /\ Cardinality(First(n)) = n
           Bad == {n \in 0..Len(s) : ~Good(n)}
<1>1. Len(s) \in Nat /\ DOMAIN s = 1..Len(s) /\ \A i \in 1..Len(s) : KeyOf[s[i]] \in Keys
  BY DEF Keys
<1>2. \A n \in Nat : \A key :
        /\ IsFiniteSet(At(n, key)) /\ C(n, key) \in Nat /\ C(n, key) <= n
        /\ C(0, key) = 0
  <2> TAKE n \in Nat
  <2> TAKE key
  <2>1. \A k \in Nat : IsFiniteSet(1..k) /\ Cardinality(1..k) = k
    BY FS_Interval
  <2>2. At(n, key) \in SUBSET (1..n)
    OBVIOUS
  <2>3. At(0, key) = {}
    OBVIOUS
  <2> HIDE DEF At
  <2>4. IsFiniteSet(At(n, key)) /\ Cardinality(At(n, key)) <= n
    BY <2>1, <2>2, FS_Subset
  <2> QED BY <2>3, <2>4, FS_EmptySet, FS_CardinalityType
<1>3. ASSUME NEW n \in 1..Len(s), NEW key
      PROVE  C(n, key) = IF KeyOf[s[n]] = key THEN C(n - 1, key) + 1 ELSE C(n - 1, key)
  <2>1. At(n, key) = IF KeyOf[s[n]] = key THEN At(n - 1, key) \union {n} ELSE At(n - 1, key)
    BY <1>1
  <2>2. n \notin At(n - 1, key) /\ n - 1 \in Nat
    BY <1>1
  <2> HIDE DEF At
  <2>3. IsFiniteSet(At(n - 1, key))
    BY <1>2, <2>2
  <2> QED BY <2>1, <2>2, <2>3, FS_AddElement
<1> HIDE DEF C
<1>4. Good(0)
  <2>1. \A key : C(0, key) = 0
    BY <1>2
  <2>2. \A p \in Keys \X Nat : ~(1 <= p[2] /\ p[2] <= 0)
    OBVIOUS
  <2>3. First(0) = {}
    BY <2>1, <2>2
  <2> QED BY <2>3, FS_EmptySet
<1>5. ASSUME NEW n \in 1..Len(s), Good(n - 1) PROVE Good(n)
  <2> DEFINE new == <<KeyOf[s[n]], C(n, KeyOf[s[n]])>>
  <2>1. n - 1 \in Nat /\ n \in Nat /\ KeyOf[s[n]] \in Keys
    BY <1>1
  <2>2. new \notin First(n - 1)
    <3>1. C(n, KeyOf[s[n]]) = C(n - 1, KeyOf[s[n]]) + 1
      BY <1>3
    <3>2. C(n - 1, KeyOf[s[n]]) \in Nat
      BY <1>2, <2>1
    <3> QED BY <3>1, <3>2
  <2>3. First(n) = First(n - 1) \union {new}
    <3>1. ASSUME NEW p \in Keys \X Nat
          PROVE  p \in First(n) <=> p \in First(n - 1) \/ p = new
      <4>1. C(n - 1, p[1]) \in Nat /\ C(n, p[1]) \in Nat /\ p[2] \in Nat
            /\ p = <<p[1], p[2]>>
        <5>1. C(n - 1, p[1]) \in Nat /\ C(n, p[1]) \in Nat
          BY <1>2, <2>1
        <5>2. p[2] \in Nat /\ p = <<p[1], p[2]>>
          OBVIOUS
        <5> QED BY <5>1, <5>2
      <4>2. CASE p[1] = KeyOf[s[n]]
        <5>1. C(n, p[1]) = C(n - 1, p[1]) + 1
          BY <1>3, <4>2
        <5>2. p = new <=> p[2] = C(n, p[1])
          BY <4>1, <4>2
        <5> HIDE DEF new
        <5> QED BY <4>1, <5>1, <5>2
      <4>3. CASE p[1] # KeyOf[s[n]]
        <5>1. C(n, p[1]) = C(n - 1, p[1])
          BY <1>3, <4>3
        <5>2. p # new
          BY <4>3
        <5> QED BY <5>1, <5>2
      <4> QED BY <4>2, <4>3
    <3>2. new \in Keys \X Nat
      BY <1>2, <2>1
    <3> HIDE DEF new
    <3>3. First(n) \subseteq Keys \X Nat /\ First(n - 1) \subseteq Keys \X Nat
      OBVIOUS
    <3> HIDE DEF First
    <3> QED BY <3>1, <3>2, <3>3
  <2> HIDE DEF new, First
  <2> QED BY <1>5, <2>1, <2>2, <2>3, FS_AddElement
<1>6. Bad = {}
  <2> SUFFICES ASSUME Bad # {} PROVE FALSE
    OBVIOUS
  <2>1. Bad \in SUBSET Nat
    BY <1>1
  <2> HIDE DEF Good
  <2>2. PICK n \in Bad : \A m \in Bad : n <= m
    <3> HIDE DEF Bad
    <3> QED BY <2>1, LeastNumber
  <2>3. n \in 1..Len(s) /\ ~Good(n)
    BY <1>1, <1>4, <2>2
  <2>4. Good(n - 1)
    BY <1>1, <2>2, <2>3
  <2> QED BY <1>5, <2>3, <2>4
<1>7. Good(Len(s))
  <2> HIDE DEF Good
  <2> QED BY <1>1, <1>6
<1>8. Numbered(s) = First(Len(s))
  <2>1. \A key : Count(s, key) = C(Len(s), key)
    BY <1>1 DEF Count, C
  <2>2. \A key : C(Len(s), key) \in Nat /\ C(Len(s), key) <= Len(s)
    BY <1>1, <1>2
  <2>3. Numbered(s) = {p \in Keys \X (1..Len(s)) : p[2] <= C(Len(s), p[1])}
    BY <2>1 DEF Numbered
  <2>4. \A p \in Keys \X Nat : p[2] \in Nat
    OBVIOUS
  <2> QED BY <1>1, <2>2, <2>3, <2>4
<1> QED BY <1>7, <1>8

\* Two bags differ by as much as they have together.
LEMMA BothWays ==
  ASSUME NEW A, NEW B, IsFiniteSet(A), IsFiniteSet(B)
  PROVE  /\ IsFiniteSet(A \ B) /\ IsFiniteSet(B \ A)
         /\ Cardinality(A) + Cardinality(B \ A) = Cardinality(B) + Cardinality(A \ B)
<1> DEFINE a == Cardinality(A)
           b == Cardinality(B)
           c == Cardinality(A \cap B)
           d == Cardinality(A \ B)
           e == Cardinality(B \ A)
<1>1. IsFiniteSet(A \ B) /\ d = a - c
  BY FS_Difference
<1>2. IsFiniteSet(B \ A) /\ e = b - c
  <2>1. IsFiniteSet(B \ A) /\ Cardinality(B \ A) = Cardinality(B) - Cardinality(B \cap A)
    BY FS_Difference
  <2>2. A \cap B = B \cap A
    OBVIOUS
  <2> QED BY <2>1, <2>2
<1>3. a \in Nat /\ b \in Nat /\ c \in Nat
  <2>1. IsFiniteSet(A \cap B)
    BY FS_Subset
  <2> QED BY <2>1, FS_CardinalityType
<1> HIDE DEF a, b, c, d, e
<1>4. a + e = b + d
  BY <1>1, <1>2, <1>3
<1> QED BY <1>1, <1>2, <1>4 DEF a, b, d, e

\* The findings of X as those of review j.
Of(j, X) == {j} \X X

\* What one review adds to the pairs of the reviews before it.
LEMMA OneMore ==
  ASSUME NEW j, NEW S, NEW X, IsFiniteSet(S), IsFiniteSet(X),
         S \cap Of(j, X) = {}
  PROVE  /\ IsFiniteSet(S \union Of(j, X))
         /\ Cardinality(S \union Of(j, X)) = Cardinality(S) + Cardinality(X)
<1>1. IsFiniteSet({j}) /\ Cardinality({j}) = 1
  BY FS_Singleton
<1>2. IsFiniteSet({j} \X X) /\ Cardinality({j} \X X) = 1 * Cardinality(X)
  BY <1>1, FS_Product
<1>4. Cardinality(S) \in Nat /\ Cardinality(X) \in Nat
  BY FS_CardinalityType
<1> DEFINE Y == Of(j, X)
<1> HIDE DEF Y
<1>5. IsFiniteSet(Y) /\ Cardinality(Y) = Cardinality(X)
  BY <1>2, <1>4 DEF Y, Of
<1>6. IsFiniteSet(S \union Y)
      /\ Cardinality(S \union Y) = Cardinality(S) + Cardinality(Y) - Cardinality(S \cap Y)
  BY <1>5, FS_Union
<1>7. Cardinality(S \cap Y) = 0
  BY FS_EmptySet DEF Y
<1> QED BY <1>4, <1>5, <1>6, <1>7 DEF Y

\* The point before j, and the reviews up to j.
LEMMA PointBefore ==
  ASSUME PagesTyped, NEW j \in Points
  PROVE  \/ {i \in Points : i < j} = {} /\ UpTo(j) = {j} /\ Previous(j) = <<>>
         \/ \E p \in Points : /\ p < j /\ UpTo(j) = UpTo(p) \union {j}
                              /\ Previous(j) = reviews[p].artifact
<1> DEFINE before == {i \in Points : i < j}
<1>1. Points \in SUBSET Nat /\ IsFiniteSet(Points)
  <2>1. Points \in SUBSET (1..Len(reviews)) /\ Len(reviews) \in Nat
    BY DEF Points, PagesTyped
  <2>2. \A k \in Nat : IsFiniteSet(1..k) /\ 1..k \in SUBSET Nat
    BY FS_Interval
  <2> HIDE DEF before
  <2>3. IsFiniteSet(Points)
    BY <2>1, <2>2, FS_Subset
  <2> QED BY <2>1, <2>2, <2>3
<1>0. \A i \in Points : i \in Nat
  BY <1>1
<1>2. UpTo(j) = before \union {j}
  BY <1>0 DEF UpTo
<1>3. CASE before = {}
  BY <1>2, <1>3 DEF Previous
<1>4. CASE before # {}
  <2> DEFINE above == {m \in Nat : \A i \in before : i <= m}
  <2>1. j \in above
    BY <1>0
  <2>2. PICK m \in above : \A k \in above : m <= k
    <3>1. above \in SUBSET Nat /\ above # {}
      BY <2>1
    <3> HIDE DEF above
    <3> QED BY <3>1, LeastNumber
  <2>3. m \in before
    <3> SUFFICES ASSUME m \notin before PROVE FALSE
      OBVIOUS
    <3>1. \A i \in before : i < m
      BY <1>0, <2>2
    <3>2. PICK i \in before : i < m
      BY <1>4, <3>1
    <3>3. i \in Nat /\ m \in Nat
      BY <1>0, <2>2
    <3>4. m - 1 \in Nat /\ ~(m <= m - 1)
      BY <3>2, <3>3
    <3>5. \A k \in before : k <= m - 1
      BY <1>0, <3>1, <3>3
    <3> QED BY <2>2, <3>4, <3>5
  <2>4. m \in Points /\ m < j /\ m \in Nat /\ \A i \in before : i <= m
    BY <2>2, <2>3
  <2>5. Max(before) = m
    <3>1. \A i \in before : i \in Nat
      BY <1>0
    <3> HIDE DEF before, above
    <3>2. \A i \in before : (\A k \in before : k <= i) => i = m
      BY <2>3, <2>4, <3>1
    <3>3. \A k \in before : m >= k
      BY <2>4, <3>1
    <3>4. \A i \in before : (\A k \in before : i >= k) => i = m
      BY <2>3, <2>4, <3>1
    <3> QED BY <2>3, <3>3, <3>4 DEF Max
  <2>6. before = UpTo(m)
    <3>1. \A i \in Points : i < j <=> i <= m
      BY <1>0, <2>4
    <3> HIDE DEF above
    <3> QED BY <3>1 DEF UpTo
  <2> QED BY <1>2, <1>4, <2>4, <2>5, <2>6 DEF Previous
<1> QED BY <1>3, <1>4

\* What was fixed up to j.
Fixed(j) == UNION {{i} \X FixedSince(Previous(i), reviews[i].artifact) : i \in UpTo(j)}

\* The trend keeps account of every finding.
LEMMA TrendAddsUp ==
  ASSUME PagesTyped, NEW j \in Points
  PROVE  Len(reviews[j].artifact) + Cardinality(Fixed(j)) = Cardinality(Raised(j))
<1> DEFINE Good(i) == /\ IsFiniteSet(Fixed(i)) /\ IsFiniteSet(Raised(i))
                      /\ Len(reviews[i].artifact) + Cardinality(Fixed(i))
                           = Cardinality(Raised(i))
           Bad == {i \in Points : ~Good(i)}
<1>1. Points \in SUBSET Nat /\ \A i \in Points : reviews[i].artifact \in Seq(Comments)
  <2>1. DOMAIN reviews \in SUBSET Nat /\ \A i \in DOMAIN reviews : reviews[i] \in ReviewRow
    BY DEF PagesTyped
  <2> QED BY <2>1 DEF Points, ReviewRow, Filed
<1>2. ASSUME NEW k \in Points, \A i \in Points : i < k => Good(i)
      PROVE  Good(k)
  <2> DEFINE now == reviews[k].artifact
             then == Previous(k)
             gone == Numbered(then) \ Numbered(now)
             new == Numbered(now) \ Numbered(then)
  <2>1. \E F, R : /\ IsFiniteSet(F) /\ IsFiniteSet(R)
                  /\ \A p \in F \union R : p[1] # k
                  /\ then \in Seq(Comments)
                  /\ Len(then) + Cardinality(F) = Cardinality(R)
                  /\ Fixed(k) = F \union Of(k, gone)
                  /\ Raised(k) = R \union Of(k, new)
    <3>1. CASE UpTo(k) = {k} /\ then = <<>>
      <4>1. Fixed(k) = {} \union Of(k, gone) /\ Raised(k) = {} \union Of(k, new)
        BY <3>1 DEF Fixed, Raised, FixedSince, More, Of
      <4>2. then \in Seq(Comments) /\ Len(then) + Cardinality({}) = Cardinality({})
        BY <3>1, FS_EmptySet
      <4> HIDE DEF gone, new, then
      <4> QED BY <4>1, <4>2, FS_EmptySet
    <3>2. ASSUME NEW p \in Points, p < k, UpTo(k) = UpTo(p) \union {k},
                 then = reviews[p].artifact
          PROVE  /\ IsFiniteSet(Fixed(p)) /\ IsFiniteSet(Raised(p))
                 /\ \A q \in Fixed(p) \union Raised(p) : q[1] # k
                 /\ then \in Seq(Comments)
                 /\ Len(then) + Cardinality(Fixed(p)) = Cardinality(Raised(p))
                 /\ Fixed(k) = Fixed(p) \union Of(k, gone)
                 /\ Raised(k) = Raised(p) \union Of(k, new)
      <4>1. Good(p) /\ then \in Seq(Comments)
        BY <1>1, <1>2, <3>2
      <4>2. \A i \in UpTo(p) : i # k
        BY <1>1, <3>2 DEF UpTo
      <4>3. \A q \in Fixed(p) \union Raised(p) : q[1] # k
        BY <4>2 DEF Fixed, Raised
      <4>4. Fixed(k) = Fixed(p) \union Of(k, gone)
        BY <3>2 DEF Fixed, FixedSince, More, Of
      <4>5. Raised(k) = Raised(p) \union Of(k, new)
        BY <3>2 DEF Raised, More, Of
      <4> HIDE DEF gone, new
      <4> QED BY <3>2, <4>1, <4>3, <4>4, <4>5
    <3> HIDE DEF gone, new, then
    <3>3. \/ UpTo(k) = {k} /\ then = <<>>
          \/ \E p \in Points : /\ p < k /\ UpTo(k) = UpTo(p) \union {k}
                               /\ then = reviews[p].artifact
      BY PointBefore DEF then
    <3>4. CASE \E p \in Points : /\ p < k /\ UpTo(k) = UpTo(p) \union {k}
                                 /\ then = reviews[p].artifact
      <4>1. PICK p \in Points : /\ p < k /\ UpTo(k) = UpTo(p) \union {k}
                                /\ then = reviews[p].artifact
        BY <3>4
      <4> QED BY <3>2, <4>1
    <3> QED BY <3>1, <3>3, <3>4
  <2>2. PICK F, R : /\ IsFiniteSet(F) /\ IsFiniteSet(R)
                    /\ \A p \in F \union R : p[1] # k
                    /\ then \in Seq(Comments)
                    /\ Len(then) + Cardinality(F) = Cardinality(R)
                    /\ Fixed(k) = F \union Of(k, gone)
                    /\ Raised(k) = R \union Of(k, new)
    BY <2>1
  <2>3. /\ IsFiniteSet(Numbered(now)) /\ Cardinality(Numbered(now)) = Len(now)
        /\ IsFiniteSet(Numbered(then)) /\ Cardinality(Numbered(then)) = Len(then)
    BY <1>1, <2>2, NumberedAll
  <2>4. /\ IsFiniteSet(gone) /\ IsFiniteSet(new)
        /\ Len(now) + Cardinality(gone) = Len(then) + Cardinality(new)
    BY <2>3, BothWays
  <2>5. Len(now) \in Nat /\ Len(then) \in Nat
    BY <1>1, <2>2
  <2> HIDE DEF gone, new, then, now, Good, Bad
  <2>6. /\ IsFiniteSet(Fixed(k)) /\ Cardinality(Fixed(k)) = Cardinality(F) + Cardinality(gone)
        /\ IsFiniteSet(Raised(k)) /\ Cardinality(Raised(k)) = Cardinality(R) + Cardinality(new)
    <3>1. F \cap Of(k, gone) = {}
      BY <2>2 DEF Of
    <3>2. R \cap Of(k, new) = {}
      BY <2>2 DEF Of
    <3>3. /\ IsFiniteSet(F \union Of(k, gone))
          /\ Cardinality(F \union Of(k, gone)) = Cardinality(F) + Cardinality(gone)
      <4>1. IsFiniteSet(F) /\ IsFiniteSet(gone)
        BY <2>2, <2>4
      <4> QED BY ONLY <3>1, <4>1, OneMore
    <3>4. /\ IsFiniteSet(R \union Of(k, new))
          /\ Cardinality(R \union Of(k, new)) = Cardinality(R) + Cardinality(new)
      <4>1. IsFiniteSet(R) /\ IsFiniteSet(new)
        BY <2>2, <2>4
      <4> QED BY ONLY <3>2, <4>1, OneMore
    <3> QED BY <2>2, <3>3, <3>4
  <2>7. /\ Cardinality(F) \in Nat /\ Cardinality(R) \in Nat
        /\ Cardinality(gone) \in Nat /\ Cardinality(new) \in Nat
    BY <2>2, <2>4, FS_CardinalityType
  <2>8. Len(now) + (Cardinality(F) + Cardinality(gone)) = Cardinality(R) + Cardinality(new)
    <3>1. Len(then) + Cardinality(F) = Cardinality(R)
      BY <2>2
    <3>2. Len(now) + Cardinality(gone) = Len(then) + Cardinality(new)
      BY <2>4
    <3>3. Len(now) \in Nat /\ Len(then) \in Nat
      BY <2>5
    <3> HIDE DEF now, then, gone, new
    <3> QED BY ONLY SMTT(30), <2>7, <3>1, <3>2, <3>3
  <2>9. Len(now) + Cardinality(Fixed(k)) = Cardinality(Raised(k))
    BY ONLY <2>6, <2>8
  <2> HIDE DEF Fixed, Raised
  <2> QED BY ONLY <2>6, <2>9 DEF now, Good
<1> HIDE DEF Good
<1>3. Bad = {}
  <2> SUFFICES ASSUME Bad # {} PROVE FALSE
    OBVIOUS
  <2>1. Bad \in SUBSET Nat
    BY <1>1
  <2>2. PICK k \in Bad : \A m \in Bad : k <= m
    <3> HIDE DEF Bad
    <3> QED BY <2>1, LeastNumber
  <2>3. \A i \in Points : i < k => Good(i)
    BY <1>1, <2>1, <2>2
  <2> QED BY <1>2, <2>2, <2>3
<1> QED BY <1>3 DEF Good

-----------------------------------------------------------------------------

\* The rows and results stay what the statements write.
LEMMA PagesKeepTypes ==
  /\ PagesInit => PagesTyped
  /\ PagesTyped /\ [PagesNext]_reviews => PagesTyped'
<1>1. PagesInit => PagesTyped
  BY DEF PagesInit, PagesTyped
<1>2. ASSUME PagesTyped, [PagesNext]_reviews PROVE PagesTyped'
  <2>1. \A r \in Results : r \in Seq(Comments)
    BY PagesAssumption DEF Results, SeqOf
  <2>2. CASE QueueReview
    <3>1. NewReview \in ReviewRow
      BY FS_EmptySet DEF NewReview, ReviewRow
    <3> QED BY <1>2, <2>2, <3>1 DEF QueueReview, PagesTyped
  <2>3. ASSUME NEW j \in DOMAIN reviews, NEW row \in ReviewRow,
               reviews' = [reviews EXCEPT ![j] = row]
        PROVE  PagesTyped'
    BY <1>2, <2>3 DEF PagesTyped
  <2>4. ASSUME NEW j \in DOMAIN reviews PROVE reviews[j] \in ReviewRow
    BY <1>2 DEF PagesTyped
  <2>5. ASSUME NEW j \in DOMAIN reviews, FindLive(j) PROVE PagesTyped'
    <3>1. PICK c \in Comments : reviews' = [reviews EXCEPT ![j].rows = @ \union {c}]
      BY <2>5 DEF FindLive
    <3>2. reviews' = [reviews EXCEPT ![j] = [reviews[j] EXCEPT !.rows = @ \union {c}]]
      BY <3>1
    <3>3. reviews[j].rows \union {c} \in {S \in SUBSET Comments : IsFiniteSet(S)}
      BY <2>4, FS_AddElement DEF ReviewRow
    <3>4. [reviews[j] EXCEPT !.rows = @ \union {c}] \in ReviewRow
      BY <2>4, <3>3 DEF ReviewRow
    <3> QED BY <2>3, <3>2, <3>4
  <2>6. ASSUME NEW j \in DOMAIN reviews, CompleteReview(j) PROVE PagesTyped'
    <3>1. PICK r \in Results : reviews' = [reviews EXCEPT ![j] =
            [over |-> TRUE, filed |-> TRUE, artifact |-> r, rows |-> ToSet(r)]]
      BY <2>6 DEF CompleteReview
    <3>2. ToSet(r) \in {S \in SUBSET Comments : IsFiniteSet(S)}
      <4>1. r \in Seq(Comments)
        BY <2>1
      <4>2. IsFiniteSet(1..Len(r)) /\ Len(r) \in Nat
        BY <4>1, FS_Interval
      <4>3. ToSet(r) \in SUBSET Comments /\ r \in Surjection(1..Len(r), ToSet(r))
        BY <4>1 DEF ToSet, Surjection
      <4> QED BY <4>2, <4>3, FS_Surjection
    <3>3. [over |-> TRUE, filed |-> TRUE, artifact |-> r, rows |-> ToSet(r)] \in ReviewRow
      BY <2>1, <3>2 DEF ReviewRow
    <3> QED BY <2>3, <3>1, <3>3
  <2>7. ASSUME NEW j \in DOMAIN reviews, RetryReview(j) PROVE PagesTyped'
    <3>1. PICK r \in Results \union {reviews[j].artifact} :
            reviews' = [reviews EXCEPT ![j].filed = TRUE, ![j].artifact = r]
      BY <2>7 DEF RetryReview
    <3>2. reviews' = [reviews EXCEPT ![j] = [reviews[j] EXCEPT !.filed = TRUE, !.artifact = r]]
      BY <3>1
    <3>3. r \in Seq(Comments) \union {NoResult}
      BY <2>1, <2>4 DEF ReviewRow
    <3>4. [reviews[j] EXCEPT !.filed = TRUE, !.artifact = r] \in ReviewRow
      BY <2>4, <3>3 DEF ReviewRow
    <3> QED BY <2>3, <3>2, <3>4
  <2>8. ASSUME NEW j \in DOMAIN reviews, FailReview(j) PROVE PagesTyped'
    <3>1. reviews' = [reviews EXCEPT ![j] = [reviews[j] EXCEPT !.over = TRUE, !.filed = FALSE]]
      BY <2>8 DEF FailReview
    <3>2. [reviews[j] EXCEPT !.over = TRUE, !.filed = FALSE] \in ReviewRow
      BY <2>4 DEF ReviewRow
    <3> QED BY <2>3, <3>1, <3>2
  <2>9. CASE UNCHANGED reviews
    BY <1>2, <2>9 DEF PagesTyped
  <2> QED BY <1>2, <2>2, <2>5, <2>6, <2>7, <2>8, <2>9 DEF PagesNext
<1> QED BY <1>1, <1>2

\* The pages agree whenever they are asked for.
LEMMA PagesOfRows == PagesTyped => PagesAgree
<1> SUFFICES ASSUME PagesTyped PROVE PagesAgree
  OBVIOUS
<1>1. ASSUME NEW path \in {PathOf[c] : c \in Comments}
      PROVE  FileIssueCount(path) = Len(FileFindings(path))
  <2>1. CASE reviews = <<>>
    BY <2>1 DEF FileIssueCount, FileFindings
  <2>2. CASE reviews # <<>>
    <3> DEFINE found == {c \in Latest.rows : PathOf[c] = path}
    <3>1. Latest.rows \in {S \in SUBSET Comments : IsFiniteSet(S)}
      <4>1. Latest \in ReviewRow
        BY <2>2 DEF Latest, PagesTyped
      <4> QED BY <4>1 DEF ReviewRow
    <3>2. IsFiniteSet(found)
      BY <3>1, FS_Subset
    <3>3. Len(SetToSeq(found)) = Cardinality(found) /\ (Latest.rows = {} => Cardinality(found) = 0)
      BY <3>2, ListedAll, FS_EmptySet
    <3> HIDE DEF found
    <3>4. FileIssueCount(path) = IF Latest.rows # {} THEN Cardinality(found)
                                 ELSE IF Filed(Latest) THEN Len(CommentsIn(path)) ELSE 0
      BY <2>2 DEF FileIssueCount, found
    <3>5. FileFindings(path) = IF Latest.rows = {} /\ Filed(Latest) THEN CommentsIn(path)
                               ELSE SetToSeq(found)
      BY <2>2 DEF FileFindings, found
    <3> QED BY <3>3, <3>4, <3>5
  <2> QED BY <2>1, <2>2
<1>2. ASSUME NEW j \in Points
      PROVE  FixTrend[j].issues + FixTrend[j].fixed = Cardinality(Raised(j))
  BY <1>2, TrendAddsUp DEF FixTrend, Fixed
<1> QED BY <1>1, <1>2 DEF PagesAgree

\* Whatever reviews a merge request had, the list of files counts what the page
\* of a file shows, and the trend loses and invents no finding.
THEOREM PagesAlwaysAgree == PagesSpec => []PagesAgree
<1> QED BY PagesKeepTypes, PagesOfRows, PTL DEF PagesSpec
=============================================================================
