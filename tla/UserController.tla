---------------------------- MODULE UserController ----------------------------
(***************************************************************************)
(* UserReconciler (controllers/user_controller.go) running in the manager  *)
(* of main.go: one worker takes User names from the work queue and runs    *)
(* Reconcile, one action per call it makes to the Kubernetes API or to a   *)
(* SQL server.  Around it: the API server, the informer caches the manager *)
(* reads from, the SQL servers, and the people who edit resources.         *)
(*                                                                         *)
(* Reads are served by the informer caches, writes by the API server.  A   *)
(* resourceVersion is modelled by what it decides: synced[u] says that the *)
(* cached copy of u is the stored version, w.current that the copy in the  *)
(* hands of the worker is.                                                 *)
(***************************************************************************)
EXTENDS Database

CONSTANTS
  Supplied,   \* the Secrets people provide (passwords, certificates)
  PrivLists,  \* the lists a Privileges resource may hold, by its name
  CAs,        \* the states the CA key of a Database may be in
  Env,        \* what people and machines around the operator may do
  Faults      \* whether calls may fail and the operator may crash at first

ASSUME ControllerAssumption ==
  /\ Supplied \subseteq SecretNames
  /\ PrivLists \in [PrivNames -> SUBSET Seq(PrivSpecs)]
  /\ CAs \subseteq {"valid", "unparsable", "notPEM"}
  /\ Faults \in BOOLEAN

VARIABLES
  api,          \* the Users the API server stores
  cache,        \* the Users in the informer cache
  synced,       \* whether the cached copy has the stored resourceVersion
  secrets,      \* the Secrets the API server stores
  secretsSeen,  \* the Secrets in the informer cache
  queue,        \* the work queue of the controller
  w,            \* the worker: the Reconcile call in progress
  databases,    \* the Database resources (as the informer cache shows them)
  privileges,   \* the Privileges resources (likewise)
  caKey,        \* the CA key each Database refers to
  accounts,     \* the SQL users of each server
  grants,       \* the privileges each SQL user holds on each server
  targets,      \* the privileges whose role, table or database exists
  faulty        \* calls may still fail and the operator may still crash

users   == <<api, cache, synced>>
inputs  == <<databases, privileges, caKey>>
sql     == <<accounts, grants, targets>>
vars    == <<api, cache, synced, secrets, secretsSeen, queue, w,
             databases, privileges, caKey, accounts, grants, targets, faulty>>

-------------------------------------------------------------------------------
(***************************************************************************)
(* The worker.  i is the position in user.Spec.Databases, j the position   *)
(* in dbRef.Privileges and then in the collected privileges; err is the    *)
(* error a deletion returns once its deferred call is made; files says     *)
(* that the certificate files of the open connection exist.                *)
(***************************************************************************)
PC == {"idle", "finalizer", "database", "privileges", "create", "secret",
       "grant", "revoke", "delSecret", "status"}

AtDatabase == {"privileges", "create", "secret", "grant", "revoke", "delSecret"}

Worker ==
  [pc : PC, key : Users, user : User, current : BOOLEAN, i : Nat, j : Nat,
   privs : Seq(PrivSpecs), err : Errors, files : BOOLEAN,
   status : StatusSummary]

Idle(u) ==
  [pc |-> "idle", key |-> u, user |-> Gone, current |-> FALSE, i |-> 0,
   j |-> 0, privs |-> <<>>, err |-> "ok", files |-> FALSE,
   status |-> NoStatus]

Ref    == w.user.refs[w.i]
Server == ServerOf(Ref)
Has    == w.key \in accounts[Server]
Held   == grants[Server][w.key]

(* A remote call answers err, having taken effect or not, when the other   *)
(* side's verdict on it is v: it answers that verdict, or, while calls can *)
(* fail, an error that leaves open whether the call took effect.           *)
Answers(v, err, applied) ==
  \/ err = v /\ (applied <=> v = "ok")
  \/ faulty /\ err = "io" /\ (applied => v = "ok")

(* Reconcile returns; the controller queues the name again after an error. *)
Return(failed) ==
  /\ w' = Idle(w.key)
  /\ queue' = IF failed THEN queue \cup {w.key} ELSE queue

(* reconcile has returned and what is left is to write the status. *)
Reporting(x, status) ==
  [Idle(x.key) EXCEPT !.pc = "status", !.user = x.user, !.current = x.current,
                      !.status = status]

ErrorStatus(err, i, j) ==
  [ready |-> FALSE,
   message |-> [text |-> err, database |-> i, privilege |-> j]]

(* Mutant: the error of a deletion goes into the status as well. *)
FailedReported(x, err) ==
  /\ w' = Reporting(x, ErrorStatus(err, x.i, x.j))
  /\ UNCHANGED queue

(* reconcile returns an error: a deletion returns it to the controller, any*)
(* other call reports it in the status.  x is the worker at that point.    *)
Failed(x, err) ==
  IF x.user.deleting
  THEN Return(TRUE)
  ELSE /\ w' = Reporting(x, ErrorStatus(err, x.i, x.j))
       /\ UNCHANGED queue

(* Mutant: the loop returns after its first database. *)
NextDatabaseNone ==
  [w EXCEPT !.pc = "database", !.i = Len(w.user.refs) + 1, !.j = 0,
            !.privs = <<>>, !.err = "ok", !.files = FALSE]

(* The loops over user.Spec.Databases go on: db.Close has run. *)
NextDatabase ==
  [w EXCEPT !.pc = "database", !.i = @ + 1, !.j = 0, !.privs = <<>>,
            !.err = "ok", !.files = FALSE]

(* Mutant: updates are sent without a resourceVersion. *)
UpdateVerdictBlind == IF api[w.key].exists THEN "ok" ELSE "NotFound"

(* The API server accepts an update of the copy only if it is current. *)
UpdateVerdict ==
  CASE ~api[w.key].exists               -> "NotFound"
    [] api[w.key].exists /\ ~w.current  -> "Conflict"
    [] OTHER                            -> "ok"

(* A write that changes the stored User gives it a new resourceVersion. *)
Store(u, obj) ==
  /\ api' = [api EXCEPT ![u] = obj]
  /\ synced' = IF obj = api[u] THEN synced ELSE [synced EXCEPT ![u] = FALSE]

(* A new manager process: the caches list everything, every User is queued.*)
Restart ==
  /\ cache' = api
  /\ synced' = [u \in Users |-> TRUE]
  /\ secretsSeen' = secrets
  /\ queue' = {u \in Users : api[u].exists}
  /\ w' = Idle(w.key)

-------------------------------------------------------------------------------
(***************************************************************************)
(* Reconcile.                                                              *)
(***************************************************************************)

(* The user is read and the branch of reconcile is chosen.  A read that    *)
(* fails puts the name back and changes nothing.                           *)
Fetch(u) ==
  /\ w.pc = "idle"
  /\ u \in queue
  /\ queue' = queue \ {u}
  /\ LET obj == cache[u]
     IN  w' = IF ~obj.exists \/ (obj.deleting /\ ~obj.finalizer)
              THEN Idle(u)
              ELSE [Idle(u) EXCEPT
                      !.pc = IF obj.finalizer THEN "database" ELSE "finalizer",
                      !.user = obj,
                      !.current = synced[u],
                      !.i = IF obj.finalizer THEN 1 ELSE 0]
  /\ UNCHANGED <<users, secrets, secretsSeen, inputs, sql, faulty>>

(* Mutant: the error of the Update that adds the finalizer is ignored. *)
AddFinalizerUnchecked ==
  /\ w.pc = "finalizer"
  /\ IF UpdateVerdict = "ok"
     THEN Store(w.key, [api[w.key] EXCEPT !.finalizer = TRUE])
     ELSE UNCHANGED <<api, synced>>
  /\ w' = [w EXCEPT !.user.finalizer = TRUE, !.pc = "database", !.i = 1]
  /\ UNCHANGED <<cache, secrets, secretsSeen, queue, inputs, sql, faulty>>

AddFinalizer ==
  /\ w.pc = "finalizer"
  /\ \E ans \in Errors, applied \in BOOLEAN :
       /\ Answers(UpdateVerdict, ans, applied)
       /\ IF applied
          THEN Store(w.key, [api[w.key] EXCEPT !.finalizer = TRUE])
          ELSE UNCHANGED <<api, synced>>
       /\ IF ans = "ok"
          THEN /\ w' = [w EXCEPT !.user.finalizer = TRUE, !.pc = "database", !.i = 1]
               /\ UNCHANGED queue
          ELSE Failed([w EXCEPT !.user.finalizer = TRUE,
                                !.current = w.current /\ ~applied], ans)
  /\ UNCHANGED <<cache, secrets, secretsSeen, inputs, sql, faulty>>

(* Mutant: a missing Database resource is skipped. *)
GetDatabaseLenient ==
  /\ w.pc = "database"
  /\ w.i <= Len(w.user.refs)
  /\ w' = IF Ref.name \in databases
          THEN [w EXCEPT !.pc = "privileges", !.j = 1]
          ELSE NextDatabase
  /\ UNCHANGED <<users, secrets, secretsSeen, queue, inputs, sql, faulty>>

(* databaseReconciler: the Database resource ... *)
GetDatabase ==
  /\ w.pc = "database"
  /\ w.i <= Len(w.user.refs)
  /\ IF Ref.name \in databases
     THEN w' = [w EXCEPT !.pc = "privileges", !.j = 1] /\ UNCHANGED queue
     ELSE Failed(w, "NotFound")
  /\ UNCHANGED <<users, secrets, secretsSeen, inputs, sql, faulty>>

(* Mutant: a missing Privileges resource is skipped. *)
GetPrivilegesLenient ==
  /\ w.pc = "privileges"
  /\ w.j <= Len(Ref.privileges)
  /\ LET p == privileges[Ref.privileges[w.j]]
     IN  w' = [w EXCEPT !.j = @ + 1, !.privs = IF p.exists THEN @ \o p.list ELSE @]
  /\ UNCHANGED <<users, secrets, secretsSeen, queue, inputs, sql, faulty>>

(* ... the Privileges resources one by one ... *)
GetPrivileges ==
  /\ w.pc = "privileges"
  /\ w.j <= Len(Ref.privileges)
  /\ LET p == privileges[Ref.privileges[w.j]]
     IN  IF p.exists
         THEN w' = [w EXCEPT !.j = @ + 1, !.privs = @ \o p.list] /\ UNCHANGED queue
         ELSE Failed(w, "NotFound")
  /\ UNCHANGED <<users, secrets, secretsSeen, inputs, sql, faulty>>

(* ... and the connection: NewDatabase reads Secrets and connects. *)
InputsMissing == \E n \in Conf[Ref.name].inputs : secretsSeen[n] = "absent"

Connect ==
  /\ w.pc = "privileges"
  /\ w.j > Len(Ref.privileges)
  /\ \/ /\ InputsMissing
        /\ Failed([w EXCEPT !.j = 0], "secret")
     \/ /\ ~InputsMissing
        /\ faulty
        /\ Failed([w EXCEPT !.j = 0], "connect")
     \/ /\ ~InputsMissing
        /\ w' = [w EXCEPT !.pc = IF w.user.deleting THEN "revoke" ELSE "create",
                          !.j = 1,
                          !.files = CertFiles(Ref.name)]
        /\ UNCHANGED queue
  /\ UNCHANGED <<users, secrets, secretsSeen, inputs, sql, faulty>>

(* createUserInDatabase up to db.CreateUser: the password is read and      *)
(* CREATE USER executed.                                                   *)
PasswordError ==
  LET n == Ref.password
  IN  CASE n = NoSecret                                  -> "ok"
        [] n # NoSecret /\ secretsSeen[n] = "absent"     -> "secret"
        [] n # NoSecret /\ secretsSeen[n] \in {"nokey"} \cup Users -> "Invalid"
        [] OTHER                                         -> "ok"

CreateUser ==
  /\ w.pc = "create"
  /\ PasswordError = "ok"
  /\ \E ans \in Errors, applied \in BOOLEAN :
       /\ Answers(CreateVerdict(Ref.name, Has, w.files), ans, applied)
       /\ accounts' = IF applied
                      THEN [accounts EXCEPT ![Server] = @ \cup {w.key}]
                      ELSE accounts
       /\ LET err == CreateUserError(Ref.name, ans, caKey[Ref.name])
          IN  \/ /\ err = "ok"
                 /\ w' = [w EXCEPT !.pc = IF CreateUserData(Ref.name, ans)
                                          THEN "secret" ELSE "grant"]
                 /\ UNCHANGED <<queue, cache, synced, secretsSeen>>
              \/ /\ err \notin {"ok", "panic"}
                 /\ Failed([w EXCEPT !.j = 0], err)
                 /\ UNCHANGED <<cache, synced, secretsSeen>>
              \/ /\ err = "panic"
                 /\ Restart
  /\ UNCHANGED <<api, secrets, inputs, grants, targets, faulty>>

PasswordMissing ==
  /\ w.pc = "create"
  /\ PasswordError # "ok"
  /\ Failed([w EXCEPT !.j = 0], PasswordError)
  /\ UNCHANGED <<users, secrets, secretsSeen, inputs, sql, faulty>>

(* The rest of createUserInDatabase: the bundle goes into a Secret unless  *)
(* the cache already shows one of that name.                               *)
SecretVerdict(n) ==
  CASE n = NoSecret                            -> "Invalid"
    [] n # NoSecret /\ secrets[n] # "absent"   -> "AlreadyExists"
    [] OTHER                                   -> "ok"

SeesSecret(n) == n # NoSecret /\ secretsSeen[n] # "absent"

CreateSecret ==
  /\ w.pc = "secret"
  /\ \/ /\ SeesSecret(Ref.created)
        /\ w' = [w EXCEPT !.pc = "grant"]
        /\ UNCHANGED <<secrets, queue>>
     \/ /\ ~SeesSecret(Ref.created)
        /\ \E ans \in Errors, applied \in BOOLEAN :
             /\ Answers(SecretVerdict(Ref.created), ans, applied)
             /\ secrets' = IF applied THEN [secrets EXCEPT ![Ref.created] = w.key]
                                      ELSE secrets
             /\ IF ans = "ok"
                THEN w' = [w EXCEPT !.pc = "grant"] /\ UNCHANGED queue
                ELSE Failed([w EXCEPT !.j = 0], ans)
  /\ UNCHANGED <<users, secretsSeen, inputs, sql, faulty>>

(* db.ApplyPrivileges, one statement at a time. *)
Privilege == w.privs[w.j]

Grant ==
  /\ w.pc = "grant"
  /\ w.j <= Len(w.privs)
  /\ \E ans \in Errors, applied \in BOOLEAN :
       /\ Answers(PrivilegeVerdict(Ref.name, Has, Privilege, targets[Server],
                                   w.files), ans, applied)
       /\ grants' = IF applied
                    THEN [grants EXCEPT ![Server][w.key] = @ \cup {Privilege}]
                    ELSE grants
       /\ IF ans = "ok"
          THEN /\ w' = [w EXCEPT !.j = @ + 1,
                                 !.files = FilesAfter(Ref.name, Privilege, @)]
               /\ UNCHANGED queue
          ELSE Failed(w, ans)
  /\ UNCHANGED <<users, secrets, secretsSeen, inputs, accounts, targets, faulty>>

CloseApplied ==
  /\ w.pc = "grant"
  /\ w.j > Len(w.privs)
  /\ w' = NextDatabase
  /\ UNCHANGED <<users, secrets, secretsSeen, queue, inputs, sql, faulty>>

(* db.RevokePrivileges, one statement at a time.  An error ends it, and    *)
(* unless it is reported as success it ends databaseUserDelete as well.    *)
Revoke ==
  /\ w.pc = "revoke"
  /\ w.j <= Len(w.privs)
  /\ \E ans \in Errors, applied \in BOOLEAN :
       /\ Answers(PrivilegeVerdict(Ref.name, Has, Privilege, targets[Server],
                                   w.files), ans, applied)
       /\ grants' = IF applied
                    THEN [grants EXCEPT ![Server][w.key] = @ \ {Privilege}]
                    ELSE grants
       /\ w' = IF RevokeError(Ref.name, ans) = "ok"
               THEN [w EXCEPT !.j = IF ans = "ok" THEN @ + 1 ELSE Len(w.privs) + 1,
                              !.files = FilesAfter(Ref.name, Privilege, @)]
               ELSE [w EXCEPT !.pc = "delSecret", !.err = ans]
  /\ UNCHANGED <<users, secrets, secretsSeen, queue, inputs, accounts, targets,
                 faulty>>

(* db.DeleteUser. *)
DropUser ==
  /\ w.pc = "revoke"
  /\ w.j > Len(w.privs)
  /\ \E ans \in Errors, applied \in BOOLEAN :
       /\ Answers(DropVerdict(Ref.name, Has, Held, w.files), ans, applied)
       /\ accounts' = IF applied
                      THEN [accounts EXCEPT ![Server] = @ \ {w.key}]
                      ELSE accounts
       /\ grants' = IF applied
                    THEN [grants EXCEPT ![Server][w.key] = {}]
                    ELSE grants
       /\ w' = [w EXCEPT !.pc = "delSecret",
                         !.err = DeleteUserError(Ref.name, ans)]
  /\ UNCHANGED <<users, secrets, secretsSeen, queue, inputs, targets, faulty>>

(* Mutant: databaseUserDelete leaves the Secret alone. *)
DeleteSecretForgotten ==
  /\ w.pc = "delSecret"
  /\ IF w.err = "ok" THEN w' = NextDatabase /\ UNCHANGED queue
                     ELSE Failed(w, w.err)
  /\ UNCHANGED <<users, secrets, secretsSeen, inputs, sql, faulty>>

(* The deferred deletion of the Secret, whose outcome is ignored; then     *)
(* databaseUserDelete returns.                                             *)
DeleteSecret ==
  /\ w.pc = "delSecret"
  /\ \/ faulty /\ UNCHANGED secrets
     \/ secrets' = IF Ref.created = NoSecret
                   THEN secrets
                   ELSE [secrets EXCEPT ![Ref.created] = "absent"]
  /\ IF w.err = "ok" THEN w' = NextDatabase /\ UNCHANGED queue
                     ELSE Failed(w, w.err)
  /\ UNCHANGED <<users, secretsSeen, inputs, sql, faulty>>

(* After the loop over a User being deleted: the update that removes the   *)
(* last finalizer removes the object.                                      *)
RemoveFinalizer ==
  /\ w.pc = "database"
  /\ w.i > Len(w.user.refs)
  /\ w.user.deleting
  /\ \E ans \in Errors, applied \in BOOLEAN :
       /\ Answers(UpdateVerdict, ans, applied)
       /\ IF applied THEN Store(w.key, Gone) ELSE UNCHANGED <<api, synced>>
       /\ Return(ans # "ok")
  /\ UNCHANGED <<cache, secrets, secretsSeen, inputs, sql, faulty>>

(* After the loop over any other User: a Ready status is not written again.*)
Succeed ==
  /\ w.pc = "database"
  /\ w.i > Len(w.user.refs)
  /\ ~w.user.deleting
  /\ IF w.user.status.ready
     THEN Return(FALSE)
     ELSE /\ w' = Reporting(w, SuccessStatus)
          /\ UNCHANGED queue
  /\ UNCHANGED <<users, secrets, secretsSeen, inputs, sql, faulty>>

(* setStatus.  Reconcile returns the error of this write, not the one that *)
(* the status reports.                                                     *)
SetStatus ==
  /\ w.pc = "status"
  /\ \E ans \in Errors, applied \in BOOLEAN :
       /\ Answers(UpdateVerdict, ans, applied)
       /\ IF applied
          THEN Store(w.key, [api[w.key] EXCEPT !.status = w.status])
          ELSE UNCHANGED <<api, synced>>
       /\ Return(ans # "ok")
  /\ UNCHANGED <<cache, secrets, secretsSeen, inputs, sql, faulty>>

Reconcile ==
  \/ AddFinalizer \/ GetDatabase \/ GetPrivileges \/ Connect
  \/ PasswordMissing \/ CreateUser \/ CreateSecret \/ Grant \/ CloseApplied
  \/ Revoke \/ DropUser \/ DeleteSecret
  \/ RemoveFinalizer \/ Succeed \/ SetStatus

-------------------------------------------------------------------------------
(***************************************************************************)
(* The manager: informers deliver watch events and queue the Users they    *)
(* are about; every cached User is queued again at each resync period; the *)
(* process may crash and is started again by the Deployment.               *)
(***************************************************************************)
SyncUser(u) ==
  /\ ~synced[u]
  /\ cache' = [cache EXCEPT ![u] = api[u]]
  /\ synced' = [synced EXCEPT ![u] = TRUE]
  /\ queue' = queue \cup {u}
  /\ UNCHANGED <<api, secrets, secretsSeen, w, inputs, sql, faulty>>

SyncSecret(n) ==
  /\ secretsSeen[n] # secrets[n]
  /\ secretsSeen' = [secretsSeen EXCEPT ![n] = secrets[n]]
  /\ queue' = queue \cup ({secretsSeen[n], secrets[n]} \cap Users)
  /\ UNCHANGED <<users, secrets, w, inputs, sql, faulty>>

Resync ==
  /\ queue' = queue \cup {u \in Users : cache[u].exists}
  /\ UNCHANGED <<users, secrets, secretsSeen, w, inputs, sql, faulty>>

Crash ==
  /\ faulty
  /\ Restart
  /\ UNCHANGED <<api, secrets, inputs, sql, faulty>>

(* Calls stop failing. *)
Heal ==
  /\ faulty
  /\ faulty' = FALSE
  /\ UNCHANGED <<users, secrets, secretsSeen, queue, w, inputs, sql>>

-------------------------------------------------------------------------------
(***************************************************************************)
(* The people around the operator.                                         *)
(***************************************************************************)
(* A write by someone else makes the worker's copy of that User outdated. *)
Outdate(u) == w' = [w EXCEPT !.current = @ /\ w.key # u]

ApplyUser(u) ==
  /\ ~api[u].exists
  /\ \E refs \in Specs[u] : Store(u, NewUser(refs))
  /\ Outdate(u)
  /\ UNCHANGED <<cache, secrets, secretsSeen, queue, inputs, sql, faulty>>

(* A User without a finalizer goes at once, with one it is marked. *)
DeleteUser(u) ==
  /\ api[u].exists
  /\ ~api[u].deleting
  /\ Store(u, IF api[u].finalizer THEN [api[u] EXCEPT !.deleting = TRUE] ELSE Gone)
  /\ Outdate(u)
  /\ UNCHANGED <<cache, secrets, secretsSeen, queue, inputs, sql, faulty>>

EditUser(u) ==
  /\ "edit" \in Env
  /\ api[u].exists
  /\ \E refs \in Specs[u] \ {api[u].refs} :
       Store(u, [api[u] EXCEPT !.refs = refs])
  /\ Outdate(u)
  /\ UNCHANGED <<cache, secrets, secretsSeen, queue, inputs, sql, faulty>>

(* A Database or Privileges resource is deleted, or created (again). *)
ToggleDatabase(d) ==
  /\ "databases" \in Env
  /\ databases' = IF d \in databases THEN databases \ {d} ELSE databases \cup {d}
  /\ UNCHANGED <<users, secrets, secretsSeen, queue, w, privileges, caKey, sql,
                 faulty>>

TogglePrivileges(n) ==
  /\ "lists" \in Env
  /\ privileges' = [privileges EXCEPT ![n].exists = ~@]
  /\ UNCHANGED <<users, secrets, secretsSeen, queue, w, databases, caKey, sql,
                 faulty>>

EditPrivileges(n) ==
  /\ "privileges" \in Env
  /\ privileges[n].exists
  /\ \E list \in PrivLists[n] : privileges' = [privileges EXCEPT ![n].list = list]
  /\ UNCHANGED <<users, secrets, secretsSeen, queue, w, databases, caKey, sql,
                 faulty>>

(* Someone deletes a Secret, or supplies one that is theirs to supply. *)
ChangeSecret(n) ==
  /\ "secrets" \in Env
  /\ \E s \in IF secrets[n] # "absent" THEN {"absent"}
               ELSE IF n \in Supplied THEN {"supplied", "nokey"} ELSE {} :
       secrets' = [secrets EXCEPT ![n] = s]
  /\ UNCHANGED <<users, secretsSeen, queue, w, inputs, sql, faulty>>

ReplaceCA(d) ==
  /\ "ca" \in Env
  /\ \E ca \in CAs : caKey' = [caKey EXCEPT ![d] = ca]
  /\ UNCHANGED <<users, secrets, secretsSeen, queue, w, databases, privileges,
                 sql, faulty>>

(* A role, table or database is dropped, and what was granted on it ends. *)
DropTarget(s, p) ==
  /\ "targets" \in Env
  /\ p \in targets[s]
  /\ targets' = [targets EXCEPT ![s] = @ \ {p}]
  /\ grants' = [grants EXCEPT ![s] = [u \in Users |-> grants[s][u] \ {p}]]
  /\ UNCHANGED <<users, secrets, secretsSeen, queue, w, inputs, accounts, faulty>>

-------------------------------------------------------------------------------
Init ==
  /\ api = [u \in Users |-> Gone]
  /\ cache = api
  /\ synced = [u \in Users |-> TRUE]
  /\ secrets = [n \in SecretNames |->
                  IF n \in Supplied THEN "supplied" ELSE "absent"]
  /\ secretsSeen = secrets
  /\ queue = {}
  /\ \E u \in Users : w = Idle(u)
  /\ databases = Databases
  /\ \E lists \in [PrivNames -> UNION {PrivLists[n] : n \in PrivNames}] :
       /\ \A n \in PrivNames : lists[n] \in PrivLists[n]
       /\ privileges = [n \in PrivNames |-> [exists |-> TRUE, list |-> lists[n]]]
  /\ caKey \in [Databases -> CAs]
  /\ accounts = [s \in Servers |-> {}]
  /\ grants = [s \in Servers |-> [u \in Users |-> {}]]
  /\ targets = [s \in Servers |-> PrivSpecs]
  /\ faulty = Faults

People ==
  \/ \E u \in Users : ApplyUser(u) \/ DeleteUser(u) \/ EditUser(u)
  \/ \E d \in Databases : ToggleDatabase(d) \/ ReplaceCA(d)
  \/ \E n \in PrivNames : TogglePrivileges(n) \/ EditPrivileges(n)
  \/ \E n \in SecretNames : ChangeSecret(n)
  \/ \E s \in Servers, p \in PrivSpecs : DropTarget(s, p)

Manager ==
  \/ \E u \in Users : Fetch(u) \/ SyncUser(u)
  \/ \E n \in SecretNames : SyncSecret(n)
  \/ Resync
  \/ Crash

Next == Reconcile \/ Manager \/ People \/ Heal

Spec == Init /\ [][Next]_vars

(* The worker never stops in the middle of Reconcile and the work queue is *)
(* first in, first out; informers deliver what they watch and resync       *)
(* periodically; failures end at some point.                               *)
Fairness ==
  /\ WF_vars(Reconcile)
  /\ \A u \in Users : SF_vars(Fetch(u)) /\ WF_vars(SyncUser(u))
  /\ \A n \in SecretNames : WF_vars(SyncSecret(n))
  /\ WF_vars(Resync)
  /\ WF_vars(Heal)

FairSpec == Spec /\ Fairness

-------------------------------------------------------------------------------
(***************************************************************************)
(* Properties.                                                             *)
(***************************************************************************)
(* The worker holds a User while Reconcile runs, its loops stay within     *)
(* user.Spec.Databases, and the branch it is in is the one its copy of the *)
(* User asks for.                                                          *)
WorkerOK ==
  /\ w \in Worker
  /\ w.pc # "idle" => w.user.exists
  /\ w.pc \in AtDatabase \cup {"database"} => w.i \in 1..(Len(w.user.refs) + 1)
  /\ w.pc \in AtDatabase => w.i <= Len(w.user.refs) /\ w.j >= 1
  /\ w.pc \in {"revoke", "delSecret"} => w.user.deleting
  /\ w.pc \in {"finalizer", "create", "secret", "grant", "status"} => ~w.user.deleting

(* Every variable has its type, and the worker is well formed: no index of *)
(* the loops of reconcile leaves its list.                                 *)
TypeOK ==
  /\ api \in [Users -> User]
  /\ cache \in [Users -> User]
  /\ synced \in [Users -> BOOLEAN]
  /\ secrets \in [SecretNames -> SecretState]
  /\ secretsSeen \in [SecretNames -> SecretState]
  /\ queue \subseteq Users
  /\ WorkerOK
  /\ databases \subseteq Databases
  /\ privileges \in [PrivNames -> Privileges]
  /\ caKey \in [Databases -> CAs]
  /\ accounts \in [Servers -> SUBSET Users]
  /\ grants \in [Servers -> [Users -> SUBSET PrivSpecs]]
  /\ targets \in [Servers -> SUBSET PrivSpecs]
  /\ faulty \in BOOLEAN

Wanted(u)  == api[u].exists /\ ~api[u].deleting
IsReady(u) == Wanted(u) /\ api[u].status.ready

(* No SQL user outlives its User resource: as long as it exists on a server*)
(* that the User can not be edited away from, the stored User carries the  *)
(* finalizer that makes its deletion come back to the operator.            *)
AccountHeld ==
  \A u \in Users : \A s \in CoreServers(u) :
    u \in accounts[s] => api[u].finalizer

(* status.summary.ready of a User that is not being deleted means that the *)
(* SQL user exists on those servers.                                       *)
ReadyBacked ==
  \A u \in Users : IsReady(u) => \A s \in CoreServers(u) : u \in accounts[s]

(* The privileges that the Privileges resources of u list for a server. *)
Listed(u, s) ==
  LET refs == api[u].refs
  IN  {p \in PrivSpecs :
         \E n \in 1..Len(refs) : \E k \in 1..Len(refs[n].privileges) :
           /\ ServerOf(refs[n]) = s
           /\ \E m \in 1..Len(privileges[refs[n].privileges[k]].list) :
                privileges[refs[n].privileges[k]].list[m] = p}

(* While no resource is edited, ready also means that the SQL user holds   *)
(* every privilege its Privileges resources list.                          *)
ReadyGranted ==
  \A u \in Users : IsReady(u) =>
    \A s \in Servers : Listed(u, s) \subseteq grants[s][u]

(* reconcile removes the finalizer only when the SQL user is gone from     *)
(* every database that the spec names at that moment, whatever was edited  *)
(* while the loop of the deletion ran.                                     *)
ReleaseIsClean ==
  [][\A u \in Users :
       api[u].finalizer /\ ~api'[u].finalizer =>
         \A n \in 1..Len(api[u].refs) :
           u \notin accounts'[ServerOf(api[u].refs[n])]]_vars

(* An existing SQL user is dropped only while its User is being deleted,   *)
(* however old the copy of the User is that the deletion works from.       *)
DropsOnlyDeleted ==
  [][\A u \in Users, s \in Servers :
       u \in accounts[s] /\ u \notin accounts'[s] => api[u].deleting]_vars

(* Where the spec asks for a certificate bundle, ready means that the      *)
(* Secret with the bundle exists.                                          *)
ReadyHasSecret ==
  \A u \in Users : IsReady(u) =>
    \A n \in 1..Len(api[u].refs) :
      LET ref == api[u].refs[n]
      IN  Conf[ref.name].ssl => SecretVerdict(ref.created) = "AlreadyExists"

(* While no call fails and no spec changes, a Secret that the operator made*)
(* for a User does not outlive it: databaseUserDelete removes it before the*)
(* finalizer goes.                                                         *)
SecretHeld ==
  \A n \in SecretNames : secrets[n] \in Users => api[secrets[n]].finalizer

(* The Database and Privileges resources are there. *)
ResourcesThere ==
  databases = Databases /\ \A n \in PrivNames : privileges[n].exists

(* A User that is left alone, with the resources it refers to there in the *)
(* end, becomes ready and stays ready, whatever failed or was missing.     *)
Settles ==
  \A u \in Users : <>[](Wanted(u) /\ ResourcesThere) => <>[]IsReady(u)

(* A User that is left alone ends up with the privileges that its          *)
(* Privileges resources list and no other.                                 *)
PrivilegesFollow ==
  \A u \in Users, s \in Servers, L \in SUBSET PrivSpecs :
    <>[](Wanted(u) /\ Listed(u, s) = L) => <>[](grants[s][u] = L)

(* A User marked for deletion does not stay once the resources it refers   *)
(* to are there for good, even if the deletion met them missing.           *)
DeletionCompletes ==
  \A u \in Users : ~<>[](api[u].deleting /\ ResourcesThere)

(* A deletion is not stuck once its Privileges resources are left alone,   *)
(* whatever they listed before.                                            *)
DeletionNotStuck ==
  \A u \in Users, s \in Servers, L \in SUBSET PrivSpecs :
    ~<>[](api[u].deleting /\ Listed(u, s) = L)

-------------------------------------------------------------------------------
(***************************************************************************)
(* The inductive invariant behind AccountHeld, ReadyBacked, ReleaseIsClean *)
(* and DropsOnlyDeleted: what the caches and the worker's copy, however    *)
(* old, still say about the stored User.                                   *)
(***************************************************************************)
Busy == w.pc # "idle"

(* Stored, cached and fetched Users have specs a User may be given. *)
SpecsOK ==
  /\ \A u \in Users : api[u].exists \/ api[u] = Gone
  /\ \A u \in Users : api[u].exists => api[u].refs \in Specs[u]
  /\ \A u \in Users : cache[u].exists => cache[u].refs \in Specs[u]
  /\ Busy => w.user.refs \in Specs[w.key]

(* A copy of u that is being deleted, with these refs: the stored User is  *)
(* still being deleted, or it is a new one that nothing was done for yet   *)
(* and the old one left nothing behind.                                    *)
DeletionKnown(u, refs) ==
  \/ api[u].deleting
  \/ /\ ~api[u].finalizer
     /\ ~api[u].status.ready
     /\ \A n \in 1..Len(refs) : u \notin accounts[ServerOf(refs[n])]

CacheOK ==
  \A u \in Users :
    /\ synced[u] => cache[u] = api[u]
    /\ cache[u].finalizer /\ ~cache[u].deleting => api[u].finalizer
    /\ cache[u].deleting => DeletionKnown(u, cache[u].refs)

(* A current copy agrees with the store, and the cache can not be older.   *)
(* Past the finalizer step the stored User has the finalizer, until the    *)
(* call has ended or failed.                                               *)
CopyOK ==
  /\ w.current =>
       /\ Busy
       /\ api[w.key].exists
       /\ api[w.key].deleting = w.user.deleting
       /\ api[w.key].refs = w.user.refs
       /\ cache[w.key].deleting = w.user.deleting
       /\ cache[w.key].refs = w.user.refs
  /\ w.pc \in AtDatabase \cup {"database"} /\ ~w.user.deleting =>
       api[w.key].finalizer
  /\ w.pc = "status" /\ w.status.ready => api[w.key].finalizer
  /\ Busy /\ w.user.deleting => DeletionKnown(w.key, w.user.refs)

(* What the loops of reconcile have done so far, on the servers before     *)
(* position i and at it.                                                   *)
OnServer(n) == w.key \in accounts[ServerOf(w.user.refs[n])]

ProgressOK ==
  /\ w.pc \in AtDatabase \cup {"database"} =>
       \A n \in 1..(w.i - 1) : OnServer(n) <=> ~w.user.deleting
  /\ w.pc \in {"secret", "grant"} => OnServer(w.i)
  /\ w.pc = "delSecret" /\ w.err = "ok" => ~OnServer(w.i)
  /\ w.pc = "status" /\ w.status.ready =>
       \A n \in 1..Len(w.user.refs) : OnServer(n)

(* The conjunction that every step preserves. *)
Inductive ==
  TypeOK /\ SpecsOK /\ CacheOK /\ CopyOK /\ ProgressOK /\ AccountHeld /\ ReadyBacked
===============================================================================
