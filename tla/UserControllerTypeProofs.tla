----------------------- MODULE UserControllerTypeProofs -----------------------
(***************************************************************************)
(* Type correctness of UserController, for every value of its constants.   *)
(* TypeOK is inductive by itself: TypeStep has one case per action, and    *)
(* the lemmas before it say what the shared parts of the actions (Failed,  *)
(* Return, Store, Restart, NextDatabase) do to the worker.                 *)
(***************************************************************************)
EXTENDS UserController, TLAPS

(* The status values that Reconcile writes are well formed. *)
LEMMA StatusType ==
  /\ NoStatus \in StatusSummary
  /\ SuccessStatus \in StatusSummary
  /\ ~NoStatus.ready
  /\ SuccessStatus.ready
  BY DEF NoStatus, SuccessStatus, StatusSummary, NoMessage, SuccessMsg, Message

(* The status that reports an error of reconcile is well formed and not    *)
(* ready.                                                                  *)
LEMMA ErrorStatusType ==
  ASSUME NEW err \in Errors, NEW i \in Nat, NEW j \in Nat
  PROVE  ErrorStatus(err, i, j) \in StatusSummary /\ ~ErrorStatus(err, i, j).ready
  BY DEF ErrorStatus, StatusSummary, Message

(* The placeholder for "no such User" is a User with everything unset. *)
LEMMA GoneType ==
  /\ Gone \in User
  /\ ~Gone.exists
  /\ ~Gone.deleting
  /\ ~Gone.finalizer
  /\ ~Gone.status.ready
<1>1. <<>> \in Seq(DatabaseRef)
  OBVIOUS
<1>2. QED
  BY <1>1, StatusType DEF Gone, User

(* Between two calls of Reconcile the worker holds no current copy. *)
LEMMA IdleType ==
  ASSUME NEW u \in Users
  PROVE  /\ Idle(u) \in Worker
         /\ Idle(u).pc = "idle"
         /\ Idle(u).key = u
         /\ Idle(u).current = FALSE
<1>1. <<>> \in Seq(PrivSpecs)
  OBVIOUS
<1>2. QED
  BY <1>1, StatusType, GoneType DEF Idle, Worker, PC, Errors

(* On the way to setStatus the worker keeps the copy that reconcile worked *)
(* on.                                                                     *)
LEMMA ReportingType ==
  ASSUME NEW x \in Worker, NEW st \in StatusSummary
  PROVE  /\ Reporting(x, st) \in Worker
         /\ Reporting(x, st).pc = "status"
         /\ Reporting(x, st).key = x.key
         /\ Reporting(x, st).user = x.user
         /\ Reporting(x, st).current = x.current
         /\ Reporting(x, st).status = st
<1>1. x.key \in Users /\ x.user \in User /\ x.current \in BOOLEAN
  BY DEF Worker
<1>2. QED
  BY <1>1, IdleType DEF Reporting, Idle, Worker, PC

(* A remote call that answers "ok" was executed, and one that was executed *)
(* was acceptable to the other side.                                       *)
LEMMA AnswersFact ==
  ASSUME NEW v \in Errors, NEW ans \in Errors, NEW applied \in BOOLEAN,
         Answers(v, ans, applied)
  PROVE  /\ applied => v = "ok"
         /\ ans = "ok" => v = "ok" /\ applied
         /\ ans = v \/ ans = "io"
  BY DEF Answers, Errors

(* Every verdict of the API server or an SQL server, and every error that  *)
(* CreateUser and DeleteUser make of it, is one of Errors.                 *)
LEMMA VerdictTypes ==
  /\ UpdateVerdict \in Errors
  /\ PasswordError \in Errors
  /\ \A n : SecretVerdict(n) \in Errors
  /\ \A d, has, files : CreateVerdict(d, has, files) \in Errors
  /\ \A d, has, held, files : DropVerdict(d, has, held, files) \in Errors
  /\ \A d, err, ca : err \in Errors => CreateUserError(d, err, ca) \in Errors
  /\ \A d, err : err \in Errors => DeleteUserError(d, err) \in Errors
<1>1. UpdateVerdict \in Errors
  BY DEF UpdateVerdict, Errors
<1>2. PasswordError \in Errors
  BY DEF PasswordError, Errors
<1>3. \A n : SecretVerdict(n) \in Errors
  BY DEF SecretVerdict, Errors
<1>4. \A d, has, files : CreateVerdict(d, has, files) \in Errors
  BY DEF CreateVerdict, PgOnConnection, PgCreateVerdict, MyCreateVerdict, Errors, Exists, CannotUser
<1>5. \A d, has, held, files : DropVerdict(d, has, held, files) \in Errors
  BY DEF DropVerdict, PgOnConnection, PgDropVerdict, MyDropVerdict, Errors, Undefined, InUse, CannotUser
<1>6. \A d, err, ca : err \in Errors => CreateUserError(d, err, ca) \in Errors
  BY DEF CreateUserError, PgCreateUserError, genPostgresCertFromCA,
     ignoreAlreadyExists, Errors
<1>7. \A d, err : err \in Errors => DeleteUserError(d, err) \in Errors
  BY DEF DeleteUserError, ignoreNotExists, Errors
<1>8. QED
  BY <1>1, <1>2, <1>3, <1>4, <1>5, <1>6, <1>7

(* Whether the certificate files are there is a truth value. *)
LEMMA FilesType == \A d, p, files : FilesAfter(d, p, files) \in BOOLEAN
  BY DEF FilesAfter, PgFilesAfter

(* What an error of reconcile leads to: the end of the call for a          *)
(* deletion, the setStatus call with a not ready status for any other      *)
(* User.                                                                   *)
LEMMA FailedFact ==
  ASSUME TypeOK, NEW x \in Worker, NEW err \in Errors,
         x.key = w.key, x.user.exists, Failed(x, err)
  PROVE  /\ WorkerOK'
         /\ queue' \subseteq Users
         /\ w'.key = w.key
         /\ x.user.deleting => w'.pc = "idle" /\ ~w'.current
         /\ ~x.user.deleting => /\ w'.pc = "status"
                                /\ ~w'.status.ready
                                /\ w'.user = x.user
                                /\ w'.current = x.current
<1>1. w.key \in Users /\ x.i \in Nat /\ x.j \in Nat /\ queue \subseteq Users
  BY DEF TypeOK, WorkerOK, Worker
<1>2. CASE x.user.deleting
  <2>1. Return(TRUE)
    BY <1>2 DEF Failed
  <2>2. w' = Idle(w.key) /\ queue' = queue \cup {w.key}
    BY <2>1 DEF Return
  <2>3. WorkerOK' /\ w'.pc = "idle" /\ w'.key = w.key /\ ~w'.current
    BY <1>1, <2>2, IdleType DEF WorkerOK, AtDatabase
  <2>4. QED
    BY <1>1, <1>2, <2>2, <2>3
<1>3. CASE ~x.user.deleting
  <2> DEFINE st == ErrorStatus(err, x.i, x.j)
  <2>1. w' = Reporting(x, st) /\ queue' = queue
    BY <1>3 DEF Failed
  <2>2. st \in StatusSummary /\ ~st.ready
    BY <1>1, ErrorStatusType
  <2> HIDE DEF st
  <2>3. /\ w' \in Worker
        /\ w'.pc = "status"
        /\ w'.key = w.key
        /\ w'.user = x.user
        /\ w'.current = x.current
        /\ w'.status = st
    BY <2>1, <2>2, ReportingType
  <2>4. WorkerOK'
    BY <1>3, <2>3 DEF WorkerOK, AtDatabase
  <2>5. QED
    BY <1>1, <1>3, <2>1, <2>2, <2>3, <2>4
<1>4. QED
  BY <1>2, <1>3

(* What the end of a Reconcile call leaves: an idle worker and a queue of  *)
(* User names.                                                             *)
LEMMA ReturnFact ==
  ASSUME TypeOK, w' = Idle(w.key), queue' = queue \/ queue' = queue \cup {w.key}
  PROVE  /\ WorkerOK' /\ queue' \subseteq Users
         /\ w'.pc = "idle" /\ w'.key = w.key /\ ~w'.current
<1>1. w.key \in Users /\ queue \subseteq Users
  BY DEF TypeOK, WorkerOK, Worker
<1>2. w' \in Worker /\ w'.pc = "idle" /\ w'.key = w.key /\ ~w'.current
  BY <1>1, IdleType
<1>3. QED
  BY <1>1, <1>2 DEF WorkerOK, AtDatabase

(* A write to the API server stores a User. *)
LEMMA StoreType ==
  ASSUME TypeOK, NEW u \in Users, NEW obj \in User, Store(u, obj)
  PROVE  api' \in [Users -> User] /\ synced' \in [Users -> BOOLEAN]
  BY DEF TypeOK, Store

(* A new manager process starts well formed, with an idle worker. *)
LEMMA RestartType ==
  ASSUME TypeOK, Restart
  PROVE  /\ cache' \in [Users -> User]
         /\ synced' \in [Users -> BOOLEAN]
         /\ secretsSeen' \in [SecretNames -> SecretState]
         /\ queue' \subseteq Users
         /\ WorkerOK'
         /\ w'.pc = "idle" /\ w'.key = w.key /\ ~w'.current
<1>1. w.key \in Users
  BY DEF TypeOK, WorkerOK, Worker
<1>2. QED
  BY <1>1, IdleType DEF TypeOK, Restart, WorkerOK, AtDatabase

(* A step of the worker that keeps its copy of the User and stays within   *)
(* the loops leaves it well formed.                                        *)
LEMMA MoveType ==
  ASSUME TypeOK, w' \in Worker, w'.user = w.user, w.user.exists,
         w'.pc \in AtDatabase \cup {"database"},
         w'.i \in 1..(Len(w.user.refs) + 1),
         w'.pc \in AtDatabase => w'.i <= Len(w.user.refs) /\ w'.j >= 1,
         w'.pc \in {"revoke", "delSecret"} => w.user.deleting,
         w'.pc \in {"create", "secret", "grant"} => ~w.user.deleting
  PROVE  WorkerOK'
  BY DEF WorkerOK, AtDatabase

(* The reference at the loop's position is an entry of the spec. *)
LEMMA RefType ==
  ASSUME TypeOK, w.pc \in AtDatabase
  PROVE  /\ Ref \in DatabaseRef
         /\ Server \in Servers
         /\ w.key \in Users
         /\ w.i \in Nat
<1>1. /\ w.user.refs \in Seq(DatabaseRef)
      /\ w.i \in 1..Len(w.user.refs)
  BY DEF TypeOK, WorkerOK, Worker, User
<1>2. Ref \in DatabaseRef
  BY <1>1 DEF Ref
<1>3. Ref.name \in Databases
  BY <1>2 DEF DatabaseRef
<1>4. Conf[Ref.name] \in DatabaseSpec
  BY <1>3, ResourceAssumption
<1>5. Server \in Servers
  BY <1>4 DEF Server, ServerOf, DatabaseSpec
<1>6. QED
  BY <1>2, <1>5 DEF TypeOK, WorkerOK, Worker

(* The loops over user.Spec.Databases move to the next position and keep   *)
(* the copy of the User.                                                   *)
LEMMA NextDatabaseType ==
  ASSUME TypeOK, w.pc \in AtDatabase, w' = NextDatabase
  PROVE  /\ WorkerOK'
         /\ w'.pc = "database"
         /\ w'.i = w.i + 1
         /\ w'.key = w.key
         /\ w'.user = w.user
         /\ w'.current = w.current
<1>1. /\ w \in Worker
      /\ w.user \in User
      /\ w.i \in 1..Len(w.user.refs)
      /\ w.user.exists
      /\ Len(w.user.refs) \in Nat
  BY DEF TypeOK, WorkerOK, Worker, User, AtDatabase
<1>2. <<>> \in Seq(PrivSpecs) /\ "ok" \in Errors
  BY DEF Errors
<1>3. w' \in Worker
  <2>1. w.i + 1 \in Nat
    BY <1>1
  <2>2. QED
    BY <1>1, <1>2, <2>1 DEF NextDatabase, Worker, PC
<1>4. /\ w'.pc = "database"
      /\ w'.i = w.i + 1
      /\ w'.key = w.key
      /\ w'.user = w.user
      /\ w'.current = w.current
  BY <1>1 DEF NextDatabase, Worker
<1>5. WorkerOK'
  BY <1>1, <1>3, <1>4, MoveType DEF AtDatabase
<1>6. QED
  BY <1>4, <1>5

(* A failed RevokePrivileges leads to the deferred deletion of the Secret. *)
LEMMA DelSecretType ==
  ASSUME TypeOK, w.pc = "revoke", NEW e \in Errors,
         w' = [w EXCEPT !.pc = "delSecret", !.err = e]
  PROVE  /\ WorkerOK'
         /\ w'.pc = "delSecret"
         /\ w'.err = e
         /\ w'.i = w.i
         /\ w'.key = w.key
         /\ w'.user = w.user
         /\ w'.current = w.current
<1>1. /\ w \in Worker
      /\ w.user \in User
      /\ w.i \in 1..Len(w.user.refs)
      /\ w.j >= 1
      /\ w.user.exists
      /\ w.user.deleting
      /\ Len(w.user.refs) \in Nat
  BY DEF TypeOK, WorkerOK, Worker, User, AtDatabase
<1>2. w' \in Worker
  BY <1>1 DEF Worker, PC
<1>3. /\ w'.pc = "delSecret"
      /\ w'.err = e
      /\ w'.i = w.i
      /\ w'.j = w.j
      /\ w'.key = w.key
      /\ w'.user = w.user
      /\ w'.current = w.current
  BY <1>1 DEF Worker
<1>4. WorkerOK'
  BY <1>1, <1>2, <1>3, MoveType DEF AtDatabase
<1>5. QED
  BY <1>3, <1>4

(* The initial state is well formed. *)
LEMMA TypeInit ==
  ASSUME Init
  PROVE  TypeOK
<1>1. api \in [Users -> User] /\ cache \in [Users -> User]
  BY GoneType DEF Init
<1>2. secrets \in [SecretNames -> SecretState] /\ secretsSeen \in [SecretNames -> SecretState]
  BY DEF Init, SecretState
<1>3. WorkerOK
  BY IdleType DEF Init, WorkerOK, AtDatabase
<1>4. privileges \in [PrivNames -> Privileges]
  BY ControllerAssumption DEF Init, Privileges
<1>5. QED
  BY <1>1, <1>2, <1>3, <1>4, ControllerAssumption DEF Init, TypeOK

(* Every step keeps the variables and the worker well formed. *)
LEMMA TypeStep ==
  ASSUME TypeOK, [Next]_vars
  PROVE  TypeOK'
<1> USE DEF users, inputs, sql
<1>0. /\ w \in Worker /\ w.key \in Users /\ w.user \in User
      /\ w.i \in Nat /\ w.j \in Nat /\ w.current \in BOOLEAN
      /\ w.privs \in Seq(PrivSpecs)
  BY DEF TypeOK, WorkerOK, Worker
<1>1. ASSUME NEW u \in Users, Fetch(u)
      PROVE  TypeOK'
  <2>1. cache[u] \in User
    BY DEF TypeOK
  <2>2. Idle(u) \in Worker /\ Idle(u).pc = "idle"
    BY IdleType
  <2>3. CASE ~cache[u].exists \/ (cache[u].deleting /\ ~cache[u].finalizer)
    <3>1. w' = Idle(u)
      BY <1>1, <2>3 DEF Fetch
    <3>2. WorkerOK'
      BY <2>2, <3>1 DEF WorkerOK, AtDatabase
    <3>3. QED
      BY <1>1, <3>2 DEF Fetch, TypeOK
  <2>4. CASE ~(~cache[u].exists \/ (cache[u].deleting /\ ~cache[u].finalizer))
    <3>1. w' = [Idle(u) EXCEPT
                      !.pc = IF cache[u].finalizer THEN "database" ELSE "finalizer",
                      !.user = cache[u],
                      !.current = synced[u],
                      !.i = IF cache[u].finalizer THEN 1 ELSE 0]
      BY <1>1, <2>4 DEF Fetch
    <3>2. synced[u] \in BOOLEAN
      BY DEF TypeOK
    <3>3. w' \in Worker
      BY <2>1, <2>2, <3>1, <3>2 DEF Worker, PC
    <3>4. WorkerOK'
      BY <2>1, <2>2, <2>4, <3>1, <3>3 DEF WorkerOK, AtDatabase, Worker, User
    <3>5. QED
      BY <1>1, <3>4 DEF Fetch, TypeOK
  <2>5. QED
    BY <2>3, <2>4
<1>2. CASE AddFinalizer
  <2>1. PICK ans \in Errors, applied \in BOOLEAN :
          /\ Answers(UpdateVerdict, ans, applied)
          /\ IF applied
             THEN Store(w.key, [api[w.key] EXCEPT !.finalizer = TRUE])
             ELSE UNCHANGED <<api, synced>>
          /\ IF ans = "ok"
             THEN /\ w' = [w EXCEPT !.user.finalizer = TRUE, !.pc = "database", !.i = 1]
                  /\ UNCHANGED queue
             ELSE Failed([w EXCEPT !.user.finalizer = TRUE,
                                   !.current = w.current /\ ~applied], ans)
    BY <1>2 DEF AddFinalizer
  <2>2. api' \in [Users -> User] /\ synced' \in [Users -> BOOLEAN]
    <3>1. [api[w.key] EXCEPT !.finalizer = TRUE] \in User
      BY <1>0 DEF TypeOK, User
    <3>2. QED
      BY <1>0, <2>1, <3>1, StoreType DEF TypeOK
  <2>3. WorkerOK' /\ queue' \subseteq Users
    <3>1. w.pc = "finalizer" /\ w.user.exists /\ ~w.user.deleting
      BY <1>2 DEF AddFinalizer, TypeOK, WorkerOK
    <3>2. CASE ans = "ok"
      <4>1. w' = [w EXCEPT !.user.finalizer = TRUE, !.pc = "database", !.i = 1]
        BY <2>1, <3>2
      <4>2. w' \in Worker
        BY <1>0, <4>1 DEF Worker, PC, User
      <4>3. /\ w'.pc = "database" /\ w'.i = 1
            /\ w'.user.exists /\ ~w'.user.deleting
            /\ Len(w'.user.refs) \in Nat
        BY <1>0, <3>1, <4>1 DEF Worker, User
      <4>4. WorkerOK'
        BY <4>2, <4>3 DEF WorkerOK, AtDatabase
      <4>5. QED
        BY <2>1, <3>2, <4>4 DEF TypeOK
    <3>3. CASE ans # "ok"
      <4> DEFINE x == [w EXCEPT !.user.finalizer = TRUE,
                                !.current = w.current /\ ~applied]
      <4>1. x \in Worker /\ x.key = w.key /\ x.user.exists
        BY <1>0, <3>1 DEF Worker, User
      <4>2. Failed(x, ans)
        BY <2>1, <3>3
      <4> HIDE DEF x
      <4>3. QED
        BY <4>1, <4>2, FailedFact
    <3>4. QED
      BY <3>2, <3>3
  <2>4. QED
    BY <1>2, <2>2, <2>3 DEF AddFinalizer, TypeOK
<1>3. CASE GetDatabase
  <2>1. w.pc = "database" /\ w.i \in 1..Len(w.user.refs) /\ w.user.exists
    BY <1>0, <1>3 DEF GetDatabase, TypeOK, WorkerOK, AtDatabase
  <2>2. WorkerOK' /\ queue' \subseteq Users
    <3>1. CASE Ref.name \in databases
      <4>1. w' = [w EXCEPT !.pc = "privileges", !.j = 1] /\ queue' = queue
        BY <1>3, <3>1 DEF GetDatabase
      <4>2. w' \in Worker
        BY <1>0, <4>1 DEF Worker, PC
      <4>3. w'.pc = "privileges" /\ w'.i = w.i /\ w'.user = w.user /\ w'.j = 1
        BY <1>0, <4>1 DEF Worker
      <4>4. QED
        BY <2>1, <4>1, <4>2, <4>3 DEF TypeOK, WorkerOK, AtDatabase
    <3>2. CASE Ref.name \notin databases
      <4>1. Failed(w, "NotFound") /\ "NotFound" \in Errors
        BY <1>3, <3>2 DEF GetDatabase, Errors
      <4>2. QED
        BY <1>0, <2>1, <4>1, FailedFact
    <3>3. QED
      BY <3>1, <3>2
  <2>3. QED
    BY <1>3, <2>2 DEF GetDatabase, TypeOK
<1>4. ASSUME w.pc \in AtDatabase
      PROVE  /\ w.i \in 1..Len(w.user.refs)
             /\ Len(w.user.refs) \in Nat
             /\ w.j \in Nat /\ w.j >= 1
             /\ w.user.exists
             /\ w.user.deleting \in BOOLEAN
             /\ Ref \in DatabaseRef
             /\ Server \in Servers
             /\ [w EXCEPT !.j = 0] \in Worker
             /\ [w EXCEPT !.j = 0].key = w.key
             /\ [w EXCEPT !.j = 0].user = w.user
  <2>1. Ref \in DatabaseRef /\ Server \in Servers
    BY <1>4, RefType
  <2>2. /\ [w EXCEPT !.j = 0] \in Worker
        /\ [w EXCEPT !.j = 0].key = w.key
        /\ [w EXCEPT !.j = 0].user = w.user
    BY <1>0 DEF Worker
  <2>3. Len(w.user.refs) \in Nat /\ w.user.deleting \in BOOLEAN
    BY <1>0 DEF User
  <2>4. QED
    BY <1>0, <1>4, <2>1, <2>2, <2>3 DEF TypeOK, WorkerOK, AtDatabase
<1>5. CASE GetPrivileges
  <2>1. w.pc = "privileges" /\ w.pc \in AtDatabase
    BY <1>5 DEF GetPrivileges, AtDatabase
  <2> DEFINE p == privileges[Ref.privileges[w.j]]
  <2>2. p \in Privileges
    <3>1. Ref.privileges \in Seq(PrivNames)
      BY <1>4, <2>1 DEF DatabaseRef
    <3>2. w.j \in 1..Len(Ref.privileges)
      BY <1>4, <2>1, <1>5 DEF GetPrivileges
    <3>3. Ref.privileges[w.j] \in PrivNames
      BY <3>1, <3>2
    <3>4. QED
      BY <3>3 DEF TypeOK
  <2>3. WorkerOK' /\ queue' \subseteq Users
    <3>1. CASE p.exists
      <4>1. w' = [w EXCEPT !.j = @ + 1, !.privs = @ \o p.list] /\ queue' = queue
        BY <1>5, <3>1 DEF GetPrivileges
      <4> DEFINE all == w.privs \o p.list
      <4>2. all \in Seq(PrivSpecs) /\ w' = [w EXCEPT !.j = @ + 1, !.privs = all]
        BY <1>0, <2>2, <4>1 DEF Privileges
      <4> HIDE DEF p, all
      <4>3. w' \in Worker
        <5> DEFINE seqs == Seq(PrivSpecs)
        <5>1. w.j + 1 \in Nat
          BY <1>0
        <5>2. all \in seqs /\ w \in [pc : PC, key : Users, user : User,
                current : BOOLEAN, i : Nat, j : Nat, privs : seqs,
                err : Errors, files : BOOLEAN, status : StatusSummary]
          BY <1>0, <4>2 DEF Worker
        <5> HIDE DEF seqs
        <5>3. w' \in [pc : PC, key : Users, user : User,
                current : BOOLEAN, i : Nat, j : Nat, privs : seqs,
                err : Errors, files : BOOLEAN, status : StatusSummary]
          BY <4>2, <5>1, <5>2
        <5>4. QED
          BY <5>3 DEF seqs, Worker
      <4>4. w'.pc = "privileges" /\ w'.i = w.i /\ w'.user = w.user /\ w'.j = w.j + 1
        BY <1>0, <2>1, <4>2 DEF Worker
      <4>5. WorkerOK'
        BY <1>4, <2>1, <4>3, <4>4, MoveType DEF AtDatabase
      <4>6. QED
        BY <4>1, <4>5 DEF TypeOK
    <3>2. CASE ~p.exists
      <4>1. Failed(w, "NotFound") /\ "NotFound" \in Errors
        BY <1>5, <3>2 DEF GetPrivileges, Errors
      <4>2. QED
        BY <1>0, <1>4, <2>1, <4>1, FailedFact
    <3>3. QED
      BY <3>1, <3>2
  <2>4. QED
    BY <1>5, <2>3 DEF GetPrivileges, TypeOK
<1>6. CASE Connect
  <2>1. w.pc = "privileges" /\ w.pc \in AtDatabase
    BY <1>6 DEF Connect, AtDatabase
  <2>2. CertFiles(Ref.name) \in BOOLEAN
    BY <1>4, <2>1, ResourceAssumption DEF CertFiles, DatabaseRef, DatabaseSpec
  <2>3. WorkerOK' /\ queue' \subseteq Users
    <3>1. CASE /\ w' = [w EXCEPT !.pc = IF w.user.deleting THEN "revoke" ELSE "create",
                                 !.j = 1,
                                 !.files = CertFiles(Ref.name)]
               /\ UNCHANGED queue
      <4>1. w' \in Worker
        BY <1>0, <2>2, <3>1 DEF Worker, PC
      <4>2. /\ w'.pc = IF w.user.deleting THEN "revoke" ELSE "create"
            /\ w'.i = w.i /\ w'.user = w.user /\ w'.j = 1
        BY <1>0, <2>1, <3>1 DEF Worker
      <4>3. WorkerOK'
        BY <1>4, <2>1, <4>1, <4>2, MoveType DEF AtDatabase
      <4>4. QED
        BY <3>1, <4>3 DEF TypeOK
    <3>2. CASE \E err \in Errors : Failed([w EXCEPT !.j = 0], err)
      BY <1>4, <2>1, <3>2, FailedFact
    <3>3. "secret" \in Errors /\ "connect" \in Errors
      BY DEF Errors
    <3>4. QED
      BY <1>6, <3>1, <3>2, <3>3 DEF Connect
  <2>4. QED
    BY <1>6, <2>3 DEF Connect, TypeOK
<1>7. CASE PasswordMissing
  <2>1. w.pc \in AtDatabase
    BY <1>7 DEF PasswordMissing, AtDatabase
  <2>2. WorkerOK' /\ queue' \subseteq Users
    BY <1>4, <1>7, <2>1, VerdictTypes, FailedFact DEF PasswordMissing
  <2>3. QED
    BY <1>7, <2>2 DEF PasswordMissing, TypeOK
<1>8. CASE CreateUser
  <2>1. w.pc = "create" /\ w.pc \in AtDatabase /\ ~w.user.deleting
    BY <1>8 DEF CreateUser, AtDatabase, TypeOK, WorkerOK
  <2>2. PICK ans \in Errors, applied \in BOOLEAN :
          /\ accounts' = IF applied
                         THEN [accounts EXCEPT ![Server] = @ \cup {w.key}]
                         ELSE accounts
          /\ LET err == CreateUserError(Ref.name, ans, caKey[Ref.name])
             IN  \/ /\ err = "ok"
                    /\ w' = [w EXCEPT !.pc = IF CreateUserData(Ref.name, ans)
                                             THEN "secret" ELSE "grant"]
                    /\ UNCHANGED <<queue, cache, synced, secretsSeen>>
                 \/ /\ err \notin {"ok", "panic"}
                    /\ Failed([w EXCEPT !.j = 0], err)
                    /\ UNCHANGED <<cache, synced, secretsSeen>>
                 \/ /\ err = "panic"
                    /\ Restart
    BY <1>8 DEF CreateUser
  <2> DEFINE err == CreateUserError(Ref.name, ans, caKey[Ref.name])
  <2>3. err \in Errors
    BY VerdictTypes
  <2>4. accounts' \in [Servers -> SUBSET Users]
    BY <1>0, <1>4, <2>1, <2>2 DEF TypeOK
  <2>5. /\ WorkerOK' /\ queue' \subseteq Users
        /\ cache' \in [Users -> User] /\ synced' \in [Users -> BOOLEAN]
        /\ secretsSeen' \in [SecretNames -> SecretState]
    <3>1. CASE /\ w' = [w EXCEPT !.pc = IF CreateUserData(Ref.name, ans)
                                        THEN "secret" ELSE "grant"]
               /\ UNCHANGED <<queue, cache, synced, secretsSeen>>
      <4>1. w' \in Worker
        BY <1>0, <3>1 DEF Worker, PC
      <4>2. w'.pc \in {"secret", "grant"} /\ w'.i = w.i /\ w'.user = w.user /\ w'.j = w.j
        BY <1>0, <3>1 DEF Worker
      <4>3. WorkerOK'
        BY <1>4, <2>1, <4>1, <4>2, MoveType DEF AtDatabase
      <4>4. QED
        BY <3>1, <4>3 DEF TypeOK
    <3>2. CASE Failed([w EXCEPT !.j = 0], err) /\ UNCHANGED <<cache, synced, secretsSeen>>
      <4>1. WorkerOK' /\ queue' \subseteq Users
        BY <1>4, <2>1, <2>3, <3>2, FailedFact
      <4>2. QED
        BY <3>2, <4>1 DEF TypeOK
    <3>3. CASE Restart
      BY <3>3, RestartType
    <3>4. QED
      BY <2>2, <3>1, <3>2, <3>3
  <2>6. QED
    BY <1>8, <2>4, <2>5 DEF CreateUser, TypeOK
<1>9. CASE CreateSecret
  <2>1. w.pc = "secret" /\ w.pc \in AtDatabase /\ ~w.user.deleting
    BY <1>9 DEF CreateSecret, AtDatabase, TypeOK, WorkerOK
  <2>2. ASSUME w' = [w EXCEPT !.pc = "grant"]
        PROVE  WorkerOK'
    <3>1. w' \in Worker
      BY <1>0, <2>2 DEF Worker, PC
    <3>2. w'.pc = "grant" /\ w'.i = w.i /\ w'.user = w.user /\ w'.j = w.j
      BY <1>0, <2>2 DEF Worker
    <3>3. QED
      BY <1>4, <2>1, <3>1, <3>2, MoveType DEF AtDatabase
  <2>3. CASE SeesSecret(Ref.created) /\ w' = [w EXCEPT !.pc = "grant"] /\ UNCHANGED <<secrets, queue>>
    BY <1>9, <2>2, <2>3 DEF CreateSecret, TypeOK
  <2>4. CASE \E ans \in Errors, applied \in BOOLEAN :
             /\ Answers(SecretVerdict(Ref.created), ans, applied)
             /\ secrets' = IF applied THEN [secrets EXCEPT ![Ref.created] = w.key]
                                      ELSE secrets
             /\ IF ans = "ok"
                THEN w' = [w EXCEPT !.pc = "grant"] /\ UNCHANGED queue
                ELSE Failed([w EXCEPT !.j = 0], ans)
    <3>1. PICK ans \in Errors, applied \in BOOLEAN :
             /\ Answers(SecretVerdict(Ref.created), ans, applied)
             /\ secrets' = IF applied THEN [secrets EXCEPT ![Ref.created] = w.key]
                                      ELSE secrets
             /\ IF ans = "ok"
                THEN w' = [w EXCEPT !.pc = "grant"] /\ UNCHANGED queue
                ELSE Failed([w EXCEPT !.j = 0], ans)
      BY <2>4
    <3>2. secrets' \in [SecretNames -> SecretState]
      <4>1. w.key \in SecretState
        BY <1>0 DEF SecretState
      <4>2. QED
        BY <3>1, <4>1 DEF TypeOK
    <3>3. WorkerOK' /\ queue' \subseteq Users
      <4>1. CASE ans = "ok"
        BY <2>2, <3>1, <4>1 DEF TypeOK
      <4>2. CASE ans # "ok"
        BY <1>4, <2>1, <3>1, <4>2, FailedFact
      <4>3. QED
        BY <4>1, <4>2
    <3>4. QED
      BY <1>9, <3>2, <3>3 DEF CreateSecret, TypeOK
  <2>5. QED
    BY <1>9, <2>3, <2>4 DEF CreateSecret
<1>10. ASSUME w.pc \in {"grant", "revoke"}, w.j <= Len(w.privs)
       PROVE  Privilege \in PrivSpecs /\ w.pc \in AtDatabase
  <2>1. w.j \in 1..Len(w.privs) /\ w.pc \in AtDatabase
    BY <1>0, <1>4, <1>10 DEF AtDatabase
  <2>2. QED
    BY <1>0, <2>1 DEF Privilege
<1>11. ASSUME NEW k \in Nat, k >= 1, w.pc \in {"grant", "revoke"}, NEW f \in BOOLEAN,
              w' = [w EXCEPT !.j = k, !.files = f]
       PROVE  WorkerOK'
  <2>1. w.pc \in AtDatabase
    BY <1>11 DEF AtDatabase
  <2>2. w' \in Worker
    BY <1>0, <1>11 DEF Worker
  <2>3. w'.pc = w.pc /\ w'.i = w.i /\ w'.user = w.user /\ w'.j = k
    BY <1>0, <1>11 DEF Worker
  <2>4. w.pc = "grant" => ~w.user.deleting
    BY DEF TypeOK, WorkerOK
  <2>5. w.pc = "revoke" => w.user.deleting
    BY DEF TypeOK, WorkerOK
  <2>6. CASE w.pc = "grant"
    BY <1>4, <1>11, <2>1, <2>2, <2>3, <2>4, <2>6, MoveType DEF AtDatabase
  <2>7. CASE w.pc = "revoke"
    BY <1>4, <1>11, <2>1, <2>2, <2>3, <2>5, <2>7, MoveType DEF AtDatabase
  <2>8. QED
    BY <1>11, <2>6, <2>7
<1>12. CASE Grant
  <2>1. Privilege \in PrivSpecs /\ w.pc \in AtDatabase /\ w.pc = "grant"
    BY <1>10, <1>12 DEF Grant
  <2>2. PICK ans \in Errors, applied \in BOOLEAN :
          /\ grants' = IF applied
                       THEN [grants EXCEPT ![Server][w.key] = @ \cup {Privilege}]
                       ELSE grants
          /\ IF ans = "ok"
             THEN /\ w' = [w EXCEPT !.j = @ + 1,
                                    !.files = FilesAfter(Ref.name, Privilege, @)]
                  /\ UNCHANGED queue
             ELSE Failed(w, ans)
    BY <1>12 DEF Grant
  <2>3. grants' \in [Servers -> [Users -> SUBSET PrivSpecs]]
    BY <1>0, <1>4, <2>1, <2>2 DEF TypeOK
  <2>4. WorkerOK' /\ queue' \subseteq Users
    <3>1. CASE ans = "ok"
      <4> DEFINE f == FilesAfter(Ref.name, Privilege, w.files)
      <4>1. w' = [w EXCEPT !.j = w.j + 1, !.files = f] /\ queue' = queue
        BY <2>2, <3>1
      <4>2. f \in BOOLEAN
        BY FilesType
      <4> HIDE DEF f
      <4>3. w.j + 1 \in Nat /\ w.j + 1 >= 1
        BY <1>0
      <4>4. WorkerOK'
        BY <1>11, <2>1, <4>1, <4>2, <4>3
      <4>5. QED
        BY <4>1, <4>4 DEF TypeOK
    <3>2. CASE ans # "ok"
      BY <1>0, <1>4, <2>1, <2>2, <3>2, FailedFact
    <3>3. QED
      BY <3>1, <3>2
  <2>5. QED
    BY <1>12, <2>3, <2>4 DEF Grant, TypeOK
<1>13. CASE CloseApplied
  <2>1. w.pc = "grant" /\ w.pc \in AtDatabase
    BY <1>13 DEF CloseApplied, AtDatabase
  <2>2. WorkerOK'
    BY <1>0, <1>4, <1>13, <2>1, NextDatabaseType DEF CloseApplied
  <2>3. QED
    BY <1>13, <2>2 DEF CloseApplied, TypeOK
<1>14. CASE Revoke
  <2>1. Privilege \in PrivSpecs /\ w.pc \in AtDatabase /\ w.pc = "revoke"
    BY <1>10, <1>14 DEF Revoke
  <2>2. PICK ans \in Errors, applied \in BOOLEAN :
          /\ grants' = IF applied
                       THEN [grants EXCEPT ![Server][w.key] = @ \ {Privilege}]
                       ELSE grants
          /\ w' = IF RevokeError(Ref.name, ans) = "ok"
                  THEN [w EXCEPT !.j = IF ans = "ok" THEN @ + 1 ELSE Len(w.privs) + 1,
                                 !.files = FilesAfter(Ref.name, Privilege, @)]
                  ELSE [w EXCEPT !.pc = "delSecret", !.err = ans]
    BY <1>14 DEF Revoke
  <2>3. grants' \in [Servers -> [Users -> SUBSET PrivSpecs]]
    BY <1>0, <1>4, <2>1, <2>2 DEF TypeOK
  <2>4. WorkerOK'
    <3>1. CASE RevokeError(Ref.name, ans) = "ok"
      <4> DEFINE f == FilesAfter(Ref.name, Privilege, w.files)
                 k == IF ans = "ok" THEN w.j + 1 ELSE Len(w.privs) + 1
      <4>1. w' = [w EXCEPT !.j = k, !.files = f]
        BY <2>2, <3>1
      <4>2. f \in BOOLEAN /\ k \in Nat /\ k >= 1
        BY <1>0, FilesType
      <4> HIDE DEF f, k
      <4>3. QED
        BY <1>11, <2>1, <4>1, <4>2
    <3>2. CASE RevokeError(Ref.name, ans) # "ok"
      BY <2>1, <2>2, <3>2, DelSecretType
    <3>3. QED
      BY <3>1, <3>2
  <2>5. QED
    BY <1>14, <2>3, <2>4 DEF Revoke, TypeOK
<1>15. CASE DropUser
  <2>1. w.pc = "revoke" /\ w.pc \in AtDatabase
    BY <1>15 DEF DropUser, AtDatabase
  <2>2. PICK ans \in Errors, applied \in BOOLEAN :
          /\ accounts' = IF applied
                         THEN [accounts EXCEPT ![Server] = @ \ {w.key}]
                         ELSE accounts
          /\ grants' = IF applied
                       THEN [grants EXCEPT ![Server][w.key] = {}]
                       ELSE grants
          /\ w' = [w EXCEPT !.pc = "delSecret",
                            !.err = DeleteUserError(Ref.name, ans)]
    BY <1>15 DEF DropUser
  <2>3. accounts' \in [Servers -> SUBSET Users]
    BY <1>0, <1>4, <2>1, <2>2 DEF TypeOK
  <2>4. grants' \in [Servers -> [Users -> SUBSET PrivSpecs]]
    BY <1>0, <1>4, <2>1, <2>2 DEF TypeOK
  <2>5. WorkerOK'
    BY <2>1, <2>2, VerdictTypes, DelSecretType
  <2>6. QED
    BY <1>15, <2>3, <2>4, <2>5 DEF DropUser, TypeOK
<1>16. CASE DeleteSecret
  <2>1. w.pc = "delSecret" /\ w.pc \in AtDatabase
    BY <1>16 DEF DeleteSecret, AtDatabase
  <2>2. secrets' \in [SecretNames -> SecretState]
    <3>1. "absent" \in SecretState
      BY DEF SecretState
    <3>2. QED
      BY <1>16, <3>1 DEF DeleteSecret, TypeOK
  <2>3. WorkerOK' /\ queue' \subseteq Users
    <3>1. CASE w.err = "ok"
      <4>1. w' = NextDatabase /\ queue' = queue
        BY <1>16, <3>1 DEF DeleteSecret
      <4>2. WorkerOK'
        BY <1>4, <2>1, <4>1, NextDatabaseType
      <4>3. QED
        BY <4>1, <4>2 DEF TypeOK
    <3>2. CASE w.err # "ok"
      <4>1. Failed(w, w.err) /\ w.err \in Errors
        BY <1>0, <1>16, <3>2 DEF DeleteSecret, Worker
      <4>2. QED
        BY <1>0, <1>4, <2>1, <4>1, FailedFact
    <3>3. QED
      BY <3>1, <3>2
  <2>4. QED
    BY <1>16, <2>2, <2>3 DEF DeleteSecret, TypeOK
<1>17. CASE RemoveFinalizer
  <2>1. PICK ans \in Errors, applied \in BOOLEAN :
          /\ IF applied THEN Store(w.key, Gone) ELSE UNCHANGED <<api, synced>>
          /\ Return(ans # "ok")
    BY <1>17 DEF RemoveFinalizer
  <2>2. api' \in [Users -> User] /\ synced' \in [Users -> BOOLEAN]
    BY <1>0, <2>1, GoneType, StoreType DEF TypeOK
  <2>3. WorkerOK' /\ queue' \subseteq Users
    BY <2>1, ReturnFact DEF Return
  <2>4. QED
    BY <1>17, <2>2, <2>3 DEF RemoveFinalizer, TypeOK
<1>18. CASE Succeed
  <2>1. WorkerOK' /\ queue' \subseteq Users
    <3>1. CASE w.user.status.ready
      BY <1>18, <3>1, ReturnFact DEF Succeed, Return
    <3>2. CASE ~w.user.status.ready
      <4>1. w' = Reporting(w, SuccessStatus) /\ queue' = queue
        BY <1>18, <3>2 DEF Succeed
      <4>2. w' \in Worker /\ w'.pc = "status" /\ w'.user = w.user
        BY <1>0, <4>1, StatusType, ReportingType
      <4>3. w.user.exists /\ ~w.user.deleting
        BY <1>18 DEF Succeed, TypeOK, WorkerOK
      <4>4. WorkerOK'
        BY <4>2, <4>3 DEF WorkerOK, AtDatabase
      <4>5. QED
        BY <4>1, <4>4 DEF TypeOK
    <3>3. QED
      BY <3>1, <3>2
  <2>2. QED
    BY <1>18, <2>1 DEF Succeed, TypeOK
<1>19. CASE SetStatus
  <2>1. PICK ans \in Errors, applied \in BOOLEAN :
          /\ IF applied
             THEN Store(w.key, [api[w.key] EXCEPT !.status = w.status])
             ELSE UNCHANGED <<api, synced>>
          /\ Return(ans # "ok")
    BY <1>19 DEF SetStatus
  <2>2. [api[w.key] EXCEPT !.status = w.status] \in User
    BY <1>0 DEF TypeOK, User, Worker
  <2>3. api' \in [Users -> User] /\ synced' \in [Users -> BOOLEAN]
    BY <1>0, <2>1, <2>2, StoreType DEF TypeOK
  <2>4. WorkerOK' /\ queue' \subseteq Users
    BY <2>1, ReturnFact DEF Return
  <2>5. QED
    BY <1>19, <2>3, <2>4 DEF SetStatus, TypeOK
<1>20. ASSUME NEW u \in Users, SyncUser(u)
       PROVE  TypeOK'
  BY <1>20 DEF SyncUser, TypeOK, WorkerOK
<1>21. ASSUME NEW n \in SecretNames, SyncSecret(n)
       PROVE  TypeOK'
  BY <1>21 DEF SyncSecret, TypeOK, WorkerOK
<1>22. CASE Resync
  BY <1>22 DEF Resync, TypeOK, WorkerOK
<1>23. CASE Crash
  BY <1>23, RestartType DEF Crash, TypeOK
<1>24. CASE Heal
  BY <1>24 DEF Heal, TypeOK, WorkerOK
<1>25. ASSUME NEW u \in Users, Outdate(u)
       PROVE  WorkerOK'
  <2> DEFINE c == w.current /\ w.key # u
  <2>1. c \in BOOLEAN /\ w' = [w EXCEPT !.current = c]
    BY <1>25 DEF Outdate
  <2> HIDE DEF c
  <2>2. /\ w' \in Worker /\ w'.pc = w.pc /\ w'.user = w.user
        /\ w'.i = w.i /\ w'.j = w.j
    BY <1>0, <2>1 DEF Worker
  <2>3. QED
    BY <2>2 DEF TypeOK, WorkerOK
<1>26. ASSUME NEW u \in Users, ApplyUser(u)
       PROVE  TypeOK'
  <2>1. PICK refs \in Specs[u] : Store(u, NewUser(refs))
    BY <1>26 DEF ApplyUser
  <2>2. refs \in Seq(DatabaseRef)
    BY ResourceAssumption
  <2>3. NewUser(refs) \in User
    BY <2>2, StatusType DEF NewUser, User
  <2>4. api' \in [Users -> User] /\ synced' \in [Users -> BOOLEAN]
    BY <2>1, <2>3, StoreType
  <2>5. WorkerOK'
    BY <1>25, <1>26 DEF ApplyUser
  <2>6. QED
    BY <1>26, <2>4, <2>5 DEF ApplyUser, TypeOK
<1>27. ASSUME NEW u \in Users, DeleteUser(u)
       PROVE  TypeOK'
  <2> DEFINE obj == IF api[u].finalizer THEN [api[u] EXCEPT !.deleting = TRUE] ELSE Gone
  <2>1. obj \in User
    BY GoneType DEF TypeOK, User
  <2>2. Store(u, obj)
    BY <1>27 DEF DeleteUser
  <2> HIDE DEF obj
  <2>3. api' \in [Users -> User] /\ synced' \in [Users -> BOOLEAN]
    BY <2>1, <2>2, StoreType
  <2>4. WorkerOK'
    BY <1>25, <1>27 DEF DeleteUser
  <2>5. QED
    BY <1>27, <2>3, <2>4 DEF DeleteUser, TypeOK
<1>28. ASSUME NEW u \in Users, EditUser(u)
       PROVE  TypeOK'
  <2>1. PICK refs \in Specs[u] : Store(u, [api[u] EXCEPT !.refs = refs])
    BY <1>28 DEF EditUser
  <2>2. refs \in Seq(DatabaseRef)
    BY ResourceAssumption
  <2>3. [api[u] EXCEPT !.refs = refs] \in User
    <3> DEFINE seqs == Seq(DatabaseRef)
    <3>1. /\ refs \in seqs
          /\ api[u] \in [exists : BOOLEAN, deleting : BOOLEAN, finalizer : BOOLEAN,
                        status : StatusSummary, refs : seqs]
      BY <2>2 DEF TypeOK, User
    <3> HIDE DEF seqs
    <3>2. [api[u] EXCEPT !.refs = refs] \in
             [exists : BOOLEAN, deleting : BOOLEAN, finalizer : BOOLEAN,
              status : StatusSummary, refs : seqs]
      BY <3>1
    <3>3. QED
      BY <3>2 DEF seqs, User
  <2>4. api' \in [Users -> User] /\ synced' \in [Users -> BOOLEAN]
    BY <2>1, <2>3, StoreType
  <2>5. WorkerOK'
    BY <1>25, <1>28 DEF EditUser
  <2>6. QED
    BY <1>28, <2>4, <2>5 DEF EditUser, TypeOK
<1>29. ASSUME NEW d \in Databases, ToggleDatabase(d) \/ ReplaceCA(d)
       PROVE  TypeOK'
  BY <1>29 DEF ToggleDatabase, ReplaceCA, TypeOK, WorkerOK
<1>30. ASSUME NEW n \in PrivNames, TogglePrivileges(n) \/ EditPrivileges(n)
       PROVE  TypeOK'
  <2>1. privileges' \in [PrivNames -> Privileges]
    <3>1. CASE TogglePrivileges(n)
      <4>1. (~privileges[n].exists) \in BOOLEAN
        OBVIOUS
      <4>2. QED
        BY <3>1, <4>1 DEF TogglePrivileges, TypeOK, Privileges
    <3>2. CASE EditPrivileges(n)
      <4>1. PICK list \in PrivLists[n] :
              privileges' = [privileges EXCEPT ![n].list = list]
        BY <3>2 DEF EditPrivileges
      <4>2. list \in Seq(PrivSpecs)
        BY ControllerAssumption
      <4>3. QED
        BY <4>1, <4>2 DEF TypeOK, Privileges
    <3>3. QED
      BY <1>30, <3>1, <3>2
  <2>2. QED
    BY <1>30, <2>1 DEF TogglePrivileges, EditPrivileges, TypeOK, WorkerOK
<1>31. ASSUME NEW n \in SecretNames, ChangeSecret(n)
       PROVE  TypeOK'
  <2>1. secrets' \in [SecretNames -> SecretState]
    BY <1>31 DEF ChangeSecret, TypeOK, SecretState
  <2>2. QED
    BY <1>31, <2>1 DEF ChangeSecret, TypeOK, WorkerOK
<1>32. ASSUME NEW s \in Servers, NEW p \in PrivSpecs, DropTarget(s, p)
       PROVE  TypeOK'
  <2>1. grants' \in [Servers -> [Users -> SUBSET PrivSpecs]]
    BY <1>32 DEF DropTarget, TypeOK
  <2>2. QED
    BY <1>32, <2>1 DEF DropTarget, TypeOK, WorkerOK
<1>33. CASE UNCHANGED vars
  BY <1>33 DEF vars, TypeOK, WorkerOK
<1>34. QED
  BY <1>1, <1>2, <1>3, <1>5, <1>6, <1>7, <1>8, <1>9, <1>12, <1>13, <1>14, <1>15,
     <1>16, <1>17, <1>18, <1>19, <1>20, <1>21, <1>22, <1>23, <1>24, <1>26, <1>27,
     <1>28, <1>29, <1>30, <1>31, <1>32, <1>33
  DEF Next, Reconcile, Manager, People

(* Type correctness for every choice of the constants: in particular the   *)
(* loops of reconcile never leave user.Spec.Databases, and the apply and   *)
(* delete branches are taken for the Users they are meant for.             *)
THEOREM TypeCorrect == Spec => []TypeOK
<1>1. Init => TypeOK
  BY TypeInit
<1>2. TypeOK /\ [Next]_vars => TypeOK'
  BY TypeStep
<1>3. QED
  BY <1>1, <1>2, PTL DEF Spec
===============================================================================
