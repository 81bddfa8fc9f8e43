------------------------- MODULE UserControllerProofs -------------------------
(***************************************************************************)
(* The safety properties of UserController, for every value of its         *)
(* constants.  They follow from Inductive, which says what a stale cache   *)
(* and a stale copy of a User still tell about the stored User.  There is  *)
(* one lemma per action that touches Users or SQL users, one for the       *)
(* actions of reconcile that touch neither, and one for the surroundings.  *)
(***************************************************************************)
EXTENDS UserControllerTypeProofs

(* What the invariant says of the store, the cache and the SQL users. *)
store == <<api, cache, synced, accounts>>

(* The invariant holds before anything has happened. *)
LEMMA IndInit ==
  ASSUME Init
  PROVE  Inductive
<1>1. TypeOK
  BY TypeInit
<1>2. \A u \in Users : api[u] = Gone /\ cache[u] = Gone
  BY DEF Init
<1>3. w.pc = "idle" /\ ~w.current
  BY IdleType DEF Init
<1>4. SpecsOK
  BY <1>2, <1>3, GoneType DEF SpecsOK, Busy
<1>5. CacheOK
  BY <1>2, GoneType DEF CacheOK
<1>6. CopyOK
  BY <1>3 DEF CopyOK, Busy, AtDatabase
<1>7. ProgressOK
  BY <1>3 DEF ProgressOK, AtDatabase
<1>8. AccountHeld
  BY DEF Init, AccountHeld, CoreServers
<1>9. ReadyBacked
  BY <1>2, GoneType DEF ReadyBacked, IsReady, Wanted
<1>10. QED
  BY <1>1, <1>4, <1>5, <1>6, <1>7, <1>8, <1>9 DEF Inductive

(* A step that leaves the store alone keeps what is said of it. *)
LEMMA StoreKept ==
  ASSUME Inductive, UNCHANGED store
  PROVE  CacheOK' /\ AccountHeld' /\ ReadyBacked'
<1>1. api' = api /\ cache' = cache /\ synced' = synced /\ accounts' = accounts
  BY DEF store
<1>2. CacheOK'
  BY <1>1 DEF Inductive, CacheOK, DeletionKnown
<1>3. AccountHeld'
  BY <1>1 DEF Inductive, AccountHeld, CoreServers
<1>4. ReadyBacked'
  BY <1>1 DEF Inductive, ReadyBacked, IsReady, Wanted, CoreServers
<1>5. QED
  BY <1>2, <1>3, <1>4

(* A step that only ends the call of Reconcile keeps the invariant. *)
LEMMA IdleKeeps ==
  ASSUME Inductive, UNCHANGED store, TypeOK', w'.pc = "idle", ~w'.current
  PROVE  Inductive'
<1>1. CacheOK' /\ AccountHeld' /\ ReadyBacked'
  BY StoreKept
<1>2. SpecsOK'
  BY DEF Inductive, SpecsOK, Busy, store
<1>3. CopyOK'
  BY DEF CopyOK, Busy, AtDatabase
<1>4. ProgressOK'
  BY DEF ProgressOK, AtDatabase
<1>5. QED
  BY <1>1, <1>2, <1>3, <1>4 DEF Inductive

(* A step that only turns to setStatus keeps the invariant, if a ready     *)
(* status is turned to with the SQL user on every server and the finalizer *)
(* stored.                                                                 *)
LEMMA StatusKeeps ==
  ASSUME Inductive, UNCHANGED store, TypeOK', Busy, w'.pc = "status",
         w'.key = w.key, w'.user = w.user, w'.current = w.current,
         ~w.user.deleting,
         w'.status.ready => /\ api[w.key].finalizer
                            /\ \A n \in 1..Len(w.user.refs) : OnServer(n)
  PROVE  Inductive'
<1>1. CacheOK' /\ AccountHeld' /\ ReadyBacked'
  BY StoreKept
<1>2. SpecsOK'
  BY DEF Inductive, SpecsOK, Busy, store
<1>3. CopyOK'
  BY DEF Inductive, CopyOK, Busy, AtDatabase, store
<1>4. ProgressOK'
  BY DEF ProgressOK, OnServer, AtDatabase, store
<1>5. QED
  BY <1>1, <1>2, <1>3, <1>4 DEF Inductive

(* An error of reconcile keeps the invariant. *)
LEMMA FailedKeeps ==
  ASSUME Inductive, UNCHANGED store, TypeOK', Busy,
         NEW x \in Worker, NEW err \in Errors,
         x.key = w.key, x.user = w.user, x.current = w.current, Failed(x, err)
  PROVE  Inductive'
<1>1. TypeOK /\ w.user.exists
  BY DEF Inductive, TypeOK, WorkerOK, Busy
<1>2. /\ w'.key = w.key
      /\ w.user.deleting => w'.pc = "idle" /\ ~w'.current
      /\ ~w.user.deleting => /\ w'.pc = "status" /\ ~w'.status.ready
                             /\ w'.user = w.user /\ w'.current = w.current
  BY <1>1, FailedFact
<1>3. CASE w.user.deleting
  BY <1>2, <1>3, IdleKeeps
<1>4. CASE ~w.user.deleting
  BY <1>2, <1>4, StatusKeeps
<1>5. QED
  BY <1>3, <1>4

(* A step within the loops of reconcile. *)
LEMMA MoveKeeps ==
  ASSUME Inductive, UNCHANGED store, TypeOK',
         w.pc \in AtDatabase \cup {"database"},
         w'.pc \in AtDatabase \cup {"database"},
         w'.key = w.key, w'.user = w.user, w'.current = w.current,
         ProgressOK'
  PROVE  Inductive'
<1>1. CacheOK' /\ AccountHeld' /\ ReadyBacked'
  BY StoreKept
<1>2. Busy /\ Busy'
  BY DEF Busy, AtDatabase
<1>3. SpecsOK'
  BY <1>2 DEF Inductive, SpecsOK, store
<1>4. CopyOK'
  BY <1>2 DEF Inductive, CopyOK, DeletionKnown, AtDatabase, store
<1>5. QED
  BY <1>1, <1>3, <1>4 DEF Inductive

(* The steps of reconcile that only read, talk to the API about Secrets or *)
(* change privileges.                                                      *)
LEMMA ReadingSteps ==
  ASSUME Inductive, TypeOK',
         \/ GetDatabase \/ GetPrivileges \/ Connect \/ PasswordMissing
         \/ CreateSecret \/ Grant \/ CloseApplied \/ Revoke \/ DeleteSecret
         \/ Succeed
  PROVE  Inductive'
<1> USE DEF users, inputs, sql
<1>0. TypeOK /\ w \in Worker /\ w.i \in Nat /\ w.user \in User /\ ProgressOK
  BY DEF Inductive, TypeOK, WorkerOK, Worker
<1>1. UNCHANGED store
  BY DEF store, GetDatabase, GetPrivileges, Connect, PasswordMissing, CreateSecret,
     Grant, CloseApplied, Revoke, DeleteSecret, Succeed
<1>2. w.pc \in AtDatabase \cup {"database"} /\ Busy
  BY DEF GetDatabase, GetPrivileges, Connect, PasswordMissing, CreateSecret,
     Grant, CloseApplied, Revoke, DeleteSecret, Succeed, AtDatabase, Busy
<1>3. ASSUME NEW err \in Errors, Failed(w, err) \/ Failed([w EXCEPT !.j = 0], err)
      PROVE  Inductive'
  <2>1. /\ [w EXCEPT !.j = 0] \in Worker
        /\ [w EXCEPT !.j = 0].key = w.key
        /\ [w EXCEPT !.j = 0].user = w.user
        /\ [w EXCEPT !.j = 0].current = w.current
    BY <1>0 DEF Worker
  <2>2. QED
    BY <1>0, <1>1, <1>2, <1>3, <2>1, FailedKeeps
<1>4. /\ "NotFound" \in Errors /\ "secret" \in Errors /\ "connect" \in Errors
      /\ PasswordError \in Errors /\ w.err \in Errors
  BY <1>0, VerdictTypes DEF Errors, Worker
<1>5. ASSUME w'.key = w.key, w'.user = w.user, w'.current = w.current, w'.i = w.i,
             w.pc = "database" \/ w.pc \in AtDatabase,
             w'.pc \in AtDatabase,
             w'.pc \in {"secret", "grant"} => w.pc \in {"secret", "grant"},
             w'.pc = "delSecret" => w'.err # "ok"
      PROVE  Inductive'
  <2>1. ProgressOK'
    BY <1>0, <1>1, <1>5 DEF ProgressOK, OnServer, store, AtDatabase
  <2>2. QED
    BY <1>1, <1>5, <2>1, MoveKeeps
<1>6. ASSUME w.pc = "grant" \/ (w.pc = "delSecret" /\ w.err = "ok"), w' = NextDatabase
      PROVE  Inductive'
  <2>1. /\ w'.pc = "database" /\ w'.i = w.i + 1 /\ w'.key = w.key
        /\ w'.user = w.user /\ w'.current = w.current
    BY <1>0, <1>6, NextDatabaseType DEF AtDatabase
  <2>2. OnServer(w.i) <=> ~w.user.deleting
    BY <1>0, <1>6 DEF ProgressOK, TypeOK, WorkerOK
  <2>3. \A n \in 1..w.i : OnServer(n) <=> ~w.user.deleting
    <3>1. SUFFICES ASSUME NEW n \in 1..w.i
                   PROVE  OnServer(n) <=> ~w.user.deleting
      OBVIOUS
    <3>2. n \in 1..(w.i - 1) \/ n = w.i
      BY <1>0
    <3>3. QED
      BY <1>0, <1>2, <2>2, <3>2 DEF ProgressOK
  <2>4. w'.i - 1 = w.i
    BY <1>0, <2>1
  <2>5. ProgressOK'
    BY <1>1, <2>1, <2>3, <2>4 DEF ProgressOK, OnServer, store, AtDatabase
  <2>6. QED
    BY <1>1, <1>2, <2>1, <2>5, MoveKeeps
<1>7. CASE GetDatabase
  <2>1. CASE w' = [w EXCEPT !.pc = "privileges", !.j = 1]
    <3>1. /\ w'.pc = "privileges" /\ w'.key = w.key /\ w'.user = w.user
          /\ w'.current = w.current /\ w'.i = w.i
      BY <1>0, <2>1 DEF Worker
    <3>2. QED
      BY <1>2, <1>5, <3>1 DEF AtDatabase
  <2>2. QED
    BY <1>3, <1>4, <1>7, <2>1 DEF GetDatabase
<1>8. CASE GetPrivileges
  <2>1. CASE w' = [w EXCEPT !.j = @ + 1, !.privs = @ \o privileges[Ref.privileges[w.j]].list]
    <3>1. /\ w'.pc = w.pc /\ w'.key = w.key /\ w'.user = w.user
          /\ w'.current = w.current /\ w'.i = w.i /\ w'.err = w.err
      BY <1>0, <2>1 DEF Worker
    <3>2. w.pc = "privileges"
      BY <1>8 DEF GetPrivileges
    <3>3. QED
      BY <1>2, <1>5, <3>1, <3>2 DEF AtDatabase
  <2>2. QED
    BY <1>3, <1>4, <1>8, <2>1 DEF GetPrivileges
<1>9. CASE Connect
  <2>1. CASE w' = [w EXCEPT !.pc = IF w.user.deleting THEN "revoke" ELSE "create",
                            !.j = 1, !.files = CertFiles(Ref.name)]
    <3>1. /\ w'.pc \in {"revoke", "create"} /\ w'.key = w.key /\ w'.user = w.user
          /\ w'.current = w.current /\ w'.i = w.i
      BY <1>0, <2>1 DEF Worker
    <3>2. QED
      BY <1>2, <1>5, <3>1 DEF AtDatabase
  <2>2. QED
    BY <1>3, <1>4, <1>9, <2>1 DEF Connect
<1>10. CASE PasswordMissing
  BY <1>3, <1>4, <1>10 DEF PasswordMissing
<1>11. CASE CreateSecret
  <2>1. CASE w' = [w EXCEPT !.pc = "grant"]
    <3>1. /\ w'.pc = "grant" /\ w'.key = w.key /\ w'.user = w.user
          /\ w'.current = w.current /\ w'.i = w.i
      BY <1>0, <2>1 DEF Worker
    <3>2. w.pc = "secret"
      BY <1>11 DEF CreateSecret
    <3>3. QED
      BY <1>2, <1>5, <3>1, <3>2 DEF AtDatabase
  <2>2. QED
    BY <1>3, <1>11, <2>1 DEF CreateSecret
<1>12. CASE Grant
  <2>1. CASE w' = [w EXCEPT !.j = @ + 1, !.files = FilesAfter(Ref.name, Privilege, @)]
    <3>1. /\ w'.pc = w.pc /\ w'.key = w.key /\ w'.user = w.user
          /\ w'.current = w.current /\ w'.i = w.i
      BY <1>0, <2>1 DEF Worker
    <3>2. w.pc = "grant"
      BY <1>12 DEF Grant
    <3>3. QED
      BY <1>2, <1>5, <3>1, <3>2 DEF AtDatabase
  <2>2. QED
    BY <1>3, <1>12, <2>1 DEF Grant
<1>13. CASE CloseApplied
  BY <1>6, <1>13 DEF CloseApplied
<1>14. CASE Revoke
  <2>1. PICK ans \in Errors :
          w' = IF RevokeError(Ref.name, ans) = "ok"
               THEN [w EXCEPT !.j = IF ans = "ok" THEN @ + 1 ELSE Len(w.privs) + 1,
                              !.files = FilesAfter(Ref.name, Privilege, @)]
               ELSE [w EXCEPT !.pc = "delSecret", !.err = ans]
    BY <1>14 DEF Revoke
  <2>2. w.pc = "revoke"
    BY <1>14 DEF Revoke
  <2>3. ans = "ok" => RevokeError(Ref.name, ans) = "ok"
    BY DEF RevokeError, ignoreNotExists, isNotExists, Undefined
  <2>4. /\ w'.pc = "revoke" \/ (w'.pc = "delSecret" /\ w'.err # "ok")
        /\ w'.key = w.key /\ w'.user = w.user
        /\ w'.current = w.current /\ w'.i = w.i
    BY <1>0, <2>1, <2>2, <2>3 DEF Worker
  <2>5. QED
    BY <1>2, <1>5, <2>4 DEF AtDatabase
<1>15. CASE DeleteSecret
  <2>1. CASE w.err = "ok"
    BY <1>6, <1>15, <2>1 DEF DeleteSecret
  <2>2. CASE w.err # "ok"
    BY <1>3, <1>4, <1>15, <2>2 DEF DeleteSecret
  <2>3. QED
    BY <2>1, <2>2
<1>16. CASE Succeed
  <2>1. w.pc = "database" /\ w.i > Len(w.user.refs) /\ ~w.user.deleting
    BY <1>16 DEF Succeed
  <2>2. CASE w.user.status.ready
    <3>1. w' = Idle(w.key)
      BY <1>16, <2>2 DEF Succeed, Return
    <3>2. w'.pc = "idle" /\ ~w'.current
      BY <1>0, <3>1, IdleType DEF Worker
    <3>3. QED
      BY <1>1, <3>2, IdleKeeps
  <2>3. CASE ~w.user.status.ready
    <3>1. w' = Reporting(w, SuccessStatus)
      BY <1>16, <2>3 DEF Succeed
    <3>2. /\ w'.pc = "status" /\ w'.key = w.key /\ w'.user = w.user
          /\ w'.current = w.current
      BY <1>0, <3>1, StatusType, ReportingType
    <3>3. Len(w.user.refs) \in Nat
      BY <1>0 DEF User
    <3>4. \A n \in 1..Len(w.user.refs) : n \in 1..(w.i - 1)
      BY <1>0, <2>1, <3>3
    <3>5. \A n \in 1..Len(w.user.refs) : OnServer(n)
      BY <1>0, <2>1, <3>4 DEF ProgressOK
    <3>6. api[w.key].finalizer
      BY <2>1 DEF Inductive, CopyOK
    <3>7. QED
      BY <1>1, <1>2, <2>1, <3>2, <3>5, <3>6, StatusKeeps
  <2>4. QED
    BY <2>2, <2>3
<1>17. QED
  BY <1>7, <1>8, <1>9, <1>10, <1>11, <1>12, <1>13, <1>14, <1>15, <1>16

(* Fetch, the start of Reconcile: whatever the cache says of the User is   *)
(* still known of the stored one.                                          *)
LEMMA FetchStep ==
  ASSUME Inductive, TypeOK', NEW u \in Users, Fetch(u)
  PROVE  Inductive'
<1> USE DEF users, inputs, sql
<1>1. UNCHANGED store
  BY DEF Fetch, store
<1>2. TypeOK /\ Idle(u) \in Worker /\ Idle(u).pc = "idle" /\ Idle(u).key = u
      /\ ~Idle(u).current /\ cache[u] \in User /\ CacheOK /\ SpecsOK
  BY IdleType DEF Inductive, TypeOK
<1>3. CASE ~cache[u].exists \/ (cache[u].deleting /\ ~cache[u].finalizer)
  <2>1. w' = Idle(u)
    BY <1>3 DEF Fetch
  <2>2. QED
    BY <1>1, <1>2, <2>1, IdleKeeps
<1>4. CASE ~(~cache[u].exists \/ (cache[u].deleting /\ ~cache[u].finalizer))
  <2>1. w' = [Idle(u) EXCEPT
                !.pc = IF cache[u].finalizer THEN "database" ELSE "finalizer",
                !.user = cache[u],
                !.current = synced[u],
                !.i = IF cache[u].finalizer THEN 1 ELSE 0]
    BY <1>4 DEF Fetch
  <2>2. /\ w'.key = u /\ w'.user = cache[u] /\ w'.current = synced[u]
        /\ cache[u].finalizer => w'.pc = "database" /\ w'.i = 1
        /\ ~cache[u].finalizer => w'.pc = "finalizer"
    BY <1>2, <2>1 DEF Worker
  <2>3. SpecsOK'
    BY <1>1, <1>2, <1>4, <2>2 DEF SpecsOK, store
  <2>4. CopyOK'
    <3>1. synced[u] => cache[u] = api[u]
      BY <1>2 DEF CacheOK
    <3>2. cache[u].finalizer /\ ~cache[u].deleting => api[u].finalizer
      BY <1>2 DEF CacheOK
    <3>3. cache[u].deleting => DeletionKnown(u, cache[u].refs)
      BY <1>2 DEF CacheOK
    <3>4. DeletionKnown(u, cache[u].refs) => DeletionKnown(w.key, w.user.refs)'
      BY <1>1, <2>2 DEF DeletionKnown, store
    <3>5. QED
      BY <1>1, <1>4, <2>2, <3>1, <3>2, <3>3, <3>4 DEF CopyOK, Busy, AtDatabase, store
  <2>5. ProgressOK'
    BY <2>2 DEF ProgressOK, AtDatabase
  <2>6. QED
    BY <1>1, <2>3, <2>4, <2>5, StoreKept DEF Inductive
<1>5. QED
  BY <1>3, <1>4

(* The server that an entry of spec.databases leads to is one of Servers. *)
LEMMA ServerType ==
  ASSUME NEW refs \in Seq(DatabaseRef), NEW n \in 1..Len(refs)
  PROVE  ServerOf(refs[n]) \in Servers
<1>1. refs[n] \in DatabaseRef
  OBVIOUS
<1>2. Conf[refs[n].name] \in DatabaseSpec
  BY <1>1, ResourceAssumption DEF DatabaseRef
<1>3. QED
  BY <1>2 DEF ServerOf, DatabaseSpec

(* Every spec of a User leads to each of its core servers. *)
LEMMA CoreCovered ==
  ASSUME NEW u \in Users, NEW refs \in Specs[u], NEW s \in CoreServers(u)
  PROVE  \E n \in 1..Len(refs) : ServerOf(refs[n]) = s
  BY DEF CoreServers

(* The API server executes an Update only of a current copy of an existing *)
(* User.                                                                   *)
LEMMA UpdateFact ==
  ASSUME NEW ans \in Errors, NEW applied \in BOOLEAN,
         Answers(UpdateVerdict, ans, applied)
  PROVE  /\ applied => api[w.key].exists /\ w.current
         /\ ans = "ok" => applied
<1>1. UpdateVerdict = "ok" => api[w.key].exists /\ w.current
  BY DEF UpdateVerdict
<1>2. QED
  BY <1>1, VerdictTypes, AnswersFact

(* A write changes one stored User, and makes the cached copy of it        *)
(* outdated if it changes it at all.                                       *)
LEMMA StoreFact ==
  ASSUME TypeOK, NEW u \in Users, NEW obj, Store(u, obj)
  PROVE  /\ api'[u] = obj
         /\ \A v \in Users : v # u => api'[v] = api[v] /\ synced'[v] = synced[v]
         /\ obj # api[u] => ~synced'[u]
         /\ obj = api[u] => synced'[u] = synced[u]
  BY DEF Store, TypeOK

(* The Update that adds the finalizer, accepted, refused or lost on the    *)
(* way, keeps the invariant.                                               *)
LEMMA AddFinalizerStep ==
  ASSUME Inductive, TypeOK', AddFinalizer
  PROVE  /\ Inductive'
         /\ accounts' = accounts
         /\ \A u \in Users : api[u].finalizer => api'[u].finalizer
<1> USE DEF users, inputs, sql
<1>1. /\ TypeOK /\ w \in Worker /\ w.key \in Users /\ w.user \in User
      /\ api[w.key] \in User
      /\ w.pc = "finalizer" /\ Busy /\ w.user.exists /\ ~w.user.deleting
      /\ SpecsOK /\ CacheOK /\ CopyOK /\ AccountHeld /\ ReadyBacked
  BY DEF Inductive, TypeOK, WorkerOK, Worker, AddFinalizer, Busy
<1>2. PICK ans \in Errors, applied \in BOOLEAN :
        /\ Answers(UpdateVerdict, ans, applied)
        /\ IF applied
           THEN Store(w.key, [api[w.key] EXCEPT !.finalizer = TRUE])
           ELSE UNCHANGED <<api, synced>>
        /\ IF ans = "ok"
           THEN /\ w' = [w EXCEPT !.user.finalizer = TRUE, !.pc = "database", !.i = 1]
                /\ UNCHANGED queue
           ELSE Failed([w EXCEPT !.user.finalizer = TRUE,
                                 !.current = w.current /\ ~applied], ans)
  BY DEF AddFinalizer
<1>3. cache' = cache /\ accounts' = accounts
  BY DEF AddFinalizer
<1>4. /\ applied => api[w.key].exists /\ w.current
      /\ ans = "ok" => applied
  BY <1>2, UpdateFact
(* What the write did to the stored User. *)
<1>5. /\ \A u \in Users : u # w.key => api'[u] = api[u] /\ synced'[u] = synced[u]
      /\ api'[w.key].exists = api[w.key].exists
      /\ api'[w.key].deleting = api[w.key].deleting
      /\ api'[w.key].status = api[w.key].status
      /\ api'[w.key].refs = api[w.key].refs
      /\ api[w.key].finalizer => api'[w.key].finalizer
      /\ applied => api'[w.key].finalizer
      /\ ~applied => api' = api
      /\ synced'[w.key] => synced[w.key] /\ api'[w.key] = api[w.key]
  <2>1. CASE applied
    <3> DEFINE obj == [api[w.key] EXCEPT !.finalizer = TRUE]
    <3>1. /\ obj.exists = api[w.key].exists /\ obj.deleting = api[w.key].deleting
          /\ obj.status = api[w.key].status /\ obj.refs = api[w.key].refs
          /\ obj.finalizer
      BY <1>1 DEF User
    <3>2. Store(w.key, obj)
      BY <1>2, <2>1
    <3> HIDE DEF obj
    <3>3. QED
      BY <1>1, <2>1, <3>1, <3>2, StoreFact
  <2>2. CASE ~applied
    BY <1>2, <2>2
  <2>3. QED
    BY <2>1, <2>2
<1>6. /\ w'.key = w.key
      /\ w'.user.refs = w.user.refs /\ w'.user.deleting = w.user.deleting
      /\ w'.current => w.current
      /\ \/ w'.pc = "database" /\ w'.i = 1 /\ applied
         \/ w'.pc = "status" /\ ~w'.status.ready
  <2>1. CASE ans = "ok"
    <3>1. w' = [w EXCEPT !.user.finalizer = TRUE, !.pc = "database", !.i = 1]
      BY <1>2, <2>1
    <3>2. QED
      BY <1>1, <1>4, <2>1, <3>1 DEF Worker, User
  <2>2. CASE ans # "ok"
    <3> DEFINE x == [w EXCEPT !.user.finalizer = TRUE,
                              !.current = w.current /\ ~applied]
    <3>1. /\ x \in Worker /\ x.key = w.key /\ x.user.exists
          /\ x.user.deleting = w.user.deleting
          /\ x.user.refs = w.user.refs /\ (x.current => w.current)
      BY <1>1 DEF Worker, User
    <3>2. Failed(x, ans)
      BY <1>2, <2>2
    <3> HIDE DEF x
    <3>3. QED
      BY <1>1, <3>1, <3>2, FailedFact
  <2>3. QED
    BY <2>1, <2>2
<1>7. SpecsOK'
  <2>1. \A u \in Users : api'[u].exists \/ api'[u] = Gone
    BY <1>1, <1>4, <1>5 DEF SpecsOK
  <2>2. \A u \in Users : api'[u].exists => api'[u].refs \in Specs[u]
    BY <1>1, <1>5 DEF SpecsOK
  <2>3. QED
    BY <1>1, <1>3, <1>6, <2>1, <2>2 DEF SpecsOK
<1>8. CacheOK'
  <2>1. \A u \in Users : synced'[u] => cache[u] = api'[u]
    BY <1>1, <1>5 DEF CacheOK
  <2>2. \A u \in Users : cache[u].finalizer /\ ~cache[u].deleting => api'[u].finalizer
    BY <1>1, <1>5 DEF CacheOK
  <2>3. ASSUME NEW u \in Users, cache[u].deleting
        PROVE  DeletionKnown(u, cache[u].refs)'
    <3>1. DeletionKnown(u, cache[u].refs)
      BY <1>1, <2>3 DEF CacheOK
    <3>2. u = w.key => ~applied
      BY <1>1, <1>4, <2>3 DEF CopyOK
    <3>3. api'[u] = api[u]
      BY <1>5, <3>2
    <3>4. QED
      BY <1>3, <3>1, <3>3 DEF DeletionKnown
  <2>4. QED
    BY <1>3, <2>1, <2>2, <2>3 DEF CacheOK
<1>9. CopyOK'
  BY <1>1, <1>3, <1>5, <1>6 DEF CopyOK, Busy, AtDatabase
<1>10. ProgressOK'
  BY <1>6 DEF ProgressOK, AtDatabase
<1>11. AccountHeld'
  BY <1>1, <1>3, <1>5 DEF AccountHeld, CoreServers
<1>12. ReadyBacked'
  BY <1>1, <1>3, <1>5 DEF ReadyBacked, IsReady, Wanted, CoreServers
<1>13. \A u \in Users : api[u].finalizer => api'[u].finalizer
  BY <1>5
<1>14. QED
  BY <1>3, <1>7, <1>8, <1>9, <1>10, <1>11, <1>12, <1>13 DEF Inductive

(* A new manager process trusts nothing but the store. *)
LEMMA RestartKeeps ==
  ASSUME Inductive, TypeOK', Restart, api' = api,
         AccountHeld', ReadyBacked'
  PROVE  Inductive'
<1>1. w'.pc = "idle" /\ ~w'.current
  BY RestartType DEF Inductive
<1>2. \A u \in Users : cache'[u] = api[u]
  BY DEF Restart
<1>3. SpecsOK'
  BY <1>1, <1>2 DEF Inductive, SpecsOK, Busy
<1>4. CacheOK'
  BY <1>2 DEF CacheOK, DeletionKnown
<1>5. CopyOK'
  BY <1>1 DEF CopyOK, Busy, AtDatabase
<1>6. ProgressOK'
  BY <1>1 DEF ProgressOK, AtDatabase
<1>7. QED
  BY <1>3, <1>4, <1>5, <1>6 DEF Inductive

(* CreateUser reports success only when the SQL user exists. *)
LEMMA CreateUserSound ==
  ASSUME NEW ans \in Errors, NEW applied \in BOOLEAN,
         Answers(CreateVerdict(Ref.name, Has, w.files), ans, applied),
         CreateUserError(Ref.name, ans, caKey[Ref.name]) = "ok"
  PROVE  applied \/ Has
<1>1. ans = "ok" \/ ans = Exists
  BY DEF CreateUserError, PgCreateUserError, PgGeneratesCert,
     genPostgresCertFromCA, ignoreAlreadyExists,
     isAlreadyExists, Exists
<1>2. CreateVerdict(Ref.name, Has, w.files) = Exists => Has
  BY DEF CreateVerdict, PgOnConnection, PgCreateVerdict, MyCreateVerdict, Exists, CannotUser
<1>3. ans = CreateVerdict(Ref.name, Has, w.files) \/ ans = "io"
  BY VerdictTypes, AnswersFact
<1>4. ans = "ok" => applied
  BY VerdictTypes, AnswersFact
<1>5. QED
  BY <1>1, <1>2, <1>3, <1>4 DEF Exists

(* DeleteUser reports success only when the SQL user does not exist. *)
LEMMA DeleteUserSound ==
  ASSUME NEW ans \in Errors, NEW applied \in BOOLEAN,
         Answers(DropVerdict(Ref.name, Has, Held, w.files), ans, applied),
         DeleteUserError(Ref.name, ans) = "ok"
  PROVE  applied \/ ~Has
<1>1. ans = "ok" \/ ans = Undefined
  BY DEF DeleteUserError, ignoreNotExists, isNotExists, Undefined
<1>2. DropVerdict(Ref.name, Has, Held, w.files) = Undefined => ~Has
  BY DEF DropVerdict, PgOnConnection, PgDropVerdict, MyDropVerdict, Undefined, InUse, CannotUser
<1> DEFINE v == DropVerdict(Ref.name, Has, Held, w.files)
<1>3. v \in Errors /\ Answers(v, ans, applied)
  BY VerdictTypes
<1> HIDE DEF v
<1>4. (ans = v \/ ans = "io") /\ (ans = "ok" => applied)
  BY <1>3, AnswersFact
<1>5. QED
  BY <1>1, <1>2, <1>4 DEF Undefined, v

(* CREATE USER, including the panic in the generation of certificates,     *)
(* keeps the invariant, and creates an SQL user only when the finalizer is *)
(* stored.                                                                 *)
LEMMA CreateUserStep ==
  ASSUME Inductive, TypeOK', CreateUser
  PROVE  /\ Inductive'
         /\ \A s \in Servers, u \in Users : u \in accounts[s] => u \in accounts'[s]
<1> USE DEF users, inputs, sql
<1>1. /\ TypeOK /\ w \in Worker /\ w.key \in Users /\ w.user \in User
      /\ accounts \in [Servers -> SUBSET Users]
      /\ w.pc = "create" /\ w.pc \in AtDatabase /\ Busy
      /\ w.user.exists /\ ~w.user.deleting
      /\ SpecsOK /\ CacheOK /\ CopyOK /\ ProgressOK /\ AccountHeld /\ ReadyBacked
  BY DEF Inductive, TypeOK, WorkerOK, Worker, CreateUser, Busy, AtDatabase
<1>2. Server \in Servers /\ w.i \in 1..Len(w.user.refs) /\ w.i \in Nat
  BY <1>1, RefType DEF TypeOK, WorkerOK, AtDatabase
<1>3. PICK ans \in Errors, applied \in BOOLEAN :
        /\ Answers(CreateVerdict(Ref.name, Has, w.files), ans, applied)
        /\ accounts' = IF applied
                       THEN [accounts EXCEPT ![Server] = @ \cup {w.key}]
                       ELSE accounts
        /\ LET err == CreateUserError(Ref.name, ans, caKey[Ref.name])
           IN  \/ /\ err = "ok"
                  /\ w' = [w EXCEPT !.pc = IF CreateUserData(Ref.name, ans)
                                           THEN "secret" ELSE "grant"]
                  /\ UNCHANGED <<queue, cache, synced, secretsSeen>>
               \/ /\ err \notin {"ok", "panic"}
                  /\ Failed([w EXCEPT !.j = 0], err)
                  /\ UNCHANGED <<cache, synced, secretsSeen>>
               \/ /\ err = "panic"
                  /\ Restart
  BY DEF CreateUser
<1>4. api' = api
  BY DEF CreateUser
<1>5. api[w.key].finalizer
  BY <1>1 DEF CopyOK
<1>6. /\ \A s \in Servers, u \in Users : u \in accounts[s] => u \in accounts'[s]
      /\ \A s \in Servers, u \in Users : u # w.key /\ u \in accounts'[s] => u \in accounts[s]
      /\ applied => w.key \in accounts'[Server]
  BY <1>1, <1>2, <1>3
<1>7. AccountHeld'
  BY <1>1, <1>4, <1>5, <1>6 DEF AccountHeld, CoreServers
<1>8. ReadyBacked'
  BY <1>1, <1>4, <1>6 DEF ReadyBacked, IsReady, Wanted, CoreServers
<1>9. CASE Restart
  BY <1>4, <1>6, <1>7, <1>8, <1>9, RestartKeeps
<1>10. ASSUME cache' = cache, synced' = synced,
              w'.key = w.key, w'.user = w.user, w'.current = w.current,
              Busy', w'.pc \in AtDatabase => w'.i = w.i,
              w'.pc \in {"secret", "grant"} => w.key \in accounts'[Server],
              w'.pc \in {"secret", "grant", "status"},
              w'.pc = "status" => ~w'.status.ready
       PROVE  Inductive'
  <2>1. SpecsOK'
    BY <1>1, <1>4, <1>10 DEF SpecsOK
  <2>2. CacheOK'
    <3>1. ASSUME NEW u \in Users, cache[u].deleting
          PROVE  DeletionKnown(u, cache[u].refs)'
      <4>1. DeletionKnown(u, cache[u].refs)
        BY <1>1, <3>1 DEF CacheOK
      <4>2. CASE u = w.key
        BY <1>4, <1>5, <4>1, <4>2 DEF DeletionKnown
      <4>3. CASE u # w.key
        <5>1. CASE api[u].deleting
          BY <1>4, <5>1 DEF DeletionKnown
        <5>2. CASE ~api[u].deleting
          <6>1. cache[u].refs \in Seq(DatabaseRef)
            BY DEF Inductive, TypeOK, User
          <6>2. \A n \in 1..Len(cache[u].refs) : ServerOf(cache[u].refs[n]) \in Servers
            BY <6>1, ServerType
          <6>3. \A n \in 1..Len(cache[u].refs) :
                   u \notin accounts'[ServerOf(cache[u].refs[n])]
            BY <1>6, <4>1, <4>3, <5>2, <6>2 DEF DeletionKnown
          <6>4. QED
            BY <1>4, <1>10, <4>1, <5>2, <6>3 DEF DeletionKnown
        <5>3. QED
          BY <5>1, <5>2
      <4>4. QED
        BY <4>2, <4>3
    <3>2. QED
      BY <1>1, <1>4, <1>10, <3>1 DEF CacheOK
  <2>3. CopyOK'
    BY <1>1, <1>4, <1>5, <1>10 DEF CopyOK
  <2>4. ProgressOK'
    <3>1. w.user.refs \in Seq(DatabaseRef)
      BY <1>1 DEF User
    <3>2. \A n \in 1..Len(w.user.refs) : ServerOf(w.user.refs[n]) \in Servers
      BY <3>1, ServerType
    <3>3. \A n \in 1..(w.i - 1) : n \in 1..Len(w.user.refs)
      BY <1>2
    <3>4. \A n \in 1..(w.i - 1) : OnServer(n)
      BY <1>1 DEF ProgressOK
    <3>5. \A n \in 1..(w.i - 1) : OnServer(n)'
      BY <1>1, <1>6, <1>10, <3>2, <3>3, <3>4 DEF OnServer
    <3>6. w'.pc \in {"secret", "grant"} => OnServer(w.i)'
      BY <1>10 DEF OnServer, Server, Ref, AtDatabase
    <3>7. QED
      BY <1>1, <1>10, <3>5, <3>6 DEF ProgressOK, AtDatabase
  <2>5. QED
    BY <1>7, <1>8, <2>1, <2>2, <2>3, <2>4 DEF Inductive
<1>11. CASE /\ CreateUserError(Ref.name, ans, caKey[Ref.name]) = "ok"
            /\ w' = [w EXCEPT !.pc = IF CreateUserData(Ref.name, ans)
                                     THEN "secret" ELSE "grant"]
            /\ UNCHANGED <<cache, synced>>
  <2>1. /\ w'.pc \in {"secret", "grant"} /\ w'.key = w.key /\ w'.user = w.user
        /\ w'.current = w.current /\ w'.i = w.i
    BY <1>1, <1>11 DEF Worker
  <2>2. applied \/ Has
    BY <1>3, <1>11, CreateUserSound
  <2>3. w.key \in accounts'[Server]
    BY <1>1, <1>2, <1>6, <2>2 DEF Has
  <2>4. QED
    BY <1>6, <1>10, <1>11, <2>1, <2>3 DEF Busy
<1>12. CASE \E err \in Errors : /\ Failed([w EXCEPT !.j = 0], err)
                                /\ UNCHANGED <<cache, synced>>
  <2>1. PICK err \in Errors : Failed([w EXCEPT !.j = 0], err)
    BY <1>12
  <2>2. /\ [w EXCEPT !.j = 0] \in Worker
        /\ [w EXCEPT !.j = 0].key = w.key
        /\ [w EXCEPT !.j = 0].user = w.user
        /\ [w EXCEPT !.j = 0].current = w.current
    BY <1>1 DEF Worker
  <2>3. /\ w'.pc = "status" /\ ~w'.status.ready /\ w'.key = w.key
        /\ w'.user = w.user /\ w'.current = w.current
    BY <1>1, <2>1, <2>2, FailedFact
  <2>4. QED
    BY <1>6, <1>10, <1>12, <2>3 DEF Busy, AtDatabase
<1>13. QED
  BY <1>3, <1>6, <1>9, <1>11, <1>12, VerdictTypes

(* DropUser: the User is being deleted, or the SQL user was not there. *)
LEMMA DropUserStep ==
  ASSUME Inductive, TypeOK', DropUser
  PROVE  /\ Inductive'
         /\ \A u \in Users, s \in Servers :
              u \in accounts[s] /\ u \notin accounts'[s] => api[u].deleting
<1> USE DEF users, inputs, sql
<1>1. /\ TypeOK /\ w \in Worker /\ w.key \in Users /\ w.user \in User
      /\ accounts \in [Servers -> SUBSET Users]
      /\ w.pc = "revoke" /\ w.pc \in AtDatabase /\ Busy
      /\ w.user.exists /\ w.user.deleting
      /\ SpecsOK /\ CacheOK /\ CopyOK /\ ProgressOK /\ AccountHeld /\ ReadyBacked
  BY DEF Inductive, TypeOK, WorkerOK, Worker, DropUser, Busy, AtDatabase
<1>2. Server \in Servers /\ w.i \in 1..Len(w.user.refs) /\ w.i \in Nat
  BY <1>1, RefType DEF TypeOK, WorkerOK, AtDatabase
<1>3. PICK ans \in Errors, applied \in BOOLEAN :
        /\ Answers(DropVerdict(Ref.name, Has, Held, w.files), ans, applied)
        /\ accounts' = IF applied
                       THEN [accounts EXCEPT ![Server] = @ \ {w.key}]
                       ELSE accounts
        /\ w' = [w EXCEPT !.pc = "delSecret",
                          !.err = DeleteUserError(Ref.name, ans)]
  BY DEF DropUser
<1>4. api' = api /\ cache' = cache /\ synced' = synced
  BY DEF DropUser
<1>5. /\ \A s \in Servers, u \in Users : u \in accounts'[s] => u \in accounts[s]
      /\ \A s \in Servers, u \in Users : u # w.key /\ u \in accounts[s] => u \in accounts'[s]
      /\ \A s \in Servers, u \in Users : s # Server /\ u \in accounts[s] => u \in accounts'[s]
      /\ applied => w.key \notin accounts'[Server]
  BY <1>1, <1>2, <1>3
<1>6. /\ w'.pc = "delSecret" /\ w'.key = w.key /\ w'.user = w.user
      /\ w'.current = w.current /\ w'.i = w.i
      /\ w'.err = DeleteUserError(Ref.name, ans)
  BY <1>1, <1>3 DEF Worker
<1>7. DeletionKnown(w.key, w.user.refs)
  BY <1>1 DEF CopyOK
<1>8. ~api[w.key].deleting => w.key \notin accounts[Server] /\ ~api[w.key].status.ready
  BY <1>2, <1>7 DEF DeletionKnown, Server, Ref
<1>9. \A u \in Users, s \in Servers :
        u \in accounts[s] /\ u \notin accounts'[s] => api[u].deleting
  BY <1>5, <1>8
<1>11. SpecsOK'
  BY <1>1, <1>4, <1>6 DEF SpecsOK, Busy
<1>12. CacheOK'
  <2>1. ASSUME NEW u \in Users, cache[u].deleting
        PROVE  DeletionKnown(u, cache[u].refs)'
    <3>1. cache[u].refs \in Seq(DatabaseRef)
      BY DEF Inductive, TypeOK, User
    <3>2. DeletionKnown(u, cache[u].refs)
      BY <1>1, <2>1 DEF CacheOK
    <3>3. QED
      BY <1>4, <1>5, <3>1, <3>2, ServerType DEF DeletionKnown
  <2>2. QED
    BY <1>1, <1>4, <2>1 DEF CacheOK
<1>13. CopyOK'
  <2>1. w.user.refs \in Seq(DatabaseRef)
    BY <1>1 DEF User
  <2>2. DeletionKnown(w.key, w.user.refs)'
    BY <1>4, <1>5, <1>6, <1>7, <1>1, <2>1, ServerType DEF DeletionKnown
  <2>3. QED
    BY <1>1, <1>4, <1>6, <2>2 DEF CopyOK, Busy
<1>14. ProgressOK'
  <2>1. w.user.refs \in Seq(DatabaseRef)
    BY <1>1 DEF User
  <2>2. \A n \in 1..Len(w.user.refs) : ServerOf(w.user.refs[n]) \in Servers
    BY <2>1, ServerType
  <2>3. \A n \in 1..(w.i - 1) : n \in 1..Len(w.user.refs)
    BY <1>2
  <2>4. \A n \in 1..(w.i - 1) : ~OnServer(n)
    BY <1>1 DEF ProgressOK
  <2>5. \A n \in 1..(w.i - 1) : ~OnServer(n)'
    BY <1>1, <1>5, <1>6, <2>2, <2>3, <2>4 DEF OnServer
  <2>6. w'.err = "ok" => ~OnServer(w.i)'
    <3>1. w'.err = "ok" => applied \/ ~Has
      BY <1>3, <1>6, DeleteUserSound
    <3>2. w'.err = "ok" => w.key \notin accounts'[Server]
      BY <1>1, <1>2, <1>5, <3>1 DEF Has
    <3>3. QED
      BY <1>6, <3>2 DEF OnServer, Server, Ref
  <2>7. QED
    BY <1>1, <1>6, <2>5, <2>6 DEF ProgressOK
<1>15. AccountHeld'
  BY <1>1, <1>4, <1>5 DEF AccountHeld, CoreServers
<1>16. ReadyBacked'
  BY <1>1, <1>4, <1>9 DEF ReadyBacked, IsReady, Wanted, CoreServers
<1>17. QED
  BY <1>9, <1>11, <1>12, <1>13, <1>14, <1>15, <1>16 DEF Inductive

(* The update that removes the finalizer is accepted only for the version  *)
(* the loop of the deletion worked from.                                   *)
LEMMA RemoveFinalizerStep ==
  ASSUME Inductive, TypeOK', RemoveFinalizer
  PROVE  /\ Inductive'
         /\ accounts' = accounts
         /\ \A u \in Users :
              api[u].finalizer /\ ~api'[u].finalizer =>
                \A n \in 1..Len(api[u].refs) :
                  u \notin accounts[ServerOf(api[u].refs[n])]
<1> USE DEF users, inputs, sql
<1>1. /\ TypeOK /\ w \in Worker /\ w.key \in Users /\ w.user \in User
      /\ w.i \in Nat /\ w.pc = "database" /\ Busy /\ w.user.deleting
      /\ w.i > Len(w.user.refs)
      /\ SpecsOK /\ CacheOK /\ CopyOK /\ ProgressOK /\ AccountHeld /\ ReadyBacked
  BY DEF Inductive, TypeOK, WorkerOK, Worker, RemoveFinalizer, Busy
<1>2. PICK ans \in Errors, applied \in BOOLEAN :
        /\ Answers(UpdateVerdict, ans, applied)
        /\ IF applied THEN Store(w.key, Gone) ELSE UNCHANGED <<api, synced>>
        /\ Return(ans # "ok")
  BY DEF RemoveFinalizer
<1>3. cache' = cache /\ accounts' = accounts
  BY DEF RemoveFinalizer
<1>4. w'.pc = "idle" /\ ~w'.current
  BY <1>1, <1>2, IdleType DEF Return
<1>5. CASE ~applied
  <2>1. UNCHANGED store
    BY <1>2, <1>3, <1>5 DEF store
  <2>2. Inductive'
    BY <1>4, <2>1, IdleKeeps
  <2>3. QED
    BY <1>3, <2>1, <2>2 DEF store
<1>6. CASE applied
  <2>1. api[w.key].exists /\ w.current
    BY <1>2, <1>6, UpdateFact
  <2>2. /\ api[w.key].refs = w.user.refs /\ cache[w.key].refs = w.user.refs
        /\ w.user.refs \in Specs[w.key]
    BY <1>1, <2>1 DEF CopyOK, SpecsOK
  <2>3. Store(w.key, Gone)
    BY <1>2, <1>6
  <2>4. /\ api'[w.key] = Gone
        /\ ~synced'[w.key]
        /\ \A u \in Users : u # w.key => api'[u] = api[u] /\ synced'[u] = synced[u]
    BY <1>1, <2>1, <2>3, StoreFact, GoneType
  <2>5. Len(w.user.refs) \in Nat
    BY <1>1 DEF User
  <2>6. \A n \in 1..Len(w.user.refs) : n \in 1..(w.i - 1)
    BY <1>1, <2>5
  <2>7. \A n \in 1..Len(w.user.refs) : w.key \notin accounts[ServerOf(w.user.refs[n])]
    BY <1>1, <2>6 DEF ProgressOK, OnServer
  <2>8. SpecsOK'
    BY <1>1, <1>3, <1>4, <2>4, GoneType DEF SpecsOK, Busy
  <2>9. CacheOK'
    <3>1. ASSUME NEW u \in Users, cache[u].deleting
          PROVE  DeletionKnown(u, cache[u].refs)'
      <4>1. DeletionKnown(u, cache[u].refs)
        BY <1>1, <3>1 DEF CacheOK
      <4>2. CASE u = w.key
        BY <1>3, <2>2, <2>4, <2>7, <4>2, GoneType DEF DeletionKnown
      <4>3. CASE u # w.key
        BY <1>3, <2>4, <4>1, <4>3 DEF DeletionKnown
      <4>4. QED
        BY <4>2, <4>3
    <3>2. cache[w.key].deleting
      BY <1>1, <2>1 DEF CopyOK
    <3>3. QED
      BY <1>1, <1>3, <2>4, <3>1, <3>2 DEF CacheOK
  <2>10. CopyOK'
    BY <1>4 DEF CopyOK, Busy, AtDatabase
  <2>11. ProgressOK'
    BY <1>4 DEF ProgressOK, AtDatabase
  <2>12. AccountHeld'
    <3>1. \A s \in CoreServers(w.key) : w.key \notin accounts[s]
      BY <1>1, <2>2, <2>7, CoreCovered
    <3>2. QED
      BY <1>1, <1>3, <2>4, <3>1 DEF AccountHeld, CoreServers
  <2>13. ReadyBacked'
    BY <1>1, <1>3, <2>4, GoneType DEF ReadyBacked, IsReady, Wanted, CoreServers
  <2>14. \A u \in Users :
            api[u].finalizer /\ ~api'[u].finalizer =>
              \A n \in 1..Len(api[u].refs) :
                u \notin accounts[ServerOf(api[u].refs[n])]
    BY <2>2, <2>4, <2>7
  <2>15. QED
    BY <1>3, <2>8, <2>9, <2>10, <2>11, <2>12, <2>13, <2>14 DEF Inductive
<1>7. QED
  BY <1>5, <1>6

(* A status is written only over the version that reconcile worked from. *)
LEMMA SetStatusStep ==
  ASSUME Inductive, TypeOK', SetStatus
  PROVE  Inductive' /\ accounts' = accounts
         /\ \A u \in Users : api[u].finalizer => api'[u].finalizer
<1> USE DEF users, inputs, sql
<1>1. /\ TypeOK /\ w \in Worker /\ w.key \in Users /\ w.user \in User
      /\ w.status \in StatusSummary /\ api[w.key] \in User
      /\ w.pc = "status" /\ Busy /\ ~w.user.deleting
      /\ SpecsOK /\ CacheOK /\ CopyOK /\ ProgressOK /\ AccountHeld /\ ReadyBacked
  BY DEF Inductive, TypeOK, WorkerOK, Worker, SetStatus, Busy
<1>2. PICK ans \in Errors, applied \in BOOLEAN :
        /\ Answers(UpdateVerdict, ans, applied)
        /\ IF applied
           THEN Store(w.key, [api[w.key] EXCEPT !.status = w.status])
           ELSE UNCHANGED <<api, synced>>
        /\ Return(ans # "ok")
  BY DEF SetStatus
<1>3. cache' = cache /\ accounts' = accounts
  BY DEF SetStatus
<1>4. w'.pc = "idle" /\ ~w'.current
  BY <1>1, <1>2, IdleType DEF Return
<1>5. CASE ~applied
  <2>1. UNCHANGED store
    BY <1>2, <1>3, <1>5 DEF store
  <2>2. Inductive'
    BY <1>4, <2>1, IdleKeeps
  <2>3. QED
    BY <1>3, <2>1, <2>2 DEF store
<1>6. CASE applied
  <2>1. /\ api[w.key].exists /\ w.current
        /\ api[w.key].deleting = w.user.deleting
        /\ api[w.key].refs = w.user.refs
        /\ cache[w.key].deleting = w.user.deleting
        /\ w.user.refs \in Specs[w.key]
    BY <1>1, <1>2, <1>6, UpdateFact DEF CopyOK, SpecsOK
  <2> DEFINE obj == [api[w.key] EXCEPT !.status = w.status]
  <2>2. /\ obj.exists = api[w.key].exists /\ obj.deleting = api[w.key].deleting
        /\ obj.status = w.status /\ obj.refs = api[w.key].refs
        /\ obj.finalizer = api[w.key].finalizer
    BY <1>1 DEF User
  <2>3. Store(w.key, obj)
    BY <1>2, <1>6
  <2> HIDE DEF obj
  <2>4. /\ api'[w.key] = obj
        /\ synced'[w.key] => synced[w.key] /\ api'[w.key] = api[w.key]
        /\ \A u \in Users : u # w.key => api'[u] = api[u] /\ synced'[u] = synced[u]
    BY <1>1, <2>3, StoreFact
  <2>5. SpecsOK'
    BY <1>1, <1>3, <1>4, <2>1, <2>2, <2>4 DEF SpecsOK, Busy
  <2>6. CacheOK'
    <3>1. ASSUME NEW u \in Users, cache[u].deleting
          PROVE  DeletionKnown(u, cache[u].refs)'
      <4>1. u # w.key
        BY <1>1, <2>1, <3>1
      <4>2. QED
        BY <1>1, <1>3, <2>4, <3>1, <4>1 DEF CacheOK, DeletionKnown
    <3>2. \A u \in Users : synced'[u] => cache[u] = api'[u]
      BY <1>1, <2>4 DEF CacheOK
    <3>3. \A u \in Users : cache[u].finalizer /\ ~cache[u].deleting => api'[u].finalizer
      BY <1>1, <2>2, <2>4 DEF CacheOK
    <3>4. QED
      BY <1>3, <3>1, <3>2, <3>3 DEF CacheOK
  <2>7. CopyOK'
    BY <1>4 DEF CopyOK, Busy, AtDatabase
  <2>8. ProgressOK'
    BY <1>4 DEF ProgressOK, AtDatabase
  <2>9. AccountHeld'
    BY <1>1, <1>3, <2>2, <2>4 DEF AccountHeld, CoreServers
  <2>10. ReadyBacked'
    <3>1. ASSUME w.status.ready, NEW s \in CoreServers(w.key)
          PROVE  w.key \in accounts[s]
      <4>1. PICK n \in 1..Len(w.user.refs) : ServerOf(w.user.refs[n]) = s
        BY <1>1, <2>1, CoreCovered
      <4>2. QED
        BY <1>1, <3>1, <4>1 DEF ProgressOK, OnServer
    <3>2. QED
      BY <1>1, <1>3, <2>2, <2>4, <3>1 DEF ReadyBacked, IsReady, Wanted, CoreServers
  <2>11. \A u \in Users : api[u].finalizer => api'[u].finalizer
    BY <2>2, <2>4
  <2>12. QED
    BY <1>3, <2>5, <2>6, <2>7, <2>8, <2>9, <2>10, <2>11 DEF Inductive
<1>7. QED
  BY <1>5, <1>6

(* A watch event brings the stored version into the cache. *)
LEMMA SyncUserStep ==
  ASSUME Inductive, TypeOK', NEW u \in Users, SyncUser(u)
  PROVE  Inductive'
<1> USE DEF users, inputs, sql
<1>1. /\ TypeOK /\ w \in Worker /\ w.key \in Users
      /\ cache \in [Users -> User] /\ synced \in [Users -> BOOLEAN]
      /\ SpecsOK /\ CacheOK /\ CopyOK /\ ProgressOK /\ AccountHeld /\ ReadyBacked
  BY DEF Inductive, TypeOK, WorkerOK, Worker
<1>2. api' = api /\ w' = w /\ accounts' = accounts
  BY DEF SyncUser
<1>3. /\ cache'[u] = api[u]
      /\ \A v \in Users : v # u => cache'[v] = cache[v] /\ synced'[v] = synced[v]
  BY <1>1 DEF SyncUser
<1>4. SpecsOK'
  BY <1>1, <1>2, <1>3 DEF SpecsOK, Busy
<1>5. CacheOK'
  <2>1. ASSUME NEW v \in Users, cache'[v].deleting
        PROVE  DeletionKnown(v, cache[v].refs)'
    <3>1. CASE v = u
      BY <1>2, <1>3, <2>1, <3>1 DEF DeletionKnown
    <3>2. CASE v # u
      BY <1>1, <1>2, <1>3, <2>1, <3>2 DEF CacheOK, DeletionKnown
    <3>3. QED
      BY <3>1, <3>2
  <2>2. QED
    BY <1>1, <1>2, <1>3, <2>1 DEF CacheOK
<1>6. CopyOK'
  <2>1. (Busy /\ w.user.deleting => DeletionKnown(w.key, w.user.refs))'
    BY <1>1, <1>2 DEF CopyOK, Busy, DeletionKnown
  <2>2. QED
    BY <1>1, <1>2, <1>3, <2>1 DEF CopyOK, Busy
<1>7. ProgressOK'
  BY <1>1, <1>2 DEF ProgressOK, OnServer
<1>8. AccountHeld' /\ ReadyBacked'
  BY <1>1, <1>2 DEF AccountHeld, ReadyBacked, IsReady, Wanted, CoreServers
<1>9. QED
  BY <1>4, <1>5, <1>6, <1>7, <1>8 DEF Inductive

(* A crash and restart of the operator keeps the invariant. *)
LEMMA CrashStep ==
  ASSUME Inductive, TypeOK', Crash
  PROVE  Inductive'
<1> USE DEF users, inputs, sql
<1>1. api' = api /\ accounts' = accounts /\ Restart
  BY DEF Crash
<1>2. AccountHeld' /\ ReadyBacked'
  BY <1>1 DEF Inductive, AccountHeld, ReadyBacked, IsReady, Wanted, CoreServers
<1>3. QED
  BY <1>1, <1>2, RestartKeeps

(* A step of the surroundings: users, worker and accounts stay. *)
LEMMA QuietStep ==
  ASSUME Inductive, TypeOK', UNCHANGED store, w' = w
  PROVE  Inductive'
<1>1. CacheOK' /\ AccountHeld' /\ ReadyBacked'
  BY StoreKept
<1>2. SpecsOK'
  BY DEF Inductive, SpecsOK, Busy, store
<1>3. CopyOK'
  BY DEF Inductive, CopyOK, DeletionKnown, Busy, store
<1>4. ProgressOK'
  BY DEF Inductive, ProgressOK, OnServer, store
<1>5. QED
  BY <1>1, <1>2, <1>3, <1>4 DEF Inductive

(* People write a User: what they may write, and what the caches and the   *)
(* worker still know about it.                                             *)
LEMMA PeopleWrite ==
  ASSUME Inductive, TypeOK', NEW u \in Users, NEW obj,
         Store(u, obj), Outdate(u), cache' = cache, accounts' = accounts,
         obj # api[u],
         obj.exists \/ obj = Gone,
         obj.exists => obj.refs \in Specs[u],
         api[u].finalizer => obj.finalizer,
         api[u].deleting => obj.deleting,
         ~api[u].deleting /\ ~api[u].finalizer /\ ~api[u].status.ready =>
           obj.deleting \/ (~obj.finalizer /\ ~obj.status.ready),
         obj.exists /\ ~obj.deleting /\ obj.status.ready =>
           api[u].exists /\ ~api[u].deleting /\ api[u].status.ready
  PROVE  Inductive'
<1>1. /\ TypeOK /\ w \in Worker /\ w.key \in Users
      /\ SpecsOK /\ CacheOK /\ CopyOK /\ ProgressOK /\ AccountHeld /\ ReadyBacked
  BY DEF Inductive, TypeOK, WorkerOK, Worker
<1>2. /\ api'[u] = obj
      /\ ~synced'[u]
      /\ \A v \in Users : v # u => api'[v] = api[v] /\ synced'[v] = synced[v]
  BY <1>1, StoreFact
<1>3. /\ w'.pc = w.pc /\ w'.key = w.key /\ w'.user = w.user /\ w'.i = w.i
      /\ w'.err = w.err /\ w'.status = w.status
      /\ w'.current => w.current /\ w.key # u
  BY <1>1 DEF Outdate, Worker
<1>4. ASSUME NEW v \in Users, NEW refs, DeletionKnown(v, refs)
      PROVE  DeletionKnown(v, refs)'
  BY <1>2, <1>4 DEF DeletionKnown
<1>5. SpecsOK'
  BY <1>1, <1>2, <1>3 DEF SpecsOK, Busy
<1>6. CacheOK'
  BY <1>1, <1>2, <1>4 DEF CacheOK
<1>7. CopyOK'
  BY <1>1, <1>2, <1>3, <1>4 DEF CopyOK, Busy
<1>8. ProgressOK'
  BY <1>1, <1>3 DEF ProgressOK, OnServer
<1>9. AccountHeld'
  BY <1>1, <1>2 DEF AccountHeld, CoreServers
<1>10. ReadyBacked'
  BY <1>1, <1>2 DEF ReadyBacked, IsReady, Wanted, CoreServers
<1>11. QED
  BY <1>5, <1>6, <1>7, <1>8, <1>9, <1>10 DEF Inductive

(* A User as kubectl creates it is unset but for its spec. *)
LEMMA NewUserFact ==
  ASSUME NEW refs
  PROVE  /\ NewUser(refs).exists = TRUE
         /\ NewUser(refs).deleting = FALSE
         /\ NewUser(refs).finalizer = FALSE
         /\ ~NewUser(refs).status.ready
         /\ NewUser(refs).refs = refs
<1>1. NewUser(refs).status = NoStatus
  BY DEF NewUser
<1>2. QED
  BY <1>1, StatusType DEF NewUser

(* Creating, deleting and editing a User, at any moment of a Reconcile     *)
(* call, keeps the invariant and removes no finalizer.                     *)
LEMMA PeopleStep ==
  ASSUME Inductive, TypeOK', NEW u \in Users,
         ApplyUser(u) \/ DeleteUser(u) \/ EditUser(u)
  PROVE  /\ Inductive'
         /\ accounts' = accounts
         /\ \A v \in Users : api[v].finalizer => api'[v].finalizer
<1> USE DEF users, inputs, sql
<1>1. TypeOK /\ SpecsOK /\ api[u] \in User
  BY DEF Inductive, TypeOK
<1>2. cache' = cache /\ accounts' = accounts /\ Outdate(u)
  BY DEF ApplyUser, DeleteUser, EditUser
<1>3. ASSUME NEW obj, Store(u, obj), api[u].finalizer => obj.finalizer
      PROVE  \A v \in Users : api[v].finalizer => api'[v].finalizer
  BY <1>1, <1>3, StoreFact
<1>4. CASE ApplyUser(u)
  <2>1. PICK refs \in Specs[u] : Store(u, NewUser(refs))
    BY <1>4 DEF ApplyUser
  <2>2. api[u] = Gone
    BY <1>1, <1>4 DEF ApplyUser, SpecsOK
  <2> DEFINE obj == NewUser(refs)
  <2>3. /\ Store(u, obj) /\ obj.exists /\ ~obj.deleting /\ ~obj.finalizer
        /\ ~obj.status.ready /\ obj.refs \in Specs[u]
    BY <2>1, NewUserFact
  <2> HIDE DEF obj
  <2>4. obj # api[u] /\ ~api[u].finalizer /\ ~api[u].deleting /\ ~api[u].status.ready
    BY <2>2, <2>3, GoneType
  <2>5. Inductive'
    BY <1>2, <2>3, <2>4, PeopleWrite
  <2>6. QED
    BY <1>2, <1>3, <2>3, <2>4, <2>5
<1>5. CASE DeleteUser(u)
  <2>1. /\ api[u].exists /\ ~api[u].deleting
        /\ Store(u, IF api[u].finalizer THEN [api[u] EXCEPT !.deleting = TRUE] ELSE Gone)
    BY <1>5 DEF DeleteUser
  <2>2. CASE api[u].finalizer
    <3> DEFINE obj == [api[u] EXCEPT !.deleting = TRUE]
    <3>1. /\ Store(u, obj) /\ obj.exists /\ obj.deleting = TRUE
          /\ obj.finalizer = api[u].finalizer
          /\ obj.refs = api[u].refs
      BY <1>1, <2>1, <2>2 DEF User
    <3> HIDE DEF obj
    <3>2. obj.refs \in Specs[u] /\ obj # api[u]
      BY <1>1, <2>1, <3>1 DEF SpecsOK
    <3>3. Inductive'
      BY <1>2, <2>1, <2>2, <3>1, <3>2, PeopleWrite
    <3>4. QED
      BY <1>2, <1>3, <2>2, <3>1, <3>3
  <2>3. CASE ~api[u].finalizer
    <3>1. Store(u, Gone) /\ Gone # api[u]
      BY <2>1, <2>3, GoneType
    <3>2. Inductive'
      BY <1>2, <2>1, <2>3, <3>1, GoneType, PeopleWrite
    <3>3. QED
      BY <1>2, <1>3, <2>3, <3>1, <3>2
  <2>4. QED
    BY <2>2, <2>3
<1>6. CASE EditUser(u)
  <2>1. PICK refs \in Specs[u] \ {api[u].refs} : Store(u, [api[u] EXCEPT !.refs = refs])
    BY <1>6 DEF EditUser
  <2> DEFINE obj == [api[u] EXCEPT !.refs = refs]
  <2>2. /\ Store(u, obj) /\ obj.exists = api[u].exists
        /\ obj.deleting = api[u].deleting /\ obj.finalizer = api[u].finalizer
        /\ obj.status = api[u].status /\ obj.refs = refs
    BY <1>1, <2>1 DEF User
  <2> HIDE DEF obj
  <2>3. api[u].exists /\ obj # api[u]
    BY <1>6, <2>1, <2>2 DEF EditUser
  <2>4. Inductive'
    BY <1>2, <2>1, <2>2, <2>3, PeopleWrite
  <2>5. QED
    BY <1>2, <1>3, <2>2, <2>4
<1>7. QED
  BY <1>4, <1>5, <1>6

(* Every step preserves the invariant.  It removes a finalizer only in     *)
(* RemoveFinalizer and an SQL user only in DropUser.                       *)
LEMMA IndStep ==
  ASSUME Inductive, [Next]_vars
  PROVE  /\ Inductive'
         /\ \A u \in Users :
              api[u].finalizer /\ ~api'[u].finalizer =>
                \A n \in 1..Len(api[u].refs) :
                  u \notin accounts'[ServerOf(api[u].refs[n])]
         /\ \A u \in Users, s \in Servers :
              u \in accounts[s] /\ u \notin accounts'[s] => api[u].deleting
<1> USE DEF users, inputs, sql
<1>1. TypeOK'
  BY TypeStep DEF Inductive
<1>2. CASE AddFinalizer
  BY <1>1, <1>2, AddFinalizerStep
<1>3. CASE \/ GetDatabase \/ GetPrivileges \/ Connect \/ PasswordMissing
           \/ CreateSecret \/ Grant \/ CloseApplied \/ Revoke \/ DeleteSecret
           \/ Succeed
  <2>1. Inductive'
    BY <1>1, <1>3, ReadingSteps
  <2>2. api' = api /\ accounts' = accounts
    BY <1>3 DEF GetDatabase, GetPrivileges, Connect, PasswordMissing, CreateSecret,
       Grant, CloseApplied, Revoke, DeleteSecret, Succeed
  <2>3. QED
    BY <2>1, <2>2
<1>4. CASE CreateUser
  <2>1. Inductive' /\ \A s \in Servers, u \in Users : u \in accounts[s] => u \in accounts'[s]
    BY <1>1, <1>4, CreateUserStep
  <2>2. api' = api
    BY <1>4 DEF CreateUser
  <2>3. QED
    BY <2>1, <2>2
<1>5. CASE DropUser
  <2>1. api' = api
    BY <1>5 DEF DropUser
  <2>2. QED
    BY <1>1, <1>5, <2>1, DropUserStep
<1>6. CASE RemoveFinalizer
  BY <1>1, <1>6, RemoveFinalizerStep
<1>7. CASE SetStatus
  BY <1>1, <1>7, SetStatusStep
<1>8. ASSUME NEW u \in Users, Fetch(u) \/ SyncUser(u)
      PROVE  Inductive' /\ api' = api /\ accounts' = accounts
  <2>1. Inductive'
    BY <1>1, <1>8, FetchStep, SyncUserStep
  <2>2. QED
    BY <1>8, <2>1 DEF Fetch, SyncUser
<1>9. CASE Crash
  <2>1. Inductive'
    BY <1>1, <1>9, CrashStep
  <2>2. api' = api /\ accounts' = accounts
    BY <1>9 DEF Crash
  <2>3. QED
    BY <2>1, <2>2
<1>10. ASSUME NEW u \in Users, ApplyUser(u) \/ DeleteUser(u) \/ EditUser(u)
       PROVE  /\ Inductive' /\ accounts' = accounts
              /\ \A v \in Users : api[v].finalizer => api'[v].finalizer
  BY <1>1, <1>10, PeopleStep
<1>11. CASE \/ \E d \in Databases : ToggleDatabase(d) \/ ReplaceCA(d)
            \/ \E n \in PrivNames : TogglePrivileges(n) \/ EditPrivileges(n)
            \/ \E n \in SecretNames : ChangeSecret(n) \/ SyncSecret(n)
            \/ \E s \in Servers, p \in PrivSpecs : DropTarget(s, p)
            \/ Resync \/ Heal \/ UNCHANGED vars
  <2>1. UNCHANGED store /\ w' = w
    BY <1>11 DEF store, vars, ToggleDatabase, ReplaceCA, TogglePrivileges,
       EditPrivileges, ChangeSecret, SyncSecret, DropTarget, Resync, Heal
  <2>2. Inductive'
    BY <1>1, <2>1, QuietStep
  <2>3. QED
    BY <2>1, <2>2 DEF store
<1>12. QED
  BY <1>2, <1>3, <1>4, <1>5, <1>6, <1>7, <1>8, <1>9, <1>10, <1>11
     DEF Next, Reconcile, Manager, People

(* Every reachable state satisfies the inductive invariant: the caches and *)
(* the worker's copy of a User, however stale, never mislead reconcile     *)
(* about the stored User in the ways that Inductive spells out.            *)
THEOREM InductiveHolds == Spec => []Inductive
<1>1. Init => Inductive
  BY IndInit
<1>2. Inductive /\ [Next]_vars => Inductive'
  BY IndStep
<1>3. QED
  BY <1>1, <1>2, PTL DEF Spec

(* No SQL user outlives its User: on every server its spec always names,   *)
(* the finalizer that reconcile adds first is there as long as the account.*)
THEOREM AccountHeldHolds == Spec => []AccountHeld
<1>1. Inductive => AccountHeld
  BY DEF Inductive
<1>2. QED
  BY <1>1, InductiveHolds, PTL

(* A status that setStatus wrote as ready is backed by the SQL users, also *)
(* with stale caches, failing calls, crashes and concurrent edits.         *)
THEOREM ReadyBackedHolds == Spec => []ReadyBacked
<1>1. Inductive => ReadyBacked
  BY DEF Inductive
<1>2. QED
  BY <1>1, InductiveHolds, PTL

(* The finalizer goes only when the SQL user is gone from every database   *)
(* the stored spec names: the Update of reconcile is refused as a conflict *)
(* whenever the spec was edited during the deletion's loop.                *)
THEOREM ReleaseIsCleanHolds == Spec => ReleaseIsClean
<1>1. Inductive /\ [Next]_vars =>
        [\A u \in Users :
           api[u].finalizer /\ ~api'[u].finalizer =>
             \A n \in 1..Len(api[u].refs) :
               u \notin accounts'[ServerOf(api[u].refs[n])]]_vars
  BY IndStep
<1>2. QED
  BY <1>1, InductiveHolds, PTL DEF Spec, ReleaseIsClean

(* databaseUserDelete drops an SQL user only while the stored User is being*)
(* deleted, even if it works from a copy that has been replaced since.     *)
THEOREM DropsOnlyDeletedHolds == Spec => DropsOnlyDeleted
<1>1. Inductive /\ [Next]_vars =>
        [\A u \in Users, s \in Servers :
           u \in accounts[s] /\ u \notin accounts'[s] => api[u].deleting]_vars
  BY IndStep
<1>2. QED
  BY <1>1, InductiveHolds, PTL DEF Spec, DropsOnlyDeleted
===============================================================================
