------------------------------ MODULE SecretProofs ------------------------------
(***************************************************************************)
(* SecretHeld, for every value of the constants under which no call fails  *)
(* and no spec is edited.                                                  *)
(***************************************************************************)
EXTENDS UserControllerProofs

InLoop == w.pc \in AtDatabase \cup {"database"}

(* Without edits the spec stays the same from the finalizer on: caches and *)
(* copies that show a finalizer have the spec of the stored User, if that  *)
(* has one as well.                                                        *)
RefsKept ==
  /\ \A u \in Users : cache[u].finalizer /\ api[u].finalizer =>
       cache[u].refs = api[u].refs
  /\ InLoop /\ api[w.key].finalizer => w.user.refs = api[w.key].refs

(* A Secret of the operator is one its User names. *)
SecretNamed ==
  \A n \in SecretNames : secrets[n] \in Users =>
    \E k \in 1..Len(api[secrets[n]].refs) : api[secrets[n]].refs[k].created = n

(* The loop of a deletion leaves no Secret of its User behind. *)
SecretProgress ==
  InLoop /\ w.user.deleting =>
    \A k \in 1..Len(w.user.refs) : k < w.i =>
      \A n \in SecretNames : w.user.refs[k].created = n => secrets[n] # w.key

SecretInductive ==
  ~faulty /\ RefsKept /\ SecretNamed /\ SecretProgress /\ SecretHeld

-------------------------------------------------------------------------------
(* Without failures a call takes effect exactly when it answers ok. *)
LEMMA Reliable ==
  ASSUME ~faulty, NEW v \in Errors, NEW ans \in Errors, NEW applied \in BOOLEAN,
         Answers(v, ans, applied)
  PROVE  ans = v /\ (applied <=> ans = "ok")
  BY DEF Answers

(* In the first state there is no User and no Secret of one. *)
LEMMA SecretInit ==
  ASSUME Init, Faults = FALSE
  PROVE  SecretInductive
<1>1. ~faulty /\ w.pc = "idle"
  BY IdleType DEF Init
<1>2. \A u \in Users : ~api[u].finalizer
  BY GoneType DEF Init
<1>3. \A n \in SecretNames : secrets[n] \notin Users
  BY ResourceAssumption DEF Init
<1>4. QED
  BY <1>1, <1>2, <1>3 DEF SecretInductive, RefsKept, SecretNamed, SecretProgress,
     SecretHeld, InLoop, AtDatabase

(* A write of a User that has Secrets leaves its spec and its finalizer. *)
LEMMA OwnersKept ==
  ASSUME SecretNamed, SecretHeld, secrets' = secrets,
         \A u \in Users : api[u].finalizer =>
           \/ api'[u].finalizer /\ api'[u].refs = api[u].refs
           \/ \A n \in SecretNames : secrets[n] # u
  PROVE  SecretNamed' /\ SecretHeld'
  BY DEF SecretNamed, SecretHeld

(* A step of the worker that stays in its loop, at the same position, or   *)
(* leaves it, and gives its User no Secret while deleting it.              *)
LEMMA LoopKept ==
  ASSUME RefsKept, SecretProgress, api' = api, cache' = cache,
         \/ w'.pc \notin AtDatabase \cup {"database"}
         \/ /\ w.pc \in AtDatabase \cup {"database"}
            /\ w'.key = w.key /\ w'.user = w.user /\ w'.i = w.i,
         w.user.deleting =>
           \A n \in SecretNames : secrets'[n] = w.key => secrets[n] = w.key
  PROVE  RefsKept' /\ SecretProgress'
  BY DEF RefsKept, SecretProgress, InLoop

(* The calls of Reconcile that write neither Users nor Secrets. *)
LEMMA QuietCalls ==
  ASSUME Inductive, SecretInductive,
         \/ GetDatabase \/ GetPrivileges \/ Connect \/ PasswordMissing
         \/ CreateUser \/ Grant \/ CloseApplied \/ Revoke \/ DropUser \/ Succeed
  PROVE  SecretInductive'
<1> USE DEF users, inputs, sql
<1>1. /\ TypeOK /\ w \in Worker /\ w.key \in Users /\ w.user \in User
      /\ w.i \in Nat /\ w.err \in Errors
  BY DEF Inductive, TypeOK, WorkerOK, Worker
<1>2. w.pc \in AtDatabase \cup {"database"} /\ w.user.exists
  BY <1>1 DEF TypeOK, WorkerOK, GetDatabase, GetPrivileges, Connect,
     PasswordMissing, CreateUser, Grant, CloseApplied, Revoke, DropUser, Succeed,
     AtDatabase
<1>3. api' = api /\ secrets' = secrets /\ faulty' = faulty
  BY DEF GetDatabase, GetPrivileges, Connect, PasswordMissing, CreateUser, Grant,
     CloseApplied, Revoke, DropUser, Succeed
<1>4. SecretNamed' /\ SecretHeld' /\ ~faulty'
  BY <1>3, OwnersKept DEF SecretInductive
<1>5. ASSUME cache' = cache,
             \/ w'.pc \notin AtDatabase \cup {"database"}
             \/ w'.key = w.key /\ w'.user = w.user /\ w'.i = w.i
      PROVE  SecretInductive'
  BY <1>2, <1>3, <1>4, <1>5, LoopKept DEF SecretInductive
<1>6. ASSUME cache' = cache, NEW err \in Errors,
             Failed(w, err) \/ Failed([w EXCEPT !.j = 0], err)
      PROVE  SecretInductive'
  <2>1. /\ [w EXCEPT !.j = 0] \in Worker
        /\ [w EXCEPT !.j = 0].key = w.key
        /\ [w EXCEPT !.j = 0].user = w.user
    BY <1>1 DEF Worker
  <2>2. w'.pc \in {"idle", "status"}
    BY <1>1, <1>2, <1>6, <2>1, FailedFact
  <2>3. QED
    BY <1>5, <1>6, <2>2 DEF AtDatabase
<1>7. CASE GetDatabase
  <2>1. cache' = cache /\ "NotFound" \in Errors
    BY <1>7 DEF GetDatabase, Errors
  <2>2. CASE w' = [w EXCEPT !.pc = "privileges", !.j = 1]
    BY <1>1, <1>5, <2>1, <2>2 DEF Worker
  <2>3. QED
    BY <1>6, <1>7, <2>1, <2>2 DEF GetDatabase
<1>8. CASE GetPrivileges
  <2>1. cache' = cache /\ "NotFound" \in Errors
    BY <1>8 DEF GetPrivileges, Errors
  <2>2. CASE w' = [w EXCEPT !.j = @ + 1, !.privs = @ \o privileges[Ref.privileges[w.j]].list]
    BY <1>1, <1>5, <2>1, <2>2 DEF Worker
  <2>3. QED
    BY <1>6, <1>8, <2>1, <2>2 DEF GetPrivileges
<1>9. CASE Connect
  <2>1. cache' = cache /\ "secret" \in Errors /\ "connect" \in Errors
    BY <1>9 DEF Connect, Errors
  <2>2. CASE w' = [w EXCEPT !.pc = IF w.user.deleting THEN "revoke" ELSE "create",
                            !.j = 1, !.files = CertFiles(Ref.name)]
    BY <1>1, <1>5, <2>1, <2>2 DEF Worker
  <2>3. QED
    BY <1>6, <1>9, <2>1, <2>2 DEF Connect
<1>10. CASE PasswordMissing
  BY <1>6, <1>10, VerdictTypes DEF PasswordMissing
<1>11. CASE CreateUser
  <2>1. PICK ans \in Errors :
          LET err == CreateUserError(Ref.name, ans, caKey[Ref.name])
          IN  \/ /\ err = "ok"
                 /\ w' = [w EXCEPT !.pc = IF CreateUserData(Ref.name, ans)
                                          THEN "secret" ELSE "grant"]
                 /\ UNCHANGED <<queue, cache, synced, secretsSeen>>
              \/ /\ err \notin {"ok", "panic"}
                 /\ Failed([w EXCEPT !.j = 0], err)
                 /\ UNCHANGED <<cache, synced, secretsSeen>>
              \/ /\ err = "panic"
                 /\ Restart
    BY <1>11 DEF CreateUser
  <2> DEFINE err == CreateUserError(Ref.name, ans, caKey[Ref.name])
  <2>2. err \in Errors
    BY VerdictTypes
  <2> HIDE DEF err
  <2>3. CASE err = "ok"
    BY <1>1, <1>5, <2>1, <2>3 DEF Worker, err
  <2>4. CASE err \notin {"ok", "panic"}
    BY <1>6, <2>1, <2>2, <2>4 DEF err
  <2>5. CASE err = "panic"
    <3>1. Restart
      BY <2>1, <2>5 DEF err
    <3>2. w'.pc = "idle" /\ \A u \in Users : cache'[u] = api'[u]
      BY <1>1, <1>3, <3>1, RestartType DEF Restart
    <3>3. QED
      BY <1>4, <3>2 DEF SecretInductive, RefsKept, SecretProgress, InLoop, AtDatabase
  <2>6. QED
    BY <2>3, <2>4, <2>5
<1>12. CASE Grant
  <2>1. PICK ans \in Errors :
          IF ans = "ok"
          THEN w' = [w EXCEPT !.j = @ + 1, !.files = FilesAfter(Ref.name, Privilege, @)]
          ELSE Failed(w, ans)
    BY <1>12 DEF Grant
  <2>2. cache' = cache
    BY <1>12 DEF Grant
  <2>3. CASE ans = "ok"
    BY <1>1, <1>5, <2>1, <2>2, <2>3 DEF Worker
  <2>4. QED
    BY <1>6, <2>1, <2>2, <2>3
<1>13. CASE CloseApplied
  <2>1. w' = NextDatabase /\ cache' = cache /\ w.pc \in AtDatabase /\ ~w.user.deleting
    BY <1>1, <1>13 DEF CloseApplied, AtDatabase, TypeOK, WorkerOK
  <2>2. w'.key = w.key /\ w'.user = w.user
    BY <1>1, <2>1, NextDatabaseType
  <2>3. QED
    BY <1>2, <1>3, <1>4, <2>1, <2>2 DEF SecretInductive, RefsKept, SecretProgress, InLoop
<1>14. CASE Revoke
  <2>1. PICK ans \in Errors :
          w' = IF RevokeError(Ref.name, ans) = "ok"
               THEN [w EXCEPT !.j = IF ans = "ok" THEN @ + 1 ELSE Len(w.privs) + 1,
                              !.files = FilesAfter(Ref.name, Privilege, @)]
               ELSE [w EXCEPT !.pc = "delSecret", !.err = ans]
    BY <1>14 DEF Revoke
  <2>2. w'.key = w.key /\ w'.user = w.user /\ w'.i = w.i
    BY <1>1, <2>1 DEF Worker
  <2>3. QED
    BY <1>5, <1>14, <2>2 DEF Revoke
<1>15. CASE DropUser
  <2>1. PICK e : w' = [w EXCEPT !.pc = "delSecret", !.err = e]
    BY <1>15 DEF DropUser
  <2>2. QED
    BY <1>1, <1>5, <1>15, <2>1 DEF DropUser, Worker
<1>16. CASE Succeed
  <2>1. w' = Idle(w.key) \/ w' = Reporting(w, SuccessStatus)
    BY <1>16 DEF Succeed, Return
  <2>2. Idle(w.key).pc = "idle"
    BY <1>1, IdleType
  <2>3. Reporting(w, SuccessStatus).pc = "status"
    BY <1>1, StatusType, ReportingType
  <2>4. QED
    BY <1>5, <1>16, <2>1, <2>2, <2>3 DEF Succeed, AtDatabase
<1>17. QED
  BY <1>7, <1>8, <1>9, <1>10, <1>11, <1>12, <1>13, <1>14, <1>15, <1>16

(* CreateSecret names the Secret as the spec of the stored User does, which*)
(* has the finalizer by then.                                              *)
LEMMA CreateSecretStep ==
  ASSUME Inductive, SecretInductive, CreateSecret
  PROVE  SecretInductive'
<1> USE DEF users, inputs, sql
<1>1. /\ TypeOK /\ w \in Worker /\ w.key \in Users /\ w.user \in User
      /\ w.user.exists /\ ~w.user.deleting /\ w.pc = "secret" /\ w.pc \in AtDatabase
      /\ w.i \in 1..Len(w.user.refs)
  BY RefType DEF Inductive, TypeOK, WorkerOK, Worker, CreateSecret, AtDatabase
<1>2. api[w.key].finalizer /\ api[w.key].refs = w.user.refs
  BY <1>1 DEF Inductive, CopyOK, SecretInductive, RefsKept, InLoop
<1>3. api' = api /\ cache' = cache /\ ~faulty'
  BY DEF CreateSecret, SecretInductive
<1>4. \/ secrets' = secrets
      \/ Ref.created \in SecretNames /\ secrets' = [secrets EXCEPT ![Ref.created] = w.key]
  <2>1. SUFFICES ASSUME NEW ans \in Errors, NEW applied \in BOOLEAN,
                        Answers(SecretVerdict(Ref.created), ans, applied), applied
                 PROVE  Ref.created \in SecretNames
    BY DEF CreateSecret
  <2>2. SecretVerdict(Ref.created) = "ok"
    BY <2>1, VerdictTypes, AnswersFact
  <2>3. Ref.created # NoSecret /\ Ref \in DatabaseRef
    BY <1>1, <2>2, RefType DEF SecretVerdict
  <2>4. QED
    BY <2>3 DEF DatabaseRef
<1>5. SecretNamed' /\ SecretHeld'
  <2>1. CASE secrets' = secrets
    BY <1>3, <2>1, OwnersKept DEF SecretInductive
  <2>2. CASE Ref.created \in SecretNames /\ secrets' = [secrets EXCEPT ![Ref.created] = w.key]
    <3>1. \A n \in SecretNames :
            secrets'[n] = IF n = Ref.created THEN w.key ELSE secrets[n]
      BY <1>1, <2>2 DEF TypeOK
    <3>2. \E k \in 1..Len(api[w.key].refs) : api[w.key].refs[k].created = Ref.created
      BY <1>1, <1>2 DEF Ref
    <3>3. QED
      BY <1>2, <1>3, <3>1, <3>2 DEF SecretInductive, SecretNamed, SecretHeld
  <2>3. QED
    BY <1>4, <2>1, <2>2
<1>6. \/ w' = [w EXCEPT !.pc = "grant"]
      \/ \E ans \in Errors : Failed([w EXCEPT !.j = 0], ans)
  BY DEF CreateSecret
<1>7. \/ w'.pc \notin AtDatabase \cup {"database"}
      \/ w'.key = w.key /\ w'.user = w.user /\ w'.i = w.i
  <2>1. CASE w' = [w EXCEPT !.pc = "grant"]
    BY <1>1, <2>1 DEF Worker
  <2>2. ASSUME NEW ans \in Errors, Failed([w EXCEPT !.j = 0], ans)
        PROVE  w'.pc \in {"idle", "status"}
    <3>1. /\ [w EXCEPT !.j = 0] \in Worker
          /\ [w EXCEPT !.j = 0].key = w.key
          /\ [w EXCEPT !.j = 0].user = w.user
      BY <1>1 DEF Worker
    <3>2. QED
      BY <1>1, <2>2, <3>1, FailedFact
  <2>3. QED
    BY <1>6, <2>1, <2>2 DEF AtDatabase
<1>8. RefsKept' /\ SecretProgress'
  BY <1>1, <1>3, <1>7, LoopKept DEF SecretInductive
<1>9. QED
  BY <1>3, <1>5, <1>8 DEF SecretInductive

(* The deferred deletion of the Secret leaves none behind at position i. *)
LEMMA DeleteSecretStep ==
  ASSUME Inductive, SecretInductive, DeleteSecret
  PROVE  SecretInductive'
<1> USE DEF users, inputs, sql
<1>1. /\ TypeOK /\ w \in Worker /\ w.key \in Users /\ w.user \in User
      /\ w.user.exists /\ w.pc = "delSecret" /\ w.pc \in AtDatabase
      /\ w.err \in Errors /\ w.i \in Nat
  BY DEF Inductive, TypeOK, WorkerOK, Worker, DeleteSecret, AtDatabase
<1>2. api' = api /\ cache' = cache /\ ~faulty'
  BY DEF DeleteSecret, SecretInductive
<1>3. /\ \A n \in SecretNames : secrets'[n] = secrets[n] \/ secrets'[n] = "absent"
      /\ \A n \in SecretNames : Ref.created = n => secrets'[n] = "absent"
  BY <1>1, ResourceAssumption DEF DeleteSecret, SecretInductive, TypeOK
<1>4. "absent" \notin Users
  BY ResourceAssumption
<1>5. SecretNamed' /\ SecretHeld'
  BY <1>2, <1>3, <1>4 DEF SecretInductive, SecretNamed, SecretHeld
<1>6. RefsKept' /\ SecretProgress'
  <2>1. CASE w.err = "ok"
    <3>1. w' = NextDatabase
      BY <2>1 DEF DeleteSecret
    <3>2. w'.key = w.key /\ w'.user = w.user /\ w'.i = w.i + 1
      BY <1>1, <3>1, NextDatabaseType
    <3>3. RefsKept'
      BY <1>1, <1>2, <3>2 DEF SecretInductive, RefsKept, InLoop
    <3>4. ASSUME NEW k \in 1..Len(w.user.refs), k < w.i + 1,
                 NEW n \in SecretNames, w.user.refs[k].created = n, w.user.deleting
          PROVE  secrets'[n] # w.key
      <4>1. CASE k = w.i
        BY <1>1, <1>3, <1>4, <3>4, <4>1 DEF Ref
      <4>2. CASE k < w.i
        BY <1>1, <1>3, <1>4, <3>4, <4>2 DEF SecretInductive, SecretProgress, InLoop
      <4>3. QED
        BY <1>1, <3>4, <4>1, <4>2
    <3>5. SecretProgress'
      BY <3>2, <3>4 DEF SecretProgress
    <3>6. QED
      BY <3>3, <3>5
  <2>2. CASE w.err # "ok"
    <3>1. Failed(w, w.err)
      BY <2>2 DEF DeleteSecret
    <3>2. w'.pc \in {"idle", "status"}
      BY <1>1, <3>1, FailedFact
    <3>3. QED
      BY <1>1, <1>2, <1>3, <1>4, <3>2, LoopKept DEF SecretInductive, AtDatabase
  <2>3. QED
    BY <2>1, <2>2
<1>7. QED
  BY <1>2, <1>5, <1>6 DEF SecretInductive

(* The Update that adds the finalizer is accepted only of a copy with the  *)
(* stored spec, which the cache then shows as well.                        *)
LEMMA AddFinalizerSecrets ==
  ASSUME Inductive, SecretInductive, AddFinalizer
  PROVE  SecretInductive'
<1> USE DEF users, inputs, sql
<1>1. /\ TypeOK /\ w \in Worker /\ w.key \in Users /\ w.user \in User
      /\ api[w.key] \in User /\ w.user.exists /\ ~w.user.deleting /\ CopyOK
  BY DEF Inductive, TypeOK, WorkerOK, Worker, AddFinalizer
<1>2. PICK ans \in Errors, applied \in BOOLEAN :
        /\ Answers(UpdateVerdict, ans, applied)
        /\ IF applied
           THEN Store(w.key, [api[w.key] EXCEPT !.finalizer = TRUE])
           ELSE UNCHANGED <<api, synced>>
        /\ IF ans = "ok"
           THEN w' = [w EXCEPT !.user.finalizer = TRUE, !.pc = "database", !.i = 1]
           ELSE Failed([w EXCEPT !.user.finalizer = TRUE,
                                 !.current = w.current /\ ~applied], ans)
  BY DEF AddFinalizer
<1>3. cache' = cache /\ secrets' = secrets /\ ~faulty'
  BY DEF AddFinalizer, SecretInductive
<1>4. applied <=> ans = "ok"
  BY <1>2, VerdictTypes, Reliable DEF SecretInductive
<1>5. CASE applied
  <2>1. /\ w.user.refs = api[w.key].refs /\ cache[w.key].refs = api[w.key].refs
    BY <1>1, <1>2, <1>5, UpdateFact DEF CopyOK
  <2> DEFINE obj == [api[w.key] EXCEPT !.finalizer = TRUE]
  <2>2. obj.finalizer /\ obj.refs = api[w.key].refs /\ Store(w.key, obj)
    BY <1>1, <1>2, <1>5 DEF User
  <2> HIDE DEF obj
  <2>3. api'[w.key] = obj /\ \A v \in Users : v # w.key => api'[v] = api[v]
    BY <1>1, <2>2, StoreFact
  <2>4. SecretNamed' /\ SecretHeld'
    BY <1>3, <2>2, <2>3, OwnersKept DEF SecretInductive
  <2>5. w' = [w EXCEPT !.user.finalizer = TRUE, !.pc = "database", !.i = 1]
    BY <1>2, <1>4, <1>5
  <2>6. w'.key = w.key /\ w'.user.refs = w.user.refs /\ ~w'.user.deleting
    BY <1>1, <2>5 DEF Worker, User
  <2>7. RefsKept' /\ SecretProgress'
    BY <1>3, <2>1, <2>2, <2>3, <2>6 DEF SecretInductive, RefsKept, SecretProgress
  <2>8. QED
    BY <1>3, <2>4, <2>7 DEF SecretInductive
<1>6. CASE ~applied
  <2> DEFINE x == [w EXCEPT !.user.finalizer = TRUE, !.current = w.current /\ ~applied]
  <2>1. api' = api /\ Failed(x, ans)
    BY <1>2, <1>4, <1>6
  <2>2. x \in Worker /\ x.key = w.key /\ x.user.exists
    BY <1>1 DEF Worker, User
  <2> HIDE DEF x
  <2>3. w'.pc \in {"idle", "status"}
    BY <1>1, <2>1, <2>2, FailedFact
  <2>4. RefsKept' /\ SecretProgress'
    BY <1>1, <1>3, <2>1, <2>3, LoopKept DEF SecretInductive, AtDatabase
  <2>5. QED
    BY <1>3, <2>1, <2>4, OwnersKept DEF SecretInductive
<1>7. QED
  BY <1>5, <1>6

(* The finalizer goes only with the spec the loop has worked through: no   *)
(* Secret of the User is left.                                             *)
LEMMA RemoveFinalizerSecrets ==
  ASSUME Inductive, SecretInductive, RemoveFinalizer
  PROVE  SecretInductive'
<1> USE DEF users, inputs, sql
<1>1. /\ TypeOK /\ w.key \in Users /\ w.user \in User /\ w.i \in Nat /\ CopyOK
      /\ w.user.deleting /\ w.pc = "database" /\ w.i > Len(w.user.refs)
  BY DEF Inductive, TypeOK, WorkerOK, Worker, RemoveFinalizer
<1>2. PICK ans \in Errors, applied \in BOOLEAN :
        /\ Answers(UpdateVerdict, ans, applied)
        /\ IF applied THEN Store(w.key, Gone) ELSE UNCHANGED <<api, synced>>
        /\ Return(ans # "ok")
  BY DEF RemoveFinalizer
<1>3. cache' = cache /\ secrets' = secrets /\ ~faulty'
  BY DEF RemoveFinalizer, SecretInductive
<1>4. w'.pc = "idle"
  BY <1>1, <1>2, IdleType DEF Return
<1>5. SecretProgress'
  BY <1>4 DEF SecretProgress, InLoop, AtDatabase
<1>6. CASE applied
  <2>1. api[w.key].refs = w.user.refs
    BY <1>1, <1>2, <1>6, UpdateFact DEF CopyOK
  <2>2. api'[w.key] = Gone /\ \A v \in Users : v # w.key => api'[v] = api[v]
    BY <1>1, <1>2, <1>6, StoreFact
  <2>3. ASSUME NEW n \in SecretNames
        PROVE  secrets[n] # w.key
    <3>1. SUFFICES ASSUME secrets[n] = w.key PROVE FALSE
      OBVIOUS
    <3>2. PICK k \in 1..Len(w.user.refs) : w.user.refs[k].created = n
      BY <1>1, <2>1, <3>1 DEF SecretInductive, SecretNamed
    <3>3. k < w.i
      BY <1>1 DEF User
    <3>4. QED
      BY <1>1, <3>1, <3>2, <3>3 DEF SecretInductive, SecretProgress, InLoop
  <2>4. SecretNamed' /\ SecretHeld'
    BY <1>1, <1>3, <2>2, <2>3, OwnersKept DEF SecretInductive
  <2>5. RefsKept'
    BY <1>3, <1>4, <2>2, GoneType DEF SecretInductive, RefsKept, InLoop, AtDatabase
  <2>6. QED
    BY <1>3, <1>5, <2>4, <2>5 DEF SecretInductive
<1>7. CASE ~applied
  <2>1. api' = api
    BY <1>2, <1>7
  <2>2. RefsKept'
    BY <1>3, <1>4, <2>1 DEF SecretInductive, RefsKept, InLoop, AtDatabase
  <2>3. QED
    BY <1>3, <1>5, <2>1, <2>2, OwnersKept DEF SecretInductive
<1>8. QED
  BY <1>6, <1>7

(* setStatus leaves spec and finalizer. *)
LEMMA SetStatusSecrets ==
  ASSUME Inductive, SecretInductive, SetStatus
  PROVE  SecretInductive'
<1> USE DEF users, inputs, sql
<1>1. TypeOK /\ w.key \in Users /\ api[w.key] \in User
  BY DEF Inductive, TypeOK, WorkerOK, Worker
<1>2. PICK ans \in Errors, applied \in BOOLEAN :
        /\ IF applied
           THEN Store(w.key, [api[w.key] EXCEPT !.status = w.status])
           ELSE UNCHANGED <<api, synced>>
        /\ Return(ans # "ok")
  BY DEF SetStatus
<1>3. cache' = cache /\ secrets' = secrets /\ ~faulty'
  BY DEF SetStatus, SecretInductive
<1>4. w'.pc = "idle"
  BY <1>1, <1>2, IdleType DEF Return
<1>5. \A u \in Users : api'[u].finalizer = api[u].finalizer /\ api'[u].refs = api[u].refs
  <2> DEFINE obj == [api[w.key] EXCEPT !.status = w.status]
  <2>1. obj.finalizer = api[w.key].finalizer /\ obj.refs = api[w.key].refs
    BY <1>1 DEF User
  <2>2. (applied /\ Store(w.key, obj)) \/ api' = api
    BY <1>2
  <2> HIDE DEF obj
  <2>3. QED
    BY <1>1, <2>1, <2>2, StoreFact
<1>6. SecretNamed' /\ SecretHeld'
  BY <1>3, <1>5, OwnersKept DEF SecretInductive
<1>7. RefsKept' /\ SecretProgress'
  BY <1>3, <1>4, <1>5 DEF SecretInductive, RefsKept, SecretProgress, InLoop, AtDatabase
<1>8. QED
  BY <1>3, <1>6, <1>7 DEF SecretInductive

(* Fetch takes the spec the cache shows, at the first database. *)
LEMMA FetchSecrets ==
  ASSUME Inductive, SecretInductive, NEW u \in Users, Fetch(u)
  PROVE  SecretInductive'
<1> USE DEF users, inputs, sql
<1>1. /\ TypeOK /\ Idle(u) \in Worker /\ Idle(u).pc = "idle" /\ Idle(u).key = u
      /\ cache[u] \in User
  BY IdleType DEF Inductive, TypeOK
<1>2. api' = api /\ cache' = cache /\ secrets' = secrets /\ ~faulty'
  BY DEF Fetch, SecretInductive
<1>3. \/ w'.pc \in {"idle", "finalizer"}
      \/ w'.key = u /\ w'.user = cache[u] /\ cache[u].finalizer /\ w'.i = 1
  BY <1>1 DEF Fetch, Worker
<1>4. RefsKept' /\ SecretProgress'
  <2>1. CASE w'.pc \in {"idle", "finalizer"}
    BY <1>2, <2>1 DEF SecretInductive, RefsKept, SecretProgress, InLoop, AtDatabase
  <2>2. CASE w'.key = u /\ w'.user = cache[u] /\ cache[u].finalizer /\ w'.i = 1
    <3>1. \A k \in 1..Len(w'.user.refs) : ~(k < 1)
      BY <1>1, <2>2 DEF User
    <3>2. QED
      BY <1>2, <2>2, <3>1 DEF SecretInductive, RefsKept, SecretProgress
  <2>3. QED
    BY <1>3, <2>1, <2>2
<1>5. QED
  BY <1>2, <1>4, OwnersKept DEF SecretInductive

(* People create and delete Users: one that has Secrets has the finalizer  *)
(* and is only marked.                                                     *)
LEMMA PeopleSecrets ==
  ASSUME Inductive, SecretInductive, NEW u \in Users, ApplyUser(u) \/ DeleteUser(u)
  PROVE  SecretInductive'
<1> USE DEF users, inputs, sql
<1>1. TypeOK /\ SpecsOK /\ w \in Worker /\ api[u] \in User
  BY DEF Inductive, TypeOK, WorkerOK
<1>2. /\ cache' = cache /\ secrets' = secrets /\ ~faulty'
      /\ w'.pc = w.pc /\ w'.key = w.key /\ w'.user = w.user /\ w'.i = w.i
  BY <1>1 DEF ApplyUser, DeleteUser, Outdate, Worker, SecretInductive
<1>3. PICK obj :
        /\ Store(u, obj)
        /\ obj.finalizer => api[u].finalizer
        /\ api[u].finalizer => obj.finalizer
        /\ obj.finalizer => obj.refs = api[u].refs
  <2>1. CASE ApplyUser(u)
    <3>1. PICK refs \in Specs[u] : Store(u, NewUser(refs))
      BY <2>1 DEF ApplyUser
    <3>2. ~api[u].finalizer
      BY <1>1, <2>1, GoneType DEF ApplyUser, SpecsOK
    <3>3. QED
      BY <3>1, <3>2, NewUserFact
  <2>2. CASE DeleteUser(u)
    <3>1. CASE api[u].finalizer
      <4> DEFINE obj == [api[u] EXCEPT !.deleting = TRUE]
      <4>1. Store(u, obj) /\ obj.finalizer /\ obj.refs = api[u].refs
        BY <1>1, <2>2, <3>1 DEF DeleteUser, User
      <4> HIDE DEF obj
      <4>2. QED
        BY <3>1, <4>1
    <3>2. CASE ~api[u].finalizer
      BY <2>2, <3>2, GoneType DEF DeleteUser
    <3>3. QED
      BY <3>1, <3>2
  <2>3. QED
    BY <2>1, <2>2
<1>4. api'[u] = obj /\ \A v \in Users : v # u => api'[v] = api[v]
  BY <1>1, <1>3, StoreFact
<1>5. SecretNamed' /\ SecretHeld'
  BY <1>2, <1>3, <1>4, OwnersKept DEF SecretInductive
<1>6. w.key \in Users
  BY <1>1 DEF Worker
<1>7. RefsKept' /\ SecretProgress'
  BY <1>2, <1>3, <1>4, <1>6 DEF SecretInductive, RefsKept, SecretProgress, InLoop
<1>8. QED
  BY <1>2, <1>5, <1>7 DEF SecretInductive

(* Every step keeps the invariant. *)
LEMMA SecretStep ==
  ASSUME Inductive, SecretInductive, [Next]_vars, "edit" \notin Env
  PROVE  SecretInductive'
<1> USE DEF users, inputs, sql
<1>1. CASE \/ GetDatabase \/ GetPrivileges \/ Connect \/ PasswordMissing
           \/ CreateUser \/ Grant \/ CloseApplied \/ Revoke \/ DropUser \/ Succeed
  BY <1>1, QuietCalls
<1>2. CASE CreateSecret
  BY <1>2, CreateSecretStep
<1>3. CASE DeleteSecret
  BY <1>3, DeleteSecretStep
<1>4. CASE AddFinalizer
  BY <1>4, AddFinalizerSecrets
<1>5. CASE RemoveFinalizer
  BY <1>5, RemoveFinalizerSecrets
<1>6. CASE SetStatus
  BY <1>6, SetStatusSecrets
<1>7. ASSUME NEW u \in Users, Fetch(u)
      PROVE  SecretInductive'
  BY <1>7, FetchSecrets
<1>8. ASSUME NEW u \in Users, SyncUser(u)
      PROVE  SecretInductive'
  <2>1. api' = api /\ secrets' = secrets /\ w' = w /\ ~faulty'
    BY <1>8 DEF SyncUser, SecretInductive
  <2>2. \A v \in Users : cache'[v] = IF v = u THEN api[u] ELSE cache[v]
    BY <1>8 DEF SyncUser, Inductive, TypeOK
  <2>3. RefsKept' /\ SecretProgress'
    BY <2>1, <2>2 DEF SecretInductive, RefsKept, SecretProgress, InLoop
  <2>4. QED
    BY <2>1, <2>3, OwnersKept DEF SecretInductive
<1>9. CASE Crash \/ Heal
  BY <1>9 DEF Crash, Heal, SecretInductive
<1>10. CASE \E u \in Users : ApplyUser(u) \/ DeleteUser(u) \/ EditUser(u)
  BY <1>10, PeopleSecrets DEF EditUser
<1>11. ASSUME NEW n \in SecretNames, ChangeSecret(n)
       PROVE  SecretInductive'
  <2>1. api' = api /\ cache' = cache /\ w' = w /\ ~faulty'
    BY <1>11 DEF ChangeSecret, SecretInductive
  <2>2. PICK s \in {"absent", "supplied", "nokey"} : secrets' = [secrets EXCEPT ![n] = s]
    BY <1>11 DEF ChangeSecret
  <2>3. s \notin Users
    BY ResourceAssumption
  <2>4. \A m \in SecretNames : secrets'[m] \in Users => secrets'[m] = secrets[m]
    BY <2>2, <2>3 DEF Inductive, TypeOK
  <2>5. SecretNamed' /\ SecretHeld'
    BY <2>1, <2>4 DEF SecretInductive, SecretNamed, SecretHeld
  <2>6. w.key \in Users
    BY DEF Inductive, TypeOK, WorkerOK, Worker
  <2>7. RefsKept' /\ SecretProgress'
    BY <2>1, <2>4, <2>6 DEF SecretInductive, RefsKept, SecretProgress, InLoop
  <2>8. QED
    BY <2>1, <2>5, <2>7 DEF SecretInductive
<1>12. CASE \/ \E n \in SecretNames : SyncSecret(n)
            \/ \E d \in Databases : ToggleDatabase(d) \/ ReplaceCA(d)
            \/ \E n \in PrivNames : TogglePrivileges(n) \/ EditPrivileges(n)
            \/ \E s \in Servers, p \in PrivSpecs : DropTarget(s, p)
            \/ Resync \/ UNCHANGED vars
  <2>1. /\ api' = api /\ cache' = cache /\ secrets' = secrets /\ w' = w
        /\ faulty' = faulty
    BY <1>12 DEF SyncSecret, ToggleDatabase, ReplaceCA, TogglePrivileges,
       EditPrivileges, DropTarget, Resync, vars
  <2>2. QED
    BY <2>1 DEF SecretInductive, RefsKept, SecretNamed, SecretProgress, SecretHeld, InLoop
<1>13. QED
  BY <1>1, <1>2, <1>3, <1>4, <1>5, <1>6, <1>7, <1>8, <1>9, <1>10, <1>11, <1>12
     DEF Next, Reconcile, Manager, People

(* A Secret that createUserInDatabase made for a User does not outlive it: *)
(* as long as it is there, the User has the finalizer.  For any number of  *)
(* Users and databases, with stale caches, people who delete and re-create *)
(* Users at any moment and take Secrets away, as long as no call fails and *)
(* no spec is edited.  With a failure the theorem is false: the outcome of *)
(* the deferred deletion of the Secret is ignored.                         *)
THEOREM SecretHeldHolds ==
  ASSUME Faults = FALSE, "edit" \notin Env
  PROVE  Spec => []SecretHeld
<1>1. Init => SecretInductive
  BY SecretInit
<1>2. Inductive /\ SecretInductive /\ [Next]_vars => SecretInductive'
  BY SecretStep
<1>3. SecretInductive => SecretHeld
  BY DEF SecretInductive
<1>4. QED
  BY <1>1, <1>2, <1>3, InductiveHolds, PTL DEF Spec
================================================================================
