---------------------------- MODULE LifecycleProofs ----------------------------
(***************************************************************************)
(* UserController implements AccountLifecycle for every value of its       *)
(* constants.  Of the steps of the operator, the two Updates of the        *)
(* finalizer, CREATE USER, DROP USER and the Update of the status are      *)
(* visible in AccountLifecycle; of the people, creating and deleting a     *)
(* User.  Inductive says why each of them is allowed there.                *)
(***************************************************************************)
EXTENDS LifecycleRefinement, UserControllerProofs

(* The three states of a stored User. *)
LEMMA StoredFact ==
  ASSUME NEW obj
  PROVE  /\ ~obj.exists => Stored(obj) = "absent"
         /\ obj.exists /\ ~obj.deleting => Stored(obj) = "alive"
         /\ obj.exists /\ obj.deleting => Stored(obj) = "deleting"
  BY DEF Stored

(* What the mapping shows of a User that is not stored. *)
LEMMA GoneFact ==
  /\ Stored(Gone) = "absent"
  /\ Gone.finalizer = FALSE
  /\ Gone.status.ready = FALSE
<1>1. Gone.status = NoStatus /\ Gone.finalizer = FALSE /\ ~Gone.exists
  BY DEF Gone
<1>2. QED
  BY <1>1, StoredFact DEF NoStatus

(* Before anything has happened no User is stored and there is no role. *)
LEMMA LifecycleInit ==
  ASSUME Init
  PROVE  Lifecycle!Init
<1>1. \A u \in Users : api[u] = Gone
  BY DEF Init
<1>2. \A u \in Users : CoreRoles(u) = {}
  BY DEF Init, CoreRoles, CoreServers
<1>3. storedBar = [u \in Users |-> "absent"] /\ heldBar = [u \in Users |-> FALSE]
  BY <1>1, GoneFact DEF storedBar, heldBar
<1>4. readyBar = [u \in Users |-> FALSE] /\ rolesBar = [u \in Users |-> {}]
  BY <1>1, <1>2, GoneFact DEF readyBar, rolesBar
<1>5. QED
  BY <1>3, <1>4 DEF Lifecycle!Init

(* A step that changes neither the stored Users nor the SQL users is       *)
(* invisible.                                                              *)
LEMMA Invisible ==
  ASSUME api' = api, accounts' = accounts
  PROVE  UNCHANGED Lifecycle!vars
  BY DEF Lifecycle!vars, storedBar, heldBar, readyBar, rolesBar, Stored, CoreRoles,
     CoreServers

(* What a write of one stored User looks like through the mapping. *)
LEMMA MappedWrite ==
  ASSUME NEW u \in Users, accounts' = accounts,
         \A v \in Users : v # u => api'[v] = api[v]
  PROVE  /\ storedBar' = [storedBar EXCEPT ![u] = Stored(api'[u])]
         /\ heldBar' = [heldBar EXCEPT ![u] = api'[u].finalizer]
         /\ readyBar' = [readyBar EXCEPT ![u] = api'[u].status.ready]
         /\ rolesBar' = rolesBar
<1>1. storedBar' = [storedBar EXCEPT ![u] = Stored(api'[u])]
  BY DEF storedBar, Stored
<1>2. heldBar' = [heldBar EXCEPT ![u] = api'[u].finalizer]
  BY DEF heldBar
<1>3. readyBar' = [readyBar EXCEPT ![u] = api'[u].status.ready]
  BY DEF readyBar
<1>4. rolesBar' = rolesBar
  BY DEF rolesBar, CoreRoles, CoreServers
<1>5. QED
  BY <1>1, <1>2, <1>3, <1>4

(* The mapping at one User. *)
LEMMA MappedUser ==
  ASSUME NEW u \in Users
  PROVE  /\ storedBar[u] = Stored(api[u])
         /\ heldBar[u] = api[u].finalizer
         /\ readyBar[u] = api[u].status.ready
         /\ rolesBar[u] = CoreRoles(u)
         /\ coreBar[u] = CoreServers(u)
  BY DEF storedBar, heldBar, readyBar, rolesBar, coreBar

(* A User without the finalizer has no role. *)
LEMMA NotHeldNoRoles ==
  ASSUME AccountHeld, NEW u \in Users, ~api[u].finalizer
  PROVE  CoreRoles(u) = {}
  BY DEF AccountHeld, CoreRoles

(* The Update that adds the finalizer is Hold: it is accepted only for a   *)
(* current copy, and the copy of that branch is not being deleted.         *)
LEMMA AddFinalizerHolds ==
  ASSUME Inductive, AddFinalizer
  PROVE  [Lifecycle!Next]_(Lifecycle!vars)
<1> USE DEF users, inputs, sql
<1>1. /\ TypeOK /\ w.key \in Users /\ api[w.key] \in User
      /\ ~w.user.deleting /\ CopyOK
  BY DEF Inductive, TypeOK, WorkerOK, Worker, AddFinalizer
<1>2. PICK ans \in Errors, applied \in BOOLEAN :
        /\ Answers(UpdateVerdict, ans, applied)
        /\ IF applied
           THEN Store(w.key, [api[w.key] EXCEPT !.finalizer = TRUE])
           ELSE UNCHANGED <<api, synced>>
  BY DEF AddFinalizer
<1>3. accounts' = accounts
  BY DEF AddFinalizer
<1>4. CASE applied
  <2>1. api[w.key].exists /\ ~api[w.key].deleting
    BY <1>1, <1>2, <1>4, UpdateFact DEF CopyOK
  <2> DEFINE obj == [api[w.key] EXCEPT !.finalizer = TRUE]
  <2>2. /\ obj.exists = api[w.key].exists /\ obj.deleting = api[w.key].deleting
        /\ obj.status = api[w.key].status /\ obj.finalizer = TRUE
    BY <1>1 DEF User
  <2>3. Store(w.key, obj)
    BY <1>2, <1>4
  <2> HIDE DEF obj
  <2>4. PICK u \in Users : u = w.key
    BY <1>1
  <2>5. api'[u] = obj /\ \A v \in Users : v # u => api'[v] = api[v]
    BY <1>1, <2>3, <2>4, StoreFact
  <2>6. Stored(api[u]) = "alive" /\ Stored(api'[u]) = "alive"
    BY <2>1, <2>2, <2>4, <2>5, StoredFact
  <2>7. Lifecycle!Hold(u)
    <3>1. /\ storedBar' = [storedBar EXCEPT ![u] = storedBar[u]]
          /\ heldBar' = [heldBar EXCEPT ![u] = TRUE]
          /\ readyBar' = [readyBar EXCEPT ![u] = readyBar[u]]
          /\ rolesBar' = rolesBar
          /\ storedBar[u] = "alive"
      BY <1>3, <2>2, <2>4, <2>5, <2>6, MappedWrite, MappedUser
    <3>2. storedBar' = storedBar /\ readyBar' = readyBar
      BY <3>1 DEF storedBar, readyBar
    <3>3. QED
      BY <3>1, <3>2 DEF Lifecycle!Hold
  <2>8. QED
    BY <2>7 DEF Lifecycle!Next
<1>5. CASE ~applied
  BY <1>2, <1>3, <1>5, Invisible
<1>6. QED
  BY <1>4, <1>5

(* CREATE USER is AddRole on a server every spec names: by then the        *)
(* finalizer is stored.                                                    *)
LEMMA CreateUserAddsRole ==
  ASSUME Inductive, CreateUser
  PROVE  [Lifecycle!Next]_(Lifecycle!vars)
<1> USE DEF users, inputs, sql
<1>1. /\ TypeOK /\ w.key \in Users /\ w.pc = "create" /\ w.pc \in AtDatabase
      /\ accounts \in [Servers -> SUBSET Users] /\ api[w.key].finalizer
  BY DEF Inductive, TypeOK, WorkerOK, Worker, CreateUser, AtDatabase, CopyOK
<1>2. Server \in Servers
  BY <1>1, RefType
<1>3. PICK applied \in BOOLEAN :
        accounts' = IF applied
                    THEN [accounts EXCEPT ![Server] = @ \cup {w.key}]
                    ELSE accounts
  BY DEF CreateUser
<1>4. api' = api
  BY DEF CreateUser
<1>5. storedBar' = storedBar /\ heldBar' = heldBar /\ readyBar' = readyBar
  BY <1>4 DEF storedBar, heldBar, readyBar, Stored
<1>6. CASE applied
  <2>1. /\ \A s \in Servers : s # Server => accounts'[s] = accounts[s]
        /\ accounts'[Server] = accounts[Server] \cup {w.key}
    BY <1>1, <1>2, <1>3, <1>6
  <2>2. \A u \in Users : CoreRoles(u)' =
          IF u = w.key /\ Server \in CoreServers(u)
          THEN CoreRoles(u) \cup {Server} ELSE CoreRoles(u)
    BY <1>1, <1>2, <2>1 DEF CoreRoles, CoreServers
  <2>3. CASE Server \in CoreServers(w.key)
    <3>1. rolesBar' = [rolesBar EXCEPT ![w.key] = @ \cup {Server}]
      BY <2>2, <2>3 DEF rolesBar
    <3>2. Lifecycle!AddRole(w.key, Server)
      BY <1>1, <1>5, <3>1, MappedUser DEF Lifecycle!AddRole
    <3>3. QED
      BY <1>1, <2>3, <3>2, MappedUser DEF Lifecycle!Next
  <2>4. CASE Server \notin CoreServers(w.key)
    <3>1. rolesBar' = rolesBar
      BY <2>2, <2>4 DEF rolesBar
    <3>2. QED
      BY <1>5, <3>1 DEF Lifecycle!vars
  <2>5. QED
    BY <2>3, <2>4
<1>7. CASE ~applied
  BY <1>3, <1>4, <1>7, Invisible
<1>8. QED
  BY <1>6, <1>7

(* DROP USER is DropRole: however old the copy it works from, a role that  *)
(* is there belongs to a User being deleted.                               *)
LEMMA DropUserDropsRole ==
  ASSUME Inductive, DropUser
  PROVE  [Lifecycle!Next]_(Lifecycle!vars)
<1> USE DEF users, inputs, sql
<1>1. /\ TypeOK /\ w.key \in Users /\ w.pc = "revoke" /\ w.pc \in AtDatabase
      /\ accounts \in [Servers -> SUBSET Users] /\ SpecsOK
  BY DEF Inductive, TypeOK, WorkerOK, Worker, DropUser, AtDatabase
<1>2. Server \in Servers
  BY <1>1, RefType
<1>3. PICK applied \in BOOLEAN :
        accounts' = IF applied
                    THEN [accounts EXCEPT ![Server] = @ \ {w.key}]
                    ELSE accounts
  BY DEF DropUser
<1>4. api' = api
  BY DEF DropUser
<1>5. storedBar' = storedBar /\ heldBar' = heldBar /\ readyBar' = readyBar
  BY <1>4 DEF storedBar, heldBar, readyBar, Stored
<1>6. CASE applied /\ w.key \in accounts[Server]
  <2>1. /\ \A s \in Servers : s # Server => accounts'[s] = accounts[s]
        /\ accounts'[Server] = accounts[Server] \ {w.key}
    BY <1>1, <1>2, <1>3, <1>6
  <2>2. \A u \in Users : CoreRoles(u)' =
          IF u = w.key /\ Server \in CoreServers(u)
          THEN CoreRoles(u) \ {Server} ELSE CoreRoles(u)
    BY <1>1, <1>2, <2>1 DEF CoreRoles, CoreServers
  <2>3. api[w.key].deleting
    <3>1. TypeOK'
      BY TypeStep DEF Inductive, Next, Reconcile
    <3>2. QED
      BY <1>1, <1>2, <1>6, <2>1, <3>1, DropUserStep
  <2>4. Stored(api[w.key]) = "deleting"
    BY <1>1, <2>3, GoneType, StoredFact DEF SpecsOK
  <2>5. CASE Server \in CoreServers(w.key)
    <3>1. rolesBar' = [rolesBar EXCEPT ![w.key] = @ \ {Server}]
      BY <2>2, <2>5 DEF rolesBar
    <3>2. Lifecycle!DropRole(w.key, Server)
      BY <1>1, <1>5, <2>4, <3>1, MappedUser DEF Lifecycle!DropRole
    <3>3. QED
      BY <1>1, <2>5, <3>2, MappedUser DEF Lifecycle!Next
  <2>6. CASE Server \notin CoreServers(w.key)
    <3>1. rolesBar' = rolesBar
      BY <2>2, <2>6 DEF rolesBar
    <3>2. QED
      BY <1>5, <3>1 DEF Lifecycle!vars
  <2>7. QED
    BY <2>5, <2>6
<1>7. CASE ~(applied /\ w.key \in accounts[Server])
  <2>1. accounts' = accounts
    BY <1>1, <1>2, <1>3, <1>7
  <2>2. QED
    BY <1>4, <2>1, Invisible
<1>8. QED
  BY <1>6, <1>7

(* The Update that removes the finalizer is Release: it is accepted only   *)
(* for a User being deleted, and AccountHeld after it says that no role is *)
(* left.                                                                   *)
LEMMA RemoveFinalizerReleases ==
  ASSUME Inductive, Inductive', RemoveFinalizer
  PROVE  [Lifecycle!Next]_(Lifecycle!vars)
<1> USE DEF users, inputs, sql
<1>1. TypeOK /\ w.key \in Users /\ w.user.deleting /\ CopyOK /\ AccountHeld'
  BY DEF Inductive, TypeOK, WorkerOK, Worker, RemoveFinalizer
<1>2. PICK ans \in Errors, applied \in BOOLEAN :
        /\ Answers(UpdateVerdict, ans, applied)
        /\ IF applied THEN Store(w.key, Gone) ELSE UNCHANGED <<api, synced>>
  BY DEF RemoveFinalizer
<1>3. accounts' = accounts
  BY DEF RemoveFinalizer
<1>4. CASE applied
  <2>1. api[w.key].exists /\ api[w.key].deleting
    BY <1>1, <1>2, <1>4, UpdateFact DEF CopyOK
  <2>2. PICK u \in Users : u = w.key
    BY <1>1
  <2>3. api'[u] = Gone /\ \A v \in Users : v # u => api'[v] = api[v]
    BY <1>1, <1>2, <1>4, <2>2, StoreFact
  <2>4. CoreRoles(u)' = {}
    BY <1>1, <2>3, GoneType DEF AccountHeld, CoreRoles, CoreServers
  <2>5. /\ Stored(api[u]) = "deleting" /\ rolesBar[u] = {}
    BY <1>3, <2>1, <2>2, <2>4, StoredFact, MappedUser DEF CoreRoles, CoreServers
  <2>6. Lifecycle!Release(u)
    <3>1. Stored(Gone) = "absent" /\ Gone.finalizer = FALSE /\ Gone.status.ready = FALSE
      BY GoneFact
    <3>2. QED
      BY <1>3, <2>3, <2>5, <3>1, MappedWrite, MappedUser
         DEF Lifecycle!Release, Lifecycle!Forgotten
  <2>7. QED
    BY <2>6 DEF Lifecycle!Next
<1>5. CASE ~applied
  BY <1>2, <1>3, <1>5, Invisible
<1>6. QED
  BY <1>4, <1>5

(* The Update of the status is Report: it is accepted only for a current   *)
(* copy of a living User, and a ready status comes with every role.        *)
LEMMA SetStatusReports ==
  ASSUME Inductive, Inductive', SetStatus
  PROVE  [Lifecycle!Next]_(Lifecycle!vars)
<1> USE DEF users, inputs, sql
<1>1. /\ TypeOK /\ w.key \in Users /\ api[w.key] \in User /\ w.status \in StatusSummary
      /\ w.pc = "status" /\ ~w.user.deleting /\ CopyOK /\ ReadyBacked'
  BY DEF Inductive, TypeOK, WorkerOK, Worker, SetStatus
<1>2. PICK ans \in Errors, applied \in BOOLEAN :
        /\ Answers(UpdateVerdict, ans, applied)
        /\ IF applied
           THEN Store(w.key, [api[w.key] EXCEPT !.status = w.status])
           ELSE UNCHANGED <<api, synced>>
  BY DEF SetStatus
<1>3. accounts' = accounts
  BY DEF SetStatus
<1>4. CASE applied
  <2>1. /\ api[w.key].exists /\ ~api[w.key].deleting
        /\ w.status.ready => api[w.key].finalizer
    BY <1>1, <1>2, <1>4, UpdateFact DEF CopyOK
  <2> DEFINE obj == [api[w.key] EXCEPT !.status = w.status]
  <2>2. /\ obj.exists = api[w.key].exists /\ obj.deleting = api[w.key].deleting
        /\ obj.status = w.status /\ obj.finalizer = api[w.key].finalizer
    BY <1>1 DEF User
  <2>3. Store(w.key, obj)
    BY <1>2, <1>4
  <2> HIDE DEF obj
  <2>4. PICK u \in Users : u = w.key
    BY <1>1
  <2>5. PICK r \in BOOLEAN : r = w.status.ready
    BY <1>1 DEF StatusSummary
  <2>6. api'[u] = obj /\ \A v \in Users : v # u => api'[v] = api[v]
    BY <1>1, <2>3, <2>4, StoreFact
  <2>7. Stored(api[u]) = "alive" /\ Stored(api'[u]) = "alive"
    BY <2>1, <2>2, <2>4, <2>6, StoredFact
  <2>8. r => CoreRoles(u) = CoreServers(u)
    <3>1. r => IsReady(u)'
      BY <2>1, <2>2, <2>4, <2>5, <2>6 DEF IsReady, Wanted
    <3>2. QED
      BY <1>1, <1>3, <3>1 DEF ReadyBacked, CoreRoles, CoreServers
  <2>9. /\ storedBar' = storedBar /\ heldBar' = heldBar /\ rolesBar' = rolesBar
        /\ readyBar' = [readyBar EXCEPT ![u] = r]
    <3>1. /\ storedBar' = [storedBar EXCEPT ![u] = storedBar[u]]
          /\ heldBar' = [heldBar EXCEPT ![u] = heldBar[u]]
      BY <1>3, <2>2, <2>4, <2>6, <2>7, MappedWrite, MappedUser
    <3>2. rolesBar' = rolesBar /\ readyBar' = [readyBar EXCEPT ![u] = r]
      BY <1>3, <2>2, <2>5, <2>6, MappedWrite
    <3>3. QED
      BY <3>1, <3>2 DEF storedBar, heldBar
  <2>10. Lifecycle!Report(u, r)
    BY <2>1, <2>4, <2>5, <2>7, <2>8, <2>9, MappedUser DEF Lifecycle!Report
  <2>11. QED
    BY <2>10 DEF Lifecycle!Next
<1>5. CASE ~applied
  BY <1>2, <1>3, <1>5, Invisible
<1>6. QED
  BY <1>4, <1>5

(* People create, mark and remove Users; an edit of the spec is invisible. *)
LEMMA PeopleLive ==
  ASSUME Inductive, NEW u \in Users, ApplyUser(u) \/ DeleteUser(u) \/ EditUser(u)
  PROVE  [Lifecycle!Next]_(Lifecycle!vars)
<1> USE DEF users, inputs, sql
<1>1. TypeOK /\ SpecsOK /\ AccountHeld /\ api[u] \in User
  BY DEF Inductive, TypeOK
<1>2. accounts' = accounts
  BY DEF ApplyUser, DeleteUser, EditUser
<1>3. CASE ApplyUser(u)
  <2>1. PICK refs \in Specs[u] : Store(u, NewUser(refs))
    BY <1>3 DEF ApplyUser
  <2>2. api[u] = Gone
    BY <1>1, <1>3 DEF ApplyUser, SpecsOK
  <2>3. /\ NewUser(refs).exists /\ ~NewUser(refs).deleting
        /\ NewUser(refs).finalizer = Gone.finalizer
        /\ NewUser(refs).status = Gone.status
    BY DEF NewUser, Gone
  <2>4. api'[u] = NewUser(refs) /\ \A v \in Users : v # u => api'[v] = api[v]
    BY <1>1, <2>1, StoreFact
  <2>5. Stored(api'[u]) = "alive" /\ Stored(api[u]) = "absent"
    BY <2>2, <2>3, <2>4, StoredFact, GoneFact
  <2>6. rolesBar[u] = {}
    BY <1>1, <2>2, GoneType, NotHeldNoRoles, MappedUser
  <2>7. /\ heldBar' = [heldBar EXCEPT ![u] = heldBar[u]]
        /\ readyBar' = [readyBar EXCEPT ![u] = readyBar[u]]
    BY <1>2, <2>2, <2>3, <2>4, MappedWrite, MappedUser
  <2>8. heldBar' = heldBar /\ readyBar' = readyBar
    BY <2>7 DEF heldBar, readyBar
  <2>9. Lifecycle!Create(u)
    BY <1>2, <2>4, <2>5, <2>6, <2>8, MappedWrite, MappedUser DEF Lifecycle!Create
  <2>10. QED
    BY <2>9 DEF Lifecycle!Next
<1>4. CASE DeleteUser(u)
  <2>1. /\ api[u].exists /\ ~api[u].deleting
        /\ Store(u, IF api[u].finalizer THEN [api[u] EXCEPT !.deleting = TRUE] ELSE Gone)
    BY <1>4 DEF DeleteUser
  <2>2. Stored(api[u]) = "alive"
    BY <2>1, StoredFact
  <2>3. CASE api[u].finalizer
    <3> DEFINE obj == [api[u] EXCEPT !.deleting = TRUE]
    <3>1. /\ Store(u, obj) /\ obj.exists /\ obj.deleting
          /\ obj.finalizer = api[u].finalizer /\ obj.status = api[u].status
      BY <1>1, <2>1, <2>3 DEF User
    <3> HIDE DEF obj
    <3>2. api'[u] = obj /\ \A v \in Users : v # u => api'[v] = api[v]
      BY <1>1, <3>1, StoreFact
    <3>3. Stored(api'[u]) = "deleting"
      BY <3>1, <3>2, StoredFact
    <3>4. /\ heldBar' = [heldBar EXCEPT ![u] = heldBar[u]]
          /\ readyBar' = [readyBar EXCEPT ![u] = readyBar[u]]
      BY <1>2, <3>1, <3>2, MappedWrite, MappedUser
    <3>5. heldBar' = heldBar /\ readyBar' = readyBar
      BY <3>4 DEF heldBar, readyBar
    <3>6. Lifecycle!RequestDeletion(u)
      BY <1>2, <2>2, <2>3, <3>2, <3>3, <3>5, MappedWrite, MappedUser
         DEF Lifecycle!RequestDeletion
    <3>7. QED
      BY <3>6 DEF Lifecycle!Next
  <2>4. CASE ~api[u].finalizer
    <3>1. api'[u] = Gone /\ \A v \in Users : v # u => api'[v] = api[v]
      BY <1>1, <2>1, <2>4, StoreFact
    <3>2. rolesBar[u] = {}
      BY <1>1, <2>4, NotHeldNoRoles, MappedUser
    <3>3. Lifecycle!RequestDeletion(u)
      BY <1>2, <2>2, <2>4, <3>1, <3>2, GoneFact, MappedWrite, MappedUser
         DEF Lifecycle!RequestDeletion, Lifecycle!Forgotten
    <3>4. QED
      BY <3>3 DEF Lifecycle!Next
  <2>5. QED
    BY <2>3, <2>4
<1>5. CASE EditUser(u)
  <2>1. PICK refs \in Specs[u] : Store(u, [api[u] EXCEPT !.refs = refs])
    BY <1>5 DEF EditUser
  <2> DEFINE obj == [api[u] EXCEPT !.refs = refs]
  <2>2. /\ Store(u, obj) /\ obj.exists = api[u].exists
        /\ obj.deleting = api[u].deleting /\ obj.finalizer = api[u].finalizer
        /\ obj.status = api[u].status
    BY <1>1, <2>1 DEF User
  <2> HIDE DEF obj
  <2>3. api'[u] = obj /\ \A v \in Users : v # u => api'[v] = api[v]
    BY <1>1, <2>2, StoreFact
  <2>4. Stored(api'[u]) = Stored(api[u])
    BY <2>2, <2>3 DEF Stored
  <2>5. /\ storedBar' = [storedBar EXCEPT ![u] = storedBar[u]]
        /\ heldBar' = [heldBar EXCEPT ![u] = heldBar[u]]
        /\ readyBar' = [readyBar EXCEPT ![u] = readyBar[u]]
        /\ rolesBar' = rolesBar
    BY <1>2, <2>2, <2>3, <2>4, MappedWrite, MappedUser
  <2>6. storedBar' = storedBar /\ heldBar' = heldBar /\ readyBar' = readyBar
    BY <2>5 DEF storedBar, heldBar, readyBar
  <2>7. QED
    BY <2>5, <2>6 DEF Lifecycle!vars
<1>6. QED
  BY <1>3, <1>4, <1>5

(* Every step of the operator and its surroundings is one of the lifecycle.*)
LEMMA LifecycleStep ==
  ASSUME Inductive, [Next]_vars
  PROVE  [Lifecycle!Next]_(Lifecycle!vars)
<1> USE DEF users, inputs, sql
<1>1. Inductive'
  BY IndStep
<1>2. CASE AddFinalizer
  BY <1>2, AddFinalizerHolds
<1>3. CASE CreateUser
  BY <1>3, CreateUserAddsRole
<1>4. CASE DropUser
  BY <1>4, DropUserDropsRole
<1>5. CASE RemoveFinalizer
  BY <1>1, <1>5, RemoveFinalizerReleases
<1>6. CASE SetStatus
  BY <1>1, <1>6, SetStatusReports
<1>7. CASE \E u \in Users : ApplyUser(u) \/ DeleteUser(u) \/ EditUser(u)
  BY <1>7, PeopleLive
<1>8. CASE \/ GetDatabase \/ GetPrivileges \/ Connect \/ PasswordMissing
           \/ CreateSecret \/ Grant \/ CloseApplied \/ Revoke \/ DeleteSecret
           \/ Succeed
  <2>1. api' = api /\ accounts' = accounts
    BY <1>8 DEF GetDatabase, GetPrivileges, Connect, PasswordMissing, CreateSecret,
       Grant, CloseApplied, Revoke, DeleteSecret, Succeed
  <2>2. QED
    BY <2>1, Invisible
<1>9. CASE \/ \E u \in Users : Fetch(u) \/ SyncUser(u)
           \/ \E n \in SecretNames : ChangeSecret(n) \/ SyncSecret(n)
           \/ Resync \/ Crash \/ Heal
  <2>1. api' = api /\ accounts' = accounts
    BY <1>9 DEF Fetch, SyncUser, ChangeSecret, SyncSecret, Resync, Crash, Heal
  <2>2. QED
    BY <2>1, Invisible
<1>10. CASE \/ \E d \in Databases : ToggleDatabase(d) \/ ReplaceCA(d)
            \/ \E n \in PrivNames : TogglePrivileges(n) \/ EditPrivileges(n)
            \/ \E s \in Servers, p \in PrivSpecs : DropTarget(s, p)
            \/ UNCHANGED vars
  <2>1. api' = api /\ accounts' = accounts
    BY <1>10 DEF ToggleDatabase, ReplaceCA, TogglePrivileges, EditPrivileges,
       DropTarget, vars
  <2>2. QED
    BY <2>1, Invisible
<1>11. QED
  BY <1>2, <1>3, <1>4, <1>5, <1>6, <1>7, <1>8, <1>9, <1>10
     DEF Next, Reconcile, Manager, People

(* The operator, with stale caches, lost answers, crashes and people who   *)
(* edit, delete and re-create Users at any moment, does only what          *)
(* AccountLifecycle allows: roles after the finalizer, drops only in a     *)
(* deletion, ready only with every role, release only with none.           *)
THEOREM LifecycleImplemented == Spec => ImplementsLifecycle
<1>1. Init => Lifecycle!Init
  BY LifecycleInit
<1>2. Inductive /\ [Next]_vars => [Lifecycle!Next]_(Lifecycle!vars)
  BY LifecycleStep
<1>3. QED
  BY <1>1, <1>2, InductiveHolds, PTL DEF Spec, ImplementsLifecycle, Lifecycle!Spec
================================================================================
