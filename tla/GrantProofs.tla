------------------------------ MODULE GrantProofs ------------------------------
(***************************************************************************)
(* ReadyGranted, for every value of the constants under which what is to   *)
(* be granted does not change under the operator: specs and Privileges     *)
(* lists are not edited and roles, tables and databases are not dropped.   *)
(* Users may come and go, Privileges and Database resources disappear and  *)
(* return, calls fail and the operator crash.                              *)
(***************************************************************************)
EXTENDS UserControllerProofs

ListsKept == Env \cap {"edit", "privileges", "targets"} = {}

Lists == [n \in PrivNames |-> privileges[n].list]

EntriesOf(list) == {list[m] : m \in 1..Len(list)}

(* held has every entry of the first n Privileges that ref names. *)
CoversFirst(held, lists, ref, n) ==
  \A k \in 1..Len(ref.privileges) :
    k <= n => EntriesOf(lists[ref.privileges[k]]) \subseteq held

Covers(held, lists, ref) ==
  \A k \in 1..Len(ref.privileges) : EntriesOf(lists[ref.privileges[k]]) \subseteq held

RefGranted(u, ref) == Covers(grants[ServerOf(ref)][u], Lists, ref)

(* databaseReconciler has collected what the Privileges read so far list. *)
Collected ==
  /\ w.pc = "privileges" => CoversFirst(EntriesOf(w.privs), Lists, Ref, w.j - 1)
  /\ w.pc \in {"create", "secret", "grant"} => Covers(EntriesOf(w.privs), Lists, Ref)

(* ApplyPrivileges has granted the entries before position j. *)
Applied ==
  w.pc \in {"create", "secret", "grant"} =>
    \A m \in 1..Len(w.privs) : m < w.j => w.privs[m] \in Held

(* The loop of an apply is done with the databases before position i. *)
Reached ==
  w.pc \in AtDatabase \cup {"database"} /\ ~w.user.deleting =>
    \A n \in 1..Len(w.user.refs) : n < w.i => RefGranted(w.key, w.user.refs[n])

(* A success is reported after the loop is done with all of them. *)
Reported ==
  w.pc = "status" /\ w.status.ready =>
    \A n \in 1..Len(w.user.refs) : RefGranted(w.key, w.user.refs[n])

Granted ==
  \A u \in Users : IsReady(u) =>
    \A n \in 1..Len(api[u].refs) : RefGranted(u, api[u].refs[n])

GrantProgress == Collected /\ Applied /\ Reached /\ Reported

GrantInductive == GrantProgress /\ Granted

-------------------------------------------------------------------------------
(* Who holds more covers at least as much. *)
LEMMA CoversMore ==
  ASSUME NEW lists, NEW ref, NEW held, NEW more, held \subseteq more,
         Covers(held, lists, ref)
  PROVE  Covers(more, lists, ref)
  BY DEF Covers

(* Appending a list adds its entries. *)
LEMMA EntriesAppend ==
  ASSUME NEW S, NEW a \in Seq(S), NEW b \in Seq(S)
  PROVE  EntriesOf(a) \subseteq EntriesOf(a \o b) /\ EntriesOf(b) \subseteq EntriesOf(a \o b)
<1>1. /\ Len(a \o b) = Len(a) + Len(b) /\ Len(a) \in Nat /\ Len(b) \in Nat
      /\ \A m \in 1..Len(a) : (a \o b)[m] = a[m]
      /\ \A m \in 1..Len(b) : (a \o b)[Len(a) + m] = b[m]
  OBVIOUS
<1>2. EntriesOf(a) \subseteq EntriesOf(a \o b)
  <2>1. \A m \in 1..Len(a) : m \in 1..Len(a \o b)
    BY <1>1
  <2>2. QED
    BY <1>1, <2>1 DEF EntriesOf
<1>3. EntriesOf(b) \subseteq EntriesOf(a \o b)
  <2>1. \A m \in 1..Len(b) : Len(a) + m \in 1..Len(a \o b)
    BY <1>1
  <2>2. QED
    BY <1>1, <2>1 DEF EntriesOf
<1>4. QED
  BY <1>2, <1>3

(* Without edits the lists stay, also while a Privileges resource is gone. *)
LEMMA ListsSame ==
  ASSUME TypeOK, ListsKept, [Next]_vars
  PROVE  Lists' = Lists
<1> USE DEF users, inputs, sql
<1>1. CASE privileges' = privileges
  BY <1>1 DEF Lists
<1>2. ASSUME NEW n \in PrivNames, TogglePrivileges(n)
      PROVE  Lists' = Lists
  <2>1. privileges \in [PrivNames -> Privileges]
    BY DEF TypeOK
  <2>2. privileges' = [privileges EXCEPT ![n].exists = ~@]
    BY <1>2 DEF TogglePrivileges
  <2>3. \A m \in PrivNames : privileges'[m].list = privileges[m].list
    BY <2>1, <2>2 DEF Privileges
  <2>4. QED
    BY <2>3 DEF Lists
<1>3. \A n \in PrivNames : ~EditPrivileges(n)
  BY DEF EditPrivileges, ListsKept
<1>4. CASE Reconcile
  BY <1>1, <1>4 DEF Reconcile, AddFinalizer, GetDatabase, GetPrivileges, Connect,
     PasswordMissing, CreateUser, CreateSecret, Grant, CloseApplied, Revoke,
     DropUser, DeleteSecret, RemoveFinalizer, Succeed, SetStatus
<1>5. CASE Manager \/ Heal \/ UNCHANGED vars
  BY <1>1, <1>5 DEF Manager, Fetch, SyncUser, SyncSecret, Resync, Crash, Heal, vars
<1>6. CASE People
  BY <1>1, <1>2, <1>3, <1>6 DEF People, ApplyUser, DeleteUser, EditUser,
     ToggleDatabase, ReplaceCA, ChangeSecret, DropTarget
<1>7. QED
  BY <1>4, <1>5, <1>6 DEF Next

(* Only the loop of a deletion takes privileges away, from its own User. *)
LEMMA GrantsGrow ==
  ASSUME TypeOK, ListsKept, [Next]_vars,
         NEW u \in Users, NEW s \in Servers, ~(u = w.key /\ w.pc = "revoke")
  PROVE  grants[s][u] \subseteq grants'[s][u]
<1> USE DEF users, inputs, sql
<1>0. grants \in [Servers -> [Users -> SUBSET PrivSpecs]] /\ w.key \in Users
  BY DEF TypeOK, WorkerOK, Worker
<1>1. CASE grants' = grants
  BY <1>1
<1>2. CASE Grant
  <2>1. Server \in Servers
    BY <1>2, RefType DEF Grant, AtDatabase
  <2>2. CASE grants' = [grants EXCEPT ![Server][w.key] = @ \cup {Privilege}]
    BY <1>0, <2>1, <2>2
  <2>3. QED
    BY <1>1, <1>2, <2>2 DEF Grant
<1>3. CASE Revoke \/ DropUser
  <2>1. w.pc = "revoke" /\ Server \in Servers
    BY <1>3, RefType DEF Revoke, DropUser, AtDatabase
  <2>2. \/ grants' = grants
        \/ \E set : grants' = [grants EXCEPT ![Server][w.key] = set]
    BY <1>3 DEF Revoke, DropUser
  <2>3. QED
    BY <1>0, <2>1, <2>2
<1>4. \A t \in Servers, p \in PrivSpecs : ~DropTarget(t, p)
  BY DEF DropTarget, ListsKept
<1>5. CASE Reconcile
  BY <1>1, <1>2, <1>3, <1>5 DEF Reconcile, AddFinalizer, GetDatabase, GetPrivileges,
     Connect, PasswordMissing, CreateUser, CreateSecret, CloseApplied,
     DeleteSecret, RemoveFinalizer, Succeed, SetStatus
<1>6. CASE Manager \/ Heal \/ UNCHANGED vars
  BY <1>1, <1>6 DEF Manager, Fetch, SyncUser, SyncSecret, Resync, Crash, Heal, vars
<1>7. CASE People
  BY <1>1, <1>4, <1>7 DEF People, ApplyUser, DeleteUser, EditUser,
     ToggleDatabase, ReplaceCA, TogglePrivileges, EditPrivileges, ChangeSecret
<1>8. QED
  BY <1>5, <1>6, <1>7 DEF Next

(* What was granted to a User for a reference stays granted, unless a      *)
(* deletion of that User is revoking.                                      *)
LEMMA RefStays ==
  ASSUME TypeOK, ListsKept, [Next]_vars,
         NEW u \in Users, ~(u = w.key /\ w.pc = "revoke"),
         NEW refs \in Seq(DatabaseRef), NEW n \in 1..Len(refs),
         RefGranted(u, refs[n])
  PROVE  Covers(grants'[ServerOf(refs[n])][u], Lists', refs[n])
<1>1. ServerOf(refs[n]) \in Servers
  BY ServerType
<1>2. grants[ServerOf(refs[n])][u] \subseteq grants'[ServerOf(refs[n])][u]
  BY <1>1, GrantsGrow
<1>3. Lists' = Lists
  BY ListsSame
<1>4. QED
  BY <1>2, <1>3, CoversMore DEF RefGranted

(* Only setStatus makes a User ready, and a ready User keeps its spec. *)
LEMMA ReadyKept ==
  ASSUME TypeOK, ListsKept, [Next]_vars, ~SetStatus,
         NEW u \in Users, IsReady(u)'
  PROVE  IsReady(u) /\ api'[u].refs = api[u].refs
<1> USE DEF users, inputs, sql
<1>0. /\ api \in [Users -> User] /\ w.key \in Users
      /\ api'[u].exists /\ ~api'[u].deleting /\ api'[u].status.ready
  BY DEF TypeOK, WorkerOK, Worker, IsReady, Wanted
<1>1. CASE api' = api
  BY <1>0, <1>1 DEF IsReady, Wanted
<1>2. ASSUME NEW v \in Users, NEW obj, Store(v, obj),
             \/ ~obj.exists \/ obj.deleting \/ ~obj.status.ready
             \/ /\ obj.exists = api[v].exists /\ obj.deleting = api[v].deleting
                /\ obj.status = api[v].status /\ obj.refs = api[v].refs
      PROVE  IsReady(u) /\ api'[u].refs = api[u].refs
  <2>1. api'[v] = obj /\ (u # v => api'[u] = api[u])
    BY <1>2, StoreFact
  <2>2. CASE u = v
    BY <1>0, <1>2, <2>1, <2>2 DEF IsReady, Wanted
  <2>3. CASE u # v
    BY <1>0, <2>1, <2>3 DEF IsReady, Wanted
  <2>4. QED
    BY <2>2, <2>3
<1>3. CASE AddFinalizer
  <2> DEFINE obj == [api[w.key] EXCEPT !.finalizer = TRUE]
  <2>1. /\ obj.exists = api[w.key].exists /\ obj.deleting = api[w.key].deleting
        /\ obj.status = api[w.key].status /\ obj.refs = api[w.key].refs
    BY <1>0 DEF User
  <2>2. Store(w.key, obj) \/ api' = api
    BY <1>3 DEF AddFinalizer
  <2> HIDE DEF obj
  <2>3. QED
    BY <1>0, <1>1, <1>2, <2>1, <2>2
<1>4. CASE RemoveFinalizer
  <2>1. Store(w.key, Gone) \/ api' = api
    BY <1>4 DEF RemoveFinalizer
  <2>2. QED
    BY <1>0, <1>1, <1>2, <2>1, GoneType
<1>5. ASSUME NEW v \in Users, ApplyUser(v)
      PROVE  IsReady(u) /\ api'[u].refs = api[u].refs
  <2>1. PICK refs \in Specs[v] : Store(v, NewUser(refs))
    BY <1>5 DEF ApplyUser
  <2>2. QED
    BY <1>2, <2>1, NewUserFact
<1>6. ASSUME NEW v \in Users, DeleteUser(v)
      PROVE  IsReady(u) /\ api'[u].refs = api[u].refs
  <2> DEFINE obj == [api[v] EXCEPT !.deleting = TRUE]
  <2>1. obj.deleting
    BY <1>0 DEF User
  <2>2. Store(v, obj) \/ Store(v, Gone)
    BY <1>6 DEF DeleteUser
  <2> HIDE DEF obj
  <2>3. QED
    BY <1>2, <2>1, <2>2, GoneType
<1>7. \A v \in Users : ~EditUser(v)
  BY DEF EditUser, ListsKept
<1>8. CASE Reconcile
  BY <1>1, <1>3, <1>4, <1>8 DEF Reconcile, GetDatabase, GetPrivileges, Connect,
     PasswordMissing, CreateUser, CreateSecret, Grant, CloseApplied, Revoke,
     DropUser, DeleteSecret, Succeed
<1>9. CASE Manager \/ Heal \/ UNCHANGED vars
  BY <1>1, <1>9 DEF Manager, Fetch, SyncUser, SyncSecret, Resync, Crash, Heal, vars
<1>10. CASE People
  BY <1>1, <1>5, <1>6, <1>7, <1>10 DEF People, ToggleDatabase, ReplaceCA,
     TogglePrivileges, EditPrivileges, ChangeSecret, DropTarget
<1>11. QED
  BY <1>8, <1>9, <1>10 DEF Next

(* A ready User keeps what it was granted, however old the copy a deletion *)
(* works from: the User of such a copy is not ready.                       *)
LEMMA ReadyNotRevoked ==
  ASSUME Inductive, NEW u \in Users, IsReady(u)
  PROVE  ~(u = w.key /\ w.pc = "revoke")
<1>1. SUFFICES ASSUME u = w.key, w.pc = "revoke" PROVE FALSE
  OBVIOUS
<1>2. Busy /\ w.user.deleting
  BY <1>1 DEF Inductive, TypeOK, WorkerOK, Busy
<1>3. DeletionKnown(w.key, w.user.refs)
  BY <1>2 DEF Inductive, CopyOK
<1>4. QED
  BY <1>1, <1>3 DEF DeletionKnown, IsReady, Wanted

(* Ready keeps its meaning, and setStatus gives it only to a spec that the *)
(* loop of reconcile has granted everything for.                           *)
LEMMA GrantedStep ==
  ASSUME Inductive, TypeOK', GrantInductive, ListsKept, [Next]_vars
  PROVE  Granted'
<1>1. TypeOK /\ w.key \in Users /\ w.user \in User /\ CopyOK
  BY DEF Inductive, TypeOK, WorkerOK, Worker
<1>2. SUFFICES ASSUME NEW u \in Users, IsReady(u)',
                      NEW n \in 1..Len(api'[u].refs)
               PROVE  Covers(grants'[ServerOf(api'[u].refs[n])][u], Lists', api'[u].refs[n])
  BY DEF Granted, RefGranted
<1>3. ASSUME IsReady(u), api'[u].refs = api[u].refs
      PROVE  Covers(grants'[ServerOf(api'[u].refs[n])][u], Lists', api'[u].refs[n])
  <2>1. ~(u = w.key /\ w.pc = "revoke")
    BY <1>3, ReadyNotRevoked
  <2>2. api[u].refs \in Seq(DatabaseRef)
    BY <1>1 DEF TypeOK, User
  <2>3. RefGranted(u, api[u].refs[n])
    BY <1>2, <1>3 DEF GrantInductive, Granted
  <2>4. QED
    BY <1>1, <1>2, <1>3, <2>1, <2>2, <2>3, RefStays
<1>4. CASE ~SetStatus
  BY <1>1, <1>2, <1>3, <1>4, ReadyKept
<1>5. CASE SetStatus
  <2>1. PICK ans \in Errors, applied \in BOOLEAN :
          /\ Answers(UpdateVerdict, ans, applied)
          /\ IF applied
             THEN Store(w.key, [api[w.key] EXCEPT !.status = w.status])
             ELSE UNCHANGED <<api, synced>>
    BY <1>5 DEF SetStatus
  <2>2. CASE applied /\ u = w.key
    <3> DEFINE obj == [api[u] EXCEPT !.status = w.status]
    <3>1. /\ obj.exists = api[u].exists /\ obj.deleting = api[u].deleting
          /\ obj.status = w.status /\ obj.refs = api[u].refs
      BY <1>1 DEF TypeOK, User
    <3>2. Store(u, obj)
      BY <2>1, <2>2
    <3> HIDE DEF obj
    <3>3. api'[u] = obj
      BY <1>1, <3>2, StoreFact
    <3>4. w.status.ready /\ w.pc = "status"
      BY <1>2, <1>5, <3>1, <3>3 DEF IsReady, Wanted, SetStatus
    <3>5. api'[u].refs = w.user.refs
      BY <1>1, <2>1, <2>2, <3>1, <3>3, UpdateFact DEF CopyOK
    <3>6. RefGranted(u, w.user.refs[n])
      BY <1>2, <2>2, <3>4, <3>5 DEF GrantInductive, GrantProgress, Reported, RefGranted
    <3>7. w.user.refs \in Seq(DatabaseRef) /\ n \in 1..Len(w.user.refs)
      BY <1>1, <1>2, <3>5 DEF User
    <3>8. ~(u = w.key /\ w.pc = "revoke")
      BY <3>4
    <3>9. Covers(grants'[ServerOf(w.user.refs[n])][u], Lists', w.user.refs[n])
      BY <1>1, <3>6, <3>7, <3>8, RefStays
    <3>10. QED
      BY <3>5, <3>9
  <2>3. CASE ~(applied /\ u = w.key)
    <3>1. api'[u] = api[u]
      BY <1>1, <2>1, <2>3, StoreFact
    <3>2. QED
      BY <1>2, <1>3, <3>1 DEF IsReady, Wanted
  <2>4. QED
    BY <2>2, <2>3
<1>6. QED
  BY <1>4, <1>5

-------------------------------------------------------------------------------
(* Outside the loop, with no success to report, there is nothing to show. *)
LEMMA OutOfLoop ==
  ASSUME w'.pc \notin AtDatabase \cup {"database"},
         w'.pc = "status" => ~w'.status.ready
  PROVE  GrantProgress'
  BY DEF GrantProgress, Collected, Applied, Reached, Reported, AtDatabase

(* At the first database nothing has been reached. *)
LEMMA LoopStarts ==
  ASSUME w'.pc = "database", w'.i = 1, w' \in Worker
  PROVE  GrantProgress'
<1>1. \A n \in 1..Len(w'.user.refs) : ~(n < 1)
  BY DEF Worker, User
<1>2. QED
  BY <1>1 DEF GrantProgress, Collected, Applied, Reached, Reported

(* While the worker stays at its position, what it has reached stays. *)
LEMMA ReachedKept ==
  ASSUME TypeOK, GrantInductive, ListsKept, [Next]_vars,
         w.pc \in AtDatabase \cup {"database"},
         w'.key = w.key, w'.user = w.user, w'.i = w.i
  PROVE  Reached'
<1>1. w.key \in Users /\ w.user.refs \in Seq(DatabaseRef)
  BY DEF TypeOK, WorkerOK, Worker, User
<1>2. SUFFICES ASSUME ~w.user.deleting, NEW n \in 1..Len(w.user.refs), n < w.i
               PROVE  Covers(grants'[ServerOf(w.user.refs[n])][w.key], Lists',
                             w.user.refs[n])
  BY DEF Reached, RefGranted
<1>3. w.pc # "revoke"
  BY <1>2 DEF TypeOK, WorkerOK
<1>4. RefGranted(w.key, w.user.refs[n])
  BY <1>2 DEF GrantInductive, GrantProgress, Reached, RefGranted
<1>5. QED
  BY <1>1, <1>2, <1>3, <1>4, RefStays

(* A step that leaves the worker where it is. *)
LEMMA WorkerStays ==
  ASSUME TypeOK, GrantInductive, ListsKept, [Next]_vars,
         w'.pc = w.pc, w'.key = w.key, w'.user = w.user, w'.i = w.i,
         w'.j = w.j, w'.privs = w.privs, w'.status = w.status
  PROVE  GrantProgress'
<1>1. w.key \in Users /\ w.user.refs \in Seq(DatabaseRef)
  BY DEF TypeOK, WorkerOK, Worker, User
<1>2. Lists' = Lists
  BY ListsSame
<1>3. Collected'
  BY <1>2 DEF GrantInductive, GrantProgress, Collected, Ref
<1>4. Applied'
  <2>1. SUFFICES ASSUME w.pc \in {"create", "secret", "grant"}
                 PROVE  grants[Server][w.key] \subseteq grants'[Server][w.key]
    BY DEF GrantInductive, GrantProgress, Applied, Held, Server, Ref
  <2>2. Server \in Servers
    BY <2>1, RefType DEF AtDatabase
  <2>3. QED
    BY <1>1, <2>1, <2>2, GrantsGrow
<1>5. Reached'
  <2>1. CASE w.pc \in AtDatabase \cup {"database"}
    BY <2>1, ReachedKept
  <2>2. CASE w.pc \notin AtDatabase \cup {"database"}
    BY <2>2 DEF Reached
  <2>3. QED
    BY <2>1, <2>2
<1>6. Reported'
  <2>1. SUFFICES ASSUME w.pc = "status", w.status.ready, NEW n \in 1..Len(w.user.refs)
                 PROVE  Covers(grants'[ServerOf(w.user.refs[n])][w.key], Lists',
                               w.user.refs[n])
    BY DEF Reported, RefGranted
  <2>2. RefGranted(w.key, w.user.refs[n])
    BY <2>1 DEF GrantInductive, GrantProgress, Reported, RefGranted
  <2>3. QED
    BY <1>1, <2>1, <2>2, RefStays
<1>7. QED
  BY <1>3, <1>4, <1>5, <1>6 DEF GrantProgress

(* An error ends the call or reports a status that is not ready. *)
LEMMA FailedLeaves ==
  ASSUME TypeOK, w.user.exists, NEW err \in Errors,
         Failed(w, err) \/ Failed([w EXCEPT !.j = 0], err)
  PROVE  GrantProgress'
<1>1. w \in Worker
  BY DEF TypeOK, WorkerOK
<1>2. /\ [w EXCEPT !.j = 0] \in Worker
      /\ [w EXCEPT !.j = 0].key = w.key
      /\ [w EXCEPT !.j = 0].user = w.user
  BY <1>1 DEF Worker
<1>3. w'.pc = "idle" \/ (w'.pc = "status" /\ ~w'.status.ready)
  BY <1>1, <1>2, FailedFact
<1>4. QED
  BY <1>3, OutOfLoop DEF AtDatabase

(* GetPrivileges appends one list; then those up to position j are there. *)
LEMMA GetPrivilegesGrants ==
  ASSUME TypeOK, GrantInductive, ListsKept, [Next]_vars, GetPrivileges
  PROVE  GrantProgress'
<1> USE DEF users, inputs, sql
<1>1. /\ w \in Worker /\ w.user.exists /\ w.pc = "privileges" /\ w.pc \in AtDatabase
      /\ w.j \in Nat /\ w.j >= 1 /\ w.j <= Len(Ref.privileges)
      /\ w.privs \in Seq(PrivSpecs)
  BY DEF TypeOK, WorkerOK, Worker, GetPrivileges, AtDatabase
<1>2. Ref \in DatabaseRef /\ Ref.privileges \in Seq(PrivNames)
  BY <1>1, RefType DEF DatabaseRef
<1>3. Lists' = Lists
  BY ListsSame
<1> DEFINE list == privileges[Ref.privileges[w.j]].list
<1>4. CASE w' = [w EXCEPT !.j = @ + 1, !.privs = @ \o list]
  <2>1. Ref.privileges[w.j] \in PrivNames
    BY <1>1, <1>2
  <2>2. list \in Seq(PrivSpecs) /\ list = Lists[Ref.privileges[w.j]]
    BY <2>1 DEF TypeOK, Privileges, Lists
  <2> HIDE DEF list
  <2>3. /\ w'.pc = w.pc /\ w'.key = w.key /\ w'.user = w.user /\ w'.i = w.i
        /\ w'.j = w.j + 1 /\ w'.privs = w.privs \o list
    BY <1>1, <1>4 DEF Worker
  <2>4. /\ EntriesOf(w.privs) \subseteq EntriesOf(w.privs \o list)
        /\ EntriesOf(list) \subseteq EntriesOf(w.privs \o list)
    BY <1>1, <2>2, EntriesAppend
  <2>5. CoversFirst(EntriesOf(w.privs \o list), Lists, Ref, w.j)
    <3>1. SUFFICES ASSUME NEW k \in 1..Len(Ref.privileges), k <= w.j
                   PROVE  EntriesOf(Lists[Ref.privileges[k]]) \subseteq
                            EntriesOf(w.privs \o list)
      BY DEF CoversFirst
    <3>2. CASE k = w.j
      BY <2>2, <2>4, <3>2
    <3>3. CASE k <= w.j - 1
      BY <1>1, <2>4, <3>3 DEF GrantInductive, GrantProgress, Collected, CoversFirst
    <3>4. QED
      BY <1>1, <1>2, <3>1, <3>2, <3>3
  <2>6. w'.j - 1 = w.j
    BY <1>1, <2>3
  <2>7. Collected' /\ Applied' /\ Reported'
    BY <1>1, <1>3, <2>3, <2>5, <2>6 DEF Collected, Applied, Reported, Ref
  <2>8. Reached'
    BY <1>1, <2>3, ReachedKept
  <2>9. QED
    BY <2>7, <2>8 DEF GrantProgress
<1>5. QED
  BY <1>1, <1>4, FailedLeaves DEF GetPrivileges, Errors

(* With the last Privileges resource read, everything is collected and     *)
(* nothing granted yet.                                                    *)
LEMMA ConnectGrants ==
  ASSUME TypeOK, GrantInductive, ListsKept, [Next]_vars, Connect
  PROVE  GrantProgress'
<1> USE DEF users, inputs, sql
<1>1. /\ w \in Worker /\ w.user.exists /\ w.pc = "privileges" /\ w.pc \in AtDatabase
      /\ w.j \in Nat /\ w.j > Len(Ref.privileges) /\ w.privs \in Seq(PrivSpecs)
  BY DEF TypeOK, WorkerOK, Worker, Connect, AtDatabase
<1>2. Lists' = Lists /\ Ref \in DatabaseRef
  BY <1>1, ListsSame, RefType
<1>3. CASE w' = [w EXCEPT !.pc = IF w.user.deleting THEN "revoke" ELSE "create",
                          !.j = 1, !.files = CertFiles(Ref.name)]
  <2>1. /\ w'.pc \in {"revoke", "create"} /\ w'.key = w.key /\ w'.user = w.user
        /\ w'.i = w.i /\ w'.j = 1 /\ w'.privs = w.privs
    BY <1>1, <1>3 DEF Worker
  <2>2. \A k \in 1..Len(Ref.privileges) : k <= w.j - 1
    BY <1>1, <1>2 DEF DatabaseRef
  <2>3. Covers(EntriesOf(w.privs), Lists, Ref)
    BY <1>1, <2>2 DEF GrantInductive, GrantProgress, Collected, Covers, CoversFirst
  <2>4. \A m \in 1..Len(w.privs) : ~(m < 1)
    BY <1>1
  <2>5. Collected' /\ Applied' /\ Reported'
    BY <1>2, <2>1, <2>3, <2>4 DEF Collected, Applied, Reported, Ref
  <2>6. Reached'
    BY <1>1, <2>1, ReachedKept
  <2>7. QED
    BY <2>5, <2>6 DEF GrantProgress
<1>4. QED
  BY <1>1, <1>3, FailedLeaves DEF Connect, Errors

(* GRANT that answers ok has taken effect for the entry at position j. *)
LEMMA GrantGrants ==
  ASSUME TypeOK, GrantInductive, ListsKept, [Next]_vars, Grant
  PROVE  GrantProgress'
<1> USE DEF users, inputs, sql
<1>1. /\ w \in Worker /\ w.key \in Users /\ w.user.exists
      /\ w.pc = "grant" /\ w.pc \in AtDatabase
      /\ w.j \in Nat /\ w.j <= Len(w.privs) /\ w.privs \in Seq(PrivSpecs)
      /\ grants \in [Servers -> [Users -> SUBSET PrivSpecs]]
  BY DEF TypeOK, WorkerOK, Worker, Grant, AtDatabase
<1>2. Lists' = Lists /\ Server \in Servers
  BY <1>1, ListsSame, RefType
<1> DEFINE v == PrivilegeVerdict(Ref.name, Has, Privilege, targets[Server], w.files)
<1>3. PICK ans \in Errors, applied \in BOOLEAN :
        /\ Answers(v, ans, applied)
        /\ grants' = IF applied
                     THEN [grants EXCEPT ![Server][w.key] = @ \cup {Privilege}]
                     ELSE grants
        /\ IF ans = "ok"
           THEN w' = [w EXCEPT !.j = @ + 1, !.files = FilesAfter(Ref.name, Privilege, @)]
           ELSE Failed(w, ans)
  BY DEF Grant
<1> HIDE DEF v
<1>4. CASE ans = "ok"
  <2>1. applied
    BY <1>3, <1>4 DEF Answers
  <2>2. grants'[Server][w.key] = grants[Server][w.key] \cup {Privilege}
    BY <1>1, <1>2, <1>3, <2>1
  <2>3. /\ w'.pc = w.pc /\ w'.key = w.key /\ w'.user = w.user /\ w'.i = w.i
        /\ w'.j = w.j + 1 /\ w'.privs = w.privs
    BY <1>1, <1>3, <1>4 DEF Worker
  <2>4. ASSUME NEW m \in 1..Len(w.privs), m < w.j + 1
        PROVE  w.privs[m] \in grants'[Server][w.key]
    <3>1. CASE m = w.j
      BY <2>2, <3>1 DEF Privilege
    <3>2. CASE m < w.j
      BY <1>1, <2>2, <3>2 DEF GrantInductive, GrantProgress, Applied, Held
    <3>3. QED
      BY <1>1, <2>4, <3>1, <3>2
  <2>5. Applied'
    BY <2>3, <2>4 DEF Applied, Held, Server, Ref
  <2>6. Collected' /\ Reported'
    BY <1>1, <1>2, <2>3 DEF GrantInductive, GrantProgress, Collected, Reported, Ref
  <2>7. Reached'
    BY <1>1, <2>3, ReachedKept
  <2>8. QED
    BY <2>5, <2>6, <2>7 DEF GrantProgress
<1>5. CASE ans # "ok"
  BY <1>1, <1>3, <1>5, FailedLeaves
<1>6. QED
  BY <1>4, <1>5

(* After the last GRANT the loop is done with the database at position i. *)
LEMMA CloseGrants ==
  ASSUME TypeOK, GrantInductive, ListsKept, [Next]_vars, CloseApplied
  PROVE  GrantProgress'
<1> USE DEF users, inputs, sql
<1>1. /\ w \in Worker /\ w.key \in Users /\ w.user.refs \in Seq(DatabaseRef)
      /\ w.pc = "grant" /\ w.pc \in AtDatabase /\ w.i \in Nat
      /\ w.j \in Nat /\ w.j > Len(w.privs) /\ w.privs \in Seq(PrivSpecs)
  BY DEF TypeOK, WorkerOK, Worker, User, CloseApplied, AtDatabase
<1>2. /\ w'.pc = "database" /\ w'.key = w.key /\ w'.user = w.user
      /\ w'.i = w.i + 1
  BY <1>1, NextDatabaseType DEF CloseApplied
<1>3. Collected' /\ Applied' /\ Reported'
  BY <1>2 DEF Collected, Applied, Reported
<1>4. EntriesOf(w.privs) \subseteq Held
  <2>1. \A m \in 1..Len(w.privs) : m < w.j
    BY <1>1
  <2>2. QED
    BY <1>1, <2>1 DEF EntriesOf, GrantInductive, GrantProgress, Applied
<1>5. Covers(Held, Lists, Ref)
  BY <1>1, <1>4, CoversMore DEF GrantInductive, GrantProgress, Collected
<1>6. ASSUME ~w.user.deleting, NEW n \in 1..Len(w.user.refs), n < w.i + 1
      PROVE  Covers(grants'[ServerOf(w.user.refs[n])][w.key], Lists', w.user.refs[n])
  <2>1. RefGranted(w.key, w.user.refs[n])
    <3>1. CASE n = w.i
      BY <1>5, <3>1 DEF RefGranted, Held, Server, Ref
    <3>2. CASE n < w.i
      BY <1>1, <1>6, <3>2 DEF GrantInductive, GrantProgress, Reached, RefGranted
    <3>3. QED
      BY <1>1, <1>6, <3>1, <3>2
  <2>2. QED
    BY <1>1, <1>6, <2>1, RefStays
<1>7. Reached'
  BY <1>2, <1>6 DEF Reached, RefGranted
<1>8. QED
  BY <1>3, <1>7 DEF GrantProgress

(* CREATE USER and the Secret come between collecting and granting. *)
LEMMA CreateGrants ==
  ASSUME TypeOK, GrantInductive, ListsKept, [Next]_vars, CreateUser \/ CreateSecret
  PROVE  GrantProgress'
<1> USE DEF users, inputs, sql
<1>1. /\ w \in Worker /\ w.key \in Users /\ w.user.exists
      /\ w.pc \in {"create", "secret"} /\ w.pc \in AtDatabase
  BY DEF TypeOK, WorkerOK, Worker, CreateUser, CreateSecret, AtDatabase
<1>2. Lists' = Lists /\ grants' = grants
  BY ListsSame DEF CreateUser, CreateSecret
<1>3. ASSUME NEW pc \in {"secret", "grant"}, w' = [w EXCEPT !.pc = pc]
      PROVE  GrantProgress'
  <2>1. /\ w'.pc = pc /\ w'.key = w.key /\ w'.user = w.user /\ w'.i = w.i
        /\ w'.j = w.j /\ w'.privs = w.privs
    BY <1>1, <1>3 DEF Worker
  <2>2. Collected' /\ Applied' /\ Reported'
    BY <1>1, <1>2, <2>1 DEF GrantInductive, GrantProgress, Collected, Applied,
       Reported, Held, Server, Ref
  <2>3. Reached'
    BY <1>1, <2>1, ReachedKept
  <2>4. QED
    BY <2>2, <2>3 DEF GrantProgress
<1>4. CASE CreateSecret
  <2>1. \/ w' = [w EXCEPT !.pc = "grant"]
        \/ \E ans \in Errors : Failed([w EXCEPT !.j = 0], ans)
    BY <1>4 DEF CreateSecret
  <2>2. QED
    BY <1>1, <1>3, <2>1, FailedLeaves
<1>5. CASE CreateUser
  <2>1. PICK ans \in Errors :
          LET err == CreateUserError(Ref.name, ans, caKey[Ref.name])
          IN  \/ w' = [w EXCEPT !.pc = IF CreateUserData(Ref.name, ans)
                                       THEN "secret" ELSE "grant"]
              \/ Failed([w EXCEPT !.j = 0], err)
              \/ Restart
    BY <1>5 DEF CreateUser
  <2> DEFINE err == CreateUserError(Ref.name, ans, caKey[Ref.name])
  <2>2. err \in Errors
    BY VerdictTypes
  <2> HIDE DEF err
  <2>3. CASE w' = [w EXCEPT !.pc = IF CreateUserData(Ref.name, ans)
                                   THEN "secret" ELSE "grant"]
    BY <1>3, <2>3
  <2>4. CASE Failed([w EXCEPT !.j = 0], err)
    BY <1>1, <2>2, <2>4, FailedLeaves
  <2>5. CASE Restart
    <3>1. w'.pc = "idle"
      BY <2>5, RestartType
    <3>2. QED
      BY <3>1, OutOfLoop DEF AtDatabase
  <2>6. QED
    BY <2>1, <2>3, <2>4, <2>5 DEF err
<1>6. QED
  BY <1>4, <1>5

(* A deletion has nothing to show for. *)
LEMMA DeletionGrants ==
  ASSUME TypeOK, Revoke \/ DropUser \/ DeleteSecret
  PROVE  GrantProgress'
<1> USE DEF users, inputs, sql
<1>1. /\ w \in Worker /\ w.user.exists /\ w.user.deleting /\ w.err \in Errors
      /\ w.pc \in {"revoke", "delSecret"} /\ w.pc \in AtDatabase
  BY DEF TypeOK, WorkerOK, Worker, Revoke, DropUser, DeleteSecret, AtDatabase
<1>2. ASSUME w'.user = w.user, w'.pc \in {"revoke", "delSecret", "database"}
      PROVE  GrantProgress'
  BY <1>1, <1>2 DEF GrantProgress, Collected, Applied, Reached, Reported
<1>3. CASE Revoke
  <2>1. PICK ans \in Errors :
          w' = IF RevokeError(Ref.name, ans) = "ok"
               THEN [w EXCEPT !.j = IF ans = "ok" THEN @ + 1 ELSE Len(w.privs) + 1,
                              !.files = FilesAfter(Ref.name, Privilege, @)]
               ELSE [w EXCEPT !.pc = "delSecret", !.err = ans]
    BY <1>3 DEF Revoke
  <2>2. QED
    BY <1>1, <1>2, <2>1 DEF Worker
<1>4. CASE DropUser
  <2>1. PICK e : w' = [w EXCEPT !.pc = "delSecret", !.err = e]
    BY <1>4 DEF DropUser
  <2>2. QED
    BY <1>1, <1>2, <2>1 DEF Worker
<1>5. CASE DeleteSecret
  <2>1. CASE w' = NextDatabase
    BY <1>1, <1>2, <2>1, NextDatabaseType
  <2>2. CASE Failed(w, w.err)
    BY <1>1, <2>2, FailedLeaves
  <2>3. QED
    BY <1>5, <2>1, <2>2 DEF DeleteSecret
<1>6. QED
  BY <1>3, <1>4, <1>5

(* Succeed reports ready only when the loop is done with every database. *)
LEMMA SucceedGrants ==
  ASSUME TypeOK, GrantInductive, ListsKept, [Next]_vars, Succeed
  PROVE  GrantProgress'
<1> USE DEF users, inputs, sql
<1>1. /\ w \in Worker /\ w.key \in Users /\ w.user.refs \in Seq(DatabaseRef)
      /\ w.pc = "database" /\ ~w.user.deleting
      /\ w.i \in Nat /\ w.i > Len(w.user.refs)
  BY DEF TypeOK, WorkerOK, Worker, User, Succeed
<1>2. CASE w.user.status.ready
  <2>1. w' = Idle(w.key)
    BY <1>2 DEF Succeed, Return
  <2>2. w'.pc = "idle"
    BY <1>1, <2>1, IdleType
  <2>3. QED
    BY <2>2, OutOfLoop DEF AtDatabase
<1>3. CASE ~w.user.status.ready
  <2>1. w' = Reporting(w, SuccessStatus)
    BY <1>3 DEF Succeed
  <2>2. w'.pc = "status" /\ w'.key = w.key /\ w'.user = w.user
    BY <1>1, <2>1, StatusType, ReportingType
  <2>3. ASSUME NEW n \in 1..Len(w.user.refs)
        PROVE  Covers(grants'[ServerOf(w.user.refs[n])][w.key], Lists', w.user.refs[n])
    <3>1. n < w.i
      BY <1>1
    <3>2. RefGranted(w.key, w.user.refs[n])
      BY <1>1, <3>1 DEF GrantInductive, GrantProgress, Reached, RefGranted
    <3>3. QED
      BY <1>1, <3>2, RefStays
  <2>4. Reported'
    BY <2>2, <2>3 DEF Reported, RefGranted
  <2>5. QED
    BY <2>2, <2>4 DEF GrantProgress, Collected, Applied, Reached, AtDatabase
<1>4. QED
  BY <1>2, <1>3

(* Every step keeps what the worker has shown. *)
LEMMA GrantProgressStep ==
  ASSUME TypeOK, TypeOK', GrantInductive, ListsKept, [Next]_vars
  PROVE  GrantProgress'
<1> USE DEF users, inputs, sql
<1>1. w \in Worker /\ w.key \in Users /\ w' \in Worker
  BY DEF TypeOK, WorkerOK, Worker
<1>2. CASE GetPrivileges
  BY <1>2, GetPrivilegesGrants
<1>3. CASE Connect
  BY <1>3, ConnectGrants
<1>4. CASE Grant
  BY <1>4, GrantGrants
<1>5. CASE CloseApplied
  BY <1>5, CloseGrants
<1>6. CASE CreateUser \/ CreateSecret
  BY <1>6, CreateGrants
<1>7. CASE Revoke \/ DropUser \/ DeleteSecret
  BY <1>7, DeletionGrants
<1>8. CASE Succeed
  BY <1>8, SucceedGrants
<1>9. CASE PasswordMissing
  <2>1. w.user.exists
    BY <1>9 DEF TypeOK, WorkerOK, PasswordMissing
  <2>2. QED
    BY <1>9, <2>1, VerdictTypes, FailedLeaves DEF PasswordMissing
<1>10. CASE GetDatabase
  <2>1. w.pc = "database" /\ w.user.exists
    BY <1>10 DEF TypeOK, WorkerOK, GetDatabase
  <2>2. CASE w' = [w EXCEPT !.pc = "privileges", !.j = 1]
    <3>1. /\ w'.pc = "privileges" /\ w'.key = w.key /\ w'.user = w.user
          /\ w'.i = w.i /\ w'.j = 1
      BY <1>1, <2>2 DEF Worker
    <3>2. Ref' \in DatabaseRef
      <4>1. w.user.refs \in Seq(DatabaseRef) /\ w.i \in 1..Len(w.user.refs)
        BY <1>1, <1>10, <2>1 DEF TypeOK, WorkerOK, Worker, User, GetDatabase
      <4>2. QED
        BY <3>1, <4>1 DEF Ref
    <3>3. \A k \in 1..Len(Ref'.privileges) : ~(k <= w'.j - 1)
      BY <3>1, <3>2 DEF DatabaseRef
    <3>4. Collected' /\ Applied' /\ Reported'
      BY <3>1, <3>3 DEF Collected, CoversFirst, Applied, Reported
    <3>5. Reached'
      BY <2>1, <3>1, ReachedKept
    <3>6. QED
      BY <3>4, <3>5 DEF GrantProgress
  <2>3. QED
    BY <1>10, <2>1, <2>2, FailedLeaves DEF GetDatabase, Errors
<1>11. CASE AddFinalizer
  <2>1. w.user \in User /\ w.user.exists /\ w.current \in BOOLEAN
    BY <1>1, <1>11 DEF TypeOK, WorkerOK, AddFinalizer, Worker
  <2>2. PICK ans \in Errors, applied \in BOOLEAN :
          IF ans = "ok"
          THEN w' = [w EXCEPT !.user.finalizer = TRUE, !.pc = "database", !.i = 1]
          ELSE Failed([w EXCEPT !.user.finalizer = TRUE,
                                !.current = w.current /\ ~applied], ans)
    BY <1>11 DEF AddFinalizer
  <2>3. CASE ans = "ok"
    <3>1. w'.pc = "database" /\ w'.i = 1
      BY <1>1, <2>2, <2>3 DEF Worker
    <3>2. QED
      BY <1>1, <3>1, LoopStarts
  <2>4. CASE ans # "ok"
    <3> DEFINE x == [w EXCEPT !.user.finalizer = TRUE, !.current = w.current /\ ~applied]
    <3>1. x \in Worker /\ x.key = w.key /\ x.user.exists
      BY <1>1, <2>1 DEF Worker, User
    <3>2. Failed(x, ans)
      BY <2>2, <2>4
    <3> HIDE DEF x
    <3>3. w'.pc = "idle" \/ (w'.pc = "status" /\ ~w'.status.ready)
      BY <3>1, <3>2, FailedFact
    <3>4. QED
      BY <3>3, OutOfLoop DEF AtDatabase
  <2>5. QED
    BY <2>3, <2>4
<1>12. CASE RemoveFinalizer \/ SetStatus
  <2>1. w' = Idle(w.key)
    BY <1>12 DEF RemoveFinalizer, SetStatus, Return
  <2>2. w'.pc = "idle"
    BY <1>1, <2>1, IdleType
  <2>3. QED
    BY <2>2, OutOfLoop DEF AtDatabase
<1>13. ASSUME NEW u \in Users, Fetch(u)
       PROVE  GrantProgress'
  <2>1. Idle(u) \in Worker /\ Idle(u).pc = "idle"
    BY IdleType
  <2>2. w'.pc \in {"idle", "finalizer"} \/ (w'.pc = "database" /\ w'.i = 1)
    BY <1>13, <2>1 DEF Fetch, Worker
  <2>3. QED
    BY <1>1, <2>2, OutOfLoop, LoopStarts DEF AtDatabase
<1>14. CASE Crash
  <2>1. w'.pc = "idle"
    BY <1>14, RestartType DEF Crash
  <2>2. QED
    BY <2>1, OutOfLoop DEF AtDatabase
<1>15. CASE \E u \in Users : ApplyUser(u) \/ DeleteUser(u) \/ EditUser(u)
  <2>1. PICK u \in Users : Outdate(u)
    BY <1>15 DEF ApplyUser, DeleteUser, EditUser
  <2>2. /\ w'.pc = w.pc /\ w'.key = w.key /\ w'.user = w.user /\ w'.i = w.i
        /\ w'.j = w.j /\ w'.privs = w.privs /\ w'.status = w.status
    BY <1>1, <2>1 DEF Outdate, Worker
  <2>3. QED
    BY <2>2, WorkerStays
<1>16. CASE w' = w
  BY <1>16, WorkerStays
<1>17. QED
  BY <1>2, <1>3, <1>4, <1>5, <1>6, <1>7, <1>8, <1>9, <1>10, <1>11, <1>12, <1>13,
     <1>14, <1>15, <1>16
     DEF Next, Reconcile, Manager, People, SyncUser, SyncSecret, Resync, Heal,
         ToggleDatabase, ReplaceCA, TogglePrivileges, EditPrivileges, ChangeSecret,
         DropTarget, vars

(* Nothing is granted, and no User ready, at first. *)
LEMMA GrantInit ==
  ASSUME Init
  PROVE  GrantInductive
<1>1. w.pc = "idle"
  BY IdleType DEF Init
<1>2. \A u \in Users : ~IsReady(u)
  BY GoneType DEF Init, IsReady, Wanted
<1>3. QED
  BY <1>1, <1>2 DEF GrantInductive, GrantProgress, Collected, Applied, Reached,
     Reported, Granted, AtDatabase

(* What is granted for every reference is what ReadyGranted asks for. *)
LEMMA GrantedMeans ==
  ASSUME Inductive, GrantInductive
  PROVE  ReadyGranted
<1>1. SUFFICES ASSUME NEW u \in Users, IsReady(u), NEW s \in Servers,
                      NEW p \in Listed(u, s)
               PROVE  p \in grants[s][u]
  BY DEF ReadyGranted
<1>2. api[u].refs \in Seq(DatabaseRef)
  BY DEF Inductive, TypeOK, User
<1>3. PICK n \in 1..Len(api[u].refs) :
        /\ ServerOf(api[u].refs[n]) = s
        /\ \E k \in 1..Len(api[u].refs[n].privileges) :
             \E m \in 1..Len(privileges[api[u].refs[n].privileges[k]].list) :
               privileges[api[u].refs[n].privileges[k]].list[m] = p
  BY <1>1 DEF Listed
<1>4. PICK k \in 1..Len(api[u].refs[n].privileges) :
        \E m \in 1..Len(privileges[api[u].refs[n].privileges[k]].list) :
          privileges[api[u].refs[n].privileges[k]].list[m] = p
  BY <1>3
<1>5. api[u].refs[n].privileges[k] \in PrivNames
  <2>1. api[u].refs[n] \in DatabaseRef
    BY <1>2
  <2>2. QED
    BY <2>1 DEF DatabaseRef
<1>6. p \in EntriesOf(Lists[api[u].refs[n].privileges[k]])
  BY <1>4, <1>5 DEF EntriesOf, Lists
<1>7. QED
  BY <1>1, <1>3, <1>6 DEF GrantInductive, Granted, RefGranted, Covers

(* A status that setStatus wrote as ready means that the SQL user holds    *)
(* every privilege its Privileges resources list, on every server: with    *)
(* stale caches, lost answers of GRANT, crashes between two statements,    *)
(* Users deleted and re-created at any moment and resources that are       *)
(* missing for a while, as long as lists and specs are not edited and what *)
(* is granted on is not dropped by hand, which no ready status can follow. *)
THEOREM ReadyGrantedHolds ==
  ASSUME ListsKept
  PROVE  Spec => []ReadyGranted
<1>1. Init => GrantInductive
  BY GrantInit
<1>2. Inductive /\ GrantInductive /\ [Next]_vars => GrantInductive'
  <2>1. SUFFICES ASSUME Inductive, GrantInductive, [Next]_vars
                 PROVE  GrantInductive'
    OBVIOUS
  <2>2. TypeOK /\ TypeOK'
    BY <2>1, TypeStep DEF Inductive
  <2>3. GrantProgress'
    BY <2>1, <2>2, GrantProgressStep
  <2>4. Granted'
    BY <2>1, <2>2, GrantedStep
  <2>5. QED
    BY <2>3, <2>4 DEF GrantInductive
<1>3. Inductive /\ GrantInductive => ReadyGranted
  BY GrantedMeans
<1>4. QED
  BY <1>1, <1>2, <1>3, InductiveHolds, PTL DEF Spec
================================================================================
