# Verification of the database users operator

This directory holds a TLA+ development of the operator: modules that model the
User controller and what it talks to, TLC configurations that check them on
small instances, and proofs checked by TLAPS that hold for every value of the
constants. Paths below are relative to the repository.

## The system

| Part | State it keeps | Operations | Talks to |
|---|---|---|---|
| API types (`api/v1alpha1`) | `User`, `Database`, `Privileges` objects in the API server | created, edited, deleted by people; `User` metadata and status written by the operator | referenced by name; `Secret`s by namespaced name |
| User controller (`controllers/user_controller.go`) | none of its own between calls; during one: the copy of the User, positions in two loops, the open connection | `Reconcile`: finalizer, for each database connect, create or drop the SQL user, grant or revoke, Secret with certificates, status | API server, SQL servers |
| Manager (`main.go`, controller-runtime) | informer caches, work queue, one worker | watch events, resync, retry after an error, crash and restart | API server |
| Database dispatch (`pkg/database/database.go`) | the open connection | reads Secrets, connects, chooses the implementation | API cache, SQL servers |
| PostgreSQL (`pkg/database/postgresql`) | certificate files on disk | CREATE/DROP USER, GRANT/REVOKE, certificates signed with a CA key | PostgreSQL or CockroachDB |
| MySQL (`pkg/database/mysql`) | none | the same statements, no certificates | MySQL |
| SQL connection (`pkg/database/connection`) | an `sqlx.DB` without idle connections | Connect, Exec, Copy, Close | drivers |

What is hard in it: `Reconcile` reads from caches that lag behind, and writes to
the API server and to several SQL servers one call at a time. There is no
transaction over them; any call may fail before or after it took effect, and
the process may stop between any two. People edit, delete and re-create
resources meanwhile. What keeps this together is the finalizer, the
resourceVersion that the API server compares on every Update, and the operator's
habit of repeating statements until they succeed or say that the work is done.
So the properties that make the controller correct are about the *relation*
between the stored User and the SQL users: no SQL user without a finalizer,
"ready" only with the SQL users and privileges there, no SQL user dropped for a
User that is alive, no finalizer removed too early, every deletion finished and
every User settled in the end. `PROJECT.json` lists the hazards line by line.

## Modules

| Module | Models |
|---|---|
| `Resources` | API objects, Secrets, status messages, errors; the constants and their assumptions |
| `Postgresql` | the PostgreSQL implementation: statements, the server's verdicts, which errors are ignored, certificates and their files |
| `Mysql` | the MySQL implementation |
| `Database` | the `database.Database` interface: dispatch on the type |
| `UserController` | the controller, the manager, the API server, the SQL servers and the people; its properties |
| `AccountLifecycle` | abstract specification of what the operator promises about a User and its SQL users |
| `LifecycleRefinement` | `UserController` as an implementation of it: the refinement mapping |
| `Connections` | the connections of successive visits to PostgreSQL databases and the certificate files on disk |
| `Statements` | the text of the PostgreSQL statements, the escaping functions, and how the server reads them |
| `MCUserController`, `MCConnections`, `MCStatements` | values of the constants for the `.cfg` files |
| `UserControllerTypeProofs` | proof of type correctness |
| `UserControllerProofs` | proof of the inductive invariant and of four safety properties |
| `LifecycleProofs` | proof that `UserController` implements `AccountLifecycle` |
| `GrantProofs`, `SecretProofs` | proofs of `ReadyGranted` and `SecretHeld`, with the invariants they need on top |
| `ConnectionsProofs` | proofs of the properties of the certificate files |
| `SequenceInduction` | induction over sequences, recursive functions over their positions, concatenation and flattening |
| `StatementsProofs` | proofs of the properties of the statement text |

`Postgresql` and `Mysql` extend `Resources`; from there the line is `Database`,
`UserController`, `LifecycleRefinement`, `MCUserController`. Beside it stand the
proof modules: the types, then `UserControllerProofs`, and on top of that
`LifecycleProofs`, `GrantProofs` and `SecretProofs`. `Connections` extends `Postgresql` and
shares with the controller the operators that say which files a connection has;
`Statements` stands alone, with `StatementsProofs` on top of it and of
`SequenceInduction`. Operators whose comment starts with
*Mutant* are faulty variants of the operator after them; `PROJECT.json` says
which property each of them breaks. They are used nowhere else.

### State and actions

`api`, `secrets` are what the API server stores, `cache`, `secretsSeen` what the
informers show. A resourceVersion is modelled by what it decides: `synced[u]`
says that the cached copy is the stored version, `w.current` that the worker's
copy is. `w` is the `Reconcile` call in progress: `pc` the next call it makes,
`i` the position in `spec.databases`, `j` the position in the Privileges
references and then in the collected privileges. `accounts`, `grants`, `targets`
are the SQL servers. `faulty` says whether calls can still fail.

An action is one call of `Reconcile` to the outside together with everything up
to the next one:

| Action | Code in `user_controller.go` |
|---|---|
| `Fetch` | `r.user`, the branches at the top of `reconcile` |
| `AddFinalizer`, `RemoveFinalizer` | the two `r.Update` calls |
| `GetDatabase`, `GetPrivileges`, `Connect` | `databaseReconciler` up to the connection |
| `PasswordMissing`, `CreateUser`, `CreateSecret` | `createUserInDatabase` |
| `Grant`, `CloseApplied` | `db.ApplyPrivileges`, one statement each, and `db.Close` |
| `Revoke`, `DropUser`, `DeleteSecret` | `databaseUserDelete`; the deferred Secret deletion comes last |
| `Succeed`, `SetStatus` | the rest of `Reconcile`, `setStatus` |

`Answers(v, err, applied)` is a remote call: it answers the other side's verdict
`v`, or, while `faulty`, an error that leaves open whether it took effect.
`SyncUser`, `SyncSecret`, `Resync`, `Crash` are the manager. The remaining
actions are people; the constant `Env` selects them per run.

`AccountLifecycle` has none of this. A User is absent, alive or deleting, is held
by a finalizer or not, is ready or not, and has roles on some of the servers that
every version of its spec names. Roles are added only while it is held, dropped
only while it is being deleted; it is reported ready only with all roles, released
only with none. The mapping reads these off `api` and `accounts` alone: of a
`Reconcile`, only the two finalizer writes, CREATE USER, DROP USER and the status
write are visible, and everything else must stutter.

`Connections` opens up what `w.files` of the controller abbreviates:

| Action | Code |
|---|---|
| `Open` | `newPostgresql` with `Config.ConnString` (writes the files) and `Connect`; fails after any of the files |
| `OpenCopy`, `CloseCopy` | `inDatabasePrivilege`: `Config.Copy`, Connect, the statement, the deferred `Close` |
| `Finish`, `Close` | the end of a visit and `db.Close`, which removes the files |
| `Crash`, `Rotate` | the process stops; people renew certificates |

`Statements` builds one statement per behaviour (`Create`, `Drop`, `Change`) from
any user, password, object and privilege of bounded length.

### Modelling decisions

* `mgr.GetClient()` reads from the caches and writes to the API server. A cache
  jumps to the stored version: a cache that stops at a version in between
  behaves as one that has not synced yet, or as one that synced and then became
  outdated. Database and Privileges resources are modelled as the cache shows
  them, since the operator only reads them.
* One worker: `MaxConcurrentReconciles` is not set, so it is 1, and the
  manifests run the manager with `--leader-elect`.
* A read from a cache that fails returns the error, the name is queued again and
  nothing has changed, so it is not an action.
* Writing a status equal to the stored one changes no resourceVersion and causes
  no event.
* A panic in `Reconcile` stops the process (controller-runtime does not recover
  it by default), so it is a restart.
* The connector sets `SetMaxIdleConns(0)`, so each statement opens a connection,
  and the PostgreSQL driver then parses its connection string, and with it the
  certificate files, again. That is what `files` and `PgOnConnection` stand for.
* Verdicts of the SQL servers are those the servers document: 42710, 42704,
  2BP01 (a role that still holds privileges on tables or databases cannot be
  dropped), 42P01 and 3D000; MySQL 1396, 1064 for the quoted names after `ON`
  that the driver's interpolation produces, and an unknown account when
  `usersHostname` is not `%`, because GRANT and REVOKE name the user without a
  host. An account of MySQL is `user@usersHostname`, so `Servers` has one member
  per server and host name.
* In `UserController` a User is the role it names, and different Users are different
  roles. For PostgreSQL that is an assumption on their names, and `NamesApart` says
  which: they differ in the bytes that the server keeps of an identifier, and have no
  dot (for a name with a dot there is no role). Statement text and
  escaping are in `Statements`; events, logs, metrics and flags are left out. CRD
  validation rules out unsupported database types.
* What a Database resource says (`Conf`) does not change: a Database disappears and
  comes back as it was. An edit of its host, or a Database created again with another
  one, is not in the environment. It would leave the SQL users on the old server, as a
  database entry that is removed from a spec does.
* `Statements` reads text by PostgreSQL's lexical rules for quoted identifiers and
  strings, with `standard_conforming_strings` on. A character is a byte. Of an
  identifier, quoted or not, the server keeps `IdentLen` bytes (`NAMEDATALEN - 1`, 63;
  where that would cut a multibyte character it keeps fewer), while a User may have a
  name of 253. A NUL anywhere, a quote left open and an empty identifier are refused
  (`Closed`, `Lexed`).
* `Accepted` is the grammar of CREATE USER and DROP USER: one name, not a qualified
  one and not a reserved one (`Reserved`; `public` and `none`), and a password for the
  first. What a User name should mean is `IsRoleName` and `Truncated` of the name as it
  stands; the split at dots of `escapeLiteral` is not in it, so a name with a dot is
  one that the server has to refuse. Tables and schemas are spelled with dots in
  between (`schema.table`) by the Privileges resource itself, and `Spelled` says so.
* The text of a privilege is not quoted, and the CRD does not restrict it:
  `PrivilegeReadsBack` is about texts without the characters in `Openers`, which
  start a string or a comment and which no privilege of the server has. The scanner
  of the model knows quotes and apostrophes; comments and dollar quotes are not in it.
* The names of certificate files hold host, user and database, not the port, so two
  Databases can share them; `os.Remove` succeeds. A restarted container has a new
  file system, a process restarted on the same machine the old one; `Crash` has
  both. `UserController` takes a Database with a strict SSL mode as one that has
  a certificate and key.

## Runs

State counts are distinct states.

| Run | Instance | Checks |
|---|---|---|
| `edit` | one User, PostgreSQL with certificates and MySQL, spec switching between both databases and MySQL alone, failures | `Inductive`, `ReleaseIsClean`, `DropsOnlyDeleted`, `ImplementsLifecycle`; 0.5 M states |
| `inputs` | password and connection Secrets, all kinds of CA key, resources deleted and re-created | `AccountHeld`, `ReadyBacked`; 1.7 M |
| `revoke` | Privileges list edited between a table, an invalid entry and nothing, tables dropped, failures | `TypeOK`, `ReleaseIsClean`; 1.2 M |
| `live` | certificates, a table privilege and a role, Privileges deleted and re-created, failures that end | `ReadyGranted`, `Settles`, `DeletionCompletes`; 0.2 M |
| `two_users` | two Users of one database, same or different `createdSecret` | `SecretHeld`; 0.8 M |
| `connections` | two Databases whose files have the same names and one without certificates, entries on tables of two databases, failures, crashes, rotation | `FilesFresh`, `LeftoversOwned`, `FilesAgree`; 0.5 M |
| `statements` | texts over letters, dots, quotes, apostrophes, `*`, `;`, `#` and NUL, identifiers cut after two bytes, one reserved name | `UserReadsBack`, `NamesApart`, `PrivilegeReadsBack`; 0.4 M |

What they show beyond the controller's own safety and liveness:

* `ImplementsLifecycle`: caches, retries, failures, crashes and edits add nothing
  that a person watching the User and the servers could not also see from the
  abstract specification. No step in between shows, for instance, a role before
  the finalizer or a ready status that a lost edit had made wrong.
* `FilesFresh`: although files are shared, leaked and half-written, a statement
  authenticates with the certificates its Config was made with or not at all,
  because every Connect writes all it names. `LeftoversOwned` bounds the leak of a
  failed Connect (nothing calls `Close` then) to one set per name, until the next
  visit that connects. `FilesAgree` justifies the one bit `w.files` that
  `UserController`, and with it run `files`, keeps of all this.
* `UserReadsBack`, `NamesApart`, `PrivilegeReadsBack`: the server refuses the
  statement or reads the user and password that the resource holds, and the first
  exactly for names that can not be a role's and for a password with a NUL; two Users
  are one role exactly if their names agree in the bytes that the server keeps (a
  collision that the code does not see, since duplicate_object counts as success), and
  no quote, dot or NUL in a name adds another collision; the unquoted text of a
  privilege can not swallow the object behind it, although
  `escapeLiteralWithoutQuotes` loses its removal of `#`.

The bounds are the sizes of these sets; nothing else is cut off, because no
counter of the model grows without end: Users can be deleted and re-created,
specs edited, resources toggled, connections opened any number of times. One User
is enough for the properties about one User because Users share only the worker,
the SQL server and possibly a Secret; `two_users` has the sharing. Two databases
are enough for a failure in one after success in the other, two privileges for a
partly applied list, a list with an invalid entry for a deletion that is blocked.
For files, two Databases with one name and two rotations are enough to confuse one
content with another, since a name has one content. For statements, names and
passwords have at most three characters (a doubled quote between two others, or one
that is cut off: `IdentLen` is 2 there), privileges at most two; the theorems of `StatementsProofs` have no such bound. Deadlock checking is on except in `statements`,
where a behaviour ends with its statement; elsewhere a resync or another visit is
always possible.

### What the code does not do

These runs state what a document or a test of the repository says and end with a
counterexample. `PROJECT.json` quotes the lines.

| Run | Property | What happens |
|---|---|---|
| `secret_lost` | `ReadyHasSecret` | CREATE USER succeeds, the answer or the Secret is lost; the next Reconcile sees duplicate_object, makes no certificate and reports ready |
| `mysql_settle` | `Settles` | the second Reconcile repeats CREATE USER, gets 1396 and sets ready to false |
| `privileges_edit` | `DeletionNotStuck` | an entry taken off the list is never revoked, DROP USER gets 2BP01 |
| `files` | `Settles` | closing the copied connection removes the certificate files of the first |
| `follow` | `PrivilegesFollow` | an entry taken off the list stays granted |

Four relatives have no run of their own.

* A DROP USER of MySQL takes effect and its answer is lost, or a later database fails;
  repeated, it gets 1396 for ever, which the code does not ignore, and the deletion
  does not end. `DeletionCompletes` on the instance of `mysql_settle` with
  `Faults = TRUE` and `PrivLists <- NoLists` shows it (with a list, REVOKE fails first,
  because the account is unknown); it is therefore checked for PostgreSQL.
* A role in a list of Privileges was dropped: its 42704 ends the revocation as a
  success, a table privilege behind it stays granted, and DROP USER gets 2BP01 at every
  attempt. The lists of the passing runs have roles that stay.
* A User name with a dot is written as a qualified name. By `UserReadsBack` the server
  refuses CREATE USER and DROP USER for it; this error is not ignored, so that the
  deletion of such a User does not end either. The same holds of a User named `public`.
* `ReadyHasSecret` fails without any failing call, too: a User is deleted and created
  again, the informer cache still shows the Secret of the old one when
  `createUserInDatabase` asks for it, and the new bundle is dropped (`secret_lost` with
  `Faults = FALSE` shows it).

### Fairness

`FairSpec` assumes: the worker does not stop in the middle of a call
(`WF(Reconcile)`; every call returns, and a crash leads to a restart); each
queued name gets its turn (`SF(Fetch(u))`; the work queue is first in, first
out); informers deliver and resync (`WF` of `SyncUser`, `SyncSecret`, `Resync`;
controller-runtime resyncs every ten hours by default); failures end
(`WF(Heal)`), without which nothing distributed settles. `Settles` holds only
thanks to the resync: after the same error twice the status is unchanged, its write
causes no event, and nothing else queues the User. People are never fair. In
particular, a Database or Privileges resource that is deleted stops the Users that
refer to it, their deletion included, and nothing forces it to come back: `Settles`
and `DeletionCompletes` are promises from the time on that the resources are
there for good, and `live` checks that whatever happened before, while they came
and went, does no lasting harm.

## Proofs

The theorems hold for every choice of the constants that satisfies the named
assumptions of the modules: `ResourceAssumption` and `ControllerAssumption` (types
of the constants; operator-made and supplied Secrets have different states; CA
keys are of the three kinds), and for the files `ConnectionAssumption` (a file that
is there has a content, and a Secret for a strict SSL mode holds at least one of CA,
certificate and key). `TextsAssumption` of `Statements` only says that texts are
sequences over `Chars`, which may be any set, and that the server keeps at least one
byte of a name. TLC evaluates them in the runs.

| Theorem | Statement |
|---|---|
| `TypeCorrect` | `Spec => []TypeOK` |
| `InductiveHolds` | `Spec => []Inductive` |
| `AccountHeldHolds` | `Spec => []AccountHeld` |
| `ReadyBackedHolds` | `Spec => []ReadyBacked` |
| `ReleaseIsCleanHolds` | `Spec => ReleaseIsClean` |
| `DropsOnlyDeletedHolds` | `Spec => DropsOnlyDeleted` |
| `LifecycleImplemented` | `Spec => ImplementsLifecycle` |
| `ReadyGrantedHolds` | if `Env` has none of `"edit"`, `"privileges"`, `"targets"`: `Spec => []ReadyGranted` |
| `SecretHeldHolds` | if `Faults = FALSE` and `"edit" \notin Env`: `Spec => []SecretHeld` |
| `FilesInductiveHolds` | `Spec => []FilesInductive` (of `Connections`, as the next three) |
| `FilesFreshHolds` | `Spec => []FilesFresh` |
| `LeftoversOwnedHolds` | `Spec => []LeftoversOwned` |
| `FilesAgreeHolds` | `Spec => []FilesAgree` |
| `UserReadsBackAlways` | `Spec => []UserReadsBack` (of `Statements`, as the next two) |
| `NamesApartAlways` | `Spec => []NamesApart` |
| `PrivilegeReadsBackAlways` | `Spec => []PrivilegeReadsBack` |

### The controller

`AccountHeld` and `ReadyBacked` are not inductive: they say nothing about the
caches and the worker, whose content decides what the next write does. `Inductive`
adds

* `SpecsOK`: stored, cached and fetched specs are among those a User may have;
* `CacheOK`: a synced cache equals the store; a cached finalizer on a living User
  is still stored; a cached deletion is still going on, or nothing is left of the
  old User and nothing has been done for the new one (`DeletionKnown`);
* `CopyOK`: a current copy agrees with store and cache; past the finalizer step,
  and until a success is reported, the finalizer is stored; `DeletionKnown` for the
  copy of a deletion;
* `ProgressOK`: before position `i` the SQL user exists on every server
  (apply) or on none (delete), so at the end of the loop on all or on none.

The heart of the argument is that both writes at the end of a `Reconcile`, of
the status and of the removed finalizer, are accepted only for a current copy, so
what the loop established for the copy's spec holds of the stored spec; and that
`DROP USER` works for a stored User that is being deleted or finds nothing,
because `DeletionKnown` survives everything people can do. `AccountHeld` and
`ReadyBacked` are about `CoreServers(u)`, the servers that every spec of `u`
names: an entry removed from the spec leaves its SQL user behind (a TODO in
the repository's README), so nothing more can be true under edits. Without edits
every server of the spec is one of them.

### The refinement

Under the mapping of `LifecycleRefinement`, `ApplyUser` is `Create`, `DeleteUser`
`RequestDeletion`, an accepted `AddFinalizer` `Hold`, an executed `CREATE USER`
`AddRole`, an executed `DROP USER` of an existing account `DropRole`, an accepted
`SetStatus` `Report`, an accepted `RemoveFinalizer` `Release`, and everything else
leaves the four mapped variables as they are. The guards of the abstract actions
are what `Inductive` says before or after the step: `AddRole` needs `CopyOK` (the
finalizer is stored while an apply runs), `DropRole` needs `DeletionKnown`,
`Report` needs `CopyOK` and `ReadyBacked` after the write, `Create` and
`RequestDeletion` of a User without finalizer need `AccountHeld`, and so does
`Release`, after the write. `CopyOK` says for this proof that the finalizer is
still stored when a success is about to be reported.

### Privileges

`ReadyGranted` needs to know how far the worker is (`GrantInductive`):

* `Collected`: `w.privs` holds every entry of the Privileges resources read so far,
  and of all of them once the connection is open;
* `Applied`: the entries before position `j` are granted;
* `Reached`: everything is granted for the databases before position `i`;
* `Reported`: when a success is about to be written, for all of them;
* `Granted`: for every database of the spec of a ready User.

`GRANT` that answers ok has taken effect; nothing but the loop of a deletion takes
privileges away, from its own User only, and by `DeletionKnown` that User is not
ready. The hypotheses are all needed: TLC finds `ReadyGranted` violated with each of
`"edit"`, `"privileges"` and `"targets"` in `Env`, since a status that was ready
stays so when what it should mean changes. Failures, crashes, and Databases,
Privileges and Secrets that disappear and return are allowed.

### Secrets

`SecretInductive` adds to `SecretHeld` that caches and copies which show a finalizer
have the spec of the stored User, if that has the finalizer too (`RefsKept`); that a
Secret made for a User is one its stored spec names (`SecretNamed`); and that the
loop of a deletion has left no Secret of its User behind before position `i`
(`SecretProgress`). So the finalizer goes with none left. Both hypotheses are
needed: the outcome of the deferred `r.Delete` is ignored, so one failure leaks the
Secret, and an edit of `createdSecret` leaves the Secret of the old name. Again
TLC shows a violation with either.

### Certificate files

`FilesInductive` adds to `FilesFresh` what the connections are (`ConnectionsOK`),
that files lie only under names in use or left behind (`NamesOK`), and `FilesAgree`
also while a copy is open, unless the copy has the files of the connection itself
(`AgreeOK`). `Connect` writes every file its Config names, so whatever was left under
the name does not matter.

The inductive invariants of the proof modules were checked by TLC before they were
proved, on the instances of the runs `live` (`GrantInductive`), `two_users`
(`SecretInductive`) and `connections` (`FilesInductive`); `Inductive` is part of run
`edit`.

### Statements

The state part is small: `Built` says that the text, once it is there, is what the
operation of the call builds. The rest is about texts of every length, and so needs
induction over sequences. The induction theorems of the library take a predicate as a
parameter, which the provers can not instantiate; `SequenceInduction` therefore
states induction with a *set* in its place (a set that holds the empty sequence and,
with each sequence, that sequence and one more element, holds all sequences) and
proves it from the least element of a non-empty set of numbers. Every proof by
induction defines the set of the texts for which the claim holds. The module
also shows that the recursive functions of `Split`, `Scan` and `FlattenSeq` exist
and satisfy their equations (`RecursionExists`, `Agreement`).

On this rest the laws of the operators, each for a text with one more character or
a list with one more part: `ReplacedAppend`, `SplitAppend`, `JoinAppend`,
`ScanAppend`. Then

* What is read: text whose quotes are doubled, between two quotes, is read as one
  token, which holds the text (`ScanQuotedText`), because two quotes inside are read
  as one (`ScanDoubled`) and the last one closes it. So a part of a name is read as
  spelled (`ScanPart`; only `*` is `*` after doubling, `DoubledStar`), and so is the
  name (`ScanName`), by induction over its parts. `CreateScan` and `DropScan` give the
  tokens of the two statements, and say that a NUL comes from the password only
  (`NameNul`, `StringNul`).
* What is kept: truncation works token by token (`ShortenConcat`), changes quoted
  names only, and leaves keywords and strings (`ShortenedWord`, `ShortenedQuoted`).
* `UserReadsBack` (`UserStatement`): a name without a dot is one token, `*`, empty or
  a quoted name; one with dots has a dot for its second token (`SplitDots`,
  `SpelledWords`), where the grammar has the password or the end. Going through these
  cases, the statement is accepted exactly for role names, and the second token is
  then the truncated name.
* `NamesApart` follows: the role of either statement is the truncated name, and names
  without a NUL are not changed before (`CleanPlain`).
* `PrivilegeReadsBack`: splitting and joining cancel out, so
  `escapeLiteralWithoutQuotes` treats each character by itself
  (`WithoutQuotesAppend`): it leaves out `;` and NUL, doubles a quote and keeps the
  rest. Behind each character the scanner is outside of quotes or just behind one,
  and no token is an end of statement (`Quiet`, `ScanPrivilege`), nor becomes one when
  identifiers are cut (`CalmShortened`); the object and the user follow as in the
  other statements.

### Only model-checked

All liveness (`Settles`, `DeletionCompletes`): fairness is out of the prover's
reach. Every safety property of a passing run has a theorem.

## Not modelled

Generated deep copies, scheme registration, test doubles, manifests and examples
have no behaviour of the operator in them. Left out of the rest: the cryptography
of certificates and their expiry after a year (there is no time in the model); the
connection strings beyond the files they name; edits of Database resources; roles
that two Users share because PostgreSQL cuts their names; the password a role has, and with
it that a changed password Secret is not followed; the statement text of MySQL
beyond the server's verdict on it. Two active managers do not occur with
`--leader-elect`, which the manifests pass; a hand-over is a `Crash`.

## Plan

Done: inventory; the controller with its surroundings, its safety and liveness
runs; the abstract specification and the refinement; connections and certificate
files; statement text; liveness under resources that disappear and return; proofs
of all safety properties of the controller, the connections and the statement text,
and of the refinement.

Left: how much of `ReadyHasSecret` is true when no call fails, `createdSecret` names
are not shared, people leave these Secrets alone and the cache has caught up before a
User is created again; and lemmas about `PrivilegeKind` and the error mappings that
say when a repeated statement ends as a success.
