------------------------------ MODULE Postgresql ------------------------------
(***************************************************************************)
(* The PostgreSQL implementation of database.Database                      *)
(* (pkg/database/postgresql): which statements it executes for a call and  *)
(* how it reads the server's answer.  A verdict is "ok" or the SQLSTATE    *)
(* the statement ends with.  has says whether the role exists, held is the *)
(* set of privileges it holds, targets the privileges whose role, table or *)
(* database exists on the server.                                          *)
(***************************************************************************)
EXTENDS Resources

Exists    == "42710"   \* duplicate_object
Undefined == "42704"   \* undefined_object
InUse     == "2BP01"   \* dependent_objects_still_exist

isAlreadyExists(err) == err = Exists
isNotExists(err)     == err = Undefined

(* Mutant: nothing is ignored. *)
ignoreNothing(err) == err

ignoreAlreadyExists(err) == IF isAlreadyExists(err) THEN "ok" ELSE err
ignoreNotExists(err)     == IF isNotExists(err) THEN "ok" ELSE err

(* The switch of privilegesProcessor over the fields an entry sets. *)
PrivilegeKind(p) ==
  CASE p.database # "" /\ p.on # "" /\ p.privilege # "" -> "inDatabase"
    [] p.database # "" /\ p.on = "" /\ p.privilege # "" -> "database"
    [] p.database = "" /\ p.privilege # ""              -> "role"
    [] OTHER                                            -> "unsupported"

(* An entry on a table or a database makes the role undroppable while it   *)
(* holds it; a role membership does not.                                   *)
PgDependent(held) ==
  \E p \in held : PrivilegeKind(p) \in {"inDatabase", "database"}

(* CREATE USER, DROP USER, and GRANT or REVOKE of one entry. *)
PgCreateVerdict(has) == IF has THEN Exists ELSE "ok"

PgDropVerdict(has, held) ==
  CASE ~has                       -> Undefined
    [] has /\ PgDependent(held)   -> InUse
    [] OTHER                      -> "ok"

PgPrivilegeVerdict(has, p, targets) ==
  LET kind == PrivilegeKind(p)
  IN  CASE kind = "unsupported"                       -> "unsupported"
        [] kind = "inDatabase" /\ p \notin targets -> "42P01"
        [] kind = "database" /\ p \notin targets   -> "3D000"
        [] kind = "role" /\ p \notin targets       -> Undefined
        [] OTHER -> IF has THEN "ok" ELSE Undefined

(* sqlx keeps no idle connection, so every statement on the connection of  *)
(* the Database opens a new one and reads the certificate files again;     *)
(* statements inside another database use a connection of their own.       *)
PgOnConnection(d, files, verdict) ==
  IF Conf[d].ssl /\ ~files THEN "nofile" ELSE verdict

(* Mutant: the copy is taken to have files of its own. *)
PgFilesKept(d, p, files) == files

(* inDatabasePrivilege connects with a copy of the Config.  The copy's     *)
(* files are named after host, database and user: when the entry names the *)
(* database of the Config itself they are the same files, and closing the  *)
(* copy removes them.                                                      *)
PgFilesAfter(d, p, files) ==
  /\ files
  /\ ~(PrivilegeKind(p) = "inDatabase" /\ p.database = Conf[d].database)

(* ConnString writes the certificates of the Config to these files. *)
CertFiles(d) == Conf[d].ssl

(* The certificate of a user is signed with the CA key; a key that is not  *)
(* PEM makes the function dereference a nil block.                         *)
genPostgresCertFromCA(ca) ==
  CASE ca = "valid"      -> "ok"
    [] ca = "unparsable" -> "certificate"
    [] OTHER             -> "panic"

(* What CreateUser returns for the answer err of CREATE USER: its error,   *)
(* and whether it returns a certificate bundle.                            *)
PgGeneratesCert(d, err) == Conf[d].ssl /\ ~isAlreadyExists(err)

PgCreateUserError(d, err, ca) ==
  IF PgGeneratesCert(d, err) /\ genPostgresCertFromCA(ca) # "ok"
  THEN genPostgresCertFromCA(ca)
  ELSE ignoreAlreadyExists(err)

PgCreateUserData(d, err) == PgGeneratesCert(d, err)
===============================================================================
