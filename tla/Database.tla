------------------------------- MODULE Database -------------------------------
(***************************************************************************)
(* The database.Database interface (pkg/database): every operation is      *)
(* dispatched on the type of the Database resource.                        *)
(***************************************************************************)
EXTENDS Postgresql, Mysql

isPostgres(d) == Conf[d].type = "PostgreSQL"

(* Answers of the server to the statement of an operation.  GRANT and      *)
(* REVOKE of an entry are answered alike.                                  *)
CreateVerdict(d, has, files) ==
  IF isPostgres(d) THEN PgOnConnection(d, files, PgCreateVerdict(has))
                   ELSE MyCreateVerdict(has)

DropVerdict(d, has, held, files) ==
  IF isPostgres(d) THEN PgOnConnection(d, files, PgDropVerdict(has, held))
                   ELSE MyDropVerdict(has)

PgStatementVerdict(d, has, p, targets, files) ==
  IF PrivilegeKind(p) \in {"inDatabase", "unsupported"}
  THEN PgPrivilegeVerdict(has, p, targets)
  ELSE PgOnConnection(d, files, PgPrivilegeVerdict(has, p, targets))

PrivilegeVerdict(d, has, p, targets, files) ==
  IF isPostgres(d) THEN PgStatementVerdict(d, has, p, targets, files)
                   ELSE MyPrivilegeVerdict(d, has, p, targets)

(* What the operations return to the controller. *)
CreateUserError(d, err, ca) ==
  IF isPostgres(d) THEN PgCreateUserError(d, err, ca) ELSE err

CreateUserData(d, err) == isPostgres(d) /\ PgCreateUserData(d, err)

(* Mutants: a failed DROP USER is only logged; 2BP01 is ignored as well. *)
DeleteUserLogged(d, err) == "ok"

DeleteUserInUse(d, err) ==
  IF isPostgres(d) /\ err \in {Undefined, InUse} THEN "ok" ELSE err

DeleteUserError(d, err) == IF isPostgres(d) THEN ignoreNotExists(err) ELSE err

(* RevokePrivileges ends at the first error; PostgreSQL then reports        *)
(* undefined_object as success.                                            *)
RevokeError(d, err) == IF isPostgres(d) THEN ignoreNotExists(err) ELSE err

FilesAfter(d, p, files) == isPostgres(d) /\ PgFilesAfter(d, p, files)
===============================================================================
