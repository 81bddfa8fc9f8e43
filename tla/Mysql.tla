-------------------------------- MODULE Mysql --------------------------------
(***************************************************************************)
(* The MySQL implementation of database.Database (pkg/database/mysql).  It *)
(* returns every error of the server as it is.                             *)
(***************************************************************************)
EXTENDS Resources

CannotUser == "1396"   \* Operation CREATE USER / DROP USER failed

(* CREATE USER ?@? names the account user@UsersHostname. *)
UsersHostname(d) == IF Conf[d].host = "" THEN "*" ELSE Conf[d].host

MyCreateVerdict(has) == IF has THEN CannotUser ELSE "ok"
MyDropVerdict(has)   == IF has THEN "ok" ELSE CannotUser

(* The statement of one entry.  The driver writes its arguments as quoted  *)
(* strings.  MySQL takes a quoted role, but not a quoted database or table *)
(* after ON; it reads the user, given without a host, as user@%, which may *)
(* not be the account CREATE USER made; and it may not know the role.      *)
MyPrivilegeVerdict(d, has, p, targets) ==
  CASE p.database # ""                                      -> "1064"
    [] p.database = "" /\ (UsersHostname(d) # "%" \/ ~has) -> "unknownAccount"
    [] p.database = "" /\ UsersHostname(d) = "%" /\ has /\ p \notin targets
                                                            -> "rejected"
    [] OTHER                                                -> "ok"
==============================================================================
