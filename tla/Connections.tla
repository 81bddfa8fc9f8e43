------------------------------ MODULE Connections ------------------------------
(***************************************************************************)
(* The connections to PostgreSQL that visits of databaseReconciler open    *)
(* one after the other, and the certificate files they leave on disk       *)
(* (pkg/database/postgresql/config.go, newPostgresql, inDatabasePrivilege).*)
(*                                                                         *)
(* The driver reads the files at each statement, UserController only knows *)
(* whether they are there (w.files).  Here are the files themselves: their *)
(* names, their contents, and what failed connects leave behind.           *)
(***************************************************************************)
EXTENDS Postgresql

CONSTANTS
  Endpoint,  \* [Databases -> ...], host and user of each Database
  Bundles    \* the certificates a Secret may hold: [Kinds -> text or ""]

VARIABLES
  secret,    \* the bundle in the Secret of each Database
  disk,      \* the content of each file
  main,      \* the connection of the visit: its Config, and what it is at
  copy,      \* the entry inDatabasePrivilege is at, if any
  files,     \* what UserController knows (history)
  left       \* names whose last connection did not end by Close (history)

vars == <<secret, disk, main, copy, files, left>>

(* The three files of a Config, in the order ConnString writes them. *)
Order == <<"ca", "crt", "key">>
Kinds == {"ca", "crt", "key"}

(* "none" is a file that is not there.  A Secret that a Database with a     *)
(* strict SSL mode refers to holds at least one of the three.              *)
ASSUME ConnectionAssumption ==
  \A b \in Bundles : /\ \A k \in Kinds : b[k] # "none"
                     /\ \E k \in Kinds : b[k] # ""

NoBundle == [k \in Kinds |-> ""]
NoFiles  == [k \in Kinds |-> "none"]

(* Files are named after host, user and database; the port is not in it. *)
FileNames ==
  {Endpoint[d] : d \in Databases} \X
    ({Conf[d].database : d \in Databases} \cup {p.database : p \in PrivSpecs})

NewConfig(d, dbname, bundle) ==
  [at |-> "open", d |-> d, dbname |-> dbname, bundle |-> bundle]

Closed == [at |-> "closed"]
NoCopy == [at |-> "closed"]

Name(c)  == <<Endpoint[c.d], c.dbname>>
Named(c) == {k \in Kinds : c.bundle[k] # ""}

(* newPostgresql reads the Secret only for the strict SSL modes. *)
BundleOf(d) == IF Conf[d].ssl THEN secret[d] ELSE NoBundle

Copy(c, dbname) == [c EXCEPT !.dbname = dbname]

-------------------------------------------------------------------------------
(* Mutant: a file that exists is not written again. *)
createCertFileOnce(old, data) == IF old = "none" THEN data ELSE old

createCertFile(old, data) == data

(* The first n files of ConnString are written. *)
Written(c, n) ==
  LET done == Named(c) \cap {Order[i] : i \in 1..n}
  IN  [k \in Kinds |-> IF k \in done THEN createCertFile(disk[Name(c)][k], c.bundle[k])
                                     ELSE disk[Name(c)][k]]

(* Connect: either all is well, or the driver or the server refuses, or a  *)
(* file can not be written.  Such a file is as it was, or incomplete.      *)
Connected(c) == disk' = [disk EXCEPT ![Name(c)] = Written(c, 3)]

ConnectFailed(c) ==
  \/ Connected(c)
  \/ \E n \in 0..2 :
       /\ Order[n + 1] \in Named(c)
       /\ \E bad \in {disk[Name(c)][Order[n + 1]], "partial"} :
            disk' = [disk EXCEPT ![Name(c)] =
                       [Written(c, n) EXCEPT ![Order[n + 1]] = bad]]

(* Mutant: the CA certificate is forgotten. *)
ConfigCloseKeepsCA(c) ==
  disk' = [disk EXCEPT ![Name(c)] = [NoFiles EXCEPT !.ca = disk[Name(c)].ca]]

(* Config.Close removes the three files, whichever of them were written. *)
ConfigClose(c) == disk' = [disk EXCEPT ![Name(c)] = NoFiles]

-------------------------------------------------------------------------------
(* newPostgresql.  After an error there is no connection to close. *)
Open(d) ==
  /\ main.at = "closed"
  /\ LET c == NewConfig(d, Conf[d].database, BundleOf(d))
     IN  \/ /\ Connected(c)
            /\ main' = c
            /\ files' = CertFiles(d)
            /\ UNCHANGED left
         \/ /\ ConnectFailed(c)
            /\ left' = left \cup {Name(c)}
            /\ UNCHANGED <<main, files>>
  /\ UNCHANGED <<secret, copy>>

(* inDatabasePrivilege: a second connection with a copy of the Config.  An *)
(* error ends the list of privileges and the visit.                        *)
OpenCopy(p) ==
  /\ main.at = "open"
  /\ copy.at = "closed"
  /\ PrivilegeKind(p) = "inDatabase"
  /\ LET c == Copy(main, p.database)
     IN  \/ /\ Connected(c)
            /\ copy' = [at |-> "open", entry |-> p]
            /\ UNCHANGED <<main, left>>
         \/ /\ ConnectFailed(c)
            /\ left' = left \cup {Name(c)}
            /\ main' = [main EXCEPT !.at = "returning"]
            /\ UNCHANGED copy
  /\ UNCHANGED <<secret, files>>

(* The statement is executed and the deferred Close runs.  The visit goes  *)
(* on, also after an error that RevokePrivileges ignores, or ends.         *)
CloseCopy ==
  /\ copy.at = "open"
  /\ LET c == Copy(main, copy.entry.database)
     IN  /\ ConfigClose(c)
         /\ left' = left \ {Name(c)}
  /\ files' = PgFilesAfter(main.d, copy.entry, files)
  /\ copy' = NoCopy
  /\ \E at \in {"open", "returning"} : main' = [main EXCEPT !.at = at]
  /\ UNCHANGED secret

(* Statements on the connection itself leave the files alone.  After the   *)
(* last one, or a failed one, the visit returns, and the deferred          *)
(* db.Close runs.                                                          *)
Finish ==
  /\ main.at = "open"
  /\ copy.at = "closed"
  /\ main' = [main EXCEPT !.at = "returning"]
  /\ UNCHANGED <<secret, disk, copy, files, left>>

Close ==
  /\ main.at = "returning"
  /\ ConfigClose(main)
  /\ left' = left \ {Name(main)}
  /\ main' = Closed
  /\ UNCHANGED <<secret, copy, files>>

(* The Configs whose files a connection has written and not removed yet. *)
InUseConfigs ==
  IF main.at = "closed" THEN {}
  ELSE IF copy.at = "closed" THEN {main}
  ELSE {main, Copy(main, copy.entry.database)}

(* The process stops.  A restarted container has a new file system, a      *)
(* process started again on the same machine has the old one.              *)
Crash ==
  /\ \/ /\ disk' = [n \in FileNames |-> NoFiles]
        /\ left' = {}
     \/ /\ left' = left \cup {Name(c) : c \in InUseConfigs}
        /\ UNCHANGED disk
  /\ main' = Closed
  /\ copy' = NoCopy
  /\ UNCHANGED <<secret, files>>

(* People renew the certificates in the Secret of a Database. *)
Rotate(d) ==
  /\ \E b \in Bundles : secret' = [secret EXCEPT ![d] = b]
  /\ UNCHANGED <<disk, main, copy, files, left>>

Init ==
  /\ secret \in [Databases -> Bundles]
  /\ disk = [n \in FileNames |-> NoFiles]
  /\ main = Closed
  /\ copy = NoCopy
  /\ files = FALSE
  /\ left = {}

Next ==
  \/ \E d \in Databases : Open(d) \/ Rotate(d)
  \/ \E p \in PrivSpecs : OpenCopy(p)
  \/ CloseCopy \/ Finish \/ Close \/ Crash

Spec == Init /\ [][Next]_vars

-------------------------------------------------------------------------------
(***************************************************************************)
(* Properties.                                                             *)
(***************************************************************************)
Fresh(c) ==
  \A k \in Named(c) : disk[Name(c)][k] \in {"none", c.bundle[k]}

(* A statement never authenticates with the certificates of another        *)
(* Database, of an earlier rotation or of a half-written file: the files   *)
(* an open connection names hold what its Config was made with, or are     *)
(* gone, whatever earlier visits and crashes left on disk.                 *)
FilesFresh ==
  main.at = "open" =>
    /\ Fresh(main)
    /\ copy.at = "open" => Fresh(Copy(main, copy.entry.database))

(* Between two visits the disk holds no certificate or key except under    *)
(* names whose last connection failed to open or was cut off: one set of   *)
(* files per name, gone with the next visit that connects.                 *)
LeftoversOwned ==
  main.at = "closed" => \A n \in FileNames \ left : disk[n] = NoFiles

(* What UserController keeps of all this is right: its w.files says        *)
(* whether the next statement on the connection finds its files.           *)
FilesAgree ==
  main.at = "open" /\ copy.at = "closed" /\ Conf[main.d].ssl =>
    (files <=> \A k \in Named(main) : disk[Name(main)][k] # "none")
================================================================================
