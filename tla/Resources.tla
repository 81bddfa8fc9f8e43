------------------------------ MODULE Resources ------------------------------
(***************************************************************************)
(* The objects of the API group databaseusersoperator.com/v1alpha1 and the *)
(* Secrets they refer to, as the operator sees them.  Names are members of *)
(* the constant sets below; an empty string or an empty NamespacedName in  *)
(* the source is "" or NoSecret here.                                      *)
(***************************************************************************)
EXTENDS Naturals, Sequences

CONSTANTS
  Users,        \* names of User resources, which are also the SQL user names
  Databases,    \* names of Database resources
  PrivNames,    \* names of Privileges resources
  SecretNames,  \* namespaced names of Secrets
  NoSecret,     \* an empty reference to a Secret
  Servers,      \* the SQL servers; for MySQL one per (server, users' hostname)
  PrivSpecs,    \* the entries a Privileges resource may list
  Conf,         \* [Databases -> DatabaseSpec], what each Database describes
  Specs         \* [Users -> SUBSET Seq(DatabaseRef)], specs a User may be given

(* One entry of a Privileges resource; "" is an omitted field. *)
PrivilegeSpec == [privilege : STRING, on : STRING, database : STRING]

(* Where a Database resource points: ssl says that sslMode is require or   *)
(* stricter and that the credentials hold a certificate and a key, inputs  *)
(* are the Secrets the operator reads before it can connect.               *)
DatabaseSpec ==
  [type     : {"PostgreSQL", "MySQL"},
   server   : Servers,
   ssl      : BOOLEAN,
   database : STRING,
   host     : STRING,
   inputs   : SUBSET SecretNames]

(* One entry of User.spec.databases. *)
DatabaseRef ==
  [name       : Databases,
   password   : SecretNames \cup {NoSecret},
   created    : SecretNames \cup {NoSecret},
   privileges : Seq(PrivNames)]

(* What a call returns: "ok" or the kind of its error.  The numbers are    *)
(* codes of PostgreSQL and MySQL.                                          *)
Errors ==
  {"ok", "io", "NotFound", "Conflict", "AlreadyExists", "Invalid", "secret",
   "connect", "nofile", "unsupported", "certificate", "panic",
   "42710", "42704", "2BP01", "42P01", "3D000",
   "1396", "1064", "unknownAccount", "rejected"}

(* A status message: the kind of error, the position of the database in    *)
(* spec.databases and the position of the privilege it was raised at.  Two *)
(* failures with the same three render as the same text.                   *)
Message == [text : Errors \cup {"", "success"}, database : Nat, privilege : Nat]

NoMessage  == [text |-> "", database |-> 0, privilege |-> 0]
SuccessMsg == [text |-> "success", database |-> 0, privilege |-> 0]

StatusSummary == [ready : BOOLEAN, message : Message]

NoStatus      == [ready |-> FALSE, message |-> NoMessage]
SuccessStatus == [ready |-> TRUE,  message |-> SuccessMsg]

(* A User resource.  deleting: it has a deletionTimestamp; finalizer: it   *)
(* carries user.databaseusersoperator.com/finalizer.                       *)
User ==
  [exists    : BOOLEAN,
   deleting  : BOOLEAN,
   finalizer : BOOLEAN,
   status    : StatusSummary,
   refs      : Seq(DatabaseRef)]

(* No User of that name is stored. *)
Gone ==
  [exists |-> FALSE, deleting |-> FALSE, finalizer |-> FALSE,
   status |-> NoStatus, refs |-> <<>>]

(* A User as kubectl creates it. *)
NewUser(refs) ==
  [exists |-> TRUE, deleting |-> FALSE, finalizer |-> FALSE,
   status |-> NoStatus, refs |-> refs]

(* A Secret is absent, supplied by a person (with or without the key that  *)
(* a reference names), or created by the operator for a User.              *)
SecretState == {"absent", "supplied", "nokey"} \cup Users

(* A Privileges resource and its list. *)
Privileges == [exists : BOOLEAN, list : Seq(PrivSpecs)]

ASSUME ResourceAssumption ==
  /\ Users \cap {"absent", "supplied", "nokey"} = {}
  /\ NoSecret \notin SecretNames
  /\ PrivSpecs \subseteq PrivilegeSpec
  /\ Conf \in [Databases -> DatabaseSpec]
  /\ Specs \in [Users -> SUBSET Seq(DatabaseRef)]

(* The server a reference leads to. *)
ServerOf(ref) == Conf[ref.name].server

(* The servers that every spec a User may be given leads to: the ones an   *)
(* edit of spec.databases can not take the User away from.                 *)
CoreServers(u) ==
  {s \in Servers :
     \A refs \in Specs[u] : \E n \in 1..Len(refs) : ServerOf(refs[n]) = s}
==============================================================================
