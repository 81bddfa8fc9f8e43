--------------------------- MODULE MCUserController ---------------------------
(***************************************************************************)
(* Values for the constants of UserController, chosen by the .cfg files.   *)
(***************************************************************************)
EXTENDS LifecycleRefinement, TLC

(* Privileges: membership of a role, a table of another database than the  *)
(* one the operator connects to, and a table of that one.                  *)
roleP  == [privilege |-> "role", on |-> "", database |-> ""]
tableP == [privilege |-> "SELECT", on |-> "t", database |-> "app"]
homeP  == [privilege |-> "SELECT", on |-> "t", database |-> "home"]
emptyP == [privilege |-> "", on |-> "", database |-> "app"]
RoleOnly     == {roleP}
TableAndRole == {tableP, roleP}
HomeAndRole  == {homeP, roleP}
Entries      == {tableP, emptyP}

(* Database resources: PostgreSQL with and without certificates, MySQL. *)
pg == [type |-> "PostgreSQL", server |-> "s1", ssl |-> FALSE,
       database |-> "home", host |-> "", inputs |-> {}]
my == [type |-> "MySQL", server |-> "s2", ssl |-> FALSE, database |-> "home",
       host |-> "%", inputs |-> {}]

SslConf   == "d1" :> [pg EXCEPT !.ssl = TRUE]
InputConf == "d1" :> [pg EXCEPT !.ssl = TRUE, !.inputs = {"pw"}]
MyConf    == "d1" :> my
MixedConf == SslConf @@ "d2" :> my

(* Entries of spec.databases. *)
ref(d, secret) ==
  [name |-> d, password |-> "none", created |-> secret, privileges |-> <<"p">>]

OneSpec      == "u1" :> {<<ref("d1", "c1")>>}
TwoUserSpec  == OneSpec @@ "u2" :> {<<ref("d1", "c1")>>, <<ref("d1", "c2")>>}
EditSpecs    ==
  LET plain == [ref("d1", "c1") EXCEPT !.privileges = <<>>]
  IN  "u1" :> {<<plain, ref("d2", "none")>>, <<ref("d2", "none")>>}
PasswordSpec == "u1" :> {<<[ref("d1", "c1") EXCEPT !.password = "pw"]>>}

(* What the Privileges resource p may list. *)
NoLists    == "p" :> {<<>>}
RoleList   == "p" :> {<<roleP>>}
PairList   == "p" :> {<<tableP, roleP>>}
HomeList   == "p" :> {<<homeP, roleP>>}
RoleOrNone == "p" :> {<<roleP>>, <<>>}
TableOrNone == "p" :> {<<tableP>>, <<>>}
EntryLists == "p" :> {<<tableP>>, <<emptyP>>, <<>>}
===============================================================================
