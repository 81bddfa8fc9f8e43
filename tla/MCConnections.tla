----------------------------- MODULE MCConnections -----------------------------
(***************************************************************************)
(* Two Databases on different ports of one host: their files have the same *)
(* names.  A third one does without certificates.                          *)
(***************************************************************************)
EXTENDS Connections, TLC

MCConf ==
  LET pg == [type |-> "PostgreSQL", server |-> "s1", ssl |-> TRUE,
             database |-> "home", host |-> "", inputs |-> {}]
  IN  "d1" :> pg @@ "d2" :> [pg EXCEPT !.server = "s2"]
        @@ "d3" :> [pg EXCEPT !.ssl = FALSE, !.database = "app"]

MCEndpoint == [d \in Databases |-> "h"]

(* Entries on tables of the database of the connection and of another one. *)
MCPrivSpecs ==
  {[privilege |-> "SELECT", on |-> "t", database |-> "home"],
   [privilege |-> "SELECT", on |-> "t", database |-> "app"]}

(* Certificates before and after a rotation, and without that of the CA. *)
MCBundles ==
  {[ca |-> "a", crt |-> "a", key |-> "a"],
   [ca |-> "b", crt |-> "b", key |-> "b"],
   [ca |-> "", crt |-> "b", key |-> "b"]}

NoSpecs == [u \in Users |-> {}]
================================================================================
