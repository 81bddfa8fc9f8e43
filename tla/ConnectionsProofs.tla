--------------------------- MODULE ConnectionsProofs ---------------------------
(***************************************************************************)
(* The properties of the certificate files, for every set of Databases,    *)
(* endpoints, privileges and certificates.  They need to know, at every    *)
(* moment, which names are in use, and that an open connection was the     *)
(* last to write the files under its name.                                 *)
(***************************************************************************)
EXTENDS Connections, TLAPS

DbNames  == {Conf[d].database : d \in Databases} \cup {p.database : p \in PrivSpecs}
Contents == {"none", "partial"} \cup UNION {{b[k] : k \in Kinds} : b \in Bundles}

Config ==
  [at : {"open", "returning"}, d : Databases, dbname : DbNames,
   bundle : Bundles \cup {NoBundle}]

(* The connections are those a visit opens: one for the database of its    *)
(* Config, with the certificates of the Secret for a strict SSL mode and   *)
(* none otherwise, and one for an entry on a table while that is open.     *)
ConnectionsOK ==
  /\ secret \in [Databases -> Bundles]
  /\ disk \in [FileNames -> [Kinds -> Contents]]
  /\ files \in BOOLEAN
  /\ \/ main = Closed
     \/ /\ main \in Config
        /\ main.dbname = Conf[main.d].database
        /\ Conf[main.d].ssl => main.bundle \in Bundles
  /\ \/ copy = NoCopy
     \/ /\ copy \in [at : {"open"}, entry : PrivSpecs]
        /\ PrivilegeKind(copy.entry) = "inDatabase"
        /\ main.at = "open"

(* Files lie only under names that are in use or were left. *)
NamesOK ==
  \A n \in FileNames :
    n \notin left /\ n \notin {Name(c) : c \in InUseConfigs} => disk[n] = NoFiles

(* FilesAgree, and the same while the copy of a connection is open, unless *)
(* it has the files of the connection itself.                              *)
Shares == copy.at = "open" /\ copy.entry.database = main.dbname

AgreeOK ==
  main.at = "open" /\ Conf[main.d].ssl /\ ~Shares =>
    (files <=> \A k \in Named(main) : disk[Name(main)][k] # "none")

FilesInductive == ConnectionsOK /\ NamesOK /\ FilesFresh /\ AgreeOK

-------------------------------------------------------------------------------
(* Databases are described, and every connection has a file name. *)
LEMMA ConfigName ==
  ASSUME NEW c \in Config
  PROVE  Name(c) \in FileNames /\ Name(c) = <<Endpoint[c.d], c.dbname>>
  BY DEF Config, Name, FileNames, DbNames

(* A copy differs from its Config in the database only. *)
LEMMA CopyFact ==
  ASSUME NEW c \in Config, NEW dbname \in DbNames
  PROVE  /\ Copy(c, dbname) \in Config
         /\ Copy(c, dbname).bundle = c.bundle
         /\ Named(Copy(c, dbname)) = Named(c)
         /\ Name(Copy(c, dbname)) = <<Endpoint[c.d], dbname>>
         /\ dbname = c.dbname => Name(Copy(c, dbname)) = Name(c)
         /\ dbname # c.dbname => Name(Copy(c, dbname)) # Name(c)
  BY DEF Config, Copy, Name, Named

(* The first n files written leave the rest of the disk alone. *)
LEMMA WrittenFact ==
  ASSUME ConnectionsOK, NEW c \in Config, NEW n \in 0..3
  PROVE  /\ Written(c, n) \in [Kinds -> Contents]
         /\ n = 3 => \A k \in Named(c) : Written(c, n)[k] = c.bundle[k]
<1>1. disk[Name(c)] \in [Kinds -> Contents]
  BY ConfigName DEF ConnectionsOK
<1>2. \A k \in Named(c) : k \in Kinds /\ c.bundle[k] \in Contents
  <2>1. SUFFICES ASSUME NEW k \in Named(c)
                 PROVE  k \in Kinds /\ c.bundle[k] \in Contents
    OBVIOUS
  <2>2. k \in Kinds /\ c.bundle[k] # ""
    BY DEF Named
  <2>3. c.bundle \in Bundles
    <3>1. c.bundle \in Bundles \cup {NoBundle}
      BY DEF Config
    <3>2. NoBundle[k] = ""
      BY <2>2 DEF NoBundle
    <3>3. QED
      BY <2>2, <3>1, <3>2
  <2>4. c.bundle[k] \in UNION {{b[x] : x \in Kinds} : b \in Bundles}
    <3>1. c.bundle[k] \in {c.bundle[x] : x \in Kinds}
      BY <2>2
    <3>2. QED
      BY <2>3, <3>1
  <2>5. QED
    BY <2>2, <2>4 DEF Contents
<1>3. {Order[i] : i \in 1..3} = Kinds
  <2>1. 1..3 = {1, 2, 3}
    OBVIOUS
  <2>2. QED
    BY <2>1 DEF Order, Kinds
<1>4. QED
  BY <1>1, <1>2, <1>3 DEF Written, createCertFile, Named

(* A Connect that succeeds has written every file its Config names, and    *)
(* nothing under any other name.                                           *)
LEMMA ConnectedFact ==
  ASSUME ConnectionsOK, NEW c \in Config, Connected(c)
  PROVE  /\ disk' \in [FileNames -> [Kinds -> Contents]]
         /\ \A n \in FileNames : n # Name(c) => disk'[n] = disk[n]
         /\ \A k \in Named(c) : disk'[Name(c)][k] = c.bundle[k]
<1>1. /\ Written(c, 3) \in [Kinds -> Contents]
      /\ \A k \in Named(c) : Written(c, 3)[k] = c.bundle[k]
  BY WrittenFact
<1>2. Name(c) \in FileNames
  BY ConfigName
<1>3. QED
  BY <1>1, <1>2 DEF Connected, ConnectionsOK

(* A Connect that fails may leave anything, but only under its name. *)
LEMMA ConnectFailedFact ==
  ASSUME ConnectionsOK, NEW c \in Config, ConnectFailed(c)
  PROVE  /\ disk' \in [FileNames -> [Kinds -> Contents]]
         /\ \A n \in FileNames : n # Name(c) => disk'[n] = disk[n]
<1>1. CASE Connected(c)
  BY <1>1, ConnectedFact
<1>2. CASE \E n \in 0..2 :
             /\ Order[n + 1] \in Named(c)
             /\ \E bad \in {disk[Name(c)][Order[n + 1]], "partial"} :
                  disk' = [disk EXCEPT ![Name(c)] =
                             [Written(c, n) EXCEPT ![Order[n + 1]] = bad]]
  <2>1. PICK n \in 0..2 :
          /\ Order[n + 1] \in Named(c)
          /\ \E bad \in {disk[Name(c)][Order[n + 1]], "partial"} :
               disk' = [disk EXCEPT ![Name(c)] =
                          [Written(c, n) EXCEPT ![Order[n + 1]] = bad]]
    BY <1>2
  <2>2. PICK k \in Kinds : k = Order[n + 1]
    BY <2>1 DEF Named
  <2>3. PICK bad \in {disk[Name(c)][k], "partial"} :
          disk' = [disk EXCEPT ![Name(c)] = [Written(c, n) EXCEPT ![k] = bad]]
    BY <2>1, <2>2
  <2>4. Name(c) \in FileNames /\ disk[Name(c)] \in [Kinds -> Contents]
    BY ConfigName DEF ConnectionsOK
  <2>5. bad \in Contents
    BY <2>2, <2>3, <2>4 DEF Contents
  <2>6. Written(c, n) \in [Kinds -> Contents]
    BY WrittenFact
  <2>7. [Written(c, n) EXCEPT ![k] = bad] \in [Kinds -> Contents]
    BY <2>5, <2>6
  <2>8. QED
    BY <2>3, <2>4, <2>7 DEF ConnectionsOK
<1>3. QED
  BY <1>1, <1>2 DEF ConnectFailed

(* Config.Close removes the files of its name and no other. *)
LEMMA ConfigCloseFact ==
  ASSUME ConnectionsOK, NEW c \in Config, ConfigClose(c)
  PROVE  /\ disk' \in [FileNames -> [Kinds -> Contents]]
         /\ \A n \in FileNames : n # Name(c) => disk'[n] = disk[n]
         /\ disk'[Name(c)] = NoFiles
<1>1. Name(c) \in FileNames
  BY ConfigName
<1>2. NoFiles \in [Kinds -> Contents]
  BY DEF NoFiles, Contents
<1>3. QED
  BY <1>1, <1>2 DEF ConfigClose, ConnectionsOK

(* The names in use, by what is open. *)
LEMMA InUseFact ==
  /\ main.at = "closed" => {Name(c) : c \in InUseConfigs} = {}
  /\ main.at # "closed" /\ copy.at = "closed" =>
       {Name(c) : c \in InUseConfigs} = {Name(main)}
  /\ main.at # "closed" /\ copy.at # "closed" =>
       {Name(c) : c \in InUseConfigs} =
         {Name(main), Name(Copy(main, copy.entry.database))}
  BY DEF InUseConfigs

(* An open connection is a Config, and the copy beside it is one as well. *)
LEMMA OpenFact ==
  ASSUME ConnectionsOK
  PROVE  /\ main.at # "closed" => main \in Config
         /\ main.at \in {"closed", "open", "returning"}
         /\ copy.at \in {"closed", "open"}
         /\ copy.at = "open" =>
              main.at = "open" /\ copy.entry \in PrivSpecs /\ copy.entry.database \in DbNames
  BY DEF ConnectionsOK, Closed, NoCopy, Config, DbNames

(* The Config of a visit. *)
LEMMA NewConfigFact ==
  ASSUME ConnectionsOK, NEW d \in Databases
  PROVE  LET c == NewConfig(d, Conf[d].database, BundleOf(d))
         IN  /\ c \in Config /\ c.at = "open" /\ c.d = d
             /\ c.dbname = Conf[d].database
             /\ Conf[d].ssl => c.bundle \in Bundles
  BY DEF ConnectionsOK, NewConfig, BundleOf, Config, DbNames

(* A Config that moves on keeps what it says. *)
LEMMA MovedFact ==
  ASSUME NEW c \in Config, NEW at \in {"open", "returning"}
  PROVE  LET c2 == [c EXCEPT !.at = at]
         IN  /\ c2 \in Config /\ c2.at = at /\ c2.d = c.d /\ c2.dbname = c.dbname
             /\ c2.bundle = c.bundle
             /\ Name(c2) = Name(c) /\ Named(c2) = Named(c)
  BY DEF Config, Name, Named

(* Nothing is open and nothing is on disk at first. *)
LEMMA FilesInit ==
  ASSUME Init
  PROVE  FilesInductive
<1>1. main.at = "closed" /\ copy.at = "closed"
  BY DEF Init, Closed, NoCopy
<1>2. NoFiles \in [Kinds -> Contents]
  BY DEF NoFiles, Contents
<1>3. ConnectionsOK
  BY <1>2 DEF Init, ConnectionsOK
<1>4. NamesOK
  BY DEF Init, NamesOK
<1>5. QED
  BY <1>1, <1>3, <1>4 DEF FilesInductive, FilesFresh, AgreeOK

(* Opening the connection of a visit. *)
LEMMA OpenStep ==
  ASSUME FilesInductive, NEW d \in Databases, Open(d)
  PROVE  FilesInductive'
<1> DEFINE c == NewConfig(d, Conf[d].database, BundleOf(d))
<1>1. /\ ConnectionsOK /\ NamesOK /\ main.at = "closed" /\ copy.at = "closed"
      /\ copy = NoCopy
  BY DEF FilesInductive, Open, ConnectionsOK, NoCopy
<1>2. /\ c \in Config /\ c.at = "open" /\ c.d = d /\ c.dbname = Conf[d].database
      /\ Conf[d].ssl => c.bundle \in Bundles
  BY <1>1, NewConfigFact
<1>3. /\ secret' = secret /\ copy' = copy
      /\ \/ Connected(c) /\ main' = c /\ files' = CertFiles(d) /\ left' = left
         \/ ConnectFailed(c) /\ left' = left \cup {Name(c)} /\ main' = main /\ files' = files
  BY DEF Open
<1> HIDE DEF c
<1>4. Conf[d].ssl \in BOOLEAN
  BY ResourceAssumption DEF DatabaseSpec
<1>5. \A n \in FileNames : n \notin left => disk[n] = NoFiles
  BY <1>1, InUseFact DEF NamesOK
<1>6. CASE Connected(c) /\ main' = c /\ files' = CertFiles(d) /\ left' = left
  <2>1. /\ disk' \in [FileNames -> [Kinds -> Contents]]
        /\ \A n \in FileNames : n # Name(c) => disk'[n] = disk[n]
        /\ \A k \in Named(c) : disk'[Name(c)][k] = c.bundle[k]
    BY <1>1, <1>2, <1>6, ConnectedFact
  <2>2. ConnectionsOK'
    BY <1>1, <1>2, <1>3, <1>4, <1>6, <2>1 DEF ConnectionsOK, CertFiles
  <2>3. NamesOK'
    <3>1. {Name(x) : x \in InUseConfigs}' = {Name(c)}
      BY <1>1, <1>2, <1>3, <1>6 DEF InUseConfigs, Name
    <3>2. QED
      BY <1>5, <1>6, <2>1, <3>1 DEF NamesOK
  <2>4. FilesFresh'
    BY <1>1, <1>3, <1>6, <2>1 DEF FilesFresh, Fresh, Name, Named
  <2>5. AgreeOK'
    <3>1. CASE Conf[d].ssl
      <4>1. \A k \in Named(c) : c.bundle[k] # "none"
        BY <1>2, <3>1, ConnectionAssumption DEF Named
      <4>2. QED
        BY <1>6, <2>1, <3>1, <4>1 DEF AgreeOK, CertFiles, Named, Name
    <3>2. CASE ~Conf[d].ssl
      BY <1>2, <1>6, <3>2 DEF AgreeOK
    <3>3. QED
      BY <3>1, <3>2
  <2>6. QED
    BY <2>2, <2>3, <2>4, <2>5 DEF FilesInductive
<1>7. CASE ConnectFailed(c) /\ left' = left \cup {Name(c)} /\ main' = main /\ files' = files
  <2>1. /\ disk' \in [FileNames -> [Kinds -> Contents]]
        /\ \A n \in FileNames : n # Name(c) => disk'[n] = disk[n]
    BY <1>1, <1>2, <1>7, ConnectFailedFact
  <2>2. ConnectionsOK'
    BY <1>1, <1>3, <1>7, <2>1 DEF ConnectionsOK
  <2>3. NamesOK'
    BY <1>5, <1>7, <2>1 DEF NamesOK
  <2>4. FilesFresh' /\ AgreeOK'
    BY <1>1, <1>7 DEF FilesFresh, AgreeOK
  <2>5. QED
    BY <2>2, <2>3, <2>4 DEF FilesInductive
<1>8. QED
  BY <1>3, <1>6, <1>7

(* The second connection of inDatabasePrivilege. *)
LEMMA OpenCopyStep ==
  ASSUME FilesInductive, NEW p \in PrivSpecs, OpenCopy(p)
  PROVE  FilesInductive'
<1> DEFINE c == Copy(main, p.database)
<1>1. /\ ConnectionsOK /\ NamesOK /\ FilesFresh /\ AgreeOK
      /\ main.at = "open" /\ copy.at = "closed" /\ main \in Config
      /\ PrivilegeKind(p) = "inDatabase" /\ p.database \in DbNames
  BY OpenFact DEF FilesInductive, OpenCopy, DbNames
<1>2. /\ c \in Config /\ c.bundle = main.bundle /\ Named(c) = Named(main)
      /\ p.database = main.dbname => Name(c) = Name(main)
      /\ p.database # main.dbname => Name(c) # Name(main)
      /\ Name(main) \in FileNames
  BY <1>1, CopyFact, ConfigName
<1>3. /\ secret' = secret /\ files' = files
      /\ \/ /\ Connected(c) /\ copy' = [at |-> "open", entry |-> p]
            /\ main' = main /\ left' = left
         \/ /\ ConnectFailed(c) /\ left' = left \cup {Name(c)}
            /\ main' = [main EXCEPT !.at = "returning"] /\ copy' = copy
  BY DEF OpenCopy
<1>4. \A n \in FileNames : n \notin left /\ n # Name(main) => disk[n] = NoFiles
  BY <1>1, InUseFact DEF NamesOK
<1>5. CASE /\ Connected(c) /\ copy' = [at |-> "open", entry |-> p]
           /\ main' = main /\ left' = left
  <2>0. copy'.at = "open" /\ copy'.entry = p /\ Copy(main, copy.entry.database)' = c
    BY <1>5 DEF Copy
  <2> HIDE DEF c
  <2>1. /\ disk' \in [FileNames -> [Kinds -> Contents]]
        /\ \A n \in FileNames : n # Name(c) => disk'[n] = disk[n]
        /\ \A k \in Named(c) : disk'[Name(c)][k] = c.bundle[k]
    BY <1>1, <1>2, <1>5, ConnectedFact
  <2>2. ConnectionsOK'
    BY <1>1, <1>3, <1>5, <2>1 DEF ConnectionsOK, Closed
  <2>3. NamesOK'
    <3>1. {Name(x) : x \in InUseConfigs}' = {Name(main), Name(c)}
      BY <1>1, <1>5, <2>0 DEF InUseConfigs, Name
    <3>2. QED
      BY <1>4, <1>5, <2>1, <3>1 DEF NamesOK
  <2>4. FilesFresh'
    <3>1. Fresh(main)'
      BY <1>1, <1>2, <1>5, <2>1 DEF FilesFresh, Fresh, Name, Named
    <3>2. Fresh(Copy(main, copy.entry.database))'
      BY <2>0, <2>1 DEF Fresh, Name, Named
    <3>3. QED
      BY <3>1, <3>2 DEF FilesFresh
  <2>5. AgreeOK'
    <3>1. CASE p.database = main.dbname
      BY <1>5, <2>0, <3>1 DEF AgreeOK, Shares
    <3>2. CASE p.database # main.dbname
      BY <1>1, <1>2, <1>3, <1>5, <2>1, <3>2 DEF AgreeOK, Shares, Name, Named
    <3>3. QED
      BY <3>1, <3>2
  <2>6. QED
    BY <2>2, <2>3, <2>4, <2>5 DEF FilesInductive
<1>6. CASE /\ ConnectFailed(c) /\ left' = left \cup {Name(c)}
           /\ main' = [main EXCEPT !.at = "returning"] /\ copy' = copy
  <2> HIDE DEF c
  <2>1. /\ disk' \in [FileNames -> [Kinds -> Contents]]
        /\ \A n \in FileNames : n # Name(c) => disk'[n] = disk[n]
    BY <1>1, <1>2, <1>6, ConnectFailedFact
  <2>2. /\ main' \in Config /\ main'.at = "returning" /\ main'.d = main.d
        /\ main'.dbname = main.dbname /\ main'.bundle = main.bundle
    BY <1>1, <1>6, MovedFact
  <2>3. ConnectionsOK'
    BY <1>1, <1>3, <1>6, <2>1, <2>2 DEF ConnectionsOK, Closed, NoCopy
  <2>4. NamesOK'
    <3>1. {Name(x) : x \in InUseConfigs}' = {Name(main)}
      BY <1>1, <1>6, <2>2 DEF InUseConfigs, Name
    <3>2. QED
      BY <1>4, <1>6, <2>1, <3>1 DEF NamesOK
  <2>5. FilesFresh' /\ AgreeOK'
    BY <2>2 DEF FilesFresh, AgreeOK
  <2>6. QED
    BY <2>3, <2>4, <2>5 DEF FilesInductive
<1>7. QED
  BY <1>3, <1>5, <1>6

(* Closing the copy, which removes the files of the connection itself when *)
(* the entry is on its database.                                           *)
LEMMA CloseCopyStep ==
  ASSUME FilesInductive, CloseCopy
  PROVE  FilesInductive'
<1> DEFINE c == Copy(main, copy.entry.database)
<1>1. /\ ConnectionsOK /\ NamesOK /\ FilesFresh /\ AgreeOK
      /\ main.at = "open" /\ copy.at = "open" /\ main \in Config
      /\ copy.entry.database \in DbNames /\ PrivilegeKind(copy.entry) = "inDatabase"
      /\ main.dbname = Conf[main.d].database
      /\ Conf[main.d].ssl => main.bundle \in Bundles
  BY OpenFact DEF FilesInductive, CloseCopy, ConnectionsOK, NoCopy, Closed
<1>2. /\ c \in Config /\ Named(c) = Named(main)
      /\ copy.entry.database = main.dbname => Name(c) = Name(main)
      /\ copy.entry.database # main.dbname => Name(c) # Name(main)
      /\ Name(main) \in FileNames
  BY <1>1, CopyFact, ConfigName
<1>3. /\ ConfigClose(c) /\ left' = left \ {Name(c)} /\ secret' = secret
      /\ files' = PgFilesAfter(main.d, copy.entry, files) /\ copy' = NoCopy
  BY DEF CloseCopy
<1>4. PICK at \in {"open", "returning"} : main' = [main EXCEPT !.at = at]
  BY DEF CloseCopy
<1>5. /\ main' \in Config /\ main'.at = at /\ main'.d = main.d
      /\ main'.dbname = main.dbname /\ main'.bundle = main.bundle /\ copy'.at = "closed"
  BY <1>1, <1>3, <1>4, MovedFact DEF NoCopy
<1>6. /\ Name(main') = Name(main) /\ Named(main') = Named(main)
  BY <1>5 DEF Name, Named
<1>7. \A n \in FileNames : n \notin left /\ n # Name(main) /\ n # Name(c) =>
        disk[n] = NoFiles
  BY <1>1, InUseFact DEF NamesOK
<1>8. /\ files' \in BOOLEAN
      /\ files' <=> files /\ copy.entry.database # main.dbname
  BY <1>1, <1>3 DEF PgFilesAfter
<1> HIDE DEF c
<1>9. /\ disk' \in [FileNames -> [Kinds -> Contents]]
      /\ \A n \in FileNames : n # Name(c) => disk'[n] = disk[n]
      /\ disk'[Name(c)] = NoFiles
  BY <1>1, <1>2, <1>3, ConfigCloseFact
<1>10. ConnectionsOK'
  BY <1>1, <1>3, <1>5, <1>8, <1>9 DEF ConnectionsOK
<1>11. NamesOK'
  <2>1. {Name(x) : x \in InUseConfigs}' = {Name(main)}
    BY <1>4, <1>5, <1>6 DEF InUseConfigs, Name
  <2>2. QED
    BY <1>3, <1>7, <1>9, <2>1 DEF NamesOK
<1>12. FilesFresh'
  <2>1. \A k \in Named(main) : disk'[Name(main)][k] \in {"none", main.bundle[k]}
    <3>1. CASE Name(main) = Name(c)
      <4>1. \A k \in Named(main) : NoFiles[k] = "none"
        BY DEF Named, NoFiles
      <4>2. QED
        BY <1>9, <3>1, <4>1
    <3>2. CASE Name(main) # Name(c)
      BY <1>1, <1>2, <1>9, <3>2 DEF FilesFresh, Fresh
    <3>3. QED
      BY <3>1, <3>2
  <2>2. QED
    BY <1>5, <1>6, <2>1 DEF FilesFresh, Fresh, Name, Named
<1>13. AgreeOK'
  <2>1. ASSUME Conf[main.d].ssl
        PROVE  files' <=> \A k \in Named(main) : disk'[Name(main)][k] # "none"
    <3>1. CASE copy.entry.database = main.dbname
      <4>1. PICK k \in Kinds : main.bundle[k] # ""
        BY <1>1, <2>1, ConnectionAssumption
      <4>2. k \in Named(main) /\ disk'[Name(main)][k] = "none"
        BY <1>2, <1>9, <3>1, <4>1 DEF Named, NoFiles
      <4>3. QED
        BY <1>8, <3>1, <4>2
    <3>2. CASE copy.entry.database # main.dbname
      BY <1>1, <1>2, <1>8, <1>9, <2>1, <3>2 DEF AgreeOK, Shares
    <3>3. QED
      BY <3>1, <3>2
  <2>2. QED
    BY <1>5, <1>6, <2>1 DEF AgreeOK, Name, Named
<1>14. QED
  BY <1>10, <1>11, <1>12, <1>13 DEF FilesInductive

(* The end of a visit. *)
LEMMA EndStep ==
  ASSUME FilesInductive, Finish \/ Close \/ Crash
  PROVE  FilesInductive'
<1>1. ConnectionsOK /\ NamesOK
  BY DEF FilesInductive
<1>2. CASE Finish
  <2>1. /\ main.at = "open" /\ copy.at = "closed" /\ main \in Config
        /\ main' = [main EXCEPT !.at = "returning"]
        /\ UNCHANGED <<secret, disk, copy, files, left>>
    BY <1>1, <1>2, OpenFact DEF Finish
  <2>2. /\ main' \in Config /\ main'.at = "returning" /\ main'.d = main.d
        /\ main'.dbname = main.dbname /\ main'.bundle = main.bundle
    BY <2>1, MovedFact
  <2>3. ConnectionsOK'
    BY <1>1, <2>1, <2>2 DEF ConnectionsOK, Closed, NoCopy
  <2>4. NamesOK'
    <3>1. {Name(x) : x \in InUseConfigs}' = {Name(main)}
      BY <2>1, <2>2 DEF InUseConfigs, Name
    <3>2. QED
      BY <1>1, <2>1, <3>1, InUseFact DEF NamesOK
  <2>5. QED
    BY <2>2, <2>3, <2>4 DEF FilesInductive, FilesFresh, AgreeOK
<1>3. CASE Close
  <2>1. /\ main.at = "returning" /\ copy.at = "closed" /\ copy = NoCopy /\ main \in Config
        /\ ConfigClose(main) /\ left' = left \ {Name(main)} /\ main' = Closed
        /\ UNCHANGED <<secret, copy, files>>
    BY <1>1, <1>3, OpenFact DEF Close, ConnectionsOK
  <2>2. /\ disk' \in [FileNames -> [Kinds -> Contents]]
        /\ \A n \in FileNames : n # Name(main) => disk'[n] = disk[n]
        /\ disk'[Name(main)] = NoFiles
    BY <1>1, <2>1, ConfigCloseFact
  <2>3. ConnectionsOK'
    BY <1>1, <2>1, <2>2 DEF ConnectionsOK
  <2>4. NamesOK'
    BY <1>1, <2>1, <2>2, InUseFact DEF NamesOK
  <2>5. QED
    BY <2>1, <2>3, <2>4 DEF FilesInductive, FilesFresh, AgreeOK, Closed
<1>4. CASE Crash
  <2>1. main' = Closed /\ copy' = NoCopy /\ secret' = secret /\ files' = files
    BY <1>4 DEF Crash
  <2>2. ConnectionsOK' /\ NamesOK'
    <3>1. CASE disk' = [n \in FileNames |-> NoFiles]
      <4>1. NoFiles \in [Kinds -> Contents]
        BY DEF NoFiles, Contents
      <4>2. QED
        BY <1>1, <2>1, <3>1, <4>1 DEF ConnectionsOK, NamesOK
    <3>2. CASE left' = left \cup {Name(c) : c \in InUseConfigs} /\ disk' = disk
      BY <1>1, <2>1, <3>2 DEF ConnectionsOK, NamesOK
    <3>3. QED
      BY <1>4, <3>1, <3>2 DEF Crash
  <2>3. QED
    BY <2>1, <2>2 DEF FilesInductive, FilesFresh, AgreeOK, Closed
<1>5. QED
  BY <1>2, <1>3, <1>4

(* Every step keeps the invariant. *)
LEMMA FilesStep ==
  ASSUME FilesInductive, [Next]_vars
  PROVE  FilesInductive'
<1>1. ASSUME NEW d \in Databases, Rotate(d)
      PROVE  FilesInductive'
  <2>1. /\ UNCHANGED <<disk, main, copy, files, left>>
        /\ secret' \in [Databases -> Bundles]
    BY <1>1 DEF Rotate, FilesInductive, ConnectionsOK
  <2>2. QED
    BY <2>1 DEF FilesInductive, ConnectionsOK, NamesOK, InUseConfigs, FilesFresh, Fresh,
       AgreeOK, Shares, Name, Named, Copy
<1>2. CASE UNCHANGED vars
  BY <1>2 DEF vars, FilesInductive, ConnectionsOK, NamesOK, InUseConfigs, FilesFresh,
     Fresh, AgreeOK, Shares, Name, Named, Copy
<1>3. QED
  BY <1>1, <1>2, OpenStep, OpenCopyStep, CloseCopyStep, EndStep DEF Next

(* The invariant behind the three properties of the certificate files.     *)
THEOREM FilesInductiveHolds == Spec => []FilesInductive
<1>1. Init => FilesInductive
  BY FilesInit
<1>2. FilesInductive /\ [Next]_vars => FilesInductive'
  BY FilesStep
<1>3. QED
  BY <1>1, <1>2, PTL DEF Spec

(* No statement authenticates with the certificates of another Database,   *)
(* of an earlier rotation or of a half-written file, although Databases    *)
(* share file names and failed connects leave files behind: ConnString     *)
(* writes every file it names.                                             *)
THEOREM FilesFreshHolds == Spec => []FilesFresh
<1>1. FilesInductive => FilesFresh
  BY DEF FilesInductive
<1>2. QED
  BY <1>1, FilesInductiveHolds, PTL

(* Between two visits, files lie only under names whose last connection    *)
(* failed to open or was cut off: what newPostgresql leaks is bounded by   *)
(* the number of names.                                                    *)
THEOREM LeftoversOwnedHolds == Spec => []LeftoversOwned
<1>1. FilesInductive => LeftoversOwned
  BY InUseFact DEF FilesInductive, NamesOK, LeftoversOwned
<1>2. QED
  BY <1>1, FilesInductiveHolds, PTL

(* The one bit that UserController keeps of the files is right, so what it *)
(* says of a Reconcile whose files inDatabasePrivilege removed is, too.    *)
THEOREM FilesAgreeHolds == Spec => []FilesAgree
<1>1. FilesInductive => FilesAgree
  BY DEF FilesInductive, AgreeOK, Shares, FilesAgree
<1>2. QED
  BY <1>1, FilesInductiveHolds, PTL
================================================================================
