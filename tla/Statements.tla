------------------------------ MODULE Statements ------------------------------
(***************************************************************************)
(* The text of the statements that the PostgreSQL implementation executes  *)
(* (pkg/database/postgresql), and how the server reads it.  UserController *)
(* takes a User's name for the role it names and an entry of a Privileges  *)
(* resource for the object it is about; this module checks that the text   *)
(* in between says so.                                                     *)
(*                                                                         *)
(* A text is a sequence of characters and keywords, a character being one  *)
(* byte; the blanks around keywords are left out.                          *)
(***************************************************************************)
EXTENDS Naturals, Sequences, SequencesExt

CONSTANTS
  Chars,       \* characters
  Names,       \* names of users, databases, tables
  UserNames,   \* the ones used for the user in the larger statements
  Passwords,
  Privs,       \* what the field privilege may hold
  IdentLen,    \* bytes that the server keeps of an identifier (63)
  Reserved     \* names that are never a role (public, none)

Dot   == "."
Quote == "\""
Apos  == "'"
Nul   == "NUL"

ASSUME TextsAssumption ==
  /\ Names \cup UserNames \cup Passwords \cup Privs \subseteq Seq(Chars)
  /\ IdentLen \in Nat \ {0}

(* strings.ReplaceAll of one character, strings.Split and strings.Join at  *)
(* dots.                                                                   *)
Replaced(str, old, new) ==
  FlattenSeq([n \in DOMAIN str |-> IF str[n] = old THEN new ELSE <<str[n]>>])

(* A dot starts the next part, any other character is the last one's. *)
Cut(parts, c) ==
  IF c = Dot THEN Append(parts, <<>>)
  ELSE [parts EXCEPT ![Len(parts)] = Append(@, c)]

Split(str) ==
  LET parts[n \in 0..Len(str)] ==
        IF n = 0 THEN << <<>> >> ELSE Cut(parts[n - 1], str[n])
  IN  parts[Len(str)]

Join(parts) ==
  FlattenSeq([n \in DOMAIN parts |-> IF n = 1 THEN parts[1] ELSE <<Dot>> \o parts[n]])

-------------------------------------------------------------------------------
(* Mutant: quotes are removed rather than doubled. *)
escapeLiteralStripped(str) ==
  LET Part(p) == <<Quote>> \o Replaced(Replaced(p, Nul, <<>>), Quote, <<>>) \o <<Quote>>
  IN  Join([n \in DOMAIN Split(str) |-> Part(Split(str)[n])])

escapeLiteral(str) ==
  LET Plain(p) == Replaced(Replaced(p, Nul, <<>>), Quote, <<Quote, Quote>>)
      Part(p)  == IF Plain(p) = <<"*">> THEN <<"*">>
                  ELSE <<Quote>> \o Plain(p) \o <<Quote>>
  IN  Join([n \in DOMAIN Split(str) |-> Part(Split(str)[n])])

(* Mutant: an apostrophe is not doubled. *)
escapeStringPlain(str) == <<Apos>> \o str \o <<Apos>>

escapeString(str) == <<Apos>> \o Replaced(str, Apos, <<Apos, Apos>>) \o <<Apos>>

(* Mutant: quotes are left as they are. *)
escapeLiteralBare(str) == Replaced(Replaced(str, Nul, <<>>), ";", <<>>)

(* The removal of # is computed and then overwritten by that of ; alone. *)
escapeLiteralWithoutQuotes(str) ==
  LET Part(p) == Replaced(Replaced(Replaced(p, Nul, <<>>), Quote, <<Quote, Quote>>),
                          ";", <<>>)
  IN  Join([n \in DOMAIN Split(str) |-> Part(Split(str)[n])])

createUserQuery(username, password) ==
  <<"CREATE USER">> \o escapeLiteral(username) \o
  (IF password # <<>> THEN <<"WITH PASSWORD">> \o escapeString(password) ELSE <<>>)

deleteUserQuery(username) == <<"DROP USER">> \o escapeLiteral(username)

prepareStatementForPrivilege(statement, arg, username, dbname, on, privilege) ==
  <<statement>> \o escapeLiteralWithoutQuotes(privilege) \o
  (CASE on # <<>>                   -> <<"ON">> \o escapeLiteral(on)
     [] on = <<>> /\ dbname # <<>>  -> <<"ON DATABASE">> \o escapeLiteral(dbname)
     [] OTHER                       -> <<>>) \o
  <<arg>> \o escapeLiteral(username)

-------------------------------------------------------------------------------
(***************************************************************************)
(* One statement is built per behaviour.                                   *)
(***************************************************************************)
VARIABLES
  call,   \* the operation and what it is called with
  text    \* the statement, or <<>>

vars == <<call, text>>

Creates == [op : {"create"}, user : Names, password : Passwords]
Drops   == [op : {"drop"}, user : Names, other : Names]
Changes == [op : {"GRANT", "REVOKE"}, user : UserNames, dbname : UserNames \cup {<<>>},
            on : Names \cup {<<>>}, privilege : Privs]

Init ==
  /\ call \in Creates \cup Drops \cup Changes
  /\ text = <<>>

Create ==
  /\ text = <<>>
  /\ call.op = "create"
  /\ text' = createUserQuery(call.user, call.password)
  /\ UNCHANGED call

Drop ==
  /\ text = <<>>
  /\ call.op = "drop"
  /\ text' = deleteUserQuery(call.user)
  /\ UNCHANGED call

(* inDatabasePrivilege, databasePrivilege or privilege, by the fields set. *)
Arg == IF call.op = "GRANT" THEN "TO" ELSE "FROM"

Change ==
  /\ text = <<>>
  /\ call.op \in {"GRANT", "REVOKE"}
  /\ text' = prepareStatementForPrivilege(call.op, Arg, call.user, call.dbname,
               IF call.dbname = <<>> THEN <<>> ELSE call.on, call.privilege)
  /\ UNCHANGED call

Next == Create \/ Drop \/ Change

Spec == Init /\ [][Next]_vars

-------------------------------------------------------------------------------
(***************************************************************************)
(* The server's scanner, a character at a time.  quote is the one it is    *)
(* inside of; behind says that the last character ends the quoted text,    *)
(* unless the same one follows.  A token is its quote and its characters.  *)
(***************************************************************************)
Scanned(s, c) ==
  LET inside == s.quote # "" /\ (IF s.behind THEN c = s.quote ELSE c # s.quote)
      opens  == IF c \in {Quote, Apos} THEN c ELSE ""
  IN  CASE inside ->
             [s EXCEPT !.behind = FALSE, !.tokens[Len(s.tokens)] = Append(@, c)]
        [] ~inside /\ s.quote = c /\ c # "" ->
             [s EXCEPT !.behind = TRUE]
        [] OTHER ->
             [quote |-> opens, behind |-> FALSE,
              tokens |-> Append(s.tokens, IF opens = "" THEN <<"", c>> ELSE <<c>>)]

Scan(str) ==
  LET state[n \in 0..Len(str)] ==
        IF n = 0 THEN [quote |-> "", behind |-> FALSE, tokens |-> <<>>]
        ELSE Scanned(state[n - 1], str[n])
  IN  state[Len(str)]

(* Of an identifier the server keeps the first IdentLen bytes, quoted or   *)
(* not.  The words outside of quotes are not put together here.            *)
Truncated(name) == IF Len(name) <= IdentLen THEN name ELSE SubSeq(name, 1, IdentLen)

Shortened(token) ==
  IF token[1] = Quote THEN <<Quote>> \o Truncated(Tail(token)) ELSE token

Shorten(tokens) == [n \in DOMAIN tokens |-> Shortened(tokens[n])]

(* What the server reads. *)
Tokens(str) == Shorten(Scan(str).tokens)

(* A message with a NUL inside of its statement is refused, and so is a    *)
(* statement with a quote left open or with an empty identifier.           *)
Closed(str) ==
  /\ Nul \notin ToSet(str)
  /\ Scan(str).quote = "" \/ Scan(str).behind

Lexed(str) == Closed(str) /\ <<Quote>> \notin ToSet(Scan(str).tokens)

(* The grammar of CREATE USER and DROP USER: one name, which is neither    *)
(* qualified nor reserved, and a password for the first.                   *)
Bare(c) == <<<<"", c>>>>

Accepted(str) ==
  LET ts == Tokens(str)
  IN  /\ Lexed(str)
      /\ \/ Len(ts) = 2 /\ ts[1] \in {<<"", "CREATE USER">>, <<"", "DROP USER">>}
         \/ /\ Len(ts) = 4
            /\ ts[1] = <<"", "CREATE USER">>
            /\ ts[3] = <<"", "WITH PASSWORD">> /\ ts[4][1] = Apos
      /\ ts[2][1] = Quote /\ Tail(ts[2]) \notin Reserved

(* The role and the password of an accepted statement. *)
Role(str) == Tail(Tokens(str)[2])

Password(str) == IF Len(Tokens(str)) = 4 THEN Tail(Tokens(str)[4]) ELSE <<>>

(* The names that can be those of a role. *)
IsRoleName(name) ==
  /\ Dot \notin ToSet(name)
  /\ name \notin {<<>>, <<"*">>}
  /\ Truncated(name) \notin Reserved

(* An object as a Privileges resource spells it, schema.table for one: the *)
(* names between the dots, * apart; and as the server knows it.            *)
Spelled(str) ==
  LET Part(p) == LET q == Replaced(p, Nul, <<>>)
                 IN  IF q = <<"*">> THEN Bare("*") ELSE << <<Quote>> \o q >>
      parts   == Split(str)
  IN  FlattenSeq([n \in DOMAIN parts |-> IF n = 1 THEN Part(parts[1])
                                         ELSE Bare(Dot) \o Part(parts[n])])

Meant(str) == Shorten(Spelled(str))

-------------------------------------------------------------------------------
(***************************************************************************)
(* Properties.                                                             *)
(***************************************************************************)
(* The server takes CREATE USER and DROP USER for a name that can be a     *)
(* role's and a password without NUL, and then for the role of that name,  *)
(* as far as it keeps names, and for that password, whatever quotes they   *)
(* hold.  It refuses the statement for any other name, one with a dot for  *)
(* instance, rather than take it for another role.                         *)
UserReadsBack ==
  text # <<>> /\ call.op \in {"create", "drop"} =>
    LET name     == Replaced(call.user, Nul, <<>>)
        password == IF call.op = "create" THEN call.password ELSE <<>>
    IN  /\ Accepted(text) <=> IsRoleName(name) /\ Nul \notin ToSet(password)
        /\ Accepted(text) => Role(text) = Truncated(name) /\ Password(text) = password

(* The DROP USER of one User drops the role that was created for another   *)
(* exactly if their names agree in the bytes that the server keeps: never  *)
(* for names that fit, always for two longer ones that differ behind them. *)
NamesApart ==
  call.op = "drop" /\ text # <<>> /\ Nul \notin ToSet(call.user \o call.other) =>
    LET created == createUserQuery(call.other, <<>>)
    IN  Accepted(text) /\ Accepted(created) =>
          (Role(text) = Role(created) <=> Truncated(call.user) = Truncated(call.other))

(* What starts a string or a comment outside of quotes; no privilege that  *)
(* the server knows has one, and the scanner above reads only the first.   *)
Openers == {Apos, "$", "-", "/"}

(* The text of a privilege, which is not quoted, takes nothing of the      *)
(* statement behind it: that ends with the object and the user of the      *)
(* resource, with no quote open and no NUL.  Nor does it end the statement.*)
PrivilegeReadsBack ==
  text # <<>> /\ call.op \in {"GRANT", "REVOKE"} /\ ToSet(call.privilege) \cap Openers = {} =>
    LET object == CASE call.dbname = <<>> -> <<>>
                    [] call.dbname # <<>> /\ call.on # <<>> -> Bare("ON") \o Meant(call.on)
                    [] OTHER -> Bare("ON DATABASE") \o Meant(call.dbname)
        tokens == Tokens(text)
    IN  /\ Closed(text)
        /\ IsSuffix(object \o Bare(Arg) \o Meant(call.user), tokens)
        /\ \A n \in DOMAIN tokens : tokens[n] # <<"", ";">>
================================================================================
