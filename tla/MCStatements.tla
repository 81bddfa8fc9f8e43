----------------------------- MODULE MCStatements -----------------------------
(***************************************************************************)
(* All texts up to a length over the characters the escaping functions     *)
(* treat differently.                                                      *)
(***************************************************************************)
EXTENDS Statements

Texts(chars, len) == UNION {[1..n -> chars] : n \in 1..len}

MCChars     == {"a", Dot, Quote, Apos, "*", Nul, ";", "#"}
MCNames     == Texts({"a", Dot, Quote, "*", Nul}, 3)
MCUserNames == Texts({"a", Dot, Quote}, 1)
MCPasswords == {<<>>} \cup Texts({"a", Quote, Apos, Nul}, 3)
MCPrivs     == Texts({"a", Dot, Quote, Apos, ";", "#"}, 2)
MCReserved  == {<<"a">>}
================================================================================
