--------------------------- MODULE StatementsProofs ---------------------------
(***************************************************************************)
(* What the server reads of a statement, for texts of every length.        *)
(***************************************************************************)
EXTENDS Statements, SequenceInduction

(* The characters, the ones the code treats, and the keywords. *)
Symbols ==
  Chars \cup {"", Dot, Quote, Apos, Nul, "*", ";"} \cup
  {"CREATE USER", "WITH PASSWORD", "DROP USER", "GRANT", "REVOKE", "ON", "ON DATABASE", "TO", "FROM"}

Text == Seq(Symbols)

Quotes == {Quote, Apos}

(* The characters that the code treats are symbols. *)
LEMMA SymbolsFacts ==
  /\ \A q \in Quotes : q \in Symbols
  /\ Dot \in Symbols /\ Quote \in Symbols /\ Apos \in Symbols /\ Nul \in Symbols
  /\ "" \in Symbols /\ "*" \in Symbols /\ ";" \in Symbols
BY DEF Symbols, Quotes

-------------------------------------------------------------------------------
(* strings.ReplaceAll works from left to right. *)
LEMMA ReplacedEmpty ==
  ASSUME NEW old, NEW new
  PROVE  Replaced(<<>>, old, new) = <<>>
<1>1. [n \in DOMAIN <<>> |-> IF <<>>[n] = old THEN new ELSE <<<<>>[n]>>] = <<>>
  OBVIOUS
<1> QED
  BY <1>1, FlattenEmpty DEF Replaced

(* The last character is replaced last. *)
LEMMA ReplacedAppend ==
  ASSUME NEW str \in Text, NEW c \in Symbols, NEW old, NEW new \in Text
  PROVE  /\ Replaced(str, old, new) \in Text
         /\ Replaced(Append(str, c), old, new) =
              Replaced(str, old, new) \o (IF c = old THEN new ELSE <<c>>)
<1> DEFINE Piece(d) == IF d = old THEN new ELSE <<d>>
           pieces == [n \in DOMAIN str |-> Piece(str[n])]
           all == [n \in DOMAIN Append(str, c) |-> Piece(Append(str, c)[n])]
<1>1. pieces \in Seq(Text)
  <2>1. pieces \in [1..Len(str) -> Text]
    BY DEF Text
  <2> QED
    BY <2>1 DEF Text
<1>2. Piece(c) \in Text
  BY DEF Text
<1>3. all = Append(pieces, Piece(c))
  <2>1. Append(str, c) \in Seq(Symbols) /\ Len(Append(str, c)) = Len(str) + 1
    BY DEF Text
  <2>2. all \in Seq(Text)
    BY <2>1 DEF Text
  <2>3. Len(all) = Len(str) + 1 /\ Len(pieces) = Len(str)
    BY <2>1 DEF Text
  <2>4. ASSUME NEW n \in 1..(Len(str) + 1) PROVE all[n] = Append(pieces, Piece(c))[n]
    <3>1. CASE n = Len(str) + 1
      BY <1>1, <1>2, <2>1, <2>3, <3>1 DEF Text
    <3>2. CASE n \in 1..Len(str)
      BY <1>1, <1>2, <2>1, <2>3, <3>2 DEF Text
    <3> QED
      BY <3>1, <3>2 DEF Text
  <2> QED
    BY <1>1, <1>2, <2>2, <2>3, <2>4
<1>4. Replaced(str, old, new) = FlattenSeq(pieces)
  BY DEF Replaced
<1>5. Replaced(Append(str, c), old, new) = FlattenSeq(all)
  BY DEF Replaced
<1> HIDE DEF pieces, all
<1>6. FlattenSeq(pieces) \in Seq(Symbols) /\ FlattenSeq(Append(pieces, Piece(c))) = FlattenSeq(pieces) \o Piece(c)
  <2> HIDE DEF Piece
  <2> QED
    BY <1>1, <1>2, FlattenAppend DEF Text
<1> QED
  BY <1>3, <1>4, <1>5, <1>6 DEF Text

-------------------------------------------------------------------------------
(* strings.Split yields at least one part. *)
Parts == Seq(Text) \ {<<>>}

(* There is a last part. *)
LEMMA PartsLast ==
  ASSUME NEW parts \in Parts
  PROVE  \E front \in Seq(Text), last \in Text : parts = Append(front, last)
BY SequenceEmptyOrAppend DEF Parts

(* A sequence of texts with a last one is a list of parts. *)
LEMMA PartsAppend ==
  ASSUME NEW front \in Seq(Text), NEW last \in Text
  PROVE  Append(front, last) \in Parts
BY AppendProperties DEF Parts

(* A character is cut off, or belongs to the last part. *)
LEMMA CutLast ==
  ASSUME NEW front \in Seq(Text), NEW last \in Text, NEW c \in Symbols
  PROVE  Cut(Append(front, last), c) =
           IF c = Dot THEN Append(Append(front, last), <<>>)
           ELSE Append(front, Append(last, c))
<1> DEFINE T == Text
           parts == Append(front, last)
           longer == Append(last, c)
<1>1. longer \in T
  BY DEF Text
<1>2. Len(parts) = Len(front) + 1 /\ parts[Len(parts)] = last /\ parts \in Seq(T)
  OBVIOUS
<1>3. [parts EXCEPT ![Len(parts)] = longer] = Append(front, longer)
  <2> HIDE DEF T, longer
  <2> QED
    BY <1>1, ExceptLast DEF T
<1> QED
  BY <1>2, <1>3 DEF Cut

(* What is cut is a list of parts. *)
LEMMA CutType ==
  ASSUME NEW parts \in Parts, NEW c \in Symbols
  PROVE  Cut(parts, c) \in Parts
<1>1. PICK front \in Seq(Text), last \in Text : parts = Append(front, last)
  BY PartsLast
<1>2. Append(last, c) \in Text /\ <<>> \in Text /\ Append(front, last) \in Seq(Text)
  BY DEF Text
<1>3. Append(Append(front, last), <<>>) \in Parts
  BY <1>2, PartsAppend
<1>4. Append(front, Append(last, c)) \in Parts
  BY <1>2, PartsAppend
<1> QED
  BY <1>1, <1>3, <1>4, CutLast

(* The recursive function in Split exists and is what it computes. *)
LEMMA SplitSteps ==
  ASSUME NEW str \in Text
  PROVE  \E g \in [0..Len(str) -> Parts] :
           /\ g[0] = << <<>> >>
           /\ \A n \in 1..Len(str) : g[n] = Cut(g[n - 1], str[n])
           /\ Split(str) = g[Len(str)]
<1> DEFINE L == Len(str)
           step == [x \in Parts \X (1..L) |-> Cut(x[1], str[x[2]])]
           one == << <<>> >>
<1>1. L \in Nat
  BY DEF Text
<1>2. one \in Parts
  BY DEF Parts, Text
<1>3. \A n \in 1..L : str[n] \in Symbols
  BY DEF Text
<1>4. step \in [Parts \X (1..L) -> Parts]
  BY <1>3, CutType
<1>5. PICK g \in [0..L -> Parts] : Recurs(g, one, step, L)
  <2> HIDE DEF L, step, one
  <2> QED
    BY <1>1, <1>2, <1>4, RecursionExists
<1>6. g[0] = one
  BY <1>5, Zenon DEF Recurs
<1>7. ASSUME NEW n \in 1..L PROVE g[n] = Cut(g[n - 1], str[n])
  <2>1. n - 1 \in 0..L
    BY <1>1
  <2>2. g[n - 1] \in Parts
    BY <2>1, Zenon
  <2>3. <<g[n - 1], n>> \in Parts \X (1..L)
    BY <2>2
  <2>4. g[n] = step[<<g[n - 1], n>>]
    BY <1>5, Zenon DEF Recurs
  <2> QED
    BY <2>3, <2>4
<1> DEFINE parts == CHOOSE f : f = [n \in 0..Len(str) |->
                      IF n = 0 THEN << <<>> >> ELSE Cut(f[n - 1], str[n])]
<1>8. Split(str) = parts[L]
  BY DEF Split
<1>9. g = [n \in 0..L |-> IF n = 0 THEN one ELSE Cut(g[n - 1], str[n])]
  <2>1. \A n \in 0..L : g[n] = IF n = 0 THEN one ELSE Cut(g[n - 1], str[n])
    <3>1. ASSUME NEW n \in 0..L, n # 0 PROVE g[n] = Cut(g[n - 1], str[n])
      <4>1. n \in 1..L
        BY <1>1, <3>1
      <4> QED
        BY <1>7, <4>1, Zenon
    <3> QED
      BY <1>6, <3>1, Zenon
  <2> HIDE DEF one
  <2> QED
    BY <2>1
<1>10. parts = [n \in 0..L |-> IF n = 0 THEN one ELSE Cut(parts[n - 1], str[n])]
  BY <1>9, Zenon
<1> HIDE DEF parts
<1>11. \A n \in 0..L : parts[n] = IF n = 0 THEN one ELSE Cut(parts[n - 1], str[n])
  BY <1>10, Zenon
<1>12. parts[L] = g[L]
  <2>1. parts[0] = g[0]
    BY <1>1, <1>6, <1>11
  <2>2. ASSUME NEW n \in 1..L, parts[n - 1] = g[n - 1] PROVE parts[n] = g[n]
    <3>1. n \in 0..L /\ n # 0
      BY <1>1
    <3>2. parts[n] = Cut(parts[n - 1], str[n])
      BY <1>11, <3>1, Zenon
    <3>3. g[n] = Cut(g[n - 1], str[n])
      BY <1>7, Zenon
    <3> QED
      BY <2>2, <3>2, <3>3
  <2> HIDE DEF L
  <2> QED
    BY <1>1, <2>1, <2>2, Agreement
<1>13. Split(str) = g[L]
  BY <1>8, <1>12
<1> QED
  BY <1>6, <1>7, <1>13, Zenon

(* strings.Split, a character at a time. *)
LEMMA SplitAppend ==
  ASSUME NEW str \in Text, NEW c \in Symbols
  PROVE  /\ Split(str) \in Parts
         /\ Split(Append(str, c)) = Cut(Split(str), c)
<1> DEFINE L == Len(str)
           all == Append(str, c)
<1>1. L \in Nat /\ all \in Text /\ Len(all) = L + 1 /\ all[L + 1] = c
  BY DEF Text
<1>2. \A n \in 1..L : all[n] = str[n]
  BY DEF Text
<1>3. PICK g \in [0..Len(str) -> Parts] :
        /\ g[0] = << <<>> >>
        /\ \A n \in 1..Len(str) : g[n] = Cut(g[n - 1], str[n])
        /\ Split(str) = g[Len(str)]
  BY SplitSteps
<1>4. PICK f \in [0..Len(all) -> Parts] :
        /\ f[0] = << <<>> >>
        /\ \A n \in 1..Len(all) : f[n] = Cut(f[n - 1], all[n])
        /\ Split(all) = f[Len(all)]
  <2> HIDE DEF all
  <2> QED
    BY <1>1, SplitSteps
<1> HIDE DEF all
<1>5. ASSUME NEW n \in 1..L, f[n - 1] = g[n - 1] PROVE f[n] = g[n]
  <2>1. n \in 1..Len(all)
    BY <1>1
  <2>2. f[n] = Cut(f[n - 1], all[n])
    BY <1>4, <2>1, Zenon
  <2>3. g[n] = Cut(g[n - 1], str[n])
    BY <1>3, Zenon
  <2> QED
    BY <1>2, <1>5, <2>2, <2>3
<1>6. f[0] = g[0]
  BY <1>3, <1>4, Zenon
<1>7. f[L] = g[L]
  <2> HIDE DEF L
  <2> QED
    BY <1>1, <1>5, <1>6, Agreement
<1>8. f[L + 1] = Cut(f[L], c)
  <2>1. L + 1 \in 1..Len(all) /\ (L + 1) - 1 = L
    BY <1>1
  <2>2. f[L + 1] = Cut(f[(L + 1) - 1], all[L + 1])
    BY <1>4, <2>1, Zenon
  <2> QED
    BY <1>1, <2>1, <2>2
<1>9. Split(str) = g[L] /\ Split(all) = f[L + 1]
  BY <1>1, <1>3, <1>4, Zenon
<1>10. g[L] \in Parts
  <2>1. L \in 0..Len(str)
    BY <1>1
  <2> QED
    BY <2>1, Zenon
<1> QED
  BY <1>7, <1>8, <1>9, <1>10 DEF all

(* The empty text has one part. *)
LEMMA SplitEmpty ==
  Split(<<>>) = << <<>> >>
<1>1. <<>> \in Text /\ Len(<<>>) = 0
  BY DEF Text
<1> QED
  BY <1>1, SplitSteps, Zenon

-------------------------------------------------------------------------------
(* The states of the scanner: outside of quoted text, inside, or behind    *)
(* the quote that ends it.                                                 *)
Outside(tokens)       == [quote |-> "", behind |-> FALSE, tokens |-> tokens]
Inside(quote, tokens) == [quote |-> quote, behind |-> FALSE, tokens |-> tokens]
Behind(quote, tokens) == [quote |-> quote, behind |-> TRUE, tokens |-> tokens]

States ==
  {Outside(tokens) : tokens \in Seq(Text)} \cup
  {Inside(quote, tokens) : quote \in Quotes, tokens \in Parts} \cup
  {Behind(quote, tokens) : quote \in Quotes, tokens \in Parts}

(* A character outside of quoted text is a token, or opens one. *)
Read(tokens, c) ==
  IF c \in Quotes THEN Inside(c, Append(tokens, <<c>>)) ELSE Outside(Append(tokens, <<"", c>>))

(* A character outside of quoted text is read as Read says. *)
LEMMA ScannedOutside ==
  ASSUME NEW tokens, NEW c
  PROVE  Scanned(Outside(tokens), c) = Read(tokens, c)
BY DEF Scanned, Outside, Inside, Read, Quotes, Quote, Apos

(* So is another one than the quote behind quoted text. *)
LEMMA ScannedBehind ==
  ASSUME NEW q \in Quotes, NEW tokens, NEW c, c # q
  PROVE  Scanned(Behind(q, tokens), c) = Read(tokens, c)
BY DEF Scanned, Outside, Inside, Behind, Read, Quotes, Quote, Apos

(* The token that is being read gets another character. *)
LEMMA LongerToken ==
  ASSUME NEW front \in Seq(Text), NEW token \in Text, NEW c \in Symbols
  PROVE  /\ Append(token, c) \in Text
         /\ [Append(front, token) EXCEPT ![Len(Append(front, token))] = Append(@, c)] =
              Append(front, Append(token, c))
<1> DEFINE T == Text
           longer == Append(token, c)
           tokens == Append(front, token)
<1>1. longer \in T
  BY DEF Text
<1>2. tokens[Len(tokens)] = token
  OBVIOUS
<1>3. [tokens EXCEPT ![Len(tokens)] = longer] = Append(front, longer)
  <2> HIDE DEF T, longer
  <2> QED
    BY <1>1, ExceptLast DEF T
<1> QED
  BY <1>1, <1>2, <1>3

(* A character inside is one of the token, and so is a doubled quote. *)
LEMMA ScannedInside ==
  ASSUME NEW q \in Quotes, NEW front \in Seq(Text), NEW token \in Text, NEW c \in Symbols,
         c # q
  PROVE  Scanned(Inside(q, Append(front, token)), c) =
           Inside(q, Append(front, Append(token, c)))
<1> DEFINE tokens == Append(front, token)
           longer == [tokens EXCEPT ![Len(tokens)] = Append(@, c)]
<1>1. longer = Append(front, Append(token, c))
  BY LongerToken
<1>2. Scanned(Inside(q, tokens), c) = Inside(q, longer)
  <2> HIDE DEF tokens
  <2> QED
    BY DEF Scanned, Inside, Quotes, Quote, Apos
<1> QED
  BY <1>1, <1>2

(* The same quote again is part of the quoted text. *)
LEMMA ScannedDoubled ==
  ASSUME NEW q \in Quotes, NEW front \in Seq(Text), NEW token \in Text
  PROVE  Scanned(Behind(q, Append(front, token)), q) =
           Inside(q, Append(front, Append(token, q)))
<1> DEFINE tokens == Append(front, token)
           longer == [tokens EXCEPT ![Len(tokens)] = Append(@, q)]
<1>1. longer = Append(front, Append(token, q))
  <2>1. q \in Symbols
    BY SymbolsFacts
  <2> QED
    BY <2>1, LongerToken
<1>2. Scanned(Behind(q, tokens), q) = Inside(q, longer)
  <2> HIDE DEF tokens
  <2> QED
    BY DEF Scanned, Inside, Behind, Quotes, Quote, Apos
<1> QED
  BY <1>1, <1>2

(* The quote that opened a text closes it, until the next character. *)
LEMMA ScannedClosing ==
  ASSUME NEW q \in Quotes, NEW tokens
  PROVE  Scanned(Inside(q, tokens), q) = Behind(q, tokens)
BY DEF Scanned, Inside, Behind, Quotes, Quote, Apos

(* The three kinds of states are states. *)
LEMMA StatesFacts ==
  /\ \A tokens \in Seq(Text) : Outside(tokens) \in States
  /\ \A q \in Quotes, tokens \in Parts : Inside(q, tokens) \in States /\ Behind(q, tokens) \in States
BY DEF States

(* A character read outside of quoted text leads to a state. *)
LEMMA ReadType ==
  ASSUME NEW tokens \in Seq(Text), NEW c \in Symbols
  PROVE  Read(tokens, c) \in States
<1> DEFINE opened == <<c>>
           word == <<"", c>>
<1>1. "" \in Symbols
  BY SymbolsFacts
<1>2. opened \in Text
  BY DEF Text
<1>3. word \in Text
  BY <1>1, ShortSequences DEF Text
<1>4. Read(tokens, c) = IF c \in Quotes THEN Inside(c, Append(tokens, opened))
                        ELSE Outside(Append(tokens, word))
  BY DEF Read
<1> HIDE DEF opened, word
<1>5. Append(tokens, opened) \in Parts
  BY <1>2, PartsAppend
<1>6. Append(tokens, word) \in Seq(Text)
  BY <1>3
<1> QED
  BY <1>4, <1>5, <1>6, StatesFacts

(* So does any character in any state. *)
LEMMA ScannedType ==
  ASSUME NEW s \in States, NEW c \in Symbols
  PROVE  Scanned(s, c) \in States
<1>1. ASSUME NEW tokens \in Seq(Text) PROVE Scanned(Outside(tokens), c) \in States
  BY ScannedOutside, ReadType
<1>2. ASSUME NEW q \in Quotes, NEW tokens \in Parts PROVE Scanned(Inside(q, tokens), c) \in States
  <2>1. PICK front \in Seq(Text), token \in Text : tokens = Append(front, token)
    BY PartsLast
  <2>2. Append(front, Append(token, c)) \in Parts
    BY LongerToken, PartsAppend
  <2>3. CASE c # q
    BY <2>1, <2>2, <2>3, ScannedInside, StatesFacts
  <2>4. CASE c = q
    BY <2>4, ScannedClosing, StatesFacts
  <2> QED
    BY <2>3, <2>4
<1>3. ASSUME NEW q \in Quotes, NEW tokens \in Parts PROVE Scanned(Behind(q, tokens), c) \in States
  <2>1. PICK front \in Seq(Text), token \in Text : tokens = Append(front, token)
    BY PartsLast
  <2>2. Append(front, Append(token, c)) \in Parts
    BY LongerToken, PartsAppend
  <2>3. CASE c # q
    BY <2>3, ScannedBehind, ReadType DEF Parts
  <2>4. CASE c = q
    BY <2>1, <2>2, <2>4, ScannedDoubled, StatesFacts
  <2> QED
    BY <2>3, <2>4
<1> QED
  BY <1>1, <1>2, <1>3 DEF States

(* The recursive function in Scan exists and is what it computes. *)
LEMMA ScanSteps ==
  ASSUME NEW str \in Text
  PROVE  \E g \in [0..Len(str) -> States] :
           /\ g[0] = Outside(<<>>)
           /\ \A n \in 1..Len(str) : g[n] = Scanned(g[n - 1], str[n])
           /\ Scan(str) = g[Len(str)]
<1> DEFINE L == Len(str)
           step == [x \in States \X (1..L) |-> Scanned(x[1], str[x[2]])]
           start == Outside(<<>>)
<1>1. L \in Nat
  BY DEF Text
<1>2. start \in States
  <2>1. <<>> \in Seq(Text)
    OBVIOUS
  <2> QED
    BY <2>1, StatesFacts
<1>3. \A n \in 1..L : str[n] \in Symbols
  BY DEF Text
<1>4. step \in [States \X (1..L) -> States]
  BY <1>3, ScannedType
<1>5. PICK g \in [0..L -> States] : Recurs(g, start, step, L)
  <2> HIDE DEF L, step, start
  <2> QED
    BY <1>1, <1>2, <1>4, RecursionExists
<1>6. g[0] = start
  BY <1>5, Zenon DEF Recurs
<1>7. ASSUME NEW n \in 1..L PROVE g[n] = Scanned(g[n - 1], str[n])
  <2>1. n - 1 \in 0..L
    BY <1>1
  <2>2. g[n - 1] \in States
    BY <2>1, Zenon
  <2>3. <<g[n - 1], n>> \in States \X (1..L)
    BY <2>2
  <2>4. g[n] = step[<<g[n - 1], n>>]
    BY <1>5, Zenon DEF Recurs
  <2> QED
    BY <2>3, <2>4
<1> DEFINE state == CHOOSE f : f = [n \in 0..Len(str) |->
                      IF n = 0 THEN Outside(<<>>) ELSE Scanned(f[n - 1], str[n])]
<1>8. Scan(str) = state[L]
  BY DEF Scan, Outside
<1>9. g = [n \in 0..L |-> IF n = 0 THEN start ELSE Scanned(g[n - 1], str[n])]
  <2>1. \A n \in 0..L : g[n] = IF n = 0 THEN start ELSE Scanned(g[n - 1], str[n])
    <3>1. ASSUME NEW n \in 0..L, n # 0 PROVE g[n] = Scanned(g[n - 1], str[n])
      <4>1. n \in 1..L
        BY <1>1, <3>1
      <4> QED
        BY <1>7, <4>1, Zenon
    <3> QED
      BY <1>6, <3>1, Zenon
  <2> HIDE DEF start
  <2> QED
    BY <2>1
<1>10. state = [n \in 0..L |-> IF n = 0 THEN start ELSE Scanned(state[n - 1], str[n])]
  BY <1>9, Zenon
<1> HIDE DEF state
<1>11. \A n \in 0..L : state[n] = IF n = 0 THEN start ELSE Scanned(state[n - 1], str[n])
  BY <1>10, Zenon
<1>12. state[L] = g[L]
  <2>1. state[0] = g[0]
    BY <1>1, <1>6, <1>11
  <2>2. ASSUME NEW n \in 1..L, state[n - 1] = g[n - 1] PROVE state[n] = g[n]
    <3>1. n \in 0..L /\ n # 0
      BY <1>1
    <3>2. state[n] = Scanned(state[n - 1], str[n])
      BY <1>11, <3>1, Zenon
    <3>3. g[n] = Scanned(g[n - 1], str[n])
      BY <1>7, Zenon
    <3> QED
      BY <2>2, <3>2, <3>3
  <2> HIDE DEF L
  <2> QED
    BY <1>1, <2>1, <2>2, Agreement
<1>13. Scan(str) = g[L]
  BY <1>8, <1>12
<1> QED
  BY <1>6, <1>7, <1>13, Zenon

(* The scanner, a character at a time. *)
LEMMA ScanAppend ==
  ASSUME NEW str \in Text, NEW c \in Symbols
  PROVE  /\ Scan(str) \in States
         /\ Scan(Append(str, c)) = Scanned(Scan(str), c)
<1> DEFINE L == Len(str)
           all == Append(str, c)
<1>1. L \in Nat /\ all \in Text /\ Len(all) = L + 1 /\ all[L + 1] = c
  BY DEF Text
<1>2. \A n \in 1..L : all[n] = str[n]
  BY DEF Text
<1>3. PICK g \in [0..Len(str) -> States] :
        /\ g[0] = Outside(<<>>)
        /\ \A n \in 1..Len(str) : g[n] = Scanned(g[n - 1], str[n])
        /\ Scan(str) = g[Len(str)]
  BY ScanSteps
<1>4. PICK f \in [0..Len(all) -> States] :
        /\ f[0] = Outside(<<>>)
        /\ \A n \in 1..Len(all) : f[n] = Scanned(f[n - 1], all[n])
        /\ Scan(all) = f[Len(all)]
  <2> HIDE DEF all
  <2> QED
    BY <1>1, ScanSteps
<1> HIDE DEF all
<1>5. ASSUME NEW n \in 1..L, f[n - 1] = g[n - 1] PROVE f[n] = g[n]
  <2>1. n \in 1..Len(all)
    BY <1>1
  <2>2. f[n] = Scanned(f[n - 1], all[n])
    BY <1>4, <2>1, Zenon
  <2>3. g[n] = Scanned(g[n - 1], str[n])
    BY <1>3, Zenon
  <2> QED
    BY <1>2, <1>5, <2>2, <2>3
<1>6. f[0] = g[0]
  BY <1>3, <1>4, Zenon
<1>7. f[L] = g[L]
  <2> HIDE DEF L
  <2> QED
    BY <1>1, <1>5, <1>6, Agreement
<1>8. f[L + 1] = Scanned(f[L], c)
  <2>1. L + 1 \in 1..Len(all) /\ (L + 1) - 1 = L
    BY <1>1
  <2>2. f[L + 1] = Scanned(f[(L + 1) - 1], all[L + 1])
    BY <1>4, <2>1, Zenon
  <2> QED
    BY <1>1, <2>1, <2>2
<1>9. Scan(str) = g[L] /\ Scan(all) = f[L + 1]
  BY <1>1, <1>3, <1>4, Zenon
<1>10. g[L] \in States
  <2>1. L \in 0..Len(str)
    BY <1>1
  <2> QED
    BY <2>1, Zenon
<1> QED
  BY <1>7, <1>8, <1>9, <1>10 DEF all

(* Nothing is read of the empty text. *)
LEMMA ScanEmpty ==
  Scan(<<>>) = Outside(<<>>)
<1>1. <<>> \in Text /\ Len(<<>>) = 0
  BY DEF Text
<1> QED
  BY <1>1, ScanSteps, Zenon

-------------------------------------------------------------------------------
(* Text that is put together. *)
LEMMA TextConcat ==
  ASSUME NEW a \in Text, NEW b \in Text
  PROVE  a \o b \in Text
BY ConcatProperties DEF Text

(* Three texts in a row are grouped either way. *)
LEMMA TextAssociative ==
  ASSUME NEW a \in Text, NEW b \in Text, NEW c \in Text
  PROVE  a \o (b \o c) = (a \o b) \o c
BY ConcatAssociative, SMTT(30) DEF Text

(* A character at the end of a text. *)
LEMMA TextAppend ==
  ASSUME NEW a \in Text, NEW b \in Text, NEW c \in Symbols
  PROVE  /\ Append(a, c) \in Text /\ <<c>> \in Text
         /\ a \o Append(b, c) = Append(a \o b, c)
         /\ a \o <<c>> = Append(a, c)
         /\ a \o (b \o <<c>>) = Append(a \o b, c)
<1>1. Append(a, c) \in Text /\ <<c>> \in Text
  BY DEF Text
<1>2. a \o Append(b, c) = Append(a \o b, c) /\ a \o <<c>> = Append(a, c) /\ b \o <<c>> = Append(b, c)
  BY ConcatAppend DEF Text
<1> QED
  BY <1>1, <1>2

(* A one-character text at the end of two texts. *)
LEMMA TextLast ==
  ASSUME NEW a \in Text, NEW b \in Text, NEW c \in Symbols
  PROVE  a \o (b \o <<c>>) = Append(a \o b, c)
BY TextAppend

(* The empty text adds nothing. *)
LEMMA TextEmpty ==
  /\ <<>> \in Text
  /\ \A a \in Text : a \o <<>> = a /\ <<>> \o a = a
BY ConcatEmptySeq DEF Text

(* A doubled quote inside of the text it quotes is read as one. *)
LEMMA ScanDoubled ==
  ASSUME NEW q \in Quotes, NEW pre \in Text, NEW tokens \in Seq(Text), NEW token \in Text,
         Scan(pre) = Inside(q, Append(tokens, token))
  PROVE  Scan(pre \o <<q, q>>) = Inside(q, Append(tokens, Append(token, q)))
<1>1. q \in Symbols
  BY SymbolsFacts
<1>2. Append(pre, q) \in Text /\ <<q>> \in Text
  BY <1>1, TextAppend
<1>3. pre \o <<q, q>> = Append(Append(pre, q), q)
  <2>1. <<q, q>> = <<q>> \o <<q>>
    BY <1>1, ShortSequences
  <2>2. pre \o (<<q>> \o <<q>>) = Append(pre \o <<q>>, q)
    BY <1>1, <1>2, TextAppend
  <2>3. pre \o <<q>> = Append(pre, q)
    BY <1>1, TextAppend
  <2> QED
    BY <2>1, <2>2, <2>3
<1>4. Scan(Append(pre, q)) = Behind(q, Append(tokens, token))
  BY <1>1, ScanAppend, ScannedClosing
<1>5. Scan(Append(Append(pre, q), q)) = Inside(q, Append(tokens, Append(token, q)))
  BY <1>1, <1>2, <1>4, ScanAppend, ScannedDoubled
<1> QED
  BY <1>3, <1>5

(* The token that an opening quote starts is the text before its quotes    *)
(* were doubled.                                                           *)
LEMMA ScanQuoted ==
  ASSUME NEW q \in Quotes, NEW pre \in Text, NEW tokens \in Seq(Text),
         Scan(pre) = Outside(tokens), NEW p \in Text
  PROVE  Scan((pre \o <<q>>) \o Replaced(p, q, <<q, q>>)) =
           Inside(q, Append(tokens, <<q>> \o p))
<1> DEFINE two == <<q, q>>
           D(r) == Replaced(r, q, two)
           open == pre \o <<q>>
           one == <<q>>
           T == {r \in Text : Scan(open \o D(r)) = Inside(q, Append(tokens, one \o r))}
<1>1. q \in Symbols
  BY SymbolsFacts
<1>2. one \in Text /\ two \in Text
  BY <1>1, ShortSequences DEF Text
<1>3. open \in Text
  BY <1>2, TextConcat
<1>4. <<>> \in T
  <2>1. D(<<>>) = <<>>
    BY ReplacedEmpty
  <2>2. open \o <<>> = open /\ one \o <<>> = one /\ open = Append(pre, q)
    BY <1>1, <1>2, <1>3, TextEmpty, TextAppend
  <2>3. Scan(Append(pre, q)) = Scanned(Outside(tokens), q)
    BY <1>1, ScanAppend
  <2>4. Scanned(Outside(tokens), q) = Inside(q, Append(tokens, one))
    BY ScannedOutside DEF Read
  <2>5. Scan(open \o D(<<>>)) = Inside(q, Append(tokens, one \o <<>>))
    BY <2>1, <2>2, <2>3, <2>4
  <2> QED
    BY <2>5, TextEmpty
<1>5. ASSUME NEW r \in Text, NEW c \in Symbols, r \in T PROVE Append(r, c) \in T
  <2>1. D(r) \in Text /\ D(Append(r, c)) = D(r) \o (IF c = q THEN two ELSE <<c>>)
    <3> HIDE DEF two
    <3> QED
      BY <1>2, ReplacedAppend, SMTT(30)
  <2>2. Append(r, c) \in Text /\ one \o r \in Text /\ open \o D(r) \in Text
    BY <1>2, <1>3, <2>1, TextAppend, TextConcat
  <2>3. one \o Append(r, c) = Append(one \o r, c)
    BY <1>2, TextAppend
  <2>4. Scan(open \o D(r)) = Inside(q, Append(tokens, one \o r))
    BY <1>5
  <2>5. CASE c = q
    <3>1. open \o (D(r) \o two) = (open \o D(r)) \o two
      <4> HIDE DEF D, open, two
      <4> QED
        BY <1>2, <1>3, <2>1, TextAssociative, SMTT(30)
    <3>2. Scan((open \o D(r)) \o <<q, q>>) = Inside(q, Append(tokens, Append(one \o r, q)))
      <4> HIDE DEF D, open, one
      <4> QED
        BY <2>2, <2>4, ScanDoubled
    <3>3. Scan(open \o D(Append(r, c))) = Inside(q, Append(tokens, one \o Append(r, c)))
      BY <2>1, <2>3, <2>5, <3>1, <3>2
    <3> QED
      BY <2>2, <3>3
  <2>6. CASE c # q
    <3>1. open \o (D(r) \o <<c>>) = Append(open \o D(r), c)
      <4> DEFINE x == D(r)
      <4>1. open \in Text /\ x \in Text
        BY <1>3, <2>1
      <4> HIDE DEF open, x
      <4>2. open \o (x \o <<c>>) = Append(open \o x, c)
        BY <4>1, TextLast
      <4> QED
        BY <4>2 DEF x
    <3>2. Scan(Append(open \o D(r), c)) = Inside(q, Append(tokens, Append(one \o r, c)))
      <4> HIDE DEF D, open, one
      <4> QED
        BY <2>2, <2>4, <2>6, ScanAppend, ScannedInside
    <3>3. Scan(open \o D(Append(r, c))) = Inside(q, Append(tokens, one \o Append(r, c)))
      BY <2>1, <2>3, <2>6, <3>1, <3>2
    <3> QED
      BY <2>2, <3>3
  <2> QED
    BY <2>5, <2>6
<1>6. Text \subseteq T
  <2> HIDE DEF T
  <2> QED
    BY <1>4, <1>5, SequenceInductionAppend DEF Text
<1> QED
  BY <1>6

-------------------------------------------------------------------------------
(* strings.Join, a part at a time. *)
LEMMA JoinEmpty ==
  Join(<<>>) = <<>>
<1>1. [n \in DOMAIN <<>> |-> IF n = 1 THEN <<>>[1] ELSE <<Dot>> \o <<>>[n]] = <<>>
  OBVIOUS
<1> QED
  BY <1>1, FlattenEmpty DEF Join

(* The last part is joined last. *)
LEMMA JoinAppend ==
  ASSUME NEW parts \in Seq(Text), NEW p \in Text
  PROVE  /\ Join(parts) \in Text
         /\ Join(Append(parts, p)) =
              Join(parts) \o (IF parts = <<>> THEN p ELSE <<Dot>> \o p)
<1> DEFINE L == Len(parts)
           all == Append(parts, p)
           dot == <<Dot>>
           Piece(n, r) == IF n = 1 THEN r ELSE dot \o r
           last == Piece(L + 1, p)
           f == [n \in 1..L |-> Piece(n, parts[n])]
           g == [n \in 1..(L + 1) |-> Piece(n, all[n])]
<1>1. dot \in Text
  BY SymbolsFacts, ShortSequences DEF Text
<1>2. ASSUME NEW n \in Nat, NEW r \in Text PROVE Piece(n, r) \in Text
  BY <1>1, TextConcat
<1>3. L \in Nat /\ DOMAIN parts = 1..L /\ DOMAIN all = 1..(L + 1)
  <2>1. all \in Seq(Text) /\ Len(all) = L + 1
    BY AppendProperties
  <2> HIDE DEF all
  <2> QED
    BY <2>1, LenProperties
<1>4. all[L + 1] = p /\ \A n \in 1..L : all[n] = parts[n] /\ parts[n] \in Text
  BY AppendProperties, ElementOfSeq
<1>5. Join(parts) = FlattenSeq(f)
  BY <1>3 DEF Join
<1>6. Join(all) = FlattenSeq(g)
  <2> HIDE DEF all, L
  <2> QED
    BY <1>3 DEF Join
<1> HIDE DEF dot, Piece, all
<1>7. f \in Seq(Text) /\ Len(f) = L
  <2>1. f \in [1..L -> Text]
    BY <1>2, <1>3, <1>4
  <2> QED
    BY <1>3, <2>1
<1>8. \A n \in 1..L : g[n] = f[n]
  BY <1>3, <1>4
<1>9. last \in Text /\ g[L + 1] = last
  BY <1>2, <1>3, <1>4
<1>10. g \in [1..(L + 1) -> Text]
  <2>1. \A n \in 1..(L + 1) : n \in Nat /\ all[n] \in Text
    BY <1>3, <1>4
  <2> QED
    BY <1>2, <2>1
<1>11. g = Append(f, last)
  <2> HIDE DEF f, g, last, L
  <2> QED
    BY <1>3, <1>7, <1>8, <1>9, <1>10, AppendByPoints
<1>12. FlattenSeq(f) \in Text /\ FlattenSeq(Append(f, last)) = FlattenSeq(f) \o last
  <2> HIDE DEF f, last
  <2> QED
    BY <1>7, <1>9, FlattenAppend DEF Text
<1>13. last = IF parts = <<>> THEN p ELSE dot \o p
  <2>1. parts = <<>> <=> L + 1 = 1
    BY <1>3, EmptySeq
  <2> QED
    BY <2>1 DEF Piece
<1> QED
  BY <1>5, <1>6, <1>11, <1>12, <1>13 DEF all, dot

(* The parts are joined after something is done to each. *)
LEMMA JoinMapped ==
  ASSUME NEW F \in [Text -> Text], NEW ps \in Seq(Text), NEW p \in Text
  PROVE  /\ Join([n \in DOMAIN ps |-> F[ps[n]]]) \in Text
         /\ Join([n \in DOMAIN Append(ps, p) |-> F[Append(ps, p)[n]]]) =
              Join([n \in DOMAIN ps |-> F[ps[n]]]) \o (IF ps = <<>> THEN F[p] ELSE <<Dot>> \o F[p])
<1> DEFINE L == Len(ps)
           all == Append(ps, p)
           last == F[p]
           f == [n \in 1..L |-> F[ps[n]]]
           g == [n \in 1..(L + 1) |-> F[all[n]]]
<1>1. L \in Nat /\ DOMAIN ps = 1..L /\ DOMAIN all = 1..(L + 1)
  <2>1. all \in Seq(Text) /\ Len(all) = L + 1
    BY AppendProperties
  <2> HIDE DEF all
  <2> QED
    BY <2>1, LenProperties
<1>2. all[L + 1] = p /\ \A n \in 1..L : all[n] = ps[n] /\ ps[n] \in Text
  BY AppendProperties, ElementOfSeq
<1>3. Join([n \in DOMAIN ps |-> F[ps[n]]]) = Join(f)
  BY <1>1
<1>4. Join([n \in DOMAIN all |-> F[all[n]]]) = Join(g)
  <2> HIDE DEF all, L
  <2> QED
    BY <1>1
<1> HIDE DEF all
<1>5. f \in Seq(Text) /\ Len(f) = L
  <2>1. f \in [1..L -> Text]
    BY <1>1, <1>2
  <2> QED
    BY <1>1, <2>1
<1>6. \A n \in 1..L : g[n] = f[n]
  BY <1>1, <1>2
<1>7. last \in Text /\ g[L + 1] = last
  BY <1>1, <1>2
<1>8. g \in [1..(L + 1) -> Text]
  <2>1. \A n \in 1..(L + 1) : all[n] \in Text
    BY <1>1, <1>2
  <2> QED
    BY <2>1
<1>9. g = Append(f, last)
  <2> HIDE DEF f, g, last, L
  <2> QED
    BY <1>1, <1>5, <1>6, <1>7, <1>8, AppendByPoints
<1>10. f = <<>> <=> ps = <<>>
  <2> HIDE DEF f
  <2> QED
    BY <1>1, <1>5, EmptySeq
<1>11. Join(f) \in Text /\ Join(Append(f, last)) = Join(f) \o (IF f = <<>> THEN last ELSE <<Dot>> \o last)
  <2> HIDE DEF f, last
  <2> QED
    BY <1>5, <1>7, JoinAppend
<1> QED
  BY <1>3, <1>4, <1>9, <1>10, <1>11 DEF all

-------------------------------------------------------------------------------
(* escapeLiteral and Spelled, by the parts of a name. *)
Clean(p) == Replaced(p, Nul, <<>>)

Doubled(p) == Replaced(Clean(p), Quote, <<Quote, Quote>>)

QuotedPart(p) ==
  IF Doubled(p) = <<"*">> THEN <<"*">> ELSE <<Quote>> \o Doubled(p) \o <<Quote>>

Escaped(ps) == Join([n \in DOMAIN ps |-> QuotedPart(ps[n])])

NamedPart(p) == IF Clean(p) = <<"*">> THEN Bare("*") ELSE << <<Quote>> \o Clean(p) >>

Named(ps) ==
  FlattenSeq([n \in DOMAIN ps |-> IF n = 1 THEN NamedPart(ps[1])
                                  ELSE Bare(Dot) \o NamedPart(ps[n])])

(* Both are what is done to the parts of the name. *)
LEMMA ByParts ==
  ASSUME NEW str
  PROVE  /\ escapeLiteral(str) = Escaped(Split(str))
         /\ Spelled(str) = Named(Split(str))
<1>1. escapeLiteral(str) = Escaped(Split(str))
  BY DEF escapeLiteral, Escaped, QuotedPart, Doubled, Clean
<1>2. Spelled(str) = Named(Split(str))
  BY DEF Spelled, Named, NamedPart, Clean
<1> QED
  BY <1>1, <1>2

(* The short texts that the statements are made of. *)
LEMMA TextWords ==
  /\ <<Quote>> \in Text /\ <<Quote, Quote>> \in Text /\ <<Dot>> \in Text /\ <<"*">> \in Text
  /\ \A c \in Symbols : <<"", c>> \in Text /\ Bare(c) \in Seq(Text)
<1>1. Quote \in Symbols /\ Dot \in Symbols /\ "*" \in Symbols /\ "" \in Symbols
  BY SymbolsFacts
<1>2. \A c \in Symbols : <<c>> \in Text
  BY ShortSequences DEF Text
<1>3. <<Quote, Quote>> \in Text
  BY <1>1, ShortSequences DEF Text
<1>4. ASSUME NEW c \in Symbols PROVE <<"", c>> \in Text /\ Bare(c) \in Seq(Text)
  <2> DEFINE word == <<"", c>>
  <2>1. word \in Text
    BY <1>1, ShortSequences DEF Text
  <2>2. <<word>> \in Seq(Text)
    <3> HIDE DEF word
    <3> QED
      BY <2>1
  <2> QED
    BY <2>1, <2>2 DEF Bare
<1> QED
  BY <1>1, <1>2, <1>3, <1>4

(* A text stays one when a character is replaced. *)
LEMMA ReplacedType ==
  ASSUME NEW p \in Text, NEW old, NEW new \in Text
  PROVE  Replaced(p, old, new) \in Text
BY ReplacedAppend, SymbolsFacts

(* What is made of a part is a text, or a sequence of tokens. *)
LEMMA PartTypes ==
  ASSUME NEW p \in Text
  PROVE  /\ Clean(p) \in Text /\ Doubled(p) \in Text /\ QuotedPart(p) \in Text
         /\ <<Quote>> \o Clean(p) \in Text
         /\ NamedPart(p) \in Seq(Text)
<1>1. Clean(p) \in Text
  BY ReplacedType, TextEmpty DEF Clean
<1>2. Doubled(p) \in Text
  <2> DEFINE two == <<Quote, Quote>>
  <2>1. two \in Text
    BY TextWords
  <2>2. Doubled(p) = Replaced(Clean(p), Quote, two)
    BY DEF Doubled
  <2> HIDE DEF two
  <2> QED
    BY <1>1, <2>1, <2>2, ReplacedType
<1>3. QuotedPart(p) \in Text
  <2> DEFINE one == <<Quote>>
  <2>1. one \in Text /\ <<"*">> \in Text
    BY TextWords
  <2>2. one \o Doubled(p) \o one \in Text
    <3> HIDE DEF one
    <3> QED
      BY <1>2, <2>1, TextConcat
  <2> QED
    BY <2>1, <2>2 DEF QuotedPart
<1>4. <<Quote>> \o Clean(p) \in Text
  BY <1>1, TextWords, TextConcat
<1>5. NamedPart(p) \in Seq(Text)
  <2> DEFINE word == <<Quote>> \o Clean(p)
  <2>1. <<word>> \in Seq(Text)
    <3> HIDE DEF word
    <3> QED
      BY <1>4 DEF word
  <2>2. Bare("*") \in Seq(Text)
    BY TextWords, SymbolsFacts
  <2> QED
    BY <2>1, <2>2 DEF NamedPart
<1> QED
  BY <1>1, <1>2, <1>3, <1>4, <1>5

(* No parts are no text. *)
LEMMA EscapedEmpty ==
  Escaped(<<>>) = <<>>
<1>1. [n \in DOMAIN <<>> |-> QuotedPart(<<>>[n])] = <<>>
  OBVIOUS
<1> QED
  BY <1>1, JoinEmpty DEF Escaped

(* The last part is quoted last, behind a dot. *)
LEMMA EscapedAppend ==
  ASSUME NEW ps \in Seq(Text), NEW p \in Text
  PROVE  /\ Escaped(ps) \in Text
         /\ Escaped(Append(ps, p)) =
              Escaped(ps) \o (IF ps = <<>> THEN QuotedPart(p) ELSE <<Dot>> \o QuotedPart(p))
<1> DEFINE F == [r \in Text |-> QuotedPart(r)]
           M(rs) == Join([n \in DOMAIN rs |-> F[rs[n]]])
<1>1. F \in [Text -> Text] /\ F[p] = QuotedPart(p)
  BY PartTypes
<1>2. ASSUME NEW rs \in Seq(Text) PROVE Escaped(rs) = M(rs)
  <2>1. \A n \in DOMAIN rs : F[rs[n]] = QuotedPart(rs[n])
    BY LenProperties, ElementOfSeq
  <2> HIDE DEF F
  <2>2. [n \in DOMAIN rs |-> F[rs[n]]] = [n \in DOMAIN rs |-> QuotedPart(rs[n])]
    BY <2>1
  <2> QED
    BY <2>2 DEF Escaped
<1>3. Escaped(ps) = M(ps) /\ Escaped(Append(ps, p)) = M(Append(ps, p))
  <2>1. Append(ps, p) \in Seq(Text)
    BY AppendProperties
  <2> HIDE DEF M
  <2> QED
    BY <1>2, <2>1
<1>4. M(ps) \in Text /\ M(Append(ps, p)) = M(ps) \o (IF ps = <<>> THEN F[p] ELSE <<Dot>> \o F[p])
  <2> HIDE DEF F
  <2> QED
    BY <1>1, JoinMapped, Zenon
<1> HIDE DEF M, F
<1> QED
  BY <1>1, <1>3, <1>4

(* No parts are no tokens. *)
LEMMA NamedEmpty ==
  Named(<<>>) = <<>>
<1>1. [n \in DOMAIN <<>> |-> IF n = 1 THEN NamedPart(<<>>[1])
                            ELSE Bare(Dot) \o NamedPart(<<>>[n])] = <<>>
  OBVIOUS
<1> QED
  BY <1>1, FlattenEmpty DEF Named

(* The last part is meant last, behind a dot. *)
LEMMA NamedAppend ==
  ASSUME NEW ps \in Seq(Text), NEW p \in Text
  PROVE  /\ Named(ps) \in Seq(Text)
         /\ Named(Append(ps, p)) =
              Named(ps) \o (IF ps = <<>> THEN NamedPart(p) ELSE Bare(Dot) \o NamedPart(p))
<1> DEFINE L == Len(ps)
           all == Append(ps, p)
           Piece(n, r) == IF n = 1 THEN NamedPart(r) ELSE Bare(Dot) \o NamedPart(r)
           last == Piece(L + 1, p)
           f == [n \in 1..L |-> Piece(n, ps[n])]
           g == [n \in 1..(L + 1) |-> Piece(n, all[n])]
           T == Seq(Text)
<1>1. Bare(Dot) \in T
  BY TextWords, SymbolsFacts
<1>2. ASSUME NEW n \in Nat, NEW r \in Text PROVE Piece(n, r) \in T
  <2>1. NamedPart(r) \in T
    BY PartTypes
  <2> QED
    BY <1>1, <2>1, ConcatProperties
<1>3. L \in Nat /\ DOMAIN ps = 1..L /\ DOMAIN all = 1..(L + 1)
  <2>1. all \in Seq(Text) /\ Len(all) = L + 1
    BY AppendProperties
  <2> HIDE DEF all
  <2> QED
    BY <2>1, LenProperties
<1>4. all[L + 1] = p /\ \A n \in 1..L : all[n] = ps[n] /\ ps[n] \in Text
  BY AppendProperties, ElementOfSeq
<1>5. Named(ps) = FlattenSeq(f)
  BY <1>3 DEF Named
<1>6. Named(all) = FlattenSeq(g)
  <2> HIDE DEF all, L
  <2> QED
    BY <1>3 DEF Named
<1> HIDE DEF Piece, all, T
<1>7. f \in Seq(T) /\ Len(f) = L
  <2>1. f \in [1..L -> T]
    BY <1>2, <1>3, <1>4
  <2> QED
    BY <1>3, <2>1
<1>8. \A n \in 1..L : g[n] = f[n]
  BY <1>3, <1>4
<1>9. last \in T /\ g[L + 1] = last
  BY <1>2, <1>3, <1>4
<1>10. g \in [1..(L + 1) -> T]
  <2>1. \A n \in 1..(L + 1) : n \in Nat /\ all[n] \in Text
    BY <1>3, <1>4
  <2> QED
    BY <1>2, <2>1
<1>11. g = Append(f, last)
  <2> HIDE DEF f, g, last, L
  <2> QED
    BY <1>3, <1>7, <1>8, <1>9, <1>10, AppendByPoints
<1>12. FlattenSeq(f) \in T /\ FlattenSeq(Append(f, last)) = FlattenSeq(f) \o last
  <2> HIDE DEF f, last
  <2> QED
    BY <1>7, <1>9, FlattenAppend DEF T
<1>13. last = IF ps = <<>> THEN NamedPart(p) ELSE Bare(Dot) \o NamedPart(p)
  <2>1. ps = <<>> <=> L + 1 = 1
    BY <1>3, EmptySeq
  <2> QED
    BY <2>1 DEF Piece
<1> QED
  BY <1>5, <1>6, <1>11, <1>12, <1>13 DEF all, T

(* Only * itself is * once its quotes are doubled. *)
LEMMA DoubledStar ==
  ASSUME NEW p \in Text
  PROVE  Doubled(p) = <<"*">> <=> Clean(p) = <<"*">>
<1> DEFINE q == Clean(p)
           two == <<Quote, Quote>>
           D(r) == Replaced(r, Quote, two)
<1>1. q \in Text /\ two \in Text
  BY PartTypes, TextWords
<1>2. Len(two) = 2
  OBVIOUS
<1>3. ASSUME NEW r \in Text, NEW c \in Symbols
      PROVE  /\ D(r) \in Text
             /\ c = Quote => D(Append(r, c)) = D(r) \o two
             /\ c # Quote => D(Append(r, c)) = Append(D(r), c)
  <2>1. D(r) \in Text /\ D(Append(r, c)) = D(r) \o (IF c = Quote THEN two ELSE <<c>>)
    <3> HIDE DEF two
    <3> QED
      BY <1>1, ReplacedAppend
  <2>2. D(r) \o <<c>> = Append(D(r), c)
    <3> HIDE DEF D
    <3> QED
      BY <2>1, TextAppend
  <2> QED
    BY <2>1, <2>2
<1>4. D(<<>>) = <<>>
  BY ReplacedEmpty
<1>5. Doubled(p) = D(q)
  BY DEF Doubled
<1> HIDE DEF D, two, q
<1>6. \A r \in Text : Len(r) \in Nat /\ (Len(r) = 0 <=> r = <<>>)
  BY EmptySeq, LenProperties DEF Text
<1>7. <<>> \in Text /\ "*" \in Symbols /\ "*" # Quote
  BY TextEmpty, SymbolsFacts DEF Quote
<1>8. <<"*">> = Append(<<>>, "*")
  OBVIOUS
<1>9. q = <<"*">> => D(q) = <<"*">>
  <2>1. D(Append(<<>>, "*")) = Append(D(<<>>), "*")
    BY <1>3, <1>7
  <2> QED
    BY <1>4, <1>8, <2>1
<1>10. ASSUME D(q) = Append(<<>>, "*") PROVE q = Append(<<>>, "*")
  <2>1. q # <<>>
    <3>1. Append(<<>>, "*") # <<>>
      BY <1>7, AppendProperties DEF Text
    <3> QED
      BY <1>4, <1>10, <3>1
  <2>2. PICK r \in Text, c \in Symbols : q = Append(r, c)
    BY <1>1, <2>1, SequenceEmptyOrAppend DEF Text
  <2>3. D(r) \in Text
    BY <1>3
  <2>4. c # Quote
    <3>1. SUFFICES ASSUME c = Quote PROVE FALSE
      OBVIOUS
    <3>2. D(q) = D(r) \o two
      BY <1>3, <2>2, <3>1
    <3>3. Len(D(r) \o two) = Len(D(r)) + 2 /\ Len(D(r)) \in Nat
      BY <1>1, <1>2, <1>6, <2>3, ConcatProperties DEF Text, two
    <3>4. Len(Append(<<>>, "*")) = 1
      OBVIOUS
    <3> QED
      BY <1>10, <3>2, <3>3, <3>4
  <2>5. Append(D(r), c) = Append(<<>>, "*")
    BY <1>3, <1>10, <2>2, <2>4
  <2>6. D(r) = <<>> /\ c = "*"
    <3> DEFINE none == <<>>
               star == "*"
    <3>1. none \in Seq(Symbols) /\ star \in Symbols /\ D(r) \in Seq(Symbols)
      BY <1>7, <2>3 DEF Text
    <3>2. Append(D(r), c) = Append(none, star)
      BY <2>5
    <3>3. D(r) = none /\ c = star
      <4> HIDE DEF none, star
      <4> QED
        BY <3>1, <3>2, AppendInjective
    <3> QED
      BY <3>3
  <2>7. r = <<>>
    <3>1. SUFFICES ASSUME r # <<>> PROVE FALSE
      OBVIOUS
    <3>2. PICK u \in Text, d \in Symbols : r = Append(u, d)
      BY <3>1, SequenceEmptyOrAppend DEF Text
    <3>3. D(u) \in Text
      BY <1>3
    <3>4. CASE d = Quote
      <4>1. D(r) = D(u) \o two
        BY <1>3, <3>2, <3>4
      <4>2. Len(D(u) \o two) = Len(D(u)) + Len(two) /\ Len(D(u)) \in Nat
        BY <1>1, <1>6, <3>3, ConcatProperties DEF Text
      <4> QED
        BY <1>1, <1>2, <1>6, <1>7, <2>6, <4>1, <4>2 DEF two
    <3>5. CASE d # Quote
      <4>1. D(r) = Append(D(u), d)
        BY <1>3, <3>2, <3>5
      <4> QED
        BY <2>6, <3>3, <4>1, AppendProperties DEF Text
    <3> QED
      BY <3>4, <3>5
  <2> QED
    BY <2>2, <2>6, <2>7
<1> QED
  BY <1>5, <1>8, <1>9, <1>10 DEF q

-------------------------------------------------------------------------------
(* What has been read when no quote is open. *)
Finished(tokens) == {Outside(tokens)} \cup {Behind(q, tokens) : q \in Quotes}

(* They are what the server has read, and no quote is left open. *)
LEMMA TokensFinished ==
  ASSUME NEW str, NEW tokens, Scan(str) \in Finished(tokens)
  PROVE  /\ Scan(str).tokens = tokens
         /\ Scan(str).quote = "" \/ Scan(str).behind
         /\ Tokens(str) = Shorten(tokens)
<1>1. Scan(str).tokens = tokens /\ (Scan(str).quote = "" \/ Scan(str).behind)
  <2>1. CASE Scan(str) = Outside(tokens)
    <3>1. Outside(tokens).quote = "" /\ Outside(tokens).tokens = tokens
      BY Zenon DEF Outside
    <3> QED
      BY <2>1, <3>1, Zenon
  <2>2. ASSUME NEW q \in Quotes, Scan(str) = Behind(q, tokens)
        PROVE  Scan(str).tokens = tokens /\ Scan(str).behind
    BY <2>2 DEF Behind
  <2> QED
    BY <2>1, <2>2 DEF Finished
<1> QED
  BY <1>1 DEF Tokens

(* Sequences of tokens in a row. *)
LEMMA TokensAlgebra ==
  ASSUME NEW a \in Seq(Text), NEW b \in Seq(Text), NEW c \in Seq(Text), NEW e \in Text
  PROVE  /\ a \o <<e>> = Append(a, e) /\ Append(a, e) \in Seq(Text)
         /\ a \o b \in Seq(Text)
         /\ a \o (b \o c) = (a \o b) \o c
         /\ a \o <<>> = a /\ <<>> \o a = a
<1>1. a \o <<e>> = Append(a, e) /\ Append(a, e) \in Seq(Text) /\ a \o b \in Seq(Text)
  BY ConcatAppend, AppendProperties
<1>2. a \o (b \o c) = (a \o b) \o c
  BY ConcatAssociative, SMTT(30)
<1>3. a \o <<>> = a /\ <<>> \o a = a
  BY ConcatEmptySeq
<1> QED
  BY <1>1, <1>2, <1>3

(* Texts, and what is read of them, are chained in any grouping. *)
LEMMA TextChained ==
  Chained(Text) /\ Chained(Seq(Text))
BY ConcatChained, Zenon DEF Text

(* A keyword, a dot or a star ends what was read before. *)
LEMMA ScanWord ==
  ASSUME NEW pre \in Text, NEW tokens \in Seq(Text), Scan(pre) \in Finished(tokens),
         NEW c \in Symbols, c \notin Quotes
  PROVE  /\ pre \o <<c>> \in Text
         /\ tokens \o Bare(c) \in Seq(Text)
         /\ Scan(pre \o <<c>>) = Outside(tokens \o Bare(c))
<1>1. pre \o <<c>> = Append(pre, c) /\ Append(pre, c) \in Text
  BY TextAppend
<1>2. Read(tokens, c) = Outside(Append(tokens, <<"", c>>))
  BY DEF Read
<1>3. Scanned(Scan(pre), c) = Read(tokens, c)
  <2>1. CASE Scan(pre) = Outside(tokens)
    BY <2>1, ScannedOutside
  <2>2. ASSUME NEW q \in Quotes, Scan(pre) = Behind(q, tokens)
        PROVE  Scanned(Scan(pre), c) = Read(tokens, c)
    BY <2>2, ScannedBehind
  <2> QED
    BY <2>1, <2>2 DEF Finished
<1>4. Scan(Append(pre, c)) = Scanned(Scan(pre), c)
  BY ScanAppend
<1>5. Append(tokens, <<"", c>>) = tokens \o Bare(c) /\ tokens \o Bare(c) \in Seq(Text)
  <2> DEFINE word == <<"", c>>
  <2>1. word \in Text
    BY TextWords
  <2>2. Bare(c) = <<word>>
    BY DEF Bare
  <2> HIDE DEF word
  <2>3. Append(tokens, word) = tokens \o <<word>> /\ Append(tokens, word) \in Seq(Text)
    BY <2>1, TokensAlgebra
  <2> QED
    BY <2>2, <2>3 DEF word
<1> QED
  BY <1>1, <1>2, <1>3, <1>4, <1>5

(* A text between quotes is read as it was before they were doubled. *)
LEMMA ScanQuotedText ==
  ASSUME NEW q \in Quotes, NEW pre \in Text, NEW tokens \in Seq(Text),
         Scan(pre) = Outside(tokens), NEW p \in Text
  PROVE  Scan(pre \o (<<q>> \o Replaced(p, q, <<q, q>>) \o <<q>>)) =
           Behind(q, tokens \o << <<q>> \o p >>)
<1> DEFINE one == <<q>>
           two == <<q, q>>
           d == Replaced(p, q, two)
           word == one \o p
<1>1. q \in Symbols
  BY SymbolsFacts
<1>2. one \in Text /\ two \in Text
  BY <1>1, ShortSequences DEF Text
<1>3. d \in Text
  <2> HIDE DEF two
  <2> QED
    BY <1>2, ReplacedType
<1>4. Scan((pre \o one) \o d) = Inside(q, Append(tokens, word))
  BY ScanQuoted
<1> HIDE DEF d
<1>5. (pre \o one) \o d \in Text
  <2> HIDE DEF one
  <2> QED
    BY <1>2, <1>3, TextConcat
<1>6. pre \o ((one \o d) \o <<q>>) = Append((pre \o one) \o d, q)
  <2>1. one \o d \in Text
    BY <1>2, <1>3, TextConcat
  <2>2. pre \o ((one \o d) \o <<q>>) = Append(pre \o (one \o d), q)
    BY <1>1, <2>1, TextAppend
  <2>3. pre \o (one \o d) = (pre \o one) \o d
    BY <1>2, <1>3, TextAssociative, SMTT(30)
  <2> QED
    BY <2>2, <2>3
<1>7. Scan(Append((pre \o one) \o d, q)) = Behind(q, Append(tokens, word))
  <2> HIDE DEF one, word
  <2> QED
    BY <1>1, <1>4, <1>5, ScanAppend, ScannedClosing
<1>8. Append(tokens, word) = tokens \o <<word>>
  <2>1. word \in Text
    BY <1>2, TextConcat
  <2> HIDE DEF word
  <2> QED
    BY <2>1, TokensAlgebra
<1> QED
  BY <1>6, <1>7, <1>8 DEF d

(* A part of a name is read as what it means. *)
LEMMA ScanPart ==
  ASSUME NEW pre \in Text, NEW tokens \in Seq(Text), Scan(pre) = Outside(tokens), NEW p \in Text
  PROVE  Scan(pre \o QuotedPart(p)) \in Finished(tokens \o NamedPart(p))
<1>1. Clean(p) \in Text
  BY PartTypes
<1>2. Doubled(p) = <<"*">> <=> Clean(p) = <<"*">>
  BY DoubledStar
<1>3. CASE Clean(p) = <<"*">>
  <2>1. QuotedPart(p) = <<"*">> /\ NamedPart(p) = Bare("*")
    BY <1>2, <1>3 DEF QuotedPart, NamedPart
  <2>2. "*" \in Symbols /\ "*" \notin Quotes
    BY SymbolsFacts DEF Quotes, Quote, Apos
  <2>3. Scan(pre) \in Finished(tokens)
    BY DEF Finished
  <2>4. Scan(pre \o <<"*">>) = Outside(tokens \o Bare("*"))
    BY <2>2, <2>3, ScanWord
  <2> QED
    BY <2>1, <2>4 DEF Finished
<1>4. CASE Clean(p) # <<"*">>
  <2>1. NamedPart(p) = << <<Quote>> \o Clean(p) >>
    BY <1>4 DEF NamedPart
  <2>2. QuotedPart(p) = <<Quote>> \o Replaced(Clean(p), Quote, <<Quote, Quote>>) \o <<Quote>>
    BY <1>2, <1>4 DEF QuotedPart, Doubled
  <2>3. Quote \in Quotes
    BY DEF Quotes
  <2>4. Scan(pre \o QuotedPart(p)) = Behind(Quote, tokens \o NamedPart(p))
    <3>1. Scan(pre \o (<<Quote>> \o Replaced(Clean(p), Quote, <<Quote, Quote>>) \o <<Quote>>)) =
            Behind(Quote, tokens \o << <<Quote>> \o Clean(p) >>)
      BY <1>1, <2>3, ScanQuotedText, Zenon
    <3> QED
      BY <2>1, <2>2, <3>1, Zenon
  <2> QED
    BY <2>3, <2>4 DEF Finished
<1> QED
  BY <1>3, <1>4

(* So is a name, whatever its parts. *)
LEMMA ScanName ==
  ASSUME NEW pre \in Text, NEW tokens \in Seq(Text), Scan(pre) = Outside(tokens), NEW str \in Text
  PROVE  /\ escapeLiteral(str) \in Text
         /\ Spelled(str) \in Seq(Text)
         /\ Scan(pre \o escapeLiteral(str)) \in Finished(tokens \o Spelled(str))
<1> DEFINE Good(ps) == ps # <<>> => Scan(pre \o Escaped(ps)) \in Finished(tokens \o Named(ps))
           T == {ps \in Seq(Text) : Good(ps)}
<1>1. <<>> \in T
  OBVIOUS
<1>2. ASSUME NEW ps \in Seq(Text), NEW p \in Text, ps \in T PROVE Append(ps, p) \in T
  <2>1. /\ Escaped(ps) \in Text
        /\ Escaped(Append(ps, p)) =
             Escaped(ps) \o (IF ps = <<>> THEN QuotedPart(p) ELSE <<Dot>> \o QuotedPart(p))
    BY EscapedAppend
  <2>2. /\ Named(ps) \in Seq(Text)
        /\ Named(Append(ps, p)) =
             Named(ps) \o (IF ps = <<>> THEN NamedPart(p) ELSE Bare(Dot) \o NamedPart(p))
    BY NamedAppend
  <2>3. QuotedPart(p) \in Text /\ NamedPart(p) \in Seq(Text)
    BY PartTypes
  <2>4. CASE ps = <<>>
    <3>1. Escaped(Append(ps, p)) = QuotedPart(p)
      BY <2>1, <2>3, <2>4, EscapedEmpty, TextEmpty
    <3>2. Named(Append(ps, p)) = NamedPart(p)
      <4>1. Named(Append(ps, p)) = <<>> \o NamedPart(p)
        BY <2>2, <2>4, NamedEmpty
      <4> QED
        BY <2>3, <4>1, ConcatEmptySeq
    <3>3. Scan(pre \o Escaped(Append(ps, p))) \in Finished(tokens \o Named(Append(ps, p)))
      BY <3>1, <3>2, ScanPart
    <3> QED
      BY <3>3
  <2>5. CASE ps # <<>>
    <3> DEFINE done == pre \o Escaped(ps)
               read == tokens \o Named(ps)
               dotted == done \o <<Dot>>
    <3>1. done \in Text /\ read \in Seq(Text) /\ Scan(done) \in Finished(read)
      BY <1>2, <2>1, <2>2, <2>5, TextConcat, TokensAlgebra
    <3>2. Dot \in Symbols /\ Dot \notin Quotes
      BY SymbolsFacts DEF Quotes, Quote, Apos, Dot
    <3> HIDE DEF done, read
    <3>3. dotted \in Text /\ read \o Bare(Dot) \in Seq(Text) /\ Scan(dotted) = Outside(read \o Bare(Dot))
      BY <3>1, <3>2, ScanWord
    <3>4. Scan(dotted \o QuotedPart(p)) \in Finished((read \o Bare(Dot)) \o NamedPart(p))
      <4> HIDE DEF dotted
      <4> QED
        BY <3>3, ScanPart
    <3>5. pre \o Escaped(Append(ps, p)) = dotted \o QuotedPart(p)
      <4> DEFINE dot == <<Dot>>
      <4>1. dot \in Text
        BY TextWords
      <4>2. Escaped(Append(ps, p)) = Escaped(ps) \o (dot \o QuotedPart(p))
        BY <2>1, <2>5
      <4> HIDE DEF dot
      <4>3. Escaped(ps) \in Text /\ QuotedPart(p) \in Text
        BY <2>1, <2>3
      <4>4. pre \o (Escaped(ps) \o (dot \o QuotedPart(p))) = ((pre \o Escaped(ps)) \o dot) \o QuotedPart(p)
        <5> DEFINE e == Escaped(ps)
                   q == QuotedPart(p)
                   x == dot \o q
                   y == pre \o e
        <5>1. e \in Text /\ q \in Text /\ x \in Text /\ y \in Text
          BY <4>1, <4>3, TextConcat
        <5> HIDE DEF e, q, x, y
        <5>2. pre \o (e \o x) = (pre \o e) \o x
          BY <5>1, TextAssociative, SMTT(30)
        <5>3. y \in Text /\ dot \in Text /\ q \in Text
          BY <4>1, <5>1
        <5>4. y \o (dot \o q) = (y \o dot) \o q
          BY <5>3, TextAssociative, SMTT(30)
        <5> QED
          BY <5>2, <5>4, Zenon DEF e, q, x, y
      <4> QED
        BY <4>2, <4>4 DEF dot, done
    <3>6. tokens \o Named(Append(ps, p)) = (read \o Bare(Dot)) \o NamedPart(p)
      <4>1. Bare(Dot) \in Seq(Text)
        BY <3>2, TextWords
      <4>2. Named(Append(ps, p)) = Named(ps) \o (Bare(Dot) \o NamedPart(p))
        BY <2>2, <2>5
      <4>3. Named(ps) \in Seq(Text) /\ NamedPart(p) \in Seq(Text)
        BY <2>2, <2>3
      <4>4. tokens \o (Named(ps) \o (Bare(Dot) \o NamedPart(p))) =
              ((tokens \o Named(ps)) \o Bare(Dot)) \o NamedPart(p)
        <5> DEFINE W == Seq(Text)
                   e == Named(ps)
                   q == NamedPart(p)
                   dot == Bare(Dot)
        <5>1. tokens \in W /\ e \in W /\ q \in W /\ dot \in W /\ Chained(W)
          BY <4>1, <4>3, TextChained
        <5> HIDE DEF W, e, q, dot
        <5>2. tokens \o (e \o (dot \o q)) = ((tokens \o e) \o dot) \o q
          BY <5>1, SMTT(30) DEF Chained
        <5> QED
          BY <5>2 DEF e, q, dot
      <4> QED
        BY <4>2, <4>4 DEF read
    <3>7. Scan(pre \o Escaped(Append(ps, p))) \in Finished(tokens \o Named(Append(ps, p)))
      BY <3>4, <3>5, <3>6
    <3> QED
      BY <3>7
  <2> QED
    BY <2>4, <2>5
<1>3. Seq(Text) \subseteq T
  <2> HIDE DEF T
  <2> QED
    BY <1>1, <1>2, SequenceInductionAppend
<1>4. Split(str) \in Seq(Text) /\ Split(str) # <<>>
  BY SplitAppend, SymbolsFacts DEF Parts
<1>5. Scan(pre \o Escaped(Split(str))) \in Finished(tokens \o Named(Split(str)))
  BY <1>3, <1>4
<1>6. Escaped(Split(str)) \in Text /\ Named(Split(str)) \in Seq(Text)
  BY <1>4, EscapedAppend, NamedAppend, TextEmpty
<1> QED
  BY <1>5, <1>6, ByParts

(* A statement that starts with a keyword and a name. *)
LEMMA ScanKeyword ==
  ASSUME NEW c \in Symbols, c \notin Quotes
  PROVE  <<c>> \in Text /\ Bare(c) \in Seq(Text) /\ Scan(<<c>>) = Outside(Bare(c))
<1>1. Scan(<<>>) = Outside(<<>>)
  BY ScanEmpty
<1> DEFINE none == <<>>
           empty == <<>>
<1>2. none \in Text /\ empty \in Seq(Text)
  BY TextEmpty
<1>3. Scan(none) \in Finished(empty)
  BY <1>1 DEF Finished
<1>4. none \o <<c>> = <<c>> /\ <<c>> \in Text
  BY TextEmpty, TextAppend
<1>5. empty \o Bare(c) = Bare(c) /\ Bare(c) \in Seq(Text)
  BY TextWords, ConcatEmptySeq
<1>6. Scan(none \o <<c>>) = Outside(empty \o Bare(c))
  <2> HIDE DEF none, empty
  <2> QED
    BY <1>2, <1>3, ScanWord
<1> QED
  BY <1>4, <1>5, <1>6

-------------------------------------------------------------------------------
(* The texts of a call. *)
LEMMA Texts ==
  Names \cup UserNames \cup Passwords \cup Privs \subseteq Text
<1>1. Chars \subseteq Symbols
  BY DEF Symbols
<1>2. Seq(Chars) \subseteq Seq(Symbols)
  BY <1>1, SeqMonotonic
<1> QED
  BY <1>2, TextsAssumption DEF Text

(* The keywords are symbols and no quotes. *)
LEMMA Keywords ==
  \A c \in {"CREATE USER", "WITH PASSWORD", "DROP USER", "GRANT", "REVOKE", "ON", "ON DATABASE",
            "TO", "FROM"} : c \in Symbols /\ c \notin Quotes /\ c # Nul
BY DEF Symbols, Quotes, Quote, Apos, Nul

(* What a statement is, once it is built. *)
Built ==
  /\ call \in Creates \cup Drops \cup Changes
  /\ text # <<>> =>
       text = CASE call.op = "create" -> createUserQuery(call.user, call.password)
                [] call.op = "drop"   -> deleteUserQuery(call.user)
                [] OTHER -> prepareStatementForPrivilege(call.op, Arg, call.user, call.dbname,
                              IF call.dbname = <<>> THEN <<>> ELSE call.on, call.privilege)

(* The text is what the call's operation builds, in every state. *)
LEMMA BuiltInvariant ==
  Spec => []Built
<1>1. Init => Built
  BY DEF Init, Built
<1>2. Built /\ [Next]_vars => Built'
  <2> SUFFICES ASSUME Built, [Next]_vars PROVE Built'
    OBVIOUS
  <2> USE DEF Built
  <2>1. CASE Create
    BY <2>1 DEF Create
  <2>2. CASE Drop
    <3>1. call.op # "create"
      BY <2>2 DEF Drop
    <3> QED
      BY <2>2, <3>1 DEF Drop
  <2>3. CASE Change
    <3>1. call.op # "create" /\ call.op # "drop"
      BY <2>3 DEF Change
    <3>2. Arg' = Arg
      BY <2>3 DEF Change, Arg
    <3> QED
      BY <2>3, <3>1, <3>2 DEF Change
  <2>4. CASE UNCHANGED vars
    BY <2>4 DEF vars, Arg
  <2> QED
    BY <2>1, <2>2, <2>3, <2>4 DEF Next
<1> QED
  BY <1>1, <1>2, PTL DEF Spec

-------------------------------------------------------------------------------
(* Names without a Nul, which is left out of a statement. *)
Letters == Symbols \ {Nul}

Plain == Seq(Letters)

(* They are texts, and grow by letters. *)
LEMMA PlainFacts ==
  /\ Plain \subseteq Text /\ Seq(Plain) \subseteq Seq(Text) /\ <<>> \in Plain
  /\ \A p \in Plain, c \in Letters : Append(p, c) \in Plain /\ c \in Symbols
<1>1. Plain \subseteq Text
  BY SeqMonotonic DEF Plain, Text, Letters
<1>2. Seq(Plain) \subseteq Seq(Text)
  BY <1>1, SeqMonotonic
<1>3. <<>> \in Plain /\ \A p \in Plain, c \in Letters : Append(p, c) \in Plain /\ c \in Symbols
  BY DEF Plain, Letters
<1> QED
  BY <1>1, <1>2, <1>3

(* There is nothing to leave out of them. *)
LEMMA CleanPlain ==
  ASSUME NEW p \in Plain
  PROVE  Clean(p) = p
<1> DEFINE T == {r \in Plain : Clean(r) = r}
<1>1. <<>> \in T
  BY PlainFacts, ReplacedEmpty DEF Clean
<1>2. ASSUME NEW r \in Plain, NEW c \in Letters, r \in T PROVE Append(r, c) \in T
  <2> DEFINE none == <<>>
  <2>1. none \in Text /\ r \in Text /\ c \in Symbols /\ Append(r, c) \in Plain /\ c # Nul
    BY PlainFacts, TextEmpty DEF Letters
  <2>2. Replaced(Append(r, c), Nul, none) = Replaced(r, Nul, none) \o (IF c = Nul THEN none ELSE <<c>>)
    <3> HIDE DEF none
    <3> QED
      BY <2>1, ReplacedAppend
  <2>3. Clean(Append(r, c)) = r \o <<c>>
    BY <1>2, <2>1, <2>2 DEF Clean
  <2>4. r \o <<c>> = Append(r, c)
    BY <2>1, TextAppend
  <2> QED
    BY <2>1, <2>3, <2>4
<1>3. Plain \subseteq T
  <2> HIDE DEF T
  <2> QED
    BY <1>1, <1>2, SequenceInductionAppend DEF Plain
<1> QED
  BY <1>3

-------------------------------------------------------------------------------
(* A part of a name is one token, and a dot comes before all but the first. *)
Word(p) == IF Clean(p) = <<"*">> THEN <<"", "*">> ELSE <<Quote>> \o Clean(p)

DotWord == <<"", Dot>>

Before(ps) == IF ps = <<>> THEN <<>> ELSE Append(Named(ps), DotWord)

(* A part is meant as one word, and so is a dot. *)
LEMMA WordFacts ==
  /\ DotWord \in Text /\ Bare(Dot) = <<DotWord>>
  /\ \A p \in Text : Word(p) \in Text /\ NamedPart(p) = <<Word(p)>>
<1>1. DotWord \in Text /\ Bare(Dot) = <<DotWord>>
  BY TextWords, SymbolsFacts DEF DotWord, Bare
<1>2. ASSUME NEW p \in Text PROVE Word(p) \in Text /\ NamedPart(p) = <<Word(p)>>
  <2>1. <<"", "*">> \in Text
    BY TextWords, SymbolsFacts
  <2>2. <<Quote>> \o Clean(p) \in Text
    BY PartTypes
  <2> QED
    BY <2>1, <2>2 DEF Word, NamedPart, Bare
<1> QED
  BY <1>1, <1>2

(* The word of the last part is the last token. *)
LEMMA NamedLast ==
  ASSUME NEW ps \in Seq(Text), NEW p \in Text
  PROVE  /\ Named(ps) \in Seq(Text) /\ Before(ps) \in Seq(Text) /\ Word(p) \in Text
         /\ Named(Append(ps, p)) = Append(Before(ps), Word(p))
<1> DEFINE T == Text
           w == Word(p)
           d == DotWord
<1>1. w \in T /\ d \in T /\ NamedPart(p) = <<w>> /\ Bare(Dot) = <<d>>
  BY WordFacts
<1>2. /\ Named(ps) \in Seq(T)
      /\ Named(Append(ps, p)) =
           Named(ps) \o (IF ps = <<>> THEN NamedPart(p) ELSE Bare(Dot) \o NamedPart(p))
  BY NamedAppend
<1> HIDE DEF T, w, d
<1>3. CASE ps = <<>>
  <2>1. Named(ps) = <<>>
    BY <1>3, NamedEmpty
  <2>2. Before(ps) = <<>>
    BY <1>3 DEF Before
  <2>3. Named(Append(ps, p)) = <<>> \o <<w>>
    BY <1>1, <1>2, <1>3, <2>1
  <2>4. <<>> \o <<w>> = Append(<<>>, w)
    BY <1>1, ConcatAppend
  <2>5. Named(Append(ps, p)) = Append(Before(ps), w)
    BY <2>2, <2>3, <2>4
  <2>6. Before(ps) \in Seq(T)
    BY <2>2, EmptySeq
  <2> QED
    BY <1>1, <1>2, <2>5, <2>6 DEF w, T
<1>4. CASE ps # <<>>
  <2>1. Before(ps) = Append(Named(ps), d) /\ Before(ps) \in Seq(T)
    BY <1>1, <1>2, <1>4 DEF Before, d
  <2> DEFINE n == Named(ps)
             b == Before(ps)
  <2>2. Named(Append(ps, p)) = n \o (<<d>> \o <<w>>)
    BY <1>1, <1>2, <1>4
  <2>3. n \in Seq(T) /\ b = Append(n, d) /\ b \in Seq(T)
    BY <1>2, <2>1
  <2> HIDE DEF n, b
  <2>4. <<d>> \in Seq(T) /\ <<d>> \o <<w>> = Append(<<d>>, w)
    BY <1>1, ConcatAppend
  <2>5. n \o Append(<<d>>, w) = Append(n \o <<d>>, w) /\ n \o <<d>> = Append(n, d)
    <3> DEFINE one == <<d>>
    <3>1. one \in Seq(T)
      BY <2>4
    <3>2. n \o <<d>> = Append(n, d)
      BY <1>1, <2>3, ConcatAppend
    <3> HIDE DEF one
    <3>3. n \o Append(one, w) = Append(n \o one, w)
      BY <1>1, <2>3, <3>1, ConcatAppend
    <3> QED
      BY <3>2, <3>3 DEF one
  <2>6. Named(Append(ps, p)) = Append(b, w)
    BY <2>2, <2>3, <2>4, <2>5
  <2> QED
    BY <1>1, <1>2, <2>1, <2>6 DEF w, T, b
<1> QED
  BY <1>3, <1>4

(* The texts without a Nul are the plain ones. *)
LEMMA PlainText ==
  ASSUME NEW a \in Text, NEW b \in Text, Nul \notin ToSet(a \o b)
  PROVE  a \in Plain /\ b \in Plain
<1>1. a \in Seq(Symbols) /\ b \in Seq(Symbols)
  BY DEF Text
<1> DEFINE La == Len(a)
           Lb == Len(b)
           ab == a \o b
<1>2. La \in Nat /\ Lb \in Nat /\ DOMAIN ab = 1..(La + Lb)
      /\ \A i \in 1..(La + Lb) : ab[i] = IF i <= La THEN a[i] ELSE b[i - La]
  BY <1>1, ConcatProperties, LenProperties
<1> HIDE DEF ab
<1>3. \A i \in 1..(La + Lb) : ab[i] # Nul
  BY <1>2 DEF ToSet, ab
<1>4. a \in Plain
  <2>1. ASSUME NEW i \in 1..La PROVE a[i] \in Letters
    <3>1. i \in 1..(La + Lb) /\ i <= La
      BY <1>2
    <3>2. a[i] # Nul /\ a[i] \in Symbols
      BY <1>1, <1>2, <1>3, <3>1, ElementOfSeq
    <3> QED
      BY <3>2 DEF Letters
  <2>2. a \in [1..La -> Letters]
    BY <1>1, <2>1, LenProperties
  <2> QED
    BY <1>2, <2>2 DEF Plain
<1>5. b \in Plain
  <2>1. ASSUME NEW i \in 1..Lb PROVE b[i] \in Letters
    <3>1. La + i \in 1..(La + Lb) /\ ~(La + i <= La) /\ (La + i) - La = i
      BY <1>2
    <3>2. b[i] # Nul /\ b[i] \in Symbols
      BY <1>1, <1>2, <1>3, <3>1, ElementOfSeq
    <3> QED
      BY <3>2 DEF Letters
  <2>2. b \in [1..Lb -> Letters]
    BY <1>1, <2>1, LenProperties
  <2> QED
    BY <1>2, <2>2 DEF Plain
<1> QED
  BY <1>4, <1>5

-------------------------------------------------------------------------------
(* The characters of a short text. *)
LEMMA OneSet ==
  \A c : ToSet(<<c>>) = {c} /\ ToSet(<<c, c>>) = {c}
BY DEF ToSet

(* The characters of a text. *)
LEMMA SetFacts ==
  /\ ToSet(<<>>) = {}
  /\ \A a \in Text, b \in Text : ToSet(a \o b) = ToSet(a) \cup ToSet(b)
  /\ \A a \in Text, c \in Symbols : ToSet(Append(a, c)) = ToSet(a) \cup {c}
<1>1. ToSet(<<>>) = {}
  BY DEF ToSet
<1>2. ASSUME NEW a \in Text, NEW b \in Text PROVE ToSet(a \o b) = ToSet(a) \cup ToSet(b)
  <2>1. Range(a \o b) = Range(a) \cup Range(b)
    BY RangeConcatenation DEF Text
  <2> QED
    BY <2>1 DEF Range, ToSet
<1>3. ASSUME NEW a \in Text, NEW c \in Symbols PROVE ToSet(Append(a, c)) = ToSet(a) \cup {c}
  <2> DEFINE one == <<c>>
  <2>1. one \in Text /\ a \o one = Append(a, c) /\ ToSet(one) = {c}
    BY OneSet, TextAppend
  <2> HIDE DEF one
  <2> QED
    BY <1>2, <2>1
<1> QED
  BY <1>1, <1>2, <1>3

(* strings.ReplaceAll takes out what it replaces, and puts in what it      *)
(* replaces it by.                                                         *)
LEMMA ReplacedSet ==
  ASSUME NEW p \in Text, NEW old, NEW new \in Text, NEW x, x \notin ToSet(new)
  PROVE  x \in ToSet(Replaced(p, old, new)) <=> x \in ToSet(p) /\ x # old
<1> DEFINE R(q) == Replaced(q, old, new)
           T == {q \in Text : x \in ToSet(R(q)) <=> x \in ToSet(q) /\ x # old}
<1>1. <<>> \in T
  BY ReplacedEmpty, TextEmpty, SetFacts
<1>2. ASSUME NEW q \in Text, NEW c \in Symbols, q \in T PROVE Append(q, c) \in T
  <2> DEFINE piece == IF c = old THEN new ELSE <<c>>
  <2>1. R(q) \in Text /\ R(Append(q, c)) = R(q) \o piece
    BY ReplacedAppend
  <2>2. piece \in Text /\ Append(q, c) \in Text
    BY TextAppend, TextEmpty
  <2>3. x \in ToSet(piece) <=> x = c /\ x # old
    <3>1. CASE c = old
      BY <3>1
    <3>2. CASE c # old
      BY <3>2, OneSet
    <3> QED
      BY <3>1, <3>2
  <2> HIDE DEF piece
  <2>4. ToSet(R(q) \o piece) = ToSet(R(q)) \cup ToSet(piece)
    <3> HIDE DEF R
    <3> QED
      BY <2>1, <2>2, SetFacts
  <2>5. ToSet(Append(q, c)) = ToSet(q) \cup {c}
    BY SetFacts
  <2> QED
    BY <1>2, <2>1, <2>2, <2>3, <2>4, <2>5
<1>3. Text \subseteq T
  <2> HIDE DEF T
  <2> QED
    BY <1>1, <1>2, SequenceInductionAppend DEF Text
<1> QED
  BY <1>3

(* Clean leaves out the Nul and nothing else. *)
LEMMA CleanSet ==
  ASSUME NEW p \in Text
  PROVE  Clean(p) \in Text /\ Nul \notin ToSet(Clean(p)) /\ (Dot \in ToSet(Clean(p)) <=> Dot \in ToSet(p))
<1> DEFINE none == <<>>
<1>1. none \in Text /\ Nul \notin ToSet(none) /\ Dot \notin ToSet(none)
  BY TextEmpty, SetFacts
<1>2. Nul # Dot
  BY DEF Nul, Dot
<1> HIDE DEF none
<1>3. Nul \in ToSet(Replaced(p, Nul, none)) <=> Nul \in ToSet(p) /\ Nul # Nul
  BY <1>1, ReplacedSet
<1>4. Dot \in ToSet(Replaced(p, Nul, none)) <=> Dot \in ToSet(p) /\ Dot # Nul
  BY <1>1, ReplacedSet
<1> QED
  BY <1>2, <1>3, <1>4, PartTypes DEF Clean, none

(* Doubling a quote keeps a Nul. *)
LEMMA DoubledNul ==
  ASSUME NEW p \in Text, NEW q \in Quotes
  PROVE  Nul \in ToSet(Replaced(p, q, <<q, q>>)) <=> Nul \in ToSet(p)
<1> DEFINE two == <<q, q>>
<1>1. q \in Symbols /\ q # Nul
  BY SymbolsFacts DEF Quotes, Quote, Apos, Nul
<1>2. two \in Text
  BY <1>1, ShortSequences DEF Text
<1>3. Nul \notin ToSet(two)
  BY <1>1, OneSet
<1> HIDE DEF two
<1>4. Nul \in ToSet(Replaced(p, q, two)) <=> Nul \in ToSet(p) /\ Nul # q
  BY <1>2, <1>3, ReplacedSet
<1> QED
  BY <1>1, <1>4 DEF two

(* A password keeps its Nul between the apostrophes. *)
LEMMA StringNul ==
  ASSUME NEW p \in Text
  PROVE  escapeString(p) \in Text /\ (Nul \in ToSet(escapeString(p)) <=> Nul \in ToSet(p))
<1> DEFINE one == <<Apos>>
           two == <<Apos, Apos>>
           d == Replaced(p, Apos, two)
<1>1. Apos \in Symbols /\ Apos \in Quotes /\ Apos # Nul
  BY SymbolsFacts DEF Quotes, Apos, Nul
<1>2. one \in Text /\ two \in Text /\ Nul \notin ToSet(one)
  <2>1. Nul \notin ToSet(one)
    BY <1>1, OneSet
  <2> QED
    BY <1>1, <2>1, ShortSequences DEF Text
<1>3. d \in Text /\ (Nul \in ToSet(d) <=> Nul \in ToSet(p))
  <2>1. Nul \in ToSet(d) <=> Nul \in ToSet(p)
    BY <1>1, DoubledNul
  <2> HIDE DEF two
  <2> QED
    BY <1>2, <2>1, ReplacedType
<1>4. escapeString(p) = one \o d \o one
  BY DEF escapeString
<1> HIDE DEF one, d
<1>5. one \o d \in Text /\ one \o d \o one \in Text
  BY <1>2, <1>3, TextConcat
<1>6. ToSet(one \o d \o one) = ToSet(one) \cup ToSet(d) \cup ToSet(one)
  BY <1>2, <1>3, <1>5, SetFacts
<1> QED
  BY <1>2, <1>3, <1>4, <1>5, <1>6

(* A name has no Nul left once it is quoted. *)
LEMMA NameNul ==
  ASSUME NEW str \in Text
  PROVE  escapeLiteral(str) \in Text /\ Nul \notin ToSet(escapeLiteral(str))
<1> DEFINE T == {ps \in Seq(Text) : Nul \notin ToSet(Escaped(ps))}
<1>1. <<>> \in T
  BY EscapedEmpty, SetFacts, EmptySeq
<1>2. ASSUME NEW p \in Text PROVE QuotedPart(p) \in Text /\ Nul \notin ToSet(QuotedPart(p))
  <2> DEFINE one == <<Quote>>
             star == <<"*">>
             d == Doubled(p)
  <2>1. Quote \in Symbols /\ "*" \in Symbols /\ Quote \in Quotes /\ Quote # Nul /\ "*" # Nul
    BY SymbolsFacts DEF Quotes, Quote, Nul
  <2>2. one \in Text /\ Nul \notin ToSet(one) /\ Nul \notin ToSet(star)
    <3>1. Nul \notin ToSet(one) /\ Nul \notin ToSet(star)
      BY <2>1, OneSet
    <3> QED
      BY <3>1, TextWords
  <2>3. d \in Text /\ Nul \notin ToSet(d)
    BY <2>1, CleanSet, DoubledNul, PartTypes DEF Doubled
  <2>4. QuotedPart(p) = IF d = star THEN star ELSE one \o d \o one
    BY DEF QuotedPart
  <2> HIDE DEF one, star, d
  <2>5. one \o d \in Text /\ one \o d \o one \in Text
    BY <2>2, <2>3, TextConcat
  <2>6. ToSet(one \o d \o one) = ToSet(one) \cup ToSet(d) \cup ToSet(one)
    BY <2>2, <2>3, <2>5, SetFacts
  <2> QED
    BY <2>2, <2>3, <2>4, <2>6, PartTypes
<1>3. ASSUME NEW ps \in Seq(Text), NEW p \in Text, ps \in T PROVE Append(ps, p) \in T
  <2> DEFINE e == Escaped(ps)
             dot == <<Dot>>
             q == QuotedPart(p)
  <2>1. e \in Text /\ Escaped(Append(ps, p)) = e \o (IF ps = <<>> THEN q ELSE dot \o q)
    BY EscapedAppend
  <2>2. q \in Text /\ Nul \notin ToSet(q)
    BY <1>2
  <2>3. dot \in Text /\ Nul \notin ToSet(dot)
    <3>1. Nul \notin ToSet(dot)
      BY OneSet DEF Dot, Nul
    <3> QED
      BY <3>1, TextWords
  <2>4. Nul \notin ToSet(e)
    BY <1>3
  <2> HIDE DEF e, dot, q
  <2>5. dot \o q \in Text /\ ToSet(dot \o q) = ToSet(dot) \cup ToSet(q)
    BY <2>2, <2>3, TextConcat, SetFacts
  <2>6. ToSet(e \o q) = ToSet(e) \cup ToSet(q) /\ ToSet(e \o (dot \o q)) = ToSet(e) \cup ToSet(dot \o q)
    BY <2>1, <2>2, <2>5, SetFacts
  <2>7. Append(ps, p) \in Seq(Text)
    BY AppendProperties
  <2> QED
    BY <2>1, <2>2, <2>3, <2>4, <2>5, <2>6, <2>7
<1>4. Seq(Text) \subseteq T
  <2> HIDE DEF T
  <2> QED
    BY <1>1, <1>3, SequenceInductionAppend
<1>5. Split(str) \in Seq(Text)
  BY SplitAppend, SymbolsFacts DEF Parts
<1> QED
  BY <1>4, <1>5, ByParts, EscapedAppend

-------------------------------------------------------------------------------
(* What the server keeps of a name is a text. *)
LEMMA TruncatedType ==
  ASSUME NEW r \in Text
  PROVE  Truncated(r) \in Text
<1>1. r \in Seq(Symbols) /\ IdentLen \in Nat /\ Len(r) \in Nat
  BY TextsAssumption, LenProperties DEF Text
<1>2. CASE Len(r) <= IdentLen
  BY <1>2 DEF Truncated
<1>3. CASE ~(Len(r) <= IdentLen)
  <2>1. \A i \in 1..IdentLen : i \in 1..Len(r)
    BY <1>1, <1>3
  <2>2. \A i \in 1..IdentLen : r[i] \in Symbols
    BY <1>1, <2>1, ElementOfSeq
  <2>3. SubSeq(r, 1, IdentLen) \in Seq(Symbols)
    BY <1>1, <2>2, SubSeqProperties
  <2> QED
    BY <1>3, <2>3 DEF Truncated, Text
<1> QED
  BY <1>2, <1>3

(* A quoted token is its quote and the text inside. *)
LEMMA QuotedToken ==
  ASSUME NEW q \in Quotes, NEW r \in Text
  PROVE  /\ <<q>> \o r \in Text /\ <<q>> \o r # <<>>
         /\ (<<q>> \o r)[1] = q
         /\ Len(<<q>> \o r) = Len(r) + 1
         /\ Tail(<<q>> \o r) = r
<1> DEFINE one == <<q>>
           t == one \o r
<1>1. one \in Seq(Symbols) /\ Len(one) = 1 /\ one[1] = q /\ r \in Seq(Symbols) /\ Len(r) \in Nat
  <2>1. q \in Symbols
    BY SymbolsFacts
  <2>2. one \in Seq(Symbols)
    BY <2>1, ShortSequences
  <2>3. Len(one) = 1 /\ one[1] = q
    OBVIOUS
  <2> HIDE DEF one
  <2> QED
    BY <2>2, <2>3, LenProperties DEF Text
<1> HIDE DEF one
<1>2. t \in Seq(Symbols) /\ Len(t) = Len(r) + 1
      /\ \A i \in 1..(Len(r) + 1) : t[i] = IF i <= 1 THEN q ELSE r[i - 1]
  <2>1. t \in Seq(Symbols) /\ Len(t) = Len(one) + Len(r)
        /\ \A i \in 1..(Len(one) + Len(r)) : t[i] = IF i <= Len(one) THEN one[i] ELSE r[i - Len(one)]
    BY <1>1, ConcatProperties
  <2> HIDE DEF t
  <2> QED
    BY <1>1, <2>1
<1> HIDE DEF t
<1>3. t[1] = q /\ t # <<>>
  BY <1>1, <1>2
<1>4. Tail(t) \in Seq(Symbols) /\ Len(Tail(t)) = Len(r) /\ \A i \in 1..Len(r) : Tail(t)[i] = r[i]
  <2>1. Tail(t) \in Seq(Symbols) /\ Len(Tail(t)) = Len(t) - 1
        /\ \A i \in 1..Len(Tail(t)) : Tail(t)[i] = t[i + 1]
    BY <1>2, <1>3, HeadTailProperties
  <2>2. Len(Tail(t)) = Len(r)
    BY <1>1, <1>2, <2>1
  <2>3. ASSUME NEW i \in 1..Len(r) PROVE Tail(t)[i] = r[i]
    <3>1. Tail(t)[i] = t[i + 1]
      BY <2>1, <2>2
    <3>2. i + 1 \in 1..(Len(r) + 1) /\ ~(i + 1 <= 1) /\ (i + 1) - 1 = i
      BY <1>1
    <3> QED
      BY <1>2, <3>1, <3>2
  <2> QED
    BY <2>1, <2>2, <2>3
<1>5. Tail(t) = r
  BY <1>1, <1>4, SeqEqual
<1> QED
  BY <1>2, <1>3, <1>5 DEF t, one, Text

(* What the server keeps of a token. *)
LEMMA ShortenedWord ==
  ASSUME NEW c \in Symbols
  PROVE  Shortened(<<"", c>>) = <<"", c>>
BY DEF Shortened, Quote

(* Identifiers are truncated, strings are not. *)
LEMMA ShortenedQuoted ==
  ASSUME NEW r \in Text
  PROVE  /\ Shortened(<<Quote>> \o r) = <<Quote>> \o Truncated(r)
         /\ Shortened(<<Apos>> \o r) = <<Apos>> \o r
<1>1. Quote \in Quotes /\ Apos \in Quotes /\ Quote # Apos
  BY DEF Quotes, Quote, Apos
<1> DEFINE name == <<Quote>> \o r
           string == <<Apos>> \o r
<1>2. name[1] = Quote /\ Tail(name) = r /\ string[1] = Apos
  BY <1>1, QuotedToken
<1> HIDE DEF name, string
<1>3. Shortened(name) = <<Quote>> \o Truncated(r) /\ Shortened(string) = string
  BY <1>1, <1>2 DEF Shortened
<1> QED
  BY <1>3 DEF name, string

Shorts == {Shortened(t) : t \in Text}

(* Tokens are kept one by one. *)
LEMMA ShortenSteps ==
  ASSUME NEW a \in Seq(Text)
  PROVE  /\ Shorten(a) \in Seq(Shorts)
         /\ Len(Shorten(a)) = Len(a)
         /\ \A n \in 1..Len(a) : Shorten(a)[n] = Shortened(a[n])
<1>1. Len(a) \in Nat /\ DOMAIN a = 1..Len(a) /\ \A n \in 1..Len(a) : a[n] \in Text
  BY LenProperties, ElementOfSeq
<1>2. Shorten(a) = [n \in 1..Len(a) |-> Shortened(a[n])]
  BY <1>1 DEF Shorten
<1>3. Shorten(a) \in [1..Len(a) -> Shorts]
  BY <1>1, <1>2 DEF Shorts
<1>4. Shorten(a) \in Seq(Shorts) /\ Len(Shorten(a)) = Len(a)
  BY <1>1, <1>3
<1> QED
  BY <1>2, <1>4

(* So what is kept of tokens in a row is in a row. *)
LEMMA ShortenConcat ==
  ASSUME NEW a \in Seq(Text), NEW b \in Seq(Text)
  PROVE  Shorten(a \o b) = Shorten(a) \o Shorten(b)
<1> DEFINE ab == a \o b
           x == Shorten(a)
           y == Shorten(b)
           la == Len(a)
           lb == Len(b)
<1>1. ab \in Seq(Text) /\ Len(ab) = la + lb /\ la \in Nat /\ lb \in Nat
      /\ \A i \in 1..(la + lb) : ab[i] = IF i <= la THEN a[i] ELSE b[i - la]
  BY ConcatProperties, LenProperties
<1>2. x \in Seq(Shorts) /\ Len(x) = la /\ \A n \in 1..la : x[n] = Shortened(a[n])
  BY ShortenSteps
<1>3. y \in Seq(Shorts) /\ Len(y) = lb /\ \A n \in 1..lb : y[n] = Shortened(b[n])
  BY ShortenSteps
<1> HIDE DEF ab, x, y
<1>4. Shorten(ab) \in Seq(Shorts) /\ Len(Shorten(ab)) = la + lb
      /\ \A n \in 1..(la + lb) : Shorten(ab)[n] = Shortened(ab[n])
  <2>1. Shorten(ab) \in Seq(Shorts) /\ Len(Shorten(ab)) = Len(ab)
        /\ \A n \in 1..Len(ab) : Shorten(ab)[n] = Shortened(ab[n])
    BY <1>1, ShortenSteps
  <2> QED
    BY <1>1, <2>1
<1> HIDE DEF la, lb
<1>5. x \o y \in Seq(Shorts) /\ Len(x \o y) = la + lb
      /\ \A i \in 1..(la + lb) : (x \o y)[i] = IF i <= la THEN x[i] ELSE y[i - la]
  BY <1>2, <1>3, ConcatProperties
<1>6. ASSUME NEW i \in 1..(la + lb) PROVE Shorten(ab)[i] = (x \o y)[i]
  <2>1. CASE i <= la
    <3>1. i \in 1..la
      BY <1>1, <2>1
    <3> QED
      BY <1>1, <1>2, <1>4, <1>5, <2>1, <3>1
  <2>2. CASE ~(i <= la)
    <3>1. i - la \in 1..lb
      BY <1>1, <2>2
    <3> QED
      BY <1>1, <1>3, <1>4, <1>5, <2>2, <3>1
  <2> QED
    BY <2>1, <2>2
<1>7. Shorten(ab) = x \o y
  BY <1>4, <1>5, <1>6, SeqEqual
<1> QED
  BY <1>7 DEF ab, x, y

(* A keyword stays. *)
LEMMA ShortenBare ==
  ASSUME NEW c \in Symbols
  PROVE  Shorten(Bare(c)) = Bare(c)
<1> DEFINE word == <<"", c>>
<1>1. Shortened(word) = word
  BY ShortenedWord
<1>2. Bare(c) = <<word>>
  BY DEF Bare
<1> HIDE DEF word
<1>3. Shorten(<<word>>) = <<Shortened(word)>>
  BY DEF Shorten
<1> QED
  BY <1>1, <1>2, <1>3

-------------------------------------------------------------------------------
(* The password in the tokens of CREATE USER. *)
Given(password) ==
  IF password = <<>> THEN <<>> ELSE Bare("WITH PASSWORD") \o << <<Apos>> \o password >>

(* How DROP USER is read. *)
LEMMA DropScan ==
  ASSUME NEW user \in Text
  PROVE  /\ Scan(deleteUserQuery(user)) \in Finished(Bare("DROP USER") \o Spelled(user))
         /\ Nul \notin ToSet(deleteUserQuery(user))
<1> DEFINE c == "DROP USER"
           one == <<c>>
           name == escapeLiteral(user)
<1>1. c \in Symbols /\ c \notin Quotes /\ c # Nul
  BY Keywords
<1> HIDE DEF c
<1>2. one \in Text /\ Bare(c) \in Seq(Text) /\ Scan(one) = Outside(Bare(c))
  BY <1>1, ScanKeyword
<1>3. Nul \notin ToSet(one)
  BY <1>1, OneSet
<1> HIDE DEF one
<1>4. Scan(one \o name) \in Finished(Bare(c) \o Spelled(user))
  BY <1>2, ScanName, Zenon
<1>5. name \in Text /\ Nul \notin ToSet(name)
  BY NameNul
<1> HIDE DEF name
<1>6. Nul \notin ToSet(one \o name)
  BY <1>2, <1>3, <1>5, SetFacts
<1> QED
  BY <1>4, <1>6 DEF deleteUserQuery, one, name, c

(* How CREATE USER is read, with a password or without. *)
LEMMA CreateScan ==
  ASSUME NEW user \in Text, NEW password \in Text
  PROVE  /\ Scan(createUserQuery(user, password)) \in
              Finished(Bare("CREATE USER") \o Spelled(user) \o Given(password))
         /\ Nul \in ToSet(createUserQuery(user, password)) <=> Nul \in ToSet(password)
<1> DEFINE c == "CREATE USER"
           w == "WITH PASSWORD"
           one == <<c>>
           keyword == <<w>>
           name == escapeLiteral(user)
           start == one \o name
           read == Bare(c) \o Spelled(user)
           secret == escapeString(password)
           token == << <<Apos>> \o password >>
<1>1. c \in Symbols /\ c \notin Quotes /\ c # Nul /\ w \in Symbols /\ w \notin Quotes /\ w # Nul
  BY Keywords
<1> HIDE DEF c, w
<1>2. one \in Text /\ Bare(c) \in Seq(Text) /\ Scan(one) = Outside(Bare(c))
  BY <1>1, ScanKeyword
<1>3. keyword \in Text /\ Bare(w) \in Seq(Text)
  BY <1>1, ScanKeyword
<1>4. Nul \notin ToSet(one) /\ Nul \notin ToSet(keyword)
  BY <1>1, OneSet
<1> HIDE DEF one
<1>5. name \in Text /\ Spelled(user) \in Seq(Text) /\ Scan(start) \in Finished(read)
  BY <1>2, ScanName, Zenon
<1>6. Nul \notin ToSet(name)
  BY NameNul
<1> HIDE DEF name
<1>7. start \in Text /\ read \in Seq(Text) /\ Nul \notin ToSet(start)
  BY <1>2, <1>4, <1>5, <1>6, TextConcat, TokensAlgebra, SetFacts
<1>8. createUserQuery(user, password) =
        start \o (IF password # <<>> THEN keyword \o secret ELSE <<>>)
  BY DEF createUserQuery, start, one, keyword, name, c, w
<1>9. Given(password) = IF password = <<>> THEN <<>> ELSE Bare(w) \o token
  BY DEF Given, w
<1> HIDE DEF start, read, token
<1>10. CASE password = <<>>
  <2>1. start \o <<>> = start /\ read \o <<>> = read
    BY <1>7, ConcatEmptySeq DEF Text
  <2>2. createUserQuery(user, password) = start /\ Given(password) = <<>>
    BY <1>8, <1>9, <1>10, <2>1
  <2>3. Nul \notin ToSet(password)
    BY <1>10, SetFacts
  <2> QED
    BY <1>5, <1>7, <2>1, <2>2, <2>3 DEF read, c
<1>11. CASE password # <<>>
  <2> DEFINE more == start \o keyword
             known == read \o Bare(w)
  <2>1. more \in Text /\ known \in Seq(Text) /\ Scan(more) = Outside(known)
    BY <1>1, <1>5, <1>7, ScanWord
  <2>2. Apos \in Quotes
    BY DEF Quotes
  <2>3. secret \in Text /\ (Nul \in ToSet(secret) <=> Nul \in ToSet(password))
    BY StringNul
  <2> HIDE DEF keyword
  <2>4. Scan(more \o secret) \in Finished(known \o token)
    <3> HIDE DEF more, known
    <3>1. Scan(more \o (<<Apos>> \o Replaced(password, Apos, <<Apos, Apos>>) \o <<Apos>>)) =
            Behind(Apos, known \o << <<Apos>> \o password >>)
      BY <2>1, <2>2, ScanQuotedText, Zenon
    <3>2. Scan(more \o secret) = Behind(Apos, known \o token)
      BY <3>1, Zenon DEF escapeString, token
    <3> QED
      BY <2>2, <3>2 DEF Finished
  <2> HIDE DEF secret
  <2>5. start \o (keyword \o secret) = more \o secret
    BY <1>3, <1>7, <2>3, TextAssociative, SMTT(30)
  <2>6. token \in Seq(Text)
    <3> DEFINE word == <<Apos>> \o password
    <3>1. word \in Text
      BY <2>2, QuotedToken
    <3> HIDE DEF word
    <3>2. <<word>> \in Seq(Text)
      BY <3>1
    <3> QED
      BY <3>2 DEF token, word
  <2>7. read \o (Bare(w) \o token) = known \o token
    <3> DEFINE bare == Bare(w)
    <3>1. bare \in Seq(Text) /\ token \in Seq(Text) /\ read \in Seq(Text)
      BY <1>3, <1>7, <2>6
    <3> HIDE DEF bare
    <3>2. read \o (bare \o token) = (read \o bare) \o token
      BY <3>1, ConcatAssociative, SMTT(30)
    <3> QED
      BY <3>2 DEF bare
  <2>8. Nul \in ToSet(more \o secret) <=> Nul \in ToSet(password)
    <3>1. ToSet(more) = ToSet(start) \cup ToSet(keyword)
      BY <1>3, <1>7, SetFacts
    <3>2. ToSet(more \o secret) = ToSet(more) \cup ToSet(secret)
      BY <2>1, <2>3, SetFacts
    <3> QED
      BY <1>4, <1>7, <2>3, <3>1, <3>2
  <2>9. createUserQuery(user, password) = more \o secret
    BY <1>8, <1>11, <2>5
  <2>10. read \o Given(password) = known \o token
    BY <1>9, <1>11, <2>7
  <2> QED
    BY <2>4, <2>8, <2>9, <2>10 DEF read, c
<1> QED
  BY <1>10, <1>11

(* strings.Split at the dots, if there are any. *)
LEMMA SplitDots ==
  ASSUME NEW str \in Text
  PROVE  /\ Dot \notin ToSet(str) => Split(str) = <<str>>
         /\ Dot \in ToSet(str) => Len(Split(str)) >= 2
<1> DEFINE T == {s \in Text : /\ Dot \notin ToSet(s) => Split(s) = Append(<<>>, s)
                              /\ Dot \in ToSet(s) => Len(Split(s)) >= 2}
<1>1. <<>> \in T
  BY TextEmpty, SplitEmpty, SetFacts
<1>2. ASSUME NEW s \in Text, NEW c \in Symbols, s \in T PROVE Append(s, c) \in T
  <2>1. PICK front \in Seq(Text), last \in Text : Split(s) = Append(front, last)
    BY SplitAppend, PartsLast, Zenon
  <2>2. Split(Append(s, c)) = IF c = Dot THEN Append(Append(front, last), <<>>)
                              ELSE Append(front, Append(last, c))
    <3>1. Split(Append(s, c)) = Cut(Append(front, last), c)
      BY <2>1, SplitAppend
    <3> QED
      BY <3>1, CutLast
  <2>3. Append(s, c) \in Text /\ Append(last, c) \in Text /\ <<>> \in Text
        /\ ToSet(Append(s, c)) = ToSet(s) \cup {c}
    BY TextAppend, TextEmpty, SetFacts
  <2>4. Len(front) \in Nat
    BY LenProperties
  <2>5. ASSUME NEW a \in Seq(Text), NEW e \in Text
        PROVE  Append(a, e) \in Seq(Text) /\ Len(Append(a, e)) = Len(a) + 1
    BY AppendProperties
  <2>6. CASE c = Dot
    <3>1. Len(Append(Append(front, last), <<>>)) = Len(front) + 2
      <4> DEFINE all == Append(front, last)
                 none == <<>>
      <4>1. all \in Seq(Text) /\ Len(all) = Len(front) + 1 /\ none \in Text
        BY <2>3, <2>5
      <4> HIDE DEF all, none
      <4>2. Len(Append(all, none)) = Len(all) + 1
        BY <2>5, <4>1
      <4>3. Len(Append(all, none)) = Len(front) + 2
        BY <2>4, <4>1, <4>2
      <4> QED
        BY <4>3 DEF all, none
    <3> QED
      BY <2>2, <2>3, <2>4, <2>6, <3>1
  <2>7. CASE c # Dot /\ Dot \in ToSet(s)
    <3>1. Len(Split(s)) >= 2 /\ Len(Split(s)) = Len(front) + 1
      BY <1>2, <2>1, <2>5, <2>7
    <3>2. Len(Split(Append(s, c))) = Len(front) + 1
      BY <2>2, <2>3, <2>5, <2>7
    <3> QED
      BY <2>3, <2>7, <3>1, <3>2
  <2>8. CASE c # Dot /\ Dot \notin ToSet(s)
    <3> DEFINE none == <<>>
    <3>1. Append(front, last) = Append(none, s) /\ none \in Seq(Text)
      BY <1>2, <2>1, <2>8, EmptySeq
    <3> HIDE DEF none
    <3>2. front = none /\ last = s
      BY <3>1, AppendInjective
    <3>3. Split(Append(s, c)) = Append(none, Append(s, c))
      BY <2>2, <2>8, <3>2
    <3> QED
      BY <2>3, <2>8, <3>3 DEF none
  <2> QED
    BY <2>6, <2>7, <2>8
<1>3. Text \subseteq T
  <2> HIDE DEF T
  <2> QED
    BY <1>1, <1>2, SequenceInductionAppend DEF Text
<1>4. Append(<<>>, str) = <<str>>
  OBVIOUS
<1> QED
  BY <1>3, <1>4

(* A name without a dot is one word; one with dots has a dot next to the   *)
(* first.                                                                  *)
LEMMA SpelledWords ==
  ASSUME NEW str \in Text
  PROVE  /\ Spelled(str) \in Seq(Text)
         /\ Dot \notin ToSet(str) => Spelled(str) = <<Word(str)>>
         /\ Dot \in ToSet(str) => Len(Spelled(str)) >= 3 /\ Spelled(str)[2] = DotWord
<1> DEFINE T == {ps \in Seq(Text) :
                   /\ Len(ps) = 1 => Len(Named(ps)) = 1
                   /\ Len(ps) >= 2 => Len(Named(ps)) >= 3 /\ Named(ps)[2] = DotWord}
<1>1. <<>> \in T
  BY EmptySeq
<1>2. DotWord \in Text
  BY WordFacts
<1>3. ASSUME NEW ps \in Seq(Text), NEW p \in Text, ps \in T PROVE Append(ps, p) \in T
  <2> DEFINE b == Before(ps)
             n == Named(ps)
             w == Word(p)
             all == Append(b, w)
  <2>1. n \in Seq(Text) /\ b \in Seq(Text) /\ w \in Text /\ Named(Append(ps, p)) = all
    BY NamedLast
  <2>2. b = IF ps = <<>> THEN <<>> ELSE Append(n, DotWord)
    BY DEF Before
  <2>3. /\ Len(ps) = 1 => Len(n) = 1
        /\ Len(ps) >= 2 => Len(n) >= 3 /\ n[2] = DotWord
    BY <1>3
  <2> HIDE DEF b, n, w
  <2>4. Len(all) = Len(b) + 1 /\ \A i \in 1..Len(b) : all[i] = b[i]
    BY <2>1, AppendProperties
  <2>5. Len(ps) \in Nat /\ Len(n) \in Nat /\ Len(b) \in Nat
        /\ Append(ps, p) \in Seq(Text) /\ Len(Append(ps, p)) = Len(ps) + 1
    BY <2>1, LenProperties, AppendProperties
  <2>6. CASE ps = <<>>
    <3>1. Len(ps) = 0 /\ Len(b) = 0
      BY <2>2, <2>6
    <3> QED
      BY <2>1, <2>4, <2>5, <3>1
  <2>7. CASE ps # <<>>
    <3>1. Len(ps) >= 1
      BY <2>5, <2>7, EmptySeq
    <3>2. b = Append(n, DotWord)
      BY <2>2, <2>7
    <3>3. Len(b) = Len(n) + 1 /\ b[Len(n) + 1] = DotWord /\ \A i \in 1..Len(n) : b[i] = n[i]
      BY <1>2, <2>1, <3>2, AppendProperties
    <3>4. Len(b) >= 2 /\ b[2] = DotWord
      <4>1. CASE Len(ps) = 1
        <5>1. Len(n) = 1
          BY <2>3, <4>1
        <5>2. Len(n) + 1 = 2
          BY <5>1
        <5> QED
          BY <3>3, <5>2
      <4>2. CASE Len(ps) >= 2
        <5>1. 2 \in 1..Len(n) /\ n[2] = DotWord /\ Len(n) >= 3
          BY <2>3, <2>5, <4>2
        <5> QED
          BY <2>5, <3>3, <5>1
      <4> QED
        BY <2>5, <3>1, <4>1, <4>2
    <3>5. 2 \in 1..Len(b)
      BY <2>5, <3>4
    <3>6. all[2] = DotWord
      BY <2>4, <3>4, <3>5
    <3>7. Len(all) >= 3 /\ Len(Append(ps, p)) # 1
      BY <2>4, <2>5, <3>1, <3>4
    <3> HIDE DEF all
    <3> QED
      BY <2>1, <2>5, <3>6, <3>7
  <2> QED
    BY <2>6, <2>7
<1>4. Seq(Text) \subseteq T
  <2> HIDE DEF T
  <2> QED
    BY <1>1, <1>3, SequenceInductionAppend
<1>5. Split(str) \in Seq(Text) /\ Spelled(str) = Named(Split(str))
  BY SplitAppend, SymbolsFacts, ByParts DEF Parts
<1>6. Spelled(str) \in Seq(Text)
  BY <1>5, NamedLast
<1>7. ASSUME Dot \notin ToSet(str) PROVE Spelled(str) = <<Word(str)>>
  <2> DEFINE none == <<>>
             w == Word(str)
  <2>1. Split(str) = Append(none, str) /\ none \in Seq(Text) /\ Before(none) = none
    BY <1>7, SplitDots DEF Before
  <2>2. Append(none, w) = <<w>>
    <3> HIDE DEF w
    <3> QED
      OBVIOUS
  <2> HIDE DEF none, w
  <2>3. Named(Append(none, str)) = Append(Before(none), w)
    BY <2>1, NamedLast DEF w
  <2> QED
    BY <1>5, <2>1, <2>2, <2>3 DEF w
<1>8. ASSUME Dot \in ToSet(str) PROVE Len(Spelled(str)) >= 3 /\ Spelled(str)[2] = DotWord
  <2>1. Len(Split(str)) >= 2
    BY <1>8, SplitDots
  <2> QED
    BY <1>4, <1>5, <2>1
<1> QED
  BY <1>6, <1>7, <1>8

(* The tokens of a statement about a user, one by one. *)
LEMMA TokenPlaces ==
  ASSUME NEW a \in Text, NEW b \in Seq(Text), NEW g \in Seq(Text), NEW ts, ts = <<a>> \o b \o g
  PROVE  /\ ts \in Seq(Text) /\ Len(ts) = (1 + Len(b)) + Len(g) /\ ts[1] = a
         /\ \A i \in 1..Len(b) : ts[1 + i] = b[i]
         /\ \A i \in 1..Len(g) : ts[(1 + Len(b)) + i] = g[i]
<1> DEFINE one == <<a>>
           ab == one \o b
           all == ab \o g
           L == Len(b)
           M == Len(g)
<1>1. one \in Seq(Text) /\ Len(one) = 1 /\ one[1] = a /\ L \in Nat /\ M \in Nat
  BY ShortSequences, LenProperties
<1> HIDE DEF one
<1>2. ab \in Seq(Text) /\ Len(ab) = 1 + L
      /\ \A i \in 1..(1 + L) : ab[i] = IF i <= 1 THEN one[i] ELSE b[i - 1]
  <2>1. ab \in Seq(Text) /\ Len(ab) = Len(one) + Len(b)
        /\ \A i \in 1..(Len(one) + Len(b)) : ab[i] = IF i <= Len(one) THEN one[i] ELSE b[i - Len(one)]
    BY <1>1, ConcatProperties
  <2> HIDE DEF ab
  <2> QED
    BY <1>1, <2>1
<1> HIDE DEF ab
<1>3. all \in Seq(Text) /\ Len(all) = (1 + L) + M
      /\ \A i \in 1..((1 + L) + M) : all[i] = IF i <= 1 + L THEN ab[i] ELSE g[i - (1 + L)]
  <2>1. all \in Seq(Text) /\ Len(all) = Len(ab) + Len(g)
        /\ \A i \in 1..(Len(ab) + Len(g)) : all[i] = IF i <= Len(ab) THEN ab[i] ELSE g[i - Len(ab)]
    BY <1>2, ConcatProperties
  <2> HIDE DEF all
  <2> QED
    BY <1>2, <2>1
<1> HIDE DEF all, L, M
<1>4. all[1] = a
  <2>1. 1 \in 1..(1 + L) /\ 1 \in 1..((1 + L) + M) /\ 1 <= 1 + L
    BY <1>1
  <2> QED
    BY <1>1, <1>2, <1>3, <2>1
<1>5. ASSUME NEW i \in 1..L PROVE all[1 + i] = b[i]
  <2>1. 1 + i \in 1..(1 + L) /\ 1 + i \in 1..((1 + L) + M) /\ 1 + i <= 1 + L /\ ~(1 + i <= 1)
        /\ (1 + i) - 1 = i
    BY <1>1
  <2> QED
    BY <1>2, <1>3, <2>1
<1>6. ASSUME NEW i \in 1..M PROVE all[(1 + L) + i] = g[i]
  <2>1. (1 + L) + i \in 1..((1 + L) + M) /\ ~((1 + L) + i <= 1 + L) /\ ((1 + L) + i) - (1 + L) = i
    BY <1>1
  <2> QED
    BY <1>3, <2>1
<1>7. ts = all
  BY DEF all, ab, one
<1> QED
  BY <1>3, <1>4, <1>5, <1>6, <1>7 DEF L, M

(* The tokens of the password. *)
LEMMA GivenPlaces ==
  ASSUME NEW password \in Text
  PROVE  /\ Given(password) \in Seq(Text)
         /\ password = <<>> => Len(Given(password)) = 0
         /\ password # <<>> => /\ Len(Given(password)) = 2
                               /\ Given(password)[1] = <<"", "WITH PASSWORD">>
                               /\ Given(password)[2] = <<Apos>> \o password
<1> DEFINE w == "WITH PASSWORD"
           word == <<"", w>>
           token == <<Apos>> \o password
<1>1. w \in Symbols /\ Apos \in Quotes
  BY Keywords DEF Quotes
<1>2. word \in Text /\ token \in Text
  BY <1>1, TextWords, QuotedToken
<1>3. Given(password) = IF password = <<>> THEN <<>> ELSE <<word>> \o <<token>>
  BY DEF Given, Bare
<1> HIDE DEF word, token
<1>4. <<word>> \o <<token>> = <<word, token>> /\ <<word, token>> \in Seq(Text)
  BY <1>2, ShortSequences, Zenon
<1>5. Len(<<word, token>>) = 2 /\ <<word, token>>[1] = word /\ <<word, token>>[2] = token
  OBVIOUS
<1>6. CASE password = <<>>
  BY <1>3, <1>6, EmptySeq
<1>7. CASE password # <<>>
  BY <1>3, <1>4, <1>5, <1>7 DEF word, token
<1> QED
  BY <1>6, <1>7

(* A quoted name is empty between its quotes only if the name is. *)
LEMMA EmptyToken ==
  ASSUME NEW r \in Text
  PROVE  <<Quote>> \o r = <<Quote>> <=> r = <<>>
<1> DEFINE none == <<>>
           one == <<Quote>>
<1>1. Quote \in Quotes /\ none \in Text /\ one \in Text
  BY TextEmpty, TextWords DEF Quotes
<1>2. one \o none = one
  BY <1>1, TextEmpty
<1>3. Tail(one \o r) = r /\ Tail(one \o none) = none
  BY <1>1, QuotedToken
<1> HIDE DEF one, none
<1>4. one \o r = one <=> r = none
  BY <1>2, <1>3
<1> QED
  BY <1>4 DEF one, none

Verbs == {"CREATE USER", "DROP USER"}

(* A statement that is read as one about the user, with the password. *)
About(str, c, user, password) ==
  /\ c = "DROP USER" => password = <<>>
  /\ Scan(str) \in Finished(Bare(c) \o Spelled(user) \o Given(password))
  /\ Nul \in ToSet(str) <=> Nul \in ToSet(password)

(* A statement about a user is accepted for a name that can be a role's    *)
(* and a password without Nul, and is then about that role and password.   *)
LEMMA UserStatement ==
  ASSUME NEW str, NEW user \in Text, NEW password \in Text,
         NEW c \in Verbs, About(str, c, user, password)
  PROVE  /\ Accepted(str) <=> IsRoleName(Clean(user)) /\ Nul \notin ToSet(password)
         /\ Accepted(str) => Role(str) = Truncated(Clean(user)) /\ Password(str) = password
<1> DEFINE a == <<"", c>>
           b == Spelled(user)
           g == Given(password)
           ts == <<a>> \o b \o g
           T == Tokens(str)
           clean == Clean(user)
           given == <<Apos>> \o password
           with == <<"", "WITH PASSWORD">>
           none == <<>>
<1>1. a \in Text /\ Bare(c) = <<a>> /\ Shortened(a) = a /\ a[1] = ""
  <2>1. c \in Symbols
    BY Keywords DEF Verbs
  <2> QED
    BY <2>1, TextWords, ShortenedWord DEF Bare
<1>2. with \in Text /\ Shortened(with) = with /\ with[1] = ""
  <2> DEFINE w == "WITH PASSWORD"
  <2>1. w \in Symbols
    BY Keywords
  <2> HIDE DEF w
  <2>2. <<"", w>> \in Text /\ Shortened(<<"", w>>) = <<"", w>> /\ <<"", w>>[1] = ""
    BY <2>1, TextWords, ShortenedWord
  <2> QED
    BY <2>2 DEF w
<1>3. given \in Text /\ Shortened(given) = given /\ given[1] = Apos /\ Tail(given) = password
  BY QuotedToken, ShortenedQuoted DEF Quotes
<1>4. b \in Seq(Text) /\ g \in Seq(Text) /\ Len(b) \in Nat /\ Len(g) \in Nat
  BY SpelledWords, GivenPlaces, LenProperties
<1>5. password = none => Len(g) = 0
  BY GivenPlaces
<1>6. password # none => Len(g) = 2 /\ g[1] = with /\ g[2] = given
  BY GivenPlaces
<1>7. clean \in Text /\ (Dot \in ToSet(clean) <=> Dot \in ToSet(user))
  BY CleanSet
<1>8. Scan(str).tokens = ts /\ T = Shorten(ts)
      /\ (Closed(str) <=> Nul \notin ToSet(password))
  <2>1. Scan(str) \in Finished(ts)
    BY <1>1, Zenon DEF About
  <2> HIDE DEF ts
  <2>2. Scan(str).tokens = ts /\ (Scan(str).quote = "" \/ Scan(str).behind) /\ T = Shorten(ts)
    BY <2>1, TokensFinished, Zenon
  <2> HIDE DEF T
  <2> QED
    BY <2>2 DEF About, Closed
<1> HIDE DEF a, b, g, clean, given, with, T
<1>9. /\ ts \in Seq(Text) /\ Len(ts) = (1 + Len(b)) + Len(g) /\ ts[1] = a
      /\ \A i \in 1..Len(b) : ts[1 + i] = b[i]
      /\ \A i \in 1..Len(g) : ts[(1 + Len(b)) + i] = g[i]
  <2>1. a \in Text /\ b \in Seq(Text) /\ g \in Seq(Text)
    BY <1>1, <1>4
  <2>2. ts = <<a>> \o b \o g
    OBVIOUS
  <2> HIDE DEF ts
  <2> QED
    BY <2>1, <2>2, TokenPlaces
<1> HIDE DEF ts
<1>10. Len(T) = Len(ts) /\ \A n \in 1..Len(ts) : T[n] = Shortened(ts[n])
  BY <1>8, <1>9, ShortenSteps
<1>11. Lexed(str) <=> Nul \notin ToSet(password) /\ \A n \in 1..Len(ts) : ts[n] # <<Quote>>
  <2>1. ToSet(ts) = {ts[n] : n \in 1..Len(ts)}
    <3>1. DOMAIN ts = 1..Len(ts)
      BY <1>9, LenProperties
    <3> QED
      BY <3>1 DEF ToSet
  <2> QED
    BY <1>8, <2>1 DEF Lexed
<1>12. Accepted(str) <=>
         /\ Lexed(str)
         /\ \/ Len(T) = 2 /\ T[1] \in {<<"", "CREATE USER">>, <<"", "DROP USER">>}
            \/ Len(T) = 4 /\ T[1] = <<"", "CREATE USER">> /\ T[3] = with /\ T[4][1] = Apos
         /\ T[2][1] = Quote /\ Tail(T[2]) \notin Reserved
  BY DEF Accepted, T, with
<1>13. Role(str) = Tail(T[2]) /\ Password(str) = IF Len(T) = 4 THEN Tail(T[4]) ELSE none
  BY DEF Role, Password, T
<1>14. CASE Dot \in ToSet(user)
  <2>1. ~IsRoleName(clean)
    BY <1>7, <1>14 DEF IsRoleName
  <2>2. Len(b) >= 3 /\ b[2] = DotWord
    BY <1>14, SpelledWords DEF b
  <2>3. 2 \in 1..Len(b) /\ 3 \in 1..Len(ts) /\ 1 + 2 = 3 /\ Len(ts) >= 4
    BY <1>4, <1>9, <2>2
  <2>4. ts[3] = DotWord
    BY <1>9, <2>2, <2>3
  <2>5. Shortened(DotWord) = DotWord /\ DotWord # with
    BY ShortenedWord, SymbolsFacts DEF DotWord, Dot, with
  <2>6. T[3] # with
    BY <1>10, <2>3, <2>4, <2>5
  <2>7. Len(T) # 2
    BY <1>4, <1>9, <1>10, <2>3
  <2> QED
    BY <1>12, <2>1, <2>6, <2>7 DEF clean
<1>15. CASE Dot \notin ToSet(user)
  <2> DEFINE w == Word(user)
  <2>1. b = <<w>> /\ Len(b) = 1 /\ b[1] = w
    <3>1. b = <<w>>
      BY <1>15, SpelledWords DEF b
    <3> HIDE DEF w
    <3> QED
      BY <3>1
  <2>2. w = IF clean = <<"*">> THEN <<"", "*">> ELSE <<Quote>> \o clean
    BY DEF Word, clean
  <2> HIDE DEF w
  <2>3. Len(ts) = 2 + Len(g) /\ 1 \in 1..Len(ts) /\ 2 \in 1..Len(ts) /\ ts[2] = w
        /\ \A i \in 1..Len(g) : ts[2 + i] = g[i]
    <3>1. Len(ts) = 2 + Len(g) /\ 1 \in 1..Len(ts) /\ 2 \in 1..Len(ts)
      BY <1>4, <1>9, <2>1
    <3>2. 1 \in 1..Len(b) /\ 1 + 1 = 2 /\ 1 + Len(b) = 2
      BY <2>1
    <3>3. ts[2] = w
      BY <1>9, <2>1, <3>2
    <3> QED
      BY <1>9, <3>1, <3>2, <3>3
  <2>4. T[1] = a /\ T[2] = Shortened(w) /\ Len(T) = 2 + Len(g)
    BY <1>1, <1>9, <1>10, <2>3
  <2>5. password # none => /\ 3 \in 1..Len(ts) /\ 4 \in 1..Len(ts) /\ Len(T) = 4
                           /\ ts[3] = with /\ ts[4] = given /\ T[3] = with /\ T[4] = given
    <3> SUFFICES ASSUME password # none
                 PROVE  /\ 3 \in 1..Len(ts) /\ 4 \in 1..Len(ts) /\ Len(T) = 4
                        /\ ts[3] = with /\ ts[4] = given /\ T[3] = with /\ T[4] = given
      OBVIOUS
    <3>1. Len(g) = 2 /\ g[1] = with /\ g[2] = given
      BY <1>6
    <3>2. 1 \in 1..Len(g) /\ 2 \in 1..Len(g) /\ 2 + 1 = 3 /\ 2 + 2 = 4 /\ Len(ts) = 4
          /\ 3 \in 1..Len(ts) /\ 4 \in 1..Len(ts)
      BY <2>3, <3>1
    <3>3. ts[3] = with /\ ts[4] = given
      BY <2>3, <3>1, <3>2
    <3> QED
      BY <1>2, <1>3, <1>10, <3>2, <3>3
  <2>6. password = none => Len(ts) = 2 /\ Len(T) = 2
    BY <1>5, <2>3, <2>4
  <2>7. CASE clean = <<"*">>
    <3>1. ~IsRoleName(clean)
      BY <2>7 DEF IsRoleName
    <3>2. T[2][1] # Quote
      <4>1. "*" \in Symbols
        BY SymbolsFacts
      <4>2. T[2] = <<"", "*">>
        BY <2>2, <2>4, <2>7, <4>1, ShortenedWord, Zenon
      <4>3. <<"", "*">>[1] = "" /\ Quote # ""
        BY DEF Quote
      <4> QED
        BY <4>2, <4>3, Zenon
    <3> QED
      BY <1>12, <3>1, <3>2 DEF clean
  <2>8. CASE clean = <<>>
    <3>1. ~IsRoleName(clean)
      BY <2>8 DEF IsRoleName
    <3>2. clean # <<"*">>
      BY <2>8
    <3>3. <<Quote>> \o clean = <<Quote>>
      BY <1>7, <2>8, EmptyToken
    <3>4. ts[2] = <<Quote>>
      BY <2>2, <2>3, <3>2, <3>3
    <3>5. ~Lexed(str)
      BY <1>11, <2>3, <3>4
    <3> QED
      BY <1>12, <3>1, <3>5 DEF clean
  <2>9. CASE clean # <<"*">> /\ clean # <<>>
    <3> DEFINE known == Truncated(clean)
    <3>1. w = <<Quote>> \o clean /\ w # <<Quote>>
      <4>1. w = <<Quote>> \o clean
        BY <2>2, <2>9
      <4> QED
        BY <1>7, <2>9, <4>1, EmptyToken
    <3>2. T[2] = <<Quote>> \o known /\ known \in Text
      BY <1>7, <2>4, <3>1, ShortenedQuoted, TruncatedType
    <3>3. T[2][1] = Quote /\ Tail(T[2]) = known
      BY <3>2, QuotedToken DEF Quotes
    <3> HIDE DEF known
    <3>4. IsRoleName(clean) <=> known \notin Reserved
      BY <1>7, <1>15, <2>9 DEF IsRoleName, known
    <3>5. <<Quote>>[1] = Quote /\ Quote # "" /\ Quote # Apos
      BY DEF Quote, Apos
    <3>6. Lexed(str) <=> Nul \notin ToSet(password)
      <4>1. ts[1] # <<Quote>> /\ ts[2] # <<Quote>>
        BY <1>1, <1>9, <2>3, <3>1, <3>5
      <4>2. CASE password = none
        <5>1. Len(ts) = 2
          BY <2>6, <4>2
        <5>2. \A n \in 1..Len(ts) : n = 1 \/ n = 2
          BY <5>1
        <5> QED
          BY <1>11, <4>1, <5>2
      <4>3. CASE password # none
        <5>1. ts[3] # <<Quote>> /\ ts[4] # <<Quote>>
          BY <1>2, <1>3, <2>5, <3>5, <4>3
        <5>2. Len(ts) = 4
          BY <1>10, <2>5, <4>3
        <5>3. \A n \in 1..Len(ts) : n = 1 \/ n = 2 \/ n = 3 \/ n = 4
          BY <5>2
        <5> QED
          BY <1>11, <4>1, <5>1, <5>3
      <4> QED
        BY <4>2, <4>3
    <3>7. CASE password = none
      <4>1. T[1] \in {<<"", "CREATE USER">>, <<"", "DROP USER">>}
        BY <2>4, Zenon DEF a, Verbs
      <4>2. Len(T) = 2 /\ Len(T) # 4
        BY <2>6, <3>7
      <4>3. Accepted(str) <=> IsRoleName(clean) /\ Nul \notin ToSet(password)
        BY <1>12, <3>3, <3>4, <3>6, <4>1, <4>2
      <4> QED
        BY <1>13, <3>3, <3>7, <4>2, <4>3 DEF clean, known
    <3>8. CASE password # none
      <4>1. T[1] = <<"", "CREATE USER">>
        BY <2>4, <3>8, Zenon DEF a, none, About, Verbs
      <4>2. Len(T) = 4 /\ T[3] = with /\ T[4] = given
        BY <2>5, <3>8
      <4>3. Accepted(str) <=> IsRoleName(clean) /\ Nul \notin ToSet(password)
        BY <1>3, <1>12, <3>3, <3>4, <3>6, <4>1, <4>2
      <4> QED
        BY <1>3, <1>13, <3>3, <4>2, <4>3 DEF clean, known
    <3> QED
      BY <3>7, <3>8
  <2> QED
    BY <2>7, <2>8, <2>9
<1> QED
  BY <1>14, <1>15

(* The statements that the code builds are about their users. *)
LEMMA BuiltAbout ==
  ASSUME NEW user \in Text, NEW password \in Text, NEW none, none = <<>>
  PROVE  /\ About(createUserQuery(user, password), "CREATE USER", user, password)
         /\ About(deleteUserQuery(user), "DROP USER", user, none)
<1>1. About(createUserQuery(user, password), "CREATE USER", user, password)
  <2>1. "CREATE USER" # "DROP USER"
    BY Zenon
  <2> QED
    BY <2>1, CreateScan, Zenon DEF About
<1>2. About(deleteUserQuery(user), "DROP USER", user, none)
  <2> DEFINE c == "DROP USER"
             text0 == deleteUserQuery(user)
             read == Bare(c) \o Spelled(user)
  <2>1. Scan(text0) \in Finished(read) /\ Nul \notin ToSet(text0)
    BY DropScan, Zenon
  <2>2. Given(none) = <<>> /\ Nul \notin ToSet(none)
    BY SetFacts DEF Given
  <2>3. read \in Seq(Text)
    <3>1. Bare(c) \in Seq(Text)
      BY Keywords, TextWords
    <3>2. Spelled(user) \in Seq(Text)
      BY SpelledWords
    <3> HIDE DEF c
    <3> QED
      BY <3>1, <3>2, ConcatProperties
  <2> HIDE DEF read, text0
  <2>4. read \o Given(none) = read
    BY <2>2, <2>3, ConcatEmptySeq
  <2> QED
    BY <2>1, <2>2, <2>4, Zenon DEF About, read, text0
<1> QED
  BY <1>1, <1>2, Zenon

(* CREATE USER and DROP USER are taken exactly for a name that can be a    *)
(* role's (no dot in it, not empty, not reserved) and a password without   *)
(* NUL, and then they are about the role of that name, as far as the       *)
(* server keeps names, and about that password: for names and passwords of *)
(* every length and of any characters, whatever number of bytes is kept.   *)
(* createUserQuery, deleteUserQuery, escapeLiteral and escapeString quote  *)
(* them so.                                                                *)
THEOREM UserReadsBackAlways ==
  Spec => []UserReadsBack
<1>1. Built => UserReadsBack
  <2> SUFFICES ASSUME Built, text # <<>> PROVE UserReadsBack
    BY DEF UserReadsBack
  <2> DEFINE user == call.user
             password == call.password
             none == <<>>
             create == "CREATE USER"
             drop == "DROP USER"
  <2>1. create \in Verbs /\ drop \in Verbs
    BY DEF Verbs
  <2>2. CASE call.op = "create"
    <3>1. call \in Creates
      BY <2>2 DEF Built, Drops, Changes
    <3>2. user \in Text /\ password \in Text
      BY <3>1, Texts DEF Creates
    <3>3. text = createUserQuery(user, password)
      BY <2>2 DEF Built
    <3> HIDE DEF user, password, create, drop
    <3>4. About(text, create, user, password)
      BY <3>2, <3>3, BuiltAbout, Zenon DEF create
    <3>5. /\ Accepted(text) <=> IsRoleName(Clean(user)) /\ Nul \notin ToSet(password)
          /\ Accepted(text) => Role(text) = Truncated(Clean(user)) /\ Password(text) = password
      BY <2>1, <3>2, <3>4, UserStatement, Zenon
    <3> QED
      BY <2>2, <3>5 DEF UserReadsBack, Clean, user, password
  <2>3. CASE call.op = "drop"
    <3>1. call \in Drops
      BY <2>3 DEF Built, Creates, Changes
    <3>2. user \in Text /\ none \in Text
      BY <3>1, Texts, TextEmpty DEF Drops
    <3>3. call.op # "create"
      BY <2>3
    <3>4. text = deleteUserQuery(user)
      BY <2>3, <3>3 DEF Built
    <3>5. none = <<>>
      OBVIOUS
    <3> HIDE DEF user, none, create, drop
    <3>6. About(text, drop, user, none)
      BY <3>2, <3>4, <3>5, BuiltAbout, Zenon DEF drop
    <3>7. /\ Accepted(text) <=> IsRoleName(Clean(user)) /\ Nul \notin ToSet(none)
          /\ Accepted(text) => Role(text) = Truncated(Clean(user)) /\ Password(text) = none
      BY <2>1, <3>2, <3>6, UserStatement, Zenon
    <3> QED
      BY <3>3, <3>7 DEF UserReadsBack, Clean, user, none
  <2> QED
    BY <2>2, <2>3 DEF UserReadsBack
<1> QED
  BY <1>1, BuiltInvariant, PTL

(* The DROP USER of one User drops the role created for another exactly if *)
(* their names agree in the first IdentLen bytes, whatever their lengths:  *)
(* escapeLiteral quotes every character of a name and does not limit it,   *)
(* so that only what the server cuts off can make two Users one role.      *)
THEOREM NamesApartAlways ==
  Spec => []NamesApart
<1>1. Built => NamesApart
  <2> DEFINE user == call.user
             other == call.other
             none == <<>>
             create == "CREATE USER"
             drop == "DROP USER"
             created == createUserQuery(other, none)
  <2> SUFFICES ASSUME Built, call.op = "drop", text # <<>>, Nul \notin ToSet(user \o other),
                      Accepted(text), Accepted(created)
               PROVE  Role(text) = Role(created) <=> Truncated(user) = Truncated(other)
    BY DEF NamesApart
  <2>1. create \in Verbs /\ drop \in Verbs /\ none = <<>> /\ none \in Text
    BY TextEmpty DEF Verbs
  <2>2. call \in Drops
    BY DEF Built, Creates, Changes
  <2>3. user \in Text /\ other \in Text
    BY <2>2, Texts DEF Drops
  <2>4. text = deleteUserQuery(user)
    <3>1. call.op # "create"
      OBVIOUS
    <3> QED
      BY <3>1 DEF Built
  <2> HIDE DEF user, other, none, create, drop
  <2>5. About(text, drop, user, none)
    BY <2>1, <2>3, <2>4, BuiltAbout, Zenon DEF drop
  <2>6. About(created, create, other, none)
    BY <2>1, <2>3, BuiltAbout, Zenon DEF create
  <2> HIDE DEF created
  <2>7. Role(text) = Truncated(Clean(user))
    BY <2>1, <2>3, <2>5, UserStatement, Zenon
  <2>8. Role(created) = Truncated(Clean(other))
    BY <2>1, <2>3, <2>6, UserStatement, Zenon
  <2>9. user \in Plain /\ other \in Plain
    BY <2>3, PlainText, Zenon
  <2>10. Clean(user) = user /\ Clean(other) = other
    BY <2>9, CleanPlain, Zenon
  <2> QED
    BY <2>7, <2>8, <2>10, Zenon
<1> QED
  BY <1>1, BuiltInvariant, PTL

-------------------------------------------------------------------------------
(* escapeLiteralWithoutQuotes, a character at a time. *)
Strip(p) == Replaced(Replaced(Clean(p), Quote, <<Quote, Quote>>), ";", <<>>)

Stripped(ps) == Join([n \in DOMAIN ps |-> Strip(ps[n])])

Kept(c) == IF c \in {Nul, ";"} THEN <<>> ELSE IF c = Quote THEN <<Quote, Quote>> ELSE <<c>>

(* What is kept of a character is a text. *)
LEMMA KeptType ==
  ASSUME NEW c \in Symbols
  PROVE  Kept(c) \in Text
<1>1. <<c>> \in Text
  BY TextAppend, TextEmpty
<1> QED
  BY <1>1, TextEmpty, TextWords DEF Kept

(* What is kept of the last character comes last. *)
LEMMA StripAppend ==
  ASSUME NEW p \in Text, NEW c \in Symbols
  PROVE  Strip(p) \in Text /\ Strip(Append(p, c)) = Strip(p) \o Kept(c)
<1> DEFINE none == <<>>
           two == <<Quote, Quote>>
           A(r) == Replaced(r, Nul, none)
           B(r) == Replaced(r, Quote, two)
           C(r) == Replaced(r, ";", none)
<1>1. none \in Text /\ two \in Text /\ Append(p, c) \in Text
  BY TextEmpty, TextWords, TextAppend
<1>2. \A r : Strip(r) = C(B(A(r)))
  BY DEF Strip, Clean
<1> HIDE DEF none, two
<1>3. ASSUME NEW r \in Text, NEW d \in Symbols
      PROVE  /\ A(r) \in Text /\ B(r) \in Text /\ C(r) \in Text
             /\ A(Append(r, d)) = A(r) \o (IF d = Nul THEN none ELSE <<d>>)
             /\ B(Append(r, d)) = B(r) \o (IF d = Quote THEN two ELSE <<d>>)
             /\ C(Append(r, d)) = C(r) \o (IF d = ";" THEN none ELSE <<d>>)
  <2>1. A(r) \in Text /\ A(Append(r, d)) = A(r) \o (IF d = Nul THEN none ELSE <<d>>)
    BY <1>1, ReplacedAppend
  <2>2. B(r) \in Text /\ B(Append(r, d)) = B(r) \o (IF d = Quote THEN two ELSE <<d>>)
    BY <1>1, ReplacedAppend
  <2>3. C(r) \in Text /\ C(Append(r, d)) = C(r) \o (IF d = ";" THEN none ELSE <<d>>)
    <3> DEFINE semi == ";"
    <3>1. C(r) = Replaced(r, semi, none) /\ C(Append(r, d)) = Replaced(Append(r, d), semi, none)
      OBVIOUS
    <3> HIDE DEF semi, C
    <3>2. Replaced(r, semi, none) \in Text
          /\ Replaced(Append(r, d), semi, none) =
               Replaced(r, semi, none) \o (IF d = semi THEN none ELSE <<d>>)
      BY <1>1, ReplacedAppend
    <3> QED
      BY <3>1, <3>2 DEF semi
  <2> QED
    BY <2>1, <2>2, <2>3
<1>4. ASSUME NEW r \in Text PROVE r \o none = r
  BY TextEmpty DEF none
<1>5. ASSUME NEW r \in Text, NEW d \in Symbols PROVE r \o <<d>> = Append(r, d) /\ Append(r, d) \in Text
  BY TextAppend
<1> HIDE DEF A, B, C
<1> DEFINE a == A(p)
           b == B(a)
<1>6. a \in Text
  BY <1>3
<1>7. b \in Text
  <2> HIDE DEF a
  <2> QED
    BY <1>3, <1>6
<1>8. Strip(p) = C(b) /\ Strip(Append(p, c)) = C(B(A(Append(p, c))))
  BY <1>2, Zenon
<1> HIDE DEF a, b
<1>9. C(b) \in Text
  BY <1>3, <1>7
<1>10. Nul # Quote /\ Nul # ";" /\ Quote # ";" /\ Quote \in Symbols
  BY SymbolsFacts DEF Nul, Quote
<1>11. CASE c = Nul
  <2>1. A(Append(p, c)) = a
    BY <1>3, <1>4, <1>6, <1>11 DEF a
  <2>2. Kept(c) = none
    BY <1>11 DEF Kept, none
  <2>3. Strip(Append(p, c)) = C(b)
    BY <1>8, <2>1 DEF b
  <2> QED
    BY <1>4, <1>8, <1>9, <2>2, <2>3
<1>12. CASE c # Nul
  <2>1. A(Append(p, c)) = Append(a, c)
    <3>1. A(Append(p, c)) = a \o <<c>>
      BY <1>3, <1>12 DEF a
    <3> QED
      BY <1>5, <1>6, <3>1
  <2>2. B(Append(a, c)) = b \o (IF c = Quote THEN two ELSE <<c>>)
    BY <1>3, <1>6 DEF b
  <2>3. CASE c = Quote
    <3>1. two = <<Quote>> \o <<Quote>>
      BY <1>10, ShortSequences DEF two
    <3>2. b \o (<<Quote>> \o <<Quote>>) = Append(Append(b, Quote), Quote)
      <4> DEFINE one == <<Quote>>
      <4>1. one \in Text /\ b \o one = Append(b, Quote)
        BY <1>5, <1>7, <1>10, TextWords
      <4>2. b \o (one \o <<Quote>>) = Append(b \o one, Quote)
        <5> HIDE DEF one
        <5> QED
          BY <1>7, <1>10, <4>1, TextLast
      <4> QED
        BY <4>1, <4>2
    <3>3. Strip(Append(p, c)) = C(Append(Append(b, Quote), Quote))
      BY <1>8, <2>1, <2>2, <2>3, <3>1, <3>2
    <3> DEFINE one == <<Quote>>
               x == Append(b, Quote)
    <3>4. x \in Text /\ one \in Text
      BY <1>5, <1>7, <1>10, TextWords
    <3>5. C(x) = C(b) \o one
      BY <1>3, <1>7, <1>10
    <3> HIDE DEF x
    <3>6. C(Append(x, Quote)) = C(x) \o one
      BY <1>3, <1>10, <3>4
    <3>7. (C(b) \o one) \o one = C(b) \o (one \o one)
      <4> HIDE DEF one
      <4> QED
        BY <1>9, <3>4, TextAssociative, SMTT(30)
    <3>8. Kept(c) = one \o one
      BY <1>10, <2>3, <3>1 DEF Kept, two
    <3> QED
      BY <1>8, <1>9, <3>3, <3>5, <3>6, <3>7, <3>8 DEF x
  <2>4. CASE c # Quote
    <3>1. Strip(Append(p, c)) = C(Append(b, c))
      BY <1>5, <1>7, <1>8, <2>1, <2>2, <2>4
    <3>2. C(Append(b, c)) = C(b) \o (IF c = ";" THEN none ELSE <<c>>)
      BY <1>3, <1>7
    <3>3. Kept(c) = IF c = ";" THEN none ELSE <<c>>
      BY <1>12, <2>4 DEF Kept, none
    <3> QED
      BY <1>8, <1>9, <3>1, <3>2, <3>3
  <2> QED
    BY <2>3, <2>4
<1> QED
  BY <1>11, <1>12

(* Nothing is kept of nothing. *)
LEMMA StripEmpty ==
  Strip(<<>>) = <<>>
BY ReplacedEmpty DEF Strip, Clean

(* The last part is stripped last, behind a dot. *)
LEMMA StrippedAppend ==
  ASSUME NEW ps \in Seq(Text), NEW p \in Text
  PROVE  /\ Stripped(ps) \in Text
         /\ Stripped(Append(ps, p)) =
              Stripped(ps) \o (IF ps = <<>> THEN Strip(p) ELSE <<Dot>> \o Strip(p))
<1> DEFINE F == [r \in Text |-> Strip(r)]
           M(rs) == Join([n \in DOMAIN rs |-> F[rs[n]]])
<1>1. F \in [Text -> Text] /\ F[p] = Strip(p)
  BY StripAppend, SymbolsFacts
<1>2. ASSUME NEW rs \in Seq(Text) PROVE Stripped(rs) = M(rs)
  <2>1. \A n \in DOMAIN rs : F[rs[n]] = Strip(rs[n])
    BY LenProperties, ElementOfSeq
  <2> HIDE DEF F
  <2>2. [n \in DOMAIN rs |-> F[rs[n]]] = [n \in DOMAIN rs |-> Strip(rs[n])]
    BY <2>1
  <2> QED
    BY <2>2 DEF Stripped
<1>3. Stripped(ps) = M(ps) /\ Stripped(Append(ps, p)) = M(Append(ps, p))
  <2>1. Append(ps, p) \in Seq(Text)
    BY AppendProperties
  <2> HIDE DEF M
  <2> QED
    BY <1>2, <2>1
<1>4. M(ps) \in Text /\ M(Append(ps, p)) = M(ps) \o (IF ps = <<>> THEN F[p] ELSE <<Dot>> \o F[p])
  <2> HIDE DEF F
  <2> QED
    BY <1>1, JoinMapped, Zenon
<1> HIDE DEF M, F
<1> QED
  BY <1>1, <1>3, <1>4

(* An empty privilege is empty text. *)
LEMMA WithoutQuotesEmpty ==
  escapeLiteralWithoutQuotes(<<>>) = <<>>
<1> DEFINE none == <<>>
<1>1. none \in Text /\ none \in Seq(Text)
  BY TextEmpty
<1>2. << <<>> >> = Append(none, <<>>)
  OBVIOUS
<1>3. Stripped(none) = <<>>
  <2>1. [n \in DOMAIN <<>> |-> Strip(<<>>[n])] = <<>>
    OBVIOUS
  <2> QED
    BY <2>1, JoinEmpty DEF Stripped
<1>4. Stripped(Append(none, <<>>)) = Stripped(none) \o (IF none = <<>> THEN Strip(<<>>) ELSE <<Dot>> \o Strip(<<>>))
  BY <1>1, StrippedAppend, Zenon
<1>5. Stripped(<< <<>> >>) = <<>>
  BY <1>2, <1>3, <1>4, StripEmpty
<1> QED
  BY <1>5, SplitEmpty DEF escapeLiteralWithoutQuotes, Stripped, Strip, Clean

(* Splitting and joining cancel out: each character by itself. *)
LEMMA WithoutQuotesAppend ==
  ASSUME NEW str \in Text, NEW c \in Symbols
  PROVE  /\ escapeLiteralWithoutQuotes(str) \in Text
         /\ escapeLiteralWithoutQuotes(Append(str, c)) = escapeLiteralWithoutQuotes(str) \o Kept(c)
<1>1. \A r : escapeLiteralWithoutQuotes(r) = Stripped(Split(r))
  BY DEF escapeLiteralWithoutQuotes, Stripped, Strip, Clean
<1>2. Split(str) \in Parts /\ Split(Append(str, c)) = Cut(Split(str), c)
  BY SplitAppend
<1>3. PICK front \in Seq(Text), last \in Text : Split(str) = Append(front, last)
  BY <1>2, PartsLast
<1>4. Cut(Split(str), c) = IF c = Dot THEN Append(Append(front, last), <<>>)
                           ELSE Append(front, Append(last, c))
  BY <1>3, CutLast
<1> DEFINE all == Append(front, last)
           e == Stripped(all)
           k == Kept(c)
<1>5. all \in Seq(Text) /\ all # <<>> /\ k \in Text
  BY AppendProperties, KeptType
<1>6. e \in Text
  <2> HIDE DEF all
  <2> QED
    BY <1>5, StrippedAppend
<1>7. Stripped(Split(Append(str, c))) = e \o k
  <2>1. CASE c = Dot
    <3> DEFINE none == <<>>
               dot == <<Dot>>
    <3>1. none \in Text /\ dot \in Text
      BY TextEmpty, TextWords
    <3>2. Strip(none) = none
      BY StripEmpty
    <3>3. dot \o none = dot
      BY <3>1, TextEmpty
    <3>4. k = dot
      BY <2>1 DEF Kept, Dot, Nul, Quote
    <3>5. Split(Append(str, c)) = Append(all, none)
      BY <1>2, <1>4, <2>1
    <3> HIDE DEF all, none, dot, k
    <3>6. Stripped(Append(all, none)) = Stripped(all) \o (dot \o Strip(none))
      BY <1>5, <3>1, StrippedAppend DEF dot
    <3> QED
      BY <3>2, <3>3, <3>4, <3>5, <3>6
  <2>2. CASE c # Dot
    <3> DEFINE more == Append(last, c)
               s == Strip(last)
               f == Stripped(front)
    <3>1. more \in Text
      BY TextAppend
    <3>2. s \in Text /\ Strip(more) = s \o k
      BY StripAppend
    <3>3. f \in Text /\ e = f \o (IF front = <<>> THEN s ELSE <<Dot>> \o s)
      BY StrippedAppend
    <3>4. Split(Append(str, c)) = Append(front, more)
      BY <1>2, <1>4, <2>2
    <3> HIDE DEF more, e, k
    <3>5. Stripped(Append(front, more)) = f \o (IF front = <<>> THEN Strip(more) ELSE <<Dot>> \o Strip(more))
      BY <3>1, StrippedAppend
    <3> HIDE DEF s, f
    <3>6. CASE front = <<>>
      <4>1. f \o (s \o k) = (f \o s) \o k
        <5>1. f \in Text /\ s \in Text /\ k \in Text
          BY <1>5, <3>2, <3>3
        <5> QED
          BY <5>1, TextAssociative, SMTT(30)
      <4> QED
        BY <3>2, <3>3, <3>4, <3>5, <3>6, <4>1
    <3>7. CASE front # <<>>
      <4> DEFINE dot == <<Dot>>
                 x == dot \o s
      <4>1. dot \in Text
        BY TextWords
      <4> HIDE DEF dot
      <4>2. x \in Text
        BY <3>2, <4>1, TextConcat
      <4>3. s \in Text /\ k \in Text /\ dot \in Text
        BY <1>5, <3>2, <4>1
      <4>4. dot \o (s \o k) = x \o k
        BY <4>3, TextAssociative, SMTT(30)
      <4>5. f \in Text /\ x \in Text /\ k \in Text
        BY <1>5, <3>3, <4>2
      <4> HIDE DEF x
      <4>6. f \o (x \o k) = (f \o x) \o k
        BY <4>5, TextAssociative, SMTT(30)
      <4> QED
        BY <3>2, <3>3, <3>4, <3>5, <3>7, <4>4, <4>6 DEF x, dot
    <3> QED
      BY <3>6, <3>7
  <2> QED
    BY <2>1, <2>2
<1> HIDE DEF all, e, k
<1> QED
  BY <1>1, <1>3, <1>6, <1>7 DEF all, e, k

-------------------------------------------------------------------------------
(* The tokens that do not end a statement. *)
EndToken == <<"", ";">>

Calm == Text \ {<<>>, EndToken}

(* They are tokens. *)
LEMMA CalmTokens ==
  Seq(Calm) \subseteq Seq(Text)
BY SeqMonotonic DEF Calm

(* A keyword or a character other than a semicolon is one of them. *)
LEMMA CalmBare ==
  ASSUME NEW c \in Symbols, c # ";"
  PROVE  Bare(c) \in Seq(Calm)
<1> DEFINE word == <<"", c>>
<1>1. word \in Text
  BY TextWords
<1>2. word # EndToken /\ word # <<>>
  BY DEF EndToken
<1> HIDE DEF word
<1>3. word \in Calm
  BY <1>1, <1>2 DEF Calm
<1>4. <<word>> \in Seq(Calm)
  BY <1>3, ShortSequences, Zenon
<1> QED
  BY <1>4 DEF Bare, word

(* So is what ends with a quote. *)
LEMMA CalmQuoted ==
  ASSUME NEW t \in Text
  PROVE  Append(t, Quote) \in Calm
<1> DEFINE one == <<"">>
           semi == ";"
<1>1. one \in Text /\ semi \in Symbols /\ Quote \in Symbols /\ semi # Quote
  <2>1. "" \in Symbols
    BY SymbolsFacts
  <2>2. one \in Text
    BY <2>1, ShortSequences DEF Text
  <2> QED
    BY <2>2, SymbolsFacts DEF Quote
<1>2. EndToken = Append(one, semi)
  <2> DEFINE empty == ""
  <2>1. empty \in Symbols /\ semi \in Symbols
    BY SymbolsFacts
  <2>2. EndToken = <<empty, semi>> /\ one = <<empty>>
    BY DEF EndToken
  <2>3. one \o <<semi>> = Append(one, semi)
    BY <1>1, TextAppend
  <2> HIDE DEF empty, semi
  <2>4. <<empty, semi>> = <<empty>> \o <<semi>>
    BY <2>1, ShortSequences
  <2> QED
    BY <2>2, <2>3, <2>4
<1> HIDE DEF one, semi
<1>3. Append(t, Quote) # Append(one, semi)
  BY <1>1, AppendInjective DEF Text
<1>4. Append(t, Quote) \in Text
  BY <1>1, TextAppend
<1>5. Append(t, Quote) # <<>>
  BY <1>1, AppendProperties DEF Text
<1> QED
  BY <1>2, <1>3, <1>4, <1>5 DEF Calm

(* So is a part of a name. *)
LEMMA CalmWord ==
  ASSUME NEW p \in Text
  PROVE  Word(p) \in Calm
<1> DEFINE name == <<Quote>> \o Clean(p)
           star == <<"", "*">>
<1>1. Quote \in Quotes /\ Clean(p) \in Text
  BY PartTypes DEF Quotes
<1>2. name \in Text /\ name # <<>> /\ name[1] = Quote
  BY <1>1, QuotedToken
<1>3. EndToken[1] = "" /\ Quote # ""
  BY DEF EndToken, Quote
<1>4. star # EndToken /\ star # <<>> /\ star \in Text
  BY TextWords, SymbolsFacts DEF EndToken
<1>5. Word(p) = IF Clean(p) = <<"*">> THEN star ELSE name
  BY DEF Word
<1> HIDE DEF name, star
<1>6. name # EndToken
  BY <1>2, <1>3
<1> QED
  BY <1>2, <1>4, <1>5, <1>6 DEF Calm

(* Truncating an identifier does not make it an end of statement. *)
LEMMA CalmShortened ==
  ASSUME NEW t \in Calm
  PROVE  Shortened(t) # EndToken
<1>1. t \in Text /\ t # <<>> /\ t # EndToken
  BY DEF Calm
<1>2. CASE t[1] = Quote
  <2> DEFINE r == Truncated(Tail(t))
             name == <<Quote>> \o r
  <2>1. Tail(t) \in Text
    BY <1>1, HeadTailProperties DEF Text
  <2>2. r \in Text /\ Quote \in Quotes
    BY <2>1, TruncatedType DEF Quotes
  <2> HIDE DEF r
  <2>3. name[1] = Quote
    BY <2>2, QuotedToken
  <2>4. EndToken[1] = "" /\ Quote # ""
    BY DEF EndToken, Quote
  <2>5. Shortened(t) = name
    BY <1>2 DEF Shortened, r
  <2> HIDE DEF name
  <2> QED
    BY <2>3, <2>4, <2>5
<1>3. CASE t[1] # Quote
  BY <1>1, <1>3 DEF Shortened
<1> QED
  BY <1>2, <1>3

(* A name does not end the statement that it is in. *)
LEMMA CalmSpelled ==
  ASSUME NEW str \in Text
  PROVE  Spelled(str) \in Seq(Calm)
<1> DEFINE T == {ps \in Seq(Text) : Named(ps) \in Seq(Calm)}
<1>1. <<>> \in T
  BY NamedEmpty, EmptySeq
<1>2. ASSUME NEW ps \in Seq(Text), NEW p \in Text, ps \in T PROVE Append(ps, p) \in T
  <2>1. DotWord \in Calm
    BY WordFacts DEF Calm, DotWord, EndToken, Dot
  <2>2. Before(ps) \in Seq(Calm)
    <3>1. CASE ps = <<>>
      BY <3>1, EmptySeq DEF Before
    <3>2. CASE ps # <<>>
      BY <1>2, <2>1, <3>2, AppendProperties DEF Before
    <3> QED
      BY <3>1, <3>2
  <2>3. Word(p) \in Calm
    BY CalmWord
  <2>4. Named(Append(ps, p)) = Append(Before(ps), Word(p))
    BY NamedLast
  <2>5. Append(Before(ps), Word(p)) \in Seq(Calm)
    BY <2>2, <2>3, AppendProperties
  <2>6. Append(ps, p) \in Seq(Text)
    BY AppendProperties
  <2> QED
    BY <2>4, <2>5, <2>6
<1>3. Seq(Text) \subseteq T
  <2> HIDE DEF T
  <2> QED
    BY <1>1, <1>2, SequenceInductionAppend
<1>4. Split(str) \in Seq(Text)
  BY SplitAppend, SymbolsFacts DEF Parts
<1> QED
  BY <1>3, <1>4, ByParts

(* What has been read behind the text of a privilege: no quote is open,    *)
(* and the statement has not ended.                                        *)
Quiet ==
  {Outside(ts) : ts \in Seq(Calm)} \cup
  {Behind(Quote, Append(ts, t)) : ts \in Seq(Calm), t \in Calm}

(* Both kinds of states are among them. *)
LEMMA QuietFacts ==
  /\ \A ts \in Seq(Calm) : Outside(ts) \in Quiet
  /\ \A ts \in Seq(Calm), t \in Calm : Behind(Quote, Append(ts, t)) \in Quiet
BY DEF Quiet

(* The tokens read in such a state. *)
LEMMA QuietFinished ==
  ASSUME NEW s \in Quiet
  PROVE  \E ts \in Seq(Calm) : s \in Finished(ts)
<1>1. ASSUME NEW ts \in Seq(Calm), s = Outside(ts) PROVE \E us \in Seq(Calm) : s \in Finished(us)
  BY <1>1 DEF Finished
<1>2. ASSUME NEW ts \in Seq(Calm), NEW t \in Calm, s = Behind(Quote, Append(ts, t))
      PROVE  \E us \in Seq(Calm) : s \in Finished(us)
  <2> DEFINE us == Append(ts, t)
  <2>1. us \in Seq(Calm)
    BY AppendProperties
  <2>2. Quote \in Quotes
    BY DEF Quotes
  <2> HIDE DEF us
  <2>3. s \in Finished(us)
    BY <1>2, <2>2 DEF Finished, us
  <2> QED
    BY <2>1, <2>3
<1> QED
  BY <1>1, <1>2 DEF Quiet

(* Two quotes outside of quoted text, or behind it, quote or are quoted. *)
LEMMA QuietQuotes ==
  ASSUME NEW pre \in Text, Scan(pre) \in Quiet
  PROVE  Scan(pre \o <<Quote, Quote>>) \in Quiet
<1>1. Quote \in Symbols /\ Quote \in Quotes
  BY SymbolsFacts DEF Quotes
<1>2. Append(pre, Quote) \in Text
  BY <1>1, TextAppend
<1>3. pre \o <<Quote, Quote>> = Append(Append(pre, Quote), Quote)
  <2> DEFINE one == <<Quote>>
  <2>1. <<Quote, Quote>> = one \o one /\ one \in Text
    BY <1>1, ShortSequences, TextWords
  <2>2. pre \o one = Append(pre, Quote)
    BY <1>1, TextAppend
  <2>3. pre \o (one \o <<Quote>>) = Append(pre \o one, Quote)
    <3> HIDE DEF one
    <3> QED
      BY <1>1, <2>1, TextAppend
  <2> QED
    BY <2>1, <2>2, <2>3
<1>4. ASSUME NEW ts \in Seq(Calm), NEW t \in Calm,
             Scan(Append(pre, Quote)) = Inside(Quote, Append(ts, t))
      PROVE  Scan(pre \o <<Quote, Quote>>) \in Quiet
  <2>1. Scan(Append(Append(pre, Quote), Quote)) = Behind(Quote, Append(ts, t))
    BY <1>1, <1>2, <1>4, ScanAppend, ScannedClosing
  <2> QED
    BY <1>3, <2>1, QuietFacts
<1>5. Scan(Append(pre, Quote)) = Scanned(Scan(pre), Quote)
  BY <1>1, ScanAppend
<1>6. ASSUME NEW ts \in Seq(Calm), Scan(pre) = Outside(ts)
      PROVE  Scan(pre \o <<Quote, Quote>>) \in Quiet
  <2> DEFINE t == <<Quote>>
  <2>1. t \in Calm
    <3>1. <<Quote>> = Append(<<>>, Quote)
      OBVIOUS
    <3> QED
      BY <3>1, CalmQuoted, TextEmpty
  <2>2. Scan(Append(pre, Quote)) = Inside(Quote, Append(ts, t))
    BY <1>1, <1>5, <1>6, ScannedOutside DEF Read
  <2> HIDE DEF t
  <2> QED
    BY <1>4, <2>1, <2>2
<1>7. ASSUME NEW ts \in Seq(Calm), NEW t \in Calm, Scan(pre) = Behind(Quote, Append(ts, t))
      PROVE  Scan(pre \o <<Quote, Quote>>) \in Quiet
  <2>1. ts \in Seq(Text) /\ t \in Text
    BY CalmTokens DEF Calm
  <2>2. Scan(Append(pre, Quote)) = Inside(Quote, Append(ts, Append(t, Quote)))
    BY <1>1, <1>5, <1>7, <2>1, ScannedDoubled
  <2>3. Append(t, Quote) \in Calm
    BY <2>1, CalmQuoted
  <2> QED
    BY <1>4, <2>2, <2>3
<1> QED
  BY <1>6, <1>7 DEF Quiet

(* Any other character that is kept is a token of its own. *)
LEMMA QuietWord ==
  ASSUME NEW pre \in Text, Scan(pre) \in Quiet,
         NEW c \in Symbols, c \notin Quotes, c # ";"
  PROVE  Scan(pre \o <<c>>) \in Quiet
<1>1. PICK ts \in Seq(Calm) : Scan(pre) \in Finished(ts)
  BY QuietFinished
<1>2. ts \in Seq(Text)
  BY CalmTokens
<1>3. Scan(pre \o <<c>>) = Outside(ts \o Bare(c))
  BY <1>1, <1>2, ScanWord
<1>4. Bare(c) \in Seq(Calm)
  BY CalmBare
<1>5. ts \o Bare(c) \in Seq(Calm)
  BY <1>4, ConcatProperties
<1> QED
  BY <1>3, <1>5, QuietFacts

(* The text of a privilege without an apostrophe. *)
Unquoted == Symbols \ {Apos}

(* It leaves the scanner as quiet as it was. *)
LEMMA ScanPrivilege ==
  ASSUME NEW pre \in Text, Scan(pre) \in Quiet, NEW privilege \in Seq(Unquoted)
  PROVE  /\ pre \o escapeLiteralWithoutQuotes(privilege) \in Text
         /\ Scan(pre \o escapeLiteralWithoutQuotes(privilege)) \in Quiet
<1> DEFINE E(p) == escapeLiteralWithoutQuotes(p)
           T == {p \in Seq(Unquoted) : pre \o E(p) \in Text /\ Scan(pre \o E(p)) \in Quiet}
<1>1. <<>> \in T
  <2>1. E(<<>>) = <<>> /\ pre \o <<>> = pre
    BY WithoutQuotesEmpty, TextEmpty
  <2> QED
    BY <2>1, EmptySeq
<1>2. ASSUME NEW p \in Seq(Unquoted), NEW c \in Unquoted, p \in T PROVE Append(p, c) \in T
  <2>1. p \in Text /\ c \in Symbols /\ c # Apos /\ Append(p, c) \in Seq(Unquoted)
    BY SeqMonotonic, AppendProperties DEF Text, Unquoted
  <2> DEFINE e == E(p)
             k == Kept(c)
             now == pre \o e
  <2>2. e \in Text /\ E(Append(p, c)) = e \o k /\ k \in Text
    BY <2>1, WithoutQuotesAppend, KeptType
  <2>3. now \in Text /\ Scan(now) \in Quiet
    BY <1>2
  <2>4. pre \o E(Append(p, c)) = now \o k
    <3>1. e \in Text /\ k \in Text
      BY <2>2
    <3>2. E(Append(p, c)) = e \o k
      BY <2>2
    <3> HIDE DEF e, k, E
    <3>3. pre \o (e \o k) = (pre \o e) \o k
      BY <3>1, TextAssociative, SMTT(30)
    <3> QED
      BY <3>2, <3>3
  <2>5. Scan(now \o k) \in Quiet
    <3> HIDE DEF now
    <3>1. CASE c \in {Nul, ";"}
      <4>1. k = <<>>
        BY <3>1 DEF Kept
      <4>2. now \o <<>> = now
        BY <2>3, TextEmpty
      <4> QED
        BY <2>3, <4>1, <4>2
    <3>2. CASE c = Quote
      <4>1. k = <<Quote, Quote>>
        BY <3>2 DEF Kept, Nul, Quote
      <4> QED
        BY <2>3, <4>1, QuietQuotes
    <3>3. CASE c \notin {Nul, ";", Quote}
      <4>1. k = <<c>>
        BY <3>3 DEF Kept
      <4>2. c \notin Quotes /\ c # ";"
        BY <2>1, <3>3 DEF Quotes
      <4> QED
        BY <2>1, <2>3, <4>1, <4>2, QuietWord
    <3> QED
      BY <3>1, <3>2, <3>3
  <2>6. now \o k \in Text
    <3>1. k \in Text
      BY <2>2
    <3> HIDE DEF now, k
    <3> QED
      BY <2>3, <3>1, TextConcat
  <2> QED
    BY <2>1, <2>4, <2>5, <2>6
<1>3. Seq(Unquoted) \subseteq T
  <2> HIDE DEF T
  <2> QED
    BY <1>1, <1>2, SequenceInductionAppend
<1> QED
  BY <1>3

(* What is kept of the text of a privilege has no Nul. *)
LEMMA PrivilegeNul ==
  ASSUME NEW str \in Text
  PROVE  /\ escapeLiteralWithoutQuotes(str) \in Text
         /\ Nul \notin ToSet(escapeLiteralWithoutQuotes(str))
<1> DEFINE E(p) == escapeLiteralWithoutQuotes(p)
           T == {p \in Text : E(p) \in Text /\ Nul \notin ToSet(E(p))}
<1>1. <<>> \in T
  BY WithoutQuotesEmpty, TextEmpty, SetFacts
<1>2. ASSUME NEW p \in Text, NEW c \in Symbols, p \in T PROVE Append(p, c) \in T
  <2> DEFINE e == E(p)
             k == Kept(c)
  <2>1. e \in Text /\ E(Append(p, c)) = e \o k /\ k \in Text /\ Append(p, c) \in Text
    BY WithoutQuotesAppend, KeptType, TextAppend
  <2>2. Nul \notin ToSet(e)
    BY <1>2
  <2>3. Nul \notin ToSet(k)
    <3>1. Nul # Quote
      BY DEF Nul, Quote
    <3>2. CASE c \in {Nul, ";"}
      BY <3>2, SetFacts DEF Kept
    <3>3. CASE c \notin {Nul, ";"}
      <4>1. k = IF c = Quote THEN <<Quote, Quote>> ELSE <<c>>
        BY <3>3 DEF Kept
      <4>2. Nul # c
        BY <3>3
      <4> QED
        BY <3>1, <4>1, <4>2, OneSet, Zenon
    <3> QED
      BY <3>2, <3>3
  <2> HIDE DEF e, k
  <2>4. e \o k \in Text /\ Nul \notin ToSet(e \o k)
    BY <2>1, <2>2, <2>3, TextConcat, SetFacts
  <2> HIDE DEF E
  <2> QED
    BY <2>1, <2>4
<1>3. Text \subseteq T
  <2> HIDE DEF T
  <2> QED
    BY <1>1, <1>2, SequenceInductionAppend DEF Text
<1> QED
  BY <1>3

(* What the server reads, if nothing is left open, it ends with given      *)
(* tokens and has no end of statement in it.                               *)
ReadsBack(str, last) ==
  /\ Closed(str)
  /\ IsSuffix(last, Tokens(str))
  /\ \A n \in DOMAIN Tokens(str) : Tokens(str)[n] # <<"", ";">>

(* The object of a privilege, if any, behind a keyword. *)
LEMMA ScanObject ==
  ASSUME NEW pre \in Text, NEW ts \in Seq(Text), Scan(pre) \in Finished(ts),
         NEW c \in Symbols, c \notin Quotes, c # Nul, NEW str \in Text, Nul \notin ToSet(pre)
  PROVE  /\ pre \o (<<c>> \o escapeLiteral(str)) \in Text
         /\ Nul \notin ToSet(pre \o (<<c>> \o escapeLiteral(str)))
         /\ ts \o (Bare(c) \o Spelled(str)) \in Seq(Text)
         /\ Scan(pre \o (<<c>> \o escapeLiteral(str))) \in Finished(ts \o (Bare(c) \o Spelled(str)))
<1> DEFINE word == <<c>>
           name == escapeLiteral(str)
           more == pre \o word
           bare == Bare(c)
           meant == Spelled(str)
           read == ts \o bare
<1>1. more \in Text /\ read \in Seq(Text) /\ Scan(more) = Outside(read)
  BY ScanWord
<1>2. word \in Text /\ bare \in Seq(Text)
  BY TextWords, TextAppend
<1>3. Nul \notin ToSet(word) /\ Nul \notin ToSet(name)
  BY OneSet, NameNul
<1> HIDE DEF more, read
<1>4. name \in Text /\ meant \in Seq(Text) /\ Scan(more \o name) \in Finished(read \o meant)
  BY <1>1, ScanName, Zenon
<1> HIDE DEF word, name, bare, meant
<1>5. pre \o (word \o name) = more \o name
  <2>1. word \in Text /\ name \in Text
    BY <1>2, <1>4
  <2>2. pre \o (word \o name) = (pre \o word) \o name
    BY <2>1, TextAssociative, SMTT(30)
  <2> QED
    BY <2>2 DEF more
<1>6. ts \o (bare \o meant) = read \o meant
  <2>1. bare \in Seq(Text) /\ meant \in Seq(Text)
    BY <1>2, <1>4
  <2>2. ts \o (bare \o meant) = (ts \o bare) \o meant
    BY <2>1, ConcatAssociative, SMTT(30)
  <2> QED
    BY <2>2 DEF read
<1>7. more \o name \in Text
  BY <1>1, <1>4, TextConcat
<1>8. Nul \notin ToSet(more \o name)
  <2>1. ToSet(more) = ToSet(pre) \cup ToSet(word)
    BY <1>2, SetFacts DEF more
  <2>2. ToSet(more \o name) = ToSet(more) \cup ToSet(name)
    BY <1>1, <1>4, SetFacts
  <2> QED
    BY <1>3, <2>1, <2>2
<1>9. read \o meant \in Seq(Text)
  BY <1>1, <1>4, ConcatProperties
<1> QED
  BY <1>4, <1>5, <1>6, <1>7, <1>8, <1>9 DEF word, name, bare, meant

(* The object in the text of prepareStatementForPrivilege, and as it is    *)
(* meant.                                                                  *)
Clause(on, dbname) ==
  CASE on # <<>>                   -> <<"ON">> \o escapeLiteral(on)
    [] on = <<>> /\ dbname # <<>>  -> <<"ON DATABASE">> \o escapeLiteral(dbname)
    [] OTHER                       -> <<>>

Object(on, dbname) ==
  CASE on # <<>>                   -> Bare("ON") \o Spelled(on)
    [] on = <<>> /\ dbname # <<>>  -> Bare("ON DATABASE") \o Spelled(dbname)
    [] OTHER                       -> <<>>

(* The server keeps of the object what it keeps of its names. *)
LEMMA MeantObject ==
  ASSUME NEW c \in Symbols, NEW str \in Text
  PROVE  Shorten(Bare(c) \o Spelled(str)) = Bare(c) \o Meant(str)
<1>1. Bare(c) \in Seq(Text) /\ Spelled(str) \in Seq(Text)
  BY TextWords, SpelledWords
<1>2. Shorten(Bare(c) \o Spelled(str)) = Shorten(Bare(c)) \o Shorten(Spelled(str))
  BY <1>1, ShortenConcat
<1> QED
  BY <1>2, ShortenBare DEF Meant

(* The end of the statement, behind the text of the privilege. *)
LEMMA ChangeEnds ==
  ASSUME NEW pre \in Text, Scan(pre) \in Quiet, Nul \notin ToSet(pre),
         NEW on \in Text, NEW dbname \in Text, NEW user \in Text, NEW arg \in {"TO", "FROM"}
  PROVE  ReadsBack(pre \o Clause(on, dbname) \o <<arg>> \o escapeLiteral(user),
                   Shorten(Object(on, dbname)) \o Bare(arg) \o Meant(user))
<1> DEFINE clause == Clause(on, dbname)
           object == Object(on, dbname)
<1>1. PICK ts \in Seq(Calm) : Scan(pre) \in Finished(ts)
  BY QuietFinished
<1>2. ts \in Seq(Text)
  BY CalmTokens
<1>3. ASSUME NEW c \in Symbols, c \notin Quotes, c # ";", c # Nul, NEW str \in Text,
             clause = <<c>> \o escapeLiteral(str), object = Bare(c) \o Spelled(str)
      PROVE  /\ pre \o clause \in Text /\ Nul \notin ToSet(pre \o clause) /\ object \in Seq(Calm)
             /\ Scan(pre \o clause) \in Finished(ts \o object)
  <2> HIDE DEF clause, object
  <2>1. /\ pre \o (<<c>> \o escapeLiteral(str)) \in Text
        /\ Nul \notin ToSet(pre \o (<<c>> \o escapeLiteral(str)))
        /\ Scan(pre \o (<<c>> \o escapeLiteral(str))) \in Finished(ts \o (Bare(c) \o Spelled(str)))
    BY <1>1, <1>2, <1>3, ScanObject, Zenon
  <2>2. Bare(c) \in Seq(Calm) /\ Spelled(str) \in Seq(Calm)
    BY <1>3, CalmBare, CalmSpelled
  <2>3. Bare(c) \o Spelled(str) \in Seq(Calm)
    BY <2>2, ConcatProperties
  <2> QED
    BY <1>3, <2>1, <2>3
<1>4. /\ pre \o clause \in Text /\ Nul \notin ToSet(pre \o clause) /\ object \in Seq(Calm)
      /\ Scan(pre \o clause) \in Finished(ts \o object)
  <2>1. CASE on # <<>>
    <3> DEFINE c == "ON"
    <3>1. c \in Symbols /\ c \notin Quotes /\ c # ";" /\ c # Nul
      BY Keywords
    <3>2. clause = <<c>> \o escapeLiteral(on) /\ object = Bare(c) \o Spelled(on)
      BY <2>1 DEF Clause, Object
    <3> HIDE DEF c, clause, object
    <3> QED
      BY <1>3, <3>1, <3>2
  <2>2. CASE on = <<>> /\ dbname # <<>>
    <3> DEFINE c == "ON DATABASE"
    <3>1. c \in Symbols /\ c \notin Quotes /\ c # ";" /\ c # Nul
      BY Keywords
    <3>2. clause = <<c>> \o escapeLiteral(dbname) /\ object = Bare(c) \o Spelled(dbname)
      BY <2>2 DEF Clause, Object
    <3> HIDE DEF c, clause, object
    <3> QED
      BY <1>3, <3>1, <3>2
  <2>3. CASE on = <<>> /\ dbname = <<>>
    <3>1. clause = <<>> /\ object = <<>>
      BY <2>3 DEF Clause, Object
    <3>2. pre \o <<>> = pre /\ ts \o <<>> = ts
      BY <1>2, TextEmpty, ConcatEmptySeq
    <3>3. <<>> \in Seq(Calm)
      BY EmptySeq
    <3> HIDE DEF clause, object
    <3> QED
      BY <1>1, <3>1, <3>2, <3>3
  <2> QED
    BY <2>1, <2>2, <2>3
<1> HIDE DEF clause, object
<1> DEFINE more == pre \o clause
           read == ts \o object
           all == more \o <<arg>> \o escapeLiteral(user)
           bare == Bare(arg)
           meant == Spelled(user)
           last == object \o bare \o meant
<1>5. arg \in Symbols /\ arg \notin Quotes /\ arg # ";" /\ arg # Nul
  BY Keywords
<1>6. bare \in Seq(Calm) /\ meant \in Seq(Calm)
  BY <1>5, CalmBare, CalmSpelled
<1>7. Scan(all) \in Finished((read \o bare) \o meant) /\ Nul \notin ToSet(all)
  <2>1. more \in Text /\ read \in Seq(Text) /\ Scan(more) \in Finished(read)
    <3>1. object \in Seq(Text)
      BY <1>4, CalmTokens
    <3>2. ts \o object \in Seq(Text)
      BY <1>2, <3>1, ConcatProperties
    <3> QED
      BY <1>4, <3>2
  <2> HIDE DEF more, read
  <2>2. more \o <<arg>> \in Text /\ read \o Bare(arg) \in Seq(Text)
        /\ Scan(more \o <<arg>>) = Outside(read \o Bare(arg))
    BY <1>5, <2>1, ScanWord
  <2> DEFINE start == more \o <<arg>>
             known == read \o Bare(arg)
  <2>3. start \in Text /\ known \in Seq(Text) /\ Scan(start) = Outside(known)
    BY <2>2
  <2> HIDE DEF start, known
  <2>4. Scan(start \o escapeLiteral(user)) \in Finished(known \o Spelled(user))
    BY <2>3, ScanName, Zenon
  <2>5. Nul \notin ToSet(start \o escapeLiteral(user))
    <3> DEFINE word == <<arg>>
               name == escapeLiteral(user)
    <3>1. word \in Text /\ Nul \notin ToSet(word) /\ name \in Text /\ Nul \notin ToSet(name)
      BY <1>5, OneSet, NameNul, ScanKeyword
    <3>2. Nul \notin ToSet(more)
      BY <1>4 DEF more
    <3>3. start = more \o word
      BY DEF start
    <3> HIDE DEF word, name
    <3>4. ToSet(start) = ToSet(more) \cup ToSet(word)
      BY <2>1, <3>1, <3>3, SetFacts
    <3>5. ToSet(start \o name) = ToSet(start) \cup ToSet(name)
      BY <2>3, <3>1, SetFacts
    <3>6. Nul \notin ToSet(start \o name)
      BY <3>1, <3>2, <3>4, <3>5
    <3> QED
      BY <3>6 DEF name
  <2> QED
    BY <2>4, <2>5 DEF start, known
<1>8. last \in Seq(Calm) /\ (read \o bare) \o meant = ts \o last
  <2> DEFINE o == object
             ob == object \o bare
  <2>1. o \in Seq(Calm) /\ bare \in Seq(Calm) /\ meant \in Seq(Calm)
    BY <1>4, <1>6
  <2> HIDE DEF bare, meant
  <2>2. ob \in Seq(Calm)
    BY <2>1, ConcatProperties
  <2>3. (ts \o object) \o bare = ts \o ob
    BY <2>1, ConcatAssociative, SMTT(30)
  <2> HIDE DEF ob
  <2>4. (ts \o ob) \o meant = ts \o (ob \o meant)
    <3>1. ob \in Seq(Calm) /\ meant \in Seq(Calm)
      BY <2>1, <2>2
    <3> QED
      BY <3>1, ConcatAssociative, SMTT(30)
  <2>5. ob \o meant \in Seq(Calm)
    BY <2>1, <2>2, ConcatProperties
  <2> QED
    BY <2>3, <2>4, <2>5 DEF ob
<1>9. Shorten(last) = Shorten(object) \o bare \o Meant(user)
  <2> DEFINE ob == object \o bare
  <2>1. object \in Seq(Text) /\ bare \in Seq(Text) /\ meant \in Seq(Text)
    BY <1>4, <1>6, CalmTokens
  <2>2. Shorten(bare) = bare /\ Shorten(meant) = Meant(user)
    BY <1>5, ShortenBare DEF Meant
  <2> HIDE DEF bare, meant
  <2>3. ob \in Seq(Text) /\ Shorten(ob) = Shorten(object) \o Shorten(bare)
    BY <2>1, ConcatProperties, ShortenConcat
  <2> HIDE DEF ob
  <2>4. Shorten(ob \o meant) = Shorten(ob) \o Shorten(meant)
    BY <2>1, <2>3, ShortenConcat
  <2> QED
    BY <2>2, <2>3, <2>4 DEF ob
<1> HIDE DEF last
<1> DEFINE tokens == ts \o last
<1>10. Closed(all) /\ Tokens(all) = Shorten(tokens)
  <2>1. Scan(all) \in Finished(tokens)
    BY <1>7, <1>8
  <2> HIDE DEF all, tokens
  <2> QED
    BY <1>7, <2>1, TokensFinished DEF Closed
<1>11. tokens \in Seq(Calm)
  BY <1>8, ConcatProperties
<1>12. Shorten(tokens) = Shorten(ts) \o Shorten(last)
  <2>1. last \in Seq(Text)
    BY <1>8, CalmTokens
  <2> QED
    BY <1>2, <2>1, ShortenConcat
<1>13. IsSuffix(Shorten(last), Shorten(tokens))
  <2>1. Shorten(ts) \in Seq(Shorts) /\ Shorten(last) \in Seq(Shorts)
    <3>1. last \in Seq(Text)
      BY <1>8, CalmTokens
    <3> QED
      BY <1>2, <3>1, ShortenSteps
  <2> HIDE DEF tokens
  <2> QED
    BY <1>12, <2>1, SuffixOfConcat
<1> HIDE DEF tokens
<1>14. \A n \in DOMAIN Shorten(tokens) : Shorten(tokens)[n] # EndToken
  <2>1. \A n \in DOMAIN tokens : tokens[n] \in Calm
    BY <1>11, LenProperties, ElementOfSeq
  <2>2. DOMAIN Shorten(tokens) = DOMAIN tokens
        /\ \A n \in DOMAIN tokens : Shorten(tokens)[n] = Shortened(tokens[n])
    BY DEF Shorten
  <2> QED
    BY <2>1, <2>2, CalmShortened
<1>15. ReadsBack(all, Shorten(last))
  <2> HIDE DEF all
  <2> QED
    BY <1>10, <1>13, <1>14 DEF ReadsBack, EndToken
<1> QED
  BY <1>9, <1>15 DEF clause, object

(* The privileges that PrivilegeReadsBack is about are such texts. *)
LEMMA UnquotedPrivilege ==
  ASSUME NEW p \in Privs, ToSet(p) \cap Openers = {}
  PROVE  p \in Seq(Unquoted)
<1>1. p \in Seq(Symbols)
  BY Texts DEF Text
<1>2. \A n \in DOMAIN p : p[n] # Apos
  BY DEF ToSet, Openers
<1>3. Len(p) \in Nat /\ p \in [1..Len(p) -> Symbols] /\ DOMAIN p = 1..Len(p)
  BY <1>1, LenProperties
<1>4. p \in [1..Len(p) -> Unquoted]
  BY <1>2, <1>3 DEF Unquoted
<1> QED
  BY <1>3, <1>4

(* GRANT and REVOKE end with the object and the user of the resource, and  *)
(* are one statement, whatever the text of the privilege is, as long as it *)
(* opens no string and no comment: escapeLiteralWithoutQuotes, which puts  *)
(* no quotes around that text, leaves none open in it and no semicolon.    *)
THEOREM PrivilegeReadsBackAlways ==
  Spec => []PrivilegeReadsBack
<1>1. Built => PrivilegeReadsBack
  <2> SUFFICES ASSUME Built, text # <<>>, call.op \in {"GRANT", "REVOKE"},
                      ToSet(call.privilege) \cap Openers = {}
               PROVE  PrivilegeReadsBack
    BY DEF PrivilegeReadsBack
  <2>1. call \in Changes
    BY DEF Built, Creates, Drops
  <2> DEFINE user == call.user
             dbname == call.dbname
             privilege == call.privilege
             on == IF dbname = <<>> THEN <<>> ELSE call.on
             stmt == call.op
             pre == <<stmt>> \o escapeLiteralWithoutQuotes(privilege)
  <2>2. user \in Text /\ dbname \in Text /\ call.on \in Text /\ privilege \in Privs
    BY <2>1, Texts, TextEmpty DEF Changes
  <2>3. on \in Text
    BY <2>2, TextEmpty
  <2>4. text = prepareStatementForPrivilege(stmt, Arg, user, dbname, on, privilege)
    <3>1. call.op # "create" /\ call.op # "drop"
      OBVIOUS
    <3> QED
      BY <3>1 DEF Built
  <2>5. Arg \in {"TO", "FROM"}
    BY DEF Arg
  <2>6. stmt \in Symbols /\ stmt \notin Quotes /\ stmt # ";" /\ stmt # Nul
    BY Keywords
  <2>7. pre \in Text /\ Scan(pre) \in Quiet /\ Nul \notin ToSet(pre)
    <3> DEFINE one == <<stmt>>
    <3>1. one \in Text /\ Scan(one) = Outside(Bare(stmt))
      BY <2>6, ScanKeyword
    <3>2. Bare(stmt) \in Seq(Calm)
      BY <2>6, CalmBare
    <3>3. Scan(one) \in Quiet
      BY <3>1, <3>2, QuietFacts
    <3>4. privilege \in Seq(Unquoted)
      BY <2>2, UnquotedPrivilege, Zenon
    <3>5. privilege \in Text
      BY <2>2, Texts
    <3>6. Nul \notin ToSet(one)
      <4>1. ToSet(one) = {stmt}
        BY OneSet, Zenon
      <4> HIDE DEF one, stmt
      <4> QED
        BY <2>6, <4>1
    <3> HIDE DEF one, privilege
    <3>7. escapeLiteralWithoutQuotes(privilege) \in Text
          /\ Nul \notin ToSet(escapeLiteralWithoutQuotes(privilege))
      BY <3>5, PrivilegeNul
    <3>8. Nul \notin ToSet(one \o escapeLiteralWithoutQuotes(privilege))
      BY <3>1, <3>6, <3>7, SetFacts
    <3> QED
      BY <3>1, <3>3, <3>4, <3>8, ScanPrivilege DEF one
  <2> DEFINE clause == Clause(on, dbname)
             object == Object(on, dbname)
  <2>8. text = pre \o clause \o <<Arg>> \o escapeLiteral(user)
    <3> HIDE DEF stmt, privilege, on, dbname, user
    <3> QED
      BY <2>4 DEF prepareStatementForPrivilege, Clause
  <2>9. ReadsBack(pre \o clause \o <<Arg>> \o escapeLiteral(user), Shorten(object) \o Bare(Arg) \o Meant(user))
    <3> HIDE DEF pre, on, dbname, user
    <3> QED
      BY <2>2, <2>3, <2>5, <2>7, ChangeEnds
  <2>10. Shorten(object) = CASE call.dbname = <<>> -> <<>>
                             [] call.dbname # <<>> /\ call.on # <<>> -> Bare("ON") \o Meant(call.on)
                             [] OTHER -> Bare("ON DATABASE") \o Meant(call.dbname)
    <3>1. CASE call.dbname = <<>>
      <4>1. object = <<>>
        BY <3>1 DEF Object
      <4> HIDE DEF object
      <4>2. Shorten(<<>>) = <<>>
        BY DEF Shorten
      <4> QED
        BY <3>1, <4>1, <4>2
    <3>2. CASE call.dbname # <<>> /\ call.on # <<>>
      <4>1. object = Bare("ON") \o Spelled(call.on)
        BY <3>2 DEF Object
      <4>2. "ON" \in Symbols
        BY Keywords
      <4>3. Shorten(object) = Bare("ON") \o Meant(call.on)
        BY <2>2, <4>1, <4>2, MeantObject
      <4> QED
        BY <3>2, <4>3
    <3>3. CASE call.dbname # <<>> /\ call.on = <<>>
      <4>1. object = Bare("ON DATABASE") \o Spelled(call.dbname)
        BY <3>3 DEF Object
      <4>2. "ON DATABASE" \in Symbols
        BY Keywords
      <4>3. Shorten(object) = Bare("ON DATABASE") \o Meant(call.dbname)
        BY <2>2, <4>1, <4>2, MeantObject
      <4> QED
        BY <3>3, <4>3
    <3> QED
      BY <3>1, <3>2, <3>3
  <2> HIDE DEF pre, clause, object
  <2>11. ReadsBack(text, Shorten(object) \o Bare(Arg) \o Meant(call.user))
    BY <2>8, <2>9
  <2> QED
    BY <2>10, <2>11 DEF ReadsBack, PrivilegeReadsBack
<1> QED
  BY <1>1, BuiltInvariant, PTL
================================================================================
