----------------------------- MODULE QueryLexer -----------------------------
(***************************************************************************)
(* The lexer of query/lexer.rs: from the text of a query to its tokens. A  *)
(* text is a string, a sequence of characters; At(src, i) is one of them.  *)
(* A token is a tuple that begins with its kind; identifiers and built-in  *)
(* ones are both <<"Var", name>>.                                          *)
(*                                                                         *)
(* A lexing operator returns the token it found with the position after    *)
(* it, as a set that is empty when the code reports an error.              *)
(***************************************************************************)
EXTENDS Integers, Sequences, TLC, FiniteSetsExt

CONSTANTS
  Letters,        \* the alphabetic characters of the texts
  AddressDigits,  \* hex digits of an address, 40 in the code
  KeyDigits,      \* hex digits of an entity key, 64 in the code
  MaxU64,         \* the largest number
  AddressOf(_),   \* the bytes that the hex digits of an address spell
  KeyOf(_)        \* the bytes that the hex digits of an entity key spell

ASSUME DigitsAssumption == AddressDigits \in Nat /\ KeyDigits \in Nat

\* char::is_whitespace, without a vertical tab and the blanks beyond ASCII.
Blanks == {" ", "\t", "\n", "\r", "\f"}
Digits == {"0", "1", "2", "3", "4", "5", "6", "7", "8", "9"}
DigitValue ==
  "0" :> 0 @@ "1" :> 1 @@ "2" :> 2 @@ "3" :> 3 @@ "4" :> 4
    @@ "5" :> 5 @@ "6" :> 6 @@ "7" :> 7 @@ "8" :> 8 @@ "9" :> 9
HexDigits == Digits \cup {"a", "b", "c", "d", "e", "f", "A", "B", "C", "D", "E", "F"}

\* is_ident_start, is_ident_continue
IdentStart == Letters \cup {"_"}
IdentContinue == Letters \cup Digits \cup {"_"}

TwoCharOperators ==
  "&&" :> "And" @@ "||" :> "Or" @@ "!=" :> "Neq" @@ "!~" :> "NotTilde"
    @@ ">=" :> "Gte" @@ "<=" :> "Lte"
OneCharOperators ==
  "(" :> "LParen" @@ ")" :> "RParen" @@ "*" :> "Star" @@ "=" :> "Eq"
    @@ "!" :> "Not" @@ ">" :> "Gt" @@ "<" :> "Lt" @@ "~" :> "Tilde"
DollarNames == {"owner", "creator", "key", "expiration", "contentType", "createdAtBlock"}
Keywords == "and" :> "And" @@ "or" :> "Or" @@ "not" :> "Not" @@ "in" :> "In"
Escapes == "\"" :> "\"" @@ "\\" :> "\\" @@ "n" :> "\n" @@ "t" :> "\t" @@ "r" :> "\r"

\* peek_char: the empty string after the last character.
At(src, i) == IF i \in 1..Len(src) THEN SubSeq(src, i, i) ELSE ""

\* The loops over a class of characters: the position after the run of them.
RunEnd(src, i, class) == Min({j \in i..Len(src) + 1 : At(src, j) \notin class})

Found(token, next) == {[token |-> token, next |-> next]}

\* eq_ignore_ascii_case
Capitals == "A" :> "a" @@ "D" :> "d" @@ "I" :> "i" @@ "N" :> "n" @@ "O" :> "o"
              @@ "R" :> "r" @@ "T" :> "t"
EqIgnoreCase(word, keyword) ==
  /\ Len(word) = Len(keyword)
  /\ \A i \in 1..Len(word) :
       \/ At(word, i) = At(keyword, i)
       \/ At(word, i) \in DOMAIN Capitals /\ Capitals[At(word, i)] = At(keyword, i)

\* Faulty variant: one character is tried before two.
LexOperatorShortest(src, i) ==
  LET two == SubSeq(src, i, IF i < Len(src) THEN i + 1 ELSE i)
      one == At(src, i)
  IN CASE one \in DOMAIN OneCharOperators -> Found(<<OneCharOperators[one]>>, i + 1)
       [] one \notin DOMAIN OneCharOperators /\ two \in DOMAIN TwoCharOperators ->
            Found(<<TwoCharOperators[two]>>, i + 2)
       [] OTHER -> {}

\* The operators of next_token, with expect_pair.
LexOperator(src, i) ==
  LET two == SubSeq(src, i, IF i < Len(src) THEN i + 1 ELSE i)
      one == At(src, i)
  IN CASE two \in DOMAIN TwoCharOperators -> Found(<<TwoCharOperators[two]>>, i + 2)
       [] two \notin DOMAIN TwoCharOperators /\ one \in DOMAIN OneCharOperators ->
            Found(<<OneCharOperators[one]>>, i + 1)
       [] OTHER -> {}

\* lex_string: what its loop reads from a position behind the opening quote on.
LexString(src, i) ==
  LET loop[j \in i..Len(src) + 1] ==
        LET c == At(src, j) IN
        CASE c = "" -> {}
          [] c = "\"" -> {[out |-> "", next |-> j + 1]}
          [] c = "\\" -> UNION {{[r EXCEPT !.out = Escapes[e] \o @] : r \in loop[j + 2]} :
                                  e \in {At(src, j + 1)} \cap DOMAIN Escapes}
          [] OTHER -> {[r EXCEPT !.out = c \o @] : r \in loop[j + 1]}
  IN {[token |-> <<"StringLit", r.out>>, next |-> r.next] : r \in loop[i]}

\* str::parse of a run of digits
NumberOf(digits) ==
  LET value[n \in 0..Len(digits)] ==
        IF n = 0 THEN 0 ELSE 10 * value[n - 1] + DigitValue[At(digits, n)]
  IN value[Len(digits)]

\* lex_number_or_hex
LexNumberOrHex(src, i) ==
  LET hex == At(src, i) = "0" /\ At(src, i + 1) \in {"x", "X"}
      first == IF hex THEN i + 2 ELSE i
      next == RunEnd(src, first, IF hex THEN HexDigits ELSE Digits)
      word == SubSeq(src, first, next - 1)
  IN CASE hex /\ Len(word) = AddressDigits -> Found(<<"Address", AddressOf(word)>>, next)
       [] hex /\ Len(word) = KeyDigits -> Found(<<"EntityKey", KeyOf(word)>>, next)
       [] ~hex /\ NumberOf(word) <= MaxU64 -> Found(<<"Number", NumberOf(word)>>, next)
       [] OTHER -> {}

\* lex_dollar_ident
LexDollarIdent(src, i) ==
  LET next == RunEnd(src, i + 1, IdentContinue)
      name == SubSeq(src, i + 1, next - 1)
  IN CASE name = "all" -> Found(<<"DollarAll">>, next)
       [] name \in DollarNames -> Found(<<"Var", "$" \o name>>, next)
       [] OTHER -> {}

\* lex_ident_or_keyword
LexIdentOrKeyword(src, i) ==
  LET next == RunEnd(src, i, IdentContinue)
      word == SubSeq(src, i, next - 1)
      keywords == {k \in DOMAIN Keywords : EqIgnoreCase(word, k)}
  IN IF keywords = {} THEN Found(<<"Var", word>>, next)
     ELSE {[token |-> <<Keywords[k]>>, next |-> next] : k \in keywords}

\* next_token, past the blanks
NextToken(src, i) ==
  LET c == At(src, i) IN
  CASE c = "\"" -> LexString(src, i + 1)
    [] c \in Digits -> LexNumberOrHex(src, i)
    [] c = "$" -> LexDollarIdent(src, i)
    [] c \in IdentStart -> LexIdentOrKeyword(src, i)
    [] OTHER -> LexOperator(src, i)

\* tokenize: the tokens from a position on.
Tokenize(src) ==
  LET loop[i \in 1..Len(src) + 1] ==
        LET start == RunEnd(src, i, Blanks) IN
        IF start > Len(src) THEN {<<>>}
        ELSE UNION {{<<found.token>> \o rest : rest \in loop[found.next]} :
                      found \in NextToken(src, start)}
  IN loop[1]

\* enum Token
TokenKinds ==
  {"LParen", "RParen", "Star", "Eq", "Neq", "Gt", "Gte", "Lt", "Lte", "Tilde", "NotTilde",
   "And", "Or", "Not", "In", "Var", "DollarAll", "StringLit", "Number", "Address", "EntityKey"}
IsToken(t) == t[1] \in TokenKinds /\ (t[1] = "StringLit" => Len(t[2]) \in Nat)
Legible(ts) ==
  /\ Len(ts) \in Nat /\ DOMAIN ts = 1..Len(ts)
  /\ \A i \in 1..Len(ts) : IsToken(ts[i])
-----------------------------------------------------------------------------
(***************************************************************************)
(* What the head of query/lexer.rs says of a text: words, each as long as  *)
(* it can be, and blanks between them. A word is recognised by its shape   *)
(* even where it means nothing: 0x12 is one word that is no literal, and   *)
(* not the number 0 before the identifier x12.                             *)
(***************************************************************************)
IsRun(w, first, class) == \A i \in first..Len(w) : At(w, i) \in class

\* The positions of a quoted word at which a backslash escapes a character.
Escaped(w) ==
  LET escaped[i \in 1..Len(w)] == i > 1 /\ At(w, i - 1) = "\\" /\ ~escaped[i - 1]
  IN {i \in 1..Len(w) : escaped[i]}

IsQuoted(w) ==
  /\ Len(w) > 1 /\ At(w, 1) = "\"" /\ At(w, Len(w)) = "\""
  /\ {i \in 2..Len(w) : At(w, i) = "\""} \ Escaped(w) = {Len(w)}
IsHex(w) == SubSeq(w, 1, IF Len(w) > 1 THEN 2 ELSE 1) \in {"0x", "0X"} /\ IsRun(w, 3, HexDigits)
IsNumber(w) == IsRun(w, 1, Digits)
IsDollar(w) == At(w, 1) = "$" /\ IsRun(w, 2, IdentContinue)
IsIdent(w) == At(w, 1) \in IdentStart /\ IsRun(w, 2, IdentContinue)
IsOperator(w) == w \in DOMAIN OneCharOperators \cup DOMAIN TwoCharOperators

IsWord(w) == IsOperator(w) \/ IsNumber(w) \/ IsHex(w) \/ IsDollar(w) \/ IsIdent(w) \/ IsQuoted(w)

\* What is between the quotes, without the backslashes that escape.
Contents(w) ==
  LET escaped == Escaped(w)
      kept[i \in 1..Len(w) - 1] ==
        IF i = 1 THEN ""
        ELSE kept[i - 1] \o (CASE i \in escaped -> Escapes[At(w, i)]
                               [] i \notin escaped /\ At(w, i) = "\\" -> ""
                               [] OTHER -> At(w, i))
  IN kept[Len(w) - 1]

\* The token that a word means, if it means one.
Meaning(w) ==
  CASE IsOperator(w) -> {<<(OneCharOperators @@ TwoCharOperators)[w]>>}
    [] IsNumber(w) -> {<<"Number", n>> : n \in {NumberOf(w)} \cap 0..MaxU64}
    [] IsHex(w) ->
         LET digits == SubSeq(w, 3, Len(w)) IN
         {<<"Address", AddressOf(d)>> : d \in {e \in {digits} : Len(e) = AddressDigits}}
           \cup {<<"EntityKey", KeyOf(d)>> : d \in {e \in {digits} : Len(e) = KeyDigits}}
    [] IsDollar(w) ->
         {<<"DollarAll">> : a \in {w} \cap {"$all"}}
           \cup {<<"Var", w>> : n \in {b \in DollarNames : w = "$" \o b}}
    [] IsIdent(w) ->
         IF \E k \in DOMAIN Keywords : EqIgnoreCase(w, k)
         THEN {<<Keywords[k]>> : k \in {l \in DOMAIN Keywords : EqIgnoreCase(w, l)}}
         ELSE {<<"Var", w>>}
    [] OTHER ->
         {<<"StringLit", Contents(q)>> :
            q \in {r \in {w} : \A i \in Escaped(r) : At(r, i) \in DOMAIN Escapes}}

\* The words of a text, none if a character begins no word.
Words(src) ==
  LET from[i \in 1..Len(src) + 1] ==
        IF i > Len(src) THEN {<<>>}
        ELSE IF At(src, i) \in Blanks THEN from[i + 1]
        ELSE LET ends == {n \in i..Len(src) : IsWord(SubSeq(src, i, n))}
                 longest == {n \in ends : \A m \in ends : m <= n}
             IN UNION {{<<SubSeq(src, i, n)>> \o rest : rest \in from[n + 1]} : n \in longest}
  IN from[1]

Spoken(src) ==
  UNION {IF \E i \in DOMAIN ws : Meaning(ws[i]) = {} THEN {}
         ELSE {[i \in DOMAIN ws |-> CHOOSE t \in Meaning(ws[i]) : TRUE]} : ws \in Words(src)}
=============================================================================
