---------------------------- MODULE QueryParser -----------------------------
(***************************************************************************)
(* The parser of query/parser.rs, over the tokens of QueryLexer.           *)
(*                                                                         *)
(* A parsing operator returns what it found with the index of the next     *)
(* token, as a set that is empty when the code reports an error.           *)
(***************************************************************************)
EXTENDS QueryTree, QueryLexer

CONSTANT BytesOf(_)   \* the bytes of a string literal, as a value

BuiltIns == {"$owner", "$creator", "$key", "$expiration", "$contentType", "$createdAtBlock"}

\* A literal as bytes where every kind is welcome. Those of different kinds
\* differ.
AsBytes(lit) == IF lit[1] = "StringLit" THEN BytesOf(lit[2]) ELSE lit

\* decode_entity_key_string. hex::decode takes a 0x of its own off what is left
\* of the text, after the digits have been counted.
DecodeEntityKeyString(s) ==
  LET first == IF At(s, 3) = "0" /\ At(s, 4) = "x" THEN 5 ELSE 3
  IN IF /\ Len(s) = 2 + KeyDigits /\ SubSeq(s, 1, 2) \in {"0x", "0X"}
        /\ \A i \in first..Len(s) : At(s, i) \in HexDigits
     THEN {KeyOf(SubSeq(s, first, Len(s)))} ELSE {}

\* peek
Kind(ts, i) == IF i \in DOMAIN ts THEN ts[i][1] ELSE "End"

\* encode_for_key. A number is 32 bytes long as a user's value and 8 as a
\* built-in one.
EncodeForKey(name, lit) ==
  CASE name \in {"$owner", "$creator"} /\ lit[1] = "Address" -> {lit[2]}
    [] name = "$key" /\ lit[1] = "EntityKey" -> {lit[2]}
    [] name = "$key" /\ lit[1] = "StringLit" -> DecodeEntityKeyString(lit[2])
    [] name \in {"$expiration", "$createdAtBlock"} /\ lit[1] = "Number" -> {lit[2]}
    [] name = "$contentType" /\ lit[1] = "StringLit" -> {AsBytes(lit)}
    [] name \notin BuiltIns /\ lit[1] \in {"StringLit", "Number", "Address", "EntityKey"} ->
         {AsBytes(lit)}
    [] OTHER -> {}

\* parse_value
ParseValue(ts, i, name) ==
  IF Kind(ts, i) = "End" THEN {} ELSE EncodeForKey(name, ts[i])

When(ok, result) == IF ok THEN {result} ELSE {}

\* parse_value_list: at least one value, and every one encodable.
ParseValueList(ts, i, name) ==
  LET end == Min({j \in i + 1..Len(ts) + i + 1 : Kind(ts, j) \in {"RParen", "End"}})
      between == i + 1..end - 1
  IN When(/\ Kind(ts, i) = "LParen" /\ Kind(ts, end) = "RParen" /\ between # {}
          /\ \A j \in between : ParseValue(ts, j, name) # {},
          [values |-> UNION {ParseValue(ts, j, name) : j \in between}, next |-> end + 1])

\* parse_glob_pattern: the prefix before a star at the end, the only one.
ParseGlobPattern(ts, i, name) ==
  IF Kind(ts, i) # "StringLit" \/ name \in BuiltIns \ {"$contentType"} THEN {}
  ELSE {BytesOf(SubSeq(s, 1, Len(s) - 1)) :
          s \in {r \in {ts[i][2]} : {k \in 1..Len(r) : At(r, k) = "*"} = {Len(r)}}}

Comparison(op, ts, i, name) ==
  {[q |-> Leaf(op, name, v), next |-> i + 1] : v \in ParseValue(ts, i, name)}
Globbing(op, ts, i, name) ==
  {[q |-> Leaf(op, name, v), next |-> i + 1] : v \in ParseGlobPattern(ts, i, name)}

\* parse_predicate, with reject_range_on_random_distribution.
ParsePredicate(ts, i) ==
  LET name == ts[i][2]
      op == Kind(ts, i + 1)
  IN IF Kind(ts, i) # "Var" THEN {}
     ELSE CASE op \in {"Eq", "Neq"} -> Comparison(op, ts, i + 2, name)
            [] op \in Ranges ->
                 IF Kind(ts, i + 2) \in {"Address", "EntityKey"} THEN {}
                 ELSE Comparison(op, ts, i + 2, name)
            [] op = "Tilde" -> Globbing("Glob", ts, i + 2, name)
            [] op = "NotTilde" -> Globbing("NotGlob", ts, i + 2, name)
            [] op = "In" ->
                 {[q |-> In(name, r.values), next |-> r.next] : r \in ParseValueList(ts, i + 2, name)}
            [] op = "Not" /\ Kind(ts, i + 2) = "In" ->
                 {[q |-> NotIn(name, r.values), next |-> r.next] : r \in ParseValueList(ts, i + 3, name)}
            [] OTHER -> {}

\* expect
Closed(ts, results) ==
  {[r EXCEPT !.next = @ + 1] : r \in {s \in results : Kind(ts, s.next) = "RParen"}}

\* parse_term. In brackets it finds what parse_or finds there: group, at each
\* position ahead.
ParseTerm(ts, group, i) ==
  CASE Kind(ts, i) = "LParen" -> Closed(ts, group[i + 1])
    [] Kind(ts, i) = "Not" ->
         {[r EXCEPT !.q = Not(@)] :
            r \in IF Kind(ts, i + 1) = "LParen" THEN Closed(ts, group[i + 2]) ELSE {}}
    [] OTHER -> ParsePredicate(ts, i)

\* The loops of parse_and and parse_or: a round does nothing to what the
\* connective does not follow. There are fewer rounds than tokens.
Loop(ts, kind, operand, i) ==
  LET round(r) ==
        IF Kind(ts, r.next) # kind THEN {r}
        ELSE {[s EXCEPT !.q = [op |-> kind, left |-> r.q, right |-> @]] : s \in operand[r.next + 1]}
      rounds[n \in 0..Len(ts)] ==
        IF n = 0 THEN operand[i] ELSE UNION {round(r) : r \in rounds[n - 1]}
  IN rounds[Len(ts)]

Ahead(ts, i) == i..Len(ts) + 1

ParseAnd(ts, group, i) == Loop(ts, "And", [j \in Ahead(ts, i) |-> ParseTerm(ts, group, j)], i)
ParseOr(ts, group, i) == Loop(ts, "Or", [j \in Ahead(ts, i) |-> ParseAnd(ts, group, j)], i)

\* What parse_or finds, at each position.
Groups(ts) == LET group[i \in Ahead(ts, 1)] == ParseOr(ts, group, i) IN group

\* Faulty variant: what follows a complete query is not looked at.
ParseTopLevelLeniently(ts) ==
  IF Kind(ts, 1) \in {"Star", "DollarAll"} THEN {All}
  ELSE {r.q : r \in Groups(ts)[1]}

\* parse_top_level
ParseTopLevel(ts) ==
  IF Kind(ts, 1) \in {"Star", "DollarAll"}
  THEN IF Len(ts) = 1 THEN {All} ELSE {}
  ELSE {r.q : r \in {s \in Groups(ts)[1] : Kind(ts, s.next) = "End"}}

\* parse
Parse(src) == UNION {ParseTopLevel(ts) : ts \in Tokenize(src)}
-----------------------------------------------------------------------------
(***************************************************************************)
(* The grammar at the head of query/parser.rs, as the trees that derive    *)
(* the tokens i..j of a sequence. An alternation or a conjunction splits   *)
(* at one of its connectives; the last one is the outermost.               *)
(***************************************************************************)
Bracketed(ts, i, j) == i + 1 < j /\ Kind(ts, i) = "LParen" /\ Kind(ts, j) = "RParen"

Globs == {"Glob", "NotGlob"}

\* A text that ends in its only star.
IsPattern(s) == At(s, Len(s)) = "*" /\ \A i \in 1..Len(s) - 1 : At(s, i) # "*"

\* A text that spells a key, or one that is as long and has a second prefix
\* among its digits: that one spells fewer bytes than a key has.
SpellsShortKey(s) ==
  /\ SubSeq(s, 1, IF Len(s) > 1 THEN 2 ELSE 1) \in {"0x", "0X"}
  /\ At(s, 3) = "0" /\ At(s, 4) = "x" /\ IsRun(s, 5, HexDigits)
SpellsKey(s) == Len(s) = 2 + KeyDigits /\ (IsHex(s) \/ SpellsShortKey(s))
KeySpelled(s) == KeyOf(SubSeq(s, IF IsHex(s) THEN 3 ELSE 5, Len(s)))

\* The rules for the kinds of values: random bytes have no order, and only
\* texts have prefixes.
Typed(name, op, lit) ==
  /\ lit[1] \in CASE name \in {"$owner", "$creator"} -> {"Address"}
                  [] name = "$key" -> {"EntityKey", "StringLit"}
                  [] name \in {"$expiration", "$createdAtBlock"} -> {"Number"}
                  [] name = "$contentType" -> {"StringLit"}
                  [] OTHER -> {"StringLit", "Address", "EntityKey", "Number"}
  /\ name = "$key" /\ lit[1] = "StringLit" => SpellsKey(lit[2])
  /\ op \in Ranges => lit[1] \notin {"Address", "EntityKey"}
  /\ op \in Globs => name # "$key" /\ lit[1] = "StringLit" /\ IsPattern(lit[2])

Bytes(name, op, lit) ==
  IF op \in Globs THEN BytesOf(SubSeq(lit[2], 1, Len(lit[2]) - 1))
  ELSE IF name \notin BuiltIns \ {"$contentType"} THEN AsBytes(lit)
  ELSE IF name = "$key" /\ lit[1] = "StringLit" THEN KeySpelled(lit[2])
  ELSE lit[2]

Operator(kind) ==
  CASE kind = "Tilde" -> "Glob" [] kind = "NotTilde" -> "NotGlob" [] OTHER -> kind

\* A list is the set of its values.
Lists(ts, i, j, name) ==
  LET lits == {ts[k] : k \in i + 1..j - 1} IN
  IF Bracketed(ts, i, j) /\ \A lit \in lits : Typed(name, "In", lit)
  THEN {{Bytes(name, "In", lit) : lit \in lits}} ELSE {}

Predicates(ts, i, j) ==
  LET name == ts[i][2]
      op == Operator(Kind(ts, i + 1))
  IN IF Kind(ts, i) # "Var" THEN {}
     ELSE CASE Kind(ts, i + 1) = "In" -> {In(name, vs) : vs \in Lists(ts, i + 2, j, name)}
            [] Kind(ts, i + 1) = "Not" /\ Kind(ts, i + 2) = "In" ->
                 {NotIn(name, vs) : vs \in Lists(ts, i + 3, j, name)}
            [] /\ j = i + 2 /\ op \in Ranges \cup Globs \cup {"Eq", "Neq"}
               /\ Typed(name, op, ts[j]) ->
                 {Leaf(op, name, Bytes(name, op, ts[j]))}
            [] OTHER -> {}

\* The rules, given the trees of the parts. An Or joins Ands, an And joins
\* terms.
Joins(rule) == IF rule = "Or" THEN "And" ELSE "Term"
Splits(ts, trees, rule, i, j) ==
  UNION {[op : {rule}, left : trees[<<rule, i, k - 1>>], right : trees[<<Joins(rule), k + 1, j>>]] :
           k \in {m \in i + 1..j - 1 : Kind(ts, m) = rule}}

DerivedBy(ts, trees, rule, i, j) ==
  IF rule = "Term"
  THEN Predicates(ts, i, j)
         \cup (IF Bracketed(ts, i, j) THEN trees[<<"Or", i + 1, j - 1>>] ELSE {})
         \cup (IF Kind(ts, i) = "Not" /\ Bracketed(ts, i + 1, j)
               THEN {Not(q) : q \in trees[<<"Or", i + 2, j - 1>>]} ELSE {})
  ELSE trees[<<Joins(rule), i, j>>] \cup Splits(ts, trees, rule, i, j)

Spans(ts) == {"Or", "And", "Term"} \X Ahead(ts, 1) \X (0..Len(ts))
Derived(ts) ==
  LET trees[s \in Spans(ts)] == DerivedBy(ts, trees, s[1], s[2], s[3]) IN trees

Derivations(ts) ==
  (IF Len(ts) = 1 /\ Kind(ts, 1) \in {"Star", "DollarAll"} THEN {All} ELSE {})
    \cup Derived(ts)[<<"Or", 1, Len(ts)>>]
=============================================================================
