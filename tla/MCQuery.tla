------------------------------ MODULE MCQuery -------------------------------
(***************************************************************************)
(* Queries over the states of the calls that Execute makes, from their     *)
(* text on: cut into tokens, parsed, and evaluated.                        *)
(***************************************************************************)
EXTENDS MCExecute, QueryEval, QueryReader, SequencesExt

\* Byte order of the values that queries here compare: x < z < y among colors,
\* json < text, and numbers.
MCLess(v, w) ==
  IF v \in Nat THEN v < w
  ELSE <<v, w>> \in {<<x, y>>, <<x, z>>, <<z, y>>, <<json, text>>}

\* How the values begin. The bytes of the colors are those of MCExecute: 12, 13
\* and 20. Every value begins with itself and with nothing.
Beginnings == {<<x, "1">>, <<z, "1">>, <<y, "2">>, <<json, "js">>}
MCHasPrefix(v, prefix) ==
  v = prefix \/ \E s \in {""} \cup {b[2] : b \in {c \in Beginnings : c[1] = v}} :
                   prefix = <<"StringLit", s>>

\* How the texts spell the values. An address has one digit and a key two.
MCLetters == {"a", "b", "c", "e", "h", "i", "j", "k", "l", "n", "o", "p", "r", "s", "t", "w", "x",
              "y", "z", "A", "D", "K", "N", "O", "R", "T", "I", "d", "X"}
MCBytesOf(s) ==
  CASE s = "x" -> x [] s = "y" -> y [] s = "z" -> z [] s = "json" -> json
    [] OTHER -> <<"StringLit", s>>
MCAddressOf(digits) ==
  CASE digits \in {"a", "A"} -> alice [] digits \in {"b", "B"} -> bob [] OTHER -> <<"Hex", digits>>
MyKey == [addr |-> <<alice, 0>>, tail |-> derived]
MCKeyOf(digits) == IF digits = "a0" THEN MyKey ELSE [addr |-> <<"Hex", digits>>, tail |-> other]

\* Words between blanks, and words without any.
Spaced(words) == FoldRight(LAMBDA w, rest : w \o " " \o rest, words, "")
Joined(words) == FoldRight(LAMBDA w, rest : w \o rest, words, "")

Paren(ws) == <<"(">> \o ws \o <<")">>

Bright == <<"color", ">", "\"z\"">>
Expiring == <<"$expiration", ">=", "1">>
NotBobs == <<"$owner", "!=", "0xb">>
Mine == <<"$key", "=", "\"0xa0\"">>
Red == <<"color", "=", "\"x\"">>
Coloured == <<"color", "in", "(", "\"x\"", "\"y\"", ")">>
Nobodys == <<"$owner", "Not", "IN", "(", "0xA", "0Xb", ")">>
NotJson == <<"$contentType", "!~", "\"json*\"">>
Twos == <<"color", "~", "\"2*\"">>
NoScript == <<"$contentType", "!~", "\"js*\"">>
Labelled == <<"$contentType", "~", "\"*\"">>

\* Two connectives, with the groupings that a sentence can spell out.
Connected(p, a, q, b, r) ==
  {p \o a \o q \o b \o r, Paren(p \o a \o q) \o b \o r, p \o a \o Paren(q \o b \o r),
   p \o a \o <<"!">> \o Paren(q \o b \o r), <<"not">> \o Paren(p \o a \o q) \o b \o r}

Sentences(p, q, r) ==
  UNION {Connected(p, <<a>>, q, <<b>>, r) : a \in {"&&", "||"}, b \in {"AND", "oR"}}

Questions ==
  {Spaced(ws) :
     ws \in {Nobodys, NotJson, <<"$all">>, <<"!">> \o Paren(Mine), <<"not">> \o Paren(Red),
             Expiring \o <<"&&">> \o NotBobs, Twos \o <<"or">> \o NoScript,
             <<"not">> \o Paren(Twos \o <<"||">> \o NotJson) \o <<"&&">> \o Labelled}
              \cup Connected(Coloured, <<"and">>, NotBobs, <<"or">>, Bright)}

MCAsked == UNION {Parse(src) : src \in Questions}

\* A sequence with one element left out, or one said twice.
Damaged(s) ==
  {SubSeq(s, 1, i - 1) \o SubSeq(s, i + 1, Len(s)) : i \in 1..Len(s)}
    \cup {SubSeq(s, 1, i) \o SubSeq(s, i, Len(s)) : i \in 1..Len(s)}

Literals == {"1", "0xb", "0Xa0", "\"x\"", "\"x*\"", "\"0xa0\"", "\"0x0x\""}
Operators == {"=", "!=", ">", ">=", "<", "<=", "~", "!~"}
Names == {"color", "$owner", "$key", "$expiration", "$contentType"}
Listings == {<<"in">>, <<"not", "in">>}

\* Escapes, literals at their limits, and words that touch.
Oddities ==
  {"color = \"" \o s \o "\"" : s \in {"", "\\\"", "\\\\", "\\n", "\\x", "\\", "x\\\"", "*", "**", "x\" = \""}}
    \cup {"$expiration = " \o s : s \in {"19", "20", "0x", "0x1", "0xaa0", "00", "1a"}}
    \cup {"$key = \"" \o s \o "\"" : s \in {"0X0x", "0x0X", "0x0xa0", "x0a0", "0xaa0"}}
    \cup {"$all\r", "\f$all\n", "$\rall"}
    \cup {s \o "=1" : s \in {"inn", "_in", "$owner", "$all", "$ow", "c1", "1c", "x-y", "k&", "NOT"}}

MCTexts ==
  {Joined(<<n, op, lit>>) : n \in Names, op \in Operators, lit \in Literals}
    \cup {Spaced(<<n>> \o op \o <<"(", lit, lit2, ")">>) :
            n \in Names, op \in Listings, lit \in Literals, lit2 \in Literals}
    \cup UNION {{Spaced(ws), Joined(ws)} \cup {Spaced(d) : d \in Damaged(ws)} :
                  ws \in {Nobodys, NotJson, <<"*">>} \cup Sentences(Red, Coloured, Mine)}
    \cup Damaged(Joined(Expiring \o <<"&&">> \o Nobodys)) \cup Damaged(Spaced(Red)) \cup Oddities

\* The leaves of the trees that are evaluated.
RECURSIVE LeavesOf(_)
LeavesOf(q) ==
  CASE q.op \in {"And", "Or"} -> LeavesOf(q.left) \cup LeavesOf(q.right)
    [] q.op = "Not" -> LeavesOf(q.inner)
    [] OTHER -> {q}

MCLeaves == UNION {LeavesOf(q) : q \in MCAsked}

\* Every query that is asked is one that the indexes can answer.
ASSUME AskedAssumption == Asked = Answerable

\* Texts are read between calls. What is made of them does not depend on the
\* state, so they are read in the first one.
ReadsAndCalls ==
  /\ Init /\ ReadInit
  /\ [][\/ Init /\ ReadNext /\ UNCHANGED vars
        \/ Next /\ reading = "idle" /\ UNCHANGED readVars]_<<vars, readVars>>
=============================================================================
