---------------------------- MODULE QueryReader -----------------------------
(***************************************************************************)
(* parse of query/parser.rs, text by text: it is cut into tokens, and      *)
(* these are parsed. What a step yields is a set, empty on an error.       *)
(***************************************************************************)
EXTENDS QueryParser

CONSTANT Texts   \* texts that clients send

VARIABLES
  input,    \* the text
  lexed,    \* its tokens
  parsed,   \* its tree
  reading   \* "idle", "text", "tokens" or "returned"

readVars == <<input, lexed, parsed, reading>>

ReadInit == input = "" /\ lexed = {} /\ parsed = {} /\ reading = "idle"

Take ==
  /\ reading = "idle"
  /\ input' \in Texts
  /\ reading' = "text"
  /\ UNCHANGED <<lexed, parsed>>

Lex ==
  /\ reading = "text"
  /\ lexed' = Tokenize(input)
  /\ reading' = IF lexed' = {} THEN "returned" ELSE "tokens"
  /\ UNCHANGED <<input, parsed>>

Build ==
  /\ reading = "tokens"
  /\ parsed' = UNION {ParseTopLevel(ts) : ts \in lexed}
  /\ reading' = "returned"
  /\ UNCHANGED <<input, lexed>>

\* The caller has the result, and nothing is kept.
Return ==
  /\ reading = "returned"
  /\ input' = "" /\ lexed' = {} /\ parsed' = {} /\ reading' = "idle"

ReadNext == Take \/ Lex \/ Build \/ Return

Reading == ReadInit /\ [][ReadNext]_readVars
-----------------------------------------------------------------------------
\* Every text, well formed or not, is cut into the tokens that its words mean,
\* and into none when one of them means nothing: the longest word wins,
\* keywords win over names, and no word is cut in two.
TokensAreWords ==
  reading \in {"tokens", "returned"} => lexed = Spoken(input) /\ \A ts \in lexed : Legible(ts)

\* Every text, well formed or not, is read as the words and the grammar of
\* the documentation read it: lexer and parser build the tree that the grammar
\* gives the words of the text, and report an error exactly when there is none.
ParserFollowsGrammar ==
  reading = "returned" => parsed = UNION {Derivations(ts) : ts \in Spoken(input)}
=============================================================================
