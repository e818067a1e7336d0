--------------------------- MODULE OperationInput ---------------------------
(***************************************************************************)
(* From the attributes of an operation, as they are decoded from calldata, *)
(* to the attributes that the entity database indexes: validate_ident32,   *)
(* convert_attributes and their helpers in crates/arkiv-node/src/          *)
(* precompile.rs. A rejected attribute reverts the call (an unknown type   *)
(* ends it as fatal), which is Revert of module Execute.                   *)
(***************************************************************************)
EXTENDS Naturals, Sequences

CONSTANTS
  NameBytes,   \* 32: a name is a bytes32
  WordBytes,   \* 32
  ValueBytes   \* 128: a value is four words, here one after the other

ASSUME WidthsAssumption ==
  /\ NameBytes \in Nat \ {0} /\ WordBytes \in Nat \ {0} /\ ValueBytes \in Nat
  /\ WordBytes <= ValueBytes

Byte == 0..255
Dollar == 36

RawAttributes ==
  [name : [1..NameBytes -> Byte], type : {"UINT", "STRING", "ENTITY_KEY", "unknown"},
   value : [1..ValueBytes -> Byte]]
-----------------------------------------------------------------------------
IdentLeading == 97..122
IdentCharset == IdentLeading \cup 48..57 \cup {45, 46, 95}

\* Once a zero, zeros up to the end.
ZeroPadded(bytes) ==
  \A i, j \in DOMAIN bytes : i < j /\ bytes[i] = 0 => bytes[j] = 0

\* Where the trailing zeros begin.
TextLength(bytes) ==
  CHOOSE n \in 0..Len(bytes) :
    /\ n = 0 \/ bytes[n] # 0
    /\ \A i \in n + 1..Len(bytes) : bytes[i] = 0

\* strip_trailing_zeros
Stripped(bytes) == SubSeq(bytes, 1, TextLength(bytes))

\* validate_ident32
ValidIdent32(name) ==
  /\ name[1] \in IdentLeading
  /\ \A i \in 2..Len(name) : name[i] \in IdentCharset \cup {0}
  /\ ZeroPadded(name)

\* str::from_utf8: how many bytes a first byte announces to follow it, and
\* between which bounds the second one lies.
Following(b) ==
  CASE b < 128 -> 0 [] b \in 194..223 -> 1 [] b \in 224..239 -> 2 [] b \in 240..244 -> 3
    [] OTHER -> 4
SecondBytes(b) ==
  CASE b = 224 -> 160..191 [] b = 237 -> 128..159 [] b = 240 -> 144..191
    [] b = 244 -> 128..143 [] OTHER -> 128..191

ValidUtf8(bytes) ==
  LET firsts == {i \in DOMAIN bytes : bytes[i] \notin 128..191}
      Reach(i) == i + Following(bytes[i])
  IN /\ \A i \in firsts :
          /\ Reach(i) <= Len(bytes) /\ Following(bytes[i]) < 4
          /\ \A j \in i + 1..Reach(i) : j \notin firsts
          /\ Following(bytes[i]) > 0 => bytes[i + 1] \in SecondBytes(bytes[i])
     /\ \A j \in DOMAIN bytes : \E i \in firsts : j \in i..Reach(i)

\* reject_non_zero_upper_words for the fixed-width types; for a string
\* reject_embedded_null_in_string, then reject_invalid_utf8_in_string.
ValidValue(type, value) ==
  CASE type \in {"UINT", "ENTITY_KEY"} -> \A i \in WordBytes + 1..ValueBytes : value[i] = 0
    [] type = "STRING" -> ZeroPadded(value) /\ ValidUtf8(Stripped(value))
    [] OTHER -> FALSE

ValidAttribute(a) == ValidIdent32(a.name) /\ ValidValue(a.type, a.value)

\* A key may end in zeros, and so may a number: they keep their width.
StoredValue(type, value) ==
  IF type = "STRING" THEN Stripped(value) ELSE SubSeq(value, 1, WordBytes)

\* convert_attributes, and what Annotation::user makes of its result.
Converted(a) ==
  [pair |-> <<Stripped(a.name), StoredValue(a.type, a.value)>>,
   tier2 |-> a.type # "ENTITY_KEY"]

\* validate_attribute_names and convert_attributes of a whole list.
ValidList(attributes) == \A i \in DOMAIN attributes : ValidAttribute(attributes[i])
ConvertedList(attributes) == [i \in DOMAIN attributes |-> Converted(attributes[i])]

\* What pair_address hashes, after a tag.
PairPreimage(p) == p[1] \o <<0>> \o p[2]
=============================================================================
