----------------------------- MODULE MCValueMap -----------------------------
(***************************************************************************)
(* Keys of six variants, and values beside them that are close: a number   *)
(* written with two scales, two maps with the same keys.  For the run on   *)
(* timestamps, three instants, two of them within one second.              *)
(***************************************************************************)
EXTENDS ValueMap, DamlValues

Leaf(tag, n) == Node(tag, <<n>>, << >>)
I64(n) == Leaf("Int64", n)
Num(digits, scale) == Node("Numeric", <<digits, scale>>, << >>)
Pair(k, v) == Node("Entry", << >>, <<k, v>>)
Texts(n) == Node("TextMap", << >>, <<Pair(Leaf("Text", 1), I64(n))>>)
Field(label, v) == Node("Field", <<label>>, <<v>>)

MCKey ==
  {I64(1), Num(15, 1), Num(150, 2), Texts(1),
   Node("GenMap", << >>, <<Pair(Leaf("Bool", 0), I64(1)), Pair(I64(1), I64(1))>>),
   Node("Record", <<0>>, <<Field(1, I64(1)), Field(2, Node("Optional", << >>, << >>))>>),
   Leaf("Timestamp", 1500000)}

MCInstant == {Leaf("Timestamp", n) : n \in {1500000, 1600000, 2000000}}

MCVal == {Num(2, 0), Texts(2)}

\* The messages that a message becomes when one `sum' in it is not set.
RECURSIVE MCSpoiled(_)
MCSpoiled(w) ==
  (IF w.tag \in {"Field", "Entry"} THEN {} ELSE {NotSet})
    \union
  UNION {{[w EXCEPT !.kids[i] = k] :
            k \in MCSpoiled(w.kids[i]) \ (IF w.tag = "Entry" /\ w.kids[i].tag = "Text"
                                          THEN {NotSet} ELSE {})} :
         i \in DOMAIN w.kids}

RECURSIVE MCExact(_)
MCExact(x) ==
  /\ x.tag # "Timestamp"
  /\ \A i \in DOMAIN x.kids : MCExact(x.kids[i])

\* The values of the run with what they become when they are read back, and
\* the messages for them, whole or with parts missing.
RECURSIVE MCReadBack(_)
MCReadBack(values) ==
  LET more == values \union {Decode(Encode(x)) : x \in values}
  IN  IF more = values THEN values ELSE MCReadBack(more)

RECURSIVE MCAllSpoiled(_)
MCAllSpoiled(messages) ==
  LET more == messages \union UNION {Spoiled(w) : w \in messages}
  IN  IF more = messages THEN messages ELSE MCAllSpoiled(more)

MCValue == MCReadBack(Key \union Val)
MCMessage == MCAllSpoiled({Encode(x) : x \in MCValue})

Lawful ==
  /\ TotalOrder(MCValue) /\ Equality(MCValue)
  /\ Conversions(MCValue, MCMessage) /\ Exactness(MCValue)

\* What a map relies on is so for DamlValue: on the values that the maps of this
\* run hold and the messages that they are sent in, the order by which keys are
\* searched is total and agrees with their equality, whatever their variants
\* (values.rs: "partial_cmp above is total"), no message that lacks a part is
\* read, and what a message can hold is read back as an equal value.
ValuesAreLawful ==
  /\ \A m \in {map, got} : \A i \in 1..Len(m) : m[i] \in MCValue \X MCValue
  /\ \A i \in 1..Len(answer) : answer[i] \in MCMessage \X MCMessage
  /\ Lawful
=============================================================================
