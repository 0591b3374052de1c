----------------------------- MODULE DamlValues -----------------------------
(***************************************************************************)
(* DamlValue of daml-grpc: the order that makes it a key of a GenMap, its  *)
(* equality, and the conversions to the Value message and back.            *)
(*                                                                         *)
(* A value is a tree.  `tag' is its variant, `at' what it holds besides    *)
(* other values (a number, a text, the constructor of a variant; the id of *)
(* a record, variant or enum first, the label of a field, 0 for none), and *)
(* `kids' the values it holds: the elements of a list, the one or none of  *)
(* an optional, the Fields of a record, the Entries of a map in the order  *)
(* of their keys.  A Numeric is <<digits, scale>>.  The message has the    *)
(* same shape; NotSet stands for one whose `sum' is not set.               *)
(***************************************************************************)
EXTENDS Integers, Sequences
LOCAL INSTANCE SequencesExt

Node(tag, own, kids) == [tag |-> tag, at |-> own, kids |-> kids]
NotSet == Node("NotSet", << >>, << >>)
DecodeFailed == Node("Failed", << >>, << >>)

MapTags == {"TextMap", "GenMap"}

\* The number of each variant; Fields and Entries are only ever compared
\* with their like.
Ordinal ==
  [Unit |-> 0, Bool |-> 1, Int64 |-> 2, Numeric |-> 3, Text |-> 4, Party |-> 5,
   ContractId |-> 6, Timestamp |-> 7, Date |-> 8, Optional |-> 9, List |-> 10,
   TextMap |-> 11, GenMap |-> 12, Record |-> 13, Variant |-> 14, Enum |-> 15]

----------------------------------------------------------------------------
(* Order and equality.                                                     *)

\* The places that two sequences share.
Common(s, t) == 1..(IF Len(s) < Len(t) THEN Len(s) ELSE Len(t))

\* The first of the places compared in c where two sequences differ decides,
\* then their lengths.
Lexical(c, s, t) ==
  LET differ == {i \in DOMAIN c : c[i] # 0}
  IN  IF differ = {} THEN Len(s) - Len(t)
      ELSE c[CHOOSE i \in differ : \A j \in differ : i <= j]

\* BigDecimal compares numbers, whatever the scale they are written with.
CmpNumeric(a, b) == a[1] * 10 ^ b[2] - b[1] * 10 ^ a[2]

CmpAt(x, y) ==
  IF x.tag = "Numeric" THEN CmpNumeric(x.at, y.at)
  ELSE Lexical([i \in Common(x.at, y.at) |-> x.at[i] - y.at[i]], x.at, y.at)

\* The comparison of maps before version 0.4, by their keys alone.
KeysOf(x) == IF x.tag = "Entry" THEN SubSeq(x.kids, 1, 1) ELSE x.kids
RECURSIVE CmpKeysOnly(_, _)
CmpKeysOnly(x, y) ==
  IF x.tag # y.tag THEN Ordinal[x.tag] - Ordinal[y.tag]
  ELSE IF CmpAt(x, y) # 0 THEN CmpAt(x, y)
       ELSE LET s == KeysOf(x)
                t == KeysOf(y)
            IN  Lexical([i \in Common(s, t) |-> CmpKeysOnly(s[i], t[i])], s, t)

\* Values of different variants without an order among the variants.
RECURSIVE CmpNoOrdinal(_, _)
CmpNoOrdinal(x, y) ==
  IF x.tag # y.tag THEN -1
  ELSE IF CmpAt(x, y) # 0 THEN CmpAt(x, y)
       ELSE Lexical([i \in Common(x.kids, y.kids) |-> CmpNoOrdinal(x.kids[i], y.kids[i])],
                    x.kids, y.kids)

\* PartialOrd::partial_cmp, which Ord::cmp unwraps: below, at or above 0.
RECURSIVE ValueCmp(_, _)
ValueCmp(x, y) ==
  IF x.tag # y.tag THEN Ordinal[x.tag] - Ordinal[y.tag]
  ELSE IF x.tag \in MapTags /\ Len(x.kids) # Len(y.kids)
       THEN Len(x.kids) - Len(y.kids)
       ELSE IF CmpAt(x, y) # 0 THEN CmpAt(x, y)
            ELSE Lexical([i \in Common(x.kids, y.kids) |-> ValueCmp(x.kids[i], y.kids[i])],
                         x.kids, y.kids)

\* PartialEq, which is derived.
RECURSIVE SameValue(_, _)
SameValue(x, y) ==
  /\ x.tag = y.tag
  /\ IF x.tag = "Numeric" THEN CmpNumeric(x.at, y.at) = 0 ELSE x.at = y.at
  /\ Len(x.kids) = Len(y.kids)
  /\ \A i \in 1..Len(x.kids) : SameValue(x.kids[i], y.kids[i])

----------------------------------------------------------------------------
(* The message.                                                            *)

LOCAL Tree == INSTANCE SortedMap WITH Compare <- ValueCmp

MicrosPerSecond == 1000000

\* A Numeric without its scale.
RECURSIVE ToWholeNumbers(_)
ToWholeNumbers(x) ==
  Node(x.tag, IF x.tag = "Numeric" THEN <<x.at[1], 0>> ELSE x.at,
       [i \in DOMAIN x.kids |-> ToWholeNumbers(x.kids[i])])

\* From<DamlValue> for Value.  A DateTime, here microseconds, is sent as its
\* whole seconds.
RECURSIVE ToMessage(_)
ToMessage(x) ==
  Node(x.tag,
       IF x.tag = "Timestamp" THEN <<x.at[1] \div MicrosPerSecond>> ELSE x.at,
       [i \in DOMAIN x.kids |-> ToMessage(x.kids[i])])

\* The entries of a message as a map: sorted, the last of equal keys kept.
Collected(entries) ==
  LET put(m, e) == Tree!Collect(m, e.kids[1], e.kids[2])
      m == FoldLeft(put, << >>, entries)
  IN  [i \in DOMAIN m |-> Node("Entry", << >>, m[i])]

\* Fields, elements and entries that do not convert are left out.
RECURSIVE FromWhatIsThere(_)
FromWhatIsThere(w) ==
  LET kids == SelectSeq([i \in DOMAIN w.kids |-> FromWhatIsThere(w.kids[i])],
                        LAMBDA k : k # DecodeFailed)
  IN  IF w.tag = "NotSet" \/ (w.tag \in {"Field", "Entry"} /\ Len(kids) < Len(w.kids))
      THEN DecodeFailed
      ELSE Node(w.tag, w.at, IF w.tag \in MapTags THEN Collected(kids) ELSE kids)

\* TryFrom<Value> for DamlValue: Failed if a required part is missing
\* anywhere.
RECURSIVE FromMessage(_)
FromMessage(w) ==
  LET kids == [i \in DOMAIN w.kids |-> FromMessage(w.kids[i])]
  IN  IF w.tag = "NotSet" \/ \E i \in DOMAIN kids : kids[i] = DecodeFailed THEN DecodeFailed
      ELSE Node(w.tag, w.at, IF w.tag \in MapTags THEN Collected(kids) ELSE kids)
=============================================================================
