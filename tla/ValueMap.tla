------------------------------ MODULE ValueMap ------------------------------
(***************************************************************************)
(* A DamlGenMap<DamlValue, DamlValue> in the life of a program: it is      *)
(* filled, sent to a participant as a GenMap value, and read from the      *)
(* participant's answer, entry by entry, into a new map, with which the    *)
(* program goes on.  The participant answers with what it was sent, or     *)
(* with a message that lacks a required part.                              *)
(***************************************************************************)
EXTENDS Integers, Sequences

CONSTANTS
  Key, Val,        \* keys and values that the program puts into the map
  MaxPuts,         \* bound on the number of times it does
  Compare(_, _),   \* Ord of DamlValue
  Equal(_, _),     \* PartialEq of DamlValue
  Encode(_),       \* DamlValue to Value
  Decode(_),       \* Value to DamlValue or Failed
  Failed,
  Spoiled(_),      \* the messages that a message becomes if a part is missing
  Exact(_)         \* whether a message can hold a value without loss

VARIABLES
  map,     \* the program's map
  puts,    \* history: the entries put into it, in their order
  stage,   \* "own", "sent", "read" or "refused"
  answer,  \* entries of the answer that are not yet read
  whole,   \* history: the answer lacks nothing
  got      \* the map that is built from the answer

mapVars == <<map, puts, stage, answer, whole, got>>

INSTANCE SortedMap

----------------------------------------------------------------------------
(***************************************************************************)
(* What a DamlGenMap relies on, for a set of values and the messages they  *)
(* are sent in: the order is total and says which values are equal; a      *)
(* value is sent as a message that converts, and a message that lacks a    *)
(* part does not; a value that a message can hold is read back as an equal *)
(* one.                                                                    *)
(***************************************************************************)
TotalOrder(Value) ==
  \A x, y \in Value :
    /\ Compare(x, y) \in Int
    /\ Compare(x, y) > 0 <=> Compare(y, x) < 0
    /\ \A z \in Value :
         Compare(x, y) <= 0 /\ Compare(y, z) <= 0 => Compare(x, z) <= 0

Equality(Value) == \A x, y \in Value : Equal(x, y) <=> Compare(x, y) = 0

Conversions(Value, Message) ==
  /\ Key \subseteq Value /\ Val \subseteq Value /\ Failed \notin Value
  /\ \A x \in Value : Encode(x) \in Message /\ Decode(Encode(x)) \in Value
  /\ \A w \in Message :
       /\ Decode(w) \in Value \union {Failed}
       /\ \A s \in Spoiled(w) : s \in Message /\ Decode(s) = Failed

Exactness(Value) ==
  \A x \in Value : Exact(x) => Equal(Decode(Encode(x)), x) /\ Exact(Decode(Encode(x)))

----------------------------------------------------------------------------

Stages == {"own", "sent", "read", "refused"}

MapInit ==
  /\ map = << >> /\ puts = << >>
  /\ stage = "own"
  /\ answer = << >> /\ whole = TRUE /\ got = << >>

Fill(k, v) ==
  /\ stage = "own"
  /\ Len(puts) < MaxPuts
  /\ map' = Insert(map, k, v)
  /\ puts' = Append(puts, <<k, v>>)
  /\ UNCHANGED <<stage, answer, whole, got>>

\* From<DamlValue> for Value, the GenMap arm.
Send ==
  /\ stage = "own"
  /\ stage' = "sent"
  /\ answer' = [i \in 1..Len(map) |-> <<Encode(map[i][1]), Encode(map[i][2])>>]
  /\ whole' = TRUE
  /\ got' = << >>
  /\ UNCHANGED <<map, puts>>

\* External: a part of the answer is missing when it arrives.
Spoil(i) ==
  /\ stage = "sent" /\ whole
  /\ Len(answer) = Len(map)
  /\ \/ \E w \in Spoiled(answer[i][1]) : answer' = [answer EXCEPT ![i] = <<w, answer[i][2]>>]
     \/ \E w \in Spoiled(answer[i][2]) : answer' = [answer EXCEPT ![i] = <<answer[i][1], w>>]
  /\ whole' = FALSE
  /\ UNCHANGED <<map, puts, stage, got>>

\* TryFrom<Value> for DamlValue, the GenMap arm.
ReadEntry ==
  /\ stage = "sent" /\ answer # << >>
  /\ LET k == Decode(answer[1][1])
         v == Decode(answer[1][2])
     IN  /\ k # Failed /\ v # Failed
         /\ got' = Collect(got, k, v)
  /\ answer' = Tail(answer)
  /\ UNCHANGED <<map, puts, stage, whole>>

\* The first entry that does not convert ends the conversion.
Refuse ==
  /\ stage = "sent" /\ answer # << >>
  /\ Failed \in {Decode(answer[1][1]), Decode(answer[1][2])}
  /\ stage' = "refused"
  /\ answer' = << >> /\ got' = << >>
  /\ UNCHANGED <<map, puts, whole>>

\* An answer taken for complete before all of it is read.
CompleteEarly ==
  /\ stage = "sent" /\ Len(answer) <= 1
  /\ stage' = "read"
  /\ UNCHANGED <<map, puts, answer, whole, got>>

Complete ==
  /\ stage = "sent" /\ answer = << >>
  /\ stage' = "read"
  /\ UNCHANGED <<map, puts, answer, whole, got>>

\* The program goes on with what it has read, or with what it had.
Continue ==
  /\ stage \in {"read", "refused"}
  /\ stage' = "own"
  /\ map' = IF stage = "read" THEN got ELSE map
  /\ got' = << >> /\ whole' = TRUE
  /\ UNCHANGED <<puts, answer>>

MapNext ==
  \/ \E k \in Key, v \in Val : Fill(k, v)
  \/ Send
  \/ \E i \in 1..Len(answer) : Spoil(i)
  \/ ReadEntry
  \/ Refuse
  \/ Complete
  \/ Continue

MapSpec == MapInit /\ [][MapNext]_mapVars

----------------------------------------------------------------------------
(* Properties.                                                             *)

\* The map never holds more than was put into it; what is read and what is
\* still to be read never more than the map that was sent.
MapTypeOK ==
  /\ stage \in Stages
  /\ puts \in Seq(Key \X Val) /\ Len(puts) <= MaxPuts
  /\ Len(map) <= Len(puts)
  /\ Len(got) + Len(answer) <= Len(map)
  /\ stage # "sent" => answer = << >>
  /\ stage \in {"own", "refused"} => got = << >>
  /\ whole \in BOOLEAN

\* In the map of the program and in the one that is being read, every key is
\* less than all that follow it: without it a search may miss a key that is
\* there.
KeysAscend ==
  \A m \in {map, got} : \A j \in 1..Len(m) : \A i \in 1..(j - 1) :
    Compare(KeyAt(m, i), KeyAt(m, j)) < 0

AllExact ==
  \A i \in 1..Len(puts) : Exact(puts[i][1]) /\ Exact(puts[i][2])

\* The program finds under a key what it put there last, and nothing under a
\* key that it did not use, also after it has gone on with the map that was
\* read from an answer; values that a message cannot hold are excepted.
LastPutIsFound ==
  AllExact =>
    \A k \in Key :
      LET at == {i \in 1..Len(puts) : Equal(puts[i][1], k)} IN
      /\ Holds(map, k) <=> at # {}
      /\ at # {} =>
           LET last == CHOOSE i \in at : \A j \in at : j <= i
           IN  Equal(Lookup(map, k), puts[last][2])

\* Two maps with the same entries, as PartialEq sees them.
SameMap(m, n) ==
  /\ Len(m) = Len(n)
  /\ \A i \in 1..Len(m) : Equal(m[i][1], n[i][1]) /\ Equal(m[i][2], n[i][2])

\* A conversion is all or nothing: a map is read only from an answer that
\* lacks nothing, and no answer that lacks nothing is refused.
AllOrNothing ==
  /\ stage = "read" => whole
  /\ stage = "refused" => ~whole

\* value.proto: a timestamp is sent as "Microseconds since the UNIX epoch",
\* so every map is read back as it was sent.
RoundTrips == stage = "read" => SameMap(got, map)

\* Every map of values that a message can hold is read back as it was sent:
\* nothing is lost, doubled, reordered or changed by the conversions, however
\* deep.  Timestamps are the values that a message cannot hold.
RoundTripsButTimestamps == AllExact => RoundTrips
=============================================================================
