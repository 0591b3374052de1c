--------------------------- MODULE ValueMapProofs ---------------------------
(***************************************************************************)
(* Proofs about ValueMap: for every order of the keys that is total and    *)
(* conversions that are typed, the maps stay sorted, an answer is read     *)
(* exactly if it lacks nothing, and what was put last is found.  What the  *)
(* theorems assume of DamlValue is stated in ValueMap and evaluated by TLC *)
(* on the values of its run.                                               *)
(***************************************************************************)
EXTENDS ValueMap, SequenceTheorems, WellFoundedInduction, TLAPS

Sorted(m) ==
  \A j \in 1..Len(m) : \A i \in 1..(j - 1) : Compare(KeyAt(m, i), KeyAt(m, j)) < 0

----------------------------------------------------------------------------
(* The order.                                                              *)

LEMMA Mixed ==
  ASSUME NEW Value, TotalOrder(Value), NEW x \in Value, NEW y \in Value, NEW z \in Value,
         \/ Compare(x, y) < 0 /\ Compare(y, z) <= 0
         \/ Compare(x, y) <= 0 /\ Compare(y, z) < 0
  PROVE  Compare(x, z) < 0
<1>1. Compare(x, z) <= 0
  BY DEF TotalOrder
<1>2. Compare(x, z) # 0
  <2>1. SUFFICES ASSUME Compare(x, z) = 0 PROVE FALSE
    OBVIOUS
  <2>2. Compare(z, x) <= 0
    BY <2>1 DEF TotalOrder
  <2>3. CASE Compare(x, y) < 0 /\ Compare(y, z) <= 0
    <3>1. Compare(y, x) <= 0
      BY <2>2, <2>3 DEF TotalOrder
    <3>2. Compare(y, x) > 0
      BY <2>3 DEF TotalOrder
    <3> QED BY <3>1, <3>2 DEF TotalOrder
  <2>4. CASE Compare(x, y) <= 0 /\ Compare(y, z) < 0
    <3>1. Compare(z, y) <= 0
      BY <2>2, <2>4 DEF TotalOrder
    <3>2. Compare(z, y) > 0
      BY <2>4 DEF TotalOrder
    <3> QED BY <3>1, <3>2 DEF TotalOrder
  <2> QED BY <2>3, <2>4
<1> QED BY <1>1, <1>2 DEF TotalOrder

----------------------------------------------------------------------------
(* The map.                                                                *)

\* The search for a key always ends, at one position past the map at most.
LEMMA SearchEnds ==
  ASSUME NEW Value, TotalOrder(Value), NEW m \in Seq(Value \X Value), NEW k \in Value
  PROVE  Position(m, k) \in 1..(Len(m) + 1) /\ EndsAt(m, k, Position(m, k))
<1> DEFINE Stop == {i \in 1..(Len(m) + 1) :
                      i <= Len(m) => Compare(k, KeyAt(m, i)) <= 0}
           R == {p \in Nat \X Nat : p[1] < p[2]}
<1>0. Len(m) \in Nat /\ \A i \in 1..Len(m) : KeyAt(m, i) \in Value
  BY DEF KeyAt
<1>1. IsWellFoundedOn(R, Nat)
  BY NatLessThanWellFounded DEF OpToRel
<1>2. Len(m) + 1 \in Stop /\ Stop \subseteq Nat
  BY <1>0
<1>3. PICK i \in Stop : \A j \in Stop : ~ (<<j, i>> \in R)
  <2> HIDE DEF Stop, R
  <2> QED BY <1>1, <1>2, WFMin
<1>4. \A j \in 1..(i - 1) : j <= Len(m) /\ j \notin Stop
  <2> SUFFICES ASSUME NEW j \in 1..(i - 1) PROVE j <= Len(m) /\ j \notin Stop
    OBVIOUS
  <2>1. i \in 1..(Len(m) + 1)
    BY <1>3
  <2>2. j \in Nat /\ i \in Nat /\ j < i /\ j <= Len(m)
    BY <2>1, <1>0
  <2>3. <<j, i>> \in R
    BY <2>2
  <2> QED BY <2>2, <2>3, <1>3
<1>5. \A j \in 1..(i - 1) : Compare(k, KeyAt(m, j)) > 0
  <2> SUFFICES ASSUME NEW j \in 1..(i - 1) PROVE Compare(k, KeyAt(m, j)) > 0
    OBVIOUS
  <2>1. i \in 1..(Len(m) + 1) /\ j \in 1..Len(m)
    BY <1>0, <1>3, <1>4
  <2>2. ~(Compare(k, KeyAt(m, j)) <= 0)
    BY <1>0, <1>4, <2>1
  <2>3. Compare(k, KeyAt(m, j)) \in Int
    BY <1>0, <2>1 DEF TotalOrder
  <2> QED BY <2>2, <2>3
<1>6. EndsAt(m, k, i)
  BY <1>5, <1>3 DEF EndsAt
<1>7. i \in 1..(Len(m) + 1)
  BY <1>3
<1> QED BY <1>6, <1>7 DEF Position

\* Collecting an entry keeps a map sorted and makes it at most one longer.
LEMMA CollectSorts ==
  ASSUME NEW Value, TotalOrder(Value), NEW m \in Seq(Value \X Value), Sorted(m),
         NEW k \in Value, NEW v \in Value
  PROVE  /\ Collect(m, k, v) \in Seq(Value \X Value)
         /\ Sorted(Collect(m, k, v))
         /\ Len(Collect(m, k, v)) <= Len(m) + 1
<1>1. PICK p \in 1..(Len(m) + 1) : p = Position(m, k)
  BY SearchEnds
<1>2. EndsAt(m, k, p)
  BY <1>1, SearchEnds
<1>3. Len(m) \in Nat /\ \A i \in 1..Len(m) : m[i] \in Value \X Value /\ KeyAt(m, i) \in Value
  BY DEF KeyAt
<1>4. \A j \in 1..(p - 1) : Compare(KeyAt(m, j), k) < 0
  BY <1>2, <1>3 DEF EndsAt, TotalOrder
<1>5. CASE Holds(m, k)
  <2>1. p <= Len(m) /\ Compare(k, KeyAt(m, p)) = 0
    BY <1>1, <1>5 DEF Holds
  <2>2. PICK n : n = [i \in 1..Len(m) |-> IF i = p THEN <<k, v>> ELSE m[i]]
    OBVIOUS
  <2>3. n \in Seq(Value \X Value) /\ Len(n) = Len(m)
    BY <2>2, <1>3
  <2>4. \A i \in 1..Len(m) : KeyAt(n, i) = IF i = p THEN k ELSE KeyAt(m, i)
    BY <2>2 DEF KeyAt
  <2>5. \A i \in (p + 1)..Len(m) : Compare(k, KeyAt(m, i)) < 0
    <3> SUFFICES ASSUME NEW i \in (p + 1)..Len(m) PROVE Compare(k, KeyAt(m, i)) < 0
      OBVIOUS
    <3>1. Compare(KeyAt(m, p), KeyAt(m, i)) < 0
      BY <2>1 DEF Sorted
    <3> QED BY <3>1, <2>1, <1>3, Mixed
  <2>6. Sorted(n)
    <3> SUFFICES ASSUME NEW j \in 1..Len(m), NEW i \in 1..(j - 1)
                 PROVE  Compare(KeyAt(n, i), KeyAt(n, j)) < 0
      BY <2>3 DEF Sorted
    <3>1. Compare(KeyAt(m, i), KeyAt(m, j)) < 0
      BY DEF Sorted
    <3> QED BY <3>1, <2>4, <2>5, <1>4, <1>3
  <2>7. Collect(m, k, v) = n
    BY <1>1, <1>5, <2>2 DEF Collect
  <2> QED BY <2>3, <2>6, <2>7, <1>3
<1>6. CASE ~Holds(m, k)
  <2>1. p <= Len(m) => Compare(k, KeyAt(m, p)) < 0
    BY <1>1, <1>2, <1>3, <1>6 DEF Holds, EndsAt, TotalOrder
  <2>2. PICK n : n = [i \in 1..(Len(m) + 1) |->
                       IF i < p THEN m[i] ELSE IF i = p THEN <<k, v>> ELSE m[i - 1]]
    OBVIOUS
  <2>3. n \in Seq(Value \X Value) /\ Len(n) = Len(m) + 1
    <3>1. \A i \in 1..(Len(m) + 1) : n[i] \in Value \X Value
      BY <2>2, <1>3
    <3> QED BY <3>1, <2>2, <1>3
  <2>4. \A i \in 1..(Len(m) + 1) :
          KeyAt(n, i) = IF i < p THEN KeyAt(m, i) ELSE IF i = p THEN k ELSE KeyAt(m, i - 1)
    BY <2>2 DEF KeyAt
  <2>5. \A i \in p..Len(m) : Compare(k, KeyAt(m, i)) < 0
    <3> SUFFICES ASSUME NEW i \in p..Len(m) PROVE Compare(k, KeyAt(m, i)) < 0
      OBVIOUS
    <3>1. CASE i = p
      BY <3>1, <2>1
    <3>2. CASE i # p
      <4>1. Compare(KeyAt(m, p), KeyAt(m, i)) < 0
        BY <3>2 DEF Sorted
      <4>2. Compare(k, KeyAt(m, p)) <= 0 /\ KeyAt(m, p) \in Value
        BY <1>2, <1>3 DEF EndsAt
      <4> QED BY <4>1, <4>2, <1>3, Mixed
    <3> QED BY <3>1, <3>2
  <2>6. Sorted(n)
    <3> SUFFICES ASSUME NEW j \in 1..(Len(m) + 1), NEW i \in 1..(j - 1)
                 PROVE  Compare(KeyAt(n, i), KeyAt(n, j)) < 0
      BY <2>3 DEF Sorted
    <3>0. i \in Int /\ j \in Int /\ p \in Int /\ 1 <= i /\ i < j /\ j <= Len(m) + 1 /\ i \in 1..(Len(m) + 1)
      BY <1>3
    <3>1. CASE j < p
      <4>1. Compare(KeyAt(m, i), KeyAt(m, j)) < 0
        BY <3>1 DEF Sorted
      <4>2. KeyAt(n, i) = KeyAt(m, i) /\ KeyAt(n, j) = KeyAt(m, j)
        BY <3>1, <3>0, <2>4
      <4> QED BY <4>1, <4>2
    <3>2. CASE j = p
      <4>1. KeyAt(n, j) = k /\ KeyAt(n, i) = KeyAt(m, i) /\ i \in 1..(p - 1)
        BY <3>2, <3>0, <2>4
      <4> QED BY <4>1, <1>4
    <3>3. CASE j > p /\ i < p
      <4>1. j - 1 \in 1..Len(m) /\ i \in 1..((j - 1) - 1)
        BY <3>3, <3>0, <1>3
      <4>2. Compare(KeyAt(m, i), KeyAt(m, j - 1)) < 0
        BY <4>1 DEF Sorted
      <4>3. KeyAt(n, i) = KeyAt(m, i) /\ KeyAt(n, j) = KeyAt(m, j - 1)
        BY <3>3, <3>0, <2>4, <1>3
      <4> QED BY <4>2, <4>3
    <3>4. CASE j > p /\ i = p
      <4>1. j - 1 \in p..Len(m) /\ KeyAt(n, i) = k /\ KeyAt(n, j) = KeyAt(m, j - 1)
        BY <3>4, <3>0, <2>4
      <4> QED BY <4>1, <2>5
    <3>5. CASE j > p /\ i > p
      <4>1. j - 1 \in 1..Len(m) /\ i - 1 \in 1..((j - 1) - 1)
        BY <3>5, <3>0, <1>3
      <4>2. Compare(KeyAt(m, i - 1), KeyAt(m, j - 1)) < 0
        BY <4>1 DEF Sorted
      <4> QED BY <4>2, <3>5, <3>0, <2>4
    <3> QED BY <3>0, <3>1, <3>2, <3>3, <3>4, <3>5
  <2>7. Collect(m, k, v) = n
    BY <1>1, <1>6, <2>2 DEF Collect
  <2> QED BY <2>3, <2>6, <2>7, <1>3
<1> QED BY <1>5, <1>6

LEMMA InsertSorts ==
  ASSUME NEW Value, TotalOrder(Value), NEW m \in Seq(Value \X Value), Sorted(m),
         NEW k \in Value, NEW v \in Value
  PROVE  /\ Insert(m, k, v) \in Seq(Value \X Value)
         /\ Sorted(Insert(m, k, v))
         /\ Len(Insert(m, k, v)) <= Len(m) + 1
<1>1. PICK c : c = IF Holds(m, k) THEN KeyAt(m, Position(m, k)) ELSE k
  OBVIOUS
<1>2. c \in Value
  BY <1>1, SearchEnds DEF Holds, KeyAt
<1> QED BY <1>1, <1>2, CollectSorts DEF Insert

----------------------------------------------------------------------------
(* The invariant.                                                          *)

Converts(e) == Decode(e[1]) # Failed /\ Decode(e[2]) # Failed

\* An answer that lacks nothing converts from here to its end; one that
\* lacks a part still has the entry that will be refused before it.
AnswerInv ==
  stage = "sent" => (whole <=> \A i \in 1..Len(answer) : Converts(answer[i]))

IInv(Value, Message) ==
  /\ map \in Seq(Value \X Value) /\ Sorted(map)
  /\ got \in Seq(Value \X Value) /\ Sorted(got)
  /\ answer \in Seq(Message \X Message)
  /\ MapTypeOK
  /\ AnswerInv
  /\ AllOrNothing

LEMMA InitIInv == ASSUME NEW Value, NEW Message, MaxPuts \in Nat, MapInit PROVE IInv(Value, Message)
<1>1. << >> \in Seq(Value \X Value) /\ << >> \in Seq(Message \X Message)
      /\ << >> \in Seq(Key \X Val) /\ Len(<< >>) = 0
  OBVIOUS
<1>2. /\ map = << >> /\ puts = << >> /\ answer = << >> /\ got = << >>
      /\ stage = "own" /\ whole = TRUE
  BY DEF MapInit
<1>3. Sorted(map) /\ Sorted(got)
  BY <1>1, <1>2 DEF Sorted
<1>4. MapTypeOK
  BY <1>1, <1>2 DEF MapTypeOK, Stages
<1> QED BY <1>1, <1>2, <1>3, <1>4 DEF IInv, AnswerInv, AllOrNothing

LEMMA NextIInv ==
  ASSUME NEW Value, NEW Message, TotalOrder(Value), Conversions(Value, Message),
         MaxPuts \in Nat, IInv(Value, Message), [MapNext]_mapVars
  PROVE  IInv(Value, Message)'
<1> USE DEF IInv
<1>0. /\ Len(map) \in Nat /\ Len(got) \in Nat /\ Len(answer) \in Nat /\ Len(puts) \in Nat
      /\ \A i \in 1..Len(map) : map[i][1] \in Value /\ map[i][2] \in Value
      /\ \A i \in 1..Len(answer) : answer[i] \in Message \X Message
  BY DEF MapTypeOK
<1>1. ASSUME NEW k \in Key, NEW v \in Val, Fill(k, v) PROVE IInv(Value, Message)'
  <2>1. k \in Value /\ v \in Value
    BY DEF Conversions
  <2>2. /\ map' \in Seq(Value \X Value) /\ Sorted(map')
        /\ Len(map') <= Len(map) + 1 /\ Len(map') \in Nat
    <3>1. map' = Insert(map, k, v) /\ map \in Seq(Value \X Value) /\ Sorted(map)
      BY <1>1 DEF Fill
    <3>2. /\ Insert(map, k, v) \in Seq(Value \X Value) /\ Sorted(Insert(map, k, v))
          /\ Len(Insert(map, k, v)) <= Len(map) + 1
      BY <2>1, <3>1, InsertSorts
    <3> QED BY <3>1, <3>2
  <2>3. puts' \in Seq(Key \X Val) /\ Len(puts') = Len(puts) + 1
    BY <1>1 DEF Fill, MapTypeOK
  <2>4. MapTypeOK'
    BY <1>0, <1>1, <2>2, <2>3 DEF Fill, MapTypeOK, Stages
  <2>5. UNCHANGED <<got, answer, stage, whole>>
    BY <1>1 DEF Fill
  <2> QED BY <2>2, <2>4, <2>5 DEF AnswerInv, AllOrNothing, Converts, Sorted, KeyAt
<1>2. CASE Send
  <2>1. PICK w : w = [i \in 1..Len(map) |-> <<Encode(map[i][1]), Encode(map[i][2])>>]
    OBVIOUS
  <2>2. w \in Seq(Message \X Message) /\ Len(w) = Len(map)
    <3>1. \A i \in 1..Len(map) : w[i] \in Message \X Message
      BY <1>0, <2>1 DEF Conversions
    <3> QED BY <1>0, <2>1, <3>1
  <2>3. answer' = w /\ got' = << >> /\ whole' = TRUE /\ stage' = "sent" /\ UNCHANGED <<map, puts>>
    BY <1>2, <2>1 DEF Send
  <2>4. \A i \in 1..Len(w) : Converts(w[i])
    <3> SUFFICES ASSUME NEW i \in 1..Len(w) PROVE Converts(w[i])
      OBVIOUS
    <3>1. w[i] = <<Encode(map[i][1]), Encode(map[i][2])>> /\ map[i][1] \in Value /\ map[i][2] \in Value
      BY <1>0, <2>1, <2>2
    <3> QED BY <3>1 DEF Converts, Conversions
  <2>5. got' \in Seq(Value \X Value) /\ Len(got') = 0 /\ Sorted(got')
    BY <2>3 DEF Sorted
  <2>6. MapTypeOK'
    BY <1>0, <2>2, <2>3, <2>5 DEF MapTypeOK, Stages
  <2> QED BY <2>2, <2>3, <2>4, <2>5, <2>6 DEF AnswerInv, AllOrNothing, Converts, Sorted, KeyAt
<1>3. ASSUME NEW i \in 1..Len(answer), Spoil(i) PROVE IInv(Value, Message)'
  <2>1. PICK e \in Message \X Message : answer' = [answer EXCEPT ![i] = e] /\ ~Converts(e)
    <3>1. answer[i] \in Message \X Message
      BY <1>0
    <3>2. CASE \E w \in Spoiled(answer[i][1]) : answer' = [answer EXCEPT ![i] = <<w, answer[i][2]>>]
      <4>1. PICK w \in Spoiled(answer[i][1]) : answer' = [answer EXCEPT ![i] = <<w, answer[i][2]>>]
        BY <3>2
      <4>2. w \in Message /\ Decode(w) = Failed
        BY <3>1 DEF Conversions
      <4>3. <<w, answer[i][2]>> \in Message \X Message /\ ~Converts(<<w, answer[i][2]>>)
        BY <3>1, <4>2 DEF Converts
      <4> QED BY <4>1, <4>3
    <3>3. CASE \E w \in Spoiled(answer[i][2]) : answer' = [answer EXCEPT ![i] = <<answer[i][1], w>>]
      <4>1. PICK w \in Spoiled(answer[i][2]) : answer' = [answer EXCEPT ![i] = <<answer[i][1], w>>]
        BY <3>3
      <4>2. w \in Message /\ Decode(w) = Failed
        BY <3>1 DEF Conversions
      <4>3. <<answer[i][1], w>> \in Message \X Message /\ ~Converts(<<answer[i][1], w>>)
        BY <3>1, <4>2 DEF Converts
      <4> QED BY <4>1, <4>3
    <3> QED BY <1>3, <3>2, <3>3 DEF Spoil
  <2>2. stage = "sent" /\ whole' = FALSE /\ UNCHANGED <<map, puts, stage, got>>
    BY <1>3 DEF Spoil
  <2>3. answer' \in Seq(Message \X Message) /\ Len(answer') = Len(answer) /\ answer'[i] = e
    BY <2>1
  <2>4. MapTypeOK'
    BY <2>2, <2>3 DEF MapTypeOK
  <2>5. AnswerInv'
    BY <2>1, <2>2, <2>3 DEF AnswerInv, Converts
  <2> QED BY <2>2, <2>3, <2>4, <2>5 DEF AllOrNothing, Sorted, KeyAt
<1>4. CASE ReadEntry
  <2>1. PICK k, v : /\ k = Decode(answer[1][1]) /\ v = Decode(answer[1][2])
    OBVIOUS
  <2>2. /\ stage = "sent" /\ answer # << >> /\ k # Failed /\ v # Failed
        /\ got' = Collect(got, k, v) /\ answer' = Tail(answer)
        /\ UNCHANGED <<map, puts, stage, whole>>
    BY <1>4, <2>1 DEF ReadEntry
  <2>3. Len(answer) >= 1 /\ answer[1] \in Message \X Message
    BY <1>0, <2>2, EmptySeq
  <2>4. k \in Value /\ v \in Value
    BY <2>1, <2>2, <2>3 DEF Conversions
  <2>5. /\ got' \in Seq(Value \X Value) /\ Sorted(got')
        /\ Len(got') <= Len(got) + 1 /\ Len(got') \in Nat
    BY <2>2, <2>4, CollectSorts, SMTT(30)
  <2>6. /\ answer' \in Seq(Message \X Message) /\ Len(answer') = Len(answer) - 1
        /\ \A i \in 1..Len(answer') : answer'[i] = answer[i + 1]
    BY <2>2, <2>3, HeadTailProperties
  <2>7. MapTypeOK'
    BY <1>0, <2>2, <2>3, <2>5, <2>6 DEF MapTypeOK
  <2>8. AnswerInv'
    <3>1. Converts(answer[1])
      BY <2>1, <2>2 DEF Converts
    <3>2. (\A i \in 1..Len(answer') : Converts(answer'[i])) <=> (\A i \in 1..Len(answer) : Converts(answer[i]))
      <4>1. \A i \in 1..Len(answer) : i = 1 \/ (i - 1 \in 1..Len(answer') /\ answer[i] = answer'[i - 1])
        BY <1>0, <2>6
      <4>2. \A i \in 1..Len(answer') : i + 1 \in 1..Len(answer)
        BY <1>0, <2>6
      <4> QED BY <3>1, <2>6, <4>1, <4>2
    <3>3. whole <=> \A i \in 1..Len(answer') : Converts(answer'[i])
      BY <3>2, <2>2 DEF AnswerInv
    <3> QED BY <3>3, <2>2 DEF AnswerInv, Converts
  <2> QED BY <2>2, <2>5, <2>6, <2>7, <2>8 DEF AllOrNothing, Sorted, KeyAt
<1>5. CASE Refuse
  <2>1. /\ stage = "sent" /\ answer # << >> /\ ~Converts(answer[1])
        /\ stage' = "refused" /\ answer' = << >> /\ got' = << >> /\ UNCHANGED <<map, puts, whole>>
    BY <1>5 DEF Refuse, Converts
  <2>2. Len(answer) >= 1
    BY <1>0, <2>1, EmptySeq
  <2>3. ~whole
    BY <1>0, <2>1, <2>2 DEF AnswerInv
  <2>4. /\ << >> \in Seq(Value \X Value) /\ << >> \in Seq(Message \X Message)
        /\ Len(<< >>) = 0
    OBVIOUS
  <2>5. MapTypeOK'
    BY <1>0, <2>1, <2>4 DEF MapTypeOK, Stages
  <2> QED BY <2>1, <2>3, <2>4, <2>5 DEF AnswerInv, AllOrNothing, Sorted, KeyAt
<1>6. CASE Complete
  <2>1. stage = "sent" /\ answer = << >> /\ stage' = "read" /\ UNCHANGED <<map, puts, answer, whole, got>>
    BY <1>6 DEF Complete
  <2>2. whole
    BY <2>1 DEF AnswerInv
  <2>3. MapTypeOK'
    BY <2>1 DEF MapTypeOK, Stages
  <2> QED BY <2>1, <2>2, <2>3 DEF AnswerInv, AllOrNothing, Sorted, KeyAt
<1>7. CASE Continue
  <2>1. /\ stage \in {"read", "refused"} /\ stage' = "own" /\ got' = << >> /\ whole' = TRUE
        /\ (map' = got \/ map' = map) /\ UNCHANGED <<puts, answer>>
    BY <1>7 DEF Continue
  <2>2. << >> \in Seq(Value \X Value) /\ Len(<< >>) = 0
    OBVIOUS
  <2>3. map' \in Seq(Value \X Value) /\ Sorted(map') /\ Len(map') <= Len(puts)
    <3>1. Len(got) <= Len(map) /\ Len(map) <= Len(puts)
      BY <1>0 DEF MapTypeOK
    <3>2. CASE map' = got
      BY <1>0, <3>1, <3>2
    <3>3. CASE map' = map
      BY <1>0, <3>1, <3>3
    <3> QED BY <2>1, <3>2, <3>3
  <2>4. answer = << >> /\ Len(map') \in Nat
    BY <2>1, <2>3 DEF MapTypeOK
  <2>5. MapTypeOK'
    BY <1>0, <2>1, <2>2, <2>3, <2>4 DEF MapTypeOK, Stages
  <2> QED BY <2>1, <2>2, <2>3, <2>5 DEF AnswerInv, AllOrNothing, Sorted, KeyAt
<1>8. CASE UNCHANGED mapVars
  BY <1>8 DEF mapVars, MapTypeOK, Stages, AnswerInv, AllOrNothing, Converts, Sorted, KeyAt
<1> QED BY <1>1, <1>2, <1>3, <1>4, <1>5, <1>6, <1>7, <1>8 DEF MapNext

LEMMA Invariance ==
  ASSUME NEW Value, NEW Message, TotalOrder(Value), Conversions(Value, Message),
         MaxPuts \in Nat
  PROVE  MapSpec => []IInv(Value, Message)
<1>1. MapInit => IInv(Value, Message)
  BY InitIInv
<1>2. IInv(Value, Message) /\ [MapNext]_mapVars => IInv(Value, Message)'
  BY NextIInv
<1> QED BY <1>1, <1>2, PTL DEF MapSpec

(***************************************************************************)
(* No map ever holds more entries than were put or sent, and what is being *)
(* read is dropped when an entry is refused: for keys and values of every  *)
(* variant and depth.                                                      *)
(***************************************************************************)
THEOREM TypeCorrect ==
  ASSUME NEW Value, NEW Message, TotalOrder(Value), Conversions(Value, Message),
         MaxPuts \in Nat
  PROVE  MapSpec => []MapTypeOK
<1>1. IInv(Value, Message) => MapTypeOK
  BY DEF IInv
<1> QED BY <1>1, Invariance, PTL

(***************************************************************************)
(* DamlGenMap stays sorted under insert and under the collection of an     *)
(* answer, whatever is put into it in whatever order, if the order of the  *)
(* values is total.                                                        *)
(***************************************************************************)
THEOREM MapsStaySorted ==
  ASSUME NEW Value, NEW Message, TotalOrder(Value), Conversions(Value, Message),
         MaxPuts \in Nat
  PROVE  MapSpec => []KeysAscend
<1>1. IInv(Value, Message) => KeysAscend
  BY DEF IInv, KeysAscend, Sorted
<1> QED BY <1>1, Invariance, PTL

(***************************************************************************)
(* TryFrom<Value> reads an answer exactly if it lacks nothing, at whatever *)
(* entry the missing part is.                                              *)
(***************************************************************************)
THEOREM AnswersAllOrNothing ==
  ASSUME NEW Value, NEW Message, TotalOrder(Value), Conversions(Value, Message),
         MaxPuts \in Nat
  PROVE  MapSpec => []AllOrNothing
<1>1. IInv(Value, Message) => AllOrNothing
  BY DEF IInv
<1> QED BY <1>1, Invariance, PTL

----------------------------------------------------------------------------
(* What is in the maps.                                                    *)

LEMMA Equivalence ==
  ASSUME NEW Value, TotalOrder(Value), NEW x \in Value, NEW y \in Value, NEW z \in Value
  PROVE  /\ Compare(x, x) = 0
         /\ Compare(x, y) = 0 => Compare(y, x) = 0
         /\ Compare(x, y) = 0 /\ Compare(y, z) = 0 => Compare(x, z) = 0
<1>1. Compare(x, x) = 0
  BY DEF TotalOrder
<1>2. Compare(x, y) = 0 => Compare(y, x) = 0
  BY DEF TotalOrder
<1>3. Compare(y, z) = 0 => Compare(z, y) = 0
  BY DEF TotalOrder
<1>4. ASSUME Compare(x, y) = 0, Compare(y, z) = 0 PROVE Compare(x, z) = 0
  <2>1. Compare(x, z) <= 0 /\ Compare(z, x) <= 0
    BY <1>2, <1>3, <1>4 DEF TotalOrder
  <2> QED BY <2>1 DEF TotalOrder
<1> QED BY <1>1, <1>2, <1>4

\* Equal values are less than the same values.
LEMMA Congruence ==
  ASSUME NEW Value, TotalOrder(Value), NEW x \in Value, NEW y \in Value, NEW v \in Value, NEW w \in Value,
         Compare(x, y) < 0, Compare(v, x) = 0, Compare(w, y) = 0
  PROVE  Compare(v, w) < 0
<1>1. Compare(y, w) = 0
  BY Equivalence
<1>2. Compare(v, y) < 0
  BY Mixed
<1> QED BY <1>1, <1>2, Mixed

\* A search finds the entry with an equal key, if there is one.
LEMMA SearchFinds ==
  ASSUME NEW Value, TotalOrder(Value), NEW m \in Seq(Value \X Value), Sorted(m), NEW k \in Value
  PROVE  /\ Holds(m, k) => Position(m, k) \in 1..Len(m) /\ Compare(k, KeyAt(m, Position(m, k))) = 0
         /\ \A i \in 1..Len(m) : Compare(k, KeyAt(m, i)) = 0 => Holds(m, k) /\ Position(m, k) = i
<1>0. Len(m) \in Nat /\ \A i \in 1..Len(m) : KeyAt(m, i) \in Value
  BY DEF KeyAt
<1>1. PICK p : p = Position(m, k)
  OBVIOUS
<1>2. p \in 1..(Len(m) + 1) /\ EndsAt(m, k, p)
  BY <1>1, SearchEnds
<1>3. ASSUME Holds(m, k) PROVE p \in 1..Len(m) /\ Compare(k, KeyAt(m, p)) = 0
  BY <1>0, <1>1, <1>2, <1>3 DEF Holds
<1>4. ASSUME NEW i \in 1..Len(m), Compare(k, KeyAt(m, i)) = 0 PROVE Holds(m, k) /\ p = i
  <2>1. ~(i < p)
    <3> SUFFICES ASSUME i < p PROVE FALSE
      OBVIOUS
    <3>1. i \in 1..(p - 1)
      BY <1>0, <1>2
    <3>2. Compare(k, KeyAt(m, i)) > 0
      BY <1>2, <3>1 DEF EndsAt
    <3> QED BY <1>4, <3>2
  <2>2. ~(i > p)
    <3> SUFFICES ASSUME i > p PROVE FALSE
      OBVIOUS
    <3>1. p \in 1..(i - 1) /\ p \in 1..Len(m)
      BY <1>0, <1>2
    <3>2. Compare(KeyAt(m, p), KeyAt(m, i)) < 0
      BY <3>1 DEF Sorted
    <3>3. Compare(k, KeyAt(m, p)) <= 0
      BY <1>2, <3>1 DEF EndsAt
    <3>4. Compare(k, KeyAt(m, i)) < 0
      BY <1>0, <3>1, <3>2, <3>3, Mixed
    <3> QED BY <1>4, <3>4
  <2>3. p = i
    BY <1>0, <1>2, <2>1, <2>2
  <2> QED BY <1>1, <1>4, <2>3 DEF Holds
<1> QED BY <1>1, <1>3, <1>4

\* What is in a map into which an entry has been collected.
CollectHas(Value, m, n, k, v) ==
  /\ \A i \in 1..Len(n) :
       n[i] = <<k, v>> \/ \E q \in 1..Len(m) : n[i] = m[q] /\ Compare(k, KeyAt(m, q)) # 0
  /\ \E i \in 1..Len(n) : n[i] = <<k, v>>
  /\ \A q \in 1..Len(m) : Compare(k, KeyAt(m, q)) # 0 => \E i \in 1..Len(n) : n[i] = m[q]

LEMMA CollectKeeps ==
  ASSUME NEW Value, TotalOrder(Value), NEW m \in Seq(Value \X Value), Sorted(m), NEW k \in Value, NEW v \in Value
  PROVE  CollectHas(Value, m, Collect(m, k, v), k, v)
<1>0. Len(m) \in Nat
  OBVIOUS
<1>1. PICK p : p = Position(m, k)
  OBVIOUS
<1>2. p \in 1..(Len(m) + 1)
  BY <1>1, SearchEnds
<1>3. Holds(m, k) => p \in 1..Len(m) /\ Compare(k, KeyAt(m, p)) = 0
  BY <1>1, SearchFinds
<1>4. \A q \in 1..Len(m) : Compare(k, KeyAt(m, q)) = 0 => Holds(m, k) /\ p = q
  BY <1>1, SearchFinds
<1>5. PICK n : n = Collect(m, k, v)
  OBVIOUS
<1>6. CASE Holds(m, k)
  <2>1. n = [i \in 1..Len(m) |-> IF i = p THEN <<k, v>> ELSE m[i]]
    BY <1>1, <1>5, <1>6 DEF Collect
  <2>2. n \in Seq(Value \X Value) /\ Len(n) = Len(m)
    BY <1>0, <2>1
  <2>3. \A i \in 1..Len(m) : n[i] = IF i = p THEN <<k, v>> ELSE m[i]
    BY <2>1
  <2>4. \A i \in 1..Len(n) :
          n[i] = <<k, v>> \/ \E q \in 1..Len(m) : n[i] = m[q] /\ Compare(k, KeyAt(m, q)) # 0
    BY <1>4, <2>2, <2>3
  <2>5. n[p] = <<k, v>> /\ p \in 1..Len(n)
    BY <1>3, <1>6, <2>2, <2>3
  <2>6. \A q \in 1..Len(m) : Compare(k, KeyAt(m, q)) # 0 => \E i \in 1..Len(n) : n[i] = m[q]
    BY <1>3, <1>6, <2>2, <2>3
  <2> QED BY <1>5, <2>4, <2>5, <2>6 DEF CollectHas
<1>7. CASE ~Holds(m, k)
  <2>1. n = [i \in 1..(Len(m) + 1) |-> IF i < p THEN m[i] ELSE IF i = p THEN <<k, v>> ELSE m[i - 1]]
    BY <1>1, <1>5, <1>7 DEF Collect
  <2>2. n \in Seq(Value \X Value) /\ Len(n) = Len(m) + 1
    <3>1. \A i \in 1..(Len(m) + 1) : n[i] \in Value \X Value
      BY <1>0, <1>2, <2>1
    <3> QED BY <1>0, <2>1, <3>1
  <2>3. \A i \in 1..(Len(m) + 1) : n[i] = IF i < p THEN m[i] ELSE IF i = p THEN <<k, v>> ELSE m[i - 1]
    BY <2>1
  <2>4. ASSUME NEW i \in 1..Len(n)
        PROVE  n[i] = <<k, v>> \/ \E q \in 1..Len(m) : n[i] = m[q] /\ Compare(k, KeyAt(m, q)) # 0
    <3>1. CASE i < p
      <4>1. i \in 1..Len(m) /\ n[i] = m[i]
        BY <1>0, <1>2, <2>2, <2>3, <3>1
      <4> QED BY <1>4, <1>7, <4>1
    <3>2. CASE i = p
      BY <2>2, <2>3, <3>2
    <3>3. CASE i > p
      <4>1. i - 1 \in 1..Len(m) /\ n[i] = m[i - 1]
        BY <1>0, <1>2, <2>2, <2>3, <3>3
      <4> QED BY <1>4, <1>7, <4>1
    <3> QED BY <1>0, <1>2, <2>2, <3>1, <3>2, <3>3
  <2>5. n[p] = <<k, v>> /\ p \in 1..Len(n)
    BY <1>0, <1>2, <2>2, <2>3
  <2>6. ASSUME NEW q \in 1..Len(m) PROVE \E i \in 1..Len(n) : n[i] = m[q]
    <3>1. CASE q < p
      <4>1. q \in 1..Len(n) /\ n[q] = m[q]
        BY <1>0, <1>2, <2>2, <2>3, <3>1
      <4> QED BY <4>1
    <3>2. CASE q >= p
      <4>1. q + 1 \in 1..(Len(m) + 1) /\ ~(q + 1 < p) /\ q + 1 # p /\ (q + 1) - 1 = q
        BY <1>0, <1>2, <3>2
      <4>2. n[q + 1] = m[q] /\ q + 1 \in 1..Len(n)
        BY <2>2, <2>3, <4>1
      <4> QED BY <4>2
    <3> QED BY <1>0, <1>2, <3>1, <3>2
  <2> QED BY <1>5, <2>4, <2>5, <2>6 DEF CollectHas
<1> QED BY <1>6, <1>7

\* An entry whose key is above all others goes to the end.
LEMMA CollectAppends ==
  ASSUME NEW Value, TotalOrder(Value), NEW m \in Seq(Value \X Value), Sorted(m), NEW k \in Value, NEW v \in Value,
         \A i \in 1..Len(m) : Compare(KeyAt(m, i), k) < 0
  PROVE  Collect(m, k, v) = Append(m, <<k, v>>)
<1>0. Len(m) \in Nat /\ \A i \in 1..Len(m) : KeyAt(m, i) \in Value
  BY DEF KeyAt
<1>1. \A i \in 1..Len(m) : Compare(k, KeyAt(m, i)) \in Int /\ Compare(k, KeyAt(m, i)) > 0
  BY <1>0 DEF TotalOrder
<1>2. PICK p : p = Position(m, k)
  OBVIOUS
<1>3. p \in 1..(Len(m) + 1) /\ EndsAt(m, k, p)
  BY <1>2, SearchEnds
<1>4. p = Len(m) + 1
  <2>1. p \in 1..Len(m) => Compare(k, KeyAt(m, p)) <= 0
    BY <1>3 DEF EndsAt
  <2>2. p \notin 1..Len(m)
    BY <1>0, <1>1, <2>1
  <2> QED BY <1>0, <1>3, <2>2
<1>5. ~Holds(m, k)
  BY <1>0, <1>2, <1>4 DEF Holds
<1>6. Collect(m, k, v)
      = [i \in 1..(Len(m) + 1) |-> IF i < Len(m) + 1 THEN m[i] ELSE IF i = Len(m) + 1 THEN <<k, v>> ELSE m[i - 1]]
  BY <1>2, <1>4, <1>5 DEF Collect
<1>7. Append(m, <<k, v>>) = [i \in 1..(Len(m) + 1) |-> IF i < Len(m) + 1 THEN m[i] ELSE <<k, v>>]
  BY <1>0
<1> QED BY <1>0, <1>6, <1>7

LEMMA InsertHas ==
  ASSUME NEW Value, TotalOrder(Value), NEW m \in Seq(Value \X Value), Sorted(m), NEW k \in Value, NEW v \in Value
  PROVE  \E c \in Value :
           /\ Compare(c, k) = 0 /\ (c = k \/ \E q \in 1..Len(m) : c = KeyAt(m, q))
           /\ CollectHas(Value, m, Insert(m, k, v), c, v)
<1>1. PICK c : c = IF Holds(m, k) THEN KeyAt(m, Position(m, k)) ELSE k
  OBVIOUS
<1>2. c \in Value /\ Compare(c, k) = 0 /\ (c = k \/ \E q \in 1..Len(m) : c = KeyAt(m, q))
  <2>1. CASE Holds(m, k)
    <3>1. Position(m, k) \in 1..Len(m) /\ Compare(k, KeyAt(m, Position(m, k))) = 0
      BY <2>1, SearchFinds
    <3>2. c = KeyAt(m, Position(m, k)) /\ c \in Value
      BY <1>1, <2>1, <3>1 DEF KeyAt
    <3> QED BY <3>1, <3>2, Equivalence
  <2>2. CASE ~Holds(m, k)
    BY <1>1, <2>2, Equivalence
  <2> QED BY <2>1, <2>2
<1>3. CollectHas(Value, m, Collect(m, c, v), c, v)
  BY <1>2, CollectKeeps
<1> QED BY <1>1, <1>2, <1>3 DEF Insert

----------------------------------------------------------------------------
(***************************************************************************)
(* The map has, for every key that was used, the value that was put under  *)
(* it last, and nothing else; an answer that lacks nothing has, before and *)
(* after the place up to which it is read, what the map had.               *)
(***************************************************************************)
IsLast(p, j, x) == Equal(p[j][1], x) /\ \A n \in (j + 1)..Len(p) : ~Equal(p[n][1], x)

Contents(m, p) ==
  /\ \A i \in 1..Len(m) : \E j \in 1..Len(p) : IsLast(p, j, m[i][1]) /\ Equal(m[i][2], p[j][2])
  /\ \A j \in 1..Len(p) : \E i \in 1..Len(m) : Equal(p[j][1], m[i][1])

EntriesExact(m) == \A i \in 1..Len(m) : Exact(m[i][1]) /\ Exact(m[i][2])

Read(e) == <<Decode(Encode(e[1])), Decode(Encode(e[2]))>>

AnswerIsMap ==
  (stage \in {"sent", "read"} /\ whole) =>
    /\ Len(got) + Len(answer) = Len(map)
    /\ \A i \in 1..Len(got) : got[i] = Read(map[i])
    /\ \A i \in 1..Len(answer) : answer[i] = <<Encode(map[Len(got) + i][1]), Encode(map[Len(got) + i][2])>>

Mirrored == AllExact => Contents(map, puts) /\ EntriesExact(map) /\ AnswerIsMap

LEMMA FillMirrors ==
  ASSUME NEW Value, NEW Message, TotalOrder(Value), Conversions(Value, Message), Equality(Value),
         IInv(Value, Message), Mirrored, NEW k \in Key, NEW v \in Val, Fill(k, v)
  PROVE  Mirrored'
<1>1. /\ k \in Value /\ v \in Value /\ map \in Seq(Value \X Value) /\ Sorted(map)
      /\ puts \in Seq(Key \X Val) /\ Key \subseteq Value /\ Val \subseteq Value /\ Len(puts) \in Nat /\ Len(map) \in Nat
  BY DEF Conversions, IInv, MapTypeOK
<1>2. /\ stage = "own" /\ map' = Insert(map, k, v) /\ puts' = Append(puts, <<k, v>>)
      /\ UNCHANGED <<stage, answer, whole, got>>
  BY DEF Fill
<1>3. SUFFICES ASSUME AllExact' PROVE Mirrored'
  BY DEF Mirrored
<1>4. /\ Len(puts') = Len(puts) + 1 /\ puts'[Len(puts) + 1] = <<k, v>>
      /\ \A j \in 1..Len(puts) : puts'[j] = puts[j]
  BY <1>1, <1>2, AppendProperties
<1>5. AllExact /\ Exact(k) /\ Exact(v)
  BY <1>1, <1>3, <1>4 DEF AllExact
<1>6. PICK n : n = map'
  OBVIOUS
<1>7. PICK c \in Value : /\ Compare(c, k) = 0 /\ (c = k \/ \E q \in 1..Len(map) : c = KeyAt(map, q))
                         /\ CollectHas(Value, map, n, c, v)
  BY <1>1, <1>2, <1>6, InsertHas
<1>8. /\ n \in Seq(Value \X Value) /\ Len(n) \in Nat
      /\ \A i \in 1..Len(map) : map[i][1] \in Value /\ map[i][2] \in Value /\ KeyAt(map, i) = map[i][1]
      /\ \A j \in 1..Len(puts) : puts[j][1] \in Value /\ puts[j][2] \in Value
  <2>1. n \in Seq(Value \X Value) /\ Len(n) \in Nat
    BY <1>1, <1>2, <1>6, InsertSorts
  <2>2. \A i \in 1..Len(map) : map[i] \in Value \X Value
    BY <1>1
  <2>3. \A j \in 1..Len(puts) : puts[j] \in Key \X Val
    BY <1>1
  <2> QED BY <1>1, <2>1, <2>2, <2>3 DEF KeyAt
<1>9. Contents(map, puts) /\ EntriesExact(map)
  BY <1>5 DEF Mirrored
<1>10. EntriesExact(n)
  <2>1. Exact(c)
    BY <1>5, <1>7, <1>8, <1>9 DEF EntriesExact
  <2> SUFFICES ASSUME NEW i \in 1..Len(n) PROVE Exact(n[i][1]) /\ Exact(n[i][2])
    BY DEF EntriesExact
  <2>2. n[i] = <<c, v>> \/ \E q \in 1..Len(map) : n[i] = map[q]
    BY <1>7 DEF CollectHas
  <2> QED BY <1>5, <1>9, <2>1, <2>2 DEF EntriesExact
<1>11. ASSUME NEW i \in 1..Len(n)
       PROVE  \E j \in 1..Len(puts') : IsLast(puts', j, n[i][1]) /\ Equal(n[i][2], puts'[j][2])
  <2>1. CASE n[i] = <<c, v>>
    <3>1. n[i][1] = c /\ n[i][2] = v /\ Equal(k, c) /\ Equal(v, v)
      BY <1>1, <1>7, <2>1, Equivalence DEF Equality
    <3>2. Len(puts) + 1 \in 1..Len(puts') /\ ~(\E x : x \in (Len(puts) + 1 + 1)..Len(puts'))
      BY <1>1, <1>4
    <3>3. IsLast(puts', Len(puts) + 1, n[i][1])
      BY <1>4, <3>1, <3>2 DEF IsLast
    <3> QED BY <1>4, <3>1, <3>2, <3>3
  <2>2. CASE \E q \in 1..Len(map) : n[i] = map[q] /\ Compare(c, KeyAt(map, q)) # 0
    <3>1. PICK q \in 1..Len(map) : n[i] = map[q] /\ Compare(c, KeyAt(map, q)) # 0
      BY <2>2
    <3>2. PICK j \in 1..Len(puts) : IsLast(puts, j, map[q][1]) /\ Equal(map[q][2], puts[j][2])
      BY <1>9 DEF Contents
    <3>3. ~Equal(k, map[q][1])
      BY <1>1, <1>7, <1>8, <3>1, Equivalence DEF Equality
    <3>4. j \in 1..Len(puts') /\ \A x \in (j + 1)..Len(puts') : x = Len(puts) + 1 \/ x \in (j + 1)..Len(puts)
      BY <1>1, <1>4
    <3>5. \A x \in (j + 1)..Len(puts) : x \in 1..Len(puts)
      BY <1>1
    <3>6. IsLast(puts', j, map[q][1])
      BY <1>4, <3>2, <3>3, <3>4, <3>5, SMTT(30) DEF IsLast
    <3> QED BY <1>4, <3>1, <3>2, <3>4, <3>6
  <2> QED BY <1>7, <2>1, <2>2 DEF CollectHas
<1>12. ASSUME NEW j \in 1..Len(puts') PROVE \E i \in 1..Len(n) : Equal(puts'[j][1], n[i][1])
  <2>1. PICK i \in 1..Len(n) : n[i] = <<c, v>>
    BY <1>7 DEF CollectHas
  <2>2. Equal(k, c)
    BY <1>1, <1>7, Equivalence DEF Equality
  <2>3. CASE j = Len(puts) + 1
    BY <1>4, <2>1, <2>2, <2>3
  <2>4. CASE j # Len(puts) + 1
    <3>1. j \in 1..Len(puts) /\ puts'[j] = puts[j]
      BY <1>1, <1>4, <2>4
    <3>2. PICK q \in 1..Len(map) : Equal(puts[j][1], map[q][1])
      BY <1>9, <3>1 DEF Contents
    <3>3. CASE Compare(c, KeyAt(map, q)) # 0
      BY <1>7, <3>1, <3>2, <3>3 DEF CollectHas
    <3>4. CASE Compare(c, KeyAt(map, q)) = 0
      <4>1. Compare(puts[j][1], map[q][1]) = 0 /\ Compare(map[q][1], c) = 0
        BY <1>8, <3>1, <3>2, <3>4, Equivalence DEF Equality
      <4>2. Equal(puts[j][1], c)
        BY <1>8, <3>1, <4>1, Equivalence DEF Equality
      <4> QED BY <2>1, <3>1, <4>2
    <3> QED BY <3>3, <3>4
  <2> QED BY <2>3, <2>4
<1>13. Contents(n, puts')
  BY <1>11, <1>12 DEF Contents
<1>14. Contents(map, puts)' /\ EntriesExact(map)'
  BY <1>6, <1>10, <1>13 DEF Contents, EntriesExact, IsLast
<1>15. AnswerIsMap'
  BY <1>2 DEF AnswerIsMap
<1> QED BY <1>14, <1>15 DEF Mirrored

\* Equal values stay equal when they are read back.
LEMMA ReadIsSame ==
  ASSUME NEW Value, NEW Message, TotalOrder(Value), Conversions(Value, Message), Equality(Value), Exactness(Value),
         NEW x \in Value, Exact(x)
  PROVE  /\ Decode(Encode(x)) \in Value /\ Exact(Decode(Encode(x)))
         /\ Compare(Decode(Encode(x)), x) = 0 /\ Compare(x, Decode(Encode(x))) = 0
<1>1. Decode(Encode(x)) \in Value
  BY DEF Conversions
<1>2. Compare(Decode(Encode(x)), x) = 0 /\ Exact(Decode(Encode(x)))
  BY <1>1 DEF Exactness, Equality
<1> QED BY <1>1, <1>2, Equivalence

LEMMA ReadEntryMirrors ==
  ASSUME NEW Value, NEW Message, TotalOrder(Value), Conversions(Value, Message), Equality(Value), Exactness(Value),
         IInv(Value, Message), Mirrored, ReadEntry
  PROVE  Mirrored'
<1>1. /\ map \in Seq(Value \X Value) /\ Sorted(map) /\ got \in Seq(Value \X Value) /\ Sorted(got)
      /\ answer \in Seq(Message \X Message)
      /\ Len(map) \in Nat /\ Len(got) \in Nat /\ Len(answer) \in Nat
  BY DEF IInv
<1>2. /\ stage = "sent" /\ answer # << >> /\ got' = Collect(got, Decode(answer[1][1]), Decode(answer[1][2]))
      /\ answer' = Tail(answer) /\ UNCHANGED <<map, puts, stage, whole>>
  BY DEF ReadEntry
<1>3. SUFFICES ASSUME AllExact PROVE Contents(map, puts)' /\ EntriesExact(map)' /\ AnswerIsMap'
  BY <1>2 DEF Mirrored, AllExact
<1>4. Contents(map, puts)' /\ EntriesExact(map)' /\ EntriesExact(map)
  BY <1>2, <1>3 DEF Mirrored, Contents, EntriesExact, IsLast
<1>5. CASE ~whole
  BY <1>2, <1>4, <1>5 DEF AnswerIsMap
<1>6. CASE whole
  <2>1. /\ Len(got) + Len(answer) = Len(map)
        /\ \A i \in 1..Len(got) : got[i] = Read(map[i])
        /\ \A i \in 1..Len(answer) : answer[i] = <<Encode(map[Len(got) + i][1]), Encode(map[Len(got) + i][2])>>
    BY <1>2, <1>3, <1>6 DEF Mirrored, AnswerIsMap
  <2>2. Len(answer) >= 1
    BY <1>1, <1>2, EmptySeq
  <2>3. PICK g : g = Len(got) + 1
    OBVIOUS
  <2>4. g \in 1..Len(map) /\ answer[1] = <<Encode(map[g][1]), Encode(map[g][2])>>
    BY <1>1, <2>1, <2>2, <2>3
  <2>5. PICK k, v : k = Decode(Encode(map[g][1])) /\ v = Decode(Encode(map[g][2]))
    OBVIOUS
  <2>6. \A i \in 1..Len(map) : map[i] \in Value \X Value
    BY <1>1
  <2>7. \A i \in 1..Len(map) : /\ map[i][1] \in Value /\ map[i][2] \in Value
                               /\ Exact(map[i][1]) /\ Exact(map[i][2])
    BY <1>4, <2>6 DEF EntriesExact
  <2>8. k \in Value /\ v \in Value /\ Compare(k, map[g][1]) = 0
    BY <2>4, <2>5, <2>7, ReadIsSame
  <2>9. ASSUME NEW i \in 1..Len(got) PROVE Compare(KeyAt(got, i), k) < 0
    <3>1. i \in 1..(g - 1) /\ i \in 1..Len(map)
      BY <1>1, <2>1, <2>3
    <3>2. Compare(map[i][1], map[g][1]) < 0
      BY <1>1, <2>4, <3>1 DEF Sorted, KeyAt
    <3>3. KeyAt(got, i) = Decode(Encode(map[i][1]))
      BY <2>1 DEF Read, KeyAt
    <3>4. KeyAt(got, i) \in Value /\ Compare(KeyAt(got, i), map[i][1]) = 0
      BY <2>7, <3>1, <3>3, ReadIsSame
    <3> QED BY <2>4, <2>7, <2>8, <3>1, <3>2, <3>4, Congruence
  <2>10. got' = Append(got, <<k, v>>)
    <3>1. got' = Collect(got, k, v)
      BY <1>2, <2>4, <2>5
    <3>2. Collect(got, k, v) = Append(got, <<k, v>>)
      BY <1>1, <2>8, <2>9, CollectAppends
    <3> QED BY <3>1, <3>2
  <2>11. /\ Len(got') = g /\ got'[g] = <<k, v>> /\ \A i \in 1..Len(got) : got'[i] = got[i]
    BY <1>1, <2>3, <2>8, <2>10, AppendProperties
  <2>12. Len(answer') = Len(answer) - 1 /\ \A i \in 1..Len(answer') : answer'[i] = answer[i + 1]
    BY <1>1, <1>2, <2>2, HeadTailProperties
  <2>13. \A i \in 1..g : got'[i] = Read(map[i])
    <3> SUFFICES ASSUME NEW i \in 1..g PROVE got'[i] = Read(map[i])
      OBVIOUS
    <3>1. CASE i = g
      BY <2>5, <2>11, <3>1 DEF Read
    <3>2. CASE i # g
      <4>1. i \in 1..Len(got)
        BY <1>1, <2>3, <3>2
      <4> QED BY <2>1, <2>11, <4>1
    <3> QED BY <3>1, <3>2
  <2>14. \A i \in 1..Len(answer') : answer'[i] = <<Encode(map[g + i][1]), Encode(map[g + i][2])>>
    <3> SUFFICES ASSUME NEW i \in 1..Len(answer')
                 PROVE  answer'[i] = <<Encode(map[g + i][1]), Encode(map[g + i][2])>>
      OBVIOUS
    <3>1. i + 1 \in 1..Len(answer) /\ Len(got) + (i + 1) = g + i
      BY <1>1, <2>3, <2>12
    <3> QED BY <2>1, <2>12, <3>1
  <2>15. g + Len(answer') = Len(map)
    <3>1. Len(map) \in Nat /\ Len(got) \in Nat /\ Len(answer) \in Nat
      BY <1>1
    <3>2. Len(got) + Len(answer) = Len(map) /\ Len(answer') = Len(answer) - 1
      BY <2>1, <2>12
    <3> QED BY <2>3, <3>1, <3>2
  <2>16. AnswerIsMap'
    BY <1>2, <2>11, <2>13, <2>14, <2>15 DEF AnswerIsMap, Read
  <2> QED BY <1>4, <2>16
<1> QED BY <1>5, <1>6

LEMMA ContinueMirrors ==
  ASSUME NEW Value, NEW Message, TotalOrder(Value), Conversions(Value, Message), Equality(Value), Exactness(Value),
         IInv(Value, Message), Mirrored, Continue
  PROVE  Mirrored'
<1>1. /\ map \in Seq(Value \X Value) /\ puts \in Seq(Key \X Val) /\ Len(map) \in Nat /\ Len(puts) \in Nat
      /\ Len(got) \in Nat /\ Key \subseteq Value /\ Val \subseteq Value
  BY DEF IInv, MapTypeOK, Conversions
<1>2. /\ stage \in {"read", "refused"} /\ stage' = "own" /\ got' = << >> /\ UNCHANGED <<puts, answer>>
      /\ map' = IF stage = "read" THEN got ELSE map
  BY DEF Continue
<1>3. AnswerIsMap'
  BY <1>2 DEF AnswerIsMap
<1>4. SUFFICES ASSUME AllExact PROVE Contents(map, puts)' /\ EntriesExact(map)'
  BY <1>2, <1>3 DEF Mirrored, AllExact
<1>5. Contents(map, puts) /\ EntriesExact(map) /\ AnswerIsMap
  BY <1>4 DEF Mirrored
<1>6. CASE stage = "refused"
  BY <1>2, <1>5, <1>6 DEF Contents, EntriesExact, IsLast
<1>7. CASE stage = "read"
  <2>1. whole /\ answer = << >>
    BY <1>7 DEF IInv, AllOrNothing, MapTypeOK
  <2>2. Len(got) = Len(map) /\ \A i \in 1..Len(got) : got[i] = Read(map[i])
    BY <1>1, <1>5, <1>7, <2>1 DEF AnswerIsMap
  <2>3. \A i \in 1..Len(map) : map[i] \in Value \X Value
    BY <1>1
  <2>4. \A j \in 1..Len(puts) : puts[j] \in Key \X Val
    BY <1>1
  <2>5. /\ \A i \in 1..Len(map) : /\ map[i][1] \in Value /\ map[i][2] \in Value
                                  /\ Exact(map[i][1]) /\ Exact(map[i][2])
        /\ \A j \in 1..Len(puts) : puts[j][1] \in Value /\ puts[j][2] \in Value
    BY <1>1, <1>5, <2>3, <2>4 DEF EntriesExact
  <2>6. \A i \in 1..Len(got) :
          /\ got[i][1] = Decode(Encode(map[i][1])) /\ got[i][2] = Decode(Encode(map[i][2]))
    BY <2>2 DEF Read
  <2>7. \A i \in 1..Len(got) :
          /\ got[i][1] \in Value /\ Exact(got[i][1]) /\ Compare(got[i][1], map[i][1]) = 0
          /\ Compare(map[i][1], got[i][1]) = 0
          /\ got[i][2] \in Value /\ Exact(got[i][2]) /\ Compare(got[i][2], map[i][2]) = 0
    BY <2>2, <2>5, <2>6, ReadIsSame
  <2>8. \A j \in 1..Len(puts), i \in 1..Len(got) : Equal(puts[j][1], map[i][1]) <=> Equal(puts[j][1], got[i][1])
    BY <2>2, <2>5, <2>7, Equivalence DEF Equality
  <2>9. \A i \in 1..Len(got), j \in 1..Len(puts) : Equal(map[i][2], puts[j][2]) => Equal(got[i][2], puts[j][2])
    BY <2>2, <2>5, <2>7, Equivalence DEF Equality
  <2>10. \A j \in 1..Len(puts), i \in 1..Len(got) : IsLast(puts, j, map[i][1]) => IsLast(puts, j, got[i][1])
    <3> SUFFICES ASSUME NEW j \in 1..Len(puts), NEW i \in 1..Len(got), IsLast(puts, j, map[i][1])
                 PROVE  IsLast(puts, j, got[i][1])
      OBVIOUS
    <3>1. \A n \in (j + 1)..Len(puts) : n \in 1..Len(puts)
      BY <1>1
    <3> QED BY <2>8, <3>1 DEF IsLast
  <2>11. Contents(got, puts)
    <3>1. \A i \in 1..Len(got) : \E j \in 1..Len(puts) : IsLast(puts, j, got[i][1]) /\ Equal(got[i][2], puts[j][2])
      BY <1>5, <2>2, <2>9, <2>10 DEF Contents
    <3>2. \A j \in 1..Len(puts) : \E i \in 1..Len(got) : Equal(puts[j][1], got[i][1])
      BY <1>5, <2>2, <2>8 DEF Contents
    <3> QED BY <3>1, <3>2 DEF Contents
  <2>12. EntriesExact(got)
    BY <2>7 DEF EntriesExact
  <2>13. map' = got /\ puts' = puts
    BY <1>2, <1>7
  <2> QED BY <2>11, <2>12, <2>13 DEF Contents, EntriesExact, IsLast
<1> QED BY <1>2, <1>6, <1>7

LEMMA NextMirrors ==
  ASSUME NEW Value, NEW Message, TotalOrder(Value), Conversions(Value, Message), Equality(Value), Exactness(Value),
         IInv(Value, Message), Mirrored, [MapNext]_mapVars
  PROVE  Mirrored'
<1>1. ASSUME UNCHANGED <<map, puts>>, AllExact => AnswerIsMap' PROVE Mirrored'
  BY <1>1 DEF Mirrored, AllExact, Contents, EntriesExact, IsLast
<1>2. Len(map) \in Nat /\ Len(answer) \in Nat
  BY DEF IInv
<1>3. CASE Send
  <2>1. /\ answer' = [i \in 1..Len(map) |-> <<Encode(map[i][1]), Encode(map[i][2])>>] /\ got' = << >>
        /\ UNCHANGED <<map, puts>>
    BY <1>3 DEF Send
  <2>2. answer' \in Seq(Message \X Message) /\ Len(answer') = Len(map)
    <3>1. \A i \in 1..Len(map) : map[i] \in Value \X Value
      BY DEF IInv
    <3>2. \A i \in 1..Len(map) : <<Encode(map[i][1]), Encode(map[i][2])>> \in Message \X Message
      BY <3>1 DEF Conversions
    <3>3. answer' \in [1..Len(map) -> Message \X Message]
      BY <2>1, <3>2
    <3>4. answer' \in Seq(Message \X Message) /\ DOMAIN answer' = 1..Len(map)
      BY <1>2, <3>3
    <3> QED BY <1>2, <3>4, LenProperties
  <2>3. Len(got') = 0 /\ \A i \in 1..Len(map) : 0 + i = i
    BY <2>1
  <2>4. \A i \in 1..Len(map) : answer'[i] = <<Encode(map[i][1]), Encode(map[i][2])>>
    BY <2>1
  <2>5. \A i \in 1..Len(got') : FALSE
    BY <2>3
  <2>6. 0 + Len(answer') = Len(map)
    BY <1>2, <2>2
  <2>7. AnswerIsMap'
    BY <2>1, <2>2, <2>3, <2>4, <2>5, <2>6 DEF AnswerIsMap, Read
  <2> QED BY <1>1, <2>1, <2>7
<1>4. ASSUME NEW i \in 1..Len(answer), Spoil(i) PROVE Mirrored'
  BY <1>1, <1>4 DEF Spoil, AnswerIsMap
<1>5. CASE Refuse
  BY <1>1, <1>5 DEF Refuse, AnswerIsMap
<1>6. CASE Complete
  BY <1>1, <1>6 DEF Complete, AnswerIsMap, Mirrored
<1>7. CASE UNCHANGED mapVars
  BY <1>1, <1>7 DEF mapVars, AnswerIsMap, Mirrored
<1>8. ASSUME NEW k \in Key, NEW v \in Val, Fill(k, v) PROVE Mirrored'
  BY <1>8, FillMirrors
<1> QED BY <1>3, <1>4, <1>5, <1>6, <1>7, <1>8, ReadEntryMirrors, ContinueMirrors DEF MapNext

LEMMA Mirrors ==
  ASSUME NEW Value, NEW Message, TotalOrder(Value), Conversions(Value, Message), Equality(Value), Exactness(Value),
         MaxPuts \in Nat
  PROVE  MapSpec => []Mirrored
<1>1. MapInit => Mirrored
  <2>1. ASSUME MapInit PROVE Mirrored
    <3>1. map = << >> /\ puts = << >> /\ stage = "own" /\ Len(<< >>) = 0
      BY <2>1 DEF MapInit
    <3> QED BY <3>1 DEF Mirrored, Contents, EntriesExact, AnswerIsMap
  <2> QED BY <2>1
<1>2. IInv(Value, Message) /\ Mirrored /\ [MapNext]_mapVars => Mirrored'
  BY NextMirrors
<1> QED BY <1>1, <1>2, Invariance, PTL DEF MapSpec

(***************************************************************************)
(* The program finds under every key the value that it put there last, and *)
(* nothing under a key that it did not use, however often the map has been *)
(* sent and read back: for every total order that agrees with equality, if *)
(* what a message can hold is read back as an equal value.                 *)
(***************************************************************************)
THEOREM LastPutCorrect ==
  ASSUME NEW Value, NEW Message, TotalOrder(Value), Conversions(Value, Message), Equality(Value), Exactness(Value),
         MaxPuts \in Nat
  PROVE  MapSpec => []LastPutIsFound
<1>1. IInv(Value, Message) /\ Mirrored => LastPutIsFound
  <2> SUFFICES ASSUME IInv(Value, Message), Mirrored, AllExact, NEW k \in Key,
                      NEW at, at = {i \in 1..Len(puts) : Equal(puts[i][1], k)}
               PROVE  /\ Holds(map, k) <=> at # {}
                      /\ at # {} => Equal(Lookup(map, k), puts[CHOOSE i \in at : \A j \in at : j <= i][2])
    BY DEF LastPutIsFound
  <2>1. /\ map \in Seq(Value \X Value) /\ Sorted(map) /\ puts \in Seq(Key \X Val)
        /\ Len(map) \in Nat /\ Len(puts) \in Nat /\ Key \subseteq Value /\ Val \subseteq Value /\ k \in Value
    BY DEF IInv, MapTypeOK, Conversions
  <2>2. \A i \in 1..Len(map) : map[i] \in Value \X Value
    BY <2>1
  <2>3. \A j \in 1..Len(puts) : puts[j] \in Key \X Val
    BY <2>1
  <2>4. /\ \A i \in 1..Len(map) : map[i][1] \in Value /\ map[i][2] \in Value /\ KeyAt(map, i) = map[i][1]
        /\ \A j \in 1..Len(puts) : puts[j][1] \in Value /\ puts[j][2] \in Value
    BY <2>1, <2>2, <2>3 DEF KeyAt
  <2>5. Contents(map, puts)
    BY DEF Mirrored
  <2>6. ASSUME Holds(map, k)
        PROVE  at # {} /\ Equal(Lookup(map, k), puts[CHOOSE i \in at : \A j \in at : j <= i][2])
    <3>1. PICK p : p = Position(map, k)
      OBVIOUS
    <3>2. p \in 1..Len(map) /\ Compare(k, map[p][1]) = 0
      BY <2>1, <2>4, <2>6, <3>1, SearchFinds
    <3>3. PICK j \in 1..Len(puts) : IsLast(puts, j, map[p][1]) /\ Equal(map[p][2], puts[j][2])
      BY <2>5, <3>2 DEF Contents
    <3>4. \A n \in 1..Len(puts) : Equal(puts[n][1], map[p][1]) <=> Equal(puts[n][1], k)
      BY <2>1, <2>4, <3>2, Equivalence DEF Equality
    <3>5. j \in at
      BY <3>3, <3>4 DEF IsLast
    <3>6. \A n \in at : n <= j
      <4> SUFFICES ASSUME NEW n \in at, n > j PROVE FALSE
        BY <2>1
      <4>1. n \in (j + 1)..Len(puts) /\ n \in 1..Len(puts)
        BY <2>1
      <4> QED BY <3>3, <3>4, <4>1 DEF IsLast
    <3>7. j = CHOOSE i \in at : \A n \in at : n <= i
      <4>1. \A i \in at : (\A n \in at : n <= i) => i = j
        BY <2>1, <3>5, <3>6
      <4> QED BY <3>5, <3>6, <4>1
    <3> QED BY <3>1, <3>3, <3>5, <3>7 DEF Lookup
  <2>7. ASSUME at # {} PROVE Holds(map, k)
    <3>1. PICK j \in 1..Len(puts) : Equal(puts[j][1], k)
      BY <2>7
    <3>2. PICK i \in 1..Len(map) : Equal(puts[j][1], map[i][1])
      BY <2>5 DEF Contents
    <3>3. Compare(k, map[i][1]) = 0
      BY <2>1, <2>4, <3>1, <3>2, Equivalence DEF Equality
    <3> QED BY <2>1, <2>4, <3>3, SearchFinds, ZenonT(30)
  <2> QED BY <2>6, <2>7
<1> QED BY <1>1, Invariance, Mirrors, PTL

(***************************************************************************)
(* A map of values that a message can hold is read back as it was sent,    *)
(* entry by entry: From<DamlValue> for Value, then TryFrom<Value>.         *)
(***************************************************************************)
THEOREM RoundTripCorrect ==
  ASSUME NEW Value, NEW Message, TotalOrder(Value), Conversions(Value, Message), Equality(Value), Exactness(Value),
         MaxPuts \in Nat
  PROVE  MapSpec => []RoundTripsButTimestamps
<1>1. IInv(Value, Message) /\ Mirrored => RoundTripsButTimestamps
  <2> SUFFICES ASSUME IInv(Value, Message), Mirrored, AllExact, stage = "read" PROVE SameMap(got, map)
    BY DEF RoundTripsButTimestamps, RoundTrips
  <2>1. /\ map \in Seq(Value \X Value) /\ Len(map) \in Nat /\ Len(got) \in Nat /\ whole /\ answer = << >>
    BY DEF IInv, AllOrNothing, MapTypeOK
  <2>2. EntriesExact(map) /\ Len(got) = Len(map) /\ \A i \in 1..Len(got) : got[i] = Read(map[i])
    BY <2>1 DEF Mirrored, AnswerIsMap
  <2>3. \A i \in 1..Len(map) : map[i] \in Value \X Value
    BY <2>1
  <2>4. \A i \in 1..Len(map) : Equal(got[i][1], map[i][1]) /\ Equal(got[i][2], map[i][2])
    BY <2>2, <2>3 DEF EntriesExact, Exactness, Read
  <2> QED BY <2>2, <2>4 DEF SameMap
<1> QED BY <1>1, Invariance, Mirrors, PTL
=============================================================================
