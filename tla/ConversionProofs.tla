-------------------------- MODULE ConversionProofs --------------------------
(***************************************************************************)
(* Proofs about the conversion of Daml-LF packages.  First ModuleTree, for *)
(* packages of any number of modules with any names; then ArchiveReading,  *)
(* for types and expressions nested in each other to any depth.            *)
(***************************************************************************)
EXTENDS ModuleTree, ArchiveReading, SequenceTheorems, FiniteSetTheorems, TLAPS

----------------------------------------------------------------------------
(***************************************************************************)
(* Paths.                                                                  *)
(***************************************************************************)

\* The prefixes of a path are paths, the root and the path itself among them.
LEMMA PrefixesOfPath ==
  ASSUME NEW p \in Path
  PROVE  /\ Prefixes(p) \subseteq Path
         /\ p \in Prefixes(p)
         /\ Root \in Prefixes(p)
         /\ \A q \in Prefixes(p) : Prefixes(q) \subseteq Prefixes(p)
<1>1. ASSUME NEW k \in 0 .. Len(p)
      PROVE  SubSeq(p, 1, k) \in Path /\ Len(SubSeq(p, 1, k)) = k
  BY SubSeqProperties, LenProperties, SMT DEF Path
<1>2. Prefixes(p) \subseteq Path
  BY <1>1 DEF Prefixes
<1>3. p = SubSeq(p, 1, Len(p)) /\ Len(p) \in 0 .. Len(p)
  BY SubSeqFull, LenProperties DEF Path
<1>4. p \in Prefixes(p)
  BY <1>3 DEF Prefixes
<1>5. Root = SubSeq(p, 1, 0) /\ 0 \in 0 .. Len(p)
  BY SubSeqEmpty, LenProperties DEF Path, Root
<1>6. Root \in Prefixes(p)
  BY <1>5 DEF Prefixes
<1>7. ASSUME NEW q \in Prefixes(p), NEW r \in Prefixes(q)
      PROVE  r \in Prefixes(p)
  <2>1. PICK k \in 0 .. Len(p) : q = SubSeq(p, 1, k)
    BY DEF Prefixes
  <2>2. PICK l \in 0 .. Len(q) : r = SubSeq(q, 1, l)
    BY DEF Prefixes
  <2>3. Len(q) = k /\ k \in Nat /\ l \in 0 .. k /\ l \in 0 .. Len(p)
    BY <1>1, <2>1, <2>2, LenProperties DEF Path
  <2>4. SubSeq(SubSeq(p, 1, k), 1, l) = SubSeq(p, 1, l)
    <3>1. p \in Seq(Segment) /\ Len(p) \in Nat
      BY LenProperties DEF Path
    <3>2. SubSeq(p, 1, l) \in Seq(Segment) /\ Len(SubSeq(p, 1, l)) = l
      BY <1>1, <2>3 DEF Path
    <3>3. /\ SubSeq(q, 1, l) \in Seq(Segment)
          /\ Len(SubSeq(q, 1, l)) = l
      BY <1>1, <2>1, <2>3, SubSeqProperties, SMT DEF Path
    <3>4. \A n \in 1 .. l : SubSeq(q, 1, l)[n] = SubSeq(p, 1, l)[n]
      <4>1. \A n \in 1 .. l : SubSeq(p, 1, l)[n] = p[n]
        BY <2>3, <3>1, SubSeqProperties, SMT
      <4>2. \A n \in 1 .. k : SubSeq(p, 1, k)[n] = p[n]
        BY <2>3, <3>1, SubSeqProperties, SMT
      <4>3. \A n \in 1 .. l : SubSeq(q, 1, l)[n] = q[n]
        BY <1>1, <2>1, <2>3, SubSeqProperties, SMT DEF Path
      <4> QED BY <4>1, <4>2, <4>3, <2>1, <2>3
    <3> QED BY <3>2, <3>3, <3>4, <2>1, SeqEqual
  <2> QED BY <2>1, <2>2, <2>3, <2>4 DEF Prefixes
<1> QED BY <1>2, <1>4, <1>6, <1>7

\* What follows a path is below it.
LEMMA StrictlyBelow ==
  ASSUME NEW p \in Path, NEW q \in Path \ {Root}
  PROVE  IsStrictPrefix(p, p \o q)
<1>1. p \o q \in Path /\ Len(p \o q) = Len(p) + Len(q)
  BY ConcatProperties DEF Path
<1>2. Len(p) \in Nat /\ Len(q) \in Nat /\ Len(q) # 0
  BY LenProperties, EmptySeq DEF Path, Root
<1>3. Len(p) <= Len(p \o q) /\ Len(p) # Len(p \o q)
  BY <1>1, <1>2
<1>4. SubSeq(p \o q, 1, Len(p)) = p /\ SubSeq(p, 1, Len(p)) = p
  BY SubSeqOfConcat1, SubSeqFull DEF Path
<1> QED BY <1>3, <1>4 DEF IsStrictPrefix, IsPrefix

----------------------------------------------------------------------------
(***************************************************************************)
(* The data types that a wire module declares.                             *)
(***************************************************************************)

LEMMA FrontOfName ==
  ASSUME NEW d \in Path \ {Root}
  PROVE  /\ Len(d) \in Nat \ {0}
         /\ Last(d) \in Segment
         /\ Front(d) \in Path
         /\ Len(d) = 1 => Front(d) = Root
         /\ Len(d) > 1 => Front(d) # Root
<1>1. Len(d) \in Nat \ {0}
  BY LenProperties, EmptySeq DEF Path, Root
<1>2. Last(d) \in Segment
  BY <1>1, ElementOfSeq DEF Path, Last
<1>3. Front(d) \in Path /\ Len(Front(d)) = Len(d) - 1
  <2>1. PICK n \in Nat : Len(d) = n + 1 /\ n = Len(d) - 1
    BY <1>1
  <2>2. \A k \in 1 .. n : d[k] \in Segment
    BY <2>1, ElementOfSeq DEF Path
  <2>3. Front(d) = SubSeq(d, 1, n)
    BY <2>1, Zenon DEF Front
  <2>4. SubSeq(d, 1, n) \in Path /\ Len(SubSeq(d, 1, n)) = n
    BY <2>2, SubSeqProperties, SMT DEF Path
  <2> QED BY <2>1, <2>3, <2>4
<1>4. Len(d) = 1 => Front(d) = Root
  BY <1>3, EmptySeq DEF Path, Root
<1>5. Len(d) > 1 => Front(d) # Root
  BY <1>3, <1>1, EmptySeq DEF Path, Root
<1> QED BY <1>1, <1>2, <1>3, <1>4, <1>5

\* Top-level types stay in their module, nested ones go strictly below it.
LEMMA DeclaredEntries ==
  ASSUME wire \in Seq(WireModule), NEW i \in 1 .. Len(wire)
  PROVE  /\ wire[i] \in WireModule
         /\ wire[i].path \in Path
         /\ Declared(i) = Direct(i) \union Nested(i)
         /\ Declared(i) \subseteq Entry
         /\ \A e \in Declared(i) : e.owner = i
         /\ \A e \in Direct(i) : e.at = wire[i].path
         /\ \A e \in Nested(i) : IsStrictPrefix(wire[i].path, e.at)
<1>1. wire[i] \in WireModule
  BY ElementOfSeq
<1>2. wire[i].path \in Path /\ wire[i].data \subseteq Path \ {Root}
  BY <1>1 DEF WireModule
<1>3. i \in Nat
  BY LenProperties
<1>4. ASSUME NEW d \in wire[i].data
      PROVE  /\ EntryOf(i, d) \in Entry
             /\ EntryOf(i, d).owner = i
             /\ Len(d) = 1 => EntryOf(i, d).at = wire[i].path
             /\ Len(d) > 1 => IsStrictPrefix(wire[i].path, EntryOf(i, d).at)
             /\ Len(d) = 1 \/ Len(d) > 1
  <2>1. d \in Path \ {Root}
    BY <1>2
  <2>2. /\ Len(d) \in Nat \ {0}
        /\ Last(d) \in Segment
        /\ Front(d) \in Path
        /\ Len(d) = 1 => Front(d) = Root
        /\ Len(d) > 1 => Front(d) # Root
    BY <2>1, FrontOfName
  <2>3. wire[i].path \o Front(d) \in Path
    BY <1>2, <2>2, ConcatProperties DEF Path
  <2>4. wire[i].path \o Root = wire[i].path
    BY <1>2, ConcatEmptySeq DEF Path, Root
  <2>5. Len(d) > 1 => IsStrictPrefix(wire[i].path, wire[i].path \o Front(d))
    BY <1>2, <2>2, StrictlyBelow
  <2>6. EntryOf(i, d) \in Entry /\ EntryOf(i, d).owner = i
    BY <1>3, <2>2, <2>3 DEF EntryOf, Entry
  <2>7. EntryOf(i, d).at = wire[i].path \o Front(d)
    BY DEF EntryOf
  <2>8. Len(d) = 1 \/ Len(d) > 1
    <3>1. \A n \in Nat \ {0} : n = 1 \/ n > 1
      OBVIOUS
    <3> QED BY <2>2, <3>1, Zenon
  <2> QED BY <2>2, <2>4, <2>5, <2>6, <2>7, <2>8
<1>5. Declared(i) = Direct(i) \union Nested(i)
  BY <1>4 DEF Declared, Direct, Nested
<1>6. Declared(i) \subseteq Entry /\ \A e \in Declared(i) : e.owner = i
  BY <1>4 DEF Declared
<1>7. \A e \in Direct(i) : e.at = wire[i].path
  BY <1>4 DEF Direct
<1>8. \A e \in Nested(i) : IsStrictPrefix(wire[i].path, e.at)
  BY <1>4 DEF Nested
<1> QED BY <1>1, <1>2, <1>5, <1>6, <1>7, <1>8

\* The nodes that inserting a module creates are paths, closed under prefix
\* together with each other, and its payload goes to none of its own nodes.
LEMMA NodesOfModule ==
  ASSUME wire \in Seq(WireModule), NEW i \in 1 .. Len(wire)
  PROVE  /\ PathNodes(i) \subseteq Path
         /\ PayloadNodes(i) \subseteq Path
         /\ wire[i].path \in PathNodes(i)
         /\ wire[i].path \notin PayloadNodes(i)
         /\ \A e \in Declared(i) : e.at \in PathNodes(i) \union PayloadNodes(i)
         /\ \A p \in PathNodes(i) \union PayloadNodes(i) :
              Prefixes(p) \subseteq PathNodes(i) \union PayloadNodes(i)
<1>1. /\ wire[i].path \in Path
      /\ Declared(i) = Direct(i) \union Nested(i)
      /\ Declared(i) \subseteq Entry
      /\ \A e \in Direct(i) : e.at = wire[i].path
  BY DeclaredEntries
<1>2. /\ PathNodes(i) \subseteq Path
      /\ wire[i].path \in PathNodes(i)
      /\ \A p \in PathNodes(i) : Prefixes(p) \subseteq PathNodes(i)
  BY <1>1, PrefixesOfPath DEF PathNodes
<1>3. \A e \in Nested(i) : e.at \in Path
  BY <1>1 DEF Entry
<1>4. /\ \A e \in Nested(i) : Prefixes(e.at) \subseteq Path
      /\ \A e \in Nested(i) : e.at \in Prefixes(e.at)
      /\ \A e \in Nested(i) : \A p \in Prefixes(e.at) : Prefixes(p) \subseteq Prefixes(e.at)
  BY <1>3, PrefixesOfPath
<1>5. PayloadNodes(i) \subseteq Path
  BY <1>4 DEF PayloadNodes
<1>6. wire[i].path \notin PayloadNodes(i)
  BY <1>2 DEF PayloadNodes
<1>7. \A e \in Nested(i) : Prefixes(e.at) \subseteq PathNodes(i) \union PayloadNodes(i)
  BY DEF PayloadNodes
<1>8. \A p \in PayloadNodes(i) : \E e \in Nested(i) : p \in Prefixes(e.at)
  BY DEF PayloadNodes
<1>9. \A e \in Declared(i) : e.at \in PathNodes(i) \union PayloadNodes(i)
  BY <1>1, <1>2, <1>4, <1>7
<1>10. \A p \in PathNodes(i) \union PayloadNodes(i) :
         Prefixes(p) \subseteq PathNodes(i) \union PayloadNodes(i)
  BY <1>2, <1>4, <1>7, <1>8
<1> QED BY <1>2, <1>5, <1>6, <1>9, <1>10

----------------------------------------------------------------------------
(***************************************************************************)
(* The inductive invariant: what the run checks, together with which nodes *)
(* are installed, when the tree is complete, and that a failure drops it.  *)
(***************************************************************************)
Inserted ==
  /\ status # "failed" => installed = {wire[i].path : i \in Done}
  /\ status = "built" => next = Len(wire) + 1
  /\ status = "failed" => synthetic = {} /\ data = {}

TreeInv ==
  /\ TypeOK
  /\ TreeShaped
  /\ Inserted
  /\ DataIsLastDeclared
  /\ SyntheticHoldsPayloadOnly

LEMMA TreeInit == Init => TreeInv
<1> SUFFICES ASSUME Init PROVE TreeInv
  OBVIOUS
<1>1. wire \in Seq(WireModule) /\ Len(wire) \in Nat
  BY PackageAssumption, LenProperties DEF Init
<1>2. Root \in Path /\ Prefixes(Root) = {Root}
  <2>1. Root \in Path /\ Len(Root) = 0
    BY EmptySeq DEF Root, Path
  <2>2. Prefixes(Root) = {SubSeq(Root, 1, 0)}
    BY <2>1 DEF Prefixes
  <2>3. SubSeq(Root, 1, 0) = Root
    BY SubSeqEmpty DEF Root
  <2> QED BY <2>1, <2>2, <2>3
<1>3. Done = {}
  BY DEF Init, Done
<1>4. TypeOK
  BY <1>1, <1>2 DEF Init, TypeOK, Statuses
<1>5. TreeShaped
  BY <1>2 DEF Init, TreeShaped
<1>6. Inserted
  BY <1>3 DEF Init, Inserted
<1>7. DataIsLastDeclared
  BY <1>3 DEF Init, DataIsLastDeclared
<1>8. SyntheticHoldsPayloadOnly
  BY DEF Init, SyntheticHoldsPayloadOnly
<1> QED BY <1>4, <1>5, <1>6, <1>7, <1>8 DEF TreeInv

(***************************************************************************)
(* What InsertModule starts from, and the sets it makes.                   *)
(***************************************************************************)
LEMMA InsertFacts ==
  ASSUME TreeInv, InsertModule
  PROVE  /\ wire \in Seq(WireModule)
         /\ wire' = wire
         /\ next \in 1 .. Len(wire)
         /\ Len(wire) \in Nat
         /\ Done = 1 .. (next - 1)
         /\ Done' = Done \union {next}
         /\ next \notin Done
         /\ Done \subseteq 1 .. Len(wire)
         /\ \A i \in Done : i < next
         /\ status = "building" /\ status' = "building"
         /\ next' = next + 1
<1>1. wire \in Seq(WireModule) /\ Len(wire) \in Nat /\ next \in 1 .. (Len(wire) + 1)
  BY LenProperties DEF TreeInv, TypeOK
<1>2. /\ wire' = wire /\ next' = next + 1
      /\ next <= Len(wire)
      /\ status = "building" /\ status' = "building"
  BY DEF InsertModule
<1>3. next \in 1 .. Len(wire)
  BY <1>1, <1>2
<1>4. /\ Done = 1 .. (next - 1)
      /\ Done' = 1 .. (next' - 1)
  BY DEF Done
<1>5. /\ Done' = Done \union {next}
      /\ next \notin Done
      /\ Done \subseteq 1 .. Len(wire)
      /\ \A i \in Done : i < next
  BY <1>1, <1>2, <1>3, <1>4
<1> QED BY <1>1, <1>2, <1>3, <1>4, <1>5

LEMMA InsertTypeOK ==
  ASSUME TreeInv, InsertModule
  PROVE  TypeOK' /\ TreeShaped'
<1> DEFINE n == next
<1>1. /\ wire \in Seq(WireModule)
      /\ wire' = wire
      /\ n \in 1 .. Len(wire)
      /\ Len(wire) \in Nat
      /\ status' = "building"
      /\ next' = n + 1
  BY InsertFacts
<1>2. /\ wire[n].path \in Path
      /\ Declared(n) = Direct(n) \union Nested(n)
      /\ Declared(n) \subseteq Entry
      /\ \A e \in Direct(n) : e.at = wire[n].path
      /\ \A e \in Nested(n) : IsStrictPrefix(wire[n].path, e.at)
  BY <1>1, DeclaredEntries
<1>3. /\ PathNodes(n) \subseteq Path
      /\ PayloadNodes(n) \subseteq Path
      /\ wire[n].path \in PathNodes(n)
      /\ \A e \in Declared(n) : e.at \in PathNodes(n) \union PayloadNodes(n)
      /\ \A p \in PathNodes(n) \union PayloadNodes(n) :
           Prefixes(p) \subseteq PathNodes(n) \union PayloadNodes(n)
  BY <1>1, NodesOfModule
<1>4. /\ nodes' = nodes \union PathNodes(n) \union PayloadNodes(n)
      /\ synthetic' = (synthetic \ {wire[n].path}) \union (PayloadNodes(n) \ nodes)
      /\ installed' = installed \union {wire[n].path}
      /\ data' = {e \in TakeFrom(n) : \A f \in Nested(n) : ~SameKey(e, f)} \union Nested(n)
  BY DEF InsertModule, SyntheticAfter, Put
<1>5. TakeFrom(n) = {e \in data : e.at # wire[n].path} \union Direct(n)
  BY DEF TakeFrom
<1>6. /\ nodes \subseteq Path /\ synthetic \subseteq nodes /\ installed \subseteq nodes
      /\ data \subseteq Entry
      /\ \A e, f \in data : SameKey(e, f) => e = f
      /\ \A p \in nodes : Prefixes(p) \subseteq nodes
      /\ \A e \in data : e.at \in nodes
  BY DEF TreeInv, TypeOK, TreeShaped
<1>7. data' \subseteq data \union Direct(n) \union Nested(n)
  BY <1>4, <1>5
<1>8. data' \subseteq Entry
  BY <1>2, <1>6, <1>7
<1>9. ASSUME NEW e \in Declared(n), NEW f \in Declared(n), SameKey(e, f)
      PROVE  e = f
  <2>1. e.owner = f.owner
    BY <1>1, DeclaredEntries
  <2>2. e \in Entry /\ f \in Entry
    BY <1>2
  <2> QED BY <1>9, <2>1, <2>2 DEF SameKey, Entry
<1>10. ASSUME NEW e \in data', NEW f \in data', SameKey(e, f)
       PROVE  e = f
  <2>1. e.at = f.at /\ SameKey(f, e)
    BY <1>10 DEF SameKey
  <2>2. CASE e \in Nested(n) \/ f \in Nested(n)
    BY <1>2, <1>4, <1>9, <1>10, <2>1, <2>2
  <2>3. CASE e \notin Nested(n) /\ f \notin Nested(n)
    <3>1. e \in TakeFrom(n) /\ f \in TakeFrom(n)
      BY <1>4, <2>3
    <3> QED BY <1>2, <1>5, <1>6, <1>9, <1>10, <2>1, <3>1
  <2> QED BY <2>2, <2>3
<1>11. TypeOK'
  <2>1. wire' \in Seq(WireModule) /\ next' \in 1 .. (Len(wire') + 1)
    BY <1>1
  <2>2. nodes' \subseteq Path /\ synthetic' \subseteq nodes' /\ installed' \subseteq nodes'
    BY <1>3, <1>4, <1>6
  <2>3. status' \in Statuses
    BY <1>1 DEF Statuses
  <2>4. \A e, f \in data' : SameKey(e, f) => e = f
    BY <1>10
  <2> QED BY <2>1, <2>2, <2>3, <2>4, <1>8 DEF TypeOK, SameKey
<1>12. TreeShaped'
  <2>1. \A p \in nodes' : Prefixes(p) \subseteq nodes'
    BY <1>3, <1>4, <1>6
  <2>2. \A e \in data' : e.at \in nodes'
    BY <1>2, <1>3, <1>4, <1>6, <1>7
  <2> QED BY <2>1, <2>2 DEF TreeShaped
<1> QED BY <1>11, <1>12

LEMMA InsertData ==
  ASSUME TreeInv, InsertModule
  PROVE  DataIsLastDeclared'
<1> DEFINE n == next
           Old == UNION {Declared(i) : i \in Done}
<1>1. /\ wire \in Seq(WireModule)
      /\ wire' = wire
      /\ n \in 1 .. Len(wire)
      /\ Len(wire) \in Nat
      /\ Done' = Done \union {n}
      /\ Done \subseteq 1 .. Len(wire)
      /\ \A i \in Done : i < n
      /\ status = "building" /\ status' = "building"
  BY InsertFacts
<1>2. /\ Declared(n) = Direct(n) \union Nested(n)
      /\ \A e \in Direct(n) : e.at = wire[n].path
      /\ \A e \in Nested(n) : e.at # wire[n].path
  BY <1>1, DeclaredEntries DEF IsStrictPrefix
<1>3. \A i \in Done' : i \in Nat /\ \A e \in Declared(i) : e.owner = i
  <2>1. Done' \subseteq 1 .. Len(wire)
    BY <1>1
  <2> QED BY <1>1, <2>1, DeclaredEntries
<1>4. data = {e \in Old : ~Superseded(e)}
  BY <1>1 DEF TreeInv, DataIsLastDeclared
<1>5. data' = {e \in TakeFrom(n) : \A f \in Nested(n) : ~SameKey(e, f)} \union Nested(n)
  BY DEF InsertModule, Put
<1>6. TakeFrom(n) = {e \in data : e.at # wire[n].path} \union Direct(n)
  BY DEF TakeFrom
<1>7. \A i : Declared(i)' = Declared(i)
  BY <1>1 DEF Declared, EntryOf
<1>8. ASSUME NEW e
      PROVE  Superseded(e)' <=>
               \E j \in Done' : /\ j > e.owner
                                /\ \/ wire[j].path = e.at
                                   \/ \E f \in Declared(j) : SameKey(e, f)
  BY <1>1, <1>7 DEF Superseded, SameKey
<1>9. ASSUME NEW e \in data'
      PROVE  e \in Old \union Declared(n) /\ ~Superseded(e)'
  <2>1. CASE e \in Declared(n)
    <3>1. e.owner = n /\ n \in Nat
      BY <1>1, <1>3, <2>1
    <3>2. \A j \in Done' : ~(j > n)
      BY <1>1, <1>3
    <3> QED BY <1>8, <2>1, <3>1, <3>2
  <2>2. CASE e \notin Declared(n)
    <3>1. e \in data /\ e.at # wire[n].path /\ \A f \in Nested(n) : ~SameKey(e, f)
      BY <1>2, <1>5, <1>6, <2>2
    <3>2. \A f \in Declared(n) : ~SameKey(e, f)
      BY <1>2, <3>1 DEF SameKey
    <3>3. e \in Old /\ ~Superseded(e)
      BY <1>4, <3>1
    <3> QED BY <1>1, <1>8, <3>1, <3>2, <3>3 DEF Superseded
  <2> QED BY <2>1, <2>2
<1>10. ASSUME NEW e \in Old \union Declared(n), ~Superseded(e)'
       PROVE  e \in data'
  <2>1. CASE e \in Nested(n)
    BY <1>5, <2>1
  <2>2. CASE e \in Direct(n)
    BY <1>2, <1>5, <1>6, <2>2 DEF SameKey
  <2>3. CASE e \notin Declared(n)
    <3>1. PICK i \in Done : e \in Declared(i)
      BY <1>10, <2>3
    <3>2. e.owner = i /\ i < n /\ i \in Nat
      BY <1>1, <1>3, <3>1
    <3>3. n > e.owner
      BY <1>1, <3>2
    <3>4. e.at # wire[n].path /\ \A f \in Declared(n) : ~SameKey(e, f)
      BY <1>1, <1>8, <1>10, <3>3
    <3>5. ~Superseded(e)
      BY <1>1, <1>8, <1>10 DEF Superseded
    <3> QED BY <1>2, <1>4, <1>5, <1>6, <3>1, <3>4, <3>5
  <2> QED BY <1>2, <2>1, <2>2, <2>3
<1>11. UNION {Declared(i)' : i \in Done'} = Old \union Declared(n)
  BY <1>1, <1>7
<1>12. data' = {e \in UNION {Declared(i)' : i \in Done'} : ~Superseded(e)'}
  BY <1>9, <1>10, <1>11
<1> QED BY <1>12 DEF DataIsLastDeclared

LEMMA InsertSynthetic ==
  ASSUME TreeInv, InsertModule
  PROVE  SyntheticHoldsPayloadOnly' /\ Inserted'
<1> DEFINE n == next
<1>1. /\ wire \in Seq(WireModule)
      /\ wire' = wire
      /\ n \in 1 .. Len(wire)
      /\ Done' = Done \union {n}
      /\ Done \subseteq 1 .. Len(wire)
      /\ status = "building" /\ status' = "building"
  BY InsertFacts
<1>2. /\ synthetic' = (synthetic \ {wire[n].path}) \union (PayloadNodes(n) \ nodes)
      /\ installed' = installed \union {wire[n].path}
  BY DEF InsertModule, SyntheticAfter
<1>3. installed = {wire[i].path : i \in Done} /\ installed \subseteq nodes
  BY <1>1 DEF TreeInv, Inserted, TypeOK
<1>4. installed' = {wire'[i].path : i \in Done'}
  BY <1>1, <1>2, <1>3
<1>5. Inserted'
  BY <1>1, <1>4 DEF Inserted
<1>6. \A p \in synthetic : p \notin installed /\ \E i \in Done : p \in PayloadNodes(i)
  BY DEF TreeInv, SyntheticHoldsPayloadOnly
<1>7. wire[n].path \notin PayloadNodes(n)
  BY <1>1, NodesOfModule
<1>8. \A i : PayloadNodes(i)' = PayloadNodes(i)
  BY <1>1 DEF PayloadNodes, PathNodes, Nested, EntryOf
<1>9. DataIsLastDeclared'
  BY InsertData
<1>10. data' \subseteq UNION {Declared(i) : i \in Done'}
  <2>1. \A i : Declared(i)' = Declared(i)
    BY <1>1 DEF Declared, EntryOf
  <2> QED BY <1>1, <1>9, <2>1 DEF DataIsLastDeclared
<1>11. ASSUME NEW p \in synthetic'
       PROVE  /\ p \notin installed'
              /\ \E i \in Done' : p \in PayloadNodes(i)'
  BY <1>1, <1>2, <1>3, <1>6, <1>7, <1>8
<1>12. ASSUME NEW p \in synthetic', NEW e \in data', e.at = p
       PROVE  IsStrictPrefix(wire'[e.owner].path, p)
  <2>1. PICK i \in Done' : e \in Declared(i)
    BY <1>10
  <2>2. i \in 1 .. Len(wire)
    BY <1>1
  <2>3. /\ e.owner = i
        /\ e \in Direct(i) => e.at = wire[i].path
        /\ e \in Nested(i) => IsStrictPrefix(wire[i].path, e.at)
        /\ e \in Direct(i) \union Nested(i)
    BY <1>1, <2>1, <2>2, DeclaredEntries
  <2>4. e \notin Direct(i)
    BY <1>1, <1>4, <1>11, <1>12, <2>1, <2>3
  <2> QED BY <1>1, <1>12, <2>3, <2>4
<1>13. SyntheticHoldsPayloadOnly'
  BY <1>11, <1>12 DEF SyntheticHoldsPayloadOnly
<1> QED BY <1>5, <1>13

\* What is superseded depends on the wire modules inserted so far alone.
LEMMA SameData ==
  ASSUME DataIsLastDeclared, wire' = wire, next' = next, data' = data,
         status' # "failed" => status # "failed"
  PROVE  DataIsLastDeclared'
<1>1. Done' = Done /\ \A i : Declared(i)' = Declared(i)
  BY DEF Done, Declared, EntryOf
<1>2. ASSUME NEW e
      PROVE  Superseded(e)' <=> Superseded(e)
  BY <1>1 DEF Superseded, SameKey
<1>3. ASSUME status' # "failed"
      PROVE  data' = {e \in UNION {Declared(i)' : i \in Done'} : ~Superseded(e)'}
  <2>1. data = {e \in UNION {Declared(i) : i \in Done} : ~Superseded(e)}
    BY <1>3 DEF DataIsLastDeclared
  <2>2. UNION {Declared(i)' : i \in Done'} = UNION {Declared(i) : i \in Done}
    BY <1>1
  <2> QED BY <1>2, <2>1, <2>2
<1> QED BY <1>3 DEF DataIsLastDeclared

(***************************************************************************)
(* Every step preserves the invariant.                                     *)
(***************************************************************************)
LEMMA TreeStep == TreeInv /\ [Next]_vars => TreeInv'
<1> SUFFICES ASSUME TreeInv, [Next]_vars PROVE TreeInv'
  OBVIOUS
<1>1. CASE InsertModule
  BY <1>1, InsertTypeOK, InsertData, InsertSynthetic DEF TreeInv
<1>2. CASE RejectModule
  <2>1. /\ status' = "failed" /\ nodes' = {Root} /\ synthetic' = {}
        /\ installed' = {} /\ data' = {} /\ wire' = wire /\ next' = next
    BY <1>2 DEF RejectModule
  <2>2. Root \in Path /\ Prefixes(Root) \subseteq {Root}
    <3>1. Root \in Path /\ Len(Root) = 0
      BY EmptySeq DEF Root, Path
    <3>2. Prefixes(Root) = {SubSeq(Root, 1, 0)}
      BY <3>1 DEF Prefixes
    <3>3. SubSeq(Root, 1, 0) = Root
      BY SubSeqEmpty DEF Root
    <3> QED BY <3>1, <3>2, <3>3
  <2>3. TypeOK'
    BY <2>1, <2>2 DEF TreeInv, TypeOK, Statuses
  <2>4. TreeShaped'
    BY <2>1, <2>2 DEF TreeShaped
  <2>5. Inserted' /\ DataIsLastDeclared' /\ SyntheticHoldsPayloadOnly'
    BY <2>1 DEF Inserted, DataIsLastDeclared, SyntheticHoldsPayloadOnly
  <2> QED BY <2>3, <2>4, <2>5 DEF TreeInv
<1>3. CASE Finish
  <2>1. /\ wire' = wire /\ next' = next /\ nodes' = nodes /\ synthetic' = synthetic
        /\ installed' = installed /\ data' = data
        /\ status = "building" /\ status' = "built" /\ next > Len(wire)
    BY <1>3 DEF Finish
  <2>2. next = Len(wire) + 1
    <3>1. Len(wire) \in Nat /\ next \in 1 .. (Len(wire) + 1)
      BY LenProperties DEF TreeInv, TypeOK
    <3> QED BY <2>1, <3>1
  <2>3. TypeOK' /\ TreeShaped'
    BY <2>1 DEF TreeInv, TypeOK, TreeShaped, Statuses, SameKey
  <2>4. Inserted'
    BY <2>1, <2>2 DEF TreeInv, Inserted, Done
  <2>5. DataIsLastDeclared'
    BY <2>1, SameData DEF TreeInv
  <2>6. SyntheticHoldsPayloadOnly'
    BY <2>1 DEF TreeInv, SyntheticHoldsPayloadOnly, Done, PayloadNodes, PathNodes, Nested, EntryOf
  <2> QED BY <2>3, <2>4, <2>5, <2>6 DEF TreeInv
<1>4. CASE UNCHANGED vars
  <2>1. /\ wire' = wire /\ next' = next /\ nodes' = nodes /\ synthetic' = synthetic
        /\ installed' = installed /\ data' = data /\ status' = status
    BY <1>4 DEF vars
  <2>2. TypeOK' /\ TreeShaped' /\ Inserted'
    BY <2>1 DEF TreeInv, TypeOK, TreeShaped, Inserted, Done, SameKey
  <2>3. DataIsLastDeclared'
    BY <2>1, SameData DEF TreeInv
  <2>4. SyntheticHoldsPayloadOnly'
    BY <2>1 DEF TreeInv, SyntheticHoldsPayloadOnly, Done, PayloadNodes, PathNodes, Nested, EntryOf
  <2> QED BY <2>2, <2>3, <2>4 DEF TreeInv
<1> QED BY <1>1, <1>2, <1>3, <1>4 DEF Next

LEMMA TreeInvariance == Spec => []TreeInv
<1> QED BY TreeInit, TreeStep, PTL DEF Spec

----------------------------------------------------------------------------
(***************************************************************************)
(* The converter is well typed, and no module of the tree ever holds two   *)
(* data types of one name.                                                 *)
(***************************************************************************)
THEOREM TypeCorrect == Spec => []TypeOK
<1>1. TreeInv => TypeOK
  BY DEF TreeInv
<1> QED BY <1>1, TreeInvariance, PTL

(***************************************************************************)
(* Lookups from the root reach every module that holds data.               *)
(***************************************************************************)
THEOREM TreeCorrect == Spec => []TreeShaped
<1>1. TreeInv => TreeShaped
  BY DEF TreeInv
<1> QED BY <1>1, TreeInvariance, PTL

(***************************************************************************)
(* For every package, insert_module loses a data type only to a later      *)
(* module that takes its node or its key.                                  *)
(***************************************************************************)
THEOREM LastDeclaredWins == Spec => []DataIsLastDeclared
<1>1. TreeInv => DataIsLastDeclared
  BY DEF TreeInv
<1> QED BY <1>1, TreeInvariance, PTL

(***************************************************************************)
(* In every insertion order a synthetic node is a payload node, never the  *)
(* home of a wire module.                                                  *)
(***************************************************************************)
THEOREM SyntheticCorrect == Spec => []SyntheticHoldsPayloadOnly
<1>1. TreeInv => SyntheticHoldsPayloadOnly
  BY DEF TreeInv
<1> QED BY <1>1, TreeInvariance, PTL

(***************************************************************************)
(* If no module of a package sits where another one puts its data, then    *)
(* every reference within the package resolves, whatever the wire order.   *)
(***************************************************************************)
THEOREM ReferencesCorrect == Spec => []DisjointResolves
<1>1. ASSUME TreeInv, Disjoint, status = "built",
             NEW i \in 1 .. Len(wire), NEW d \in wire[i].data
      PROVE  Resolves(i, d)
  <2> DEFINE e == EntryOf(i, d)
             t == Target(i, d)
  <2>1. Done = 1 .. Len(wire) /\ wire \in Seq(WireModule)
    <3>1. next = Len(wire) + 1 /\ Len(wire) \in Nat /\ wire \in Seq(WireModule)
      BY <1>1, LenProperties DEF TreeInv, Inserted, TypeOK
    <3> QED BY <3>1 DEF Done
  <2>2. e \in Declared(i) /\ e.owner = i /\ e.at = t.at /\ e.name = t.name
    BY DEF Declared, EntryOf, Target
  <2>3. ASSUME NEW j \in Done, j > e.owner
        PROVE  wire[j].path # e.at /\ \A f \in Declared(j) : ~SameKey(e, f)
    <3>1. i # j /\ j \in 1 .. Len(wire)
      BY <2>1, <2>2, <2>3
    <3>2. /\ t.at # wire[j].path
          /\ \A x \in wire[j].data : ~SameKey(t, Target(j, x))
      BY <1>1, <3>1 DEF Disjoint
    <3>3. \A f \in Declared(j) : \E x \in wire[j].data :
            f.at = Target(j, x).at /\ f.name = Target(j, x).name
      BY DEF Declared, EntryOf, Target
    <3> QED BY <2>2, <3>2, <3>3 DEF SameKey
  <2>4. e \in data
    BY <1>1, <2>1, <2>2, <2>3 DEF TreeInv, DataIsLastDeclared, Superseded
  <2>5. e.at \in nodes
    BY <1>1, <2>4 DEF TreeInv, TreeShaped
  <2> QED BY <2>2, <2>4, <2>5 DEF Resolves, SameKey
<1>2. TreeInv => DisjointResolves
  BY <1>1 DEF DisjointResolves, ReferencesResolve
<1> QED BY <1>2, TreeInvariance, PTL

----------------------------------------------------------------------------
(***************************************************************************)
(* The format, read off its tables: which kinds of messages there are, and *)
(* below which slots they occur.                                           *)
(***************************************************************************)
Pair(e) == <<e[1], e[2]>>

DefinitionKinds ==
  {"Package", "Module", "DefTypeSyn", "Record", "Variant", "Enum", "InterfaceMarker", "DefValue",
    "DefException",
   "Template", "DefKey", "Implements", "InstanceBody", "TemplateChoice", "DefInterface", "InterfaceMethod",
   "FieldWithType", "ArgBinder", "TypeVarWithKind"}

TypeAndKindKinds ==
  {"Var", "Con", "Syn", "Forall", "Struct", "InternedType", "KindArrow", "InternedKind"} \union WithArguments

Scalars == {"SCALAR", "Nat", "TApp", "Unset", "Star", "KindNat", "Metadata"} \union Names

\* Messages that occur without an expression above them.
PlainKinds == DefinitionKinds \union TypeAndKindKinds \union Scalars

ExprSlots == Expressions \union InterfaceOps \union Updates

LEMMA DefinitionSlots ==
  \A e \in Definitions :
    /\ e[1] \in DefinitionKinds
    /\ e[3] \in {"Metadata", "DefDataType", "Type", "Kind", "Expr", "TypeConId"}
         \union (DefinitionKinds \ {"Package"})
    /\ e[4] = "opt" <=> Pair(e) \in {<<"Template", "key">>, <<"Template", "precond">>}
BY DEF Definitions, DefinitionKinds, One, Opt, Many, Is, Pair

LEMMA TypeSlots ==
  \A e \in Types :
    /\ e[1] \in TypeAndKindKinds
    /\ e[3] \in {"Type", "Kind", "TypeConId", "TypeSynId", "TypeVarWithKind", "FieldWithType"}
    /\ e[4] # "opt"
BY DEF Types, TypeAndKindKinds, WithArguments, One, Opt, Many, Is

SortsInExprs ==
  {"Expr", "Type", "TypeConId", "ValueId", "Con", "TypeVarWithKind", "FieldWithExpr", "CaseAlt",
    "CaseAltSum", "VarWithType",
   "Block", "Binding", "Update"}

LEMMA ExpressionSlots ==
  \A e \in Expressions : e[1] \notin PlainKinds \union {"ExerciseInterface"} /\ e[3] \in SortsInExprs
    /\ e[4] # "opt"
BY DEF Expressions, OfType, TypedExpr, SortsInExprs, PlainKinds, DefinitionKinds, TypeAndKindKinds,
       WithArguments, Scalars, Names, One, Opt, Many, Is

LEMMA UpdateSlots ==
  \A e \in Updates :
    /\ e[1] \notin PlainKinds /\ e[3] \in SortsInExprs
    /\ e[4] = "opt" <=> Pair(e) = <<"ExerciseInterface", "guard">>
BY DEF Updates, SortsInExprs, PlainKinds, DefinitionKinds, TypeAndKindKinds, WithArguments, Scalars, Names,
       One, Opt, Many, Is, Pair

OpKinds ==
  {"ToInterface", "FromInterface", "CallInterface", "UnsafeFromInterface", "ToRequiredInterface",
    "FromRequiredInterface",
   "UnsafeFromRequiredInterface", "ChoiceController", "ChoiceObserver"} \union OfInterface

LEMMA OpSlots ==
  ASSUME NEW e \in InterfaceOps
  PROVE  e[1] \in OpKinds /\ e[1] \notin PlainKinds /\ e[3] \in {"Expr", "TypeConId"} /\ e[4] = "one"
<1>1. \/ e \in { One("ToInterface", "template_expr", "Expr"), One("FromInterface", "interface_expr", "Expr"),
                 One("CallInterface", "interface_type", "TypeConId"),
                   One("CallInterface", "interface_expr", "Expr"),
                 One("UnsafeFromInterface", "contract_id_expr", "Expr"),
                 One("UnsafeFromInterface", "interface_expr", "Expr"),
                 One("ToRequiredInterface", "expr", "Expr"), One("FromRequiredInterface", "expr", "Expr"),
                 One("UnsafeFromRequiredInterface", "contract_id_expr", "Expr"),
                 One("UnsafeFromRequiredInterface", "interface_expr", "Expr") }
      \/ \E k \in OfInterface : e = One(k, "interface", "TypeConId")
      \/ \E k \in OfInterface : e = One(k, "expr", "Expr")
      \/ \E k \in {"ToInterface", "FromInterface", "UnsafeFromInterface"} :
           e \in {One(k, "interface_type", "TypeConId"), One(k, "template_type", "TypeConId")}
      \/ \E k \in {"ToRequiredInterface", "FromRequiredInterface", "UnsafeFromRequiredInterface"} :
           e \in {One(k, "required_interface", "TypeConId"), One(k, "requiring_interface", "TypeConId")}
      \/ \E k \in {"ChoiceController", "ChoiceObserver"} :
           e \in {One(k, "template", "TypeConId"), One(k, "contract_expr", "Expr"),
             One(k, "choice_arg_expr", "Expr")}
  BY DEF InterfaceOps
<1>2. \E k \in OpKinds : \E s : \E t \in {"Expr", "TypeConId"} : e = One(k, s, t)
  BY <1>1 DEF OpKinds
<1>3. \A k \in OpKinds : k \notin PlainKinds
  BY DEF OpKinds, OfInterface, PlainKinds, DefinitionKinds, TypeAndKindKinds, WithArguments, Scalars, Names
<1> QED BY <1>2, <1>3 DEF One

----------------------------------------------------------------------------
(***************************************************************************)
(* The rules of the conversion, read off theirs: what they let go, what    *)
(* they only pass through, and what becomes of the rest.                   *)
(***************************************************************************)
LetGoSlots ==
  {<<"InterfaceMarker", "params">>, <<"Template", "params">>, <<"ARROW", "args">>, <<"UPDATE", "args">>}

ReferringSlots ==
  {<<"InternedType", "entry">>, <<"InternedKind", "entry">>, <<"InternedExpr", "entry">>,
    <<"Implements", "interface">>}

Implemented == <<"Template", "implements">>

\* What validate walks, as slots of the messages.
ValidatedSlots ==
  { <<"Package", "modules">>, <<"Module", "data_types">>, <<"Module", "templates">>,
    <<"Module", "interfaces">>,
    <<"Record", "fields">>, <<"Variant", "fields">>, <<"Template", "fields">>, <<"Template", "choices">>,
    <<"Template", "key">>, <<"DefKey", "type">>, <<"DefInterface", "view">>, <<"DefInterface", "methods">>,
    <<"DefInterface", "choices">>, <<"DefInterface", "requires">>, <<"InterfaceMethod", "type">>,
    <<"TemplateChoice", "arg_binder">>, <<"TemplateChoice", "ret_type">>, <<"FieldWithType", "type">>,
    <<"ArgBinder", "type">>, <<"Con", "tycon">>, <<"Con", "args">>, <<"Var", "args">>, <<"Forall", "body">>,
    <<"Struct", "fields">>, <<"Syn", "args">> }
  \union {<<b, "args">> : b \in DOMAIN KeptArguments}

\* No function reads these.
NotRead ==
  {<<"Package", "metadata">>, <<"Module", "orphans">>, <<"Implements", "body">>,
    <<"InstanceBody", "methods">>,
   <<"InstanceBody", "view">>}

Into(r) == <<r[3], r[4]>>

\* What there is to say of a rule for a slot of a definition or of a type.
PlainRule(r) ==
  /\ r[3] = "none" <=> Pair(r) \in LetGoSlots
  /\ r[3] = "same" <=> Pair(r) \in ReferringSlots
  /\ r[1] \in DefinitionKinds \union TypeAndKindKinds
  /\ Pair(r) \notin NotRead
  /\ r[3] \notin {"none", "same"} => Into(r) \in Accept \union {Implemented}
  /\ Into(r) \in Validate <=> Pair(r) \in ValidatedSlots
  /\ Into(r) = Implemented <=> Pair(r) = Implemented
  /\ Into(r) = <<"Interface", "view">> <=> Pair(r) = <<"DefInterface", "view">>
  /\ Into(r) = <<"Choice", "fields">> <=> Pair(r) = <<"TemplateChoice", "arg_binder">>
  /\ Pair(r) = <<"ArgBinder", "type">> => Into(r) = <<"Field", "ty">>
  /\ r[3] = "TyCon" <=> r[1] = "Con"
  /\ Into(r) = <<"TyCon", "tycon">> <=> Pair(r) = <<"Con", "tycon">>

LEMMA ElementParts ==
  /\ AcceptPackage \subseteq ElementSlots /\ AcceptModule \subseteq ElementSlots
  /\ AcceptDefTypeSyn \subseteq ElementSlots /\ AcceptDefValue \subseteq ElementSlots
  /\ AcceptException \subseteq ElementSlots /\ AcceptField \subseteq ElementSlots
  /\ AcceptTypeVar \subseteq ElementSlots /\ AcceptInterface \subseteq ElementSlots
  /\ AcceptTemplate \subseteq ElementSlots /\ AcceptChoice \subseteq ElementSlots
  /\ AcceptDefKey \subseteq ElementSlots /\ AcceptRecord \subseteq ElementSlots
  /\ AcceptVariant \subseteq ElementSlots /\ AcceptEnum \subseteq ElementSlots
  /\ AcceptType \subseteq ElementSlots /\ AcceptSyn \subseteq ElementSlots
  /\ AcceptStruct \subseteq ElementSlots /\ AcceptForall \subseteq ElementSlots
  /\ AcceptTyCon \subseteq ElementSlots /\ AcceptVar \subseteq ElementSlots
BY DEF ElementSlots

LEMMA PlainRulesAreRight ==
  \A r \in ConvertModule \union ConvertSynonym \union ConvertDataType \union ConvertTemplate
    \union ConvertChoice \union ConvertKeyAndImplements \union ConvertInterface \union ConvertException
    \union ConvertValue \union ConvertField \union ConvertKind \union ConvertType
    \union ConvertBuiltin :
    PlainRule(r)
<1> USE DEF PlainRule, Rule, Pair, Into, LetGoSlots, ReferringSlots, Implemented, NotRead
<1> USE ElementParts
<1> USE DEF Validate, ValidateModule, ValidateData, ValidateTemplate, ValidateInterface, ValidateChoice,
            ValidateType, Slots, ValidatedSlots, KeptArguments
<1> USE DEF AcceptPackage, AcceptModule, AcceptDefTypeSyn, AcceptDefValue, AcceptException, AcceptField,
            AcceptTypeVar, AcceptInterface, AcceptTemplate, AcceptChoice, AcceptDefKey, AcceptRecord,
            AcceptVariant, AcceptEnum, AcceptType, AcceptSyn, AcceptStruct, AcceptForall, AcceptTyCon,
            AcceptVar, Accept, Structs, DataKinds, TypeArms, DefinitionKinds, TypeAndKindKinds,
            WithArguments
<1>1. \A r \in ConvertModule : PlainRule(r)
  BY DEF ConvertModule
<1>2. \A r \in ConvertSynonym : PlainRule(r)
  BY DEF ConvertSynonym
<1>3. \A r \in ConvertDataType : PlainRule(r)
  BY DEF ConvertDataType, Dropped
<1>4. \A r \in ConvertTemplate : PlainRule(r)
  BY DEF ConvertTemplate, Same
<1>5. \A r \in ConvertChoice : PlainRule(r)
  BY DEF ConvertChoice
<1>6. \A r \in ConvertKeyAndImplements : PlainRule(r)
  BY DEF ConvertKeyAndImplements, Same, Through
<1>7. \A r \in ConvertInterface : PlainRule(r)
  BY DEF ConvertInterface
<1>8. \A r \in ConvertException : PlainRule(r)
  BY DEF ConvertException
<1>9. \A r \in ConvertValue : PlainRule(r)
  BY DEF ConvertValue
<1>10. \A r \in ConvertField : PlainRule(r)
  BY DEF ConvertField
<1>11. \A r \in ConvertKind : PlainRule(r)
  BY DEF ConvertKind, Same, Through
<1>12. \A r \in ConvertType : PlainRule(r)
  BY DEF ConvertType, Through
<1>13. \A r \in ConvertBuiltin : PlainRule(r)
  BY DEF ConvertBuiltin, Dropped
<1> HIDE DEF PlainRule
<1> QED BY <1>1, <1>2, <1>3, <1>4, <1>5, <1>6, <1>7, <1>8, <1>9, <1>10, <1>11, <1>12, <1>13

\* The same for the slots of expressions, which are all kept, in elements of the same names.
ExprRule(r) ==
  /\ r[1] \notin PlainKinds \union {"none", "same", "Interface", "Choice", "TyCon"}
  /\ IF Pair(r) = <<"InternedExpr", "entry">> THEN r[3] = "same" ELSE r[3] = r[1] /\ Into(r) \in Accept

LEMMA ExprElementParts ==
  /\ AcceptExpr \subseteq ElementSlots /\ AcceptRecCon \subseteq ElementSlots
  /\ AcceptFieldWithExpr \subseteq ElementSlots /\ AcceptRecProj \subseteq ElementSlots
  /\ AcceptRecUpd \subseteq ElementSlots /\ AcceptVariantCon \subseteq ElementSlots
  /\ AcceptEnumCon \subseteq ElementSlots /\ AcceptStructCon \subseteq ElementSlots
  /\ AcceptStructProj \subseteq ElementSlots /\ AcceptStructUpd \subseteq ElementSlots
  /\ AcceptApp \subseteq ElementSlots /\ AcceptTyApp \subseteq ElementSlots
  /\ AcceptAbs \subseteq ElementSlots /\ AcceptTyAbs \subseteq ElementSlots
  /\ AcceptBlock \subseteq ElementSlots /\ AcceptCons \subseteq ElementSlots
  /\ AcceptCase \subseteq ElementSlots /\ AcceptAlt \subseteq ElementSlots
  /\ AcceptOptionalSome \subseteq ElementSlots /\ AcceptAny \subseteq ElementSlots
  /\ AcceptAnyException \subseteq ElementSlots /\ AcceptThrow \subseteq ElementSlots
  /\ AcceptUpdate \subseteq ElementSlots /\ AcceptPure \subseteq ElementSlots
  /\ AcceptCreate \subseteq ElementSlots /\ AcceptExercise \subseteq ElementSlots
  /\ AcceptExerciseByKey \subseteq ElementSlots /\ AcceptFetch \subseteq ElementSlots
  /\ AcceptRetrieveByKey \subseteq ElementSlots /\ AcceptEmbedExpr \subseteq ElementSlots
  /\ AcceptTryCatch \subseteq ElementSlots /\ AcceptQueryNByKey \subseteq ElementSlots
  /\ AcceptCreateInterface \subseteq ElementSlots /\ AcceptExerciseInterface \subseteq ElementSlots
  /\ AcceptFetchInterface \subseteq ElementSlots /\ AcceptInterfaceOp \subseteq ElementSlots
<1>1. /\ AcceptExpr \union AcceptRecCon \union AcceptFieldWithExpr \union AcceptRecProj \subseteq ElementSlots
      /\ AcceptRecUpd \union AcceptVariantCon \union AcceptEnumCon \union AcceptStructCon \subseteq ElementSlots
      /\ AcceptStructProj \union AcceptStructUpd \union AcceptApp \union AcceptTyApp \subseteq ElementSlots
  BY DEF ElementSlots
<1>2. /\ AcceptAbs \union AcceptTyAbs \union AcceptBlock \union AcceptCons \subseteq ElementSlots
      /\ AcceptCase \union AcceptAlt \union AcceptOptionalSome \union AcceptAny \subseteq ElementSlots
      /\ AcceptAnyException \union AcceptThrow \union AcceptUpdate \union AcceptPure \subseteq ElementSlots
  BY DEF ElementSlots
<1>3. /\ AcceptCreate \union AcceptExercise \union AcceptExerciseByKey \union AcceptFetch \subseteq ElementSlots
      /\ AcceptRetrieveByKey \union AcceptEmbedExpr \union AcceptTryCatch \subseteq ElementSlots
      /\ AcceptQueryNByKey \union AcceptCreateInterface \union AcceptExerciseInterface \subseteq ElementSlots
      /\ AcceptFetchInterface \union AcceptInterfaceOp \subseteq ElementSlots
  BY DEF ElementSlots
<1> QED BY <1>1, <1>2, <1>3

LEMMA OpParts ==
  /\ \A k \in OfInterface, s \in {"interface", "expr"} : <<k, s>> \in InterfaceOpSlots
  /\ \A k \in {"ToInterface", "FromInterface", "UnsafeFromInterface"},
       s \in {"interface_type", "template_type"} :
       <<k, s>> \in InterfaceOpSlots
  /\ \A k \in {"ToRequiredInterface", "FromRequiredInterface", "UnsafeFromRequiredInterface"},
        s \in {"required_interface", "requiring_interface"} : <<k, s>> \in InterfaceOpSlots
  /\ \A k \in {"ChoiceController", "ChoiceObserver"}, s \in {"template", "contract_expr", "choice_arg_expr"} :
       <<k, s>> \in InterfaceOpSlots
  /\ \A p \in { <<"ToInterface", "template_expr">>, <<"FromInterface", "interface_expr">>,
                 <<"CallInterface", "interface_type">>, <<"CallInterface", "interface_expr">>,
                 <<"UnsafeFromInterface", "contract_id_expr">>, <<"UnsafeFromInterface", "interface_expr">>,
                 <<"ToRequiredInterface", "expr">>, <<"FromRequiredInterface", "expr">>,
                 <<"UnsafeFromRequiredInterface", "contract_id_expr">>,
                 <<"UnsafeFromRequiredInterface", "interface_expr">> } : p \in InterfaceOpSlots
<1>1. \A k, s, t : One(k, s, t) \in InterfaceOps => <<k, s>> \in InterfaceOpSlots
  BY DEF InterfaceOpSlots, One
<1>2. \A k \in OfInterface : One(k, "interface", "TypeConId") \in InterfaceOps
        /\ One(k, "expr", "Expr") \in InterfaceOps
  BY DEF InterfaceOps
<1>3. \A k \in {"ToInterface", "FromInterface", "UnsafeFromInterface"},
        s \in {"interface_type", "template_type"} :
        One(k, s, "TypeConId") \in InterfaceOps
  BY DEF InterfaceOps
<1>4. \A k \in {"ToRequiredInterface", "FromRequiredInterface", "UnsafeFromRequiredInterface"},
         s \in {"required_interface", "requiring_interface"} : One(k, s, "TypeConId") \in InterfaceOps
  BY DEF InterfaceOps
<1>5. \A k \in {"ChoiceController", "ChoiceObserver"} :
        /\ One(k, "template", "TypeConId") \in InterfaceOps
        /\ One(k, "contract_expr", "Expr") \in InterfaceOps
        /\ One(k, "choice_arg_expr", "Expr") \in InterfaceOps
  BY DEF InterfaceOps
<1>6. /\ One("ToInterface", "template_expr", "Expr") \in InterfaceOps
      /\ One("FromInterface", "interface_expr", "Expr") \in InterfaceOps
      /\ One("CallInterface", "interface_type", "TypeConId") \in InterfaceOps
      /\ One("CallInterface", "interface_expr", "Expr") \in InterfaceOps
      /\ One("UnsafeFromInterface", "contract_id_expr", "Expr") \in InterfaceOps
      /\ One("UnsafeFromInterface", "interface_expr", "Expr") \in InterfaceOps
      /\ One("ToRequiredInterface", "expr", "Expr") \in InterfaceOps
      /\ One("FromRequiredInterface", "expr", "Expr") \in InterfaceOps
      /\ One("UnsafeFromRequiredInterface", "contract_id_expr", "Expr") \in InterfaceOps
      /\ One("UnsafeFromRequiredInterface", "interface_expr", "Expr") \in InterfaceOps
  BY DEF InterfaceOps
<1> QED BY <1>1, <1>2, <1>3, <1>4, <1>5, <1>6

LEMMA OpRules ==
  \A r \in ConvertInterfaceOp : r[3] = r[1] /\ r[4] = r[2] /\ r[1] \in OpKinds /\ Pair(r) \in InterfaceOpSlots
<1> SUFFICES ASSUME NEW r \in ConvertInterfaceOp
             PROVE  r[3] = r[1] /\ r[4] = r[2] /\ r[1] \in OpKinds /\ Pair(r) \in InterfaceOpSlots
  OBVIOUS
<1>1. \/ \E k \in OfInterface : r \in Same(k, {"interface", "expr"})
      \/ \E k \in {"ChoiceController", "ChoiceObserver"} :
           r \in Same(k, {"template", "contract_expr", "choice_arg_expr"})
      \/ r \in Same("ToInterface", {"interface_type", "template_type", "template_expr"})
      \/ r \in Same("FromInterface", {"interface_type", "template_type", "interface_expr"})
      \/ r \in Same("CallInterface", {"interface_type", "interface_expr"})
      \/ r \in Same("UnsafeFromInterface",
           {"interface_type", "template_type", "contract_id_expr", "interface_expr"})
      \/ r \in Same("ToRequiredInterface", {"required_interface", "requiring_interface", "expr"})
      \/ r \in Same("FromRequiredInterface", {"required_interface", "requiring_interface", "expr"})
      \/ r \in Same("UnsafeFromRequiredInterface",
           {"required_interface", "requiring_interface", "contract_id_expr", "interface_expr"})
  BY DEF ConvertInterfaceOp
<1>2. /\ r[3] = r[1] /\ r[4] = r[2] /\ r[1] \in OpKinds
  BY <1>1 DEF Same, OpKinds
<1>3. <<r[1], r[2]>> \in InterfaceOpSlots
  <2>1. CASE \E k \in OfInterface : r \in Same(k, {"interface", "expr"})
    <3>1. PICK k \in OfInterface : r \in Same(k, {"interface", "expr"})
      BY <2>1
    <3>2. r[1] = k /\ r[2] \in {"interface", "expr"}
      BY <3>1 DEF Same
    <3> QED BY <3>2, OpParts
  <2>2. CASE \E k \in {"ChoiceController", "ChoiceObserver"} :
               r \in Same(k, {"template", "contract_expr", "choice_arg_expr"})
    BY <2>2, OpParts DEF Same
  <2>3. CASE r \in Same("ToInterface", {"interface_type", "template_type", "template_expr"})
    BY <2>3, OpParts DEF Same
  <2>7. CASE r \in Same("FromInterface", {"interface_type", "template_type", "interface_expr"})
    BY <2>7, OpParts DEF Same
  <2>8. CASE r \in Same("CallInterface", {"interface_type", "interface_expr"})
    BY <2>8, OpParts DEF Same
  <2>4. CASE r \in Same("UnsafeFromInterface",
               {"interface_type", "template_type", "contract_id_expr", "interface_expr"})
    BY <2>4, OpParts DEF Same
  <2>5. CASE r \in Same("ToRequiredInterface", {"required_interface", "requiring_interface", "expr"})
    BY <2>5, OpParts DEF Same
  <2>9. CASE r \in Same("FromRequiredInterface", {"required_interface", "requiring_interface", "expr"})
    BY <2>9, OpParts DEF Same
  <2>6. CASE r \in Same("UnsafeFromRequiredInterface",
                      {"required_interface", "requiring_interface", "contract_id_expr", "interface_expr"})
    BY <2>6, OpParts DEF Same
  <2> QED BY <1>1, <2>1, <2>2, <2>3, <2>4, <2>5, <2>6, <2>7, <2>8, <2>9
<1> QED BY <1>2, <1>3 DEF Pair

LEMMA OpsHaveRules ==
  \A e \in InterfaceOps : <<e[1], e[2], e[1], e[2]>> \in ConvertInterfaceOp
<1>1. \A k \in OfInterface : Same(k, {"interface", "expr"}) \subseteq ConvertInterfaceOp
  BY DEF ConvertInterfaceOp
<1>2. \A k \in {"ChoiceController", "ChoiceObserver"} :
        Same(k, {"template", "contract_expr", "choice_arg_expr"}) \subseteq ConvertInterfaceOp
  BY DEF ConvertInterfaceOp
<1>3. /\ Same("ToInterface",
           {"interface_type", "template_type", "template_expr"}) \subseteq ConvertInterfaceOp
      /\ Same("FromInterface",
           {"interface_type", "template_type", "interface_expr"}) \subseteq ConvertInterfaceOp
      /\ Same("CallInterface", {"interface_type", "interface_expr"}) \subseteq ConvertInterfaceOp
      /\ Same("UnsafeFromInterface", {"interface_type", "template_type", "contract_id_expr", "interface_expr"})
          \subseteq ConvertInterfaceOp
      /\ Same("ToRequiredInterface",
           {"required_interface", "requiring_interface", "expr"}) \subseteq ConvertInterfaceOp
      /\ Same("FromRequiredInterface",
           {"required_interface", "requiring_interface", "expr"}) \subseteq ConvertInterfaceOp
      /\ Same("UnsafeFromRequiredInterface",
           {"required_interface", "requiring_interface", "contract_id_expr", "interface_expr"})
          \subseteq ConvertInterfaceOp
  BY DEF ConvertInterfaceOp
<1> QED BY <1>1, <1>2, <1>3 DEF InterfaceOps, Same, One

LEMMA ExprRulesAreRight ==
  \A r \in ConvertConstruction \union ConvertFieldExpr \union ConvertValueId \union ConvertApplication
    \union ConvertVarWithType \union ConvertBlock \union ConvertCaseAlt \union ConvertTyped
    \union ConvertInterfaceOp \union ConvertUpdate :
    ExprRule(r)
<1> USE DEF ExprRule, Rule, Pair, Into, PlainKinds, DefinitionKinds, TypeAndKindKinds, WithArguments,
            Scalars, Names
<1> USE ExprElementParts
<1> USE DEF Slots, OfType, TypedExpr, OfInterface, Accept, Structs, ExprArms, AltArms, UpdateArms
<1> USE DEF AcceptExpr, AcceptRecCon, AcceptFieldWithExpr, AcceptRecProj, AcceptRecUpd, AcceptVariantCon,
            AcceptEnumCon, AcceptStructCon, AcceptStructProj, AcceptStructUpd, AcceptApp, AcceptTyApp,
            AcceptAbs, AcceptTyAbs, AcceptBlock, AcceptCons, AcceptCase, AcceptAlt, AcceptOptionalSome,
            AcceptAny, AcceptAnyException, AcceptThrow, AcceptUpdate, AcceptPure, AcceptCreate,
            AcceptExercise, AcceptExerciseByKey, AcceptFetch, AcceptRetrieveByKey, AcceptEmbedExpr,
            AcceptTryCatch, AcceptQueryNByKey, AcceptCreateInterface, AcceptExerciseInterface,
            AcceptFetchInterface, AcceptInterfaceOp
<1>1. \A r \in ConvertConstruction : ExprRule(r)
  BY DEF ConvertConstruction, Same
<1>2. \A r \in ConvertFieldExpr : ExprRule(r)
  BY DEF ConvertFieldExpr, Same
<1>3. \A r \in ConvertValueId : ExprRule(r)
  BY DEF ConvertValueId
<1>4. \A r \in ConvertApplication : ExprRule(r)
  BY DEF ConvertApplication, Same
<1>5. \A r \in ConvertVarWithType : ExprRule(r)
  BY DEF ConvertVarWithType
<1>6. \A r \in ConvertBlock : ExprRule(r)
  BY DEF ConvertBlock, Same
<1>7. \A r \in ConvertCaseAlt : ExprRule(r)
  BY DEF ConvertCaseAlt, Same
<1>8. \A r \in ConvertTyped : ExprRule(r)
  BY DEF ConvertTyped, Same, Through
<1>9. \A r \in ConvertInterfaceOp : ExprRule(r)
  BY OpRules DEF OpKinds, InterfaceOpSlots
<1>10. \A r \in ConvertUpdate : ExprRule(r)
  BY DEF ConvertUpdate, Same
<1> HIDE DEF ExprRule
<1> QED BY <1>1, <1>2, <1>3, <1>4, <1>5, <1>6, <1>7, <1>8, <1>9, <1>10

LEMMA ImplementedIsNotWalked ==
  Implemented \notin ElementSlots
<1> USE DEF Slots, Implemented
<1>1. \A e \in AcceptPackage \union AcceptModule \union AcceptDefTypeSyn \union AcceptDefValue
              \union AcceptException \union AcceptField \union AcceptTypeVar \union AcceptInterface
              \union AcceptTemplate \union AcceptChoice \union AcceptDefKey \union AcceptRecord
              \union AcceptVariant \union AcceptEnum \union AcceptType \union AcceptSyn
              \union AcceptStruct \union AcceptForall \union AcceptTyCon \union AcceptVar :
          e # Implemented
  BY DEF AcceptPackage, AcceptModule, AcceptDefTypeSyn, AcceptDefValue, AcceptException, AcceptField,
         AcceptTypeVar, AcceptInterface, AcceptTemplate, AcceptChoice, AcceptDefKey, AcceptRecord,
         AcceptVariant, AcceptEnum, AcceptType, AcceptSyn, AcceptStruct, AcceptForall, AcceptTyCon,
         AcceptVar
<1>2. \A e \in AcceptRecCon \union AcceptFieldWithExpr \union AcceptRecProj \union AcceptRecUpd
              \union AcceptVariantCon \union AcceptEnumCon \union AcceptStructCon
              \union AcceptStructProj \union AcceptStructUpd \union AcceptApp \union AcceptTyApp
              \union AcceptAbs \union AcceptTyAbs \union AcceptBlock \union AcceptCons \union AcceptCase
              \union AcceptAlt \union AcceptOptionalSome : e # Implemented
  BY DEF AcceptRecCon, AcceptFieldWithExpr, AcceptRecProj, AcceptRecUpd, AcceptVariantCon,
         AcceptEnumCon, AcceptStructCon, AcceptStructProj, AcceptStructUpd, AcceptApp, AcceptTyApp,
         AcceptAbs, AcceptTyAbs, AcceptBlock, AcceptCons, AcceptCase, AcceptAlt, AcceptOptionalSome
<1>3. \A e \in AcceptAny \union AcceptAnyException \union AcceptThrow \union AcceptUpdate
              \union AcceptPure \union AcceptCreate \union AcceptExercise \union AcceptExerciseByKey
              \union AcceptFetch \union AcceptRetrieveByKey \union AcceptEmbedExpr \union AcceptTryCatch
              \union AcceptQueryNByKey \union AcceptCreateInterface \union AcceptExerciseInterface
              \union AcceptFetchInterface \union AcceptExpr : e # Implemented
  BY DEF AcceptExpr, OfType, AcceptAny, AcceptAnyException, AcceptThrow, AcceptUpdate, AcceptPure,
         AcceptCreate, AcceptExercise, AcceptExerciseByKey, AcceptFetch, AcceptRetrieveByKey,
         AcceptEmbedExpr, AcceptTryCatch, AcceptQueryNByKey, AcceptCreateInterface,
         AcceptExerciseInterface, AcceptFetchInterface
<1>4. Implemented \notin AcceptInterfaceOp
  BY OpSlots DEF AcceptInterfaceOp, InterfaceOpSlots, OpKinds, OfInterface
<1> QED BY <1>1, <1>2, <1>3, <1>4 DEF ElementSlots

----------------------------------------------------------------------------
(***************************************************************************)
(* Which slots have a rule.                                                *)
(***************************************************************************)
HasRule(k, s) == \E r \in Conversion : r[1] = k /\ r[2] = s

LEMMA ConversionParts ==
  Conversion =
    (ConvertModule \union ConvertSynonym \union ConvertDataType \union ConvertTemplate
     \union ConvertChoice \union ConvertKeyAndImplements \union ConvertInterface \union ConvertException
     \union ConvertValue \union ConvertField \union ConvertKind \union ConvertType
     \union ConvertBuiltin)
    \union
    (ConvertConstruction \union ConvertFieldExpr \union ConvertValueId \union ConvertApplication
     \union ConvertVarWithType \union ConvertBlock \union ConvertCaseAlt \union ConvertTyped
     \union ConvertInterfaceOp \union ConvertUpdate)
BY DEF Conversion

LEMMA RulesAreRight ==
  \A r \in Conversion : PlainRule(r) \/ ExprRule(r)
BY ConversionParts, PlainRulesAreRight, ExprRulesAreRight

LEMMA SameRules ==
  \A k, S : Same(k, S) \subseteq Conversion => \A s \in S : HasRule(k, s)
<1> SUFFICES ASSUME NEW k, NEW S, Same(k, S) \subseteq Conversion, NEW s \in S
             PROVE  HasRule(k, s)
  OBVIOUS
<1>1. <<k, s, k, s>> \in Conversion
  BY DEF Same
<1> QED BY <1>1 DEF HasRule

LEMMA RuleRules ==
  \A k, s, e, t : Rule(k, s, e, t) \in Conversion \/ <<k, s, e, t>> \in Conversion => HasRule(k, s)
BY DEF Rule, HasRule

LEMMA ExprSlotsHaveRules ==
  \A e \in ExprSlots : HasRule(e[1], e[2])
<1>1. /\ \A s \in {"tycon", "fields"} : HasRule("RecCon", s)
      /\ \A s \in {"tycon", "record"} : HasRule("RecProj", s)
      /\ \A s \in {"tycon", "record", "update"} : HasRule("RecUpd", s)
      /\ \A s \in {"tycon", "variant_arg"} : HasRule("VariantCon", s)
      /\ HasRule("EnumCon", "tycon")
      /\ HasRule("StructCon", "fields")
      /\ HasRule("StructProj", "struct")
      /\ HasRule("StructUpd", "struct")
      /\ HasRule("StructUpd", "update")
  <2>1. /\ Same("RecCon", {"tycon", "fields"}) \subseteq Conversion
        /\ Same("RecProj", {"tycon", "record"}) \subseteq Conversion
        /\ Same("RecUpd", {"tycon", "record", "update"}) \subseteq Conversion
        /\ Same("VariantCon", {"tycon", "variant_arg"}) \subseteq Conversion
        /\ Same("EnumCon", {"tycon"}) \subseteq Conversion
        /\ Same("StructCon", {"fields"}) \subseteq Conversion
    BY ConversionParts DEF ConvertConstruction
  <2>2. /\ Rule("StructProj", "struct", "StructProj", "struct_expr") \in Conversion
        /\ Rule("StructUpd", "struct", "StructUpd", "struct_expr") \in Conversion
        /\ Rule("StructUpd", "update", "StructUpd", "update") \in Conversion
    BY ConversionParts DEF ConvertConstruction
  <2> QED BY <2>1, <2>2, SameRules, RuleRules
<1>2. /\ HasRule("FieldWithExpr", "expr")
  BY SameRules, RuleRules, ConversionParts DEF ConvertFieldExpr
<1>3. /\ HasRule("Val", "name")
  BY SameRules, RuleRules, ConversionParts DEF ConvertValueId
<1>4. /\ \A s \in {"fun", "args"} : HasRule("App", s)
      /\ \A s \in {"expr", "types"} : HasRule("TyApp", s)
      /\ HasRule("Abs", "param")
      /\ HasRule("Abs", "body")
      /\ HasRule("TyAbs", "param")
      /\ HasRule("TyAbs", "body")
      /\ \A s \in {"scrut", "alts"} : HasRule("Case", s)
      /\ HasRule("Let", "block")
  <2>1. /\ Same("App", {"fun", "args"}) \subseteq Conversion
        /\ Same("TyApp", {"expr", "types"}) \subseteq Conversion
        /\ Same("Case", {"scrut", "alts"}) \subseteq Conversion
        /\ Same("Let", {"block"}) \subseteq Conversion
    BY ConversionParts DEF ConvertApplication
  <2>2. /\ Rule("Abs", "param", "Abs", "params") \in Conversion
        /\ Rule("Abs", "body", "Abs", "body") \in Conversion
        /\ Rule("TyAbs", "param", "TyAbs", "params") \in Conversion
        /\ Rule("TyAbs", "body", "TyAbs", "body") \in Conversion
    BY ConversionParts DEF ConvertApplication
  <2> QED BY <2>1, <2>2, SameRules, RuleRules
<1>5. /\ HasRule("VarWithType", "type")
  BY SameRules, RuleRules, ConversionParts DEF ConvertVarWithType
<1>6. /\ \A s \in {"bindings", "body"} : HasRule("Block", s)
      /\ \A s \in {"binder", "bound"} : HasRule("Binding", s)
  BY SameRules, RuleRules, ConversionParts DEF ConvertBlock
<1>7. /\ \A s \in {"body", "sum"} : HasRule("CaseAlt", s)
      /\ HasRule("AltVariant", "con")
      /\ HasRule("AltEnum", "con")
  BY SameRules, RuleRules, ConversionParts DEF ConvertCaseAlt
<1>8. /\ \A s \in {"front", "tail"} : HasRule("Cons", s)
      /\ \A s \in {"return_type", "exception_type", "exception_expr"} : HasRule("Throw", s)
      /\ HasRule("UpdateExpr", "update")
      /\ HasRule("OptionalSome", "value")
      /\ HasRule("InternedExpr", "entry")
      /\ HasRule("OptionalSome", "type")
      /\ HasRule("Cons", "type")
  <2>1. /\ Same("Cons", {"front", "tail"}) \subseteq Conversion
        /\ Same("Throw", {"return_type", "exception_type", "exception_expr"}) \subseteq Conversion
        /\ Same("UpdateExpr", {"update"}) \subseteq Conversion
    BY ConversionParts DEF ConvertTyped
  <2>2. /\ Rule("OptionalSome", "value", "OptionalSome", "body") \in Conversion
        /\ Through("InternedExpr", "entry") \in Conversion
        /\ \A k \in {"OptionalSome", "Cons"} : Rule(k, "type", k, "ty") \in Conversion
    BY ConversionParts DEF ConvertTyped
  <2> QED BY <2>1, <2>2, SameRules, RuleRules DEF Through
<1>9. /\ HasRule("UpdateBlock", "block")
      /\ \A s \in {"template", "expr"} : HasRule("Create", s)
      /\ \A s \in {"interface", "expr"} : HasRule("CreateInterface", s)
      /\ \A s \in {"template", "cid", "arg"} : HasRule("Exercise", s)
      /\ \A s \in {"interface", "cid", "arg", "guard"} : HasRule("ExerciseInterface", s)
      /\ \A s \in {"template", "key", "arg"} : HasRule("ExerciseByKey", s)
      /\ \A s \in {"template", "cid"} : HasRule("Fetch", s)
      /\ \A s \in {"interface", "cid"} : HasRule("FetchInterface", s)
      /\ HasRule("LookupByKey", "template")
      /\ HasRule("FetchByKey", "template")
      /\ HasRule("QueryNByKey", "template")
      /\ \A s \in {"return_type", "try_expr", "catch_expr"} : HasRule("TryCatch", s)
      /\ HasRule("LedgerTimeLt", "expr")
      /\ HasRule("Pure", "type")
      /\ HasRule("Pure", "expr")
      /\ HasRule("EmbedExpr", "type")
      /\ HasRule("EmbedExpr", "body")
  <2>1. /\ Same("UpdateBlock", {"block"}) \subseteq Conversion
        /\ Same("Create", {"template", "expr"}) \subseteq Conversion
        /\ Same("CreateInterface", {"interface", "expr"}) \subseteq Conversion
        /\ Same("Exercise", {"template", "cid", "arg"}) \subseteq Conversion
        /\ Same("ExerciseInterface", {"interface", "cid", "arg", "guard"}) \subseteq Conversion
        /\ Same("ExerciseByKey", {"template", "key", "arg"}) \subseteq Conversion
        /\ Same("Fetch", {"template", "cid"}) \subseteq Conversion
        /\ Same("FetchInterface", {"interface", "cid"}) \subseteq Conversion
        /\ Same("TryCatch", {"return_type", "try_expr", "catch_expr"}) \subseteq Conversion
        /\ Same("LedgerTimeLt", {"expr"}) \subseteq Conversion
    BY ConversionParts DEF ConvertUpdate
  <2>2. \A k \in {"LookupByKey", "FetchByKey", "QueryNByKey"} : Same(k, {"template"}) \subseteq Conversion
    BY ConversionParts DEF ConvertUpdate
  <2>3. /\ Rule("Pure", "type", "Pure", "ty") \in Conversion
        /\ Rule("Pure", "expr", "Pure", "expr") \in Conversion
        /\ Rule("EmbedExpr", "type", "EmbedExpr", "ty") \in Conversion
        /\ Rule("EmbedExpr", "body", "EmbedExpr", "body") \in Conversion
    BY ConversionParts DEF ConvertUpdate
  <2> QED BY <2>1, <2>2, <2>3, SameRules, RuleRules
<1>10. \A k \in OfType \union TypedExpr : HasRule(k, "type")
  <2>1. \A k \in OfType \union TypedExpr : Rule(k, "type", k, "ty") \in Conversion
    BY ConversionParts DEF ConvertTyped
  <2> QED BY <2>1, RuleRules
<1>11. \A k \in TypedExpr : HasRule(k, "expr")
  <2>1. \A k \in TypedExpr : Rule(k, "expr", k, "expr") \in Conversion
    BY ConversionParts DEF ConvertTyped
  <2> QED BY <2>1, RuleRules
<1>12. \A e \in Expressions : HasRule(e[1], e[2])
  BY <1>1, <1>2, <1>3, <1>4, <1>5, <1>6, <1>7, <1>8, <1>10, <1>11 DEF Expressions, One, Many, Is, OfType,
     TypedExpr
<1>13. \A e \in Updates : HasRule(e[1], e[2])
  BY <1>9 DEF Updates, One, Opt, Is
<1>14. \A e \in InterfaceOps : HasRule(e[1], e[2])
  BY OpsHaveRules, RuleRules, ConversionParts
<1> QED BY <1>12, <1>13, <1>14 DEF ExprSlots

LEMMA PlainSlotsHaveRules ==
  \A e \in Definitions \union Types : HasRule(e[1], e[2]) <=> Pair(e) \notin NotRead
<1>1. /\ HasRule("Package", "modules")
      /\ HasRule("Module", "synonyms")
      /\ HasRule("Module", "data_types")
      /\ HasRule("Module", "templates")
      /\ HasRule("Module", "interfaces")
      /\ HasRule("Module", "exceptions")
      /\ HasRule("Module", "values")
  <2>1. /\ Rule("Package", "modules", "Package", "modules") \in Conversion
        /\ Rule("Module", "synonyms", "Module", "synonyms") \in Conversion
        /\ Rule("Module", "data_types", "Module", "data_types") \in Conversion
        /\ Rule("Module", "templates", "Module", "data_types") \in Conversion
        /\ Rule("Module", "interfaces", "Module", "interfaces") \in Conversion
        /\ Rule("Module", "exceptions", "Module", "exceptions") \in Conversion
        /\ Rule("Module", "values", "Module", "values") \in Conversion
    BY ConversionParts DEF ConvertModule
  <2> QED BY <2>1, RuleRules
<1>2. /\ HasRule("DefTypeSyn", "params")
      /\ HasRule("DefTypeSyn", "type")
  BY SameRules, RuleRules, ConversionParts DEF ConvertSynonym
<1>3. /\ HasRule("Record", "params")
      /\ HasRule("Record", "fields")
      /\ HasRule("Variant", "params")
      /\ HasRule("Variant", "fields")
      /\ HasRule("Enum", "params")
      /\ HasRule("InterfaceMarker", "params")
      /\ HasRule("Template", "params")
      /\ HasRule("Template", "fields")
  <2>1. /\ Rule("Record", "params", "Record", "type_params") \in Conversion
        /\ Rule("Record", "fields", "Record", "fields") \in Conversion
        /\ Rule("Variant", "params", "Variant", "type_params") \in Conversion
        /\ Rule("Variant", "fields", "Variant", "fields") \in Conversion
        /\ Rule("Enum", "params", "Enum", "type_params") \in Conversion
        /\ Dropped("InterfaceMarker", "params") \in Conversion
        /\ Dropped("Template", "params") \in Conversion
        /\ Rule("Template", "fields", "Template", "fields") \in Conversion
    BY ConversionParts DEF ConvertDataType
  <2> QED BY <2>1, RuleRules DEF Dropped
<1>4. /\ \A s \in {"choices", "key", "implements", "precond", "signatories", "observers"} :
           HasRule("Template", s)
  BY SameRules, RuleRules, ConversionParts DEF ConvertTemplate
<1>5. /\ HasRule("TemplateChoice", "arg_binder")
      /\ HasRule("TemplateChoice", "ret_type")
      /\ HasRule("TemplateChoice", "update")
      /\ HasRule("TemplateChoice", "controllers")
      /\ HasRule("TemplateChoice", "observers")
      /\ HasRule("ArgBinder", "type")
  <2>1. /\ Rule("TemplateChoice", "arg_binder", "Choice", "fields") \in Conversion
        /\ Rule("TemplateChoice", "ret_type", "Choice", "return_type") \in Conversion
        /\ Rule("TemplateChoice", "update", "Choice", "update") \in Conversion
        /\ Rule("TemplateChoice", "controllers", "Choice", "controllers") \in Conversion
        /\ Rule("TemplateChoice", "observers", "Choice", "observers") \in Conversion
        /\ Rule("ArgBinder", "type", "Field", "ty") \in Conversion
    BY ConversionParts DEF ConvertChoice
  <2> QED BY <2>1, RuleRules
<1>6. /\ \A s \in {"maintainers", "key_expr"} : HasRule("DefKey", s)
      /\ HasRule("DefKey", "type")
      /\ HasRule("Implements", "interface")
  BY SameRules, RuleRules, ConversionParts DEF ConvertKeyAndImplements, Through
<1>7. /\ HasRule("DefInterface", "methods")
      /\ HasRule("DefInterface", "choices")
      /\ HasRule("DefInterface", "view")
      /\ HasRule("DefInterface", "requires")
      /\ HasRule("InterfaceMethod", "type")
  <2>1. \A t \in {"methods", "choices", "view", "requires"} :
          Rule("DefInterface", t, "Interface", t) \in Conversion
    BY ConversionParts DEF ConvertInterface
  <2>2. Rule("InterfaceMethod", "type", "InterfaceMethod", "ty") \in Conversion
    BY ConversionParts DEF ConvertInterface
  <2> QED BY <2>1, <2>2, RuleRules
<1>8. /\ HasRule("DefException", "message")
  BY SameRules, RuleRules, ConversionParts DEF ConvertException
<1>9. /\ HasRule("DefValue", "type")
      /\ HasRule("DefValue", "expr")
  BY SameRules, RuleRules, ConversionParts DEF ConvertValue
<1>10. /\ HasRule("FieldWithType", "type")
  BY SameRules, RuleRules, ConversionParts DEF ConvertField
<1>11. /\ HasRule("TypeVarWithKind", "kind")
       /\ HasRule("InternedKind", "entry")
       /\ \A s \in {"params", "result"} : HasRule("KindArrow", s)
  BY SameRules, RuleRules, ConversionParts DEF ConvertKind, Through
<1>12. /\ HasRule("Var", "args")
       /\ HasRule("Con", "tycon")
       /\ HasRule("Con", "args")
       /\ HasRule("Syn", "tysyn")
       /\ HasRule("Syn", "args")
       /\ HasRule("Forall", "vars")
       /\ HasRule("Forall", "body")
       /\ HasRule("Struct", "fields")
       /\ HasRule("InternedType", "entry")
  <2>1. /\ Rule("Var", "args", "Var", "type_arguments") \in Conversion
        /\ Rule("Con", "tycon", "TyCon", "tycon") \in Conversion
        /\ Rule("Con", "args", "TyCon", "type_arguments") \in Conversion
        /\ Rule("Syn", "tysyn", "Syn", "tysyn") \in Conversion
        /\ Rule("Syn", "args", "Syn", "args") \in Conversion
        /\ Rule("Forall", "vars", "Forall", "vars") \in Conversion
        /\ Rule("Forall", "body", "Forall", "body") \in Conversion
        /\ Rule("Struct", "fields", "Struct", "fields") \in Conversion
        /\ Through("InternedType", "entry") \in Conversion
    BY ConversionParts DEF ConvertType
  <2> QED BY <2>1, RuleRules DEF Through
<1>13. \A k \in WithArguments : HasRule(k, "args")
  <2>1. /\ \A b \in DOMAIN KeptArguments : Rule(b, "args", KeptArguments[b], "args") \in Conversion
        /\ \A b \in {"ARROW", "UPDATE"} : Dropped(b, "args") \in Conversion
    BY ConversionParts DEF ConvertBuiltin
  <2>2. WithArguments = DOMAIN KeptArguments \union {"ARROW", "UPDATE"}
    BY DEF KeptArguments, WithArguments
  <2> QED BY <2>1, <2>2, RuleRules DEF Dropped
<1>14. \A e \in Definitions \union Types : Pair(e) \notin NotRead => HasRule(e[1], e[2])
  BY <1>1, <1>2, <1>3, <1>4, <1>5, <1>6, <1>7, <1>8, <1>9, <1>10, <1>11, <1>12, <1>13
  DEF Definitions, Types, NotRead, Pair, One, Opt, Many, Is
<1>15. \A r \in Conversion : Pair(r) \notin NotRead
  BY RulesAreRight DEF PlainRule, ExprRule, Pair, NotRead, PlainKinds, DefinitionKinds
<1> QED BY <1>14, <1>15 DEF HasRule, Pair

----------------------------------------------------------------------------
(***************************************************************************)
(* What the rules come to, for whatever they are about.                    *)
(***************************************************************************)
LEMMA RuleFacts ==
  ASSUME NEW r \in Conversion
  PROVE  /\ Pair(r) \notin NotRead
         /\ r[3] = "none" <=> Pair(r) \in LetGoSlots
         /\ r[3] = "same" <=> Pair(r) \in ReferringSlots
         /\ r[3] \notin {"none", "same"} => Into(r) \in Accept \union {Implemented}
         /\ Into(r) = Implemented <=> Pair(r) = Implemented
         /\ Into(r) = <<"Interface", "view">> <=> Pair(r) = <<"DefInterface", "view">>
         /\ Into(r) = <<"Choice", "fields">> <=> Pair(r) = <<"TemplateChoice", "arg_binder">>
         /\ Pair(r) = <<"ArgBinder", "type">> => Into(r) = <<"Field", "ty">>
         /\ r[3] = "TyCon" <=> r[1] = "Con"
         /\ Into(r) = <<"TyCon", "tycon">> <=> Pair(r) = <<"Con", "tycon">>
         /\ r[1] \in PlainKinds => (Into(r) \in Validate <=> Pair(r) \in ValidatedSlots)
<1>1. CASE PlainRule(r)
  BY <1>1 DEF PlainRule
<1>2. CASE ExprRule(r)
  BY <1>2 DEF ExprRule, Pair, Into, NotRead, LetGoSlots, ReferringSlots, Implemented, PlainKinds,
              DefinitionKinds, TypeAndKindKinds, WithArguments
<1> QED BY <1>1, <1>2, RulesAreRight

LEMMA SlotFacts ==
  ASSUME NEW e \in Schema
  PROVE  /\ e[4] = "opt" <=> Pair(e) \in MayBeUnset
         /\ HasRule(e[1], e[2]) <=> Pair(e) \notin NotRead
         /\ e \in ExprSlots <=> e[1] \notin PlainKinds
         /\ e \in Definitions \union Types \/ e \in ExprSlots
<1>1. CASE e \in Definitions \union Types
  <2>1. e[1] \in DefinitionKinds \union TypeAndKindKinds
    BY <1>1, DefinitionSlots, TypeSlots
  <2>2. e \notin ExprSlots
    BY <2>1, ExpressionSlots, UpdateSlots, OpSlots DEF ExprSlots, PlainKinds
  <2>3. e[4] = "opt" <=> Pair(e) \in MayBeUnset
    BY <1>1, <2>1, DefinitionSlots, TypeSlots DEF MayBeUnset, Pair, DefinitionKinds, TypeAndKindKinds,
       WithArguments
  <2> QED BY <1>1, <2>1, <2>2, <2>3, PlainSlotsHaveRules DEF PlainKinds
<1>2. CASE e \in ExprSlots
  <2>1. e[1] \notin PlainKinds
    BY <1>2, ExpressionSlots, UpdateSlots, OpSlots DEF ExprSlots
  <2>2. e[4] = "opt" <=> Pair(e) \in MayBeUnset
    BY <1>2, <2>1, ExpressionSlots, OpSlots, UpdateSlots
    DEF ExprSlots, MayBeUnset, Pair, PlainKinds, DefinitionKinds, OpKinds, OfInterface
  <2>3. Pair(e) \notin NotRead
    BY <2>1 DEF Pair, NotRead, PlainKinds, DefinitionKinds
  <2> QED BY <1>2, <2>1, <2>2, <2>3, ExprSlotsHaveRules
<1> QED BY <1>1, <1>2 DEF Schema, ExprSlots

----------------------------------------------------------------------------
(***************************************************************************)
(* Which kinds a sort has, and so what can be below what.                  *)
(***************************************************************************)
TypesThere ==
  {"SCALAR", "Nat", "TApp", "Unset", "Var", "Con", "Syn", "Forall", "Struct", "InternedType"}
    \union WithArguments

KindsThere == {"Star", "KindNat", "KindArrow", "InternedKind", "Unset"}
DataThere == {"Record", "Variant", "Enum", "InterfaceMarker", "Unset"}

LEMMA KindsOfSorts ==
  /\ KindsOf("Type") = TypesThere
  /\ KindsOf("Kind") = KindsThere
  /\ KindsOf("DefDataType") = DataThere
  /\ \A s : s \notin {"Type", "Kind", "DefDataType", "Expr", "Update", "CaseAltSum"} => KindsOf(s) = {s}
  /\ \A s \in {"Expr", "Update", "CaseAltSum"} : \A k \in KindsOf(s) : k \in PlainKinds => k = "Unset"
<1>1. DOMAIN Alternatives = {"DefDataType", "Type", "Kind", "Expr", "Update", "CaseAltSum"}
  BY DEF Alternatives
<1>2. TypeKinds \union {"Unset"} = TypesThere
  <2>1. \A e \in Types : e[1] \in TypesThere \union {"KindArrow", "InternedKind"}
    BY DEF Types, TypesThere, One, Many, Is
  <2>2. /\ Many("Var", "args", "Type") \in Types /\ Many("Con", "args", "Type") \in Types
        /\ Many("Syn", "args", "Type") \in Types /\ One("Forall", "body", "Type") \in Types
        /\ Many("Struct", "fields", "FieldWithType") \in Types
        /\ Is("InternedType", "entry", "Type") \in Types
        /\ \A b \in WithArguments : Many(b, "args", "Type") \in Types
    BY DEF Types
  <2>3. \A k, s, t, c : <<k, s, t, c>> \in Types => k \in {e[1] : e \in Types}
    OBVIOUS
  <2>4. \A k \in {"Var", "Con", "Syn", "Forall", "Struct", "InternedType"} \union WithArguments :
          k \in {e[1] : e \in Types}
    BY <2>2, <2>3 DEF One, Many, Is
  <2>5. \A k \in {"KindArrow", "InternedKind"} : k \notin TypesThere
    BY DEF TypesThere, WithArguments
  <2> QED BY <2>1, <2>4, <2>5 DEF TypeKinds, TypesThere
<1>3. \A k \in ExprKinds : k \notin PlainKinds
  BY ExpressionSlots, OpSlots DEF ExprKinds, ScalarExprs, PlainKinds, DefinitionKinds, TypeAndKindKinds,
     WithArguments, Scalars, Names
<1>4. \A e \in Updates : e[1] \notin PlainKinds
  BY UpdateSlots
<1>5. \A k \in AltScalars \union {"AltVariant", "AltEnum", "GetTime"} : k \notin PlainKinds
  BY DEF AltScalars, PlainKinds, DefinitionKinds, TypeAndKindKinds, WithArguments, Scalars, Names
<1>6. /\ Alternatives["Type"] = TypesThere
      /\ Alternatives["Kind"] = KindsThere
      /\ Alternatives["DefDataType"] = DataThere
  BY <1>2 DEF Alternatives, KindsThere, DataThere
<1>7. /\ Alternatives["Expr"] = ExprKinds \union {"Unset"}
      /\ Alternatives["Update"] = {e[1] : e \in Updates} \union {"GetTime", "Unset"}
      /\ Alternatives["CaseAltSum"] = AltScalars \union {"AltVariant", "AltEnum", "Unset"}
  BY DEF Alternatives
<1>8. \A s \in {"Expr", "Update", "CaseAltSum"} : KindsOf(s) = Alternatives[s]
  BY <1>1 DEF KindsOf
<1>9. \A s \in {"Expr", "Update", "CaseAltSum"} : \A k \in KindsOf(s) : k \in PlainKinds => k = "Unset"
  BY <1>3, <1>4, <1>5, <1>7, <1>8
<1> QED BY <1>1, <1>6, <1>9 DEF KindsOf

LEMMA NamedKinds ==
  ASSUME NEW s, NEW k \in KindsOf(s), k \in PlainKinds \ (TypesThere \union KindsThere \union DataThere)
  PROVE  s = k
BY KindsOfSorts DEF TypesThere

\* Under which slots the messages of a sort are.
LEMMA SortFacts ==
  ASSUME NEW e \in Schema
  PROVE  /\ e[3] # "Package"
         /\ e[3] = "Module" <=> Pair(e) = <<"Package", "modules">>
         /\ e[3] = "DefTypeSyn" => Pair(e) = <<"Module", "synonyms">>
         /\ e[3] = "DefValue" => Pair(e) = <<"Module", "values">>
         /\ e[3] = "DefException" => Pair(e) = <<"Module", "exceptions">>
         /\ e[3] = "DefInterface" => Pair(e) = <<"Module", "interfaces">>
         /\ e[3] = "Template" => Pair(e) \in {<<"Module", "templates">>, <<"Module", "orphans">>}
         /\ e[3] = "InstanceBody" => Pair(e) = <<"Implements", "body">>
         /\ e[3] = "TemplateChoice" => Pair(e) \in {<<"Template", "choices">>, <<"DefInterface", "choices">>}
         /\ e[3] = "ArgBinder" => Pair(e) = <<"TemplateChoice", "arg_binder">>
         /\ e[3] = "Metadata" <=> Pair(e) = <<"Package", "metadata">>
         /\ e[1] = "Package" => Pair(e) \in {<<"Package", "metadata">>, <<"Package", "modules">>}
<1>1. CASE e \in Definitions
  BY <1>1 DEF Definitions, One, Opt, Many, Pair
<1>2. CASE e \in Types
  BY <1>2, TypeSlots DEF TypeAndKindKinds, WithArguments, Pair
<1>3. CASE e \in ExprSlots
  <2>1. e[3] \in SortsInExprs
    BY <1>3, ExpressionSlots, OpSlots, UpdateSlots DEF ExprSlots, SortsInExprs
  <2>2. e[1] # "Package"
    BY <1>3, SlotFacts DEF PlainKinds, DefinitionKinds
  <2> QED BY <2>1, <2>2 DEF SortsInExprs, Pair
<1> QED BY <1>1, <1>2, <1>3 DEF Schema, ExprSlots

\* What can come after a slot.
LEMMA NextSlot ==
  ASSUME NEW e \in Schema, NEW f \in Schema, f[1] \in KindsOf(e[3])
  PROVE  /\ f[1] \in DefinitionKinds \ DataThere => e[3] = f[1]
         /\ e[3] \in {"TypeVarWithKind", "Kind"} => f[3] = "Kind"
         /\ e[3] = "Type" => f[1] \in TypesThere
         /\ f \in ExprSlots => e[3] = "Expr" \/ e \in ExprSlots
<1>1. f[1] \in DefinitionKinds \ DataThere => e[3] = f[1]
  <2>1. \A k \in DefinitionKinds \ DataThere :
          k \in PlainKinds \ (TypesThere \union KindsThere \union DataThere)
    BY DEF PlainKinds, DefinitionKinds, TypesThere, KindsThere, DataThere, WithArguments
  <2> QED BY <2>1, NamedKinds
<1>2. ASSUME e[3] \in {"TypeVarWithKind", "Kind"}
      PROVE  f[3] = "Kind"
  <2>1. f[1] \in {"TypeVarWithKind"} \union KindsThere
    BY <1>2, KindsOfSorts
  <2>2. f \in Definitions \union Types
    BY <2>1, SlotFacts DEF PlainKinds, DefinitionKinds, TypeAndKindKinds, Scalars, KindsThere
  <2>3. f \in Definitions => f[3] = "Kind"
    BY <2>1 DEF Definitions, One, Opt, Many, KindsThere
  <2>4. f \in Types => f[3] = "Kind"
    BY <2>1 DEF Types, One, Is, Many, KindsThere, WithArguments
  <2> QED BY <2>2, <2>3, <2>4
<1>3. e[3] = "Type" => f[1] \in TypesThere
  BY KindsOfSorts
<1>4. ASSUME f \in ExprSlots, e \notin ExprSlots
      PROVE  e[3] = "Expr"
  <2>1. /\ e \in Definitions \union Types
        /\ f[1] \notin PlainKinds
    BY <1>4, SlotFacts
  <2>2. e[3] \in {"Metadata", "DefDataType", "Type", "Kind", "Expr", "TypeConId", "TypeSynId"}
          \union DefinitionKinds
    BY <2>1, DefinitionSlots, TypeSlots DEF DefinitionKinds
  <2>3. CASE e[3] \in {"DefDataType", "Type", "Kind"}
    BY <2>1, <2>3, KindsOfSorts
    DEF PlainKinds, DefinitionKinds, TypeAndKindKinds, Scalars, TypesThere, KindsThere, DataThere
  <2>4. CASE e[3] \in {"Metadata", "TypeConId", "TypeSynId"} \union DefinitionKinds
    <3>1. e[3] \in PlainKinds /\ e[3] \notin {"Type", "Kind", "DefDataType", "Expr", "Update", "CaseAltSum"}
      BY <2>4 DEF PlainKinds, DefinitionKinds, Scalars, Names
    <3> QED BY <2>1, <3>1, KindsOfSorts
  <2> QED BY <2>2, <2>3, <2>4
<1> QED BY <1>1, <1>2, <1>3, <1>4

\* Every slot is one that is walked, or one of those that are not for a reason.
LEMMA SlotClasses ==
  ASSUME NEW e \in Definitions \union Types
  PROVE  \/ Pair(e) \in ValidatedSlots \union ReferringSlots \union LetGoSlots \union NotRead
         \/ e[3] \in {"Expr", "TypeVarWithKind", "Kind"}
         \/ e[1] \in {"DefTypeSyn", "DefValue", "DefException"}
         \/ Pair(e) \in {<<"Module", "synonyms">>, <<"Module", "values">>, <<"Module", "exceptions">>,
              Implemented, <<"Syn", "tysyn">>}
<1>1. CASE e \in Definitions
  BY <1>1 DEF Definitions, One, Opt, Many, Pair, ValidatedSlots, ReferringSlots, LetGoSlots, NotRead,
     Implemented
<1>2. CASE e \in Types
  BY <1>2 DEF Types, WithArguments, KeptArguments, One, Many, Is, Pair, ValidatedSlots, ReferringSlots,
     LetGoSlots
<1> QED BY <1>1, <1>2

\* The expressions that definitions have are read with the feature `full' only, or not at all.
LEMMA ExpressionsOfDefinitions ==
  ASSUME NEW e \in Definitions, e[3] = "Expr"
  PROVE  /\ Pair(e) \in OnlyInFull \union NotRead \union {<<"DefValue", "expr">>}
         /\ Pair(e) \notin ValidatedSlots \union ReferringSlots
BY DEF Definitions, One, Opt, Many, Pair, OnlyInFull, NotRead, ValidatedSlots, ReferringSlots, KeptArguments

\* Below the type parameters of a definition there are only kinds.
LEMMA ParamsAreKinds ==
  ASSUME NEW e \in Schema, Pair(e) \in {<<"InterfaceMarker", "params">>, <<"Template", "params">>}
  PROVE  e[3] \in {"TypeVarWithKind", "Kind"}
<1>1. e \in Definitions
  BY SlotFacts, TypeSlots DEF Pair, PlainKinds, DefinitionKinds, TypeAndKindKinds, WithArguments
<1> QED BY <1>1 DEF Definitions, One, Opt, Many, Pair

\* A type that refers to the table of types, and what can be a type.
LEMMA TypeReferences ==
  ASSUME NEW e \in Schema, e[1] \in TypesThere
  PROVE  /\ Pair(e) \in ReferringSlots <=> e[1] = "InternedType"
         /\ e[1] = "InternedType" => e[3] = "Type"
         /\ ~(Pair(e) \in NotRead) /\ ~(Pair(e) \in OnlyInFull)
<1>1. e \in Types
  <2>1. e[1] \in PlainKinds /\ e[1] \notin DefinitionKinds
    BY DEF TypesThere, PlainKinds, DefinitionKinds, TypeAndKindKinds, Scalars, WithArguments
  <2> QED BY <2>1, SlotFacts, DefinitionSlots
<1>2. Pair(e) \notin NotRead /\ Pair(e) \notin OnlyInFull
  BY DEF TypesThere, Pair, NotRead, OnlyInFull, WithArguments
<1>3. Pair(e) \in ReferringSlots <=> e[1] = "InternedType"
  BY <1>1 DEF Types, One, Many, Is, Pair, ReferringSlots, TypesThere, WithArguments
<1>4. e[1] = "InternedType" => e[3] = "Type"
  BY <1>1 DEF Types, One, Many, Is, WithArguments
<1> QED BY <1>2, <1>3, <1>4

LEMMA FullSlots ==
  ASSUME NEW e \in Schema, Pair(e) \in OnlyInFull
  PROVE  Pair(e) = <<"Module", "values">> \/ e[3] = "Expr"
<1>1. e \in Definitions \union Types
  BY SlotFacts DEF Pair, OnlyInFull, PlainKinds, DefinitionKinds
<1>2. e \notin Types
  BY TypeSlots DEF Pair, OnlyInFull, TypeAndKindKinds, WithArguments
<1> QED BY <1>1, <1>2 DEF Definitions, One, Opt, Many, Pair, OnlyInFull

----------------------------------------------------------------------------
(***************************************************************************)
(* The inductive invariant.  A path is one that a compiler can write: each *)
(* slot belongs to a message that the slot above it can hold.  Below a     *)
(* kind there are only kinds, and expressions begin at a slot of a         *)
(* definition.                                                             *)
(***************************************************************************)
KindSorts == {"TypeVarWithKind", "Kind"}
SortAbove(p, i) == IF i = 1 THEN "Package" ELSE p[i - 1][3]

Linked(p) == \A i \in DOMAIN p : p[i][1] \in KindsOf(SortAbove(p, i))
KindsStay(p) == \A i \in DOMAIN p : p[i][3] \in KindSorts => SortAt(p) \in KindSorts

BeginsExpr(e) == e \in Definitions /\ e[3] = "Expr"
ExprsBegin(p) ==
  \A i \in DOMAIN p : p[i] \in ExprSlots \/ p[i][3] = "Expr" => \E j \in 1 .. i : BeginsExpr(p[j])

\* Below a type there is a type, however many entries of tables there are between them.
TypesFollow(p) ==
  \A i, j \in DOMAIN p :
    i < j /\ p[i][3] = "Type" /\ (\A n \in i + 1 .. j - 1 : Pair(p[n]) \in ReferringSlots)
      => p[j][1] \in TypesThere

PathIsWritten == Linked(path) /\ KindsStay(path) /\ ExprsBegin(path) /\ TypesFollow(path)

LeafIsWritten ==
  \/ phase = "compile" /\ leaf = Growing
  \/ /\ phase # "compile"
     /\ \/ path # <<>> /\ leaf = Absent
        \/ \E k \in KindsOf(SortAt(path)), f \in DOMAIN Flawed \union {"none"} :
             leaf = [kind |-> k, flaw |-> f]

(***************************************************************************)
(* The element is what the slots of the path have become, in their order,  *)
(* up to one that is let go or not read; those that only refer to a table  *)
(* have become nothing.                                                    *)
(***************************************************************************)
Becomes(e, s) == \E r \in Conversion : Pair(r) = Pair(e) /\ r[3] \notin {"none", "same"} /\ s = Into(r)

ReadIn(f, e) == Pair(e) \notin NotRead /\ (Pair(e) \in OnlyInFull => f)

From(f, p, s, m, pos) ==
  /\ m \in 0 .. Len(p) /\ pos \in [1 .. Len(s) -> 1 .. m]
  /\ \A k, l \in 1 .. Len(s) : k < l => pos[k] < pos[l]
  /\ \A k \in 1 .. Len(s) : Becomes(p[pos[k]], s[k])
  /\ \A j \in 1 .. m : /\ ReadIn(f, p[j]) /\ Pair(p[j]) \notin LetGoSlots
                       /\ Pair(p[j]) \in ReferringSlots \/ \E k \in 1 .. Len(s) : pos[k] = j

Finished == {"built", "visit", "visited", "validated"}

ConvertedTo(m) ==
  /\ \E pos \in [1 .. Len(element) -> 1 .. m] : From(full, path, element, m, pos)
  /\ phase = "convert" =>
       IF kept THEN m = at - 1 ELSE m + 1 \in 1 .. at - 1 /\ Pair(path[m + 1]) \in LetGoSlots
  /\ phase \in Finished =>
       IF kept THEN m = Len(path)
       ELSE m + 1 \in 1 .. Len(path) /\ (Pair(path[m + 1]) \in LetGoSlots \/ ~ReadIn(full, path[m + 1]))

ElementIsConverted == \E m \in 0 .. Len(path) : ConvertedTo(m)

Progress ==
  /\ phase \in {"compile", "payload"} => at = 1 /\ element = <<>> /\ kept
  /\ phase = "convert" =>
       Len(element) <= at - 1 /\ ~NoMetadata /\ ~NoFlags /\ \A i \in 1 .. at - 1 : IsRead(path[i])
  /\ phase = "visit" => at \in 1 .. Len(element) + 1 /\ \A i \in 1 .. at - 1 : element[i] \in Accept

ElementIsOK ==
  /\ element \in Seq(Accept \union {Implemented}) /\ Len(element) <= Len(path)
  /\ phase \in Finished \union {"convert"} => ElementIsConverted

ARInv ==
  /\ ARTypeOK /\ PathIsWritten /\ LeafIsWritten /\ Progress /\ ElementIsOK
  /\ RefusedExactlyForFlaws /\ SeenIsWritten /\ ValidateIsTruthful

----------------------------------------------------------------------------
(***************************************************************************)
(* Paths: what is above a slot, and where a definition can be.             *)
(***************************************************************************)
LEMMA Above ==
  ASSUME NEW p \in Seq(Schema), Linked(p), NEW i \in DOMAIN p
  PROVE  /\ p[i] \in Schema /\ i \in 1 .. Len(p)
         /\ i = 1 => p[i][1] = "Package"
         /\ i # 1 => /\ i - 1 \in DOMAIN p /\ p[i - 1] \in Schema /\ p[i][1] \in KindsOf(p[i - 1][3])
                     /\ p[i][1] \in DefinitionKinds \ DataThere => p[i - 1][3] = p[i][1]
<1>1. DOMAIN p = 1 .. Len(p) /\ Len(p) \in Nat /\ \A j \in DOMAIN p : p[j] \in Schema
  OBVIOUS
<1>2. ASSUME i = 1
      PROVE  p[i][1] = "Package"
  BY <1>2, KindsOfSorts DEF Linked, SortAbove
<1>3. ASSUME i # 1
      PROVE  i - 1 \in DOMAIN p /\ p[i - 1] \in Schema /\ p[i][1] \in KindsOf(p[i - 1][3])
  BY <1>1, <1>3 DEF Linked, SortAbove
<1> QED BY <1>1, <1>2, <1>3, NextSlot

LEMMA Places1 ==
  ASSUME NEW p \in Seq(Schema), Linked(p), NEW i \in DOMAIN p
  PROVE  /\ p[i][1] = "Package" => i = 1
         /\ p[i][1] = "Module" => i = 2 /\ Pair(p[1]) = <<"Package", "modules">>
<1>1. ASSUME NEW j \in DOMAIN p, p[j][1] = "Package"
      PROVE  j = 1
  BY <1>1, Above, SortFacts DEF DefinitionKinds, DataThere
<1>2. ASSUME p[i][1] = "Module"
      PROVE  i = 2 /\ Pair(p[1]) = <<"Package", "modules">>
  <2>1. i # 1
    BY <1>2, Above
  <2>2. i - 1 \in DOMAIN p /\ p[i - 1] \in Schema /\ p[i - 1][3] = "Module"
    BY <1>2, <2>1, Above DEF DefinitionKinds, DataThere
  <2>3. Pair(p[i - 1]) = <<"Package", "modules">>
    BY <2>2, SortFacts
  <2>4. i - 1 = 1
    BY <1>1, <2>2, <2>3 DEF Pair
  <2> QED BY <2>3, <2>4, Above
<1> QED BY <1>1, <1>2

\* The slots of definitions are the third of a path, those of choices the fourth, and so on.
LEMMA Places2 ==
  ASSUME NEW p \in Seq(Schema), Linked(p), NEW i \in DOMAIN p
  PROVE  /\ p[i][1] \in {"DefTypeSyn", "DefValue", "DefException", "DefInterface", "Template"} => i = 3
         /\ p[i][1] = "DefTypeSyn" => Pair(p[2]) = <<"Module", "synonyms">>
         /\ p[i][1] = "DefValue" => Pair(p[2]) = <<"Module", "values">>
         /\ p[i][1] = "DefException" => Pair(p[2]) = <<"Module", "exceptions">>
         /\ p[i][1] = "DefInterface" => Pair(p[2]) = <<"Module", "interfaces">>
         /\ p[i][1] = "Template" => Pair(p[2]) \in {<<"Module", "templates">>, <<"Module", "orphans">>}
         /\ p[i][1] = "InstanceBody" =>
              i # 1 /\ i - 1 \in DOMAIN p /\ Pair(p[i - 1]) = <<"Implements", "body">>
<1>1. ASSUME p[i][1] \in {"DefTypeSyn", "DefValue", "DefException", "DefInterface", "Template"}
      PROVE  i = 3 /\ p[2] \in Schema /\ p[2][3] = p[i][1]
  <2>1. i # 1
    BY <1>1, Above
  <2>2. i - 1 \in DOMAIN p /\ p[i - 1] \in Schema /\ p[i - 1][3] = p[i][1]
    BY <1>1, <2>1, Above DEF DefinitionKinds, DataThere
  <2>3. p[i - 1][1] = "Module"
    BY <1>1, <2>2, SortFacts DEF Pair
  <2>4. i - 1 = 2
    BY <2>2, <2>3, Places1
  <2> QED BY <2>2, <2>4, Above
<1>2. ASSUME p[i][1] = "InstanceBody"
      PROVE  i # 1 /\ i - 1 \in DOMAIN p /\ Pair(p[i - 1]) = <<"Implements", "body">>
  BY <1>2, Above, SortFacts DEF DefinitionKinds, DataThere
<1> QED BY <1>1, <1>2, SortFacts

LEMMA Places3 ==
  ASSUME NEW p \in Seq(Schema), Linked(p), NEW i \in DOMAIN p
  PROVE  /\ p[i][1] = "TemplateChoice" =>
              i = 4 /\ Pair(p[3]) \in {<<"Template", "choices">>, <<"DefInterface", "choices">>}
         /\ p[i][1] = "ArgBinder" =>
              i = 5 /\ 4 \in DOMAIN p /\ Pair(p[4]) = <<"TemplateChoice", "arg_binder">>
<1>1. ASSUME NEW j \in DOMAIN p, p[j][1] = "TemplateChoice"
      PROVE  j = 4 /\ Pair(p[3]) \in {<<"Template", "choices">>, <<"DefInterface", "choices">>}
  <2>1. j # 1
    BY <1>1, Above
  <2>2. j - 1 \in DOMAIN p /\ p[j - 1] \in Schema /\ p[j - 1][3] = "TemplateChoice"
    BY <1>1, <2>1, Above DEF DefinitionKinds, DataThere
  <2>3. Pair(p[j - 1]) \in {<<"Template", "choices">>, <<"DefInterface", "choices">>}
    BY <2>2, SortFacts
  <2>4. j - 1 = 3
    BY <2>2, <2>3, Places2 DEF Pair
  <2> QED BY <2>3, <2>4, Above
<1>2. ASSUME p[i][1] = "ArgBinder"
      PROVE  i = 5 /\ 4 \in DOMAIN p /\ Pair(p[4]) = <<"TemplateChoice", "arg_binder">>
  <2>1. i # 1
    BY <1>2, Above
  <2>2. i - 1 \in DOMAIN p /\ p[i - 1] \in Schema /\ p[i - 1][3] = "ArgBinder"
    BY <1>2, <2>1, Above DEF DefinitionKinds, DataThere
  <2>3. Pair(p[i - 1]) = <<"TemplateChoice", "arg_binder">>
    BY <2>2, SortFacts
  <2>4. i - 1 = 4
    BY <1>1, <2>2, <2>3 DEF Pair
  <2> QED BY <2>2, <2>3, <2>4, Above
<1> QED BY <1>1, <1>2

LEMMA PathGrows ==
  ASSUME NEW p \in Seq(Schema), Linked(p), KindsStay(p), ExprsBegin(p), TypesFollow(p),
         NEW e \in Schema, e[1] \in KindsOf(SortAt(p)), NEW q, q = Append(p, e)
  PROVE  q \in Seq(Schema) /\ Linked(q) /\ KindsStay(q) /\ ExprsBegin(q) /\ TypesFollow(q)
<1>1. /\ q \in Seq(Schema) /\ Len(q) = Len(p) + 1 /\ Len(p) \in Nat
      /\ DOMAIN q = 1 .. Len(p) + 1 /\ DOMAIN p = 1 .. Len(p)
      /\ \A i \in 1 .. Len(p) : q[i] = p[i] /\ p[i] \in Schema
      /\ q[Len(p) + 1] = e
  OBVIOUS
<1>2. SortAt(q) = e[3] /\ SortAbove(q, Len(p) + 1) = SortAt(p)
  <2>0. p = <<>> <=> Len(p) = 0
    OBVIOUS
  <2>1. q # <<>>
    BY AppendProperties
  <2>2. Len(p) # 0 => q[Len(p)] = p[Len(p)]
    <3>1. Len(p) # 0 => Len(p) \in 1 .. Len(p)
      BY <1>1
    <3> QED BY <1>1, <3>1
  <2>3. SortAt(q) = e[3]
    BY <1>1, <2>1 DEF SortAt
  <2>4. CASE Len(p) = 0
    <3>1. Len(p) + 1 = 1
      BY <2>4
    <3> QED BY <2>0, <2>3, <2>4, <3>1 DEF SortAt, SortAbove
  <2>5. CASE Len(p) # 0
    <3>1. Len(p) + 1 # 1 /\ (Len(p) + 1) - 1 = Len(p)
      BY <1>1, <2>5
    <3>2. SortAt(p) = p[Len(p)][3]
      BY <2>0, <2>5 DEF SortAt
    <3>3. SortAbove(q, Len(p) + 1) = q[Len(p)][3]
      BY <3>1 DEF SortAbove
    <3> QED BY <2>2, <2>3, <2>5, <3>2, <3>3
  <2> QED BY <2>3, <2>4, <2>5
<1>3. Linked(q)
  <2>1. ASSUME NEW i \in 1 .. Len(p)
        PROVE  q[i] = p[i] /\ SortAbove(q, i) = SortAbove(p, i)
    BY <1>1 DEF SortAbove
  <2>2. \A i \in 1 .. Len(p) : p[i][1] \in KindsOf(SortAbove(p, i))
    BY <1>1 DEF Linked
  <2> QED BY <1>1, <1>2, <2>1, <2>2 DEF Linked
<1>4. p # <<>> => /\ SortAt(p) = p[Len(p)][3] /\ Len(p) \in 1 .. Len(p)
  BY <1>1 DEF SortAt
<1>5. KindsStay(q)
  <2> SUFFICES ASSUME NEW i \in 1 .. Len(p), p[i][3] \in KindSorts
               PROVE  e[3] \in KindSorts
    BY <1>1, <1>2 DEF KindsStay
  <2>1. SortAt(p) \in KindSorts
    BY <1>1 DEF KindsStay
  <2> QED BY <1>1, <1>4, <2>1, NextSlot DEF KindSorts
<1>6. ExprsBegin(q)
  <2> SUFFICES ASSUME NEW i \in 1 .. Len(p) + 1, q[i] \in ExprSlots \/ q[i][3] = "Expr"
               PROVE  \E j \in 1 .. i : BeginsExpr(q[j])
    BY <1>1 DEF ExprsBegin
  <2>1. CASE i \in 1 .. Len(p)
    BY <1>1, <2>1 DEF ExprsBegin
  <2>2. CASE i = Len(p) + 1 /\ e \in ExprSlots
    <3>1. p # <<>>
      BY <2>2, SlotFacts, KindsOfSorts DEF SortAt, PlainKinds, DefinitionKinds
    <3>2. p[Len(p)][3] = "Expr" \/ p[Len(p)] \in ExprSlots
      BY <1>1, <1>4, <2>2, <3>1, NextSlot
    <3>3. PICK j \in 1 .. Len(p) : BeginsExpr(p[j])
      BY <1>1, <1>4, <3>1, <3>2 DEF ExprsBegin
    <3> QED BY <1>1, <2>2, <3>3
  <2>3. CASE i = Len(p) + 1 /\ e \notin ExprSlots
    <3>1. e \in Definitions /\ e[3] = "Expr"
      BY <1>1, <2>3, SlotFacts, TypeSlots
    <3> QED BY <1>1, <2>3, <3>1 DEF BeginsExpr
  <2> QED BY <2>1, <2>2, <2>3
<1>7. TypesFollow(q)
  <2> SUFFICES ASSUME NEW i \in 1 .. Len(p) + 1, NEW j \in 1 .. Len(p) + 1, i < j, q[i][3] = "Type",
                      \A n \in i + 1 .. j - 1 : Pair(q[n]) \in ReferringSlots
               PROVE  q[j][1] \in TypesThere
    BY <1>1 DEF TypesFollow
  <2>1. i \in 1 .. Len(p) /\ p[i] = q[i]
    BY <1>1
  <2>2. CASE j \in 1 .. Len(p)
    <3>1. \A n \in i + 1 .. j - 1 : n \in 1 .. Len(p)
      BY <1>1, <2>1, <2>2
    <3>2. \A n \in i + 1 .. j - 1 : Pair(p[n]) \in ReferringSlots
      BY <1>1, <3>1
    <3> QED BY <1>1, <2>1, <2>2, <3>2 DEF TypesFollow
  <2>3. CASE j = Len(p) + 1
    <3>1. SortAt(p) = p[Len(p)][3] /\ Len(p) \in 1 .. Len(p) /\ p[Len(p)] \in Schema
      BY <1>1, <1>4, <2>1
    <3>2. CASE i = Len(p)
      BY <1>1, <2>1, <2>3, <3>1, <3>2, NextSlot
    <3>3. CASE i < Len(p)
      <4>1. \A n \in i + 1 .. Len(p) : n \in i + 1 .. j - 1 /\ n \in 1 .. Len(p)
        BY <1>1, <2>1, <2>3
      <4>2. \A n \in i + 1 .. Len(p) : Pair(p[n]) \in ReferringSlots
        BY <1>1, <4>1
      <4>3. Len(p) \in i + 1 .. Len(p) /\ \A n \in i + 1 .. Len(p) - 1 : n \in i + 1 .. Len(p)
        BY <1>1, <2>1, <3>3
      <4>4. p[Len(p)][1] \in TypesThere
        BY <1>1, <2>1, <3>1, <3>3, <4>2, <4>3 DEF TypesFollow
      <4>5. p[Len(p)][3] = "Type"
        BY <3>1, <4>2, <4>3, <4>4, TypeReferences
      <4> QED BY <1>1, <2>3, <3>1, <4>5, NextSlot
    <3>4. i = Len(p) \/ i < Len(p)
      BY <2>1, <3>1
    <3> QED BY <3>2, <3>3, <3>4
  <2> QED BY <1>1, <2>2, <2>3
<1> QED BY <1>1, <1>3, <1>5, <1>6, <1>7

LEMMA PlacesFound ==
  ASSUME NEW p \in Seq(Schema), NEW S
  PROVE  Places(p, S) \in Nat /\ (Places(p, S) > 0 <=> \E i \in DOMAIN p : p[i][3] \in S)
<1> DEFINE P == {i \in DOMAIN p : p[i][3] \in S}
<1>1. IsFiniteSet(DOMAIN p)
  BY FS_Interval
<1>2. IsFiniteSet(P)
  BY <1>1, FS_Subset
<1>3. Cardinality(P) \in Nat /\ (Cardinality(P) = 0 <=> P = {})
  BY <1>2, FS_CardinalityType, FS_EmptySet
<1> QED BY <1>3 DEF Places

----------------------------------------------------------------------------
(***************************************************************************)
(* What is not read.                                                       *)
(***************************************************************************)
LEMMA ReadHasRule ==
  ASSUME NEW e \in Schema
  PROVE  IsRead(e) <=> ReadIn(full, e)
BY SlotFacts DEF IsRead, ReadIn, HasRule, Pair

\* A path that is read throughout has none of what is not looked at.
LEMMA ReadThroughout ==
  ASSUME path \in Seq(Schema), PathIsWritten, \A i \in DOMAIN path : IsRead(path[i])
  PROVE  ~Unread
<1>1. \A i \in DOMAIN path : path[i] \in Schema
  OBVIOUS
<1>2. ~Takes("Module", "orphans") /\ ~Takes("Implements", "body")
  BY <1>1, ReadHasRule DEF Takes, On, ReadIn, Pair, NotRead
<1>3. ~full => ~Takes("Module", "values")
  BY <1>1, ReadHasRule DEF Takes, On, ReadIn, Pair, OnlyInFull
<1>4. ASSUME ~full, Places(path, {"Expr"}) > 0
      PROVE  FALSE
  <2>1. PICK i \in DOMAIN path : path[i][3] = "Expr"
    BY <1>4, PlacesFound
  <2>2. PICK j \in 1 .. i : BeginsExpr(path[j])
    BY <2>1 DEF PathIsWritten, ExprsBegin
  <2>3. j \in DOMAIN path
    BY <2>2
  <2>4. Pair(path[j]) = <<"DefValue", "expr">>
    BY <1>1, <1>4, <2>2, <2>3, ReadHasRule, ExpressionsOfDefinitions DEF BeginsExpr, ReadIn
  <2>5. j = 3 /\ Pair(path[2]) = <<"Module", "values">>
    BY <2>3, <2>4, Places2 DEF PathIsWritten, Pair
  <2> QED BY <1>3, <1>4, <2>3, <2>5 DEF Takes, On, Pair
<1> QED BY <1>2, <1>3, <1>4 DEF Unread

LEMMA NotReadIsUnread ==
  ASSUME path \in Seq(Schema), PathIsWritten, full \in BOOLEAN, NEW i \in DOMAIN path, ~IsRead(path[i])
  PROVE  Unread \/ Pair(path[i]) = <<"Package", "metadata">>
<1>1. path[i] \in Schema
  OBVIOUS
<1>2. CASE Pair(path[i]) \in NotRead
  <2>1. CASE path[i][1] = "InstanceBody"
    BY <2>1, Places2 DEF PathIsWritten, Unread, Takes, On, Pair
  <2>2. CASE path[i][1] # "InstanceBody"
    BY <1>2, <2>2 DEF NotRead, Unread, Takes, On, Pair
  <2> QED BY <2>1, <2>2
<1>3. CASE Pair(path[i]) \in OnlyInFull /\ ~full
  <2>1. CASE Pair(path[i]) = <<"Module", "values">>
    BY <1>3, <2>1 DEF Unread, Takes, On, Pair
  <2>2. CASE path[i][3] = "Expr"
    BY <1>3, <2>2, PlacesFound DEF Unread
  <2> QED BY <1>1, <1>3, <2>1, <2>2, FullSlots
<1> QED BY <1>1, <1>2, <1>3, ReadHasRule DEF ReadIn

\* The metadata, and a module as a whole, are looked at before anything else is.
LEMMA ShortPaths ==
  ASSUME path \in Seq(Schema), PathIsWritten, Len(path) = 1, path[1][3] # "Expr"
  PROVE  ~Unread
<1>1. DOMAIN path = {1} /\ path[1] \in Schema
  OBVIOUS
<1>2. path[1][1] = "Package"
  BY <1>1, Above DEF PathIsWritten
<1>3. ~(Places(path, {"Expr"}) > 0)
  BY <1>1, PlacesFound
<1> QED BY <1>1, <1>2, <1>3 DEF Unread, Takes, On

LEMMA MetadataEnds ==
  ASSUME path \in Seq(Schema), PathIsWritten, NEW i \in DOMAIN path, Pair(path[i]) = <<"Package", "metadata">>
  PROVE  Len(path) = 1 /\ i = 1 /\ path[1][3] = "Metadata"
<1>1. i = 1 /\ path[1] \in Schema /\ path[1][3] = "Metadata"
  BY Places1, SortFacts DEF PathIsWritten, Pair
<1>2. ASSUME 2 \in DOMAIN path
      PROVE  FALSE
  <2>1. path[2] \in Schema /\ path[2][1] \in KindsOf(path[2 - 1][3])
    BY <1>2, Above DEF PathIsWritten
  <2>2. path[2][1] = "Metadata"
    BY <1>1, <2>1, KindsOfSorts
  <2> QED BY <2>1, <2>2, SlotFacts, DefinitionSlots, TypeSlots
          DEF PlainKinds, Scalars, DefinitionKinds, TypeAndKindKinds, WithArguments
<1>3. DOMAIN path = 1 .. Len(path) /\ Len(path) \in Nat
  OBVIOUS
<1> QED BY <1>1, <1>2, <1>3

LEMMA ModuleEnds ==
  ASSUME path \in Seq(Schema), PathIsWritten, SortAt(path) = "Module"
  PROVE  Len(path) = 1 /\ path[1][3] = "Module"
<1>1. path # <<>> /\ Len(path) \in DOMAIN path /\ path[Len(path)] \in Schema /\ path[Len(path)][3] = "Module"
  BY DEF SortAt
<1>2. path[Len(path)][1] = "Package"
  BY <1>1, SortFacts DEF Pair
<1> QED BY <1>1, <1>2, Places1 DEF PathIsWritten

----------------------------------------------------------------------------
(***************************************************************************)
(* The element grows with the path.                                        *)
(***************************************************************************)
LEMMA FromNothing ==
  ASSUME NEW f, NEW p \in Seq(Schema)
  PROVE  \E pos \in [1 .. Len(<<>>) -> 1 .. 0] : From(f, p, <<>>, 0, pos)
<1>1. Len(<<>>) = 0 /\ 1 .. 0 = {} /\ 0 \in 0 .. Len(p)
  OBVIOUS
<1>2. [k \in 1 .. Len(<<>>) |-> 0] \in [1 .. Len(<<>>) -> 1 .. 0]
  BY <1>1
<1> QED BY <1>1, <1>2 DEF From

LEMMA FromReference ==
  ASSUME NEW f, NEW p \in Seq(Schema), NEW s, Len(s) \in Nat, NEW m, NEW pos, From(f, p, s, m, pos),
               m + 1 \in 1 .. Len(p),
         ReadIn(f, p[m + 1]), Pair(p[m + 1]) \in ReferringSlots
  PROVE  From(f, p, s, m + 1, pos) /\ pos \in [1 .. Len(s) -> 1 .. m + 1]
<1>1. m \in Nat /\ pos \in [1 .. Len(s) -> 1 .. m] /\ m + 1 \in 0 .. Len(p)
  BY DEF From
<1>2. pos \in [1 .. Len(s) -> 1 .. m + 1]
  BY <1>1
<1>3. Pair(p[m + 1]) \notin LetGoSlots
  BY DEF Pair, ReferringSlots, LetGoSlots
<1>4. \A j \in 1 .. m + 1 : j \in 1 .. m \/ j = m + 1
  BY <1>1
<1> QED BY <1>1, <1>2, <1>3, <1>4 DEF From

LEMMA FromGrows ==
  ASSUME NEW f, NEW p \in Seq(Schema), NEW S, NEW s \in Seq(S), NEW x \in S, NEW m, NEW pos,
               From(f, p, s, m, pos),
         m + 1 \in 1 .. Len(p), ReadIn(f, p[m + 1]), Pair(p[m + 1]) \notin LetGoSlots, Becomes(p[m + 1], x)
  PROVE  \E longer \in [1 .. Len(Append(s, x)) -> 1 .. m + 1] : From(f, p, Append(s, x), m + 1, longer)
<1> DEFINE n == Len(s)
           q == [k \in 1 .. n + 1 |-> IF k = n + 1 THEN m + 1 ELSE pos[k]]
<1>1. n \in Nat /\ Len(Append(s, x)) = n + 1 /\ \A k \in 1 .. n : Append(s, x)[k] = s[k]
  OBVIOUS
<1>2. Append(s, x)[n + 1] = x
  OBVIOUS
<1>3. m \in Nat /\ pos \in [1 .. n -> 1 .. m] /\ m + 1 \in 0 .. Len(p)
  BY DEF From
<1>4. \A k \in 1 .. n + 1 : (k \in 1 .. n /\ k # n + 1) \/ k = n + 1
  BY <1>1
<1>5. (\A k \in 1 .. n : q[k] = pos[k] /\ pos[k] \in 1 .. m) /\ q[n + 1] = m + 1
  <2>1. n + 1 \in 1 .. n + 1 /\ \A k \in 1 .. n : k \in 1 .. n + 1 /\ k # n + 1
    BY <1>1
  <2> HIDE DEF n
  <2> QED BY <1>3, <2>1
<1>6. q \in [1 .. n + 1 -> 1 .. m + 1]
  BY <1>3, <1>4, <1>5
<1> HIDE DEF n, q
<1>7. \A k, l \in 1 .. n + 1 : k < l => q[k] < q[l]
  <2> SUFFICES ASSUME NEW k \in 1 .. n + 1, NEW l \in 1 .. n + 1, k < l
               PROVE  q[k] < q[l]
    OBVIOUS
  <2>1. k \in 1 .. n
    BY <1>1
  <2>2. CASE l \in 1 .. n
    BY <1>5, <2>1, <2>2 DEF From, n
  <2>3. CASE l = n + 1
    BY <1>3, <1>5, <2>1, <2>3
  <2> QED BY <1>4, <2>2, <2>3
<1>8. \A k \in 1 .. n + 1 : Becomes(p[q[k]], Append(s, x)[k])
  BY <1>1, <1>2, <1>4, <1>5 DEF From, n
<1>9. ASSUME NEW j \in 1 .. m + 1
      PROVE  /\ ReadIn(f, p[j]) /\ Pair(p[j]) \notin LetGoSlots
             /\ Pair(p[j]) \in ReferringSlots \/ \E k \in 1 .. n + 1 : q[k] = j
  <2>1. CASE j \in 1 .. m
    <3>1. ReadIn(f, p[j]) /\ Pair(p[j]) \notin LetGoSlots
          /\ (Pair(p[j]) \in ReferringSlots \/ \E k \in 1 .. n : pos[k] = j)
      BY <2>1 DEF From, n
    <3>2. ASSUME NEW k \in 1 .. n, pos[k] = j
          PROVE  k \in 1 .. n + 1 /\ q[k] = j
      BY <1>1, <1>5, <3>2
    <3> QED BY <3>1, <3>2
  <2>2. CASE j = m + 1
    <3>1. n + 1 \in 1 .. n + 1
      BY <1>1
    <3> QED BY <1>5, <2>2, <3>1
  <2> QED BY <1>3, <2>1, <2>2
<1>10. From(f, p, Append(s, x), m + 1, q)
  BY <1>1, <1>3, <1>6, <1>7, <1>8, <1>9 DEF From
<1> QED BY <1>1, <1>6, <1>10

----------------------------------------------------------------------------
(***************************************************************************)
(* The compiler and the beginning of the conversion.                       *)
(***************************************************************************)
LEMMA ArchiveInit ==
  ARInit => ARInv
<1> SUFFICES ASSUME ARInit
             PROVE  ARInv
  OBVIOUS
<1> USE DEF ARInit
<1>1. path \in Seq(Schema) /\ Len(path) = 0 /\ DOMAIN path = {} /\ DOMAIN element = {} /\ Len(element) = 0
  OBVIOUS
<1>2. ARTypeOK
  BY <1>1 DEF ARTypeOK
<1>3. PathIsWritten
  BY <1>1 DEF PathIsWritten, Linked, KindsStay, ExprsBegin, TypesFollow
<1>4. LeafIsWritten /\ Progress
  BY DEF LeafIsWritten, Progress
<1>5. ElementIsOK
  BY <1>1 DEF ElementIsOK, Finished
<1>6. RefusedExactlyForFlaws /\ SeenIsWritten /\ ValidateIsTruthful
  BY DEF RefusedExactlyForFlaws, SeenIsWritten, ValidateIsTruthful
<1> QED BY <1>2, <1>3, <1>4, <1>5, <1>6 DEF ARInv

\* In the phases before the last ones nothing is claimed of what comes out.
LEMMA NotYet ==
  ASSUME phase' \in {"compile", "payload", "convert"}
  PROVE  (RefusedExactlyForFlaws /\ SeenIsWritten /\ ValidateIsTruthful)'
BY DEF RefusedExactlyForFlaws, SeenIsWritten, ValidateIsTruthful

LEMMA DescendKeeps ==
  ASSUME ARInv, Descend
  PROVE  ARInv'
<1> USE DEF Descend
<1>1. PICK e \in Schema : e[1] \in KindsOf(SortAt(path)) /\ path' = Append(path, e)
  BY DEF SlotsOf
<1>2. path \in Seq(Schema) /\ Linked(path) /\ KindsStay(path) /\ ExprsBegin(path) /\ TypesFollow(path)
  BY DEF ARInv, ARTypeOK, PathIsWritten
<1>3. path' \in Seq(Schema) /\ PathIsWritten'
  BY <1>1, <1>2, PathGrows DEF PathIsWritten
<1>4. at' = 1 /\ element' = <<>> /\ element = <<>> /\ kept' /\ phase' = "compile" /\ leaf' = leaf
  BY DEF ARInv, Progress
<1>5. Len(path') \in Nat
  BY <1>3
<1>6. ARTypeOK'
  BY <1>3, <1>4, <1>5 DEF ARInv, ARTypeOK
<1>7. LeafIsWritten'
  BY <1>4 DEF ARInv, LeafIsWritten, Growing, Absent
<1>8. Progress'
  BY <1>4 DEF Progress
<1>9. ElementIsOK'
  BY <1>4, <1>5 DEF ElementIsOK, Finished
<1> QED BY <1>3, <1>4, <1>6, <1>7, <1>8, <1>9, NotYet DEF ARInv

LEMMA EndPathKeeps ==
  ASSUME ARInv, EndPath
  PROVE  ARInv'
<1> USE DEF EndPath
<1>1. ARTypeOK' /\ PathIsWritten'
  BY DEF ARInv, ARTypeOK, PathIsWritten
<1>2. LeafIsWritten'
  <2>1. CASE \E k \in KindsOf(SortAt(path)) : leaf' = Whole(k)
    BY <2>1 DEF LeafIsWritten, Whole
  <2>2. CASE \E k \in KindsOf(SortAt(path)) : \E f \in Flaws(k) : leaf' = Wrong(k, f)
    BY <2>2 DEF LeafIsWritten, Wrong, Flaws
  <2>3. CASE path # <<>> /\ leaf' = Absent
    BY <2>3 DEF LeafIsWritten
  <2> QED BY <2>1, <2>2, <2>3
<1>3. Progress' /\ ElementIsOK'
  BY DEF ARInv, Progress, ElementIsOK, Finished
<1> QED BY <1>1, <1>2, <1>3, NotYet DEF ARInv

\* What is at the end of a path: a message of the sort of its last slot, or nothing.
LEMMA LeafFacts ==
  ASSUME LeafIsWritten, phase # "compile", path \in Seq(Schema)
  PROVE  /\ leaf.flaw = "absent" => path # <<>>
         /\ leaf.kind \in Names \union {"Module"} => SortAt(path) = leaf.kind
<1>1. CASE path # <<>> /\ leaf = Absent
  BY <1>1 DEF Absent, Names
<1>2. CASE \E k \in KindsOf(SortAt(path)), f \in DOMAIN Flawed \union {"none"} :
             leaf = [kind |-> k, flaw |-> f]
  <2>1. PICK k \in KindsOf(SortAt(path)), f \in DOMAIN Flawed \union {"none"} :
               leaf = [kind |-> k, flaw |-> f]
    BY <1>2
  <2>2. leaf.kind = k /\ leaf.flaw = f
    BY <2>1
  <2>3. f # "absent"
    BY DEF Flawed
  <2>4. \A n \in Names \union {"Module"} : n \in PlainKinds \ (TypesThere \union KindsThere \union DataThere)
    BY DEF PlainKinds, DefinitionKinds, Scalars, Names, TypesThere, KindsThere, DataThere, WithArguments
  <2> QED BY <2>2, <2>3, <2>4, NamedKinds
<1> QED BY <1>1, <1>2 DEF LeafIsWritten

LEMMA TakeUpKeeps ==
  ASSUME ARInv, TakeUp
  PROVE  ARInv'
<1> USE DEF TakeUp
<1>1. path \in Seq(Schema) /\ PathIsWritten /\ LeafIsWritten /\ at = 1 /\ element = <<>> /\ kept
      /\ Len(path) \in Nat
      /\ \A i \in DOMAIN path : path[i] \in Schema
  BY DEF ARInv, ARTypeOK, Progress
<1>2. ARTypeOK' /\ PathIsWritten'
  BY DEF ARInv, ARTypeOK, PathIsWritten
<1>3. LeafIsWritten'
  BY DEF ARInv, LeafIsWritten
<1>4. CASE NoMetadata \/ NoFlags
  <2>1. phase' = "refused"
    BY <1>4
  <2>2. Progress' /\ ElementIsOK'
    BY <2>1 DEF ARInv, Progress, ElementIsOK, Finished
  <2>3. SomethingWrong /\ ~Unread
    <3>1. CASE NoMetadata
      <4>1. 1 \in DOMAIN path /\ path[1] \in Schema
        BY <1>1, <3>1 DEF NoMetadata
      <4>2. Pair(path[1]) = <<"Package", "metadata">>
        BY <1>1, <3>1, <4>1, Above DEF NoMetadata, PathIsWritten, Pair
      <4>3. Len(path) = 1 /\ path[1][3] = "Metadata"
        BY <1>1, <4>1, <4>2, MetadataEnds
      <4>4. path[1][4] # "opt"
        BY <4>1, <4>2, SlotFacts DEF MayBeUnset
      <4> QED BY <1>1, <3>1, <4>3, <4>4, ShortPaths DEF NoMetadata, SomethingWrong, Last
    <3>2. CASE NoFlags
      <4>1. leaf.kind = "Module" /\ leaf.flaw = "unset"
        BY <3>2 DEF NoFlags, Wrong
      <4>2. SortAt(path) = "Module"
        BY <1>1, <4>1, LeafFacts
      <4> QED BY <1>1, <4>1, <4>2, ModuleEnds, ShortPaths DEF SomethingWrong
    <3> QED BY <1>4, <3>1, <3>2
  <2>4. RefusedExactlyForFlaws'
    BY <2>1, <2>3 DEF RefusedExactlyForFlaws, SomethingWrong, Unread, Takes, On, Places
  <2>5. SeenIsWritten' /\ ValidateIsTruthful'
    BY <2>1 DEF SeenIsWritten, ValidateIsTruthful
  <2> QED BY <1>2, <1>3, <2>2, <2>4, <2>5 DEF ARInv
<1>5. CASE ~(NoMetadata \/ NoFlags)
  <2>1. phase' = "convert"
    BY <1>5
  <2>2. Progress'
    BY <1>1, <1>5, <2>1 DEF Progress, NoMetadata, NoFlags
  <2>3. ElementIsConverted'
    <3>1. \E pos \in [1 .. Len(element') -> 1 .. 0] : From(full', path', element', 0, pos)
      BY <1>1, FromNothing
    <3>2. at' - 1 = 0 /\ kept'
      BY <1>1
    <3>3. ConvertedTo(0)'
      BY <2>1, <3>1, <3>2 DEF ConvertedTo, Finished
    <3> QED BY <1>1, <3>3 DEF ElementIsConverted
  <2>4. ElementIsOK'
    BY <1>1, <2>3 DEF ARInv, ElementIsOK
  <2> QED BY <1>2, <1>3, <2>1, <2>2, <2>4, NotYet DEF ARInv
<1> QED BY <1>4, <1>5

----------------------------------------------------------------------------
(***************************************************************************)
(* The conversion.                                                         *)
(***************************************************************************)
LEMMA ConvertSlotKeeps ==
  ASSUME ARInv, ConvertSlot
  PROVE  ARInv'
<1>1. /\ path \in Seq(Schema) /\ Len(path) \in Nat /\ at \in 1 .. Len(path) /\ path[at] \in Schema
      /\ element \in Seq(Accept \union {Implemented}) /\ Len(element) \in Nat /\ kept \in BOOLEAN
      /\ phase = "convert" /\ phase' = "convert" /\ at' = at + 1
      /\ UNCHANGED <<full, path, leaf, seen, target, error>>
  BY DEF ConvertSlot, ARInv, ARTypeOK, ElementIsOK
<1>2. IsRead(path[at]) /\ ReadIn(full, path[at])
  BY <1>1, ReadHasRule DEF ConvertSlot
<1>3. PICK r \in Conversion :
        /\ Pair(r) = Pair(path[at])
        /\ kept' = (kept /\ r[3] # "none")
        /\ element' = IF kept' /\ r[3] # "same" THEN Append(element, Into(r)) ELSE element
  BY DEF ConvertSlot, Pair, Into
<1>4. /\ r[3] = "none" <=> Pair(path[at]) \in LetGoSlots
      /\ r[3] = "same" <=> Pair(path[at]) \in ReferringSlots
      /\ r[3] \notin {"none", "same"} => Into(r) \in Accept \union {Implemented} /\ Becomes(path[at], Into(r))
  BY <1>3, RuleFacts DEF Becomes
<1>5. Len(element) <= at - 1 /\ ~NoMetadata /\ ~NoFlags /\ \A i \in 1 .. at - 1 : IsRead(path[i])
  BY <1>1 DEF ARInv, Progress
<1>6. /\ element' \in Seq(Accept \union {Implemented}) /\ Len(element') \in Nat /\ Len(element') <= at
  <2>1. CASE element' = element
    BY <1>1, <1>3, <1>5, <2>1
  <2>2. CASE kept' /\ r[3] # "same"
    <3>1. element' = Append(element, Into(r)) /\ Into(r) \in Accept \union {Implemented}
      BY <1>3, <1>4, <2>2
    <3>2. element' \in Seq(Accept \union {Implemented}) /\ Len(element') = Len(element) + 1
      BY <1>1, <3>1, AppendProperties
    <3> QED BY <1>1, <1>5, <3>2
  <2> QED BY <1>3, <2>1, <2>2
<1>7. ARTypeOK'
  <2>1. at' \in 1 .. Len(path') + 1
    BY <1>1
  <2>2. \A i \in DOMAIN element' : element'[i] \in ElementSlots \union {<<"Template", "implements">>}
    BY <1>6 DEF Accept, Implemented
  <2>3. kept' \in BOOLEAN
    BY <1>3
  <2> QED BY <1>1, <1>6, <2>1, <2>2, <2>3 DEF ARInv, ARTypeOK
<1>8. PathIsWritten' /\ LeafIsWritten'
  BY <1>1 DEF ARInv, PathIsWritten, LeafIsWritten
<1>9. Progress'
  <2>1. \A i \in 1 .. at' - 1 : IsRead(path[i])
    <3>1. at' - 1 = at /\ \A i \in 1 .. at : i \in 1 .. at - 1 \/ i = at
      BY <1>1
    <3> QED BY <1>2, <1>5, <3>1
  <2>2. (~NoMetadata)' /\ (~NoFlags)' /\ \A i \in 1 .. at' - 1 : IsRead(path[i])'
    BY <1>1, <1>5, <2>1 DEF NoMetadata, NoFlags, IsRead
  <2> QED BY <1>1, <1>6, <2>2 DEF Progress
<1>10. ElementIsConverted'
  <2>1. PICK m \in 0 .. Len(path) : ConvertedTo(m)
    BY <1>1 DEF ARInv, ElementIsOK, ElementIsConverted
  <2>2. PICK pos \in [1 .. Len(element) -> 1 .. m] : From(full, path, element, m, pos)
    BY <2>1 DEF ConvertedTo
  <2>3. CASE ~kept
    <3>1. m + 1 \in 1 .. at - 1 /\ Pair(path[m + 1]) \in LetGoSlots
      BY <1>1, <2>1, <2>3 DEF ConvertedTo
    <3>2. ~kept' /\ element' = element /\ m + 1 \in 1 .. at' - 1
      BY <1>1, <1>3, <2>3, <3>1
    <3>3. ConvertedTo(m)'
      BY <1>1, <2>2, <3>1, <3>2 DEF ConvertedTo, Finished
    <3> QED BY <1>1, <3>3 DEF ElementIsConverted
  <2>4. CASE kept
    <3>1. m = at - 1
      BY <1>1, <2>1, <2>4 DEF ConvertedTo
    <3>2. m + 1 = at /\ at' - 1 = at /\ m + 1 \in 1 .. at' - 1 /\ m + 1 \in 1 .. Len(path)
          /\ m + 1 \in 0 .. Len(path)
      BY <1>1, <3>1
    <3>3. CASE r[3] = "none"
      <4>1. ~kept' /\ element' = element /\ m + 1 \in 1 .. at' - 1 /\ Pair(path[m + 1]) \in LetGoSlots
        BY <1>3, <1>4, <3>2, <3>3
      <4>2. ConvertedTo(m)'
        BY <1>1, <2>2, <4>1 DEF ConvertedTo, Finished
      <4> QED BY <1>1, <4>2 DEF ElementIsConverted
    <3>4. CASE r[3] = "same"
      <4>1. kept' /\ element' = element /\ m + 1 = at' - 1 /\ m + 1 \in 0 .. Len(path)
        BY <1>3, <2>4, <3>2, <3>4
      <4>2. From(full, path, element, m + 1, pos) /\ pos \in [1 .. Len(element) -> 1 .. m + 1]
        BY <1>1, <1>2, <1>4, <2>2, <3>2, <3>4, FromReference
      <4>3. ConvertedTo(m + 1)'
        BY <1>1, <4>1, <4>2 DEF ConvertedTo, Finished
      <4> QED BY <1>1, <4>1, <4>3 DEF ElementIsConverted
    <3>5. CASE r[3] \notin {"none", "same"}
      <4>1. kept' /\ element' = Append(element, Into(r)) /\ m + 1 = at' - 1 /\ m + 1 \in 0 .. Len(path)
        BY <1>3, <2>4, <3>2, <3>5
      <4>2. \E longer \in [1 .. Len(element') -> 1 .. m + 1] : From(full, path, element', m + 1, longer)
        BY <1>1, <1>2, <1>4, <2>2, <3>2, <3>5, <4>1, FromGrows
      <4>3. ConvertedTo(m + 1)'
        BY <1>1, <4>1, <4>2 DEF ConvertedTo, Finished
      <4> QED BY <1>1, <4>1, <4>3 DEF ElementIsConverted
    <3> QED BY <3>3, <3>4, <3>5
  <2> QED BY <2>3, <2>4
<1>11. ElementIsOK'
  BY <1>1, <1>6, <1>10 DEF ElementIsOK
<1> QED BY <1>1, <1>7, <1>8, <1>9, <1>11, NotYet DEF ARInv

LEMMA SkipSlotKeeps ==
  ASSUME ARInv, SkipSlot
  PROVE  ARInv'
<1> USE DEF SkipSlot
<1>1. /\ path \in Seq(Schema) /\ PathIsWritten /\ LeafIsWritten /\ Len(path) \in Nat
      /\ at \in 1 .. Len(path) /\ at \in DOMAIN path /\ path[at] \in Schema /\ full \in BOOLEAN
      /\ phase = "convert" /\ phase' = "built" /\ ~kept'
      /\ UNCHANGED <<full, path, leaf, at, element, seen, target, error>>
  BY DEF ARInv, ARTypeOK
<1>2. ARTypeOK' /\ PathIsWritten' /\ LeafIsWritten' /\ Progress'
  BY <1>1 DEF ARInv, ARTypeOK, PathIsWritten, LeafIsWritten, Progress
<1>3. ElementIsConverted'
  <2>1. PICK m \in 0 .. Len(path) : ConvertedTo(m)
    BY <1>1 DEF ARInv, ElementIsOK, ElementIsConverted
  <2>2. \E pos \in [1 .. Len(element) -> 1 .. m] : From(full, path, element, m, pos)
    BY <2>1 DEF ConvertedTo
  <2>3. m + 1 \in 1 .. Len(path) /\ (Pair(path[m + 1]) \in LetGoSlots \/ ~ReadIn(full, path[m + 1]))
    <3>1. CASE kept
      <4>1. m + 1 = at
        BY <1>1, <2>1, <3>1 DEF ConvertedTo
      <4> QED BY <1>1, <4>1, ReadHasRule
    <3>2. CASE ~kept
      BY <1>1, <2>1, <3>2 DEF ConvertedTo
    <3> QED BY <3>1, <3>2
  <2>4. ConvertedTo(m)'
    BY <1>1, <2>2, <2>3 DEF ConvertedTo
  <2> QED BY <1>1, <2>4 DEF ElementIsConverted
<1>4. ElementIsOK'
  BY <1>1, <1>3 DEF ARInv, ElementIsOK
<1>5. SomethingWrong => Unread
  <2>1. CASE Pair(path[at]) # <<"Package", "metadata">>
    BY <1>1, <2>1, NotReadIsUnread
  <2>2. CASE Pair(path[at]) = <<"Package", "metadata">>
    <3>1. path # <<>> /\ path[1][2] = "metadata"
      BY <1>1, <2>2, MetadataEnds DEF Pair
    <3>2. leaf.flaw = "none"
      BY <1>1, <3>1 DEF ARInv, Progress, NoMetadata
    <3> QED BY <3>2 DEF SomethingWrong
  <2> QED BY <2>1, <2>2
<1>6. RefusedExactlyForFlaws'
  BY <1>1, <1>5 DEF RefusedExactlyForFlaws, SomethingWrong, Unread, Takes, On, Places
<1>7. SeenIsWritten' /\ ValidateIsTruthful'
  BY <1>1 DEF SeenIsWritten, ValidateIsTruthful
<1> QED BY <1>2, <1>4, <1>6, <1>7 DEF ARInv

LEMMA ConvertEndKeeps ==
  ASSUME ARInv, ConvertEnd
  PROVE  ARInv'
<1> USE DEF ConvertEnd
<1>1. /\ path \in Seq(Schema) /\ PathIsWritten /\ LeafIsWritten /\ Len(path) \in Nat
      /\ at = Len(path) + 1 /\ phase = "convert" /\ phase' \in {"refused", "built"}
      /\ phase' = "refused" <=> Refused
      /\ UNCHANGED <<full, path, leaf, at, element, kept, seen, target, error>>
  BY DEF ARInv, ARTypeOK
<1>2. ARTypeOK' /\ PathIsWritten' /\ LeafIsWritten' /\ Progress'
  BY <1>1 DEF ARInv, ARTypeOK, PathIsWritten, LeafIsWritten, Progress
<1>3. ElementIsOK'
  <2>1. PICK m \in 0 .. Len(path) : ConvertedTo(m)
    BY <1>1 DEF ARInv, ElementIsOK, ElementIsConverted
  <2>2. at - 1 = Len(path)
    BY <1>1
  <2>3. IF kept THEN m = Len(path) ELSE m + 1 \in 1 .. Len(path) /\ Pair(path[m + 1]) \in LetGoSlots
    BY <1>1, <2>1, <2>2 DEF ConvertedTo
  <2>4. \E pos \in [1 .. Len(element) -> 1 .. m] : From(full, path, element, m, pos)
    BY <2>1 DEF ConvertedTo
  <2>5. ConvertedTo(m)'
    BY <1>1, <2>3, <2>4 DEF ConvertedTo, Finished
  <2>6. ElementIsConverted'
    BY <1>1, <2>5 DEF ElementIsConverted
  <2> QED BY <1>1, <2>6 DEF ARInv, ElementIsOK
<1>4. ~Unread
  <2>1. \A i \in DOMAIN path : IsRead(path[i])
    BY <1>1 DEF ARInv, Progress
  <2> QED BY <1>1, <2>1, ReadThroughout
<1>5. Refused <=> SomethingWrong
  <2>1. CASE leaf.flaw = "absent"
    <3>1. path # <<>> /\ Len(path) \in DOMAIN path /\ path[Len(path)] \in Schema
      BY <1>1, <2>1, LeafFacts
    <3> QED BY <3>1, SlotFacts DEF Refused, SomethingWrong, Last, Pair
  <2>2. CASE leaf.flaw # "absent"
    BY <2>2 DEF Refused, SomethingWrong
  <2> QED BY <2>1, <2>2
<1>6. RefusedExactlyForFlaws'
  BY <1>1, <1>4, <1>5 DEF RefusedExactlyForFlaws, SomethingWrong, Unread, Takes, On, Places
<1>7. SeenIsWritten' /\ ValidateIsTruthful'
  BY <1>1 DEF SeenIsWritten, ValidateIsTruthful
<1> QED BY <1>2, <1>3, <1>6, <1>7 DEF ARInv

----------------------------------------------------------------------------
(***************************************************************************)
(* The visitor.                                                            *)
(***************************************************************************)
LEMMA FinishedStays ==
  ASSUME ARInv, phase \in Finished, phase' \in Finished, UNCHANGED <<full, path, leaf, element, kept>>
  PROVE  PathIsWritten' /\ LeafIsWritten' /\ ElementIsOK' /\ RefusedExactlyForFlaws'
<1>1. PathIsWritten'
  BY DEF ARInv, PathIsWritten
<1>2. LeafIsWritten'
  BY DEF ARInv, LeafIsWritten, Finished
<1>3. RefusedExactlyForFlaws'
  BY DEF ARInv, RefusedExactlyForFlaws, SomethingWrong, Unread, Takes, On, Places, Finished
<1>4. ElementIsConverted'
  <2>1. PICK m \in 0 .. Len(path) : ConvertedTo(m)
    BY DEF ARInv, ElementIsOK, ElementIsConverted
  <2>2. phase' # "convert"
    BY DEF Finished
  <2>3. ConvertedTo(m)'
    BY <2>1, <2>2 DEF ConvertedTo
  <2> QED BY <2>3 DEF ElementIsConverted
<1> QED BY <1>1, <1>2, <1>3, <1>4 DEF ARInv, ElementIsOK

LEMMA StartVisitKeeps ==
  ASSUME ARInv, StartVisit
  PROVE  ARInv'
<1> USE DEF StartVisit
<1>1. phase \in Finished /\ phase' \in Finished
  BY DEF Finished
<1>2. Len(path) \in Nat /\ Len(element) \in Nat
  BY DEF ARInv, ARTypeOK, ElementIsOK
<1>3. ARTypeOK'
  BY <1>2 DEF ARInv, ARTypeOK
<1>4. Progress'
  BY <1>2 DEF Progress
<1>5. SeenIsWritten' /\ ValidateIsTruthful'
  BY DEF SeenIsWritten, ValidateIsTruthful
<1> QED BY <1>1, <1>3, <1>4, <1>5, FinishedStays DEF ARInv

LEMMA VisitSlotKeeps ==
  ASSUME ARInv, VisitSlot
  PROVE  ARInv'
<1> USE DEF VisitSlot
<1>1. phase \in Finished /\ phase' \in Finished
  BY DEF Finished
<1>2. /\ Len(path) \in Nat /\ Len(element) \in Nat /\ Len(element) <= Len(path) /\ at \in 1 .. Len(element)
      /\ \A i \in 1 .. at - 1 : element[i] \in Accept
  BY DEF ARInv, ARTypeOK, ElementIsOK, Progress
<1>3. at' \in 1 .. Len(element) + 1 /\ at' \in 1 .. Len(path) + 1 /\ at' - 1 = at
  BY <1>2
<1>4. ARTypeOK'
  BY <1>3 DEF ARInv, ARTypeOK
<1>5. \A i \in 1 .. at : element[i] \in Accept
  <2>1. \A i \in 1 .. at : i \in 1 .. at - 1 \/ i = at
    BY <1>2
  <2> QED BY <1>2, <2>1
<1>6. Progress'
  BY <1>3, <1>5 DEF Progress
<1>7. SeenIsWritten' /\ ValidateIsTruthful'
  BY DEF SeenIsWritten, ValidateIsTruthful
<1> QED BY <1>1, <1>4, <1>6, <1>7, FinishedStays DEF ARInv

\* A name is part of the element unless it is below something that is not read or let go.
LEMMA NamesKept ==
  ASSUME ARInv, phase \in Finished, leaf.kind \in Names
  PROVE  /\ kept <=> ~(Unread \/ LetGo)
         /\ kept =>
              ((\E k \in 1 .. Len(element) : element[k] = Implemented) <=> Takes("Template", "implements"))
<1>1. /\ path \in Seq(Schema) /\ Len(path) \in Nat /\ DOMAIN path = 1 .. Len(path)
      /\ \A i \in DOMAIN path : path[i] \in Schema
      /\ PathIsWritten /\ LeafIsWritten /\ full \in BOOLEAN /\ kept \in BOOLEAN
  BY DEF ARInv, ARTypeOK
<1>2. PICK m \in 0 .. Len(path) : ConvertedTo(m)
  BY DEF ARInv, ElementIsOK, ElementIsConverted
<1>3. PICK pos \in [1 .. Len(element) -> 1 .. m] : From(full, path, element, m, pos)
  BY <1>2 DEF ConvertedTo
<1>4. SortAt(path) = leaf.kind
  BY <1>1, LeafFacts DEF Finished
<1>5. ASSUME kept
      PROVE  ~Unread /\ ~LetGo
  <2>1. m = Len(path)
    BY <1>2, <1>5 DEF ConvertedTo
  <2>2. \A i \in DOMAIN path : IsRead(path[i]) /\ Pair(path[i]) \notin LetGoSlots
    BY <1>1, <1>3, <2>1, ReadHasRule DEF From
  <2>3. ~LetGo
    BY <2>2 DEF LetGo, Takes, On, LetGoSlots, Pair
  <2> QED BY <1>1, <2>2, <2>3, ReadThroughout
<1>6. ASSUME ~kept
      PROVE  Unread \/ LetGo
  <2>1. m + 1 \in DOMAIN path /\ path[m + 1] \in Schema
        /\ (Pair(path[m + 1]) \in LetGoSlots \/ ~ReadIn(full, path[m + 1]))
    BY <1>1, <1>2, <1>6 DEF ConvertedTo
  <2>2. CASE Pair(path[m + 1]) \in {<<"ARROW", "args">>, <<"UPDATE", "args">>}
    BY <2>1, <2>2 DEF LetGo, Takes, On, Pair
  <2>3. CASE Pair(path[m + 1]) \in {<<"InterfaceMarker", "params">>, <<"Template", "params">>}
    <3>1. path[m + 1][3] \in KindSorts
      BY <2>1, <2>3, ParamsAreKinds DEF KindSorts
    <3>2. leaf.kind \in KindSorts
      BY <1>1, <1>4, <2>1, <3>1 DEF PathIsWritten, KindsStay
    <3> QED BY <3>2 DEF Names, KindSorts
  <2>4. CASE ~ReadIn(full, path[m + 1])
    <3>1. Unread \/ Pair(path[m + 1]) = <<"Package", "metadata">>
      BY <1>1, <2>1, <2>4, ReadHasRule, NotReadIsUnread
    <3>2. ASSUME Pair(path[m + 1]) = <<"Package", "metadata">>
          PROVE  SortAt(path) = "Metadata"
      BY <1>1, <2>1, <3>2, MetadataEnds DEF SortAt
    <3> QED BY <1>4, <3>1, <3>2 DEF Names
  <2> QED BY <2>1, <2>2, <2>3, <2>4 DEF LetGoSlots
<1>7. ASSUME kept
      PROVE  (\E k \in 1 .. Len(element) : element[k] = Implemented) <=> Takes("Template", "implements")
  <2>1. m = Len(path)
    BY <1>2, <1>7 DEF ConvertedTo
  <2>2. ASSUME NEW k \in 1 .. Len(element), element[k] = Implemented
        PROVE  Takes("Template", "implements")
    <3>1. pos[k] \in DOMAIN path /\ Becomes(path[pos[k]], Implemented)
      BY <1>1, <1>3, <2>1, <2>2 DEF From
    <3>2. Pair(path[pos[k]]) = Implemented
      BY <3>1, RuleFacts DEF Becomes
    <3> QED BY <3>1, <3>2 DEF Takes, On, Pair, Implemented
  <2>3. ASSUME NEW i \in DOMAIN path, Pair(path[i]) = Implemented
        PROVE  \E k \in 1 .. Len(element) : element[k] = Implemented
    <3>1. PICK k \in 1 .. Len(element) : pos[k] = i
      BY <1>1, <1>3, <2>1, <2>3 DEF From, ReferringSlots, Implemented
    <3>2. Becomes(path[i], element[k])
      BY <1>3, <3>1 DEF From
    <3> QED BY <2>3, <3>2, RuleFacts DEF Becomes
  <2> QED BY <2>2, <2>3 DEF Takes, On, Pair, Implemented
<1> QED BY <1>1, <1>5, <1>6, <1>7

LEMMA VisitEndKeeps ==
  ASSUME ARInv, VisitEnd
  PROVE  ARInv'
<1> USE DEF VisitEnd
<1>1. phase \in Finished /\ phase' \in Finished /\ phase' = "visited"
  BY DEF Finished
<1>2. /\ element \in Seq(Accept \union {Implemented}) /\ Len(element) \in Nat /\ at \in 1 .. Len(element) + 1
      /\ \A i \in 1 .. at - 1 : element[i] \in Accept
  BY DEF ARInv, ElementIsOK, Progress
<1>3. Implemented \notin Accept
  BY ImplementedIsNotWalked DEF Accept
<1>4. at > Len(element) <=> ~\E k \in 1 .. Len(element) : element[k] = Implemented
  <2>1. CASE at > Len(element)
    <3>1. \A k \in 1 .. Len(element) : k \in 1 .. at - 1
      BY <1>2, <2>1
    <3> QED BY <1>2, <1>3, <2>1, <3>1
  <2>2. CASE ~(at > Len(element))
    <3>1. at \in 1 .. Len(element)
      BY <1>2, <2>2
    <3>2. element[at] \notin Accept /\ element[at] \in Accept \union {Implemented}
      BY <1>2, <3>1
    <3> QED BY <2>2, <3>1, <3>2
  <2> QED BY <2>1, <2>2
<1>5. seen' = IF Unread \/ LetGo \/ Takes("Template", "implements") THEN "none"
              ELSE IF leaf.kind = "ValueId" THEN "local_value_name"
              ELSE IF leaf.kind \in Names THEN "absolute_tycon" ELSE "none"
  <2>1. seen' = IF at > Len(element) /\ NameKept
                  THEN IF leaf.kind \in AcceptTyConName THEN "absolute_tycon"
                       ELSE IF leaf.kind \in AcceptValueName THEN "local_value_name" ELSE "none"
                  ELSE "none"
    OBVIOUS
  <2>2. CASE leaf.kind \notin Names
    BY <2>1, <2>2 DEF NameKept, Names
  <2>3. CASE leaf.kind \in Names
    <3>1. (at > Len(element) /\ NameKept) <=> ~(Unread \/ LetGo \/ Takes("Template", "implements"))
      BY <1>1, <1>4, <2>3, NamesKept DEF NameKept
    <3>2. leaf.kind \in AcceptTyConName <=> leaf.kind # "ValueId"
      BY <2>3 DEF AcceptTyConName, Names
    <3>3. leaf.kind = "ValueId" => leaf.kind \in AcceptValueName
      BY DEF AcceptValueName
    <3> QED BY <2>1, <2>3, <3>1, <3>2, <3>3
  <2> QED BY <2>2, <2>3
<1>6. SeenIsWritten'
  BY <1>5 DEF SeenIsWritten, Unread, LetGo, Takes, On, Places
<1>7. ARTypeOK'
  BY <1>5 DEF ARInv, ARTypeOK
<1>8. Progress' /\ ValidateIsTruthful'
  BY DEF Progress, ValidateIsTruthful
<1> QED BY <1>1, <1>6, <1>7, <1>8, FinishedStays DEF ARInv

----------------------------------------------------------------------------
(***************************************************************************)
(* Validation.  The beginning of an element is the beginning of the path,  *)
(* slot by slot, up to the first one that only refers to a table.          *)
(***************************************************************************)
Straight(s, pos, n) == n \in 0 .. Len(s) /\ \A k \in 1 .. n : pos[k] = k

LEMMA StraightOn ==
  ASSUME NEW f, NEW p \in Seq(Schema), NEW s, Len(s) \in Nat, NEW m, NEW pos, From(f, p, s, m, pos),
         NEW n \in Nat, Straight(s, pos, n), n + 1 \in 1 .. m, Pair(p[n + 1]) \notin ReferringSlots
  PROVE  Straight(s, pos, n + 1) /\ Becomes(p[n + 1], s[n + 1])
<1>1. pos \in [1 .. Len(s) -> 1 .. m] /\ m \in Nat /\ \A k, l \in 1 .. Len(s) : k < l => pos[k] < pos[l]
  BY DEF From
<1>2. PICK k \in 1 .. Len(s) : pos[k] = n + 1
  BY DEF From
<1>3. ~(k <= n)
  BY <1>2 DEF Straight
<1>4. ASSUME k > n + 1
      PROVE  FALSE
  <2>1. n + 1 \in 1 .. Len(s) /\ pos[n + 1] \in Nat
    BY <1>1, <1>4
  <2>2. pos[n + 1] < n + 1
    BY <1>1, <1>2, <1>4, <2>1
  <2>3. CASE n = 0
    BY <1>1, <2>1, <2>2, <2>3
  <2>4. CASE n # 0
    <3>1. n \in 1 .. Len(s) /\ n < n + 1 /\ n \in 1 .. n
      BY <2>1, <2>4
    <3>2. pos[n] < pos[n + 1] /\ pos[n] = n
      BY <1>1, <2>1, <3>1 DEF Straight
    <3> QED BY <2>1, <2>2, <3>2
  <2> QED BY <2>3, <2>4
<1>5. k = n + 1
  BY <1>2, <1>3, <1>4
<1>6. \A l \in 1 .. n + 1 : l \in 1 .. n \/ l = n + 1
  OBVIOUS
<1>7. Straight(s, pos, n + 1)
  BY <1>2, <1>5, <1>6 DEF Straight
<1>8. Becomes(p[n + 1], s[n + 1])
  BY <1>2, <1>5 DEF From
<1> QED BY <1>7, <1>8

\* What comes after the i-th slot of both: the path has references to tables until the slot that the element
\* has.
LEMMA NextOfElement ==
  ASSUME NEW f, NEW p \in Seq(Schema), NEW s, Len(s) \in Nat, NEW m, NEW pos, From(f, p, s, m, pos),
         NEW i \in 1 .. Len(s), Straight(s, pos, i)
  PROVE  /\ i < Len(s) => /\ pos[i + 1] \in i + 1 .. m /\ Becomes(p[pos[i + 1]], s[i + 1])
                          /\ \A j \in i + 1 .. pos[i + 1] - 1 : Pair(p[j]) \in ReferringSlots
         /\ i = Len(s) => \A j \in i + 1 .. m : Pair(p[j]) \in ReferringSlots
<1>1. pos \in [1 .. Len(s) -> 1 .. m] /\ m \in Nat /\ (\A k, l \in 1 .. Len(s) : k < l => pos[k] < pos[l])
        /\ pos[i] = i
  <2>1. i \in 1 .. i
    OBVIOUS
  <2> QED BY <2>1 DEF From, Straight
<1>2. ASSUME NEW j \in i + 1 .. m, Pair(p[j]) \notin ReferringSlots
      PROVE  \E k \in 1 .. Len(s) : pos[k] = j /\ k > i
  <2>1. j \in 1 .. m
    BY <1>1
  <2>2. PICK k \in 1 .. Len(s) : pos[k] = j
    BY <1>2, <2>1 DEF From
  <2>3. ASSUME k <= i
        PROVE  FALSE
    <3>1. k \in 1 .. i
      BY <2>3
    <3>2. pos[k] = k
      BY <3>1 DEF Straight
    <3> QED BY <2>2, <2>3, <3>2
  <2> QED BY <2>2, <2>3
<1>3. ASSUME i < Len(s)
      PROVE  /\ pos[i + 1] \in i + 1 .. m /\ Becomes(p[pos[i + 1]], s[i + 1])
             /\ \A j \in i + 1 .. pos[i + 1] - 1 : Pair(p[j]) \in ReferringSlots
  <2>1. i + 1 \in 1 .. Len(s)
    BY <1>3
  <2>2. pos[i + 1] \in 1 .. m /\ i < pos[i + 1]
    BY <1>1, <2>1
  <2>3. pos[i + 1] \in i + 1 .. m
    BY <1>1, <2>2
  <2>4. ASSUME NEW j \in i + 1 .. pos[i + 1] - 1, Pair(p[j]) \notin ReferringSlots
        PROVE  FALSE
    <3>1. j \in i + 1 .. m
      BY <1>1, <2>2
    <3>2. PICK k \in 1 .. Len(s) : pos[k] = j /\ k > i
      BY <1>2, <2>4, <3>1
    <3>3. k = i + 1 \/ i + 1 < k
      BY <3>2
    <3>4. pos[i + 1] <= pos[k]
      BY <1>1, <2>1, <2>2, <3>3
    <3> QED BY <2>2, <3>2, <3>4
  <2> QED BY <2>1, <2>3, <2>4 DEF From
<1>4. ASSUME i = Len(s)
      PROVE  \A j \in i + 1 .. m : Pair(p[j]) \in ReferringSlots
  BY <1>2, <1>4
<1> QED BY <1>3, <1>4

\* The slots down to a view or to the argument of a choice: they are read, kept, walked, and no references.
SureSlots ==
  { <<"Package", "modules">>, <<"Module", "interfaces">>, <<"Module", "templates">>,
    <<"DefInterface", "view">>,
    <<"Template", "choices">>, <<"DefInterface", "choices">>, <<"TemplateChoice", "arg_binder">>,
      <<"ArgBinder", "type">> }

LEMMA SureFacts ==
  /\ \A x \in SureSlots : x \notin LetGoSlots \union ReferringSlots \union NotRead \union OnlyInFull
  /\ \A x \in SureSlots : x \in ValidatedSlots /\ x[1] \in PlainKinds
BY DEF SureSlots, LetGoSlots, ReferringSlots, NotRead, OnlyInFull, ValidatedSlots, PlainKinds, DefinitionKinds

LEMMA SureSorts ==
  ASSUME NEW e \in Schema
  PROVE  /\ Pair(e) = <<"DefInterface", "view">> => e[3] = "Type"
         /\ Pair(e) = <<"TemplateChoice", "arg_binder">> => e[3] = "ArgBinder"
         /\ e[1] = "ArgBinder" => Pair(e) = <<"ArgBinder", "type">> /\ e[3] = "Type"
<1>1. CASE e \in Definitions
  BY <1>1 DEF Definitions, One, Opt, Many, Pair
<1>2. CASE e \notin Definitions
  <2>1. e[1] \notin {"DefInterface", "TemplateChoice", "ArgBinder"}
    BY <1>2, SlotFacts, TypeSlots DEF PlainKinds, DefinitionKinds, TypeAndKindKinds, WithArguments
  <2> QED BY <2>1 DEF Pair
<1> QED BY <1>1, <1>2

\* What holds of an element that is there: how much of the path has become part of it.
BuiltFrom(m, pos) ==
  /\ m \in 0 .. Len(path) /\ From(full, path, element, m, pos)
  /\ IF kept THEN m = Len(path)
     ELSE m + 1 \in 1 .. Len(path) /\ (Pair(path[m + 1]) \in LetGoSlots \/ ~ReadIn(full, path[m + 1]))

LEMMA Built ==
  ASSUME ARInv, phase \in Finished
  PROVE  /\ \E m, pos : BuiltFrom(m, pos)
         /\ path \in Seq(Schema) /\ Len(path) \in Nat /\ DOMAIN path = 1 .. Len(path)
         /\ \A i \in 1 .. Len(path) : path[i] \in Schema
         /\ Linked(path) /\ PathIsWritten /\ LeafIsWritten /\ kept \in BOOLEAN
         /\ element \in Seq(Accept \union {Implemented}) /\ Len(element) \in Nat
<1>1. PICK m \in 0 .. Len(path) : ConvertedTo(m)
  BY DEF ARInv, ElementIsOK, ElementIsConverted
<1>2. PICK pos \in [1 .. Len(element) -> 1 .. m] : From(full, path, element, m, pos)
  BY <1>1 DEF ConvertedTo
<1>3. BuiltFrom(m, pos)
  BY <1>1, <1>2 DEF ConvertedTo, BuiltFrom
<1> QED BY <1>3 DEF ARInv, ARTypeOK, ElementIsOK, PathIsWritten

LEMMA StraightTo ==
  ASSUME ARInv, phase \in Finished, NEW m, NEW pos, BuiltFrom(m, pos), NEW n \in 1 .. 5, n <= Len(path),
         \A j \in 1 .. n : Pair(path[j]) \in SureSlots
  PROVE  /\ n <= m /\ Straight(element, pos, n) /\ n \in 1 .. Len(element)
         /\ \A j \in 1 .. n : Becomes(path[j], element[j]) /\ element[j] \in Validate
<1>1. /\ path \in Seq(Schema) /\ Len(path) \in Nat /\ Len(element) \in Nat /\ m \in 0 .. Len(path)
      /\ From(full, path, element, m, pos)
  BY Built DEF BuiltFrom
<1>2. n <= m
  <2>1. ASSUME m < n
        PROVE  FALSE
    <3>1. m + 1 \in 1 .. n /\ m # Len(path)
      BY <1>1, <2>1
    <3> QED BY <3>1, SureFacts DEF BuiltFrom, ReadIn
  <2> QED BY <1>1, <2>1
<1>3. \A j \in 1 .. n : Pair(path[j]) \notin ReferringSlots
  BY SureFacts
<1>4. Straight(element, pos, 0)
  BY <1>1 DEF Straight
<1>5. ASSUME NEW j \in 0 .. 4, j + 1 <= n, Straight(element, pos, j)
      PROVE  Straight(element, pos, j + 1) /\ Becomes(path[j + 1], element[j + 1])
  <2>1. j \in Nat /\ j + 1 \in 1 .. m /\ j + 1 \in 1 .. n
    BY <1>1, <1>2, <1>5
  <2> QED BY <1>1, <1>3, <1>5, <2>1, StraightOn
<1>6. 0 \in 0 .. 4 /\ 1 \in 0 .. 4 /\ 2 \in 0 .. 4 /\ 3 \in 0 .. 4 /\ 4 \in 0 .. 4
  OBVIOUS
<1>7. /\ 1 <= n => Straight(element, pos, 1)
      /\ 2 <= n => Straight(element, pos, 2)
  BY <1>4, <1>5, <1>6
<1>8. /\ 3 <= n => Straight(element, pos, 3)
      /\ 4 <= n => Straight(element, pos, 4)
      /\ 5 <= n => Straight(element, pos, 5)
  <2>1. 3 <= n => Straight(element, pos, 3)
    BY <1>5, <1>6, <1>7
  <2>2. 4 <= n => Straight(element, pos, 4)
    BY <1>5, <1>6, <2>1
  <2>3. 5 <= n => Straight(element, pos, 5)
    BY <1>5, <1>6, <2>2
  <2> QED BY <2>1, <2>2, <2>3
<1>9. Straight(element, pos, n) /\ n \in 1 .. Len(element)
  <2>1. n = 1 \/ n = 2 \/ n = 3 \/ n = 4 \/ n = 5
    OBVIOUS
  <2>2. Straight(element, pos, n)
    BY <1>7, <1>8, <2>1
  <2> QED BY <1>1, <2>2 DEF Straight
<1>10. ASSUME NEW j \in 1 .. n
       PROVE  Becomes(path[j], element[j]) /\ element[j] \in Validate
  <2>1. j \in 1 .. Len(element) /\ pos[j] = j
    BY <1>1, <1>9 DEF Straight
  <2>2. Becomes(path[j], element[j])
    BY <1>1, <2>1 DEF From
  <2>3. PICK r \in Conversion : Pair(r) = Pair(path[j]) /\ element[j] = Into(r)
    BY <2>2 DEF Becomes
  <2>4. Pair(r) \in ValidatedSlots /\ r[1] \in PlainKinds
    BY <2>3, SureFacts DEF Pair
  <2> QED BY <2>2, <2>3, <2>4, RuleFacts
<1> QED BY <1>2, <1>9, <1>10

\* The view of an interface is the third slot of the path and of the element.
LEMMA ViewWritten ==
  ASSUME ARInv, phase \in Finished, NEW m, NEW pos, BuiltFrom(m, pos), NEW j \in DOMAIN path,
           On(j, "DefInterface", "view")
  PROVE  /\ j = 3 /\ 3 \in 1 .. Len(element) /\ Straight(element, pos, 3) /\ path[3][3] = "Type"
         /\ IsView(3) /\ \A k \in 1 .. 3 : element[k] \in Validate
<1>1. path[j] \in Schema /\ Linked(path) /\ path \in Seq(Schema) /\ DOMAIN path = 1 .. Len(path)
      /\ Len(path) \in Nat
  BY Built
<1>2. j = 3 /\ Pair(path[2]) = <<"Module", "interfaces">>
  BY <1>1, Places2 DEF On
<1>3. 1 \in DOMAIN path /\ 2 \in DOMAIN path /\ 3 <= Len(path)
  BY <1>1, <1>2
<1>4. Pair(path[1]) = <<"Package", "modules">>
  BY <1>1, <1>2, <1>3, Places1 DEF Pair
<1>5. Pair(path[3]) = <<"DefInterface", "view">>
  BY <1>2 DEF On, Pair
<1>6. \A k \in 1 .. 3 : k = 1 \/ k = 2 \/ k = 3
  OBVIOUS
<1>7. \A k \in 1 .. 3 : Pair(path[k]) \in SureSlots
  BY <1>2, <1>4, <1>5, <1>6 DEF SureSlots
<1>8. /\ 3 \in 1 .. Len(element) /\ Straight(element, pos, 3)
      /\ \A k \in 1 .. 3 : Becomes(path[k], element[k]) /\ element[k] \in Validate
  <2>1. 3 \in 1 .. 5
    OBVIOUS
  <2> QED BY <1>3, <1>7, <2>1, StraightTo
<1>9. IsView(3)
  <2>1. 3 \in 1 .. 3
    OBVIOUS
  <2>2. PICK r \in Conversion : Pair(r) = Pair(path[3]) /\ element[3] = Into(r)
    BY <1>8, <2>1 DEF Becomes
  <2> QED BY <1>5, <2>2, RuleFacts DEF IsView
<1> QED BY <1>1, <1>2, <1>5, <1>8, <1>9, SureSorts

\* The type of the argument of a choice is the fifth; there is an element for it but for orphaned templates.
LEMMA ArgumentWritten ==
  ASSUME ARInv, phase \in Finished, NEW m, NEW pos, BuiltFrom(m, pos), ~Takes("Module", "orphans"),
         NEW j \in DOMAIN path, On(j, "ArgBinder", "type")
  PROVE  /\ j = 5 /\ 5 \in 1 .. Len(element) /\ Straight(element, pos, 5) /\ path[5][3] = "Type"
         /\ IsArgument(5) /\ \A k \in 1 .. 5 : element[k] \in Validate
<1>1. path[j] \in Schema /\ Linked(path) /\ path \in Seq(Schema) /\ DOMAIN path = 1 .. Len(path)
      /\ Len(path) \in Nat
  BY Built
<1>2. j = 5 /\ Pair(path[4]) = <<"TemplateChoice", "arg_binder">>
  BY <1>1, Places3 DEF On
<1>3. 1 \in DOMAIN path /\ 2 \in DOMAIN path /\ 3 \in DOMAIN path /\ 4 \in DOMAIN path /\ 5 <= Len(path)
  BY <1>1, <1>2
<1>4. Pair(path[3]) \in {<<"Template", "choices">>, <<"DefInterface", "choices">>}
  BY <1>1, <1>2, <1>3, Places3 DEF Pair
<1>5. Pair(path[2]) \in {<<"Module", "templates">>, <<"Module", "interfaces">>}
  <2>1. Pair(path[2]) \in {<<"Module", "templates">>, <<"Module", "orphans">>, <<"Module", "interfaces">>}
    BY <1>1, <1>3, <1>4, Places2 DEF Pair
  <2> QED BY <1>3, <2>1 DEF Takes, On, Pair
<1>6. Pair(path[1]) = <<"Package", "modules">>
  BY <1>1, <1>3, <1>5, Places1 DEF Pair
<1>7. Pair(path[5]) = <<"ArgBinder", "type">>
  BY <1>2 DEF On, Pair
<1>8. \A k \in 1 .. 5 : k = 1 \/ k = 2 \/ k = 3 \/ k = 4 \/ k = 5
  OBVIOUS
<1>9. \A k \in 1 .. 5 : Pair(path[k]) \in SureSlots
  BY <1>2, <1>4, <1>5, <1>6, <1>7, <1>8 DEF SureSlots
<1>10. /\ 5 \in 1 .. Len(element) /\ Straight(element, pos, 5)
       /\ \A k \in 1 .. 5 : Becomes(path[k], element[k]) /\ element[k] \in Validate
  <2>1. 5 \in 1 .. 5
    OBVIOUS
  <2> QED BY <1>3, <1>9, <2>1, StraightTo
<1>11. IsArgument(5)
  <2>1. 4 \in 1 .. 5 /\ 5 \in 1 .. 5 /\ 5 > 1 /\ 5 - 1 = 4
    OBVIOUS
  <2>2. PICK r \in Conversion : Pair(r) = Pair(path[4]) /\ element[4] = Into(r)
    BY <1>10, <2>1 DEF Becomes
  <2>3. PICK s \in Conversion : Pair(s) = Pair(path[5]) /\ element[5] = Into(s)
    BY <1>10, <2>1 DEF Becomes
  <2>4. element[4] = <<"Choice", "fields">>
    BY <1>2, <2>2, RuleFacts
  <2>5. element[5] = <<"Field", "ty">>
    BY <1>7, <2>3, RuleFacts
  <2> QED BY <2>1, <2>4, <2>5 DEF IsArgument
<1> QED BY <1>1, <1>2, <1>7, <1>10, <1>11, SureSorts DEF Pair

LEMMA ViewBuilt ==
  ASSUME ARInv, phase \in Finished, NEW m, NEW pos, BuiltFrom(m, pos), NEW i \in 1 .. Len(element), IsView(i)
  PROVE  i = 3 /\ 3 \in DOMAIN path /\ On(3, "DefInterface", "view")
<1>1. DOMAIN path = 1 .. Len(path) /\ Len(path) \in Nat /\ Len(element) \in Nat /\ m \in 0 .. Len(path)
  BY Built DEF BuiltFrom
<1>2. /\ pos \in [1 .. Len(element) -> 1 .. m] /\ (\A k, l \in 1 .. Len(element) : k < l => pos[k] < pos[l])
      /\ Becomes(path[pos[i]], element[i])
  BY DEF BuiltFrom, From
<1>3. PICK r \in Conversion : Pair(r) = Pair(path[pos[i]]) /\ element[i] = Into(r)
  BY <1>2 DEF Becomes
<1>4. Pair(path[pos[i]]) = <<"DefInterface", "view">>
  BY <1>3, RuleFacts DEF IsView
<1>5. pos[i] \in DOMAIN path /\ On(pos[i], "DefInterface", "view")
  BY <1>1, <1>2, <1>4 DEF On, Pair
<1>6. pos[i] = 3 /\ 3 \in 1 .. Len(element) /\ pos[3] = 3
  <2>1. 3 \in 1 .. 3
    OBVIOUS
  <2> QED BY <1>5, <2>1, ViewWritten DEF Straight
<1>7. i = 3
  BY <1>2, <1>6
<1> QED BY <1>5, <1>6, <1>7

LEMMA ArgumentBuilt ==
  ASSUME ARInv, phase \in Finished, NEW m, NEW pos, BuiltFrom(m, pos), NEW i \in 1 .. Len(element),
           IsArgument(i)
  PROVE  i = 5 /\ 5 \in DOMAIN path /\ On(5, "ArgBinder", "type") /\ ~Takes("Module", "orphans")
<1>1. /\ DOMAIN path = 1 .. Len(path) /\ Len(path) \in Nat /\ Len(element) \in Nat /\ m \in 0 .. Len(path)
      /\ path \in Seq(Schema) /\ Linked(path)
  BY Built DEF BuiltFrom
<1>2. i - 1 \in 1 .. Len(element) /\ i - 1 < i
  BY <1>1 DEF IsArgument
<1>3. /\ pos \in [1 .. Len(element) -> 1 .. m] /\ (\A k, l \in 1 .. Len(element) : k < l => pos[k] < pos[l])
      /\ Becomes(path[pos[i - 1]], element[i - 1])
      /\ \A j \in 1 .. m : ReadIn(full, path[j])
  BY <1>2 DEF BuiltFrom, From
<1>4. PICK r \in Conversion : Pair(r) = Pair(path[pos[i - 1]]) /\ element[i - 1] = Into(r)
  BY <1>3 DEF Becomes
<1>5. pos[i - 1] \in DOMAIN path /\ Pair(path[pos[i - 1]]) = <<"TemplateChoice", "arg_binder">>
  <2>1. element[i - 1] = <<"Choice", "fields">>
    BY DEF IsArgument
  <2>2. Pair(r) = <<"TemplateChoice", "arg_binder">>
    BY <1>4, <2>1, RuleFacts
  <2>3. pos[i - 1] \in 1 .. m
    BY <1>2, <1>3
  <2> QED BY <1>1, <1>4, <2>2, <2>3
<1>6. pos[i - 1] = 4 /\ Pair(path[3]) \in {<<"Template", "choices">>, <<"DefInterface", "choices">>}
  BY <1>1, <1>5, Places3 DEF Pair
<1>7. m > 4 /\ 5 \in DOMAIN path /\ 5 \in 1 .. m /\ 2 \in 1 .. m
  <2>1. pos[i - 1] < pos[i] /\ pos[i] \in 1 .. m
    BY <1>2, <1>3
  <2> QED BY <1>1, <1>6, <2>1
<1>8. ~Takes("Module", "orphans")
  <2>1. ASSUME NEW j \in DOMAIN path, On(j, "Module", "orphans")
        PROVE  FALSE
    <3>1. j = 2
      BY <1>1, <2>1, Places1 DEF On
    <3> QED BY <1>3, <1>7, <2>1, <3>1 DEF On, ReadIn, NotRead, Pair
  <2> QED BY <2>1 DEF Takes
<1>9. On(5, "ArgBinder", "type")
  <2>1. path[4] \in Schema /\ path[5] \in Schema
    BY <1>1, <1>7
  <2>2. path[4][3] = "ArgBinder"
    BY <1>5, <1>6, <2>1, SureSorts
  <2>3. 5 # 1 /\ 5 - 1 = 4
    OBVIOUS
  <2>4. path[5][1] \in KindsOf(path[4][3])
    BY <1>1, <1>7, <2>3, Above
  <2>5. path[5][1] = "ArgBinder"
    BY <2>2, <2>4, KindsOfSorts
  <2> QED BY <2>1, <2>5, SureSorts DEF On, Pair
<1>10. i = 5
  <2>1. 5 \in 1 .. Len(element) /\ pos[4] = 4 /\ 4 \in 1 .. Len(element)
    <3>1. 5 \in 1 .. Len(element) /\ Straight(element, pos, 5)
      BY <1>7, <1>8, <1>9, ArgumentWritten
    <3>2. 4 \in 1 .. 5
      OBVIOUS
    <3> QED BY <1>1, <3>1, <3>2 DEF Straight
  <2>2. i - 1 = 4
    BY <1>1, <1>2, <1>3, <1>6, <2>1
  <2> QED BY <1>2, <2>2
<1> QED BY <1>7, <1>8, <1>9, <1>10

\* The type in slot i of the path leads to no record, if the name at the end of the path leads to t.
NoRecordFor(i, t) ==
  \/ \A j \in Below(i) : path[j][1] # "Con"
  \/ t # "record" /\ \E j \in Below(i) : On(j, "Con", "tycon")

\* The type that follows in the element is the first one of the path that is not in a table.
LEMMA TypeResolves ==
  ASSUME ARInv, phase \in Finished, NEW m, NEW pos, BuiltFrom(m, pos), NEW i \in 1 .. Len(element),
         Straight(element, pos, i), path[i][3] = "Type", NEW t
  PROVE  ResolvesToRecord(i, t) <=> ~NoRecordFor(i, t)
<1>1. /\ DOMAIN path = 1 .. Len(path) /\ Len(path) \in Nat /\ Len(element) \in Nat /\ m \in 0 .. Len(path)
      /\ path \in Seq(Schema) /\ (\A j \in 1 .. Len(path) : path[j] \in Schema) /\ TypesFollow(path)
      /\ From(full, path, element, m, pos)
  BY Built DEF BuiltFrom, PathIsWritten
<1>2. i \in 1 .. m
  <2>1. pos[i] \in 1 .. m /\ i \in 1 .. i
    BY <1>1 DEF From
  <2> QED BY <2>1 DEF Straight
<1>3. CASE i < Len(element)
  <2> DEFINE q == pos[i + 1]
  <2>1. /\ q \in i + 1 .. m /\ Becomes(path[q], element[i + 1])
        /\ \A j \in i + 1 .. q - 1 : Pair(path[j]) \in ReferringSlots
    BY <1>1, <1>3, NextOfElement
  <2> HIDE DEF q
  <2>2. PICK r \in Conversion : Pair(r) = Pair(path[q]) /\ r[3] \notin {"none", "same"}
               /\ element[i + 1] = Into(r)
    BY <2>1 DEF Becomes
  <2>3. q \in 1 .. Len(path) /\ i \in 1 .. Len(path) /\ i < q
    BY <1>1, <1>2, <2>1
  <2>4. \A j \in i + 1 .. q : path[j][1] \in TypesThere
    <3> SUFFICES ASSUME NEW j \in i + 1 .. q
                 PROVE  path[j][1] \in TypesThere
      OBVIOUS
    <3>1. \A n \in i + 1 .. j - 1 : n \in i + 1 .. q - 1
      BY <1>1, <2>3
    <3>2. j \in 1 .. Len(path) /\ i < j
      BY <1>1, <2>3
    <3> QED BY <1>1, <2>1, <2>3, <3>1, <3>2 DEF TypesFollow
  <2>5. \A j \in i + 1 .. q - 1 : path[j][1] = "InternedType"
    <3> SUFFICES ASSUME NEW j \in i + 1 .. q - 1
                 PROVE  path[j][1] = "InternedType"
      OBVIOUS
    <3>1. j \in 1 .. Len(path) /\ j \in i + 1 .. q
      BY <1>1, <2>3
    <3> QED BY <1>1, <2>1, <2>4, <3>1, TypeReferences
  <2>6. path[q][1] # "InternedType"
    <3>1. Pair(path[q]) \notin ReferringSlots
      BY <2>2, RuleFacts
    <3>2. q \in i + 1 .. q /\ path[q] \in Schema
      BY <1>1, <2>1, <2>3
    <3> QED BY <2>4, <3>1, <3>2, TypeReferences
  <2>7. q \in Below(i) /\ \A j \in Below(i) : j = q \/ j \in i + 1 .. q - 1
    <3>1. q \in Below(i)
      BY <1>1, <2>1, <2>5 DEF Below
    <3>2. ASSUME NEW j \in Below(i), j > q
          PROVE  FALSE
      <4>1. j \in i + 1 .. Len(path) /\ \A n \in i + 1 .. j - 1 : path[n][1] = "InternedType"
        BY DEF Below
      <4>2. q \in i + 1 .. j - 1
        BY <1>1, <2>1, <3>2, <4>1
      <4> QED BY <2>6, <4>1, <4>2
    <3>3. \A j \in Below(i) : j \in i + 1 .. Len(path)
      BY DEF Below
    <3> QED BY <1>1, <2>1, <3>1, <3>2, <3>3
  <2>8. /\ (\A j \in Below(i) : path[j][1] # "Con") <=> path[q][1] # "Con"
        /\ (\E j \in Below(i) : On(j, "Con", "tycon")) <=> Pair(path[q]) = <<"Con", "tycon">>
    BY <2>5, <2>7 DEF On, Pair
  <2>9. NoRecordFor(i, t) <=> path[q][1] # "Con" \/ (t # "record" /\ Pair(path[q]) = <<"Con", "tycon">>)
    BY <2>8 DEF NoRecordFor
  <2>10. ResolvesToRecord(i, t) <=> r[3] = "TyCon" /\ (Into(r) = <<"TyCon", "tycon">> => t = "record")
    <3>1. element[i + 1][1] = r[3] /\ element[i + 1][2] = r[4]
      BY <2>2 DEF Into
    <3> QED BY <1>3, <3>1 DEF ResolvesToRecord, Into
  <2>11. /\ r[3] = "TyCon" <=> path[q][1] = "Con"
         /\ Into(r) = <<"TyCon", "tycon">> <=> Pair(path[q]) = <<"Con", "tycon">>
    <3>1. /\ r[3] = "TyCon" <=> r[1] = "Con"
          /\ Into(r) = <<"TyCon", "tycon">> <=> Pair(r) = <<"Con", "tycon">>
      BY RuleFacts
    <3>2. r[1] = path[q][1]
      BY <2>2 DEF Pair
    <3> QED BY <2>2, <3>1, <3>2
  <2> QED BY <2>9, <2>10, <2>11
<1>4. CASE i = Len(element)
  <2>1. ~ResolvesToRecord(i, t)
    BY <1>4, <1>1 DEF ResolvesToRecord
  <2>2. ASSUME NEW j \in Below(i), path[j][1] = "Con"
        PROVE  FALSE
    <3>1. j \in i + 1 .. Len(path) /\ \A n \in i + 1 .. j - 1 : path[n][1] = "InternedType"
      BY DEF Below
    <3>2. \A n \in i + 1 .. m : Pair(path[n]) \in ReferringSlots
      BY <1>1, <1>4, NextOfElement
    <3>3. Pair(path[j]) \notin ReferringSlots
      BY <2>2 DEF Pair, ReferringSlots
    <3>4. j > m
      BY <1>1, <1>2, <3>1, <3>2, <3>3
    <3>5. m + 1 = j \/ m + 1 \in i + 1 .. j - 1
      BY <1>1, <1>2, <3>1, <3>4
    <3>6. path[m + 1][1] \in {"InternedType", "Con"}
      BY <2>2, <3>1, <3>5
    <3>7. m # Len(path)
      BY <1>1, <3>1, <3>4
    <3>8. Pair(path[m + 1]) \notin LetGoSlots \union NotRead \union OnlyInFull
      BY <3>6 DEF Pair, LetGoSlots, NotRead, OnlyInFull
    <3> QED BY <3>7, <3>8 DEF BuiltFrom, ReadIn
  <2> QED BY <2>1, <2>2 DEF NoRecordFor
<1> QED BY <1>1, <1>3, <1>4

WholeIsWalked == kept /\ \A i \in 1 .. Len(element) : element[i] \in Validate

\* The walk comes to the name at the end of the path or it does not, as the path is written.
LEMMA NamesWalked ==
  ASSUME ARInv, phase \in Finished, leaf.kind \in Names
  PROVE  WholeIsWalked <=> Walked
<1>1. PICK m, pos : BuiltFrom(m, pos)
  BY Built
<1>2. /\ DOMAIN path = 1 .. Len(path) /\ Len(path) \in Nat /\ Len(element) \in Nat /\ m \in 0 .. Len(path)
      /\ path \in Seq(Schema) /\ (\A j \in 1 .. Len(path) : path[j] \in Schema) /\ Linked(path)
      /\ PathIsWritten /\ From(full, path, element, m, pos) /\ pos \in [1 .. Len(element) -> 1 .. m]
  BY <1>1, Built DEF BuiltFrom, From
<1>3. SortAt(path) = leaf.kind
  BY <1>2, Built, LeafFacts DEF Finished
<1>4. path # <<>> /\ 1 \in DOMAIN path /\ Len(path) # 1 => 2 \in DOMAIN path
  BY <1>2
<1>5. path # <<>> /\ 1 \in DOMAIN path /\ SortAt(path) = path[Len(path)][3]
  <2>1. path # <<>>
    BY <1>3 DEF SortAt, Names
  <2> QED BY <1>2, <2>1 DEF SortAt
<1>6. ASSUME WholeIsWalked
      PROVE  Walked
  <2>1. m = Len(path) /\ kept
    BY <1>1, <1>6 DEF BuiltFrom, WholeIsWalked
  <2>2. ~(Unread \/ LetGo)
    BY <1>6, <2>1, NamesKept
  <2>3. Implemented \notin Validate
    BY DEF Implemented, Validate, ValidateModule, ValidateData, ValidateTemplate, ValidateInterface,
           ValidateChoice, ValidateType, Slots
  <2>4. ~Takes("Template", "implements")
    BY <1>6, <2>1, <2>3, NamesKept DEF WholeIsWalked
  <2>5. ASSUME NEW j \in DOMAIN path, path[j][1] \in PlainKinds
        PROVE  Pair(path[j]) \in ValidatedSlots \union ReferringSlots
    <3>1. CASE \E k \in 1 .. Len(element) : pos[k] = j
      <4>1. PICK k \in 1 .. Len(element) : pos[k] = j
        BY <3>1
      <4>2. PICK r \in Conversion : Pair(r) = Pair(path[j]) /\ element[k] = Into(r)
        BY <1>2, <4>1 DEF From, Becomes
      <4>3. Into(r) \in Validate /\ r[1] \in PlainKinds
        BY <1>6, <2>5, <4>2 DEF WholeIsWalked, Pair
      <4> QED BY <4>2, <4>3, RuleFacts
    <3>2. CASE Pair(path[j]) \in ReferringSlots
      BY <3>2
    <3> QED BY <1>2, <2>1, <3>1, <3>2 DEF From
  <2>6. ASSUME NEW j \in DOMAIN path, BeginsExpr(path[j])
        PROVE  FALSE
    <3>1. path[j] \in Definitions /\ path[j][3] = "Expr" /\ path[j][1] \in PlainKinds
      BY <2>6, DefinitionSlots DEF BeginsExpr, PlainKinds
    <3> QED BY <2>5, <3>1, ExpressionsOfDefinitions
  <2>7. \A j \in DOMAIN path : path[j] \notin ExprSlots /\ path[j][3] # "Expr"
    <3> SUFFICES ASSUME NEW j \in DOMAIN path, path[j] \in ExprSlots \/ path[j][3] = "Expr"
                 PROVE  FALSE
      OBVIOUS
    <3>1. PICK n \in 1 .. j : BeginsExpr(path[n])
      BY <1>2 DEF PathIsWritten, ExprsBegin
    <3>2. n \in DOMAIN path
      BY <1>2
    <3> QED BY <2>6, <3>1, <3>2
  <2>8. Places(path, {"Expr"}) = 0
    <3>1. Places(path, {"Expr"}) \in Nat /\ ~(Places(path, {"Expr"}) > 0)
      BY <1>2, <2>7, PlacesFound, SMTT(30)
    <3> QED BY <3>1
  <2>9. \A j \in DOMAIN path : Pair(path[j]) \in ValidatedSlots \union ReferringSlots
    BY <1>2, <2>5, <2>7, SlotFacts
  <2>10. ~Takes("Syn", "tysyn")
    <3>1. <<"Syn", "tysyn">> \notin ValidatedSlots \union ReferringSlots
      BY DEF ValidatedSlots, ReferringSlots, KeptArguments
    <3> QED BY <2>9, <3>1 DEF Takes, On, Pair
  <2>11. \E s \in {"data_types", "templates", "interfaces"} : Takes("Module", s)
    <3>1. path[1][1] = "Package" /\ path[1] \in Schema
      BY <1>2, <1>5, Above
    <3>2. path[1][3] = "Module"
      <4>1. <<"Package", "metadata">> \notin ValidatedSlots \union ReferringSlots
        BY DEF ValidatedSlots, ReferringSlots, KeptArguments
      <4> QED BY <1>5, <2>9, <3>1, <4>1, SortFacts
    <3>3. 2 \in DOMAIN path
      <4>1. Len(path) # 1
        BY <1>3, <1>5, <3>2 DEF Names
      <4> QED BY <1>4, <1>5, <4>1
    <3>4. path[2][1] = "Module"
      <4>1. 2 # 1 /\ 2 - 1 = 1
        OBVIOUS
      <4>2. path[2][1] \in KindsOf(path[1][3])
        BY <1>2, <3>3, <4>1, Above
      <4> QED BY <3>2, <4>2, KindsOfSorts
    <3>5. Pair(path[2]) \in {<<"Module", "data_types">>, <<"Module", "templates">>,
            <<"Module", "interfaces">>}
      BY <2>9, <3>3, <3>4 DEF Pair, ValidatedSlots, ReferringSlots, KeptArguments
    <3> QED BY <3>3, <3>5 DEF Takes, On, Pair
  <2> QED BY <2>2, <2>4, <2>8, <2>10, <2>11 DEF Walked
<1>7. ASSUME Walked
      PROVE  WholeIsWalked
  <2>1. kept /\ m = Len(path)
    BY <1>1, <1>7, NamesKept DEF Walked, BuiltFrom
  <2>2. \A j \in DOMAIN path : path[j][3] # "Expr"
    BY <1>2, <1>7, PlacesFound DEF Walked
  <2>3. \A j \in DOMAIN path : path[j] \notin ExprSlots
    <3> SUFFICES ASSUME NEW j \in DOMAIN path, path[j] \in ExprSlots
                 PROVE  FALSE
      OBVIOUS
    <3>1. PICK n \in 1 .. j : BeginsExpr(path[n])
      BY <1>2 DEF PathIsWritten, ExprsBegin
    <3>2. n \in DOMAIN path
      BY <1>2
    <3> QED BY <2>2, <3>1, <3>2 DEF BeginsExpr
  <2>4. /\ 2 \in DOMAIN path
        /\ Pair(path[2]) \in {<<"Module", "data_types">>, <<"Module", "templates">>,
             <<"Module", "interfaces">>}
    <3>1. PICK s \in {"data_types", "templates", "interfaces"} : Takes("Module", s)
      BY <1>7 DEF Walked
    <3>2. PICK i \in DOMAIN path : On(i, "Module", s)
      BY <3>1 DEF Takes
    <3>3. i = 2
      BY <1>2, <3>2, Places1 DEF On
    <3> QED BY <3>2, <3>3 DEF On, Pair
  <2>5. ASSUME NEW k \in 1 .. Len(element)
        PROVE  element[k] \in Validate
    <3>1. PICK j \in DOMAIN path : j = pos[k]
      BY <1>2, <2>1
    <3>2. PICK r \in Conversion : Pair(r) = Pair(path[j]) /\ r[3] \notin {"none", "same"}
                 /\ element[k] = Into(r)
      BY <1>2, <3>1 DEF From, Becomes
    <3>3. path[j] \in Definitions \union Types /\ path[j][1] \in PlainKinds
      BY <1>2, <2>3, SlotFacts
    <3>4. Pair(path[j]) \notin ReferringSlots \union LetGoSlots \union NotRead
      BY <3>2, RuleFacts
    <3>5. path[j][3] \notin {"Expr", "TypeVarWithKind", "Kind"}
      <4>1. path[j][3] \notin KindSorts
        BY <1>2, <1>3 DEF PathIsWritten, KindsStay, KindSorts, Names
      <4> QED BY <2>2, <4>1 DEF KindSorts
    <3>6. path[j][1] \notin {"DefTypeSyn", "DefValue", "DefException"}
      BY <1>2, <2>4, Places2
    <3>7. Pair(path[j]) \notin {<<"Module", "synonyms">>, <<"Module", "values">>, <<"Module", "exceptions">>}
      <4>1. path[j][1] = "Module" => j = 2
        BY <1>2, Places1
      <4> QED BY <2>4, <4>1 DEF Pair
    <3>8. Pair(path[j]) \notin {Implemented, <<"Syn", "tysyn">>}
      BY <1>7 DEF Walked, Takes, On, Pair, Implemented
    <3>9. Pair(r) \in ValidatedSlots /\ r[1] \in PlainKinds
      BY <3>2, <3>3, <3>4, <3>5, <3>6, <3>7, <3>8, SlotClasses DEF Pair
    <3> QED BY <3>2, <3>9, RuleFacts
  <2> QED BY <2>1, <2>5 DEF WholeIsWalked
<1> QED BY <1>6, <1>7

BadView(t) == \E i \in DOMAIN path : On(i, "DefInterface", "view") /\ NoRecordFor(i, t)
BadArgument(t) == \E i \in DOMAIN path : On(i, "ArgBinder", "type") /\ NoRecordFor(i, t)

WalkedTo(i) == i \in 0 .. Len(element) /\ \A k \in 1 .. i : element[k] \in Validate
Bad(i, t) == i # 0 /\ WalkedTo(i) /\ (IsArgument(i) \/ IsView(i)) /\ ~ResolvesToRecord(i, t)

LEMMA ViewsFound ==
  ASSUME ARInv, phase \in Finished, NEW t
  PROVE  (\E i : Bad(i, t) /\ IsView(i)) <=> BadView(t)
<1>1. PICK m, pos : BuiltFrom(m, pos)
  BY Built
<1>2. Len(element) \in Nat
  BY Built
<1>3. ASSUME NEW i, Bad(i, t), IsView(i)
      PROVE  BadView(t)
  <2>1. i \in 1 .. Len(element)
    BY <1>2, <1>3 DEF Bad, WalkedTo
  <2>2. i = 3 /\ 3 \in DOMAIN path /\ On(3, "DefInterface", "view")
    BY <1>1, <1>3, <2>1, ViewBuilt
  <2>3. Straight(element, pos, 3) /\ path[3][3] = "Type"
    BY <1>1, <2>2, ViewWritten
  <2>4. NoRecordFor(3, t)
    BY <1>1, <1>3, <2>1, <2>2, <2>3, TypeResolves DEF Bad
  <2> QED BY <2>2, <2>4 DEF BadView
<1>4. ASSUME NEW j \in DOMAIN path, On(j, "DefInterface", "view"), NoRecordFor(j, t)
      PROVE  \E i : Bad(i, t) /\ IsView(i)
  <2>1. /\ j = 3 /\ 3 \in 1 .. Len(element) /\ Straight(element, pos, 3) /\ path[3][3] = "Type"
        /\ IsView(3) /\ \A k \in 1 .. 3 : element[k] \in Validate
    BY <1>1, <1>4, ViewWritten
  <2>2. ~ResolvesToRecord(3, t)
    BY <1>1, <1>4, <2>1, TypeResolves
  <2>3. Bad(3, t)
    BY <1>2, <2>1, <2>2 DEF Bad, WalkedTo
  <2> QED BY <2>1, <2>3
<1> QED BY <1>3, <1>4 DEF BadView

LEMMA ArgumentsFound ==
  ASSUME ARInv, phase \in Finished, NEW t
  PROVE  (\E i : Bad(i, t) /\ IsArgument(i)) <=> BadArgument(t) /\ ~Takes("Module", "orphans")
<1>1. PICK m, pos : BuiltFrom(m, pos)
  BY Built
<1>2. Len(element) \in Nat
  BY Built
<1>3. ASSUME NEW i, Bad(i, t), IsArgument(i)
      PROVE  BadArgument(t) /\ ~Takes("Module", "orphans")
  <2>1. i \in 1 .. Len(element)
    BY <1>2, <1>3 DEF Bad, WalkedTo
  <2>2. i = 5 /\ 5 \in DOMAIN path /\ On(5, "ArgBinder", "type") /\ ~Takes("Module", "orphans")
    BY <1>1, <1>3, <2>1, ArgumentBuilt
  <2>3. Straight(element, pos, 5) /\ path[5][3] = "Type"
    BY <1>1, <2>2, ArgumentWritten
  <2>4. NoRecordFor(5, t)
    BY <1>1, <1>3, <2>1, <2>2, <2>3, TypeResolves DEF Bad
  <2> QED BY <2>2, <2>4 DEF BadArgument
<1>4. ASSUME NEW j \in DOMAIN path, On(j, "ArgBinder", "type"), NoRecordFor(j, t), ~Takes("Module", "orphans")
      PROVE  \E i : Bad(i, t) /\ IsArgument(i)
  <2>1. /\ j = 5 /\ 5 \in 1 .. Len(element) /\ Straight(element, pos, 5) /\ path[5][3] = "Type"
        /\ IsArgument(5) /\ \A k \in 1 .. 5 : element[k] \in Validate
    BY <1>1, <1>4, ArgumentWritten
  <2>2. ~ResolvesToRecord(5, t)
    BY <1>1, <1>4, <2>1, TypeResolves
  <2>3. Bad(5, t)
    BY <1>2, <2>1, <2>2 DEF Bad, WalkedTo
  <2> QED BY <2>1, <2>3
<1> QED BY <1>3, <1>4 DEF BadArgument

\* A template that has no record is not read at all, and so neither a view nor a name below it.
LEMMA OrphansUnread ==
  ASSUME ARInv, phase \in Finished, Takes("Module", "orphans"), NEW t
  PROVE  ~BadView(t) /\ ~Walked
<1>1. path \in Seq(Schema) /\ Linked(path)
  BY Built
<1>2. PICK i \in DOMAIN path : On(i, "Module", "orphans")
  BY DEF Takes
<1>3. i = 2
  BY <1>1, <1>2, Places1 DEF On
<1>4. ASSUME NEW j \in DOMAIN path, On(j, "DefInterface", "view")
      PROVE  FALSE
  BY <1>1, <1>2, <1>3, <1>4, Places2 DEF On, Pair
<1> QED BY <1>4 DEF BadView, Walked, Unread

\* What validate returns, in terms of what is written.
Truth(t) ==
  IF Takes("Module", "orphans") THEN "none"
  ELSE IF BadView(t) THEN "UnexpectedType"
  ELSE IF BadArgument(t) THEN "UnexpectedChoiceData"
  ELSE IF Walked /\ leaf.kind \in Names /\ t \notin {"record", "other_data", "interface"}
       THEN MissingError[t] ELSE "none"

LEMMA ErrorsAreTrue ==
  ASSUME ARInv, phase \in Finished, NEW t \in Targets
  PROVE  ValidateElement(t) = Truth(t)
<1> DEFINE walked == {n \in 0 .. Len(element) : \A i \in 1 .. n : element[i] \in Validate}
           bad == {i \in walked \ {0} : (IsArgument(i) \/ IsView(i)) /\ ~ResolvesToRecord(i, t)}
<1>1. ValidateElement(t) =
        IF \E i \in bad : IsView(i) THEN "UnexpectedType"
        ELSE IF bad # {} THEN "UnexpectedChoiceData"
        ELSE IF Len(element) \in walked /\ NameKept THEN ValidateTyConName(t) ELSE "none"
  BY DEF ValidateElement
<1>2. Len(element) \in 0 .. Len(element)
  BY Built
<1>3. (Len(element) \in walked /\ NameKept) <=> (Walked /\ leaf.kind \in Names)
  BY <1>2, NamesWalked DEF NameKept, WholeIsWalked
<1>4. \A i : i \in bad <=> Bad(i, t)
  BY DEF Bad, WalkedTo
<1> HIDE DEF walked, bad
<1>5. (\E i \in bad : IsView(i)) <=> BadView(t)
  BY <1>4, ViewsFound
<1>6. bad # {} <=> BadView(t) \/ (BadArgument(t) /\ ~Takes("Module", "orphans"))
  <2>1. bad # {} <=> (\E i : Bad(i, t) /\ IsView(i)) \/ (\E i : Bad(i, t) /\ IsArgument(i))
    BY <1>4 DEF Bad
  <2> QED BY <2>1, ViewsFound, ArgumentsFound
<1>7. ValidateTyConName(t) = IF t \in {"record", "other_data", "interface"} THEN "none" ELSE MissingError[t]
  BY DEF ValidateTyConName, MissingError, Targets
<1> QED BY <1>1, <1>3, <1>5, <1>6, <1>7, OrphansUnread DEF Truth

LEMMA RunValidateKeeps ==
  ASSUME ARInv, RunValidate
  PROVE  ARInv'
<1> USE DEF RunValidate
<1>1. phase \in Finished /\ phase' \in Finished /\ phase' = "validated"
      /\ UNCHANGED <<full, path, leaf, at, element, kept, seen>>
  BY DEF Finished
<1>2. PICK t \in Targets : target' = t /\ error' = Truth(t)
  <2>1. PICK t \in TargetsOf(leaf.kind) : target' = t /\ error' = ValidateElement(t)
    OBVIOUS
  <2>2. t \in Targets
    BY <2>1 DEF TargetsOf, Targets
  <2> QED
    BY <1>1, <2>1, <2>2, ErrorsAreTrue
<1>3. ValidateIsTruthful'
  <2>1. Takes("Module", "orphans")' <=> Takes("Module", "orphans")
    BY <1>1 DEF Takes, On
  <2>2. \A i : NoRecord(i)' <=> NoRecordFor(i, t)
    BY <1>1, <1>2 DEF NoRecord, NoRecordFor, Below, On
  <2>3. (WrongView' <=> BadView(t)) /\ (WrongArgument' <=> BadArgument(t))
    BY <1>1, <2>2 DEF WrongView, WrongArgument, BadView, BadArgument, On
  <2>4. Walked' <=> Walked
    BY <1>1 DEF Walked, Takes, On, Unread, LetGo, Places
  <2>5. Leads' <=> t \in {"record", "other_data", "interface"}
    BY <1>2 DEF Leads
  <2>6. error' = IF Takes("Module", "orphans")' THEN "none"
                 ELSE IF WrongView' THEN "UnexpectedType"
                 ELSE IF WrongArgument' THEN "UnexpectedChoiceData"
                 ELSE IF Walked' /\ leaf'.kind \in Names /\ ~Leads' THEN MissingError[target'] ELSE "none"
    BY <1>1, <1>2, <2>1, <2>3, <2>4, <2>5 DEF Truth
  <2> QED BY <2>6 DEF ValidateIsTruthful
<1>4. ARTypeOK'
  BY <1>1, <1>2 DEF ARInv, ARTypeOK
<1>5. Progress' /\ SeenIsWritten'
  BY <1>1 DEF Progress, SeenIsWritten
<1> QED BY <1>1, <1>3, <1>4, <1>5, FinishedStays DEF ARInv

----------------------------------------------------------------------------
\* The invariant holds however deep the types and the expressions of a package are.
LEMMA ArchiveInvariance ==
  ARSpec => []ARInv
<1>1. ARInv /\ [ARNext]_arVars => ARInv'
  <2> SUFFICES ASSUME ARInv, [ARNext]_arVars
               PROVE  ARInv'
    OBVIOUS
  <2>1. CASE Descend
    BY <2>1, DescendKeeps
  <2>2. CASE EndPath
    BY <2>2, EndPathKeeps
  <2>3. CASE TakeUp
    BY <2>3, TakeUpKeeps
  <2>4. CASE ConvertSlot
    BY <2>4, ConvertSlotKeeps
  <2>5. CASE SkipSlot
    BY <2>5, SkipSlotKeeps
  <2>6. CASE ConvertEnd
    BY <2>6, ConvertEndKeeps
  <2>7. CASE StartVisit
    BY <2>7, StartVisitKeeps
  <2>8. CASE VisitSlot
    BY <2>8, VisitSlotKeeps
  <2>9. CASE VisitEnd
    BY <2>9, VisitEndKeeps
  <2>10. CASE RunValidate
    BY <2>10, RunValidateKeeps
  <2>11. CASE UNCHANGED arVars
    <3> USE <2>11 DEF arVars
    <3>1. ARTypeOK' /\ PathIsWritten' /\ LeafIsWritten'
      BY DEF ARInv, ARTypeOK, PathIsWritten, LeafIsWritten
    <3>2. Progress'
      BY DEF ARInv, Progress, NoMetadata, NoFlags, IsRead
    <3>3. ElementIsOK'
      BY DEF ARInv, ElementIsOK, ElementIsConverted, ConvertedTo
    <3>4. RefusedExactlyForFlaws'
      BY DEF ARInv, RefusedExactlyForFlaws, SomethingWrong, Unread, Takes, On, Places
    <3>5. SeenIsWritten'
      BY DEF ARInv, SeenIsWritten, Unread, LetGo, Takes, On, Places
    <3>6. ValidateIsTruthful'
      BY DEF ARInv, ValidateIsTruthful, WrongView, WrongArgument, NoRecord, Below, Walked, Leads, Unread,
             LetGo, Takes, On, Places
    <3> QED BY <3>1, <3>2, <3>3, <3>4, <3>5, <3>6 DEF ARInv
  <2> QED BY <2>1, <2>2, <2>3, <2>4, <2>5, <2>6, <2>7, <2>8, <2>9, <2>10, <2>11 DEF ARNext
<1> QED BY <1>1, ArchiveInit, PTL DEF ARSpec

(***************************************************************************)
(* What a reader keeps of a package, what it shows and what it returns are *)
(* of their types, at every nesting of types and expressions.              *)
(***************************************************************************)
THEOREM ArchiveTypeCorrect == ARSpec => []ARTypeOK
<1>1. ARInv => ARTypeOK
  BY DEF ARInv
<1> QED BY <1>1, ArchiveInvariance, PTL

(***************************************************************************)
(* The conversion refuses a package for whatever is wrong in what it reads *)
(* of it, and for nothing else (convert.rs, convert/).                     *)
(***************************************************************************)
THEOREM RefusalCorrect == ARSpec => []RefusedExactlyForFlaws
<1>1. ARInv => RefusedExactlyForFlaws
  BY DEF ARInv
<1> QED BY <1>1, ArchiveInvariance, PTL

(***************************************************************************)
(* A visitor is shown every name that is written, as what it is written,   *)
(* but for those below what is not read, let go or implemented (element/). *)
(***************************************************************************)
THEOREM VisitCorrect == ARSpec => []SeenIsWritten
<1>1. ARInv => SeenIsWritten
  BY DEF ARInv
<1> QED BY <1>1, ArchiveInvariance, PTL

(***************************************************************************)
(* What validate returns is what is wrong with the types that are written, *)
(* though it looks at the elements that they have become                   *)
(* (daml_archive.rs).                                                      *)
(***************************************************************************)
THEOREM ValidationCorrect == ARSpec => []ValidateIsTruthful
<1>1. ARInv => ValidateIsTruthful
  BY DEF ARInv
<1> QED BY <1>1, ArchiveInvariance, PTL

=============================================================================
