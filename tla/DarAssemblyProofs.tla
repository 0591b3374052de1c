------------------------- MODULE DarAssemblyProofs -------------------------
(***************************************************************************)
(* Proofs about DarAssembly, for every finite set of package ids and every *)
(* collection and reference graph over them: the walk collects exactly the *)
(* reachable packages, and into_dar keeps what DarSelection promises.      *)
(***************************************************************************)
EXTENDS DarAssembly, SequenceTheorems, FiniteSetTheorems, FunctionTheorems, TLAPS

----------------------------------------------------------------------------
(***************************************************************************)
(* Sequences as the sets of their elements.                                *)
(***************************************************************************)

LEMMA ToSetBasics ==
  ASSUME NEW S, NEW s \in Seq(S)
  PROVE  /\ ToSet(s) \subseteq S
         /\ s = << >> <=> ToSet(s) = {}
<1>1. Len(s) \in Nat /\ DOMAIN s = 1 .. Len(s) /\ \A i \in 1 .. Len(s) : s[i] \in S
  BY LenProperties, ElementOfSeq
<1>2. ToSet(s) \subseteq S
  BY <1>1 DEF ToSet
<1>3. s = << >> => ToSet(s) = {}
  BY <1>1, EmptySeq DEF ToSet
<1>4. ASSUME s # << >> PROVE ToSet(s) # {}
  <2>1. Len(s) # 0
    BY <1>4, EmptySeq
  <2>2. 1 \in DOMAIN s
    BY <1>1, <2>1
  <2> QED BY <2>2 DEF ToSet
<1> QED BY <1>2, <1>3, <1>4

\* Popping the head and appending: what the queue holds.
LEMMA ToSetHeadTail ==
  ASSUME NEW S, NEW s \in Seq(S), s # << >>
  PROVE  /\ Head(s) \in S
         /\ Tail(s) \in Seq(S)
         /\ ToSet(s) = {Head(s)} \union ToSet(Tail(s))
<1>1. /\ Len(s) \in Nat \ {0}
      /\ Head(s) \in S /\ Tail(s) \in Seq(S)
      /\ Head(s) = s[1]
      /\ Len(Tail(s)) = Len(s) - 1
      /\ \A i \in 1 .. Len(Tail(s)) : Tail(s)[i] = s[i + 1]
  BY HeadTailProperties, LenProperties, EmptySeq
<1>2. DOMAIN s = 1 .. Len(s) /\ DOMAIN Tail(s) = 1 .. Len(Tail(s))
  BY <1>1, LenProperties
<1>3. ASSUME NEW i \in 1 .. Len(s) PROVE s[i] \in {Head(s)} \union ToSet(Tail(s))
  <2>1. CASE i = 1
    BY <1>1, <2>1
  <2>2. CASE i # 1
    <3>1. i - 1 \in 1 .. Len(Tail(s)) /\ (i - 1) + 1 = i
      BY <1>1, <2>2
    <3>2. Tail(s)[i - 1] = s[i]
      BY <1>1, <3>1
    <3> QED BY <1>2, <3>1, <3>2 DEF ToSet
  <2> QED BY <2>1, <2>2
<1>4. ASSUME NEW i \in 1 .. Len(Tail(s)) PROVE Tail(s)[i] \in ToSet(s)
  <2>1. i + 1 \in 1 .. Len(s)
    BY <1>1
  <2> QED BY <1>1, <1>2, <2>1 DEF ToSet
<1>5. Head(s) \in ToSet(s)
  BY <1>1, <1>2 DEF ToSet
<1>6. ToSet(s) \subseteq {Head(s)} \union ToSet(Tail(s))
  BY <1>2, <1>3 DEF ToSet
<1>7. ToSet(Tail(s)) \subseteq ToSet(s)
  <2>1. \A y \in ToSet(Tail(s)) : \E i \in 1 .. Len(Tail(s)) : y = Tail(s)[i]
    BY <1>2 DEF ToSet
  <2> QED BY <1>4, <2>1
<1> QED BY <1>1, <1>5, <1>6, <1>7

LEMMA ToSetConcat ==
  ASSUME NEW S, NEW s \in Seq(S), NEW t \in Seq(S)
  PROVE  s \o t \in Seq(S) /\ ToSet(s \o t) = ToSet(s) \union ToSet(t)
<1>1. /\ s \o t \in Seq(S)
      /\ Len(s) \in Nat /\ Len(t) \in Nat
      /\ Len(s \o t) = Len(s) + Len(t)
      /\ \A i \in 1 .. Len(s) + Len(t) :
           (s \o t)[i] = IF i <= Len(s) THEN s[i] ELSE t[i - Len(s)]
  BY ConcatProperties, LenProperties
<1>2. /\ DOMAIN s = 1 .. Len(s) /\ DOMAIN t = 1 .. Len(t)
      /\ DOMAIN (s \o t) = 1 .. (Len(s) + Len(t))
  BY <1>1, LenProperties
<1>3. ToSet(s \o t) \subseteq ToSet(s) \union ToSet(t)
  <2>1. ASSUME NEW i \in 1 .. (Len(s) + Len(t))
        PROVE  (s \o t)[i] \in ToSet(s) \union ToSet(t)
    <3>1. CASE i <= Len(s)
      BY <1>1, <1>2, <3>1 DEF ToSet
    <3>2. CASE ~(i <= Len(s))
      <4>1. i - Len(s) \in 1 .. Len(t)
        BY <1>1, <3>2
      <4>2. (s \o t)[i] = t[i - Len(s)]
        BY <1>1, <3>2
      <4> QED BY <1>2, <4>1, <4>2 DEF ToSet
    <3> QED BY <3>1, <3>2
  <2> QED BY <1>2, <2>1 DEF ToSet
<1>4. ASSUME NEW i \in 1 .. Len(s) PROVE s[i] \in ToSet(s \o t)
  <2>1. i \in 1 .. (Len(s) + Len(t)) /\ (s \o t)[i] = s[i]
    BY <1>1
  <2> QED BY <1>2, <2>1 DEF ToSet
<1>5. ASSUME NEW i \in 1 .. Len(t) PROVE t[i] \in ToSet(s \o t)
  <2>1. Len(s) + i \in 1 .. (Len(s) + Len(t)) /\ (Len(s) + i) - Len(s) = i
    BY <1>1
  <2>2. (s \o t)[Len(s) + i] = t[i]
    BY <1>1, <2>1
  <2> QED BY <1>2, <2>1, <2>2 DEF ToSet
<1>6. ToSet(s) \union ToSet(t) \subseteq ToSet(s \o t)
  <2>1. /\ \A y \in ToSet(s) : \E i \in 1 .. Len(s) : y = s[i]
        /\ \A y \in ToSet(t) : \E i \in 1 .. Len(t) : y = t[i]
    BY <1>2 DEF ToSet
  <2> QED BY <1>4, <1>5, <2>1
<1> QED BY <1>1, <1>3, <1>6

\* An ordering of a finite set holds its elements and nothing else.
LEMMA OrderingOfSet ==
  ASSUME NEW S, IsFiniteSet(S), NEW s \in SetToSeqs(S)
  PROVE  s \in Seq(S) /\ ToSet(s) = S
<1> DEFINE n == Cardinality(S)
<1>1. n \in Nat
  BY FS_CardinalityType
<1>2. /\ s \in [1 .. n -> S]
      /\ \A i, j \in 1 .. n : i # j => s[i] # s[j]
  BY DEF SetToSeqs
<1>3. s \in Injection(1 .. n, S)
  BY <1>2 DEF Injection, IsInjective
<1>4. IsFiniteSet(1 .. n) /\ Cardinality(1 .. n) = n
  BY <1>1, FS_Interval
<1>5. s \in Surjection(1 .. n, S)
  BY <1>3, <1>4, FS_Injection
<1>6. \A y \in S : \E i \in 1 .. n : s[i] = y
  BY <1>5 DEF Surjection
<1>7. DOMAIN s = 1 .. n
  BY <1>2
<1>8. ToSet(s) = S
  BY <1>2, <1>6, <1>7 DEF ToSet
<1>9. s \in Seq(S)
  BY <1>1, <1>2, IsASeq
<1> QED BY <1>8, <1>9

LEMMA SwapRemoveSeq ==
  ASSUME NEW S, NEW s \in Seq(S), NEW k \in 1 .. Len(s)
  PROVE  /\ SwapRemove(s, k) \in Seq(S)
         /\ Len(SwapRemove(s, k)) = Len(s) - 1
         /\ {s[k]} \union ToSet(SwapRemove(s, k)) = ToSet(s)
         /\ IsInjective(s) =>
              /\ s[k] \notin ToSet(SwapRemove(s, k))
              /\ IsInjective(SwapRemove(s, k))
<1> DEFINE n == Len(s)
           r == SwapRemove(s, k)
<1>1. n \in Nat /\ n >= 1 /\ DOMAIN s = 1 .. n /\ \A i \in 1 .. n : s[i] \in S
  BY LenProperties, ElementOfSeq
<1>2. PICK m \in Nat : n = m + 1 /\ m = n - 1
  <2>1. n - 1 \in Nat /\ n = (n - 1) + 1
    BY <1>1
  <2> QED BY <2>1, Zenon
<1>3. r = [j \in 1 .. m |-> IF j = k THEN s[n] ELSE s[j]]
  BY <1>2 DEF SwapRemove, Last
<1>4. /\ r \in Seq(S) /\ Len(r) = m /\ DOMAIN r = 1 .. m
      /\ \A j \in 1 .. m : r[j] = IF j = k THEN s[n] ELSE s[j]
  <2>1. \A j \in 1 .. m : (IF j = k THEN s[n] ELSE s[j]) \in S
    BY <1>1, <1>2
  <2>2. r \in [1 .. m -> S]
    BY <1>3, <2>1
  <2>3. r \in Seq(S)
    BY <1>2, <2>2, IsASeq
  <2>4. DOMAIN r = 1 .. m
    BY <1>3
  <2>5. Len(r) = m
    BY <2>3, <2>4, <1>2, LenProperties
  <2> QED BY <1>3, <2>3, <2>4, <2>5
<1>5. ASSUME NEW j \in 1 .. m
      PROVE  /\ r[j] \in ToSet(s)
             /\ IsInjective(s) => r[j] # s[k]
  <2>1. j \in 1 .. n /\ n \in 1 .. n /\ (j = k => n # k)
    BY <1>1, <1>2
  <2>2. CASE j = k
    BY <1>1, <1>4, <2>1, <2>2 DEF ToSet, IsInjective
  <2>3. CASE j # k
    BY <1>1, <1>4, <2>1, <2>3 DEF ToSet, IsInjective
  <2> QED BY <2>2, <2>3
<1>6. ASSUME NEW i \in 1 .. n PROVE s[i] \in {s[k]} \union ToSet(r)
  <2>1. CASE i = k
    BY <2>1
  <2>2. CASE i # k /\ i # n
    <3>1. i \in 1 .. m
      BY <1>1, <1>2, <2>2
    <3> QED BY <1>4, <2>2, <3>1 DEF ToSet
  <2>3. CASE i # k /\ i = n
    <3>1. k \in 1 .. m
      BY <1>1, <1>2, <2>3
    <3> QED BY <1>4, <2>3, <3>1 DEF ToSet
  <2> QED BY <2>1, <2>2, <2>3
<1>7. {s[k]} \union ToSet(r) = ToSet(s)
  <2>1. ToSet(r) \subseteq ToSet(s)
    BY <1>4, <1>5 DEF ToSet
  <2>2. s[k] \in ToSet(s)
    BY <1>1 DEF ToSet
  <2>3. ToSet(s) \subseteq {s[k]} \union ToSet(r)
    BY <1>1, <1>6 DEF ToSet
  <2> QED BY <2>1, <2>2, <2>3
<1>8. ASSUME IsInjective(s) PROVE s[k] \notin ToSet(r)
  BY <1>4, <1>5, <1>8 DEF ToSet
<1>9. ASSUME IsInjective(s), NEW i \in 1 .. m, NEW j \in 1 .. m, r[i] = r[j]
      PROVE  i = j
  <2>1. /\ i \in 1 .. n /\ j \in 1 .. n /\ n \in 1 .. n
        /\ i # n /\ j # n
    BY <1>1, <1>2
  <2>2. \A x, y \in 1 .. n : s[x] = s[y] => x = y
    BY <1>1, <1>9 DEF IsInjective
  <2> QED BY <1>4, <1>9, <2>1, <2>2
<1>10. IsInjective(s) => IsInjective(r)
  BY <1>4, <1>9 DEF IsInjective
<1> QED BY <1>2, <1>4, <1>7, <1>8, <1>10

----------------------------------------------------------------------------
(***************************************************************************)
(* Reachability.                                                           *)
(***************************************************************************)

LEMMA SameHeld == Promise!Held = Held
BY DEF Promise!Held, Held, Promise!ToSet, ToSet

LEMMA ReachesRoot ==
  ASSUME NEW root
  PROVE  Promise!Reaches(root, root)
BY DEF Promise!Reaches

LEMMA ReachesStep ==
  ASSUME NEW root, NEW p \in Held, NEW q \in lf[p].types, Promise!Reaches(root, p)
  PROVE  Promise!Reaches(root, q)
BY SameHeld DEF Promise!Reaches, Promise!Closed

\* A set that holds the root and is closed holds all that is reachable.
LEMMA ClosedHoldsReachable ==
  ASSUME NEW root, NEW S \in SUBSET Pkg, root \in S,
         \A p \in S \intersect Held : lf[p].types \subseteq S,
         NEW p, Promise!Reaches(root, p)
  PROVE  p \in S
BY SameHeld DEF Promise!Reaches, Promise!Closed

----------------------------------------------------------------------------
(***************************************************************************)
(* The inductive invariant.  Stages says which variables are still unset,  *)
(* and what the part of into_dar that has run has established.             *)
(***************************************************************************)
Stages ==
  /\ pc \in {"resolve", "decode"} => queue = << >> /\ visited = {}
  /\ pc \in {"decode", "walk"} => filter
  /\ pc \in {"decode", "walk", "archive", "done"} => ~Promise!NoMain /\ main \in Held
  /\ pc \in {"walk", "archive", "done"} /\ filter =>
       /\ ~Promise!Undecodable
       /\ \A p \in visited \intersect Held : lf[p].converts
  /\ ~filter => queue = << >> /\ visited = {}
  /\ pc \in {"archive", "done"} =>
       /\ filter => queue = << >>
       /\ ToSet(archives) = IF filter THEN Held \intersect visited ELSE Held
       /\ IsInjective(packages) => IsInjective(archives)
  /\ pc = "done" =>
       /\ ~Promise!Undecodable
       /\ dar.main = main
       /\ {main} \union ToSet(dar.deps) = ToSet(archives)
  /\ pc # "done" => dar = NoDar
  /\ pc = "failed" => Promise!NoMain \/ Promise!Undecodable \/ Promise!Unconvertible

IInv ==
  /\ TypeOK
  /\ WalkInvariant
  /\ MainIsKept
  /\ DependenciesOnce
  /\ Stages

\* Once the queue is empty the walk has visited what is wanted.
LEMMA WalkDone ==
  ASSUME TypeOK, WalkInvariant, filter, queue = << >>,
         pc \in {"walk", "archive", "done"}
  PROVE  Held \intersect visited = {p \in Held : Promise!Reaches(main, p)}
<1>1. Seen = visited
  BY EmptySeq, ToSetBasics DEF Seen, TypeOK
<1>2. main \in visited /\ \A p \in visited \intersect Held : lf[p].types \subseteq visited
  BY <1>1 DEF WalkInvariant, WalkIsComplete
<1>3. \A p \in visited : Promise!Reaches(main, p)
  BY <1>1 DEF WalkInvariant, WalkIsSound
<1>4. visited \in SUBSET Pkg
  BY DEF TypeOK
<1>5. ASSUME NEW p \in Held, Promise!Reaches(main, p)
      PROVE  p \in visited
  BY <1>2, <1>4, <1>5, ClosedHoldsReachable
<1> QED BY <1>3, <1>5

LEMMA InitIInv == Init => IInv
<1> SUFFICES ASSUME Init PROVE IInv
  OBVIOUS
<1>1. PICK r \in Request : packages = r.packages /\ lf = r.lf /\ hint = r.hint /\ filter = r.filter
  BY DEF Init
<1>2. r \in [packages : Seq(Pkg), lf : [Pkg -> Promise!Content],
             hint : Pkg \union {None}, filter : BOOLEAN]
  BY RequestAssumption
<1>3. /\ pc = "resolve" /\ main = None /\ queue = << >> /\ visited = {}
      /\ archives = << >> /\ dar = NoDar
  BY DEF Init
<1>4. << >> \in Seq(Pkg) /\ ToSet(<< >>) = {}
  BY EmptySeq, ToSetBasics
<1>5. TypeOK
  BY <1>1, <1>2, <1>3, <1>4 DEF TypeOK
<1>6. WalkInvariant
  BY <1>3, <1>4 DEF WalkInvariant, WalkIsSound, WalkIsComplete, Seen
<1>7. MainIsKept /\ DependenciesOnce /\ Stages
  BY <1>3 DEF MainIsKept, DependenciesOnce, Stages
<1> QED BY <1>5, <1>6, <1>7 DEF IInv

(***************************************************************************)
(* Every action preserves the invariant.                                   *)
(***************************************************************************)
LEMMA FailIInv ==
  ASSUME IInv, Fail, pc \notin {"done", "failed"},
         Promise!NoMain \/ Promise!Undecodable \/ Promise!Unconvertible
  PROVE  IInv'
<1>1. /\ pc' = "failed" /\ packages' = packages /\ lf' = lf /\ hint' = hint
      /\ filter' = filter /\ main' = main /\ queue' = queue /\ visited' = visited
      /\ archives' = archives /\ dar' = dar
  BY DEF Fail
<1>2. TypeOK'
  BY <1>1 DEF IInv, TypeOK
<1>3. WalkInvariant'
  <2>1. Seen' = Seen
    BY <1>1 DEF Seen, ToSet
  <2>2. \A p : Promise!Reaches(main, p)' <=> Promise!Reaches(main, p)
    BY <1>1 DEF Promise!Reaches, Promise!Closed, Promise!Held, Promise!ToSet
  <2>3. WalkIsSound'
    BY <1>1, <2>1, <2>2 DEF IInv, WalkInvariant, WalkIsSound
  <2> QED BY <1>1, <2>3 DEF WalkInvariant, WalkIsComplete
<1>4. MainIsKept' /\ DependenciesOnce'
  BY <1>1 DEF MainIsKept, DependenciesOnce
<1>5. (Promise!NoMain \/ Promise!Undecodable \/ Promise!Unconvertible)'
  BY <1>1 DEF Promise!NoMain, Promise!Undecodable, Promise!Unconvertible,
       Promise!MainOf, Promise!Reaches, Promise!Closed, Promise!Held, Promise!ToSet
<1>6. Stages'
  BY <1>1, <1>5 DEF IInv, Stages
<1> QED BY <1>2, <1>3, <1>4, <1>6 DEF IInv

LEMMA ResolveIInv ==
  ASSUME IInv, ResolveMain
  PROVE  IInv'
<1>1. /\ pc = "resolve"
      /\ packages' = packages /\ lf' = lf /\ hint' = hint /\ filter' = filter
      /\ queue' = queue /\ visited' = visited /\ dar' = dar
  BY DEF ResolveMain, Resolved
<1>2. queue = << >> /\ visited = {} /\ dar = NoDar
  BY <1>1 DEF IInv, Stages
<1>3. packages \in Seq(Pkg) /\ Held \subseteq Pkg
  BY ToSetBasics DEF IInv, TypeOK, Held
<1>4. /\ main' = Promise!MainOf /\ main' \in Held /\ ~Promise!NoMain
  <2>1. CASE hint # None /\ hint \in Held /\ Resolved(hint)
    BY <2>1, SameHeld DEF Resolved, Promise!MainOf, Promise!NoMain
  <2>2. CASE hint = None /\ packages # << >> /\ Resolved(packages[1])
    <3>1. packages[1] \in Held
      <4>1. DOMAIN packages = 1 .. Len(packages) /\ Len(packages) \in Nat \ {0}
        BY <1>3, <2>2, LenProperties, EmptySeq
      <4> QED BY <4>1 DEF Held, ToSet
    <3> QED BY <2>2, <3>1 DEF Resolved, Promise!MainOf, Promise!NoMain
  <2> QED BY <2>1, <2>2 DEF ResolveMain
<1>5. \/ filter /\ pc' = "decode" /\ archives' = archives
      \/ ~filter /\ pc' = "archive" /\ archives' = packages
  BY DEF ResolveMain, Resolved
<1>6. /\ Held' = Held /\ Promise!MainOf' = Promise!MainOf /\ Promise!NoMain' = Promise!NoMain
  BY <1>1 DEF Held, ToSet, Promise!MainOf, Promise!NoMain, Promise!Held, Promise!ToSet
<1>7. TypeOK'
  BY <1>1, <1>3, <1>4, <1>5, <1>6 DEF IInv, TypeOK
<1>8. Seen' = {}
  BY <1>1, <1>2, ToSetBasics, EmptySeq DEF Seen, ToSet
<1>9. WalkInvariant'
  BY <1>1, <1>5, <1>8 DEF WalkInvariant, WalkIsSound, WalkIsComplete
<1>10. MainIsKept' /\ DependenciesOnce'
  BY <1>4, <1>5 DEF MainIsKept, DependenciesOnce, Held, ToSet
<1>11. Stages'
  BY <1>1, <1>2, <1>4, <1>5, <1>6 DEF Stages, Held, ToSet, NoDar
<1> QED BY <1>7, <1>9, <1>10, <1>11 DEF IInv

LEMMA DecodeIInv ==
  ASSUME IInv, DecodePayloads
  PROVE  IInv'
<1>1. /\ pc = "decode" /\ pc' = "walk" /\ queue' = <<main>>
      /\ packages' = packages /\ lf' = lf /\ hint' = hint /\ filter' = filter
      /\ main' = main /\ visited' = visited /\ archives' = archives /\ dar' = dar
      /\ \A p \in Held : lf[p].decodes
  BY DEF DecodePayloads, Start
<1>2. /\ filter /\ visited = {} /\ main \in Held /\ dar = NoDar /\ ~Promise!NoMain
  BY <1>1 DEF IInv, Stages
<1>3. packages \in Seq(Pkg) /\ Held \subseteq Pkg
  BY ToSetBasics DEF IInv, TypeOK, Held
<1>4. /\ Held' = Held /\ Promise!Held' = Promise!Held /\ Promise!MainOf' = Promise!MainOf
      /\ Promise!NoMain' = Promise!NoMain
  BY <1>1 DEF Held, ToSet, Promise!MainOf, Promise!NoMain, Promise!Held, Promise!ToSet
<1>5. <<main>> \in Seq(Pkg) /\ ToSet(<<main>>) = {main}
  BY <1>2, <1>3 DEF ToSet
<1>6. TypeOK'
  BY <1>1, <1>4, <1>5 DEF IInv, TypeOK
<1>7. Seen' = {main}
  BY <1>1, <1>2, <1>5 DEF Seen, ToSet
<1>8. WalkInvariant'
  BY <1>1, <1>2, <1>7, ReachesRoot DEF WalkInvariant, WalkIsSound, WalkIsComplete, Promise!Reaches
<1>9. MainIsKept' /\ DependenciesOnce'
  BY <1>1 DEF MainIsKept, DependenciesOnce
<1>10. ~Promise!Undecodable'
  BY <1>1, <1>4, SameHeld DEF Promise!Undecodable
<1>11. Stages'
  BY <1>1, <1>2, <1>4, <1>10 DEF IInv, Stages, Held, ToSet, NoDar
<1> QED BY <1>6, <1>8, <1>9, <1>11 DEF IInv

\* One turn of the walk: the head is visited, R is queued in its place.
LEMMA WalkStep ==
  ASSUME IInv, pc = "walk", queue # << >>, NEW R \in SUBSET Pkg,
         UNCHANGED <<packages, lf, hint, filter, pc, main, archives, dar>>,
         visited' = visited \union {Head(queue)},
         queue' \in Seq(Pkg),
         ToSet(queue') = ToSet(Tail(queue)) \union R,
         \A q \in R : Head(queue) \in Held /\ q \in lf[Head(queue)].types,
         Head(queue) \in Held =>
           /\ lf[Head(queue)].types \subseteq visited' \union ToSet(queue')
           /\ lf[Head(queue)].converts
  PROVE  IInv'
<1> DEFINE id == Head(queue)
<1>1. /\ filter /\ main \in Held /\ dar = NoDar /\ ~Promise!NoMain /\ ~Promise!Undecodable
      /\ \A p \in visited \intersect Held : lf[p].converts
  BY DEF IInv, Stages
<1>2. /\ id \in Pkg /\ Tail(queue) \in Seq(Pkg)
      /\ ToSet(queue) = {id} \union ToSet(Tail(queue))
  BY ToSetHeadTail DEF IInv, TypeOK
<1>3. /\ Held' = Held /\ Promise!Held' = Promise!Held /\ Promise!MainOf' = Promise!MainOf
      /\ Promise!NoMain' = Promise!NoMain /\ Promise!Undecodable' = Promise!Undecodable
  BY DEF Held, ToSet, Promise!MainOf, Promise!NoMain, Promise!Held, Promise!ToSet,
       Promise!Undecodable
<1>4. TypeOK'
  BY <1>2, <1>3 DEF IInv, TypeOK
<1>5. Seen' = visited \union {id} \union ToSet(queue')
  BY DEF Seen, ToSet
<1>6. Seen' = Seen \union R
  BY <1>2, <1>5 DEF Seen
<1>7. \A p \in Seen : Promise!Reaches(main, p)
  BY DEF IInv, WalkInvariant, WalkIsSound
<1>8. id \in Seen
  BY <1>2 DEF Seen
<1>9. \A p \in R : Promise!Reaches(main, p)
  BY <1>7, <1>8, ReachesStep
<1>10. \A p : Promise!Reaches(main, p)' <=> Promise!Reaches(main, p)
  BY DEF Promise!Reaches, Promise!Closed, Promise!Held, Promise!ToSet
<1>11. WalkIsSound'
  BY <1>6, <1>7, <1>9, <1>10 DEF WalkIsSound
<1>12. main \in Seen /\ \A p \in visited \intersect Held : lf[p].types \subseteq Seen
  BY <1>1 DEF IInv, WalkInvariant, WalkIsComplete
<1>13. \A p \in visited' \intersect Held : lf[p].types \subseteq Seen'
  BY <1>5, <1>6, <1>12
<1>14. WalkIsComplete'
  BY <1>3, <1>6, <1>12, <1>13 DEF WalkIsComplete
<1>15. MainIsKept' /\ DependenciesOnce'
  BY DEF MainIsKept, DependenciesOnce
<1>16. \A p \in visited' \intersect Held : lf[p].converts
  BY <1>1
<1>17. Stages'
  BY <1>1, <1>3, <1>16 DEF Stages, NoDar
<1> QED BY <1>4, <1>11, <1>14, <1>15, <1>17 DEF IInv, WalkInvariant

LEMMA SkipVisitedIInv ==
  ASSUME IInv, SkipVisited
  PROVE  IInv'
<1>1. /\ pc = "walk" /\ queue # << >> /\ Head(queue) \in visited
      /\ queue' = Tail(queue) /\ visited' = visited
      /\ UNCHANGED <<packages, lf, hint, filter, pc, main, archives, dar>>
  BY DEF SkipVisited, Popped
<1>2. /\ Tail(queue) \in Seq(Pkg)
      /\ ToSet(queue) = {Head(queue)} \union ToSet(Tail(queue))
  BY <1>1, ToSetHeadTail DEF IInv, TypeOK
<1>3. ToSet(queue') = ToSet(Tail(queue))
  BY <1>1
<1>4. filter /\ \A p \in visited \intersect Held : lf[p].converts
  BY <1>1 DEF IInv, Stages
<1>5. \A p \in visited \intersect Held : lf[p].types \subseteq Seen
  BY <1>1, <1>4 DEF IInv, WalkInvariant, WalkIsComplete
<1>6. Seen = visited \union ToSet(queue')
  BY <1>1, <1>2, <1>3 DEF Seen
<1>7. visited' = visited \union {Head(queue)}
  BY <1>1
<1>8. Head(queue) \in Held =>
        /\ lf[Head(queue)].types \subseteq visited' \union ToSet(queue')
        /\ lf[Head(queue)].converts
  BY <1>1, <1>4, <1>5, <1>6
<1> QED
  <2> DEFINE R == {}
  <2>1. R \in SUBSET Pkg /\ ToSet(queue') = ToSet(Tail(queue)) \union R
    BY <1>3
  <2>2. queue' \in Seq(Pkg)
    BY <1>1, <1>2
  <2> QED BY <1>1, <1>7, <1>8, <2>1, <2>2, WalkStep

LEMMA SkipUnknownIInv ==
  ASSUME IInv, SkipUnknown
  PROVE  IInv'
<1>1. /\ pc = "walk" /\ queue # << >> /\ Head(queue) \notin Held
      /\ queue' = Tail(queue) /\ visited' = visited \union {Head(queue)}
      /\ UNCHANGED <<packages, lf, hint, filter, pc, main, archives, dar>>
  BY DEF SkipUnknown, Popped
<1>2. Tail(queue) \in Seq(Pkg)
  BY <1>1, ToSetHeadTail DEF IInv, TypeOK
<1> QED
  <2> DEFINE R == {}
  <2>1. R \in SUBSET Pkg /\ ToSet(queue') = ToSet(Tail(queue)) \union R
    BY <1>1
  <2>2. queue' \in Seq(Pkg)
    BY <1>1, <1>2
  <2> QED BY <1>1, <2>1, <2>2, WalkStep

LEMMA ExpandIInv ==
  ASSUME IInv, Expand
  PROVE  IInv'
<1> DEFINE id == Head(queue)
           R == lf[id].types \ (visited \union {id})
<1>1. /\ pc = "walk" /\ queue # << >> /\ id \in Held /\ lf[id].converts
      /\ visited' = visited \union {id}
      /\ UNCHANGED <<packages, lf, hint, filter, pc, main, archives, dar>>
  BY DEF Expand
<1>2. PICK refs \in SetToSeqs(R) : queue' = Tail(queue) \o refs
  BY <1>1 DEF Expand, Unvisited, References, Popped
<1>3. id \in Pkg /\ Tail(queue) \in Seq(Pkg)
  BY <1>1, ToSetHeadTail DEF IInv, TypeOK
<1>4. R \in SUBSET Pkg
  <2>1. lf[id] \in Promise!Content
    BY <1>3 DEF IInv, TypeOK
  <2> QED BY <2>1 DEF Promise!Content
<1>5. IsFiniteSet(R)
  BY <1>4, PkgAssumption, FS_Subset
<1>6. refs \in Seq(R) /\ ToSet(refs) = R
  BY <1>2, <1>5, OrderingOfSet
<1>7. refs \in Seq(Pkg)
  BY <1>4, <1>6, SeqMonotonic
<1>8. queue' \in Seq(Pkg) /\ ToSet(queue') = ToSet(Tail(queue)) \union R
  <2>1. /\ Tail(queue) \o refs \in Seq(Pkg)
        /\ ToSet(Tail(queue) \o refs) = ToSet(Tail(queue)) \union ToSet(refs)
    <3>1. Tail(queue) \in Seq(Pkg) /\ refs \in Seq(Pkg)
      BY <1>3, <1>7
    <3> HIDE DEF R, id
    <3> QED BY <3>1, ToSetConcat, ZenonT(30)
  <2>2. ToSet(refs) = R
    BY <1>6
  <2> HIDE DEF R, id
  <2> QED BY <1>2, <2>1, <2>2, Zenon
<1>9. lf[id].types \subseteq visited' \union ToSet(queue')
  BY <1>1, <1>8
<1> QED BY <1>1, <1>4, <1>8, <1>9, WalkStep

LEMMA KeepIInv ==
  ASSUME IInv, Keep
  PROVE  IInv'
<1>1. /\ pc = "walk" /\ queue = << >> /\ pc' = "archive"
      /\ packages' = packages /\ lf' = lf /\ hint' = hint /\ filter' = filter
      /\ main' = main /\ queue' = queue /\ visited' = visited /\ dar' = dar
  BY DEF Keep
<1>2. PICK order \in SetToSeqs(Kept) : archives' = [k \in DOMAIN order |-> packages[order[k]]]
  BY DEF Keep
<1>3. packages \in Seq(Pkg) /\ DOMAIN packages = 1 .. Len(packages) /\ Len(packages) \in Nat
  BY LenProperties DEF IInv, TypeOK
<1>4. Kept \subseteq 1 .. Len(packages) /\ IsFiniteSet(Kept)
  <2>1. Kept \subseteq 1 .. Len(packages)
    BY <1>3 DEF Kept
  <2>2. IsFiniteSet(1 .. Len(packages))
    BY <1>3, FS_Interval
  <2> QED BY <2>1, <2>2, FS_Subset
<1>5. order \in Seq(Kept) /\ ToSet(order) = Kept
  BY <1>4, OrderingOfSet
<1>6. /\ DOMAIN order = 1 .. Len(order) /\ Len(order) \in Nat
      /\ \A k \in DOMAIN order : order[k] \in Kept
  BY <1>5, LenProperties, ElementOfSeq
<1>7. \A j, k \in DOMAIN order : order[j] = order[k] => j = k
  BY DEF SetToSeqs
<1>8. archives' \in Seq(Pkg) /\ DOMAIN archives' = DOMAIN order
  <2>1. \A k \in 1 .. Len(order) : packages[order[k]] \in Pkg
    BY <1>3, <1>4, <1>6, ElementOfSeq
  <2>2. archives' \in [1 .. Len(order) -> Pkg]
    BY <1>2, <1>6, <2>1
  <2> QED BY <1>2, <1>6, <2>2, IsASeq
<1>9. ToSet(archives') = {packages[k] : k \in Kept}
  <2>1. ToSet(archives') = {packages[order[k]] : k \in DOMAIN order}
    BY <1>2, <1>8 DEF ToSet
  <2>2. Kept = {order[k] : k \in DOMAIN order}
    BY <1>5 DEF ToSet
  <2> QED BY <2>1, <2>2
<1>10. ToSet(archives') = Held \intersect visited
  BY <1>9 DEF Held, ToSet, Kept
<1>11. IsInjective(packages) => IsInjective(archives')
  BY <1>2, <1>3, <1>4, <1>6, <1>7, <1>8, ZenonT(30) DEF IsInjective
<1>12. /\ filter /\ main \in Held /\ dar = NoDar /\ ~Promise!NoMain /\ ~Promise!Undecodable
       /\ \A p \in visited \intersect Held : lf[p].converts
  BY <1>1 DEF IInv, Stages
<1>13. /\ Held' = Held /\ Promise!Held' = Promise!Held /\ Promise!MainOf' = Promise!MainOf
       /\ Promise!NoMain' = Promise!NoMain /\ Promise!Undecodable' = Promise!Undecodable
  BY <1>1 DEF Held, ToSet, Promise!MainOf, Promise!NoMain, Promise!Held, Promise!ToSet,
       Promise!Undecodable
<1>14. TypeOK'
  BY <1>1, <1>8, <1>13 DEF IInv, TypeOK
<1>15. WalkInvariant'
  <2>1. Seen' = Seen
    BY <1>1 DEF Seen, ToSet
  <2>2. \A p : Promise!Reaches(main, p)' <=> Promise!Reaches(main, p)
    BY <1>1 DEF Promise!Reaches, Promise!Closed, Promise!Held, Promise!ToSet
  <2>3. WalkIsSound'
    BY <1>1, <2>1, <2>2 DEF IInv, WalkInvariant, WalkIsSound
  <2>4. WalkIsComplete'
    BY <1>1, <1>13, <2>1 DEF IInv, WalkInvariant, WalkIsComplete
  <2> QED BY <2>3, <2>4 DEF WalkInvariant
<1>16. main \in visited
  <2>1. Seen = visited
    BY <1>1, EmptySeq, ToSetBasics DEF Seen
  <2> QED BY <1>1, <1>12, <2>1 DEF IInv, WalkInvariant, WalkIsComplete
<1>17. MainIsKept' /\ DependenciesOnce'
  <2>1. main' \in ToSet(archives')
    BY <1>1, <1>10, <1>12, <1>16
  <2>2. ToSet(archives)' = ToSet(archives')
    BY DEF ToSet
  <2> QED BY <1>1, <2>1, <2>2 DEF MainIsKept, DependenciesOnce
<1>18. Stages'
  <2>1. ToSet(archives)' = ToSet(archives') /\ IsInjective(archives)' = IsInjective(archives')
        /\ IsInjective(packages)' = IsInjective(packages)
    BY <1>1 DEF ToSet, IsInjective
  <2> QED BY <1>1, <1>10, <1>11, <1>12, <1>13, <2>1 DEF Stages, NoDar
<1> QED BY <1>14, <1>15, <1>17, <1>18 DEF IInv

LEMMA AssembleIInv ==
  ASSUME IInv, Assemble
  PROVE  IInv'
<1>1. /\ pc = "archive" /\ pc' = "done"
      /\ packages' = packages /\ lf' = lf /\ hint' = hint /\ filter' = filter
      /\ main' = main /\ queue' = queue /\ visited' = visited /\ archives' = archives
      /\ \A p \in ToSet(archives) : lf[p].decodes
  BY DEF Assemble
<1>2. PICK k \in DOMAIN archives :
        archives[k] = main /\ dar' = [main |-> archives[k], deps |-> SwapRemove(archives, k)]
  BY DEF Assemble
<1>3. archives \in Seq(Pkg) /\ k \in 1 .. Len(archives) /\ main \in Pkg
  BY <1>2, LenProperties, ElementOfSeq DEF IInv, TypeOK
<1>4. /\ dar'.main = main /\ dar'.deps = SwapRemove(archives, k)
      /\ dar' \in [main : Pkg, deps : Seq(Pkg)]
  BY <1>2, <1>3, SwapRemoveSeq
<1>5. /\ Len(dar'.deps) + 1 = Len(archives)
      /\ {main} \union ToSet(dar'.deps) = ToSet(archives)
      /\ IsInjective(archives) => main \notin ToSet(dar'.deps) /\ IsInjective(dar'.deps)
  <2>1. Len(archives) \in Nat
    BY <1>3, LenProperties
  <2>2. /\ Len(SwapRemove(archives, k)) = Len(archives) - 1
        /\ {archives[k]} \union ToSet(SwapRemove(archives, k)) = ToSet(archives)
        /\ IsInjective(archives) =>
             /\ archives[k] \notin ToSet(SwapRemove(archives, k))
             /\ IsInjective(SwapRemove(archives, k))
    BY <1>3, SwapRemoveSeq
  <2>3. (Len(archives) - 1) + 1 = Len(archives)
    BY <2>1
  <2> QED BY <1>2, <1>4, <2>2, <2>3, Zenon
<1>6. /\ ~Promise!NoMain /\ main \in Held
      /\ filter => ~Promise!Undecodable /\ (\A p \in visited \intersect Held : lf[p].converts)
      /\ filter => queue = << >>
      /\ ToSet(archives) = IF filter THEN Held \intersect visited ELSE Held
      /\ IsInjective(packages) => IsInjective(archives)
      /\ ~filter => queue = << >> /\ visited = {}
  BY <1>1 DEF IInv, Stages
<1>7. ~Promise!Undecodable
  BY <1>1, <1>6, SameHeld DEF Promise!Undecodable
<1>8. /\ Held' = Held /\ Promise!Held' = Promise!Held /\ Promise!MainOf' = Promise!MainOf
      /\ Promise!NoMain' = Promise!NoMain /\ Promise!Undecodable' = Promise!Undecodable
      /\ ToSet(archives)' = ToSet(archives) /\ IsInjective(archives)' = IsInjective(archives)
      /\ IsInjective(packages)' = IsInjective(packages)
      /\ ToSet(dar.deps)' = ToSet(dar'.deps) /\ IsInjective(dar.deps)' = IsInjective(dar'.deps)
  BY <1>1 DEF Held, ToSet, Promise!MainOf, Promise!NoMain, Promise!Held, Promise!ToSet,
       Promise!Undecodable, IsInjective
<1>9. TypeOK'
  BY <1>1, <1>4, <1>8 DEF IInv, TypeOK
<1>10. WalkInvariant'
  <2>1. Seen' = Seen
    BY <1>1 DEF Seen, ToSet
  <2>2. \A p : Promise!Reaches(main, p)' <=> Promise!Reaches(main, p)
    BY <1>1 DEF Promise!Reaches, Promise!Closed, Promise!Held, Promise!ToSet
  <2>3. WalkIsSound'
    BY <1>1, <2>1, <2>2 DEF IInv, WalkInvariant, WalkIsSound
  <2>4. WalkIsComplete'
    BY <1>1, <1>8, <2>1 DEF IInv, WalkInvariant, WalkIsComplete
  <2> QED BY <2>3, <2>4 DEF WalkInvariant
<1>11. MainIsKept'
  BY <1>1, <1>8 DEF IInv, MainIsKept
<1>12. DependenciesOnce'
  BY <1>1, <1>4, <1>5, <1>6, <1>8 DEF DependenciesOnce
<1>13. Stages'
  BY <1>1, <1>4, <1>5, <1>6, <1>7, <1>8 DEF Stages
<1> QED BY <1>9, <1>10, <1>11, <1>12, <1>13 DEF IInv

\* An action that fails does so for a reason.
LEMMA FailuresJustified ==
  ASSUME IInv, RejectMain \/ RejectPayload \/ RejectReferences \/ RejectArchive
  PROVE  /\ pc \notin {"done", "failed"}
         /\ Fail
         /\ Promise!NoMain \/ Promise!Undecodable \/ Promise!Unconvertible
<1>1. CASE RejectMain
  BY <1>1, SameHeld DEF RejectMain, Promise!NoMain
<1>2. CASE RejectPayload
  BY <1>2, SameHeld DEF RejectPayload, Promise!Undecodable
<1>3. CASE RejectReferences
  <2>1. /\ pc = "walk" /\ queue # << >> /\ Head(queue) \in Held /\ ~lf[Head(queue)].converts
        /\ Fail
    BY <1>3 DEF RejectReferences
  <2>2. filter /\ main = Promise!MainOf
    BY <2>1 DEF IInv, Stages, TypeOK
  <2>3. Head(queue) \in Seen
    BY <2>1, ToSetHeadTail DEF IInv, TypeOK, Seen
  <2>4. Promise!Reaches(main, Head(queue))
    BY <2>3 DEF IInv, WalkInvariant, WalkIsSound
  <2> QED BY <2>1, <2>2, <2>4, SameHeld DEF Promise!Unconvertible
<1>4. CASE RejectArchive
  <2>1. pc = "archive" /\ Fail /\ \E p \in ToSet(archives) : ~lf[p].decodes
    BY <1>4 DEF RejectArchive
  <2>2. ToSet(archives) \subseteq Held
    BY <2>1 DEF IInv, Stages
  <2> QED BY <2>1, <2>2, SameHeld DEF Promise!Undecodable
<1> QED BY <1>1, <1>2, <1>3, <1>4

LEMMA NextIInv == IInv /\ [Next]_vars => IInv'
<1> SUFFICES ASSUME IInv, [Next]_vars PROVE IInv'
  OBVIOUS
<1>1. CASE ResolveMain
  BY <1>1, ResolveIInv
<1>2. CASE DecodePayloads
  BY <1>2, DecodeIInv
<1>3. CASE SkipVisited
  BY <1>3, SkipVisitedIInv
<1>4. CASE SkipUnknown
  BY <1>4, SkipUnknownIInv
<1>5. CASE Expand
  BY <1>5, ExpandIInv
<1>6. CASE Keep
  BY <1>6, KeepIInv
<1>7. CASE Assemble
  BY <1>7, AssembleIInv
<1>8. CASE RejectMain \/ RejectPayload \/ RejectReferences \/ RejectArchive
  BY <1>8, FailuresJustified, FailIInv
<1>9. CASE UNCHANGED vars
  <2>1. UNCHANGED <<packages, lf, hint, filter, pc, main, queue, visited, archives, dar>>
    BY <1>9 DEF vars
  <2>2. TypeOK' /\ MainIsKept' /\ DependenciesOnce'
    BY <2>1 DEF IInv, TypeOK, MainIsKept, DependenciesOnce, ToSet, IsInjective, Promise!MainOf
  <2>3. WalkInvariant'
    <3>1. Seen' = Seen /\ Held' = Held
      BY <2>1 DEF Seen, Held, ToSet
    <3>2. \A p : Promise!Reaches(main, p)' <=> Promise!Reaches(main, p)
      BY <2>1 DEF Promise!Reaches, Promise!Closed, Promise!Held, Promise!ToSet
    <3>3. WalkIsSound'
      BY <2>1, <3>1, <3>2 DEF IInv, WalkInvariant, WalkIsSound
    <3>4. WalkIsComplete'
      BY <2>1, <3>1 DEF IInv, WalkInvariant, WalkIsComplete
    <3> QED BY <3>3, <3>4 DEF WalkInvariant
  <2>4. Stages'
    <3>1. /\ Promise!NoMain' = Promise!NoMain /\ Promise!Undecodable' = Promise!Undecodable
          /\ Promise!Unconvertible' = Promise!Unconvertible
      BY <2>1 DEF Promise!NoMain, Promise!Undecodable, Promise!Unconvertible,
        Promise!MainOf, Promise!Reaches, Promise!Closed, Promise!Held, Promise!ToSet
    <3>2. /\ Held' = Held /\ ToSet(archives)' = ToSet(archives)
          /\ ToSet(dar.deps)' = ToSet(dar.deps)
          /\ IsInjective(packages)' = IsInjective(packages)
          /\ IsInjective(archives)' = IsInjective(archives)
      BY <2>1 DEF Held, ToSet, IsInjective
    <3> QED BY <2>1, <3>1, <3>2 DEF IInv, Stages, NoDar
  <2> QED BY <2>2, <2>3, <2>4 DEF IInv
<1> QED BY <1>1, <1>2, <1>3, <1>4, <1>5, <1>6, <1>7, <1>8, <1>9 DEF Next

LEMMA Invariance == Spec => []IInv
<1> QED BY InitIInv, NextIInv, PTL DEF Spec

----------------------------------------------------------------------------
(***************************************************************************)
(* into_dar is well typed: only ids of packages are queued and archived.   *)
(***************************************************************************)
THEOREM TypeCorrect == Spec => []TypeOK
<1>1. IInv => TypeOK
  BY DEF IInv
<1> QED BY <1>1, Invariance, PTL

(***************************************************************************)
(* The walk of reachable_from, on any reference graph: what it has seen is *)
(* reachable, and nothing a visited package refers to is forgotten.        *)
(***************************************************************************)
THEOREM WalkCorrect == Spec => []WalkInvariant
<1>1. IInv => WalkInvariant
  BY DEF IInv
<1> QED BY <1>1, Invariance, PTL

(***************************************************************************)
(* archives_to_dar finds the main package: its error paths are dead code.  *)
(***************************************************************************)
THEOREM MainAlwaysKept == Spec => []MainIsKept
<1>1. IInv => MainIsKept
  BY DEF IInv
<1> QED BY <1>1, Invariance, PTL

(***************************************************************************)
(* Distinct packages make a DAR of distinct archives.                      *)
(***************************************************************************)
THEOREM DependenciesCorrect == Spec => []DependenciesOnce
<1>1. IInv => DependenciesOnce
  BY DEF IInv
<1> QED BY <1>1, Invariance, PTL

----------------------------------------------------------------------------
(***************************************************************************)
(* The refinement: every step is a step of the promise or changes nothing  *)
(* that the caller sees.                                                   *)
(***************************************************************************)
LEMMA InitRefines == Init => Promise!Init
<1> SUFFICES ASSUME Init PROVE Promise!Init
  OBVIOUS
<1>1. PICK r \in Request : packages = r.packages /\ lf = r.lf /\ hint = r.hint /\ filter = r.filter
  BY DEF Init
<1>2. r \in [packages : Seq(Pkg), lf : [Pkg -> Promise!Content],
             hint : Pkg \union {None}, filter : BOOLEAN]
  BY RequestAssumption
<1>3. Outcome = Promise!Pending
  BY DEF Init, Outcome, NoDar, Promise!Pending
<1> QED BY <1>1, <1>2, <1>3 DEF Promise!Init

LEMMA NextRefines ==
  ASSUME IInv, [Next]_vars
  PROVE  Promise!Next \/ UNCHANGED <<packages, lf, hint, filter, Outcome>>
<1>1. CASE RejectMain \/ RejectPayload \/ RejectReferences \/ RejectArchive
  <2>1. /\ pc \notin {"done", "failed"}
        /\ Fail
        /\ Promise!NoMain \/ Promise!Undecodable \/ Promise!Unconvertible
    BY <1>1, FailuresJustified
  <2>2. dar = NoDar
    BY <2>1 DEF IInv, Stages
  <2>3. Outcome = Promise!Pending
    BY <2>1, <2>2 DEF Outcome, Promise!Pending, NoDar
  <2>4. Outcome' = Promise!Refused
    BY <2>1, <2>2 DEF Fail, Outcome, Promise!Refused, NoDar
  <2>5. Promise!Refuse
    BY <2>1, <2>3, <2>4 DEF Fail, Promise!Refuse, Promise!request
  <2> QED BY <2>5 DEF Promise!Next
<1>2. CASE Assemble
  <2>1. IInv'
    BY <1>2, AssembleIInv
  <2>2. /\ pc = "archive" /\ pc' = "done"
        /\ packages' = packages /\ lf' = lf /\ hint' = hint /\ filter' = filter
        /\ main' = main /\ visited' = visited /\ queue' = queue /\ archives' = archives
    BY <1>2 DEF Assemble
  <2>3. /\ dar = NoDar /\ main = Promise!MainOf /\ ~Promise!NoMain
        /\ filter => queue = << >>
        /\ filter => \A p \in visited \intersect Held : lf[p].converts
        /\ ToSet(archives) = IF filter THEN Held \intersect visited ELSE Held
    BY <2>2 DEF IInv, Stages, TypeOK
  <2>4. /\ ~Promise!Undecodable
        /\ dar'.main = main
        /\ {main} \union ToSet(dar'.deps) = ToSet(archives)
    <3>1. /\ ~Promise!Undecodable'
          /\ dar'.main = main'
          /\ {main'} \union ToSet(dar.deps)' = ToSet(archives)'
      BY <2>1, <2>2 DEF IInv, Stages
    <3>2. Promise!Undecodable' = Promise!Undecodable
      BY <2>2 DEF Promise!Undecodable, Promise!Held, Promise!ToSet
    <3>3. ToSet(dar.deps)' = ToSet(dar'.deps) /\ ToSet(archives)' = ToSet(archives)
      BY <2>2 DEF ToSet
    <3> QED BY <2>2, <3>1, <3>2, <3>3
  <2>5. filter => Held \intersect visited = {p \in Held : Promise!Reaches(main, p)}
    BY <2>2, <2>3, WalkDone DEF IInv
  <2>6. ToSet(archives) = Promise!Wanted
    BY <2>3, <2>5, SameHeld DEF Promise!Wanted
  <2>7. ~Promise!Unconvertible
    BY <2>3, <2>5, SameHeld DEF Promise!Unconvertible
  <2>8. Outcome = Promise!Pending
    BY <2>2, <2>3 DEF Outcome, Promise!Pending, NoDar
  <2>9. Outcome' = Promise!Delivered(Promise!MainOf, Promise!Wanted)
    <3>1. ToSet(dar.deps)' = ToSet(dar'.deps)
      BY DEF ToSet
    <3> QED BY <2>2, <2>3, <2>4, <2>6, <3>1 DEF Outcome, Promise!Delivered
  <2>10. Promise!Deliver
    BY <2>2, <2>3, <2>4, <2>7, <2>8, <2>9 DEF Promise!Deliver, Promise!request
  <2> QED BY <2>10 DEF Promise!Next
<1>3. CASE \/ ResolveMain \/ DecodePayloads \/ SkipVisited \/ SkipUnknown \/ Expand \/ Keep
           \/ UNCHANGED vars
  <2>1. /\ UNCHANGED <<packages, lf, hint, filter, dar>>
        /\ \/ pc' = pc
           \/ pc \notin {"done", "failed"} /\ pc' \notin {"done", "failed"}
    BY <1>3 DEF ResolveMain, Resolved, DecodePayloads, SkipVisited, SkipUnknown, Expand, Keep, vars
  <2>2. Outcome' = Outcome
    BY <2>1 DEF Outcome, ToSet
  <2> QED BY <2>1, <2>2
<1> QED BY <1>1, <1>2, <1>3 DEF Next

(***************************************************************************)
(* into_dar implements DarSelection: for every collection of packages, the *)
(* DAR holds exactly the wanted ones, and an error has one of the reasons. *)
(***************************************************************************)
THEOREM PromiseKept == Spec => KeepsPromise
<1>1. IInv /\ [Next]_vars => [Promise!Next]_<<packages, lf, hint, filter, Outcome>>
  BY NextRefines
<1> QED BY <1>1, InitRefines, Invariance, PTL DEF Spec, KeepsPromise, Promise!Spec

=============================================================================
