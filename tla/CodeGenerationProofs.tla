------------------------ MODULE CodeGenerationProofs ------------------------
(***************************************************************************)
(* Proofs about CodeGeneration, for all archives and filters, any number   *)
(* of runs, and whatever writes fail: a run that succeeds leaves the crate *)
(* of its own archive and filter, and renders the data of a synthetic      *)
(* module with the nearest module above it that is not.                    *)
(***************************************************************************)
EXTENDS CodeGeneration, SequenceTheorems, FiniteSetTheorems, FunctionTheorems, WellFoundedInduction, TLAPS

----------------------------------------------------------------------------
(***************************************************************************)
(* Paths and their prefixes.                                               *)
(***************************************************************************)
LEMMA PrefixIsPath ==
  ASSUME NEW p \in ModulePath, NEW k \in 0 .. Len(p)
  PROVE  /\ SubSeq(p, 1, k) \in ModulePath /\ Len(SubSeq(p, 1, k)) = k
         /\ \A i \in 1 .. k : SubSeq(p, 1, k)[i] = p[i]
         /\ k = Len(p) => SubSeq(p, 1, k) = p
<1>1. Len(p) \in Nat /\ \A i \in 1 .. Len(p) : p[i] \in PathSegment
  BY DEF ModulePath
<1>2. \A i \in 1 .. k : p[i] \in PathSegment
  BY <1>1
<1>3. /\ SubSeq(p, 1, k) \in ModulePath /\ Len(SubSeq(p, 1, k)) = k
      /\ \A i \in 1 .. k : SubSeq(p, 1, k)[i] = p[i]
  BY <1>1, <1>2, SubSeqProperties DEF ModulePath
<1>4. k = Len(p) => SubSeq(p, 1, k) = p
  BY <1>3, SeqEqual DEF ModulePath
<1> QED BY <1>3, <1>4

LEMMA PrefixMeans ==
  ASSUME NEW p \in ModulePath, NEW q \in ModulePath
  PROVE  IsPrefix(p, q) <=> Len(p) <= Len(q) /\ p = SubSeq(q, 1, Len(p))
<1>1. SubSeq(p, 1, Len(p)) = p
  BY PrefixIsPath DEF ModulePath
<1> QED BY <1>1 DEF IsPrefix

LEMMA PrefixOfPrefix ==
  ASSUME NEW p \in ModulePath, NEW k \in 0 .. Len(p), NEW j \in 0 .. k
  PROVE  SubSeq(SubSeq(p, 1, k), 1, j) = SubSeq(p, 1, j)
<1>1. PICK q : q = SubSeq(p, 1, k)
  OBVIOUS
<1>2. Len(p) \in Nat /\ j \in 0 .. Len(p)
  BY DEF ModulePath
<1>3. q \in ModulePath /\ Len(q) = k /\ \A i \in 1 .. k : q[i] = p[i]
  BY <1>1, PrefixIsPath
<1>4. SubSeq(q, 1, j) \in ModulePath /\ Len(SubSeq(q, 1, j)) = j /\ \A i \in 1 .. j : SubSeq(q, 1, j)[i] = q[i]
  BY <1>3, PrefixIsPath
<1>5. SubSeq(p, 1, j) \in ModulePath /\ Len(SubSeq(p, 1, j)) = j /\ \A i \in 1 .. j : SubSeq(p, 1, j)[i] = p[i]
  BY <1>2, PrefixIsPath
<1>6. \A i \in 1 .. j : SubSeq(q, 1, j)[i] = SubSeq(p, 1, j)[i]
  BY <1>3, <1>4, <1>5
<1> QED BY <1>1, <1>4, <1>5, <1>6, SeqEqual DEF ModulePath

LEMMA PrefixIsPrefix ==
  ASSUME NEW p \in ModulePath, NEW k \in 0 .. Len(p)
  PROVE  IsPrefix(SubSeq(p, 1, k), p)
<1>1. PICK q : q = SubSeq(p, 1, k)
  OBVIOUS
<1>2. q \in ModulePath /\ Len(q) = k /\ Len(p) \in Nat
  BY <1>1, PrefixIsPath DEF ModulePath
<1>3. Len(q) <= Len(p) /\ q = SubSeq(p, 1, Len(q))
  BY <1>1, <1>2
<1>4. IsPrefix(q, p)
  BY <1>2, <1>3, PrefixMeans
<1> QED BY <1>1, <1>4

LEMMA PrefixTransitive ==
  ASSUME NEW p \in ModulePath, NEW q \in ModulePath, NEW r \in ModulePath, IsPrefix(p, q), IsPrefix(q, r)
  PROVE  IsPrefix(p, r)
<1>1. Len(p) <= Len(q) /\ p = SubSeq(q, 1, Len(p)) /\ Len(q) <= Len(r) /\ q = SubSeq(r, 1, Len(q))
  BY PrefixMeans
<1>2. Len(p) \in Nat /\ Len(q) \in Nat /\ Len(r) \in Nat
  BY DEF ModulePath
<1>3. p = SubSeq(r, 1, Len(p))
  BY <1>1, <1>2, PrefixOfPrefix
<1> QED BY <1>1, <1>2, <1>3, PrefixMeans

\* The parent of a path is the prefix that is one shorter.
LEMMA ParentIsPrefix ==
  ASSUME NEW p \in ModulePath, p # << >>
  PROVE  /\ Parent(p) = SubSeq(p, 1, Len(p) - 1) /\ Parent(p) \in ModulePath
         /\ Len(p) \in Nat \ {0} /\ Len(Parent(p)) = Len(p) - 1
<1>1. Len(p) \in Nat \ {0} /\ Parent(p) = SubSeq(p, 1, Len(p) - 1)
  BY EmptySeq DEF ModulePath, Parent, Front
<1>2. Len(p) - 1 \in 0 .. Len(p)
  BY <1>1
<1>3. SubSeq(p, 1, Len(p) - 1) \in ModulePath /\ Len(SubSeq(p, 1, Len(p) - 1)) = Len(p) - 1
  BY <1>2, PrefixIsPath
<1> QED BY <1>1, <1>3

(***************************************************************************)
(* An archive is a forest of finitely many modules.                        *)
(***************************************************************************)
LEMMA ArchiveIsForest ==
  ASSUME NEW t \in ArchiveType
  PROVE  /\ t.nodes \subseteq ModulePath /\ IsFiniteSet(t.nodes)
         /\ t.synthetic \subseteq t.nodes /\ t.data \subseteq t.nodes
         /\ \A p \in t.synthetic \union t.data : Len(p) > 1
         /\ \A p \in t.nodes : p # << >> /\ \A k \in 1 .. Len(p) : SubSeq(p, 1, k) \in t.nodes
<1>1. /\ t.nodes \subseteq ModulePath /\ IsFiniteSet(t.nodes) /\ IsForest(t.nodes)
      /\ t.synthetic \subseteq t.nodes /\ t.data \subseteq t.nodes
      /\ \A p \in t.synthetic \union t.data : Len(p) > 1
  BY DEF ArchiveType
<1>2. ASSUME NEW p \in t.nodes, NEW k \in 1 .. Len(p)
      PROVE  SubSeq(p, 1, k) \in t.nodes
  <2>1. p \in ModulePath /\ Len(p) \in Nat /\ k \in 0 .. Len(p)
    BY <1>1 DEF ModulePath
  <2>2. SubSeq(p, 1, k) \in Prefixes(p)
    BY <2>1 DEF Prefixes
  <2>3. SubSeq(p, 1, k) # << >>
    <3>1. Len(SubSeq(p, 1, k)) = k /\ k # 0
      BY <2>1, PrefixIsPath
    <3>2. Len(<< >>) = 0
      OBVIOUS
    <3> QED BY <3>1, <3>2
  <2> QED BY <1>1, <2>2, <2>3 DEF IsForest
<1>3. \A p \in t.nodes : p # << >>
  BY <1>1 DEF IsForest
<1> QED BY <1>1, <1>2, <1>3

\* An order of a finite set has all of it.
LEMMA OrderIsComplete ==
  ASSUME NEW S, IsFiniteSet(S), NEW order \in SetToSeqs(S)
  PROVE  /\ order \in Seq(S)
         /\ \A x \in S : \E i \in 1 .. Len(order) : order[i] = x
<1>1. PICK n : n = Cardinality(S)
  OBVIOUS
<1>2. n \in Nat
  BY <1>1, FS_CardinalityType
<1>3. order \in [1 .. n -> S] /\ \A i, j \in 1 .. n : i # j => order[i] # order[j]
  BY <1>1 DEF SetToSeqs
<1>4. order \in Seq(S) /\ Len(order) = n
  BY <1>2, <1>3
<1>5. order \in Injection(1 .. n, S)
  BY <1>3 DEF Injection, IsInjective
<1>6. IsFiniteSet(1 .. n) /\ Cardinality(1 .. n) = n
  BY <1>2, FS_Interval
<1>7. order \in Surjection(1 .. n, S)
  BY <1>1, <1>5, <1>6, FS_Injection
<1> QED BY <1>4, <1>7 DEF Surjection

----------------------------------------------------------------------------
(***************************************************************************)
(* The files of a run into one file per module.                            *)
(***************************************************************************)
Needed == {p \in archive.nodes : Len(p) = 1 \/ Interesting(p)}

Written(p) == p \in DOMAIN files /\ files[p] = SourceOf(p)

TypeOK ==
  /\ run \in Nat /\ mode \in {"Separate", "Combined"}
  /\ archive \in ArchiveType /\ filter \in Filter
  /\ todo \in Seq(ModulePath) /\ DOMAIN files \subseteq ModulePath
  /\ pc \in {"idle", "writing", "done", "failed"}

\* What is not written yet is on the list, or below a module on the list.
SeparateInv ==
  mode = "Separate" =>
    /\ pc = "writing" =>
         /\ \A i \in 1 .. Len(todo) : todo[i] \in Needed
         /\ \A p \in Needed : Written(p) \/ \E i \in 1 .. Len(todo) : IsPrefix(todo[i], p)
    /\ pc = "done" => \A p \in Needed : Written(p)

CombinedInv ==
  mode = "Combined" =>
    /\ pc = "writing" => todo = <<CombinedFile>> \/ (todo = << >> /\ files[CombinedFile] = Combined)
    /\ pc = "done" => files[CombinedFile] = Combined

IInv == TypeOK /\ SeparateInv /\ CombinedInv

LEMMA InterestingAbove ==
  ASSUME TypeOK, NEW p \in archive.nodes, Interesting(p), NEW k \in 1 .. Len(p)
  PROVE  SubSeq(p, 1, k) \in archive.nodes /\ Interesting(SubSeq(p, 1, k))
<1>1. archive.nodes \subseteq ModulePath /\ SubSeq(p, 1, k) \in archive.nodes
  BY ArchiveIsForest DEF TypeOK
<1>2. p \in ModulePath /\ k \in 0 .. Len(p)
  BY <1>1 DEF ModulePath
<1>3. PICK q \in archive.nodes : IsPrefix(p, q) /\ q \in archive.data /\ Matches(q)
  BY DEF Interesting
<1>4. IsPrefix(SubSeq(p, 1, k), p) /\ SubSeq(p, 1, k) \in ModulePath /\ q \in ModulePath
  BY <1>1, <1>2, <1>3, PrefixIsPrefix, PrefixIsPath
<1>5. IsPrefix(SubSeq(p, 1, k), q)
  <2>1. PICK r : r = SubSeq(p, 1, k)
    OBVIOUS
  <2>2. IsPrefix(r, q)
    BY <1>2, <1>3, <1>4, <2>1, PrefixTransitive
  <2> QED BY <2>1, <2>2
<1> QED BY <1>1, <1>3, <1>5 DEF Interesting

LEMMA NeededAbove ==
  ASSUME TypeOK, NEW p \in Needed, NEW k \in 1 .. Len(p)
  PROVE  SubSeq(p, 1, k) \in Needed
<1>1. p \in archive.nodes /\ archive.nodes \subseteq ModulePath
  BY ArchiveIsForest DEF TypeOK, Needed
<1>2. p \in ModulePath /\ Len(p) \in Nat /\ k \in 0 .. Len(p)
  BY <1>1 DEF ModulePath
<1>3. CASE Len(p) = 1
  <2>1. k = Len(p)
    BY <1>2, <1>3
  <2>2. SubSeq(p, 1, k) = p
    BY <1>2, <2>1, PrefixIsPath
  <2> QED BY <2>2
<1>4. CASE Len(p) # 1
  BY <1>1, <1>4, InterestingAbove DEF Needed
<1> QED BY <1>3, <1>4

\* A file declares the next module on the way to each that is needed below.
LEMMA NextIsDeclared ==
  ASSUME TypeOK, NEW p \in Needed, NEW k \in 1 .. Len(p), k < Len(p)
  PROVE  SubSeq(p, 1, k + 1) \in SubModules(SubSeq(p, 1, k))
<1>1. p \in archive.nodes /\ archive.nodes \subseteq ModulePath
  BY ArchiveIsForest DEF TypeOK, Needed
<1>2. p \in ModulePath /\ Len(p) \in Nat /\ k \in 0 .. Len(p) /\ k + 1 \in 1 .. Len(p) /\ k + 1 \in 0 .. Len(p)
  BY <1>1 DEF ModulePath
<1>3. Interesting(p)
  <2>1. \A n \in Nat : \A j \in 1 .. n : j < n => n # 1
    OBVIOUS
  <2>2. Len(p) # 1
    BY <1>2, <2>1, Zenon
  <2> QED BY <2>2 DEF Needed
<1>4. PICK c : c = SubSeq(p, 1, k + 1)
  OBVIOUS
<1>5. c \in archive.nodes /\ Interesting(c) /\ c \in ModulePath /\ Len(c) = k + 1
  BY <1>1, <1>2, <1>3, <1>4, InterestingAbove, PrefixIsPath
<1>6. Parent(c) = SubSeq(p, 1, k)
  <2>1. Parent(c) = SubSeq(c, 1, k)
    BY <1>2, <1>5 DEF Parent, Front
  <2>2. k \in 0 .. (k + 1)
    BY <1>2
  <2>3. SubSeq(SubSeq(p, 1, k + 1), 1, k) = SubSeq(p, 1, k)
    BY <1>2, <2>2, PrefixOfPrefix
  <2> QED BY <1>4, <2>1, <2>3
<1>7. Len(c) > 1
  BY <1>5
<1> QED BY <1>4, <1>5, <1>6, <1>7 DEF SubModules, Children

LEMMA StillBelow ==
  ASSUME TypeOK, NEW h \in Needed, NEW p \in Needed, IsPrefix(h, p), p # h
  PROVE  \E c \in SubModules(h) : IsPrefix(c, p)
<1>1. /\ p \in archive.nodes /\ h \in archive.nodes /\ archive.nodes \subseteq ModulePath
      /\ \A q \in archive.nodes : q # << >>
  BY ArchiveIsForest DEF TypeOK, Needed
<1>2. p \in ModulePath /\ Len(p) \in Nat /\ h \in ModulePath /\ Len(h) \in Nat \ {0}
  BY <1>1, EmptySeq DEF ModulePath
<1>3. Len(h) <= Len(p) /\ h = SubSeq(p, 1, Len(h))
  BY <1>2, PrefixMeans
<1>4. Len(h) # Len(p)
  <2>1. SubSeq(p, 1, Len(p)) = p
    BY <1>2, PrefixIsPath
  <2> QED BY <1>3, <2>1
<1>5. Len(h) \in 1 .. Len(p) /\ Len(h) < Len(p) /\ Len(h) + 1 \in 0 .. Len(p)
  BY <1>2, <1>3, <1>4
<1>6. SubSeq(p, 1, Len(h) + 1) \in SubModules(h)
  BY <1>3, <1>5, NextIsDeclared
<1>7. IsPrefix(SubSeq(p, 1, Len(h) + 1), p)
  BY <1>2, <1>5, PrefixIsPrefix
<1> QED BY <1>6, <1>7

----------------------------------------------------------------------------
(***************************************************************************)
(* The invariant holds at first, and every action keeps it.                *)
(***************************************************************************)
LEMMA InitEstablishes == GenInit => IInv
<1> SUFFICES ASSUME GenInit PROVE IInv
  OBVIOUS
<1>1. /\ run = 0 /\ mode \in {"Separate", "Combined"} /\ archive \in ArchiveType /\ filter \in Filter
      /\ todo = << >> /\ DOMAIN files = Prefixes(<< >>) /\ pc = "idle"
  BY ArchiveAssumption DEF GenInit
<1>2. Prefixes(<< >>) \subseteq ModulePath
  <2>1. << >> \in ModulePath /\ Len(<< >>) = 0
    BY DEF ModulePath
  <2>2. SubSeq(<< >>, 1, 0) \in ModulePath
    BY <2>1, PrefixIsPath
  <2> QED BY <2>1, <2>2 DEF Prefixes
<1>3. TypeOK
  BY <1>1, <1>2 DEF TypeOK
<1>4. SeparateInv /\ CombinedInv
  BY <1>1 DEF SeparateInv, CombinedInv
<1> QED BY <1>3, <1>4 DEF IInv

\* A run begins with the files of the packages.
LEMMA RootsCover ==
  ASSUME NEW t \in ArchiveType, NEW order \in SetToSeqs({q \in t.nodes : Len(q) = 1})
  PROVE  /\ order \in Seq(ModulePath) /\ \A i \in 1 .. Len(order) : order[i] \in t.nodes /\ Len(order[i]) = 1
         /\ \A p \in t.nodes : \E i \in 1 .. Len(order) : IsPrefix(order[i], p)
<1>1. PICK R : R = {q \in t.nodes : Len(q) = 1}
  OBVIOUS
<1>2. t.nodes \subseteq ModulePath /\ IsFiniteSet(t.nodes) /\ \A p \in t.nodes : p # << >>
  BY ArchiveIsForest
<1>3. R \subseteq ModulePath /\ IsFiniteSet(R)
  BY <1>1, <1>2, FS_Subset
<1>4. order \in Seq(R) /\ \A x \in R : \E i \in 1 .. Len(order) : order[i] = x
  <2>1. order \in SetToSeqs(R)
    BY <1>1
  <2> QED BY <1>3, <2>1, OrderIsComplete
<1>5. order \in Seq(ModulePath) /\ \A i \in 1 .. Len(order) : order[i] \in R
  BY <1>3, <1>4
<1>6. ASSUME NEW p \in t.nodes
      PROVE  \E i \in 1 .. Len(order) : IsPrefix(order[i], p)
  <2>1. p \in ModulePath /\ Len(p) \in Nat \ {0}
    BY <1>2, EmptySeq DEF ModulePath
  <2>2. 1 \in 1 .. Len(p) /\ 1 \in 0 .. Len(p)
    BY <2>1
  <2>3. SubSeq(p, 1, 1) \in t.nodes /\ Len(SubSeq(p, 1, 1)) = 1 /\ IsPrefix(SubSeq(p, 1, 1), p)
    BY <2>1, <2>2, ArchiveIsForest, PrefixIsPath, PrefixIsPrefix
  <2> QED BY <1>1, <1>4, <2>3
<1> QED BY <1>1, <1>5, <1>6

LEMMA StartPreserves == IInv /\ Start => IInv'
<1> SUFFICES ASSUME IInv, Start PROVE IInv'
  OBVIOUS
<1>1. /\ run' \in Nat /\ archive' \in ArchiveType /\ filter' \in Filter /\ mode' \in {"Separate", "Combined"}
      /\ pc' = "writing" /\ UNCHANGED files
  BY ArchiveAssumption DEF Start, IInv, TypeOK
<1>2. CASE mode' = "Combined"
  <2>1. todo' = <<CombinedFile>>
    BY <1>2 DEF Start
  <2>2. CombinedFile \in ModulePath
    BY DEF CombinedFile, ModulePath
  <2>3. TypeOK'
    BY <1>1, <2>1, <2>2 DEF IInv, TypeOK
  <2> QED BY <1>1, <1>2, <2>1, <2>3 DEF IInv, SeparateInv, CombinedInv
<1>3. CASE mode' = "Separate"
  <2>1. todo' \in SetToSeqs({q \in archive'.nodes : Len(q) = 1})
    BY <1>3 DEF Start
  <2>2. /\ todo' \in Seq(ModulePath)
        /\ \A i \in 1 .. Len(todo') : todo'[i] \in archive'.nodes /\ Len(todo'[i]) = 1
        /\ \A p \in archive'.nodes : \E i \in 1 .. Len(todo') : IsPrefix(todo'[i], p)
    BY <1>1, <2>1, RootsCover
  <2>3. TypeOK'
    BY <1>1, <2>2 DEF IInv, TypeOK
  <2>4. /\ \A i \in 1 .. Len(todo') : todo'[i] \in Needed'
        /\ \A p \in Needed' : \E i \in 1 .. Len(todo') : IsPrefix(todo'[i], p)
    BY <2>2 DEF Needed
  <2> QED BY <1>1, <1>3, <2>3, <2>4 DEF IInv, SeparateInv, CombinedInv
<1> QED BY <1>1, <1>2, <1>3

\* What is written of a file, and of the others.
LEMMA PutWrites ==
  ASSUME NEW h, NEW file, PutFile(h, file)
  PROVE  /\ DOMAIN files' = DOMAIN files \union {h} /\ files'[h] = file
         /\ \A q \in DOMAIN files : q # h => files'[q] = files[q]
BY DEF PutFile

LEMMA SourceStays ==
  ASSUME UNCHANGED <<run, archive, filter>>
  PROVE  Needed' = Needed /\ Combined' = Combined /\ \A p : SourceOf(p)' = SourceOf(p)
<1>1. /\ \A p : Matches(p)' = Matches(p) /\ Interesting(p)' = Interesting(p)
      /\ Included' = Included
  BY DEF Matches, Interesting, Included
<1>2. \A p : SubModules(p)' = SubModules(p)
  BY <1>1 DEF SubModules, Children
<1>3. \A p : SourceOf(p)' = SourceOf(p)
  BY <1>2 DEF SourceOf, FileOf
<1>4. Combined' = Combined
  BY <1>1 DEF Combined, FileOf, Emitted, RenderData
<1> QED BY <1>1, <1>3, <1>4 DEF Needed

LEMMA WriteCombinedPreserves == IInv /\ WriteCombined => IInv'
<1> SUFFICES ASSUME IInv, WriteCombined PROVE IInv'
  OBVIOUS
<1>1. /\ pc = "writing" /\ mode = "Combined" /\ todo # << >> /\ PutFile(CombinedFile, Combined)
      /\ todo' = Tail(todo) /\ UNCHANGED <<run, mode, archive, filter, pc>>
  BY DEF WriteCombined
<1>2. todo = <<CombinedFile>>
  BY <1>1 DEF IInv, CombinedInv
<1>3. todo' = << >>
  BY <1>1, <1>2
<1>4. files'[CombinedFile] = Combined'
  BY <1>1, PutWrites, SourceStays
<1>5. CombinedFile \in ModulePath
  BY DEF CombinedFile, ModulePath
<1>6. TypeOK'
  <2>1. DOMAIN files' = DOMAIN files \union {CombinedFile}
    BY <1>1, PutWrites
  <2>2. DOMAIN files' \subseteq ModulePath /\ todo' \in Seq(ModulePath)
    BY <1>3, <1>5, <2>1 DEF IInv, TypeOK
  <2> QED BY <1>1, <2>2 DEF IInv, TypeOK
<1> QED BY <1>1, <1>3, <1>4, <1>6 DEF IInv, SeparateInv, CombinedInv

LEMMA WriteSourcePreserves == IInv /\ WriteSource => IInv'
<1> SUFFICES ASSUME IInv, WriteSource PROVE IInv'
  OBVIOUS
<1>1. /\ pc = "writing" /\ mode = "Separate" /\ todo # << >> /\ UNCHANGED <<run, mode, archive, filter, pc>>
      /\ PutFile(Head(todo), SourceOf(Head(todo)))
  BY DEF WriteSource
<1>2. PICK order \in SetToSeqs(SubModules(Head(todo))) : todo' = order \o Tail(todo)
  BY DEF WriteSource
<1>3. PICK h : h = Head(todo)
  OBVIOUS
<1>4. todo \in Seq(ModulePath) /\ Len(todo) \in Nat \ {0} /\ h = todo[1]
  BY <1>1, <1>3, EmptySeq DEF IInv, TypeOK
<1>5. h \in Needed
  BY <1>1, <1>4 DEF IInv, SeparateInv
<1>6. /\ archive.nodes \subseteq ModulePath /\ IsFiniteSet(archive.nodes) /\ Needed \subseteq ModulePath
  BY ArchiveIsForest DEF IInv, TypeOK, Needed
<1>7. PICK C : C = SubModules(h)
  OBVIOUS
<1>8. C \subseteq archive.nodes /\ C \subseteq Needed /\ C \subseteq ModulePath /\ IsFiniteSet(C)
  <2>1. C \subseteq archive.nodes /\ C \subseteq Needed
    BY <1>7 DEF SubModules, Children, Needed
  <2> QED BY <1>6, <2>1, FS_Subset
<1>9. order \in SetToSeqs(C)
  BY <1>2, <1>3, <1>7
<1>10. order \in Seq(C) /\ \A x \in C : \E i \in 1 .. Len(order) : order[i] = x
  BY <1>8, <1>9, OrderIsComplete
<1>11. PICK rest : rest = Tail(todo)
  OBVIOUS
<1>12. rest \in Seq(ModulePath) /\ Len(rest) = Len(todo) - 1 /\ \A i \in 1 .. Len(rest) : rest[i] = todo[i + 1]
  BY <1>1, <1>4, <1>11, HeadTailProperties
<1>13. order \in Seq(ModulePath) /\ todo' = order \o rest /\ Len(order) \in Nat /\ Len(rest) \in Nat
  BY <1>2, <1>8, <1>10, <1>11, <1>12
<1>14. /\ todo' \in Seq(ModulePath) /\ Len(todo') = Len(order) + Len(rest)
       /\ \A i \in 1 .. Len(order) + Len(rest) : todo'[i] = IF i <= Len(order) THEN order[i] ELSE rest[i - Len(order)]
  BY <1>12, <1>13, ConcatProperties
<1>15. \A i \in 1 .. Len(order) : i \in 1 .. Len(todo') /\ todo'[i] = order[i]
  BY <1>13, <1>14
<1>16. \A i \in 2 .. Len(todo) :
         Len(order) + i - 1 \in 1 .. Len(todo') /\ todo'[Len(order) + i - 1] = todo[i]
  <2> SUFFICES ASSUME NEW i \in 2 .. Len(todo)
               PROVE  Len(order) + i - 1 \in 1 .. Len(todo') /\ todo'[Len(order) + i - 1] = todo[i]
    OBVIOUS
  <2>1. PICK j : j = Len(order) + i - 1
    OBVIOUS
  <2>2. j \in 1 .. Len(order) + Len(rest) /\ j > Len(order) /\ j - Len(order) = i - 1 /\ i - 1 \in 1 .. Len(rest)
    BY <1>4, <1>12, <1>13, <2>1
  <2>3. todo'[j] = rest[i - 1]
    BY <1>13, <1>14, <2>2
  <2>4. rest[i - 1] = todo[i]
    BY <1>12, <2>2
  <2> QED BY <1>14, <2>1, <2>2, <2>3, <2>4
<1>17. /\ DOMAIN files' = DOMAIN files \union {h} /\ files'[h] = SourceOf(h)
       /\ \A q \in DOMAIN files : q # h => files'[q] = files[q]
  <2>1. PutFile(h, SourceOf(h))
    BY <1>1, <1>3
  <2> QED BY <2>1, PutWrites
<1>18. TypeOK'
  <2>1. DOMAIN files' \subseteq ModulePath
    BY <1>5, <1>6, <1>17 DEF IInv, TypeOK
  <2> QED BY <1>1, <1>14, <2>1 DEF IInv, TypeOK
<1>19. ASSUME NEW i \in 1 .. Len(todo')
       PROVE  todo'[i] \in Needed
  <2>1. CASE i <= Len(order)
    BY <1>8, <1>10, <1>13, <1>14, <2>1
  <2>2. CASE i > Len(order)
    <3>1. i - Len(order) \in 1 .. Len(rest) /\ todo'[i] = rest[i - Len(order)]
      BY <1>13, <1>14, <2>2
    <3>2. i - Len(order) + 1 \in 1 .. Len(todo) /\ todo'[i] = todo[i - Len(order) + 1]
      BY <1>4, <1>12, <3>1, SMTT(30)
    <3> QED BY <1>1, <3>2 DEF IInv, SeparateInv
  <2> QED BY <1>13, <1>14, <2>1, <2>2
<1>20. \A p : SourceOf(p)' = SourceOf(p)
  BY <1>1, SourceStays
<1>21. ASSUME NEW p \in Needed, p = h \/ Written(p)
       PROVE  Written(p)'
  BY <1>17, <1>20, <1>21 DEF Written
<1>22. ASSUME NEW p \in Needed, ~Written(p)'
       PROVE  \E i \in 1 .. Len(todo') : IsPrefix(todo'[i], p)
  <2>1. p # h /\ ~Written(p)
    BY <1>21, <1>22
  <2>2. PICK i \in 1 .. Len(todo) : IsPrefix(todo[i], p)
    BY <1>1, <2>1 DEF IInv, SeparateInv
  <2>3. CASE i = 1
    <3>1. PICK c \in C : IsPrefix(c, p)
      BY <1>4, <1>5, <1>7, <2>1, <2>2, <2>3, StillBelow DEF IInv
    <3> QED BY <1>10, <1>15, <3>1
  <2>4. CASE i # 1
    <3>1. i \in 2 .. Len(todo)
      BY <1>4, <2>4
    <3> QED BY <1>16, <2>2, <3>1
  <2> QED BY <2>3, <2>4
<1>23. Needed' = Needed
  BY <1>1, SourceStays
<1>24. SeparateInv' /\ CombinedInv'
  BY <1>1, <1>19, <1>22, <1>23 DEF SeparateInv, CombinedInv
<1> QED BY <1>18, <1>24 DEF IInv

LEMMA FailureKeeps ==
  ASSUME IInv, pc' = "failed", TypeOK'
  PROVE  IInv'
BY DEF IInv, SeparateInv, CombinedInv

LEMMA FailToLoadPreserves == IInv /\ FailToLoad => IInv'
<1> SUFFICES ASSUME IInv, FailToLoad PROVE IInv'
  OBVIOUS
<1>1. pc' = "failed" /\ run' = run + 1 /\ UNCHANGED <<mode, archive, filter, todo, files>>
  BY DEF FailToLoad
<1>2. TypeOK'
  BY <1>1 DEF IInv, TypeOK
<1> QED BY <1>1, <1>2, FailureKeeps

LEMMA FailToWritePreserves == IInv /\ FailToWrite => IInv'
<1> SUFFICES ASSUME IInv, FailToWrite PROVE IInv'
  OBVIOUS
<1>1. /\ pc' = "failed" /\ todo' = << >> /\ todo # << >> /\ UNCHANGED <<run, mode, archive, filter>>
      /\ UNCHANGED files \/ PutFile(Head(todo), EmptyFile)
  BY DEF FailToWrite
<1>2. Head(todo) \in ModulePath
  BY <1>1, HeadTailProperties DEF IInv, TypeOK
<1>3. PICK h : h = Head(todo)
  OBVIOUS
<1>4. DOMAIN files' \subseteq ModulePath
  <2>1. CASE UNCHANGED files
    BY <2>1 DEF IInv, TypeOK
  <2>2. CASE PutFile(h, EmptyFile)
    <3>1. DOMAIN files' = DOMAIN files \union {h}
      BY <2>2, PutWrites
    <3> QED BY <1>2, <1>3, <3>1 DEF IInv, TypeOK
  <2> QED BY <1>1, <1>3, <2>1, <2>2
<1>5. TypeOK'
  BY <1>1, <1>4 DEF IInv, TypeOK
<1> QED BY <1>1, <1>5, FailureKeeps

LEMMA FinishPreserves == IInv /\ FinishRun => IInv'
<1> SUFFICES ASSUME IInv, FinishRun PROVE IInv'
  OBVIOUS
<1>1. /\ pc = "writing" /\ todo = << >> /\ pc' = "done" /\ UNCHANGED <<run, mode, archive, filter, todo, files>>
  BY DEF FinishRun
<1>2. TypeOK'
  BY <1>1 DEF IInv, TypeOK
<1>3. Needed' = Needed /\ Combined' = Combined /\ \A p : SourceOf(p)' = SourceOf(p)
  BY <1>1, SourceStays
<1>4. \A p : Written(p)' = Written(p)
  BY <1>1, <1>3 DEF Written
<1>5. Len(todo) = 0
  BY <1>1
<1>6. mode = "Separate" => \A p \in Needed : Written(p)
  BY <1>1, <1>5 DEF IInv, SeparateInv
<1>7. todo # <<CombinedFile>>
  BY <1>1
<1>8. mode = "Combined" => files[CombinedFile] = Combined
  BY <1>1, <1>7 DEF IInv, CombinedInv
<1>9. SeparateInv'
  BY <1>1, <1>3, <1>4, <1>6 DEF SeparateInv
<1>10. CombinedInv'
  BY <1>1, <1>3, <1>8 DEF CombinedInv
<1> QED BY <1>2, <1>9, <1>10 DEF IInv

LEMMA Stutters == IInv /\ UNCHANGED genVars => IInv'
<1> SUFFICES ASSUME IInv, UNCHANGED genVars PROVE IInv'
  OBVIOUS
<1>1. UNCHANGED <<run, mode, archive, filter, todo, files, pc>>
  BY DEF genVars
<1>2. TypeOK'
  BY <1>1 DEF IInv, TypeOK
<1>3. Needed' = Needed /\ Combined' = Combined /\ \A p : Written(p)' = Written(p)
  BY <1>1, SourceStays DEF Written
<1> QED BY <1>1, <1>2, <1>3 DEF IInv, SeparateInv, CombinedInv

LEMMA NextPreserves == IInv /\ [GenNext]_genVars => IInv'
BY StartPreserves, FailToLoadPreserves, WriteCombinedPreserves, WriteSourcePreserves, FailToWritePreserves,
   FinishPreserves, Stutters DEF GenNext

LEMMA Invariance == GenSpec => []IInv
BY InitEstablishes, NextPreserves, PTL DEF GenSpec

(***************************************************************************)
(* Every run is about one archive and one filter, and writes and leaves    *)
(* behind files of modules only, whatever the runs before it were.         *)
(***************************************************************************)
THEOREM TypeCorrect == GenSpec => []TypeOK
<1>1. IInv => TypeOK
  BY DEF IInv
<1> QED BY <1>1, Invariance, PTL

----------------------------------------------------------------------------
(***************************************************************************)
(* After a run: what rustc makes of the files.                             *)
(***************************************************************************)
LEMMA NeededIsDeclared ==
  ASSUME TypeOK, \A q \in Needed : Written(q), NEW p \in Needed
  PROVE  DeclaredInCrate(p)
<1>1. p \in archive.nodes /\ archive.nodes \subseteq ModulePath /\ p # << >>
  BY ArchiveIsForest DEF TypeOK, Needed
<1>2. p \in ModulePath /\ Len(p) \in Nat \ {0}
  BY <1>1, EmptySeq DEF ModulePath
<1>3. SubSeq(p, 1, 1) \in Roots
  <2>1. 1 \in 1 .. Len(p) /\ 1 \in 0 .. Len(p)
    BY <1>2
  <2>2. SubSeq(p, 1, 1) \in archive.nodes /\ Len(SubSeq(p, 1, 1)) = 1
    BY <1>1, <1>2, <2>1, ArchiveIsForest, PrefixIsPath DEF TypeOK
  <2> QED BY <2>2 DEF Roots
<1>4. ASSUME NEW k \in 2 .. Len(p)
      PROVE  /\ SubSeq(p, 1, k - 1) \in DOMAIN files
             /\ SubSeq(p, 1, k) \in files[SubSeq(p, 1, k - 1)].modules
  <2>1. PICK j : j = k - 1
    OBVIOUS
  <2>2. j \in 1 .. Len(p) /\ j < Len(p) /\ k = j + 1
    BY <1>2, <2>1
  <2>3. PICK q : q = SubSeq(p, 1, j)
    OBVIOUS
  <2>4. q \in Needed
    BY <2>2, <2>3, NeededAbove
  <2>5. q \in DOMAIN files /\ files[q] = SourceOf(q)
    BY <2>4 DEF Written
  <2>6. SubSeq(p, 1, k) \in SubModules(q)
    BY <2>2, <2>3, NextIsDeclared
  <2>7. SourceOf(q).modules = SubModules(q)
    BY DEF SourceOf, FileOf
  <2> QED BY <2>1, <2>3, <2>5, <2>6, <2>7
<1> QED BY <1>3, <1>4 DEF DeclaredInCrate

\* Nothing is declared but what is needed: by induction along the path.
LEMMA DeclaredIsNeeded ==
  ASSUME TypeOK, \A q \in Needed : Written(q), NEW p \in ModulePath, p # << >>, DeclaredInCrate(p)
  PROVE  p \in Needed
<1> DEFINE Bad == {k \in 1 .. Len(p) : SubSeq(p, 1, k) \notin Needed}
           R == {e \in Nat \X Nat : e[1] < e[2]}
<1>1. IsWellFoundedOn(R, Nat)
  BY NatLessThanWellFounded DEF OpToRel
<1>2. Len(p) \in Nat \ {0} /\ SubSeq(p, 1, Len(p)) = p
  BY EmptySeq, PrefixIsPath DEF ModulePath
<1>3. Bad = {}
  <2>1. SUFFICES ASSUME Bad # {} PROVE FALSE
    OBVIOUS
  <2>2. Bad \subseteq Nat
    BY <1>2
  <2>3. PICK k \in Bad : \A j \in Bad : ~(<<j, k>> \in R)
    <3> HIDE DEF Bad, R
    <3> QED BY <1>1, <2>1, <2>2, WFMin
  <2>4. k \in 1 .. Len(p) /\ SubSeq(p, 1, k) \notin Needed
    OBVIOUS
  <2>5. CASE k = 1
    <3>1. SubSeq(p, 1, 1) \in Roots
      BY DEF DeclaredInCrate
    <3>2. SubSeq(p, 1, 1) \in Needed
      BY <3>1 DEF Roots, Needed
    <3> QED BY <2>4, <2>5, <3>2
  <2>6. CASE k # 1
    <3>1. k \in 2 .. Len(p) /\ k - 1 \in 1 .. Len(p) /\ k - 1 < k /\ k - 1 \in Nat /\ k \in Nat
      BY <1>2, <2>4, <2>6
    <3>2. k - 1 \notin Bad
      BY <2>3, <3>1
    <3>3. PICK q : q = SubSeq(p, 1, k - 1)
      OBVIOUS
    <3>4. q \in Needed
      BY <3>1, <3>2, <3>3
    <3>5. SubSeq(p, 1, k) \in files[q].modules
      BY <3>1, <3>3 DEF DeclaredInCrate
    <3>6. files[q] = SourceOf(q)
      BY <3>4 DEF Written
    <3>7. SourceOf(q).modules = SubModules(q)
      BY DEF SourceOf, FileOf
    <3>8. SubSeq(p, 1, k) \in SubModules(q)
      BY <3>5, <3>6, <3>7
    <3> QED BY <2>4, <3>8 DEF SubModules, Children, Needed
  <2> QED BY <2>5, <2>6
<1>4. Len(p) \notin Bad
  BY <1>3
<1>5. Len(p) \in 1 .. Len(p)
  BY <1>2
<1> QED BY <1>2, <1>4, <1>5

\* The crate of a run whose files are all written.
LEMMA CrateIsNeeded ==
  ASSUME TypeOK, \A q \in Needed : Written(q)
  PROVE  Crate = Needed
<1>1. /\ archive.nodes \subseteq ModulePath /\ DOMAIN files \subseteq ModulePath
      /\ \A p \in archive.nodes : p # << >>
  BY ArchiveIsForest DEF TypeOK
<1>2. \A p \in Crate : p \in Needed
  BY <1>1, DeclaredIsNeeded DEF Crate
<1>3. \A p \in Needed : p \in Crate
  BY <1>1, NeededIsDeclared DEF Crate, Needed
<1> QED BY <1>2, <1>3

(***************************************************************************)
(* After a run that succeeded, whatever failed or was left over before,    *)
(* each module of the crate has its own file, of this run, with nothing    *)
(* but its data; every module with data that is matched by its own path is *)
(* in the crate with it; and nothing else is but what is above one.        *)
(***************************************************************************)
THEOREM CrateCorrect == GenSpec => []CrateIsThisRun
<1>1. IInv => CrateIsThisRun
  <2> SUFFICES ASSUME IInv, pc = "done", mode = "Separate"
               PROVE  CrateIsThisRun
    BY DEF CrateIsThisRun
  <2>1. \A q \in Needed : Written(q)
    BY DEF IInv, SeparateInv
  <2>2. /\ archive.nodes \subseteq ModulePath /\ archive.data \subseteq archive.nodes
        /\ \A p \in archive.data : Len(p) > 1
    BY ArchiveIsForest DEF IInv, TypeOK
  <2>3. Crate = Needed
    BY <2>1, CrateIsNeeded DEF IInv
  <2>4. ASSUME NEW p \in Needed
        PROVE  p \in DOMAIN files /\ files[p].run = run /\ files[p].data = {p} \intersect archive.data
    <3>1. p \in DOMAIN files /\ files[p] = SourceOf(p)
      BY <2>1 DEF Written
    <3>2. SourceOf(p).run = run /\ SourceOf(p).data = IF Len(p) > 1 THEN {p} \intersect archive.data ELSE {}
      BY DEF SourceOf, FileOf
    <3>3. ~(Len(p) > 1) => {p} \intersect archive.data = {}
      BY <2>2
    <3> QED BY <3>1, <3>2, <3>3
  <2>5. ASSUME NEW p \in Needed
        PROVE  Len(p) = 1 \/ \E q \in archive.data : IsPrefix(p, q) /\ Matches(q)
    BY DEF Needed, Interesting
  <2>6. ASSUME NEW p \in archive.data, Matches(p)
        PROVE  p \in Needed /\ p \in files[p].data
    <3>1. p \in ModulePath /\ Len(p) \in Nat
      BY <2>2 DEF ModulePath
    <3>2. IsPrefix(p, p)
      BY <3>1, PrefixMeans, PrefixIsPath
    <3>3. p \in Needed
      BY <2>2, <2>6, <3>2 DEF Needed, Interesting
    <3> QED BY <2>4, <3>3
  <2> QED BY <2>3, <2>4, <2>5, <2>6 DEF CrateIsThisRun
<1> QED BY <1>1, Invariance, PTL

----------------------------------------------------------------------------
(***************************************************************************)
(* The nearest module at or above a path that is not synthetic.            *)
(***************************************************************************)
LEMMA LongestPrefix ==
  ASSUME NEW p \in ModulePath, NEW q \in Prefixes(p)
  PROVE  /\ q \in ModulePath /\ Len(q) \in 0 .. Len(p) /\ (Len(q) = Len(p) => q = p)
         /\ p # << >> /\ q # p => q \in Prefixes(Parent(p))
<1>1. PICK l \in 0 .. Len(p) : q = SubSeq(p, 1, l)
  BY DEF Prefixes
<1>2. Len(p) \in Nat /\ q \in ModulePath /\ Len(q) = l /\ (l = Len(p) => q = p)
  BY <1>1, PrefixIsPath DEF ModulePath
<1>3. ASSUME p # << >>, q # p
      PROVE  q \in Prefixes(Parent(p))
  <2>1. Parent(p) = SubSeq(p, 1, Len(p) - 1) /\ Len(Parent(p)) = Len(p) - 1 /\ Len(p) \in Nat \ {0}
    BY <1>3, ParentIsPrefix
  <2>2. l \in 0 .. Len(p) - 1 /\ Len(p) - 1 \in 0 .. Len(p)
    BY <1>2, <1>3, <2>1
  <2>3. q = SubSeq(Parent(p), 1, l)
    BY <1>1, <2>1, <2>2, PrefixOfPrefix
  <2> QED BY <2>1, <2>2, <2>3 DEF Prefixes
<1> QED BY <1>2, <1>3

LEMMA NearestOfReal ==
  ASSUME NEW p \in ModulePath, p # << >>, p \notin archive.synthetic
  PROVE  NearestReal(p) = p
<1>1. PICK real : real = Prefixes(p) \ (archive.synthetic \union {<< >>})
  OBVIOUS
<1>2. Len(p) \in Nat /\ Len(p) \in 0 .. Len(p)
  BY DEF ModulePath
<1>3. p \in real
  <2>1. SubSeq(p, 1, Len(p)) = p
    BY <1>2, PrefixIsPath
  <2> QED BY <1>1, <1>2, <2>1 DEF Prefixes
<1>4. \A r \in real : Len(r) \in 0 .. Len(p) /\ (Len(r) = Len(p) => r = p)
  BY <1>1, LongestPrefix
<1>5. \A r \in real : Len(r) <= Len(p)
  BY <1>2, <1>4
<1>6. ASSUME NEW q \in real, \A r \in real : Len(r) <= Len(q)
      PROVE  q = p
  <2>1. Len(p) <= Len(q) /\ Len(q) \in 0 .. Len(p)
    BY <1>3, <1>4, <1>6
  <2> QED BY <1>2, <1>4, <2>1
<1> QED BY <1>1, <1>3, <1>5, <1>6 DEF NearestReal

LEMMA NearestOfSynthetic ==
  ASSUME NEW p \in ModulePath, p # << >>, p \in archive.synthetic
  PROVE  NearestReal(p) = NearestReal(Parent(p))
<1>1. Prefixes(Parent(p)) \subseteq Prefixes(p)
  <2>1. Parent(p) = SubSeq(p, 1, Len(p) - 1) /\ Len(Parent(p)) = Len(p) - 1 /\ Len(p) \in Nat \ {0}
    BY ParentIsPrefix
  <2>2. ASSUME NEW l \in 0 .. Len(p) - 1
        PROVE  SubSeq(Parent(p), 1, l) = SubSeq(p, 1, l) /\ l \in 0 .. Len(p)
    <3>1. Len(p) - 1 \in 0 .. Len(p) /\ l \in 0 .. Len(p)
      BY <2>1
    <3> QED BY <2>1, <3>1, PrefixOfPrefix
  <2> QED BY <2>1, <2>2 DEF Prefixes
<1>2. \A q \in Prefixes(p) : q = p \/ q \in Prefixes(Parent(p))
  BY LongestPrefix
<1>3. Prefixes(p) \ (archive.synthetic \union {<< >>}) = Prefixes(Parent(p)) \ (archive.synthetic \union {<< >>})
  BY <1>1, <1>2
<1> QED BY <1>3 DEF NearestReal

(***************************************************************************)
(* Included is a function by recursion on the length of the path: the one  *)
(* that asks the nearest module that is not synthetic.                     *)
(***************************************************************************)
AsksNearest == [p \in ModulePath |-> IF p = << >> THEN Matches(p) ELSE Matches(NearestReal(p))]

HandsDown(f) == [p \in ModulePath |-> IF p \in archive.synthetic THEN f[Parent(p)] ELSE Matches(p)]

LEMMA SyntheticIsBelow ==
  ASSUME TypeOK, NEW p \in archive.synthetic
  PROVE  /\ p \in ModulePath /\ p # << >> /\ Parent(p) \in ModulePath /\ Parent(p) # << >>
         /\ Len(p) \in Nat /\ Len(Parent(p)) \in Nat /\ Len(Parent(p)) < Len(p)
<1>1. p \in ModulePath /\ Len(p) > 1 /\ p # << >>
  BY ArchiveIsForest DEF TypeOK
<1>2. Parent(p) \in ModulePath /\ Len(p) \in Nat \ {0} /\ Len(Parent(p)) = Len(p) - 1
  BY <1>1, ParentIsPrefix
<1>3. Parent(p) # << >>
  <2>1. Len(<< >>) = 0
    OBVIOUS
  <2> QED BY <1>1, <1>2, <2>1
<1> QED BY <1>1, <1>2, <1>3

LEMMA NearestIsAsked ==
  ASSUME TypeOK
  PROVE  AsksNearest = HandsDown(AsksNearest)
<1>1. ASSUME NEW p \in ModulePath
      PROVE  AsksNearest[p] = IF p \in archive.synthetic THEN AsksNearest[Parent(p)] ELSE Matches(p)
  <2>1. CASE p \in archive.synthetic
    <3>1. p # << >> /\ Parent(p) \in ModulePath /\ Parent(p) # << >>
      BY <2>1, SyntheticIsBelow
    <3>2. NearestReal(p) = NearestReal(Parent(p))
      BY <2>1, <3>1, NearestOfSynthetic
    <3> QED BY <2>1, <3>1, <3>2 DEF AsksNearest
  <2>2. CASE p \notin archive.synthetic
    BY <2>2, NearestOfReal DEF AsksNearest
  <2> QED BY <2>1, <2>2
<1> QED BY <1>1 DEF AsksNearest, HandsDown

LEMMA IncludedHandsDown ==
  ASSUME TypeOK
  PROVE  Included = HandsDown(Included)
<1>1. \E f : f = HandsDown(f)
  BY NearestIsAsked
<1> QED BY <1>1 DEF Included, HandsDown

LEMMA IncludedAsksNearest ==
  ASSUME TypeOK, NEW p \in ModulePath
  PROVE  Included[p] = AsksNearest[p]
<1> DEFINE Differ == {q \in ModulePath : Included[q] # AsksNearest[q]}
           Lens == {Len(q) : q \in Differ}
           R == {e \in Nat \X Nat : e[1] < e[2]}
<1>1. IsWellFoundedOn(R, Nat)
  BY NatLessThanWellFounded DEF OpToRel
<1>2. \A q \in ModulePath : /\ Included[q] = IF q \in archive.synthetic THEN Included[Parent(q)] ELSE Matches(q)
                      /\ AsksNearest[q] = IF q \in archive.synthetic THEN AsksNearest[Parent(q)] ELSE Matches(q)
  <2>1. \A f : f = HandsDown(f) =>
          \A q \in ModulePath : f[q] = IF q \in archive.synthetic THEN f[Parent(q)] ELSE Matches(q)
    BY DEF HandsDown
  <2> QED BY <2>1, NearestIsAsked, IncludedHandsDown
<1>3. Differ = {}
  <2>1. SUFFICES ASSUME Differ # {} PROVE FALSE
    OBVIOUS
  <2>2. Lens # {} /\ Lens \subseteq Nat
    BY <2>1 DEF ModulePath
  <2>3. PICK n \in Lens : \A m \in Lens : ~(<<m, n>> \in R)
    <3> HIDE DEF Lens, R
    <3> QED BY <1>1, <2>2, WFMin
  <2>4. PICK q \in Differ : n = Len(q)
    OBVIOUS
  <2>5. q \in archive.synthetic
    BY <1>2, <2>4
  <2>6. Parent(q) \in ModulePath /\ Len(q) \in Nat /\ Len(Parent(q)) \in Nat /\ Len(Parent(q)) < Len(q)
    BY <2>5, SyntheticIsBelow
  <2>7. Parent(q) \in Differ
    BY <1>2, <2>4, <2>5, <2>6
  <2>8. Len(Parent(q)) \in Lens /\ <<Len(Parent(q)), n>> \in R
    BY <2>4, <2>6, <2>7
  <2> QED BY <2>3, <2>8
<1> QED BY <1>3

(***************************************************************************)
(* The file of a combined run renders the data of the modules whose        *)
(* nearest module that is not synthetic the filter matches.                *)
(***************************************************************************)
THEOREM CombinedCorrect == GenSpec => []CombinedIsSelected
<1>1. IInv => CombinedIsSelected
  <2> SUFFICES ASSUME IInv, pc = "done", mode = "Combined"
               PROVE  files[CombinedFile].data = {p \in archive.data : Matches(NearestReal(p))}
    BY DEF CombinedIsSelected
  <2>1. files[CombinedFile] = Combined
    BY DEF IInv, CombinedInv
  <2>2. Combined.data = {p \in archive.data : RenderData(p)}
    BY DEF Combined, FileOf
  <2>3. ASSUME NEW p \in archive.data
        PROVE  RenderData(p) <=> Matches(NearestReal(p))
    <3>1. p \in ModulePath /\ p # << >>
      BY ArchiveIsForest DEF IInv, TypeOK
    <3>2. Included[p] = Matches(NearestReal(p))
      BY <3>1, IncludedAsksNearest DEF AsksNearest, IInv
    <3> QED BY <3>2 DEF RenderData
  <2> QED BY <2>1, <2>2, <2>3
<1> QED BY <1>1, Invariance, PTL
=============================================================================
