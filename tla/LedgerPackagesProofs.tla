------------------------ MODULE LedgerPackagesProofs ------------------------
(***************************************************************************)
(* Proofs about LedgerPackages, for every finite set of package ids and    *)
(* every order of uploads, removals, answers and timeouts: from_ledger is  *)
(* all or nothing, and find_module answers for the listing.                *)
(***************************************************************************)
EXTENDS LedgerPackages, SequenceTheorems, TLAPS

----------------------------------------------------------------------------
(***************************************************************************)
(* Before the listing arrives nothing was asked for; a fetch that ended    *)
(* well was served by the participant with a package that converts.  The   *)
(* second part is what carries LoadedIsListing from the fetches, that end  *)
(* one by one, to the collection.                                          *)
(***************************************************************************)
NothingBeforeListing == pc = "list" => listing = {} /\ completed = << >>

OkWasServed ==
  \A k \in DOMAIN completed :
    completed[k].outcome = "ok" =>
      reply[completed[k].id] = "package" /\ content[completed[k].id].wellFormed

IInv ==
  /\ TypeOK
  /\ NothingBeforeListing
  /\ OkWasServed
  /\ LoadedIsListing
  /\ FindsWhatWasListed

LEMMA InitEstablishes == Init => IInv
<1> SUFFICES ASSUME Init PROVE IInv
  OBVIOUS
<1> USE DEF Init
<1>1. completed \in Seq(Completion) /\ packages \in Seq(Pkg) /\ DOMAIN completed = {}
  OBVIOUS
<1>2. content \in ContentType
  BY ContentAssumption
<1>3. Ended = {}
  BY <1>1 DEF Ended
<1>4. TypeOK
  BY <1>1, <1>2, <1>3 DEF TypeOK, NoAnswer
<1> QED
  BY <1>1, <1>4 DEF IInv, NothingBeforeListing, OkWasServed, LoadedIsListing, FindsWhatWasListed

----------------------------------------------------------------------------
(***************************************************************************)
(* Ending one fetch: the sequence of the ended ones grows by one id that   *)
(* was not in it.                                                          *)
(***************************************************************************)
LEMMA EndPreserves ==
  ASSUME IInv, pc = "fetch", NEW p \in Pending, NEW o \in Outcomes, End(p, o),
         o = "ok" => reply[p] = "package" /\ content[p].wellFormed
  PROVE  IInv'
<1> DEFINE c == [id |-> p, outcome |-> o]
<1> USE DEF IInv
<1>1. /\ completed \in Seq(Completion)
      /\ listing \subseteq Pkg
      /\ \A j, k \in DOMAIN completed : completed[j].id = completed[k].id => j = k
      /\ Ended \subseteq listing
  BY DEF TypeOK
<1>2. p \in listing /\ p \notin Ended /\ c \in Completion
  BY <1>1 DEF Pending, Completion
<1>3. /\ completed' = Append(completed, c)
      /\ UNCHANGED <<content, known, listing, reply, packages, pc, answer>>
  BY DEF End
<1>4. PICK n \in Nat : n = Len(completed) /\ DOMAIN completed = 1 .. n
  BY <1>1, LenProperties
<1>5. /\ completed' \in Seq(Completion)
      /\ DOMAIN completed' = 1 .. (n + 1)
      /\ completed'[n + 1] = c
      /\ \A k \in 1 .. n : completed'[k] = completed[k]
  BY <1>1, <1>2, <1>3, <1>4, AppendProperties, LenProperties
<1>6. \A k \in 1 .. (n + 1) : k \in 1 .. n \/ k = n + 1
  OBVIOUS
<1>7. Ended' \subseteq listing'
  BY <1>1, <1>2, <1>3, <1>4, <1>5, <1>6 DEF Ended
<1>8. ASSUME NEW j \in 1 .. (n + 1), NEW k \in 1 .. (n + 1),
             completed'[j].id = completed'[k].id
      PROVE  j = k
  <2>1. \A i \in 1 .. n : completed[i].id # p
    BY <1>2, <1>4 DEF Ended
  <2>2. CASE j \in 1 .. n /\ k \in 1 .. n
    BY <1>1, <1>4, <1>5, <1>8, <2>2, SMTT(30)
  <2>3. CASE j = n + 1 /\ k \in 1 .. n
    BY <1>5, <1>8, <2>1, <2>3
  <2>4. CASE k = n + 1 /\ j \in 1 .. n
    BY <1>5, <1>8, <2>1, <2>4
  <2> QED BY <1>6, <2>2, <2>3, <2>4
<1>9. TypeOK'
  BY <1>3, <1>5, <1>7, <1>8 DEF TypeOK
<1>10. OkWasServed'
  <2> SUFFICES ASSUME NEW k \in 1 .. (n + 1), completed'[k].outcome = "ok"
               PROVE  /\ reply[completed'[k].id] = "package"
                      /\ content[completed'[k].id].wellFormed
    BY <1>3, <1>5 DEF OkWasServed
  <2>1. CASE k \in 1 .. n
    BY <1>4, <1>5, <2>1 DEF OkWasServed
  <2>2. CASE k = n + 1
    BY <1>5, <2>2
  <2> QED BY <1>6, <2>1, <2>2
<1>11. pc' = "fetch"
  BY <1>3
<1> QED
  BY <1>9, <1>10, <1>11 DEF NothingBeforeListing, LoadedIsListing, FindsWhatWasListed

(***************************************************************************)
(* The collection that Collect builds from the fetches, all of them over   *)
(* and all of them well.                                                   *)
(***************************************************************************)
LEMMA CollectPreserves == IInv /\ Collect => IInv'
<1> SUFFICES ASSUME IInv, Collect PROVE IInv'
  OBVIOUS
<1> USE DEF IInv, Collect, Exhausted
<1>1. /\ completed \in Seq(Completion)
      /\ \A j, k \in DOMAIN completed : completed[j].id = completed[k].id => j = k
      /\ Ended \subseteq listing
  BY DEF TypeOK
<1>2. PICK n \in Nat : DOMAIN completed = 1 .. n
  BY <1>1, LenProperties
<1>3. \A k \in 1 .. n : completed[k] \in Completion
  BY <1>1, <1>2, ElementOfSeq, LenProperties
<1>4. /\ packages' \in [1 .. n -> Pkg]
      /\ DOMAIN packages' = 1 .. n
      /\ \A k \in 1 .. n : packages'[k] = completed[k].id
  BY <1>2, <1>3 DEF Completion
<1>5. packages' \in Seq(Pkg)
  BY <1>4, IsASeq
<1>6. Ended = listing
  BY <1>1 DEF Pending
<1>7. ToSet(packages') = Ended
  BY <1>2, <1>4 DEF ToSet, Ended
<1>8. IsInjective(packages')
  BY <1>1, <1>2, <1>4 DEF IsInjective
<1>9. \A p \in listing : reply[p] = "package" /\ content[p].wellFormed
  BY <1>6 DEF OkWasServed, AllOk, Ended
<1>10. /\ pc' = "loaded"
       /\ UNCHANGED <<content, known, listing, reply, completed, answer>>
  OBVIOUS
<1>11. TypeOK'
  BY <1>5, <1>10, ZenonT(30) DEF TypeOK, Ended
<1>12. LoadedIsListing'
  <2>1. ToSet(packages)' = listing'
    BY <1>6, <1>7, <1>10 DEF ToSet
  <2> QED BY <1>8, <1>9, <1>10, <2>1 DEF LoadedIsListing, IsInjective
<1>13. OkWasServed'
  BY <1>10 DEF OkWasServed
<1> QED
  BY <1>10, <1>11, <1>12, <1>13 DEF NothingBeforeListing,
     FindsWhatWasListed

LEMMA FindPreserves ==
  ASSUME IInv, NEW m \in Module, FindModule(m)
  PROVE  IInv'
<1> USE DEF IInv
<1>1. /\ packages \in Seq(Pkg)
      /\ ToSet(packages) = listing
      /\ pc = "loaded" /\ pc' = "answered"
      /\ UNCHANGED <<content, known, listing, reply, completed, packages>>
  BY DEF TypeOK, LoadedIsListing, FindModule
<1>2. \A k \in DOMAIN packages : packages[k] \in listing /\ packages[k] \in Pkg
  BY <1>1, ElementOfSeq, LenProperties DEF ToSet
<1>3. \A p \in listing : \E k \in DOMAIN packages : packages[k] = p
  BY <1>1 DEF ToSet
<1>4. /\ answer'.id \in Pkg \union {None}
      /\ answer'.result = "found" =>
           answer'.id \in listing /\ answer'.module \in content[answer'.id].modules
      /\ answer'.result = "absent" =>
           \A p \in listing : answer'.module \notin content[p].modules
      /\ answer'.result = "undecodable" => \E p \in listing : ~content[p].decodes
  <2>1. CASE Undecodable # {} /\ Answer(m, "undecodable", None)
    BY <1>2, <2>1 DEF Answer, Undecodable
  <2>2. CASE Undecodable = {} /\ Holders(m) = {} /\ Answer(m, "absent", None)
    <3>1. \A p \in listing : m \notin content[p].modules
      BY <1>3, <2>2 DEF Holders, Undecodable
    <3> QED BY <2>2, <3>1 DEF Answer
  <2>3. ASSUME NEW k \in Holders(m), Answer(m, "found", packages[k])
        PROVE  <1>4!1 /\ <1>4!2 /\ <1>4!3 /\ <1>4!4
    BY <1>2, <2>3 DEF Answer, Holders
  <2> QED BY <2>1, <2>2, <2>3 DEF FindModule
<1>5. TypeOK'
  BY <1>1, <1>4 DEF TypeOK, Ended
<1>6. FindsWhatWasListed'
  BY <1>1, <1>4 DEF FindsWhatWasListed
<1>7. ToSet(packages)' = ToSet(packages)
  BY <1>1 DEF ToSet
<1>8. LoadedIsListing'
  BY <1>1, <1>7 DEF LoadedIsListing, IsInjective
<1> QED
  BY <1>1, <1>5, <1>6, <1>8 DEF NothingBeforeListing, OkWasServed

----------------------------------------------------------------------------
LEMMA NextPreserves == IInv /\ [Next]_vars => IInv'
<1> SUFFICES ASSUME IInv, [Next]_vars PROVE IInv'
  OBVIOUS
<1> USE DEF IInv
<1>0. TypeOK
  OBVIOUS
<1>1. CASE Change
  <2>1. /\ known' \subseteq Pkg
        /\ pc = "fetch"
        /\ UNCHANGED <<content, listing, reply, completed, packages, pc, answer>>
    BY <1>0, <1>1 DEF Change, TypeOK
  <2>2. Ended' = Ended
    BY <2>1 DEF Ended
  <2>3. TypeOK'
    BY <1>0, <2>1, <2>2 DEF TypeOK
  <2>4. OkWasServed'
    BY <2>1 DEF OkWasServed
  <2> QED BY <2>1, <2>3, <2>4 DEF NothingBeforeListing, LoadedIsListing, FindsWhatWasListed
<1>2. ASSUME NEW p \in Pkg, Serve(p) PROVE IInv'
  <2>1. /\ pc = "fetch"
        /\ reply[p] = "none"
        /\ reply' \in [Pkg -> {"none", "package", "not found"}]
        /\ \A q \in Pkg \ {p} : reply'[q] = reply[q]
        /\ UNCHANGED <<content, known, listing, completed, packages, pc, answer>>
    BY <1>0, <1>2 DEF Serve, TypeOK
  <2>2. \A k \in DOMAIN completed : completed[k].id \in Pkg
    BY <1>0 DEF TypeOK, Ended
  <2>3. OkWasServed'
    BY <2>1, <2>2 DEF OkWasServed
  <2>4. Ended' = Ended
    BY <2>1 DEF Ended
  <2>5. TypeOK'
    BY <1>0, <2>1, <2>4 DEF TypeOK
  <2> QED BY <2>1, <2>3, <2>5 DEF NothingBeforeListing, LoadedIsListing, FindsWhatWasListed
<1>3. ASSUME NEW p \in Pkg, Deliver(p) PROVE IInv'
  <2>1. /\ pc = "fetch" /\ p \in Pending
        /\ reply[p] \in {"package", "not found"}
        /\ End(p, Arrived(p))
    BY <1>0, <1>3 DEF Deliver, TypeOK
  <2>2. /\ Arrived(p) \in Outcomes
        /\ Arrived(p) = "ok" => reply[p] = "package" /\ content[p].wellFormed
    BY <2>1 DEF Arrived, Outcomes
  <2> QED BY <2>1, <2>2, EndPreserves
<1>4. ASSUME NEW p \in Pkg, TimeOut(p) PROVE IInv'
  BY <1>4, EndPreserves DEF TimeOut, Outcomes
<1>5. CASE List
  <2>1. /\ completed = << >> /\ listing' \subseteq Pkg /\ pc' = "fetch"
        /\ UNCHANGED <<content, known, reply, completed, packages, answer>>
    BY <1>0, <1>5 DEF List, NothingBeforeListing, TypeOK
  <2>2. Ended' = {}
    BY <2>1 DEF Ended
  <2>3. TypeOK'
    BY <1>0, <2>1, <2>2 DEF TypeOK
  <2>4. OkWasServed'
    BY <2>1, EmptySeq DEF OkWasServed
  <2> QED BY <2>1, <2>3, <2>4 DEF NothingBeforeListing, LoadedIsListing, FindsWhatWasListed
<1>6. CASE ListFails
  <2>1. /\ listing = {} /\ pc' = "failed"
        /\ UNCHANGED <<content, known, listing, reply, completed, packages, answer>>
    BY <1>6 DEF ListFails, NothingBeforeListing
  <2>2. TypeOK'
    BY <1>0, <2>1 DEF TypeOK, Ended
  <2>3. OkWasServed'
    BY <2>1 DEF OkWasServed
  <2> QED BY <2>1, <2>2, <2>3 DEF NothingBeforeListing, LoadedIsListing, FindsWhatWasListed
<1>7. CASE Collect
  BY <1>7, CollectPreserves
<1>8. CASE CollectError
  <2>1. /\ pc' = "failed"
        /\ UNCHANGED <<content, known, listing, reply, completed, packages, answer>>
    BY <1>8 DEF CollectError
  <2>2. Ended' = Ended
    BY <2>1 DEF Ended
  <2>3. TypeOK'
    BY <1>0, <2>1, <2>2 DEF TypeOK
  <2>4. OkWasServed'
    BY <2>1 DEF OkWasServed
  <2> QED BY <2>1, <2>2, <2>3, <2>4 DEF NothingBeforeListing, LoadedIsListing, FindsWhatWasListed
<1>9. ASSUME NEW m \in Module, FindModule(m) PROVE IInv'
  BY <1>9, FindPreserves
<1>10. CASE UNCHANGED vars
  <2>1. ToSet(packages)' = ToSet(packages) /\ Ended' = Ended
    BY <1>10 DEF vars, Ended, ToSet
  <2>2. TypeOK'
    BY <1>0, <1>10, <2>1 DEF vars, TypeOK
  <2>3. OkWasServed' /\ NothingBeforeListing'
    BY <1>10 DEF vars, OkWasServed, NothingBeforeListing
  <2>4. LoadedIsListing'
    BY <1>10, <2>1 DEF vars, LoadedIsListing, IsInjective
  <2>5. FindsWhatWasListed'
    BY <1>10, <2>1 DEF vars, FindsWhatWasListed
  <2> QED BY <2>2, <2>3, <2>4, <2>5
<1> QED
  BY <1>1, <1>2, <1>3, <1>4, <1>5, <1>6, <1>7, <1>8, <1>9, <1>10 DEF Next

THEOREM Invariance == Spec => []IInv
  BY InitEstablishes, NextPreserves, PTL DEF Spec

----------------------------------------------------------------------------
(***************************************************************************)
(* Type correctness: a fetch ends once, and only listed packages are       *)
(* fetched.                                                                *)
(***************************************************************************)
THEOREM TypeCorrect == Spec => []TypeOK
<1>1. IInv => TypeOK
  BY DEF IInv
<1> QED BY <1>1, Invariance, PTL

(***************************************************************************)
(* from_ledger is all or nothing: what it returns is the listing.          *)
(***************************************************************************)
THEOREM AllOrNothing == Spec => []LoadedIsListing
<1>1. IInv => LoadedIsListing
  BY DEF IInv
<1> QED BY <1>1, Invariance, PTL

(***************************************************************************)
(* find_module answers for the packages that were listed.                  *)
(***************************************************************************)
THEOREM FindModuleCorrect == Spec => []FindsWhatWasListed
<1>1. IInv => FindsWhatWasListed
  BY DEF IInv
<1> QED BY <1>1, Invariance, PTL

=============================================================================
