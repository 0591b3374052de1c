----------------------------- MODULE DarAssembly -----------------------------
(***************************************************************************)
(* DamlPackages::into_dar as it runs (daml-util/src/package.rs): the main  *)
(* package is resolved, the packages it references are collected by a      *)
(* breadth-first walk, and the ones that were visited become archives and  *)
(* then a DAR.                                                             *)
(***************************************************************************)
EXTENDS Naturals, FiniteSets, SequencesExt

CONSTANTS Pkg, None, Request

VARIABLES
  packages, lf, hint, filter,   \* the request; see DarSelection
  pc,          \* the part of into_dar that runs next
  main,        \* main_id
  queue,       \* the walk's queue of package ids
  visited,     \* the ids the walk has taken off the queue
  archives,    \* the packages that are kept, then converted
  dar          \* the result: the main archive and the dependencies

vars == <<packages, lf, hint, filter, pc, main, queue, visited, archives, dar>>
request == <<packages, lf, hint, filter>>

NoDar == [main |-> None, deps |-> << >>]

\* What the caller of into_dar sees.
Outcome ==
  [result   |-> IF pc = "done" THEN "delivered"
                ELSE IF pc = "failed" THEN "refused" ELSE "pending",
   main     |-> dar.main,
   contents |-> IF pc = "done" THEN {dar.main} \union ToSet(dar.deps) ELSE {}]

Promise == INSTANCE DarSelection WITH outcome <- Outcome

ASSUME PkgAssumption == IsFiniteSet(Pkg) /\ None \notin Pkg

ASSUME RequestAssumption ==
  Request \subseteq
    [packages : Seq(Pkg), lf : [Pkg -> Promise!Content],
     hint : Pkg \union {None}, filter : BOOLEAN]

Held == ToSet(packages)

----------------------------------------------------------------------------
Init ==
  /\ \E r \in Request :
       /\ packages = r.packages
       /\ lf = r.lf
       /\ hint = r.hint
       /\ filter = r.filter
  /\ pc = "resolve"
  /\ main = None
  /\ queue = << >>
  /\ visited = {}
  /\ archives = << >>
  /\ dar = NoDar

Fail ==
  /\ pc' = "failed"
  /\ UNCHANGED <<packages, lf, hint, filter, main, queue, visited, archives, dar>>

(***************************************************************************)
(* resolve_main_id: a hint must be one of the packages; without one the    *)
(* first package is the main one.  Without filter_deps every package is    *)
(* kept and nothing is walked.                                             *)
(***************************************************************************)
Resolved(id) ==
  /\ main' = id
  /\ \/ filter /\ pc' = "decode" /\ UNCHANGED archives
     \/ ~filter /\ pc' = "archive" /\ archives' = packages
  /\ UNCHANGED <<packages, lf, hint, filter, queue, visited, dar>>

ResolveMain ==
  /\ pc = "resolve"
  /\ \/ hint # None /\ hint \in Held /\ Resolved(hint)
     \/ hint = None /\ packages # << >> /\ Resolved(packages[1])

RejectMain ==
  /\ pc = "resolve"
  /\ IF hint = None THEN packages = << >> ELSE hint \notin Held
  /\ Fail

(***************************************************************************)
(* payloads_by_id decodes every package, the ones that the walk will never *)
(* reach included, before the walk starts from the main package.           *)
(***************************************************************************)
StartAtHint == <<hint>>                     \* mutant
Start == <<main>>

DecodePayloads ==
  /\ pc = "decode"
  /\ \A p \in Held : lf[p].decodes
  /\ pc' = "walk"
  /\ queue' = Start
  /\ UNCHANGED <<packages, lf, hint, filter, main, visited, archives, dar>>

RejectPayload ==
  /\ pc = "decode"
  /\ \E p \in Held : ~lf[p].decodes
  /\ Fail

----------------------------------------------------------------------------
(***************************************************************************)
(* One turn of the loop of reachable_from.  The references of a package    *)
(* come out of a hash set: in any order.                                   *)
(***************************************************************************)
References(p) == lf[p].types

Unvisited(S) == S \ visited'

PeekWhenVisited == IF Head(queue) \in visited THEN queue ELSE Tail(queue)  \* mutant
Popped == Tail(queue)

SkipVisited ==
  /\ pc = "walk" /\ queue # << >>
  /\ Head(queue) \in visited
  /\ queue' = Popped
  /\ UNCHANGED <<packages, lf, hint, filter, pc, main, visited, archives, dar>>

SkipUnknown ==
  /\ pc = "walk" /\ queue # << >>
  /\ Head(queue) \notin visited
  /\ Head(queue) \notin Held
  /\ visited' = visited \union {Head(queue)}
  /\ queue' = Popped
  /\ UNCHANGED <<packages, lf, hint, filter, pc, main, archives, dar>>

Expand ==
  /\ pc = "walk" /\ queue # << >>
  /\ LET id == Head(queue)
     IN  /\ id \notin visited
         /\ id \in Held
         /\ lf[id].converts
         /\ visited' = visited \union {id}
         /\ \E refs \in SetToSeqs(Unvisited(References(id))) :
              queue' = Popped \o refs
  /\ UNCHANGED <<packages, lf, hint, filter, pc, main, archives, dar>>

RejectReferences ==
  /\ pc = "walk" /\ queue # << >>
  /\ Head(queue) \notin visited
  /\ Head(queue) \in Held
  /\ ~lf[Head(queue)].converts
  /\ Fail

\* iter().filter(): the positions of the packages to keep, in their order.
KeptUnfiltered == DOMAIN packages                              \* mutant
Kept == {k \in DOMAIN packages : packages[k] \in visited}

Keep ==
  /\ pc = "walk" /\ queue = << >>
  /\ \E order \in SetToSeqs(Kept) :
       /\ \A j, k \in DOMAIN order : j < k => order[j] < order[k]
       /\ archives' = [k \in DOMAIN order |-> packages[order[k]]]
  /\ pc' = "archive"
  /\ UNCHANGED <<packages, lf, hint, filter, main, queue, visited, dar>>

----------------------------------------------------------------------------
(***************************************************************************)
(* packages_to_archives decodes the packages that are left, a second time  *)
(* if they were filtered; archives_to_dar takes the main one out with      *)
(* swap_remove, which puts the last one in its place.  Its two error paths *)
(* (no archive at all, main not among them) are dead: see MainIsKept.      *)
(***************************************************************************)
RejectArchive ==
  /\ pc = "archive"
  /\ \E p \in ToSet(archives) : ~lf[p].decodes
  /\ Fail

PopLast(s, k) == Front(s)                                      \* mutant
SwapRemove(s, k) ==
  [j \in 1 .. (Len(s) - 1) |-> IF j = k THEN Last(s) ELSE s[j]]

Assemble ==
  /\ pc = "archive"
  /\ \A p \in ToSet(archives) : lf[p].decodes
  /\ \E k \in DOMAIN archives :
       /\ archives[k] = main
       /\ \A j \in 1 .. (k - 1) : archives[j] # main
       /\ dar' = [main |-> archives[k], deps |-> SwapRemove(archives, k)]
  /\ pc' = "done"
  /\ UNCHANGED <<packages, lf, hint, filter, main, queue, visited, archives>>

Next ==
  \/ ResolveMain \/ RejectMain
  \/ DecodePayloads \/ RejectPayload
  \/ SkipVisited \/ SkipUnknown \/ Expand \/ RejectReferences
  \/ Keep
  \/ RejectArchive \/ Assemble

\* into_dar runs on its caller's thread and never blocks.
Spec == Init /\ [][Next]_vars /\ WF_vars(Next)

----------------------------------------------------------------------------
(***************************************************************************)
(* Type invariant: only package ids are ever queued, visited or archived.  *)
(***************************************************************************)
TypeOK ==
  /\ packages \in Seq(Pkg)
  /\ lf \in [Pkg -> Promise!Content]
  /\ hint \in Pkg \union {None}
  /\ filter \in BOOLEAN
  /\ pc \in {"resolve", "decode", "walk", "archive", "done", "failed"}
  /\ main \in Pkg \union {None}
  /\ queue \in Seq(Pkg)
  /\ visited \subseteq Pkg
  /\ archives \in Seq(Pkg)
  /\ pc \in {"decode", "walk", "archive", "done"} => main = Promise!MainOf
  /\ pc = "done" => dar \in [main : Pkg, deps : Seq(Pkg)]

(***************************************************************************)
(* The walk never strays and never forgets: whatever was visited or queued *)
(* is reachable from the main package, and all that a visited package      *)
(* refers to has been visited or is still queued.                          *)
(***************************************************************************)
Seen == visited \union ToSet(queue)

WalkIsSound == \A p \in Seen : Promise!Reaches(main, p)

WalkIsComplete ==
  pc \in {"walk", "archive", "done"} /\ filter =>
    /\ main \in Seen
    /\ \A p \in visited \intersect Held : lf[p].types \subseteq Seen

WalkInvariant == WalkIsSound /\ WalkIsComplete

(***************************************************************************)
(* The main package survives the filter, so that the two errors of         *)
(* archives_to_dar cannot happen, and what the archives become is decided  *)
(* by what the walk has visited once its queue is empty.                   *)
(***************************************************************************)
MainIsKept == pc \in {"archive", "done"} => main \in ToSet(archives)

(***************************************************************************)
(* In a DAR made of distinct packages the main archive is not among its    *)
(* own dependencies and no dependency is there twice, whatever position    *)
(* swap_remove took the main archive from.                                 *)
(***************************************************************************)
DependenciesOnce ==
  pc = "done" /\ IsInjective(packages) =>
    /\ dar.main \notin ToSet(dar.deps)
    /\ IsInjective(dar.deps)
    /\ Len(dar.deps) + 1 = Len(archives)

(***************************************************************************)
(* The result is what DarSelection promises: a DAR of exactly the packages *)
(* wanted, or an error for one of its reasons.                             *)
(***************************************************************************)
KeepsPromise == Promise!Spec

(***************************************************************************)
(* into_dar returns, on every reference graph, cyclic ones included.       *)
(***************************************************************************)
Returns == <>(pc \in {"done", "failed"})

(***************************************************************************)
(* "collecting every cross-package reference" (collect_referenced_         *)
(* package_ids): a filtered DAR holds every package of the collection that *)
(* one of its packages refers to in any way.                               *)
(***************************************************************************)
EveryReferenceKept ==
  pc = "done" /\ filter =>
    LET kept == {dar.main} \union ToSet(dar.deps)
    IN  \A p \in kept :
          ((lf[p].types \union lf[p].others) \intersect Held) \subseteq kept

=============================================================================
