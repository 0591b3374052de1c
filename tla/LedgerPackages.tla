--------------------------- MODULE LedgerPackages ---------------------------
(***************************************************************************)
(* DamlPackages::from_ledger and a find_module on what it returns          *)
(* (daml-util/src/package.rs): the participant is asked for the ids of its *)
(* packages, every package is then fetched by a request of its own, all of *)
(* them at once, and the call returns when the last of them has completed. *)
(* Packages come and go on the participant meanwhile, answers overtake     *)
(* each other, and a request nobody answers is given up by the client.     *)
(***************************************************************************)
EXTENDS Naturals, FiniteSets, SequencesExt

CONSTANTS
  Pkg,        \* package ids
  Module,     \* dotted module names
  Content,    \* what the packages may be: see ContentType
  None

Outcomes == {"ok", "not found", "timeout", "malformed"}

\* wellFormed: the response names a hash function the client knows;
\* decodes: its payload parses; modules: the modules the payload names.
ContentType ==
  [Pkg -> [wellFormed : BOOLEAN, decodes : BOOLEAN, modules : SUBSET Module]]

ASSUME PkgAssumption == IsFiniteSet(Pkg) /\ None \notin Pkg

ASSUME ContentAssumption == Content \subseteq ContentType

VARIABLES
  content,    \* the packages, whoever holds them
  known,      \* the packages the participant holds now
  listing,    \* the ids list_packages returned
  reply,      \* per listed id, what the participant has answered
  completed,  \* the fetches that are over, in the order they ended
  packages,   \* the collection from_ledger returns, in its order
  pc,
  answer      \* of find_module

vars == <<content, known, listing, reply, completed, packages, pc, answer>>

Completion == [id : Pkg, outcome : Outcomes]
NoAnswer == [module |-> None, result |-> "none", id |-> None]

Ended == {completed[k].id : k \in DOMAIN completed}
PendingUnfiltered ==                           \* mutant
  {p \in listing : completed = << >> \/ Last(completed).id # p}
Pending == listing \ Ended

Init ==
  /\ content \in Content
  /\ known \in SUBSET Pkg
  /\ listing = {}
  /\ reply = [p \in Pkg |-> "none"]
  /\ completed = << >>
  /\ packages = << >>
  /\ pc = "list"
  /\ answer = NoAnswer

----------------------------------------------------------------------------
(***************************************************************************)
(* The participant: packages are uploaded and removed, and a fetch is      *)
(* answered by what it holds at that moment.                               *)
(***************************************************************************)
Change ==
  /\ pc = "fetch"
  /\ \E p \in Pkg : known' = IF p \in known THEN known \ {p} ELSE known \union {p}
  /\ UNCHANGED <<content, listing, reply, completed, packages, pc, answer>>

Serve(p) ==
  /\ pc = "fetch" /\ p \in Pending /\ reply[p] = "none"
  /\ reply' = [reply EXCEPT ![p] = IF p \in known THEN "package" ELSE "not found"]
  /\ UNCHANGED <<content, known, listing, completed, packages, pc, answer>>

----------------------------------------------------------------------------
(***************************************************************************)
(* list_packages; an error of it is the error of the call.                 *)
(***************************************************************************)
List ==
  /\ pc = "list"
  /\ listing' = known
  /\ pc' = "fetch"
  /\ UNCHANGED <<content, known, reply, completed, packages, answer>>

ListFails ==
  /\ pc = "list"
  /\ pc' = "failed"
  /\ UNCHANGED <<content, known, listing, reply, completed, packages, answer>>

(***************************************************************************)
(* get_package: the answer arrives and is converted by                     *)
(* DamlPackage::try_from, or the timeout of the channel ends the request.  *)
(***************************************************************************)
End(p, outcome) ==
  /\ completed' = Append(completed, [id |-> p, outcome |-> outcome])
  /\ UNCHANGED <<content, known, listing, reply, packages, pc, answer>>

Arrived(p) ==
  IF reply[p] = "not found" THEN "not found"
  ELSE IF content[p].wellFormed THEN "ok" ELSE "malformed"

Deliver(p) ==
  /\ pc = "fetch" /\ p \in Pending /\ reply[p] # "none"
  /\ End(p, Arrived(p))

GivenUpUnserved(p) == reply[p] = "none"        \* mutant
GivenUp(p) == TRUE

TimeOut(p) ==
  /\ pc = "fetch" /\ p \in Pending /\ GivenUp(p)
  /\ End(p, "timeout")

(***************************************************************************)
(* collect::<Vec<_>>() runs until the stream of fetches is exhausted; only *)
(* then does collect::<DamlResult<_>>() look for an error.  The packages   *)
(* keep the order in which their fetches ended.                            *)
(***************************************************************************)
Exhausted == Pending = {}

NoneMissing ==                                 \* mutant
  \A k \in DOMAIN completed : completed[k].outcome # "not found"
AllOk == \A k \in DOMAIN completed : completed[k].outcome = "ok"

Collect ==
  /\ pc = "fetch" /\ Exhausted
  /\ AllOk
  /\ packages' = [k \in DOMAIN completed |-> completed[k].id]
  /\ pc' = "loaded"
  /\ UNCHANGED <<content, known, listing, reply, completed, answer>>

CollectError ==
  /\ pc = "fetch" /\ Exhausted
  /\ ~AllOk
  /\ pc' = "failed"
  /\ UNCHANGED <<content, known, listing, reply, completed, packages, answer>>

----------------------------------------------------------------------------
(***************************************************************************)
(* find_module decodes every package of the collection, then returns the   *)
(* first one whose payload names the module: contains_module.              *)
(***************************************************************************)
SkippedUndecodable == {}                       \* mutant
Undecodable == {k \in DOMAIN packages : ~content[packages[k]].decodes}

Holders(m) ==
  {k \in DOMAIN packages :
     content[packages[k]].decodes /\ m \in content[packages[k]].modules}

Answer(m, result, id) ==
  answer' = [module |-> m, result |-> result, id |-> id]

FindModule(m) ==
  /\ pc = "loaded"
  /\ \/ Undecodable # {} /\ Answer(m, "undecodable", None)
     \/ Undecodable = {} /\ Holders(m) = {} /\ Answer(m, "absent", None)
     \/ /\ Undecodable = {}
        /\ \E k \in Holders(m) :
             /\ \A j \in Holders(m) : k <= j
             /\ Answer(m, "found", packages[k])
  /\ pc' = "answered"
  /\ UNCHANGED <<content, known, listing, reply, completed, packages>>

Next ==
  \/ Change
  \/ \E p \in Pkg : Serve(p) \/ Deliver(p) \/ TimeOut(p)
  \/ List \/ ListFails
  \/ Collect \/ CollectError
  \/ \E m \in Module : FindModule(m)

(***************************************************************************)
(* The channel gives up on every request after its timeout, which has a    *)
(* default; the call polls its fetches until it returns.  The participant  *)
(* owes nothing.                                                           *)
(***************************************************************************)
Fairness ==
  /\ WF_vars(List \/ ListFails)
  /\ \A p \in Pkg : WF_vars(TimeOut(p))
  /\ WF_vars(Collect \/ CollectError)

Spec == Init /\ [][Next]_vars /\ Fairness

----------------------------------------------------------------------------
(***************************************************************************)
(* Type invariant.  A fetch ends once, and only a listed package is        *)
(* fetched.                                                                *)
(***************************************************************************)
TypeOK ==
  /\ content \in ContentType
  /\ known \subseteq Pkg
  /\ listing \subseteq Pkg
  /\ reply \in [Pkg -> {"none", "package", "not found"}]
  /\ completed \in Seq(Completion)
  /\ Ended \subseteq listing
  /\ \A j, k \in DOMAIN completed : completed[j].id = completed[k].id => j = k
  /\ packages \in Seq(Pkg)
  /\ pc \in {"list", "fetch", "loaded", "failed", "answered"}
  /\ answer.id \in Pkg \union {None}

(***************************************************************************)
(* All or nothing: a collection that is returned holds every package that  *)
(* was listed, once, whatever order the answers came in, and each as the   *)
(* participant served it.  What was uploaded after the listing is not in   *)
(* it, and what was removed before its fetch makes the whole call fail.    *)
(***************************************************************************)
LoadedIsListing ==
  pc \in {"loaded", "answered"} =>
    /\ ToSet(packages) = listing
    /\ IsInjective(packages)
    /\ \A p \in listing : reply[p] = "package" /\ content[p].wellFormed

(***************************************************************************)
(* find_module answers for the participant's listing: the package it names *)
(* was listed and has the module, and when it says that no package has it  *)
(* then none of the listed ones does, the undecodable ones included.       *)
(***************************************************************************)
FindsWhatWasListed ==
  pc = "answered" =>
    /\ answer.result = "found" =>
         answer.id \in listing /\ answer.module \in content[answer.id].modules
    /\ answer.result = "absent" =>
         \A p \in listing : answer.module \notin content[p].modules
    /\ answer.result = "undecodable" => \E p \in listing : ~content[p].decodes

(***************************************************************************)
(* from_ledger returns even if the participant stops answering.            *)
(***************************************************************************)
Returns == <>(pc \in {"loaded", "answered", "failed"})

=============================================================================
