---------------------------- MODULE UpdateStream ----------------------------
(***************************************************************************)
(* Reading the ledger with DamlStateService and DamlUpdateService          *)
(* (daml-grpc/src/service): the application takes a snapshot of the active *)
(* contracts, in a stream or page by page, and then follows the updates    *)
(* from the offset of the snapshot, in a stream or page by page ("catch up *)
(* then tail").  The ledger grows and is pruned meanwhile; streams break   *)
(* and are resumed; an answer may hold something that does not convert,    *)
(* and then the application stops, as the tests of the crate do.           *)
(*                                                                         *)
(* The participant and the application are external: this module models    *)
(* them from the documentation of the services and from their use.         *)
(***************************************************************************)
EXTENDS EventFormats, LedgerResponses, FiniteSets

CONSTANTS
  Synchronizer,
  Origin,         \* bound: where contracts are created, and topologies change
  Format,         \* what an application may ask for: events, shape and topology
  FlawsSent,      \* what may be wrong with the answers, for each shape of them
  MaxUpdates,     \* bound: length of the ledger
  MaxCounter,     \* bound: reassignments of a contract
  MaxBreaks,      \* bound: streams that break
  PageSize

Shape == {"AcsDelta", "LedgerEffects"}

ASSUME BoundsAssumption ==
  MaxUpdates \in Nat /\ MaxCounter \in Nat /\ MaxBreaks \in Nat /\ PageSize \in Nat \ {0}

ASSUME FormatAssumption == \A f \in Format : f.shape \in Shape /\ IsEventFormat(f.events)

ASSUME OriginAssumption == Origin \subseteq Synchronizer

ASSUME FlawsAssumption == FlawsSent \in [Shape -> SUBSET AllFlaws] /\ NoFlaw \notin AllFlaws

ASSUME NoneAssumption == None \notin Nat /\ None \notin Contract

VARIABLES
  format,     \* what the application asks for, all the time
  ledger,     \* updates by offset, each with the state it leads to
  pruned,     \* the offset up to which the participant has pruned them
  phase,      \* of the application
  at,         \* the offset of its snapshot, None if the participant chooses
  token,      \* the last continuation or page token it has got
  view,       \* the entries it has
  offset,     \* the last offset it knows that it has followed to
  session,    \* the pages of updates it is reading, or None
  stream,     \* the stream or page it is reading from
  breaks

vars == <<format, ledger, pruned, phase, at, token, view, offset, session, stream, breaks>>

----------------------------------------------------------------------------
(***************************************************************************)
(* The ledger.  An update is a transaction of one event, half of the       *)
(* reassignment of a contract to another synchronizer, or a change of the  *)
(* topology.  Its state is the set of entries of the snapshot at its       *)
(* offset, each with what is wrong with the messages the participant keeps *)
(* for it; an active contract is at its source and its target.             *)
(***************************************************************************)
Events == {"Created", "Archived", "Exercised", "Unassigned", "Assigned", "Authorized"}

Update ==
  [event : Events, contract : Contract \union {None}, counter : 0 .. MaxCounter, source : Synchronizer, target : Synchronizer,
   flaw : AllFlaws \union {NoFlaw}]

Entry ==
  [entry : {"active_contract", "incomplete_unassigned", "incomplete_assigned"},
   contract : Contract, counter : 0 .. MaxCounter, source : Synchronizer, target : Synchronizer,
   flaw : AllFlaws \union {NoFlaw}]

EntryOf(kind, u, source, flaw) ==
  [entry |-> kind, contract |-> u.contract, counter |-> u.counter, source |-> source, target |-> u.target,
   flaw |-> flaw]

FlawIn(u, kinds) == IF u.flaw # NoFlaw /\ u.flaw[1] \in kinds THEN u.flaw ELSE NoFlaw

Active(u) == EntryOf("active_contract", u, u.target, FlawIn(u, {"CreatedEvent", "InterfaceView"}))

Half(kind, u) == EntryOf(kind, u, u.source, FlawIn(u, {"CreatedEvent", "InterfaceView", "UnassignedEvent", "AssignedEvent"}))

IsActive(e, c, s) == e.entry = "active_contract" /\ e.contract = c /\ e.target = s

IsHalf(e, kind, u) == e.entry = kind /\ e.contract = u.contract /\ e.counter = u.counter

\* One half of a reassignment completes the other, whichever is first.
Reassigned(entries, u, mine, other) ==
  IF \E e \in entries : IsHalf(e, other, u)
  THEN {e \in entries : ~IsHalf(e, other, u)}
  ELSE entries \union {Half(mine, u)}

After(entries, u) ==
  IF u.event = "Created" THEN entries \union {Active(u)}
  ELSE IF u.event = "Archived" THEN {e \in entries : ~IsActive(e, u.contract, u.target)}
  ELSE IF u.event = "Unassigned"
       THEN Reassigned({e \in entries : ~IsActive(e, u.contract, u.source)}, u,
                       "incomplete_unassigned", "incomplete_assigned")
  ELSE IF u.event = "Assigned"
       THEN Reassigned(entries \union {Active(u)}, u, "incomplete_assigned", "incomplete_unassigned")
  ELSE entries

StateAt(o) == IF o = 0 THEN {} ELSE ledger[o].state

End == Len(ledger)

(***************************************************************************)
(* The updates the synchronizers may order next.  A contract is created    *)
(* once; it is archived where it is active, and unassigned from there; the *)
(* assignment may be seen before the unassignment ("across synchronizers   *)
(* the ordering isn't causal", daml_update_service.rs), but nothing        *)
(* happens on the source between the two.                                  *)
(***************************************************************************)
Known == {ledger[o].update.contract : o \in 1 .. End}

ActiveAt(c, s, n) == \E e \in StateAt(End) : IsActive(e, c, s) /\ e.counter = n

Pending(kind, u) == \E e \in StateAt(End) : IsHalf(e, kind, u) /\ e.source = u.source /\ e.target = u.target

Leaving(c, s) == \E e \in StateAt(End) : e.entry = "incomplete_assigned" /\ e.contract = c /\ e.source = s

Mentioned(u) == \E o \in 1 .. End : LET v == ledger[o].update IN
                  v.contract = u.contract /\ v.event = u.event /\ v.counter = u.counter

Possible(u) ==
  IF u.event = "Created" THEN u.contract \notin Known /\ u.counter = 0
  ELSE IF u.event \in {"Archived", "Exercised"}
       THEN ActiveAt(u.contract, u.target, u.counter) /\ ~Leaving(u.contract, u.target)
  ELSE IF u.event = "Unassigned"
       THEN /\ u.counter > 0 /\ ~Mentioned(u) /\ ActiveAt(u.contract, u.source, u.counter - 1)
            /\ Leaving(u.contract, u.source) => Pending("incomplete_assigned", u)
  ELSE IF u.event = "Assigned"
       THEN /\ u.counter > 0 /\ ~Mentioned(u)
            /\ \/ Pending("incomplete_unassigned", u)
               \/ ActiveAt(u.contract, u.source, u.counter - 1) /\ ~Leaving(u.contract, u.source)
  ELSE u.counter = 0

\* The messages an update is sent in, for the shape of transactions asked for.
Inside(u, shape) ==
  IF u.event = "Created" THEN {"Transaction", "Event", "CreatedEvent", "InterfaceView"}
  ELSE IF u.event = "Archived"
       THEN {"Transaction", "Event", IF shape = "AcsDelta" THEN "ArchivedEvent" ELSE "ExercisedEvent"}
  ELSE IF u.event = "Exercised" THEN {"Transaction", "Event", "ExercisedEvent"}
  ELSE IF u.event = "Unassigned" THEN {"Reassignment", "ReassignmentEvent", "UnassignedEvent"}
  ELSE IF u.event = "Assigned"
       THEN {"Reassignment", "ReassignmentEvent", "AssignedEvent", "CreatedEvent", "InterfaceView"}
  ELSE {"TopologyTransaction", "TopologyEvent", "ParticipantAuthorizationAdded"}

----------------------------------------------------------------------------
(***************************************************************************)
(* What the application asks for: the same contracts in the snapshot, in   *)
(* the transactions and in the reassignments.                              *)
(***************************************************************************)
UpdateFormat ==
  [include_transactions |-> Some([event_format |-> format.events, transaction_shape |-> format.shape]),
   include_reassignments |-> Some(format.events),
   include_topology_events |-> format.topology]

\* The participant sends an update of one of the kinds asked for.
Delivers(wire, u) ==
  \/ /\ u.event \in {"Created", "Archived", "Exercised"} /\ wire.include_transactions # <<>>
     /\ Sends(Head(wire.include_transactions).event_format, u.contract)
     /\ u.event = "Exercised" => Head(wire.include_transactions).transaction_shape = "LedgerEffects"
  \/ /\ u.event \in {"Unassigned", "Assigned"} /\ wire.include_reassignments # <<>>
     /\ Sends(Head(wire.include_reassignments), u.contract)
  \/ u.event = "Authorized" /\ SendsTopology(wire.include_topology_events)

Delivered(o) == Delivers(ToUpdateFormat(UpdateFormat), ledger[o].update)

(***************************************************************************)
(* The message for the update at an offset.  With the ledger effects an    *)
(* archival is an exercise that consumes.                                  *)
(***************************************************************************)
WireEvent(u, shape) ==
  IF u.event = "Created" THEN "CreatedEvent"
  ELSE IF u.event = "Archived" /\ shape = "AcsDelta" THEN "ArchivedEvent"
  ELSE IF u.event \in {"Archived", "Exercised"} THEN "ExercisedEvent"
  ELSE IF u.event = "Unassigned" THEN "UnassignedEvent"
  ELSE IF u.event = "Assigned" THEN "AssignedEvent"
  ELSE "ParticipantAuthorizationAdded"

Message(o) ==
  LET u == ledger[o].update
  IN  [event |-> WireEvent(u, format.shape), consuming |-> u.event = "Archived", contract_id |-> u.contract,
       reassignment_counter |-> u.counter, source |-> u.source, target |-> u.target, offset |-> o,
       flaw |-> FlawIn(u, Inside(u, format.shape))]

----------------------------------------------------------------------------
(***************************************************************************)
(* The conversions of the answers: of the oneofs of an update, and of the  *)
(* entries of a snapshot.                                                  *)
(***************************************************************************)
ToEvent(m) ==
  [event |-> IF m.event = "CreatedEvent" THEN "Created"
             ELSE IF m.event = "ArchivedEvent" THEN "Archived" ELSE "Exercised",
   consuming |-> m.consuming, contract_id |-> m.contract_id, reassignment_counter |-> 0,
   source |-> m.source, target |-> m.target]

ToReassignmentEventSwapped(m) ==                                    \* mutant
  [event |-> IF m.event = "UnassignedEvent" THEN "Unassigned" ELSE "Assigned",
   consuming |-> FALSE, contract_id |-> m.contract_id, reassignment_counter |-> m.reassignment_counter,
   source |-> m.target, target |-> m.source]

ToReassignmentEvent(m) ==
  [event |-> IF m.event = "UnassignedEvent" THEN "Unassigned" ELSE "Assigned",
   consuming |-> FALSE, contract_id |-> m.contract_id, reassignment_counter |-> m.reassignment_counter,
   source |-> m.source, target |-> m.target]

ToTopologyEvent(m) ==
  [event |-> "Authorized", consuming |-> FALSE, contract_id |-> None, reassignment_counter |-> 0,
   source |-> m.source, target |-> m.target]

ToUpdate(m) ==
  IF m.event \in {"CreatedEvent", "ArchivedEvent", "ExercisedEvent"} THEN ToEvent(m)
  ELSE IF m.event \in {"UnassignedEvent", "AssignedEvent"} THEN ToReassignmentEvent(m)
  ELSE ToTopologyEvent(m)

ToContractEntry(e) ==
  [entry |-> IF e.entry = "active_contract" THEN "Active"
             ELSE IF e.entry = "incomplete_unassigned" THEN "IncompleteUnassigned" ELSE "IncompleteAssigned",
   contract_id |-> e.contract, reassignment_counter |-> e.counter, source |-> e.source, target |-> e.target]

(***************************************************************************)
(* The requests.                                                           *)
(***************************************************************************)
ActiveContractsFromTheStart(o, t) ==                                \* mutant
  [active_at_offset |-> o, event_format |-> ToEventFormat(format.events), stream_continuation_token |-> {}]

ActiveContractsRequest(o, t) ==
  [active_at_offset |-> o, event_format |-> ToEventFormat(format.events), stream_continuation_token |-> t]

ActiveContractsPageAnywhere(o, t) ==                                \* mutant
  [active_at_offset |-> None, event_format |-> ToEventFormat(format.events), max_page_size |-> PageSize,
   page_token |-> t]

ActiveContractsPageRequest(o, t) ==
  [active_at_offset |-> o, event_format |-> ToEventFormat(format.events), max_page_size |-> PageSize,
   page_token |-> t]

UpdatesFromBegin(o, end) ==                                         \* mutant
  [begin_exclusive |-> 0, end_inclusive |-> end, update_format |-> ToUpdateFormat(UpdateFormat)]

UpdatesRequest(o, end) ==
  [begin_exclusive |-> o, end_inclusive |-> end, update_format |-> ToUpdateFormat(UpdateFormat)]

UpdatesPageRequest(s) ==
  [begin_offset_exclusive |-> s.begin, end_offset_inclusive |-> s.end, max_page_size |-> PageSize,
   update_format |-> ToUpdateFormat(UpdateFormat), page_token |-> s.token]

----------------------------------------------------------------------------
(***************************************************************************)
(* What the application makes of an update: the view it had, with the      *)
(* contract created, archived, or on its way.                              *)
(***************************************************************************)
Daml(kind, d, source) ==
  [entry |-> kind, contract_id |-> d.contract_id, reassignment_counter |-> d.reassignment_counter,
   source |-> source, target |-> d.target]

Matches(e, kind, d) ==
  e.entry = kind /\ e.contract_id = d.contract_id /\ e.reassignment_counter = d.reassignment_counter

Without(entries, c, s) == {e \in entries : ~(e.entry = "Active" /\ e.contract_id = c /\ e.target = s)}

Paired(entries, d, mine, other) ==
  IF \E e \in entries : Matches(e, other, d)
  THEN {e \in entries : ~Matches(e, other, d)}
  ELSE entries \union {Daml(mine, d, d.source)}

Follow(entries, d) ==
  IF d.event = "Created" THEN entries \union {Daml("Active", d, d.target)}
  ELSE IF d.event = "Archived" \/ (d.event = "Exercised" /\ d.consuming)
       THEN Without(entries, d.contract_id, d.target)
  ELSE IF d.event = "Unassigned"
       THEN Paired(Without(entries, d.contract_id, d.source), d, "IncompleteUnassigned", "IncompleteAssigned")
  ELSE IF d.event = "Assigned"
       THEN Paired(entries \union {Daml("Active", d, d.target)}, d, "IncompleteAssigned", "IncompleteUnassigned")
  ELSE entries

Wanted(o) == {ToContractEntry(e) : e \in {f \in StateAt(o) : Wants(format.events, f.contract)}}

----------------------------------------------------------------------------
Phase == {"start", "streaming", "paging", "following", "stopped"}

(***************************************************************************)
(* A stream the application reads from: of the entries of the snapshot at  *)
(* an offset, those in sent behind it; or of updates, those up to `from`   *)
(* behind it.  A page of updates is read like a stream that is all there.  *)
(***************************************************************************)
Closed == [of |-> "closed", from |-> 0, upto |-> None, sent |-> {}]

Stream ==
  [of : {"closed", "snapshot", "updates", "page"}, from : 0 .. MaxUpdates,
   upto : (0 .. MaxUpdates) \union {None}, sent : SUBSET Entry]

\* The tokens of one paging session of updates, as offsets.
Session ==
  [begin : 0 .. MaxUpdates, end : (0 .. MaxUpdates) \union {None}, token : (0 .. MaxUpdates) \union {None}]

Init ==
  /\ format \in Format
  /\ ledger = <<>> /\ pruned = 0
  /\ phase = "start" /\ at = None /\ token = {} /\ view = {} /\ offset = 0
  /\ session = None /\ stream = Closed /\ breaks = 0

\* Everything starts anew, from a new snapshot; or ends.
Restart ==
  /\ phase' = "start" /\ at' = None /\ token' = {} /\ view' = {} /\ offset' = 0
  /\ session' = None /\ stream' = Closed

Stop ==
  /\ phase' = "stopped" /\ at' = None /\ token' = {} /\ view' = {} /\ offset' = 0
  /\ session' = None /\ stream' = Closed

StartFollowing(o) ==
  /\ phase' = "following" /\ offset' = o /\ at' = None /\ token' = {}
  /\ session' = None /\ stream' = Closed

(***************************************************************************)
(* The participant.                                                        *)
(***************************************************************************)
Contracts(event) == IF event = "Authorized" THEN {None} ELSE Contract

Places(event) ==
  IF event \in {"Unassigned", "Assigned"} THEN {p \in Synchronizer \X Synchronizer : p[1] # p[2]}
  ELSE {<<s, s>> : s \in IF event \in {"Created", "Authorized"} THEN Origin ELSE Synchronizer}

\* At most one of the updates has a flaw.
MayHave(u) ==
  {NoFlaw} \union
  IF \E o \in 1 .. End : ledger[o].update.flaw # NoFlaw THEN {}
  ELSE {f \in FlawsSent[format.shape] : f[1] \in Inside(u, format.shape)}

Commit ==
  /\ End < MaxUpdates
  /\ \E event \in Events : \E c \in Contracts(event), n \in 0 .. MaxCounter, p \in Places(event) :
       LET u == [event |-> event, contract |-> c, counter |-> n, source |-> p[1], target |-> p[2], flaw |-> NoFlaw] IN
         /\ Possible(u)
         /\ \E flaw \in MayHave(u) :
              LET v == [u EXCEPT !.flaw = flaw] IN
                ledger' = Append(ledger, [update |-> v, state |-> After(StateAt(End), v)])
  /\ UNCHANGED <<format, pruned, phase, at, token, view, offset, session, stream, breaks>>

Prune ==
  /\ \E o \in pruned + 1 .. End : pruned' = o
  /\ UNCHANGED <<format, ledger, phase, at, token, view, offset, session, stream, breaks>>

Break ==
  /\ stream.of \in {"snapshot", "updates"} /\ breaks < MaxBreaks
  /\ breaks' = breaks + 1 /\ stream' = Closed
  /\ UNCHANGED <<format, ledger, pruned, phase, at, token, view, offset, session>>

(***************************************************************************)
(* get_ledger_end, and the snapshot there in a stream; or the snapshot     *)
(* page by page, at the offset of the first page.                          *)
(***************************************************************************)
GetLedgerEnd ==
  /\ phase = "start"
  /\ phase' = "streaming" /\ at' = End
  /\ UNCHANGED <<format, ledger, pruned, token, view, offset, session, stream, breaks>>

StartPaging ==
  /\ phase = "start"
  /\ phase' = "paging"
  /\ UNCHANGED <<format, ledger, pruned, at, token, view, offset, session, stream, breaks>>

Snapshot(wire, o) == {e \in StateAt(o) : Sends(wire, e.contract)}

\* A snapshot at an offset that has been pruned is refused.
GetActiveContracts ==
  /\ phase = "streaming" /\ stream = Closed
  /\ LET request == ActiveContractsRequest(at, token) IN
       IF request.active_at_offset < pruned
       THEN Restart
       ELSE /\ stream' = [of |-> "snapshot", from |-> request.active_at_offset, upto |-> None,
                          sent |-> request.stream_continuation_token]
            /\ UNCHANGED <<phase, at, token, view, offset, session>>
  /\ UNCHANGED <<format, ledger, pruned, breaks>>

Unsent == Snapshot(ToEventFormat(format.events), stream.from) \ stream.sent

ReceiveEntry ==
  /\ stream.of = "snapshot"
  /\ \E e \in Unsent :
       IF Converts("GetActiveContractsResponse", e.flaw)
       THEN /\ view' = view \union {ToContractEntry(e)}
            /\ token' = stream.sent \union {e}
            /\ stream' = [stream EXCEPT !.sent = stream.sent \union {e}]
            /\ UNCHANGED <<phase, at, offset, session>>
       ELSE Stop
  /\ UNCHANGED <<format, ledger, pruned, breaks>>

EndOfSnapshot ==
  /\ stream.of = "snapshot" /\ Unsent = {}
  /\ StartFollowing(at)
  /\ UNCHANGED <<format, ledger, pruned, view, breaks>>

PageConverts(kind, flaws) == \A flaw \in flaws : Converts(kind, flaw)

GetActiveContractsPage ==
  /\ phase = "paging"
  /\ LET request == ActiveContractsPageRequest(at, token)
         o == IF request.active_at_offset = None THEN End ELSE request.active_at_offset
         rest == Snapshot(request.event_format, o) \ request.page_token
     IN  IF o < pruned
         THEN Restart
         ELSE \E page \in SUBSET rest :
                /\ Cardinality(page) <= request.max_page_size /\ (rest # {} => page # {})
                /\ IF ~PageConverts("GetActiveContractsResponse", {e.flaw : e \in page})
                   THEN Stop
                   ELSE /\ view' = view \union {ToContractEntry(e) : e \in page}
                        /\ IF page = rest
                           THEN StartFollowing(o)
                           ELSE /\ at' = o /\ token' = token \union page
                                /\ UNCHANGED <<phase, offset, session, stream>>
  /\ UNCHANGED <<format, ledger, pruned, breaks>>

(***************************************************************************)
(* get_updates, open-ended or up to the present end of the ledger.         *)
(***************************************************************************)
GetUpdates ==
  /\ phase = "following" /\ stream = Closed
  /\ \E end \in {None, End} :
       LET request == UpdatesRequest(offset, end) IN
         IF request.begin_exclusive < pruned
         THEN Restart
         ELSE /\ stream' = [of |-> "updates", from |-> request.begin_exclusive, upto |-> request.end_inclusive,
                            sent |-> {}]
              /\ session' = None
              /\ UNCHANGED <<phase, at, token, view, offset>>
  /\ UNCHANGED <<format, ledger, pruned, breaks>>

Ahead ==
  /\ stream.of \in {"updates", "page"}
  /\ stream.from < End /\ stream.from # stream.upto

\* The participant passes over an update that is not asked for.
PassOver ==
  /\ Ahead /\ ~Delivered(stream.from + 1)
  /\ stream' = [stream EXCEPT !.from = stream.from + 1]
  /\ UNCHANGED <<format, ledger, pruned, phase, at, token, view, offset, session, breaks>>

\* The items of a page have been converted all together.
ReceiveUpdate ==
  /\ Ahead /\ Delivered(stream.from + 1)
  /\ LET m == Message(stream.from + 1) IN
       IF stream.of = "page" \/ Converts("GetUpdatesResponse", m.flaw)
       THEN /\ view' = Follow(view, ToUpdate(m))
            /\ offset' = m.offset
            /\ stream' = [stream EXCEPT !.from = m.offset]
            /\ UNCHANGED <<phase, at, token, session>>
       ELSE Stop
  /\ UNCHANGED <<format, ledger, pruned, breaks>>

ReceiveCheckpoint ==
  /\ stream.of = "updates" /\ stream.from > offset
  /\ \E flaw \in (FlawsSent[format.shape] \intersect Flaws("SynchronizerTime")) \union {NoFlaw} :
       IF Converts("GetUpdatesResponse", flaw)
       THEN offset' = stream.from /\ UNCHANGED <<phase, at, token, view, session, stream>>
       ELSE Stop
  /\ UNCHANGED <<format, ledger, pruned, breaks>>

\* A stream of updates ends after the offset it was asked to end at.
EndOfUpdates ==
  /\ stream.of \in {"updates", "page"} /\ stream.from = stream.upto
  /\ offset' = stream.upto /\ stream' = Closed
  /\ UNCHANGED <<format, ledger, pruned, phase, at, token, view, session, breaks>>

(***************************************************************************)
(* get_updates_page: from the offset reached, up to the present end of the *)
(* ledger or without an end (then there is always a token for the next     *)
(* page).  The participant takes a begin of zero for the pruning offset,   *)
(* and says with lowest_page_offset_exclusive where the page begins.       *)
(***************************************************************************)
NewSession == {[begin |-> offset, end |-> end, token |-> None] : end \in {None, End}}

Sessions == IF session = None THEN NewSession ELSE {session}

PageBegin(request) ==
  IF request.page_token # None THEN request.page_token
  ELSE IF request.begin_offset_exclusive = 0 THEN pruned ELSE request.begin_offset_exclusive

DeliveredIn(low, high) == {o \in low + 1 .. high : Delivered(o)}

PageEnds(low, limit, size) ==
  {high \in low .. limit :
     /\ Cardinality(DeliveredIn(low, high)) <= size
     /\ high = limit \/ (Cardinality(DeliveredIn(low, high)) = size /\ Delivered(high))}

GetUpdatesPage ==
  /\ phase = "following" /\ stream = Closed
  /\ \E s \in Sessions :
       LET request == UpdatesPageRequest(s)
           low == PageBegin(request)
           limit == IF request.end_offset_inclusive = None THEN End ELSE request.end_offset_inclusive
       IN  IF low < pruned \/ low # offset
           THEN Restart
           ELSE \E high \in PageEnds(low, limit, request.max_page_size) :
                  IF ~PageConverts("GetUpdateResponse", {Message(o).flaw : o \in DeliveredIn(low, high)})
                  THEN Stop
                  ELSE /\ stream' = [of |-> "page", from |-> low, upto |-> high, sent |-> {}]
                       /\ session' = IF s.end # high THEN [s EXCEPT !.token = high] ELSE None
                       /\ UNCHANGED <<phase, at, token, view, offset>>
  /\ UNCHANGED <<format, ledger, pruned, breaks>>

----------------------------------------------------------------------------
Environment == Commit \/ Prune \/ Break

Reading ==
  \/ GetLedgerEnd \/ StartPaging
  \/ GetActiveContracts \/ ReceiveEntry \/ EndOfSnapshot \/ GetActiveContractsPage
  \/ GetUpdates \/ PassOver \/ ReceiveUpdate \/ ReceiveCheckpoint \/ EndOfUpdates
  \/ GetUpdatesPage

Next == Environment \/ Reading

\* The application polls its stream, and the participant goes on sending.
Spec == Init /\ [][Next]_vars /\ WF_vars(Reading)

----------------------------------------------------------------------------
\* Every variable has its type.
TypeOK ==
  /\ format \in Format
  /\ ledger \in Seq([update : Update, state : SUBSET Entry]) /\ End <= MaxUpdates
  /\ pruned \in 0 .. End
  /\ phase \in Phase
  /\ at \in (0 .. End) \union {None}
  /\ token \in SUBSET Entry
  /\ offset \in 0 .. End
  /\ session \in Session \union {None}
  /\ stream \in Stream
  /\ breaks \in 0 .. MaxBreaks

(***************************************************************************)
(* An application that follows the updates has the entries a snapshot at   *)
(* its offset would show, no matter in what pieces it has read the         *)
(* snapshot and the updates, what broke, and which contracts are under way *)
(* between synchronizers; before that, it has only entries of the one      *)
(* snapshot it is reading (get_active_contracts, get_updates, their pages  *)
(* and the conversions of their answers).                                  *)
(***************************************************************************)
ViewIsLedgers ==
  /\ phase = "following" => view = Wanted(offset)
  /\ phase \in {"streaming", "paging"} => view \subseteq (IF at = None THEN {} ELSE Wanted(at))

NextPage ==
  LET request == ActiveContractsPageRequest(at, token) IN Snapshot(request.event_format, at) \ request.page_token

(***************************************************************************)
(* What the application has got of a snapshot is not sent again, on the    *)
(* next page or by the stream, also when that has broken and is resumed:   *)
(* whatever the next answer tells it of, it does not have yet              *)
(* (stream_continuation_token and page_token of the requests).             *)
(***************************************************************************)
EntriesOnce ==
  /\ stream.of = "snapshot" => \A e \in Unsent : ToContractEntry(e) \notin view
  /\ phase = "paging" /\ at # None => \A e \in NextPage : ToContractEntry(e) \notin view

\* What the application asks to be told of.
Asked(u) == IF u.event = "Authorized" THEN WantsTopology(format.topology) ELSE Wants(format.events, u.contract)

(***************************************************************************)
(* The application is stopped only by a message that breaks the protocol,  *)
(* about something it has asked for, or in a checkpoint: what the protocol *)
(* leaves optional may be missing (the `req()?` of the conversions), and   *)
(* what the format leaves out is not sent at all (the conversions of       *)
(* filter.rs).                                                             *)
(***************************************************************************)
StopsForForbidden ==
  phase = "stopped" =>
    \/ \E o \in 1 .. End : LET u == ledger[o].update IN
         Asked(u) /\ u.flaw # NoFlaw /\ u.flaw \in Forbidden(u.flaw[1])
    \/ FlawsSent[format.shape] \intersect Forbidden("SynchronizerTime") # {}

\* The reading implements LedgerView: what is shown moves along the ledger.
Following == phase = "following"

View == INSTANCE LedgerView WITH
  Unknown <- None,
  history <- [o \in 1 .. End |-> Wanted(o)],
  shown <- IF Following THEN view ELSE None,
  reached <- IF Following THEN offset ELSE None

ImplementsView == View!Spec

(***************************************************************************)
(* The application catches up with a ledger that has come to rest, unless  *)
(* an answer has stopped it.                                               *)
(***************************************************************************)
CatchesUp == <>[](phase = "stopped" \/ (phase = "following" /\ view = Wanted(End)))

=============================================================================
