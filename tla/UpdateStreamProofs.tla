-------------------------- MODULE UpdateStreamProofs --------------------------
(***************************************************************************)
(* Proofs about UpdateStream, for every ledger, every format and every     *)
(* order of commits, answers, breaks and prunings: an application that     *)
(* follows the updates shows the ledger at its offset, and what it shows   *)
(* implements LedgerView; nothing of a snapshot is sent to it twice, and   *)
(* it is stopped only by what the protocol forbids.                        *)
(***************************************************************************)
EXTENDS UpdateStream, FiniteSetTheorems, SequenceTheorems, TLAPS

----------------------------------------------------------------------------
(***************************************************************************)
(* The participant reads a format as the application means it.             *)
(***************************************************************************)
LEMMA AtomIsRead ==
  ASSUME NEW f, IsFilter(f), NEW c
  PROVE  ToCumulativeFilter(f).identifier_filter \in
           {<<"wildcard_filter", None>>, <<"template_filter", TemplateOf[c]>>}
           \union {<<"interface_filter", i>> : i \in InterfacesOf[c]}
         <=> Fits(f, c)
<1>1. CASE f.kind = "Wildcard"
  BY <1>1 DEF ToCumulativeFilter, Fits
<1>2. CASE f.kind = "Interface"
  <2>1. ToCumulativeFilter(f).identifier_filter = <<"interface_filter", f.id>>
    BY <1>2 DEF ToCumulativeFilter
  <2> QED BY <1>2, <2>1 DEF Fits
<1>3. CASE f.kind = "Template"
  <2>1. ToCumulativeFilter(f).identifier_filter = <<"template_filter", f.id>>
    BY <1>3 DEF ToCumulativeFilter
  <2> QED BY <1>3, <2>1 DEF Fits
<1> QED BY <1>1, <1>2, <1>3 DEF IsFilter

LEMMA FiltersAreRead ==
  ASSUME NEW filters, \A f \in filters : IsFilter(f), NEW c
  PROVE  Selects(ToFilters(filters), c) <=> Match(filters, c)
<1>1. ToFilters(filters).cumulative = {ToCumulativeFilter(f) : f \in filters}
  BY DEF ToFilters
<1>2. ToFilters(filters).cumulative = {} <=> filters = {}
  BY <1>1
<1>3. (\E g \in ToFilters(filters).cumulative :
         g.identifier_filter \in
           {<<"wildcard_filter", None>>, <<"template_filter", TemplateOf[c]>>}
           \union {<<"interface_filter", i>> : i \in InterfacesOf[c]})
      <=> \E f \in filters : Fits(f, c)
  BY <1>1, AtomIsRead
<1> QED BY <1>2, <1>3 DEF Selects, Match

LEMMA FormatIsRead ==
  ASSUME NEW events, IsEventFormat(events), NEW c
  PROVE  Sends(ToEventFormat(events), c) <=> Wants(events, c)
<1> DEFINE wire == ToEventFormat(events)
<1>1. /\ DOMAIN wire.filters_by_party = DOMAIN events.filters_by_party
      /\ \A p \in DOMAIN events.filters_by_party :
           wire.filters_by_party[p] = ToFilters(events.filters_by_party[p])
  BY DEF ToEventFormat
<1>2. \A p \in DOMAIN events.filters_by_party :
        Selects(wire.filters_by_party[p], c) <=> Match(events.filters_by_party[p], c)
  BY <1>1, FiltersAreRead DEF IsEventFormat
<1>3. wire.filters_for_any_party # <<>> /\ Selects(Head(wire.filters_for_any_party), c)
      <=> events.filters_for_any_party # <<>> /\ Match(Head(events.filters_for_any_party), c)
  <2>1. CASE events.filters_for_any_party = <<>>
    BY <2>1 DEF ToEventFormat
  <2>2. CASE events.filters_for_any_party # <<>>
    <3>1. wire.filters_for_any_party = <<ToFilters(Head(events.filters_for_any_party))>>
      BY <2>2 DEF ToEventFormat, Some
    <3>2. /\ wire.filters_for_any_party # <<>>
          /\ Head(wire.filters_for_any_party) = ToFilters(Head(events.filters_for_any_party))
      BY <3>1
    <3>3. Selects(ToFilters(Head(events.filters_for_any_party)), c)
          <=> Match(Head(events.filters_for_any_party), c)
      BY <2>2, FiltersAreRead DEF IsEventFormat
    <3> QED BY <2>2, <3>2, <3>3
  <2> QED BY <2>1, <2>2
<1> HIDE DEF wire
<1> QED BY <1>1, <1>2, <1>3 DEF Sends, Wants, wire

\* And of the changes of the topology.
LEMMA TopologyIsRead ==
  ASSUME NEW topology, NEW wire, wire = Mapped(topology, ToTopologyFormat(Head(topology)))
  PROVE  SendsTopology(wire) => WantsTopology(topology)
<1> SUFFICES ASSUME SendsTopology(wire) PROVE WantsTopology(topology)
  OBVIOUS
<1> DEFINE format1 == Head(topology)
           sent == ToTopologyFormat(format1)
<1>1. topology # <<>> /\ wire = <<sent>>
  BY DEF SendsTopology, Mapped, Some
<1>2. Head(wire) = sent
  BY <1>1
<1>3. sent.include_participant_authorization_events
        = Mapped(format1.include_participant_authorization_events,
                 ToParticipantAuthorizationTopologyFormat(Head(format1.include_participant_authorization_events)))
  BY DEF ToTopologyFormat
<1> HIDE DEF sent
<1>4. /\ sent.include_participant_authorization_events # <<>>
      /\ Names(Head(sent.include_participant_authorization_events).parties, AuthorizedParty)
  BY <1>2 DEF SendsTopology
<1> HIDE DEF format1
<1>5. /\ format1.include_participant_authorization_events # <<>>
      /\ sent.include_participant_authorization_events
           = <<ToParticipantAuthorizationTopologyFormat(Head(format1.include_participant_authorization_events))>>
  BY <1>3, <1>4 DEF Mapped, Some
<1>6. Head(sent.include_participant_authorization_events).parties
        = Head(format1.include_participant_authorization_events).parties
  BY <1>5 DEF ToParticipantAuthorizationTopologyFormat
<1>7. Names(Head(format1.include_participant_authorization_events).parties, AuthorizedParty)
  BY <1>4, <1>6
<1> QED BY <1>1, <1>5, <1>7 DEF WantsTopology, format1

----------------------------------------------------------------------------
(***************************************************************************)
(* The entries of a state that the application asks for, as it shows them. *)
(***************************************************************************)
Shown(events, entries) == {ToContractEntry(e) : e \in {f \in entries : Wants(events, f.contract)}}

\* How the application calls the entries of a snapshot.
Named == {<<"incomplete_unassigned", "IncompleteUnassigned">>, <<"incomplete_assigned", "IncompleteAssigned">>}

\* The update, as the application reads it, is about the same contract.
Tells(d, u) ==
  /\ d.contract_id = u.contract /\ d.reassignment_counter = u.counter
  /\ d.source = u.source /\ d.target = u.target

LEMMA EntryIsTold ==
  ASSUME NEW e \in Entry, NEW c, NEW s, NEW k, NEW K, <<k, K>> \in Named, NEW u, NEW d, Tells(d, u)
  PROVE  /\ IsActive(e, c, s) <=> /\ ToContractEntry(e).entry = "Active"
                                 /\ ToContractEntry(e).contract_id = c /\ ToContractEntry(e).target = s
         /\ IsHalf(e, k, u) <=> Matches(ToContractEntry(e), K, d)
<1>1. /\ e.entry \in {"active_contract", "incomplete_unassigned", "incomplete_assigned"}
      /\ \/ k = "incomplete_unassigned" /\ K = "IncompleteUnassigned"
         \/ k = "incomplete_assigned" /\ K = "IncompleteAssigned"
  BY DEF Entry, Named
<1>2. /\ ToContractEntry(e).contract_id = e.contract /\ ToContractEntry(e).target = e.target
      /\ ToContractEntry(e).reassignment_counter = e.counter
      /\ ToContractEntry(e).entry = "Active" <=> e.entry = "active_contract"
      /\ ToContractEntry(e).entry = K <=> e.entry = k
  BY <1>1 DEF ToContractEntry
<1> QED BY <1>2 DEF IsActive, IsHalf, Matches, Tells

LEMMA ShownAdds ==
  ASSUME NEW events, NEW entries, NEW e
  PROVE  Shown(events, entries \union {e})
         = Shown(events, entries) \union IF Wants(events, e.contract) THEN {ToContractEntry(e)} ELSE {}
BY DEF Shown

LEMMA ShownWithout ==
  ASSUME NEW events, NEW entries \in SUBSET Entry, NEW c, NEW s
  PROVE  Shown(events, {e \in entries : ~IsActive(e, c, s)}) = Without(Shown(events, entries), c, s)
<1>1. \A e \in entries :
        IsActive(e, c, s) <=> /\ ToContractEntry(e).entry = "Active"
                              /\ ToContractEntry(e).contract_id = c /\ ToContractEntry(e).target = s
  <2> SUFFICES ASSUME NEW e \in entries
               PROVE  IsActive(e, c, s) <=> /\ ToContractEntry(e).entry = "Active"
                                            /\ ToContractEntry(e).contract_id = c /\ ToContractEntry(e).target = s
    OBVIOUS
  <2> QED BY DEF IsActive, ToContractEntry, Entry
<1> QED BY <1>1 DEF Shown, Without

LEMMA ShownUnmatched ==
  ASSUME NEW events, NEW entries \in SUBSET Entry, NEW k, NEW K, <<k, K>> \in Named,
         NEW u, NEW d, Tells(d, u)
  PROVE  /\ Shown(events, {e \in entries : ~IsHalf(e, k, u)})
              = {x \in Shown(events, entries) : ~Matches(x, K, d)}
         /\ Wants(events, u.contract) =>
              ((\E e \in entries : IsHalf(e, k, u)) <=> \E x \in Shown(events, entries) : Matches(x, K, d))
         /\ ~Wants(events, u.contract) =>
              Shown(events, {e \in entries : ~IsHalf(e, k, u)}) = Shown(events, entries)
<1>1. \A e \in entries : IsHalf(e, k, u) <=> Matches(ToContractEntry(e), K, d)
  BY EntryIsTold
<1>2. \A e \in entries : IsHalf(e, k, u) => e.contract = u.contract
  BY DEF IsHalf
<1> QED BY <1>1, <1>2 DEF Shown

(***************************************************************************)
(* The halves of a reassignment do to what is shown what they do to the    *)
(* state of the ledger.                                                    *)
(***************************************************************************)
LEMMA ShownReassigned ==
  ASSUME NEW events, NEW entries \in SUBSET Entry,
         NEW mine, NEW other, NEW Mine, NEW Other, <<mine, Mine>> \in Named, <<other, Other>> \in Named,
         NEW u, NEW d, Tells(d, u)
  PROVE  Shown(events, Reassigned(entries, u, mine, other))
         = IF Wants(events, u.contract) THEN Paired(Shown(events, entries), d, Mine, Other)
           ELSE Shown(events, entries)
<1>1. ToContractEntry(Half(mine, u)) = Daml(Mine, d, d.source) /\ Half(mine, u).contract = u.contract
  <2>1. \/ mine = "incomplete_unassigned" /\ Mine = "IncompleteUnassigned"
        \/ mine = "incomplete_assigned" /\ Mine = "IncompleteAssigned"
    BY DEF Named
  <2>2. /\ Half(mine, u).entry = mine /\ Half(mine, u).contract = u.contract
        /\ Half(mine, u).counter = u.counter
        /\ Half(mine, u).source = u.source /\ Half(mine, u).target = u.target
    BY DEF Half, EntryOf
  <2>3. ToContractEntry(Half(mine, u))
        = [entry |-> Mine, contract_id |-> u.contract, reassignment_counter |-> u.counter,
           source |-> u.source, target |-> u.target]
    BY <2>1, <2>2 DEF ToContractEntry
  <2> QED BY <2>2, <2>3 DEF Daml, Tells
<1>2. CASE \E e \in entries : IsHalf(e, other, u)
  <2>1. Shown(events, Reassigned(entries, u, mine, other))
          = {x \in Shown(events, entries) : ~Matches(x, Other, d)}
    BY <1>2, ShownUnmatched DEF Reassigned
  <2>2. Wants(events, u.contract) => \E x \in Shown(events, entries) : Matches(x, Other, d)
    BY <1>2, ShownUnmatched
  <2>3. ~Wants(events, u.contract) =>
          {x \in Shown(events, entries) : ~Matches(x, Other, d)} = Shown(events, entries)
    <3>1. Shown(events, {e \in entries : ~IsHalf(e, other, u)})
          = {x \in Shown(events, entries) : ~Matches(x, Other, d)}
      BY ShownUnmatched
    <3>2. ~Wants(events, u.contract) =>
            Shown(events, {e \in entries : ~IsHalf(e, other, u)}) = Shown(events, entries)
      BY ShownUnmatched
    <3> QED BY <3>1, <3>2
  <2> QED BY <2>1, <2>2, <2>3 DEF Paired
<1>3. CASE ~\E e \in entries : IsHalf(e, other, u)
  <2>1. Shown(events, Reassigned(entries, u, mine, other))
          = Shown(events, entries)
            \union IF Wants(events, u.contract) THEN {Daml(Mine, d, d.source)} ELSE {}
    BY <1>1, <1>3, ShownAdds DEF Reassigned
  <2>2. Wants(events, u.contract) => ~\E x \in Shown(events, entries) : Matches(x, Other, d)
    BY <1>3, ShownUnmatched
  <2> QED BY <2>1, <2>2 DEF Paired
<1> QED BY <1>2, <1>3

----------------------------------------------------------------------------
(***************************************************************************)
(* The ledger holds with every update the state it leads to.               *)
(***************************************************************************)
LedgerIsBuilt ==
  \A o \in 1 .. End :
    /\ ledger[o].state = After(StateAt(o - 1), ledger[o].update)
    /\ ledger[o].update.event = "Created" => ledger[o].update.counter = 0
    /\ ledger[o].update.event # "Authorized" => ledger[o].update.contract \in Contract

LEMMA States ==
  ASSUME TypeOK, NEW o \in 0 .. End
  PROVE  /\ End \in Nat /\ StateAt(o) \in SUBSET Entry /\ Wanted(o) = Shown(format.events, StateAt(o))
         /\ o # 0 => ledger[o] \in [update : Update, state : SUBSET Entry] /\ StateAt(o) = ledger[o].state
<1>1. ledger \in Seq([update : Update, state : SUBSET Entry])
  BY DEF TypeOK
<1>2. End \in Nat
  BY <1>1 DEF End
<1>3. o # 0 => o \in 1 .. Len(ledger)
  BY <1>2 DEF End
<1>4. o # 0 => ledger[o] \in [update : Update, state : SUBSET Entry]
  BY <1>1, <1>3, ElementOfSeq
<1>5. StateAt(o) \in SUBSET Entry /\ (o # 0 => StateAt(o) = ledger[o].state)
  BY <1>4 DEF StateAt
<1> QED BY <1>2, <1>4, <1>5 DEF Wanted, Shown

\* Of what changes the state, the application is sent what it has asked for.
LEMMA DeliveredIfWanted ==
  ASSUME TypeOK, NEW o \in 1 .. End, ledger[o].update.event \in {"Created", "Archived", "Unassigned", "Assigned"}
  PROVE  Delivered(o) <=> Wants(format.events, ledger[o].update.contract)
<1> DEFINE wire == ToUpdateFormat(UpdateFormat)
           u == ledger[o].update
<1>1. IsEventFormat(format.events)
  BY FormatAssumption DEF TypeOK
<1>2. /\ UpdateFormat.include_transactions = <<[event_format |-> format.events, transaction_shape |-> format.shape]>>
      /\ UpdateFormat.include_reassignments = <<format.events>>
  BY DEF UpdateFormat, Some
<1>3. /\ wire.include_transactions = <<ToTransactionFormat(Head(UpdateFormat.include_transactions))>>
      /\ wire.include_reassignments = <<ToEventFormat(Head(UpdateFormat.include_reassignments))>>
  BY <1>2 DEF ToUpdateFormat, Mapped, Some
<1>4. /\ wire.include_transactions # <<>> /\ wire.include_reassignments # <<>>
      /\ Head(wire.include_transactions) = ToTransactionFormat(Head(UpdateFormat.include_transactions))
      /\ Head(wire.include_reassignments) = ToEventFormat(format.events)
  BY <1>2, <1>3
<1>5. Head(wire.include_transactions).event_format = ToEventFormat(format.events)
  BY <1>2, <1>4 DEF ToTransactionFormat
<1>6. Sends(ToEventFormat(format.events), u.contract) <=> Wants(format.events, u.contract)
  BY <1>1, FormatIsRead
<1> HIDE DEF wire, u
<1>7. Delivers(wire, u) <=> Wants(format.events, u.contract)
  BY <1>4, <1>5, <1>6 DEF Delivers, u
<1> QED BY <1>7 DEF Delivered, wire, u

\* And it is sent nothing else than what it has asked for.
LEMMA DeliveredIsAsked ==
  ASSUME TypeOK, NEW o \in 1 .. End, ledger[o].update.event \in Events, Delivered(o)
  PROVE  Asked(ledger[o].update)
<1> DEFINE wire == ToUpdateFormat(UpdateFormat)
           u == ledger[o].update
<1>1. IsEventFormat(format.events)
  BY FormatAssumption DEF TypeOK
<1>2. Sends(ToEventFormat(format.events), u.contract) <=> Wants(format.events, u.contract)
  BY <1>1, FormatIsRead
<1>3. CASE u.event # "Authorized"
  <2>1. /\ UpdateFormat.include_transactions = <<[event_format |-> format.events, transaction_shape |-> format.shape]>>
        /\ UpdateFormat.include_reassignments = <<format.events>>
    BY DEF UpdateFormat, Some
  <2>2. /\ wire.include_transactions = <<ToTransactionFormat(Head(UpdateFormat.include_transactions))>>
        /\ wire.include_reassignments = <<ToEventFormat(Head(UpdateFormat.include_reassignments))>>
    BY <2>1 DEF ToUpdateFormat, Mapped, Some
  <2>3. /\ Head(wire.include_transactions) = ToTransactionFormat(Head(UpdateFormat.include_transactions))
        /\ Head(wire.include_reassignments) = ToEventFormat(format.events)
    BY <2>1, <2>2
  <2>4. Head(wire.include_transactions).event_format = ToEventFormat(format.events)
    BY <2>1, <2>3 DEF ToTransactionFormat
  <2> HIDE DEF wire, u
  <2>5. Delivers(wire, u)
    BY DEF Delivered, wire, u
  <2>6. Wants(format.events, u.contract)
    BY <1>2, <1>3, <2>3, <2>4, <2>5 DEF Delivers
  <2> QED BY <1>3, <2>6 DEF Asked, u
<1>4. CASE u.event = "Authorized"
  <2>1. wire.include_topology_events = Mapped(format.topology, ToTopologyFormat(Head(format.topology)))
    BY DEF ToUpdateFormat, UpdateFormat
  <2> HIDE DEF wire, u
  <2>2. SendsTopology(wire.include_topology_events)
    <3>1. Delivers(wire, u)
      BY DEF Delivered, wire, u
    <3> QED BY <1>4, <3>1 DEF Delivers
  <2>3. SendsTopology(wire.include_topology_events) => WantsTopology(format.topology)
    BY <2>1, TopologyIsRead
  <2> QED BY <1>4, <2>2, <2>3 DEF Asked, u
<1> QED BY <1>3, <1>4

LEMMA MessageTells ==
  ASSUME NEW o, NEW u, u = ledger[o].update, NEW d, d = ToUpdate(Message(o)), u.event \in Events
  PROVE  /\ u.event \in {"Unassigned", "Assigned"} => d.event = u.event /\ Tells(d, u)
         /\ u.event = "Created" =>
              /\ d.event = "Created" /\ d.contract_id = u.contract /\ d.target = u.target
              /\ d.reassignment_counter = 0
         /\ u.event = "Archived" =>
              /\ d.event = "Archived" \/ (d.event = "Exercised" /\ d.consuming)
              /\ d.contract_id = u.contract /\ d.target = u.target
         /\ u.event = "Exercised" => d.event = "Exercised" /\ ~d.consuming
         /\ u.event = "Authorized" => d.event = "Authorized"
<1>1. PICK m : m = Message(o)
  OBVIOUS
<1>2. /\ m.event = WireEvent(u, format.shape) /\ m.consuming = (u.event = "Archived")
      /\ m.contract_id = u.contract /\ m.reassignment_counter = u.counter
      /\ m.source = u.source /\ m.target = u.target
  BY <1>1 DEF Message
<1>3. d = ToUpdate(m)
  BY <1>1
<1>4. CASE u.event \in {"Unassigned", "Assigned"}
  <2>1. m.event = IF u.event = "Unassigned" THEN "UnassignedEvent" ELSE "AssignedEvent"
    BY <1>2, <1>4 DEF WireEvent
  <2>2. d = ToReassignmentEvent(m)
    BY <1>3, <1>4, <2>1 DEF ToUpdate
  <2> QED BY <1>2, <1>4, <2>1, <2>2 DEF ToReassignmentEvent, Tells
<1>5. CASE u.event \in {"Created", "Archived", "Exercised"}
  <2>1. /\ u.event = "Created" => m.event = "CreatedEvent"
        /\ u.event = "Archived" => m.event \in {"ArchivedEvent", "ExercisedEvent"}
        /\ u.event = "Exercised" => m.event = "ExercisedEvent"
    BY <1>2, <1>5 DEF WireEvent
  <2>2. d = ToEvent(m)
    BY <1>3, <1>5, <2>1 DEF ToUpdate
  <2>3. /\ d.contract_id = u.contract /\ d.target = u.target /\ d.reassignment_counter = 0
        /\ u.event = "Created" => d.event = "Created"
        /\ u.event = "Archived" => d.event \in {"Archived", "Exercised"}
        /\ u.event = "Exercised" => d.event = "Exercised"
    BY <1>2, <2>1, <2>2 DEF ToEvent
  <2>4. d.consuming = (u.event = "Archived")
    BY <1>2, <2>2 DEF ToEvent
  <2>5. d.consuming <=> u.event = "Archived"
    BY <2>4
  <2> QED BY <1>5, <2>3, <2>5
<1>6. CASE u.event = "Authorized"
  <2>1. m.event = "ParticipantAuthorizationAdded"
    BY <1>2, <1>6 DEF WireEvent
  <2>2. d = ToTopologyEvent(m)
    BY <1>3, <2>1 DEF ToUpdate
  <2> QED BY <1>6, <2>2 DEF ToTopologyEvent
<1> QED BY <1>4, <1>5, <1>6 DEF Events

(***************************************************************************)
(* What an update that is sent does to what is shown is what it does to    *)
(* the state of the ledger; one that is not sent changes nothing that is   *)
(* shown.                                                                  *)
(***************************************************************************)
LEMMA UpdateIsFollowed ==
  ASSUME TypeOK, LedgerIsBuilt, NEW o \in 1 .. End
  PROVE  /\ Delivered(o) => Wanted(o) = Follow(Wanted(o - 1), ToUpdate(Message(o)))
         /\ ~Delivered(o) => Wanted(o) = Wanted(o - 1)
<1>1. PICK u : u = ledger[o].update
  OBVIOUS
<1>2. PICK d : d = ToUpdate(Message(o))
  OBVIOUS
<1>3. PICK S : S = StateAt(o - 1)
  OBVIOUS
<1> DEFINE events == format.events
<1>4. /\ o \in 0 .. End /\ o # 0 /\ o - 1 \in 0 .. End
  BY States DEF TypeOK
<1>5. S \in SUBSET Entry /\ Wanted(o - 1) = Shown(events, S)
  BY <1>3, <1>4, States
<1>6. u \in Update /\ Wanted(o) = Shown(events, After(S, u))
  <2>1. ledger[o] \in [update : Update, state : SUBSET Entry] /\ StateAt(o) = ledger[o].state
    BY <1>4, States
  <2>2. ledger[o].state = After(S, u)
    BY <1>1, <1>3 DEF LedgerIsBuilt
  <2>3. Wanted(o) = Shown(events, StateAt(o))
    BY <1>4, States
  <2> QED BY <1>1, <2>1, <2>2, <2>3
<1>7. u.event \in Events
  BY <1>6 DEF Update
<1> HIDE DEF events
<1> SUFFICES /\ Delivered(o) => Shown(events, After(S, u)) = Follow(Shown(events, S), d)
             /\ ~Delivered(o) => Shown(events, After(S, u)) = Shown(events, S)
  BY <1>2, <1>5, <1>6
<1>8. u.event \in {"Created", "Archived", "Unassigned", "Assigned"} =>
        (Delivered(o) <=> Wants(events, u.contract))
  BY <1>1, DeliveredIfWanted DEF events
<1>9. CASE u.event = "Created"
  <2>1. After(S, u) = S \union {Active(u)}
    BY <1>9 DEF After
  <2>2. d.event = "Created" /\ d.contract_id = u.contract /\ d.target = u.target /\ d.reassignment_counter = 0
    BY <1>1, <1>2, <1>7, <1>9, MessageTells
  <2>3. u.counter = 0
    BY <1>1, <1>9 DEF LedgerIsBuilt
  <2>4. Active(u).contract = u.contract /\ ToContractEntry(Active(u)) = Daml("Active", d, d.target)
    BY <2>2, <2>3 DEF Active, EntryOf, ToContractEntry, Daml
  <2>5. Shown(events, After(S, u))
          = Shown(events, S) \union IF Wants(events, u.contract) THEN {Daml("Active", d, d.target)} ELSE {}
    BY <2>1, <2>4, ShownAdds
  <2>6. Follow(Shown(events, S), d) = Shown(events, S) \union {Daml("Active", d, d.target)}
    BY <2>2 DEF Follow
  <2> QED BY <1>8, <1>9, <2>5, <2>6
<1>10. CASE u.event = "Archived"
  <2>1. After(S, u) = {e \in S : ~IsActive(e, u.contract, u.target)}
    BY <1>10 DEF After
  <2>2. /\ d.event = "Archived" \/ (d.event = "Exercised" /\ d.consuming)
        /\ d.contract_id = u.contract /\ d.target = u.target
    BY <1>1, <1>2, <1>7, <1>10, MessageTells
  <2>3. Shown(events, After(S, u)) = Without(Shown(events, S), u.contract, u.target)
    BY <1>5, <2>1, ShownWithout
  <2>4. Follow(Shown(events, S), d) = Without(Shown(events, S), u.contract, u.target)
    BY <2>2 DEF Follow
  <2>5. ~Wants(events, u.contract) => Shown(events, After(S, u)) = Shown(events, S)
    BY <2>1 DEF Shown, IsActive
  <2> QED BY <1>8, <1>10, <2>3, <2>4, <2>5
<1>11. CASE u.event = "Exercised"
  <2>1. After(S, u) = S
    BY <1>11 DEF After
  <2>2. d.event = "Exercised" /\ ~d.consuming
    BY <1>1, <1>2, <1>7, <1>11, MessageTells
  <2>3. Follow(Shown(events, S), d) = Shown(events, S)
    BY <2>2 DEF Follow
  <2> QED BY <2>1, <2>3
<1>12. CASE u.event = "Unassigned"
  <2> DEFINE R == {e \in S : ~IsActive(e, u.contract, u.source)}
  <2>1. After(S, u) = Reassigned(R, u, "incomplete_unassigned", "incomplete_assigned")
    BY <1>12 DEF After
  <2>2. d.event = "Unassigned" /\ Tells(d, u)
    BY <1>1, <1>2, <1>7, <1>12, MessageTells
  <2>3. R \in SUBSET Entry /\ Shown(events, R) = Without(Shown(events, S), u.contract, u.source)
    BY <1>5, ShownWithout
  <2>4. ~Wants(events, u.contract) => Shown(events, R) = Shown(events, S)
    BY DEF Shown, IsActive
  <2> HIDE DEF R
  <2>5. Shown(events, After(S, u))
          = IF Wants(events, u.contract)
            THEN Paired(Shown(events, R), d, "IncompleteUnassigned", "IncompleteAssigned")
            ELSE Shown(events, R)
    BY <2>1, <2>2, <2>3, ShownReassigned DEF Named
  <2>6. Follow(Shown(events, S), d)
          = Paired(Without(Shown(events, S), d.contract_id, d.source), d,
                   "IncompleteUnassigned", "IncompleteAssigned")
    BY <2>2 DEF Follow
  <2>7. d.contract_id = u.contract /\ d.source = u.source
    BY <2>2 DEF Tells
  <2> QED BY <1>8, <1>12, <2>3, <2>4, <2>5, <2>6, <2>7
<1>13. CASE u.event = "Assigned"
  <2>1. After(S, u) = Reassigned(S \union {Active(u)}, u, "incomplete_assigned", "incomplete_unassigned")
    BY <1>13 DEF After
  <2>2. d.event = "Assigned" /\ Tells(d, u)
    BY <1>1, <1>2, <1>7, <1>13, MessageTells
  <2>3. Active(u).contract = u.contract /\ ToContractEntry(Active(u)) = Daml("Active", d, d.target)
    BY <2>2 DEF Active, EntryOf, ToContractEntry, Daml, Tells
  <2>4. PICK R : R = S \union {Active(u)}
    OBVIOUS
  <2>5. R \in SUBSET Entry
    <3>1. u.contract \in Contract
      BY <1>1, <1>13 DEF LedgerIsBuilt
    <3>2. FlawIn(u, {"CreatedEvent", "InterfaceView"}) \in AllFlaws \union {NoFlaw}
      BY <1>6 DEF FlawIn, Update
    <3>3. Active(u) \in Entry
      BY <1>6, <3>1, <3>2 DEF Active, EntryOf, Entry, Update
    <3> QED BY <1>5, <2>4, <3>3
  <2>6. Shown(events, R)
          = Shown(events, S) \union IF Wants(events, u.contract) THEN {Daml("Active", d, d.target)} ELSE {}
    BY <2>3, <2>4, ShownAdds
  <2>7. Shown(events, After(S, u))
          = IF Wants(events, u.contract)
            THEN Paired(Shown(events, R), d, "IncompleteAssigned", "IncompleteUnassigned")
            ELSE Shown(events, R)
    <3>1. After(S, u) = Reassigned(R, u, "incomplete_assigned", "incomplete_unassigned")
      BY <2>1, <2>4
    <3>2. /\ <<"incomplete_assigned", "IncompleteAssigned">> \in Named
          /\ <<"incomplete_unassigned", "IncompleteUnassigned">> \in Named
      BY DEF Named
    <3>3. Shown(events, Reassigned(R, u, "incomplete_assigned", "incomplete_unassigned"))
          = IF Wants(events, u.contract)
            THEN Paired(Shown(events, R), d, "IncompleteAssigned", "IncompleteUnassigned")
            ELSE Shown(events, R)
      BY <2>2, <2>5, <3>2, ShownReassigned
    <3> QED BY <3>1, <3>3
  <2>8. Follow(Shown(events, S), d)
          = Paired(Shown(events, S) \union {Daml("Active", d, d.target)}, d,
                   "IncompleteAssigned", "IncompleteUnassigned")
    BY <2>2 DEF Follow
  <2> QED BY <1>8, <1>13, <2>6, <2>7, <2>8
<1>14. CASE u.event = "Authorized"
  <2>1. After(S, u) = S
    BY <1>14 DEF After
  <2>2. d.event = "Authorized"
    BY <1>1, <1>2, <1>7, <1>14, MessageTells
  <2>3. Follow(Shown(events, S), d) = Shown(events, S)
    BY <2>2 DEF Follow
  <2> QED BY <2>1, <2>3
<1> QED BY <1>7, <1>9, <1>10, <1>11, <1>12, <1>13, <1>14 DEF Events

----------------------------------------------------------------------------
(***************************************************************************)
(* The entries of the snapshot at an offset.  While the application reads  *)
(* a snapshot, its last token stands for entries of that snapshot, and     *)
(* these are what it shows.  While it follows the updates, it shows the    *)
(* ledger at its offset; the stream is ahead, by updates that are not      *)
(* sent.                                                                   *)
(***************************************************************************)
Taken(o) == {e \in StateAt(o) : Wants(format.events, e.contract)}

Told(entries) == {ToContractEntry(e) : e \in entries}

SnapshotIsPartial ==
  /\ phase = "start" => at = None
  /\ phase \in {"start", "paging"} => stream = Closed
  /\ phase \in {"start", "streaming", "paging"} =>
       /\ view = Told(token)
       /\ at = None => token = {}
       /\ at # None => token \subseteq Taken(at)
  /\ phase = "streaming" =>
       /\ at # None /\ stream.of \in {"closed", "snapshot"}
       /\ stream.of = "snapshot" => stream.from = at /\ stream.sent = token

FollowingIsExact ==
  /\ phase = "following" =>
       /\ view = Wanted(offset) /\ stream.of \in {"closed", "updates", "page"}
       /\ stream.of # "closed" =>
            offset <= stream.from /\ stream.from <= End /\ view = Wanted(stream.from)
  /\ phase = "stopped" => stream = Closed

IInv == TypeOK /\ LedgerIsBuilt /\ SnapshotIsPartial /\ FollowingIsExact

(***************************************************************************)
(* Facts about the snapshot, the stream and the ledger.                    *)
(***************************************************************************)
LEMMA SnapshotIsTaken ==
  ASSUME TypeOK, NEW o \in 0 .. End
  PROVE  /\ Snapshot(ToEventFormat(format.events), o) = Taken(o)
         /\ Taken(o) \in SUBSET Entry /\ Told(Taken(o)) = Wanted(o)
<1>1. IsEventFormat(format.events)
  BY FormatAssumption DEF TypeOK
<1>2. \A c : Sends(ToEventFormat(format.events), c) <=> Wants(format.events, c)
  BY <1>1, FormatIsRead
<1>3. StateAt(o) \in SUBSET Entry
  BY States
<1> QED BY <1>2, <1>3 DEF Snapshot, Taken, Told, Wanted

LEMMA ClosedStream == Closed \in Stream /\ Closed.of = "closed"
BY BoundsAssumption DEF Closed, Stream

LEMMA StreamFrom ==
  ASSUME NEW s \in Stream, NEW n \in 0 .. MaxUpdates
  PROVE  /\ [s EXCEPT !.from = n] \in Stream /\ [s EXCEPT !.from = n].from = n
         /\ [s EXCEPT !.from = n].of = s.of
BY DEF Stream

LEMMA StreamSent ==
  ASSUME NEW s \in Stream, NEW x \in SUBSET Entry
  PROVE  /\ [s EXCEPT !.sent = x] \in Stream /\ [s EXCEPT !.sent = x].sent = x
         /\ [s EXCEPT !.sent = x].of = s.of /\ [s EXCEPT !.sent = x].from = s.from
BY DEF Stream

LEMMA LedgerKept ==
  ASSUME TypeOK, LedgerIsBuilt, UNCHANGED <<format, ledger>>
  PROVE  /\ End' = End /\ End \in 0 .. MaxUpdates /\ 0 .. End \subseteq 0 .. MaxUpdates /\ LedgerIsBuilt'
         /\ \A o : StateAt(o)' = StateAt(o) /\ Wanted(o)' = Wanted(o) /\ Taken(o)' = Taken(o)
         /\ \A o : Delivered(o)' = Delivered(o)
         /\ format' \in Format /\ ledger' \in Seq([update : Update, state : SUBSET Entry]) /\ End' <= MaxUpdates
<1>1. End' = End /\ \A o : StateAt(o)' = StateAt(o)
  BY DEF End, StateAt
<1>2. \A o : Wanted(o)' = Wanted(o) /\ Taken(o)' = Taken(o)
  BY <1>1 DEF Wanted, Taken
<1>3. LedgerIsBuilt'
  BY <1>1 DEF LedgerIsBuilt
<1>4. \A o : Delivered(o)' = Delivered(o)
  BY DEF Delivered, UpdateFormat
<1>5. End \in Nat /\ End <= MaxUpdates
  BY DEF TypeOK, End
<1>6. End \in 0 .. MaxUpdates /\ 0 .. End \subseteq 0 .. MaxUpdates
  BY <1>5, BoundsAssumption
<1> QED BY <1>1, <1>2, <1>3, <1>4, <1>5, <1>6 DEF TypeOK

\* To begin anew, or to stop, is right at any time.
LEMMA AnewOrStop ==
  ASSUME IInv, UNCHANGED <<format, ledger, pruned, breaks>>, Restart \/ Stop
  PROVE  IInv'
<1>1. /\ at' = None /\ token' = {} /\ view' = {} /\ offset' = 0 /\ session' = None /\ stream' = Closed
      /\ phase' \in {"start", "stopped"}
  BY DEF Restart, Stop
<1>2. /\ End' = End /\ End \in 0 .. MaxUpdates /\ LedgerIsBuilt'
      /\ format' \in Format /\ ledger' \in Seq([update : Update, state : SUBSET Entry]) /\ End' <= MaxUpdates
  BY LedgerKept DEF IInv
<1>3. pruned' \in 0 .. End' /\ breaks' \in 0 .. MaxBreaks
  BY <1>2 DEF IInv, TypeOK
<1>4. TypeOK'
  BY <1>1, <1>2, <1>3, ClosedStream DEF TypeOK, Phase
<1>5. SnapshotIsPartial' /\ FollowingIsExact'
  BY <1>1 DEF SnapshotIsPartial, FollowingIsExact, Told
<1> QED BY <1>2, <1>4, <1>5 DEF IInv

\* The end of a snapshot, which has shown all of it.
LEMMA SnapshotRead ==
  ASSUME IInv, UNCHANGED <<format, ledger, pruned, breaks>>, NEW o \in 0 .. End,
         StartFollowing(o), view' = Wanted(o)
  PROVE  IInv'
<1>1. /\ at' = None /\ token' = {} /\ offset' = o /\ session' = None /\ stream' = Closed /\ phase' = "following"
  BY DEF StartFollowing
<1>2. /\ End' = End /\ End \in 0 .. MaxUpdates /\ LedgerIsBuilt' /\ Wanted(o)' = Wanted(o)
      /\ format' \in Format /\ ledger' \in Seq([update : Update, state : SUBSET Entry]) /\ End' <= MaxUpdates
  BY LedgerKept DEF IInv
<1>3. pruned' \in 0 .. End' /\ breaks' \in 0 .. MaxBreaks
  BY <1>2 DEF IInv, TypeOK
<1>4. TypeOK'
  BY <1>1, <1>2, <1>3, ClosedStream DEF TypeOK, Phase
<1>5. view' = Wanted(offset)'
  BY <1>1, <1>2 DEF Wanted, StateAt
<1>6. SnapshotIsPartial' /\ FollowingIsExact'
  BY <1>1, <1>5, ClosedStream DEF SnapshotIsPartial, FollowingIsExact
<1> QED BY <1>2, <1>4, <1>6 DEF IInv

----------------------------------------------------------------------------
(***************************************************************************)
(* Every action keeps the invariant.                                       *)
(***************************************************************************)
LEMMA InitEstablishes == Init => IInv
<1> SUFFICES ASSUME Init PROVE IInv
  OBVIOUS
<1>1. /\ format \in Format /\ ledger = <<>> /\ pruned = 0 /\ phase = "start" /\ at = None /\ token = {}
      /\ view = {} /\ offset = 0 /\ session = None /\ stream = Closed /\ breaks = 0
  BY DEF Init
<1>2. End = 0 /\ ledger \in Seq([update : Update, state : SUBSET Entry])
  BY <1>1 DEF End
<1>3. TypeOK
  BY <1>1, <1>2, ClosedStream, BoundsAssumption DEF TypeOK, Phase
<1>4. LedgerIsBuilt
  BY <1>2 DEF LedgerIsBuilt
<1>5. SnapshotIsPartial /\ FollowingIsExact
  BY <1>1 DEF SnapshotIsPartial, FollowingIsExact, Told
<1> QED BY <1>3, <1>4, <1>5 DEF IInv

LEMMA AfterIsTyped ==
  ASSUME NEW S \in SUBSET Entry, NEW u \in Update, u.event # "Authorized" => u.contract \in Contract
  PROVE  After(S, u) \in SUBSET Entry
<1>1. /\ FlawIn(u, {"CreatedEvent", "InterfaceView"}) \in AllFlaws \union {NoFlaw}
      /\ FlawIn(u, {"CreatedEvent", "InterfaceView", "UnassignedEvent", "AssignedEvent"})
           \in AllFlaws \union {NoFlaw}
  BY DEF FlawIn, Update
<1>2. u.event # "Authorized" => Active(u) \in Entry
  BY <1>1 DEF Active, EntryOf, Entry, Update
<1>3. u.event # "Authorized" =>
        Half("incomplete_unassigned", u) \in Entry /\ Half("incomplete_assigned", u) \in Entry
  BY <1>1 DEF Half, EntryOf, Entry, Update
<1>4. ASSUME u.event # "Authorized", NEW R \in SUBSET Entry
      PROVE  /\ Reassigned(R, u, "incomplete_unassigned", "incomplete_assigned") \in SUBSET Entry
             /\ Reassigned(R, u, "incomplete_assigned", "incomplete_unassigned") \in SUBSET Entry
  BY <1>3, <1>4 DEF Reassigned
<1>5. u.event # "Authorized" => S \union {Active(u)} \in SUBSET Entry
  BY <1>2
<1>6. CASE u.event = "Unassigned"
  <2>1. {e \in S : ~IsActive(e, u.contract, u.source)} \in SUBSET Entry
    OBVIOUS
  <2>2. After(S, u) = Reassigned({e \in S : ~IsActive(e, u.contract, u.source)}, u,
                                 "incomplete_unassigned", "incomplete_assigned")
    BY <1>6 DEF After
  <2> QED BY <1>4, <1>6, <2>1, <2>2
<1>7. CASE u.event = "Assigned"
  <2>1. After(S, u) = Reassigned(S \union {Active(u)}, u, "incomplete_assigned", "incomplete_unassigned")
    BY <1>7 DEF After
  <2> QED BY <1>4, <1>5, <1>7, <2>1
<1>8. CASE u.event \notin {"Unassigned", "Assigned"}
  BY <1>5, <1>8 DEF After
<1> QED BY <1>6, <1>7, <1>8

LEMMA UpdateIsTyped ==
  ASSUME TypeOK, NEW event \in Events, NEW c \in Contracts(event), NEW n \in 0 .. MaxCounter, NEW p \in Places(event),
         NEW u, u = [event |-> event, contract |-> c, counter |-> n, source |-> p[1], target |-> p[2], flaw |-> NoFlaw],
         NEW flaw \in MayHave(u), NEW v, v = [u EXCEPT !.flaw = flaw], Possible(u)
  PROVE  /\ v \in Update
         /\ v.event # "Authorized" => v.contract \in Contract
         /\ v.event = "Created" => v.counter = 0
<1>1. v = [event |-> event, contract |-> c, counter |-> n, source |-> p[1], target |-> p[2], flaw |-> flaw]
  OBVIOUS
<1>2. p[1] \in Synchronizer /\ p[2] \in Synchronizer
  BY OriginAssumption DEF Places
<1>3. flaw \in AllFlaws \union {NoFlaw}
  BY FlawsAssumption, FormatAssumption DEF TypeOK, MayHave
<1>4. c \in Contract \union {None} /\ (event # "Authorized" => c \in Contract)
  BY DEF Contracts
<1>5. v \in Update
  BY <1>1, <1>2, <1>3, <1>4 DEF Update
<1>6. event = "Created" => n = 0
  BY DEF Possible
<1> QED BY <1>1, <1>4, <1>5, <1>6

\* What Commit appends is not in the ledger yet.
IsNew(v) ==
  /\ v.event = "Created" => v.contract \notin Known
  /\ v.event \in {"Unassigned", "Assigned"} => v.counter # 0 /\ ~Mentioned(v)

LEMMA CommitAppends ==
  ASSUME TypeOK, Commit
  PROVE  /\ UNCHANGED <<format, pruned, phase, at, token, view, offset, session, stream, breaks>>
         /\ End < MaxUpdates
         /\ \E v \in Update :
              /\ v.event # "Authorized" => v.contract \in Contract
              /\ v.event = "Created" => v.counter = 0
              /\ IsNew(v)
              /\ ledger' = Append(ledger, [update |-> v, state |-> After(StateAt(End), v)])
<1>1. PICK event \in Events : \E c \in Contracts(event), n \in 0 .. MaxCounter, p \in Places(event) :
        LET u == [event |-> event, contract |-> c, counter |-> n, source |-> p[1], target |-> p[2], flaw |-> NoFlaw] IN
          /\ Possible(u)
          /\ \E flaw \in MayHave(u) :
               LET v == [u EXCEPT !.flaw = flaw] IN
                 ledger' = Append(ledger, [update |-> v, state |-> After(StateAt(End), v)])
  BY DEF Commit
<1>2. PICK c \in Contracts(event), n \in 0 .. MaxCounter, p \in Places(event) :
        LET u == [event |-> event, contract |-> c, counter |-> n, source |-> p[1], target |-> p[2], flaw |-> NoFlaw] IN
          /\ Possible(u)
          /\ \E flaw \in MayHave(u) :
               LET v == [u EXCEPT !.flaw = flaw] IN
                 ledger' = Append(ledger, [update |-> v, state |-> After(StateAt(End), v)])
  BY <1>1
<1>3. PICK u : u = [event |-> event, contract |-> c, counter |-> n, source |-> p[1], target |-> p[2], flaw |-> NoFlaw]
  OBVIOUS
<1>4. /\ Possible(u)
      /\ \E flaw \in MayHave(u) :
           LET v == [u EXCEPT !.flaw = flaw] IN
             ledger' = Append(ledger, [update |-> v, state |-> After(StateAt(End), v)])
  BY <1>2, <1>3
<1>5. PICK flaw \in MayHave(u) :
        LET v == [u EXCEPT !.flaw = flaw] IN
          ledger' = Append(ledger, [update |-> v, state |-> After(StateAt(End), v)])
  BY <1>4
<1>6. PICK v : v = [u EXCEPT !.flaw = flaw]
  OBVIOUS
<1>7. ledger' = Append(ledger, [update |-> v, state |-> After(StateAt(End), v)])
  BY <1>5, <1>6
<1>8. /\ v \in Update
      /\ v.event # "Authorized" => v.contract \in Contract
      /\ v.event = "Created" => v.counter = 0
  BY <1>3, <1>4, <1>6, UpdateIsTyped
<1>9. UNCHANGED <<format, pruned, phase, at, token, view, offset, session, stream, breaks>> /\ End < MaxUpdates
  BY DEF Commit
<1>10. v.event = u.event /\ v.contract = u.contract /\ v.counter = u.counter /\ u.counter = n
  BY <1>3, <1>6
<1>11. IsNew(v)
  <2>1. /\ u.event = "Created" => u.contract \notin Known
        /\ u.event \in {"Unassigned", "Assigned"} => u.counter > 0 /\ ~Mentioned(u)
    BY <1>4 DEF Possible
  <2>2. Mentioned(u) <=> Mentioned(v)
    BY <1>10 DEF Mentioned
  <2> QED BY <1>10, <2>1, <2>2, BoundsAssumption DEF IsNew
<1> QED BY <1>7, <1>8, <1>9, <1>11

\* The ledger grows at its end only.
LEMMA LedgerGrows ==
  ASSUME TypeOK, LedgerIsBuilt, Commit
  PROVE  /\ End' = End + 1 /\ End \in Nat /\ End' <= MaxUpdates
         /\ ledger' \in Seq([update : Update, state : SUBSET Entry]) /\ LedgerIsBuilt'
         /\ \A o \in 0 .. End : StateAt(o)' = StateAt(o) /\ Wanted(o)' = Wanted(o) /\ Taken(o)' = Taken(o)
<1>1. UNCHANGED format /\ End < MaxUpdates
  BY CommitAppends
<1>2. PICK v \in Update :
        /\ v.event # "Authorized" => v.contract \in Contract
        /\ v.event = "Created" => v.counter = 0
        /\ ledger' = Append(ledger, [update |-> v, state |-> After(StateAt(End), v)])
  BY CommitAppends
<1>3. PICK e : e = [update |-> v, state |-> After(StateAt(End), v)]
  OBVIOUS
<1>4. ledger \in Seq([update : Update, state : SUBSET Entry]) /\ End \in Nat /\ End \in 0 .. End
  BY DEF TypeOK, End
<1>5. StateAt(End) \in SUBSET Entry
  BY <1>4, States
<1>6. After(StateAt(End), v) \in SUBSET Entry
  BY <1>2, <1>5, AfterIsTyped
<1>7. e \in [update : Update, state : SUBSET Entry] /\ ledger' = Append(ledger, e)
  BY <1>2, <1>3, <1>6
<1>8. /\ ledger' \in Seq([update : Update, state : SUBSET Entry]) /\ End' = End + 1
      /\ ledger'[End + 1] = e /\ \A o \in 1 .. End : ledger'[o] = ledger[o]
  BY <1>4, <1>7, AppendProperties DEF End
<1>9. \A o \in 0 .. End : StateAt(o)' = StateAt(o)
  BY <1>4, <1>8 DEF StateAt
<1>10. \A o \in 0 .. End : Wanted(o)' = Wanted(o) /\ Taken(o)' = Taken(o)
  BY <1>1, <1>9 DEF Wanted, Taken
<1>11. LedgerIsBuilt'
  <2> SUFFICES ASSUME NEW o \in 1 .. End'
               PROVE  /\ ledger'[o].state = After(StateAt(o - 1)', ledger'[o].update)
                      /\ ledger'[o].update.event = "Created" => ledger'[o].update.counter = 0
                      /\ ledger'[o].update.event # "Authorized" => ledger'[o].update.contract \in Contract
    BY DEF LedgerIsBuilt
  <2>1. CASE o \in 1 .. End
    <3>1. ledger'[o] = ledger[o]
      BY <1>8, <2>1
    <3>2. o - 1 \in 0 .. End
      BY <1>4, <2>1
    <3>3. StateAt(o - 1)' = StateAt(o - 1)
      BY <1>9, <3>2
    <3> QED BY <2>1, <3>1, <3>3 DEF LedgerIsBuilt
  <2>2. CASE o = End + 1
    <3>1. o - 1 = End /\ ledger'[o] = e
      BY <1>4, <1>8, <2>2
    <3>2. StateAt(o - 1)' = StateAt(End)
      BY <1>4, <1>9, <3>1
    <3>3. e.update = v /\ e.state = After(StateAt(End), v)
      BY <1>3
    <3> QED BY <1>2, <3>1, <3>2, <3>3
  <2> QED BY <1>4, <1>8, <2>1, <2>2
<1> QED BY <1>1, <1>4, <1>8, <1>9, <1>10, <1>11, BoundsAssumption

LEMMA CommitPreserves == IInv /\ Commit => IInv'
<1> SUFFICES ASSUME IInv, Commit PROVE IInv'
  OBVIOUS
<1>1. UNCHANGED <<format, pruned, phase, at, token, view, offset, session, stream, breaks>>
  BY CommitAppends DEF IInv
<1>2. /\ End' = End + 1 /\ End \in Nat /\ End' <= MaxUpdates
      /\ ledger' \in Seq([update : Update, state : SUBSET Entry]) /\ LedgerIsBuilt'
  BY LedgerGrows DEF IInv
<1>3. 0 .. End \subseteq 0 .. End'
  BY <1>2
<1>4. TypeOK'
  BY <1>1, <1>2, <1>3 DEF IInv, TypeOK
<1>5. SnapshotIsPartial'
  <2>1. at # None => at \in 0 .. End
    BY DEF IInv, TypeOK
  <2>2. at # None => Taken(at)' = Taken(at)
    <3>1. at # None => Taken(at)' = {e \in StateAt(at)' : Wants(format.events, e.contract)}
      BY <1>1 DEF Taken
    <3>2. at # None => StateAt(at)' = StateAt(at)
      <4>1. PICK a : a = at
        OBVIOUS
      <4>2. a' = at'
        BY <1>1, <4>1
      <4>3. at # None => (IF a = 0 THEN {} ELSE ledger'[a].state) = StateAt(a)
        BY <2>1, <4>1, LedgerGrows DEF IInv, StateAt
      <4> QED BY <1>1, <4>1, <4>3 DEF StateAt
    <3> QED BY <3>1, <3>2 DEF Taken
  <2> QED BY <1>1, <2>2 DEF IInv, SnapshotIsPartial
<1>6. FollowingIsExact'
  <2>1. offset \in 0 .. End /\ (phase = "following" /\ stream.of # "closed" => stream.from \in 0 .. End)
    BY DEF IInv, TypeOK, FollowingIsExact, Stream
  <2>2. \A o \in 0 .. End : (IF o = 0 THEN {} ELSE ledger'[o].state) = StateAt(o)
    BY LedgerGrows DEF IInv, StateAt
  <2>3. Wanted(offset)' = Wanted(offset)
    BY <1>1, <2>1, <2>2 DEF Wanted, StateAt
  <2>4. phase = "following" /\ stream.of # "closed" => Wanted(stream.from)' = Wanted(stream.from)
    BY <1>1, <2>1, <2>2 DEF Wanted, StateAt
  <2>5. \A n \in 0 .. End : n <= End'
    BY <1>2
  <2> QED BY <1>1, <2>1, <2>3, <2>4, <2>5 DEF IInv, FollowingIsExact
<1> QED BY <1>2, <1>4, <1>5, <1>6 DEF IInv

(***************************************************************************)
(* The rest of the state, when the ledger and the formats stay.            *)
(***************************************************************************)
ReaderTyped ==
  /\ pruned \in 0 .. End /\ phase \in Phase /\ at \in (0 .. End) \union {None} /\ token \in SUBSET Entry
  /\ offset \in 0 .. End /\ session \in Session \union {None} /\ stream \in Stream /\ breaks \in 0 .. MaxBreaks

LEMMA TypedFrom ==
  ASSUME IInv, UNCHANGED <<format, ledger>>,
         pruned' \in 0 .. End, phase' \in Phase, at' \in (0 .. End) \union {None}, token' \in SUBSET Entry,
         offset' \in 0 .. End, session' \in Session \union {None}, stream' \in Stream, breaks' \in 0 .. MaxBreaks
  PROVE  TypeOK' /\ LedgerIsBuilt'
<1>1. /\ End' = End /\ LedgerIsBuilt' /\ format' \in Format
      /\ ledger' \in Seq([update : Update, state : SUBSET Entry]) /\ End' <= MaxUpdates
  BY LedgerKept DEF IInv
<1> QED BY <1>1 DEF TypeOK

LEMMA ReaderTypes ==
  ASSUME IInv
  PROVE  ReaderTyped /\ End \in Nat /\ 0 .. End \subseteq 0 .. MaxUpdates /\ None \notin 0 .. End
<1>1. End \in Nat /\ End <= MaxUpdates
  BY DEF IInv, TypeOK, End
<1>2. 0 .. End \subseteq 0 .. MaxUpdates
  BY <1>1, BoundsAssumption
<1> QED BY <1>1, <1>2, NoneAssumption DEF IInv, TypeOK, ReaderTyped

LEMMA PrunePreserves == IInv /\ Prune => IInv'
<1> SUFFICES ASSUME IInv, Prune PROVE IInv'
  OBVIOUS
<1>1. UNCHANGED <<format, ledger, phase, at, token, view, offset, session, stream, breaks>>
  BY DEF Prune
<1>2. pruned' \in 0 .. End
  BY ReaderTypes DEF Prune, ReaderTyped
<1>3. TypeOK' /\ LedgerIsBuilt'
  BY <1>1, <1>2, TypedFrom, ReaderTypes DEF ReaderTyped
<1>4. SnapshotIsPartial'
  BY <1>1 DEF IInv, SnapshotIsPartial, Taken, StateAt
<1>5. FollowingIsExact'
  BY <1>1 DEF IInv, FollowingIsExact, Wanted, StateAt, End
<1> QED BY <1>3, <1>4, <1>5 DEF IInv

LEMMA BreakPreserves == IInv /\ Break => IInv'
<1> SUFFICES ASSUME IInv, Break PROVE IInv'
  OBVIOUS
<1>1. /\ UNCHANGED <<format, ledger, pruned, phase, at, token, view, offset, session>>
      /\ stream' = Closed /\ breaks' = breaks + 1 /\ breaks < MaxBreaks
  BY DEF Break
<1>2. breaks' \in 0 .. MaxBreaks
  BY <1>1, ReaderTypes, BoundsAssumption DEF ReaderTyped
<1>3. TypeOK' /\ LedgerIsBuilt'
  BY <1>1, <1>2, TypedFrom, ReaderTypes, ClosedStream DEF ReaderTyped
<1>4. SnapshotIsPartial'
  BY <1>1, ClosedStream DEF IInv, SnapshotIsPartial, Taken, StateAt
<1>5. FollowingIsExact'
  BY <1>1, ClosedStream DEF IInv, FollowingIsExact, Wanted, StateAt
<1> QED BY <1>3, <1>4, <1>5 DEF IInv

LEMMA GetLedgerEndPreserves == IInv /\ GetLedgerEnd => IInv'
<1> SUFFICES ASSUME IInv, GetLedgerEnd PROVE IInv'
  OBVIOUS
<1>1. /\ UNCHANGED <<format, ledger, pruned, token, view, offset, session, stream, breaks>>
      /\ phase = "start" /\ phase' = "streaming" /\ at' = End
  BY DEF GetLedgerEnd
<1>2. End \in 0 .. End /\ End # None
  BY ReaderTypes
<1>3. TypeOK' /\ LedgerIsBuilt'
  BY <1>1, <1>2, TypedFrom, ReaderTypes DEF ReaderTyped, Phase
<1>4. view = Told(token) /\ token = {} /\ stream.of = "closed"
  BY <1>1, ClosedStream DEF IInv, SnapshotIsPartial
<1>5. SnapshotIsPartial' /\ FollowingIsExact'
  BY <1>1, <1>2, <1>4 DEF SnapshotIsPartial, FollowingIsExact
<1> QED BY <1>3, <1>5 DEF IInv

LEMMA StartPagingPreserves == IInv /\ StartPaging => IInv'
<1> SUFFICES ASSUME IInv, StartPaging PROVE IInv'
  OBVIOUS
<1>1. /\ UNCHANGED <<format, ledger, pruned, at, token, view, offset, session, stream, breaks>>
      /\ phase = "start" /\ phase' = "paging"
  BY DEF StartPaging
<1>2. TypeOK' /\ LedgerIsBuilt'
  BY <1>1, TypedFrom, ReaderTypes DEF ReaderTyped, Phase
<1>3. at = None /\ stream = Closed /\ view = Told(token) /\ token = {}
  BY <1>1 DEF IInv, SnapshotIsPartial
<1>4. SnapshotIsPartial' /\ FollowingIsExact'
  BY <1>1, <1>3 DEF SnapshotIsPartial, FollowingIsExact
<1> QED BY <1>2, <1>4 DEF IInv

LEMMA GetActiveContractsPreserves == IInv /\ GetActiveContracts => IInv'
<1> SUFFICES ASSUME IInv, GetActiveContracts PROVE IInv'
  OBVIOUS
<1>1. UNCHANGED <<format, ledger, pruned, breaks>> /\ phase = "streaming"
  BY DEF GetActiveContracts
<1>2. PICK request : request = ActiveContractsRequest(at, token)
  OBVIOUS
<1>3. request.active_at_offset = at /\ request.stream_continuation_token = token
  BY <1>2 DEF ActiveContractsRequest
<1>4. CASE Restart
  BY <1>1, <1>4, AnewOrStop
<1>5. CASE ~Restart
  <2>1. /\ stream' = [of |-> "snapshot", from |-> request.active_at_offset, upto |-> None,
                      sent |-> request.stream_continuation_token]
        /\ UNCHANGED <<phase, at, token, view, offset, session>>
    BY <1>2, <1>5 DEF GetActiveContracts
  <2>2. at \in 0 .. End /\ at # None
    BY <1>1, ReaderTypes DEF IInv, SnapshotIsPartial, ReaderTyped
  <2>3. stream' \in Stream /\ stream'.of = "snapshot" /\ stream'.from = at /\ stream'.sent = token
    BY <1>3, <2>1, <2>2, ReaderTypes DEF ReaderTyped, Stream
  <2>4. TypeOK' /\ LedgerIsBuilt'
    BY <1>1, <2>1, <2>3, TypedFrom, ReaderTypes DEF ReaderTyped
  <2>5. SnapshotIsPartial' /\ FollowingIsExact'
    BY <1>1, <2>1, <2>3 DEF IInv, SnapshotIsPartial, FollowingIsExact, Taken, StateAt
  <2> QED BY <2>4, <2>5 DEF IInv
<1> QED BY <1>4, <1>5

LEMMA ReceiveEntryPreserves == IInv /\ ReceiveEntry => IInv'
<1> SUFFICES ASSUME IInv, ReceiveEntry PROVE IInv'
  OBVIOUS
<1>1. UNCHANGED <<format, ledger, pruned, breaks>> /\ stream.of = "snapshot"
  BY DEF ReceiveEntry
<1>2. CASE Stop
  BY <1>1, <1>2, AnewOrStop
<1>3. CASE ~Stop
  <2>1. PICK e \in Unsent :
          /\ view' = view \union {ToContractEntry(e)} /\ token' = stream.sent \union {e}
          /\ stream' = [stream EXCEPT !.sent = stream.sent \union {e}]
          /\ UNCHANGED <<phase, at, offset, session>>
    BY <1>3 DEF ReceiveEntry
  <2>2. phase = "streaming"
    BY <1>1, ClosedStream, ReaderTypes
    DEF IInv, SnapshotIsPartial, FollowingIsExact, ReaderTyped, Phase
  <2>3. /\ at \in 0 .. End /\ at # None /\ stream.from = at /\ stream.sent = token
        /\ token \subseteq Taken(at) /\ view = Told(token)
    BY <1>1, <2>2, ReaderTypes DEF IInv, SnapshotIsPartial, ReaderTyped
  <2>4. Snapshot(ToEventFormat(format.events), at) = Taken(at) /\ Taken(at) \in SUBSET Entry
    BY <2>3, SnapshotIsTaken DEF IInv
  <2>5. e \in Taken(at) /\ token' = token \union {e} /\ token' \in SUBSET Entry
    BY <2>1, <2>3, <2>4 DEF Unsent
  <2>6. stream' \in Stream /\ stream'.of = "snapshot" /\ stream'.from = at /\ stream'.sent = token'
    BY <1>1, <2>1, <2>3, <2>5, StreamSent, ReaderTypes DEF ReaderTyped
  <2>7. TypeOK' /\ LedgerIsBuilt'
    BY <1>1, <2>1, <2>5, <2>6, TypedFrom, ReaderTypes DEF ReaderTyped
  <2>8. view' = Told(token')
    BY <2>1, <2>3, <2>5 DEF Told
  <2>9. token' \subseteq Taken(at)'
    BY <1>1, <2>1, <2>3, <2>5 DEF Taken, StateAt
  <2>10. SnapshotIsPartial' /\ FollowingIsExact'
    BY <2>1, <2>2, <2>3, <2>6, <2>8, <2>9 DEF SnapshotIsPartial, FollowingIsExact, Told
  <2> QED BY <2>7, <2>10 DEF IInv
<1> QED BY <1>2, <1>3

LEMMA EndOfSnapshotPreserves == IInv /\ EndOfSnapshot => IInv'
<1> SUFFICES ASSUME IInv, EndOfSnapshot PROVE IInv'
  OBVIOUS
<1>1. /\ UNCHANGED <<format, ledger, pruned, view, breaks>>
      /\ stream.of = "snapshot" /\ Unsent = {} /\ StartFollowing(at)
  BY DEF EndOfSnapshot
<1>2. phase = "streaming"
  BY <1>1, ClosedStream, ReaderTypes
  DEF IInv, SnapshotIsPartial, FollowingIsExact, ReaderTyped, Phase
<1>3. /\ at \in 0 .. End /\ stream.from = at /\ stream.sent = token
      /\ token \subseteq Taken(at) /\ view = Told(token)
  BY <1>1, <1>2, ReaderTypes DEF IInv, SnapshotIsPartial, ReaderTyped
<1>4. Snapshot(ToEventFormat(format.events), at) = Taken(at) /\ Told(Taken(at)) = Wanted(at)
  BY <1>3, SnapshotIsTaken DEF IInv
<1>5. token = Taken(at)
  BY <1>1, <1>3, <1>4 DEF Unsent
<1>6. view' = Wanted(at)
  BY <1>1, <1>3, <1>4, <1>5
<1> QED BY <1>1, <1>3, <1>6, SnapshotRead

LEMMA GetActiveContractsPagePreserves == IInv /\ GetActiveContractsPage => IInv'
<1> SUFFICES ASSUME IInv, GetActiveContractsPage PROVE IInv'
  OBVIOUS
<1>1. UNCHANGED <<format, ledger, pruned, breaks>> /\ phase = "paging"
  BY DEF GetActiveContractsPage
<1>2. PICK request : request = ActiveContractsPageRequest(at, token)
  OBVIOUS
<1>3. PICK o : o = IF request.active_at_offset = None THEN End ELSE request.active_at_offset
  OBVIOUS
<1>4. PICK rest : rest = Snapshot(request.event_format, o) \ request.page_token
  OBVIOUS
<1>5. /\ request.active_at_offset = at /\ request.page_token = token
      /\ request.event_format = ToEventFormat(format.events)
  BY <1>2 DEF ActiveContractsPageRequest
<1>6. o \in 0 .. End /\ (at # None => o = at)
  BY <1>3, <1>5, ReaderTypes DEF ReaderTyped
<1>7. rest = Taken(o) \ token /\ Taken(o) \in SUBSET Entry /\ Told(Taken(o)) = Wanted(o)
  BY <1>4, <1>5, <1>6, SnapshotIsTaken DEF IInv
<1>8. view = Told(token) /\ token \subseteq Taken(o) /\ stream = Closed
  BY <1>1, <1>6 DEF IInv, SnapshotIsPartial
<1>9. CASE Restart \/ Stop
  BY <1>1, <1>9, AnewOrStop
<1>10. CASE ~(Restart \/ Stop)
  <2>1. PICK page \in SUBSET rest :
          /\ view' = view \union {ToContractEntry(e) : e \in page}
          /\ IF page = rest
             THEN StartFollowing(o)
             ELSE /\ at' = o /\ token' = token \union page
                  /\ UNCHANGED <<phase, offset, session, stream>>
    BY <1>2, <1>3, <1>4, <1>10 DEF GetActiveContractsPage
  <2>2. view' = Told(token \union page)
    BY <1>8, <2>1 DEF Told
  <2>3. CASE page = rest
    <3>1. token \union page = Taken(o)
      BY <1>7, <1>8, <2>3
    <3>2. view' = Wanted(o)
      BY <1>7, <2>2, <3>1
    <3> QED BY <1>1, <1>6, <2>1, <2>3, <3>2, SnapshotRead
  <2>4. CASE page # rest
    <3>1. at' = o /\ token' = token \union page /\ UNCHANGED <<phase, offset, session, stream>>
      BY <2>1, <2>4
    <3>2. token' \subseteq Taken(o) /\ token' \in SUBSET Entry
      BY <1>7, <1>8, <2>1, <3>1
    <3>3. TypeOK' /\ LedgerIsBuilt'
      BY <1>1, <1>6, <3>1, <3>2, TypedFrom, ReaderTypes DEF ReaderTyped
    <3>4. token' \subseteq Taken(at)' /\ at' # None
      BY <1>1, <1>6, <3>1, <3>2, ReaderTypes DEF Taken, StateAt
    <3>5. view' = Told(token)'
      BY <2>2, <3>1 DEF Told
    <3>6. SnapshotIsPartial' /\ FollowingIsExact'
      BY <1>1, <1>8, <3>1, <3>4, <3>5 DEF SnapshotIsPartial, FollowingIsExact
    <3> QED BY <3>3, <3>6 DEF IInv
  <2> QED BY <2>3, <2>4
<1> QED BY <1>9, <1>10

(***************************************************************************)
(* While the updates are followed.                                         *)
(***************************************************************************)
LEMMA FollowingFrom ==
  ASSUME IInv, UNCHANGED <<format, ledger, pruned, at, token, breaks>>, phase = "following", UNCHANGED phase,
         session' \in Session \union {None}, stream' \in Stream,
         NEW o \in 0 .. End, offset' = o, view' = Wanted(o), stream'.of \in {"closed", "updates", "page"},
         stream'.of # "closed" =>
           stream'.from \in 0 .. End /\ o <= stream'.from /\ Wanted(stream'.from) = Wanted(o)
  PROVE  IInv'
<1>1. TypeOK' /\ LedgerIsBuilt'
  BY TypedFrom, ReaderTypes DEF ReaderTyped
<1>2. End' = End
  BY DEF End
<1>3. view' = Wanted(offset)' /\ (stream'.of # "closed" => view' = Wanted(stream.from)')
  BY DEF Wanted, StateAt
<1>4. stream'.of # "closed" => offset' <= stream'.from /\ stream'.from <= End'
  BY <1>2, ReaderTypes
<1>5. FollowingIsExact'
  BY <1>3, <1>4 DEF FollowingIsExact
<1>6. SnapshotIsPartial'
  BY DEF SnapshotIsPartial
<1> QED BY <1>1, <1>5, <1>6 DEF IInv

LEMMA StreamIsAhead ==
  ASSUME IInv, stream.of \in {"updates", "page"}
  PROVE  /\ phase = "following" /\ stream.from \in 0 .. End /\ offset \in 0 .. End /\ offset <= stream.from
         /\ view = Wanted(stream.from) /\ view = Wanted(offset)
<1>1. phase = "following"
  BY ClosedStream, ReaderTypes DEF IInv, SnapshotIsPartial, FollowingIsExact, ReaderTyped, Phase
<1>2. stream.from \in 0 .. MaxUpdates
  BY ReaderTypes DEF ReaderTyped, Stream
<1>3. stream.from <= End /\ offset <= stream.from /\ view = Wanted(stream.from) /\ view = Wanted(offset)
  BY <1>1 DEF IInv, FollowingIsExact
<1> QED BY <1>1, <1>2, <1>3, ReaderTypes, BoundsAssumption DEF ReaderTyped

LEMMA GetUpdatesPreserves == IInv /\ GetUpdates => IInv'
<1> SUFFICES ASSUME IInv, GetUpdates PROVE IInv'
  OBVIOUS
<1>1. UNCHANGED <<format, ledger, pruned, breaks>> /\ phase = "following"
  BY DEF GetUpdates
<1>2. CASE Restart
  BY <1>1, <1>2, AnewOrStop
<1>3. CASE ~Restart
  <2>1. PICK end \in {None, End} :
          /\ stream' = [of |-> "updates", from |-> UpdatesRequest(offset, end).begin_exclusive,
                        upto |-> UpdatesRequest(offset, end).end_inclusive, sent |-> {}]
          /\ session' = None /\ UNCHANGED <<phase, at, token, view, offset>>
    BY <1>3 DEF GetUpdates
  <2>2. UpdatesRequest(offset, end).begin_exclusive = offset /\ UpdatesRequest(offset, end).end_inclusive = end
    BY DEF UpdatesRequest
  <2>3. offset \in 0 .. End /\ offset \in 0 .. MaxUpdates /\ offset <= offset
    BY ReaderTypes DEF ReaderTyped
  <2>4. end \in (0 .. MaxUpdates) \union {None}
    BY ReaderTypes, BoundsAssumption
  <2>5. stream' \in Stream /\ stream'.of = "updates" /\ stream'.from = offset
    BY <2>1, <2>2, <2>3, <2>4 DEF Stream
  <2>6. view' = Wanted(offset)
    BY <1>1, <2>1 DEF IInv, FollowingIsExact
  <2> QED BY <1>1, <2>1, <2>3, <2>5, <2>6, FollowingFrom
<1> QED BY <1>2, <1>3

LEMMA PassOverPreserves == IInv /\ PassOver => IInv'
<1> SUFFICES ASSUME IInv, PassOver PROVE IInv'
  OBVIOUS
<1>1. /\ UNCHANGED <<format, ledger, pruned, phase, at, token, view, offset, session, breaks>>
      /\ stream.of \in {"updates", "page"} /\ stream.from < End /\ ~Delivered(stream.from + 1)
      /\ stream' = [stream EXCEPT !.from = stream.from + 1]
  BY DEF PassOver, Ahead
<1>2. /\ phase = "following" /\ stream.from \in 0 .. End /\ offset \in 0 .. End /\ offset <= stream.from
      /\ view = Wanted(stream.from) /\ view = Wanted(offset)
  BY <1>1, StreamIsAhead
<1>3. PICK n : n = stream.from + 1
  OBVIOUS
<1>4. n \in 1 .. End /\ n \in 0 .. End /\ n \in 0 .. MaxUpdates /\ n - 1 = stream.from /\ offset <= n
  BY <1>1, <1>2, <1>3, ReaderTypes
<1>5. Wanted(n) = Wanted(offset)
  BY <1>1, <1>2, <1>3, <1>4, UpdateIsFollowed DEF IInv
<1>6. stream \in Stream /\ stream' = [stream EXCEPT !.from = n]
  BY <1>1, <1>3, ReaderTypes DEF ReaderTyped
<1>7. stream' \in Stream /\ stream'.from = n /\ stream'.of = stream.of
  BY <1>4, <1>6, StreamFrom
<1>8. session' \in Session \union {None}
  BY <1>1, ReaderTypes DEF ReaderTyped
<1> QED BY <1>1, <1>2, <1>4, <1>5, <1>7, <1>8, FollowingFrom

LEMMA ReceiveUpdatePreserves == IInv /\ ReceiveUpdate => IInv'
<1> SUFFICES ASSUME IInv, ReceiveUpdate PROVE IInv'
  OBVIOUS
<1>1. /\ UNCHANGED <<format, ledger, pruned, breaks>>
      /\ stream.of \in {"updates", "page"} /\ stream.from < End /\ Delivered(stream.from + 1)
  BY DEF ReceiveUpdate, Ahead
<1>2. CASE Stop
  BY <1>1, <1>2, AnewOrStop
<1>3. CASE ~Stop
  <2>1. PICK m : m = Message(stream.from + 1)
    OBVIOUS
  <2>2. /\ view' = Follow(view, ToUpdate(m)) /\ offset' = m.offset
        /\ stream' = [stream EXCEPT !.from = m.offset]
        /\ UNCHANGED <<phase, at, token, session>>
    BY <1>3, <2>1 DEF ReceiveUpdate
  <2>3. phase = "following" /\ stream.from \in 0 .. End /\ view = Wanted(stream.from)
    BY <1>1, StreamIsAhead
  <2>4. PICK n : n = stream.from + 1
    OBVIOUS
  <2>5. n \in 1 .. End /\ n \in 0 .. End /\ n \in 0 .. MaxUpdates /\ n - 1 = stream.from /\ n <= n
    BY <1>1, <2>3, <2>4, ReaderTypes
  <2>6. m.offset = n
    BY <2>1, <2>4 DEF Message
  <2>7. view' = Wanted(n)
    BY <1>1, <2>1, <2>2, <2>3, <2>4, <2>5, UpdateIsFollowed DEF IInv
  <2>8. stream \in Stream /\ stream' = [stream EXCEPT !.from = n]
    BY <2>2, <2>6, ReaderTypes DEF ReaderTyped
  <2>9. stream' \in Stream /\ stream'.from = n /\ stream'.of = stream.of
    BY <2>5, <2>8, StreamFrom
  <2>10. session' \in Session \union {None} /\ offset' = n
    BY <2>2, <2>6, ReaderTypes DEF ReaderTyped
  <2> QED BY <1>1, <2>2, <2>3, <2>5, <2>7, <2>9, <2>10, FollowingFrom
<1> QED BY <1>2, <1>3

LEMMA ReceiveCheckpointPreserves == IInv /\ ReceiveCheckpoint => IInv'
<1> SUFFICES ASSUME IInv, ReceiveCheckpoint PROVE IInv'
  OBVIOUS
<1>1. UNCHANGED <<format, ledger, pruned, breaks>> /\ stream.of = "updates"
  BY DEF ReceiveCheckpoint
<1>2. CASE Stop
  BY <1>1, <1>2, AnewOrStop
<1>3. CASE ~Stop
  <2>1. offset' = stream.from /\ UNCHANGED <<phase, at, token, view, session, stream>>
    BY <1>3 DEF ReceiveCheckpoint
  <2>2. phase = "following" /\ stream.from \in 0 .. End /\ view = Wanted(stream.from) /\ stream.from <= stream.from
    BY <1>1, StreamIsAhead
  <2>3. stream' \in Stream /\ session' \in Session \union {None}
    BY <2>1, ReaderTypes DEF ReaderTyped
  <2> QED BY <1>1, <2>1, <2>2, <2>3, FollowingFrom
<1> QED BY <1>2, <1>3

LEMMA EndOfUpdatesPreserves == IInv /\ EndOfUpdates => IInv'
<1> SUFFICES ASSUME IInv, EndOfUpdates PROVE IInv'
  OBVIOUS
<1>1. /\ UNCHANGED <<format, ledger, pruned, phase, at, token, view, session, breaks>>
      /\ stream.of \in {"updates", "page"} /\ offset' = stream.from /\ stream' = Closed
  BY DEF EndOfUpdates
<1>2. phase = "following" /\ stream.from \in 0 .. End /\ view = Wanted(stream.from)
  BY <1>1, StreamIsAhead
<1>3. stream' \in Stream /\ stream'.of = "closed" /\ session' \in Session \union {None}
  BY <1>1, ClosedStream, ReaderTypes DEF ReaderTyped
<1> QED BY <1>1, <1>2, <1>3, FollowingFrom

LEMMA GetUpdatesPagePreserves == IInv /\ GetUpdatesPage => IInv'
<1> SUFFICES ASSUME IInv, GetUpdatesPage PROVE IInv'
  OBVIOUS
<1>1. UNCHANGED <<format, ledger, pruned, breaks>> /\ phase = "following"
  BY DEF GetUpdatesPage
<1>2. CASE Restart \/ Stop
  BY <1>1, <1>2, AnewOrStop
<1>3. CASE ~(Restart \/ Stop)
  <2>1. PICK s \in Sessions : \E low : \E limit :
          /\ low = PageBegin(UpdatesPageRequest(s)) /\ low = offset
          /\ limit = (IF UpdatesPageRequest(s).end_offset_inclusive = None THEN End
                      ELSE UpdatesPageRequest(s).end_offset_inclusive)
          /\ \E high \in PageEnds(low, limit, UpdatesPageRequest(s).max_page_size) :
               /\ stream' = [of |-> "page", from |-> low, upto |-> high, sent |-> {}]
               /\ session' = IF s.end # high THEN [s EXCEPT !.token = high] ELSE None
               /\ UNCHANGED <<phase, at, token, view, offset>>
    BY <1>3 DEF GetUpdatesPage
  <2>2. PICK low, limit :
          /\ low = offset
          /\ limit = (IF UpdatesPageRequest(s).end_offset_inclusive = None THEN End
                      ELSE UpdatesPageRequest(s).end_offset_inclusive)
          /\ \E high \in PageEnds(low, limit, UpdatesPageRequest(s).max_page_size) :
               /\ stream' = [of |-> "page", from |-> low, upto |-> high, sent |-> {}]
               /\ session' = IF s.end # high THEN [s EXCEPT !.token = high] ELSE None
               /\ UNCHANGED <<phase, at, token, view, offset>>
    BY <2>1
  <2>3. PICK high \in PageEnds(low, limit, UpdatesPageRequest(s).max_page_size) :
          /\ stream' = [of |-> "page", from |-> low, upto |-> high, sent |-> {}]
          /\ session' = IF s.end # high THEN [s EXCEPT !.token = high] ELSE None
          /\ UNCHANGED <<phase, at, token, view, offset>>
    BY <2>2
  <2>4. /\ offset \in 0 .. End /\ offset \in 0 .. MaxUpdates /\ offset <= offset
        /\ End \in 0 .. MaxUpdates /\ session \in Session \union {None}
    BY ReaderTypes DEF ReaderTyped
  <2>5. s \in Session
    BY <2>4 DEF Sessions, NewSession, Session
  <2>6. limit \in 0 .. MaxUpdates
    BY <2>2, <2>4, <2>5 DEF UpdatesPageRequest, Session
  <2>7. high \in 0 .. MaxUpdates
    <3>1. high \in low .. limit
      BY DEF PageEnds
    <3> QED BY <2>2, <2>4, <2>6, <3>1, BoundsAssumption
  <2>8. [s EXCEPT !.token = high] \in Session
    BY <2>5, <2>7 DEF Session
  <2>9. session' \in Session \union {None}
    BY <2>3, <2>8
  <2>10. stream' \in Stream /\ stream'.of = "page" /\ stream'.from = offset
    BY <2>2, <2>3, <2>4, <2>7 DEF Stream
  <2>11. view' = Wanted(offset)
    BY <1>1, <2>3 DEF IInv, FollowingIsExact
  <2> QED BY <1>1, <2>3, <2>4, <2>9, <2>10, <2>11, FollowingFrom
<1> QED BY <1>2, <1>3

LEMMA Stutters == IInv /\ UNCHANGED vars => IInv'
<1> SUFFICES ASSUME IInv, UNCHANGED vars PROVE IInv'
  OBVIOUS
<1>1. UNCHANGED <<format, ledger, pruned, phase, at, token, view, offset, session, stream, breaks>>
  BY DEF vars
<1>2. TypeOK' /\ LedgerIsBuilt'
  BY <1>1, TypedFrom, ReaderTypes DEF ReaderTyped
<1>3. SnapshotIsPartial'
  BY <1>1 DEF IInv, SnapshotIsPartial, Taken, StateAt
<1>4. FollowingIsExact'
  BY <1>1 DEF IInv, FollowingIsExact, Wanted, StateAt, End
<1> QED BY <1>2, <1>3, <1>4 DEF IInv

(***************************************************************************)
(* The invariant, and what it says of the variables: every execution.      *)
(***************************************************************************)
LEMMA NextPreserves == IInv /\ [Next]_vars => IInv'
<1>1. IInv /\ Environment => IInv'
  BY CommitPreserves, PrunePreserves, BreakPreserves DEF Environment
<1>2. IInv /\ Reading => IInv'
  BY GetLedgerEndPreserves, StartPagingPreserves, GetActiveContractsPreserves, ReceiveEntryPreserves,
     EndOfSnapshotPreserves, GetActiveContractsPagePreserves, GetUpdatesPreserves, PassOverPreserves,
     ReceiveUpdatePreserves, ReceiveCheckpointPreserves, EndOfUpdatesPreserves, GetUpdatesPagePreserves
  DEF Reading
<1> QED BY <1>1, <1>2, Stutters DEF Next

LEMMA Invariance == Spec => []IInv
BY InitEstablishes, NextPreserves, PTL DEF Spec

(***************************************************************************)
(* Every variable has its type, whatever is committed, pruned, broken and  *)
(* answered: the offsets the application asks from are in the ledger.      *)
(***************************************************************************)
THEOREM TypeCorrect == Spec => []TypeOK
<1>1. IInv => TypeOK
  BY DEF IInv
<1> QED BY <1>1, Invariance, PTL

(***************************************************************************)
(* An application that follows the updates has exactly the entries a       *)
(* snapshot at its offset would show, and before that only entries of the  *)
(* snapshot it is reading.                                                 *)
(***************************************************************************)
THEOREM ViewCorrect == Spec => []ViewIsLedgers
<1>1. IInv => ViewIsLedgers
  <2> SUFFICES ASSUME IInv PROVE ViewIsLedgers
    OBVIOUS
  <2>1. phase = "following" => view = Wanted(offset)
    BY DEF IInv, FollowingIsExact
  <2>2. ASSUME phase \in {"streaming", "paging"}
        PROVE  view \subseteq (IF at = None THEN {} ELSE Wanted(at))
    <3>1. view = Told(token) /\ (at = None => token = {}) /\ (at # None => token \subseteq Taken(at))
      BY <2>2 DEF IInv, SnapshotIsPartial
    <3>2. CASE at = None
      BY <3>1, <3>2 DEF Told
    <3>3. CASE at # None
      <4>1. at \in 0 .. End
        BY <3>3, ReaderTypes DEF ReaderTyped
      <4>2. Told(Taken(at)) = Wanted(at)
        BY <4>1, SnapshotIsTaken DEF IInv
      <4>3. Told(token) \subseteq Told(Taken(at))
        BY <3>1, <3>3 DEF Told
      <4> QED BY <3>1, <3>3, <4>2, <4>3
    <3> QED BY <3>2, <3>3
  <2> QED BY <2>1, <2>2 DEF ViewIsLedgers
<1> QED BY <1>1, Invariance, PTL

----------------------------------------------------------------------------
(***************************************************************************)
(* The refinement of LedgerView.  The states of the ledger are a sequence, *)
(* and an application that goes on following never goes back.              *)
(***************************************************************************)
History == [o \in 1 .. End |-> Wanted(o)]

LEMMA FunctionLength ==
  ASSUME NEW n \in Nat, NEW S, NEW f \in [1 .. n -> S]
  PROVE  Len(f) = n
<1>1. f \in Seq(S) /\ DOMAIN f = 1 .. n
  OBVIOUS
<1> QED BY <1>1, LenProperties

LEMMA HistoryIsLedgers ==
  ASSUME IInv
  PROVE  Len(History) = End /\ End \in Nat
<1>1. End \in Nat
  BY ReaderTypes
<1>2. PICK S : S = {Wanted(o) : o \in 1 .. End}
  OBVIOUS
<1>3. History \in [1 .. End -> S]
  BY <1>2 DEF History
<1> QED BY <1>1, <1>3, FunctionLength

LEMMA NeverBack ==
  ASSUME IInv, Next, ~Commit
  PROVE  /\ UNCHANGED <<format, ledger>>
         /\ phase = "following" /\ phase' = "following" => offset <= offset'
<1>1. offset \in Nat
  BY ReaderTypes DEF ReaderTyped
<1>2. CASE Prune \/ Break
  BY <1>1, <1>2 DEF Prune, Break
<1>3. CASE GetLedgerEnd \/ StartPaging
  BY <1>3 DEF GetLedgerEnd, StartPaging
<1>4. CASE GetActiveContracts
  BY <1>4 DEF GetActiveContracts
<1>5. CASE ReceiveEntry
  <2>1. phase # "following"
    BY <1>5 DEF ReceiveEntry, IInv, FollowingIsExact
  <2> QED BY <1>5, <2>1 DEF ReceiveEntry
<1>6. CASE EndOfSnapshot
  <2>1. phase # "following"
    BY <1>6 DEF EndOfSnapshot, IInv, FollowingIsExact
  <2> QED BY <1>6, <2>1 DEF EndOfSnapshot
<1>7. CASE GetActiveContractsPage
  BY <1>7 DEF GetActiveContractsPage
<1>8. CASE GetUpdates
  BY <1>1, <1>8 DEF GetUpdates, Restart
<1>9. CASE PassOver
  BY <1>1, <1>9 DEF PassOver
<1>10. CASE ReceiveUpdate
  <2>1. /\ UNCHANGED <<format, ledger>> /\ stream.of \in {"updates", "page"}
        /\ phase' = "following" => offset' = Message(stream.from + 1).offset
    BY <1>10 DEF ReceiveUpdate, Ahead, Stop
  <2>2. stream.from \in 0 .. End /\ offset <= stream.from
    BY <2>1, StreamIsAhead
  <2>3. Message(stream.from + 1).offset = stream.from + 1
    BY DEF Message
  <2> QED BY <1>1, <2>1, <2>2, <2>3
<1>11. CASE ReceiveCheckpoint
  <2>1. /\ UNCHANGED <<format, ledger>> /\ stream.of \in {"updates", "page"}
        /\ phase' = "following" => offset' = stream.from
    BY <1>11 DEF ReceiveCheckpoint, Stop
  <2> QED BY <2>1, StreamIsAhead
<1>12. CASE EndOfUpdates
  <2>1. UNCHANGED <<format, ledger>> /\ stream.of \in {"updates", "page"} /\ offset' = stream.from
    BY <1>12 DEF EndOfUpdates
  <2> QED BY <2>1, StreamIsAhead
<1>13. CASE GetUpdatesPage
  <2>1. UNCHANGED <<format, ledger>>
    BY <1>13 DEF GetUpdatesPage
  <2>2. CASE Restart \/ Stop
    BY <2>1, <2>2 DEF Restart, Stop
  <2>3. CASE ~(Restart \/ Stop)
    <3>1. UNCHANGED offset
      BY <1>13, <2>3 DEF GetUpdatesPage
    <3> QED BY <1>1, <2>1, <3>1
  <2> QED BY <2>2, <2>3
<1> QED BY <1>2, <1>3, <1>4, <1>5, <1>6, <1>7, <1>8, <1>9, <1>10, <1>11, <1>12, <1>13
        DEF Next, Environment, Reading

LEMMA InitRefines == Init => View!Init
<1> SUFFICES ASSUME Init PROVE View!Init
  OBVIOUS
<1>1. End = 0 /\ ~Following
  BY DEF Init, End, Following
<1>2. History \in [1 .. 0 -> {{}}] /\ DOMAIN History = 1 .. 0
  BY <1>1 DEF History
<1>3. History \in Seq({{}}) /\ Len(History) = 0
  BY <1>2, FunctionLength
<1>4. History = <<>>
  BY <1>3, EmptySeq
<1> QED BY <1>1, <1>4 DEF View!Init, History

\* A commit makes the ledger longer, and nothing else.
LEMMA CommitGrows ==
  ASSUME IInv, Commit
  PROVE  View!Next
<1>1. UNCHANGED <<phase, view, offset>>
  BY DEF Commit
<1>2. /\ UNCHANGED (IF Following THEN view ELSE None)
      /\ UNCHANGED (IF Following THEN offset ELSE None)
  BY <1>1 DEF Following
<1>3. /\ End' = End + 1 /\ End \in Nat /\ 1 .. End \subseteq 1 .. End' /\ 1 .. End \subseteq 0 .. End
      /\ \A o \in 0 .. End : Wanted(o)' = Wanted(o)
  BY LedgerGrows DEF IInv
<1>4. Len(History) = End
  BY HistoryIsLedgers
<1>5. PICK S : S = {Wanted(o)' : o \in 1 .. End'}
  OBVIOUS
<1>6. History' \in [1 .. End' -> S]
  BY <1>5 DEF History
<1>7. Len(History') = End + 1
  BY <1>3, <1>6, FunctionLength
<1>8. \A o \in 1 .. End : History'[o] = History[o]
  BY <1>3 DEF History
<1>9. View!Grow
  BY <1>2, <1>4, <1>7, <1>8 DEF View!Grow, History
<1> QED BY <1>9 DEF View!Next

\* Any other step shows the ledger at an offset, not an earlier one, or loses it.
LEMMA ReadingShows ==
  ASSUME IInv, IInv', UNCHANGED <<format, ledger>>,
         phase = "following" /\ phase' = "following" => offset <= offset'
  PROVE  View!Next
<1>1. UNCHANGED History
  BY DEF History, Wanted, StateAt, End
<1>2. CASE phase' # "following"
  <2>1. ~Following'
    BY <1>2 DEF Following
  <2>2. View!Lose
    BY <1>1, <2>1 DEF View!Lose, History
  <2> QED BY <2>2 DEF View!Next
<1>3. CASE phase' = "following"
  <2>1. Following' /\ view' = Wanted(offset)' /\ offset' \in 0 .. End'
    BY <1>3 DEF Following, IInv, TypeOK, FollowingIsExact
  <2>2. offset' \in 0 .. End /\ Len(History) = End /\ End \in Nat
    BY <2>1, HistoryIsLedgers DEF End
  <2>3. view' = IF offset' = 0 THEN {} ELSE History[offset']
    <3>1. CASE offset' = 0
      <4>1. Wanted(offset)' = {}
        BY <3>1 DEF Wanted, StateAt
      <4> QED BY <2>1, <3>1, <4>1
    <3>2. CASE offset' # 0
      <4>1. offset' \in 1 .. End /\ Wanted(offset)' = Wanted(offset')
        BY <1>1, <2>2, <3>2 DEF Wanted, StateAt
      <4>2. offset' # 0 /\ History[offset'] = Wanted(offset')
        BY <3>2, <4>1 DEF History
      <4>3. view' = Wanted(offset')
        BY <2>1, <4>1
      <4> QED BY <4>2, <4>3
    <3> QED BY <3>1, <3>2
  <2>4. (IF Following THEN offset ELSE None) = None \/ (IF Following THEN offset ELSE None) <= offset'
    BY <1>3 DEF Following
  <2>5. View!Show
    BY <1>1, <2>1, <2>2, <2>3, <2>4 DEF View!Show, View!At, History
  <2> QED BY <2>5 DEF View!Next
<1> QED BY <1>2, <1>3

LEMMA NextRefines ==
  ASSUME IInv, [Next]_vars
  PROVE  [View!Next]_View!viewVars
<1>1. IInv'
  BY NextPreserves
<1>2. CASE Commit
  BY <1>2, CommitGrows
<1>3. CASE Next /\ ~Commit
  BY <1>1, <1>3, NeverBack, ReadingShows
<1>4. CASE UNCHANGED vars
  BY <1>4 DEF vars, Following, Wanted, StateAt, End, View!viewVars
<1> QED BY <1>2, <1>3, <1>4

(***************************************************************************)
(* "Catch up then tail" implements LedgerView: what the application shows  *)
(* is the state of the ledger at one offset, which moves forward only; it  *)
(* may lose the ledger, and find it again.                                 *)
(***************************************************************************)
THEOREM ImplementsLedgerView == Spec => ImplementsView
<1>1. IInv /\ [Next]_vars => [View!Next]_View!viewVars
  BY NextRefines
<1> QED BY <1>1, InitRefines, Invariance, PTL DEF Spec, ImplementsView, View!Spec

----------------------------------------------------------------------------
(***************************************************************************)
(* Where entries come from.  Every entry of a state was made by an update  *)
(* of the ledger, and no contract is created twice, or unassigned or       *)
(* assigned twice with one counter; so what the application is told of two *)
(* entries of a snapshot differs.                                          *)
(***************************************************************************)
MadeBy(e, v) ==
  \/ v.event \in {"Created", "Assigned"} /\ e = Active(v)
  \/ v.event = "Unassigned" /\ e = Half("incomplete_unassigned", v)
  \/ v.event = "Assigned" /\ e = Half("incomplete_assigned", v)

StateIsMade == \A o \in 1 .. End : \A e \in ledger[o].state : \E n \in 1 .. End : MadeBy(e, ledger[n].update)

Same(u, v) == u.event = v.event /\ u.contract = v.contract /\ u.counter = v.counter

UpdatesAreUnique ==
  /\ \A m, n \in 1 .. End :
       ledger[m].update.event \in {"Created", "Unassigned", "Assigned"} /\ Same(ledger[m].update, ledger[n].update)
         => m = n
  /\ \A n \in 1 .. End : ledger[n].update.event = "Assigned" => ledger[n].update.counter # 0

LedgerIsUnique == StateIsMade /\ UpdatesAreUnique

LEMMA AfterIsMade ==
  ASSUME NEW S, NEW v, NEW e \in After(S, v), e \notin S
  PROVE  MadeBy(e, v)
<1>1. CASE v.event = "Created"
  BY <1>1 DEF After, MadeBy
<1>2. CASE v.event = "Unassigned"
  <2>1. PICK R : R = {f \in S : ~IsActive(f, v.contract, v.source)}
    OBVIOUS
  <2>2. e \in Reassigned(R, v, "incomplete_unassigned", "incomplete_assigned") /\ e \notin R
    BY <1>2, <2>1 DEF After
  <2>3. e = Half("incomplete_unassigned", v)
    BY <2>2 DEF Reassigned
  <2> QED BY <1>2, <2>3 DEF MadeBy
<1>3. CASE v.event = "Assigned"
  <2>1. PICK R : R = S \union {Active(v)}
    OBVIOUS
  <2>2. e \in Reassigned(R, v, "incomplete_assigned", "incomplete_unassigned")
    BY <1>3, <2>1 DEF After
  <2>3. e = Half("incomplete_assigned", v) \/ e \in R
    BY <2>2 DEF Reassigned
  <2> QED BY <1>3, <2>1, <2>3 DEF MadeBy
<1>4. CASE v.event \notin {"Created", "Unassigned", "Assigned"}
  <2>1. After(S, v) \subseteq S
    BY <1>4 DEF After
  <2> QED BY <2>1
<1> QED BY <1>1, <1>2, <1>3, <1>4

LEMMA CommitKeepsUnique ==
  ASSUME TypeOK, LedgerIsUnique, Commit
  PROVE  LedgerIsUnique'
<1>1. PICK v \in Update :
        /\ v.event # "Authorized" => v.contract \in Contract
        /\ IsNew(v)
        /\ ledger' = Append(ledger, [update |-> v, state |-> After(StateAt(End), v)])
  BY CommitAppends
<1>2. PICK r : r = [update |-> v, state |-> After(StateAt(End), v)]
  OBVIOUS
<1>3. r.update = v /\ r.state = After(StateAt(End), v) /\ ledger' = Append(ledger, r)
  BY <1>1, <1>2
<1>4. ledger \in Seq([update : Update, state : SUBSET Entry]) /\ End \in Nat /\ End \in 0 .. End
  BY DEF TypeOK, End
<1>5. r \in [update : Update, state : SUBSET Entry]
  BY <1>1, <1>2, <1>4, AfterIsTyped, States
<1>6. /\ End' = End + 1 /\ ledger'[End + 1] = r
      /\ \A o \in 1 .. End : ledger'[o] = ledger[o]
  BY <1>3, <1>4, <1>5, AppendProperties DEF End
<1>7. 1 .. End' = 1 .. End \union {End + 1}
  BY <1>4, <1>6
<1>8. \A e \in StateAt(End) : \E n \in 1 .. End : MadeBy(e, ledger[n].update)
  <2>1. CASE End = 0
    BY <2>1 DEF StateAt
  <2>2. CASE End # 0
    BY <1>4, <2>2 DEF StateAt, LedgerIsUnique, StateIsMade
  <2> QED BY <2>1, <2>2
<1>9. StateIsMade'
  <2>1. ASSUME NEW e \in r.state
        PROVE  \E n \in 1 .. End' : MadeBy(e, ledger'[n].update)
    <3>1. CASE e \in StateAt(End)
      BY <1>6, <1>7, <1>8, <3>1
    <3>2. CASE e \notin StateAt(End)
      BY <1>3, <1>6, <1>7, <3>2, AfterIsMade
    <3> QED BY <3>1, <3>2
  <2>2. ASSUME NEW o \in 1 .. End, NEW e \in ledger[o].state
        PROVE  \E n \in 1 .. End' : MadeBy(e, ledger'[n].update)
    <3>1. PICK n \in 1 .. End : MadeBy(e, ledger[n].update)
      BY DEF LedgerIsUnique, StateIsMade
    <3> QED BY <1>6, <1>7, <3>1
  <2>3. \A o \in 1 .. End' : \A e \in ledger'[o].state : \E n \in 1 .. End' : MadeBy(e, ledger'[n].update)
    BY <1>6, <1>7, <2>1, <2>2
  <2> QED BY <2>3 DEF StateIsMade
<1>10. UpdatesAreUnique'
  <2>1. ASSUME NEW n \in 1 .. End, v.event \in {"Created", "Unassigned", "Assigned"}
        PROVE  ~Same(ledger[n].update, v) /\ ~Same(v, ledger[n].update)
    BY <1>1, <2>1 DEF IsNew, Known, Mentioned, Same
  <2>2. ASSUME NEW m \in 1 .. End', NEW n \in 1 .. End',
               ledger'[m].update.event \in {"Created", "Unassigned", "Assigned"},
               Same(ledger'[m].update, ledger'[n].update)
        PROVE  m = n
    <3>1. ledger'[n].update.event \in {"Created", "Unassigned", "Assigned"}
      BY <2>2 DEF Same
    <3>2. CASE m \in 1 .. End /\ n \in 1 .. End
      BY <1>6, <2>2, <3>2 DEF LedgerIsUnique, UpdatesAreUnique
    <3>3. CASE m = End + 1 /\ n \in 1 .. End
      BY <1>3, <1>6, <2>1, <2>2, <3>3
    <3>4. CASE n = End + 1 /\ m \in 1 .. End
      BY <1>3, <1>6, <2>1, <2>2, <3>1, <3>4
    <3> QED BY <1>7, <3>2, <3>3, <3>4
  <2>3. ASSUME NEW n \in 1 .. End', ledger'[n].update.event = "Assigned"
        PROVE  ledger'[n].update.counter # 0
    BY <1>1, <1>3, <1>6, <1>7, <2>3 DEF IsNew, LedgerIsUnique, UpdatesAreUnique
  <2> QED BY <2>2, <2>3 DEF UpdatesAreUnique
<1> QED BY <1>9, <1>10 DEF LedgerIsUnique

LEMMA UniqueInit == Init => LedgerIsUnique
<1> SUFFICES ASSUME Init PROVE LedgerIsUnique
  OBVIOUS
<1>1. End = 0
  BY DEF Init, End
<1> QED BY <1>1 DEF LedgerIsUnique, StateIsMade, UpdatesAreUnique

LEMMA UniqueNext == IInv /\ LedgerIsUnique /\ [Next]_vars => LedgerIsUnique'
<1> SUFFICES ASSUME IInv, LedgerIsUnique, [Next]_vars PROVE LedgerIsUnique'
  OBVIOUS
<1>1. CASE Commit
  BY <1>1, CommitKeepsUnique DEF IInv
<1>2. CASE ~Commit
  <2>1. UNCHANGED ledger
    BY <1>2, NeverBack DEF vars
  <2> QED BY <2>1 DEF LedgerIsUnique, StateIsMade, UpdatesAreUnique, End
<1> QED BY <1>1, <1>2

LEMMA Uniqueness == Spec => []LedgerIsUnique
BY InitEstablishes, NextPreserves, UniqueInit, UniqueNext, PTL DEF Spec

\* Two entries of one state that the application would call the same are the same.
LEMMA EntriesDiffer ==
  ASSUME IInv, LedgerIsUnique, NEW o \in 0 .. End, NEW e \in StateAt(o), NEW f \in StateAt(o),
         ToContractEntry(e) = ToContractEntry(f)
  PROVE  e = f
<1>1. e \in Entry /\ f \in Entry
  BY States DEF IInv
<1>2. o \in 1 .. End /\ e \in ledger[o].state /\ f \in ledger[o].state
  BY ReaderTypes DEF StateAt
<1>3. PICK m \in 1 .. End : MadeBy(e, ledger[m].update)
  BY <1>2 DEF LedgerIsUnique, StateIsMade
<1>4. PICK n \in 1 .. End : MadeBy(f, ledger[n].update)
  BY <1>2 DEF LedgerIsUnique, StateIsMade
<1>5. PICK u : u = ledger[m].update
  OBVIOUS
<1>6. PICK v : v = ledger[n].update
  OBVIOUS
<1>7. MadeBy(e, u) /\ MadeBy(f, v)
  BY <1>3, <1>4, <1>5, <1>6
<1>8. e.contract = f.contract /\ e.counter = f.counter /\ e.entry = f.entry
  <2>1. \A x \in Entry :
          /\ ToContractEntry(x).contract_id = x.contract /\ ToContractEntry(x).reassignment_counter = x.counter
          /\ x.entry \in {"active_contract", "incomplete_unassigned", "incomplete_assigned"}
          /\ ToContractEntry(x).entry = "Active" <=> x.entry = "active_contract"
          /\ ToContractEntry(x).entry = "IncompleteUnassigned" <=> x.entry = "incomplete_unassigned"
    BY DEF ToContractEntry, Entry
  <2> QED BY <1>1, <2>1
<1>9. /\ Active(u).entry = "active_contract" /\ Active(v).entry = "active_contract"
      /\ Active(u).contract = u.contract /\ Active(v).contract = v.contract
      /\ Active(u).counter = u.counter /\ Active(v).counter = v.counter
  BY DEF Active, EntryOf
<1>10. \A kind : /\ Half(kind, u).entry = kind /\ Half(kind, v).entry = kind
                 /\ Half(kind, u).contract = u.contract /\ Half(kind, v).contract = v.contract
                 /\ Half(kind, u).counter = u.counter /\ Half(kind, v).counter = v.counter
  BY DEF Half, EntryOf
<1>11. e.contract = u.contract /\ e.counter = u.counter /\ f.contract = v.contract /\ f.counter = v.counter
  BY <1>7, <1>9, <1>10 DEF MadeBy
<1>12. u.event \in {"Created", "Unassigned", "Assigned"} /\ v.event \in {"Created", "Unassigned", "Assigned"}
  BY <1>7 DEF MadeBy
<1>13. /\ e.entry = "active_contract" => u.event \in {"Created", "Assigned"} /\ e = Active(u)
       /\ e.entry = "incomplete_unassigned" => u.event = "Unassigned" /\ e = Half("incomplete_unassigned", u)
       /\ e.entry = "incomplete_assigned" => u.event = "Assigned" /\ e = Half("incomplete_assigned", u)
       /\ f.entry = "active_contract" => v.event \in {"Created", "Assigned"} /\ f = Active(v)
       /\ f.entry = "incomplete_unassigned" => v.event = "Unassigned" /\ f = Half("incomplete_unassigned", v)
       /\ f.entry = "incomplete_assigned" => v.event = "Assigned" /\ f = Half("incomplete_assigned", v)
       /\ e.entry \in {"active_contract", "incomplete_unassigned", "incomplete_assigned"}
  BY <1>7, <1>9, <1>10 DEF MadeBy
<1>14. /\ u.event = "Created" => u.counter = 0
       /\ v.event = "Created" => v.counter = 0
       /\ u.event = "Assigned" => u.counter # 0
       /\ v.event = "Assigned" => v.counter # 0
  BY <1>5, <1>6 DEF IInv, LedgerIsBuilt, LedgerIsUnique, UpdatesAreUnique
<1>15. u.event = v.event
  <2>1. CASE e.entry = "active_contract"
    <3>1. u.counter = v.counter /\ u.event \in {"Created", "Assigned"} /\ v.event \in {"Created", "Assigned"}
      BY <1>8, <1>11, <1>13, <2>1
    <3> QED BY <1>14, <3>1
  <2>2. CASE e.entry = "incomplete_unassigned"
    BY <1>8, <1>13, <2>2
  <2>3. CASE e.entry = "incomplete_assigned"
    BY <1>8, <1>13, <2>3
  <2> QED BY <1>13, <2>1, <2>2, <2>3
<1>16. m = n
  BY <1>5, <1>6, <1>8, <1>11, <1>12, <1>15 DEF LedgerIsUnique, UpdatesAreUnique, Same
<1> QED BY <1>5, <1>6, <1>8, <1>13, <1>16

\* What the token of a snapshot does not cover is shown to be new.
LEMMA RestIsNew ==
  ASSUME IInv, LedgerIsUnique, at \in 0 .. End, token \subseteq Taken(at), view = Told(token),
         NEW e \in Snapshot(ToEventFormat(format.events), at) \ token
  PROVE  ToContractEntry(e) \notin view
<1> SUFFICES ASSUME ToContractEntry(e) \in view PROVE FALSE
  OBVIOUS
<1>1. e \in Taken(at) /\ e \notin token
  BY SnapshotIsTaken DEF IInv
<1>2. PICK f \in token : ToContractEntry(f) = ToContractEntry(e)
  BY DEF Told
<1>3. e \in StateAt(at) /\ f \in StateAt(at)
  BY <1>1, <1>2 DEF Taken
<1>4. e = f
  BY <1>2, <1>3, EntriesDiffer
<1> QED BY <1>1, <1>2, <1>4

(***************************************************************************)
(* What the application has got of a snapshot is not sent again: whatever  *)
(* breaks and is resumed, and on whatever page it is, the next answer      *)
(* tells it only of entries it does not have yet.                          *)
(***************************************************************************)
THEOREM EntriesSentOnce == Spec => []EntriesOnce
<1>1. IInv /\ LedgerIsUnique => EntriesOnce
  <2> SUFFICES ASSUME IInv, LedgerIsUnique PROVE EntriesOnce
    OBVIOUS
  <2>1. at # None => at \in 0 .. End
    BY ReaderTypes DEF ReaderTyped
  <2>2. ASSUME stream.of = "snapshot", NEW e \in Unsent
        PROVE  ToContractEntry(e) \notin view
    <3>1. phase = "streaming"
      BY <2>2, ReaderTypes, ClosedStream DEF IInv, SnapshotIsPartial, FollowingIsExact, ReaderTyped, Phase
    <3>2. /\ at \in 0 .. End /\ stream.from = at /\ stream.sent = token
          /\ token \subseteq Taken(at) /\ view = Told(token)
      BY <2>1, <2>2, <3>1 DEF IInv, SnapshotIsPartial
    <3>3. e \in Snapshot(ToEventFormat(format.events), at) \ token
      BY <2>2, <3>2 DEF Unsent
    <3> QED BY <3>2, <3>3, RestIsNew
  <2>3. ASSUME phase = "paging", at # None, NEW e \in NextPage
        PROVE  ToContractEntry(e) \notin view
    <3>1. at \in 0 .. End /\ token \subseteq Taken(at) /\ view = Told(token)
      BY <2>1, <2>3 DEF IInv, SnapshotIsPartial
    <3>2. e \in Snapshot(ToEventFormat(format.events), at) \ token
      BY <2>3 DEF NextPage, ActiveContractsPageRequest
    <3> QED BY <3>1, <3>2, RestIsNew
  <2> QED BY <2>2, <2>3 DEF EntriesOnce
<1> QED BY <1>1, Invariance, Uniqueness, PTL

----------------------------------------------------------------------------
(***************************************************************************)
(* What a conversion insists on, kind by kind: only what the protocol      *)
(* requires, but for the status of a completion.                           *)
(***************************************************************************)
Asks(j) ==
  /\ Conversions[j].req \subseteq Protocol[j].required \union (IF j = "Completion" THEN {"status"} ELSE {})
  /\ Conversions[j].times \subseteq Protocol[j].times
  /\ Conversions[j].codes \subseteq Protocol[j].codes
  /\ Conversions[j].values \subseteq Protocol[j].values
  /\ Conversions[j].into \subseteq Kinds

LEMMA AsksOneOf ==
  \A j \in {"GetUpdatesResponse", "GetUpdateResponse", "GetActiveContractsResponse", "CompletionStreamResponse",
            "Event", "ReassignmentEvent", "TopologyEvent"} : Asks(j)
<1>1. \A j \in {"GetUpdatesResponse", "GetUpdateResponse", "GetActiveContractsResponse", "CompletionStreamResponse",
                "Event", "ReassignmentEvent", "TopologyEvent"} :
        Protocol[j] = OneOf /\ \E kinds \in SUBSET Kinds : Conversions[j] = AnyOf(kinds)
  BY DEF Protocol, Kinds, Conversions, ConvertUpdatesResponse, ConvertUpdateResponse, ConvertActiveContractsResponse,
         ConvertCompletionResponse, ConvertEvent, ConvertReassignmentEvent, ConvertTopologyEvent
<1>2. OneOf.required = {"oneof"}
  BY DEF OneOf, Fields
<1>3. \A kinds : /\ AnyOf(kinds).req = {"oneof"} /\ AnyOf(kinds).times = {} /\ AnyOf(kinds).codes = {}
                 /\ AnyOf(kinds).values = {} /\ AnyOf(kinds).into = kinds
  BY DEF AnyOf, Row
<1> QED BY <1>1, <1>2, <1>3 DEF Asks

LEMMA AsksRequired ==
  \A j \in Kinds : Asks(j)
<1>1. Asks("Transaction") /\ Asks("Reassignment") /\ Asks("TopologyTransaction")
  BY SMTT(30) DEF Asks, Protocol, Kinds, Conversions, Fields, Row, ConvertReassignment, ConvertTopology, ConvertTransaction
<1>2. Asks("CreatedEvent") /\ Asks("InterfaceView")
  <2>1. /\ Protocol["CreatedEvent"] = Fields({"template_id", "create_arguments", "created_at"}, {"contract_key"},
                                             {"created_at"}, {}, {"contract_key", "create_arguments"})
        /\ Protocol["InterfaceView"] = Fields({"interface_id", "view_status"}, {"view_value"}, {}, {}, {"view_value"})
    BY DEF Protocol
  <2>2. /\ Conversions["CreatedEvent"] = ConvertCreated
        /\ Conversions["InterfaceView"] = ConvertInterfaceView
    BY DEF Conversions
  <2>3. "InterfaceView" \in Kinds
    BY DEF Kinds, Protocol
  <2>4. Asks("CreatedEvent")
    BY <2>1, <2>2, <2>3 DEF Asks, Fields, Row, ConvertCreated
  <2>5. Asks("InterfaceView")
    BY <2>1, <2>2 DEF Asks, Fields, Row, ConvertInterfaceView
  <2> QED BY <2>4, <2>5
<1>3. Asks("ArchivedEvent") /\ Asks("ExercisedEvent")
  BY DEF Asks, Protocol, Kinds, Conversions, Fields, Row, ConvertArchived, ConvertExercised
<1>4. Asks("UnassignedEvent") /\ Asks("AssignedEvent")
  BY SMTT(30) DEF Asks, Protocol, Kinds, Conversions, Fields, Row, ConvertAssigned, ConvertUnassigned
<1>5. /\ Asks("ParticipantAuthorizationAdded") /\ Asks("ParticipantAuthorizationChanged")
      /\ Asks("ParticipantAuthorizationOnboarding") /\ Asks("ParticipantAuthorizationRevoked")
  BY DEF Asks, Protocol, Kinds, Conversions, Fields, Row, Authorization, ConvertOnboarding, ConvertRevoked,
         ConvertAuthorization
<1>6. Asks("ActiveContract") /\ Asks("IncompleteUnassigned") /\ Asks("IncompleteAssigned")
  BY SMTT(30) DEF Asks, Protocol, Kinds, Conversions, Fields, Row, ConvertActiveContract, ConvertIncompleteAssigned,
         ConvertIncompleteUnassigned
<1>7. Asks("OffsetCheckpoint") /\ Asks("SynchronizerTime") /\ Asks("DeduplicationPeriod")
  BY DEF Asks, Protocol, Kinds, Conversions, Fields, Row, ConvertCheckpoint, ConvertDeduplicationPeriod,
         ConvertSynchronizerTime
<1>8. Asks("Completion")
  BY DEF Asks, Protocol, Kinds, Conversions, Fields, Row, ConvertCompletion
<1> QED BY AsksOneOf, <1>1, <1>2, <1>3, <1>4, <1>5, <1>6, <1>7, <1>8 DEF Kinds, Protocol

(***************************************************************************)
(* The messages inside a message: the nesting is a function by recursion   *)
(* on its depth, which is one that MaxNesting steps build.                 *)
(***************************************************************************)
Within(next) == [k \in Kinds |-> {k} \union UNION {next[j] : j \in Conversions[k].into}]

LEMMA ReachedKinds ==
  \A k \in Kinds : Reached[k] \subseteq Kinds
<1> DEFINE Step(f) == [n \in 0 .. MaxNesting |-> IF n = 0 THEN [k \in Kinds |-> {k}] ELSE Within(f[n - 1])]
           level == CHOOSE f : f = Step(f)
<1>1. PICK a0 : a0 = [k \in Kinds |-> {k}]
  OBVIOUS
<1>2. PICK a1, a2, a3, a4, a5, a6 : a1 = Within(a0) /\ a2 = Within(a1) /\ a3 = Within(a2)
                                    /\ a4 = Within(a3) /\ a5 = Within(a4) /\ a6 = Within(a5)
  OBVIOUS
<1>3. PICK g : g = [n \in 0 .. MaxNesting |->
                      IF n = 0 THEN a0 ELSE IF n = 1 THEN a1 ELSE IF n = 2 THEN a2 ELSE IF n = 3 THEN a3
                      ELSE IF n = 4 THEN a4 ELSE IF n = 5 THEN a5 ELSE a6]
  OBVIOUS
<1>4. g[0] = a0 /\ g[1] = a1 /\ g[2] = a2 /\ g[3] = a3 /\ g[4] = a4 /\ g[5] = a5 /\ g[6] = a6
  BY <1>3 DEF MaxNesting
<1>5. g = Step(g)
  <2>1. DOMAIN g = 0 .. MaxNesting /\ g = [n \in 0 .. MaxNesting |-> g[n]]
    BY <1>3
  <2>2. \A n \in 0 .. MaxNesting : g[n] = Step(g)[n]
    <3>1. SUFFICES ASSUME NEW n \in 0 .. MaxNesting
                   PROVE  g[n] = IF n = 0 THEN [k \in Kinds |-> {k}] ELSE Within(g[n - 1])
      OBVIOUS
    <3>2. n \in {0, 1, 2, 3, 4, 5, 6}
      BY DEF MaxNesting
    <3> QED BY <1>1, <1>2, <1>4, <3>2
  <2> QED BY <2>1, <2>2
<1>6. level = Step(level)
  BY <1>5
<1>7. Reached = level[MaxNesting]
  BY DEF Reached, Within
<1> HIDE DEF level
<1>8. /\ level[0] = [k \in Kinds |-> {k}] /\ level[1] = Within(level[0]) /\ level[2] = Within(level[1])
      /\ level[3] = Within(level[2]) /\ level[4] = Within(level[3]) /\ level[5] = Within(level[4])
      /\ level[6] = Within(level[5])
  BY <1>6 DEF MaxNesting
<1>9. ASSUME NEW f, \A k \in Kinds : f[k] \subseteq Kinds
      PROVE  \A k \in Kinds : Within(f)[k] \subseteq Kinds
  <2>1. \A k \in Kinds : Conversions[k].into \subseteq Kinds
    BY AsksRequired DEF Asks
  <2> QED BY <1>9, <2>1 DEF Within
<1>10. \A k \in Kinds : level[0][k] \subseteq Kinds
  BY <1>8
<1> QED BY <1>7, <1>8, <1>9, <1>10 DEF MaxNesting

\* What a conversion does not pass is something the protocol forbids.
LEMMA RefusedIsForbidden ==
  ASSUME NEW k \in Kinds, NEW flaw \in AllFlaws \union {NoFlaw}, ~Converts(k, flaw)
  PROVE  flaw # NoFlaw /\ (flaw[1] # "Completion" => flaw \in Forbidden(flaw[1]))
<1>1. PICK j \in Reached[k] : flaw \in RefusedBy(j)
  BY DEF Converts, Refused
<1>2. j \in Kinds /\ Asks(j)
  BY <1>1, ReachedKinds, AsksRequired
<1>3. PICK row : row = Conversions[j]
  OBVIOUS
<1>4. /\ row.req \subseteq Protocol[j].required \union (IF j = "Completion" THEN {"status"} ELSE {})
      /\ row.times \subseteq Protocol[j].times /\ row.codes \subseteq Protocol[j].codes
      /\ row.values \subseteq Protocol[j].values
  BY <1>2, <1>3 DEF Asks
<1>5. \/ \E f \in row.req : flaw = <<j, f, "unset">>
      \/ \E f \in row.times : flaw = <<j, f, "range">>
      \/ \E f \in row.codes : flaw = <<j, f, "code">>
      \/ \E f \in row.values : flaw = <<j, f, "value">>
  BY <1>1, <1>3 DEF RefusedBy
<1>6. flaw[1] = j
  BY <1>5
<1>7. flaw \in Forbidden(j) \/ (j = "Completion" /\ flaw = <<j, "status", "unset">>)
  BY <1>4, <1>5 DEF Forbidden
<1>8. "Completion" \in Kinds /\ "status" \in Protocol["Completion"].optional
  BY DEF Kinds, Protocol, Fields
<1>9. flaw \in AllFlaws
  BY <1>2, <1>7, <1>8 DEF AllFlaws, Flaws
<1> QED BY <1>6, <1>7, <1>9, FlawsAssumption

LEMMA ResponseKinds ==
  /\ "GetActiveContractsResponse" \in Kinds /\ "GetUpdatesResponse" \in Kinds /\ "GetUpdateResponse" \in Kinds
  /\ "SynchronizerTime" \in Kinds /\ Flaws("SynchronizerTime") = Forbidden("SynchronizerTime")
<1>1. Protocol["SynchronizerTime"] = Fields({"record_time"}, {}, {"record_time"}, {}, {})
  BY DEF Protocol
<1>2. Flaws("SynchronizerTime") = Forbidden("SynchronizerTime")
  BY <1>1 DEF Flaws, Fields
<1>3. /\ "GetActiveContractsResponse" \in Kinds /\ "GetUpdatesResponse" \in Kinds /\ "GetUpdateResponse" \in Kinds
      /\ "SynchronizerTime" \in Kinds
  BY DEF Kinds, Protocol
<1> QED BY <1>2, <1>3

----------------------------------------------------------------------------
(***************************************************************************)
(* What stops the application: the flaw of an update, or of a checkpoint.  *)
(***************************************************************************)
Broken(u) == u.flaw # NoFlaw /\ u.flaw \in Forbidden(u.flaw[1])

Cause ==
  \/ \E o \in 1 .. End : Asked(ledger[o].update) /\ Broken(ledger[o].update)
  \/ FlawsSent[format.shape] \intersect Forbidden("SynchronizerTime") # {}

LEMMA UpdateIsBroken ==
  ASSUME NEW u \in Update, NEW kinds, "Completion" \notin kinds, NEW k \in Kinds, ~Converts(k, FlawIn(u, kinds))
  PROVE  Broken(u)
<1>1. u.flaw \in AllFlaws \union {NoFlaw}
  BY DEF Update
<1>2. FlawIn(u, kinds) \in AllFlaws \union {NoFlaw}
  BY <1>1 DEF FlawIn
<1>3. FlawIn(u, kinds) # NoFlaw
  BY <1>2, RefusedIsForbidden
<1>4. FlawIn(u, kinds) = u.flaw /\ u.flaw # NoFlaw /\ u.flaw[1] \in kinds
  BY <1>3 DEF FlawIn
<1>5. u.flaw[1] # "Completion"
  BY <1>4
<1>6. u.flaw \in Forbidden(u.flaw[1])
  BY <1>1, <1>4, <1>5, RefusedIsForbidden
<1> QED BY <1>4, <1>6 DEF Broken

LEMMA EntryIsBroken ==
  ASSUME IInv, LedgerIsUnique, NEW o \in 0 .. End, NEW e \in Taken(o), ~Converts("GetActiveContractsResponse", e.flaw)
  PROVE  Cause
<1>1. o \in 1 .. End /\ e \in ledger[o].state
  BY ReaderTypes DEF Taken, StateAt
<1>2. PICK n \in 1 .. End : MadeBy(e, ledger[n].update)
  BY <1>1 DEF LedgerIsUnique, StateIsMade
<1>3. PICK u : u = ledger[n].update
  OBVIOUS
<1>4. u \in Update
  <2>1. n \in 0 .. End /\ n # 0
    BY ReaderTypes
  <2>2. ledger[n] \in [update : Update, state : SUBSET Entry]
    BY <2>1, States DEF IInv
  <2> QED BY <1>3, <2>2
<1>5. \E kinds : "Completion" \notin kinds /\ e.flaw = FlawIn(u, kinds)
  <2>1. Active(u).flaw = FlawIn(u, {"CreatedEvent", "InterfaceView"})
    BY DEF Active, EntryOf
  <2>2. \A kind : Half(kind, u).flaw = FlawIn(u, {"CreatedEvent", "InterfaceView", "UnassignedEvent", "AssignedEvent"})
    BY DEF Half, EntryOf
  <2>3. e = Active(u) \/ \E kind : e = Half(kind, u)
    BY <1>2, <1>3 DEF MadeBy
  <2> QED BY <2>1, <2>2, <2>3
<1>6. Broken(u)
  BY <1>4, <1>5, UpdateIsBroken, ResponseKinds
<1>7. Asked(u)
  <2>1. e.contract = u.contract
    BY <1>2, <1>3 DEF MadeBy, Active, Half, EntryOf
  <2>2. Wants(format.events, u.contract)
    BY <2>1 DEF Taken
  <2>3. u.event # "Authorized"
    BY <1>2, <1>3 DEF MadeBy
  <2> QED BY <2>2, <2>3 DEF Asked
<1> QED BY <1>3, <1>6, <1>7 DEF Cause

LEMMA MessageIsBroken ==
  ASSUME IInv, NEW o \in 1 .. End, Delivered(o), NEW k \in Kinds, ~Converts(k, Message(o).flaw)
  PROVE  Cause
<1>1. PICK u : u = ledger[o].update
  OBVIOUS
<1>2. u \in Update
  <2>1. o \in 0 .. End /\ o # 0
    BY ReaderTypes
  <2>2. ledger[o] \in [update : Update, state : SUBSET Entry]
    BY <2>1, States DEF IInv
  <2> QED BY <1>1, <2>2
<1>3. Message(o).flaw = FlawIn(u, Inside(u, format.shape))
  BY <1>1 DEF Message
<1>4. "Completion" \notin Inside(u, format.shape)
  BY DEF Inside
<1>5. Broken(u)
  BY <1>2, <1>3, <1>4, UpdateIsBroken
<1>6. Asked(u)
  BY <1>1, <1>2, DeliveredIsAsked DEF IInv, Update
<1> QED BY <1>1, <1>5, <1>6 DEF Cause

(***************************************************************************)
(* The end of the pages that are read is in the ledger.                    *)
(***************************************************************************)
SessionIsInLedger == session # None /\ session.end # None => session.end <= End

LEMMA SessionNext == IInv /\ SessionIsInLedger /\ [Next]_vars => SessionIsInLedger'
<1> SUFFICES ASSUME IInv, SessionIsInLedger, [Next]_vars PROVE SessionIsInLedger'
  OBVIOUS
<1>1. End \in Nat /\ session \in Session \union {None}
  BY ReaderTypes DEF ReaderTyped
<1>2. session # None /\ session.end # None => session.end \in Nat
  BY <1>1 DEF Session
<1>3. CASE Commit
  <2>1. End' = End + 1 /\ UNCHANGED session
    BY <1>3, LedgerGrows DEF IInv, Commit
  <2> QED BY <1>1, <1>2, <2>1 DEF SessionIsInLedger
<1>4. CASE Next /\ ~Commit
  <2>1. End' = End
    BY <1>4, NeverBack DEF End
  <2>2. CASE session' \in {session, None}
    BY <2>1, <2>2 DEF SessionIsInLedger
  <2>3. CASE session' \notin {session, None}
    <3>1. ~Environment
      BY <1>4, <2>3 DEF Environment, Prune, Break
    <3>2. ~GetLedgerEnd /\ ~StartPaging
      BY <2>3 DEF GetLedgerEnd, StartPaging
    <3>3. ~GetActiveContracts /\ ~ReceiveEntry /\ ~EndOfSnapshot
      BY <2>3 DEF GetActiveContracts, ReceiveEntry, EndOfSnapshot, Restart, Stop, StartFollowing
    <3>4. ~GetActiveContractsPage
      BY <2>3 DEF GetActiveContractsPage, Restart, Stop, StartFollowing
    <3>5. ~GetUpdates /\ ~PassOver /\ ~EndOfUpdates
      BY <2>3 DEF GetUpdates, PassOver, EndOfUpdates, Restart
    <3>6. ~ReceiveUpdate /\ ~ReceiveCheckpoint
      BY <2>3 DEF ReceiveUpdate, ReceiveCheckpoint, Stop
    <3>7. GetUpdatesPage
      BY <1>4, <3>1, <3>2, <3>3, <3>4, <3>5, <3>6 DEF Next, Reading
    <3>8. PICK s \in Sessions : \E high : session' = [s EXCEPT !.token = high]
      BY <2>3, <3>7 DEF GetUpdatesPage, Restart, Stop
    <3>9. s \in Session /\ (s.end # None => s.end <= End)
      <4>1. offset \in 0 .. MaxUpdates /\ End \in 0 .. MaxUpdates
        BY ReaderTypes DEF ReaderTyped
      <4>2. CASE session = None
        BY <1>1, <4>1, <4>2 DEF Sessions, NewSession, Session
      <4>3. CASE session # None
        BY <1>1, <4>3 DEF Sessions, SessionIsInLedger
      <4> QED BY <4>2, <4>3
    <3>10. session'.end = s.end
      BY <3>8, <3>9 DEF Session
    <3> QED BY <2>1, <3>9, <3>10 DEF SessionIsInLedger
  <2> QED BY <2>2, <2>3
<1>5. CASE UNCHANGED vars
  BY <1>5 DEF vars, SessionIsInLedger, End
<1> QED BY <1>3, <1>4, <1>5

LEMMA CauseStays ==
  ASSUME IInv, Cause, [Next]_vars
  PROVE  Cause'
<1>1. CASE Commit
  <2>1. UNCHANGED format
    BY <1>1, CommitAppends DEF IInv
  <2>2. PICK v \in Update :
          /\ v.event # "Authorized" => v.contract \in Contract
          /\ ledger' = Append(ledger, [update |-> v, state |-> After(StateAt(End), v)])
    BY <1>1, CommitAppends DEF IInv
  <2>3. ledger \in Seq([update : Update, state : SUBSET Entry]) /\ End \in Nat /\ End \in 0 .. End
    BY DEF IInv, TypeOK, End
  <2>4. PICK r : r = [update |-> v, state |-> After(StateAt(End), v)]
    OBVIOUS
  <2>5. r \in [update : Update, state : SUBSET Entry] /\ ledger' = Append(ledger, r)
    BY <2>2, <2>3, <2>4, AfterIsTyped, States DEF IInv
  <2>6. End' = End + 1 /\ \A o \in 1 .. End : ledger'[o] = ledger[o]
    BY <2>3, <2>5, AppendProperties DEF End
  <2>7. 1 .. End \subseteq 1 .. End'
    BY <2>3, <2>6
  <2> QED BY <2>1, <2>6, <2>7 DEF Cause, Asked
<1>2. CASE ~Commit
  <2>1. UNCHANGED <<format, ledger>>
    BY <1>2, NeverBack DEF vars
  <2> QED BY <2>1 DEF Cause, Asked, End
<1> QED BY <1>1, <1>2

\* Only an answer that does not convert stops the application.
LEMMA StopHasCause ==
  ASSUME IInv, LedgerIsUnique, SessionIsInLedger, Next, phase # "stopped", phase' = "stopped"
  PROVE  Cause
<1>1. ~Environment /\ ~GetLedgerEnd /\ ~StartPaging
  BY DEF Environment, Commit, Prune, Break, GetLedgerEnd, StartPaging
<1>2. ~GetActiveContracts /\ ~EndOfSnapshot
  BY DEF GetActiveContracts, EndOfSnapshot, Restart, StartFollowing
<1>3. ~GetUpdates /\ ~PassOver /\ ~EndOfUpdates
  BY DEF GetUpdates, PassOver, EndOfUpdates, Restart
<1>4. CASE ReceiveEntry
  <2>1. stream.of = "snapshot" /\ \E e \in Unsent : ~Converts("GetActiveContractsResponse", e.flaw)
    BY <1>4 DEF ReceiveEntry
  <2>2. at \in 0 .. End /\ stream.from = at
    BY <2>1, ReaderTypes, ClosedStream DEF IInv, SnapshotIsPartial, FollowingIsExact, ReaderTyped, Phase
  <2>3. PICK e \in Unsent : ~Converts("GetActiveContractsResponse", e.flaw)
    BY <2>1
  <2>4. e \in Taken(at)
    BY <2>2, <2>3, SnapshotIsTaken DEF Unsent, IInv
  <2> QED BY <2>2, <2>3, <2>4, EntryIsBroken
<1>5. CASE GetActiveContractsPage
  <2>1. PICK request : request = ActiveContractsPageRequest(at, token)
    OBVIOUS
  <2>2. PICK o : o = IF request.active_at_offset = None THEN End ELSE request.active_at_offset
    OBVIOUS
  <2>3. PICK rest : rest = Snapshot(request.event_format, o) \ request.page_token
    OBVIOUS
  <2>4. ~Restart /\ ~StartFollowing(o)
    BY DEF Restart, StartFollowing
  <2>5. PICK page \in SUBSET rest : ~PageConverts("GetActiveContractsResponse", {e.flaw : e \in page})
    BY <1>5, <2>1, <2>2, <2>3, <2>4 DEF GetActiveContractsPage
  <2>6. PICK e \in page : ~Converts("GetActiveContractsResponse", e.flaw)
    BY <2>5 DEF PageConverts
  <2>7. request.active_at_offset = at /\ request.event_format = ToEventFormat(format.events)
    BY <2>1 DEF ActiveContractsPageRequest
  <2>8. o \in 0 .. End
    BY <2>2, <2>7, ReaderTypes DEF ReaderTyped
  <2>9. e \in Taken(o)
    BY <2>3, <2>6, <2>7, <2>8, SnapshotIsTaken DEF IInv
  <2> QED BY <2>6, <2>8, <2>9, EntryIsBroken
<1>6. CASE ReceiveUpdate
  <2>1. /\ stream.of \in {"updates", "page"} /\ stream.from < End /\ Delivered(stream.from + 1)
        /\ ~Converts("GetUpdatesResponse", Message(stream.from + 1).flaw)
    BY <1>6 DEF ReceiveUpdate, Ahead
  <2>2. stream.from + 1 \in 1 .. End
    BY <2>1, StreamIsAhead, ReaderTypes
  <2> QED BY <2>1, <2>2, MessageIsBroken, ResponseKinds
<1>7. CASE ReceiveCheckpoint
  <2>1. PICK flaw \in (FlawsSent[format.shape] \intersect Flaws("SynchronizerTime")) \union {NoFlaw} :
          ~Converts("GetUpdatesResponse", flaw)
    BY <1>7 DEF ReceiveCheckpoint
  <2>2. Flaws("SynchronizerTime") \subseteq AllFlaws
    BY ResponseKinds DEF AllFlaws
  <2>3. flaw # NoFlaw
    BY <2>1, <2>2, RefusedIsForbidden, ResponseKinds
  <2> QED BY <2>1, <2>3, ResponseKinds DEF Cause
<1>8. CASE GetUpdatesPage
  <2>1. PICK s \in Sessions : \E low : \E limit :
          /\ low = PageBegin(UpdatesPageRequest(s)) /\ low = offset
          /\ limit = (IF UpdatesPageRequest(s).end_offset_inclusive = None THEN End
                      ELSE UpdatesPageRequest(s).end_offset_inclusive)
          /\ \E high \in PageEnds(low, limit, UpdatesPageRequest(s).max_page_size) :
               ~PageConverts("GetUpdateResponse", {Message(o).flaw : o \in DeliveredIn(low, high)})
    BY <1>8 DEF GetUpdatesPage, Restart
  <2>2. PICK high \in PageEnds(offset, IF UpdatesPageRequest(s).end_offset_inclusive = None THEN End
                                       ELSE UpdatesPageRequest(s).end_offset_inclusive,
                               UpdatesPageRequest(s).max_page_size) :
          \E o \in DeliveredIn(offset, high) : ~Converts("GetUpdateResponse", Message(o).flaw)
    BY <2>1 DEF PageConverts
  <2>3. PICK o \in DeliveredIn(offset, high) : ~Converts("GetUpdateResponse", Message(o).flaw)
    BY <2>2
  <2>4. offset \in 0 .. End /\ End \in Nat /\ session \in Session \union {None}
    BY ReaderTypes DEF ReaderTyped
  <2>5. s.end = None \/ (s.end \in Nat /\ s.end <= End)
    BY <2>4, NoneAssumption DEF Sessions, NewSession, Session, SessionIsInLedger
  <2>6. UpdatesPageRequest(s).end_offset_inclusive = s.end
    BY DEF UpdatesPageRequest
  <2>7. high \in Int /\ high <= End
    BY <2>4, <2>5, <2>6 DEF PageEnds
  <2>8. o \in 1 .. End /\ Delivered(o)
    BY <2>3, <2>4, <2>7 DEF DeliveredIn
  <2> QED BY <2>3, <2>8, MessageIsBroken, ResponseKinds
<1> QED BY <1>1, <1>2, <1>3, <1>4, <1>5, <1>6, <1>7, <1>8 DEF Next, Reading

LEMMA StopInit == Init => SessionIsInLedger /\ StopsForForbidden
BY DEF Init, SessionIsInLedger, StopsForForbidden

LEMMA StopNext ==
  IInv /\ LedgerIsUnique /\ SessionIsInLedger /\ StopsForForbidden /\ [Next]_vars => StopsForForbidden'
<1> SUFFICES ASSUME IInv, LedgerIsUnique, SessionIsInLedger, StopsForForbidden, [Next]_vars, phase' = "stopped"
             PROVE  Cause'
  BY DEF StopsForForbidden, Cause, Broken
<1>1. CASE phase = "stopped"
  <2>1. Cause
    BY <1>1 DEF StopsForForbidden, Cause, Broken
  <2> QED BY <2>1, CauseStays
<1>2. CASE phase # "stopped"
  <2>1. Next
    BY <1>2 DEF vars
  <2> QED BY <1>2, <2>1, StopHasCause, CauseStays
<1> QED BY <1>1, <1>2

(***************************************************************************)
(* The application stops only for a message that breaks the protocol: none *)
(* of the conversions on the way insists on what the protocol leaves open, *)
(* and none refuses a message without a flaw.                              *)
(***************************************************************************)
THEOREM StopsOnlyForForbidden == Spec => []StopsForForbidden
BY InitEstablishes, NextPreserves, UniqueInit, UniqueNext, SessionNext, StopInit, StopNext, PTL DEF Spec
=============================================================================
