---------------------------- MODULE EventFormats ----------------------------
(***************************************************************************)
(* Which contracts and updates a client asks for (daml-grpc/src/data/      *)
(* filter.rs), as it says so with DamlEventFormat and DamlUpdateFormat and *)
(* as the participant reads it on the wire.                                *)
(*                                                                         *)
(* An Option is a sequence of at most one element.  The flags that ask for *)
(* blobs, views and labels are left out: they change what comes with a     *)
(* contract, not which contracts come.                                     *)
(***************************************************************************)
EXTENDS Naturals, Sequences

CONSTANTS
  Contract,
  TemplateOf,       \* the template of each contract,
  InterfacesOf,     \* the interfaces this implements,
  StakeholdersOf,   \* and the parties that see the contract
  AuthorizedParty,  \* the party of a participant that changes
  None

Some(x) == <<x>>

----------------------------------------------------------------------------
(***************************************************************************)
(* DamlCumulativeFilter, and a DamlFilters of them; a filter names a       *)
(* template, an interface or nothing.                                      *)
(***************************************************************************)
Wildcard == [kind |-> "Wildcard", id |-> None]
Interface(id) == [kind |-> "Interface", id |-> id]
Template(id) == [kind |-> "Template", id |-> id]

IsFilter(f) == f.kind \in {"Wildcard", "Interface", "Template"}

Fits(f, c) ==
  \/ f.kind = "Wildcard"
  \/ f.kind = "Interface" /\ f.id \in InterfacesOf[c]
  \/ f.kind = "Template" /\ f.id = TemplateOf[c]

\* The atoms are OR-ed, and no atom at all stands for a single wildcard.
Match(filters, c) == filters = {} \/ \E f \in filters : Fits(f, c)

(***************************************************************************)
(* DamlEventFormat: filters for the parties it names, and filters that     *)
(* apply whoever sees the contract.  Wants is what its documentation says  *)
(* it asks for.                                                            *)
(***************************************************************************)
Wants(format, c) ==
  \/ \E p \in StakeholdersOf[c] \intersect DOMAIN format.filters_by_party :
       Match(format.filters_by_party[p], c)
  \/ format.filters_for_any_party # <<>> /\ Match(Head(format.filters_for_any_party), c)

IsEventFormat(format) ==
  /\ \A p \in DOMAIN format.filters_by_party : \A f \in format.filters_by_party[p] : IsFilter(f)
  /\ format.filters_for_any_party # <<>> => \A f \in Head(format.filters_for_any_party) : IsFilter(f)

\* No parties at all stand for every party.
Names(parties, p) == parties = {} \/ p \in parties

(***************************************************************************)
(* The Option of a DamlTopologyFormat: without it, or without its          *)
(* participant authorizations, no change of the topology is asked for.     *)
(***************************************************************************)
WantsTopology(topology) ==
  /\ topology # <<>> /\ Head(topology).include_participant_authorization_events # <<>>
  /\ Names(Head(Head(topology).include_participant_authorization_events).parties, AuthorizedParty)

----------------------------------------------------------------------------
(***************************************************************************)
(* The conversions to the wire.                                            *)
(***************************************************************************)
ToCumulativeFilter(f) ==
  [identifier_filter |->
     IF f.kind = "Wildcard" THEN <<"wildcard_filter", None>>
     ELSE IF f.kind = "Interface" THEN <<"interface_filter", f.id>>
     ELSE <<"template_filter", f.id>>]

ToFilters(filters) == [cumulative |-> {ToCumulativeFilter(f) : f \in filters}]

ToEventFormat(format) ==
  [filters_by_party |->
     [p \in DOMAIN format.filters_by_party |-> ToFilters(format.filters_by_party[p])],
   filters_for_any_party |->
     IF format.filters_for_any_party = <<>> THEN <<>>
     ELSE Some(ToFilters(Head(format.filters_for_any_party)))]

(***************************************************************************)
(* DamlUpdateFormat: each kind of update is asked for by itself, and       *)
(* reassignments always come as the ACS delta.                             *)
(***************************************************************************)
ToTransactionFormat(f) ==
  [event_format |-> ToEventFormat(f.event_format), transaction_shape |-> f.transaction_shape]

Mapped(option, wire) == IF option = <<>> THEN <<>> ELSE Some(wire)

ToParticipantAuthorizationTopologyFormat(f) == [parties |-> f.parties]

ToTopologyFormat(f) ==
  [include_participant_authorization_events |->
     Mapped(f.include_participant_authorization_events,
            ToParticipantAuthorizationTopologyFormat(Head(f.include_participant_authorization_events)))]

ToUpdateFormat(f) ==
  [include_transactions |->
     Mapped(f.include_transactions, ToTransactionFormat(Head(f.include_transactions))),
   include_reassignments |->
     Mapped(f.include_reassignments, ToEventFormat(Head(f.include_reassignments))),
   include_topology_events |->
     Mapped(f.include_topology_events, ToTopologyFormat(Head(f.include_topology_events)))]

----------------------------------------------------------------------------
(***************************************************************************)
(* The participant: which contracts it sends, and whether it sends the     *)
(* changes of the topology.                                                *)
(***************************************************************************)
Selects(filters, c) ==
  \/ filters.cumulative = {}
  \/ \E f \in filters.cumulative :
       f.identifier_filter \in
         {<<"wildcard_filter", None>>, <<"template_filter", TemplateOf[c]>>}
         \union {<<"interface_filter", i>> : i \in InterfacesOf[c]}

Sends(format, c) ==
  \/ \E p \in StakeholdersOf[c] \intersect DOMAIN format.filters_by_party :
       Selects(format.filters_by_party[p], c)
  \/ format.filters_for_any_party # <<>> /\ Selects(Head(format.filters_for_any_party), c)

SendsTopology(topology) ==
  /\ topology # <<>> /\ Head(topology).include_participant_authorization_events # <<>>
  /\ Names(Head(Head(topology).include_participant_authorization_events).parties, AuthorizedParty)

=============================================================================
