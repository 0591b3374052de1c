--------------------------- MODULE MCUpdateStream ---------------------------
(***************************************************************************)
(* Two contracts of two templates on two synchronizers.  An application    *)
(* asks for the contracts of one template that alice sees, as the ACS      *)
(* delta, and for the topology of every party; or for what implements an   *)
(* interface, whoever sees it, with the ledger effects and the topology of *)
(* a party that never changes.                                             *)
(***************************************************************************)
EXTENDS UpdateStream

MCContract == {"asset", "offer"}
MCTemplateOf == [asset |-> "Asset", offer |-> "Offer"]
MCInterfacesOf == [asset |-> {"Holding"}, offer |-> {}]
MCStakeholdersOf == [asset |-> {"alice"}, offer |-> {"alice", "bob"}]

Topology(parties) == Some([include_participant_authorization_events |-> parties])

MCFormat ==
  { [events |-> [filters_by_party |-> [alice |-> {Template("Asset")}], filters_for_any_party |-> <<>>],
     shape |-> "AcsDelta", topology |-> Topology(Some([parties |-> {}]))],
    [events |-> [filters_by_party |-> [bob |-> {}], filters_for_any_party |-> Some({Interface("Holding")})],
     shape |-> "LedgerEffects", topology |-> Topology(Some([parties |-> {"alice"}]))] }

MCFlawsSent ==
  [AcsDelta |-> {<<"SynchronizerTime", "record_time", "range">>},
   LedgerEffects |-> {<<"ExercisedEvent", "exercise_result", "unset">>, <<"UnassignedEvent", "template_id", "unset">>,
                      <<"TopologyTransaction", "record_time", "unset">>}]

=============================================================================
