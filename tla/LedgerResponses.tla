-------------------------- MODULE LedgerResponses --------------------------
(***************************************************************************)
(* What the conversions of the participant's answers insist on             *)
(* (daml-grpc/src/data: update, state, transaction, reassignment,          *)
(* topology, event, event_query, completion).  Each is a chain of `req()?` *)
(* and `try_from(..)?`: it stops at the first thing that is not there or   *)
(* that does not convert, at any depth.                                    *)
(*                                                                         *)
(* A flaw of a message is a triple: the kind of message, the field, and    *)
(* the problem with the field.                                             *)
(***************************************************************************)
EXTENDS Naturals

CONSTANT NoFlaw

----------------------------------------------------------------------------
(***************************************************************************)
(* The messages of the Ledger API: which fields the protocol requires,     *)
(* which it leaves open, and which hold a time, a code of an enumeration   *)
(* or a Daml value.  Fields of strings and numbers are always there.       *)
(***************************************************************************)
Fields(required, optional, times, codes, values) ==
  [required |-> required, optional |-> optional, times |-> times, codes |-> codes, values |-> values]

OneOf == Fields({"oneof"}, {}, {}, {}, {})
Authorization == Fields({}, {}, {}, {"participant_permission"}, {})

Protocol ==
  [ GetUpdatesResponse |-> OneOf, GetUpdateResponse |-> OneOf, GetActiveContractsResponse |-> OneOf,
    CompletionStreamResponse |-> OneOf, Event |-> OneOf, ReassignmentEvent |-> OneOf, TopologyEvent |-> OneOf,
    Transaction |-> Fields({"effective_at", "record_time"}, {}, {"effective_at", "record_time"}, {}, {}),
    Reassignment |-> Fields({"record_time"}, {}, {"record_time"}, {}, {}),
    TopologyTransaction |-> Fields({"record_time"}, {}, {"record_time"}, {}, {}),
    CreatedEvent |-> Fields({"template_id", "create_arguments", "created_at"}, {"contract_key"},
                            {"created_at"}, {}, {"contract_key", "create_arguments"}),
    InterfaceView |-> Fields({"interface_id", "view_status"}, {"view_value"}, {}, {}, {"view_value"}),
    ArchivedEvent |-> Fields({"template_id"}, {}, {}, {}, {}),
    ExercisedEvent |-> Fields({"template_id", "choice_argument"}, {"interface_id", "exercise_result"},
                              {}, {}, {"choice_argument", "exercise_result"}),
    UnassignedEvent |-> Fields({"template_id"}, {"assignment_exclusivity"}, {"assignment_exclusivity"}, {}, {}),
    AssignedEvent |-> Fields({"created_event"}, {}, {}, {}, {}),
    ParticipantAuthorizationAdded |-> Authorization, ParticipantAuthorizationChanged |-> Authorization,
    ParticipantAuthorizationOnboarding |-> Authorization,
    ParticipantAuthorizationRevoked |-> Fields({}, {}, {}, {}, {}),
    ActiveContract |-> Fields({"created_event"}, {}, {}, {}, {}),
    IncompleteUnassigned |-> Fields({"created_event", "unassigned_event"}, {}, {}, {}, {}),
    IncompleteAssigned |-> Fields({"assigned_event"}, {}, {}, {}, {}),
    OffsetCheckpoint |-> Fields({}, {}, {}, {}, {}),
    SynchronizerTime |-> Fields({"record_time"}, {}, {"record_time"}, {}, {}),
    DeduplicationPeriod |-> Fields({}, {}, {"deduplication_duration"}, {}, {}),
    Completion |-> Fields({"synchronizer_time"}, {"status", "deduplication_period"}, {}, {}, {}) ]

Kinds == DOMAIN Protocol

\* What the protocol forbids a participant to send.
Forbidden(k) ==
  {<<k, f, "unset">> : f \in Protocol[k].required}
  \union {<<k, f, "range">> : f \in Protocol[k].times}
  \union {<<k, f, "code">> : f \in Protocol[k].codes}
  \union {<<k, f, "value">> : f \in Protocol[k].values}

\* What may be missing or wrong in a message of kind k itself.
Flaws(k) == Forbidden(k) \union {<<k, f, "unset">> : f \in Protocol[k].optional}

AllFlaws == UNION {Flaws(k) : k \in Kinds}

----------------------------------------------------------------------------
(***************************************************************************)
(* A row for every conversion: the fields taken with `req()?`, the times   *)
(* that are decoded, the codes that are looked up, the values that are     *)
(* converted, and the messages converted in turn, in an Option or a Vec or *)
(* one by one.                                                             *)
(***************************************************************************)
Row(req, times, codes, values, into) ==
  [req |-> req, times |-> times, codes |-> codes, values |-> values, into |-> into]

AnyOf(kinds) == Row({"oneof"}, {}, {}, {}, kinds)

ConvertUpdatesResponse == AnyOf({"Transaction", "Reassignment", "TopologyTransaction", "OffsetCheckpoint"})
ConvertUpdateResponse == AnyOf({"Transaction", "Reassignment", "TopologyTransaction"})

ConvertTransaction ==
  Row({"effective_at", "record_time"}, {"effective_at", "record_time"}, {}, {}, {"Event"})

ConvertReassignment == Row({"record_time"}, {"record_time"}, {}, {}, {"ReassignmentEvent"})
ConvertReassignmentEvent == AnyOf({"UnassignedEvent", "AssignedEvent"})
ConvertUnassigned == Row({"template_id"}, {"assignment_exclusivity"}, {}, {}, {})
ConvertAssigned == Row({"created_event"}, {}, {}, {}, {"CreatedEvent"})

ConvertTopology == Row({"record_time"}, {"record_time"}, {}, {}, {"TopologyEvent"})
ConvertTopologyEvent ==
  AnyOf({"ParticipantAuthorizationAdded", "ParticipantAuthorizationChanged", "ParticipantAuthorizationRevoked",
         "ParticipantAuthorizationOnboarding"})
ConvertAuthorization == Row({}, {}, {"participant_permission"}, {}, {})
ConvertOnboarding == ConvertAuthorization
ConvertRevoked == Row({}, {}, {}, {}, {})

ConvertEvent == AnyOf({"CreatedEvent", "ArchivedEvent", "ExercisedEvent"})

ConvertCreated ==
  Row({"template_id", "create_arguments", "created_at"}, {"created_at"}, {},
      {"contract_key", "create_arguments"}, {"InterfaceView"})
ConvertInterfaceView == Row({"interface_id", "view_status"}, {}, {}, {"view_value"}, {})
ConvertArchived == Row({"template_id"}, {}, {}, {}, {})
ConvertExercisedWithResult ==                                      \* mutant
  Row({"template_id", "choice_argument", "exercise_result"}, {}, {}, {"choice_argument", "exercise_result"}, {})
ConvertExercised == Row({"template_id", "choice_argument"}, {}, {}, {"choice_argument", "exercise_result"}, {})

ConvertActiveContractsResponse == AnyOf({"ActiveContract", "IncompleteUnassigned", "IncompleteAssigned"})
ConvertActiveContract == Row({"created_event"}, {}, {}, {}, {"CreatedEvent"})
ConvertIncompleteUnassigned == Row({"created_event", "unassigned_event"}, {}, {}, {}, {"CreatedEvent", "UnassignedEvent"})
ConvertIncompleteAssigned == Row({"assigned_event"}, {}, {}, {}, {"AssignedEvent"})

ConvertCompletionResponse == AnyOf({"Completion", "OffsetCheckpoint"})
ConvertCompletionWithPeriod ==                                     \* mutant
  Row({"status", "deduplication_period"}, {}, {}, {}, {"DeduplicationPeriod", "SynchronizerTime"})
ConvertCompletion == Row({"status"}, {}, {}, {}, {"DeduplicationPeriod", "SynchronizerTime"})
ConvertDeduplicationPeriod == Row({}, {"deduplication_duration"}, {}, {}, {})
ConvertCheckpoint == Row({}, {}, {}, {}, {"SynchronizerTime"})
ConvertSynchronizerTime == Row({"record_time"}, {"record_time"}, {}, {}, {})

Conversions ==
  [ GetUpdatesResponse |-> ConvertUpdatesResponse, GetUpdateResponse |-> ConvertUpdateResponse,
    GetActiveContractsResponse |-> ConvertActiveContractsResponse,
    CompletionStreamResponse |-> ConvertCompletionResponse, Event |-> ConvertEvent,
    ReassignmentEvent |-> ConvertReassignmentEvent, TopologyEvent |-> ConvertTopologyEvent,
    Transaction |-> ConvertTransaction, Reassignment |-> ConvertReassignment,
    TopologyTransaction |-> ConvertTopology, CreatedEvent |-> ConvertCreated,
    InterfaceView |-> ConvertInterfaceView, ArchivedEvent |-> ConvertArchived,
    ExercisedEvent |-> ConvertExercised, UnassignedEvent |-> ConvertUnassigned,
    AssignedEvent |-> ConvertAssigned, ParticipantAuthorizationAdded |-> ConvertAuthorization,
    ParticipantAuthorizationChanged |-> ConvertAuthorization,
    ParticipantAuthorizationOnboarding |-> ConvertOnboarding,
    ParticipantAuthorizationRevoked |-> ConvertRevoked, ActiveContract |-> ConvertActiveContract,
    IncompleteUnassigned |-> ConvertIncompleteUnassigned, IncompleteAssigned |-> ConvertIncompleteAssigned,
    OffsetCheckpoint |-> ConvertCheckpoint, SynchronizerTime |-> ConvertSynchronizerTime,
    DeduplicationPeriod |-> ConvertDeduplicationPeriod, Completion |-> ConvertCompletion ]

\* req(), from_grpc_timestamp and the other checks of one conversion.
RefusedBy(k) ==
  LET row == Conversions[k]
  IN  {<<k, f, "unset">> : f \in row.req} \union {<<k, f, "range">> : f \in row.times}
      \union {<<k, f, "code">> : f \in row.codes} \union {<<k, f, "value">> : f \in row.values}

(***************************************************************************)
(* The kinds of message converted on the way through a message of kind k:  *)
(* no message is nested deeper than MaxNesting.                            *)
(***************************************************************************)
MaxNesting == 6

Reached ==
  LET level[n \in 0 .. MaxNesting] ==
        IF n = 0 THEN [k \in Kinds |-> {k}]
        ELSE [k \in Kinds |-> {k} \union UNION {level[n - 1][j] : j \in Conversions[k].into}]
  IN  level[MaxNesting]

Refused == [k \in Kinds |-> UNION {RefusedBy(j) : j \in Reached[k]}]

\* A message of kind k with this flaw somewhere inside it converts.
Converts(k, flaw) == flaw \notin Refused[k]

=============================================================================
