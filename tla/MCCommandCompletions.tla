------------------------ MODULE MCCommandCompletions ------------------------
(***************************************************************************)
(* A command of alice and bob, which may be submitted again, and a         *)
(* reassignment of carol.  A completion may come without a deduplication   *)
(* period or without a status, which the protocol allows, or with a time   *)
(* that is out of range.                                                   *)
(***************************************************************************)
EXTENDS CommandCompletions

MCCommand == {"create", "assign"}
MCKind == [create |-> "commands", assign |-> "reassignment"]
MCActing == [create |-> {"alice", "bob"}, assign |-> {"carol"}]

MCMaxAttempts == [create |-> 2, assign |-> 1]

MCFlawsSent ==
  {<<"Completion", "deduplication_period", "unset">>, WithoutStatus, <<"SynchronizerTime", "record_time", "range">>}

=============================================================================
