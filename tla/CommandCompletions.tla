------------------------- MODULE CommandCompletions -------------------------
(***************************************************************************)
(* Asynchronous submission (daml-grpc/src/service:                         *)
(* DamlCommandSubmissionService, DamlCommandCompletionService): an         *)
(* application reads the ledger end, submits commands and reassignments,   *)
(* and learns what has become of them from the stream of completions after *)
(* that offset, as the tests of the crate do.  A submission may be lost    *)
(* and made again under its command id; the stream breaks and is resumed   *)
(* from the offset of the last completion or checkpoint; completions that  *)
(* were not read may be pruned.                                            *)
(*                                                                         *)
(* DamlCommands::new leaves the submission id empty, so a completion says  *)
(* of which command it is but not of which attempt.  The application       *)
(* counts: a command has failed when every attempt has been rejected.      *)
(***************************************************************************)
EXTENDS LedgerResponses, Sequences, FiniteSets

CONSTANTS
  Command,
  Kind,          \* of each command, "commands" or "reassignment"
  Acting,        \* the parties of each command: act_as, or the submitter
  None,
  FlawsSent,     \* what may be wrong with a completion
  MaxAttempts,   \* bound: submissions of each command
  MaxForeign,    \* bound: completions of other applications
  MaxBreaks      \* bound: streams that break

ASSUME CommandAssumption ==
  /\ Kind \in [Command -> {"commands", "reassignment"}]
  /\ \A c \in Command : Acting[c] # {} /\ (Kind[c] = "reassignment" => Cardinality(Acting[c]) = 1)
  /\ None \notin Command \union Nat

ASSUME BoundsAssumption == MaxAttempts \in [Command -> Nat] /\ MaxForeign \in Nat /\ MaxBreaks \in Nat

ASSUME FlawsAssumption ==
  FlawsSent \subseteq AllFlaws /\ NoFlaw \notin AllFlaws

VARIABLES
  requests,     \* on their way to the participant
  effects,      \* how often each command has changed the ledger
  log,          \* the completions, by offset
  pruned,       \* the offset up to which the participant has pruned them
  verdict,      \* what the application thinks of each command
  attempts,     \* its submissions of each command
  rejections,   \* and the rejections it has seen
  offset,       \* the offset it resumes from, None before it has read one
  stream,       \* how far the stream it reads from has come, or None
  gap,          \* it has had to leave out completions
  breaks

vars == <<requests, effects, log, pruned, verdict, attempts, rejections, offset, stream, gap, breaks>>

End == Len(log)

Request == [command : Command, attempt : Nat]

Logged == [command : Command \union {None}, status : {"ok", "rejected", "duplicate"}, flaw : AllFlaws \union {NoFlaw}]

TypeOK ==
  /\ requests \in SUBSET Request
  /\ effects \in [Command -> Nat]
  /\ log \in Seq(Logged)
  /\ pruned \in 0 .. End
  /\ verdict \in [Command -> {"new", "pending", "succeeded", "failed", "stopped"}]
  /\ attempts \in [Command -> Nat]
  /\ rejections \in [Command -> Nat]
  /\ offset \in (0 .. End) \union {None}
  /\ stream \in (0 .. End) \union {None}
  /\ gap \in BOOLEAN
  /\ breaks \in 0 .. MaxBreaks

Init ==
  /\ requests = {} /\ effects = [c \in Command |-> 0] /\ log = <<>> /\ pruned = 0
  /\ verdict = [c \in Command |-> "new"] /\ attempts = [c \in Command |-> 0]
  /\ rejections = [c \in Command |-> 0] /\ offset = None /\ stream = None
  /\ gap = FALSE /\ breaks = 0

----------------------------------------------------------------------------
(***************************************************************************)
(* The application and its calls.                                          *)
(***************************************************************************)
GetLedgerEnd ==
  /\ offset = None
  /\ offset' = End
  /\ UNCHANGED <<requests, effects, log, pruned, verdict, attempts, rejections, stream, gap, breaks>>

(***************************************************************************)
(* submit_request and submit_reassignment: the answer says that the        *)
(* request has been taken, not what comes of it.  An attempt whose answer  *)
(* is an error may have arrived or not, and the application submits the    *)
(* same command again.                                                     *)
(***************************************************************************)
Attempt(c) ==
  /\ offset # None
  /\ verdict[c] \in {"new", "pending"} /\ attempts[c] < MaxAttempts[c]
  /\ verdict' = [verdict EXCEPT ![c] = "pending"]
  /\ attempts' = [attempts EXCEPT ![c] = attempts[c] + 1]
  /\ UNCHANGED <<effects, log, pruned, rejections, offset, stream, gap, breaks>>

Submission(c) == [command |-> c, attempt |-> attempts[c] + 1]

SubmitRequest(c) ==
  Kind[c] = "commands" /\ Attempt(c) /\ requests' = requests \union {Submission(c)}

SubmitReassignment(c) ==
  Kind[c] = "reassignment" /\ Attempt(c) /\ requests' = requests \union {Submission(c)}

Lost(c) == Attempt(c) /\ UNCHANGED requests

(***************************************************************************)
(* get_completion_stream, for the parties of all commands.  What has been  *)
(* pruned cannot be read any more, and the application goes on from the    *)
(* ledger end.                                                             *)
(***************************************************************************)
Parties(kinds) == UNION {Acting[c] : c \in {d \in Command : Kind[d] \in kinds}}

CompletionStreamInclusive(o) ==                                     \* mutant
  [parties |-> Parties({"commands", "reassignment"}), begin_exclusive |-> IF o > pruned THEN o - 1 ELSE o]

CompletionStreamOfCommands(o) ==                                    \* mutant
  [parties |-> Parties({"commands"}), begin_exclusive |-> o]

CompletionStream(o) ==
  [parties |-> Parties({"commands", "reassignment"}), begin_exclusive |-> o]

GetCompletionStream ==
  /\ offset # None /\ stream = None
  /\ LET request == CompletionStream(offset) IN
       IF request.begin_exclusive < pruned
       THEN offset' = End /\ gap' = TRUE /\ UNCHANGED stream
       ELSE stream' = request.begin_exclusive /\ UNCHANGED <<offset, gap>>
  /\ UNCHANGED <<requests, effects, log, pruned, verdict, attempts, rejections, breaks>>

Visible(o) ==
  log[o].command # None /\ Acting[log[o].command] \intersect CompletionStream(offset).parties # {}

Ahead == stream # None /\ stream < End

PassOver ==
  /\ Ahead /\ ~Visible(stream + 1)
  /\ stream' = stream + 1
  /\ UNCHANGED <<requests, effects, log, pruned, verdict, attempts, rejections, offset, gap, breaks>>

\* A duplicate is of something that has been done.
Judged(c, status, count) ==
  IF verdict[c] # "pending" THEN verdict[c]
  ELSE IF status \in {"ok", "duplicate"} THEN "succeeded"
  ELSE IF count = attempts[c] THEN "failed" ELSE "pending"

ReceiveCompletion ==
  /\ Ahead /\ Visible(stream + 1)
  /\ LET m == log[stream + 1]
         c == m.command
         count == rejections[c] + IF m.status = "rejected" THEN 1 ELSE 0
     IN  IF Converts("CompletionStreamResponse", m.flaw)
         THEN /\ rejections' = [rejections EXCEPT ![c] = count]
              /\ verdict' = [verdict EXCEPT ![c] = Judged(c, m.status, count)]
              /\ offset' = stream + 1 /\ stream' = stream + 1
         ELSE /\ verdict' = [d \in Command |-> IF verdict[d] \in {"new", "pending"} THEN "stopped" ELSE verdict[d]]
              /\ stream' = None
              /\ UNCHANGED <<rejections, offset>>
  /\ UNCHANGED <<requests, effects, log, pruned, attempts, gap, breaks>>

ReceiveCheckpoint ==
  /\ stream # None /\ stream > offset
  /\ offset' = stream
  /\ UNCHANGED <<requests, effects, log, pruned, verdict, attempts, rejections, stream, gap, breaks>>

----------------------------------------------------------------------------
(***************************************************************************)
(* The participant: every request that arrives is completed once; it       *)
(* deduplicates by command id.                                             *)
(***************************************************************************)
Complete(r, status) ==
  /\ requests' = requests \ {r}
  /\ \E flaw \in FlawsSent \union {NoFlaw} :
       /\ flaw # NoFlaw => \A o \in 1 .. End : log[o].flaw = NoFlaw
       /\ log' = Append(log, [command |-> r.command, status |-> status, flaw |-> flaw])

Process ==
  /\ \E r \in requests :
       \/ effects[r.command] > 0 /\ Complete(r, "duplicate") /\ UNCHANGED effects
       \/ effects[r.command] = 0 /\ Complete(r, "rejected") /\ UNCHANGED effects
       \/ /\ effects[r.command] = 0 /\ Complete(r, "ok")
          /\ effects' = [effects EXCEPT ![r.command] = effects[r.command] + 1]
  /\ UNCHANGED <<pruned, verdict, attempts, rejections, offset, stream, gap, breaks>>

Foreign ==
  /\ Cardinality({o \in 1 .. End : log[o].command = None}) < MaxForeign
  /\ log' = Append(log, [command |-> None, status |-> "ok", flaw |-> NoFlaw])
  /\ UNCHANGED <<requests, effects, pruned, verdict, attempts, rejections, offset, stream, gap, breaks>>

Prune ==
  /\ \E o \in pruned + 1 .. End : pruned' = o
  /\ UNCHANGED <<requests, effects, log, verdict, attempts, rejections, offset, stream, gap, breaks>>

Break ==
  /\ stream # None /\ breaks < MaxBreaks
  /\ stream' = None /\ breaks' = breaks + 1
  /\ UNCHANGED <<requests, effects, log, pruned, verdict, attempts, rejections, offset, gap>>

Reading == GetLedgerEnd \/ GetCompletionStream \/ PassOver \/ ReceiveCompletion \/ ReceiveCheckpoint

Submit == \E c \in Command : SubmitRequest(c) \/ SubmitReassignment(c) \/ Lost(c)

Next == Reading \/ Submit \/ Process \/ Foreign \/ Prune \/ Break

\* The application reads on, and the participant completes what it takes.
Spec == Init /\ [][Next]_vars /\ WF_vars(Reading) /\ WF_vars(Process)

----------------------------------------------------------------------------
(***************************************************************************)
(* What the application concludes is so, although no completion tells of   *)
(* which attempt it is: a command that has succeeded has changed the       *)
(* ledger once, and one that has failed has not and never will, since no   *)
(* attempt is under way (DamlCommands::new, submit_request,                *)
(* get_completion_stream).                                                 *)
(***************************************************************************)
VerdictsAreTrue ==
  \A c \in Command :
    /\ verdict[c] = "succeeded" => effects[c] = 1
    /\ verdict[c] = "failed" => effects[c] = 0 /\ \A r \in requests : r.command # c

(***************************************************************************)
(* No completion up to the offset the application would resume from has    *)
(* been missed, and none has been counted twice, unless it had to leave    *)
(* some out (begin_exclusive, DamlCompletion::offset, checkpoints).        *)
(***************************************************************************)
Seen(c) == {o \in 1 .. IF offset = None THEN 0 ELSE offset : log[o].command = c}

EachCountedOnce ==
  ~gap => \A c \in Command :
    /\ rejections[c] = Cardinality({o \in Seen(c) : log[o].status = "rejected"})
    /\ verdict[c] \in {"new", "pending"} => \A o \in Seen(c) : log[o].status = "rejected"

(***************************************************************************)
(* A command of which every attempt has arrived is decided in the end,     *)
(* unless completions are pruned unread, or the participant sends a        *)
(* completion that the protocol forbids or that has no status, which the   *)
(* protocol leaves open and DamlCompletion::try_from takes for a violation *)
(* of it; the conversion insists on nothing else.                          *)
(***************************************************************************)
WithoutStatus == <<"Completion", "status", "unset">>

Unreadable(flaw) == flaw # NoFlaw /\ (flaw = WithoutStatus \/ flaw \in Forbidden(flaw[1]))

Arrived(c) == Cardinality({o \in 1 .. End : log[o].command = c}) = attempts[c]

Decided ==
  \A c \in Command :
    <>[](\/ verdict[c] \in {"new", "succeeded", "failed"}
         \/ gap \/ ~Arrived(c)
         \/ \E o \in 1 .. End : Unreadable(log[o].flaw))

=============================================================================
