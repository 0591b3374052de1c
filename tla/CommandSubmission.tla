------------------------- MODULE CommandSubmission -------------------------
(***************************************************************************)
(* Synchronous command submission: DamlSimpleExecutor and its builder      *)
(* (daml-grpc/src/executor.rs), DamlCommandFactory (command_factory.rs)    *)
(* and DamlCommandService (service/daml_command_service.rs), against a     *)
(* participant that deduplicates by change id.                             *)
(*                                                                         *)
(* Several callers each have one command to run.  A call sends a request   *)
(* and waits; the channel gives up after its timeout, and the participant  *)
(* may still act on the request, or have acted on it.  The caller may then *)
(* run the command again.                                                  *)
(***************************************************************************)
EXTENDS Naturals, FiniteSets, Sequences

CONSTANTS
  Caller, Party, Name,
  None,
  Job,           \* what the callers are to do: see JobType
  MaxAttempts    \* bound: calls a caller makes for its command

ASSUME NameAssumption ==
  None \notin Name /\ Name \intersect (Caller \X Nat) = {}

ASSUME MaxAttemptsAssumption == MaxAttempts \in Nat

Method ==
  {"execute_create", "execute_exercise", "execute_for_transaction",
   "execute_for_transaction_with_effects", "submit_and_wait_for_transaction"}

(***************************************************************************)
(* The caller's method, the command id it supplies (make_command_with_id,  *)
(* with the service's submit_and_wait_for_transaction) or None, and its    *)
(* parties.  A list of parties that was never set is an empty one.         *)
(***************************************************************************)
JobType ==
  [Caller -> [method : Method, name : Name \union {None},
              actAs : SUBSET Party, readAs : SUBSET Party]]

ASSUME JobAssumption == Job \subseteq JobType

VARIABLES
  job,
  phase,      \* of each caller
  results,    \* of each caller, how its calls ended
  network,    \* the requests on their way to the participant
  ledger,     \* the commands that took effect
  replies     \* the participant's answers on their way back

vars == <<job, phase, results, network, ledger, replies>>

(***************************************************************************)
(* A transaction is the pre-order list of its events; root is the event of *)
(* the submitted command itself.  Whoever sees an event sees all below it. *)
(* The result of an exercise is optional: the participant may leave one    *)
(* out, such as a Unit.  An answer shows some of the events and keeps      *)
(* their positions, of which only the order is ever used.                  *)
(***************************************************************************)
Event == [kind : {"Created", "Exercised", "Archived"}, node : {"root", "child"},
          seenBy : SUBSET Party, result : BOOLEAN]

Position == 1 .. 2

Events == UNION {[D -> Event] : D \in SUBSET Position}

Creation(node, parties) ==
  [kind |-> "Created", node |-> node, seenBy |-> parties, result |-> FALSE]

Exercise(node, parties, result) ==
  [kind |-> "Exercised", node |-> node, seenBy |-> parties, result |-> result]

Roots(j) ==
  IF j.method = "execute_create" THEN {Creation("root", j.actAs)}
  ELSE {Exercise("root", j.actAs, result) : result \in BOOLEAN}

Children(j) ==
  IF j.method = "execute_create" THEN {}
  ELSE {Creation("child", j.actAs \union j.readAs)}
         \union {Exercise("child", j.actAs \union j.readAs, result) : result \in BOOLEAN}

Transactions(j) ==
  {<<r>> : r \in Roots(j)} \union {<<r, c>> : r \in Roots(j), c \in Children(j)}

----------------------------------------------------------------------------
(***************************************************************************)
(* make_commands: the id that was supplied, or a UUID made for this very   *)
(* call.  The participant's change id is that and the act_as parties; the  *)
(* user is the same for all callers.                                       *)
(***************************************************************************)
AlwaysFresh(c, k) == <<c, k>>                           \* mutant
CommandId(c, k) == IF job[c].name = None THEN <<c, k>> ELSE job[c].name

ChangeId(c, k) == [actAs |-> job[c].actAs, commandId |-> CommandId(c, k)]

(***************************************************************************)
(* The shape of the answer: the ledger effects for execute_exercise and    *)
(* execute_for_transaction_with_effects; for the others no format is sent, *)
(* which makes the participant answer with the ACS delta.  In either case  *)
(* it is filtered for the parties of the submission.                       *)
(***************************************************************************)
Shape(c) ==
  IF job[c].method \in {"execute_exercise", "execute_for_transaction_with_effects"}
  THEN "LedgerEffects" ELSE "AcsDelta"

ReadersOnly(c) == IF job[c].readAs = {} THEN job[c].actAs ELSE job[c].readAs  \* mutant
FilterParties(c) == job[c].actAs \union job[c].readAs

Request ==
  [caller : Caller, attempt : Nat, shape : {"AcsDelta", "LedgerEffects"},
   parties : SUBSET Party]

RequestOf(c, k) ==
  [caller |-> c, attempt |-> k, shape |-> Shape(c), parties |-> FilterParties(c)]

Entry == [caller : Caller, attempt : Nat, events : Events]

Reply ==
  [caller : Caller, attempt : Nat,
   verdict : {"committed", "duplicate", "rejected"}, events : Events]

ReplyTo(r, verdict, events) ==
  [caller |-> r.caller, attempt |-> r.attempt, verdict |-> verdict, events |-> events]

Result ==
  [status : {"ok", "duplicate", "rejected", "unexpected", "timeout"},
   value : {"root", "child", "transaction", "none"}]

Failure(status) == [status |-> status, value |-> "none"]

\* The call a caller is in, or made last.
AttemptsEnded(c) == Len(results[c])                     \* mutant
Attempt(c) == Len(results[c]) + (IF phase[c] = "waiting" THEN 1 ELSE 0)

----------------------------------------------------------------------------
Init ==
  /\ job \in Job
  /\ phase = [c \in Caller |-> "new"]
  /\ results = [c \in Caller |-> << >>]
  /\ network = {}
  /\ ledger = {}
  /\ replies = {}

(***************************************************************************)
(* DamlSimpleExecutorBuilder::build; a caller of the service itself has    *)
(* nothing to build.                                                       *)
(***************************************************************************)
HasParties(c) == job[c].actAs # {} \/ job[c].readAs # {}

Build(c) ==
  /\ phase[c] = "new"
  /\ \/ HasParties(c) /\ phase' = [phase EXCEPT ![c] = "idle"]
     \/ ~HasParties(c) /\ phase' = [phase EXCEPT ![c] = "refused"]
  /\ UNCHANGED <<job, results, network, ledger, replies>>

(***************************************************************************)
(* A call, the first one or, after an error, another one.                  *)
(***************************************************************************)
Submit(c) ==
  /\ phase[c] = "idle"
  /\ Len(results[c]) < MaxAttempts
  /\ \A k \in DOMAIN results[c] : results[c][k].status # "ok"
  /\ phase' = [phase EXCEPT ![c] = "waiting"]
  /\ network' = network \union {RequestOf(c, Len(results[c]) + 1)}
  /\ UNCHANGED <<job, results, ledger, replies>>

----------------------------------------------------------------------------
(***************************************************************************)
(* The participant and the network.  A request may be lost, rejected, or   *)
(* take effect; it takes none if a command with its change id did.  The    *)
(* answer shows the transaction in the shape and to the parties asked for. *)
(***************************************************************************)
Shaped(shape, e) ==
  IF shape = "AcsDelta" /\ e.kind = "Exercised"
  THEN [e EXCEPT !.kind = "Archived", !.result = FALSE] ELSE e

View(tx, r) ==
  [k \in {i \in DOMAIN tx : tx[i].seenBy \intersect r.parties # {}} |->
     Shaped(r.shape, tx[k])]

Processed(change) ==
  \E e \in ledger : ChangeId(e.caller, e.attempt) = change

Commit(r) ==
  /\ job[r.caller].actAs # {}
  /\ ~Processed(ChangeId(r.caller, r.attempt))
  /\ \E tx \in Transactions(job[r.caller]) :
       /\ ledger' = ledger \union
            {[caller |-> r.caller, attempt |-> r.attempt, events |-> tx]}
       /\ replies' = replies \union {ReplyTo(r, "committed", View(tx, r))}
  /\ network' = network \ {r}
  /\ UNCHANGED <<job, phase, results>>

Reject(r) ==
  /\ \E verdict \in {"duplicate", "rejected"} :
       /\ verdict = "duplicate" => Processed(ChangeId(r.caller, r.attempt))
       /\ replies' = replies \union {ReplyTo(r, verdict, << >>)}
  /\ network' = network \ {r}
  /\ UNCHANGED <<job, phase, results, ledger>>

Lose(r) ==
  /\ network' = network \ {r}
  /\ UNCHANGED <<job, phase, results, ledger, replies>>

----------------------------------------------------------------------------
(***************************************************************************)
(* What a caller makes of an answer: execute_create takes the first event, *)
(* which has to be a Created one; execute_exercise takes the result of the *)
(* first Exercised event that has one, wherever it is.  The other methods  *)
(* return the transaction.                                                 *)
(***************************************************************************)
First(S) == CHOOSE k \in S : \A j \in S : k <= j

WithResult(events) ==
  {k \in DOMAIN events : events[k].kind = "Exercised" /\ events[k].result}

Ok(value) == [status |-> "ok", value |-> value]

Value(method, events) ==
  IF method = "execute_create"
  THEN IF DOMAIN events # {} /\ events[First(DOMAIN events)].kind = "Created"
       THEN Ok(events[First(DOMAIN events)].node)
       ELSE Failure("unexpected")
  ELSE IF method = "execute_exercise"
  THEN IF WithResult(events) # {}
       THEN Ok(events[First(WithResult(events))].node)
       ELSE Failure("unexpected")
  ELSE Ok("transaction")

Return(c, result) ==
  /\ results' = [results EXCEPT ![c] = Append(@, result)]
  /\ phase' = [phase EXCEPT ![c] = "idle"]
  /\ UNCHANGED <<job, network, ledger>>

AnyAnswer(c, m) == m.caller = c                         \* mutant
AnswerOf(c, m) == m.caller = c /\ m.attempt = Attempt(c)

Receive(c, m) ==
  /\ phase[c] = "waiting"
  /\ AnswerOf(c, m)
  /\ Return(c, IF m.verdict = "committed" THEN Value(job[c].method, m.events)
               ELSE Failure(m.verdict))
  /\ replies' = replies \ {m}

OnceRequestGone(c) == \A r \in network : r.caller # c    \* mutant
MayTimeOut(c) == TRUE

TimeOut(c) ==
  /\ phase[c] = "waiting"
  /\ MayTimeOut(c)
  /\ Return(c, Failure("timeout"))
  /\ UNCHANGED replies

Next ==
  \/ \E c \in Caller : Build(c) \/ Submit(c) \/ TimeOut(c)
  \/ \E c \in Caller, m \in replies : Receive(c, m)
  \/ \E r \in network : Commit(r) \/ Reject(r) \/ Lose(r)

(***************************************************************************)
(* The timeout of the channel is always set.  Nothing is asked of the      *)
(* participant, nor of the callers.                                        *)
(***************************************************************************)
Spec == Init /\ [][Next]_vars /\ \A c \in Caller : WF_vars(TimeOut(c))

----------------------------------------------------------------------------
(***************************************************************************)
(* Type invariant.  Every request, answer and ledger entry comes from a    *)
(* call that was made.                                                     *)
(***************************************************************************)
TypeOK ==
  /\ job \in JobType
  /\ phase \in [Caller -> {"new", "idle", "waiting", "refused"}]
  /\ results \in [Caller -> Seq(Result)]
  /\ network \subseteq Request
  /\ ledger \subseteq Entry
  /\ replies \subseteq Reply
  /\ \A x \in network \union ledger \union replies :
       x.attempt \in 1 .. Attempt(x.caller)

(***************************************************************************)
(* A command that is run under an id of its own takes effect once, however *)
(* often its call timed out and was repeated, and whichever of the callers *)
(* that run it, with the same parties, did.                                *)
(***************************************************************************)
SameNamed(c, d) ==
  /\ job[c].name # None
  /\ job[c].name = job[d].name /\ job[c].actAs = job[d].actAs

NamedOnce ==
  \A e, f \in ledger : SameNamed(e.caller, f.caller) => e = f

(***************************************************************************)
(* What a call returned stays true: after Ok, and after an answer that     *)
(* could not be read, its own request, no other, is on the ledger; a       *)
(* request that was rejected never gets there; and one that was a          *)
(* duplicate is a duplicate of something that is.  A command can only have *)
(* an effect its callers were not told of where a call timed out.          *)
(***************************************************************************)
OnLedger(c, k) == \E e \in ledger : e.caller = c /\ e.attempt = k

ResultsAreTrue ==
  \A c \in Caller : \A k \in DOMAIN results[c] :
    LET status == results[c][k].status
    IN  /\ status \in {"ok", "unexpected"} => OnLedger(c, k)
        /\ status \in {"duplicate", "rejected"} => ~OnLedger(c, k)
        /\ status = "duplicate" => Processed(ChangeId(c, k))

(***************************************************************************)
(* The shape and the parties a method asks for, the order of the events    *)
(* and the event it picks fit together: a call that is told of a command   *)
(* that took effect returns what that command made, never what one of its  *)
(* consequences made, and always can.  The exception is an exercise whose  *)
(* result the participant leaves out: it returns the result of a           *)
(* consequence that has one, or fails.                                     *)
(***************************************************************************)
Told(e) ==
  /\ e.attempt \in DOMAIN results[e.caller]
  /\ results[e.caller][e.attempt].status # "timeout"

ResultLeftOut(e) == job[e.caller].method = "execute_exercise" /\ ~e.events[1].result

Own(e) ==
  IF job[e.caller].method \in {"execute_create", "execute_exercise"}
  THEN Ok("root") ELSE Ok("transaction")

ReturnsOwnResult ==
  \A e \in ledger :
    Told(e) /\ ~ResultLeftOut(e) => results[e.caller][e.attempt] = Own(e)

(***************************************************************************)
(* executor.rs, on the error of execute_exercise: "this path only fires    *)
(* for malformed responses".  No answer of this participant is malformed.  *)
(***************************************************************************)
UnreadableOnlyIfMalformed ==
  \A c \in Caller : \A k \in DOMAIN results[c] : results[c][k].status # "unexpected"

(***************************************************************************)
(* Every call returns, whatever the network and the participant do.        *)
(***************************************************************************)
Returns == \A c \in Caller : phase[c] = "waiting" ~> phase[c] # "waiting"

=============================================================================
