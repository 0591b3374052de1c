---------------------- MODULE CommandSubmissionProofs ----------------------
(***************************************************************************)
(* Proofs about CommandSubmission, for any number of callers, parties and  *)
(* attempts: a command under an id of its own takes effect once, what a    *)
(* call returned stays true, and it is the result of the caller's own      *)
(* command if the participant sends one.                                   *)
(***************************************************************************)
EXTENDS CommandSubmission, SequenceTheorems, TLAPS

----------------------------------------------------------------------------
(***************************************************************************)
(* The strengthening.  A request still on its way was never answered nor   *)
(* processed, and if its call is over then it timed out: so nothing that   *)
(* arrives later can make a result untrue.                                 *)
(***************************************************************************)
RequestIsOpen(r) ==
  /\ r = RequestOf(r.caller, r.attempt)
  /\ ~OnLedger(r.caller, r.attempt)
  /\ \A m \in replies : m.caller = r.caller => m.attempt # r.attempt
  /\ r.attempt \in DOMAIN results[r.caller] =>
       results[r.caller][r.attempt].status = "timeout"

RequestsAreOpen == \A r \in network : RequestIsOpen(r)

AnswerIsTrue(m) ==
  /\ m.verdict = "committed" => OnLedger(m.caller, m.attempt)
  /\ m.verdict # "committed" => ~OnLedger(m.caller, m.attempt)
  /\ m.verdict = "duplicate" => Processed(ChangeId(m.caller, m.attempt))

AnswersAreTrue == \A m \in replies : AnswerIsTrue(m)

\* The root event of a transaction is shown, in the form the caller's method
\* looks for, and with its result if that is an exercise that has one.
ShowsRoot(method, tx, events) ==
  /\ DOMAIN events \subseteq Position
  /\ 1 \in DOMAIN events
  /\ events[1].node = "root"
  /\ method = "execute_create" => events[1].kind = "Created"
  /\ method = "execute_exercise" =>
       events[1].kind = "Exercised" /\ events[1].result = tx[1].result

\* An answer to a command that took effect shows that command's transaction.
Shows(m, e) ==
  m.caller = e.caller /\ m.attempt = e.attempt /\ m.verdict = "committed" =>
    ShowsRoot(job[e.caller].method, e.events, m.events)

AnswersShowRoot == \A m \in replies, e \in ledger : Shows(m, e)

OneEntryPerChange ==
  \A e, f \in ledger :
    ChangeId(e.caller, e.attempt) = ChangeId(f.caller, f.attempt) => e = f

IInv ==
  /\ TypeOK
  /\ RequestsAreOpen
  /\ AnswersAreTrue
  /\ AnswersShowRoot
  /\ OneEntryPerChange
  /\ ResultsAreTrue
  /\ ReturnsOwnResult

----------------------------------------------------------------------------
(***************************************************************************)
(* Which event a method picks.                                             *)
(***************************************************************************)
LEMMA FirstIsOne ==
  ASSUME NEW S, S \subseteq Position, 1 \in S
  PROVE  First(S) = 1
<1>1. \A j \in S : j \in {1, 2}
  BY DEF Position
<1>2. \A j \in S : 1 <= j
  BY <1>1
<1>3. PICK k : k = First(S) /\ k \in S /\ \A j \in S : k <= j
  BY <1>2 DEF First
<1>4. k \in {1, 2} /\ k <= 1
  BY <1>1, <1>3
<1> QED BY <1>3, <1>4

LEMMA ValueIsOwn ==
  ASSUME NEW method \in Method, NEW tx, NEW events, ShowsRoot(method, tx, events),
         method = "execute_exercise" => tx[1].result
  PROVE  Value(method, events) =
           IF method \in {"execute_create", "execute_exercise"}
           THEN Ok("root") ELSE Ok("transaction")
<1> USE DEF ShowsRoot
<1>1. CASE method = "execute_create"
  BY <1>1, FirstIsOne DEF Value, Ok
<1>2. CASE method = "execute_exercise"
  <2>1. WithResult(events) \subseteq Position /\ 1 \in WithResult(events)
    BY <1>2 DEF WithResult
  <2>2. First(WithResult(events)) = 1
    BY <2>1, FirstIsOne
  <2> QED BY <1>2, <2>1, <2>2 DEF Value, Ok
<1>3. CASE method \notin {"execute_create", "execute_exercise"}
  BY <1>3 DEF Value, Ok
<1> QED BY <1>1, <1>2, <1>3

\* Whatever the events, a value is one of four results.
LEMMA ValueIsResult ==
  ASSUME NEW method, NEW events \in Events
  PROVE  Value(method, events) \in
           {Ok("root"), Ok("child"), Ok("transaction"), Failure("unexpected")}
<1>1. PICK D \in SUBSET Position : events \in [D -> Event]
  BY DEF Events
<1>2. \A k \in D : events[k].node \in {"root", "child"}
  BY <1>1 DEF Event
<1>3. ASSUME NEW S \in SUBSET D, S # {} PROVE First(S) \in S
  <2>1. S \subseteq {1, 2}
    BY DEF Position
  <2>2. \E k \in S : \A j \in S : k <= j
    <3>1. CASE 1 \in S
      BY <2>1, <3>1
    <3>2. CASE 1 \notin S
      <4>1. S = {2}
        BY <1>3, <2>1, <3>2
      <4> QED BY <4>1
    <3> QED BY <3>1, <3>2
  <2> QED BY <2>2 DEF First
<1>4. CASE method = "execute_create"
  <2>1. D = {} \/ First(D) \in D
    BY <1>3
  <2> QED BY <1>1, <1>2, <1>4, <2>1 DEF Value
<1>5. CASE method = "execute_exercise"
  <2>1. WithResult(events) \in SUBSET D
    BY <1>1 DEF WithResult
  <2>2. WithResult(events) = {} \/ First(WithResult(events)) \in D
    BY <1>3, <2>1
  <2>3. CASE WithResult(events) = {}
    BY <1>5, <2>3 DEF Value
  <2>4. CASE WithResult(events) # {}
    <3>1. events[First(WithResult(events))].node \in {"root", "child"}
      BY <1>2, <2>2, <2>4
    <3> QED BY <1>5, <2>4, <3>1 DEF Value
  <2> QED BY <2>3, <2>4
<1>6. CASE method \notin {"execute_create", "execute_exercise"}
  BY <1>6 DEF Value
<1> QED BY <1>4, <1>5, <1>6

(***************************************************************************)
(* The participant shows the root to the parties of the submission, in the *)
(* shape that the method asked for.                                        *)
(***************************************************************************)
LEMMA ViewShowsRoot ==
  ASSUME TypeOK, NEW c \in Caller, NEW k \in Nat, job[c].actAs # {},
         NEW tx \in Transactions(job[c])
  PROVE  /\ tx \in Events
         /\ View(tx, RequestOf(c, k)) \in Events
         /\ ShowsRoot(job[c].method, tx, View(tx, RequestOf(c, k)))
<1> DEFINE r == RequestOf(c, k)
           j == job[c]
           D == {i \in DOMAIN tx : tx[i].seenBy \intersect r.parties # {}}
<1>1. /\ j.method \in Method /\ j.actAs \subseteq Party /\ j.readAs \subseteq Party
  BY DEF TypeOK, JobType
<1>2. /\ r.parties = j.actAs \union j.readAs
      /\ r.shape = IF j.method \in {"execute_exercise", "execute_for_transaction_with_effects"}
                   THEN "LedgerEffects" ELSE "AcsDelta"
  BY DEF RequestOf, FilterParties, Shape
<1>3. /\ DOMAIN tx \in SUBSET Position
      /\ 1 \in DOMAIN tx
      /\ tx \in [DOMAIN tx -> Event]
      /\ tx[1] \in Roots(j)
  <2>1. Roots(j) \subseteq Event /\ Children(j) \subseteq Event
    <3>1. \A node \in {"root", "child"}, parties \in SUBSET Party :
            /\ Creation(node, parties) \in Event
            /\ \A result \in BOOLEAN : Exercise(node, parties, result) \in Event
      BY DEF Creation, Exercise, Event
    <3>2. j.actAs \union j.readAs \in SUBSET Party /\ j.actAs \in SUBSET Party
      BY <1>1
    <3> HIDE DEF j
    <3> QED BY <3>1, <3>2 DEF Roots, Children
  <2>2. ASSUME NEW root \in Roots(j), tx = <<root>>
        PROVE  <1>3!1 /\ <1>3!2 /\ <1>3!3 /\ <1>3!4
    <3>1. DOMAIN tx = 1 .. 1 /\ tx[1] = root /\ tx \in [1 .. 1 -> Event]
      BY <2>1, <2>2
    <3> QED BY <3>1 DEF Position
  <2>3. ASSUME NEW root \in Roots(j), NEW child \in Children(j), tx = <<root, child>>
        PROVE  <1>3!1 /\ <1>3!2 /\ <1>3!3 /\ <1>3!4
    <3>1. root \in Event /\ child \in Event
      BY <2>1
    <3>2. /\ DOMAIN tx = 1 .. 2 /\ tx[1] = root /\ tx[2] = child
          /\ tx \in [1 .. 2 -> Event]
      BY <2>3, <3>1
    <3> QED BY <3>2 DEF Position
  <2> QED BY <2>2, <2>3 DEF Transactions
<1>4. tx \in Events
  BY <1>3 DEF Events
<1>5. \A i \in D : Shaped(r.shape, tx[i]) \in Event
  <2> SUFFICES ASSUME NEW e \in Event PROVE Shaped(r.shape, e) \in Event
    BY <1>3
  <2> QED BY DEF Shaped, Event
<1>6. /\ View(tx, r) = [i \in D |-> Shaped(r.shape, tx[i])]
      /\ D \in SUBSET Position
  BY <1>3 DEF View
<1>7. View(tx, r) \in Events
  <2>1. View(tx, r) \in [D -> Event]
    <3> HIDE DEF D
    <3> QED BY <1>5, <1>6
  <2> QED BY <1>6, <2>1 DEF Events
<1>8. /\ tx[1].node = "root" /\ tx[1].seenBy = j.actAs
      /\ tx[1].kind = IF j.method = "execute_create" THEN "Created" ELSE "Exercised"
  BY <1>3 DEF Roots, Creation, Exercise
<1>9. 1 \in D
  BY <1>2, <1>3, <1>8
<1>10. View(tx, r)[1] = Shaped(r.shape, tx[1]) /\ DOMAIN View(tx, r) = D
  BY <1>6, <1>9
<1>11. tx[1] \in Event
  BY <1>3
<1>12. Shaped(r.shape, tx[1]).node = "root"
  BY <1>8, <1>11 DEF Shaped, Event
<1>13. j.method \in {"execute_create", "execute_exercise"} => Shaped(r.shape, tx[1]) = tx[1]
  BY <1>2, <1>8 DEF Shaped
<1> QED BY <1>4, <1>6, <1>7, <1>8, <1>9, <1>10, <1>12, <1>13 DEF ShowsRoot

----------------------------------------------------------------------------
(***************************************************************************)
(* A call returns: the list of the results of its caller grows by one.     *)
(***************************************************************************)
LEMMA ReturnAppends ==
  ASSUME TypeOK, NEW c \in Caller, NEW res \in Result,
         phase[c] = "waiting", Return(c, res)
  PROVE  /\ UNCHANGED <<job, network, ledger>>
         /\ phase' \in [Caller -> {"new", "idle", "waiting", "refused"}]
         /\ results' \in [Caller -> Seq(Result)]
         /\ \A d \in Caller : Attempt(d)' = Attempt(d)
         /\ \A d \in Caller : d # c => results'[d] = results[d]
         /\ DOMAIN results'[c] = DOMAIN results[c] \union {Attempt(c)}
         /\ Attempt(c) \notin DOMAIN results[c]
         /\ \A k \in DOMAIN results[c] : results'[c][k] = results[c][k]
         /\ results'[c][Attempt(c)] = res
<1> DEFINE s == results[c]
<1>1. /\ s \in Seq(Result)
      /\ results \in [Caller -> Seq(Result)]
      /\ phase \in [Caller -> {"new", "idle", "waiting", "refused"}]
  BY DEF TypeOK
<1>2. PICK n \in Nat : n = Len(s) /\ DOMAIN s = 1 .. n
  BY <1>1, LenProperties
<1>3. /\ Append(s, res) \in Seq(Result)
      /\ Len(Append(s, res)) = n + 1
      /\ DOMAIN Append(s, res) = 1 .. (n + 1)
      /\ Append(s, res)[n + 1] = res
      /\ \A k \in 1 .. n : Append(s, res)[k] = s[k]
  BY <1>1, <1>2, AppendProperties, LenProperties
<1>4. /\ UNCHANGED <<job, network, ledger>>
      /\ results' = [results EXCEPT ![c] = Append(s, res)]
      /\ phase' = [phase EXCEPT ![c] = "idle"]
  BY DEF Return
<1>5. /\ results'[c] = Append(s, res)
      /\ results' \in [Caller -> Seq(Result)]
      /\ \A d \in Caller : d # c => results'[d] = results[d] /\ phase'[d] = phase[d]
      /\ phase'[c] = "idle"
      /\ phase' \in [Caller -> {"new", "idle", "waiting", "refused"}]
  BY <1>1, <1>3, <1>4
<1>6. Attempt(c) = n + 1 /\ Attempt(c)' = n + 1
  BY <1>2, <1>3, <1>5 DEF Attempt
<1>7. \A d \in Caller : d # c => Attempt(d)' = Attempt(d)
  BY <1>5 DEF Attempt
<1>8. 1 .. (n + 1) = (1 .. n) \union {n + 1} /\ n + 1 \notin 1 .. n
  OBVIOUS
<1> QED BY <1>2, <1>3, <1>4, <1>5, <1>6, <1>7, <1>8

(***************************************************************************)
(* The invariant after a call that returned: the requests and the ledger   *)
(* are as before, the result is true and, if the command took effect, it   *)
(* is the root's.                                                          *)
(***************************************************************************)
LEMMA ReturnPreserves ==
  ASSUME IInv, NEW c \in Caller, NEW res \in Result,
         phase[c] = "waiting", Return(c, res),
         replies' \subseteq replies,
         res.status \in {"ok", "unexpected"} => OnLedger(c, Attempt(c)),
         res.status \in {"duplicate", "rejected"} => ~OnLedger(c, Attempt(c)),
         res.status = "duplicate" => Processed(ChangeId(c, Attempt(c))),
         \A e \in ledger :
           /\ e.caller = c /\ e.attempt = Attempt(c)
           /\ res.status # "timeout" /\ ~ResultLeftOut(e)
           => res = Own(e),
         \A r \in network : r.caller = c /\ r.attempt = Attempt(c) => res.status = "timeout"
  PROVE  IInv'
<1> USE DEF IInv
<1>1. /\ UNCHANGED <<job, network, ledger>>
      /\ phase' \in [Caller -> {"new", "idle", "waiting", "refused"}]
      /\ results' \in [Caller -> Seq(Result)]
      /\ \A d \in Caller : Attempt(d)' = Attempt(d)
      /\ \A d \in Caller : d # c => results'[d] = results[d]
      /\ DOMAIN results'[c] = DOMAIN results[c] \union {Attempt(c)}
      /\ Attempt(c) \notin DOMAIN results[c]
      /\ \A k \in DOMAIN results[c] : results'[c][k] = results[c][k]
      /\ results'[c][Attempt(c)] = res
  BY ReturnAppends
<1>2. \A x \in network \union ledger \union replies : x.caller \in Caller
  BY DEF TypeOK, Request, Entry, Reply
<1>3. TypeOK'
  BY <1>1, <1>2 DEF TypeOK
<1>4. /\ \A d, k : OnLedger(d, k)' = OnLedger(d, k)
      /\ \A d, k : ChangeId(d, k)' = ChangeId(d, k)
      /\ \A d, k : RequestOf(d, k)' = RequestOf(d, k)
  BY <1>1 DEF OnLedger, ChangeId, CommandId, RequestOf, Shape, FilterParties
<1>5. \A d, k : Processed(ChangeId(d, k))' = Processed(ChangeId(d, k))
  BY <1>1, <1>4 DEF Processed
<1>6. RequestsAreOpen'
  <2> SUFFICES ASSUME NEW r \in network PROVE RequestIsOpen(r)'
    BY <1>1 DEF RequestsAreOpen
  <2>1. RequestIsOpen(r) /\ r.caller \in Caller
    BY <1>2 DEF RequestsAreOpen
  <2>2. r.attempt \in DOMAIN results'[r.caller] =>
          results'[r.caller][r.attempt].status = "timeout"
    BY <1>1, <2>1 DEF RequestIsOpen
  <2> QED BY <1>4, <2>1, <2>2 DEF RequestIsOpen
<1>7. AnswersAreTrue'
  BY <1>4, <1>5 DEF AnswersAreTrue, AnswerIsTrue
<1>8. AnswersShowRoot' /\ OneEntryPerChange'
  BY <1>1, <1>4 DEF AnswersShowRoot, Shows, OneEntryPerChange
<1>9. ResultsAreTrue'
  <2> SUFFICES ASSUME NEW d \in Caller, NEW k \in DOMAIN results'[d]
               PROVE  /\ results'[d][k].status \in {"ok", "unexpected"} => OnLedger(d, k)
                      /\ results'[d][k].status \in {"duplicate", "rejected"} => ~OnLedger(d, k)
                      /\ results'[d][k].status = "duplicate" => Processed(ChangeId(d, k))
    BY <1>4, <1>5 DEF ResultsAreTrue
  <2>1. CASE d # c \/ k \in DOMAIN results[c]
    BY <1>1, <2>1 DEF ResultsAreTrue
  <2>2. CASE d = c /\ k = Attempt(c)
    BY <1>1, <2>2
  <2> QED BY <1>1, <2>1, <2>2
<1>10. ReturnsOwnResult'
  <2> SUFFICES ASSUME NEW e \in ledger, Told(e)', ~ResultLeftOut(e)
               PROVE  results'[e.caller][e.attempt] = Own(e)
    BY <1>1 DEF ReturnsOwnResult, ResultLeftOut, Own
  <2>1. e.caller \in Caller
    BY <1>2
  <2>2. CASE e.caller # c \/ e.attempt \in DOMAIN results[c]
    BY <1>1, <2>1, <2>2 DEF ReturnsOwnResult, Told
  <2>3. CASE e.caller = c /\ e.attempt = Attempt(c)
    BY <1>1, <2>3 DEF Told
  <2> QED BY <1>1, <2>2, <2>3 DEF Told
<1> QED BY <1>3, <1>6, <1>7, <1>8, <1>9, <1>10

----------------------------------------------------------------------------
LEMMA InitEstablishes == Init => IInv
<1> SUFFICES ASSUME Init PROVE IInv
  OBVIOUS
<1> USE DEF Init
<1>1. job \in JobType
  BY JobAssumption
<1>2. \A c \in Caller : results[c] = << >> /\ DOMAIN results[c] = {}
  OBVIOUS
<1>3. results \in [Caller -> Seq(Result)]
  OBVIOUS
<1>4. TypeOK
  BY <1>1, <1>3 DEF TypeOK
<1> QED
  BY <1>2, <1>4 DEF IInv, RequestsAreOpen, AnswersAreTrue, AnswersShowRoot,
     OneEntryPerChange, ResultsAreTrue, ReturnsOwnResult

LEMMA BuildPreserves ==
  ASSUME IInv, NEW c \in Caller, Build(c)
  PROVE  IInv'
<1> USE DEF IInv
<1>1. /\ UNCHANGED <<job, results, network, ledger, replies>>
      /\ phase' \in [Caller -> {"new", "idle", "waiting", "refused"}]
      /\ \A d \in Caller : phase'[d] = "waiting" <=> phase[d] = "waiting"
  BY DEF Build, TypeOK
<1>2. \A d \in Caller : Attempt(d)' = Attempt(d)
  BY <1>1 DEF Attempt
<1>3. \A x \in network \union ledger \union replies : x.caller \in Caller
  BY DEF TypeOK, Request, Entry, Reply
<1>4. TypeOK'
  BY <1>1, <1>2, <1>3 DEF TypeOK
<1>5. /\ \A d, k : OnLedger(d, k)' = OnLedger(d, k)
      /\ \A d, k : ChangeId(d, k)' = ChangeId(d, k)
      /\ \A d, k : RequestOf(d, k)' = RequestOf(d, k)
  BY <1>1 DEF OnLedger, ChangeId, CommandId, RequestOf, Shape, FilterParties
<1>6. \A d, k : Processed(ChangeId(d, k))' = Processed(ChangeId(d, k))
  BY <1>1, <1>5 DEF Processed
<1>7. RequestsAreOpen'
  BY <1>1, <1>5 DEF RequestsAreOpen, RequestIsOpen
<1>8. AnswersAreTrue' /\ AnswersShowRoot'
  BY <1>1, <1>5, <1>6 DEF AnswersAreTrue, AnswerIsTrue, AnswersShowRoot, Shows
<1>9. OneEntryPerChange' /\ ReturnsOwnResult'
  BY <1>1, <1>5 DEF OneEntryPerChange, ReturnsOwnResult, Told, ResultLeftOut, Own
<1>10. ResultsAreTrue'
  BY <1>1, <1>5, <1>6 DEF ResultsAreTrue
<1> QED BY <1>4, <1>7, <1>8, <1>9, <1>10

(***************************************************************************)
(* A new request is numbered one above everything its caller sent before.  *)
(***************************************************************************)
LEMMA SubmitPreserves ==
  ASSUME IInv, NEW c \in Caller, Submit(c)
  PROVE  IInv'
<1> USE DEF IInv
<1>1. /\ results \in [Caller -> Seq(Result)]
      /\ phase \in [Caller -> {"new", "idle", "waiting", "refused"}]
      /\ job \in JobType
  BY DEF TypeOK
<1>2. PICK n \in Nat : n = Len(results[c]) /\ DOMAIN results[c] = 1 .. n
  BY <1>1, LenProperties
<1>3. PICK q \in Request : q = RequestOf(c, n + 1) /\ q.caller = c /\ q.attempt = n + 1
  <2>1. /\ Shape(c) \in {"AcsDelta", "LedgerEffects"}
        /\ FilterParties(c) \in SUBSET Party
        /\ n + 1 \in Nat
    BY <1>1, <1>2 DEF Shape, FilterParties, JobType
  <2>2. /\ RequestOf(c, n + 1) \in Request
        /\ RequestOf(c, n + 1).caller = c
        /\ RequestOf(c, n + 1).attempt = n + 1
    BY <2>1 DEF RequestOf, Request
  <2> QED BY <2>2
<1>4. /\ UNCHANGED <<job, results, ledger, replies>>
      /\ network' = network \union {q}
      /\ phase[c] = "idle" /\ phase'[c] = "waiting"
      /\ phase' \in [Caller -> {"new", "idle", "waiting", "refused"}]
      /\ \A d \in Caller : d # c => phase'[d] = phase[d]
  BY <1>1, <1>2, <1>3 DEF Submit
<1>5. /\ Attempt(c) = n /\ Attempt(c)' = n + 1
      /\ \A d \in Caller : d # c => Attempt(d)' = Attempt(d)
  <2>1. results' = results /\ Len(results[c]) = n /\ n + 0 = n
    BY <1>2, <1>4
  <2> QED BY <1>4, <2>1 DEF Attempt
<1>6. \A x \in network \union ledger \union replies :
        x.caller \in Caller /\ x.attempt \in 1 .. Attempt(x.caller)
  BY DEF TypeOK, Request, Entry, Reply
<1>7. \A x \in network \union ledger \union replies :
        x.caller = c => x.attempt \in 1 .. n
  BY <1>5, <1>6
<1>8. n + 1 \notin 1 .. n /\ \A k \in 1 .. n : k \in 1 .. (n + 1)
  BY <1>2
<1>9. \A x \in network \union ledger \union replies : x.attempt \in 1 .. Attempt(x.caller)'
  BY <1>5, <1>6, <1>7, <1>8
<1>10. TypeOK'
  <2>1. n + 1 \in 1 .. (n + 1)
    BY <1>2
  <2>2. q.attempt \in 1 .. Attempt(q.caller)'
    BY <1>5, <1>3, <2>1
  <2>3. /\ job' \in JobType /\ results' \in [Caller -> Seq(Result)]
        /\ network' \subseteq Request /\ ledger' \subseteq Entry /\ replies' \subseteq Reply
    BY <1>4, <1>3 DEF TypeOK
  <2>4. \A x \in network' \union ledger' \union replies' :
          x.attempt \in 1 .. Attempt(x.caller)'
    BY <1>4, <1>9, <2>2
  <2> QED BY <1>4, <2>3, <2>4 DEF TypeOK
<1>11. /\ \A d, k : OnLedger(d, k)' = OnLedger(d, k)
       /\ \A d, k : ChangeId(d, k)' = ChangeId(d, k)
       /\ \A d, k : RequestOf(d, k)' = RequestOf(d, k)
  BY <1>4 DEF OnLedger, ChangeId, CommandId, RequestOf, Shape, FilterParties
<1>12. \A d, k : Processed(ChangeId(d, k))' = Processed(ChangeId(d, k))
  BY <1>4, <1>11 DEF Processed
<1>13. RequestIsOpen(q)'
  <2>1. ~OnLedger(c, n + 1)
    BY <1>7, <1>8 DEF OnLedger
  <2>2. \A m \in replies : m.caller = c => m.attempt # n + 1
    BY <1>7, <1>8
  <2>3. n + 1 \notin DOMAIN results[c]
    BY <1>2, <1>8
  <2> QED BY <1>4, <1>3, <1>11, <2>1, <2>2, <2>3 DEF RequestIsOpen
<1>14. ASSUME NEW r \in network PROVE RequestIsOpen(r)'
  <2>1. RequestIsOpen(r)
    BY DEF RequestsAreOpen
  <2> QED BY <1>4, <1>11, <2>1 DEF RequestIsOpen
<1>15. RequestsAreOpen'
  BY <1>4, <1>13, <1>14 DEF RequestsAreOpen
<1>16. AnswersAreTrue' /\ AnswersShowRoot'
  BY <1>4, <1>11, <1>12 DEF AnswersAreTrue, AnswerIsTrue, AnswersShowRoot, Shows
<1>17. OneEntryPerChange' /\ ReturnsOwnResult'
  BY <1>4, <1>11 DEF OneEntryPerChange, ReturnsOwnResult, Told, ResultLeftOut, Own
<1>18. ResultsAreTrue'
  BY <1>4, <1>11, <1>12 DEF ResultsAreTrue
<1> QED BY <1>10, <1>15, <1>16, <1>17, <1>18

----------------------------------------------------------------------------
(***************************************************************************)
(* The participant takes a request off the network: it may enter it in the *)
(* ledger, and it may answer.                                              *)
(***************************************************************************)
LEMMA OthersStayOpen ==
  ASSUME IInv, NEW r \in network, NEW q \in network \ {r}
  PROVE  q.caller # r.caller \/ q.attempt # r.attempt
<1>1. q = RequestOf(q.caller, q.attempt) /\ r = RequestOf(r.caller, r.attempt)
  BY DEF IInv, RequestsAreOpen, RequestIsOpen
<1> QED BY <1>1

LEMMA LosePreserves ==
  ASSUME IInv, NEW r \in network, Lose(r)
  PROVE  IInv'
<1> USE DEF IInv
<1>1. network' \subseteq network /\ UNCHANGED <<job, phase, results, ledger, replies>>
  BY DEF Lose
<1>2. /\ \A d, k : OnLedger(d, k)' = OnLedger(d, k)
      /\ \A d, k : ChangeId(d, k)' = ChangeId(d, k)
      /\ \A d, k : RequestOf(d, k)' = RequestOf(d, k)
      /\ \A d : Attempt(d)' = Attempt(d)
  BY <1>1 DEF OnLedger, ChangeId, CommandId, RequestOf, Shape, FilterParties, Attempt
<1>3. \A d, k : Processed(ChangeId(d, k))' = Processed(ChangeId(d, k))
  BY <1>1, <1>2 DEF Processed
<1>4. TypeOK'
  BY <1>1, <1>2 DEF TypeOK
<1>5. RequestsAreOpen'
  BY <1>1, <1>2 DEF RequestsAreOpen, RequestIsOpen
<1>6. AnswersAreTrue' /\ AnswersShowRoot'
  BY <1>1, <1>2, <1>3 DEF AnswersAreTrue, AnswerIsTrue, AnswersShowRoot, Shows
<1>7. OneEntryPerChange' /\ ReturnsOwnResult'
  BY <1>1, <1>2 DEF OneEntryPerChange, ReturnsOwnResult, Told, ResultLeftOut, Own
<1>8. ResultsAreTrue'
  BY <1>1, <1>2, <1>3 DEF ResultsAreTrue
<1> QED BY <1>4, <1>5, <1>6, <1>7, <1>8

LEMMA RejectPreserves ==
  ASSUME IInv, NEW r \in network, Reject(r)
  PROVE  IInv'
<1> USE DEF IInv
<1>1. PICK verdict \in {"duplicate", "rejected"} :
        /\ verdict = "duplicate" => Processed(ChangeId(r.caller, r.attempt))
        /\ replies' = replies \union {ReplyTo(r, verdict, << >>)}
  BY DEF Reject
<1>2. network' = network \ {r} /\ UNCHANGED <<job, phase, results, ledger>>
  BY DEF Reject
<1>3. r \in Request /\ r.attempt \in 1 .. Attempt(r.caller) /\ RequestIsOpen(r)
  BY DEF TypeOK, RequestsAreOpen
<1>4. << >> \in Events
  <2>1. {} \in SUBSET Position /\ << >> \in [{} -> Event]
    OBVIOUS
  <2> QED BY <2>1 DEF Events
<1>5. PICK m \in Reply : /\ m = ReplyTo(r, verdict, << >>)
                         /\ m.caller = r.caller /\ m.attempt = r.attempt
                         /\ m.verdict = verdict
  <2>1. ReplyTo(r, verdict, << >>) \in Reply
    BY <1>3, <1>4 DEF ReplyTo, Reply, Request
  <2> QED BY <2>1 DEF ReplyTo
<1>6. replies' = replies \union {m}
  BY <1>1, <1>5
<1>7. /\ \A d, k : OnLedger(d, k)' = OnLedger(d, k)
      /\ \A d, k : ChangeId(d, k)' = ChangeId(d, k)
      /\ \A d, k : RequestOf(d, k)' = RequestOf(d, k)
      /\ \A d : Attempt(d)' = Attempt(d)
  BY <1>2 DEF OnLedger, ChangeId, CommandId, RequestOf, Shape, FilterParties, Attempt
<1>8. \A d, k : Processed(ChangeId(d, k))' = Processed(ChangeId(d, k))
  BY <1>2, <1>7 DEF Processed
<1>9. TypeOK'
  BY <1>2, <1>3, <1>5, <1>6, <1>7 DEF TypeOK
<1>10. ASSUME NEW q \in network \ {r} PROVE RequestIsOpen(q)'
  <2>1. RequestIsOpen(q) /\ (q.caller # r.caller \/ q.attempt # r.attempt)
    BY OthersStayOpen DEF RequestsAreOpen
  <2> QED BY <1>2, <1>5, <1>6, <1>7, <2>1 DEF RequestIsOpen
<1>11. RequestsAreOpen'
  BY <1>2, <1>10 DEF RequestsAreOpen
<1>12. AnswersAreTrue'
  <2>1. AnswerIsTrue(m)'
    BY <1>1, <1>3, <1>5, <1>7, <1>8 DEF AnswerIsTrue, RequestIsOpen
  <2>2. ASSUME NEW x \in replies PROVE AnswerIsTrue(x)'
    BY <1>7, <1>8 DEF AnswersAreTrue, AnswerIsTrue
  <2> QED BY <1>6, <2>1, <2>2 DEF AnswersAreTrue
<1>13. AnswersShowRoot'
  BY <1>1, <1>2, <1>5, <1>6 DEF AnswersShowRoot, Shows
<1>14. OneEntryPerChange' /\ ReturnsOwnResult'
  BY <1>2, <1>7 DEF OneEntryPerChange, ReturnsOwnResult, Told, ResultLeftOut, Own
<1>15. ResultsAreTrue'
  BY <1>2, <1>7, <1>8 DEF ResultsAreTrue
<1> QED BY <1>9, <1>11, <1>12, <1>13, <1>14, <1>15

(***************************************************************************)
(* A command takes effect: its change id had no entry yet, and no answer   *)
(* and no result says that it was rejected.                                *)
(***************************************************************************)
LEMMA CommitPreserves ==
  ASSUME IInv, NEW r \in network, Commit(r)
  PROVE  IInv'
<1> USE DEF IInv
<1>1. PICK tx \in Transactions(job[r.caller]) :
        /\ ledger' = ledger \union
             {[caller |-> r.caller, attempt |-> r.attempt, events |-> tx]}
        /\ replies' = replies \union {ReplyTo(r, "committed", View(tx, r))}
  BY DEF Commit
<1>2. /\ network' = network \ {r} /\ UNCHANGED <<job, phase, results>>
      /\ job[r.caller].actAs # {}
      /\ ~Processed(ChangeId(r.caller, r.attempt))
  BY DEF Commit
<1>3. r \in Request /\ r.attempt \in 1 .. Attempt(r.caller) /\ RequestIsOpen(r)
  BY DEF TypeOK, RequestsAreOpen
<1>4. r.caller \in Caller /\ r.attempt \in Nat /\ r = RequestOf(r.caller, r.attempt)
  BY <1>3 DEF Request, RequestIsOpen
<1>5. /\ tx \in Events /\ View(tx, r) \in Events
      /\ ShowsRoot(job[r.caller].method, tx, View(tx, r))
  BY <1>2, <1>4, ViewShowsRoot
<1>6. PICK m \in Reply : /\ m = ReplyTo(r, "committed", View(tx, r))
                         /\ m.caller = r.caller /\ m.attempt = r.attempt
                         /\ m.verdict = "committed"
                         /\ ShowsRoot(job[r.caller].method, tx, m.events)
  <2>1. ReplyTo(r, "committed", View(tx, r)) \in Reply
    BY <1>4, <1>5 DEF ReplyTo, Reply
  <2> QED BY <1>5, <2>1 DEF ReplyTo
<1>7. PICK e \in Entry : /\ e = [caller |-> r.caller, attempt |-> r.attempt, events |-> tx]
                         /\ e.caller = r.caller /\ e.attempt = r.attempt
                         /\ e.events = tx
  <2> DEFINE x == [caller |-> r.caller, attempt |-> r.attempt, events |-> tx]
  <2>1. x \in Entry /\ x.caller = r.caller /\ x.attempt = r.attempt /\ x.events = tx
    BY <1>4, <1>5 DEF Entry
  <2> HIDE DEF x
  <2>2. \E e \in Entry : /\ e = x /\ e.events = tx
                         /\ e.caller = r.caller /\ e.attempt = r.attempt
    BY <2>1
  <2> QED BY <2>2 DEF x
<1>8. replies' = replies \union {m} /\ ledger' = ledger \union {e}
  BY <1>1, <1>6, <1>7
<1>9. /\ \A d, k : ChangeId(d, k)' = ChangeId(d, k)
      /\ \A d, k : RequestOf(d, k)' = RequestOf(d, k)
      /\ \A d : Attempt(d)' = Attempt(d)
  BY <1>2 DEF ChangeId, CommandId, RequestOf, Shape, FilterParties, Attempt
<1>10. \A d, k : OnLedger(d, k)' <=> OnLedger(d, k) \/ (d = r.caller /\ k = r.attempt)
  BY <1>7, <1>8 DEF OnLedger
<1>11. \A d, k : Processed(ChangeId(d, k)) => Processed(ChangeId(d, k))'
  BY <1>8, <1>9 DEF Processed
<1>12. TypeOK'
  BY <1>2, <1>3, <1>6, <1>7, <1>8, <1>9 DEF TypeOK
<1>13. ASSUME NEW q \in network \ {r} PROVE RequestIsOpen(q)'
  <2>1. RequestIsOpen(q) /\ (q.caller # r.caller \/ q.attempt # r.attempt)
    BY OthersStayOpen DEF RequestsAreOpen
  <2> QED BY <1>2, <1>6, <1>8, <1>9, <1>10, <2>1 DEF RequestIsOpen
<1>14. RequestsAreOpen'
  BY <1>2, <1>13 DEF RequestsAreOpen
<1>15. AnswersAreTrue'
  <2>1. AnswerIsTrue(m)'
    BY <1>6, <1>10 DEF AnswerIsTrue
  <2>2. ASSUME NEW x \in replies PROVE AnswerIsTrue(x)'
    <3>1. AnswerIsTrue(x)
      BY DEF AnswersAreTrue
    <3>2. x.caller # r.caller \/ x.attempt # r.attempt
      BY <1>3 DEF RequestIsOpen
    <3> QED BY <1>10, <1>11, <3>1, <3>2 DEF AnswerIsTrue
  <2> QED BY <1>8, <2>1, <2>2 DEF AnswersAreTrue
<1>16. AnswersShowRoot'
  <2>1. \A x \in replies : x.verdict = "committed" =>
          x.caller # r.caller \/ x.attempt # r.attempt
    BY <1>3 DEF RequestIsOpen
  <2>2. \A f \in ledger : f.caller # r.caller \/ f.attempt # r.attempt
    BY <1>3 DEF RequestIsOpen, OnLedger
  <2>3. ASSUME NEW x \in replies', NEW f \in ledger'
        PROVE  Shows(x, f)'
    <3>1. CASE x \in replies /\ f \in ledger
      BY <1>2, <3>1 DEF AnswersShowRoot, Shows
    <3>2. CASE x = m /\ f = e
      BY <1>2, <1>6, <1>7, <3>2 DEF Shows
    <3>3. CASE x = m /\ f \in ledger
      BY <1>6, <2>2, <3>3 DEF Shows
    <3>4. CASE x \in replies /\ f = e
      BY <1>7, <2>1, <3>4 DEF Shows
    <3> QED BY <1>8, <3>1, <3>2, <3>3, <3>4
  <2> QED BY <2>3 DEF AnswersShowRoot
<1>17. OneEntryPerChange'
  <2>1. \A f \in ledger : ChangeId(f.caller, f.attempt) # ChangeId(e.caller, e.attempt)
    BY <1>2, <1>7 DEF Processed
  <2> QED BY <1>8, <1>9, <2>1 DEF OneEntryPerChange
<1>18. ResultsAreTrue'
  <2> SUFFICES ASSUME NEW d \in Caller, NEW k \in DOMAIN results[d]
               PROVE  /\ results[d][k].status \in {"ok", "unexpected"} => OnLedger(d, k)'
                      /\ results[d][k].status \in {"duplicate", "rejected"} => ~OnLedger(d, k)'
                      /\ results[d][k].status = "duplicate" => Processed(ChangeId(d, k))'
    BY <1>2, <1>9 DEF ResultsAreTrue
  <2>1. CASE d = r.caller /\ k = r.attempt
    BY <1>3, <2>1 DEF RequestIsOpen
  <2>2. CASE d # r.caller \/ k # r.attempt
    BY <1>10, <1>11, <2>2 DEF ResultsAreTrue
  <2> QED BY <2>1, <2>2
<1>19. ReturnsOwnResult'
  <2>1. ~Told(e)'
    BY <1>2, <1>3, <1>7 DEF Told, RequestIsOpen
  <2>2. ASSUME NEW f \in ledger
        PROVE  /\ Told(f)' = Told(f) /\ ResultLeftOut(f)' = ResultLeftOut(f)
               /\ Own(f)' = Own(f)
    BY <1>2 DEF Told, ResultLeftOut, Own
  <2> QED BY <1>2, <1>8, <2>1, <2>2 DEF ReturnsOwnResult
<1> QED BY <1>12, <1>14, <1>15, <1>16, <1>17, <1>18, <1>19

----------------------------------------------------------------------------
LEMMA ReceivePreserves ==
  ASSUME IInv, NEW c \in Caller, NEW m \in replies, Receive(c, m)
  PROVE  IInv'
<1> DEFINE res == IF m.verdict = "committed" THEN Value(job[c].method, m.events)
                  ELSE Failure(m.verdict)
<1>1. /\ phase[c] = "waiting"
      /\ m.caller = c /\ m.attempt = Attempt(c)
      /\ Return(c, res)
      /\ replies' \subseteq replies
  BY DEF Receive, AnswerOf
<1>2. /\ m.verdict \in {"committed", "duplicate", "rejected"}
      /\ AnswerIsTrue(m)
      /\ job[c].method \in Method
  BY DEF IInv, TypeOK, Reply, AnswersAreTrue, JobType
<1>3. \A r \in network : ~(r.caller = c /\ r.attempt = Attempt(c))
  BY <1>1 DEF IInv, RequestsAreOpen, RequestIsOpen
<1>4. CASE m.verdict = "committed"
  <2>1. OnLedger(c, Attempt(c))
    BY <1>1, <1>2, <1>4 DEF AnswerIsTrue
  <2>2. m.events \in Events
    BY DEF IInv, TypeOK, Reply
  <2>3. res \in {Ok("root"), Ok("child"), Ok("transaction"), Failure("unexpected")}
    BY <1>4, <2>2, ValueIsResult
  <2>4. res \in Result /\ res.status \in {"ok", "unexpected"}
    BY <2>3 DEF Ok, Failure, Result
  <2>5. ASSUME NEW e \in ledger, e.caller = c, e.attempt = Attempt(c), ~ResultLeftOut(e)
        PROVE  res = Own(e)
    <3>1. ShowsRoot(job[c].method, e.events, m.events)
      BY <1>1, <1>4, <2>5 DEF IInv, AnswersShowRoot, Shows
    <3>2. job[c].method = "execute_exercise" => e.events[1].result
      BY <2>5 DEF ResultLeftOut
    <3> QED BY <1>2, <1>4, <2>5, <3>1, <3>2, ValueIsOwn DEF Own
  <2> QED
    <3> HIDE DEF res
    <3> QED BY <1>1, <1>3, <2>1, <2>4, <2>5, ReturnPreserves
<1>5. CASE m.verdict # "committed"
  <2>1. res = Failure(m.verdict)
    BY <1>5
  <2>2. /\ res \in Result /\ res.status = m.verdict
        /\ res.status \notin {"ok", "unexpected"}
    BY <1>2, <1>5, <2>1 DEF Failure, Result
  <2>3. /\ ~OnLedger(c, Attempt(c))
        /\ m.verdict = "duplicate" => Processed(ChangeId(c, Attempt(c)))
    BY <1>1, <1>2, <1>5 DEF AnswerIsTrue
  <2>4. \A e \in ledger : ~(e.caller = c /\ e.attempt = Attempt(c))
    BY <2>3 DEF OnLedger
  <2> QED
    <3> HIDE DEF res
    <3> QED BY <1>1, <1>3, <2>2, <2>3, <2>4, ReturnPreserves
<1> QED BY <1>4, <1>5

LEMMA TimeOutPreserves ==
  ASSUME IInv, NEW c \in Caller, TimeOut(c)
  PROVE  IInv'
<1>1. /\ phase[c] = "waiting" /\ Return(c, Failure("timeout")) /\ replies' \subseteq replies
  BY DEF TimeOut
<1>2. PICK res \in Result : /\ res = Failure("timeout")
                            /\ res.status = "timeout" /\ res.value = "none"
  <2>1. Failure("timeout") \in Result
    BY DEF Failure, Result
  <2>2. Failure("timeout").status = "timeout" /\ Failure("timeout").value = "none"
    BY DEF Failure
  <2> QED BY <2>1, <2>2
<1> QED BY <1>1, <1>2, ReturnPreserves

LEMMA StutterPreserves == IInv /\ UNCHANGED vars => IInv'
<1> SUFFICES ASSUME IInv, UNCHANGED vars PROVE IInv'
  OBVIOUS
<1>1. UNCHANGED <<job, phase, results, network, ledger, replies>>
  BY DEF vars
<1>2. /\ \A d, k : OnLedger(d, k)' = OnLedger(d, k)
      /\ \A d, k : ChangeId(d, k)' = ChangeId(d, k)
      /\ \A d, k : RequestOf(d, k)' = RequestOf(d, k)
      /\ \A d : Attempt(d)' = Attempt(d)
  BY <1>1 DEF OnLedger, ChangeId, CommandId, RequestOf, Shape, FilterParties, Attempt
<1>3. \A d, k : Processed(ChangeId(d, k))' = Processed(ChangeId(d, k))
  BY <1>1, <1>2 DEF Processed
<1> USE DEF IInv
<1>4. TypeOK'
  BY <1>1, <1>2 DEF TypeOK
<1>5. RequestsAreOpen' /\ AnswersShowRoot'
  BY <1>1, <1>2 DEF RequestsAreOpen, RequestIsOpen, AnswersShowRoot, Shows
<1>6. AnswersAreTrue' /\ ResultsAreTrue'
  BY <1>1, <1>2, <1>3 DEF AnswersAreTrue, AnswerIsTrue, ResultsAreTrue
<1>7. OneEntryPerChange' /\ ReturnsOwnResult'
  BY <1>1, <1>2 DEF OneEntryPerChange, ReturnsOwnResult, Told, ResultLeftOut, Own
<1> QED BY <1>4, <1>5, <1>6, <1>7

LEMMA NextPreserves == IInv /\ [Next]_vars => IInv'
<1> SUFFICES ASSUME IInv, Next PROVE IInv'
  BY StutterPreserves
<1>1. ASSUME NEW c \in Caller, Build(c) \/ Submit(c) \/ TimeOut(c) PROVE IInv'
  BY <1>1, BuildPreserves, SubmitPreserves, TimeOutPreserves
<1>2. ASSUME NEW c \in Caller, NEW m \in replies, Receive(c, m) PROVE IInv'
  BY <1>2, ReceivePreserves
<1>3. ASSUME NEW r \in network, Commit(r) \/ Reject(r) \/ Lose(r) PROVE IInv'
  BY <1>3, CommitPreserves, RejectPreserves, LosePreserves
<1> QED BY <1>1, <1>2, <1>3 DEF Next

THEOREM Invariance == Spec => []IInv
  BY InitEstablishes, NextPreserves, PTL DEF Spec

----------------------------------------------------------------------------
(***************************************************************************)
(* Type correctness: requests, answers and ledger entries come from calls  *)
(* that were made.                                                         *)
(***************************************************************************)
THEOREM TypeCorrect == Spec => []TypeOK
<1>1. IInv => TypeOK
  BY DEF IInv
<1> QED BY <1>1, Invariance, PTL

(***************************************************************************)
(* A command under an id of its own takes effect at most once, for any     *)
(* number of callers that run it and of calls they make.                   *)
(***************************************************************************)
THEOREM NamedCommandsOnce == Spec => []NamedOnce
<1>1. IInv => NamedOnce
  <2> SUFFICES ASSUME IInv, NEW e \in ledger, NEW f \in ledger,
                      SameNamed(e.caller, f.caller)
               PROVE  e = f
    BY DEF NamedOnce
  <2>1. ChangeId(e.caller, e.attempt) = ChangeId(f.caller, f.attempt)
    BY DEF SameNamed, ChangeId, CommandId
  <2> QED BY <2>1 DEF IInv, OneEntryPerChange
<1> QED BY <1>1, Invariance, PTL

(***************************************************************************)
(* What a call returned never becomes untrue, whatever arrives later.      *)
(***************************************************************************)
THEOREM ResultsStayTrue == Spec => []ResultsAreTrue
<1>1. IInv => ResultsAreTrue
  BY DEF IInv
<1> QED BY <1>1, Invariance, PTL

(***************************************************************************)
(* A call returns the result of its own command, unless that is an         *)
(* exercise whose result the participant has left out.                     *)
(***************************************************************************)
THEOREM OwnResults == Spec => []ReturnsOwnResult
<1>1. IInv => ReturnsOwnResult
  BY DEF IInv
<1> QED BY <1>1, Invariance, PTL

=============================================================================
