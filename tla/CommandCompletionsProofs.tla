---------------------- MODULE CommandCompletionsProofs ----------------------
(***************************************************************************)
(* Proofs about CommandCompletions, for every set of commands, every       *)
(* number of attempts and every order of requests, completions, breaks and *)
(* prunings: the verdicts of the application are true, and it counts every *)
(* completion once.                                                        *)
(***************************************************************************)
EXTENDS CommandCompletions, FiniteSetTheorems, SequenceTheorems, TLAPS

----------------------------------------------------------------------------
(***************************************************************************)
(* The completions of a command, those up to an offset that are            *)
(* rejections, and its requests that are still under way.                  *)
(***************************************************************************)
Of(c) == {o \in 1 .. End : log[o].command = c}

Rejections(c, n) == {o \in 1 .. n : log[o].command = c /\ log[o].status = "rejected"}

Waiting(c) == {r \in requests : r.command = c}

Resume == IF offset = None THEN 0 ELSE offset

(***************************************************************************)
(* Every completion and every request under way is of an attempt of its    *)
(* own.  A command has taken effect exactly if one of its completions is   *)
(* no rejection.  Between the offset and the place the stream has come to  *)
(* there is no completion of this application.                             *)
(***************************************************************************)
AttemptsBound ==
  /\ IsFiniteSet(requests)
  /\ \A c \in Command : Cardinality(Of(c)) + Cardinality(Waiting(c)) <= attempts[c]

EffectsAreLogged ==
  \A c \in Command :
    /\ effects[c] \in {0, 1}
    /\ effects[c] = 0 <=> \A o \in Of(c) : log[o].status = "rejected"

StreamIsAhead ==
  /\ offset = None => stream = None /\ ~gap /\ \A c \in Command : attempts[c] = 0
  /\ stream # None =>
       /\ offset # None /\ offset <= stream
       /\ \A o \in offset + 1 .. stream : log[o].command \notin Command

RejectionsBound == \A c \in Command : rejections[c] <= Cardinality(Rejections(c, Resume))

NewIsUntried == \A c \in Command : verdict[c] = "new" => attempts[c] = 0

IInv ==
  /\ TypeOK
  /\ AttemptsBound
  /\ EffectsAreLogged
  /\ StreamIsAhead
  /\ RejectionsBound
  /\ NewIsUntried
  /\ EachCountedOnce
  /\ VerdictsAreTrue

----------------------------------------------------------------------------
(***************************************************************************)
(* Facts about the sets that are counted.                                  *)
(***************************************************************************)
LEMMA Finite ==
  ASSUME TypeOK, IsFiniteSet(requests), NEW c, NEW n \in 0 .. End
  PROVE  /\ IsFiniteSet(Of(c)) /\ Cardinality(Of(c)) \in Nat
         /\ IsFiniteSet(Rejections(c, n)) /\ Cardinality(Rejections(c, n)) \in Nat
         /\ IsFiniteSet(Waiting(c)) /\ Cardinality(Waiting(c)) \in Nat
         /\ Rejections(c, n) \subseteq Of(c)
         /\ Cardinality(Rejections(c, n)) <= Cardinality(Of(c))
         /\ Cardinality(Rejections(c, n)) = Cardinality(Of(c)) => Rejections(c, n) = Of(c)
<1>1. End \in Nat /\ n \in Nat /\ n <= End
  BY LenProperties DEF TypeOK, End
<1>2. IsFiniteSet(1 .. End) /\ IsFiniteSet(1 .. n)
  BY <1>1, FS_Interval
<1>3. Of(c) \subseteq 1 .. End /\ Rejections(c, n) \subseteq 1 .. n /\ Waiting(c) \subseteq requests
  BY DEF Of, Rejections, Waiting
<1>4. Rejections(c, n) \subseteq Of(c)
  BY <1>1 DEF Rejections, Of
<1>5. IsFiniteSet(Of(c)) /\ IsFiniteSet(Rejections(c, n)) /\ IsFiniteSet(Waiting(c))
  BY <1>2, <1>3, FS_Subset
<1>6. /\ Cardinality(Of(c)) \in Nat /\ Cardinality(Rejections(c, n)) \in Nat
      /\ Cardinality(Waiting(c)) \in Nat
  BY <1>5, FS_CardinalityType
<1>7. /\ Cardinality(Rejections(c, n)) <= Cardinality(Of(c))
      /\ Cardinality(Of(c)) = Cardinality(Rejections(c, n)) => Of(c) = Rejections(c, n)
  BY <1>4, <1>5, FS_Subset
<1> QED BY <1>4, <1>5, <1>6, <1>7

LEMMA Types ==
  ASSUME TypeOK
  PROVE  /\ End \in Nat
         /\ \A o \in 1 .. End : log[o] \in Logged
         /\ \A n \in 0 .. End : n \in Nat /\ n <= End
         /\ Resume \in 0 .. End
         /\ \A c \in Command : attempts[c] \in Nat /\ rejections[c] \in Nat /\ effects[c] \in Nat
<1>1. End \in Nat
  BY LenProperties DEF TypeOK, End
<1>2. \A o \in 1 .. End : log[o] \in Logged
  BY ElementOfSeq DEF TypeOK, End
<1> QED BY <1>1, <1>2 DEF TypeOK, Resume

(***************************************************************************)
(* The stream is asked for the parties of all commands: it leaves out the  *)
(* completions of other applications only.                                 *)
(***************************************************************************)
LEMMA OwnAreVisible ==
  ASSUME TypeOK, NEW o \in 1 .. End
  PROVE  Visible(o) <=> log[o].command \in Command
<1>1. log[o].command \in Command \union {None}
  BY Types DEF Logged
<1>2. ASSUME NEW c \in Command
      PROVE  Acting[c] # {} /\ Acting[c] \subseteq Parties({"commands", "reassignment"})
  BY <1>2, CommandAssumption DEF Parties
<1>3. None \notin Command
  BY CommandAssumption
<1> QED BY <1>1, <1>2, <1>3 DEF Visible, CompletionStream

----------------------------------------------------------------------------
LEMMA InitEstablishes == Init => IInv
<1> SUFFICES ASSUME Init PROVE IInv
  OBVIOUS
<1> USE DEF Init
<1>1. End = 0 /\ log \in Seq(Logged)
  BY EmptySeq DEF End
<1>2. TypeOK
  <2>1. requests \in SUBSET Request /\ pruned \in 0 .. End /\ breaks \in 0 .. MaxBreaks
    BY <1>1, BoundsAssumption
  <2>2. /\ effects \in [Command -> Nat] /\ attempts \in [Command -> Nat] /\ rejections \in [Command -> Nat]
        /\ verdict \in [Command -> {"new", "pending", "succeeded", "failed", "stopped"}]
    OBVIOUS
  <2> QED BY <1>1, <2>1, <2>2 DEF TypeOK
<1>3. ASSUME NEW c \in Command
      PROVE  /\ Of(c) = {} /\ Cardinality(Of(c)) = 0
             /\ Cardinality(Waiting(c)) = 0
             /\ Cardinality(Rejections(c, Resume)) = 0
  <2>1. Of(c) = {} /\ Waiting(c) = {}
    BY <1>1 DEF Of, Waiting
  <2>2. Resume = 0
    BY DEF Resume
  <2>3. Rejections(c, Resume) = {}
    BY <2>2 DEF Rejections
  <2> QED BY <2>1, <2>3, FS_EmptySet
<1>4. IsFiniteSet({}) /\ Cardinality({}) = 0
  BY FS_EmptySet
<1>5. AttemptsBound /\ EffectsAreLogged /\ StreamIsAhead
  <2>1. AttemptsBound
    BY <1>3, <1>4 DEF AttemptsBound
  <2>2. EffectsAreLogged
    BY <1>3 DEF EffectsAreLogged
  <2> QED BY <2>1, <2>2 DEF StreamIsAhead
<1>6. RejectionsBound
  BY <1>3 DEF RejectionsBound
<1>7. \A c : Seen(c) = {}
  BY DEF Seen
<1>8. EachCountedOnce
  <2>1. \A c : {o \in Seen(c) : log[o].status = "rejected"} = {}
    BY <1>7
  <2> QED BY <1>4, <1>7, <2>1 DEF EachCountedOnce
<1> QED BY <1>2, <1>5, <1>6, <1>8 DEF IInv, VerdictsAreTrue, NewIsUntried

(***************************************************************************)
(* The log as it is: what an action that leaves it alone keeps.            *)
(***************************************************************************)
LEMMA SameLog ==
  ASSUME log' = log
  PROVE  /\ End' = End
         /\ \A c : Of(c)' = Of(c)
         /\ \A c : \A n : Rejections(c, n)' = Rejections(c, n)
BY DEF End, Of, Rejections

LEMMA SeenRejections ==
  ASSUME NEW c
  PROVE  {o \in Seen(c) : log[o].status = "rejected"} = Rejections(c, Resume)
BY DEF Seen, Rejections, Resume

----------------------------------------------------------------------------
LEMMA GetLedgerEndPreserves == IInv /\ GetLedgerEnd => IInv'
<1> SUFFICES ASSUME IInv, GetLedgerEnd PROVE IInv'
  OBVIOUS
<1> USE DEF GetLedgerEnd
<1>1. End \in Nat /\ TypeOK' /\ Resume = 0
  BY Types DEF IInv, TypeOK, Resume, End
<1>2. End' = End /\ (\A c : Of(c)' = Of(c) /\ Waiting(c)' = Waiting(c))
  BY SameLog DEF Waiting
<1>3. AttemptsBound' /\ EffectsAreLogged' /\ StreamIsAhead'
  BY <1>2, CommandAssumption, <1>1 DEF IInv, AttemptsBound, EffectsAreLogged, StreamIsAhead
<1>4. ASSUME NEW c \in Command
      PROVE  Of(c) = {} /\ rejections[c] = 0
  <2>1. attempts[c] = 0 /\ ~gap
    BY <1>4 DEF IInv, StreamIsAhead
  <2>2. /\ IsFiniteSet(Of(c)) /\ Cardinality(Of(c)) \in Nat
        /\ Cardinality(Waiting(c)) \in Nat
    <3>1. 0 \in 0 .. End /\ TypeOK /\ IsFiniteSet(requests)
      BY <1>1 DEF IInv, AttemptsBound
    <3> QED BY <3>1, Finite
  <2>3. Of(c) = {}
    <3>1. Cardinality(Of(c)) = 0
      BY <1>4, <2>1, <2>2 DEF IInv, AttemptsBound
    <3> QED BY <2>2, <3>1, FS_EmptySet
  <2>4. Rejections(c, 0) = {}
    BY DEF Rejections
  <2> QED BY <1>1, <1>4, <2>3, <2>4, Types, FS_EmptySet DEF IInv, RejectionsBound
<1>5. \A c \in Command : Rejections(c, Resume)' = {} /\ Seen(c)' = {}
  BY <1>1, <1>2, <1>4, CommandAssumption DEF Rejections, Seen, Of, Resume
<1>6. RejectionsBound'
  BY <1>4, <1>5, FS_EmptySet DEF RejectionsBound
<1>7. EachCountedOnce'
  <2>1. \A c \in Command : {o \in Seen(c)' : log'[o].status = "rejected"} = {}
    BY <1>5
  <2> QED BY <1>4, <1>5, <2>1, FS_EmptySet DEF EachCountedOnce
<1>8. VerdictsAreTrue' /\ NewIsUntried'
  BY DEF IInv, VerdictsAreTrue, NewIsUntried
<1> QED BY <1>1, <1>3, <1>6, <1>7, <1>8 DEF IInv

(***************************************************************************)
(* An action that changes neither the requests nor the ledger.             *)
(***************************************************************************)
LEMMA LedgerUnchanged ==
  ASSUME IInv, UNCHANGED <<requests, effects, log, attempts>>
  PROVE  AttemptsBound' /\ EffectsAreLogged'
<1>1. \A c : Of(c)' = Of(c) /\ Waiting(c)' = Waiting(c)
  BY SameLog DEF Waiting
<1> QED BY <1>1 DEF IInv, AttemptsBound, EffectsAreLogged

\* The application is told nothing.
LEMMA NothingRead ==
  ASSUME IInv, UNCHANGED <<requests, effects, log, verdict, attempts, rejections, offset, gap>>
  PROVE  /\ AttemptsBound' /\ EffectsAreLogged' /\ RejectionsBound'
         /\ NewIsUntried' /\ EachCountedOnce' /\ VerdictsAreTrue'
<1>1. AttemptsBound' /\ EffectsAreLogged'
  BY LedgerUnchanged
<1>2. Resume' = Resume
  BY DEF Resume
<1>3. \A c : Rejections(c, Resume)' = Rejections(c, Resume)
  BY <1>2, SameLog DEF Rejections
<1>4. RejectionsBound'
  BY <1>3 DEF IInv, RejectionsBound
<1>5. \A c : Seen(c)' = Seen(c)
  BY DEF Seen
<1>6. NewIsUntried' /\ EachCountedOnce' /\ VerdictsAreTrue'
  BY <1>5 DEF IInv, EachCountedOnce, VerdictsAreTrue, NewIsUntried
<1> QED BY <1>1, <1>4, <1>6

LEMMA GetCompletionStreamPreserves == IInv /\ GetCompletionStream => IInv'
<1> SUFFICES ASSUME IInv, GetCompletionStream PROVE IInv'
  OBVIOUS
<1> USE DEF GetCompletionStream
<1>1. /\ UNCHANGED <<requests, effects, log, pruned, verdict, attempts, rejections, breaks>>
      /\ offset # None /\ stream = None /\ offset \in 0 .. End /\ End \in Nat /\ End' = End
  BY Types DEF IInv, TypeOK, End
<1>2. AttemptsBound' /\ EffectsAreLogged' /\ VerdictsAreTrue' /\ NewIsUntried'
  BY <1>1, LedgerUnchanged DEF IInv, VerdictsAreTrue, NewIsUntried
<1>3. CASE CompletionStream(offset).begin_exclusive < pruned
  <2>1. offset' = End /\ gap' = TRUE /\ stream' = None
    BY <1>1, <1>3
  <2>2. TypeOK' /\ StreamIsAhead'
    BY <1>1, <2>1, CommandAssumption DEF IInv, TypeOK, StreamIsAhead
  <2>3. Resume = offset /\ Resume' = End /\ End # None
    BY <1>1, <2>1, CommandAssumption DEF Resume
  <2>4. ASSUME NEW c \in Command PROVE rejections'[c] <= Cardinality(Rejections(c, Resume)')
    <3>1. Rejections(c, Resume)' = Rejections(c, End)
      BY <1>1, <2>3 DEF Rejections
    <3>2. Rejections(c, offset) \subseteq Rejections(c, End)
      BY <1>1 DEF Rejections
    <3>3. /\ IsFiniteSet(Rejections(c, End)) /\ Cardinality(Rejections(c, End)) \in Nat
          /\ Cardinality(Rejections(c, offset)) \in Nat
      <4>1. TypeOK /\ IsFiniteSet(requests) /\ End \in 0 .. End
        BY <1>1 DEF IInv, AttemptsBound
      <4> QED BY <1>1, <4>1, Finite
    <3>4. Cardinality(Rejections(c, offset)) <= Cardinality(Rejections(c, End))
      BY <3>2, <3>3, FS_Subset
    <3>5. rejections[c] \in Nat /\ rejections[c] <= Cardinality(Rejections(c, offset))
      BY <2>3, Types DEF IInv, RejectionsBound
    <3> QED BY <1>1, <3>1, <3>3, <3>4, <3>5
  <2>5. RejectionsBound' /\ EachCountedOnce'
    BY <2>1, <2>4 DEF RejectionsBound, EachCountedOnce
  <2> QED BY <1>2, <2>2, <2>5 DEF IInv
<1>4. CASE ~(CompletionStream(offset).begin_exclusive < pruned)
  <2>1. stream' = offset /\ UNCHANGED <<offset, gap>>
    BY <1>4 DEF CompletionStream
  <2>2. TypeOK' /\ StreamIsAhead'
    BY <1>1, <2>1 DEF IInv, TypeOK, StreamIsAhead
  <2>3. RejectionsBound' /\ EachCountedOnce'
    BY <1>1, <2>1, NothingRead
  <2> QED BY <1>2, <2>2, <2>3 DEF IInv
<1> QED BY <1>3, <1>4

LEMMA PassOverPreserves == IInv /\ PassOver => IInv'
<1> SUFFICES ASSUME IInv, PassOver PROVE IInv'
  OBVIOUS
<1> USE DEF PassOver
<1>1. /\ stream # None /\ stream \in 0 .. End /\ stream < End /\ End' = End /\ End \in Nat
      /\ offset # None /\ offset \in 0 .. End
  BY Types DEF IInv, TypeOK, StreamIsAhead, Ahead, End
<1>2. stream + 1 \in 1 .. End
  BY <1>1
<1>3. log[stream + 1].command \notin Command
  BY <1>2, OwnAreVisible DEF IInv
<1>4. TypeOK'
  BY <1>1 DEF IInv, TypeOK
<1>5. StreamIsAhead'
  BY <1>1, <1>3, CommandAssumption DEF IInv, StreamIsAhead
<1> QED BY <1>4, <1>5, NothingRead DEF IInv

LEMMA ReceiveCheckpointPreserves == IInv /\ ReceiveCheckpoint => IInv'
<1> SUFFICES ASSUME IInv, ReceiveCheckpoint PROVE IInv'
  OBVIOUS
<1> USE DEF ReceiveCheckpoint
<1>1. /\ stream # None /\ stream \in 0 .. End /\ End' = End /\ End \in Nat
      /\ offset # None /\ offset \in 0 .. End /\ offset' = stream /\ offset <= stream
      /\ \A o \in offset + 1 .. stream : log[o].command \notin Command
  BY Types DEF IInv, TypeOK, StreamIsAhead, End
<1>2. TypeOK' /\ StreamIsAhead'
  BY <1>1 DEF IInv, TypeOK, StreamIsAhead
<1>3. AttemptsBound' /\ EffectsAreLogged' /\ VerdictsAreTrue' /\ NewIsUntried'
  BY <1>1, LedgerUnchanged DEF IInv, VerdictsAreTrue, NewIsUntried
<1>4. ASSUME NEW c \in Command
      PROVE  Rejections(c, Resume)' = Rejections(c, Resume) /\ Seen(c)' = Seen(c)
  <2>1. \A o \in 1 .. stream : log[o].command = c => o \in 1 .. offset
    BY <1>1
  <2> QED BY <1>1, <2>1 DEF Rejections, Seen, Resume
<1>5. RejectionsBound' /\ EachCountedOnce'
  BY <1>4 DEF IInv, RejectionsBound, EachCountedOnce
<1> QED BY <1>2, <1>3, <1>5 DEF IInv

(***************************************************************************)
(* A completion that is read: the rejections up to the new offset are      *)
(* those up to the old one, and it.                                        *)
(***************************************************************************)
LEMMA ReadOne ==
  ASSUME IInv, Ahead, Visible(stream + 1), NEW d \in Command
  PROVE  /\ stream + 1 \in 1 .. End /\ log[stream + 1] \in Logged /\ log[stream + 1].command \in Command
         /\ Rejections(d, Resume) \subseteq 1 .. stream
         /\ Cardinality(Rejections(d, stream + 1)) =
              Cardinality(Rejections(d, Resume))
              + IF log[stream + 1].command = d /\ log[stream + 1].status = "rejected" THEN 1 ELSE 0
         /\ {o \in 1 .. stream + 1 : log[o].command = d} =
              Seen(d) \union IF log[stream + 1].command = d THEN {stream + 1} ELSE {}
<1> DEFINE new == log[stream + 1]
<1>1. /\ stream # None /\ stream \in 0 .. End /\ stream < End /\ End \in Nat
      /\ offset # None /\ offset \in 0 .. End /\ offset <= stream /\ Resume = offset
      /\ \A o \in offset + 1 .. stream : log[o].command \notin Command
  BY Types DEF IInv, TypeOK, StreamIsAhead, Ahead, Resume
<1>2. stream + 1 \in 1 .. End
  BY <1>1
<1>3. new \in Logged /\ new.command \in Command
  BY <1>2, OwnAreVisible, Types DEF IInv
<1>4. \A o \in 1 .. stream + 1 : o \in 1 .. offset \/ o \in offset + 1 .. stream \/ o = stream + 1
  BY <1>1
<1>5. Rejections(d, Resume) \subseteq 1 .. stream /\ stream + 1 \notin Rejections(d, Resume)
  BY <1>1 DEF Rejections
<1>6. IsFiniteSet(Rejections(d, Resume)) /\ Cardinality(Rejections(d, Resume)) \in Nat
  <2>1. TypeOK /\ IsFiniteSet(requests) /\ Resume \in 0 .. End
    BY <1>1 DEF IInv, AttemptsBound
  <2> QED BY <2>1, Finite
<1>7. CASE new.command = d /\ new.status = "rejected"
  <2>1. Rejections(d, stream + 1) = Rejections(d, Resume) \union {stream + 1}
    BY <1>1, <1>4, <1>7 DEF Rejections
  <2>2. Cardinality(Rejections(d, stream + 1)) = Cardinality(Rejections(d, Resume)) + 1
    BY <1>5, <1>6, <2>1, FS_AddElement
  <2>3. {o \in 1 .. stream + 1 : log[o].command = d} = Seen(d) \union {stream + 1}
    BY <1>1, <1>4, <1>7 DEF Seen
  <2> QED BY <1>2, <1>3, <1>5, <1>7, <2>2, <2>3
<1>8. CASE ~(new.command = d /\ new.status = "rejected")
  <2>1. Rejections(d, stream + 1) = Rejections(d, Resume)
    BY <1>1, <1>4, <1>8 DEF Rejections
  <2>2. {o \in 1 .. stream + 1 : log[o].command = d} =
          Seen(d) \union IF new.command = d THEN {stream + 1} ELSE {}
    BY <1>1, <1>4 DEF Seen
  <2> QED BY <1>2, <1>3, <1>5, <1>6, <1>8, <2>1, <2>2
<1> QED BY <1>7, <1>8

(***************************************************************************)
(* All attempts of a command have been rejected: it has no effect, and no  *)
(* request of it is under way.                                             *)
(***************************************************************************)
LEMMA AllRejected ==
  ASSUME IInv, NEW c \in Command, NEW n \in 0 .. End, Cardinality(Rejections(c, n)) >= attempts[c]
  PROVE  effects[c] = 0 /\ Waiting(c) = {}
<1>1. TypeOK /\ IsFiniteSet(requests) /\ attempts[c] \in Nat
  BY Types DEF IInv, AttemptsBound
<1>2. /\ Cardinality(Of(c)) \in Nat /\ Cardinality(Rejections(c, n)) \in Nat
      /\ IsFiniteSet(Waiting(c)) /\ Cardinality(Waiting(c)) \in Nat
      /\ Cardinality(Rejections(c, n)) <= Cardinality(Of(c))
      /\ Cardinality(Rejections(c, n)) = Cardinality(Of(c)) => Rejections(c, n) = Of(c)
  BY <1>1, Finite
<1>3. Cardinality(Of(c)) + Cardinality(Waiting(c)) <= attempts[c]
  BY DEF IInv, AttemptsBound
<1>4. Cardinality(Waiting(c)) = 0 /\ Rejections(c, n) = Of(c)
  BY <1>1, <1>2, <1>3
<1>5. Waiting(c) = {}
  BY <1>2, <1>4, FS_EmptySet
<1>6. effects[c] = 0
  BY <1>4 DEF IInv, EffectsAreLogged, Rejections
<1> QED BY <1>5, <1>6

LEMMA ReceiveCompletionPreserves == IInv /\ ReceiveCompletion => IInv'
<1> SUFFICES ASSUME IInv, ReceiveCompletion PROVE IInv'
  OBVIOUS
<1> DEFINE m == log[stream + 1]
           c == m.command
           count == rejections[c] + IF m.status = "rejected" THEN 1 ELSE 0
<1>1. /\ UNCHANGED <<requests, effects, log, pruned, attempts, gap, breaks>>
      /\ Ahead /\ Visible(stream + 1)
  BY DEF ReceiveCompletion
<1>2. End' = End /\ AttemptsBound' /\ EffectsAreLogged'
  BY <1>1, LedgerUnchanged, SameLog
<1>3. CASE Converts("CompletionStreamResponse", m.flaw)
  <2>1. /\ rejections' = [rejections EXCEPT ![c] = count]
        /\ verdict' = [verdict EXCEPT ![c] = Judged(c, m.status, count)]
        /\ offset' = stream + 1 /\ stream' = stream + 1
    BY <1>3 DEF ReceiveCompletion
  <2>2. /\ stream + 1 \in 1 .. End /\ m \in Logged /\ c \in Command /\ stream \in Nat
        /\ End \in Nat /\ stream + 1 # None
    <3>1. stream + 1 \in 1 .. End /\ m \in Logged /\ c \in Command
      BY <1>1, ReadOne, OwnAreVisible, Types, SMTT(30) DEF IInv, Ahead, TypeOK
    <3> QED BY <1>1, <3>1, Types, CommandAssumption DEF IInv, TypeOK, Ahead
  <2>3. count \in Nat
    BY <2>2, Types DEF IInv
  <2>4. Judged(c, m.status, count) \in {"new", "pending", "succeeded", "failed", "stopped"}
    BY <2>2 DEF IInv, TypeOK, Judged
  <2>5. TypeOK'
    <3>1. rejections' \in [Command -> Nat]
      BY <2>1, <2>3 DEF IInv, TypeOK
    <3>2. verdict' \in [Command -> {"new", "pending", "succeeded", "failed", "stopped"}]
      BY <2>1, <2>4 DEF IInv, TypeOK
    <3> QED BY <1>1, <1>2, <2>1, <2>2, <3>1, <3>2 DEF IInv, TypeOK
  <2>6. StreamIsAhead' /\ NewIsUntried'
    <3>1. ASSUME NEW d \in Command, verdict'[d] = "new"
          PROVE  verdict[d] = "new"
      BY <2>1, <2>2, <3>1 DEF IInv, TypeOK, Judged
    <3> QED BY <1>1, <2>1, <2>2, <3>1 DEF IInv, StreamIsAhead, NewIsUntried
  <2>7. Resume' = stream + 1 /\ (\A d : Rejections(d, Resume)' = Rejections(d, stream + 1))
    BY <1>1, <2>1, <2>2 DEF Resume, Rejections
  <2>8. ASSUME NEW d \in Command
        PROVE  /\ rejections'[d] = rejections[d] + IF c = d /\ m.status = "rejected" THEN 1 ELSE 0
               /\ rejections[d] \in Nat /\ Cardinality(Rejections(d, Resume)) \in Nat
               /\ rejections[d] <= Cardinality(Rejections(d, Resume))
    <3>1. TypeOK /\ IsFiniteSet(requests) /\ Resume \in 0 .. End
      BY Types DEF IInv, AttemptsBound
    <3>2. Cardinality(Rejections(d, Resume)) \in Nat
      BY <3>1, Finite
    <3> QED BY <2>1, <2>2, <3>1, <3>2 DEF IInv, TypeOK, RejectionsBound
  <2>9. RejectionsBound'
    BY <1>1, <2>7, <2>8, ReadOne DEF RejectionsBound
  <2>10. EachCountedOnce'
    <3> SUFFICES ASSUME ~gap, NEW d \in Command
                 PROVE  /\ rejections'[d] = Cardinality({o \in Seen(d)' : log'[o].status = "rejected"})
                        /\ verdict'[d] \in {"new", "pending"} =>
                             \A o \in Seen(d)' : log'[o].status = "rejected"
      BY <1>1 DEF EachCountedOnce
    <3>1. Seen(d)' = {o \in 1 .. stream + 1 : log[o].command = d}
      BY <1>1, <2>1, <2>2 DEF Seen
    <3>2. {o \in Seen(d)' : log'[o].status = "rejected"} = Rejections(d, stream + 1)
      BY <1>1, <3>1 DEF Rejections
    <3>3. rejections[d] = Cardinality(Rejections(d, Resume))
      BY SeenRejections DEF IInv, EachCountedOnce
    <3>4. rejections'[d] = Cardinality(Rejections(d, stream + 1))
      BY <1>1, <2>8, <3>3, ReadOne
    <3>5. ASSUME verdict'[d] \in {"new", "pending"}, NEW o \in Seen(d)'
          PROVE  log[o].status = "rejected"
      <4>1. verdict[d] \in {"new", "pending"} /\ (c = d => m.status = "rejected")
        <5>1. m.status \in {"ok", "rejected", "duplicate"}
          BY <2>2 DEF Logged
        <5>2. CASE c # d
          BY <2>1, <3>5, <5>2 DEF IInv, TypeOK
        <5>3. CASE c = d
          <6>1. verdict'[d] = Judged(d, m.status, count)
            BY <2>1, <5>3 DEF IInv, TypeOK
          <6>2. Judged(d, m.status, count) \in {"new", "pending"}
            BY <3>5, <6>1
          <6>3. CASE verdict[d] = "pending"
            BY <5>1, <6>2, <6>3 DEF Judged
          <6>4. CASE verdict[d] # "pending"
            <7>1. attempts[d] = 0
              BY <6>2, <6>4 DEF Judged, IInv, NewIsUntried
            <7>2. stream + 1 \in Of(d)
              BY <2>2, <5>3 DEF Of
            <7>3. TypeOK /\ IsFiniteSet(requests) /\ 0 \in 0 .. End
              BY <2>2 DEF IInv, AttemptsBound
            <7>4. /\ IsFiniteSet(Of(d)) /\ Cardinality(Of(d)) \in Nat
                  /\ Cardinality(Waiting(d)) \in Nat
              BY <7>3, Finite
            <7>5. Cardinality(Of(d)) = 0
              BY <7>1, <7>4 DEF IInv, AttemptsBound
            <7> QED BY <7>2, <7>4, <7>5, FS_EmptySet
          <6> QED BY <6>3, <6>4
        <5> QED BY <5>2, <5>3
      <4>2. \A p \in Seen(d) : log[p].status = "rejected"
        BY <4>1 DEF IInv, EachCountedOnce
      <4>3. o \in Seen(d) \union IF c = d THEN {stream + 1} ELSE {}
        BY <1>1, <3>1, <3>5, ReadOne
      <4> QED BY <4>1, <4>2, <4>3
    <3> QED BY <1>1, <3>2, <3>4, <3>5
  <2>11. VerdictsAreTrue'
    <3> SUFFICES ASSUME NEW d \in Command
                 PROVE  /\ verdict'[d] = "succeeded" => effects[d] = 1
                        /\ verdict'[d] = "failed" =>
                             effects[d] = 0 /\ \A r \in requests : r.command # d
      BY <1>1 DEF VerdictsAreTrue
    <3>1. CASE verdict'[d] = verdict[d]
      BY <3>1 DEF IInv, VerdictsAreTrue
    <3>2. CASE verdict'[d] # verdict[d]
      <4>1. d = c /\ verdict'[c] = Judged(c, m.status, count) /\ verdict[c] = "pending"
        BY <2>1, <2>2, <3>2 DEF IInv, TypeOK, Judged
      <4>2. CASE m.status \in {"ok", "duplicate"}
        <5>1. stream + 1 \in Of(c) /\ m.status # "rejected"
          BY <2>2, <4>2 DEF Of
        <5> QED BY <2>2, <4>1, <4>2, <5>1 DEF IInv, EffectsAreLogged, Judged
      <4>3. CASE m.status \notin {"ok", "duplicate"} /\ count = attempts[c]
        <5>1. m.status = "rejected"
          BY <2>2, <4>3 DEF Logged
        <5>2. Cardinality(Rejections(c, stream + 1)) = Cardinality(Rejections(c, Resume)) + 1
          BY <1>1, <2>2, <5>1, ReadOne
        <5>3. Cardinality(Rejections(c, stream + 1)) >= attempts[c]
          BY <2>2, <2>8, <4>3, <5>1, <5>2
        <5>4. effects[c] = 0 /\ Waiting(c) = {} /\ stream + 1 \in 0 .. End
          BY <2>2, <5>3, AllRejected
        <5> QED BY <4>1, <4>3, <5>4 DEF Judged, Waiting
      <4>4. CASE m.status \notin {"ok", "duplicate"} /\ count # attempts[c]
        BY <4>1, <4>4 DEF Judged
      <4> QED BY <4>2, <4>3, <4>4
    <3> QED BY <3>1, <3>2
  <2> QED BY <1>2, <2>5, <2>6, <2>9, <2>10, <2>11 DEF IInv
<1>4. CASE ~Converts("CompletionStreamResponse", m.flaw)
  <2>1. /\ verdict' = [d \in Command |-> IF verdict[d] \in {"new", "pending"} THEN "stopped" ELSE verdict[d]]
        /\ stream' = None /\ UNCHANGED <<rejections, offset>>
    BY <1>4 DEF ReceiveCompletion
  <2>2. TypeOK' /\ StreamIsAhead'
    BY <1>1, <1>2, <2>1 DEF IInv, TypeOK, StreamIsAhead, Ahead
  <2>3. Resume' = Resume /\ (\A d : Rejections(d, Resume)' = Rejections(d, Resume) /\ Seen(d)' = Seen(d))
    BY <1>1, <2>1 DEF Resume, Rejections, Seen
  <2>4. RejectionsBound'
    BY <2>1, <2>3 DEF IInv, RejectionsBound
  <2>5. EachCountedOnce'
    BY <1>1, <2>1, <2>3 DEF IInv, EachCountedOnce
  <2>6. VerdictsAreTrue' /\ NewIsUntried'
    BY <1>1, <2>1 DEF IInv, VerdictsAreTrue, NewIsUntried
  <2> QED BY <1>2, <2>2, <2>4, <2>5, <2>6 DEF IInv
<1> QED BY <1>3, <1>4

(***************************************************************************)
(* One more attempt, with at most one more request.                        *)
(***************************************************************************)
LEMMA AttemptPreserves ==
  ASSUME IInv, NEW c \in Command, Attempt(c), requests' \in {requests, requests \union {Submission(c)}}
  PROVE  IInv'
<1>1. /\ offset # None /\ verdict[c] \in {"new", "pending"}
      /\ verdict' = [verdict EXCEPT ![c] = "pending"]
      /\ attempts' = [attempts EXCEPT ![c] = attempts[c] + 1]
      /\ UNCHANGED <<effects, log, pruned, rejections, offset, stream, gap, breaks>>
  BY DEF Attempt
<1>2. End' = End /\ (\A d : Of(d)' = Of(d) /\ Seen(d)' = Seen(d) /\ Rejections(d, Resume)' = Rejections(d, Resume))
  BY <1>1, SameLog DEF Seen, Resume, Rejections
<1>3. TypeOK'
  <2>1. Submission(c) \in Request
    BY Types DEF IInv, Submission, Request
  <2> QED BY <1>1, <1>2, <2>1, Types DEF IInv, TypeOK
<1>4. AttemptsBound'
  <2>1. IsFiniteSet(requests)'
    BY FS_AddElement DEF IInv, AttemptsBound
  <2>2. ASSUME NEW d \in Command
        PROVE  Cardinality(Of(d)') + Cardinality(Waiting(d)') <= attempts'[d]
    <3>1. TypeOK /\ IsFiniteSet(requests) /\ 0 \in 0 .. End
      BY Types DEF IInv, AttemptsBound
    <3>2. /\ Cardinality(Of(d)) \in Nat /\ IsFiniteSet(Waiting(d)) /\ Cardinality(Waiting(d)) \in Nat
      BY <3>1, Finite
    <3>3. Cardinality(Of(d)) + Cardinality(Waiting(d)) <= attempts[d] /\ attempts[d] \in Nat
      BY Types DEF IInv, AttemptsBound
    <3>4. CASE d # c
      <4>1. Waiting(d)' = Waiting(d)
        BY <3>4 DEF Waiting, Submission
      <4> QED BY <1>1, <1>2, <3>3, <3>4, <4>1 DEF IInv, TypeOK
    <3>5. CASE d = c
      <4>1. Waiting(c)' \in {Waiting(c), Waiting(c) \union {Submission(c)}}
        BY DEF Waiting, Submission
      <4>2. Cardinality(Waiting(c)') <= Cardinality(Waiting(c)) + 1 /\ Cardinality(Waiting(c)') \in Nat
        BY <3>2, <3>5, <4>1, FS_AddElement
      <4>3. attempts'[c] = attempts[c] + 1
        BY <1>1 DEF IInv, TypeOK
      <4> QED BY <1>2, <3>2, <3>3, <3>5, <4>2, <4>3
    <3> QED BY <3>4, <3>5
  <2> QED BY <2>1, <2>2 DEF AttemptsBound
<1>5. EffectsAreLogged' /\ StreamIsAhead'
  BY <1>1, <1>2 DEF IInv, EffectsAreLogged, StreamIsAhead
<1>6. RejectionsBound' /\ EachCountedOnce'
  BY <1>1, <1>2 DEF IInv, TypeOK, RejectionsBound, EachCountedOnce
<1>7. NewIsUntried' /\ VerdictsAreTrue'
  <2>1. ASSUME NEW d \in Command, d # c
        PROVE  verdict'[d] = verdict[d] /\ attempts'[d] = attempts[d]
    BY <1>1, <2>1 DEF IInv, TypeOK
  <2>2. verdict'[c] = "pending"
    BY <1>1 DEF IInv, TypeOK
  <2>3. \A r \in requests' : r \in requests \/ r.command = c
    BY DEF Submission
  <2> QED BY <1>1, <2>1, <2>2, <2>3 DEF IInv, NewIsUntried, VerdictsAreTrue
<1> QED BY <1>3, <1>4, <1>5, <1>6, <1>7 DEF IInv

LEMMA SubmitPreserves == IInv /\ Submit => IInv'
BY AttemptPreserves DEF Submit, SubmitRequest, SubmitReassignment, Lost

----------------------------------------------------------------------------
(***************************************************************************)
(* One more completion: behind all that the application has read.          *)
(***************************************************************************)
LEMMA Logs ==
  ASSUME IInv, NEW e \in Logged, log' = Append(log, e), UNCHANGED <<offset, stream>>
  PROVE  /\ End' = End + 1 /\ End \in Nat /\ log' \in Seq(Logged) /\ log'[End + 1] = e
         /\ \A o \in 1 .. End : log'[o] = log[o]
         /\ \A c : Of(c)' = Of(c) \union IF e.command = c THEN {End + 1} ELSE {}
         /\ \A c : Rejections(c, Resume)' = Rejections(c, Resume) /\ Seen(c)' = Seen(c)
         /\ \A c : \A o \in Seen(c) : log'[o] = log[o]
         /\ pruned \in 0 .. End' /\ offset \in (0 .. End') \union {None} /\ stream \in (0 .. End') \union {None}
         /\ stream # None => \A o \in offset + 1 .. stream : log'[o] = log[o]
<1>1. End \in Nat /\ log \in Seq(Logged) /\ Resume \in 0 .. End /\ TypeOK
  BY Types DEF IInv, TypeOK
<1>2. End' = End + 1 /\ log' \in Seq(Logged) /\ log'[End + 1] = e /\ \A o \in 1 .. End : log'[o] = log[o]
  BY <1>1, AppendProperties DEF End
<1>3. \A c : Of(c)' = Of(c) \union IF e.command = c THEN {End + 1} ELSE {}
  <2>1. 1 .. End' = (1 .. End) \union {End + 1}
    BY <1>1, <1>2
  <2>2. \A c : Of(c)' = {o \in (1 .. End) \union {End + 1} : log'[o].command = c}
    BY <2>1 DEF Of
  <2>3. \A c : Of(c) = {o \in 1 .. End : log'[o].command = c}
    BY <1>2 DEF Of
  <2> QED BY <1>2, <2>2, <2>3
<1>4. Resume' = Resume /\ 1 .. Resume \subseteq 1 .. End
  BY <1>1 DEF Resume
<1>5. \A c : Rejections(c, Resume)' = Rejections(c, Resume)
  BY <1>2, <1>4 DEF Rejections
<1>6. \A c : Seen(c) \subseteq 1 .. Resume /\ Seen(c)' = Seen(c)
  BY <1>2, <1>4 DEF Seen, Resume
<1>7. /\ pruned \in 0 .. End' /\ offset \in (0 .. End') \union {None}
      /\ stream \in (0 .. End') \union {None}
  BY <1>1, <1>2 DEF TypeOK
<1>8. stream # None => \A o \in offset + 1 .. stream : o \in 1 .. End
  BY <1>1, CommandAssumption DEF IInv, StreamIsAhead, TypeOK
<1> QED BY <1>1, <1>2, <1>3, <1>4, <1>5, <1>6, <1>7, <1>8

LEMMA LogsKeepCounts ==
  ASSUME IInv, NEW e \in Logged, log' = Append(log, e),
         UNCHANGED <<offset, stream, gap, rejections, verdict>>
  PROVE  RejectionsBound' /\ EachCountedOnce'
<1>1. \A c : Rejections(c, Resume)' = Rejections(c, Resume) /\ Seen(c)' = Seen(c)
  BY Logs
<1>2. \A c : \A o \in Seen(c) : log'[o] = log[o]
  BY Logs
<1>3. \A c : {o \in Seen(c)' : log'[o].status = "rejected"} = {o \in Seen(c) : log[o].status = "rejected"}
  BY <1>1, <1>2
<1>4. RejectionsBound'
  BY <1>1 DEF IInv, RejectionsBound
<1>5. EachCountedOnce'
  BY <1>1, <1>2, <1>3 DEF IInv, EachCountedOnce
<1> QED BY <1>4, <1>5

LEMMA ForeignPreserves == IInv /\ Foreign => IInv'
<1> SUFFICES ASSUME IInv, Foreign PROVE IInv'
  OBVIOUS
<1>0. PICK e : e = [command |-> None, status |-> "ok", flaw |-> NoFlaw]
  OBVIOUS
<1>1. /\ e \in Logged /\ e.command = None /\ log' = Append(log, e)
      /\ UNCHANGED <<requests, effects, pruned, verdict, attempts, rejections, offset, stream, gap, breaks>>
  BY <1>0 DEF Foreign, Logged
<1>l. /\ End' = End + 1 /\ \A o \in 1 .. End : log'[o] = log[o]
      /\ \A c : Of(c)' = Of(c) \union IF e.command = c THEN {End + 1} ELSE {}
  BY <1>1, Logs
<1>2. \A c \in Command : Of(c)' = Of(c)
  BY <1>1, <1>l, CommandAssumption
<1>3. \A c \in Command : Waiting(c)' = Waiting(c)
  BY <1>1 DEF Waiting
<1>4. TypeOK'
  BY <1>1, Logs DEF IInv, TypeOK
<1>5. AttemptsBound'
  BY <1>1, <1>2, <1>3 DEF IInv, AttemptsBound
<1>6. EffectsAreLogged'
  <2>1. \A c \in Command : Of(c) \subseteq 1 .. End
    BY DEF Of
  <2>2. \A c \in Command : (\A o \in Of(c)' : log'[o].status = "rejected") <=> \A o \in Of(c) : log[o].status = "rejected"
    BY <1>2, <1>l, <2>1
  <2> QED BY <1>1, <2>2 DEF IInv, EffectsAreLogged
<1>7. StreamIsAhead'
  BY <1>1, Logs DEF IInv, StreamIsAhead
<1>8. NewIsUntried' /\ VerdictsAreTrue'
  BY <1>1 DEF IInv, NewIsUntried, VerdictsAreTrue
<1>9. RejectionsBound' /\ EachCountedOnce'
  BY <1>1, LogsKeepCounts
<1> QED BY <1>4, <1>5, <1>6, <1>7, <1>8, <1>9 DEF IInv

LEMMA ProcessPreserves == IInv /\ Process => IInv'
<1> SUFFICES ASSUME IInv, Process PROVE IInv'
  OBVIOUS
<1>1. PICK r \in requests :
        \/ effects[r.command] > 0 /\ Complete(r, "duplicate") /\ UNCHANGED effects
        \/ effects[r.command] = 0 /\ Complete(r, "rejected") /\ UNCHANGED effects
        \/ /\ effects[r.command] = 0 /\ Complete(r, "ok")
           /\ effects' = [effects EXCEPT ![r.command] = effects[r.command] + 1]
  BY DEF Process
<1>c. PICK c : c = r.command
  OBVIOUS
<1>2. UNCHANGED <<pruned, verdict, attempts, rejections, offset, stream, gap, breaks>>
  BY DEF Process
<1>3. c \in Command /\ r \in Waiting(c)
  BY <1>c DEF IInv, TypeOK, Request, Waiting
<1>4. PICK status \in {"ok", "rejected", "duplicate"} :
        /\ Complete(r, status)
        /\ status = "duplicate" => effects[c] > 0 /\ effects' = effects
        /\ status = "rejected" => effects[c] = 0 /\ effects' = effects
        /\ status = "ok" => effects[c] = 0 /\ effects' = [effects EXCEPT ![c] = effects[c] + 1]
  BY <1>1, <1>c
<1>5. PICK flaw \in FlawsSent \union {NoFlaw} :
        log' = Append(log, [command |-> c, status |-> status, flaw |-> flaw])
  BY <1>4, <1>c DEF Complete
<1>e. PICK e : e = [command |-> c, status |-> status, flaw |-> flaw]
  OBVIOUS
<1>6. e \in Logged /\ e.command = c /\ e.status = status /\ log' = Append(log, e) /\ requests' = requests \ {r}
  BY <1>3, <1>4, <1>5, <1>e, FlawsAssumption DEF Logged, Complete
<1>l. \A d : Of(d)' = Of(d) \union IF e.command = d THEN {End + 1} ELSE {}
  BY <1>2, <1>6, Logs
<1>7. /\ End' = End + 1 /\ End \in Nat /\ log'[End + 1].status = status
      /\ \A o \in 1 .. End : log'[o] = log[o]
      /\ Of(c)' = Of(c) \union {End + 1}
      /\ \A d : d # c => Of(d)' = Of(d)
  BY <1>2, <1>6, <1>l, Logs
<1>8. TypeOK'
  <2>1. effects' \in [Command -> Nat]
    BY <1>3, <1>4 DEF IInv, TypeOK
  <2> QED BY <1>2, <1>6, <2>1, Logs DEF IInv, TypeOK
<1>9. AttemptsBound'
  <2>1. IsFiniteSet(requests')
    BY <1>6, FS_RemoveElement DEF IInv, AttemptsBound
  <2>2. ASSUME NEW d \in Command
        PROVE  Cardinality(Of(d)') + Cardinality(Waiting(d)') <= attempts'[d]
    <3>1. TypeOK /\ IsFiniteSet(requests) /\ 0 \in 0 .. End
      BY <1>7 DEF IInv, AttemptsBound
    <3>2. /\ IsFiniteSet(Of(d)) /\ Cardinality(Of(d)) \in Nat
          /\ IsFiniteSet(Waiting(d)) /\ Cardinality(Waiting(d)) \in Nat
      BY <3>1, Finite
    <3>3. Cardinality(Of(d)) + Cardinality(Waiting(d)) <= attempts[d]
      BY DEF IInv, AttemptsBound
    <3>4. CASE d # c
      <4>1. Waiting(d)' = Waiting(d)
        BY <1>6, <1>c, <3>4 DEF Waiting
      <4> QED BY <1>2, <1>7, <3>3, <3>4, <4>1
    <3>5. CASE d = c
      <4>1. Waiting(c)' = Waiting(c) \ {r}
        BY <1>6 DEF Waiting
      <4>a. IsFiniteSet(Waiting(c)) /\ r \in Waiting(c)
        BY <1>3, <3>2, <3>5
      <4>b. Cardinality(Waiting(c) \ {r}) = Cardinality(Waiting(c)) - 1
        BY <4>a, FS_RemoveElement
      <4>2. Cardinality(Waiting(c)') = Cardinality(Waiting(c)) - 1
        BY <4>1, <4>b
      <4>3. End + 1 \notin Of(c)
        BY <1>7 DEF Of
      <4>4. Cardinality(Of(c)') = Cardinality(Of(c)) + 1
        BY <1>7, <3>2, <3>5, <4>3, FS_AddElement, ZenonT(30)
      <4> QED BY <1>2, <3>2, <3>3, <3>5, <4>2, <4>4
    <3> QED BY <3>4, <3>5
  <2> QED BY <2>1, <2>2 DEF AttemptsBound
<1>10. EffectsAreLogged'
  <2> SUFFICES ASSUME NEW d \in Command
               PROVE  /\ effects'[d] \in {0, 1}
                      /\ effects'[d] = 0 <=> \A o \in Of(d)' : log'[o].status = "rejected"
    BY DEF EffectsAreLogged
  <2>1. /\ effects[d] \in {0, 1}
        /\ effects[d] = 0 <=> \A o \in Of(d) : log[o].status = "rejected"
    BY DEF IInv, EffectsAreLogged
  <2>2. Of(d) \subseteq 1 .. End
    BY DEF Of
  <2>3. (\A o \in Of(d) : log[o].status = "rejected") <=> \A o \in Of(d) : log'[o].status = "rejected"
    BY <1>7, <2>2
  <2>4. CASE d # c
    <3>1. effects'[d] = effects[d]
      BY <1>4, <2>4 DEF IInv, TypeOK
    <3> QED BY <1>7, <2>1, <2>3, <2>4, <3>1
  <2>5. CASE d = c
    <3>1. (\A o \in Of(d)' : log'[o].status = "rejected")
            <=> (\A o \in Of(d) : log'[o].status = "rejected") /\ status = "rejected"
      BY <1>7, <2>5
    <3>2. effects'[d] = IF status = "ok" THEN 1 ELSE effects[d]
      BY <1>3, <1>4, <2>5 DEF IInv, TypeOK
    <3>3. status # "rejected" => effects'[d] # 0
      BY <1>4, <2>1, <2>5, <3>2
    <3>4. status = "rejected" => effects'[d] = 0 /\ effects[d] = 0
      BY <1>4, <2>5
    <3> QED BY <2>1, <2>3, <3>1, <3>2, <3>3, <3>4
  <2> QED BY <2>4, <2>5
<1>11. StreamIsAhead'
  BY <1>2, <1>6, Logs DEF IInv, StreamIsAhead
<1>12. RejectionsBound' /\ EachCountedOnce'
  BY <1>2, <1>6, LogsKeepCounts
<1>13. NewIsUntried' /\ VerdictsAreTrue'
  <2>1. ASSUME NEW d \in Command
        PROVE  /\ verdict[d] = "succeeded" => effects'[d] = 1
               /\ verdict[d] = "failed" => effects'[d] = 0 /\ \A q \in requests' : q.command # d
    <3>1. /\ verdict[d] = "succeeded" => effects[d] = 1
          /\ verdict[d] = "failed" => effects[d] = 0 /\ \A q \in requests : q.command # d
      BY DEF IInv, VerdictsAreTrue
    <3>2. CASE d # c
      BY <1>4, <1>6, <1>c, <3>1, <3>2 DEF IInv, TypeOK
    <3>3. CASE d = c
      BY <1>3, <1>4, <1>c, <3>1, <3>3 DEF Waiting, IInv, TypeOK
    <3> QED BY <3>2, <3>3
  <2> QED BY <1>2, <2>1 DEF IInv, NewIsUntried, VerdictsAreTrue
<1> QED BY <1>8, <1>9, <1>10, <1>11, <1>12, <1>13 DEF IInv

LEMMA PrunePreserves == IInv /\ Prune => IInv'
<1> SUFFICES ASSUME IInv, Prune PROVE IInv'
  OBVIOUS
<1>1. UNCHANGED <<requests, effects, log, verdict, attempts, rejections, offset, stream, gap, breaks>>
  BY DEF Prune
<1>2. pruned' \in 0 .. End /\ End' = End
  BY Types DEF Prune, IInv, TypeOK, End
<1>3. TypeOK' /\ StreamIsAhead'
  BY <1>1, <1>2 DEF IInv, TypeOK, StreamIsAhead
<1> QED BY <1>1, <1>3, NothingRead DEF IInv

LEMMA BreakPreserves == IInv /\ Break => IInv'
<1> SUFFICES ASSUME IInv, Break PROVE IInv'
  OBVIOUS
<1>1. /\ UNCHANGED <<requests, effects, log, pruned, verdict, attempts, rejections, offset, gap>>
      /\ stream' = None /\ breaks < MaxBreaks /\ breaks' = breaks + 1
  BY DEF Break
<1>2. End' = End
  BY <1>1 DEF End
<1>3. breaks' \in 0 .. MaxBreaks
  BY <1>1, BoundsAssumption DEF IInv, TypeOK
<1>4. TypeOK' /\ StreamIsAhead'
  BY <1>1, <1>2, <1>3 DEF IInv, TypeOK, StreamIsAhead
<1> QED BY <1>1, <1>4, NothingRead DEF IInv

----------------------------------------------------------------------------
LEMMA Stutters == IInv /\ UNCHANGED vars => IInv'
<1> SUFFICES ASSUME IInv, UNCHANGED vars PROVE IInv'
  OBVIOUS
<1>1. /\ UNCHANGED <<requests, effects, log, verdict, attempts, rejections, offset, gap>>
      /\ UNCHANGED <<pruned, stream, breaks>> /\ End' = End
  BY DEF vars, End
<1>2. TypeOK' /\ StreamIsAhead'
  BY <1>1 DEF IInv, TypeOK, StreamIsAhead
<1> QED BY <1>1, <1>2, NothingRead DEF IInv

(***************************************************************************)
(* The inductive invariant.                                                *)
(***************************************************************************)
THEOREM Inductive == Spec => []IInv
<1>1. Init => IInv
  BY InitEstablishes
<1>2. IInv /\ [Next]_vars => IInv'
  BY GetLedgerEndPreserves, GetCompletionStreamPreserves, PassOverPreserves, ReceiveCompletionPreserves,
     ReceiveCheckpointPreserves, SubmitPreserves, ProcessPreserves, ForeignPreserves, PrunePreserves,
     BreakPreserves, Stutters DEF Next, Reading
<1> QED BY <1>1, <1>2, PTL DEF Spec

(***************************************************************************)
(* The state of the application and of the participant is well typed: the  *)
(* offset and the stream are within the log, every completion is of a      *)
(* command or of another application.                                      *)
(***************************************************************************)
THEOREM TypeCorrect == Spec => []TypeOK
<1>1. IInv => TypeOK
  BY DEF IInv
<1> QED BY <1>1, Inductive, PTL

(***************************************************************************)
(* A command that the application takes for done has changed the ledger    *)
(* once, one that it takes for failed has not and will not, for every      *)
(* number of attempts, although no completion says of which attempt it is. *)
(***************************************************************************)
THEOREM VerdictsStayTrue == Spec => []VerdictsAreTrue
<1>1. IInv => VerdictsAreTrue
  BY DEF IInv
<1> QED BY <1>1, Inductive, PTL

(***************************************************************************)
(* However often the stream breaks, no completion is counted twice and     *)
(* none is missed, unless it has been pruned.                              *)
(***************************************************************************)
THEOREM CompletionsCountedOnce == Spec => []EachCountedOnce
<1>1. IInv => EachCountedOnce
  BY DEF IInv
<1> QED BY <1>1, Inductive, PTL

(***************************************************************************)
(* A command takes effect at most once (as far as the participant          *)
(* deduplicates), and the completions tell if it did.                      *)
(***************************************************************************)
THEOREM CompletionsTellEffects == Spec => []EffectsAreLogged
<1>1. IInv => EffectsAreLogged
  BY DEF IInv
<1> QED BY <1>1, Inductive, PTL

=============================================================================
