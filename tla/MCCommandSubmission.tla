------------------------ MODULE MCCommandSubmission ------------------------
(***************************************************************************)
(* Two callers.  Both may run one command under the same id, as two        *)
(* workers on one task do; or one of them runs a command under a fresh id  *)
(* per call, with a reader or without.                                     *)
(***************************************************************************)
EXTENDS CommandSubmission, TLC

CONSTANTS v, w, Alice, Bob, task

Do(method, name, actAs, readAs) ==
  [method |-> method, name |-> name, actAs |-> actAs, readAs |-> readAs]

Named(parties) == Do("submit_and_wait_for_transaction", task, parties, {})

Fresh ==
  {Do(m, None, {Alice}, r) :
     m \in {"execute_create", "execute_exercise", "execute_for_transaction",
            "execute_for_transaction_with_effects"},
     r \in {{}, {Bob}}}

Idle == Do("execute_for_transaction", None, {}, {})

MCJob ==
  {(v :> Named({Alice})) @@ (w :> Named({p})) : p \in {Alice, Bob}}
    \union
  {(v :> j) @@ (w :> Idle) : j \in Fresh}
    \union
  {(v :> Do("execute_exercise", None, {Alice}, {})) @@ (w :> Named({Alice}))}

=============================================================================
