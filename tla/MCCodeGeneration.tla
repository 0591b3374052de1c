-------------------------- MODULE MCCodeGeneration --------------------------
(***************************************************************************)
(* Two archives.  In the first, package P has module A, whose variant S    *)
(* has payload in the synthetic A.S, and A.B; in the second, A.S is a real *)
(* module without data above the synthetic A.S.T, there is no A.B, and a   *)
(* package Q has an A as well.  The filters match everything, A alone, A.B *)
(* alone, or A.S alone.                                                    *)
(***************************************************************************)
EXTENDS CodeGeneration

P == <<"P">>
PA == <<"P", "A">>
PAS == <<"P", "A", "S">>
PAB == <<"P", "A", "B">>
PAST == <<"P", "A", "S", "T">>
Q == <<"Q">>
QA == <<"Q", "A">>

First ==
  [nodes |-> {P, PA, PAS, PAB}, synthetic |-> {PAS}, data |-> {PA, PAS, PAB}]

Second ==
  [nodes |-> {P, PA, PAS, PAST, Q, QA}, synthetic |-> {PAST}, data |-> {PA, PAST, QA}]

MCArchive == {First, Second}

MCFilter ==
  {{<<"A">>, <<"A", "B">>, <<"A", "S">>, <<"A", "S", "T">>},
   {<<"A">>}, {<<"A", "B">>}, {<<"A", "S">>}}

=============================================================================
