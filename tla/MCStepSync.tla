----------------------------- MODULE MCStepSync -----------------------------
(***************************************************************************)
(* Small instances of StepSync: a source a, models on it, a resolver of    *)
(* two models listed against the order of creation, a linker that reaches  *)
(* a along paths of two lengths, and a client that calls a source m what   *)
(* another calls a model.                                                  *)
(***************************************************************************)
EXTENDS StepSync, TLC

CONSTANTS c1, c2

config(name, type, inputs, fp, setting) ==
  [name |-> name, type |-> type, inputs |-> inputs, fp |-> fp, setting |-> setting]

A == config("a", "source", <<>>, 1, 1)
AReset == config("a", "source", <<>>, 1, 2)
M == config("m", "model", <<"a">>, 1, 1)
MSource == config("m", "source", <<>>, 2, 1)
N == config("n", "model", <<"a">>, 1, 1)
R == config("r", "resolver", <<"m">>, 1, 1)
RPair == config("r", "resolver", <<"n", "m">>, 1, 1)
L == config("l", "model", <<"a", "r">>, 1, 1)

MCConfigs == {A, AReset, M, MSource, R, L}
MCPair == {A, M, N, RPair}

ClientSymmetry == Permutations(Clients)
=============================================================================
