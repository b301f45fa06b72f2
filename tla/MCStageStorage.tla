--------------------------- MODULE MCStageStorage ---------------------------
(* Instances of StageStorage for TLC. *)
EXTENDS StageStorage, TLC

Interchangeable == Permutations(Request)

AVersion == CHOOSE v \in Version : TRUE
ARequest == CHOOSE r \in Request : TRUE

\* fields an operation does not use have one value
AnyOps == {o \in Op : o.kind # "stage" => o.v = AVersion}

\* some request stages something: up to names it is this one, and this version
SomethingStaged ==
    Init /\ op[ARequest].kind = "stage" /\ op[ARequest].v = AVersion
StagedSpec == SomethingStaged /\ [][Next]_vars /\ Fairness

=============================================================================
