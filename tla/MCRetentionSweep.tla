-------------------------- MODULE MCRetentionSweep --------------------------
(***************************************************************************)
(* An instance of RetentionSweep for TLC, of two kinds of behaviours.      *)
(*                                                                         *)
(* The rules: package p has any manifest of up to three versions, under    *)
(* every combination of small limits; the others have one version each,    *)
(* and come after p; the second sweep comes after the first.               *)
(*                                                                         *)
(* The runs: p has three versions and q up to two, the limit makes them    *)
(* lose two and one, as a dry run too; the excluded package x has versions *)
(* to lose; sweeps overlap and take the packages in any order.             *)
(***************************************************************************)
EXTENDS RetentionSweep, TLC

CONSTANTS a, b, p, q, x

AnySetting == [max : 0..2, age : {0, 1}, keepTagged : BOOLEAN, dry : BOOLEAN]
OneVersion == [max : {1}, age : {0}, keepTagged : {TRUE}, dry : BOOLEAN]

Single == {m \in Published : /\ m.versions = {1} /\ m.time[1] = 1
                             /\ \A t \in Tag : m.tags[t] = 1}
Pair == {m \in Published : /\ m.versions \subseteq {1, 2}
                           /\ \A v \in m.versions : m.time[v] \in {None, 1}
                           /\ \A t \in Tag \ {Latest} : m.tags[t] = None}
Losing == {m \in Pair : m.versions = {1, 2} /\ m.time[1] = 1 /\ m.time[2] = 1}
Three == {m \in Published : /\ m.versions = {1, 2, 3}
                            /\ \A v \in m.versions : m.time[v] = 1
                            /\ \A t \in Tag \ {Latest} : m.tags[t] = None}
Triple == {m \in Published : 3 \in m.versions}

Packages(P, Q, X) == {p :> i @@ q :> j @@ x :> k : i \in P, j \in Q, k \in X}
RulesStart ==
    cfg \in {s \in AnySetting : ~s.dry} /\ man \in Packages(Triple, Single, Single)
RunsStart == cfg \in OneVersion /\ man \in Packages(Three, Pair, Losing)

Takes(r, name) == name \in todo[r] /\ name \notin todo'[r]
OneByOne ==
    man[x].versions = {1} =>
        /\ \A r \in Run : /\ Takes(r, q) => p \notin todo[r]
                          /\ Takes(r, x) => q \notin todo[r]
        /\ pc[b] = "idle" /\ pc'[b] # "idle" => pc[a] = "done"

RetentionSpec ==
    (RulesStart \/ RunsStart) /\ Init /\ [][Next /\ OneByOne]_vars /\ Fairness
=============================================================================
