--------------------------- MODULE MCPackageStore ---------------------------
(* Instances of PackageStore for TLC. *)
EXTENDS PackageStore, Sequences, TLC

ABlob == CHOOSE b \in Blob : TRUE
Second == CHOOSE v \in Version \ {3} : \A w \in Version \ {3} : w <= v
OtherTag == CHOOSE t \in Tag : t # Latest

Interchangeable == Permutations(Request)   \* requests are interchangeable

\* fields an operation does not use have one value
Canonical(o) ==
    /\ o.b # ABlob => o.kind = "publish" /\ o.v = Second
    /\ o.kind \in {"addTag", "removeTag"} => o.tag = OtherTag
    /\ o.kind \notin {"addTag", "removeTag"} => o.tag = Latest
    /\ o.kind \in {"deprecate", "undeprecate", "removePackage", "removeTag"} => o.v = 1

OpsOf(kinds) == {o \in Op : Canonical(o) /\ o.kind \in kinds}

AnyOps == OpsOf(Kind)
PublishOps == OpsOf({"publish"})

\* any operation on the versions 1 and 2, of which none or both are stored; 3 is
\* only published, beside what other requests do to 1 and 2
ThirdComes == {o \in AnyOps : o.v = 3 => o.kind = "publish"}
BothOrNone == {[v \in Version |-> IF v = 3 THEN None ELSE b] : b \in {None, ABlob}}
PlainInit == Init /\ man.versions \in BothOrNone /\ man.deprecated = {}
ThirdSpec == PlainInit /\ [][Next]_vars

\* two requests of any kind: as they are interchangeable, in one order of kinds
\* and, of one kind, of versions
Order == <<"publish", "removePackage", "unpublish", "deprecate", "undeprecate",
           "removeTarball", "addTag", "removeTag", "sweep">>
Ahead(o, p) ==
    /\ \E i \in DOMAIN Order : \E j \in i..Len(Order) :
          o.kind = Order[i] /\ p.kind = Order[j]
    /\ o.kind = p.kind => o.v <= p.v
OneOf == CHOOSE r \in Request : TRUE
OverlapInit == PlainInit /\ \A r \in Request : Ahead(op[OneOf], op[r])
OverlapSpec == OverlapInit /\ [][Next]_vars /\ \A r \in Request : WF_vars(Step(r))

=============================================================================
