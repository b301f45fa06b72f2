------------------------------ MODULE Registry ------------------------------
(***************************************************************************)
(* What the store of one package promises its clients when requests come   *)
(* one after the other: each request takes effect at once and as a whole,  *)
(* or is refused and changes nothing.  A page is what a reader of the      *)
(* package gets: the versions with their integrity, the dist-tags, and     *)
(* which versions are deprecated.  A request that takes effect on another  *)
(* page than the one its client saw is a deprecation, or an unpublish that *)
(* leaves a deprecated version: what its client did not see is then taken  *)
(* away.                                                                   *)
(* Besides that the promise names what a fault can do: a crash leaves a    *)
(* publish half done, a publish whose rollback fails is refused and leaves *)
(* a part, and a removal may leave its folder.                             *)
(*                                                                         *)
(* PackageStore implements this (PackageStore!ServesAtOnce).               *)
(***************************************************************************)
EXTENDS Naturals

CONSTANTS Request, Version, Blob, Tag, Latest, None

VARIABLES
    there,   \* the package can be read
    page,    \* what a reader gets, Blank if there is no package
    op,      \* the operation of each request, given
    body,    \* the page a client read and edited
    stage,   \* "waiting", "edited", "applied" or the answer: "ok", "fail";
             \* "dead" if the process ended before it
    faults   \* number of faults so far

Page == [versions : [Version -> Blob \cup {None}], tags : [Tag -> Version \cup {None}],
         deprecated : SUBSET Version]
Blank == [versions |-> [v \in Version |-> None], tags |-> [t \in Tag |-> None],
          deprecated |-> {}]
Has(p) == {v \in Version : p.versions[v] # None}
Top(S) == CHOOSE v \in S : \A w \in S : w <= v

\* no tag or mark is on a version that is not there, latest is there with one
Tidy(p) ==
    LET kept == [t \in Tag |-> IF p.tags[t] \in Has(p) THEN p.tags[t] ELSE None]
    IN  [p EXCEPT !.tags = IF kept[Latest] = None /\ Has(p) # {}
                           THEN [kept EXCEPT ![Latest] = Top(Has(p))] ELSE kept,
                  !.deprecated = @ \cap Has(p)]

Untagged(p, v) == v \in Has(p) /\ Has(p) # {v} /\ \A t \in Tag : p.tags[t] # v

\* a publish: its version, and then its tag
Stored(p, o) == Tidy([p EXCEPT !.versions[o.v] = o.b])
Complete(p, o) == Tidy([Stored(p, o) EXCEPT !.tags[o.tag] = o.v])
\* what a client makes of a page, and what the registry makes of that
Edited(p, o) ==
    CASE o.kind = "unpublish" ->
            [p EXCEPT !.versions[o.v] = None, !.deprecated = @ \ {o.v}]
      [] o.kind = "deprecate" -> [p EXCEPT !.deprecated = @ \cup {o.v}]
      [] OTHER -> [p EXCEPT !.deprecated = @ \ {o.v}]
Changed(p, e, o) ==
    Tidy([versions   |-> [v \in Version |-> IF e.versions[v] = None THEN None
                                            ELSE p.versions[v]],
          tags       |-> e.tags,
          deprecated |-> {v \in p.deprecated \cup e.deprecated :
                             ~(o.kind = "undeprecate" /\ v = o.v)}])
Retagged(p, o) ==
    Tidy([p EXCEPT !.tags[o.tag] = IF o.kind = "removeTag" THEN None ELSE o.v])
Pruned(p, v) == Tidy([p EXCEPT !.versions[v] = None])

Init ==
    /\ there \in BOOLEAN /\ page \in Page
    /\ page = IF there THEN Tidy(page) ELSE Blank
    /\ body = [r \in Request |-> Blank]
    /\ stage = [r \in Request |-> "waiting"]
    /\ faults = 0

Move(r, from, to) ==
    /\ stage[r] = from
    /\ stage' = [stage EXCEPT ![r] = to]

Shows(p) == there' = TRUE /\ page' = p
Rests == UNCHANGED <<there, page>>
NoFault == UNCHANGED faults

Parts(r) == {Stored(page, op[r]), Complete(page, op[r])}

\* a read is not kept out while a publish is served: it may get a part of it
Glimpses ==
    {page} \cup UNION {Parts(q) : q \in {q \in Request :
                          op[q].kind = "publish" /\ stage[q] = "waiting"}}

Edit(r) ==
    /\ op[r].kind \in {"unpublish", "deprecate", "undeprecate"}
    /\ \E p \in Glimpses :
          /\ Has(Edited(p, op[r])) # {}
          /\ op[r].kind # "unpublish" => op[r].v \in Has(p)
          /\ body' = [body EXCEPT ![r] = Edited(p, op[r])]
    /\ Move(r, "waiting", "edited") /\ Rests /\ NoFault

Publish(r) ==
    /\ op[r].kind = "publish" /\ op[r].v \notin Has(page)
    /\ Shows(Complete(page, op[r]))
    /\ Move(r, "waiting", "ok") /\ NoFault /\ UNCHANGED body

\* an unpublish takes effect on the page its client edited; a deprecation, and
\* an unpublish that leaves a deprecated version, on whatever is there by then
Change(r) ==
    /\ there
    /\ op[r].kind = "unpublish" /\ body[r].deprecated = {} =>
          body[r] = Edited(page, op[r])
    /\ Shows(Changed(page, body[r], op[r]))
    /\ Move(r, "edited", "ok") /\ NoFault /\ UNCHANGED body

Retag(r) ==
    /\ op[r].kind \in {"addTag", "removeTag"} /\ there
    /\ op[r].kind = "addTag" => op[r].v \in Has(page)
    /\ Shows(Retagged(page, op[r]))
    /\ Move(r, "waiting", "ok") /\ NoFault /\ UNCHANGED body

\* a sweep takes a version that no tag names, never the last one
Prune(r) ==
    /\ op[r].kind = "sweep" /\ there /\ Untagged(page, op[r].v)
    /\ Shows(Pruned(page, op[r].v))
    /\ Move(r, "waiting", "applied") /\ NoFault /\ UNCHANGED body

Remove(r) ==
    /\ op[r].kind = "removePackage" /\ there
    /\ there' = FALSE /\ page' = Blank
    /\ Move(r, "waiting", "applied") /\ NoFault /\ UNCHANGED body

Confirm(r) == Move(r, "applied", "ok") /\ Rests /\ NoFault /\ UNCHANGED body

\* the page is not what the request is about
Pass(r) ==
    /\ there
    /\ \/ op[r].kind = "removeTarball"
       \/ op[r].kind = "sweep" /\ ~Untagged(page, op[r].v)
    /\ Move(r, "waiting", "ok") /\ Rests /\ NoFault /\ UNCHANGED body

\* why a request may be refused before any fault: what it is about is missing,
\* a publish meets a version or a file of its name, an unpublish another
\* revision, a removal an attachment whose file a failed publish took away
Grounds(r) ==
    \/ ~there
    \/ op[r].kind \in {"publish", "unpublish", "removeTarball", "removePackage"}
    \/ op[r].kind = "addTag" /\ op[r].v \notin Has(page)

MayFault == faults' \in {faults, faults + 1}

Refuse(r) ==
    /\ MayFault /\ (Grounds(r) \/ faults' > 0)
    /\ Move(r, "waiting", "fail") \/ Move(r, "edited", "fail")
    /\ Rests /\ UNCHANGED body

\* the write of a rollback fails
LeavePart(r) ==
    /\ op[r].kind = "publish" /\ there
    /\ \E p \in Parts(r) : Shows(p)
    /\ Move(r, "waiting", "fail") /\ faults' = faults + 1 /\ UNCHANGED body

\* a crash left files in the folder that the removal does not know
LeaveFolder(r) ==
    /\ op[r].kind = "removePackage" /\ faults > 0
    /\ Move(r, "applied", "fail") /\ Rests /\ NoFault /\ UNCHANGED body

Crash(r) ==
    /\ stage[r] \in {"waiting", "edited", "applied"}
    /\ Move(r, stage[r], "dead") /\ faults' = faults + 1 /\ UNCHANGED body
    /\ \/ Rests
       \/ op[r].kind = "publish" /\ \E p \in {page} \cup Parts(r) : Shows(p)

Mishap == faults' = faults + 1 /\ Rests /\ UNCHANGED <<body, stage>>

Serve(r) ==
    \/ Edit(r) \/ Publish(r) \/ Change(r) \/ Retag(r) \/ Prune(r) \/ Remove(r)
    \/ Confirm(r) \/ Pass(r) \/ Refuse(r) \/ LeavePart(r) \/ LeaveFolder(r) \/ Crash(r)

\* whatever happens to a request moves it
Next ==
    /\ (\E r \in Request : stage'[r] # stage[r] /\ Serve(r)) \/ Mishap
    /\ UNCHANGED op

Spec == Init /\ [][Next]_<<there, page, op, body, stage, faults>>
=============================================================================
