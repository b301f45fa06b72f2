---------------------------- MODULE DurableRows -----------------------------
(***************************************************************************)
(* What a table kept in memory and written behind to a file promises: a    *)
(* change is seen at once, one snapshot at a time is on its way to the     *)
(* file, a snapshot is what memory has when its writing starts, and a      *)
(* writing only ends the writing when nothing newer is left to write.  A   *)
(* crash falls back to the file.                                           *)
(*                                                                         *)
(* Two things break it, and nothing else: the file cannot be read, and the *)
(* table starts empty; or a change comes before the file is read, and      *)
(* until the next start the file only gets what was on its way.            *)
(***************************************************************************)
CONSTANTS Rows, Idle

VARIABLES
    rows,      \* what a reader sees
    flight,    \* the snapshot on its way, Idle if there is none
    safe,      \* what a crash leaves
    kept       \* no change came before the file was read, since the start

Init == rows \in SUBSET Rows /\ flight = Idle /\ safe = rows /\ kept = TRUE

\* rows are added or taken out; the writing starts if none is under way
Change ==
    /\ rows' \in SUBSET Rows
    /\ \/ rows' \subseteq rows
       \/ \E x \in Rows : rows' = rows \cup {x}
    /\ flight' = IF flight = Idle THEN rows' ELSE flight
    /\ UNCHANGED <<safe, kept>>

\* the rows that memory has now are next
Onward ==
    IF kept THEN flight' = rows \/ (flight' = Idle /\ flight = rows)
    ELSE flight' \in (SUBSET Rows) \cup {Idle}

Written == flight # Idle /\ safe' = flight /\ Onward /\ UNCHANGED <<rows, kept>>

Lost == flight # Idle /\ Onward /\ UNCHANGED <<rows, safe, kept>>

Crash == rows' = safe /\ flight' = Idle /\ kept' = TRUE /\ UNCHANGED safe

\* the file cannot be read
Forget == kept /\ flight = Idle /\ rows' = {} /\ UNCHANGED <<flight, safe, kept>>

\* a row is saved before the file is read, and is all that is written
Overtake ==
    /\ kept /\ kept' = FALSE
    /\ flight = Idle
    /\ \E x \in Rows : rows' = {x}
    /\ flight' = rows' /\ UNCHANGED safe

\* what is read then takes the place of what memory had
Reload == ~kept /\ rows' \in SUBSET Rows /\ UNCHANGED <<flight, safe, kept>>

Next == Change \/ Written \/ Lost \/ Crash \/ Forget \/ Overtake \/ Reload

Spec == Init /\ [][Next]_<<rows, flight, safe, kept>>
=============================================================================
