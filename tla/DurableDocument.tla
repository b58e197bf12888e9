-------------------------- MODULE DurableDocument --------------------------
(***************************************************************************)
(* What every storage of this program promises about the one JSON document *)
(* it keeps, whatever happens in between: the stored copy only ever moves  *)
(* forward through the documents that were submitted, and the storage says *)
(* "synced" only when the copy it keeps is the newest one.                 *)
(*                                                                         *)
(* Documents are numbered in the order they are submitted; 0 is the        *)
(* document that was loaded at start-up.                                   *)
(***************************************************************************)
EXTENDS Naturals

VARIABLES
    latest,   \* the newest document submitted
    stored,   \* the document the store holds
    synced    \* TRUE while the storage reports that nothing is outstanding

vars == <<latest, stored, synced>>

Init ==
    /\ latest = 0
    /\ stored = 0
    /\ synced = TRUE

\* A caller hands over a newer document.
Submit ==
    /\ latest' = latest + 1
    /\ synced' = FALSE
    /\ UNCHANGED stored

\* The store takes a document that is no older than the one it holds.
Store ==
    /\ stored' \in stored..latest
    /\ UNCHANGED <<latest, synced>>

\* The storage reports that the newest document is stored.
Confirm ==
    /\ stored = latest
    /\ synced' = TRUE
    /\ UNCHANGED <<latest, stored>>

\* The storage withdraws the report: it is about to write again, or has failed.
Withdraw ==
    /\ synced' = FALSE
    /\ UNCHANGED <<latest, stored>>

Next == Submit \/ Store \/ Confirm \/ Withdraw

Spec == Init /\ [][Next]_vars
=============================================================================
