-------------------------- MODULE CompositionRoot ---------------------------
(***************************************************************************)
(* packages/core: composition-root.ts and signal-handlers.ts. The root is a   *)
(* singleton that makes its entries in order and closes them in reverse,       *)
(* after a factory that fails as on shutdown.                               *)
(***************************************************************************)
EXTENDS Integers, Sequences

CONSTANT Entries       \* what the factories make, in order

ASSUME RootConfig ==
    /\ Entries # <<>>
    /\ \A i, j \in DOMAIN Entries : Entries[i] = Entries[j] => i = j

VARIABLES
    initialized,       \* the singleton flag
    phase,             \* how far the root is
    cursor             \* the entries that have not been closed are the first so many

rootVars == <<initialized, phase, cursor>>

RootTypeOK ==
    /\ initialized \in BOOLEAN
    /\ phase \in {"down", "cleaning", "up", "closing", "closed"}
    /\ cursor \in 0 .. Len(Entries)

RootInit == initialized = FALSE /\ phase = "down" /\ cursor = 0

Open == {Entries[i] : i \in 1 .. cursor}
Closing(e) == phase \in {"cleaning", "closing"} /\ cursor > 0 /\ e = Entries[cursor]

\* The factories run in one go. If one fails after the first, what is there is cleaned
\* up, and the caller hears of it afterwards; if the first fails, nothing is left to do.
CreateRoot ==
    /\ ~initialized
    /\ initialized' = TRUE
    /\ cursor' \in 1 .. Len(Entries)
    /\ phase' = IF cursor' = Len(Entries) THEN "up" ELSE "cleaning"

\* shutdown(), by a signal or by the owner: only the first call does anything.
ShutdownRoot ==
    /\ phase = "up"
    /\ phase' = "closing"
    /\ UNCHANGED <<initialized, cursor>>

\* Mutant: the entries are closed all at once.
EntryClosedAtOnce(e) ==
    /\ phase \in {"cleaning", "closing"} /\ e \in Open
    /\ cursor' = 0
    /\ phase' = IF phase = "closing" THEN "closed" ELSE "down"
    /\ initialized' = (phase = "closing")

\* The close of an entry has settled: the root does not look whether it rejected. After a
\* failed start the root may be created again; after a shutdown it may not.
EntryClosed(e) ==
    /\ Closing(e)
    /\ cursor' = cursor - 1
    /\ IF cursor > 1 THEN UNCHANGED <<phase, initialized>>
       ELSE IF phase = "closing" THEN phase' = "closed" /\ UNCHANGED initialized
       ELSE phase' = "down" /\ initialized' = FALSE
===========================================================================
