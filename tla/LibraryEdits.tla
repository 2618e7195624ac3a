---------------------------- MODULE LibraryEdits ---------------------------
(***************************************************************************)
(* What the metadata editor promises of the library database               *)
(* (cs_library_metadata.h): a request's changes take effect together or    *)
(* not at all and only over the values the client was shown, an undo puts  *)
(* back only what still stands, and both reach the rows of the card that   *)
(* was meant.  Requests, transactions, crashes and files are not visible   *)
(* here.                                                                   *)
(***************************************************************************)
EXTENDS LibraryRows

CONSTANTS Batches    \* the lists of changes clients send

VARIABLES found, settings

library == <<found, settings>>

Init ==
    /\ found \in Scans
    /\ settings \in Stored

\* The row a change means.
Row(c) == Meant(found, c)

\* What a save can reach: a listed game, or a folder of a system.
Reached(c) ==
    IF c.slot \in FolderSlots THEN found.system \in GameSystems ELSE c.slot \in found.listed

\* All the changes at once, each over a value its sender was shown; where two
\* mean one row, the last one counts.
Replace(changes) ==
    /\ \A c \in ToSet(changes) : Matches(c.slot, c.expected, settings[Row(c)])
    /\ \A c \in ToSet(changes) : Reached(c)
    /\ settings' \in Settings
    /\ \A a \in Addresses :
          (\A c \in ToSet(changes) : Row(c) # a) => settings'[a] = settings[a]
    /\ \A i \in DOMAIN changes :
          (\A j \in DOMAIN changes : j > i => Row(changes[j]) # Row(changes[i]))
             => settings'[Row(changes[i])] = changes[i].value
    /\ UNCHANGED found

\* Rows return to what the changes replaced. A row that no longer holds what
\* they wrote is left alone, and so is every row they do not mean.  A game's row
\* is the one that was edited.  A folder's rank returns to the system the
\* platform has by now: to another one's row where that one looks like the
\* edited one, and to a row of no system where no game is left.
Restore(changes) ==
    /\ settings' \in Settings
    /\ \A a \in Addresses : settings'[a] # settings[a] =>
          /\ \E c \in ToSet(changes) : Row(c) = a /\ Stands(found, settings, c)
          /\ \E c \in ToSet(changes) : Row(c) = a /\ settings'[a] = c.expected
    /\ \A i \in DOMAIN changes :
          /\ Stands(found, settings, changes[i])
          /\ \A j \in DOMAIN changes \ {i} : Row(changes[j]) # Row(changes[i])
          => settings'[Row(changes[i])] = changes[i].expected
    /\ UNCHANGED found

\* Leaf rescans its cards.
Reconcile ==
    /\ found' \in Scans
    /\ UNCHANGED settings

Next ==
    \/ \E changes \in Batches : Replace(changes) \/ Restore(changes)
    \/ Reconcile

Spec == Init /\ [][Next]_library
=============================================================================
