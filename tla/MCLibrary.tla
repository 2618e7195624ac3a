----------------------------- MODULE MCLibrary -----------------------------
(* The metadata editor for TLC: a title of one platform, the rank of one of *)
(* its folders, a title of a second card's game, and the requests that meet *)
(* on them.                                                                 *)
EXTENDS LibraryServer, TLC

CONSTANTS title, folder, cardTitle, cardA, cardB, nes, fds, none, junk, one, two

Change(slot, card, expected, value) ==
    [slot |-> slot, card |-> card, value |-> value, expected |-> expected]

Save_(undoable, changes) == [undoable |-> undoable, changes |-> changes]

MCRequests ==
    {Save_(u, <<Change(title, NoCard, none, one), Change(cardTitle, cardA, none, one)>>) :
        u \in BOOLEAN}
    \cup {Save_(TRUE, <<Change(folder, NoCard, none, two), Change(title, NoCard, one, none)>>),
          Save_(TRUE, <<Change(folder, NoCard, one, none)>>),
          Save_(FALSE, <<Change(title, NoCard, one, junk)>>)}

\* The folder's rank is pinned under one system, or is no number there.
MCStored ==
    {[a \in Addresses |-> IF a = <<nes, folder>> THEN v ELSE none] : v \in {one, junk}}

\* All games are listed or none is left; another system may get to have the most.
MCScans ==
    {[live |-> c, listed |-> Slots \ FolderSlots, system |-> nes] : c \in Cards \cup {NoCard}}
    \cup {[live |-> NoCard, listed |-> Slots \ FolderSlots, system |-> fds],
          [live |-> NoCard, listed |-> {}, system |-> NoSystem]}

Symmetry == Permutations(Inodes)
=============================================================================
