---------------------------- MODULE LibraryRows ----------------------------
(***************************************************************************)
(* The overrides of Leaf's library database that the metadata editor       *)
(* writes for the games and folders of a platform (library_metadata.c), as *)
(* operators on two parts of the library:                                  *)
(*                                                                         *)
(*   found     what Leaf's last scan left: the card that is live, the      *)
(*             slots whose game the library lists, and the system that     *)
(*             most of the platform's games have                           *)
(*   settings  the stored override of every row                            *)
(*                                                                         *)
(* A slot is one editable field of one game, or the rank of a folder.  A   *)
(* second card's games are the card's own, so its slots hold one value per *)
(* card.  A folder's rank is stored under the system that was found, which *)
(* is none when the platform has no game left.                             *)
(***************************************************************************)
EXTENDS Integers, Sequences, SequencesExt

CONSTANTS
    Slots,       \* (source, path, field), or a folder's rank
    CardSlots,   \* those of the second card's games
    FolderSlots, \* the ranks of folders
    RankSlots,   \* those that hold a rank, of a folder or of a game
    Cards,       \* card keys
    NoCard,      \* no card is live
    GameSystems, \* the names the platform's games may have for their system
    NoSystem,    \* no game names one
    Values,      \* stored overrides, NoValue and Junk among them
    NoValue,     \* the override's row is absent
    Junk,        \* stored text that is no rank
    Stored,      \* what the library may hold before the first request
    Scans        \* what a scan may leave

Found ==
    {f \in [live: Cards \cup {NoCard}, listed: SUBSET (Slots \ FolderSlots),
            system: GameSystems \cup {NoSystem}] :
        f.system = NoSystem => f.listed = {}}

ASSUME LibraryAssumption ==
    /\ CardSlots \subseteq Slots \ FolderSlots
    /\ FolderSlots \subseteq RankSlots
    /\ RankSlots \subseteq Slots
    /\ NoCard \notin Cards
    /\ NoSystem \notin GameSystems
    /\ NoValue \in Values
    /\ Junk \in Values
    /\ NoValue # Junk
    /\ Scans \subseteq Found

Addresses ==
    ({NoCard} \X (Slots \ (CardSlots \cup FolderSlots)))
        \cup (Cards \X CardSlots)
        \cup ((GameSystems \cup {NoSystem}) \X FolderSlots)

Settings == [Addresses -> Values]

ASSUME StoredAssumption == Stored \subseteq Settings

\* One element of a request's "changes", and of a snapshot's "entries".
Changes == [slot: Slots, card: Cards \cup {NoCard}, value: Values, expected: Values]

\* The row of a slot that belongs to a card or to none.
RowOn(card, system, slot) ==
    << CASE slot \in CardSlots -> card
         [] slot \in FolderSlots -> system
         [] OTHER -> NoCard,
       slot >>

\* The row a slot stands for.  A card slot has none while no card is live.
At(found, slot) == RowOn(found.live, found.system, slot)

\* The row a change means.
Meant(found, c) == RowOn(c.card, found.system, c.slot)

\* cs_metadata_check_identity, of a game: card_changed, not_found or not_listed.
\* A folder has no identity that could be refused.
Refused(found, c) ==
    /\ c.slot \notin FolderSlots
    /\ \/ c.slot \in CardSlots /\ (found.live = NoCard \/ c.card # found.live)
       \/ c.slot \notin found.listed

\* Absent and junk ranks are both "not pinned".
Rank(v) == IF v = Junk THEN NoValue ELSE v

\* cs_metadata_value_matches
Matches(slot, expected, current) ==
    IF slot \in RankSlots THEN Rank(expected) = Rank(current) ELSE expected = current

Stale(found, rows, c) == ~Matches(c.slot, c.expected, rows[At(found, c.slot)])

\* A folder of a platform that has no system: not_found, which only a save asks.
Homeless(found, c) == c.slot \in FolderSlots /\ found.system = NoSystem

\* Mutant: a stale change is left for the write to find.
Conflicts_IdentityOnly(found, rows, changes) ==
    \E c \in ToSet(changes) : Refused(found, c) \/ Homeless(found, c)

\* Mutant: a folder's rank is saved under no system.
Conflicts_Homeless(found, rows, changes) ==
    \E c \in ToSet(changes) : Refused(found, c) \/ Stale(found, rows, c)

\* cs_metadata_collect_conflicts found a reason to refuse.
Conflicts(found, rows, changes) ==
    \E c \in ToSet(changes) :
        Refused(found, c) \/ Homeless(found, c) \/ Stale(found, rows, c)

\* One row of cs_metadata_write_changes.
Written(found, rows, c) == [rows EXCEPT ![At(found, c.slot)] = c.value]

\* An entry is put back only where the apply's own value is still there.
Stands(found, rows, c) ==
    /\ ~Refused(found, c)
    /\ Matches(c.slot, c.value, rows[At(found, c.slot)])

\* Mutant: the entry is put back whatever the row holds now.
PutBack_Blind(found, rows, c) ==
    IF ~Refused(found, c)
    THEN [rows EXCEPT ![At(found, c.slot)] = c.expected]
    ELSE rows

\* One entry of cs_metadata_undo_apply.
PutBack(found, rows, c) ==
    IF Stands(found, rows, c)
    THEN [rows EXCEPT ![At(found, c.slot)] = c.expected]
    ELSE rows
=============================================================================
