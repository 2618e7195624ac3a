----------------------------- MODULE SaveStates ------------------------------
(* A platform's save states (states.c, routes_states.c): the files that the    *)
(* emulators keep under the States folder of each card are read, grouped into  *)
(* one entry for a game and a slot, and shown newest first; the page deletes   *)
(* an entry by the paths it was given, one request for each. The emulators     *)
(* save, and ROMs come and go, while a listing is made.                        *)
(*                                                                             *)
(* The name of a state file is a game's name, ".state" and a tail. Sizes,      *)
(* formats and the texts of labels are left out.                               *)
EXTENDS Integers, FiniteSets, FiniteSetsExt

CONSTANTS StateCards,  \* paths.sources, 1 .. n
          StateDirs,   \* the folders of States; Flat is States itself
          Flat,
          Nested,      \* the folder of States that is called States too
          StateFiles,  \* files that may be there: <<card, folder, game, tail>>
          Games,       \* ROM names without their extension
          MaxPaths,    \* CS_STATE_MAX_PATHS, 12
          MaxEntries,  \* CS_STATE_MAX_ENTRIES, 256
          MaxMoves     \* bound: saves, ROMs that come or go, and deletions

NoNumber == -1

\* A tail: ".auto", or a number, with a dot before it or not, or nothing; and
\* ".png" for the picture of the state.
StateTails ==
    [form : {"auto", "plain", "dotted"}, number : Nat \cup {NoNumber}, png : BOOLEAN]

ASSUME StatesAssumption ==
    /\ IsFiniteSet(StateCards) /\ StateCards # {} /\ StateCards = 1..Cardinality(StateCards)
    /\ Flat \in StateDirs
    /\ StateFiles \subseteq StateCards \X StateDirs \X Games \X StateTails
    /\ MaxPaths \in Nat \ {0} /\ MaxEntries \in Nat \ {0} /\ MaxMoves \in Nat

VARIABLES
    saves,   \* when each state file was last written, 0 if it is not there
    roms,    \* the games of the platform's ROM folder, <<card, game>>
    list,    \* the listing that is being made
    page,    \* the entries the page shows, and whether there were more
    doomed,  \* the entry the page deletes, and its paths still to be sent
    moves    \* bound

stateVars == <<saves, roms, list, page, doomed, moves>>

There == {f \in StateFiles : saves[f] # 0}

InDir(card, folder) == {f \in There : f[1] = card /\ f[2] = folder}

NoPicture == <<>>
NoEntry == [label |-> <<1, Flat>>, game |-> "", slot |-> 0, auto |-> FALSE,
            paths |-> {}, picture |-> NoPicture, modified |-> 0]

NoneDoomed == [entry |-> NoEntry, left |-> {}]

NoList == [pc |-> "idle", stems |-> {}, card |-> 1, folder |-> Flat, folders |-> {},
           due |-> {}, seen |-> {}, entries |-> {}, stayed |-> {}, kept |-> {}]

StatesInit ==
    /\ saves \in [StateFiles -> {0, 1}]
    /\ roms \in SUBSET (StateCards \X Games)
    /\ list = NoList
    /\ page = [entries |-> {}, cut |-> FALSE]
    /\ doomed = NoneDoomed
    /\ moves = 0

Move == moves < MaxMoves /\ moves' = moves + 1

----------------------------------------------------------------------------
(* The emulators, and whoever else has the card *)

\* A file that is written or removed may be read, missed or read again by a
\* listing that has its folder open.
Disturb(f) ==
    list' = [list EXCEPT !.due = @ \ {f}, !.seen = @ \ {f}, !.stayed = @ \ {f}]

SaveState(f) ==
    /\ Move
    /\ saves' = [saves EXCEPT ![f] = 1 + Max({saves[g] : g \in StateFiles})]
    /\ Disturb(f)
    /\ UNCHANGED <<roms, page, doomed>>

\* A ROM is added or deleted.
ChangeRom(r) ==
    /\ Move
    /\ roms' = IF r \in roms THEN roms \ {r} ELSE roms \cup {r}
    /\ list' = [list EXCEPT !.kept = @ \ {r}]
    /\ UNCHANGED <<saves, page, doomed>>

----------------------------------------------------------------------------
(* Names *)

\* cs_state_parse_filename: numbers up to CS_STATE_SLOT_MAX.
Parses(tail) ==
    CASE tail.form = "auto" -> TRUE
      [] tail.form = "plain" -> tail.number \in NoNumber..99
      [] tail.form = "dotted" -> tail.number \in 0..99

\* The automatic state is slot 9, as is a state of that number.
SlotOf(tail) ==
    IF tail.form = "auto" THEN 9 ELSE IF tail.number = NoNumber THEN 0 ELSE tail.number

\* core_dir: the folder's name, and States for States itself.
LabelOf(f) == <<f[1], IF f[2] = Nested THEN Flat ELSE f[2]>>

----------------------------------------------------------------------------
(* A listing: cs_states_collect *)

StartStates ==
    /\ list.pc = "idle"
    /\ list' = [NoList EXCEPT !.pc = "stems", !.stayed = There, !.kept = roms]
    /\ UNCHANGED <<saves, roms, page, doomed, moves>>

\* cs_state_scan_dir opens a folder.
Opened(l, card, folder) ==
    [l EXCEPT !.pc = "read", !.card = card, !.folder = folder,
              !.due = InDir(card, folder), !.seen = {}]

\* cs_state_collect_rom_stems, a card at a time; no games, no states.
CollectStems ==
    LET stems == list.stems \cup {g \in Games : <<list.card, g>> \in roms} IN
    /\ list.pc = "stems"
    /\ list' = IF list.card + 1 \in StateCards
               THEN [list EXCEPT !.stems = stems, !.card = @ + 1]
               ELSE IF stems = {} THEN [list EXCEPT !.pc = "done"]
               ELSE Opened([list EXCEPT !.stems = stems, !.folders = StateDirs \ {Flat}], 1, Flat)
    /\ UNCHANGED <<saves, roms, page, doomed, moves>>

\* Mutant: the folder is not part of what an entry is found by.
FindGroup_AnyFolder(f) ==
    {e \in list.entries : e.game = f[3] /\ e.slot = SlotOf(f[4])}

\* cs_state_find_group: one entry, or none.
FindGroup(f) ==
    {e \in list.entries : e.label = LabelOf(f) /\ e.game = f[3] /\ e.slot = SlotOf(f[4])}

\* Mutant: an entry is as new as the file that was read last.
NoteFile_Last(e, f) ==
    [e EXCEPT !.paths = @ \cup {f}, !.auto = @ \/ f[4].form = "auto",
              !.picture = IF f[4].png THEN f ELSE @, !.modified = saves[f]]

\* cs_state_note_file, and the family that decides the label.
NoteFile(e, f) ==
    [e EXCEPT !.paths = @ \cup {f}, !.auto = @ \/ f[4].form = "auto",
              !.picture = IF f[4].png THEN f ELSE @,
              !.modified = IF saves[f] > @ THEN saves[f] ELSE @]

\* Mutant: nothing looks how many files there are.
AddPayload_NoLimit(f) ==
    LET old == FindGroup(f)
        e == IF old # {} THEN CHOOSE o \in old : TRUE
             ELSE [NoEntry EXCEPT !.label = LabelOf(f), !.game = f[3], !.slot = SlotOf(f[4])]
    IN
    list' = [list EXCEPT !.seen = @ \cup {f}, !.due = @ \ {f},
                         !.entries = (@ \ old) \cup {NoteFile(e, f)}]

\* cs_state_add_payload: a bundle of too many files fails the whole listing.
AddPayload(f) ==
    LET old == FindGroup(f)
        e == IF old # {} THEN CHOOSE o \in old : TRUE
             ELSE [NoEntry EXCEPT !.label = LabelOf(f), !.game = f[3], !.slot = SlotOf(f[4])]
    IN
    IF f \notin e.paths /\ Cardinality(e.paths) = MaxPaths
    THEN list' = [list EXCEPT !.pc = "failed"]
    ELSE list' = [list EXCEPT !.seen = @ \cup {f}, !.due = @ \ {f},
                              !.entries = (@ \ old) \cup {NoteFile(e, f)}]

\* readdir gives a file of the folder that it has not given yet.
ReadState(f) ==
    /\ list.pc = "read" /\ f \in InDir(list.card, list.folder) \ list.seen
    /\ IF Parses(f[4]) /\ f[3] \in list.stems
       THEN AddPayload(f)
       ELSE list' = [list EXCEPT !.seen = @ \cup {f}, !.due = @ \ {f}]
    /\ UNCHANGED <<saves, roms, page, doomed, moves>>

\* Mutant: only the last card's folders are read.
CloseFolder_LastCard ==
    /\ list.pc = "read" /\ list.due = {}
    /\ list' \in
         IF list.card + 1 \in StateCards
         THEN {Opened(list, list.card + 1, Flat)}
         ELSE IF list.folders # {}
         THEN {Opened([list EXCEPT !.folders = @ \ {d}], list.card, d) : d \in list.folders}
         ELSE {[list EXCEPT !.pc = "done"]}
    /\ UNCHANGED <<saves, roms, page, doomed, moves>>

\* It ends once it gave all that stayed there: the next folder, in whatever
\* order, or the next card (cs_state_scan_source).
CloseFolder ==
    /\ list.pc = "read" /\ list.due = {}
    /\ list' \in
         IF list.folders # {}
         THEN {Opened([list EXCEPT !.folders = @ \ {d}], list.card, d) : d \in list.folders}
         ELSE IF list.card + 1 \in StateCards
         THEN {Opened([list EXCEPT !.folders = StateDirs \ {Flat}], list.card + 1, Flat)}
         ELSE {[list EXCEPT !.pc = "done"]}
    /\ UNCHANGED <<saves, roms, page, doomed, moves>>

\* Mutant: the oldest first.
Before_Oldest(d, e) ==
    d.modified < e.modified \/ (d.modified = e.modified /\ d.slot < e.slot)

\* cs_state_compare_descending; what is left is ordered by its id.
Before(d, e) == d.modified > e.modified \/ (d.modified = e.modified /\ d.slot < e.slot)

\* The first MaxEntries are shown.
ShowStates ==
    LET n == Cardinality(list.entries)
        most == IF n < MaxEntries THEN n ELSE MaxEntries
    IN
    /\ list.pc = "done" /\ doomed.left = {}
    /\ \E first \in kSubset(most, list.entries) :
          /\ ~\E d \in list.entries \ first, e \in first : Before(d, e)
          /\ page' = [entries |-> first, cut |-> n > MaxEntries]
    /\ list' = NoList
    /\ UNCHANGED <<saves, roms, doomed, moves>>

\* 500 state_scan_failed
FailStates ==
    /\ list.pc = "failed"
    /\ list' = NoList
    /\ UNCHANGED <<saves, roms, page, doomed, moves>>

----------------------------------------------------------------------------
(* The page *)

\* An entry's paths are sent for deletion, all at once.
ChooseEntry ==
    /\ doomed.left = {} /\ Move
    /\ \E e \in page.entries : doomed' = [entry |-> e, left |-> e.paths]
    /\ UNCHANGED <<saves, roms, list, page>>

\* The file store removes what is at the path, or cannot; 404 if it is gone.
DeletePath(f) ==
    /\ f \in doomed.left
    /\ doomed' = IF doomed.left = {f} THEN NoneDoomed ELSE [doomed EXCEPT !.left = @ \ {f}]
    /\ \/ saves' = [saves EXCEPT ![f] = 0] /\ Disturb(f)
       \/ UNCHANGED <<saves, list>>
    /\ UNCHANGED <<roms, page, moves>>

----------------------------------------------------------------------------
(* Specification *)

StatesNext ==
    \/ \E f \in StateFiles : SaveState(f) \/ ReadState(f) \/ DeletePath(f)
    \/ \E r \in StateCards \X Games : ChangeRom(r)
    \/ StartStates \/ CollectStems \/ CloseFolder \/ ShowStates \/ FailStates
    \/ ChooseEntry

StatesSpec == StatesInit /\ [][StatesNext]_stateVars

----------------------------------------------------------------------------
(* Properties *)

EntryOK(e) ==
    /\ e.label \in StateCards \X StateDirs /\ e.game \in Games /\ e.slot \in 0..99
    /\ e.paths \subseteq StateFiles /\ Cardinality(e.paths) \in 1..MaxPaths
    /\ e.picture \in e.paths \cup {NoPicture} /\ e.modified > 0

\* Types of the groups and the listing of states.c.
StatesTypeOK ==
    /\ saves \in [StateFiles -> Nat] /\ roms \subseteq StateCards \X Games
    /\ list.pc \in {"idle", "stems", "read", "done", "failed"}
    /\ list.card \in StateCards /\ list.folder \in StateDirs
    /\ list.folders \subseteq StateDirs \ {Flat} /\ list.stems \subseteq Games
    /\ list.due \cap list.seen = {} /\ list.due \cup list.seen \subseteq There
    /\ list.stayed \subseteq There /\ list.kept \subseteq roms
    /\ \A e \in list.entries \cup page.entries : EntryOK(e)
    /\ Cardinality(page.entries) <= MaxEntries
    /\ doomed.left \subseteq doomed.entry.paths /\ moves \in 0..MaxMoves

\* A state that stayed as it was while a listing was made, and of whose game a
\* ROM stayed, is in exactly one entry of the listing; it is left out only if
\* the listing says that it was cut, and then all that is shown is as new.
EachStateListed ==
    [][(list.pc = "done" /\ list'.pc # "done") =>
         \A f \in {g \in list.stayed :
                    Parses(g[4]) /\ \E c \in StateCards : <<c, g[3]>> \in list.kept} :
            LET entries == {e \in page'.entries : f \in e.paths} IN
            \/ Cardinality(entries) = 1
            \/ /\ entries = {} /\ page'.cut
               /\ \A e \in page'.entries : e.modified >= saves[f]]_stateVars

\* Deleting an entry removes no state of another game, slot or emulator, also
\* when files were saved since it was listed; the automatic state and the
\* state of number 9 are one slot, and States in States is States.
DeleteSparesOthers ==
    [][\A f \in StateFiles : (saves[f] # 0 /\ saves'[f] = 0) =>
          LET e == doomed.entry IN
          e.label = LabelOf(f) /\ e.game = f[3] /\ e.slot = SlotOf(f[4])]_stateVars
=============================================================================
