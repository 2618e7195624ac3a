------------------------------ MODULE Platforms ------------------------------
(* The platforms and the folders their ROMs are browsed in (platforms.c). Each *)
(* request that names a platform discovers them anew: it folds the catalog     *)
(* into views, keeps those an emulator is installed for, reads the ROM folders *)
(* of every card, and finds the row the request's tag means. Folders and       *)
(* emulators come and go meanwhile, and the table of known platforms is filled *)
(* by the first request, without a lock.                                       *)
(*                                                                             *)
(* Names are compared without case: a name here stands for all its spellings.  *)
(* Groups, icons, image and BIOS folders, and the sizes of names are left out. *)
EXTENDS Integers, FiniteSets, SequencesExt

CONSTANTS Catalog,       \* systems.json: [id, root, patterns, cores]
          CanonicalIds,  \* g_canonical_aliases, a function
          Identities,    \* g_platform_identities: [id, tag, code]
          StaticAliases, \* g_static_aliases, a function
          Starts,        \* the tags that a tag's text begins with
          RomCards,      \* paths.sources, 1 .. n
          RomFolders,    \* folders that may be there: [name, code, shortcut]
          CoreFiles,     \* emulators that may be installed, and their code
          Ports,         \* the core that is there if its ROM folder is
          Lookers,       \* worker threads
          Tags,          \* the tags that requests name
          NoTag,         \* a request for the list of platforms
          MaxDirs,       \* CS_DISCOVERED_PLATFORM_MAX, 128
          MaxShifts      \* bound: changes of the card, and requests

VARIABLES
    romDirs,  \* the folders of Roms, <<card, folder>>
    cores,    \* the emulators installed
    table,    \* g_fallback_platforms: what has been written of each row
    filled,   \* g_fallback_platforms_initialized
    seek,     \* the discovery each worker makes
    shifts    \* bound

platformVars == <<romDirs, cores, table, filled, seek, shifts>>

----------------------------------------------------------------------------
(* Views: the catalog's systems, an alias folded into the system it stands for *)

Canonical(id) == IF id \in DOMAIN CanonicalIds THEN CanonicalIds[id] ELSE id

Systems == 1..Len(Catalog)
IdentityRows == 1..Len(Identities)

Known(id) == {i \in IdentityRows : Identities[i].id = id}

\* The systems of a view.
Members(id) == {s \in Systems : Canonical(Catalog[s].id) = id}

\* cs_platform_init_view_from_catalog, cs_platform_fold_system_into_view: the
\* system of that id gives the folder for new ROMs, or the first of its aliases.
View(id) ==
    LET own == {s \in Members(id) : Catalog[s].id = id}
        first == CHOOSE s \in (IF own # {} THEN own ELSE Members(id)) :
                    \A r \in (IF own # {} THEN own ELSE Members(id)) : s <= r
        tag == IF Known(id) # {} THEN Identities[CHOOSE i \in Known(id) : TRUE].tag ELSE id
        code == IF Known(id) # {} THEN Identities[CHOOSE i \in Known(id) : TRUE].code ELSE id
        roots == {Catalog[s].root : s \in Members(id)}
    IN [id |-> id, tag |-> tag, code |-> code, root |-> Catalog[first].root, roots |-> roots,
        values |-> {id, tag, code} \cup roots \cup {Catalog[s].id : s \in Members(id)}
                   \cup UNION {Catalog[s].patterns : s \in Members(id)},
        cores |-> UNION {Catalog[s].cores : s \in Members(id)}]

\* cs_platform_build_modeled_views: the systems that are no alias, then what
\* only aliases stand for, each in the order of the catalog.
AddView(ids, s) ==
    LET id == Canonical(s.id) IN IF Contains(ids, id) THEN ids ELSE Append(ids, id)

AddOwnView(ids, s) == IF Canonical(s.id) = s.id THEN AddView(ids, s) ELSE ids

ViewIds == FoldLeft(AddView, FoldLeft(AddOwnView, <<>>, Catalog), Catalog)

Views == [id \in ToSet(ViewIds) |-> View(id)]

\* cs_platform_view_matches_value, by the folder's code or its name.
OfView(id, f) == f.code \in Views[id].values \/ f.name \in Views[id].values

\* A name in a tag's request that means the known platform of row i.
Words(i) == {Identities[i].id, Identities[i].tag, Identities[i].code}
            \cup {a \in DOMAIN StaticAliases : StaticAliases[a] = Identities[i].tag}

\* No name, and no folder, belongs to two platforms, but a known platform with
\* one name may be of another's view; of a platform's tags and aliases one at most
\* is an emulator's code; and a folder's code is its name, or what its name has
\* last in brackets: a name without them is its own code.
ASSUME CatalogAssumption ==
    /\ Catalog \in Seq(ToSet(Catalog)) /\ Identities \in Seq(ToSet(Identities)) /\ Identities # <<>>
    /\ \A id, jd \in DOMAIN Views : id # jd => Views[id].values \cap Views[jd].values = {}
    /\ \A i, j \in IdentityRows : i # j => Words(i) \cap Words(j) = {}
    /\ \A i \in IdentityRows, id \in DOMAIN Views :
          IF Identities[i].id = id THEN Words(i) \subseteq Views[id].values
          ELSE Words(i) = {Identities[i].id} \/ Words(i) \cap Views[id].values = {}
    /\ \A a \in DOMAIN StaticAliases : \E i \in IdentityRows : Identities[i].tag = StaticAliases[a]
    /\ \A i \in IdentityRows, c, d \in DOMAIN CoreFiles :
          {CoreFiles[c], CoreFiles[d]} \subseteq Words(i) => CoreFiles[c] = CoreFiles[d]
    /\ IsFiniteSet(RomFolders)
    /\ \A f, g \in RomFolders : f.name = g.name => f = g
    /\ \A f \in RomFolders, id, jd \in DOMAIN Views : OfView(id, f) /\ OfView(jd, f) => id = jd
    /\ \A f \in RomFolders :
          f.name \in {g.code : g \in RomFolders} \cup DOMAIN StaticAliases => f.code = f.name
    /\ RomCards = 1..Cardinality(RomCards) /\ Cardinality(RomCards) \in Nat \ {0}
    /\ MaxDirs \in Nat \ {0} /\ MaxShifts \in Nat

NoPlatform == [tag |-> NoTag, code |-> NoTag, folder |-> NoTag, custom |-> FALSE]

NoDiscovery ==
    [pc |-> "idle", tag |-> NoTag, at |-> 1, found |-> 0, views |-> <<>>, card |-> 1,
     dirs |-> <<>>, rows |-> <<>>, row |-> NoPlatform, raced |-> FALSE, stayed |-> {},
     steady |-> {}]

PlatformsInit ==
    /\ romDirs \in SUBSET (RomCards \X RomFolders) /\ cores \in SUBSET DOMAIN CoreFiles
    /\ table = [i \in IdentityRows |-> "empty"] /\ filled = FALSE
    /\ seek = [t \in Lookers |-> NoDiscovery]
    /\ shifts = 0

Shift == shifts < MaxShifts /\ shifts' = shifts + 1

Goes(t, pc) == seek' = [seek EXCEPT ![t].pc = pc]

----------------------------------------------------------------------------
(* The card *)

\* Uploads, the file store and other programs make and remove folders.
ChangeFolder(d) ==
    /\ Shift
    /\ romDirs' = IF d \in romDirs THEN romDirs \ {d} ELSE romDirs \cup {d}
    /\ seek' = [t \in Lookers |-> [seek[t] EXCEPT !.stayed = @ \ {d}]]
    /\ UNCHANGED <<cores, table, filled>>

ChangeCore(c) ==
    /\ Shift
    /\ cores' = IF c \in cores THEN cores \ {c} ELSE cores \cup {c}
    /\ seek' = [t \in Lookers |-> [seek[t] EXCEPT !.steady = @ \ {c}]]
    /\ UNCHANGED <<romDirs, table, filled>>

\* The program is started anew, with an empty table.
RestartProgram ==
    /\ table' = [i \in IdentityRows |-> "empty"] /\ filled' = FALSE
    /\ seek' = [t \in Lookers |-> NoDiscovery]
    /\ UNCHANGED <<romDirs, cores, shifts>>

----------------------------------------------------------------------------
(* The table of known platforms: cs_platform_find *)

StartDiscovery(t) ==
    /\ seek[t].pc = "idle" /\ Shift
    /\ \E tag \in Tags \cup {NoTag} :
          seek' = [seek EXCEPT ![t] =
             [NoDiscovery EXCEPT !.tag = tag, !.stayed = romDirs, !.steady = cores,
                !.pc = IF tag = NoTag THEN "views" ELSE IF filled THEN "find" ELSE "clear"]]
    /\ UNCHANGED <<romDirs, cores, table, filled>>

\* cs_platform_init_fallbacks, row by row: it is cleared, its texts are
\* written, and at last the table is marked. Another worker may do the same.
FillRow(t) ==
    LET i == seek[t].at IN
    /\ \/ seek[t].pc = "clear" /\ table' = [table EXCEPT ![i] = "empty"] /\ Goes(t, "begin")
       \/ seek[t].pc = "begin" /\ table' = [table EXCEPT ![i] = "part"] /\ Goes(t, "write")
       \/ /\ seek[t].pc = "write" /\ table' = [table EXCEPT ![i] = "full"]
          /\ seek' = [seek EXCEPT ![t].pc = IF i < Len(Identities) THEN "clear" ELSE "mark",
                                  ![t].at = IF i < Len(Identities) THEN i + 1 ELSE 1]
    /\ UNCHANGED <<romDirs, cores, filled, shifts>>

MarkFilled(t) ==
    /\ seek[t].pc = "mark"
    /\ filled' = TRUE /\ Goes(t, "find")
    /\ UNCHANGED <<romDirs, cores, table, shifts>>

\* What a text of a row may be read as: while it is written, what it begins with.
ReadsAs(i, text) ==
    CASE table[i] = "full" -> {text}
      [] table[i] = "part" -> {NoTag, text} \cup Starts[text]
      [] table[i] = "empty" -> {NoTag}

\* The rows a tag may be found in: the first whose texts, as they are read, or
\* whose catalog id, which is no part of the table, is the tag.
RowsOf(tag) ==
    LET may(i) == tag = Identities[i].id \/ tag \in ReadsAs(i, Identities[i].tag)
                                                    \cup ReadsAs(i, Identities[i].code)
        must(i) == tag = Identities[i].id
                      \/ (table[i] = "full" /\ tag \in {Identities[i].tag, Identities[i].code})
    IN {i \in IdentityRows : may(i) /\ \A j \in 1..(i - 1) : ~must(j)}
       \cup (IF \E i \in IdentityRows : must(i) THEN {} ELSE {0})

\* Mutant: the aliases of tags are not looked at.
FindRow_NoAliases(tag) == RowsOf(tag)

\* cs_platform_find_fallback_by_tag: 0 if there is none. Of the aliases' tags
\* none is another's alias.
FindRow(tag) ==
    IF 0 \in RowsOf(tag) /\ tag \in DOMAIN StaticAliases
    THEN (RowsOf(tag) \ {0}) \cup RowsOf(StaticAliases[tag])
    ELSE RowsOf(tag)

\* A table that another worker writes to is not what it should be.
Torn == \E i \in IdentityRows : table[i] # "full"

FindTag(t) ==
    /\ seek[t].pc = "find"
    /\ \E i \in FindRow(seek[t].tag) :
          seek' = [seek EXCEPT ![t].pc = "views", ![t].found = i, ![t].raced = Torn]
    /\ UNCHANGED <<romDirs, cores, table, filled, shifts>>

----------------------------------------------------------------------------
(* Discovery: cs_platform_discover_internal *)

Here == {d \in romDirs : ~d[2].shortcut}

\* cs_platform_core_present
Present(id, core) ==
    IF core = Ports
    THEN \E d \in romDirs : d[2].name \in Views[id].roots \/ (d \in Here /\ OfView(id, d[2]))
    ELSE core \in cores

\* cs_platform_view_visible
Visible(id) == \E core \in Views[id].cores : Present(id, core)

ShowView(ids, id) == IF Visible(id) THEN Append(ids, id) ELSE ids

\* cs_platform_build_visible_views
SeeViews(t) ==
    /\ seek[t].pc = "views"
    /\ seek' = [seek EXCEPT ![t].pc = "scan", ![t].views = FoldLeft(ShowView, <<>>, ViewIds)]
    /\ UNCHANGED <<romDirs, cores, table, filled, shifts>>

\* Mutant: there is always room.
NoteDir_NoLimit(dirs, f) ==
    IF \E i \in 1..Len(dirs) : dirs[i].code = f.code THEN dirs ELSE Append(dirs, f)

\* A folder is noted once for each code, and as long as there is room.
NoteDir(dirs, f) ==
    IF Len(dirs) = MaxDirs \/ \E i \in 1..Len(dirs) : dirs[i].code = f.code
    THEN dirs ELSE Append(dirs, f)

\* cs_platform_scan_rom_dirs, one card after the other, in readdir's order.
ScanCard(t) ==
    LET card == seek[t].card IN
    /\ seek[t].pc = "scan"
    /\ \E order \in SetToSeqs({d[2] : d \in {e \in Here : e[1] = card}}) :
          seek' = [seek EXCEPT ![t].dirs = FoldLeft(NoteDir, @, order),
                               ![t].card = IF @ + 1 \in RomCards THEN @ + 1 ELSE 1,
                               ![t].pc = IF card + 1 \in RomCards THEN "scan" ELSE "rows"]
    /\ UNCHANGED <<romDirs, cores, table, filled, shifts>>

\* Mutant: the folder for new ROMs is always browsed.
ViewRow_Root(id, dirs) ==
    [tag |-> Views[id].tag, code |-> Views[id].code, custom |-> FALSE, folder |-> Views[id].root]

\* A view's row: the first of its folders is browsed, or the one for new ROMs.
ViewRow(id, dirs) ==
    LET its == {i \in 1..Len(dirs) : OfView(id, dirs[i])} IN
    [tag |-> Views[id].tag, code |-> Views[id].code, custom |-> FALSE,
     folder |-> IF its = {} THEN Views[id].root
                ELSE dirs[CHOOSE i \in its : \A j \in its : i <= j].name]

\* cs_platform_collect_core_codes_from_dir
CoreCodes == {CoreFiles[c] : c \in cores}

\* Mutant: a folder of a platform may be a platform of its own.
IsCustom_Any(views, f) == f.code \in CoreCodes

\* Mutant: the folder is compared with the emulator's file, not with its code.
IsCustom_ByFile(views, f) ==
    /\ f.code \in cores
    /\ ~\E i \in 1..Len(views) : OfView(views[i], f)

\* A folder of no view, named for an emulator that is installed.
IsCustom(views, f) ==
    /\ f.code \in CoreCodes
    /\ ~\E i \in 1..Len(views) : OfView(views[i], f)

CustomRow(f) == [tag |-> f.code, code |-> f.code, folder |-> f.name, custom |-> TRUE]

\* Rows of folders follow the views' rows, in the order of names the model
\* does not have.
BuildRows(t) ==
    LET views == seek[t].views
        dirs == seek[t].dirs
    IN
    /\ seek[t].pc = "rows"
    /\ \E custom \in SetToSeqs({CustomRow(f) : f \in {g \in ToSet(dirs) : IsCustom(views, g)}}) :
          seek' = [seek EXCEPT ![t].pc = "answer",
                      ![t].rows = [i \in 1..Len(views) |-> ViewRow(views[i], dirs)] \o custom]
    /\ UNCHANGED <<romDirs, cores, table, filled, shifts>>

Means(row, tag, text) == row.tag = text \/ tag \in {row.tag, row.code, row.folder}

\* cs_platform_resolve: the first row that the tag means, or the text that is
\* in the tag's row of the table by now; no row is 404.
ResolveTag(t) ==
    LET i == seek[t].found
        rows == seek[t].rows
    IN
    /\ seek[t].pc = "answer" /\ seek[t].tag # NoTag
    /\ \E text \in IF i = 0 THEN {seek[t].tag} ELSE ReadsAs(i, Identities[i].tag) :
          LET k == SelectInSeq(rows, LAMBDA row : Means(row, seek[t].tag, text)) IN
          seek' = [seek EXCEPT ![t].pc = "done", ![t].raced = @ \/ Torn,
                               ![t].row = IF k = 0 THEN NoPlatform ELSE rows[k]]
    /\ UNCHANGED <<romDirs, cores, table, filled, shifts>>

EndDiscovery(t) ==
    /\ seek[t].pc = "done" \/ (seek[t].pc = "answer" /\ seek[t].tag = NoTag)
    /\ seek' = [seek EXCEPT ![t] = NoDiscovery]
    /\ UNCHANGED <<romDirs, cores, table, filled, shifts>>

----------------------------------------------------------------------------
(* Specification *)

PlatformsNext ==
    \/ \E d \in RomCards \X RomFolders : ChangeFolder(d)
    \/ \E c \in DOMAIN CoreFiles : ChangeCore(c)
    \/ RestartProgram
    \/ \E t \in Lookers :
          \/ StartDiscovery(t) \/ FillRow(t) \/ MarkFilled(t) \/ FindTag(t)
          \/ SeeViews(t) \/ ScanCard(t) \/ BuildRows(t) \/ ResolveTag(t) \/ EndDiscovery(t)

PlatformsSpec == PlatformsInit /\ [][PlatformsNext]_platformVars

----------------------------------------------------------------------------
(* Properties *)

\* Types of the discovery of platforms.c.
PlatformsTypeOK ==
    /\ romDirs \subseteq RomCards \X RomFolders /\ cores \subseteq DOMAIN CoreFiles
    /\ table \in [IdentityRows -> {"empty", "part", "full"}] /\ filled \in BOOLEAN
    /\ \A t \in Lookers :
          /\ seek[t].pc \in {"idle", "clear", "begin", "write", "mark", "find", "views",
                             "scan", "rows", "answer", "done"}
          /\ seek[t].at \in IdentityRows /\ seek[t].found \in {0} \cup IdentityRows
          /\ ToSet(seek[t].views) \subseteq DOMAIN Views
          /\ ToSet(seek[t].dirs) \subseteq RomFolders /\ Len(seek[t].dirs) <= MaxDirs
          /\ seek[t].row \in ToSet(seek[t].rows) \cup {NoPlatform}
    /\ shifts \in 0..MaxShifts

\* A folder that stayed while platforms were discovered is browsed by one of
\* them, if it is named for a platform that is shown, or for an emulator that
\* stayed installed; unless another folder is there with its code or of its
\* platform (a folder for new ROMs beside an old one), or there are too many.
FoldersAreBrowsed ==
    \A t \in Lookers : seek[t].pc = "answer" =>
        \A f \in {d[2] : d \in seek[t].stayed \cap Here} :
            LET its == {id \in ToSet(seek[t].views) : OfView(id, f)} IN
            \/ its = {} /\ f.code \notin {CoreFiles[c] : c \in seek[t].steady}
            \/ \E r \in ToSet(seek[t].rows) : r.folder = f.name
            \/ Len(seek[t].dirs) = MaxDirs
            \/ \E g \in ToSet(seek[t].dirs) :
                  g # f /\ (g.code = f.code \/ \E id \in its : OfView(id, g))

\* A request is given the one platform its tag was listed with, or whose alias
\* it is, if the discovery found it; only while the table is being filled may it
\* be given another, or none.  And no other platform browses its folder, or an
\* upload or a deletion would be made in the other's.
TagsResolve ==
    \A t \in Lookers : (seek[t].pc = "done" /\ ~seek[t].raced) =>
        LET tag == seek[t].tag
            its(x) == {r \in ToSet(seek[t].rows) : r.tag = x}
        IN /\ IF its(tag) # {} THEN its(tag) = {seek[t].row}
              ELSE tag \in DOMAIN StaticAliases /\ its(StaticAliases[tag]) # {}
                      => its(StaticAliases[tag]) = {seek[t].row}
           /\ \A i, j \in 1..Len(seek[t].rows) :
                 i # j => seek[t].rows[i].folder # seek[t].rows[j].folder
=============================================================================
