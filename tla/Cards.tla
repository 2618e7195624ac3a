-------------------------------- MODULE Cards --------------------------------
(* A platform's ROM browser over two cards (library.c, paths.c, and the routes *)
(* that take a row's path back: routes_library.c, routes_file_ops.c). A        *)
(* listing merges the platform's folder of every card, or reads library.db; a  *)
(* row's path is the handle a later request names the file by. Requests run on *)
(* worker threads, between them the daemon scans, and the second card may be   *)
(* pulled out.                                                                 *)
(*                                                                             *)
(* A path is a sequence of names below the platform's folder; a handle is a    *)
(* path, or the alias of a card in front of one.                               *)
EXTENDS Integers, Sequences, FiniteSets

CONSTANTS Aliases,   \* paths.sources[i].alias; the first is the primary card
          Paths,     \* the files a platform's folder may hold
          Pages,     \* worker threads with a request from a page
          ScanCap,   \* CS_BROWSER_SCAN_CAP, 4096
          MaxAsked   \* bound: requests

ASSUME CardsAssumption ==
    /\ Len(Aliases) \in 1..2
    /\ \A i, j \in 1..Len(Aliases) : Aliases[i] = Aliases[j] => i = j
    /\ \A p \in Paths : p = <<p[1]>> \/ p = <<p[1], p[2]>>
    /\ ScanCap \in Nat \ {0} /\ MaxAsked \in Nat

VARIABLES
    files,      \* the files, <<card, path>>
    present,    \* the cards that are in
    games,      \* rows of library.db
    favorites,  \* rows marked in it
    look,       \* the listing that is being made
    shown,      \* the rows the pages show
    job,        \* the request of each worker
    asked,      \* requests so far
    missed      \* history: files that were gone at some time since they were shown

cardVars == <<files, present, games, favorites, look, shown, job, asked, missed>>

CardIds == 1..Len(Aliases)
Places == CardIds \X Paths
FolderPaths == {<<p[1]>> : p \in {q \in Paths : Len(q) = 2}}
Handles == Paths \cup FolderPaths \cup {<<Aliases[c]>> \o p : c \in CardIds, p \in Paths}
FileRows == [handle : Handles, card : CardIds, path : Paths, folder : {FALSE}]
FolderRows == [handle : FolderPaths, card : CardIds, path : FolderPaths, folder : {TRUE}]
Rows == FileRows \cup FolderRows

NoLook == [pc |-> "idle", folder |-> <<>>, at |-> 1, db |-> FALSE, rows |-> {}, cut |-> FALSE,
           stayed |-> {}]
NoRow == [handle |-> <<>>, card |-> 1, path |-> <<>>, folder |-> FALSE]
NoJob == [pc |-> "idle", op |-> "delete", row |-> NoRow, to |-> <<>>, card |-> 1,
          rel |-> <<>>]

\* On one card, a name is a file's or a folder's.
OneKind(fs) == \A f, g \in fs : f[1] = g[1] /\ f[2] = <<g[2][1]>> => f = g

CardsInit ==
    /\ files \in {fs \in SUBSET Places : OneKind(fs)}
    /\ present = CardIds
    /\ games = files /\ favorites = {}
    /\ look = NoLook /\ shown = {} /\ missed = {}
    /\ job = [t \in Pages |-> NoJob]
    /\ asked = 0

----------------------------------------------------------------------------
(* The cards *)

Seen == {f \in files : f[1] \in present}

\* The files at a path of a card, or in the folder it names.
Under(c, rel) == {f \in files : f[1] = c /\ (f[2] = rel \/ rel = <<f[2][1]>>)}

Exists(c, rel) == c \in present /\ Under(c, rel) # {}

InFolder(folder, p) ==
    IF folder = <<>> THEN Len(p) = 1 ELSE Len(p) = 2 /\ <<p[1]>> = folder

\* What goes from a card also goes from what a listing may still have seen.
Removed(gone) ==
    /\ files' = files \ gone
    /\ missed' = missed \cup gone
    /\ look' = [look EXCEPT !.stayed = @ \ gone]

\* The second card is pulled out or put back; paths.sources stays as it was
\* when the program was started.
PullCard ==
    /\ 2 \in CardIds
    /\ present' = IF 2 \in present THEN present \ {2} ELSE present \cup {2}
    /\ look' = [look EXCEPT !.stayed = {f \in @ : f[1] = 1}]
    /\ UNCHANGED <<files, games, favorites, shown, job, asked, missed>>

\* New content goes to the primary card (cs_browser_write_root_for_scope).
PutFile ==
    /\ asked < MaxAsked /\ asked' = asked + 1
    /\ \E p \in {q \in Paths : OneKind(files \cup {<<1, q>>})} : files' = files \cup {<<1, p>>}
    /\ UNCHANGED <<present, games, favorites, look, shown, job, missed>>

\* The daemon's scan keeps the rows of a card that is not in.
ScanCards ==
    /\ games' = Seen \cup {g \in games : g[1] \notin present}
    /\ UNCHANGED <<files, present, favorites, look, shown, job, asked, missed>>

----------------------------------------------------------------------------
(* Handles *)

\* Mutant: the files of every card get a plain handle.
EntryPath_Plain(c, p) == p

\* cs_browser_rom_entry_path_for_source
EntryPath(c, p) == IF Len(Aliases) > 1 /\ c # 1 THEN <<Aliases[c]>> \o p ELSE p

\* cs_browser_split_rom_source_prefix
Prefixed(h) == Len(Aliases) > 1 /\ Len(h) > 1 /\ \E c \in CardIds : Aliases[c] = h[1]

\* Mutant: a path that no card has is on no card.
Resolve_Nowhere(h) ==
    IF Prefixed(h)
    THEN [card |-> CHOOSE c \in CardIds : Aliases[c] = h[1], rel |-> Tail(h)]
    ELSE LET having == {c \in CardIds : Exists(c, h)} IN
         [card |-> IF having = {} THEN 0 ELSE CHOOSE c \in having : \A d \in having : c <= d,
          rel |-> h]

\* cs_browser_resolve_rom_entry_path: the card of the alias in front; else the
\* first card that has the path; else the first, for what is still to be made.
Resolve(h) ==
    IF Prefixed(h)
    THEN [card |-> CHOOSE c \in CardIds : Aliases[c] = h[1], rel |-> Tail(h)]
    ELSE LET having == {c \in CardIds : Exists(c, h)} IN
         [card |-> IF having = {} THEN 1 ELSE CHOOSE c \in having : \A d \in having : c <= d,
          rel |-> h]

----------------------------------------------------------------------------
(* Listings: cs_browser_list_with_sort_indexed *)

StartListing ==
    /\ look.pc = "idle" /\ asked < MaxAsked /\ asked' = asked + 1
    /\ \E folder \in {<<>>} \cup FolderPaths :
          look' = [NoLook EXCEPT !.pc = IF folder = <<>> THEN "db" ELSE "read",
                                 !.folder = folder, !.stayed = Seen]
    /\ UNCHANGED <<files, present, games, favorites, shown, job, missed>>

\* cs_browser_list_db_roms: the rows whose file is there, of any depth, or the
\* folders if there are none or the database cannot be read.
ListDatabase ==
    LET valid == games \cap Seen IN
    /\ look.pc = "db"
    /\ \/ valid # {} /\ \E some \in SUBSET valid :
             /\ \/ some = valid /\ Cardinality(valid) <= ScanCap
                \/ Cardinality(some) = ScanCap
             /\ look' = [look EXCEPT !.pc = "done", !.cut = (some # valid), !.db = TRUE,
                   !.stayed = @ \cap games,
                   !.rows = {[handle |-> EntryPath(g[1], g[2]), card |-> g[1], path |-> g[2],
                              folder |-> FALSE] : g \in some}]
       \/ look' = [look EXCEPT !.pc = "read"]
    /\ UNCHANGED <<files, present, games, favorites, shown, job, asked, missed>>

FileRow(f) == [handle |-> EntryPath(f[1], f[2]), card |-> f[1], path |-> f[2], folder |-> FALSE]

FolderRow(c, p) == [handle |-> <<p[1]>>, card |-> c, path |-> <<p[1]>>, folder |-> TRUE]

\* Mutant: files are merged by their path too.
Entries_ByName(c) ==
    LET here == {f \in Seen : f[1] = c} IN
    {FileRow(f) : f \in {g \in here : InFolder(look.folder, g[2])
                                      /\ ~\E r \in look.rows : r.path = g[2]}}
    \cup {FolderRow(c, f[2]) : f \in {g \in here : look.folder = <<>> /\ Len(g[2]) = 2
                                        /\ ~\E r \in look.rows : r.handle = <<g[2][1]>>}}

\* Mutant: a folder in the platform's is read from the first card that has it.
Entries_OneCard(c) ==
    LET here == {f \in Seen : f[1] = c /\ (look.folder = <<>> \/ look.rows = {})} IN
    {FileRow(f) : f \in {g \in here : InFolder(look.folder, g[2])}}
    \cup {FolderRow(c, f[2]) : f \in {g \in here : look.folder = <<>> /\ Len(g[2]) = 2
                                        /\ ~\E r \in look.rows : r.handle = <<g[2][1]>>}}

\* What a card adds to the listing: its files, and the folders whose path is no
\* row's yet, be it a folder's or a file's.
Entries(c) ==
    LET here == {f \in Seen : f[1] = c} IN
    {FileRow(f) : f \in {g \in here : InFolder(look.folder, g[2])}}
    \cup {FolderRow(c, f[2]) : f \in {g \in here : look.folder = <<>> /\ Len(g[2]) = 2
                                        /\ ~\E r \in look.rows : r.handle = <<g[2][1]>>}}

\* cs_browser_list_merged_rom_filesystem, one card after the other. Which rows
\* are left out at the cap is up to readdir.
ReadFolder ==
    LET new == Entries(look.at) IN
    /\ look.pc = "read"
    /\ \E some \in SUBSET new :
          /\ \/ some = new /\ Cardinality(look.rows \cup new) <= ScanCap
             \/ some # new /\ Cardinality(look.rows \cup some) = ScanCap
          /\ look' = [look EXCEPT !.rows = @ \cup some, !.cut = @ \/ some # new,
                                  !.at = IF @ < Len(Aliases) THEN @ + 1 ELSE @,
                                  !.pc = IF look.at < Len(Aliases) THEN "read" ELSE "done"]
    /\ UNCHANGED <<files, present, games, favorites, shown, job, asked, missed>>

ShowListing ==
    /\ look.pc = "done"
    /\ shown' = look.rows /\ look' = NoLook
    /\ missed' = (IF \A t \in Pages : job[t].pc = "idle" THEN {} ELSE missed)
               \cup ({<<r.card, r.path>> : r \in FileRows \cap look.rows} \ files)
    /\ UNCHANGED <<files, present, games, favorites, job, asked>>

----------------------------------------------------------------------------
(* Requests on a row *)

Reply(t) == job' = [job EXCEPT ![t] = NoJob]

\* The handle another name in the same folder would have.
Sibling(h, p) == SubSeq(h, 1, Len(h) - 1) \o <<p[Len(p)]>>

AskFor(t) ==
    /\ job[t].pc = "idle" /\ asked < MaxAsked /\ asked' = asked + 1
    /\ \E r \in shown, op \in {"delete", "rename", "favorite"} :
       \E p \in IF op = "rename" THEN {q \in Paths : Len(q) = Len(r.path)} ELSE {r.path} :
          /\ ~(r.folder /\ op # "delete")
          /\ job' = [job EXCEPT ![t] = [NoJob EXCEPT !.pc = "resolve", !.op = op, !.row = r,
                                                     !.to = Sibling(r.handle, p)]]
    /\ UNCHANGED <<files, present, games, favorites, look, shown, missed>>

\* Both names of a rename must be on one card, or 404.
ResolveRow(t) ==
    LET at == Resolve(job[t].row.handle)
        to == Resolve(job[t].to)
    IN
    /\ job[t].pc = "resolve"
    /\ IF job[t].op = "rename" /\ to.card # at.card
       THEN Reply(t)
       ELSE job' = [job EXCEPT ![t].pc = "act", ![t].card = at.card, ![t].rel = at.rel,
                               ![t].to = to.rel]
    /\ UNCHANGED <<files, present, games, favorites, look, shown, asked, missed>>

\* Whatever is at the path by now goes, or cannot be removed.
DeleteEntry(t) ==
    /\ job[t].pc = "act" /\ job[t].op = "delete"
    /\ \/ job[t].card \in present /\ Removed(Under(job[t].card, job[t].rel))
       \/ UNCHANGED <<files, look, missed>>
    /\ Reply(t)
    /\ UNCHANGED <<present, games, favorites, shown, asked>>

\* Whatever is at the path by now gets the other name, a folder with its files.
RenameEntry(t) ==
    LET c == job[t].card
        from == Under(c, job[t].rel)
        to == {<<c, job[t].to \o SubSeq(f[2], Len(job[t].rel) + 1, Len(f[2]))>> : f \in from}
    IN
    /\ job[t].pc = "act" /\ job[t].op = "rename"
    /\ \/ /\ c \in present /\ from # {} /\ ~Exists(c, job[t].to)
          /\ to \subseteq Places /\ OneKind((files \ from) \cup to)
          /\ files' = (files \ from) \cup to
          /\ missed' = missed \cup from
          /\ look' = [look EXCEPT !.stayed = @ \ from]
       \/ UNCHANGED <<files, look, missed>>
    /\ Reply(t)
    /\ UNCHANGED <<present, games, favorites, shown, asked>>

\* cs_library_db_set_game_favorite: the row of that card and path, if any.
SetFavorite(t) ==
    LET g == <<job[t].card, job[t].rel>> IN
    /\ job[t].pc = "act" /\ job[t].op = "favorite"
    /\ favorites' \in {favorites} \cup (IF g \in games THEN {favorites \cup {g}, favorites \ {g}}
                                        ELSE {})
    /\ Reply(t)
    /\ UNCHANGED <<files, present, games, look, shown, asked, missed>>

----------------------------------------------------------------------------
(* Specification *)

CardsNext ==
    \/ PullCard \/ PutFile \/ ScanCards
    \/ StartListing \/ ListDatabase \/ ReadFolder \/ ShowListing
    \/ \E t \in Pages :
          AskFor(t) \/ ResolveRow(t) \/ DeleteEntry(t) \/ RenameEntry(t) \/ SetFavorite(t)

CardsSpec == CardsInit /\ [][CardsNext]_cardVars

----------------------------------------------------------------------------
(* Properties *)

\* Types of the listings and requests of library.c.
CardsTypeOK ==
    /\ files \subseteq Places /\ games \subseteq Places /\ favorites \subseteq Places
    /\ missed \subseteq Places /\ present \subseteq CardIds /\ 1 \in present
    /\ look.pc \in {"idle", "db", "read", "done"} /\ look.at \in CardIds
    /\ look.folder \in {<<>>} \cup FolderPaths /\ look.db \in BOOLEAN /\ look.cut \in BOOLEAN
    /\ look.rows \subseteq Rows /\ look.stayed \subseteq Places /\ shown \subseteq Rows
    /\ \A t \in Pages :
          /\ job[t].pc \in {"idle", "resolve", "act"}
          /\ job[t].row \in Rows \cup {NoRow} /\ job[t].card \in CardIds
    /\ asked \in 0..MaxAsked

\* A listing that is not cut off has a row for each file that stayed in its
\* folder while it was made, also of two cards' files with one name, or for each
\* that library.db had a row of; and read from the folders it has one row for a
\* folder, however many cards have it, but for a file of its name on an earlier
\* card, which takes its place.
EachFileOnce ==
    (look.pc = "done" /\ ~look.cut) =>
        \A f \in look.stayed :
            /\ look.db \/ InFolder(look.folder, f[2]) => FileRow(f) \in look.rows
            /\ ~look.db /\ look.folder = <<>> /\ Len(f[2]) = 2 =>
                  \E r \in look.rows :
                      /\ {s \in look.rows : s.handle = <<f[2][1]>>} = {r}
                      /\ r.folder \/ r.card < f[1]

Touched == (files \ files') \cup (favorites \ favorites') \cup (favorites' \ favorites)

\* A request for the row of a file touches that file, on the card it was listed
\* from. It strays when the file went after it was listed: with a plain handle
\* to whatever has its name by then, else to a folder of its name on its card.
\* Or when the folder of its plain handle has the name of a card.
ActsOnShown ==
    [][\A t \in Pages : LET r == job[t].row IN
          (job[t].pc = "act" /\ job'[t].pc = "idle" /\ ~r.folder) =>
              \/ Touched \subseteq {<<r.card, r.path>>}
              \/ /\ <<r.card, r.path>> \in missed
                 /\ r.card = 1 \/ \A f \in Touched : f[1] = r.card /\ <<f[2][1]>> = r.path
              \/ r.card = 1 /\ Prefixed(r.handle)]_cardVars

\* "Files keep source identity in their path handle": a request for the row of
\* a file never touches a file of the same name on another card.
HandleKeepsCard ==
    [][\A t \in Pages : LET r == job[t].row IN
          (job[t].pc = "act" /\ job'[t].pc = "idle" /\ ~r.folder) =>
              \A f \in Touched : f[2] = r.path => f[1] = r.card]_cardVars
=============================================================================
