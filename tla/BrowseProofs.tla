---------------------------- MODULE BrowseProofs ----------------------------
(***************************************************************************)
(* Proofs about the folders of the cards, and about the parts that MCParts *)
(* puts together.                                                          *)
(*                                                                         *)
(* The ROM browser over two cards (Cards), for any files, folders, pages   *)
(* and cap: a listing has one row for each file, and a request touches the *)
(* file its row was shown for.                                             *)
(*                                                                         *)
(* Requests on the folders of a card (Folders), on any tree: that it stays *)
(* a tree with one entry to a name; that whatever is under a hidden name   *)
(* has a reason to be; and that nothing goes but for a reason.             *)
(***************************************************************************)
EXTENDS MCParts, HandoffProofs, UploadProofs, SequenceTheorems,
        WellFoundedInduction, TLAPS

-----------------------------------------------------------------------------
(* Paths and handles *)

\* A path has one name or two.
LEMMA PathFacts ==
    ASSUME NEW p \in Paths
    PROVE  /\ Len(p) \in 1 .. 2
           /\ Len(p) = 1 => p = <<p[1]>>
           /\ Len(p) = 2 => <<p[1]>> \in FolderPaths
<1>1. p = <<p[1]>> \/ p = <<p[1], p[2]>>
  BY CardsAssumption
<1>2. p = <<p[1]>> => Len(p) = 1
  OBVIOUS
<1>3. p = <<p[1], p[2]>> => Len(p) = 2
  OBVIOUS
<1>4. Len(p) = 2 => <<p[1]>> \in FolderPaths
  BY DEF FolderPaths
<1> QED BY <1>1, <1>2, <1>3, <1>4

LEMMA TupleFacts ==
    ASSUME NEW S, NEW x \in S, NEW y \in S
    PROVE  /\ <<x>> \in Seq(S) /\ Len(<<x>>) = 1
           /\ <<x, y>> \in Seq(S) /\ Len(<<x, y>>) = 2
OBVIOUS

LEMMA FolderPathFacts ==
    ASSUME NEW h \in FolderPaths
    PROVE  Len(h) = 1 /\ h # <<>>
<1>1. PICK q \in Paths : h = <<q[1]>>
  BY DEF FolderPaths
<1> QED BY <1>1

\* An alias in front of a path can be taken off again.
LEMMA PrefixFacts ==
    ASSUME NEW a, NEW p \in Paths
    PROVE  /\ Len(<<a>> \o p) = Len(p) + 1
           /\ Len(<<a>> \o p) > 1
           /\ (<<a>> \o p)[1] = a
           /\ Tail(<<a>> \o p) = p
<1> DEFINE x == p[1]
<1> DEFINE y == p[2]
<1>1. p = <<x>> \/ p = <<x, y>>
  BY CardsAssumption
<1> HIDE DEF x, y
<1> DEFINE S == {a, x, y}
<1>2. p \in Seq(S) /\ <<a>> \in Seq(S)
  BY <1>1, TupleFacts
<1>3. Len(p) \in 1 .. 2
  BY PathFacts
<1> HIDE DEF S
<1> DEFINE h == <<a>> \o p
<1>4. /\ h \in Seq(S) /\ Len(h) = 1 + Len(p)
      /\ h[1] = a /\ \A i \in 1 .. Len(p) : h[i + 1] = p[i]
  <2>1. h \in Seq(S) /\ Len(h) = Len(<<a>>) + Len(p)
    BY <1>2, ConcatProperties
  <2>2. Len(<<a>>) = 1
    OBVIOUS
  <2>3. \A i \in 1 .. Len(<<a>>) + Len(p) :
           h[i] = IF i <= Len(<<a>>) THEN <<a>>[i] ELSE p[i - Len(<<a>>)]
    BY <1>2, ConcatProperties
  <2>4. h[1] = a
    BY <2>2, <2>3, <1>3
  <2>5. ASSUME NEW i \in 1 .. Len(p) PROVE h[i + 1] = p[i]
    BY <2>2, <2>3, <1>3
  <2> QED BY <2>1, <2>2, <2>4, <2>5
<1> HIDE DEF h
<1>5. h # <<>>
  BY <1>4, <1>3
<1>6. Tail(h) \in Seq(S) /\ Len(Tail(h)) = Len(h) - 1
      /\ \A i \in 1 .. Len(Tail(h)) : Tail(h)[i] = h[i + 1]
  BY <1>4, <1>5, HeadTailProperties
<1>7. Tail(h) = p
  <2>1. Len(Tail(h)) = Len(p)
    BY <1>6, <1>4, <1>3
  <2>2. \A i \in 1 .. Len(p) : Tail(h)[i] = p[i]
    BY <2>1, <1>6, <1>4
  <2> QED BY <2>1, <2>2, <1>6, <1>2, SeqEqual
<1> QED BY <1>3, <1>4, <1>7 DEF h

LEMMA CardFacts ==
    /\ Len(Aliases) \in 1 .. 2
    /\ CardIds = 1 .. Len(Aliases) /\ CardIds \subseteq Nat /\ 1 \in CardIds
    /\ \A c \in CardIds : c = 1 \/ c = 2
<1>1. \A n \in 1 .. 2 : /\ 1 .. n \subseteq Nat /\ 1 \in 1 .. n
                       /\ \A c \in 1 .. n : c = 1 \/ c = 2
  OBVIOUS
<1>2. Len(Aliases) \in 1 .. 2
  BY CardsAssumption, Zenon
<1>3. CardIds = 1 .. Len(Aliases)
  BY DEF CardIds
<1>4. CardIds \subseteq Nat /\ 1 \in CardIds /\ \A c \in CardIds : c = 1 \/ c = 2
  BY <1>1, <1>2, <1>3, Zenon
<1> QED BY <1>2, <1>3, <1>4, Zenon

\* Only a file of the first card has a handle that a folder may have as well.
LEMMA FileRowFacts ==
    ASSUME NEW c \in CardIds, NEW p \in Paths
    PROVE  /\ EntryPath(c, p) \in Handles
           /\ EntryPath(c, p) \in FolderPaths => c = 1
           /\ c = 1 => EntryPath(c, p) = p
<1>1. CASE c = 1
  <2>1. EntryPath(c, p) = p
    BY <1>1 DEF EntryPath
  <2>2. p \in Handles
    BY DEF Handles
  <2> QED BY <1>1, <2>1, <2>2
<1>2. CASE c # 1
  <2>1. EntryPath(c, p) = <<Aliases[c]>> \o p
    BY <1>2, CardFacts DEF EntryPath
  <2>2. Len(EntryPath(c, p)) > 1
    BY <2>1, PrefixFacts
  <2>3. EntryPath(c, p) \in Handles
    BY <2>1 DEF Handles
  <2>4. ASSUME EntryPath(c, p) \in FolderPaths PROVE FALSE
    <3>1. Len(EntryPath(c, p)) = 1
      BY <2>4, FolderPathFacts
    <3> QED BY <2>2, <3>1
  <2> QED BY <1>2, <2>3, <2>4
<1> QED BY <1>1, <1>2

\* A handle leads back to its card and path: of the first card's files, while
\* they are there.
LEMMA ResolveOwn ==
    ASSUME NEW c \in CardIds, NEW p \in Paths, 1 \in present, files \subseteq Places
    PROVE  LET r == Resolve(EntryPath(c, p)) IN
           \/ r.card = c /\ r.rel = p
           \/ c = 1 /\ (<<1, p>> \notin files \/ Prefixed(EntryPath(c, p)))
<1> DEFINE h == EntryPath(c, p)
<1>1. CASE c # 1
  <2>1. h = <<Aliases[c]>> \o p /\ Len(Aliases) > 1
    BY <1>1, CardFacts DEF EntryPath
  <2>2. Len(h) > 1 /\ h[1] = Aliases[c] /\ Tail(h) = p
    BY <2>1, PrefixFacts
  <2>3. Prefixed(h)
    BY <2>1, <2>2 DEF Prefixed
  <2>4. (CHOOSE d \in CardIds : Aliases[d] = h[1]) = c
    BY <2>2, CardsAssumption DEF CardIds
  <2>5. Resolve(h) = [card |-> CHOOSE d \in CardIds : Aliases[d] = h[1], rel |-> Tail(h)]
    BY <2>3 DEF Resolve
  <2> HIDE DEF h
  <2>6. Resolve(h).card = c /\ Resolve(h).rel = p
    BY <2>2, <2>4, <2>5
  <2> QED BY <2>6 DEF h
<1>2. CASE c = 1
  <2>1. h = p
    BY <1>2, FileRowFacts
  <2>2. SUFFICES ASSUME <<1, p>> \in files, ~Prefixed(p)
                 PROVE  Resolve(p).card = 1 /\ Resolve(p).rel = p
    BY <1>2, <2>1
  <2> DEFINE having == {d \in CardIds : Exists(d, p)}
  <2>3. <<1, p>> \in Under(1, p)
    BY <2>2 DEF Under
  <2>4. 1 \in having
    BY <2>3, CardFacts DEF Exists
  <2>5. (CHOOSE d \in having : \A e \in having : d <= e) = 1
    <3>1. \A e \in having : 1 <= e
      BY CardFacts
    <3>2. \A d \in having : (\A e \in having : d <= e) => d = 1
      BY <2>4, CardFacts
    <3> HIDE DEF having
    <3> QED BY <2>4, <3>1, <3>2
  <2>6. Resolve(p) = [card |-> IF having = {} THEN 1
                               ELSE CHOOSE d \in having : \A e \in having : d <= e,
                      rel |-> p]
    BY <2>2 DEF Resolve
  <2> HIDE DEF having
  <2> QED BY <2>4, <2>5, <2>6
<1> QED BY <1>1, <1>2

LEMMA ResolveCard ==
    ASSUME NEW h
    PROVE  Resolve(h).card \in CardIds
<1>1. CASE Prefixed(h)
  <2>1. \E c \in CardIds : Aliases[c] = h[1]
    BY <1>1 DEF Prefixed
  <2>2. Resolve(h) = [card |-> CHOOSE c \in CardIds : Aliases[c] = h[1], rel |-> Tail(h)]
    BY <1>1 DEF Resolve
  <2> QED BY <2>1, <2>2
<1>2. CASE ~Prefixed(h)
  <2> DEFINE having == {d \in CardIds : Exists(d, h)}
  <2>1. Resolve(h) = [card |-> IF having = {} THEN 1
                               ELSE CHOOSE d \in having : \A e \in having : d <= e,
                      rel |-> h]
    BY <1>2 DEF Resolve
  <2>2. CASE having = {}
    BY <2>1, <2>2, CardFacts
  <2>3. CASE having # {}
    <3>1. \E d \in having : \A e \in having : d <= e
      <4>1. having \subseteq CardIds
        OBVIOUS
      <4> HIDE DEF having
      <4>4. \A d \in having : d = 1 \/ d = 2
        BY <4>1, CardFacts
      <4>2. CASE 1 \in having
        BY <4>2, <4>4
      <4>3. CASE 1 \notin having
        BY <4>3, <4>4, <2>3
      <4> QED BY <4>2, <4>3
    <3>2. having \subseteq CardIds
      OBVIOUS
    <3> HIDE DEF having
    <3>3. (CHOOSE d \in having : \A e \in having : d <= e) \in having
      BY <3>1
    <3> QED BY <2>1, <2>3, <3>2, <3>3
  <2> QED BY <2>2, <2>3
<1> QED BY <1>1, <1>2

-----------------------------------------------------------------------------
(* The invariants *)

Looks == [pc : {"idle", "db", "read", "done"}, folder : {<<>>} \cup FolderPaths, at : CardIds,
          db : BOOLEAN, rows : SUBSET Rows, cut : BOOLEAN, stayed : SUBSET Places]

\* The files there are, and those that went since a page was shown them.
Past == files \cup missed

\* A row's handle is the one of its file.
Named(r) == r \in Rows /\ (~r.folder => r.handle = EntryPath(r.card, r.path))

\* The file of a row is there, or known to have gone.
Known(r, past) == ~r.folder => <<r.card, r.path>> \in past

JobOK(j) ==
    /\ DOMAIN j = {"pc", "op", "row", "to", "card", "rel"}
    /\ j.pc \in {"idle", "resolve", "act"}
    /\ j.row \in Rows \cup {NoRow} /\ j.card \in CardIds

\* A request is for the file of its row, or strays as ActsOnShown allows.
Aimed(j, gone) ==
    \/ j.card = j.row.card /\ j.rel = j.row.path
    \/ j.row.card = 1 /\ (<<1, j.row.path>> \in gone \/ Prefixed(j.row.handle))

JobFits(j, past, gone) ==
    /\ JobOK(j)
    /\ j.pc # "idle" => Named(j.row) /\ Known(j.row, past)
    /\ j.pc = "act" /\ ~j.row.folder => Aimed(j, gone)

RowsInv ==
    /\ \A r \in look.rows \cup shown : Named(r)
    /\ \A r \in shown : Known(r, Past)
    /\ job = [t \in Pages |-> job[t]]
    /\ \A t \in Pages : JobFits(job[t], Past, missed)

\* The cards a listing has been through, while it merges their folders.
Merged(l, c) == l.pc = "done" \/ c < l.at

Merging(l) == l.pc = "read" \/ (l.pc = "done" /\ ~l.db)

\* A file has its row, in the folder that is listed or as the folder it is in;
\* an earlier card's file takes the place of a folder.
Covered(f, folder, rows) ==
    /\ InFolder(folder, f[2]) => FileRow(f) \in rows
    /\ folder = <<>> /\ Len(f[2]) = 2 =>
          \E r \in rows : r.handle = <<f[2][1]>> /\ (r.folder \/ r.card < f[1])

\* What a listing has so far: nothing before the first card, no folder's handle
\* twice, and what stayed on the cards it has been through.
ListFits(l) ==
    /\ l.pc = "db" => l.rows = {} /\ l.at = 1
    /\ l.pc \in {"db", "read"} => ~l.db
    /\ l.pc = "read" /\ l.at = 1 => l.rows = {}
    /\ l.pc = "done" /\ l.db /\ ~l.cut => \A f \in l.stayed : FileRow(f) \in l.rows
    /\ Merging(l) => \A r, s \in l.rows : r.handle \in FolderPaths /\ r.handle = s.handle => r = s
    /\ Merging(l) /\ ~l.cut =>
          \A f \in l.stayed : Merged(l, f[1]) => Covered(f, l.folder, l.rows)

ListInv == look \in Looks /\ look.stayed \subseteq Seen /\ ListFits(look)

CardsInv == CardsTypeOK /\ OneKind(files) /\ RowsInv /\ ListInv

LEMMA RowFacts ==
    ASSUME NEW r \in Rows
    PROVE  /\ r.folder \in BOOLEAN /\ r.card \in CardIds
           /\ ~r.folder => r \in FileRows /\ r.path \in Paths /\ <<r.card, r.path>> \in Places
           /\ r.folder => r.handle \in FolderPaths
BY DEF Rows, FileRows, FolderRows, Places

LEMMA FileRowNamed ==
    ASSUME NEW f \in Places
    PROVE  /\ FileRow(f) \in FileRows /\ Named(FileRow(f)) /\ ~FileRow(f).folder
           /\ FileRow(f).card = f[1] /\ FileRow(f).path = f[2]
           /\ FileRow(f).handle \in FolderPaths => f = <<1, FileRow(f).handle>>
<1>1. f[1] \in CardIds /\ f[2] \in Paths /\ f = <<f[1], f[2]>>
  BY DEF Places
<1>2. /\ EntryPath(f[1], f[2]) \in Handles
      /\ EntryPath(f[1], f[2]) \in FolderPaths => f[1] = 1 /\ EntryPath(f[1], f[2]) = f[2]
  BY <1>1, FileRowFacts
<1> QED BY <1>1, <1>2 DEF FileRow, Named, Rows, FileRows

LEMMA FolderRowNamed ==
    ASSUME NEW c \in CardIds, NEW p \in Paths, Len(p) = 2
    PROVE  /\ FolderRow(c, p) \in Rows /\ Named(FolderRow(c, p)) /\ FolderRow(c, p).folder
           /\ FolderRow(c, p).handle = <<p[1]>>
<1>1. <<p[1]>> \in FolderPaths
  BY PathFacts
<1> QED BY <1>1 DEF FolderRow, Named, Rows, FolderRows

\* A row with a folder's handle is a folder's, or a file's of the first card.
LEMMA FolderHandles ==
    ASSUME NEW r, Named(r), r.handle \in FolderPaths
    PROVE  r.folder \/ r.card = 1
<1>1. ASSUME ~r.folder PROVE r.card = 1
  <2>1. r.handle = EntryPath(r.card, r.path) /\ r.card \in CardIds /\ r.path \in Paths
    BY <1>1, RowFacts DEF Named
  <2> QED BY <2>1, FileRowFacts
<1> QED BY <1>1

LEMMA CardsInitOK == CardsInit => CardsInv
<1> SUFFICES ASSUME CardsInit PROVE CardsInv
  OBVIOUS
<1> USE DEF CardsInit
<1>1. CardsTypeOK
  <2>1. \A t \in Pages : job[t] = NoJob
    OBVIOUS
  <2> QED BY <2>1, CardFacts, CardsAssumption DEF CardsTypeOK, NoLook, NoJob
<1>2. RowsInv
  <2>1. NoJob.pc = "idle" /\ JobOK(NoJob)
    BY CardFacts DEF NoJob, JobOK
  <2>2. JobFits(NoJob, Past, missed)
    BY <2>1 DEF JobFits
  <2>3. look.rows = {}
    BY DEF NoLook
  <2> QED BY <2>2, <2>3 DEF RowsInv
<1>3. ListInv
  BY CardFacts DEF ListInv, ListFits, Looks, NoLook, Merging
<1>4. OneKind(files)
  OBVIOUS
<1> QED BY <1>1, <1>2, <1>3, <1>4 DEF CardsInv

-----------------------------------------------------------------------------
(* What the actions have in common *)

LEMMA TypesFrom ==
    ASSUME RowsInv', ListInv', OneKind(files)', files' \subseteq Places, games' \subseteq Places,
           favorites' \subseteq Places, missed' \subseteq Places, present' \subseteq CardIds,
           1 \in present', asked' \in 0 .. MaxAsked
    PROVE  CardsInv'
<1>1. /\ look'.pc \in {"idle", "db", "read", "done"} /\ look'.at \in CardIds
      /\ look'.folder \in {<<>>} \cup FolderPaths /\ look'.cut \in BOOLEAN
      /\ look'.db \in BOOLEAN /\ look'.rows \subseteq Rows /\ look'.stayed \subseteq Places
  BY DEF ListInv, Looks
<1>2. shown' \subseteq Rows
  BY DEF RowsInv, Named
<1>3. \A t \in Pages :
         /\ job'[t].pc \in {"idle", "resolve", "act"}
         /\ job'[t].row \in Rows \cup {NoRow} /\ job'[t].card \in CardIds
  BY DEF RowsInv, JobFits, JobOK
<1>4. CardsTypeOK'
  BY <1>1, <1>2, <1>3 DEF CardsTypeOK
<1> QED BY <1>4 DEF CardsInv

\* Files that go are known to have gone, and other requests stay as they were.
LEMMA RowsKept ==
    ASSUME CardsInv, \A r \in look'.rows : Named(r), shown' = shown,
           Past \subseteq Past', missed \subseteq missed',
           job' = [u \in Pages |-> job'[u]],
           \A u \in Pages : job'[u] = job[u] \/ JobFits(job'[u], Past', missed')
    PROVE  RowsInv'
<1>1. \A r \in look'.rows \cup shown' : Named(r)
  BY DEF CardsInv, RowsInv
<1>2. \A r \in shown' : Known(r, Past')
  BY DEF CardsInv, RowsInv, Known
<1>3. ASSUME NEW u \in Pages PROVE JobFits(job'[u], Past', missed')
  <2>1. CASE job'[u] = job[u]
    <3>1. JobFits(job[u], Past, missed)
      BY DEF CardsInv, RowsInv
    <3>2. JobFits(job[u], Past', missed')
      BY <3>1 DEF JobFits, Known, Aimed
    <3> QED BY <2>1, <3>2
  <2> QED BY <2>1
<1> QED BY <1>1, <1>2, <1>3 DEF RowsInv

LEMMA KindStays ==
    ASSUME CardsInv, files' = files
    PROVE  OneKind(files)'
BY DEF CardsInv, OneKind

LEMMA OneJob ==
    ASSUME CardsInv, NEW t \in Pages, NEW j, job' = [job EXCEPT ![t] = j]
    PROVE  /\ job' = [u \in Pages |-> job'[u]]
           /\ job'[t] = j
           /\ \A u \in Pages \ {t} : job'[u] = job[u]
BY DEF CardsInv, RowsInv

LEMMA RestFits ==
    ASSUME NEW past, NEW gone
    PROVE  JobFits(NoJob, past, gone)
<1>1. NoJob.pc = "idle" /\ JobOK(NoJob)
  BY CardFacts DEF NoJob, JobOK
<1> QED BY <1>1 DEF JobFits

\* A listing loses only files that did not stay.
LEMMA FitsLess ==
    ASSUME NEW l \in Looks, ListFits(l), NEW S, S \subseteq l.stayed
    PROVE  /\ [l EXCEPT !.stayed = S] \in Looks
           /\ [l EXCEPT !.stayed = S].rows = l.rows
           /\ [l EXCEPT !.stayed = S].stayed = S
           /\ ListFits([l EXCEPT !.stayed = S])
<1> DEFINE m == [l EXCEPT !.stayed = S]
<1>1. /\ m \in Looks /\ m.pc = l.pc /\ m.folder = l.folder /\ m.at = l.at /\ m.rows = l.rows
      /\ m.cut = l.cut /\ m.db = l.db /\ m.stayed = S
  BY DEF Looks
<1> HIDE DEF m
<1>2. ListFits(m)
  BY <1>1 DEF ListFits, Merging, Merged
<1> QED BY <1>1, <1>2 DEF m

LEMMA ListKept ==
    ASSUME CardsInv, NEW S, S \subseteq look.stayed, S \subseteq Seen',
           \/ look' = look /\ S = look.stayed
           \/ look' = [look EXCEPT !.stayed = S]
    PROVE  ListInv' /\ \A r \in look'.rows : Named(r)
<1>1. look \in Looks /\ ListFits(look)
  BY DEF CardsInv, ListInv
<1>2. look' \in Looks /\ look'.rows = look.rows /\ look'.stayed = S /\ ListFits(look')
  <2>1. CASE look' = look /\ S = look.stayed
    BY <1>1, <2>1
  <2>2. CASE look' = [look EXCEPT !.stayed = S]
    <3>1. /\ [look EXCEPT !.stayed = S] \in Looks
          /\ [look EXCEPT !.stayed = S].rows = look.rows
          /\ [look EXCEPT !.stayed = S].stayed = S
          /\ ListFits([look EXCEPT !.stayed = S])
      BY <1>1, FitsLess
    <3> QED BY <2>2, <3>1, Zenon
  <2> QED BY <2>1, <2>2
<1>3. ListInv'
  BY <1>2 DEF ListInv
<1> QED BY <1>2, <1>3 DEF CardsInv, RowsInv

-----------------------------------------------------------------------------
(* Cards, files and scans *)

LEMMA WorldSteps ==
    ASSUME CardsInv, PullCard \/ PutFile \/ ScanCards
    PROVE  CardsInv'
<1>1. /\ files \subseteq Places /\ games \subseteq Places /\ favorites \subseteq Places
      /\ missed \subseteq Places /\ present \subseteq CardIds /\ 1 \in present
      /\ asked \in 0 .. MaxAsked /\ look.stayed \subseteq Seen
  BY DEF CardsInv, CardsTypeOK, ListInv
<1>2. shown' = shown /\ job' = job /\ missed' = missed /\ files \subseteq files'
      /\ favorites' = favorites
  BY DEF PullCard, PutFile, ScanCards
<1>3. files' \subseteq Places /\ games' \subseteq Places /\ 1 \in present'
      /\ present' \subseteq CardIds /\ asked' \in 0 .. MaxAsked
  <2>1. CASE PullCard
    BY <2>1, <1>1 DEF PullCard
  <2>2. CASE PutFile
    BY <2>2, <1>1, CardFacts, CardsAssumption DEF PutFile, Places
  <2>3. CASE ScanCards
    BY <2>3, <1>1 DEF ScanCards, Seen
  <2> QED BY <2>1, <2>2, <2>3
<1>4. ListInv' /\ \A r \in look'.rows : Named(r)
  <2>1. CASE PullCard
    <3> DEFINE S == {f \in look.stayed : f[1] = 1}
    <3>1. S \subseteq Seen'
      BY <1>1, <1>2, <1>3 DEF Seen
    <3>2. look' = [look EXCEPT !.stayed = S]
      BY <2>1 DEF PullCard
    <3>3. S \subseteq look.stayed
      OBVIOUS
    <3> HIDE DEF S
    <3> QED BY <3>1, <3>2, <3>3, ListKept
  <2>2. CASE PutFile \/ ScanCards
    <3>1. look' = look /\ look.stayed \subseteq Seen'
      BY <2>2, <1>1, <1>2 DEF PutFile, ScanCards, Seen
    <3> QED BY <3>1, ListKept
  <2> QED BY <2>1, <2>2
<1>5. RowsInv'
  <2>1. job' = [u \in Pages |-> job'[u]] /\ \A u \in Pages : job'[u] = job[u]
    BY <1>2 DEF CardsInv, RowsInv
  <2>2. Past \subseteq Past' /\ missed \subseteq missed'
    BY <1>2 DEF Past
  <2> QED BY <1>2, <1>4, <2>1, <2>2, RowsKept
<1>6. OneKind(files)'
  <2>1. CASE PutFile
    BY <2>1 DEF PutFile
  <2>2. CASE PullCard \/ ScanCards
    BY <2>2 DEF PullCard, ScanCards, CardsInv, OneKind
  <2> QED BY <2>1, <2>2
<1> QED BY <1>1, <1>2, <1>3, <1>4, <1>5, <1>6, TypesFrom

-----------------------------------------------------------------------------
(* Listings *)

LEMMA StartSteps ==
    ASSUME CardsInv, StartListing
    PROVE  CardsInv'
<1>1. /\ files \subseteq Places /\ games \subseteq Places /\ favorites \subseteq Places
      /\ missed \subseteq Places /\ present \subseteq CardIds /\ 1 \in present
      /\ asked \in 0 .. MaxAsked
  BY DEF CardsInv, CardsTypeOK
<1>2. /\ UNCHANGED <<files, present, games, favorites, shown, job, missed>>
      /\ asked' \in 0 .. MaxAsked
  BY <1>1, CardsAssumption DEF StartListing
<1>3. PICK folder \in {<<>>} \cup FolderPaths :
          look' = [NoLook EXCEPT !.pc = IF folder = <<>> THEN "db" ELSE "read",
                                 !.folder = folder, !.stayed = Seen]
  BY DEF StartListing
<1>4. /\ look' \in Looks /\ look'.pc \in {"db", "read"} /\ look'.rows = {} /\ look'.at = 1
      /\ look'.stayed = Seen /\ ~look'.db
  BY <1>1, <1>3, CardFacts DEF NoLook, Looks, Seen
<1>5. \A f \in Seen : f[1] \in CardIds
  BY <1>1 DEF Seen, Places
<1>6. ListFits(look')
  BY <1>4, <1>5, CardFacts DEF ListFits, Merging, Merged
<1>7. ListInv'
  BY <1>2, <1>4, <1>6 DEF ListInv, Seen
<1>8. RowsInv'
  <2>1. job' = [u \in Pages |-> job'[u]] /\ \A u \in Pages : job'[u] = job[u]
    BY <1>2 DEF CardsInv, RowsInv
  <2>2. Past \subseteq Past' /\ missed \subseteq missed'
    BY <1>2 DEF Past
  <2> QED BY <1>2, <1>4, <2>1, <2>2, RowsKept
<1> QED BY <1>1, <1>2, <1>7, <1>8, KindStays, TypesFrom

LEMMA DatabaseSteps ==
    ASSUME CardsInv, ListDatabase
    PROVE  CardsInv'
<1>1. /\ files \subseteq Places /\ games \subseteq Places /\ favorites \subseteq Places
      /\ missed \subseteq Places /\ present \subseteq CardIds /\ 1 \in present
      /\ asked \in 0 .. MaxAsked /\ look \in Looks /\ look.stayed \subseteq Seen
      /\ ListFits(look) /\ look.pc = "db"
  BY DEF CardsInv, CardsTypeOK, ListInv, ListDatabase
<1>2. UNCHANGED <<files, present, games, favorites, shown, job, asked, missed>>
  BY DEF ListDatabase
<1>3. look.rows = {} /\ look.at = 1 /\ ~look.db
  BY <1>1 DEF ListFits
<1>4. /\ look' \in Looks /\ ListFits(look') /\ look'.stayed \subseteq look.stayed
      /\ \A r \in look'.rows : Named(r)
  <2>1. CASE look' = [look EXCEPT !.pc = "read"]
    <3>1. /\ look' \in Looks /\ look'.pc = "read" /\ look'.rows = {} /\ look'.at = 1
          /\ look'.stayed = look.stayed /\ ~look'.db
      BY <1>1, <1>3, <2>1 DEF Looks
    <3>2. \A f \in look.stayed : f[1] \in CardIds
      BY <1>1 DEF Seen, Places
    <3> QED BY <3>1, <3>2, CardFacts DEF ListFits, Merging, Merged
  <2>2. ASSUME NEW some \in SUBSET (games \cap Seen),
               look' = [look EXCEPT !.pc = "done", !.cut = (some # games \cap Seen), !.db = TRUE,
                   !.stayed = @ \cap games,
                   !.rows = {[handle |-> EntryPath(g[1], g[2]), card |-> g[1], path |-> g[2],
                              folder |-> FALSE] : g \in some}]
        PROVE  /\ look' \in Looks /\ ListFits(look') /\ look'.stayed \subseteq look.stayed
               /\ \A r \in look'.rows : Named(r)
    <3> DEFINE rows == {[handle |-> EntryPath(g[1], g[2]), card |-> g[1], path |-> g[2],
                         folder |-> FALSE] : g \in some}
    <3>1. /\ \A r \in rows : \E g \in some : r = FileRow(g)
          /\ \A g \in some : FileRow(g) \in rows
      BY DEF FileRow
    <3>2. \A g \in some : g \in Places
      BY <1>1
    <3>3. \A r \in rows : Named(r) /\ r \in Rows
      BY <3>1, <3>2, FileRowNamed DEF Named
    <3> HIDE DEF rows
    <3>4. /\ look' \in Looks /\ look'.pc = "done" /\ look'.rows = rows /\ look'.db
          /\ look'.stayed = look.stayed \cap games /\ look'.cut = (some # games \cap Seen)
      BY <1>1, <2>2, <3>3 DEF Looks, rows
    <3>5. ~look'.cut => \A f \in look'.stayed : FileRow(f) \in rows
      BY <1>1, <3>1, <3>4
    <3>6. ListFits(look')
      BY <3>4, <3>5 DEF ListFits, Merging
    <3> QED BY <3>3, <3>4, <3>6
  <2> QED BY <2>1, <2>2 DEF ListDatabase
<1>5. ListInv'
  BY <1>1, <1>2, <1>4 DEF ListInv, Seen
<1>6. RowsInv'
  <2>1. job' = [u \in Pages |-> job'[u]] /\ \A u \in Pages : job'[u] = job[u]
    BY <1>2 DEF CardsInv, RowsInv
  <2>2. Past \subseteq Past' /\ missed \subseteq missed'
    BY <1>2 DEF Past
  <2> QED BY <1>2, <1>4, <2>1, <2>2, RowsKept
<1> QED BY <1>1, <1>2, <1>5, <1>6, KindStays, TypesFrom

\* What a card adds: named rows, with a folder's handle only where none had it,
\* and a row for each of its files.
LEMMA EntriesFacts ==
    ASSUME CardsInv, look.pc = "read", NEW c \in CardIds, look.at = c
    PROVE  /\ \A r \in Entries(c) : Named(r)
           /\ \A r \in Entries(c), s \in look.rows \cup Entries(c) :
                 r.handle \in FolderPaths /\ s.handle = r.handle => s = r
           /\ \A f \in Seen : f[1] = c => Covered(f, look.folder, look.rows \cup Entries(c))
<1> DEFINE here == {f \in Seen : f[1] = c}
<1> DEFINE fileRows == {FileRow(f) : f \in {g \in here : InFolder(look.folder, g[2])}}
<1> DEFINE folderRows ==
             {FolderRow(c, f[2]) : f \in {g \in here : look.folder = <<>> /\ Len(g[2]) = 2
                                        /\ ~\E r \in look.rows : r.handle = <<g[2][1]>>}}
<1>1. Entries(c) = fileRows \cup folderRows
  BY DEF Entries
<1>2. \A f \in here : f \in files /\ f \in Places /\ f[1] = c /\ f[2] \in Paths /\ f = <<f[1], f[2]>>
  BY DEF Seen, CardsInv, CardsTypeOK, Places
<1>3. look.at = 1 => look.rows = {}
  BY DEF CardsInv, ListInv, ListFits
<1>4. ASSUME NEW r \in fileRows
      PROVE  /\ Named(r) /\ ~r.folder
             /\ r.handle \in FolderPaths => /\ c = 1 /\ <<1, r.handle>> \in files
                                            /\ r = FileRow(<<1, r.handle>>)
  <2>1. PICK f \in here : r = FileRow(f)
    BY <1>4
  <2> HIDE DEF fileRows, here
  <2>2. Named(r) /\ ~r.folder /\ (r.handle \in FolderPaths => f = <<1, r.handle>>)
    BY <1>2, <2>1, FileRowNamed
  <2>3. ASSUME r.handle \in FolderPaths
        PROVE  c = 1 /\ <<1, r.handle>> \in files /\ r = FileRow(<<1, r.handle>>)
    <3>1. f = <<1, r.handle>> /\ f[1] = c /\ f \in files
      BY <1>2, <2>2, <2>3
    <3>2. <<1, r.handle>>[1] = 1
      OBVIOUS
    <3>3. c = 1
      BY <3>1, <3>2
    <3> QED BY <2>1, <3>1, <3>3
  <2> QED BY <2>2, <2>3
<1>5. ASSUME NEW r \in folderRows
      PROVE  /\ Named(r) /\ r.folder
             /\ \A s \in look.rows : s.handle # r.handle
             /\ r = [handle |-> r.handle, card |-> c, path |-> r.handle, folder |-> TRUE]
             /\ \E f \in files : f[1] = c /\ Len(f[2]) = 2 /\ r.handle = <<f[2][1]>>
  <2>1. PICK f \in here : /\ r = FolderRow(c, f[2]) /\ Len(f[2]) = 2
                          /\ ~\E s \in look.rows : s.handle = <<f[2][1]>>
    BY <1>5
  <2> HIDE DEF folderRows, here
  <2>2. Named(r) /\ r.folder /\ r.handle = <<f[2][1]>>
    BY <1>2, <2>1, FolderRowNamed
  <2>3. r = [handle |-> r.handle, card |-> c, path |-> r.handle, folder |-> TRUE]
    BY <2>1 DEF FolderRow
  <2> QED BY <1>2, <2>1, <2>2, <2>3
<1>6. ASSUME NEW f \in Seen, f[1] = c
      PROVE  Covered(f, look.folder, look.rows \cup Entries(c))
  <2>1. f \in here
    BY <1>6
  <2>2. ASSUME InFolder(look.folder, f[2]) PROVE FileRow(f) \in fileRows
    BY <2>1, <2>2
  <2>3. ASSUME look.folder = <<>>, Len(f[2]) = 2
        PROVE  \E r \in look.rows \cup Entries(c) :
                  r.handle = <<f[2][1]>> /\ (r.folder \/ r.card < f[1])
    <3>1. CASE \E r \in look.rows : r.handle = <<f[2][1]>>
      <4>1. PICK r \in look.rows : r.handle = <<f[2][1]>>
        BY <3>1
      <4>2. <<f[2][1]>> \in FolderPaths
        BY <1>2, <2>1, <2>3, PathFacts
      <4>3. r.folder \/ r.card = 1
        BY <4>1, <4>2, FolderHandles DEF CardsInv, RowsInv
      <4>4. c = 2
        BY <1>3, <4>1, CardFacts
      <4> HIDE DEF folderRows, fileRows, here
      <4> QED BY <4>1, <4>3, <4>4, <1>6
    <3>2. CASE ~\E r \in look.rows : r.handle = <<f[2][1]>>
      <4>1. FolderRow(c, f[2]) \in folderRows
        BY <2>1, <2>3, <3>2
      <4>2. FolderRow(c, f[2]).folder /\ FolderRow(c, f[2]).handle = <<f[2][1]>>
        BY <1>2, <2>1, <2>3, FolderRowNamed
      <4> HIDE DEF folderRows, fileRows, here
      <4> QED BY <4>1, <4>2, <1>1
    <3> QED BY <3>1, <3>2
  <2> HIDE DEF folderRows, fileRows, here
  <2> QED BY <1>1, <2>2, <2>3 DEF Covered
<1>7. ASSUME NEW r \in fileRows, NEW s \in folderRows, r.handle \in FolderPaths
      PROVE  r.handle # s.handle
  <2>1. c = 1 /\ <<1, r.handle>> \in files
    BY <1>4, <1>7
  <2>2. PICK f \in files : f[1] = c /\ Len(f[2]) = 2 /\ s.handle = <<f[2][1]>>
    BY <1>5
  <2> HIDE DEF folderRows, fileRows, here
  <2> SUFFICES ASSUME r.handle = s.handle PROVE FALSE
    OBVIOUS
  <2> DEFINE g == <<1, r.handle>>
  <2>3. g \in files /\ g[1] = f[1] /\ g[2] = <<f[2][1]>> /\ Len(g[2]) = 1
    BY <2>1, <2>2
  <2> HIDE DEF g
  <2>4. g = f
    BY <2>3, <2>2 DEF CardsInv, OneKind
  <2> QED BY <2>2, <2>3, <2>4
<1> HIDE DEF folderRows, fileRows, here
<1>8. \A r \in Entries(c) : Named(r)
  BY <1>1, <1>4, <1>5
<1>9. ASSUME NEW r \in Entries(c), NEW s \in look.rows \cup Entries(c),
             r.handle \in FolderPaths, s.handle = r.handle
      PROVE  s = r
  <2>1. CASE r \in fileRows
    <3>1. s \in Entries(c) /\ s \notin folderRows
      BY <1>3, <1>4, <1>7, <1>9, <2>1
    <3>2. s \in fileRows
      BY <1>1, <3>1
    <3>3. r = FileRow(<<1, r.handle>>) /\ s = FileRow(<<1, s.handle>>)
      BY <1>4, <1>9, <2>1, <3>2
    <3> QED BY <1>9, <3>3
  <2>2. CASE r \in folderRows
    <3>1. s \in folderRows
      BY <1>1, <1>5, <1>7, <1>9, <2>2
    <3>2. /\ r = [handle |-> r.handle, card |-> c, path |-> r.handle, folder |-> TRUE]
          /\ s = [handle |-> s.handle, card |-> c, path |-> s.handle, folder |-> TRUE]
      BY <1>5, <2>2, <3>1
    <3> QED BY <1>9, <3>2
  <2> QED BY <1>1, <2>1, <2>2
<1> QED BY <1>6, <1>8, <1>9

LEMMA FolderSteps ==
    ASSUME CardsInv, ReadFolder
    PROVE  CardsInv'
<1>1. /\ files \subseteq Places /\ games \subseteq Places /\ favorites \subseteq Places
      /\ missed \subseteq Places /\ present \subseteq CardIds /\ 1 \in present
      /\ asked \in 0 .. MaxAsked /\ look \in Looks /\ look.stayed \subseteq Seen
      /\ ListFits(look) /\ look.pc = "read" /\ look.at \in CardIds
      /\ \A r \in look.rows : Named(r)
  BY DEF CardsInv, CardsTypeOK, ListInv, ReadFolder, RowsInv
<1>2. UNCHANGED <<files, present, games, favorites, shown, job, asked, missed>>
  BY DEF ReadFolder
<1> DEFINE new == Entries(look.at)
<1>3. PICK some \in SUBSET new :
          look' = [look EXCEPT !.rows = @ \cup some, !.cut = @ \/ some # new,
                               !.at = IF @ < Len(Aliases) THEN @ + 1 ELSE @,
                               !.pc = IF look.at < Len(Aliases) THEN "read" ELSE "done"]
  BY DEF ReadFolder
<1>4. /\ \A r \in new : Named(r)
      /\ \A r \in new, s \in look.rows \cup new :
            r.handle \in FolderPaths /\ s.handle = r.handle => s = r
      /\ \A f \in Seen : f[1] = look.at => Covered(f, look.folder, look.rows \cup new)
  BY <1>1, EntriesFacts
<1> HIDE DEF new
<1>5. new \subseteq Rows
  BY <1>4 DEF Named
<1>6. /\ look' \in Looks /\ look'.folder = look.folder /\ look'.rows = look.rows \cup some
      /\ look'.stayed = look.stayed /\ look'.pc \in {"read", "done"} /\ ~look'.db
      /\ ~look'.cut => ~look.cut /\ some = new
      /\ look'.pc = "read" => look'.at = look.at + 1
      /\ look'.pc = "done" => look.at = Len(Aliases)
  <2> DEFINE more == look.at < Len(Aliases)
  <2>1. /\ look'.folder = look.folder /\ look'.rows = look.rows \cup some
        /\ look'.stayed = look.stayed /\ look'.cut = (look.cut \/ some # new)
        /\ look'.db = look.db
        /\ look'.at = (IF more THEN look.at + 1 ELSE look.at)
        /\ look'.pc = (IF more THEN "read" ELSE "done")
        /\ look' = [pc |-> look'.pc, folder |-> look'.folder, at |-> look'.at,
                    db |-> look'.db, rows |-> look'.rows, cut |-> look'.cut,
                    stayed |-> look'.stayed]
    BY <1>1, <1>3 DEF Looks
  <2>2. look'.at \in CardIds
    <3> HIDE <1>3
    <3> QED BY <1>1, <2>1, CardFacts
  <2>3. look.at = Len(Aliases) \/ more
    BY <1>1, CardFacts
  <2>4. /\ look'.folder \in {<<>>} \cup FolderPaths /\ look'.rows \in SUBSET Rows
        /\ look'.cut \in BOOLEAN /\ look'.stayed \in SUBSET Places
        /\ look'.pc \in {"read", "done"} /\ look'.db \in BOOLEAN /\ ~look'.db
    BY <1>1, <1>5, <2>1 DEF Looks, ListFits
  <2> HIDE DEF more
  <2>5. look' \in Looks
    BY <2>1, <2>2, <2>4 DEF Looks
  <2> QED BY <2>1, <2>3, <2>4, <2>5
<1>7. \A r \in look'.rows : Named(r)
  BY <1>1, <1>4, <1>6
<1>8. ListFits(look')
  <2>1. ASSUME NEW r \in look'.rows, NEW s \in look'.rows, r.handle \in FolderPaths,
               r.handle = s.handle
        PROVE  r = s
    <3>1. CASE r \in look.rows /\ s \in look.rows
      BY <2>1, <3>1, <1>1 DEF ListFits, Merging
    <3>2. CASE r \in new \/ s \in new
      BY <2>1, <3>2, <1>4, <1>6
    <3> QED BY <3>1, <3>2, <1>6
  <2>2. look'.pc = "read" => look'.at # 1
    <3>1. look.at \in Nat /\ look.at # 0
      BY <1>1, CardFacts
    <3> QED BY <3>1, <1>6
  <2>3. ASSUME ~look'.cut, NEW f \in look'.stayed, Merged(look', f[1])
        PROVE  Covered(f, look'.folder, look'.rows)
    <3>1. look'.rows = look.rows \cup new /\ ~look.cut /\ f \in Seen /\ f \in look.stayed
      BY <2>3, <1>6, <1>1
    <3>2. f[1] \in CardIds
      BY <3>1, <1>1 DEF Seen, Places
    <3>3. f[1] = look.at \/ f[1] < look.at
      BY <3>2, <2>3, <1>6, <1>1, CardFacts DEF Merged
    <3>4. CASE f[1] = look.at
      BY <3>1, <3>4, <1>4, <1>6
    <3>5. CASE f[1] < look.at
      <4>1. Covered(f, look.folder, look.rows)
        BY <3>1, <3>5, <1>1 DEF ListFits, Merged, Merging
      <4> QED BY <4>1, <3>1, <1>6 DEF Covered
    <3> QED BY <3>3, <3>4, <3>5
  <2> QED BY <2>1, <2>2, <2>3, <1>6 DEF ListFits
<1>9. ListInv'
  BY <1>1, <1>2, <1>6, <1>8 DEF ListInv, Seen
<1>10. RowsInv'
  <2>1. job' = [u \in Pages |-> job'[u]] /\ \A u \in Pages : job'[u] = job[u]
    BY <1>2 DEF CardsInv, RowsInv
  <2>2. Past \subseteq Past' /\ missed \subseteq missed'
    BY <1>2 DEF Past
  <2> QED BY <1>2, <1>7, <2>1, <2>2, RowsKept
<1> QED BY <1>1, <1>2, <1>9, <1>10, KindStays, TypesFrom

\* What was known to have gone is forgotten only when no request is under way.
LEMMA ShowSteps ==
    ASSUME CardsInv, ShowListing
    PROVE  CardsInv'
<1>1. /\ files \subseteq Places /\ games \subseteq Places /\ favorites \subseteq Places
      /\ missed \subseteq Places /\ present \subseteq CardIds /\ 1 \in present
      /\ asked \in 0 .. MaxAsked /\ \A r \in look.rows : Named(r)
  BY DEF CardsInv, CardsTypeOK, RowsInv
<1>2. /\ UNCHANGED <<files, present, games, favorites, job, asked>>
      /\ shown' = look.rows /\ look' = NoLook
      /\ missed' = (IF \A t \in Pages : job[t].pc = "idle" THEN {} ELSE missed)
                   \cup ({<<r.card, r.path>> : r \in FileRows \cap look.rows} \ files)
  BY DEF ShowListing
<1>3. missed' \subseteq Places
  <2>1. \A r \in FileRows : <<r.card, r.path>> \in Places
    BY DEF FileRows, Places
  <2> QED BY <1>1, <1>2, <2>1
<1>4. ListInv'
  <2>1. /\ look' \in Looks /\ look'.rows = {} /\ look'.stayed = {} /\ look'.pc = "idle"
    BY <1>2, CardFacts DEF NoLook, Looks
  <2> QED BY <2>1 DEF ListInv, ListFits, Merging
<1>5. \A r \in look'.rows \cup shown' : Named(r)
  BY <1>1, <1>2 DEF NoLook
<1>6. ASSUME NEW r \in shown' PROVE Known(r, Past')
  <2>1. SUFFICES ASSUME ~r.folder PROVE <<r.card, r.path>> \in Past'
    BY DEF Known
  <2>2. r \in FileRows \cap look.rows
    BY <1>1, <1>2, <1>6, <2>1, RowFacts DEF Named
  <2> QED BY <1>2, <2>2 DEF Past
<1>7. ASSUME NEW u \in Pages PROVE JobFits(job'[u], Past', missed')
  <2>1. JobFits(job[u], Past, missed) /\ job'[u] = job[u]
    BY <1>2 DEF CardsInv, RowsInv
  <2>2. CASE job[u].pc = "idle"
    BY <2>1, <2>2 DEF JobFits
  <2>3. CASE job[u].pc # "idle"
    <3>1. missed \subseteq missed' /\ Past \subseteq Past'
      BY <1>2, <2>3 DEF Past
    <3> QED BY <2>1, <3>1 DEF JobFits, Known, Aimed
  <2> QED BY <2>2, <2>3
<1>8. RowsInv'
  <2>1. job' = [u \in Pages |-> job'[u]]
    BY <1>2 DEF CardsInv, RowsInv
  <2> QED BY <2>1, <1>5, <1>6, <1>7 DEF RowsInv
<1> QED BY <1>1, <1>2, <1>3, <1>4, <1>8, KindStays, TypesFrom

-----------------------------------------------------------------------------
(* Requests *)

LEMMA AskSteps ==
    ASSUME CardsInv, NEW t \in Pages, AskFor(t)
    PROVE  CardsInv'
<1>1. /\ files \subseteq Places /\ games \subseteq Places /\ favorites \subseteq Places
      /\ missed \subseteq Places /\ present \subseteq CardIds /\ 1 \in present
      /\ asked \in 0 .. MaxAsked /\ look.stayed \subseteq Seen
  BY DEF CardsInv, CardsTypeOK, ListInv
<1>2. /\ UNCHANGED <<files, present, games, favorites, look, shown, missed>>
      /\ asked' \in 0 .. MaxAsked
  BY <1>1, CardsAssumption DEF AskFor
<1>3. PICK r \in shown :
        \E op, to :
          job' = [job EXCEPT ![t] = [NoJob EXCEPT !.pc = "resolve", !.op = op, !.row = r,
                                                  !.to = to]]
  BY DEF AskFor
<1>9. PICK op, to :
          job' = [job EXCEPT ![t] = [NoJob EXCEPT !.pc = "resolve", !.op = op, !.row = r,
                                                  !.to = to]]
  BY <1>3
<1> DEFINE j == [NoJob EXCEPT !.pc = "resolve", !.op = op, !.row = r, !.to = to]
<1>4. Named(r) /\ Known(r, Past)
  BY DEF CardsInv, RowsInv
<1>5. JobOK(j) /\ j.pc = "resolve" /\ j.row = r
  BY <1>4, CardFacts DEF JobOK, NoJob, Named
<1> HIDE DEF j
<1>6. JobFits(j, Past', missed')
  BY <1>2, <1>4, <1>5 DEF JobFits, Past
<1>7. ListInv' /\ \A s \in look'.rows : Named(s)
  <2>1. look' = look /\ look.stayed \subseteq Seen'
    BY <1>1, <1>2 DEF Seen
  <2> QED BY <2>1, ListKept
<1>8. RowsInv'
  <2>1. /\ job' = [u \in Pages |-> job'[u]] /\ job'[t] = j
        /\ \A u \in Pages \ {t} : job'[u] = job[u]
    BY <1>9, OneJob DEF j
  <2>2. \A u \in Pages : job'[u] = job[u] \/ JobFits(job'[u], Past', missed')
    BY <2>1, <1>6
  <2>3. Past \subseteq Past' /\ missed \subseteq missed'
    BY <1>2 DEF Past
  <2> QED BY <1>2, <1>7, <2>1, <2>2, <2>3, RowsKept
<1> QED BY <1>1, <1>2, <1>7, <1>8, KindStays, TypesFrom

LEMMA ResolveSteps ==
    ASSUME CardsInv, NEW t \in Pages, ResolveRow(t)
    PROVE  CardsInv'
<1>1. /\ files \subseteq Places /\ games \subseteq Places /\ favorites \subseteq Places
      /\ missed \subseteq Places /\ present \subseteq CardIds /\ 1 \in present
      /\ asked \in 0 .. MaxAsked /\ look.stayed \subseteq Seen
  BY DEF CardsInv, CardsTypeOK, ListInv
<1>2. /\ UNCHANGED <<files, present, games, favorites, look, shown, asked, missed>>
      /\ job[t].pc = "resolve"
  BY DEF ResolveRow
<1>3. ListInv' /\ \A s \in look'.rows : Named(s)
  <2>1. look' = look /\ look.stayed \subseteq Seen'
    BY <1>1, <1>2 DEF Seen
  <2> QED BY <2>1, ListKept
<1> DEFINE at == Resolve(job[t].row.handle)
<1>4. JobOK(job[t]) /\ Named(job[t].row) /\ Known(job[t].row, Past)
  BY <1>2 DEF CardsInv, RowsInv, JobFits
<1>5. at.card \in CardIds
  BY ResolveCard
<1>6. ASSUME ~job[t].row.folder
      PROVE  LET r == job[t].row IN
             \/ at.card = r.card /\ at.rel = r.path
             \/ r.card = 1 /\ (<<1, r.path>> \in missed \/ Prefixed(r.handle))
  <2> DEFINE r == job[t].row
  <2>1. r.card \in CardIds /\ r.path \in Paths /\ r.handle = EntryPath(r.card, r.path)
    BY <1>4, <1>6, RowFacts DEF Named
  <2>2. <<r.card, r.path>> \in files \/ <<r.card, r.path>> \in missed
    BY <1>4, <1>6 DEF Known, Past
  <2> HIDE DEF r
  <2>3. \/ Resolve(r.handle).card = r.card /\ Resolve(r.handle).rel = r.path
        \/ r.card = 1 /\ (<<1, r.path>> \notin files \/ Prefixed(r.handle))
    BY <2>1, <1>1, ResolveOwn
  <2>4. \/ Resolve(r.handle).card = r.card /\ Resolve(r.handle).rel = r.path
        \/ r.card = 1 /\ (<<1, r.path>> \in missed \/ Prefixed(r.handle))
    BY <2>2, <2>3
  <2> QED BY <2>4 DEF r
<1>7. \E j : job' = [job EXCEPT ![t] = j] /\ JobFits(j, Past', missed')
  <2>1. CASE Reply(t)
    BY <2>1, RestFits DEF Reply
  <2>2. ASSUME NEW to,
               job' = [job EXCEPT ![t].pc = "act", ![t].card = at.card, ![t].rel = at.rel,
                                  ![t].to = to]
        PROVE  \E j : job' = [job EXCEPT ![t] = j] /\ JobFits(j, Past', missed')
    <3> DEFINE old == job[t]
    <3> DEFINE j == [[[[old EXCEPT !.pc = "act"] EXCEPT !.card = at.card] EXCEPT !.rel = at.rel]
                     EXCEPT !.to = to]
    <3> HIDE DEF at
    <3>4. job' = [job EXCEPT ![t] = j]
      BY <2>2
    <3>1. /\ DOMAIN j = {"pc", "op", "row", "to", "card", "rel"} /\ j.pc = "act"
          /\ j.row = old.row /\ j.card = at.card /\ j.rel = at.rel
      BY <1>4 DEF JobOK
    <3> HIDE DEF j
    <3>5. JobOK(j)
      BY <3>1, <1>4, <1>5 DEF JobOK, at
    <3>6. JobFits(j, Past', missed')
      <4>1. j.row = job[t].row /\ j.card = at.card /\ j.rel = at.rel /\ j.pc = "act"
        BY <3>1
      <4> HIDE DEF j
      <4>2. Known(j.row, Past')
        BY <4>1, <1>2, <1>4 DEF Past
      <4>3. ASSUME ~j.row.folder PROVE Aimed(j, missed')
        <5>1. \/ at.card = job[t].row.card /\ at.rel = job[t].row.path
              \/ /\ job[t].row.card = 1
                 /\ <<1, job[t].row.path>> \in missed \/ Prefixed(job[t].row.handle)
          BY <1>6, <4>1, <4>3
        <5> QED BY <5>1, <4>1, <1>2 DEF Aimed
      <4> QED BY <4>1, <4>2, <4>3, <3>5, <1>4 DEF JobFits
    <3> QED BY <3>4, <3>6
  <2> QED BY <2>1, <2>2 DEF ResolveRow
<1>8. RowsInv'
  <2>1. PICK j : job' = [job EXCEPT ![t] = j] /\ JobFits(j, Past', missed')
    BY <1>7
  <2>2. /\ job' = [u \in Pages |-> job'[u]] /\ job'[t] = j
        /\ \A u \in Pages \ {t} : job'[u] = job[u]
    BY <2>1, OneJob
  <2>3. \A u \in Pages : job'[u] = job[u] \/ JobFits(job'[u], Past', missed')
    BY <2>1, <2>2
  <2>4. Past \subseteq Past' /\ missed \subseteq missed'
    BY <1>2 DEF Past
  <2> QED BY <1>2, <1>3, <2>2, <2>3, <2>4, RowsKept
<1> QED BY <1>1, <1>2, <1>3, <1>8, KindStays, TypesFrom

LEMMA ActSteps ==
    ASSUME CardsInv, NEW t \in Pages, DeleteEntry(t) \/ RenameEntry(t) \/ SetFavorite(t)
    PROVE  CardsInv'
<1>1. /\ files \subseteq Places /\ games \subseteq Places /\ favorites \subseteq Places
      /\ missed \subseteq Places /\ present \subseteq CardIds /\ 1 \in present
      /\ asked \in 0 .. MaxAsked /\ look.stayed \subseteq Seen
  BY DEF CardsInv, CardsTypeOK, ListInv
<1>2. /\ UNCHANGED <<present, games, shown, asked>>
      /\ job' = [job EXCEPT ![t] = NoJob]
  BY DEF DeleteEntry, RenameEntry, SetFavorite, Reply
<1>3. /\ files' \subseteq Places /\ missed' \subseteq Places /\ favorites' \subseteq Places
      /\ missed \subseteq missed' /\ Past \subseteq Past'
  <2>1. CASE DeleteEntry(t)
    BY <2>1, <1>1 DEF DeleteEntry, Removed, Under, Past
  <2>2. CASE RenameEntry(t)
    <3> DEFINE from == Under(job[t].card, job[t].rel)
    <3>1. from \subseteq files
      BY DEF Under
    <3>2. \/ files' = files /\ missed' = missed
          \/ files \ from \subseteq files' /\ missed' = missed \cup from /\ files' \subseteq Places
      BY <2>2, <1>1 DEF RenameEntry
    <3>3. favorites' = favorites
      BY <2>2 DEF RenameEntry
    <3> HIDE DEF from
    <3> QED BY <1>1, <3>1, <3>2, <3>3 DEF Past
  <2>3. CASE SetFavorite(t)
    BY <2>3, <1>1 DEF SetFavorite, Past
  <2> QED BY <2>1, <2>2, <2>3
<1>4. ListInv' /\ \A r \in look'.rows : Named(r)
  <2>1. \E S : /\ S \subseteq look.stayed /\ S \subseteq Seen'
               /\ \/ look' = look /\ S = look.stayed
                  \/ look' = [look EXCEPT !.stayed = S]
    <3>1. CASE DeleteEntry(t) /\ UNCHANGED <<files, look, missed>>
      BY <3>1, <1>1, <1>2 DEF Seen
    <3>2. CASE RenameEntry(t) /\ UNCHANGED <<files, look, missed>>
      BY <3>2, <1>1, <1>2 DEF Seen
    <3>3. CASE SetFavorite(t)
      BY <3>3, <1>1, <1>2 DEF Seen, SetFavorite
    <3>4. CASE Removed(Under(job[t].card, job[t].rel))
      <4> DEFINE gone == Under(job[t].card, job[t].rel)
      <4> DEFINE S == look.stayed \ gone
      <4>1. /\ files' = files \ gone
            /\ look' = [look EXCEPT !.stayed = S]
        BY <3>4 DEF Removed
      <4>2. S \subseteq look.stayed /\ S \subseteq Seen'
        BY <4>1, <1>1, <1>2 DEF Seen
      <4> QED BY <4>1, <4>2
    <3>5. CASE RenameEntry(t) /\ ~UNCHANGED <<files, look, missed>>
      <4> DEFINE from == Under(job[t].card, job[t].rel)
      <4> DEFINE S == look.stayed \ from
      <4>1. /\ files \ from \subseteq files'
            /\ look' = [look EXCEPT !.stayed = S]
        BY <3>5 DEF RenameEntry
      <4>2. S \subseteq look.stayed /\ S \subseteq Seen'
        BY <4>1, <1>1, <1>2 DEF Seen
      <4> QED BY <4>1, <4>2
    <3> QED BY <3>1, <3>2, <3>3, <3>4, <3>5 DEF DeleteEntry
  <2> QED BY <2>1, ListKept
<1>5. RowsInv'
  <2>1. /\ job' = [u \in Pages |-> job'[u]] /\ job'[t] = NoJob
        /\ \A u \in Pages \ {t} : job'[u] = job[u]
    BY <1>2, OneJob
  <2>2. \A u \in Pages : job'[u] = job[u] \/ JobFits(job'[u], Past', missed')
    BY <2>1, RestFits
  <2> QED BY <1>2, <1>3, <1>4, <2>1, <2>2, RowsKept
<1>6. OneKind(files)'
  <2>1. CASE files' \subseteq files
    BY <2>1 DEF CardsInv, OneKind
  <2>2. CASE RenameEntry(t)
    BY <2>2, <2>1 DEF RenameEntry
  <2>3. CASE DeleteEntry(t) \/ SetFavorite(t)
    BY <2>3, <2>1 DEF DeleteEntry, SetFavorite, Removed
  <2> QED BY <2>2, <2>3
<1> QED BY <1>1, <1>2, <1>3, <1>4, <1>5, <1>6, TypesFrom

-----------------------------------------------------------------------------
(* The theorems *)

LEMMA CardsNextOK ==
    ASSUME CardsInv, [CardsNext]_cardVars
    PROVE  CardsInv'
<1>1. CASE UNCHANGED cardVars
  BY <1>1 DEF cardVars, CardsInv, CardsTypeOK, RowsInv, ListInv, Past, Seen
<1>2. CASE CardsNext
  <2>1. CASE PullCard \/ PutFile \/ ScanCards
    BY <2>1, WorldSteps
  <2>2. CASE StartListing \/ ListDatabase \/ ReadFolder \/ ShowListing
    BY <2>2, StartSteps, DatabaseSteps, FolderSteps, ShowSteps
  <2>3. ASSUME NEW t \in Pages,
               \/ AskFor(t) \/ ResolveRow(t)
               \/ DeleteEntry(t) \/ RenameEntry(t) \/ SetFavorite(t)
        PROVE  CardsInv'
    BY <2>3, AskSteps, ResolveSteps, ActSteps
  <2> QED BY <1>2, <2>1, <2>2, <2>3 DEF CardsNext
<1> QED BY <1>1, <1>2

LEMMA AlwaysCards == CardsSpec => []CardsInv
<1>1. CardsInit => CardsInv
  BY CardsInitOK
<1>2. CardsInv /\ [CardsNext]_cardVars => CardsInv'
  BY CardsNextOK
<1> QED BY <1>1, <1>2, PTL DEF CardsSpec

\* Listings, rows and requests of library.c are well typed, for any paths.
THEOREM CardsTypes == CardsSpec => []CardsTypeOK
<1>1. CardsInv => CardsTypeOK
  BY DEF CardsInv
<1> QED BY <1>1, AlwaysCards, PTL

\* A listing that is not cut off has a row for each file that stayed in its
\* folder while cs_browser_list_merged_rom_filesystem went from card to card, or
\* for each that library.db has; and one row for a folder, however many cards
\* have it, unless a file of its name on an earlier card takes its place.
THEOREM EachFileOnceAlways == CardsSpec => []EachFileOnce
<1>1. ASSUME CardsInv PROVE EachFileOnce
  <2>1. SUFFICES ASSUME look.pc = "done", ~look.cut, NEW f \in look.stayed
                 PROVE  /\ look.db \/ InFolder(look.folder, f[2]) => FileRow(f) \in look.rows
                        /\ ~look.db /\ look.folder = <<>> /\ Len(f[2]) = 2 =>
                              \E r \in look.rows :
                                  /\ {s \in look.rows : s.handle = <<f[2][1]>>} = {r}
                                  /\ r.folder \/ r.card < f[1]
    BY DEF EachFileOnce
  <2>2. ListFits(look) /\ f \in Places
    BY <1>1, <2>1 DEF CardsInv, ListInv, Looks
  <2>3. CASE look.db
    BY <2>1, <2>2, <2>3 DEF ListFits
  <2>4. CASE ~look.db
    <3>1. Covered(f, look.folder, look.rows)
      BY <2>1, <2>2, <2>4 DEF ListFits, Merging, Merged
    <3>2. ASSUME look.folder = <<>>, Len(f[2]) = 2
          PROVE  \E r \in look.rows :
                    /\ {s \in look.rows : s.handle = <<f[2][1]>>} = {r}
                    /\ r.folder \/ r.card < f[1]
      <4> DEFINE h == <<f[2][1]>>
      <4>1. h \in FolderPaths
        BY <2>2, <3>2, PathFacts DEF Places
      <4>2. PICK r \in look.rows : r.handle = h /\ (r.folder \/ r.card < f[1])
        BY <3>1, <3>2 DEF Covered
      <4> HIDE DEF h
      <4>3. \A s \in look.rows : s.handle = h => s = r
        BY <2>1, <2>2, <2>4, <4>1, <4>2 DEF ListFits, Merging
      <4>4. {s \in look.rows : s.handle = h} = {r}
        BY <4>2, <4>3
      <4> QED BY <4>2, <4>4 DEF h
    <3> QED BY <2>4, <3>1, <3>2 DEF Covered
  <2> QED BY <2>3, <2>4
<1> QED BY <1>1, AlwaysCards, PTL

\* At a path of a card is the file of that path; without it, what the folder of
\* that name holds.
LEMMA UnderOwn ==
    ASSUME NEW c \in CardIds, NEW p \in Paths, files \subseteq Places, OneKind(files)
    PROVE  /\ <<c, p>> \in files => Under(c, p) \subseteq {<<c, p>>}
           /\ <<c, p>> \notin files => \A f \in Under(c, p) : f[1] = c /\ <<f[2][1]>> = p
<1>1. ASSUME NEW f \in Under(c, p)
      PROVE  f \in files /\ f[1] = c /\ f = <<c, f[2]>> /\ (f[2] = p \/ p = <<f[2][1]>>)
  BY DEF Under, Places
<1>2. ASSUME <<c, p>> \in files, NEW f \in Under(c, p) PROVE f = <<c, p>>
  <2>1. CASE f[2] = p
    BY <1>1, <2>1
  <2>2. CASE p = <<f[2][1]>>
    <3> DEFINE g == <<c, p>>
    <3>1. g \in files /\ f \in files /\ g[1] = f[1] /\ g[2] = <<f[2][1]>>
      BY <1>1, <1>2, <2>2
    <3> HIDE DEF g
    <3>2. g = f
      BY <3>1 DEF OneKind
    <3> QED BY <3>2 DEF g
  <2> QED BY <1>1, <2>1, <2>2
<1>3. ASSUME <<c, p>> \notin files, NEW f \in Under(c, p) PROVE f[1] = c /\ <<f[2][1]>> = p
  BY <1>1, <1>3
<1> QED BY <1>2, <1>3

\* Of a file's row r, a request touches only that file, or it strays: the file
\* went since it was shown, or the folder of its handle has the name of a card.
Acts(r) ==
    \/ Touched \subseteq {<<r.card, r.path>>}
    \/ /\ <<r.card, r.path>> \in missed
       /\ r.card = 1 \/ \A f \in Touched : f[1] = r.card /\ <<f[2][1]>> = r.path
    \/ r.card = 1 /\ Prefixed(r.handle)

LEMMA ActsAimed ==
    ASSUME CardsInv, CardsNext, NEW t \in Pages, job[t].pc = "act", job'[t].pc = "idle",
           ~job[t].row.folder
    PROVE  Acts(job[t].row)
<1> DEFINE r == job[t].row
<1>1. JobFits(job[t], Past, missed) /\ job = [u \in Pages |-> job[u]]
  BY DEF CardsInv, RowsInv
<1>2. Aimed(job[t], missed) /\ Named(r) /\ Known(r, Past)
  BY <1>1 DEF JobFits
<1>3. SUFFICES ASSUME job[t].card = r.card, job[t].rel = r.path PROVE Acts(r)
  BY <1>2 DEF Aimed, Acts
<1>4. /\ r.card \in CardIds /\ r.path \in Paths /\ files \subseteq Places /\ OneKind(files)
      /\ <<r.card, r.path>> \in files \cup missed
  BY <1>2, RowFacts DEF Named, Known, Past, CardsInv, CardsTypeOK
<1>5. DeleteEntry(t) \/ RenameEntry(t) \/ SetFavorite(t)
  <2>1. job'[t] # job[t]
    OBVIOUS
  <2>2. ~(PullCard \/ PutFile \/ ScanCards \/ StartListing \/ ListDatabase \/ ReadFolder
          \/ ShowListing)
    BY <2>1 DEF PullCard, PutFile, ScanCards, StartListing, ListDatabase, ReadFolder,
                ShowListing
  <2>3. ASSUME NEW u \in Pages, AskFor(u) \/ ResolveRow(u) PROVE FALSE
    <3>1. job[u].pc # "act"
      BY <2>3 DEF AskFor, ResolveRow
    <3>2. \E j : job' = [job EXCEPT ![u] = j]
      <4>1. CASE AskFor(u)
        BY <4>1 DEF AskFor
      <4>2. CASE ResolveRow(u) /\ Reply(u)
        BY <4>2 DEF Reply
      <4>3. CASE ResolveRow(u) /\ ~Reply(u)
        BY <4>3 DEF ResolveRow
      <4> QED BY <2>3, <4>1, <4>2, <4>3
    <3>3. u # t
      BY <3>1
    <3>4. job'[t] = job[t]
      BY <1>1, <3>2, <3>3
    <3> QED BY <2>1, <3>4
  <2>4. ASSUME NEW u \in Pages, DeleteEntry(u) \/ RenameEntry(u) \/ SetFavorite(u)
        PROVE  u = t
    <3>1. job' = [job EXCEPT ![u] = NoJob]
      BY <2>4 DEF DeleteEntry, RenameEntry, SetFavorite, Reply
    <3>2. u # t => job'[t] = job[t]
      BY <1>1, <3>1
    <3> QED BY <2>1, <3>2
  <2> QED BY <2>2, <2>3, <2>4 DEF CardsNext
<1> DEFINE c == job[t].card
           p == job[t].rel
<1>6. /\ <<c, p>> \in files => Under(c, p) \subseteq {<<c, p>>}
      /\ <<c, p>> \notin files => \A f \in Under(c, p) : f[1] = c /\ <<f[2][1]>> = p
  <2>1. c \in CardIds /\ p \in Paths
    BY <1>3, <1>4
  <2> HIDE DEF c, p
  <2> QED BY <2>1, <1>4, UnderOwn
<1>7. ASSUME Touched \subseteq Under(c, p) PROVE Acts(r)
  <2> HIDE DEF r
  <2>1. CASE <<c, p>> \in files
    BY <1>3, <1>6, <1>7, <2>1 DEF Acts
  <2>2. CASE <<c, p>> \notin files
    BY <1>3, <1>4, <1>6, <1>7, <2>2 DEF Acts
  <2> QED BY <2>1, <2>2
<1>8. CASE DeleteEntry(t)
  <2>1. files \ files' \subseteq Under(c, p) /\ favorites' = favorites
    BY <1>8 DEF DeleteEntry, Removed
  <2> HIDE DEF r, c, p
  <2> QED BY <2>1, <1>7 DEF Touched
<1>9. CASE RenameEntry(t)
  <2>1. files \ files' \subseteq Under(c, p) /\ favorites' = favorites
    BY <1>9 DEF RenameEntry
  <2> HIDE DEF r, c, p
  <2> QED BY <2>1, <1>7 DEF Touched
<1>10. CASE SetFavorite(t)
  <2>1. /\ files' = files
        /\ (favorites \ favorites') \cup (favorites' \ favorites) \subseteq {<<c, p>>}
    BY <1>10 DEF SetFavorite
  <2> HIDE DEF r
  <2> QED BY <2>1, <1>3 DEF Touched, Acts
<1> QED BY <1>5, <1>8, <1>9, <1>10

\* A request for a file's row (routes_file_ops.c, routes_library.c) touches that
\* file alone, on the card it was listed from. It strays only when the file went
\* since it was shown, from the second card no further than to a folder of that
\* name there; or when the folder of a plain handle has the name of a card.
THEOREM ActsOnShownAlways == CardsSpec => ActsOnShown
<1> DEFINE OnShown == \A t \in Pages : LET r == job[t].row IN
          (job[t].pc = "act" /\ job'[t].pc = "idle" /\ ~r.folder) =>
              \/ Touched \subseteq {<<r.card, r.path>>}
              \/ /\ <<r.card, r.path>> \in missed
                 /\ r.card = 1 \/ \A f \in Touched : f[1] = r.card /\ <<f[2][1]>> = r.path
              \/ r.card = 1 /\ Prefixed(r.handle)
<1>1. ASSUME CardsInv, [CardsNext]_cardVars PROVE [OnShown]_cardVars
  <2>1. CASE CardsNext
    BY <1>1, <2>1, ActsAimed DEF Acts
  <2> QED BY <1>1, <2>1
<1>2. CardsSpec => [][OnShown]_cardVars
  <2> HIDE DEF OnShown
  <2> QED BY <1>1, AlwaysCards, PTL DEF CardsSpec
<1> QED BY <1>2 DEF ActsOnShown

\* No request for a file of the first card is at work whose file went since it
\* was shown, or whose folder has the name of a card.
PlainIsThere ==
    \A t \in Pages : LET r == job[t].row IN
       (job[t].pc = "act" /\ ~r.folder /\ r.card = 1) =>
           <<1, r.path>> \notin missed /\ ~Prefixed(r.handle)

\* "Files keep source identity in their path handle", up to the first request
\* whose plain handle is stale or reads like another card's: what the run
\* cards_strays shows of those is all there is.
THEOREM HandleKeepsCardAlways == CardsSpec /\ []PlainIsThere => HandleKeepsCard
<1> DEFINE OnShown == \A t \in Pages : LET r == job[t].row IN
          (job[t].pc = "act" /\ job'[t].pc = "idle" /\ ~r.folder) =>
              \/ Touched \subseteq {<<r.card, r.path>>}
              \/ /\ <<r.card, r.path>> \in missed
                 /\ r.card = 1 \/ \A f \in Touched : f[1] = r.card /\ <<f[2][1]>> = r.path
              \/ r.card = 1 /\ Prefixed(r.handle)
<1> DEFINE OnCard == \A t \in Pages : LET r == job[t].row IN
          (job[t].pc = "act" /\ job'[t].pc = "idle" /\ ~r.folder) =>
              \A f \in Touched : f[2] = r.path => f[1] = r.card
<1>1. CardsSpec => [][OnShown]_cardVars
  BY ActsOnShownAlways DEF ActsOnShown
<1>2. ASSUME PlainIsThere, [OnShown]_cardVars PROVE [OnCard]_cardVars
  <2>1. SUFFICES ASSUME OnShown, NEW t \in Pages, job[t].pc = "act", job'[t].pc = "idle",
                        ~job[t].row.folder, NEW f \in Touched
                 PROVE  f[1] = job[t].row.card
    BY <1>2
  <2>2. job[t].row.card = 1 => <<1, job[t].row.path>> \notin missed /\ ~Prefixed(job[t].row.handle)
    BY <1>2, <2>1 DEF PlainIsThere
  <2>3. \/ Touched \subseteq {<<job[t].row.card, job[t].row.path>>}
        \/ \A g \in Touched : g[1] = job[t].row.card
    BY <2>1, <2>2
  <2> QED BY <2>1, <2>3
<1>3. CardsSpec /\ []PlainIsThere => [][OnCard]_cardVars
  <2> HIDE DEF OnShown, OnCard
  <2> QED BY <1>1, <1>2, PTL
<1> QED BY <1>3 DEF HandleKeepsCard

-----------------------------------------------------------------------------
(* Folders: the tree *)

EntryNames == Spelt \cup (Spelt \X Nat \X Nat)

NodeRecs == [kind : {"file", "folder", "link"}, in : Int, name : EntryNames, to : Int,
             blank : BOOLEAN]

\* What stands stands in a folder that stands, and a way up ends.
Upward ==
    /\ \A x \in Nodes : tree[x].in \in Nodes =>
          tree[tree[x].in].kind = "folder" /\ tree[tree[x].in].in # Gone
    /\ \E rank \in [Nodes -> Nat] :
          \A x \in Nodes : tree[x].in \in Nodes => rank[tree[x].in] < rank[x]

\* No two entries of a folder have one key.
OneKey ==
    \A x, y \in Nodes : /\ tree[x].in # Gone /\ tree[x].in = tree[y].in
                        /\ Key(tree[x].name) = Key(tree[y].name)
                        => x = y

TreeOK ==
    /\ tree \in Seq(NodeRecs) /\ Len(tree) <= MaxNodes
    /\ \A x \in Nodes : tree[x].in \in {Gone, Root} \cup Nodes
    /\ Upward /\ OneKey

-----------------------------------------------------------------------------
(* Folders: where a request is *)

HandPcs == {"free", "prepare", "made", "walk", "delete", "empty"} \cup Renaming

FrameRecs == [dir : Nat, up : Nat, name : EntryNames, names : SUBSET EntryNames]

HandRecs == [pc : HandPcs, order : Orders \cup {NoOrder}, dir : Nat, left : Seq(Spelt),
             from : Nat, src : Nat, hidden : {<<>>} \cup (Spelt \X Nat \X Nat),
             frames : Seq(FrameRecs)]

FolderAt(d) == d = Root \/ (d \in Nodes /\ tree[d].kind = "folder")

\* What a handler knows of its own request.
HandFits(h) ==
    /\ FolderAt(hand[h].dir) /\ FolderAt(hand[h].from)
    /\ hand[h].pc = "free" => hand[h] = FreeHand
    /\ hand[h].pc # "free" => hand[h].order \in Orders
    /\ hand[h].pc \in Renaming => hand[h].order.kind = "rename" /\ hand[h].src \in Nodes
    /\ hand[h].pc = "empty" <=> hand[h].frames # <<>>
    /\ hand[h].pc \in {"aside", "back", "rollback"} => hand[h].dir = hand[h].from
    /\ hand[h].pc \in {"back", "rollback"} =>
          hand[h].hidden \in Spelt \X (0 .. nonce - 1) \X (1 .. Attempts)

\* Unless another request has changed its names: what a rename opened is still
\* at its old name; what it has put at the new one, or found there, is there
\* alone.
Target(h) == At(hand[h].dir, hand[h].order.toName)

Undisturbed(h) ==
    h \notin raced =>
    /\ hand[h].pc \in {"walkTo", "move", "over", "aside"} => Source(h) = {hand[h].src}
    /\ hand[h].pc = "over" => \A y \in Target(h) : tree[y].blank
    /\ hand[h].pc \in {"verify", "aside"} => Target(h) = {hand[h].src}
    /\ hand[h].pc \in {"back", "rollback"} => Source(h) = {} /\ Target(h) = {}

\* The folders a delete is in, and where it found them.
Framed(h) ==
    \A i \in 1 .. Len(hand[h].frames) :
       LET f == hand[h].frames[i] IN
       /\ f.dir \in inside[h]
       /\ \/ f.up \in inside[h]
          \/ f.up = hand[h].dir /\ f.name = hand[h].order.name

\* A delete has had below its name all it may come to.
Below(h) ==
    hand[h].pc \in {"delete", "empty"} =>
    /\ NamedBy(h) \subseteq inside[h]
    /\ \A x \in Nodes : tree[x].in \in inside[h] => x \in inside[h]
    /\ Framed(h)

FoldersInv ==
    /\ TreeOK
    /\ hand \in [Hands -> HandRecs]
    /\ nonce \in 0 .. MaxNonce /\ orders \in 0 .. MaxOrders
    /\ inside \in [Hands -> SUBSET Nodes] /\ raced \subseteq Hands /\ strays \subseteq Nodes
    /\ \A h \in Hands : HandFits(h) /\ Undisturbed(h) /\ Below(h)
    /\ HiddenHasReason

-----------------------------------------------------------------------------
(* Folders: the way up *)

Leads(up, S, B, p) ==
    /\ up \in [S -> SUBSET S]
    /\ \A y \in S : up[y] = IF y \in B THEN {y} ELSE {y} \cup up[p[y]]

\* The equations that define a way up have a solution: the least sets.
LEMMA WaysUp ==
    ASSUME NEW S, NEW B \in SUBSET S, NEW p \in [S -> S]
    PROVE  \E up : Leads(up, S, B, p)
<1> DEFINE Closed(C) == \A c \in C \ B : p[c] \in C
           L(y) == {z \in S : \A C \in SUBSET S : y \in C /\ Closed(C) => z \in C}
           up == [y \in S |-> L(y)]
<1>1. \A y \in B : L(y) = {y}
  <2> SUFFICES ASSUME NEW y \in B PROVE L(y) = {y}
    OBVIOUS
  <2>1. {y} \in SUBSET S /\ Closed({y})
    OBVIOUS
  <2>2. L(y) \subseteq {y}
    BY <2>1
  <2> QED BY <2>2
<1>2. \A y \in S \ B : L(y) = {y} \cup L(p[y])
  <2> SUFFICES ASSUME NEW y \in S \ B PROVE L(y) = {y} \cup L(p[y])
    OBVIOUS
  <2>1. p[y] \in S
    OBVIOUS
  <2>2. {y} \cup L(p[y]) \subseteq L(y)
    <3>1. \A C \in SUBSET S : y \in C /\ Closed(C) => p[y] \in C
      OBVIOUS
    <3> HIDE DEF Closed
    <3> QED BY <3>1
  <2>3. {y} \cup L(p[y]) \in SUBSET S /\ Closed({y} \cup L(p[y]))
    <3>1. p[y] \in L(p[y])
      BY <2>1
    <3>2. ASSUME NEW c \in L(p[y]) \ B PROVE p[c] \in L(p[y])
      <4>1. \A C \in SUBSET S : p[y] \in C /\ Closed(C) => c \in C
        BY <3>2
      <4>2. \A C \in SUBSET S : p[y] \in C /\ Closed(C) => p[c] \in C
        BY <3>2, <4>1
      <4>3. p[c] \in S
        BY <3>2
      <4> QED BY <4>2, <4>3
    <3> QED BY <3>1, <3>2
  <2>4. L(y) \subseteq {y} \cup L(p[y])
    <3> HIDE DEF Closed
    <3> QED BY <2>3
  <2> QED BY <2>2, <2>4
<1>3. \A y \in S : up[y] = L(y)
  OBVIOUS
<1>4. \A y \in S \ B : up[p[y]] = L(p[y])
  BY <1>3
<1> HIDE DEF L
<1>5. \A y \in S : up[y] = IF y \in B THEN {y} ELSE {y} \cup up[p[y]]
  BY <1>1, <1>2, <1>3, <1>4
<1>6. up \in [S -> SUBSET S]
  BY DEF L
<1> HIDE DEF up
<1> QED BY <1>5, <1>6 DEF Leads

\* An entry's line is the entry and its folder's line.
LEMMA LineUp ==
    ASSUME \A x \in Nodes : tree[x].in \in {Gone, Root} \cup Nodes
    PROVE  /\ Line(Root) = {Root} /\ Line(Gone) = {Gone}
           /\ \A x \in Nodes : Line(x) = {x} \cup Line(tree[x].in)
<1> DEFINE B == {Gone, Root}
           S == B \cup Nodes
           p == [y \in S |-> IF y \in B THEN y ELSE tree[y].in]
           Ups(up) == up = [y \in S |-> IF y \in {Gone, Root} THEN {y} ELSE {y} \cup up[tree[y].in]]
           up == CHOOSE f : Ups(f)
<1>1. \E f : Ups(f)
  <2>1. B \in SUBSET S /\ p \in [S -> S]
    OBVIOUS
  <2>2. PICK f : Leads(f, S, B, p)
    <3> HIDE DEF B, S, p
    <3> QED BY <2>1, WaysUp
  <2>3. \A y \in S \ B : f[p[y]] = f[tree[y].in]
    OBVIOUS
  <2>4. f = [y \in S |-> f[y]]
    BY <2>2 DEF Leads
  <2>5. Ups(f)
    BY <2>2, <2>3, <2>4 DEF Leads
  <2> QED BY <2>5
<1>2. Ups(up)
  <2> HIDE DEF Ups
  <2> QED BY <1>1
<1>3. \A x : Line(x) = up[x]
  BY DEF Line
<1>4. Root \in S /\ Gone \in S /\ \A x \in Nodes : x \in S /\ x \notin {Gone, Root}
  BY DEF Nodes, Gone, Root
<1> HIDE DEF up
<1> QED BY <1>2, <1>3, <1>4

-----------------------------------------------------------------------------
(* Folders: what a step does to the tree *)

Ranks(rank) ==
    /\ rank \in [Nodes -> Nat]
    /\ \A x \in Nodes : tree[x].in \in Nodes => rank[tree[x].in] < rank[x]

LEMMA TreeFacts ==
    ASSUME TreeOK
    PROVE  /\ Len(tree) \in Nat /\ Nodes = 1 .. Len(tree) /\ Nodes \subseteq Nat
           /\ Root \notin Nodes /\ Gone \notin Nodes /\ Root # Gone
           /\ \A x \in Nodes :
                 /\ tree[x] \in NodeRecs /\ tree[x].in \in {Gone, Root} \cup Nodes
                 /\ tree[x].kind \in {"file", "folder", "link"} /\ tree[x].name \in EntryNames
                 /\ tree[x].blank \in BOOLEAN
<1>1. tree \in Seq(NodeRecs) /\ Nodes = 1 .. Len(tree)
  BY DEF TreeOK, Nodes
<1>2. \A x \in Nodes : tree[x] \in NodeRecs
  BY <1>1
<1> QED BY <1>1, <1>2 DEF TreeOK, NodeRecs, Root, Gone

LEMMA Parents ==
    ASSUME TreeOK, NEW x \in Nodes
    PROVE  /\ tree[x].in \in Nodes => FolderAt(tree[x].in) /\ Stands(tree[x].in)
           /\ tree[x].in # x /\ \A y \in Nodes : y \in Children(x) => IsFolder(x)
<1>1. PICK rank : Ranks(rank)
  BY DEF TreeOK, Upward, Ranks
<1>2. tree[x].in # x
  BY <1>1 DEF Ranks
<1>3. \A y \in Nodes : y \in Children(x) => tree[x].kind = "folder"
  BY DEF TreeOK, Upward, Children
<1> QED BY <1>2, <1>3 DEF TreeOK, Upward, FolderAt, Stands, IsFolder

LEMMA AddedTree ==
    ASSUME TreeOK, NEW kind \in {"file", "folder", "link"}, NEW d, NEW n \in EntryNames,
           NEW own \in BOOLEAN, FolderAt(d), Stands(d), At(d, n) = {}, Len(tree) < MaxNodes,
           Added(kind, d, n, own)
    PROVE  /\ TreeOK' /\ Nodes' = Nodes \cup {Len(tree) + 1} /\ Len(tree) + 1 \notin Nodes
           /\ \A y \in Nodes : tree'[y] = tree[y]
           /\ tree'[Len(tree) + 1] = Node(kind, d, n, own)
<1> DEFINE new == Len(tree) + 1
           rec == Node(kind, d, n, own)
<1>1. /\ Len(tree) \in Nat /\ Nodes = 1 .. Len(tree) /\ tree \in Seq(NodeRecs)
      /\ Root \notin Nodes /\ Gone \notin Nodes /\ Root # Gone /\ new \notin {Root, Gone}
  BY TreeFacts DEF TreeOK, Root, Gone
<1>2. /\ rec \in NodeRecs /\ rec.in = d /\ rec.name = n /\ rec.kind = kind
      /\ d \in {Root} \cup Nodes
  <2>1. d \in {Root} \cup Nodes /\ d \in Int
    BY <1>1 DEF FolderAt, Root
  <2> QED BY <2>1 DEF Node, NodeRecs, Gone
<1>3. /\ tree' \in Seq(NodeRecs) /\ Len(tree') = new /\ Nodes' = Nodes \cup {new} /\ new \notin Nodes
      /\ \A y \in Nodes : tree'[y] = tree[y]
      /\ tree'[new] = rec
  <2>1. tree' = Append(tree, rec)
    BY DEF Added
  <2>2. tree' \in Seq(NodeRecs) /\ Len(tree') = new
    BY <1>1, <1>2, <2>1
  <2>3. Nodes' = 1 .. new
    BY <2>2 DEF Nodes
  <2> HIDE DEF rec
  <2> QED BY <1>1, <2>1, <2>2, <2>3
<1> HIDE DEF new, rec
<1>4. \A x \in Nodes' : tree'[x].in \in {Gone, Root} \cup Nodes'
  BY <1>2, <1>3, TreeFacts
<1>5. \A x \in Nodes' : tree'[x].in \in Nodes =>
         tree[tree'[x].in].kind = "folder" /\ tree[tree'[x].in].in # Gone
  <2>1. d \in Nodes => tree[d].kind = "folder" /\ tree[d].in # Gone
    BY <1>1 DEF FolderAt, Stands
  <2> QED BY <1>2, <1>3, <2>1 DEF TreeOK, Upward
<1>6. \A x \in Nodes' : tree'[x].in # new
  BY <1>1, <1>2, <1>3, TreeFacts
<1>7. \E rank : Ranks(rank)'
  <2>1. PICK rank : Ranks(rank)
    BY DEF TreeOK, Upward, Ranks
  <2> DEFINE more == [x \in Nodes' |-> IF x \in Nodes THEN rank[x]
                                       ELSE IF d \in Nodes THEN rank[d] + 1 ELSE 0]
  <2>2. more \in [Nodes' -> Nat]
    BY <2>1 DEF Ranks
  <2>3. ASSUME NEW x \in Nodes', tree'[x].in \in Nodes'
        PROVE  more[tree'[x].in] < more[x]
    <3>1. tree'[x].in \in Nodes
      BY <1>3, <1>6, <2>3
    <3>2. CASE x \in Nodes
      BY <1>3, <2>1, <3>1, <3>2 DEF Ranks
    <3>3. CASE x = new
      BY <1>2, <1>3, <2>1, <3>1, <3>3 DEF Ranks
    <3> QED BY <1>3, <3>2, <3>3
  <2> HIDE DEF more
  <2> QED BY <2>2, <2>3 DEF Ranks
<1>8. OneKey'
  <2>1. ASSUME NEW x \in Nodes', NEW y \in Nodes', tree'[x].in # Gone,
               tree'[x].in = tree'[y].in, Key(tree'[x].name) = Key(tree'[y].name)
        PROVE  x = y
    <3>1. \A z \in Nodes : ~(tree[z].in = d /\ Key(tree[z].name) = Key(n))
      BY DEF At
    <3> QED BY <1>2, <1>3, <2>1, <3>1 DEF TreeOK, OneKey
  <2>2. \A m : Key(m)' = Key(m)
    BY DEF Key
  <2> QED BY <2>1, <2>2 DEF OneKey
<1>9. Upward'
  BY <1>3, <1>4, <1>5, <1>6, <1>7 DEF Upward, Ranks
<1>10. TreeOK'
  BY <1>1, <1>3, <1>4, <1>8, <1>9, FoldersAssumption DEF TreeOK, new
<1> QED BY <1>3, <1>10 DEF new, rec

\* Entries that hold nothing go.
LEMMA CutTree ==
    ASSUME TreeOK, NEW X \in SUBSET Nodes, tree' = Without(X),
           \A y \in X : IsFolder(y) => Children(y) = {}
    PROVE  /\ TreeOK' /\ Nodes' = Nodes
           /\ \A y \in Nodes : /\ tree'[y].kind = tree[y].kind /\ tree'[y].blank = tree[y].blank
                               /\ tree'[y].name = tree[y].name
                               /\ tree'[y].in = IF y \in X THEN Gone ELSE tree[y].in
<1>1. /\ tree \in Seq(NodeRecs) /\ Len(tree) \in Nat /\ Nodes = 1 .. Len(tree) /\ Gone \notin Nodes
      /\ \A y \in Nodes : tree[y] \in NodeRecs
  BY TreeFacts DEF TreeOK
<1>2. \A y \in Nodes : /\ tree'[y] \in NodeRecs
                       /\ tree'[y].kind = tree[y].kind /\ tree'[y].blank = tree[y].blank
                       /\ tree'[y].name = tree[y].name
                       /\ tree'[y].in = IF y \in X THEN Gone ELSE tree[y].in
  <2> SUFFICES ASSUME NEW y \in Nodes
               PROVE  /\ tree'[y] \in NodeRecs
                      /\ tree'[y].kind = tree[y].kind /\ tree'[y].blank = tree[y].blank
                      /\ tree'[y].name = tree[y].name
                      /\ tree'[y].in = IF y \in X THEN Gone ELSE tree[y].in
    OBVIOUS
  <2>1. tree'[y] = IF y \in X THEN [tree[y] EXCEPT !.in = Gone] ELSE tree[y]
    BY DEF Without
  <2>2. tree[y] \in NodeRecs /\ Gone \in Int
    BY <1>1 DEF Gone
  <2> QED BY <2>1, <2>2 DEF NodeRecs
<1>3. tree' \in Seq(NodeRecs) /\ Len(tree') = Len(tree) /\ Nodes' = Nodes
  <2>1. tree' \in [1 .. Len(tree) -> NodeRecs]
    BY <1>1, <1>2 DEF Without
  <2>2. tree' \in Seq(NodeRecs) /\ Len(tree') = Len(tree)
    BY <1>1, <2>1, IsASeq
  <2> QED BY <2>2 DEF Nodes
<1>4. \A x \in Nodes : tree[x].in \notin X
  <2> SUFFICES ASSUME NEW x \in Nodes, tree[x].in \in X PROVE FALSE
    OBVIOUS
  <2>1. tree[x].in \in Nodes /\ x \in Children(tree[x].in)
    BY DEF Children
  <2>2. IsFolder(tree[x].in)
    BY <2>1 DEF TreeOK, Upward, IsFolder
  <2> QED BY <2>1, <2>2
<1>5. \A x \in Nodes : tree'[x].in \in {Gone, Root} \cup Nodes
  BY <1>2, TreeFacts
<1>6. \A x \in Nodes : tree'[x].in \in Nodes =>
         tree'[tree'[x].in].kind = "folder" /\ tree'[tree'[x].in].in # Gone
  <2> SUFFICES ASSUME NEW x \in Nodes, tree'[x].in \in Nodes
               PROVE  tree'[tree'[x].in].kind = "folder" /\ tree'[tree'[x].in].in # Gone
    OBVIOUS
  <2>1. PICK y \in Nodes : y = tree'[x].in
    OBVIOUS
  <2>2. y = tree[x].in /\ y \notin X
    BY <1>2, <1>4, <2>1 DEF Gone, Nodes
  <2>3. tree[y].kind = "folder" /\ tree[y].in # Gone
    BY <2>2 DEF TreeOK, Upward
  <2>4. tree'[y].kind = tree[y].kind /\ tree'[y].in = tree[y].in
    BY <1>2, <2>2
  <2> QED BY <2>1, <2>3, <2>4
<1>7. \E rank : Ranks(rank)'
  <2>1. PICK rank : Ranks(rank)
    BY DEF TreeOK, Upward, Ranks
  <2>2. \A x \in Nodes : tree'[x].in \in Nodes => rank[tree'[x].in] < rank[x]
    BY <1>1, <1>2, <2>1 DEF Ranks
  <2> QED BY <1>3, <2>1, <2>2 DEF Ranks
<1>8. OneKey'
  <2>1. \A x, y \in Nodes : /\ tree'[x].in # Gone /\ tree'[x].in = tree'[y].in
                            /\ Key(tree'[x].name) = Key(tree'[y].name)
                            => x = y
    BY <1>2 DEF TreeOK, OneKey
  <2>2. \A m : Key(m)' = Key(m)
    BY DEF Key
  <2> QED BY <1>3, <2>1, <2>2 DEF OneKey
<1>9. Upward'
  BY <1>3, <1>6, <1>7 DEF Upward, Ranks
<1>10. TreeOK'
  BY <1>3, <1>5, <1>8, <1>9 DEF TreeOK
<1> QED BY <1>2, <1>3, <1>10

LEMMA AtFacts ==
    ASSUME NEW d, NEW n, NEW x
    PROVE  x \in At(d, n) <=> x \in Nodes /\ tree[x].in = d /\ Key(tree[x].name) = Key(n)
BY DEF At

\* An entry is moved, over what holds nothing, and not below itself.
LEMMA MovedTree ==
    ASSUME TreeOK, NEW x \in Nodes, NEW d, NEW n \in EntryNames, FolderAt(d), MayMove(x, d, n),
           Moving(x, d, n)
    PROVE  /\ TreeOK' /\ Nodes' = Nodes
           /\ tree'[x].in = d /\ tree'[x].name = n
           /\ \A y \in Nodes : tree'[y].kind = tree[y].kind /\ tree'[y].blank = tree[y].blank
           /\ \A y \in Nodes \ {x} :
                 /\ tree'[y].name = tree[y].name
                 /\ tree'[y].in = IF y \in At(d, n) THEN Gone ELSE tree[y].in
<1> DEFINE X == At(d, n) \ {x}
           cut == Without(X)
<1>1. /\ tree \in Seq(NodeRecs) /\ Len(tree) \in Nat /\ Nodes = 1 .. Len(tree)
      /\ Root \notin Nodes /\ Gone \notin Nodes /\ Root # Gone /\ Nodes \subseteq Nat
      /\ \A y \in Nodes : tree[y] \in NodeRecs
  BY TreeFacts DEF TreeOK
<1>2. /\ Stands(d) /\ x \notin Line(d) /\ X \subseteq Nodes /\ d \in {Root} \cup Nodes /\ d \in Int
      /\ \A y \in X : IsFolder(y) => Children(y) = {}
  BY <1>1 DEF MayMove, FolderAt, At, Root
<1>3. \A y \in Nodes : /\ cut[y] \in NodeRecs
                       /\ cut[y].kind = tree[y].kind /\ cut[y].blank = tree[y].blank
                       /\ cut[y].name = tree[y].name
                       /\ cut[y].in = IF y \in X THEN Gone ELSE tree[y].in
  <2> SUFFICES ASSUME NEW y \in Nodes
               PROVE  /\ cut[y] \in NodeRecs
                      /\ cut[y].kind = tree[y].kind /\ cut[y].blank = tree[y].blank
                      /\ cut[y].name = tree[y].name
                      /\ cut[y].in = IF y \in X THEN Gone ELSE tree[y].in
    OBVIOUS
  <2>1. cut[y] = IF y \in X THEN [tree[y] EXCEPT !.in = Gone] ELSE tree[y]
    BY DEF Without
  <2>2. tree[y] \in NodeRecs /\ Gone \in Int
    BY <1>1 DEF Gone
  <2> QED BY <2>1, <2>2 DEF NodeRecs
<1>4. cut \in [Nodes -> NodeRecs]
  BY <1>3 DEF Without
<1>5. tree' = [cut EXCEPT ![x] = [cut[x] EXCEPT !.in = d, !.name = n]]
  BY <1>4 DEF Moving
<1> HIDE DEF cut
<1>6. [cut[x] EXCEPT !.in = d, !.name = n] \in NodeRecs
  BY <1>2, <1>3 DEF NodeRecs
<1>7. /\ tree'[x].in = d /\ tree'[x].name = n
      /\ tree'[x].kind = tree[x].kind /\ tree'[x].blank = tree[x].blank
  BY <1>3, <1>4, <1>5 DEF NodeRecs
<1>8. \A y \in Nodes \ {x} : tree'[y] = cut[y]
  BY <1>4, <1>5
<1>9. \A y \in Nodes \ {x} :
         /\ tree'[y].kind = tree[y].kind /\ tree'[y].blank = tree[y].blank
         /\ tree'[y].name = tree[y].name
         /\ tree'[y].in = IF y \in At(d, n) THEN Gone ELSE tree[y].in
  BY <1>3, <1>8
<1>10. tree' \in Seq(NodeRecs) /\ Len(tree') = Len(tree) /\ Nodes' = Nodes
  <2>1. tree' \in [1 .. Len(tree) -> NodeRecs]
    BY <1>1, <1>4, <1>5, <1>6
  <2>2. tree' \in Seq(NodeRecs) /\ Len(tree') = Len(tree)
    BY <1>1, <2>1, IsASeq
  <2> QED BY <2>2 DEF Nodes
<1>11. \A y \in Nodes : tree[y].in \notin X
  <2> SUFFICES ASSUME NEW y \in Nodes, tree[y].in \in X PROVE FALSE
    OBVIOUS
  <2>1. tree[y].in \in Nodes /\ y \in Children(tree[y].in)
    BY <1>2 DEF Children
  <2>2. IsFolder(tree[y].in)
    BY <2>1 DEF TreeOK, Upward, IsFolder
  <2> QED BY <1>2, <2>1, <2>2
<1>12. PICK rank : Ranks(rank)
  BY DEF TreeOK, Upward, Ranks
<1>13. d # x /\ d \notin X
  <2>1. Line(x) = {x} \cup Line(tree[x].in)
    BY LineUp, TreeFacts
  <2>2. d # x
    BY <1>2, <2>1
  <2>3. d \in Nodes => tree[d].in # d
    BY Parents
  <2> QED BY <2>2, <2>3, AtFacts
<1>14. \A y \in Nodes : tree'[y].in \in {Gone, Root} \cup Nodes
  BY <1>2, <1>7, <1>9, TreeFacts
<1>15. \A y \in Nodes : tree'[y].in \in Nodes =>
          tree'[tree'[y].in].kind = "folder" /\ tree'[tree'[y].in].in # Gone
  <2> SUFFICES ASSUME NEW y \in Nodes, tree'[y].in \in Nodes
               PROVE  tree'[tree'[y].in].kind = "folder" /\ tree'[tree'[y].in].in # Gone
    OBVIOUS
  <2>1. CASE y = x
    BY <1>1, <1>2, <1>7, <1>9, <1>13, <2>1 DEF FolderAt, Stands
  <2>2. CASE y # x
    <3>1. tree'[y].in = tree[y].in /\ tree[y].in \in Nodes /\ tree[y].in \notin X
      BY <1>1, <1>9, <1>11, <2>2
    <3>2. tree[tree[y].in].kind = "folder" /\ tree[tree[y].in].in # Gone
      BY <3>1 DEF TreeOK, Upward
    <3>3. CASE tree[y].in = x
      BY <1>1, <1>2, <1>7, <3>1, <3>2, <3>3
    <3>4. CASE tree[y].in # x
      BY <1>9, <3>1, <3>2, <3>4
    <3> QED BY <3>3, <3>4
  <2> QED BY <2>1, <2>2
<1>16. \E r : Ranks(r)'
  <2> DEFINE more == IF d \in Nodes THEN rank[d] + 1 ELSE 1
             r == [y \in Nodes |-> IF x \in Line(y) THEN rank[y] + more ELSE rank[y]]
  <2>1. more \in Nat /\ rank \in [Nodes -> Nat]
    BY <1>12 DEF Ranks
  <2>2. r \in [Nodes -> Nat]
    BY <2>1
  <2>3. ASSUME NEW y \in Nodes, tree'[y].in \in Nodes
        PROVE  r[tree'[y].in] < r[y]
    <3>1. Line(y) = {y} \cup Line(tree[y].in)
      BY LineUp, TreeFacts
    <3>2. CASE y = x
      <4>1. x \in Line(y) /\ tree'[y].in = d /\ d \in Nodes
        BY <1>7, <2>3, <3>1, <3>2
      <4> QED BY <1>2, <2>1, <4>1
    <3>3. CASE y # x
      <4>1. tree'[y].in = tree[y].in /\ rank[tree[y].in] < rank[y] /\ tree[y].in \in Nodes
        BY <1>1, <1>9, <1>12, <2>3, <3>3 DEF Ranks
      <4>2. x \in Line(y) <=> x \in Line(tree[y].in)
        BY <3>1, <3>3
      <4> HIDE DEF more
      <4> QED BY <2>1, <4>1, <4>2
    <3> QED BY <3>2, <3>3
  <2> HIDE DEF r
  <2> QED BY <1>10, <2>2, <2>3 DEF Ranks
<1>17. OneKey'
  <2>1. ASSUME NEW y \in Nodes, NEW z \in Nodes, tree'[y].in # Gone,
               tree'[y].in = tree'[z].in, Key(tree'[y].name) = Key(tree'[z].name)
        PROVE  y = z
    <3>1. CASE y # x /\ z # x
      BY <1>9, <2>1, <3>1 DEF TreeOK, OneKey
    <3>2. \A w \in Nodes \ {x} : ~(tree'[w].in = d /\ Key(tree'[w].name) = Key(n))
      <4> SUFFICES ASSUME NEW w \in Nodes \ {x}, tree'[w].in = d, Key(tree'[w].name) = Key(n)
                   PROVE  FALSE
        OBVIOUS
      <4>1. d # Gone
        BY <1>1, <1>2
      <4>2. w \notin At(d, n) /\ tree[w].in = d /\ Key(tree[w].name) = Key(n)
        BY <1>9, <4>1
      <4> QED BY <4>2, AtFacts
    <3> QED BY <1>7, <2>1, <3>1, <3>2
  <2>2. \A m : Key(m)' = Key(m)
    BY DEF Key
  <2> QED BY <1>10, <2>1, <2>2 DEF OneKey
<1>18. Upward'
  BY <1>10, <1>15, <1>16 DEF Upward, Ranks
<1>19. TreeOK'
  BY <1>10, <1>14, <1>17, <1>18 DEF TreeOK
<1> QED BY <1>7, <1>9, <1>10, <1>19

-----------------------------------------------------------------------------
(* Folders: what every step keeps *)

LineLaw ==
    /\ Line(Root) = {Root} /\ Line(Gone) = {Gone}
    /\ \A x \in Nodes : Line(x) = {x} \cup Line(tree[x].in)

LEMMA Lines == TreeOK => LineLaw
BY LineUp, TreeFacts DEF LineLaw

LEMMA LinesNext == TreeOK' => LineLaw'
BY Lines, PTL

Grown == /\ Nodes \subseteq Nodes'
         /\ \A y \in Nodes : tree'[y].kind = tree[y].kind /\ tree'[y].blank = tree[y].blank

OthersRest(h) == hand' \in [Hands -> HandRecs] /\ \A g \in Hands \ {h} : hand'[g] = hand[g]

LEMMA HandFields ==
    ASSUME hand \in [Hands -> HandRecs], NEW h \in Hands
    PROVE  /\ hand[h] \in HandRecs
           /\ hand[h].pc \in HandPcs /\ hand[h].order \in Orders \cup {NoOrder}
           /\ hand[h].dir \in Nat /\ hand[h].left \in Seq(Spelt) /\ hand[h].from \in Nat
           /\ hand[h].src \in Nat /\ hand[h].hidden \in {<<>>} \cup (Spelt \X Nat \X Nat)
           /\ hand[h].frames \in Seq(FrameRecs)
<1>1. hand[h] \in HandRecs
  OBVIOUS
<1> QED BY <1>1 DEF HandRecs

LEMMA OrderFields ==
    ASSUME NEW o \in Orders
    PROVE  /\ o.kind \in OrderKinds /\ o.path \in Seq(Spelt) /\ o.name \in Spelt
           /\ o.toPath \in Seq(Spelt) /\ o.toName \in Spelt
<1>1. o \in Order
  BY FoldersAssumption
<1> QED BY <1>1 DEF Order

LEMMA HandBecomes ==
    ASSUME hand \in [Hands -> HandRecs], NEW h \in Hands, NEW r \in HandRecs,
           hand' = [hand EXCEPT ![h] = r]
    PROVE  OthersRest(h) /\ hand'[h] = r
BY DEF OthersRest

LEMMA ToGoes ==
    ASSUME hand \in [Hands -> HandRecs], NEW h \in Hands, NEW pc \in HandPcs, To(h, pc)
    PROVE  /\ OthersRest(h) /\ hand'[h].pc = pc
           /\ hand'[h].order = hand[h].order /\ hand'[h].dir = hand[h].dir
           /\ hand'[h].left = hand[h].left /\ hand'[h].from = hand[h].from
           /\ hand'[h].src = hand[h].src /\ hand'[h].hidden = hand[h].hidden
           /\ hand'[h].frames = hand[h].frames
<1> DEFINE r == [hand[h] EXCEPT !.pc = pc]
<1>1. hand' = [hand EXCEPT ![h] = r]
  BY DEF To
<1>2. r \in HandRecs
  BY HandFields DEF HandRecs
<1>3. /\ r.pc = pc /\ r.order = hand[h].order /\ r.dir = hand[h].dir
      /\ r.left = hand[h].left /\ r.from = hand[h].from
      /\ r.src = hand[h].src /\ r.hidden = hand[h].hidden /\ r.frames = hand[h].frames
  BY HandFields DEF HandRecs
<1> HIDE DEF r
<1> QED BY <1>1, <1>2, <1>3, HandBecomes

LEMMA FreeFields ==
    /\ FreeHand \in HandRecs /\ FreeHand.pc = "free" /\ FreeHand.order = NoOrder
    /\ FreeHand.dir = Root /\ FreeHand.left = <<>> /\ FreeHand.from = Root
    /\ FreeHand.src = Root /\ FreeHand.hidden = <<>> /\ FreeHand.frames = <<>>
BY DEF FreeHand, HandRecs, HandPcs, NoOrder, Root

LEMMA ReleaseGoes ==
    ASSUME hand \in [Hands -> HandRecs], NEW h \in Hands, Release(h)
    PROVE  OthersRest(h) /\ hand'[h] = FreeHand
BY FreeFields, HandBecomes DEF Release

\* What the histories say of a hand after a step.
LEMMA Watched ==
    ASSUME TreeOK', inside \in [Hands -> SUBSET Nodes], Nodes \subseteq Nodes',
           NEW h \in Hands, Watch(h)
    PROVE  /\ inside' \in [Hands -> SUBSET Nodes'] /\ raced' \subseteq Hands
           /\ \A g \in Hands : hand'[g].pc \in {"delete", "empty"} =>
                 /\ inside[g] \subseteq inside'[g] /\ NamedBy(g)' \subseteq inside'[g]
                 /\ \A x \in Nodes' : tree'[x].in \in inside'[g] => x \in inside'[g]
           /\ \A g \in Hands : g \notin raced' /\ hand'[g].pc \in Renaming =>
                 /\ g \notin raced
                 /\ g # h => \A e \in Ends(g) : At(e[1], e[2])' = At(e[1], e[2])
<1> DEFINE named(g) == inside[g] \cup NamedBy(g)'
           below(g) == named(g) \cup {x \in Nodes' : named(g) \cap Line(x)' # {}}
<1>1. \A g \in Hands : inside'[g] = IF hand'[g].pc \notin {"delete", "empty"} THEN {} ELSE below(g)
  BY DEF Watch
<1>2. \A g \in Hands : named(g) \subseteq Nodes'
  BY DEF NamedBy, At
<1>3. \A g \in Hands : below(g) \in SUBSET Nodes'
  BY <1>2
<1>4. inside' \in [Hands -> SUBSET Nodes']
  <2>1. inside' = [g \in Hands |-> inside'[g]]
    BY DEF Watch
  <2>2. \A g \in Hands : inside'[g] \in SUBSET Nodes'
    <3> HIDE DEF below
    <3> QED BY <1>1, <1>3
  <2> QED BY <2>1, <2>2
<1>5. \A g \in Hands : \A x \in Nodes' : tree'[x].in \in below(g) => x \in below(g)
  <2> SUFFICES ASSUME NEW g \in Hands, NEW x \in Nodes', tree'[x].in \in below(g)
               PROVE  x \in below(g)
    OBVIOUS
  <2>1. LineLaw'
    BY LinesNext
  <2>2. Line(x)' = {x} \cup Line(tree[x].in)'
    BY <2>1 DEF LineLaw
  <2>3. tree'[x].in \in Nodes'
    BY <1>3
  <2>4. tree'[x].in \in Line(tree[x].in)'
    BY <2>1, <2>3 DEF LineLaw
  <2>5. named(g) \cap Line(x)' # {}
    <3> HIDE DEF named
    <3> QED BY <2>2, <2>4
  <2> HIDE DEF named
  <2> QED BY <2>5
<1>6. raced' = {g \in Hands : /\ hand'[g].pc \in Renaming
                              /\ \/ g \in raced
                                 \/ g # h /\ \E e \in Ends(g) : At(e[1], e[2])' # At(e[1], e[2])}
  BY DEF Watch
<1>7. \A g \in Hands : hand'[g].pc \in {"delete", "empty"} =>
         /\ inside[g] \subseteq inside'[g] /\ NamedBy(g)' \subseteq inside'[g]
         /\ \A x \in Nodes' : tree'[x].in \in inside'[g] => x \in inside'[g]
  BY <1>1, <1>5
<1>8. \A g \in Hands : g \notin raced' /\ hand'[g].pc \in Renaming =>
         /\ g \notin raced
         /\ g # h => \A e \in Ends(g) : At(e[1], e[2])' = At(e[1], e[2])
  BY <1>6
<1> QED BY <1>4, <1>6, <1>7, <1>8

\* What a hand knows holds on while another has a step.
LEMMA OthersKept ==
    ASSUME FoldersInv, TreeOK', Grown, NEW h \in Hands, OthersRest(h), Watch(h),
           nonce' \in Nat, nonce <= nonce'
    PROVE  \A g \in Hands \ {h} : HandFits(g)' /\ Undisturbed(g)' /\ Below(g)'
<1> SUFFICES ASSUME NEW g \in Hands \ {h} PROVE HandFits(g)' /\ Undisturbed(g)' /\ Below(g)'
  OBVIOUS
<1>1. /\ hand'[g] = hand[g] /\ Nodes \subseteq Nodes' /\ nonce \in Nat
      /\ \A y \in Nodes : tree'[y].kind = tree[y].kind /\ tree'[y].blank = tree[y].blank
      /\ HandFits(g) /\ Undisturbed(g) /\ Below(g)
  BY DEF OthersRest, Grown, FoldersInv
<1>2. HandFits(g)'
  <2>1. \A i \in 0 .. nonce - 1 : i \in 0 .. nonce' - 1
    <3>1. \A a, b \in Nat : a <= b => \A i \in 0 .. a - 1 : i \in 0 .. b - 1
      OBVIOUS
    <3> QED BY <1>1, <3>1
  <2>2. \A v : v \in Spelt \X (0 .. nonce - 1) \X (1 .. Attempts) =>
               v \in Spelt \X (0 .. nonce' - 1) \X (1 .. Attempts)
    BY <2>1
  <2>3. \A d : FolderAt(d) => FolderAt(d)'
    BY <1>1 DEF FolderAt
  <2> QED BY <1>1, <2>2, <2>3 DEF HandFits
<1>3. Undisturbed(g)'
  <2> SUFFICES ASSUME g \notin raced', hand[g].pc \in Renaming
               PROVE  /\ hand[g].pc \in {"walkTo", "move", "over", "aside"} => Source(g)' = {hand[g].src}
                      /\ hand[g].pc = "over" => \A y \in Target(g)' : tree'[y].blank
                      /\ hand[g].pc \in {"verify", "aside"} => Target(g)' = {hand[g].src}
                      /\ hand[g].pc \in {"back", "rollback"} => Source(g)' = {} /\ Target(g)' = {}
    BY <1>1 DEF Undisturbed, Renaming
  <2>1. g \notin raced /\ \A e \in Ends(g) : At(e[1], e[2])' = At(e[1], e[2])
    BY <1>1, Watched DEF FoldersInv, Grown
  <2>2. /\ At(hand[g].from, hand[g].order.name)' = At(hand[g].from, hand[g].order.name)
        /\ At(hand[g].dir, hand[g].order.toName)' = At(hand[g].dir, hand[g].order.toName)
    <3>1. Source(g)' = Source(g) /\ Target(g)' = Target(g)
      <4>1. /\ <<hand[g].from, hand[g].order.name>> \in Ends(g)
            /\ <<hand[g].dir, hand[g].order.toName>> \in Ends(g)
        BY DEF Ends
      <4> QED BY <1>1, <2>1, <4>1 DEF Source, Target, At
    <3> QED BY <1>1, <3>1 DEF Source, Target
  <2>3. Source(g)' = Source(g) /\ Target(g)' = Target(g)
    BY <1>1, <2>2 DEF Source, Target
  <2>4. \A y \in Target(g) : tree'[y].blank = tree[y].blank
    BY <1>1 DEF Target, At
  <2> QED BY <1>1, <2>1, <2>3, <2>4 DEF Undisturbed
<1>4. Below(g)'
  <2> SUFFICES ASSUME hand'[g].pc \in {"delete", "empty"} PROVE Below(g)'
    BY DEF Below
  <2>1. /\ inside[g] \subseteq inside'[g] /\ NamedBy(g)' \subseteq inside'[g]
        /\ \A x \in Nodes' : tree'[x].in \in inside'[g] => x \in inside'[g]
    BY <1>1, Watched DEF FoldersInv
  <2>2. Framed(g)'
    BY <1>1, <2>1 DEF Below, Framed
  <2> QED BY <2>1, <2>2 DEF Below
<1> QED BY <1>2, <1>3, <1>4

\* Entries under hidden names that there were keep their reason; those that
\* come have that of the hand that moved.
LEMMA ReasonsKept ==
    ASSUME FoldersInv, NEW h \in Hands, OthersRest(h), strays \subseteq strays',
           \A x \in Nodes' : tree'[x].in # Gone /\ tree'[x].name \notin Spelt =>
              \/ x \in Aside(h)' /\ hand'[h].pc \in {"back", "rollback"}
              \/ x \in strays'
              \/ /\ x \in Nodes /\ tree'[x].in = tree[x].in /\ tree'[x].name = tree[x].name
                 /\ ~(hand[h].pc \in {"back", "rollback"} /\ x \in Aside(h))
    PROVE  HiddenHasReason'
<1> SUFFICES ASSUME NEW x \in Nodes', tree'[x].in # Gone, tree'[x].name \notin Spelt, x \notin strays',
                    ~(x \in Aside(h)' /\ hand'[h].pc \in {"back", "rollback"})
             PROVE  \E g \in Hands : hand'[g].pc \in {"back", "rollback"} /\ x \in Aside(g)'
  BY DEF HiddenHasReason
<1>1. /\ x \in Nodes /\ tree'[x].in = tree[x].in /\ tree'[x].name = tree[x].name
      /\ ~(hand[h].pc \in {"back", "rollback"} /\ x \in Aside(h))
  OBVIOUS
<1>2. PICK g \in Hands : hand[g].pc \in {"back", "rollback"} /\ x \in Aside(g)
  BY <1>1 DEF FoldersInv, HiddenHasReason
<1>3. hand'[g] = hand[g]
  BY <1>1, <1>2 DEF OthersRest
<1>4. x \in Aside(g)'
  BY <1>1, <1>2, <1>3 DEF Aside, At, Key
<1> QED BY <1>2, <1>3, <1>4

\* A step of a hand keeps the invariant if it keeps what is its own.
LEMMA HandStepKeeps ==
    ASSUME FoldersInv, TreeOK', Grown, NEW h \in Hands, OthersRest(h), Watch(h),
           nonce' \in 0 .. MaxNonce, nonce <= nonce', orders' \in 0 .. MaxOrders,
           strays' \subseteq Nodes', HiddenHasReason', HandFits(h)',
           h \notin raced' /\ hand'[h].pc \in Renaming => Undisturbed(h)',
           hand'[h].pc = "empty" => Framed(h)'
    PROVE  FoldersInv'
<1>1. /\ inside \in [Hands -> SUBSET Nodes] /\ nonce' \in Nat /\ Nodes \subseteq Nodes'
      /\ hand' \in [Hands -> HandRecs]
  BY FoldersAssumption DEF FoldersInv, Grown, OthersRest
<1>2. \A g \in Hands \ {h} : HandFits(g)' /\ Undisturbed(g)' /\ Below(g)'
  BY <1>1, OthersKept
<1>3. /\ inside' \in [Hands -> SUBSET Nodes'] /\ raced' \subseteq Hands
      /\ hand'[h].pc \in {"delete", "empty"} =>
                 /\ inside[h] \subseteq inside'[h] /\ NamedBy(h)' \subseteq inside'[h]
                 /\ \A x \in Nodes' : tree'[x].in \in inside'[h] => x \in inside'[h]
  BY <1>1, Watched
<1>4. Undisturbed(h)'
  BY DEF Undisturbed, Renaming
<1>5. Below(h)'
  <2>1. hand'[h].pc = "delete" => Framed(h)'
    <3> SUFFICES ASSUME hand'[h].pc = "delete" PROVE Framed(h)'
      OBVIOUS
    <3>1. hand'[h].frames = <<>>
      BY DEF HandFits
    <3> QED BY <3>1 DEF Framed
  <2> QED BY <1>3, <2>1 DEF Below
<1> QED BY <1>1, <1>2, <1>3, <1>4, <1>5 DEF FoldersInv

LEMMA TreeSame ==
    ASSUME TreeOK, UNCHANGED tree
    PROVE  TreeOK' /\ Grown /\ Nodes' = Nodes
<1>1. Nodes' = Nodes
  BY DEF Nodes
<1>2. Upward' /\ OneKey'
  BY <1>1 DEF TreeOK, Upward, OneKey, Key
<1> QED BY <1>1, <1>2 DEF TreeOK, Grown

LEMMA FreeFits ==
    ASSUME NEW h \in Hands, hand'[h] = FreeHand
    PROVE  HandFits(h)' /\ hand'[h].pc \notin Renaming /\ hand'[h].pc \notin {"delete", "empty"}
BY FreeFields DEF HandFits, FolderAt, Renaming

\* A request that ends.
LEMMA ReleaseKeeps ==
    ASSUME FoldersInv, TreeOK', Grown, NEW h \in Hands, Release(h), Watch(h),
           UNCHANGED <<nonce, orders>>, strays' \subseteq Nodes', HiddenHasReason'
    PROVE  FoldersInv'
<1>1. OthersRest(h) /\ hand'[h] = FreeHand
  BY ReleaseGoes DEF FoldersInv
<1>2. nonce' \in 0 .. MaxNonce /\ nonce <= nonce' /\ orders' \in 0 .. MaxOrders
  BY FoldersAssumption DEF FoldersInv
<1> QED BY <1>1, <1>2, FreeFits, HandStepKeeps

\* A step that leaves the tree as it is.
LEMMA QuietHandKeeps ==
    ASSUME FoldersInv, NEW h \in Hands, OthersRest(h), Watch(h), UNCHANGED <<tree, nonce, strays>>,
           orders' \in 0 .. MaxOrders, hand[h].pc \notin {"back", "rollback"}, HandFits(h)',
           h \notin raced' /\ hand'[h].pc \in Renaming => Undisturbed(h)',
           hand'[h].pc = "empty" => Framed(h)'
    PROVE  FoldersInv'
<1>1. TreeOK' /\ Grown /\ Nodes' = Nodes
  BY TreeSame DEF FoldersInv
<1>2. nonce' \in 0 .. MaxNonce /\ nonce <= nonce' /\ strays' \subseteq Nodes'
  BY <1>1, FoldersAssumption DEF FoldersInv
<1>3. HiddenHasReason'
  BY <1>1, ReasonsKept
<1> QED BY <1>1, <1>2, <1>3, HandStepKeeps

LEMMA QuietEnd ==
    ASSUME FoldersInv, NEW h \in Hands, Release(h), Watch(h), UNCHANGED <<tree, nonce, orders, strays>>,
           hand[h].pc \notin {"back", "rollback"}
    PROVE  FoldersInv'
<1>1. OthersRest(h) /\ hand'[h] = FreeHand
  BY ReleaseGoes DEF FoldersInv
<1>2. orders' \in 0 .. MaxOrders
  BY DEF FoldersInv
<1> QED BY <1>1, <1>2, FreeFits, QuietHandKeeps

LEMMA RefuseOrderKeeps ==
    ASSUME FoldersInv, NEW h \in Hands, RefuseOrder(h), Watch(h)
    PROVE  FoldersInv'
<1>1. /\ OthersRest(h) /\ hand'[h] = hand[h] /\ hand[h].pc = "free" /\ orders' \in 0 .. MaxOrders
      /\ UNCHANGED <<tree, nonce, strays>> /\ hand[h] = FreeHand
  BY DEF FoldersInv, RefuseOrder, HandAt, OthersRest, HandFits
<1> QED BY <1>1, FreeFits, QuietHandKeeps

LEMMA GiveUpKeeps ==
    ASSUME FoldersInv, NEW h \in Hands, GiveUp(h), Watch(h)
    PROVE  FoldersInv'
BY QuietEnd DEF GiveUp

LEMMA TakeKeeps ==
    ASSUME FoldersInv, NEW h \in Hands, Take(h), Watch(h)
    PROVE  FoldersInv'
<1>1. PICK o \in Orders :
         hand' = [hand EXCEPT ![h] = [FreeHand EXCEPT !.pc = IF o.kind = "put" THEN "prepare" ELSE "walk",
                                                  !.order = o, !.left = o.path]]
  BY DEF Take
<1> DEFINE r == [FreeHand EXCEPT !.pc = IF o.kind = "put" THEN "prepare" ELSE "walk",
                                 !.order = o, !.left = o.path]
<1>2. /\ r \in HandRecs /\ r.pc \in {"prepare", "walk"} /\ r.order = o /\ r.dir = Root
      /\ r.from = Root /\ r.frames = <<>>
  <2>1. o.path \in Seq(Spelt)
    BY OrderFields
  <2> QED BY <2>1, FreeFields DEF HandRecs, HandPcs, FreeHand
<1> HIDE DEF r
<1>3. OthersRest(h) /\ hand'[h] = r
  BY <1>1, <1>2, HandBecomes DEF FoldersInv, r
<1>4. HandFits(h)' /\ hand'[h].pc \notin Renaming
  BY <1>2, <1>3 DEF HandFits, FolderAt, Renaming
<1>5. /\ orders' \in 0 .. MaxOrders /\ UNCHANGED <<tree, nonce, strays>> /\ hand[h].pc = "free"
  BY FoldersAssumption DEF FoldersInv, Take, HandAt
<1> QED BY <1>2, <1>3, <1>4, <1>5, QuietHandKeeps

LEMMA WalkKeeps ==
    ASSUME FoldersInv, NEW h \in Hands, Walk(h), Watch(h)
    PROVE  FoldersInv'
<1>1. /\ hand[h].pc \in {"walk", "walkTo", "prepare", "made"} /\ hand[h].left # <<>>
      /\ UNCHANGED <<tree, nonce, orders, strays>> /\ HandFits(h) /\ Undisturbed(h)
      /\ hand \in [Hands -> HandRecs] /\ TreeOK /\ orders' \in 0 .. MaxOrders
  BY DEF FoldersInv, Walk
<1>2. CASE Release(h)
  BY <1>1, <1>2, QuietEnd
<1>3. CASE \E x \in {y \in At(hand[h].dir, Head(hand[h].left)) : IsFolder(y)} :
             hand' = [hand EXCEPT ![h].dir = x, ![h].left = Tail(@),
                                  ![h].pc = IF @ = "made" THEN "prepare" ELSE @]
  <2>1. PICK x \in At(hand[h].dir, Head(hand[h].left)) :
           /\ IsFolder(x)
           /\ hand' = [hand EXCEPT ![h].dir = x, ![h].left = Tail(@),
                                  ![h].pc = IF @ = "made" THEN "prepare" ELSE @]
    BY <1>3
  <2> DEFINE r == [hand[h] EXCEPT !.dir = x, !.left = Tail(hand[h].left),
                                  !.pc = IF hand[h].pc = "made" THEN "prepare" ELSE hand[h].pc]
  <2>2. hand' = [hand EXCEPT ![h] = r]
    BY <1>1, <2>1
  <2>3. x \in Nodes /\ x \in Nat /\ tree[x].kind = "folder"
    BY <1>1, <2>1, TreeFacts DEF At, IsFolder
  <2>4. Tail(hand[h].left) \in Seq(Spelt)
    BY <1>1, HandFields
  <2>5. /\ r \in HandRecs /\ r.pc = (IF hand[h].pc = "made" THEN "prepare" ELSE hand[h].pc)
        /\ r.order = hand[h].order /\ r.dir = x /\ r.from = hand[h].from
        /\ r.src = hand[h].src /\ r.frames = hand[h].frames
    <3>1. "prepare" \in HandPcs
      BY DEF HandPcs
    <3> QED BY <1>1, <2>3, <2>4, <3>1, HandFields DEF HandRecs
  <2> HIDE DEF r
  <2>6. OthersRest(h) /\ hand'[h] = r
    BY <1>1, <2>2, <2>5, HandBecomes
  <2>7. HandFits(h)'
    <3>1. Nodes' = Nodes
      BY <1>1, TreeSame
    <3> QED BY <1>1, <2>3, <2>5, <2>6, <3>1 DEF HandFits, FolderAt, Renaming
  <2>8. h \notin raced' /\ hand'[h].pc \in Renaming => Undisturbed(h)'
    <3> SUFFICES ASSUME h \notin raced', hand'[h].pc \in Renaming PROVE Undisturbed(h)'
      OBVIOUS
    <3>1. TreeOK' /\ Nodes' = Nodes
      BY <1>1, TreeSame
    <3>2. h \notin raced
      BY <3>1, Watched DEF FoldersInv
    <3>3. Source(h)' = Source(h)
      BY <1>1, <2>5, <2>6, <3>1 DEF Source, At, Key
    <3>4. hand'[h].pc = "walkTo"
      BY <1>1, <2>5, <2>6 DEF Renaming
    <3> QED BY <1>1, <2>5, <2>6, <3>2, <3>3, <3>4 DEF Undisturbed
  <2>9. hand'[h].pc # "empty"
    BY <1>1, <2>5, <2>6
  <2> QED BY <1>1, <2>6, <2>7, <2>8, <2>9, QuietHandKeeps
<1> QED BY <1>2, <1>3 DEF Walk

LEMMA StartPutKeeps ==
    ASSUME FoldersInv, NEW h \in Hands, StartPut(h), Watch(h)
    PROVE  FoldersInv'
<1>1. /\ hand[h].pc = "prepare" /\ UNCHANGED <<tree, nonce, orders, strays>> /\ HandFits(h)
      /\ hand \in [Hands -> HandRecs] /\ TreeOK /\ orders' \in 0 .. MaxOrders
      /\ hand[h].order \in Orders
  BY DEF FoldersInv, StartPut, HandAt, HandFits
<1> DEFINE r == [hand[h] EXCEPT !.pc = "walk", !.dir = Root, !.left = hand[h].order.path]
<1>2. hand' = [hand EXCEPT ![h] = r]
  BY DEF StartPut
<1>3. /\ r \in HandRecs /\ r.pc = "walk" /\ r.order = hand[h].order /\ r.dir = Root
      /\ r.from = hand[h].from /\ r.frames = hand[h].frames
  <2>1. "walk" \in HandPcs /\ Root \in Nat
    BY DEF HandPcs, Root
  <2> QED BY <1>1, <2>1, HandFields, OrderFields DEF HandRecs
<1> HIDE DEF r
<1>4. OthersRest(h) /\ hand'[h] = r
  BY <1>1, <1>2, <1>3, HandBecomes
<1>5. Nodes' = Nodes
  BY <1>1, TreeSame
<1>6. HandFits(h)' /\ hand'[h].pc \notin Renaming /\ hand'[h].pc # "empty"
  BY <1>1, <1>3, <1>4, <1>5 DEF HandFits, FolderAt, Renaming
<1> QED BY <1>1, <1>4, <1>6, QuietHandKeeps

LEMMA FindEntryKeeps ==
    ASSUME FoldersInv, NEW h \in Hands, FindEntry(h), Watch(h)
    PROVE  FoldersInv'
<1>1. /\ hand[h].pc = "walk" /\ UNCHANGED <<tree, nonce, orders, strays>> /\ HandFits(h)
      /\ hand \in [Hands -> HandRecs] /\ TreeOK /\ orders' \in 0 .. MaxOrders
      /\ To(h, "delete")
  BY DEF FoldersInv, FindEntry, Arrived, HandAt
<1>2. /\ OthersRest(h) /\ hand'[h].pc = "delete"
      /\ hand'[h].order = hand[h].order /\ hand'[h].dir = hand[h].dir
      /\ hand'[h].from = hand[h].from /\ hand'[h].frames = hand[h].frames
  BY <1>1, ToGoes DEF HandPcs
<1>3. Nodes' = Nodes
  BY <1>1, TreeSame
<1>4. HandFits(h)' /\ hand'[h].pc \notin Renaming
  BY <1>1, <1>2, <1>3 DEF HandFits, FolderAt, Renaming
<1> QED BY <1>1, <1>2, <1>4, QuietHandKeeps

LEMMA HoldSourceKeeps ==
    ASSUME FoldersInv, NEW h \in Hands, HoldSource(h), Watch(h)
    PROVE  FoldersInv'
<1>1. /\ hand[h].pc = "walk" /\ UNCHANGED <<tree, nonce, orders, strays>> /\ HandFits(h)
      /\ hand \in [Hands -> HandRecs] /\ TreeOK /\ orders' \in 0 .. MaxOrders
      /\ hand[h].order \in Orders /\ hand[h].order.kind = "rename"
  BY DEF FoldersInv, HoldSource, Arrived, HandAt, HandFits
<1>2. CASE Release(h)
  BY <1>1, <1>2, QuietEnd
<1>3. CASE \E x \in {y \in At(hand[h].dir, hand[h].order.name) : tree[y].kind # "link"} :
              hand' = [hand EXCEPT ![h].pc = "walkTo", ![h].from = hand[h].dir, ![h].src = x,
                                   ![h].dir = Root, ![h].left = hand[h].order.toPath]
  <2>1. PICK x \in At(hand[h].dir, hand[h].order.name) :
              hand' = [hand EXCEPT ![h].pc = "walkTo", ![h].from = hand[h].dir, ![h].src = x,
                                   ![h].dir = Root, ![h].left = hand[h].order.toPath]
    BY <1>3
  <2> DEFINE r == [hand[h] EXCEPT !.pc = "walkTo", !.from = hand[h].dir, !.src = x, !.dir = Root,
                                  !.left = hand[h].order.toPath]
  <2>2. hand' = [hand EXCEPT ![h] = r]
    BY <1>1, <2>1
  <2>3. x \in Nodes /\ x \in Nat
    BY <1>1, <2>1, TreeFacts DEF At
  <2>4. /\ r \in HandRecs /\ r.pc = "walkTo" /\ r.order = hand[h].order /\ r.dir = Root
        /\ r.from = hand[h].dir /\ r.src = x /\ r.frames = hand[h].frames
    <3>1. "walkTo" \in HandPcs /\ Root \in Nat
      BY DEF HandPcs, Renaming, Root
    <3> QED BY <1>1, <2>3, <3>1, HandFields, OrderFields DEF HandRecs
  <2> HIDE DEF r
  <2>5. OthersRest(h) /\ hand'[h] = r
    BY <1>1, <2>2, <2>4, HandBecomes
  <2>6. Nodes' = Nodes /\ TreeOK'
    BY <1>1, TreeSame
  <2>7. HandFits(h)'
    BY <1>1, <2>3, <2>4, <2>5, <2>6 DEF HandFits, FolderAt, Renaming
  <2>8. Undisturbed(h)'
    <3>1. Source(h)' = {x}
      <4>1. \A y \in At(hand[h].dir, hand[h].order.name) : y = x
        BY <1>1, <2>1, TreeFacts DEF At, TreeOK, OneKey, FolderAt, HandFits
      <4>2. Source(h)' = At(hand[h].dir, hand[h].order.name)
        BY <1>1, <2>4, <2>5, <2>6 DEF Source, At, Key
      <4> QED BY <2>1, <4>1, <4>2
    <3> QED BY <2>4, <2>5, <3>1 DEF Undisturbed
  <2>9. hand'[h].pc # "empty"
    BY <2>4, <2>5
  <2> QED BY <1>1, <2>5, <2>7, <2>8, <2>9, QuietHandKeeps
<1> QED BY <1>2, <1>3 DEF HoldSource

LEMMA CompareKeeps ==
    ASSUME FoldersInv, NEW h \in Hands, Compare(h), Watch(h)
    PROVE  FoldersInv'
<1>1. /\ hand[h].pc = "walkTo" /\ UNCHANGED <<tree, nonce, orders, strays>> /\ HandFits(h)
      /\ hand \in [Hands -> HandRecs] /\ TreeOK /\ orders' \in 0 .. MaxOrders
      /\ hand[h].order \in Orders /\ Undisturbed(h)
  BY DEF FoldersInv, Compare, Arrived, HandAt, HandFits
<1>2. PICK pc \in {"aside", "move"} :
         /\ To(h, pc)
         /\ pc = "aside" => hand[h].dir = hand[h].from /\ Target(h) = {hand[h].src}
  BY DEF Compare, Target
<1>3. /\ OthersRest(h) /\ hand'[h].pc = pc
      /\ hand'[h].order = hand[h].order /\ hand'[h].dir = hand[h].dir
      /\ hand'[h].from = hand[h].from /\ hand'[h].frames = hand[h].frames
      /\ hand'[h].src = hand[h].src
  BY <1>1, <1>2, ToGoes DEF HandPcs, Renaming
<1>4. Nodes' = Nodes /\ TreeOK'
  BY <1>1, TreeSame
<1>5. HandFits(h)' /\ hand'[h].pc # "empty"
  BY <1>1, <1>2, <1>3, <1>4 DEF HandFits, FolderAt, Renaming
<1>6. h \notin raced' /\ hand'[h].pc \in Renaming => Undisturbed(h)'
  <2> SUFFICES ASSUME h \notin raced', hand'[h].pc \in Renaming PROVE Undisturbed(h)'
    OBVIOUS
  <2>1. h \notin raced
    BY <1>4, Watched DEF FoldersInv
  <2>2. Source(h)' = Source(h) /\ Target(h)' = Target(h)
    BY <1>1, <1>3, <1>4 DEF Source, Target, At, Key
  <2> QED BY <1>1, <1>2, <1>3, <2>1, <2>2 DEF Undisturbed
<1> QED BY <1>1, <1>3, <1>5, <1>6, QuietHandKeeps

-----------------------------------------------------------------------------
(* Folders: steps that add an entry *)

\* An entry that is added has the name of an order.
LEMMA AddedKeeps ==
    ASSUME FoldersInv, NEW kind \in {"file", "folder", "link"}, NEW d, NEW n \in Spelt,
           NEW own \in BOOLEAN, FolderAt(d), Stands(d), At(d, n) = {}, Len(tree) < MaxNodes,
           Added(kind, d, n, own), NEW h \in Hands, OthersRest(h), UNCHANGED strays,
           hand[h].pc \notin {"back", "rollback"}
    PROVE  /\ TreeOK' /\ Grown /\ HiddenHasReason' /\ strays' \subseteq Nodes'
           /\ Nodes' = Nodes \cup {Len(tree) + 1} /\ Len(tree) + 1 \notin Nodes
           /\ \A y \in Nodes : tree'[y] = tree[y]
           /\ tree'[Len(tree) + 1] = Node(kind, d, n, own)
<1>1. n \in EntryNames /\ TreeOK /\ strays \subseteq Nodes
  BY DEF EntryNames, FoldersInv
<1>2. /\ TreeOK' /\ Nodes' = Nodes \cup {Len(tree) + 1} /\ Len(tree) + 1 \notin Nodes
      /\ \A y \in Nodes : tree'[y] = tree[y]
      /\ tree'[Len(tree) + 1] = Node(kind, d, n, own)
  BY <1>1, AddedTree
<1>3. Grown
  BY <1>2 DEF Grown
<1>4. HiddenHasReason'
  <2>1. Node(kind, d, n, own).name \in Spelt
    BY DEF Node
  <2> QED BY <1>2, <2>1, ReasonsKept
<1> QED BY <1>1, <1>2, <1>3, <1>4

LEMMA MakeWayKeeps ==
    ASSUME FoldersInv, NEW h \in Hands, MakeWay(h), Watch(h)
    PROVE  FoldersInv'
<1>1. /\ hand[h].pc = "prepare" /\ UNCHANGED <<nonce, orders, strays>> /\ HandFits(h)
      /\ hand \in [Hands -> HandRecs] /\ orders' \in 0 .. MaxOrders
      /\ To(h, "made") /\ hand[h].left # <<>> /\ nonce' \in 0 .. MaxNonce /\ nonce <= nonce'
  BY FoldersAssumption DEF FoldersInv, MakeWay, HandAt
<1>2. /\ OthersRest(h) /\ hand'[h].pc = "made"
      /\ hand'[h].order = hand[h].order /\ hand'[h].dir = hand[h].dir
      /\ hand'[h].from = hand[h].from /\ hand'[h].frames = hand[h].frames
  BY <1>1, ToGoes DEF HandPcs
<1>3. Head(hand[h].left) \in Spelt
  BY <1>1, HandFields
<1>4. TreeOK' /\ Grown /\ HiddenHasReason' /\ strays' \subseteq Nodes'
  BY <1>1, <1>2, <1>3, AddedKeeps DEF MakeWay, HandFits
<1>5. HandFits(h)' /\ hand'[h].pc \notin Renaming
  BY <1>1, <1>2, <1>4 DEF HandFits, FolderAt, Renaming, Grown
<1> QED BY <1>1, <1>2, <1>4, <1>5, HandStepKeeps

LEMMA CreateKeeps ==
    ASSUME FoldersInv, NEW h \in Hands, Create(h), Watch(h)
    PROVE  FoldersInv'
<1>1. /\ hand[h].pc = "walk" /\ UNCHANGED <<nonce, orders, strays>> /\ HandFits(h)
      /\ hand[h].order \in Orders /\ Release(h)
  BY DEF FoldersInv, Create, Arrived, HandAt, HandFits
<1>2. CASE UNCHANGED tree
  BY <1>1, <1>2, QuietEnd
<1>3. CASE /\ Stands(hand[h].dir) /\ At(hand[h].dir, hand[h].order.name) = {}
           /\ Len(tree) < MaxNodes
           /\ Added(IF hand[h].order.kind = "mkdir" THEN "folder" ELSE "file", hand[h].dir,
                    hand[h].order.name, FALSE)
  <2>1. OthersRest(h)
    BY <1>1, ReleaseGoes DEF FoldersInv
  <2>2. hand[h].order.name \in Spelt
    BY <1>1, OrderFields
  <2>3. TreeOK' /\ Grown /\ HiddenHasReason' /\ strays' \subseteq Nodes'
    <3> DEFINE kind == IF hand[h].order.kind = "mkdir" THEN "folder" ELSE "file"
    <3>1. kind \in {"file", "folder", "link"}
      OBVIOUS
    <3> HIDE DEF kind
    <3>2. Added(kind, hand[h].dir, hand[h].order.name, FALSE)
      BY <1>3 DEF kind
    <3> QED BY <1>1, <1>3, <2>1, <2>2, <3>1, <3>2, AddedKeeps DEF HandFits
  <2> QED BY <1>1, <2>3, ReleaseKeeps
<1> QED BY <1>2, <1>3 DEF Create

LEMMA HoldKeeps ==
    ASSUME FoldersInv, NEW h \in Hands, Hold(h), Watch(h)
    PROVE  FoldersInv'
<1>1. /\ hand[h].pc = "move" /\ UNCHANGED <<nonce, orders, strays>> /\ HandFits(h)
      /\ hand \in [Hands -> HandRecs] /\ TreeOK /\ orders' \in 0 .. MaxOrders
      /\ hand[h].order \in Orders /\ Undisturbed(h) /\ nonce' \in 0 .. MaxNonce /\ nonce <= nonce'
      /\ To(h, "over") /\ Stands(hand[h].dir) /\ Target(h) = {} /\ hand[h].src \in Nodes
      /\ Len(tree) < MaxNodes
      /\ Added(tree[hand[h].src].kind, hand[h].dir, hand[h].order.toName, TRUE)
  <2>1. hand[h].pc = "move" /\ HandFits(h)
    BY DEF FoldersInv, Hold, HandAt
  <2>2. hand[h].order \in Orders /\ hand[h].src \in Nodes
    BY <2>1 DEF HandFits, Renaming
  <2>3. nonce' \in 0 .. MaxNonce /\ nonce <= nonce'
    BY FoldersAssumption DEF FoldersInv, Hold
  <2> QED BY <2>1, <2>2, <2>3 DEF FoldersInv, Hold, Target
<1>2. /\ OthersRest(h) /\ hand'[h].pc = "over"
      /\ hand'[h].order = hand[h].order /\ hand'[h].dir = hand[h].dir
      /\ hand'[h].from = hand[h].from /\ hand'[h].frames = hand[h].frames
      /\ hand'[h].src = hand[h].src
  BY <1>1, ToGoes DEF HandPcs, Renaming
<1>3. /\ TreeOK' /\ Grown /\ HiddenHasReason' /\ strays' \subseteq Nodes'
      /\ Nodes' = Nodes \cup {Len(tree) + 1} /\ Len(tree) + 1 \notin Nodes
      /\ \A y \in Nodes : tree'[y] = tree[y]
      /\ tree'[Len(tree) + 1] = Node(tree[hand[h].src].kind, hand[h].dir, hand[h].order.toName, TRUE)
  <2>1. hand[h].order.toName \in Spelt /\ tree[hand[h].src].kind \in {"file", "folder", "link"}
    BY <1>1, OrderFields, TreeFacts
  <2> QED BY <1>1, <1>2, <2>1, AddedKeeps DEF HandFits, Target
<1>4. HandFits(h)' /\ hand'[h].pc # "empty"
  BY <1>1, <1>2, <1>3 DEF HandFits, FolderAt, Renaming, Grown
<1>5. h \notin raced' /\ hand'[h].pc \in Renaming => Undisturbed(h)'
  <2> SUFFICES ASSUME h \notin raced', hand'[h].pc \in Renaming PROVE Undisturbed(h)'
    OBVIOUS
  <2>1. h \notin raced
    BY <1>3, Watched DEF FoldersInv
  <2>2. Source(h) = {hand[h].src}
    BY <1>1, <2>1 DEF Undisturbed
  <2> DEFINE new == Len(tree) + 1
  <2>3. /\ tree'[new].in = hand[h].dir /\ tree'[new].name = hand[h].order.toName
        /\ tree'[new].blank = TRUE
    BY <1>3 DEF Node
  <2> HIDE DEF new
  <2>4. Nodes' = Nodes \cup {new} /\ new \notin Nodes /\ \A y \in Nodes : tree'[y] = tree[y]
    BY <1>3 DEF new
  <2>5. \A y \in Nodes : y \in Target(h)' <=> y \in Target(h)
    BY <1>2, <2>4 DEF Target, At, Key
  <2>6. \A y \in Target(h)' : tree'[y].blank
    BY <1>1, <2>3, <2>4, <2>5 DEF Target, At
  <2>7. \A y \in Nodes : y \in Source(h)' <=> y \in Source(h)
    BY <1>2, <2>4 DEF Source, At, Key
  <2>8. new \notin Source(h)'
    <3> SUFFICES ASSUME new \in Source(h)' PROVE FALSE
      OBVIOUS
    <3>1. hand[h].from = hand[h].dir /\ Key(hand[h].order.name) = Key(hand[h].order.toName)
      BY <1>2, <2>3 DEF Source, At, Key
    <3>2. Source(h) = Target(h)
      BY <3>1 DEF Source, Target, At
    <3> QED BY <1>1, <2>2, <3>2
  <2>9. Source(h)' = {hand'[h].src}
    <3>1. Source(h)' \subseteq Nodes \cup {new} /\ Source(h) \subseteq Nodes
      BY <2>4 DEF Source, At
    <3> QED BY <1>2, <2>2, <2>7, <2>8, <3>1
  <2> QED BY <1>2, <2>6, <2>9 DEF Undisturbed
<1> QED BY <1>1, <1>2, <1>3, <1>4, <1>5, HandStepKeeps

-----------------------------------------------------------------------------
(* Folders: steps that move an entry *)

LEMMA KeySpelt ==
    /\ \A n \in Spelt : Key(n) \in Spelt
    /\ \A n \in Spelt, k \in 0 .. MaxNonce, j \in 1 .. Attempts :
          Hidden(n, j)[1] = n /\ <<n, k, j>> \notin Spelt /\ Key(<<n, k, j>>) = <<n, k, j>>
BY FoldersAssumption DEF Key, Hidden

\* What is moved is alone under its name.
LEMMA MovedAlone ==
    ASSUME FoldersInv, NEW x \in Nodes, NEW d, NEW n \in EntryNames, FolderAt(d), MayMove(x, d, n),
           Moving(x, d, n)
    PROVE  /\ TreeOK' /\ Nodes' = Nodes /\ Grown
           /\ tree'[x].in = d /\ tree'[x].name = n /\ d # Gone
           /\ \A y \in Nodes \ {x} :
                 /\ tree'[y].name = tree[y].name
                 /\ tree'[y].in = IF y \in At(d, n) THEN Gone ELSE tree[y].in
           /\ \A y : y \in Nodes /\ tree'[y].in = d /\ Key(tree'[y].name) = Key(n) <=> y = x
<1>1. /\ TreeOK' /\ Nodes' = Nodes
      /\ tree'[x].in = d /\ tree'[x].name = n
      /\ \A y \in Nodes : tree'[y].kind = tree[y].kind /\ tree'[y].blank = tree[y].blank
      /\ \A y \in Nodes \ {x} :
            /\ tree'[y].name = tree[y].name
            /\ tree'[y].in = IF y \in At(d, n) THEN Gone ELSE tree[y].in
  BY MovedTree DEF FoldersInv
<1>2. Grown
  BY <1>1 DEF Grown
<1>3. d # Gone
  BY TreeFacts DEF FoldersInv, FolderAt
<1>4. \A y \in Nodes \ {x} : ~(tree'[y].in = d /\ Key(tree'[y].name) = Key(n))
  <2> SUFFICES ASSUME NEW y \in Nodes \ {x}, tree'[y].in = d, Key(tree'[y].name) = Key(n)
               PROVE  FALSE
    OBVIOUS
  <2>1. y \notin At(d, n) /\ tree[y].in = d /\ Key(tree[y].name) = Key(n)
    BY <1>1, <1>3
  <2> QED BY <2>1, AtFacts
<1> QED BY <1>1, <1>2, <1>3, <1>4

LEMMA MovedReasons ==
    ASSUME FoldersInv, NEW x \in Nodes, NEW d, NEW n \in Spelt, FolderAt(d), MayMove(x, d, n),
           Moving(x, d, n), NEW h \in Hands, OthersRest(h), UNCHANGED strays,
           hand[h].pc \in {"back", "rollback"} => x \in Aside(h)
    PROVE  HiddenHasReason' /\ strays' \subseteq Nodes'
<1>1. /\ Nodes' = Nodes /\ tree'[x].name = n
      /\ \A y \in Nodes \ {x} :
                 /\ tree'[y].name = tree[y].name
                 /\ tree'[y].in = IF y \in At(d, n) THEN Gone ELSE tree[y].in
  BY MovedAlone DEF EntryNames
<1>2. \A y \in Nodes \ {x} : ~(hand[h].pc \in {"back", "rollback"} /\ y \in Aside(h))
  <2> SUFFICES ASSUME NEW y \in Nodes \ {x}, hand[h].pc \in {"back", "rollback"}, y \in Aside(h)
               PROVE  FALSE
    OBVIOUS
  <2>1. x \in Aside(h)
    OBVIOUS
  <2>2. /\ tree[x].in = hand[h].dir /\ tree[y].in = hand[h].dir
        /\ Key(tree[x].name) = Key(tree[y].name)
    BY <2>1 DEF Aside, At
  <2>3. hand[h].dir # Gone
    BY HandFields, TreeFacts DEF FoldersInv, Gone
  <2> QED BY <2>2, <2>3 DEF FoldersInv, TreeOK, OneKey
<1>3. HiddenHasReason'
  BY <1>1, <1>2, ReasonsKept
<1> QED BY <1>1, <1>3 DEF FoldersInv

LEMMA NonceKept ==
    ASSUME FoldersInv, UNCHANGED <<nonce, orders>>
    PROVE  nonce' \in 0 .. MaxNonce /\ nonce <= nonce' /\ orders' \in 0 .. MaxOrders
BY FoldersAssumption DEF FoldersInv

\* A rename that has moved something to its new name.
LEMMA ToVerifyKeeps ==
    ASSUME FoldersInv, NEW h \in Hands, hand[h].pc \in {"move", "over"}, NEW x \in Source(h),
           MayMove(x, hand[h].dir, hand[h].order.toName),
           Moving(x, hand[h].dir, hand[h].order.toName),
           To(h, "verify"), UNCHANGED <<nonce, orders, strays>>, Watch(h)
    PROVE  FoldersInv'
<1>1. /\ HandFits(h) /\ Undisturbed(h) /\ hand \in [Hands -> HandRecs] /\ x \in Nodes
      /\ hand[h].order \in Orders
  BY DEF FoldersInv, HandFits, Source, At
<1>2. hand[h].order.toName \in Spelt /\ hand[h].order.toName \in EntryNames /\ FolderAt(hand[h].dir)
  BY <1>1, OrderFields DEF EntryNames, HandFits
<1>3. /\ OthersRest(h) /\ hand'[h].pc = "verify"
      /\ hand'[h].order = hand[h].order /\ hand'[h].dir = hand[h].dir
      /\ hand'[h].from = hand[h].from /\ hand'[h].frames = hand[h].frames
      /\ hand'[h].src = hand[h].src
  BY <1>1, ToGoes DEF HandPcs, Renaming
<1>4. /\ TreeOK' /\ Grown /\ Nodes' = Nodes
      /\ \A y : y \in Nodes /\ tree'[y].in = hand[h].dir
                   /\ Key(tree'[y].name) = Key(hand[h].order.toName) <=> y = x
  BY <1>1, <1>2, MovedAlone
<1>5. HiddenHasReason' /\ strays' \subseteq Nodes'
  BY <1>1, <1>2, <1>3, MovedReasons
<1>6. HandFits(h)' /\ hand'[h].pc # "empty"
  BY <1>1, <1>3, <1>4 DEF HandFits, FolderAt, Renaming, Grown
<1>7. h \notin raced' /\ hand'[h].pc \in Renaming => Undisturbed(h)'
  <2> SUFFICES ASSUME h \notin raced', hand'[h].pc \in Renaming PROVE Undisturbed(h)'
    OBVIOUS
  <2>1. h \notin raced
    BY <1>4, Watched DEF FoldersInv
  <2>2. x = hand[h].src
    BY <1>1, <2>1 DEF Undisturbed
  <2>3. \A y : y \in Target(h)' <=> y = x
    BY <1>3, <1>4 DEF Target, At, Key
  <2> QED BY <1>3, <2>2, <2>3 DEF Undisturbed
<1>8. nonce' \in 0 .. MaxNonce /\ nonce <= nonce' /\ orders' \in 0 .. MaxOrders
  BY NonceKept
<1> QED BY <1>3, <1>4, <1>5, <1>6, <1>7, <1>8, HandStepKeeps

LEMMA MoveFreeKeeps ==
    ASSUME FoldersInv, NEW h \in Hands, MoveFree(h), Watch(h)
    PROVE  FoldersInv'
<1>1. PICK x \in Source(h) : /\ MayMove(x, hand[h].dir, hand[h].order.toName)
                             /\ Moving(x, hand[h].dir, hand[h].order.toName)
  BY DEF MoveFree
<1>2. hand[h].pc = "move" /\ To(h, "verify") /\ UNCHANGED <<nonce, orders, strays>>
  BY DEF MoveFree, HandAt
<1> QED BY <1>1, <1>2, ToVerifyKeeps

\* What goes when a failed or a mistaken move is cleaned up is of the kind that
\* can be removed.
LEMMA CutKeeps ==
    ASSUME FoldersInv, NEW h \in Hands, OthersRest(h), NEW X \in SUBSET Nodes, tree' = Without(X),
           \A y \in X : IsFolder(y) => Children(y) = {}, UNCHANGED strays,
           hand[h].pc \notin {"back", "rollback"}
    PROVE  /\ TreeOK' /\ Grown /\ HiddenHasReason' /\ strays' \subseteq Nodes' /\ Nodes' = Nodes
           /\ \A y \in Nodes : /\ tree'[y].name = tree[y].name
                               /\ tree'[y].in = IF y \in X THEN Gone ELSE tree[y].in
<1>1. /\ TreeOK' /\ Nodes' = Nodes
      /\ \A y \in Nodes : /\ tree'[y].kind = tree[y].kind /\ tree'[y].blank = tree[y].blank
                          /\ tree'[y].name = tree[y].name
                          /\ tree'[y].in = IF y \in X THEN Gone ELSE tree[y].in
  BY CutTree DEF FoldersInv
<1>2. Grown
  BY <1>1 DEF Grown
<1>3. HiddenHasReason'
  BY <1>1, ReasonsKept
<1> QED BY <1>1, <1>2, <1>3 DEF FoldersInv

LEMMA RemovableFacts ==
    ASSUME NEW d, NEW n, NEW folder
    PROVE  /\ Removable(d, n, folder) \in SUBSET Nodes
           /\ \A y \in Removable(d, n, folder) :
                 y \in At(d, n) /\ IsFolder(y) = folder /\ (IsFolder(y) => Children(y) = {})
BY DEF Removable, At

LEMMA HandCleanupKeeps ==
    ASSUME FoldersInv, NEW h \in Hands, Cleanup(h), Release(h), UNCHANGED <<nonce, orders, strays>>,
           hand[h].pc \in {"over", "verify"}, Watch(h)
    PROVE  FoldersInv'
<1>1. OthersRest(h)
  BY ReleaseGoes DEF FoldersInv
<1> DEFINE X == Removable(hand[h].dir, hand[h].order.toName, IsFolder(hand[h].src))
<1>2. X \in SUBSET Nodes /\ tree' = Without(X) /\ \A y \in X : IsFolder(y) => Children(y) = {}
  BY RemovableFacts DEF Cleanup
<1> HIDE DEF X
<1>3. TreeOK' /\ Grown /\ HiddenHasReason' /\ strays' \subseteq Nodes'
  BY <1>1, <1>2, CutKeeps
<1> QED BY <1>3, ReleaseKeeps

LEMMA MoveOntoKeeps ==
    ASSUME FoldersInv, NEW h \in Hands, MoveOnto(h), Watch(h)
    PROVE  FoldersInv'
<1>1. hand[h].pc = "over" /\ UNCHANGED <<nonce, orders, strays>>
  BY DEF MoveOnto, HandAt
<1>2. CASE Cleanup(h) /\ Release(h)
  BY <1>1, <1>2, HandCleanupKeeps
<1>3. CASE /\ \E x \in Source(h) : /\ MayMove(x, hand[h].dir, hand[h].order.toName)
                                   /\ Moving(x, hand[h].dir, hand[h].order.toName)
           /\ To(h, "verify")
  <2>1. PICK x \in Source(h) : /\ MayMove(x, hand[h].dir, hand[h].order.toName)
                               /\ Moving(x, hand[h].dir, hand[h].order.toName)
    BY <1>3
  <2> QED BY <1>1, <1>3, <2>1, ToVerifyKeeps
<1> QED BY <1>2, <1>3 DEF MoveOnto

LEMMA ConfirmKeeps ==
    ASSUME FoldersInv, NEW h \in Hands, Confirm(h), Watch(h)
    PROVE  FoldersInv'
<1>1. hand[h].pc = "verify" /\ UNCHANGED <<nonce, orders, strays>> /\ Release(h)
  BY DEF Confirm, HandAt
<1>2. CASE UNCHANGED tree
  BY <1>1, <1>2, QuietEnd
<1>3. CASE Cleanup(h)
  BY <1>1, <1>3, HandCleanupKeeps
<1> QED BY <1>2, <1>3 DEF Confirm

LEMMA SetAsideKeeps ==
    ASSUME FoldersInv, NEW h \in Hands, SetAside(h), Watch(h)
    PROVE  FoldersInv'
<1>1. /\ hand[h].pc = "aside" /\ nonce < MaxNonce /\ nonce' = nonce + 1
      /\ UNCHANGED <<orders, strays>> /\ HandFits(h) /\ Undisturbed(h)
      /\ hand \in [Hands -> HandRecs] /\ TreeOK /\ nonce \in 0 .. MaxNonce
      /\ orders' \in 0 .. MaxOrders
  BY DEF FoldersInv, SetAside, HandAt
<1>2. /\ hand[h].order \in Orders /\ hand[h].order.toName \in Spelt /\ hand[h].order.name \in Spelt
      /\ hand[h].dir = hand[h].from /\ FolderAt(hand[h].dir)
  BY <1>1, OrderFields DEF HandFits
<1>3. PICK x \in Source(h), k \in 1 .. Attempts :
         /\ MayMove(x, hand[h].dir, Hidden(hand[h].order.toName, k))
         /\ Moving(x, hand[h].dir, Hidden(hand[h].order.toName, k))
         /\ hand' = [hand EXCEPT ![h].pc = "back",
                                 ![h].hidden = Hidden(hand[h].order.toName, k)]
  BY DEF SetAside
<1> DEFINE name == Hidden(hand[h].order.toName, k)
           r == [hand[h] EXCEPT !.pc = "back", !.hidden = name]
<1>4. /\ x \in Nodes /\ nonce \in Nat /\ nonce' \in 0 .. MaxNonce /\ nonce <= nonce' /\ k \in Nat
      /\ nonce \in 0 .. nonce' - 1
  <2>1. x \in Nodes
    BY DEF Source, At
  <2>2. MaxNonce \in Nat /\ Attempts \in Nat
    BY FoldersAssumption
  <2> QED BY <1>1, <2>1, <2>2
<1>5. /\ name \in Spelt \X Nat \X Nat /\ name \in EntryNames /\ name \notin Spelt /\ Key(name) = name
      /\ name \in Spelt \X (0 .. nonce' - 1) \X (1 .. Attempts)
  <2>1. name = <<hand[h].order.toName, nonce, k>>
    BY DEF Hidden
  <2>2. name \in Spelt \X Nat \X Nat /\ name \in Spelt \X (0 .. nonce' - 1) \X (1 .. Attempts)
    <3>1. PICK n \in Spelt, i \in 0 .. nonce' - 1 : n = hand[h].order.toName /\ i = nonce /\ i \in Nat
      BY <1>2, <1>4
    <3>2. <<n, i, k>> \in Spelt \X Nat \X Nat /\ <<n, i, k>> \in Spelt \X (0 .. nonce' - 1) \X (1 .. Attempts)
      BY <1>4, <3>1
    <3> QED BY <2>1, <3>1, <3>2
  <2>3. <<hand[h].order.toName, nonce, k>> \notin Spelt
    BY <1>1, <1>2, KeySpelt
  <2> QED BY <2>1, <2>2, <2>3 DEF EntryNames, Key
<1>6. hand' = [hand EXCEPT ![h] = r]
  BY <1>1, <1>3
<1> HIDE DEF name
<1>7. /\ r \in HandRecs /\ r.pc = "back" /\ r.hidden = name /\ r.order = hand[h].order
      /\ r.dir = hand[h].dir /\ r.from = hand[h].from /\ r.src = hand[h].src
      /\ r.frames = hand[h].frames
  <2>1. "back" \in HandPcs
    BY DEF HandPcs, Renaming
  <2> QED BY <1>1, <1>5, <2>1, HandFields DEF HandRecs
<1> HIDE DEF r
<1>8. OthersRest(h) /\ hand'[h] = r
  BY <1>1, <1>6, <1>7, HandBecomes
<1>9. MayMove(x, hand[h].dir, name) /\ Moving(x, hand[h].dir, name)
  BY <1>3 DEF name
<1>10. /\ TreeOK' /\ Grown /\ Nodes' = Nodes /\ hand[h].dir # Gone
       /\ tree'[x].in = hand[h].dir /\ tree'[x].name = name
       /\ \A y \in Nodes \ {x} :
             /\ tree'[y].name = tree[y].name
             /\ tree'[y].in = IF y \in At(hand[h].dir, name) THEN Gone ELSE tree[y].in
  BY <1>2, <1>4, <1>5, <1>9, MovedAlone
<1>11. HiddenHasReason' /\ strays' \subseteq Nodes'
  <2>1. x \in Aside(h)'
    BY <1>4, <1>7, <1>8, <1>10 DEF Aside, At
  <2>2. HiddenHasReason'
    BY <1>1, <1>7, <1>8, <1>10, <2>1, ReasonsKept
  <2> QED BY <1>1, <1>10, <2>2 DEF FoldersInv
<1>12. HandFits(h)' /\ hand'[h].pc # "empty"
  BY <1>1, <1>2, <1>5, <1>7, <1>8, <1>10 DEF HandFits, FolderAt, Renaming, Grown
<1>13. h \notin raced' /\ hand'[h].pc \in Renaming => Undisturbed(h)'
  <2> SUFFICES ASSUME h \notin raced', hand'[h].pc \in Renaming PROVE Undisturbed(h)'
    OBVIOUS
  <2>1. h \notin raced
    BY <1>10, Watched DEF FoldersInv
  <2>2. Source(h) = {x} /\ Target(h) = {x}
    BY <1>1, <2>1 DEF Undisturbed
  <2>3. \A n \in Spelt : \A y \in Nodes :
           tree'[y].in = hand[h].dir /\ Key(tree'[y].name) = Key(n) => y # x /\ y \in At(hand[h].dir, n)
    <3> SUFFICES ASSUME NEW n \in Spelt, NEW y \in Nodes, tree'[y].in = hand[h].dir,
                        Key(tree'[y].name) = Key(n)
                 PROVE  y # x /\ y \in At(hand[h].dir, n)
      OBVIOUS
    <3>1. y # x
      BY <1>5, <1>10, KeySpelt
    <3>2. tree[y].in = hand[h].dir /\ tree'[y].name = tree[y].name
      BY <1>10, <3>1
    <3> QED BY <3>1, <3>2 DEF At
  <2>4. Source(h)' = {} /\ Target(h)' = {}
    <3>1. \A y : y \in Source(h)' => y \in Nodes /\ tree'[y].in = hand[h].dir
                                     /\ Key(tree'[y].name) = Key(hand[h].order.name)
      BY <1>2, <1>7, <1>8, <1>10 DEF Source, At, Key
    <3>2. \A y : y \in Target(h)' => y \in Nodes /\ tree'[y].in = hand[h].dir
                                     /\ Key(tree'[y].name) = Key(hand[h].order.toName)
      BY <1>7, <1>8, <1>10 DEF Target, At, Key
    <3>3. \A y : y \in Source(h)' => y # x /\ y \in Source(h)
      BY <1>2, <2>3, <3>1 DEF Source
    <3>4. \A y : y \in Target(h)' => y # x /\ y \in Target(h)
      BY <1>2, <2>3, <3>2 DEF Target
    <3> QED BY <2>2, <3>3, <3>4
  <2> QED BY <1>7, <1>8, <2>4 DEF Undisturbed
<1> QED BY <1>1, <1>4, <1>8, <1>10, <1>11, <1>12, <1>13, HandStepKeeps

\* What was aside is given a name that clients write, and the request ends.
LEMMA GivenBack ==
    ASSUME FoldersInv, NEW h \in Hands, hand[h].pc \in {"back", "rollback"}, NEW x \in Aside(h),
           NEW n \in Spelt, MayMove(x, hand[h].dir, n), Moving(x, hand[h].dir, n), Release(h),
           UNCHANGED <<nonce, orders, strays>>, Watch(h)
    PROVE  FoldersInv'
<1>1. x \in Nodes /\ n \in EntryNames /\ FolderAt(hand[h].dir) /\ OthersRest(h)
  BY ReleaseGoes DEF Aside, At, EntryNames, FoldersInv, HandFits
<1>2. TreeOK' /\ Grown
  BY <1>1, MovedAlone
<1>3. HiddenHasReason' /\ strays' \subseteq Nodes'
  BY <1>1, MovedReasons
<1> QED BY <1>2, <1>3, ReleaseKeeps

LEMMA SetBackKeeps ==
    ASSUME FoldersInv, NEW h \in Hands, SetBack(h), Watch(h)
    PROVE  FoldersInv'
<1>1. /\ hand[h].pc = "back" /\ UNCHANGED <<nonce, orders, strays>> /\ HandFits(h) /\ Undisturbed(h)
      /\ hand \in [Hands -> HandRecs] /\ TreeOK
  BY DEF FoldersInv, SetBack, HandAt
<1>2. CASE /\ \E x \in Aside(h) : /\ MayMove(x, hand[h].dir, hand[h].order.toName)
                                  /\ Moving(x, hand[h].dir, hand[h].order.toName)
           /\ Release(h)
  <2>1. PICK x \in Aside(h) : /\ MayMove(x, hand[h].dir, hand[h].order.toName)
                              /\ Moving(x, hand[h].dir, hand[h].order.toName)
    BY <1>2
  <2>2. hand[h].order.toName \in Spelt
    BY <1>1, OrderFields DEF HandFits
  <2> QED BY <1>1, <1>2, <2>1, <2>2, GivenBack
<1>3. CASE To(h, "rollback") /\ UNCHANGED tree
  <2>1. /\ OthersRest(h) /\ hand'[h].pc = "rollback"
        /\ hand'[h].order = hand[h].order /\ hand'[h].dir = hand[h].dir
        /\ hand'[h].from = hand[h].from /\ hand'[h].frames = hand[h].frames
        /\ hand'[h].src = hand[h].src /\ hand'[h].hidden = hand[h].hidden
    BY <1>1, <1>3, ToGoes DEF HandPcs, Renaming
  <2>2. TreeOK' /\ Grown /\ Nodes' = Nodes
    BY <1>1, <1>3, TreeSame
  <2>3. HandFits(h)' /\ hand'[h].pc # "empty"
    BY <1>1, <1>3, <2>1, <2>2 DEF HandFits, FolderAt, Renaming
  <2>4. h \notin raced' /\ hand'[h].pc \in Renaming => Undisturbed(h)'
    <3> SUFFICES ASSUME h \notin raced', hand'[h].pc \in Renaming PROVE Undisturbed(h)'
      OBVIOUS
    <3>1. h \notin raced
      BY <2>2, Watched DEF FoldersInv
    <3>2. Source(h)' = Source(h) /\ Target(h)' = Target(h)
      BY <1>3, <2>1, <2>2 DEF Source, Target, At, Key
    <3> QED BY <1>1, <2>1, <3>1, <3>2 DEF Undisturbed
  <2>5. HiddenHasReason' /\ strays' \subseteq Nodes'
    <3>1. Aside(h)' = Aside(h)
      BY <1>3, <2>1, <2>2 DEF Aside, At, Key
    <3>2. HiddenHasReason'
      BY <1>1, <1>3, <2>1, <2>2, <3>1, ReasonsKept
    <3> QED BY <1>1, <2>2, <3>2 DEF FoldersInv
  <2> QED BY <1>1, <2>1, <2>2, <2>3, <2>4, <2>5, NonceKept, HandStepKeeps
<1> QED BY <1>2, <1>3 DEF SetBack

LEMMA RollbackKeeps ==
    ASSUME FoldersInv, NEW h \in Hands, Rollback(h), Watch(h)
    PROVE  FoldersInv'
<1>1. /\ hand[h].pc = "rollback" /\ UNCHANGED <<nonce, orders>> /\ HandFits(h)
      /\ Release(h) /\ TreeOK
  BY DEF FoldersInv, Rollback, HandAt
<1>2. CASE /\ \E x \in Aside(h) : /\ MayMove(x, hand[h].dir, hand[h].order.name)
                                  /\ Moving(x, hand[h].dir, hand[h].order.name)
           /\ UNCHANGED strays
  <2>1. PICK x \in Aside(h) : /\ MayMove(x, hand[h].dir, hand[h].order.name)
                              /\ Moving(x, hand[h].dir, hand[h].order.name)
    BY <1>2
  <2>2. hand[h].order.name \in Spelt
    BY <1>1, OrderFields DEF HandFits
  <2> QED BY <1>1, <1>2, <2>1, <2>2, GivenBack
<1>3. CASE strays' = strays \cup Aside(h) /\ UNCHANGED tree
  <2>1. OthersRest(h) /\ hand'[h] = FreeHand
    BY <1>1, ReleaseGoes DEF FoldersInv
  <2>2. TreeOK' /\ Grown /\ Nodes' = Nodes
    BY <1>1, <1>3, TreeSame
  <2>3. HiddenHasReason'
    BY <1>3, <2>1, <2>2, ReasonsKept
  <2>4. strays' \subseteq Nodes'
    BY <1>3, <2>2 DEF FoldersInv, Aside, At
  <2> QED BY <1>1, <2>2, <2>3, <2>4, ReleaseKeeps
<1> QED BY <1>2, <1>3 DEF Rollback

-----------------------------------------------------------------------------
(* Folders: steps of a delete *)

\* A frame's folder, and the name it was found by, are below what was named.
InFrame(f, S, o) == f.dir \in S /\ (f.up \in S \/ (f.up = o.dir /\ f.name = o.order.name))

LEMMA FrameList ==
    ASSUME NEW s \in Seq(FrameRecs), s # <<>>
    PROVE  /\ Len(s) \in Nat /\ Len(s) >= 1 /\ Last(s) = s[Len(s)] /\ Last(s) \in FrameRecs
           /\ Front(s) \in Seq(FrameRecs) /\ Len(Front(s)) = Len(s) - 1
           /\ \A i \in 1 .. Len(Front(s)) : Front(s)[i] = s[i] /\ i \in 1 .. Len(s)
<1>1. Len(s) \in Nat /\ Len(s) >= 1
  BY EmptySeq
<1>2. Last(s) = s[Len(s)] /\ s[Len(s)] \in FrameRecs
  BY <1>1 DEF Last
<1>3. Front(s) = SubSeq(s, 1, Len(s) - 1)
  BY DEF Front
<1>4. /\ Front(s) \in Seq(FrameRecs) /\ Len(Front(s)) = Len(s) - 1
      /\ \A i \in 1 .. Len(s) - 1 : Front(s)[i] = s[i]
  <2>1. \A k \in Nat : k <= Len(s) =>
           /\ SubSeq(s, 1, k) \in Seq(FrameRecs) /\ Len(SubSeq(s, 1, k)) = k
           /\ \A i \in 1 .. k : SubSeq(s, 1, k)[i] = s[i]
    BY <1>1
  <2>2. Len(s) - 1 \in Nat /\ Len(s) - 1 <= Len(s)
    BY <1>1
  <2> QED BY <1>3, <2>1, <2>2
<1> QED BY <1>1, <1>2, <1>4

LEMMA FrameAdded ==
    ASSUME NEW s \in Seq(FrameRecs), NEW f \in FrameRecs
    PROVE  /\ Append(s, f) \in Seq(FrameRecs) /\ Append(s, f) # <<>>
           /\ \A i \in 1 .. Len(Append(s, f)) : (i \in 1 .. Len(s) /\ Append(s, f)[i] = s[i])
                                                \/ Append(s, f)[i] = f
<1>1. /\ Append(s, f) \in Seq(FrameRecs) /\ Len(Append(s, f)) = Len(s) + 1 /\ Len(s) \in Nat
      /\ \A i \in 1 .. Len(s) : Append(s, f)[i] = s[i]
      /\ Append(s, f)[Len(s) + 1] = f
  BY AppendProperties
<1>2. Append(s, f) # <<>>
  BY <1>1
<1> QED BY <1>1, <1>2

\* The hand goes on with other frames, at the same request.
LEMMA FramesChange ==
    ASSUME FoldersInv, NEW h \in Hands, hand[h].pc \in {"delete", "empty"},
           NEW s \in Seq(FrameRecs), s # <<>>,
           hand' = [hand EXCEPT ![h] = [hand[h] EXCEPT !.pc = "empty", !.frames = s]]
    PROVE  /\ OthersRest(h) /\ hand'[h].pc = "empty" /\ hand'[h].frames = s
           /\ hand'[h].order = hand[h].order /\ hand'[h].dir = hand[h].dir
           /\ TreeOK' /\ Grown => HandFits(h)'
<1> DEFINE r == [hand[h] EXCEPT !.pc = "empty", !.frames = s]
<1>1. hand \in [Hands -> HandRecs] /\ HandFits(h)
  BY DEF FoldersInv
<1>2. /\ r \in HandRecs /\ r.pc = "empty" /\ r.frames = s
      /\ r.order = hand[h].order /\ r.dir = hand[h].dir /\ r.from = hand[h].from
  <2>1. "empty" \in HandPcs
    BY DEF HandPcs
  <2> QED BY <1>1, <2>1, HandFields DEF HandRecs
<1> HIDE DEF r
<1>3. OthersRest(h) /\ hand'[h] = r
  BY <1>1, <1>2, HandBecomes DEF r
<1>4. TreeOK' /\ Grown => HandFits(h)'
  BY <1>1, <1>2, <1>3 DEF HandFits, FolderAt, Renaming, Grown
<1> QED BY <1>2, <1>3, <1>4

\* A delete goes on in frames whose folders it has had below its name.
LEMMA DeleteGoesOn ==
    ASSUME FoldersInv, NEW h \in Hands, hand[h].pc \in {"delete", "empty"},
           NEW s \in Seq(FrameRecs), s # <<>>,
           hand' = [hand EXCEPT ![h] = [hand[h] EXCEPT !.pc = "empty", !.frames = s]],
           \A i \in 1 .. Len(s) : InFrame(s[i], inside[h], hand[h]),
           TreeOK', Grown, HiddenHasReason', strays' \subseteq Nodes', UNCHANGED <<nonce, orders>>,
           Watch(h)
    PROVE  FoldersInv'
<1>1. /\ OthersRest(h) /\ hand'[h].pc = "empty" /\ hand'[h].frames = s /\ HandFits(h)'
      /\ hand'[h].order = hand[h].order /\ hand'[h].dir = hand[h].dir
  BY FramesChange
<1>2. inside[h] \subseteq inside'[h]
  BY <1>1, Watched DEF FoldersInv, Grown
<1>3. Framed(h)'
  BY <1>1, <1>2 DEF Framed, InFrame
<1>4. hand'[h].pc \notin Renaming
  BY <1>1 DEF Renaming
<1>5. nonce' \in 0 .. MaxNonce /\ nonce <= nonce' /\ orders' \in 0 .. MaxOrders
  BY NonceKept
<1> QED BY <1>1, <1>3, <1>4, <1>5, HandStepKeeps

LEMMA RemoveEntryKeeps ==
    ASSUME FoldersInv, NEW h \in Hands, hand[h].pc \in {"delete", "empty"},
           NEW d \in Nat, NEW n \in EntryNames, NEW rest \in Seq(FrameRecs),
           RemoveEntry(h, d, n, rest), UNCHANGED <<nonce, orders, strays>>, Watch(h),
           rest # <<>> => hand[h].pc = "empty",
           \A i \in 1 .. Len(rest) : InFrame(rest[i], inside[h], hand[h]),
           At(d, n) \subseteq inside[h],
           d \in inside[h] \/ (d = hand[h].dir /\ n = hand[h].order.name)
    PROVE  FoldersInv'
<1>1. PICK x \in At(d, n) :
         IF IsFolder(x)
         THEN /\ hand' = [hand EXCEPT ![h].pc = "empty", ![h].frames = Append(rest, Frame(x, d, n))]
              /\ UNCHANGED tree
         ELSE /\ tree' = Without({x})
              /\ IF rest = <<>> THEN Release(h) ELSE hand' = [hand EXCEPT ![h].frames = rest]
  BY DEF RemoveEntry
<1>2. /\ x \in Nodes /\ x \in Nat /\ x \in inside[h] /\ TreeOK /\ hand \in [Hands -> HandRecs]
  BY TreeFacts DEF At, FoldersInv
<1>3. CASE IsFolder(x)
  <2> DEFINE f == Frame(x, d, n)
  <2>1. f \in FrameRecs /\ f.dir = x /\ f.up = d /\ f.name = n
    <3>1. {tree[y].name : y \in Children(x)} \in SUBSET EntryNames
      BY <1>2, TreeFacts DEF Children
    <3> QED BY <1>2, <3>1 DEF Frame, FrameRecs
  <2> HIDE DEF f
  <2>2. /\ Append(rest, f) \in Seq(FrameRecs) /\ Append(rest, f) # <<>>
        /\ \A i \in 1 .. Len(Append(rest, f)) : InFrame(Append(rest, f)[i], inside[h], hand[h])
    <3>1. InFrame(f, inside[h], hand[h])
      BY <1>2, <2>1 DEF InFrame
    <3>2. /\ Append(rest, f) \in Seq(FrameRecs) /\ Append(rest, f) # <<>>
          /\ \A i \in 1 .. Len(Append(rest, f)) :
                (i \in 1 .. Len(rest) /\ Append(rest, f)[i] = rest[i]) \/ Append(rest, f)[i] = f
      BY <2>1, FrameAdded
    <3> HIDE DEF InFrame
    <3> QED BY <3>1, <3>2
  <2>3. hand' = [hand EXCEPT ![h] = [hand[h] EXCEPT !.pc = "empty", !.frames = Append(rest, f)]]
    BY <1>1, <1>2, <1>3 DEF f
  <2>4. TreeOK' /\ Grown /\ Nodes' = Nodes
    BY <1>1, <1>2, <1>3, TreeSame
  <2>5. OthersRest(h)
    BY <2>2, <2>3, FramesChange
  <2>6. HiddenHasReason' /\ strays' \subseteq Nodes'
    <3>1. HiddenHasReason'
      BY <1>1, <1>3, <2>4, <2>5, ReasonsKept
    <3> QED BY <2>4, <3>1 DEF FoldersInv
  <2>7. PICK s : s = Append(rest, f)
    OBVIOUS
  <2> QED BY <2>2, <2>3, <2>4, <2>6, <2>7, DeleteGoesOn
<1>4. CASE ~IsFolder(x)
  <2>1. tree' = Without({x}) /\ {x} \in SUBSET Nodes /\ \A y \in {x} : IsFolder(y) => Children(y) = {}
    BY <1>1, <1>2, <1>4
  <2>2. hand[h].pc \notin {"back", "rollback"}
    OBVIOUS
  <2>3. CASE rest = <<>>
    <3>1. Release(h) /\ OthersRest(h)
      BY <1>1, <1>2, <1>4, <2>3, ReleaseGoes
    <3>2. TreeOK' /\ Grown /\ HiddenHasReason' /\ strays' \subseteq Nodes'
      BY <2>1, <2>2, <3>1, CutKeeps
    <3> QED BY <3>1, <3>2, ReleaseKeeps
  <2>4. CASE rest # <<>>
    <3>1. hand' = [hand EXCEPT ![h] = [hand[h] EXCEPT !.pc = "empty", !.frames = rest]]
      <4>1. hand' = [hand EXCEPT ![h] = [hand[h] EXCEPT !.frames = rest]]
        BY <1>1, <1>2, <1>4, <2>4
      <4>2. [hand[h] EXCEPT !.frames = rest] = [hand[h] EXCEPT !.pc = "empty", !.frames = rest]
        BY <1>2, <2>4, HandFields DEF HandRecs
      <4> QED BY <4>1, <4>2
    <3>2. OthersRest(h)
      BY <2>4, <3>1, FramesChange
    <3>3. TreeOK' /\ Grown /\ HiddenHasReason' /\ strays' \subseteq Nodes'
      BY <2>1, <2>2, <3>2, CutKeeps
    <3> QED BY <2>4, <3>1, <3>3, DeleteGoesOn
  <2> QED BY <2>3, <2>4
<1> QED BY <1>3, <1>4

LEMMA RemoveNamedKeeps ==
    ASSUME FoldersInv, NEW h \in Hands, RemoveNamed(h), Watch(h)
    PROVE  FoldersInv'
<1>1. /\ hand[h].pc = "delete" /\ UNCHANGED <<nonce, orders, strays>> /\ HandFits(h) /\ Below(h)
      /\ hand \in [Hands -> HandRecs]
      /\ RemoveEntry(h, hand[h].dir, hand[h].order.name, <<>>)
  BY DEF FoldersInv, RemoveNamed, HandAt
<1>2. hand[h].order.name \in EntryNames /\ hand[h].dir \in Nat
  BY <1>1, OrderFields, HandFields DEF HandFits, EntryNames
<1>3. <<>> \in Seq(FrameRecs) /\ \A i \in 1 .. Len(<<>>) : InFrame(<<>>[i], inside[h], hand[h])
  OBVIOUS
<1>4. At(hand[h].dir, hand[h].order.name) \subseteq inside[h]
  BY <1>1 DEF Below, NamedBy
<1>5. PICK d, n, rest : d = hand[h].dir /\ n = hand[h].order.name /\ rest = <<>>
  OBVIOUS
<1> QED BY <1>1, <1>2, <1>3, <1>4, <1>5, RemoveEntryKeeps

\* The folder a delete is in.
LEMMA InnerFrame ==
    ASSUME FoldersInv, NEW h \in Hands, hand[h].pc = "empty"
    PROVE  LET f == Last(hand[h].frames) IN
           /\ hand[h].frames \in Seq(FrameRecs) /\ hand[h].frames # <<>> /\ f \in FrameRecs
           /\ InFrame(f, inside[h], hand[h]) /\ f.dir \in Nodes
           /\ Front(hand[h].frames) \in Seq(FrameRecs)
           /\ \A i \in 1 .. Len(Front(hand[h].frames)) :
                 InFrame(Front(hand[h].frames)[i], inside[h], hand[h])
<1>1. /\ hand[h].frames \in Seq(FrameRecs) /\ hand[h].frames # <<>> /\ Framed(h)
  BY HandFields DEF FoldersInv, HandFits, Below
<1>2. \A i \in 1 .. Len(hand[h].frames) : InFrame(hand[h].frames[i], inside[h], hand[h])
  BY <1>1 DEF Framed, InFrame
<1>3. inside[h] \subseteq Nodes
  BY DEF FoldersInv
<1>4. PICK s \in Seq(FrameRecs) : s = hand[h].frames
  BY <1>1
<1>5. /\ Len(s) \in Nat /\ Len(s) >= 1 /\ Last(s) = s[Len(s)] /\ Last(s) \in FrameRecs
      /\ Front(s) \in Seq(FrameRecs)
      /\ \A i \in 1 .. Len(Front(s)) : Front(s)[i] = s[i] /\ i \in 1 .. Len(s)
  BY <1>1, <1>4, FrameList
<1>6. InFrame(Last(s), inside[h], hand[h])
  BY <1>2, <1>4, <1>5
<1>7. Last(s).dir \in Nodes
  BY <1>3, <1>6 DEF InFrame
<1> QED BY <1>1, <1>2, <1>4, <1>5, <1>6, <1>7

LEMMA RemoveNextKeeps ==
    ASSUME FoldersInv, NEW h \in Hands, RemoveNext(h), Watch(h)
    PROVE  FoldersInv'
<1> DEFINE f == Last(hand[h].frames)
           front == Front(hand[h].frames)
           less(n) == [f EXCEPT !.names = @ \ {n}]
<1>1. /\ hand[h].pc = "empty" /\ UNCHANGED <<nonce, orders, strays>> /\ Below(h) /\ TreeOK
  BY DEF FoldersInv, RemoveNext, HandAt
<1>2. PICK n \in f.names \cup {tree[x].name : x \in Children(f.dir)} :
         \/ RemoveEntry(h, f.dir, n, Append(front, less(n)))
         \/ At(f.dir, n) = {} /\ Release(h) /\ UNCHANGED tree
  BY DEF RemoveNext
<1>3. /\ f \in FrameRecs /\ InFrame(f, inside[h], hand[h]) /\ f.dir \in Nodes
      /\ front \in Seq(FrameRecs)
      /\ \A i \in 1 .. Len(front) : InFrame(front[i], inside[h], hand[h])
  BY <1>1, InnerFrame
<1> HIDE DEF f, front
<1>4. n \in EntryNames
  BY <1>1, <1>2, <1>3, TreeFacts DEF FrameRecs, Children
<1>5. CASE Release(h) /\ UNCHANGED tree
  BY <1>1, <1>5, QuietEnd
<1>6. CASE RemoveEntry(h, f.dir, n, Append(front, less(n)))
  <2>1. /\ less(n) \in FrameRecs /\ less(n).dir = f.dir /\ less(n).up = f.up
        /\ less(n).name = f.name
    BY <1>3 DEF FrameRecs
  <2>2. InFrame(less(n), inside[h], hand[h]) /\ f.dir \in inside[h]
    BY <1>3, <2>1 DEF InFrame
  <2>3. PICK g \in FrameRecs : g = less(n)
    BY <2>1
  <2> HIDE DEF less
  <2>4. PICK rest : rest = Append(front, g)
    OBVIOUS
  <2>5. /\ rest \in Seq(FrameRecs) /\ rest # <<>>
        /\ \A i \in 1 .. Len(rest) : (i \in 1 .. Len(front) /\ rest[i] = front[i]) \/ rest[i] = g
    BY <1>3, <2>4, FrameAdded
  <2>6. \A i \in 1 .. Len(rest) : InFrame(rest[i], inside[h], hand[h])
    BY <1>3, <2>2, <2>3, <2>5
  <2>7. At(f.dir, n) \subseteq inside[h]
    BY <1>1, <2>2 DEF At, Below
  <2>8. f.dir \in Nat
    BY <1>1, <1>3, TreeFacts
  <2>9. RemoveEntry(h, f.dir, n, rest)
    BY <1>6, <2>3, <2>4
  <2> QED BY <1>1, <1>4, <2>2, <2>5, <2>6, <2>7, <2>8, <2>9, RemoveEntryKeeps
<1> QED BY <1>2, <1>5, <1>6

LEMMA RemoveEmptiedKeeps ==
    ASSUME FoldersInv, NEW h \in Hands, RemoveEmptied(h), Watch(h)
    PROVE  FoldersInv'
<1> DEFINE f == Last(hand[h].frames)
           front == Front(hand[h].frames)
           gone == Removable(f.up, f.name, TRUE)
<1>1. /\ hand[h].pc = "empty" /\ UNCHANGED <<nonce, orders, strays>> /\ TreeOK
      /\ tree' = Without(gone)
      /\ IF gone = {} \/ Len(hand[h].frames) = 1 THEN Release(h)
         ELSE hand' = [hand EXCEPT ![h].frames = Front(@)]
      /\ hand \in [Hands -> HandRecs]
  BY DEF FoldersInv, RemoveEmptied, HandAt
<1>2. /\ front \in Seq(FrameRecs) /\ hand[h].frames \in Seq(FrameRecs) /\ hand[h].frames # <<>>
      /\ \A i \in 1 .. Len(front) : InFrame(front[i], inside[h], hand[h])
  BY <1>1, InnerFrame
<1>3. gone \in SUBSET Nodes /\ \A y \in gone : IsFolder(y) => Children(y) = {}
  BY RemovableFacts
<1> HIDE DEF gone
<1>4. CASE Release(h)
  <2>1. OthersRest(h)
    BY <1>1, <1>4, ReleaseGoes
  <2>2. TreeOK' /\ Grown /\ HiddenHasReason' /\ strays' \subseteq Nodes'
    BY <1>1, <1>3, <2>1, CutKeeps
  <2> QED BY <1>1, <1>4, <2>2, ReleaseKeeps
<1>5. CASE Len(hand[h].frames) # 1 /\ hand' = [hand EXCEPT ![h].frames = Front(@)]
  <2>1. front # <<>>
    <3>1. PICK s \in Seq(FrameRecs) : s = hand[h].frames
      BY <1>2
    <3>2. Len(s) \in Nat /\ Len(s) >= 1 /\ Len(s) # 1 /\ Len(Front(s)) = Len(s) - 1
      BY <1>2, <1>5, <3>1, FrameList
    <3>3. Len(Front(s)) # 0
      BY <3>2
    <3>4. Len(<<>>) = 0
      OBVIOUS
    <3> QED BY <3>1, <3>3, <3>4
  <2>2. hand' = [hand EXCEPT ![h] = [hand[h] EXCEPT !.pc = "empty", !.frames = front]]
    <3>1. hand' = [hand EXCEPT ![h] = [hand[h] EXCEPT !.frames = front]]
      BY <1>1, <1>5
    <3>2. [hand[h] EXCEPT !.frames = front] = [hand[h] EXCEPT !.pc = "empty", !.frames = front]
      <4> HIDE DEF front
      <4> QED BY <1>1, <1>2, HandFields DEF HandRecs
    <3> QED BY <3>1, <3>2
  <2> HIDE DEF front
  <2>3. OthersRest(h)
    BY <1>1, <1>2, <2>1, <2>2, FramesChange
  <2>4. TreeOK' /\ Grown /\ HiddenHasReason' /\ strays' \subseteq Nodes'
    BY <1>1, <1>3, <2>3, CutKeeps
  <2> QED BY <1>1, <1>2, <2>1, <2>2, <2>4, DeleteGoesOn
<1> QED BY <1>1, <1>4, <1>5

-----------------------------------------------------------------------------
(* Folders: the invariant, and what follows from it *)

LEMMA InitKeeps ==
    ASSUME FoldersInit
    PROVE  FoldersInv
<1>1. PICK T \in Trees : tree = T
  BY DEF FoldersInit
<1> DEFINE rec == [kind : {"file", "folder", "link"}, in : Nat, name : Spelt, to : Int, blank : {FALSE}]
<1>2. /\ T \in Seq(rec) /\ Len(T) <= MaxNodes /\ Len(T) \in Nat
      /\ \A x \in 1 .. Len(T) : T[x].in < x /\ (T[x].in # Root => T[T[x].in].kind = "folder")
      /\ \A x, y \in 1 .. Len(T) : T[x].in = T[y].in /\ Fold[T[x].name] = Fold[T[y].name] => x = y
  <2>1. T \in Seq(rec)
    BY FoldersAssumption
  <2> HIDE DEF rec
  <2>2. Len(T) \in Nat
    BY <2>1
  <2>3. /\ Len(T) <= MaxNodes
        /\ \A x \in 1 .. Len(T) : T[x].in < x /\ (T[x].in # Root => T[T[x].in].kind = "folder")
        /\ \A x, y \in 1 .. Len(T) : T[x].in = T[y].in /\ Fold[T[x].name] = Fold[T[y].name] => x = y
    BY FoldersAssumption
  <2> QED BY <2>1, <2>2, <2>3
<1>3. Nodes = 1 .. Len(T) /\ \A x \in Nodes : tree[x] \in rec
  <2> HIDE DEF rec
  <2>1. \A x \in 1 .. Len(T) : T[x] \in rec
    BY <1>2
  <2> QED BY <1>1, <2>1 DEF Nodes
<1>4. \A x \in Nodes : tree[x] \in NodeRecs /\ tree[x].in \in Nat /\ tree[x].name \in Spelt
  <2> SUFFICES ASSUME NEW x \in Nodes
               PROVE  tree[x] \in NodeRecs /\ tree[x].in \in Nat /\ tree[x].name \in Spelt
    OBVIOUS
  <2>1. PICK r \in rec : tree[x] = r
    BY <1>3
  <2>2. r \in NodeRecs /\ r.in \in Nat /\ r.name \in Spelt
    <3>1. Spelt \subseteq EntryNames
      BY DEF EntryNames
    <3>2. {FALSE} \subseteq BOOLEAN /\ Nat \subseteq Int
      OBVIOUS
    <3>3. rec \subseteq NodeRecs
      BY <3>1, <3>2, Zenon DEF NodeRecs
    <3> QED BY <3>3
  <2> QED BY <2>1, <2>2
<1>5. tree \in Seq(NodeRecs)
  <2>1. tree \in [1 .. Len(T) -> NodeRecs]
    BY <1>1, <1>2, <1>3, <1>4
  <2> QED BY <1>2, <2>1, IsASeq
<1>6. \A x \in Nodes : tree[x].in \in {Root} \cup Nodes
  BY <1>1, <1>2, <1>3, <1>4 DEF Root
<1>7. Upward
  <2> DEFINE rank == [x \in Nodes |-> x]
  <2>1. rank \in [Nodes -> Nat]
    BY <1>2, <1>3
  <2>2. \A x \in Nodes : tree[x].in \in Nodes => rank[tree[x].in] < rank[x]
    BY <1>1, <1>2, <1>3
  <2> HIDE DEF rank
  <2>3. \A x \in Nodes : tree[x].in \in Nodes =>
           tree[tree[x].in].kind = "folder" /\ tree[tree[x].in].in # Gone
    BY <1>1, <1>2, <1>3, <1>4 DEF Root, Gone
  <2> QED BY <2>1, <2>2, <2>3 DEF Upward
<1>8. OneKey
  BY <1>1, <1>2, <1>3, <1>4 DEF OneKey, Key
<1>9. TreeOK
  BY <1>1, <1>2, <1>5, <1>6, <1>7, <1>8 DEF TreeOK
<1>10. hand \in [Hands -> HandRecs] /\ \A h \in Hands : hand[h] = FreeHand
  BY FreeFields DEF FoldersInit
<1>11. \A h \in Hands : HandFits(h) /\ Undisturbed(h) /\ Below(h)
  BY <1>10, FreeFields DEF HandFits, Undisturbed, Below, FolderAt, Renaming
<1>12. /\ nonce \in 0 .. MaxNonce /\ orders \in 0 .. MaxOrders
       /\ inside \in [Hands -> SUBSET Nodes] /\ raced \subseteq Hands /\ strays \subseteq Nodes
  BY FoldersAssumption DEF FoldersInit
<1> QED BY <1>4, <1>9, <1>10, <1>11, <1>12 DEF FoldersInv, HiddenHasReason

LEMMA CrashKeeps ==
    ASSUME FoldersInv, Crash
    PROVE  FoldersInv'
<1>1. TreeOK' /\ Nodes' = Nodes /\ tree' = tree
  BY TreeSame DEF FoldersInv, Crash
<1>2. hand' \in [Hands -> HandRecs] /\ \A h \in Hands : hand'[h] = FreeHand
  BY FreeFields DEF Crash
<1>3. \A h \in Hands : HandFits(h)' /\ Undisturbed(h)' /\ Below(h)'
  BY <1>2, FreeFields DEF HandFits, Undisturbed, Below, FolderAt, Renaming
<1>4. \A h \in Hands : Aside(h) \subseteq Nodes
  BY DEF Aside, At
<1>5. strays \subseteq strays' /\ strays' \subseteq Nodes
  BY <1>4 DEF Crash, FoldersInv
<1>6. \A h \in Hands : hand[h].pc \in {"back", "rollback"} => Aside(h) \subseteq strays'
  BY DEF Crash
<1>7. HiddenHasReason'
  BY <1>1, <1>5, <1>6 DEF FoldersInv, HiddenHasReason
<1>8. /\ nonce' \in 0 .. MaxNonce /\ orders' \in 0 .. MaxOrders
      /\ inside' \in [Hands -> SUBSET Nodes'] /\ raced' \subseteq Hands
  BY FoldersAssumption DEF FoldersInv, Crash
<1> QED BY <1>1, <1>2, <1>3, <1>5, <1>7, <1>8 DEF FoldersInv

LEMMA FoldersNextKeeps ==
    ASSUME FoldersInv, [FoldersNext]_folderVars
    PROVE  FoldersInv'
<1>1. ASSUME NEW h \in Hands, HandStep(h), Watch(h) PROVE FoldersInv'
  <2>1. CASE RefuseOrder(h)   BY <1>1, <2>1, RefuseOrderKeeps
  <2>2. CASE Take(h)          BY <1>1, <2>2, TakeKeeps
  <2>3. CASE Walk(h)          BY <1>1, <2>3, WalkKeeps
  <2>4. CASE MakeWay(h)       BY <1>1, <2>4, MakeWayKeeps
  <2>5. CASE StartPut(h)      BY <1>1, <2>5, StartPutKeeps
  <2>6. CASE GiveUp(h)        BY <1>1, <2>6, GiveUpKeeps
  <2>7. CASE Create(h)        BY <1>1, <2>7, CreateKeeps
  <2>8. CASE HoldSource(h)    BY <1>1, <2>8, HoldSourceKeeps
  <2>9. CASE Compare(h)       BY <1>1, <2>9, CompareKeeps
  <2>10. CASE MoveFree(h)     BY <1>1, <2>10, MoveFreeKeeps
  <2>11. CASE Hold(h)         BY <1>1, <2>11, HoldKeeps
  <2>12. CASE MoveOnto(h)     BY <1>1, <2>12, MoveOntoKeeps
  <2>13. CASE Confirm(h)      BY <1>1, <2>13, ConfirmKeeps
  <2>14. CASE SetAside(h)     BY <1>1, <2>14, SetAsideKeeps
  <2>15. CASE SetBack(h)      BY <1>1, <2>15, SetBackKeeps
  <2>16. CASE Rollback(h)     BY <1>1, <2>16, RollbackKeeps
  <2>17. CASE FindEntry(h)    BY <1>1, <2>17, FindEntryKeeps
  <2>18. CASE RemoveNamed(h)  BY <1>1, <2>18, RemoveNamedKeeps
  <2>19. CASE RemoveNext(h)   BY <1>1, <2>19, RemoveNextKeeps
  <2>20. CASE RemoveEmptied(h)  BY <1>1, <2>20, RemoveEmptiedKeeps
  <2> QED BY <1>1, <2>1, <2>2, <2>3, <2>4, <2>5, <2>6, <2>7, <2>8, <2>9, <2>10, <2>11, <2>12,
             <2>13, <2>14, <2>15, <2>16, <2>17, <2>18, <2>19, <2>20 DEF HandStep
<1>2. CASE UNCHANGED folderVars
  <2>1. /\ tree' = tree /\ hand' = hand /\ nonce' = nonce /\ orders' = orders
        /\ inside' = inside /\ raced' = raced /\ strays' = strays
    BY <1>2 DEF folderVars
  <2>2. Nodes' = Nodes /\ TreeOK'
    BY <2>1, TreeSame DEF FoldersInv
  <2>3. \A h \in Hands : HandFits(h)' /\ Undisturbed(h)' /\ Below(h)'
    <3> SUFFICES ASSUME NEW h \in Hands PROVE HandFits(h)' /\ Undisturbed(h)' /\ Below(h)'
      OBVIOUS
    <3>1. HandFits(h) /\ Undisturbed(h) /\ Below(h)
      BY DEF FoldersInv
    <3>2. HandFits(h)'
      BY <2>1, <2>2, <3>1 DEF HandFits, FolderAt
    <3>3. Source(h)' = Source(h) /\ Target(h)' = Target(h) /\ NamedBy(h)' = NamedBy(h)
      BY <2>1, <2>2 DEF Source, Target, NamedBy, At, Key
    <3>4. Undisturbed(h)'
      BY <2>1, <3>1, <3>3 DEF Undisturbed
    <3>5. Framed(h) => Framed(h)'
      BY <2>1 DEF Framed
    <3>6. Below(h)'
      BY <2>1, <2>2, <3>1, <3>3, <3>5 DEF Below
    <3> QED BY <3>2, <3>4, <3>6
  <2>4. \A h \in Hands : Aside(h)' = Aside(h)
    BY <2>1, <2>2 DEF Aside, At, Key
  <2>5. HiddenHasReason'
    BY <2>1, <2>2, <2>4 DEF FoldersInv, HiddenHasReason
  <2> QED BY <2>1, <2>2, <2>3, <2>5 DEF FoldersInv
<1> QED BY <1>1, <1>2, CrashKeeps DEF FoldersNext

LEMMA FoldersInvAlways == FoldersSpec => []FoldersInv
<1>1. FoldersInit => FoldersInv
  BY InitKeeps
<1>2. FoldersInv /\ [FoldersNext]_folderVars => FoldersInv'
  BY FoldersNextKeeps
<1> QED BY <1>1, <1>2, PTL DEF FoldersSpec

\* An entry is under a hidden name only while its rename is at work, or a crash
\* or two taken names have left it there: any number of workers, of requests and
\* of entries, on any tree.
THEOREM HiddenHasReasonAlways == FoldersSpec => []HiddenHasReason
<1>1. FoldersInv => HiddenHasReason
  BY DEF FoldersInv
<1> QED BY <1>1, FoldersInvAlways, PTL

\* What stands is below the root: the way up ends, and every folder on it stands.
LEMMA Rooted ==
    ASSUME TreeOK, NEW x \in Nodes, tree[x].in # Gone
    PROVE  Root \in Line(x)
<1> DEFINE Astray == {y \in Nodes : tree[y].in # Gone /\ Root \notin Line(y)}
<1>1. PICK rank : Ranks(rank)
  BY DEF TreeOK, Upward, Ranks
<1> DEFINE R == {rank[y] : y \in Astray}
<1>2. SUFFICES ASSUME x \in Astray PROVE FALSE
  OBVIOUS
<1>3. PICK k \in R : \A j \in R : ~(j < k)
  <2>1. R \subseteq Nat
    BY <1>1 DEF Ranks
  <2>2. rank[x] \in R
    BY <1>2
  <2> HIDE DEF R
  <2>3. PICK least \in R : \A j \in R : least <= j
    BY <2>1, <2>2, LeastOf
  <2>4. \A j \in R : ~(j < least)
    BY <2>1, <2>3
  <2> QED BY <2>4
<1>4. PICK y \in Astray : rank[y] = k
  BY <1>3
<1>5. Line(y) = {y} \cup Line(tree[y].in) /\ Line(Root) = {Root}
  BY <1>4, LineUp, TreeFacts
<1>6. tree[y].in \in Nodes
  BY <1>4, <1>5, TreeFacts
<1>7. tree[y].in \in Astray
  BY <1>4, <1>5, <1>6, Parents, TreeFacts DEF Stands
<1>8. rank[tree[y].in] < rank[y] /\ rank[tree[y].in] \in R
  BY <1>1, <1>4, <1>6, <1>7 DEF Ranks
<1> QED BY <1>3, <1>4, <1>8

\* The card's folders stay a tree: whatever stands is in a folder that stands,
\* up to the root, and is what its name leads to; a worker without a request
\* holds no folder open.
THEOREM FoldersTypes == FoldersSpec => []FoldersTypeOK
<1>1. FoldersInv => FoldersTypeOK
  <2> SUFFICES ASSUME FoldersInv PROVE FoldersTypeOK
    OBVIOUS
  <2>1. TreeOK
    BY DEF FoldersInv
  <2>2. ASSUME NEW x \in Nodes
        PROVE  /\ tree[x].kind \in {"file", "folder", "link"}
               /\ tree[x].in # Gone => IsFolder(tree[x].in) /\ Root \in Line(x)
               /\ tree[x].in # Gone => At(tree[x].in, tree[x].name) = {x}
    <3>1. tree[x].in # Gone => IsFolder(tree[x].in)
      BY <2>1, TreeFacts DEF TreeOK, Upward, IsFolder
    <3>2. tree[x].in # Gone => At(tree[x].in, tree[x].name) = {x}
      BY <2>1 DEF TreeOK, OneKey, At
    <3> QED BY <2>1, <3>1, <3>2, Rooted, TreeFacts
  <2>3. ASSUME NEW h \in Hands
        PROVE  /\ hand[h].pc \in {"free", "prepare", "made", "walk", "delete", "empty"} \cup Renaming
               /\ hand[h].order \in Orders \cup {NoOrder}
               /\ HandAt(h, "free") => hand[h] = FreeHand
               /\ HandAt(h, "empty") <=> hand[h].frames # <<>>
    BY HandFields DEF FoldersInv, HandFits, HandPcs, HandAt
  <2> QED BY <2>1, <2>2, <2>3 DEF FoldersInv, FoldersTypeOK, TreeOK
<1> QED BY <1>1, FoldersInvAlways, PTL

-----------------------------------------------------------------------------
(* Folders: what goes *)

LEMMA AddedLoses ==
    ASSUME FoldersInv, NEW kind, NEW d, NEW n, NEW own, Added(kind, d, n, own), NEW x \in Nodes
    PROVE  ~Goes(x)
<1>1. tree \in Seq(NodeRecs) /\ Nodes = 1 .. Len(tree)
  BY DEF FoldersInv, TreeOK, Nodes
<1> DEFINE rec == Node(kind, d, n, own)
<1>2. tree' = Append(tree, rec)
  BY DEF Added
<1> HIDE DEF rec
<1>3. tree'[x] = tree[x]
  BY <1>1, <1>2
<1> QED BY <1>3 DEF Goes

LEMMA MoveLoses ==
    ASSUME FoldersInv, NEW x \in Nodes, NEW d, NEW n \in EntryNames, FolderAt(d), MayMove(x, d, n),
           Moving(x, d, n), NEW y \in Nodes, Goes(y)
    PROVE  y \in At(d, n) /\ y # x
<1>1. /\ tree'[x].in = d /\ d # Gone
      /\ \A z \in Nodes \ {x} : tree'[z].in = IF z \in At(d, n) THEN Gone ELSE tree[z].in
  BY MovedAlone
<1> QED BY <1>1 DEF Goes

LEMMA CutLoses ==
    ASSUME NEW X, tree' = Without(X), NEW y \in Nodes, Goes(y)
    PROVE  y \in X
BY DEF Without, Goes

\* Only the hand h has moved, and what goes was named or hidden, or is blank.
GoesWith(h, x) ==
    /\ \A g \in Hands \ {h} : hand'[g] = hand[g]
    /\ IF hand[h].pc \in Renaming
       THEN hand'[h] # hand[h] /\ (h \in raced \/ x \in strays \/ IsFolder(x) \/ tree[x].blank)
       ELSE hand[h].pc \in {"delete", "empty"} /\ x \in inside[h]

LEMMA MoveOntoLoses ==
    ASSUME FoldersInv, NEW h \in Hands, MoveOnto(h), NEW x \in Nodes, Goes(x)
    PROVE  GoesWith(h, x)
<1>1. /\ hand[h].pc = "over" /\ HandFits(h) /\ Undisturbed(h) /\ hand \in [Hands -> HandRecs]
      /\ hand[h].order.toName \in EntryNames
  BY OrderFields DEF FoldersInv, MoveOnto, HandAt, HandFits, EntryNames
<1>2. OthersRest(h) /\ hand'[h].pc \in {"verify", "free"}
  BY <1>1, ToGoes, ReleaseGoes, FreeFields DEF MoveOnto, HandPcs, Renaming
<1>3. x \in Target(h)
  <2>1. CASE Cleanup(h)
    <3>1. x \in Removable(hand[h].dir, hand[h].order.toName, IsFolder(hand[h].src))
      BY <2>1, CutLoses DEF Cleanup
    <3> QED BY <3>1, RemovableFacts DEF Target
  <2>2. CASE \E y \in Source(h) : /\ MayMove(y, hand[h].dir, hand[h].order.toName)
                                  /\ Moving(y, hand[h].dir, hand[h].order.toName)
    <3>1. PICK y \in Source(h) : /\ MayMove(y, hand[h].dir, hand[h].order.toName)
                                 /\ Moving(y, hand[h].dir, hand[h].order.toName)
      BY <2>2
    <3>2. y \in Nodes /\ FolderAt(hand[h].dir)
      BY <1>1, <3>1 DEF Source, At, HandFits
    <3> QED BY <1>1, <3>1, <3>2, MoveLoses DEF Target
  <2> QED BY <2>1, <2>2 DEF MoveOnto
<1>4. h \notin raced => tree[x].blank
  BY <1>1, <1>3 DEF Undisturbed
<1> QED BY <1>1, <1>2, <1>4 DEF GoesWith, OthersRest, Renaming

LEMMA ConfirmLoses ==
    ASSUME FoldersInv, NEW h \in Hands, Confirm(h), NEW x \in Nodes, Goes(x)
    PROVE  GoesWith(h, x)
<1>1. hand[h].pc = "verify" /\ Undisturbed(h) /\ hand \in [Hands -> HandRecs] /\ Release(h)
  BY DEF FoldersInv, Confirm, HandAt
<1>2. OthersRest(h) /\ hand'[h].pc = "free"
  BY <1>1, ReleaseGoes, FreeFields
<1>3. Target(h) # {hand[h].src}
  BY DEF Confirm, Target, Goes
<1> QED BY <1>1, <1>2, <1>3 DEF GoesWith, OthersRest, Renaming, Undisturbed

\* What a hidden name already leads to was left there: of the names this process
\* has tried, none is tried again.
LEMMA SetAsideLoses ==
    ASSUME FoldersInv, NEW h \in Hands, SetAside(h), NEW x \in Nodes, Goes(x)
    PROVE  GoesWith(h, x)
<1>1. /\ hand[h].pc = "aside" /\ HandFits(h) /\ hand \in [Hands -> HandRecs] /\ nonce \in 0 .. MaxNonce
      /\ hand[h].order.toName \in Spelt /\ TreeOK /\ FolderAt(hand[h].dir)
  BY OrderFields DEF FoldersInv, SetAside, HandAt, HandFits
<1>2. PICK y \in Source(h), k \in 1 .. Attempts :
         /\ MayMove(y, hand[h].dir, Hidden(hand[h].order.toName, k))
         /\ Moving(y, hand[h].dir, Hidden(hand[h].order.toName, k))
         /\ hand' = [hand EXCEPT ![h].pc = "back", ![h].hidden = Hidden(hand[h].order.toName, k)]
  BY DEF SetAside
<1> DEFINE m == Hidden(hand[h].order.toName, k)
<1>3. /\ m = <<hand[h].order.toName, nonce, k>> /\ m \in EntryNames /\ m \notin Spelt /\ Key(m) = m
      /\ k \in Nat /\ nonce \in Nat
  BY <1>1, KeySpelt, FoldersAssumption DEF Hidden, EntryNames
<1>4. /\ hand'[h].pc = "back"
      /\ \A g \in Hands \ {h} : hand'[g] = hand[g]
  <2>1. hand[h] \in HandRecs
    BY <1>1
  <2> HIDE DEF m
  <2> QED BY <1>1, <1>2, <2>1 DEF HandRecs
<1>5. x \in At(hand[h].dir, m)
  <2>1. y \in Nodes
    BY <1>2 DEF Source, At
  <2> HIDE DEF m
  <2> QED BY <1>1, <1>2, <1>3, <2>1, MoveLoses DEF m
<1> HIDE DEF m
<1>6. tree[x].in # Gone /\ tree[x].name = m
  <2>1. tree[x].in = hand[h].dir /\ Key(tree[x].name) = m
    BY <1>3, <1>5 DEF At
  <2>2. tree[x].name \notin Spelt
    BY <1>3, <2>1, KeySpelt
  <2> QED BY <2>1, <2>2 DEF Key, Goes
<1>7. x \in strays
  <2> SUFFICES ASSUME NEW g \in Hands, hand[g].pc \in {"back", "rollback"}, x \in Aside(g)
               PROVE  FALSE
    BY <1>3, <1>6 DEF FoldersInv, HiddenHasReason
  <2>1. hand[g].hidden \in Spelt \X (0 .. nonce - 1) \X (1 .. Attempts)
    BY DEF FoldersInv, HandFits
  <2>2. PICK n \in Spelt, i \in 0 .. nonce - 1, j \in 1 .. Attempts : hand[g].hidden = <<n, i, j>>
    BY <2>1
  <2>3. i \in 0 .. MaxNonce /\ i < nonce
    BY <1>1, <1>3, FoldersAssumption
  <2>4. Key(hand[g].hidden) = <<n, i, j>>
    BY <2>2, <2>3, KeySpelt
  <2>5. m = <<n, i, j>>
    BY <1>3, <1>6, <2>4 DEF Aside, At
  <2> QED BY <1>3, <2>3, <2>5
<1> QED BY <1>1, <1>4, <1>7 DEF GoesWith, Renaming

LEMMA SetBackLoses ==
    ASSUME FoldersInv, NEW h \in Hands, SetBack(h), NEW x \in Nodes, Goes(x)
    PROVE  GoesWith(h, x)
<1>1. /\ hand[h].pc = "back" /\ HandFits(h) /\ Undisturbed(h) /\ hand \in [Hands -> HandRecs]
      /\ hand[h].order.toName \in EntryNames
  BY OrderFields DEF FoldersInv, SetBack, HandAt, HandFits, EntryNames, Renaming
<1>2. PICK y \in Aside(h) : /\ MayMove(y, hand[h].dir, hand[h].order.toName)
                            /\ Moving(y, hand[h].dir, hand[h].order.toName)
                            /\ Release(h)
  BY DEF SetBack, Goes
<1>3. OthersRest(h) /\ hand'[h].pc = "free"
  BY <1>1, <1>2, ReleaseGoes, FreeFields
<1>4. x \in Target(h)
  <2>1. y \in Nodes /\ FolderAt(hand[h].dir)
    BY <1>1, <1>2 DEF Aside, At, HandFits
  <2> QED BY <1>1, <1>2, <2>1, MoveLoses DEF Target
<1> QED BY <1>1, <1>3, <1>4 DEF GoesWith, OthersRest, Renaming, Undisturbed

LEMMA RollbackLoses ==
    ASSUME FoldersInv, NEW h \in Hands, Rollback(h), NEW x \in Nodes, Goes(x)
    PROVE  GoesWith(h, x)
<1>1. /\ hand[h].pc = "rollback" /\ HandFits(h) /\ Undisturbed(h) /\ hand \in [Hands -> HandRecs]
      /\ hand[h].order.name \in EntryNames /\ hand[h].dir = hand[h].from /\ Release(h)
  BY OrderFields DEF FoldersInv, Rollback, HandAt, HandFits, EntryNames, Renaming
<1>2. PICK y \in Aside(h) : /\ MayMove(y, hand[h].dir, hand[h].order.name)
                            /\ Moving(y, hand[h].dir, hand[h].order.name)
  BY DEF Rollback, Goes
<1>3. OthersRest(h) /\ hand'[h].pc = "free"
  BY <1>1, ReleaseGoes, FreeFields
<1>4. x \in Source(h)
  <2>1. y \in Nodes /\ FolderAt(hand[h].dir)
    BY <1>1, <1>2 DEF Aside, At, HandFits
  <2> QED BY <1>1, <1>2, <2>1, MoveLoses DEF Source
<1> QED BY <1>1, <1>3, <1>4 DEF GoesWith, OthersRest, Renaming, Undisturbed

LEMMA RemoveEntryLoses ==
    ASSUME FoldersInv, NEW h \in Hands, NEW d, NEW n, NEW rest, RemoveEntry(h, d, n, rest),
           NEW x \in Nodes, Goes(x)
    PROVE  x \in At(d, n) /\ \A g \in Hands \ {h} : hand'[g] = hand[g]
<1>1. PICK y \in At(d, n) :
         /\ tree' = Without({y})
         /\ IF rest = <<>> THEN Release(h) ELSE hand' = [hand EXCEPT ![h].frames = rest]
  BY DEF RemoveEntry, Goes
<1>2. x = y
  BY <1>1, CutLoses
<1>3. \A g \in Hands \ {h} : hand'[g] = hand[g]
  BY <1>1 DEF FoldersInv, Release
<1> QED BY <1>1, <1>2, <1>3

LEMMA RemoveNamedLoses ==
    ASSUME FoldersInv, NEW h \in Hands, RemoveNamed(h), NEW x \in Nodes, Goes(x)
    PROVE  GoesWith(h, x)
<1>1. hand[h].pc = "delete" /\ Below(h)
  BY DEF FoldersInv, RemoveNamed, HandAt
<1>2. RemoveEntry(h, hand[h].dir, hand[h].order.name, <<>>)
  BY DEF RemoveNamed
<1>3. x \in At(hand[h].dir, hand[h].order.name) /\ \A g \in Hands \ {h} : hand'[g] = hand[g]
  BY <1>2, RemoveEntryLoses
<1> QED BY <1>1, <1>3 DEF GoesWith, Below, NamedBy, Renaming

LEMMA RemoveNextLoses ==
    ASSUME FoldersInv, NEW h \in Hands, RemoveNext(h), NEW x \in Nodes, Goes(x)
    PROVE  GoesWith(h, x)
<1> DEFINE f == Last(hand[h].frames)
           rest(n) == Append(Front(hand[h].frames), [f EXCEPT !.names = @ \ {n}])
<1>1. hand[h].pc = "empty" /\ Below(h)
  BY DEF FoldersInv, RemoveNext, HandAt
<1>2. PICK n : RemoveEntry(h, f.dir, n, rest(n))
  BY DEF RemoveNext, Goes
<1>3. f.dir \in inside[h]
  BY <1>1, InnerFrame DEF InFrame
<1> HIDE DEF f, rest
<1>4. x \in At(f.dir, n) /\ \A g \in Hands \ {h} : hand'[g] = hand[g]
  BY <1>2, RemoveEntryLoses
<1>5. x \in inside[h]
  BY <1>1, <1>3, <1>4 DEF At, Below
<1> QED BY <1>1, <1>4, <1>5 DEF GoesWith, Renaming

LEMMA RemoveEmptiedLoses ==
    ASSUME FoldersInv, NEW h \in Hands, RemoveEmptied(h), NEW x \in Nodes, Goes(x)
    PROVE  GoesWith(h, x)
<1> DEFINE f == Last(hand[h].frames)
<1>1. /\ hand[h].pc = "empty" /\ Below(h) /\ tree' = Without(Removable(f.up, f.name, TRUE))
      /\ \A g \in Hands \ {h} : hand'[g] = hand[g]
  BY DEF FoldersInv, RemoveEmptied, HandAt, Release
<1>2. InFrame(f, inside[h], hand[h])
  BY <1>1, InnerFrame
<1> HIDE DEF f
<1>3. x \in At(f.up, f.name)
  BY <1>1, CutLoses, RemovableFacts
<1>4. CASE f.up \in inside[h]
  BY <1>1, <1>3, <1>4 DEF At, Below, GoesWith, Renaming
<1>5. CASE f.up = hand[h].dir /\ f.name = hand[h].order.name
  BY <1>1, <1>3, <1>5 DEF NamedBy, Below, GoesWith, Renaming
<1> QED BY <1>2, <1>4, <1>5 DEF InFrame

LEMMA StepLoses ==
    ASSUME FoldersInv, NEW h \in Hands, HandStep(h), NEW x \in Nodes, Goes(x)
    PROVE  GoesWith(h, x)
<1>1. \/ MakeWay(h) \/ Create(h) \/ MoveFree(h) \/ Hold(h) \/ MoveOnto(h) \/ Confirm(h)
      \/ SetAside(h) \/ SetBack(h) \/ Rollback(h)
      \/ RemoveNamed(h) \/ RemoveNext(h) \/ RemoveEmptied(h)
  BY DEF HandStep, Goes, RefuseOrder, Take, Walk, StartPut, GiveUp, HoldSource, Compare, FindEntry
<1>2. ~MakeWay(h) /\ ~Create(h) /\ ~Hold(h)
  <2>1. \A kind, d, n, own : ~Added(kind, d, n, own)
    BY AddedLoses
  <2> QED BY <2>1 DEF MakeWay, Create, Hold, Goes
<1>3. ~MoveFree(h)
  <2> SUFFICES ASSUME MoveFree(h) PROVE FALSE
    OBVIOUS
  <2>1. PICK y \in Source(h) : /\ MayMove(y, hand[h].dir, hand[h].order.toName)
                               /\ Moving(y, hand[h].dir, hand[h].order.toName)
    BY DEF MoveFree
  <2>2. hand[h].pc = "move" /\ HandFits(h) /\ y \in Nodes
    BY <2>1 DEF FoldersInv, MoveFree, HandAt, Source, At
  <2>3. FolderAt(hand[h].dir) /\ hand[h].order.toName \in EntryNames
    BY <2>2, OrderFields DEF HandFits, EntryNames
  <2> QED BY <2>1, <2>2, <2>3, MoveLoses DEF MoveFree
<1> QED BY <1>1, <1>2, <1>3, MoveOntoLoses, ConfirmLoses, SetAsideLoses, SetBackLoses, RollbackLoses,
           RemoveNamedLoses, RemoveNextLoses, RemoveEmptiedLoses

\* Nothing goes but what a delete was given or found below that, and what a
\* rename may lose: a folder, a file of the server's own, what a hidden name was
\* left with, or a file whose name another request has changed meanwhile.
THEOREM GoesForReasonAlways == FoldersSpec => GoesForReason
<1> DEFINE Kept ==
       LET movers == {h \in Hands : hand[h].pc \in Renaming /\ hand'[h] # hand[h]} IN
       \A x \in Nodes : Goes(x) =>
          IF movers = {} THEN \E h \in Hands : hand[h].pc \in {"delete", "empty"} /\ x \in inside[h]
          ELSE movers \subseteq raced \/ x \in strays \/ IsFolder(x) \/ tree[x].blank
<1>1. FoldersInv /\ [FoldersNext]_folderVars => [Kept]_folderVars
  <2> SUFFICES ASSUME FoldersInv, FoldersNext PROVE Kept
    OBVIOUS
  <2> DEFINE movers == {h \in Hands : hand[h].pc \in Renaming /\ hand'[h] # hand[h]}
  <2> SUFFICES ASSUME NEW x \in Nodes, Goes(x)
               PROVE  IF movers = {}
                      THEN \E h \in Hands : hand[h].pc \in {"delete", "empty"} /\ x \in inside[h]
                      ELSE movers \subseteq raced \/ x \in strays \/ IsFolder(x) \/ tree[x].blank
    OBVIOUS
  <2>1. PICK h \in Hands : HandStep(h)
    BY DEF FoldersNext, Crash, Goes
  <2>2. GoesWith(h, x)
    BY <2>1, StepLoses
  <2>3. movers \subseteq {h}
    BY <2>2 DEF GoesWith
  <2>4. CASE hand[h].pc \in Renaming
    <3>1. h \in movers
      BY <2>2, <2>4 DEF GoesWith
    <3> QED BY <2>2, <2>3, <2>4, <3>1 DEF GoesWith
  <2>5. CASE hand[h].pc \notin Renaming
    <3>1. movers = {}
      BY <2>3, <2>5
    <3> QED BY <2>2, <2>5, <3>1 DEF GoesWith
  <2> QED BY <2>4, <2>5
<1> QED BY <1>1, FoldersInvAlways, PTL DEF FoldersSpec, GoesForReason

-----------------------------------------------------------------------------
(* The parts together *)

\* Put beside each other, the processes that serve, the folders, the browser and
\* the uploads stay well typed: none changes what another keeps.
THEOREM PartsTypes == PartsSpec => []PartsTypeOK
<1>1. PartsInit => Init /\ FoldersInit /\ CardsInit /\ RomUploadInit
  BY DEF PartsInit
<1>2. [PartsNext]_partVars => [Next]_vars
  BY DEF PartsNext, partVars
<1>3. [PartsNext]_partVars => [FoldersNext]_folderVars
  BY DEF PartsNext, partVars
<1>4. [PartsNext]_partVars => [CardsNext]_cardVars
  BY DEF PartsNext, partVars
<1>5. [PartsNext]_partVars => [RomUploadNext]_romUploadVars
  BY DEF PartsNext, partVars, UploadsNext
<1>6. QED
  BY <1>1, <1>2, <1>3, <1>4, <1>5, TypeCorrect, FoldersTypes, CardsTypes, UploadTypes, PTL
  DEF PartsSpec, Spec, FoldersSpec, CardsSpec, RomUploadSpec, PartsTypeOK
=============================================================================
