------------------------------- MODULE Folders ------------------------------
(***************************************************************************)
(* The folders of one card, as the file requests change them: a folder is  *)
(* made, an entry is renamed or moved, a folder is deleted with all that   *)
(* is in it, a file arrives (file_ops.c, routes_file_ops.c).  FileStore    *)
(* has the requests on the files of one folder.                            *)
(*                                                                         *)
(* A request walks to its folder name by name, without following links,    *)
(* and from then on holds the folder, wherever it is moved.  One system    *)
(* call is one action.  The file system folds case, as the card's does:    *)
(* names with one key are one name, and a rename from one spelling to      *)
(* another goes through a hidden name.  The process may die at any step.   *)
(***************************************************************************)
EXTENDS Integers, Sequences, FiniteSets, SequencesExt

CONSTANTS
    Hands,       \* CivetWeb worker threads
    Spelt,       \* names as clients write them
    Fold,        \* the key of each
    Trees,       \* the entries there may be at first
    Orders,      \* what clients send
    NoReplace,   \* what the file system may have: RENAME_NOREPLACE (TRUE), or not
    MaxNodes,    \* bound: inodes
    Attempts,    \* hidden names a case-only rename tries, 32
    MaxNonce,    \* bound: case-only renames of one process
    MaxOrders    \* bound: requests

Root == 0
Gone == -1

OrderKinds == {"mkdir", "put", "rename", "delete"}

\* path: the names that lead to the folder, name: the entry in it.
Order == [kind: OrderKinds, path: Seq(Spelt), name: Spelt, toPath: Seq(Spelt), toName: Spelt]

\* A tree the card may have, each folder listed before what is in it; and what
\* the server spells a hidden name (.csrename.<name>.<nonce>.<attempt>) no
\* client writes.
ASSUME FoldersAssumption ==
    /\ Fold \in [Spelt -> Spelt] /\ \A n \in Spelt : Fold[Fold[n]] = Fold[n]
    /\ \A T \in Trees :
          /\ T \in Seq([kind: {"file", "folder", "link"}, in: Nat, name: Spelt, to: Int, blank: {FALSE}])
          /\ Len(T) <= MaxNodes
          /\ \A x \in 1..Len(T) : T[x].in < x /\ (T[x].in # Root => T[T[x].in].kind = "folder")
          /\ \A x, y \in 1..Len(T) : T[x].in = T[y].in /\ Fold[T[x].name] = Fold[T[y].name] => x = y
    /\ \A n \in Spelt, k \in 0..MaxNonce, j \in 1..Attempts : <<n, k, j>> \notin Spelt
    /\ Orders \subseteq Order
    /\ NoReplace \subseteq BOOLEAN
    /\ MaxNodes \in Nat /\ MaxNonce \in Nat /\ MaxOrders \in Nat /\ Attempts \in Nat \ {0}

VARIABLES
    tree,    \* the inodes: what each is, and the folder and the name it has
    hand,    \* where each worker is in its request
    nonce,   \* g_write_nonce
    orders,  \* requests so far
    inside,  \* history: what a delete has had below the name it was given
    raced,   \* history: renames whose names another request has changed
    strays   \* history: entries left under a hidden name by a crash, or by
             \* a name that could not be given back

folderVars == <<tree, hand, nonce, orders, inside, raced, strays>>

Nodes == 1..Len(tree)

\* .csrename.<name>.<nonce>.<attempt>
Hidden(n, attempt) == <<n, nonce, attempt>>

NoOrder == [kind |-> "none", path |-> <<>>]

FreeHand == [pc |-> "free", order |-> NoOrder, dir |-> Root, left |-> <<>>, from |-> Root,
             src |-> Root, hidden |-> <<>>, frames |-> <<>>]

FoldersInit ==
    /\ tree \in Trees
    /\ hand = [h \in Hands |-> FreeHand]
    /\ nonce = 0
    /\ orders = 0
    /\ inside = [h \in Hands |-> {}]
    /\ raced = {}
    /\ strays = {}

-----------------------------------------------------------------------------
(* The file system *)

Key(n) == IF n \in Spelt THEN Fold[n] ELSE n

\* What a name leads to: one inode, or none.
At(d, n) == {x \in Nodes : tree[x].in = d /\ Key(tree[x].name) = Key(n)}

Children(d) == {x \in Nodes : tree[x].in = d}

IsFolder(x) == x # Root => tree[x].kind = "folder"

Stands(d) == d # Root => tree[d].in # Gone

\* x with the folders above it.
Line(x) ==
    LET up[y \in {Gone, Root} \cup Nodes] ==
            IF y \in {Gone, Root} THEN {y} ELSE {y} \cup up[tree[y].in]
    IN  up[x]

Node(kind, d, n, blank) == [kind |-> kind, in |-> d, name |-> n, to |-> Gone, blank |-> blank]

Added(kind, d, n, blank) == tree' = Append(tree, Node(kind, d, n, blank))

Without(X) == [x \in Nodes |-> IF x \in X THEN [tree[x] EXCEPT !.in = Gone] ELSE tree[x]]

\* rename(2): into a folder that stands, not into itself; over nothing, over a
\* file if it is no folder, and over an empty folder if it is one.
MayMove(x, d, n) ==
    /\ Stands(d) /\ x \notin Line(d)
    /\ \A y \in At(d, n) \ {x} :
          IF IsFolder(x) THEN IsFolder(y) /\ Children(y) = {} ELSE ~IsFolder(y)

Moving(x, d, n) ==
    tree' = [Without(At(d, n) \ {x}) EXCEPT ![x].in = d, ![x].name = n]

\* unlinkat, with AT_REMOVEDIR for a folder.
Removable(d, n, folder) ==
    {x \in At(d, n) : IsFolder(x) = folder /\ (folder => Children(x) = {})}

-----------------------------------------------------------------------------
(* Where a request is *)

HandAt(h, pc) == hand[h].pc = pc

To(h, pc) == hand' = [hand EXCEPT ![h].pc = pc]

\* Mutant: the folder's descriptor stays open.
Release_Open(h) == hand' = [hand EXCEPT ![h] = [FreeHand EXCEPT !.dir = hand[h].dir]]

\* The handler answers; its descriptors are closed.
Release(h) == hand' = [hand EXCEPT ![h] = FreeHand]

\* A request that is turned down (no trust, a path that may not be) changes
\* nothing.
RefuseOrder(h) == HandAt(h, "free") /\ UNCHANGED <<tree, hand, nonce, orders, strays>>

Take(h) ==
    /\ HandAt(h, "free") /\ orders < MaxOrders
    /\ orders' = orders + 1
    /\ \E o \in Orders :
          hand' = [hand EXCEPT ![h] = [FreeHand EXCEPT !.pc = IF o.kind = "put" THEN "prepare" ELSE "walk",
                                                   !.order = o, !.left = o.path]]
    /\ UNCHANGED <<tree, nonce, strays>>

\* cs_open_directory_under_root: the next component of the path.
Walk(h) ==
    /\ hand[h].pc \in {"walk", "walkTo", "prepare", "made"} /\ hand[h].left # <<>>
    /\ LET found == {x \in At(hand[h].dir, Head(hand[h].left)) : IsFolder(x)} IN
       \/ \E x \in found :
             hand' = [hand EXCEPT ![h].dir = x, ![h].left = Tail(@),
                                  ![h].pc = IF @ = "made" THEN "prepare" ELSE @]
       \/ found = {} /\ ~HandAt(h, "prepare") /\ Release(h)
    /\ UNCHANGED <<tree, nonce, orders, strays>>

\* cs_upload_prepare_directory_within_root: an upload makes the folders that are
\* missing, one by one ...
MakeWay(h) ==
    /\ HandAt(h, "prepare") /\ hand[h].left # <<>>
    /\ At(hand[h].dir, Head(hand[h].left)) = {}
    /\ Stands(hand[h].dir) /\ Len(tree) < MaxNodes
    /\ Added("folder", hand[h].dir, Head(hand[h].left), FALSE)
    /\ To(h, "made")
    /\ UNCHANGED <<nonce, orders, strays>>

\* ... and then walks the path again, to put its file.
StartPut(h) ==
    /\ HandAt(h, "prepare") /\ hand[h].left = <<>>
    /\ hand' = [hand EXCEPT ![h].pc = "walk", ![h].dir = Root, ![h].left = hand[h].order.path]
    /\ UNCHANGED <<tree, nonce, orders, strays>>

Arrived(h, pc) == HandAt(h, pc) /\ hand[h].left = <<>>

\* A system call fails where there is nothing to take back.
GiveUp(h) ==
    /\ hand[h].pc \in {"prepare", "made", "walk", "walkTo", "move", "aside", "delete", "empty"}
    /\ Release(h)
    /\ UNCHANGED <<tree, nonce, orders, strays>>

-----------------------------------------------------------------------------
(* New entries *)

\* mkdirat, or the last step of an upload that must not overwrite: a free name
\* in a folder that still stands.
Create(h) ==
    /\ Arrived(h, "walk") /\ hand[h].order.kind \in {"mkdir", "put"}
    /\ LET o == hand[h].order IN
       IF Stands(hand[h].dir) /\ At(hand[h].dir, o.name) = {}
       THEN /\ Len(tree) < MaxNodes
            /\ Added(IF o.kind = "mkdir" THEN "folder" ELSE "file", hand[h].dir, o.name, FALSE)
       ELSE UNCHANGED tree
    /\ Release(h)
    /\ UNCHANGED <<nonce, orders, strays>>

-----------------------------------------------------------------------------
(* Rename: cs_safe_rename_under_root_with_flags *)

\* The source is opened (never a link), and held; then the way to the target.
HoldSource(h) ==
    /\ Arrived(h, "walk") /\ hand[h].order.kind = "rename"
    /\ LET found == {x \in At(hand[h].dir, hand[h].order.name) : tree[x].kind # "link"} IN
       \/ \E x \in found :
             hand' = [hand EXCEPT ![h].pc = "walkTo", ![h].from = hand[h].dir, ![h].src = x,
                                  ![h].dir = Root, ![h].left = hand[h].order.toPath]
       \/ found = {} /\ Release(h)
    /\ UNCHANGED <<tree, nonce, orders, strays>>

\* cs_case_only_rename_needs_fallback: another spelling of the name it has.
Compare(h) ==
    /\ Arrived(h, "walkTo")
    /\ LET o == hand[h].order  d == hand[h].dir IN
       IF /\ o.name # o.toName /\ d = hand[h].from
          /\ At(d, o.toName) = {hand[h].src}
       THEN To(h, "aside")
       ELSE To(h, "move")
    /\ UNCHANGED <<tree, nonce, orders, strays>>

\* What a call of renameat moves: whatever is at the old name now.
Source(h) == At(hand[h].from, hand[h].order.name)

\* Mutant: plain renameat.
MoveFree_Over(h) ==
    /\ HandAt(h, "move")
    /\ TRUE \in NoReplace
    /\ \E x \in Source(h) :
          MayMove(x, hand[h].dir, hand[h].order.toName) /\ Moving(x, hand[h].dir, hand[h].order.toName)
    /\ To(h, "verify")
    /\ UNCHANGED <<nonce, orders, strays>>

\* renameat2 with RENAME_NOREPLACE.
MoveFree(h) ==
    /\ HandAt(h, "move")
    /\ TRUE \in NoReplace
    /\ At(hand[h].dir, hand[h].order.toName) = {}
    /\ \E x \in Source(h) :
          MayMove(x, hand[h].dir, hand[h].order.toName) /\ Moving(x, hand[h].dir, hand[h].order.toName)
    /\ To(h, "verify")
    /\ UNCHANGED <<nonce, orders, strays>>

\* Without it (and for a folder moved into itself, whose EINVAL is taken for a
\* missing flag): an empty file or folder of the server's own holds the name.
Hold(h) ==
    /\ HandAt(h, "move")
    /\ FALSE \in NoReplace \/ \E x \in Source(h) : x \in Line(hand[h].dir)
    /\ Stands(hand[h].dir) /\ At(hand[h].dir, hand[h].order.toName) = {}
    /\ Len(tree) < MaxNodes
    /\ Added(tree[hand[h].src].kind, hand[h].dir, hand[h].order.toName, TRUE)
    /\ To(h, "over")
    /\ UNCHANGED <<nonce, orders, strays>>

\* What the handler removes when a move has failed, or moved something else.
Cleanup(h) ==
    tree' = Without(Removable(hand[h].dir, hand[h].order.toName, IsFolder(hand[h].src)))

\* ... and the entry is moved over it, or it is removed again.
MoveOnto(h) ==
    /\ HandAt(h, "over")
    /\ \/ /\ \E x \in Source(h) :
                /\ MayMove(x, hand[h].dir, hand[h].order.toName)
                /\ Moving(x, hand[h].dir, hand[h].order.toName)
          /\ To(h, "verify")
       \/ Cleanup(h) /\ Release(h)
    /\ UNCHANGED <<nonce, orders, strays>>

\* cs_verify_renamed_entry
Confirm(h) ==
    /\ HandAt(h, "verify")
    /\ IF At(hand[h].dir, hand[h].order.toName) = {hand[h].src} THEN UNCHANGED tree ELSE Cleanup(h)
    /\ Release(h)
    /\ UNCHANGED <<nonce, orders, strays>>

\* cs_atomic_case_only_rename: to a hidden name ...
SetAside(h) ==
    /\ HandAt(h, "aside") /\ nonce < MaxNonce
    /\ nonce' = nonce + 1
    /\ \E x \in Source(h), k \in 1..Attempts :
          LET name(j) == Hidden(hand[h].order.toName, j) IN
          /\ MayMove(x, hand[h].dir, name(k))
          /\ \A j \in 1 .. k - 1 : ~MayMove(x, hand[h].dir, name(j))
          /\ Moving(x, hand[h].dir, name(k))
          /\ hand' = [hand EXCEPT ![h].pc = "back", ![h].hidden = name(k)]
    /\ UNCHANGED <<orders, strays>>

Aside(h) == At(hand[h].dir, hand[h].hidden)

\* Mutant: a failure is answered without the way back.
SetBack_Fail(h) ==
    /\ HandAt(h, "back")
    /\ \/ /\ \E x \in Aside(h) :
                /\ MayMove(x, hand[h].dir, hand[h].order.toName)
                /\ Moving(x, hand[h].dir, hand[h].order.toName)
          /\ Release(h)
       \/ Release(h) /\ UNCHANGED tree
    /\ UNCHANGED <<nonce, orders, strays>>

\* ... and from there to the new spelling.  The check that follows only decides
\* the answer.
SetBack(h) ==
    /\ HandAt(h, "back")
    /\ \/ /\ \E x \in Aside(h) :
                /\ MayMove(x, hand[h].dir, hand[h].order.toName)
                /\ Moving(x, hand[h].dir, hand[h].order.toName)
          /\ Release(h)
       \/ To(h, "rollback") /\ UNCHANGED tree
    /\ UNCHANGED <<nonce, orders, strays>>

\* The old name is given back, unless it is taken by now.
Rollback(h) ==
    /\ HandAt(h, "rollback")
    /\ \/ /\ \E x \in Aside(h) :
                /\ MayMove(x, hand[h].dir, hand[h].order.name)
                /\ Moving(x, hand[h].dir, hand[h].order.name)
          /\ UNCHANGED strays
       \/ /\ \A x \in Aside(h) : ~MayMove(x, hand[h].dir, hand[h].order.name)
          /\ strays' = strays \cup Aside(h)
          /\ UNCHANGED tree
    /\ Release(h)
    /\ UNCHANGED <<nonce, orders>>

-----------------------------------------------------------------------------
(* Delete: cs_delete_entry_at, a frame per folder it is in *)

\* names: what readdir has still to report of the folder.
Frame(d, up, n) ==
    [dir |-> d, up |-> up, name |-> n, names |-> {tree[x].name : x \in Children(d)}]

\* Mutant: stat in place of lstat: a link to a folder is gone into.
RemoveEntry_Through(h, d, n, rest) ==
    \E x \in At(d, n) :
       LET y == IF tree[x].kind = "link" THEN tree[x].to ELSE x IN
       IF IsFolder(y)
       THEN /\ hand' = [hand EXCEPT ![h].pc = "empty", ![h].frames = Append(rest, Frame(y, d, n))]
            /\ UNCHANGED tree
       ELSE /\ tree' = Without({x})
            /\ IF rest = <<>> THEN Release(h) ELSE hand' = [hand EXCEPT ![h].frames = rest]

\* A folder is opened through its parent and emptied first; a file or a link is
\* unlinked.  (fstatat and the call after it as one step: what the name leads to
\* in between decides the second call as well.)
RemoveEntry(h, d, n, rest) ==
    \E x \in At(d, n) :
       IF IsFolder(x)
       THEN /\ hand' = [hand EXCEPT ![h].pc = "empty", ![h].frames = Append(rest, Frame(x, d, n))]
            /\ UNCHANGED tree
       ELSE /\ tree' = Without({x})
            /\ IF rest = <<>> THEN Release(h) ELSE hand' = [hand EXCEPT ![h].frames = rest]

\* The entry is there ...
FindEntry(h) ==
    /\ Arrived(h, "walk") /\ hand[h].order.kind = "delete"
    /\ At(hand[h].dir, hand[h].order.name) # {}
    /\ To(h, "delete")
    /\ UNCHANGED <<tree, nonce, orders, strays>>

\* ... and goes, if it still is.
RemoveNamed(h) ==
    /\ HandAt(h, "delete")
    /\ RemoveEntry(h, hand[h].dir, hand[h].order.name, <<>>)
    /\ UNCHANGED <<nonce, orders, strays>>

\* readdir: a name that was there when the folder was opened, or came since.
\* One that is gone ends the request.
RemoveNext(h) ==
    /\ HandAt(h, "empty")
    /\ LET f == Last(hand[h].frames) IN
       \E n \in f.names \cup {tree[x].name : x \in Children(f.dir)} :
          \/ RemoveEntry(h, f.dir, n, Append(Front(hand[h].frames), [f EXCEPT !.names = @ \ {n}]))
          \/ At(f.dir, n) = {} /\ Release(h) /\ UNCHANGED tree
    /\ UNCHANGED <<nonce, orders, strays>>

\* Read to the end: the folder goes, if it is empty and still at its name, and
\* otherwise the request ends.
RemoveEmptied(h) ==
    /\ HandAt(h, "empty")
    /\ LET f == Last(hand[h].frames)
           gone == Removable(f.up, f.name, TRUE)
       IN  /\ f.names = {}
           /\ tree' = Without(gone)
           /\ IF gone = {} \/ Len(hand[h].frames) = 1
              THEN Release(h)
              ELSE hand' = [hand EXCEPT ![h].frames = Front(@)]
    /\ UNCHANGED <<nonce, orders, strays>>

-----------------------------------------------------------------------------

HandStep(h) ==
    \/ RefuseOrder(h) \/ Take(h) \/ Walk(h) \/ MakeWay(h) \/ StartPut(h)
    \/ GiveUp(h) \/ Create(h)
    \/ HoldSource(h) \/ Compare(h) \/ MoveFree(h) \/ Hold(h) \/ MoveOnto(h) \/ Confirm(h)
    \/ SetAside(h) \/ SetBack(h) \/ Rollback(h)
    \/ FindEntry(h) \/ RemoveNamed(h) \/ RemoveNext(h) \/ RemoveEmptied(h)

Renaming == {"walkTo", "move", "over", "verify", "aside", "back", "rollback"}

\* The names of a rename, once it has opened what it is to move.
Ends(h) == {<<hand[h].from, hand[h].order.name>>, <<hand[h].dir, hand[h].order.toName>>}

\* What the name a delete was given leads to now.
NamedBy(h) == At(hand[h].dir, hand[h].order.name)

\* What the histories see of a step of h.
Watch(h) ==
    /\ inside' = [g \in Hands |->
          IF hand'[g].pc \notin {"delete", "empty"} THEN {}
          ELSE LET named == inside[g] \cup NamedBy(g)'
               IN  named \cup {x \in Nodes' : named \cap Line(x)' # {}}]
    /\ raced' = {g \in Hands :
          /\ hand'[g].pc \in Renaming
          /\ \/ g \in raced
             \/ g # h /\ \E e \in Ends(g) : At(e[1], e[2])' # At(e[1], e[2])}

\* The process dies and is started again: what is under a hidden name stays.
Crash ==
    /\ \E h \in Hands : hand[h] # FreeHand
    /\ hand' = [h \in Hands |-> FreeHand]
    /\ nonce' = 0
    /\ strays' = strays \cup UNION {Aside(h) : h \in {g \in Hands : hand[g].pc \in {"back", "rollback"}}}
    /\ inside' = [h \in Hands |-> {}]
    /\ raced' = {}
    /\ UNCHANGED <<tree, orders>>

FoldersNext == (\E h \in Hands : HandStep(h) /\ Watch(h)) \/ Crash

FoldersSpec == FoldersInit /\ [][FoldersNext]_folderVars

-----------------------------------------------------------------------------
(* Properties *)

\* Entries are in folders that stand, two names of a folder never have one key,
\* and a worker without a request holds no folder open.
FoldersTypeOK ==
    /\ Len(tree) <= MaxNodes
    /\ \A x \in Nodes :
          /\ tree[x].kind \in {"file", "folder", "link"}
          /\ tree[x].in # Gone => IsFolder(tree[x].in) /\ Root \in Line(x)
          /\ tree[x].in # Gone => At(tree[x].in, tree[x].name) = {x}
    /\ \A h \in Hands :
          /\ hand[h].pc \in {"free", "prepare", "made", "walk", "delete", "empty"} \cup Renaming
          /\ hand[h].order \in Orders \cup {NoOrder}
          /\ HandAt(h, "free") => hand[h] = FreeHand
          /\ HandAt(h, "empty") <=> hand[h].frames # <<>>
    /\ nonce \in 0..MaxNonce /\ orders \in 0..MaxOrders
    /\ inside \in [Hands -> SUBSET Nodes]
    /\ raced \subseteq Hands
    /\ strays \subseteq Nodes

Goes(x) == tree[x].in # Gone /\ tree'[x].in = Gone

\* No entry goes that nobody asked to delete.  What a delete removes is what its
\* name led to, or was below that, at some time since it began, wherever its
\* folders are moved meanwhile, and never what a link leads to
\* (cs_delete_entry_at goes by descriptors and O_NOFOLLOW).  No rename loses a
\* file, its own or another's, unless another request has changed one of its two
\* names since it opened the source (the windows of cs_atomic_rename_no_replace
\* and cs_atomic_case_only_rename), or the file was lost under a hidden name.
GoesForReason ==
    [][LET movers == {h \in Hands : hand[h].pc \in Renaming /\ hand'[h] # hand[h]} IN
       \A x \in Nodes : Goes(x) =>
          IF movers = {} THEN \E h \in Hands : hand[h].pc \in {"delete", "empty"} /\ x \in inside[h]
          ELSE movers \subseteq raced \/ x \in strays \/ IsFolder(x) \/ tree[x].blank]_folderVars

\* An entry is under a hidden name only while its rename is at work; what stays
\* there was left by a crash, or found both its names taken.
HiddenHasReason ==
    \A x \in Nodes :
        tree[x].in # Gone /\ tree[x].name \notin Spelt =>
            x \in strays
            \/ \E h \in Hands : hand[h].pc \in {"back", "rollback"} /\ x \in Aside(h)
=============================================================================
