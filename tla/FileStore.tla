------------------------------ MODULE FileStore -----------------------------
(***************************************************************************)
(* One folder of the card, as the file requests change it: upload (with    *)
(* and without overwrite), edit, rename, delete and Replace Art            *)
(* (routes_upload.c, routes_file_ops.c, uploads.c, file_ops.c, art.c).     *)
(*                                                                         *)
(* CivetWeb's workers run the requests side by side, and nothing but the   *)
(* file system orders them: one system call is one action.  A file is an   *)
(* inode; one that was there before is known by its name.  New content is  *)
(* staged in a file of the request's own and moved to its name at the end. *)
(* The process may die at any step.                                        *)
(***************************************************************************)
EXTENDS Integers, Sequences, FiniteSets, SequencesExt

CONSTANTS
    Threads,     \* CivetWeb worker threads
    Names,       \* names in the folder
    NoFile,      \* what a free name leads to
    Spellings,   \* the names one game's artwork may have, as cleanup probes them
    Requests,    \* what clients send
    Native,      \* what the file system may have: RENAME_NOREPLACE (TRUE), or not
    MaxFiles     \* bound: files created

Kinds == {"upload", "overwrite", "edit", "rename", "delete", "art"}

\* names: where an upload's files go; a rename's old and new name; one name else.
Request == [kind: Kinds, names: Seq(Names)]

ASSUME FileStoreAssumption ==
    /\ NoFile \notin Names
    /\ \A f \in 1..MaxFiles : f \notin Names \cup {NoFile}
    /\ Spellings \in Seq(Names) \ {<<>>}
    /\ Requests \subseteq Request
    /\ \A r \in Requests : r.names # <<>> /\ (r.kind = "rename" => Len(r.names) = 2)
    /\ Native \subseteq BOOLEAN
    /\ MaxFiles \in Nat

VARIABLES
    dir,      \* the file each name leads to
    staged,   \* files in the staging folder, and the editor's own temporary ones
    blank,    \* files that are empty placeholders
    thr,      \* where each worker thread is in its request
    made,     \* files created so far
    orphans   \* history: staged files and placeholders a crash left

vars == <<dir, staged, blank, thr, made, orphans>>

Files == Names \cup 1..MaxFiles

NoRequest == [kind |-> "delete", names |-> <<>>]

Idle == [pc |-> "idle", req |-> NoRequest, at |-> 1, files |-> <<>>]

ThreadState ==
    [pc: {"idle", "promote", "over", "verify", "replace", "check", "unlink", "keep", "probe"},
     req: Request \cup {NoRequest},
     at: Nat \ {0},          \* the file of the upload, or the spelling, it is at
     files: Seq(Files)]      \* its staged files, the source of a rename, the art to keep

\* A file is at one name at most, and no longer staged once it has one.
TypeOK ==
    /\ dir \in [Names -> Files \cup {NoFile}]
    /\ staged \subseteq 1..made
    /\ blank \subseteq 1..made
    /\ thr \in [Threads -> ThreadState]
    /\ made \in 0..MaxFiles
    /\ orphans \subseteq 1..made
    /\ \A n \in Names : dir[n] \notin staged
    /\ \A m, n \in Names : dir[m] = dir[n] /\ dir[n] # NoFile => m = n

Init ==
    /\ dir \in {d \in [Names -> Names \cup {NoFile}] : \A n \in Names : d[n] \in {n, NoFile}}
    /\ staged = {}
    /\ blank = {}
    /\ thr = [t \in Threads |-> Idle]
    /\ made = 0
    /\ orphans = {}

-----------------------------------------------------------------------------
(* Where a request is *)

PcIs(t, pc) == thr[t].pc = pc

KindIn(t, kinds) == thr[t].req.kind \in kinds

Own(t) == thr[t].files[thr[t].at]

Dest(t) == IF KindIn(t, {"rename"}) THEN thr[t].req.names[2] ELSE thr[t].req.names[thr[t].at]

Goto(t, pc) == thr' = [thr EXCEPT ![t].pc = pc]

Answer(t) == thr' = [thr EXCEPT ![t] = Idle]

\* Mutant: the file that failed is not taken out of the staging folder.
Fail_FromNext(t) ==
    /\ Answer(t)
    /\ staged' = staged \ {thr[t].files[i] : i \in thr[t].at + 1 .. Len(thr[t].files)}

\* The request fails: what it still has staged is removed.
Fail(t) ==
    /\ Answer(t)
    /\ staged' = staged \ {thr[t].files[i] : i \in thr[t].at .. Len(thr[t].files)}

\* The file it is at is in place: the next one, the cleanup, or the answer.
Done(t) ==
    IF thr[t].at < Len(thr[t].files)
    THEN thr' = [thr EXCEPT ![t].at = thr[t].at + 1,
                            ![t].pc = IF KindIn(t, {"upload"}) THEN "promote" ELSE "replace"]
    ELSE IF KindIn(t, {"art"}) THEN Goto(t, "keep") ELSE Answer(t)

New(k) == [i \in 1..k |-> made + i]

-----------------------------------------------------------------------------
(* Starting a request *)

\* A request that is turned down (no trust, a bad path, too large, a format the
\* launcher would not list, a full card) leaves the folder alone.
Refuse(t) == PcIs(t, "idle") /\ UNCHANGED vars

\* The form's files are stored under names of their own, outside the folder.
Stage(t) ==
    /\ PcIs(t, "idle")
    /\ \E r \in Requests :
          LET k == Len(r.names) IN
          /\ r.kind \in {"upload", "overwrite", "art"}
          /\ made + k <= MaxFiles
          /\ made' = made + k
          /\ staged' = staged \cup ToSet(New(k))
          /\ thr' = [thr EXCEPT ![t] =
                        [pc |-> IF r.kind = "upload" THEN "promote" ELSE "replace",
                         req |-> r, at |-> 1, files |-> New(k)]]
    /\ UNCHANGED <<dir, blank, orphans>>

\* cs_safe_write_under_root_with_flags: only a file that is there is edited.
OpenTarget(t) ==
    /\ PcIs(t, "idle")
    /\ made < MaxFiles
    /\ \E r \in Requests :
          /\ r.kind = "edit"
          /\ dir[r.names[1]] # NoFile
          /\ made' = made + 1
          /\ staged' = staged \cup {made + 1}
          /\ thr' = [thr EXCEPT ![t] = [pc |-> "replace", req |-> r, at |-> 1, files |-> New(1)]]
    /\ UNCHANGED <<dir, blank, orphans>>

\* cs_safe_rename_under_root_with_flags: the source is opened, and held.
OpenSource(t) ==
    /\ PcIs(t, "idle")
    /\ \E r \in Requests :
          /\ r.kind = "rename"
          /\ dir[r.names[1]] # NoFile
          /\ thr' = [thr EXCEPT ![t] = [pc |-> "promote", req |-> r, at |-> 1,
                                        files |-> <<dir[r.names[1]]>>]]
    /\ UNCHANGED <<dir, staged, blank, made, orphans>>

\* cs_safe_delete_under_root_with_flags: the name is looked up ...
FindTarget(t) ==
    /\ PcIs(t, "idle")
    /\ \E r \in Requests :
          /\ r.kind = "delete"
          /\ dir[r.names[1]] # NoFile
          /\ thr' = [thr EXCEPT ![t] = [pc |-> "unlink", req |-> r, at |-> 1, files |-> <<>>]]
    /\ UNCHANGED <<dir, staged, blank, made, orphans>>

\* ... and whatever it leads to now is removed, or cannot be.
Unlink(t) ==
    /\ PcIs(t, "unlink")
    /\ dir' \in {dir, [dir EXCEPT ![thr[t].req.names[1]] = NoFile]}
    /\ Answer(t)
    /\ UNCHANGED <<staged, blank, made, orphans>>

-----------------------------------------------------------------------------
(* Moving a file to a name that must be free: cs_upload_promote, and rename *)

\* Mutant: the file gets its name and keeps its place in the staging folder.
Moved_Linked(t) ==
    /\ IF KindIn(t, {"rename"})
       THEN LET from == thr[t].req.names[1] IN
            /\ dir[from] # NoFile
            /\ dir' = [dir EXCEPT ![Dest(t)] = dir[from], ![from] = NoFile]
       ELSE dir' = [dir EXCEPT ![Dest(t)] = Own(t)]
    /\ UNCHANGED staged

\* rename(2): a rename moves whatever is at the old name now.
Moved(t) ==
    IF KindIn(t, {"rename"})
    THEN LET from == thr[t].req.names[1] IN
         /\ dir[from] # NoFile
         /\ dir' = [dir EXCEPT ![Dest(t)] = dir[from], ![from] = NoFile]
         /\ UNCHANGED staged
    ELSE /\ dir' = [dir EXCEPT ![Dest(t)] = Own(t)]
         /\ staged' = staged \ {Own(t)}

\* renameat2 with RENAME_NOREPLACE.
MoveNoReplace(t) ==
    /\ TRUE \in Native
    /\ PcIs(t, "promote")
    /\ \/ dir[Dest(t)] = NoFile /\ Moved(t) /\ Goto(t, "verify")
       \/ Fail(t) /\ UNCHANGED dir
    /\ UNCHANGED <<blank, made, orphans>>

\* Mutant: the placeholder is opened without O_EXCL.
Reserve_Shared(t) ==
    /\ FALSE \in Native
    /\ PcIs(t, "promote")
    /\ \/ /\ made < MaxFiles
          /\ made' = made + 1
          /\ blank' = blank \cup {made + 1}
          /\ dir' = [dir EXCEPT ![Dest(t)] = IF dir[Dest(t)] = NoFile THEN made + 1 ELSE @]
          /\ Goto(t, "over")
          /\ UNCHANGED staged
       \/ Fail(t) /\ UNCHANGED <<dir, blank, made>>
    /\ UNCHANGED orphans

\* Without it: the name is reserved by creating a placeholder with O_EXCL ...
Reserve(t) ==
    /\ FALSE \in Native
    /\ PcIs(t, "promote")
    /\ \/ /\ dir[Dest(t)] = NoFile
          /\ made < MaxFiles
          /\ made' = made + 1
          /\ blank' = blank \cup {made + 1}
          /\ dir' = [dir EXCEPT ![Dest(t)] = made + 1]
          /\ Goto(t, "over")
          /\ UNCHANGED staged
       \/ Fail(t) /\ UNCHANGED <<dir, blank, made>>
    /\ UNCHANGED orphans

\* Mutant: the placeholder of a move that failed stays.
MoveOver_Left(t) ==
    /\ PcIs(t, "over")
    /\ \/ Moved(t) /\ Goto(t, "verify")
       \/ Fail(t) /\ UNCHANGED dir
    /\ UNCHANGED <<blank, made, orphans>>

\* ... and the file is moved over it, or the name is freed again.
MoveOver(t) ==
    /\ PcIs(t, "over")
    /\ \/ Moved(t) /\ Goto(t, "verify")
       \/ Fail(t) /\ dir' = [dir EXCEPT ![Dest(t)] = NoFile]
    /\ UNCHANGED <<blank, made, orphans>>

\* The name must lead to the file that was moved; if not, it is freed.
Verify(t) ==
    /\ PcIs(t, "verify")
    /\ IF dir[Dest(t)] = Own(t)
       THEN Done(t) /\ UNCHANGED <<dir, staged>>
       ELSE Fail(t) /\ dir' = [dir EXCEPT ![Dest(t)] = NoFile]
    /\ UNCHANGED <<blank, made, orphans>>

-----------------------------------------------------------------------------
(* Moving a file over the one that is there: cs_upload_promote_replace,     *)
(* cs_atomic_rename_replace                                                 *)

MoveReplace(t) ==
    /\ PcIs(t, "replace")
    /\ \/ Moved(t) /\ Goto(t, "check")
       \/ Fail(t) /\ UNCHANGED dir
    /\ UNCHANGED <<blank, made, orphans>>

Check(t) ==
    /\ PcIs(t, "check")
    /\ IF dir[Dest(t)] = Own(t) THEN Done(t) /\ UNCHANGED staged ELSE Fail(t)
    /\ UNCHANGED <<dir, blank, made, orphans>>

-----------------------------------------------------------------------------
(* Replace Art: cs_art_remove_siblings *)

\* The art to keep is the one the name leads to now.
FindKept(t) ==
    /\ PcIs(t, "keep")
    /\ LET kept == dir[thr[t].req.names[1]] IN
       \/ kept # NoFile
          /\ thr' = [thr EXCEPT ![t].pc = "probe", ![t].at = 1, ![t].files = <<kept>>]
       \/ Answer(t)                                    \* art_cleanup_incomplete
    /\ UNCHANGED <<dir, staged, blank, made, orphans>>

\* One spelling after the other; a file that cannot be removed stays.
Probe(t) ==
    /\ PcIs(t, "probe")
    /\ LET n == Spellings[thr[t].at] IN
       \/ UNCHANGED dir
       \/ dir[n] # thr[t].files[1] /\ dir' = [dir EXCEPT ![n] = NoFile]
    /\ IF thr[t].at < Len(Spellings)
       THEN thr' = [thr EXCEPT ![t].at = thr[t].at + 1]
       ELSE Answer(t)
    /\ UNCHANGED <<staged, blank, made, orphans>>

-----------------------------------------------------------------------------

\* The process dies and is started again.  Nothing looks for what it left.
Die ==
    /\ \E t \in Threads : thr[t] # Idle
    /\ thr' = [t \in Threads |-> Idle]
    /\ orphans' = orphans \cup staged \cup {f \in blank : \E n \in Names : dir[n] = f}
    /\ UNCHANGED <<dir, staged, blank, made>>

Handle(t) ==
    \/ Refuse(t) \/ Stage(t) \/ OpenTarget(t) \/ OpenSource(t) \/ FindTarget(t)
    \/ Unlink(t) \/ MoveNoReplace(t) \/ Reserve(t) \/ MoveOver(t) \/ Verify(t)
    \/ MoveReplace(t) \/ Check(t) \/ FindKept(t) \/ Probe(t)

Next == (\E t \in Threads : Handle(t)) \/ Die

Spec == Init /\ [][Next]_vars

-----------------------------------------------------------------------------
(* Properties *)

Whole(f) == f # NoFile /\ f \notin blank

\* The requests whose sender asked for the file at a name to go away, or to be
\* replaced by one of theirs.
MayRemove(r, n) ==
    \/ r.kind \in {"delete", "rename"} /\ n = r.names[1]
    \/ r.kind = "art" /\ n \in ToSet(Spellings)

MayReplace(r, n) == r.kind \in {"overwrite", "edit", "art"} /\ n \in ToSet(r.names)

\* A file stays where it is, whole, until a request that was asked to do so
\* removes it or puts its own in its place, in one step.
KeptUntilAsked ==
    [][\A n \in Names :
          Whole(dir[n]) /\ dir'[n] # dir[n] =>
              \E t \in Threads :
                 /\ thr'[t] # thr[t]
                 /\ \/ dir'[n] = NoFile /\ MayRemove(thr[t].req, n)
                    \/ dir'[n] \in ToSet(thr[t].files) /\ MayReplace(thr[t].req, n)]_vars

\* Each way out of a handler takes what it staged out of the staging folder,
\* and an empty placeholder is at a name only while a request holds that name:
\* only a crash leaves either behind.
NothingLeftBehind ==
    /\ \A f \in staged \ orphans : \E t \in Threads : f \in ToSet(thr[t].files)
    /\ \A n \in Names :
          dir[n] \in blank \ orphans => \E t \in Threads : PcIs(t, "over") /\ Dest(t) = n

\* "the promoted file is always kept": replacing a game's art leaves it art.
ArtStays ==
    [][(\E n \in ToSet(Spellings) : Whole(dir[n]))
          => \E n \in ToSet(Spellings) : Whole(dir'[n])]_vars
=============================================================================
