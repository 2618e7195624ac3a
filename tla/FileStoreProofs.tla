-------------------------- MODULE FileStoreProofs ---------------------------
(***************************************************************************)
(* Proofs about FileStore, for any number of workers, names and requests:  *)
(* its types, with no file at two names; that whatever is staged has an    *)
(* owner; and, for requests whose names are apart, that no placeholder is  *)
(* left behind and no file is lost that nobody asked to be removed; and    *)
(* when replacing a game's art leaves it art.                              *)
(***************************************************************************)
EXTENDS FileStore, SequenceTheorems, TLAPS

-----------------------------------------------------------------------------
(* The folder *)

Listings == [Names -> Files \cup {NoFile}]

\* The first k files are in use: none is at two names, none at a name and
\* staged.
DirOK(d, s, k) ==
    /\ d \in Listings
    /\ \A n \in Names : d[n] \in Names \cup {NoFile} \cup 1..k
    /\ \A n \in Names : d[n] \notin s
    /\ \A m, n \in Names : d[m] = d[n] /\ d[n] # NoFile => m = n

\* Files are counted as they are created.
Counted ==
    /\ made \in 0..MaxFiles
    /\ staged \subseteq 1..made /\ blank \subseteq 1..made /\ orphans \subseteq 1..made
    /\ blank \cap staged = {}

\* A file that is created is no name's.
LEMMA FileFacts ==
    /\ MaxFiles \in Nat /\ NoFile \notin Names
    /\ \A f \in 1..MaxFiles : f \notin Names /\ f # NoFile
BY FileStoreAssumption

LEMMA CountedFiles ==
    ASSUME Counted
    PROVE  /\ made \in Nat /\ made <= MaxFiles /\ MaxFiles \in Nat
           /\ \A f \in staged : f \in 1..made /\ f \in Files
           /\ NoFile \notin staged
<1>1. made \in Nat /\ made <= MaxFiles /\ MaxFiles \in Nat
  BY FileFacts DEF Counted
<1>2. \A f \in staged : f \in 1..made /\ f \in 1..MaxFiles
  BY <1>1 DEF Counted
<1>3. QED
  BY <1>1, <1>2, FileFacts DEF Files

LEMMA NoFileIsThere ==
    ASSUME Counted
    PROVE  NoFile \notin blank /\ \A n \in Names : n \notin blank
<1>1. made \in Nat /\ made <= MaxFiles /\ MaxFiles \in Nat
  BY CountedFiles
<1>2. \A f \in blank : f \in 1..MaxFiles
  BY <1>1 DEF Counted
<1>3. QED
  BY <1>2, FileFacts

\* A staged file gets a name.
LEMMA PutStaged ==
    ASSUME DirOK(dir, staged, made), Counted, NEW n \in Names, NEW f \in staged,
           dir' = [dir EXCEPT ![n] = f]
    PROVE  /\ DirOK(dir', staged \ {f}, made) /\ dir'[n] = f
           /\ \A m \in Names \ {n} : dir'[m] = dir[m]
<1>1. f \in 1..made /\ f \in Files
  BY CountedFiles
<1>2. dir \in Listings
  BY DEF DirOK
<1>3. dir' \in Listings /\ dir'[n] = f /\ \A m \in Names \ {n} : dir'[m] = dir[m]
  BY <1>1, <1>2 DEF Listings
<1>4. DirOK(dir', staged \ {f}, made)
  BY <1>1, <1>3 DEF DirOK
<1>5. QED
  BY <1>3, <1>4

\* A new file gets a name.
LEMMA PutNew ==
    ASSUME DirOK(dir, staged, made), Counted, made < MaxFiles, NEW n \in Names,
           dir' = [dir EXCEPT ![n] = made + 1]
    PROVE  /\ DirOK(dir', staged, made + 1) /\ dir'[n] = made + 1
           /\ \A m \in Names \ {n} : dir'[m] = dir[m]
<1>1. /\ made + 1 \in 1..MaxFiles /\ made + 1 \in Files /\ made + 1 \notin staged
      /\ made + 1 \in 1..(made + 1)
      /\ \A i \in 1..made : i \in 1..(made + 1) /\ i # made + 1
  BY CountedFiles DEF Files
<1>2. dir \in Listings
  BY DEF DirOK
<1>3. dir' \in Listings /\ dir'[n] = made + 1 /\ \A m \in Names \ {n} : dir'[m] = dir[m]
  BY <1>1, <1>2 DEF Listings
<1>4. \A m \in Names : dir[m] # made + 1
  BY <1>1, FileFacts DEF DirOK
<1>5. DirOK(dir', staged, made + 1)
  BY <1>1, <1>3, <1>4 DEF DirOK
<1>6. QED
  BY <1>3, <1>5

\* A file goes from one name to another.
LEMMA MoveName ==
    ASSUME DirOK(dir, staged, made), Counted, NEW n \in Names, NEW m \in Names,
           dir' = [dir EXCEPT ![n] = dir[m], ![m] = NoFile]
    PROVE  /\ DirOK(dir', staged, made) /\ dir'[m] = NoFile /\ (m # n => dir'[n] = dir[m])
           /\ \A l \in Names \ {m, n} : dir'[l] = dir[l]
<1>1. dir \in Listings /\ dir[m] \in Files \cup {NoFile}
  BY DEF DirOK, Listings
<1>2. /\ dir' \in Listings /\ (m # n => dir'[n] = dir[m]) /\ dir'[m] = NoFile
      /\ \A l \in Names \ {m, n} : dir'[l] = dir[l]
  BY <1>1 DEF Listings
<1>3. \A l \in Names : dir'[l] \in Names \cup {NoFile} \cup 1..made /\ dir'[l] \notin staged
  BY <1>2, CountedFiles DEF DirOK
<1>4. ASSUME NEW l \in Names, NEW j \in Names, dir'[l] = dir'[j], dir'[j] # NoFile
      PROVE  l = j
  <2>1. \A a, b \in Names : dir[a] = dir[b] /\ dir[b] # NoFile => a = b
    BY DEF DirOK
  <2>2. l # m /\ j # m
    BY <1>2, <1>4
  <2>3. dir'[l] = dir[IF l = n THEN m ELSE l] /\ dir'[j] = dir[IF j = n THEN m ELSE j]
    BY <1>2, <2>2
  <2>4. (IF l = n THEN m ELSE l) = (IF j = n THEN m ELSE j)
    BY <1>4, <2>1, <2>3
  <2>5. QED
    BY <2>2, <2>4
<1>5. DirOK(dir', staged, made)
  BY <1>2, <1>3, <1>4 DEF DirOK
<1>6. QED
  BY <1>2, <1>5

\* A name is freed.
LEMMA FreeName ==
    ASSUME DirOK(dir, staged, made), Counted, NEW n, dir' = [dir EXCEPT ![n] = NoFile]
    PROVE  /\ DirOK(dir', staged, made)
           /\ \A m \in Names : dir'[m] = IF m = n THEN NoFile ELSE dir[m]
<1>1. dir \in Listings
  BY DEF DirOK
<1>2. dir' \in Listings /\ \A m \in Names : dir'[m] = IF m = n THEN NoFile ELSE dir[m]
  BY <1>1 DEF Listings
<1>3. DirOK(dir', staged, made)
  BY <1>2, CountedFiles DEF DirOK
<1>4. QED
  BY <1>2, <1>3

\* Files are staged, or no longer staged.
LEMMA StageMore ==
    ASSUME DirOK(dir, staged, made), Counted, NEW s, NEW k \in Nat, made <= k, k <= MaxFiles,
           s \subseteq staged \cup (made + 1 .. k)
    PROVE  DirOK(dir, s, k)
<1>1. \A i \in made + 1 .. k : i \in 1..MaxFiles /\ i \notin 1..made
  BY CountedFiles
<1>2. \A i \in 1..made : i \in 1..k
  BY CountedFiles
<1>3. \A n \in Names : dir[n] \notin made + 1 .. k
  BY <1>1, FileFacts DEF DirOK
<1>4. QED
  BY <1>2, <1>3 DEF DirOK

-----------------------------------------------------------------------------
(* Where a request is *)

Pcs == {"idle", "promote", "over", "verify", "replace", "check", "unlink", "keep", "probe"}
Promoting == {"promote", "over", "replace"}
Placed == {"verify", "check"}
Workers == [Threads -> ThreadState]

\* The files of the request that are still staged: those it has not moved.
Left(t) == IF KindIn(t, {"rename"}) THEN {}
           ELSE IF thr[t].pc \in Promoting THEN thr[t].at .. Len(thr[t].files)
           ELSE IF thr[t].pc \in Placed THEN thr[t].at + 1 .. Len(thr[t].files)
           ELSE {}

Holds(t) == {thr[t].files[i] : i \in Left(t)}

\* What a handler knows of its own request.
AtWork(t) ==
    /\ thr[t].pc \in {"promote", "over", "verify"} => KindIn(t, {"upload", "rename"})
    /\ thr[t].pc \in {"replace", "check"} => KindIn(t, {"overwrite", "edit", "art"})
    /\ thr[t].pc = "unlink" => KindIn(t, {"delete"})
    /\ thr[t].pc \in {"keep", "probe"} => KindIn(t, {"art"})
    /\ thr[t].pc # "idle" => thr[t].req \in Requests
    /\ thr[t].pc \in Promoting \cup Placed =>
          /\ thr[t].at <= Len(thr[t].files)
          /\ Len(thr[t].files) <= Len(thr[t].req.names)
          /\ KindIn(t, {"rename"}) => Len(thr[t].files) = 1
          /\ Own(t) \in Names \cup 1..made
          /\ thr[t].pc \in Placed \/ KindIn(t, {"rename"}) => Own(t) \notin staged
    /\ thr[t].pc = "probe" => thr[t].at <= Len(Spellings)

\* Every staged file is some request's, and of one request only, but for what
\* a crash left.
StagedInv ==
    /\ \A t \in Threads : Holds(t) \subseteq staged \ orphans
    /\ \A f \in staged \ orphans : \E t \in Threads : f \in Holds(t)
    /\ \A t, u \in Threads : t # u => Holds(t) \cap Holds(u) = {}
    /\ \A t \in Threads : \A i, j \in Left(t) : thr[t].files[i] = thr[t].files[j] => i = j

FilesInv ==
    /\ DirOK(dir, staged, made)
    /\ Counted
    /\ thr \in Workers
    /\ \A t \in Threads : AtWork(t)
    /\ StagedInv

Stays(t) == \A u \in Threads \ {t} : thr'[u] = thr[u]

LEMMA ThreadFields ==
    ASSUME NEW w \in Workers, NEW t \in Threads
    PROVE  /\ w[t].pc \in Pcs /\ w[t].at \in Nat /\ w[t].at >= 1
           /\ w[t].req \in Request \cup {NoRequest} /\ w[t].files \in Seq(Files)
<1>1. w[t] \in ThreadState
  BY DEF Workers
<1>2. QED
  BY <1>1 DEF ThreadState, Pcs

LEMMA RequestFields ==
    ASSUME NEW r \in Requests
    PROVE  /\ r \in Request /\ r.kind \in Kinds /\ r.names \in Seq(Names)
           /\ Len(r.names) \in Nat /\ Len(r.names) >= 1 /\ r.names[1] \in Names
           /\ r.kind = "rename" => Len(r.names) = 2 /\ r.names[2] \in Names
           /\ \A i \in 1..Len(r.names) : r.names[i] \in Names
<1>1. r \in Request /\ r.names # <<>> /\ (r.kind = "rename" => Len(r.names) = 2)
  BY FileStoreAssumption
<1>2. r.kind \in Kinds /\ r.names \in Seq(Names)
  BY <1>1 DEF Request
<1>3. Len(r.names) \in Nat /\ Len(r.names) >= 1
  BY <1>1, <1>2, EmptySeq
<1>4. QED
  BY <1>1, <1>2, <1>3

\* Where a moving request's file goes is a name.
LEMMA DestIsName ==
    ASSUME thr \in Workers, NEW t \in Threads, AtWork(t), thr[t].pc \in Promoting \cup Placed
    PROVE  /\ Dest(t) \in Names /\ thr[t].req \in Requests /\ thr[t].req.names[1] \in Names
           /\ thr[t].at \in 1..Len(thr[t].files)
<1>1. /\ thr[t].req \in Requests /\ thr[t].at <= Len(thr[t].files)
      /\ Len(thr[t].files) <= Len(thr[t].req.names)
  BY DEF AtWork, Promoting, Placed
<1>2. thr[t].at \in Nat /\ thr[t].at >= 1 /\ thr[t].files \in Seq(Files)
  BY ThreadFields
<1>3. Len(thr[t].files) \in Nat
  BY <1>2
<1>4. thr[t].at \in 1..Len(thr[t].req.names)
  BY <1>1, <1>2, <1>3, RequestFields
<1>5. QED
  BY <1>1, <1>2, <1>3, <1>4, RequestFields DEF Dest, KindIn

LEMMA AnswerEnds ==
    ASSUME thr \in Workers, NEW t \in Threads, Answer(t)
    PROVE  thr' \in Workers /\ thr'[t] = Idle /\ Stays(t)
<1>1. Idle \in ThreadState
  BY DEF Idle, ThreadState
<1>2. QED
  BY <1>1 DEF Answer, Workers, Stays

LEMMA GotoGoes ==
    ASSUME thr \in Workers, NEW t \in Threads, NEW pc \in Pcs, Goto(t, pc)
    PROVE  /\ thr' \in Workers /\ Stays(t) /\ thr'[t].pc = pc /\ thr'[t].at = thr[t].at
           /\ thr'[t].req = thr[t].req /\ thr'[t].files = thr[t].files
<1>1. thr[t] \in ThreadState
  BY DEF Workers
<1>2. [thr[t] EXCEPT !.pc = pc] \in ThreadState
  BY <1>1 DEF ThreadState, Pcs
<1>3. thr' = [thr EXCEPT ![t] = [thr[t] EXCEPT !.pc = pc]]
  BY DEF Goto
<1>4. thr' \in Workers /\ Stays(t) /\ thr'[t] = [thr[t] EXCEPT !.pc = pc]
  BY <1>2, <1>3 DEF Workers, Stays
<1>5. QED
  BY <1>1, <1>4 DEF ThreadState

\* The file is in place: the next one, the cleanup, or the answer.
LEMMA DoneGoes ==
    ASSUME thr \in Workers, NEW t \in Threads, Done(t)
    PROVE  /\ thr' \in Workers /\ Stays(t)
           /\ \/ thr'[t] = Idle /\ thr[t].at >= Len(thr[t].files)
              \/ /\ thr'[t].pc = "keep" /\ KindIn(t, {"art"}) /\ thr'[t].req = thr[t].req
                 /\ thr[t].at >= Len(thr[t].files)
              \/ /\ thr'[t].at = thr[t].at + 1 /\ thr[t].at < Len(thr[t].files)
                 /\ thr'[t].req = thr[t].req /\ thr'[t].files = thr[t].files
                 /\ thr'[t].pc = IF KindIn(t, {"upload"}) THEN "promote" ELSE "replace"
<1>0. thr[t].at \in Nat /\ thr[t].at >= 1 /\ Len(thr[t].files) \in Nat /\ thr[t] \in ThreadState
  <2>1. thr[t].files \in Seq(Files)
    BY ThreadFields
  <2>2. QED
    BY <2>1, ThreadFields DEF Workers
<1>1. CASE thr[t].at < Len(thr[t].files)
  <2> DEFINE pc == IF KindIn(t, {"upload"}) THEN "promote" ELSE "replace"
             rec == [thr[t] EXCEPT !.at = thr[t].at + 1, !.pc = pc]
  <2>1. thr' = [thr EXCEPT ![t] = rec]
    BY <1>1 DEF Done
  <2>2. rec \in ThreadState
    <3>1. pc \in Pcs /\ thr[t].at + 1 \in Nat \ {0}
      BY <1>0 DEF Pcs
    <3> HIDE DEF pc
    <3>2. QED
      BY <1>0, <3>1 DEF ThreadState, Pcs
  <2>3. thr' \in Workers /\ Stays(t) /\ thr'[t] = rec
    BY <2>1, <2>2 DEF Workers, Stays
  <2>4. rec.at = thr[t].at + 1 /\ rec.pc = pc /\ rec.req = thr[t].req /\ rec.files = thr[t].files
    BY <1>0 DEF ThreadState
  <2>5. QED
    BY <1>1, <2>3, <2>4
<1>2. CASE ~(thr[t].at < Len(thr[t].files))
  <2>1. thr[t].at >= Len(thr[t].files)
    BY <1>0, <1>2
  <2>2. CASE KindIn(t, {"art"}) /\ Goto(t, "keep")
    BY <2>1, <2>2, GotoGoes DEF Pcs
  <2>3. CASE Answer(t)
    BY <2>1, <2>3, AnswerEnds
  <2>4. QED
    BY <1>2, <2>2, <2>3 DEF Done
<1>3. QED
  BY <1>1, <1>2

-----------------------------------------------------------------------------
(* Steps of one worker *)

\* A step leaves the other workers' requests as they are.
LEMMA OthersWork ==
    ASSUME FilesInv, NEW t \in Threads, Stays(t),
           made' \in Nat, made <= made', made' <= MaxFiles,
           staged' \subseteq staged \cup (made + 1 .. made')
    PROVE  \A u \in Threads \ {t} :
              /\ AtWork(u)' /\ Holds(u)' = Holds(u) /\ Left(u)' = Left(u)
              /\ thr'[u] = thr[u]
<1> SUFFICES ASSUME NEW u \in Threads \ {t}
             PROVE  /\ AtWork(u)' /\ Holds(u)' = Holds(u) /\ Left(u)' = Left(u)
                    /\ thr'[u] = thr[u]
  OBVIOUS
<1>1. thr'[u] = thr[u]
  BY DEF Stays
<1>2. Left(u)' = Left(u)
  BY <1>1 DEF Left, KindIn
<1>3. Holds(u)' = Holds(u)
  BY <1>1, <1>2 DEF Holds
<1>4. AtWork(u) /\ made \in Nat /\ MaxFiles \in Nat /\ made <= MaxFiles
  BY FileFacts DEF FilesInv, Counted
<1>5. Own(u)' = Own(u)
  BY <1>1 DEF Own
<1>6. Own(u) \in Names \cup 1..made => Own(u) \notin made + 1 .. made'
  BY <1>4, FileFacts
<1>7. Own(u) \in Names \cup 1..made /\ Own(u) \notin staged => Own(u) \notin staged'
  BY <1>6
<1>8. Own(u) \in Names \cup 1..made => Own(u) \in Names \cup 1..made'
  BY <1>4
<1>9. AtWork(u)'
  BY <1>1, <1>4, <1>5, <1>7, <1>8 DEF AtWork, KindIn
<1>10. QED
  BY <1>1, <1>2, <1>3, <1>9

\* A step that stages and removes files of its own request only.
LEMMA StagedKeeps ==
    ASSUME FilesInv, NEW t \in Threads, Stays(t), UNCHANGED orphans,
           made' \in Nat, made <= made', made' <= MaxFiles,
           staged' \subseteq staged \cup (made + 1 .. made'),
           \A f \in Holds(t)' : f \in staged' /\ f \in Holds(t) \cup (made + 1 .. made'),
           staged' \ staged \subseteq Holds(t)',
           staged \ staged' \subseteq Holds(t),
           Holds(t) \cap staged' \subseteq Holds(t)',
           \A i, j \in Left(t)' : thr'[t].files[i] = thr'[t].files[j] => i = j
    PROVE  StagedInv'
<1>0. StagedInv /\ Counted /\ made \in Nat
  BY DEF FilesInv, Counted
<1>1. \A u \in Threads \ {t} :
         Holds(u)' = Holds(u) /\ Left(u)' = Left(u) /\ thr'[u] = thr[u]
  BY OthersWork
<1>2. \A f \in made + 1 .. made' : f \notin staged /\ f \notin orphans
  BY <1>0 DEF Counted
<1>3. ASSUME NEW u \in Threads PROVE Holds(u)' \subseteq staged' \ orphans
  <2>1. CASE u = t
    BY <1>0, <1>2, <2>1 DEF StagedInv
  <2>2. CASE u # t
    BY <1>0, <1>1, <2>2 DEF StagedInv
  <2>3. QED
    BY <2>1, <2>2
<1>4. ASSUME NEW f \in staged' \ orphans PROVE \E u \in Threads : f \in Holds(u)'
  <2>1. CASE f \in staged
    <3>1. PICK u \in Threads : f \in Holds(u)
      BY <1>0, <2>1 DEF StagedInv
    <3>2. CASE u = t
      BY <3>1, <3>2
    <3>3. CASE u # t
      BY <1>1, <3>1, <3>3
    <3>4. QED
      BY <3>2, <3>3
  <2>2. CASE f \notin staged
    BY <2>2
  <2>3. QED
    BY <2>1, <2>2
<1>5. ASSUME NEW u \in Threads, NEW v \in Threads, u # v
      PROVE  Holds(u)' \cap Holds(v)' = {}
  <2>1. \A w \in Threads \ {t} : Holds(w)' \cap Holds(t)' = {}
    BY <1>0, <1>1, <1>2 DEF StagedInv
  <2>2. CASE u # t /\ v # t
    BY <1>0, <1>1, <1>5, <2>2 DEF StagedInv
  <2>3. QED
    BY <1>5, <2>1, <2>2
<1>6. ASSUME NEW u \in Threads, NEW i \in Left(u)', NEW j \in Left(u)',
             thr'[u].files[i] = thr'[u].files[j]
      PROVE  i = j
  BY <1>0, <1>1, <1>6 DEF StagedInv
<1>7. QED
  BY <1>3, <1>4, <1>5, <1>6 DEF StagedInv

LEMMA StepKeeps ==
    ASSUME FilesInv, NEW t \in Threads, Stays(t), thr' \in Workers, UNCHANGED orphans,
           made' \in Nat, made <= made', made' <= MaxFiles,
           staged' \subseteq staged \cup (made + 1 .. made'),
           blank' \subseteq blank \cup (made + 1 .. made'), blank' \cap staged' = {},
           DirOK(dir', staged', made'), AtWork(t)', StagedInv'
    PROVE  FilesInv'
<1>1. Counted /\ made \in Nat
  BY DEF FilesInv, Counted
<1>2. Counted'
  BY <1>1 DEF Counted
<1>3. \A u \in Threads : AtWork(u)'
  BY OthersWork
<1>4. QED
  BY <1>2, <1>3 DEF FilesInv

\* A step that neither stages nor removes anything.
LEMMA QuietKeeps ==
    ASSUME FilesInv, NEW t \in Threads, Stays(t), thr' \in Workers,
           UNCHANGED <<staged, blank, made, orphans>>, DirOK(dir', staged, made),
           AtWork(t)',
           Holds(t)' = Holds(t),
           Left(t)' = {} \/ (Left(t)' = Left(t) /\ thr'[t].files = thr[t].files)
    PROVE  FilesInv'
<1>1. /\ Counted /\ StagedInv /\ made \in Nat /\ made <= MaxFiles
      /\ staged \subseteq 1..made /\ blank \cap staged = {}
  BY DEF FilesInv, Counted
<1>2. Holds(t) \subseteq staged
  BY <1>1 DEF StagedInv
<1>3. \A i, j \in Left(t)' : thr'[t].files[i] = thr'[t].files[j] => i = j
  BY <1>1 DEF StagedInv
<1>4. StagedInv'
  BY <1>1, <1>2, <1>3, StagedKeeps
<1>5. QED
  BY <1>1, <1>4, StepKeeps

\* The request fails, whatever it does to the folder.
LEMMA FailKeeps ==
    ASSUME FilesInv, NEW t \in Threads, thr[t].pc \in Promoting \cup Placed, Fail(t),
           UNCHANGED <<blank, made, orphans>>, DirOK(dir', staged, made)
    PROVE  /\ FilesInv' /\ Stays(t) /\ thr'[t] = Idle
<1>1. /\ Counted /\ StagedInv /\ made \in Nat /\ made <= MaxFiles /\ thr \in Workers
      /\ staged \subseteq 1..made /\ blank \cap staged = {} /\ AtWork(t)
  BY DEF FilesInv, Counted
<1>2. thr' \in Workers /\ thr'[t] = Idle /\ Stays(t)
  BY <1>1, AnswerEnds DEF Fail
<1>3. Left(t)' = {} /\ Holds(t)' = {}
  BY <1>2 DEF Left, Holds, KindIn, Idle, NoRequest, Promoting, Placed
<1>4. staged' = staged \ Holds(t)
  <2>0. /\ thr[t].at \in Nat /\ thr[t].at >= 1 /\ thr[t].files \in Seq(Files) /\ Len(thr[t].files) \in Nat
        /\ thr[t].at <= Len(thr[t].files)
    BY <1>1, ThreadFields, DestIsName
  <2>1. CASE KindIn(t, {"rename"})
    <3>1. Len(thr[t].files) = 1 /\ Own(t) \notin staged
      BY <1>1, <2>1 DEF AtWork
    <3>2. \A i \in thr[t].at .. Len(thr[t].files) : thr[t].files[i] = Own(t)
      BY <2>0, <3>1 DEF Own
    <3>3. Holds(t) = {}
      BY <2>1 DEF Holds, Left
    <3>4. QED
      BY <3>1, <3>2, <3>3 DEF Fail
  <2>2. CASE ~KindIn(t, {"rename"}) /\ thr[t].pc \in Promoting
    BY <2>2 DEF Fail, Holds, Left
  <2>3. CASE ~KindIn(t, {"rename"}) /\ thr[t].pc \in Placed
    <3>1. Own(t) \notin staged /\ thr[t].pc \notin Promoting
      BY <1>1, <2>3 DEF AtWork, Promoting, Placed
    <3>2. Holds(t) = {thr[t].files[i] : i \in thr[t].at + 1 .. Len(thr[t].files)}
      BY <2>3, <3>1 DEF Holds, Left
    <3>3. \A i \in thr[t].at .. Len(thr[t].files) :
             i = thr[t].at \/ i \in thr[t].at + 1 .. Len(thr[t].files)
      BY <2>0
    <3>4. \A i \in thr[t].at + 1 .. Len(thr[t].files) : i \in thr[t].at .. Len(thr[t].files)
      BY <2>0
    <3>5. QED
      BY <3>1, <3>2, <3>3, <3>4 DEF Fail, Own
  <2>4. QED
    BY <2>1, <2>2, <2>3
<1>5. AtWork(t)'
  BY <1>2 DEF AtWork, Idle, Promoting, Placed
<1>6. Holds(t) \subseteq staged
  BY <1>1 DEF StagedInv
<1>7. StagedInv'
  BY <1>1, <1>2, <1>3, <1>4, <1>6, StagedKeeps
<1>8. DirOK(dir', staged', made')
  BY <1>4 DEF DirOK
<1>9. staged' \subseteq staged /\ blank' \cap staged' = {}
  BY <1>1, <1>4
<1>10. FilesInv'
  BY <1>1, <1>2, <1>5, <1>7, <1>8, <1>9, StepKeeps
<1>11. QED
  BY <1>2, <1>10

\* What a move does to the folder.
LEMMA MovedGoes ==
    ASSUME FilesInv, NEW t \in Threads, thr[t].pc \in Promoting, Moved(t)
    PROVE  /\ DirOK(dir', staged', made) /\ staged' = staged \ {Own(t)}
           /\ ~KindIn(t, {"rename"}) =>
                 /\ Own(t) \in staged /\ dir'[Dest(t)] = Own(t)
                 /\ \A n \in Names \ {Dest(t)} : dir'[n] = dir[n]
           /\ KindIn(t, {"rename"}) =>
                 LET from == thr[t].req.names[1] IN
                 /\ dir[from] # NoFile /\ dir'[from] = NoFile
                 /\ from # Dest(t) => dir'[Dest(t)] = dir[from]
                 /\ \A n \in Names \ {Dest(t), from} : dir'[n] = dir[n]
<1>1. /\ Counted /\ StagedInv /\ made \in 0..MaxFiles /\ thr \in Workers
      /\ staged \subseteq 1..made /\ AtWork(t) /\ DirOK(dir, staged, made)
  BY DEF FilesInv, Counted
<1>2. Dest(t) \in Names /\ thr[t].req.names[1] \in Names /\ thr[t].at \in 1..Len(thr[t].files)
  BY <1>1, DestIsName
<1>3. NoFile \notin staged
  BY <1>1, CountedFiles
<1>4. CASE KindIn(t, {"rename"})
  <2>1. Own(t) \notin staged
    BY <1>1, <1>4 DEF AtWork
  <2> DEFINE from == thr[t].req.names[1]
  <2>2. /\ dir[from] # NoFile /\ staged' = staged
        /\ dir' = [dir EXCEPT ![Dest(t)] = dir[from], ![from] = NoFile]
    BY <1>4 DEF Moved
  <2>3. from \in Names
    BY <1>2
  <2> HIDE DEF from
  <2>4. /\ DirOK(dir', staged, made) /\ dir'[from] = NoFile
        /\ from # Dest(t) => dir'[Dest(t)] = dir[from]
        /\ \A n \in Names \ {Dest(t), from} : dir'[n] = dir[n]
    BY <1>1, <1>2, <1>3, <2>2, <2>3, MoveName
  <2>5. staged' = staged \ {Own(t)}
    BY <2>1, <2>2
  <2>6. QED
    BY <1>4, <2>2, <2>4, <2>5 DEF from
<1>5. CASE ~KindIn(t, {"rename"})
  <2>1. Own(t) \in Holds(t)
    <3>1. thr[t].at \in Left(t)
      BY <1>2, <1>5 DEF Left
    <3>2. QED
      BY <3>1 DEF Holds, Own
  <2>2. Own(t) \in staged
    BY <1>1, <2>1 DEF StagedInv
  <2>3. dir' = [dir EXCEPT ![Dest(t)] = Own(t)] /\ staged' = staged \ {Own(t)}
    BY <1>5 DEF Moved
  <2>4. /\ DirOK(dir', staged \ {Own(t)}, made) /\ dir'[Dest(t)] = Own(t)
        /\ \A n \in Names \ {Dest(t)} : dir'[n] = dir[n]
    BY <1>1, <1>2, <2>2, <2>3, PutStaged
  <2>5. QED
    BY <1>5, <2>2, <2>3, <2>4
<1>6. QED
  BY <1>4, <1>5

\* A file that is in place is held no more.
LEMMA MovedKeeps ==
    ASSUME FilesInv, NEW t \in Threads, thr[t].pc \in Promoting, Moved(t), NEW pc \in Placed,
           Goto(t, pc), pc = IF thr[t].pc = "replace" THEN "check" ELSE "verify",
           UNCHANGED <<blank, made, orphans>>
    PROVE  FilesInv'
<1>1. /\ Counted /\ StagedInv /\ made \in Nat /\ made <= MaxFiles /\ thr \in Workers
      /\ staged \subseteq 1..made /\ blank \cap staged = {} /\ AtWork(t)
  BY DEF FilesInv, Counted
<1>2. /\ thr' \in Workers /\ Stays(t) /\ thr'[t].pc = pc /\ thr'[t].at = thr[t].at
      /\ thr'[t].req = thr[t].req /\ thr'[t].files = thr[t].files
  BY <1>1, GotoGoes DEF Pcs, Placed
<1>3. DirOK(dir', staged', made) /\ staged' = staged \ {Own(t)}
  BY MovedGoes
<1>4. AtWork(t)'
  BY <1>1, <1>2, <1>3 DEF AtWork, Own, KindIn, Promoting, Placed
<1>5. thr[t].at \in 1..Len(thr[t].files)
  BY <1>1, DestIsName
<1>6. pc \notin Promoting /\ Len(thr[t].files) \in Nat
  <2>1. thr[t].files \in Seq(Files)
    BY <1>1, ThreadFields
  <2>2. QED
    BY <2>1 DEF Promoting, Placed
<1>7. /\ Left(t)' \subseteq Left(t)
      /\ Holds(t)' = Holds(t) \ {Own(t)}
      /\ Holds(t) \subseteq staged
      /\ \A i, j \in Left(t)' : thr'[t].files[i] = thr'[t].files[j] => i = j
  <2>0. Holds(t) \subseteq staged
    BY <1>1 DEF StagedInv
  <2>1. CASE KindIn(t, {"rename"})
    <3>1. Left(t)' = {} /\ Left(t) = {}
      BY <1>2, <2>1 DEF Left, KindIn
    <3>2. QED
      BY <2>0, <3>1 DEF Holds
  <2>2. CASE ~KindIn(t, {"rename"})
    <3>1. /\ Left(t)' = thr[t].at + 1 .. Len(thr[t].files)
          /\ Left(t) = thr[t].at .. Len(thr[t].files)
      BY <1>2, <1>6, <2>2 DEF Left, KindIn
    <3>2. /\ \A i \in Left(t)' : i \in Left(t) /\ i # thr[t].at
          /\ \A i \in Left(t) : i = thr[t].at \/ i \in Left(t)'
          /\ thr[t].at \in Left(t)
      BY <1>5, <1>6, <3>1
    <3>3. \A i, j \in Left(t) : thr[t].files[i] = thr[t].files[j] => i = j
      BY <1>1 DEF StagedInv
    <3>4. QED
      BY <1>2, <2>0, <3>2, <3>3 DEF Holds, Own
  <2>3. QED
    BY <2>1, <2>2
<1>8. StagedInv'
  <2>1. /\ staged' \subseteq staged /\ staged' \ staged \subseteq Holds(t)'
        /\ Holds(t) \cap staged' \subseteq Holds(t)'
        /\ \A f \in Holds(t)' : f \in staged' /\ f \in Holds(t)
    BY <1>3, <1>7
  <2>2. staged \ staged' \subseteq Holds(t)
    <3>1. CASE KindIn(t, {"rename"})
      BY <1>1, <1>3, <3>1 DEF AtWork
    <3>2. CASE ~KindIn(t, {"rename"})
      <4>1. thr[t].at \in Left(t)
        BY <1>5, <3>2 DEF Left
      <4>2. QED
        BY <1>3, <4>1 DEF Holds, Own
    <3>3. QED
      BY <3>1, <3>2
  <2>3. QED
    BY <1>1, <1>2, <1>7, <2>1, <2>2, StagedKeeps
<1>9. QED
  BY <1>1, <1>2, <1>3, <1>4, <1>8, StepKeeps

\* Whoever is in no move holds nothing.
LEMMA HoldsNothing ==
    ASSUME NEW t \in Threads, thr[t].pc \notin Promoting \cup Placed \/ KindIn(t, {"rename"})
    PROVE  Left(t) = {} /\ Holds(t) = {}
  BY DEF Left, Holds

\* The same, of where a step takes its worker.
LEMMA HoldsNothingNext ==
    ASSUME NEW t \in Threads,
           thr'[t].pc \notin Promoting \cup Placed \/ thr'[t].req.kind = "rename"
    PROVE  Left(t)' = {} /\ Holds(t)' = {}
  BY DEF Left, Holds, KindIn

LEMMA NewFiles ==
    ASSUME Counted, NEW k \in Nat, made + k <= MaxFiles
    PROVE  /\ New(k) \in Seq(Files) /\ Len(New(k)) = k
           /\ \A i \in 1..k : New(k)[i] = made + i
           /\ ToSet(New(k)) = made + 1 .. made + k
<1>1. made \in Nat
  BY CountedFiles
<1>2. \A i \in 1..k : made + i \in 1..MaxFiles /\ made + i \in Files
  BY <1>1, FileFacts DEF Files
<1>3. New(k) \in Seq(Files) /\ Len(New(k)) = k /\ DOMAIN New(k) = 1..k
  BY <1>2 DEF New
<1>4. \A i \in 1..k : New(k)[i] = made + i
  BY DEF New
<1>5. \A f \in made + 1 .. made + k : f - made \in 1..k /\ f = made + (f - made)
  BY <1>1
<1>6. \A i \in 1..k : made + i \in made + 1 .. made + k
  BY <1>1
<1>7. ToSet(New(k)) = made + 1 .. made + k
  BY <1>3, <1>4, <1>5, <1>6 DEF ToSet
<1>8. QED
  BY <1>3, <1>4, <1>7

\* A request stages its files, and begins.
LEMMA StartKeeps ==
    ASSUME FilesInv, NEW t \in Threads, thr[t].pc = "idle", NEW r \in Requests,
           NEW k \in Nat, k >= 1, k <= Len(r.names), made + k <= MaxFiles, made' = made + k,
           staged' = staged \cup ToSet(New(k)), NEW pc \in {"promote", "replace"},
           r.kind \in IF pc = "promote" THEN {"upload"} ELSE {"overwrite", "edit", "art"},
           thr' = [thr EXCEPT ![t] = [pc |-> pc, req |-> r, at |-> 1, files |-> New(k)]],
           UNCHANGED <<dir, blank, orphans>>
    PROVE  FilesInv'
<1>1. /\ Counted /\ StagedInv /\ made \in Nat /\ thr \in Workers
      /\ DirOK(dir, staged, made) /\ r \in Request
  BY RequestFields DEF FilesInv, Counted
<1>2. /\ New(k) \in Seq(Files) /\ Len(New(k)) = k /\ (\A i \in 1..k : New(k)[i] = made + i)
      /\ ToSet(New(k)) = made + 1 .. made + k
  BY <1>1, NewFiles
<1> DEFINE rec == [pc |-> pc, req |-> r, at |-> 1, files |-> New(k)]
<1>3. rec \in ThreadState
  BY <1>1, <1>2 DEF ThreadState
<1>4. /\ thr' \in Workers /\ Stays(t) /\ thr'[t] = rec
  BY <1>1, <1>3 DEF Workers, Stays
<1>5. /\ thr'[t].pc = pc /\ thr'[t].req = r /\ thr'[t].at = 1 /\ thr'[t].files = New(k)
  BY <1>4
<1> HIDE DEF rec
<1>6. Left(t)' = 1..k /\ Left(t) = {} /\ Holds(t) = {}
  <2>1. Left(t) = {} /\ Holds(t) = {}
    BY HoldsNothing DEF Promoting, Placed
  <2>2. Left(t)' = 1..k
    BY <1>2, <1>5 DEF Left, KindIn, Promoting
  <2>3. QED
    BY <2>1, <2>2
<1>7. Holds(t)' = made + 1 .. made + k
  <2>1. Holds(t)' = {New(k)[i] : i \in 1..k}
    BY <1>5, <1>6 DEF Holds
  <2>2. DOMAIN New(k) = 1..k
    BY DEF New
  <2>3. QED
    BY <1>2, <2>1, <2>2 DEF ToSet
<1>8. /\ made' \in Nat /\ made <= made' /\ made' <= MaxFiles
      /\ staged' = staged \cup (made + 1 .. made')
  BY <1>1, <1>2
<1>9. StagedInv'
  <2>1. \A i, j \in Left(t)' : thr'[t].files[i] = thr'[t].files[j] => i = j
    BY <1>1, <1>2, <1>5, <1>6
  <2>2. \A f \in Holds(t)' : f \in staged' /\ f \in made + 1 .. made'
    BY <1>7, <1>8
  <2>3. staged' \ staged \subseteq Holds(t)' /\ staged \ staged' = {}
    BY <1>7, <1>8
  <2>4. QED
    BY <1>4, <1>6, <1>8, <2>1, <2>2, <2>3, StagedKeeps
<1>10. DirOK(dir', staged', made')
  BY <1>1, <1>8, StageMore
<1>11. AtWork(t)'
  <2>1. Own(t)' = made + 1
    BY <1>2, <1>5 DEF Own
  <2>2. made + 1 \in 1..made'
    BY <1>1
  <2>3. QED
    BY <1>2, <1>5, <2>1, <2>2 DEF AtWork, KindIn, Promoting, Placed
<1>12. blank' \cap staged' = {}
  <2>1. \A f \in made + 1 .. made' : f \notin 1..made
    BY <1>1, <1>8
  <2>2. QED
    BY <1>1, <1>8, <2>1 DEF Counted
<1>13. QED
  BY <1>4, <1>8, <1>9, <1>10, <1>11, <1>12, StepKeeps

\* The way of a request that stages nothing.
LEMMA UnstagedKeeps ==
    ASSUME FilesInv, NEW t \in Threads, Stays(t), thr' \in Workers,
           UNCHANGED <<staged, blank, made, orphans>>, DirOK(dir', staged, made),
           Left(t) = {}, Left(t)' = {}, AtWork(t)'
    PROVE  FilesInv'
<1>1. Holds(t) = {} /\ Holds(t)' = {}
  BY DEF Holds
<1>2. Holds(t)' = Holds(t)
  BY <1>1
<1>3. QED
  BY <1>2, QuietKeeps

LEMMA OpenSourceKeeps ==
    ASSUME FilesInv, NEW t \in Threads, OpenSource(t)
    PROVE  FilesInv'
<1>1. thr \in Workers /\ DirOK(dir, staged, made) /\ thr[t].pc = "idle"
  BY DEF FilesInv, OpenSource, PcIs
<1>2. PICK r \in Requests :
         /\ r.kind = "rename" /\ dir[r.names[1]] # NoFile
         /\ thr' = [thr EXCEPT ![t] = [pc |-> "promote", req |-> r, at |-> 1,
                                       files |-> <<dir[r.names[1]]>>]]
  BY DEF OpenSource
<1>3. r \in Request /\ r.names[1] \in Names /\ Len(r.names) = 2
  BY <1>2, RequestFields
<1>4. /\ dir[r.names[1]] \in Names \cup 1..made /\ dir[r.names[1]] \notin staged
      /\ dir[r.names[1]] \in Files
  BY <1>1, <1>2, <1>3 DEF DirOK, Listings
<1> DEFINE rec == [pc |-> "promote", req |-> r, at |-> 1, files |-> <<dir[r.names[1]]>>]
<1>5. rec \in ThreadState
  BY <1>3, <1>4 DEF ThreadState
<1>6. thr' \in Workers /\ Stays(t) /\ thr'[t] = rec
  BY <1>1, <1>2, <1>5 DEF Workers, Stays
<1>7. /\ thr'[t].pc = "promote" /\ thr'[t].req = r /\ thr'[t].at = 1
      /\ thr'[t].files = <<dir[r.names[1]]>>
  BY <1>6
<1> HIDE DEF rec
<1>8. UNCHANGED <<dir, staged, blank, made, orphans>>
  BY DEF OpenSource
<1>9. AtWork(t)'
  <2>1. Own(t)' = dir[r.names[1]] /\ Len(thr'[t].files) = 1
    BY <1>7 DEF Own
  <2>2. Own(t)' \in Names \cup 1..made' /\ Own(t)' \notin staged'
    BY <1>4, <1>8, <2>1
  <2>3. thr'[t].at <= Len(thr'[t].files) /\ Len(thr'[t].files) <= Len(thr'[t].req.names)
    BY <1>3, <1>7, <2>1
  <2>4. QED
    BY <1>2, <1>7, <2>1, <2>2, <2>3 DEF AtWork, KindIn, Promoting, Placed
<1>10. Left(t) = {} /\ Left(t)' = {}
  BY <1>1, <1>2, <1>7, HoldsNothing, HoldsNothingNext DEF Promoting, Placed
<1>11. DirOK(dir', staged, made)
  BY <1>1, <1>8
<1>12. QED
  BY <1>6, <1>8, <1>9, <1>10, <1>11, UnstagedKeeps

LEMMA ReserveKeeps ==
    ASSUME FilesInv, NEW t \in Threads, Reserve(t)
    PROVE  FilesInv'
<1>1. /\ Counted /\ StagedInv /\ made \in Nat /\ thr \in Workers /\ AtWork(t)
      /\ DirOK(dir, staged, made) /\ thr[t].pc = "promote"
  BY DEF FilesInv, Counted, Reserve, PcIs
<1>2. CASE Fail(t) /\ UNCHANGED <<dir, blank, made>>
  BY <1>1, <1>2, FailKeeps DEF Reserve, Promoting
<1>3. CASE /\ made < MaxFiles /\ made' = made + 1 /\ blank' = blank \cup {made + 1}
           /\ dir' = [dir EXCEPT ![Dest(t)] = made + 1] /\ Goto(t, "over")
           /\ UNCHANGED staged
  <2>1. /\ thr' \in Workers /\ Stays(t) /\ thr'[t].pc = "over" /\ thr'[t].at = thr[t].at
        /\ thr'[t].req = thr[t].req /\ thr'[t].files = thr[t].files
    BY <1>1, <1>3, GotoGoes DEF Pcs
  <2>2. DirOK(dir', staged', made')
    BY <1>1, <1>3, DestIsName, PutNew DEF Promoting
  <2>3. made' \in Nat /\ made <= made' /\ made' <= MaxFiles
    BY <1>1, <1>3, CountedFiles
  <2>4. Own(t) \in Names \cup 1..made => Own(t) \in Names \cup 1..made'
    BY <1>1, <1>3
  <2>5. AtWork(t)'
    BY <1>1, <1>3, <2>1, <2>4 DEF AtWork, Own, KindIn, Promoting, Placed
  <2>6. Left(t)' = Left(t) /\ Holds(t)' = Holds(t)
    BY <1>1, <2>1 DEF Left, Holds, KindIn, Promoting
  <2>7. UNCHANGED orphans
    BY DEF Reserve
  <2>8. StagedInv'
    <3>1. Holds(t) \subseteq staged /\ \A i, j \in Left(t) : thr[t].files[i] = thr[t].files[j] => i = j
      BY <1>1 DEF StagedInv
    <3>2. QED
      BY <1>3, <2>1, <2>3, <2>6, <2>7, <3>1, StagedKeeps
  <2>9. /\ blank' \subseteq blank \cup (made + 1 .. made')
        /\ blank' \cap staged' = {}
    BY <1>1, <1>3 DEF Counted
  <2>10. QED
    BY <1>3, <2>1, <2>2, <2>3, <2>5, <2>7, <2>8, <2>9, StepKeeps
<1>4. QED
  BY <1>2, <1>3 DEF Reserve

LEMMA MoveKeeps ==
    ASSUME FilesInv, NEW t \in Threads, MoveNoReplace(t) \/ MoveOver(t) \/ MoveReplace(t)
    PROVE  FilesInv'
<1>1. /\ Counted /\ thr \in Workers /\ DirOK(dir, staged, made)
      /\ thr[t].pc \in Promoting /\ UNCHANGED <<blank, made, orphans>>
  BY DEF FilesInv, MoveNoReplace, MoveOver, MoveReplace, PcIs, Promoting
<1>2. CASE Fail(t) /\ UNCHANGED dir
  BY <1>1, <1>2, FailKeeps
<1>3. CASE Fail(t) /\ dir' = [dir EXCEPT ![Dest(t)] = NoFile]
  BY <1>1, <1>3, FreeName, FailKeeps
<1>4. CASE Moved(t) /\ Goto(t, IF thr[t].pc = "replace" THEN "check" ELSE "verify")
  BY <1>1, <1>4, MovedKeeps DEF Placed
<1>5. QED
  BY <1>2, <1>3, <1>4 DEF MoveNoReplace, MoveOver, MoveReplace, PcIs

\* The next file is at its turn, or the request is over.
LEMMA DoneKeeps ==
    ASSUME FilesInv, NEW t \in Threads, thr[t].pc \in Placed, Done(t),
           UNCHANGED <<dir, staged, blank, made, orphans>>
    PROVE  FilesInv'
<1>1. /\ Counted /\ StagedInv /\ thr \in Workers /\ AtWork(t) /\ DirOK(dir, staged, made)
      /\ thr[t].pc \notin Promoting
  BY DEF FilesInv, Placed, Promoting
<1>2. thr[t].at \in 1..Len(thr[t].files) /\ thr[t].req \in Requests
  BY <1>1, DestIsName
<1>3. Len(thr[t].files) \in Nat
  <2>1. thr[t].files \in Seq(Files)
    BY <1>1, ThreadFields
  <2>2. QED
    BY <2>1
<1>4. thr' \in Workers /\ Stays(t)
  BY <1>1, DoneGoes
<1>5. CASE thr[t].at >= Len(thr[t].files)
  <2>1. thr'[t] = Idle \/ (/\ thr'[t].pc = "keep" /\ KindIn(t, {"art"})
                           /\ thr'[t].req = thr[t].req)
    BY <1>1, <1>2, <1>3, <1>5, DoneGoes
  <2>2. Left(t) = {}
    <3>1. thr[t].at + 1 .. Len(thr[t].files) = {}
      BY <1>2, <1>3, <1>5
    <3>2. QED
      BY <1>1, <3>1 DEF Left
  <2>3. thr'[t].pc \notin Promoting \cup Placed /\ AtWork(t)'
    BY <1>2, <2>1 DEF AtWork, KindIn, Idle, Promoting, Placed
  <2>4. Left(t)' = {}
    BY <2>3, HoldsNothingNext
  <2>5. DirOK(dir', staged, made)
    BY <1>1
  <2>6. QED
    BY <1>4, <2>2, <2>3, <2>4, <2>5, UnstagedKeeps
<1>6. CASE thr[t].at < Len(thr[t].files)
  <2>1. /\ thr'[t].at = thr[t].at + 1 /\ thr'[t].req = thr[t].req
        /\ thr'[t].files = thr[t].files
        /\ thr'[t].pc = IF KindIn(t, {"upload"}) THEN "promote" ELSE "replace"
    BY <1>1, <1>2, <1>3, <1>6, DoneGoes
  <2>2. ~KindIn(t, {"rename"})
    <3>1. KindIn(t, {"rename"}) => Len(thr[t].files) = 1
      BY <1>1 DEF AtWork
    <3> DEFINE k == Len(thr[t].files)
    <3>2. k \in Nat /\ thr[t].at \in 1..k /\ thr[t].at < k
      BY <1>2, <1>3, <1>6
    <3> HIDE DEF k
    <3>3. k # 1
      BY <3>2
    <3>4. QED
      BY <3>1, <3>3 DEF k
  <2>3. /\ Left(t) = thr[t].at + 1 .. Len(thr[t].files) /\ Left(t)' = Left(t)
        /\ Holds(t)' = Holds(t)
    BY <1>1, <2>1, <2>2 DEF Left, Holds, KindIn, Promoting
  <2>4. Own(t)' \in staged
    <3>1. thr[t].at + 1 \in Left(t)
      BY <1>2, <1>3, <1>6, <2>3
    <3>2. Own(t)' \in Holds(t)
      BY <2>1, <3>1 DEF Own, Holds
    <3>3. QED
      BY <1>1, <3>2 DEF StagedInv
  <2>5. Own(t)' \in Names \cup 1..made
    BY <1>1, <2>4, CountedFiles
  <2>6. AtWork(t)'
    BY <1>1, <1>2, <1>3, <1>6, <2>1, <2>2, <2>5 DEF AtWork, KindIn, Promoting, Placed
  <2>7. QED
    BY <1>1, <1>4, <2>1, <2>3, <2>6, QuietKeeps
<1>7. QED
  BY <1>2, <1>3, <1>5, <1>6

LEMMA VerifyKeeps ==
    ASSUME FilesInv, NEW t \in Threads, Verify(t) \/ Check(t)
    PROVE  FilesInv'
<1>1. /\ Counted /\ DirOK(dir, staged, made) /\ thr[t].pc \in Placed
      /\ UNCHANGED <<blank, made, orphans>>
  BY DEF FilesInv, Verify, Check, PcIs, Placed
<1>2. CASE Done(t) /\ UNCHANGED <<dir, staged>>
  BY <1>1, <1>2, DoneKeeps
<1>3. CASE Fail(t) /\ dir' = [dir EXCEPT ![Dest(t)] = NoFile]
  BY <1>1, <1>3, FreeName, FailKeeps
<1>4. CASE Fail(t) /\ UNCHANGED dir
  BY <1>1, <1>4, FailKeeps
<1>5. QED
  BY <1>2, <1>3, <1>4 DEF Verify, Check

LEMMA UnlinkKeeps ==
    ASSUME FilesInv, NEW t \in Threads, FindTarget(t) \/ Unlink(t)
    PROVE  FilesInv'
<1>1. /\ Counted /\ thr \in Workers /\ DirOK(dir, staged, made)
      /\ thr[t].pc \notin Promoting \cup Placed
      /\ UNCHANGED <<staged, blank, made, orphans>>
  BY DEF FilesInv, FindTarget, Unlink, PcIs, Promoting, Placed
<1>2. Left(t) = {}
  BY <1>1, HoldsNothing
<1>3. ASSUME FindTarget(t) PROVE FilesInv'
  <2>1. PICK r \in Requests :
           /\ r.kind = "delete"
           /\ thr' = [thr EXCEPT ![t] = [pc |-> "unlink", req |-> r, at |-> 1, files |-> <<>>]]
    BY <1>3 DEF FindTarget
  <2> DEFINE rec == [pc |-> "unlink", req |-> r, at |-> 1, files |-> <<>>]
  <2>2. rec \in ThreadState
    BY RequestFields DEF ThreadState
  <2>3. thr' \in Workers /\ Stays(t) /\ thr'[t] = rec
    BY <1>1, <2>1, <2>2 DEF Workers, Stays
  <2>4. thr'[t].pc = "unlink" /\ thr'[t].req = r
    BY <2>3
  <2> HIDE DEF rec
  <2>5. AtWork(t)' /\ Left(t)' = {}
    BY <2>1, <2>4, HoldsNothingNext DEF AtWork, KindIn, Promoting, Placed
  <2>6. DirOK(dir', staged, made)
    BY <1>1, <1>3 DEF FindTarget
  <2>7. QED
    BY <1>1, <1>2, <2>3, <2>5, <2>6, UnstagedKeeps
<1>4. ASSUME Unlink(t) PROVE FilesInv'
  <2>1. thr' \in Workers /\ thr'[t] = Idle /\ Stays(t)
    BY <1>1, <1>4, AnswerEnds DEF Unlink
  <2>2. AtWork(t)' /\ Left(t)' = {}
    BY <2>1, HoldsNothingNext DEF AtWork, Idle, Promoting, Placed
  <2>3. DirOK(dir', staged, made)
    BY <1>1, <1>4, FreeName DEF Unlink
  <2>4. QED
    BY <1>1, <1>2, <2>1, <2>2, <2>3, UnstagedKeeps
<1>5. QED
  BY <1>3, <1>4

LEMMA CleanupKeeps ==
    ASSUME FilesInv, NEW t \in Threads, FindKept(t) \/ Probe(t)
    PROVE  FilesInv'
<1>1. /\ Counted /\ thr \in Workers /\ DirOK(dir, staged, made) /\ AtWork(t)
      /\ thr[t].pc \in {"keep", "probe"} /\ thr[t].pc \notin Promoting \cup Placed
      /\ UNCHANGED <<staged, blank, made, orphans>>
  BY DEF FilesInv, FindKept, Probe, PcIs, Promoting, Placed
<1>2. Left(t) = {}
  BY <1>1, HoldsNothing
<1>3. /\ KindIn(t, {"art"}) /\ thr[t].req \in Requests /\ thr[t] \in ThreadState
      /\ thr[t].at \in Nat /\ Len(Spellings) \in Nat /\ 1 <= Len(Spellings)
  <2>1. Spellings \in Seq(Names) /\ Spellings # <<>>
    BY FileStoreAssumption
  <2>2. Len(Spellings) \in Nat /\ 1 <= Len(Spellings)
    BY <2>1, EmptySeq
  <2>3. QED
    BY <1>1, <2>2, ThreadFields DEF AtWork, Workers
<1>4. ASSUME Answer(t), DirOK(dir', staged, made) PROVE FilesInv'
  <2>1. thr' \in Workers /\ thr'[t] = Idle /\ Stays(t)
    BY <1>1, <1>4, AnswerEnds
  <2>2. AtWork(t)' /\ Left(t)' = {}
    BY <2>1, HoldsNothingNext DEF AtWork, Idle, Promoting, Placed
  <2>3. QED
    BY <1>1, <1>2, <1>4, <2>1, <2>2, UnstagedKeeps
<1>5. ASSUME FindKept(t) PROVE FilesInv'
  <2>0. UNCHANGED dir
    BY <1>5 DEF FindKept
  <2>1. CASE Answer(t)
    BY <1>1, <1>4, <2>0, <2>1
  <2>2. CASE ~Answer(t)
    <3> DEFINE kept == dir[thr[t].req.names[1]]
               rec == [thr[t] EXCEPT !.pc = "probe", !.at = 1, !.files = <<kept>>]
    <3>1. kept # NoFile /\ thr' = [thr EXCEPT ![t] = rec]
      BY <1>5, <2>2 DEF FindKept
    <3>2. kept \in Files
      BY <1>1, <1>3, <3>1, RequestFields DEF DirOK, Listings
    <3> HIDE DEF kept
    <3>0. <<kept>> \in Seq(Files) /\ 1 \in Nat \ {0}
      BY <3>2
    <3>3. rec \in ThreadState /\ rec.pc = "probe" /\ rec.at = 1 /\ rec.req = thr[t].req
      BY <1>3, <3>0 DEF ThreadState
    <3> HIDE DEF rec
    <3>4. thr' \in Workers /\ Stays(t) /\ thr'[t] = rec
      BY <1>1, <3>1, <3>3 DEF Workers, Stays
    <3>5. Left(t)' = {}
      BY <3>3, <3>4, HoldsNothingNext DEF Promoting, Placed
    <3>6. AtWork(t)'
      BY <1>3, <3>3, <3>4 DEF AtWork, KindIn, Promoting, Placed
    <3>7. QED
      BY <1>1, <1>2, <2>0, <3>4, <3>5, <3>6, UnstagedKeeps
  <2>3. QED
    BY <2>1, <2>2
<1>6. ASSUME Probe(t) PROVE FilesInv'
  <2>0. DirOK(dir', staged, made)
    BY <1>1, <1>6, FreeName DEF Probe
  <2>1. CASE Answer(t)
    BY <1>4, <2>0, <2>1
  <2>2. CASE ~Answer(t)
    <3> DEFINE rec == [thr[t] EXCEPT !.at = thr[t].at + 1]
    <3>1. thr[t].at < Len(Spellings) /\ thr' = [thr EXCEPT ![t] = rec] /\ thr[t].pc = "probe"
      BY <1>6, <2>2 DEF Probe, PcIs
    <3>2. /\ rec \in ThreadState /\ rec.pc = "probe" /\ rec.at = thr[t].at + 1
          /\ rec.req = thr[t].req
      BY <1>3, <3>1 DEF ThreadState
    <3> HIDE DEF rec
    <3>3. thr' \in Workers /\ Stays(t) /\ thr'[t] = rec
      BY <1>1, <3>1, <3>2 DEF Workers, Stays
    <3>4. Left(t)' = {}
      BY <3>2, <3>3, HoldsNothingNext DEF Promoting, Placed
    <3>5. thr'[t].at <= Len(Spellings)
      BY <1>3, <3>1, <3>2, <3>3
    <3>6. AtWork(t)'
      BY <1>3, <3>2, <3>3, <3>5 DEF AtWork, KindIn, Promoting, Placed
    <3>7. QED
      BY <1>1, <1>2, <2>0, <3>3, <3>4, <3>6, UnstagedKeeps
  <2>3. QED
    BY <2>1, <2>2
<1>7. QED
  BY <1>5, <1>6

\* A crash makes orphans of what was staged.
LEMMA DieKeeps ==
    ASSUME FilesInv, Die
    PROVE  FilesInv'
<1>1. /\ Counted /\ DirOK(dir, staged, made) /\ UNCHANGED <<dir, staged, blank, made>>
      /\ thr' = [t \in Threads |-> Idle]
      /\ orphans' = orphans \cup staged \cup {f \in blank : \E n \in Names : dir[n] = f}
  BY DEF FilesInv, Die
<1>2. thr' \in Workers /\ \A t \in Threads : thr'[t] = Idle
  BY <1>1 DEF Workers, Idle, ThreadState
<1>3. \A t \in Threads : AtWork(t)' /\ Left(t)' = {} /\ Holds(t)' = {}
  BY <1>2, HoldsNothingNext DEF AtWork, Idle, Promoting, Placed
<1>4. Counted' /\ DirOK(dir', staged', made')
  BY <1>1 DEF Counted
<1>5. StagedInv'
  BY <1>1, <1>3 DEF StagedInv
<1>6. QED
  BY <1>2, <1>3, <1>4, <1>5 DEF FilesInv

LEMMA NextKeeps ==
    ASSUME FilesInv, [Next]_vars
    PROVE  FilesInv'
<1>1. ASSUME NEW t \in Threads, Stage(t) PROVE FilesInv'
  <2>1. PICK r \in Requests :
           /\ r.kind \in {"upload", "overwrite", "art"}
           /\ made + Len(r.names) <= MaxFiles /\ made' = made + Len(r.names)
           /\ staged' = staged \cup ToSet(New(Len(r.names)))
           /\ thr' = [thr EXCEPT ![t] =
                        [pc |-> IF r.kind = "upload" THEN "promote" ELSE "replace",
                         req |-> r, at |-> 1, files |-> New(Len(r.names))]]
    BY <1>1 DEF Stage
  <2>2. Len(r.names) \in Nat /\ Len(r.names) >= 1 /\ Len(r.names) <= Len(r.names)
    BY RequestFields
  <2>3. thr[t].pc = "idle" /\ UNCHANGED <<dir, blank, orphans>>
    BY <1>1 DEF Stage, PcIs
  <2>4. CASE r.kind = "upload"
    BY <2>1, <2>2, <2>3, <2>4, StartKeeps
  <2>5. CASE r.kind # "upload"
    BY <2>1, <2>2, <2>3, <2>5, StartKeeps
  <2>6. QED
    BY <2>4, <2>5
<1>2. ASSUME NEW t \in Threads, OpenTarget(t) PROVE FilesInv'
  <2>0. Counted
    BY DEF FilesInv
  <2>1. PICK r \in Requests :
           /\ r.kind = "edit" /\ made' = made + 1 /\ staged' = staged \cup {made + 1}
           /\ thr' = [thr EXCEPT ![t] = [pc |-> "replace", req |-> r, at |-> 1, files |-> New(1)]]
    BY <1>2 DEF OpenTarget
  <2>2. made + 1 <= MaxFiles /\ made \in Nat
    BY <1>2, <2>0, CountedFiles DEF OpenTarget
  <2>3. thr[t].pc = "idle" /\ UNCHANGED <<dir, blank, orphans>>
    BY <1>2 DEF OpenTarget, PcIs
  <2>4. ToSet(New(1)) = {made + 1}
    BY <2>0, <2>2, NewFiles
  <2>5. 1 <= Len(r.names)
    BY RequestFields
  <2>6. made + 1 <= MaxFiles /\ made' = made + 1 /\ staged' = staged \cup ToSet(New(1))
    BY <2>1, <2>2, <2>4
  <2>7. r.kind \in IF "replace" = "promote" THEN {"upload"} ELSE {"overwrite", "edit", "art"}
    BY <2>1
  <2>8. 1 \in Nat /\ 1 >= 1 /\ "replace" \in {"promote", "replace"}
    OBVIOUS
  <2>9. QED
    BY <2>1, <2>3, <2>5, <2>6, <2>7, <2>8, StartKeeps, Zenon
<1>3. ASSUME UNCHANGED vars PROVE FilesInv'
  <2>1. UNCHANGED <<dir, staged, blank, thr, made, orphans>>
    BY <1>3 DEF vars
  <2>2. \A t \in Threads : Left(t)' = Left(t) /\ Holds(t)' = Holds(t) /\ Own(t)' = Own(t)
    BY <2>1 DEF Left, Holds, Own, KindIn
  <2>3. (\A t \in Threads : AtWork(t)) => \A t \in Threads : AtWork(t)'
    BY <2>1, <2>2 DEF AtWork, KindIn
  <2>4. StagedInv => StagedInv'
    BY <2>1, <2>2 DEF StagedInv
  <2>5. QED
    BY <2>1, <2>3, <2>4 DEF FilesInv, Counted
<1>4. QED
  BY <1>1, <1>2, <1>3, OpenSourceKeeps, UnlinkKeeps, MoveKeeps, ReserveKeeps,
     VerifyKeeps, CleanupKeeps, DieKeeps
  DEF Next, Handle, Refuse

LEMMA FilesHold == Spec => []FilesInv
<1>1. Init => FilesInv
  <2> SUFFICES ASSUME Init PROVE FilesInv
    OBVIOUS
  <2>1. thr \in Workers /\ \A t \in Threads : thr[t] = Idle
    BY DEF Init, Workers, Idle, ThreadState
  <2>2. \A t \in Threads : AtWork(t) /\ Left(t) = {} /\ Holds(t) = {}
    BY <2>1, HoldsNothing DEF AtWork, Idle, Promoting, Placed
  <2>3. Counted
    BY FileFacts DEF Init, Counted
  <2>4. dir \in [Names -> Names \cup {NoFile}] /\ \A n \in Names : dir[n] \in {n, NoFile}
    BY DEF Init
  <2>5. DirOK(dir, staged, made)
    <3>1. dir \in Listings
      BY <2>4 DEF Listings, Files
    <3>2. QED
      BY <2>4, <3>1 DEF DirOK, Init
  <2>6. StagedInv
    BY <2>2 DEF StagedInv, Init
  <2>7. QED
    BY <2>1, <2>2, <2>3, <2>5, <2>6 DEF FilesInv
<1>2. FilesInv /\ [Next]_vars => FilesInv'
  BY NextKeeps
<1>3. QED
  BY <1>1, <1>2, PTL DEF Spec

\* In every reachable state, for any requests and any number of workers, the
\* state is well typed; in particular no file is at two names, and none that
\* has a name is still staged.
THEOREM TypeCorrect == Spec => []TypeOK
<1>1. FilesInv => TypeOK
  BY DEF FilesInv, Counted, DirOK, Listings, Workers, TypeOK
<1>2. QED
  BY <1>1, FilesHold, PTL

\* The staging folder holds only files that a request is still to move, and no
\* two requests share one: but for a crash, each way out of a handler removes
\* what it staged (cs_upload_cleanup, the cleanup of the editor's temp file).
StagedIsOwned == \A f \in staged \ orphans : \E t \in Threads : f \in ToSet(thr[t].files)

THEOREM StagedIsOwnedAlways == Spec => []StagedIsOwned
<1>1. FilesInv => StagedIsOwned
  <2> SUFFICES ASSUME FilesInv, NEW f \in staged \ orphans
               PROVE  \E t \in Threads : f \in ToSet(thr[t].files)
    BY DEF StagedIsOwned
  <2>1. PICK t \in Threads : f \in Holds(t)
    BY DEF FilesInv, StagedInv
  <2>2. PICK i \in Left(t) : f = thr[t].files[i]
    BY <2>1 DEF Holds
  <2>3. thr[t].at \in Nat /\ thr[t].at >= 1 /\ thr[t].files \in Seq(Files)
    BY ThreadFields DEF FilesInv
  <2>4. i \in 1..Len(thr[t].files)
    BY <2>2, <2>3 DEF Left
  <2>5. DOMAIN thr[t].files = 1..Len(thr[t].files)
    BY <2>3
  <2>6. QED
    BY <2>2, <2>4, <2>5 DEF ToSet
<1>2. QED
  BY <1>1, FilesHold, PTL

-----------------------------------------------------------------------------
(* Requests whose names are apart *)

\* The names a request puts a file at that must be free.
Creates(r, n) ==
    \/ r.kind = "upload" /\ n \in ToSet(r.names)
    \/ r.kind = "rename" /\ n = r.names[2]

\* No request takes away or replaces what is at a name that another creates a
\* file at, and none replaces what another renames.  Otherwise a file is lost
\* between two system calls: the check after a move removes whatever is at the
\* name if it is not the file that was moved.
Apart ==
    \A q, r \in Requests, n \in Names :
       /\ Creates(r, n) => ~MayRemove(q, n) /\ ~MayReplace(q, n)
       /\ r.kind = "rename" /\ n = r.names[1] => ~MayReplace(q, n)

\* What is at the names a request is about.
Placing(t) ==
    /\ thr[t].pc = "over" => dir[Dest(t)] \in blank
    /\ thr[t].pc = "verify" => dir[Dest(t)] = Own(t) /\ Own(t) \notin blank
    /\ KindIn(t, {"rename"}) /\ thr[t].pc \in {"promote", "over"} =>
          dir[thr[t].req.names[1]] \in {Own(t), NoFile} /\ Own(t) \notin blank

PlaceInv ==
    /\ \A n \in Names : dir[n] \in blank => \E r \in Requests : Creates(r, n)
    /\ \A n \in Names :
          dir[n] \in blank \ orphans => \E t \in Threads : thr[t].pc = "over" /\ Dest(t) = n
    /\ \A t \in Threads : Placing(t)
    /\ \A t, u \in Threads :
          thr[t].pc = "over" /\ thr[u].pc = "over" /\ Dest(t) = Dest(u) => t = u

\* The four ways a step of t changes what is at n.
Change(t, n) ==
    \/ dir'[n] = NoFile /\ MayRemove(thr[t].req, n)
    \/ dir'[n] = Own(t) /\ Own(t) \in ToSet(thr[t].files) /\ MayReplace(thr[t].req, n)
    \/ dir[n] = NoFile /\ Creates(thr[t].req, n)
    \/ thr[t].pc = "over" /\ n = Dest(t)

\* A step of t changes no more than that, and leaves its own names in order.
Touches(t) ==
    /\ Stays(t) /\ UNCHANGED orphans
    /\ made' \in made .. MaxFiles /\ blank \subseteq blank'
    /\ blank' \subseteq blank \cup (made + 1 .. made')
    /\ \A n \in Names : dir'[n] # dir[n] =>
          Change(t, n) /\ thr'[t] # thr[t] /\ thr[t].req \in Requests
    /\ \A n \in Names : dir'[n] # dir[n] /\ dir'[n] \in blank' =>
          Creates(thr[t].req, n) /\ thr'[t].pc = "over" /\ Dest(t)' = n
    /\ thr'[t].pc = "over" => dir[Dest(t)'] = NoFile
    /\ thr[t].pc = "over" => dir'[Dest(t)] \notin blank'
    /\ Placing(t)'

\* A request that creates a file knows where.
LEMMA CreatesDest ==
    ASSUME FilesInv, NEW t \in Threads, thr[t].pc \in {"promote", "over", "verify"}
    PROVE  /\ Creates(thr[t].req, Dest(t)) /\ Dest(t) \in Names /\ thr[t].req \in Requests
           /\ thr[t].req.kind \in {"upload", "rename"} /\ thr[t].req.names[1] \in Names
           /\ Own(t) \in Names \cup 1..made /\ Own(t) # NoFile
           /\ ~KindIn(t, {"rename"}) /\ thr[t].pc # "verify" => Own(t) \in staged
<1>1. /\ thr \in Workers /\ AtWork(t) /\ Counted /\ thr[t].pc \in Promoting \cup Placed
  BY DEF FilesInv, Promoting, Placed
<1>2. Dest(t) \in Names /\ thr[t].req \in Requests /\ thr[t].req.names[1] \in Names
      /\ thr[t].at \in 1..Len(thr[t].files)
  BY <1>1, DestIsName
<1>3. thr[t].req.kind \in {"upload", "rename"} /\ Own(t) \in Names \cup 1..made
  BY <1>1 DEF AtWork, KindIn
<1>4. Own(t) # NoFile
  <2>1. made <= MaxFiles /\ made \in Nat /\ MaxFiles \in Nat
    BY <1>1, CountedFiles
  <2>2. \A f \in 1..made : f \in 1..MaxFiles
    BY <2>1
  <2>3. QED
    BY <1>3, <2>2, FileFacts
<1>5. Creates(thr[t].req, Dest(t))
  <2>1. CASE thr[t].req.kind = "rename"
    BY <2>1 DEF Creates, Dest, KindIn
  <2>2. CASE thr[t].req.kind = "upload"
    <3>1. Dest(t) = thr[t].req.names[thr[t].at]
      BY <2>2 DEF Dest, KindIn
    <3>2. thr[t].at \in DOMAIN thr[t].req.names
      <4>1. /\ thr[t].req.names \in Seq(Names) /\ Len(thr[t].req.names) \in Nat
            /\ thr[t].files \in Seq(Files)
        BY <1>1, <1>2, RequestFields, ThreadFields
      <4>2. Len(thr[t].files) <= Len(thr[t].req.names) /\ Len(thr[t].files) \in Nat
        BY <1>1, <4>1 DEF AtWork
      <4>3. thr[t].at \in 1..Len(thr[t].req.names)
        BY <1>2, <4>1, <4>2
      <4>4. QED
        BY <4>1, <4>3
    <3>3. QED
      BY <2>2, <3>1, <3>2 DEF Creates, ToSet
  <2>3. QED
    BY <1>3, <2>1, <2>2
<1>6. ~KindIn(t, {"rename"}) /\ thr[t].pc # "verify" => Own(t) \in staged
  <2>1. ~KindIn(t, {"rename"}) /\ thr[t].pc # "verify" => thr[t].at \in Left(t)
    BY <1>2 DEF Left, Promoting
  <2>2. Holds(t) \subseteq staged
    BY DEF FilesInv, StagedInv
  <2>3. QED
    BY <2>1, <2>2 DEF Holds, Own
<1>7. QED
  BY <1>2, <1>3, <1>4, <1>5, <1>6

\* The names of the other requests stay in order.
LEMMA OthersPlace ==
    ASSUME Apart, FilesInv, PlaceInv, NEW t \in Threads, Touches(t), NEW u \in Threads \ {t}
    PROVE  Placing(u)' /\ Dest(u)' = Dest(u)
<1>1. thr'[u] = thr[u] /\ Dest(u)' = Dest(u) /\ Own(u)' = Own(u)
  BY DEF Touches, Stays, Dest, Own, KindIn
<1>2. Placing(u) /\ Counted /\ made \in Nat
  BY DEF PlaceInv, FilesInv, Counted
<1>3. \A f \in Names \cup 1..made : f \in blank' => f \in blank
  <2>1. made' \in Nat /\ made' <= MaxFiles /\ MaxFiles \in Nat
    BY <1>2, FileFacts DEF Touches
  <2>2. \A f \in made + 1 .. made' : f \in 1..MaxFiles /\ f \notin 1..made
    BY <1>2, <2>1
  <2>3. QED
    BY <2>2, FileFacts DEF Touches
<1>4. CASE thr[u].pc \notin {"promote", "over", "verify"}
  BY <1>1, <1>4 DEF Placing
<1>5. CASE thr[u].pc \in {"promote", "over", "verify"}
  <2>1. /\ Creates(thr[u].req, Dest(u)) /\ Dest(u) \in Names /\ thr[u].req \in Requests
        /\ thr[u].req.names[1] \in Names
        /\ Own(u) \in Names \cup 1..made /\ Own(u) # NoFile
    BY <1>5, CreatesDest
  <2>2. Own(u) \notin blank => Own(u) \notin blank'
    BY <1>3, <2>1
  <2>3. NoFile \notin blank
    BY <1>2, NoFileIsThere
  <2>4. ASSUME thr[u].pc \in {"over", "verify"} PROVE dir'[Dest(u)] = dir[Dest(u)]
    <3> SUFFICES ASSUME dir'[Dest(u)] # dir[Dest(u)] PROVE FALSE
      OBVIOUS
    <3>1. Change(t, Dest(u)) /\ thr[t].req \in Requests
      BY <2>1 DEF Touches
    <3>2. ~MayRemove(thr[t].req, Dest(u)) /\ ~MayReplace(thr[t].req, Dest(u))
      BY <2>1, <3>1 DEF Apart
    <3>3. dir[Dest(u)] # NoFile
      BY <1>2, <2>1, <2>3, <2>4 DEF Placing
    <3>4. thr[t].pc = "over" /\ Dest(u) = Dest(t)
      BY <3>1, <3>2, <3>3 DEF Change
    <3>5. thr[u].pc # "over"
      BY <3>4 DEF PlaceInv
    <3>6. dir[Dest(u)] \in blank
      BY <3>4 DEF PlaceInv, Placing
    <3>7. QED
      BY <1>2, <2>4, <3>5, <3>6 DEF Placing
  <2>5. ASSUME KindIn(u, {"rename"}), thr[u].pc \in {"promote", "over"}
        PROVE  dir'[thr[u].req.names[1]] \in {dir[thr[u].req.names[1]], NoFile}
    <3> DEFINE from == thr[u].req.names[1]
    <3> SUFFICES ASSUME dir'[from] # dir[from] PROVE dir'[from] = NoFile
      OBVIOUS
    <3>1. Change(t, from) /\ thr[t].req \in Requests
      BY <2>1 DEF Touches
    <3>2. MayRemove(thr[u].req, from)
      BY <2>5 DEF MayRemove, KindIn
    <3>3. ~MayReplace(thr[t].req, from)
      BY <2>1, <2>5, <3>1 DEF Apart, KindIn
    <3>4. ~Creates(thr[t].req, from)
      BY <2>1, <3>1, <3>2 DEF Apart
    <3>5. ~(thr[t].pc = "over" /\ from = Dest(t))
      BY <3>4, CreatesDest
    <3>6. QED
      BY <3>1, <3>3, <3>4, <3>5 DEF Change
  <2>6. KindIn(u, {"rename"})' <=> KindIn(u, {"rename"})
    BY <1>1 DEF KindIn
  <2>7. thr[u].pc = "over" => dir'[Dest(u)] \in blank'
    BY <1>2, <2>4 DEF Placing, Touches
  <2>8. QED
    BY <1>1, <1>2, <2>2, <2>4, <2>5, <2>6, <2>7 DEF Placing
<1>6. QED
  BY <1>1, <1>4, <1>5

LEMMA TouchesKeeps ==
    ASSUME Apart, FilesInv, PlaceInv, NEW t \in Threads, Touches(t)
    PROVE  PlaceInv'
<1>1. \A u \in Threads \ {t} : Placing(u)' /\ Dest(u)' = Dest(u) /\ thr'[u] = thr[u]
  BY OthersPlace DEF Touches, Stays
<1>2. \A n \in Names : dir'[n] = dir[n] /\ dir'[n] \in blank' => dir[n] \in blank
  <2>1. Counted /\ made \in Nat /\ MaxFiles \in Nat
    BY FileFacts DEF FilesInv, Counted
  <2>2. made' \in Nat /\ made' <= MaxFiles
    BY <2>1 DEF Touches
  <2>3. \A f \in made + 1 .. made' : f \in 1..MaxFiles /\ f \notin 1..made
    BY <2>1, <2>2
  <2>4. \A n \in Names : dir[n] \notin made + 1 .. made'
    BY <2>3, FileFacts DEF FilesInv, DirOK
  <2>5. QED
    BY <2>4 DEF Touches
<1>3. ASSUME NEW n \in Names, dir'[n] \in blank'
      PROVE  \E r \in Requests : Creates(r, n)
  <2>1. CASE dir'[n] = dir[n]
    BY <1>2, <1>3, <2>1 DEF PlaceInv
  <2>2. CASE dir'[n] # dir[n]
    BY <1>3, <2>2 DEF Touches
  <2>3. QED
    BY <2>1, <2>2
<1>4. ASSUME NEW n \in Names, dir'[n] \in blank' \ orphans'
      PROVE  \E u \in Threads : thr'[u].pc = "over" /\ Dest(u)' = n
  <2>1. CASE dir'[n] = dir[n]
    <3>1. dir[n] \in blank \ orphans
      BY <1>2, <1>4, <2>1 DEF Touches
    <3>2. PICK u \in Threads : thr[u].pc = "over" /\ Dest(u) = n
      BY <3>1 DEF PlaceInv
    <3>3. u # t
      BY <1>4, <3>2 DEF Touches
    <3>4. QED
      BY <1>1, <3>2, <3>3
  <2>2. CASE dir'[n] # dir[n]
    BY <1>4, <2>2 DEF Touches
  <2>3. QED
    BY <2>1, <2>2
<1>5. \A u \in Threads : Placing(u)'
  BY <1>1 DEF Touches
<1>6. ASSUME NEW u \in Threads, NEW v \in Threads, thr'[u].pc = "over", thr'[v].pc = "over",
             Dest(u)' = Dest(v)'
      PROVE  u = v
  <2>1. ASSUME NEW w \in Threads \ {t}, thr[w].pc = "over" PROVE dir[Dest(w)] # NoFile
    <3>1. dir[Dest(w)] \in blank /\ Counted
      BY <2>1 DEF PlaceInv, Placing, FilesInv
    <3>2. NoFile \notin blank
      BY <3>1, NoFileIsThere
    <3>3. QED
      BY <3>1, <3>2
  <2>2. CASE u # t /\ v # t
    BY <1>1, <1>6, <2>2 DEF PlaceInv
  <2>3. CASE u = t /\ v # t
    BY <1>1, <1>6, <2>1, <2>3 DEF Touches
  <2>4. CASE u # t /\ v = t
    BY <1>1, <1>6, <2>1, <2>4 DEF Touches
  <2>5. QED
    BY <2>2, <2>3, <2>4
<1>7. QED
  BY <1>3, <1>4, <1>5, <1>6 DEF PlaceInv

\* A step that leaves the folder alone, with the request not at a placeholder.
LEMMA QuietTouches ==
    ASSUME FilesInv, NEW t \in Threads, Stays(t), UNCHANGED <<dir, blank, made, orphans>>,
           thr[t].pc # "over", thr'[t].pc # "over", Placing(t)'
    PROVE  Touches(t)
<1>1. made' \in made .. MaxFiles
  BY CountedFiles DEF FilesInv
<1>2. QED
  BY <1>1 DEF Touches

\* A step that frees a name the request was asked to free.
LEMMA FreeTouches ==
    ASSUME FilesInv, NEW t \in Threads, Stays(t), UNCHANGED <<blank, made, orphans>>,
           thr[t].pc # "over", thr'[t].pc # "over", Placing(t)', thr'[t] # thr[t],
           thr[t].req \in Requests, NEW n \in Names, MayRemove(thr[t].req, n),
           dir' = [dir EXCEPT ![n] = NoFile]
    PROVE  Touches(t)
<1>1. made' \in made .. MaxFiles /\ NoFile \notin blank
  BY CountedFiles, NoFileIsThere DEF FilesInv
<1>2. \A m \in Names : dir'[m] = IF m = n THEN NoFile ELSE dir[m]
  BY FreeName DEF FilesInv
<1>3. QED
  BY <1>1, <1>2 DEF Touches, Change

\* Only a request that moves a file, or renames one, has a name to itself.
LEMMA NoPlace ==
    ASSUME NEW t \in Threads,
           \/ thr'[t].pc \notin {"promote", "over", "verify"}
           \/ thr'[t].pc = "promote" /\ thr'[t].req.kind # "rename"
    PROVE  Placing(t)' /\ thr'[t].pc # "over"
  BY DEF Placing, KindIn

LEMMA FailPlaces ==
    ASSUME FilesInv, NEW t \in Threads, Fail(t) \/ Answer(t)
    PROVE  Stays(t) /\ Placing(t)' /\ thr'[t] = Idle /\ thr'[t].pc = "idle"
<1>1. Stays(t) /\ thr'[t] = Idle
  BY AnswerEnds DEF Fail, FilesInv
<1>2. QED
  BY <1>1, NoPlace DEF Idle

\* A request begins with files of its own, or with none.
LEMMA BeginTouches ==
    ASSUME FilesInv, NEW t \in Threads, thr[t].pc = "idle", NEW rec,
           thr' = [thr EXCEPT ![t] = rec],
           rec.pc \notin {"promote", "over", "verify"}
              \/ (rec.pc = "promote" /\ rec.req.kind # "rename"),
           UNCHANGED <<dir, blank, orphans>>, made' \in made .. MaxFiles
    PROVE  Touches(t)
<1>1. Stays(t) /\ thr'[t] = rec
  BY DEF FilesInv, Workers, Stays
<1>2. Placing(t)' /\ thr'[t].pc # "over"
  BY <1>1, NoPlace
<1>3. QED
  BY <1>1, <1>2 DEF Touches

LEMMA StartTouches ==
    ASSUME FilesInv, NEW t \in Threads,
           Refuse(t) \/ Stage(t) \/ OpenTarget(t) \/ FindTarget(t)
    PROVE  Touches(t)
<1>0. /\ thr[t].pc = "idle" /\ made \in Nat /\ MaxFiles \in Nat /\ made <= MaxFiles
  BY CountedFiles DEF FilesInv, Refuse, Stage, OpenTarget, FindTarget, PcIs
<1>1. CASE Refuse(t)
  <2>1. UNCHANGED <<dir, thr, blank, made, orphans>>
    BY <1>1 DEF Refuse, vars
  <2>2. Stays(t) /\ thr'[t].pc = "idle"
    BY <1>0, <2>1 DEF Stays
  <2>3. QED
    BY <1>0, <2>1, <2>2, NoPlace, QuietTouches
<1>2. CASE Stage(t)
  <2>1. PICK r \in Requests :
           /\ r.kind \in {"upload", "overwrite", "art"}
           /\ made + Len(r.names) <= MaxFiles /\ made' = made + Len(r.names)
           /\ thr' = [thr EXCEPT ![t] =
                        [pc |-> IF r.kind = "upload" THEN "promote" ELSE "replace",
                         req |-> r, at |-> 1, files |-> New(Len(r.names))]]
    BY <1>2 DEF Stage
  <2> DEFINE rec == [pc |-> IF r.kind = "upload" THEN "promote" ELSE "replace",
                     req |-> r, at |-> 1, files |-> New(Len(r.names))]
  <2>2. Len(r.names) \in Nat
    BY RequestFields
  <2>3. made' \in made .. MaxFiles
    BY <1>0, <2>1, <2>2
  <2>4. /\ thr' = [thr EXCEPT ![t] = rec] /\ rec.pc \in {"promote", "replace"}
        /\ rec.req.kind # "rename"
    BY <2>1
  <2>5. UNCHANGED <<dir, blank, orphans>>
    BY <1>2 DEF Stage
  <2> HIDE DEF rec
  <2>6. QED
    BY <1>0, <2>3, <2>4, <2>5, BeginTouches
<1>3. CASE OpenTarget(t)
  <2>1. PICK r \in Requests :
           thr' = [thr EXCEPT ![t] = [pc |-> "replace", req |-> r, at |-> 1, files |-> New(1)]]
    BY <1>3 DEF OpenTarget
  <2> DEFINE rec == [pc |-> "replace", req |-> r, at |-> 1, files |-> New(1)]
  <2>2. made' \in made .. MaxFiles /\ UNCHANGED <<dir, blank, orphans>>
    BY <1>0, <1>3 DEF OpenTarget
  <2>3. thr' = [thr EXCEPT ![t] = rec] /\ rec.pc = "replace"
    BY <2>1
  <2> HIDE DEF rec
  <2>4. QED
    BY <1>0, <2>2, <2>3, BeginTouches
<1>4. CASE FindTarget(t)
  <2>1. PICK r \in Requests :
           thr' = [thr EXCEPT ![t] = [pc |-> "unlink", req |-> r, at |-> 1, files |-> <<>>]]
    BY <1>4 DEF FindTarget
  <2> DEFINE rec == [pc |-> "unlink", req |-> r, at |-> 1, files |-> <<>>]
  <2>2. made' \in made .. MaxFiles /\ UNCHANGED <<dir, blank, orphans>>
    BY <1>0, <1>4 DEF FindTarget
  <2>3. thr' = [thr EXCEPT ![t] = rec] /\ rec.pc = "unlink"
    BY <2>1
  <2> HIDE DEF rec
  <2>4. QED
    BY <1>0, <2>2, <2>3, BeginTouches
<1>5. QED
  BY <1>1, <1>2, <1>3, <1>4

\* The source of a rename is no placeholder: nobody creates a file there.
LEMMA OpenSourceTouches ==
    ASSUME Apart, FilesInv, PlaceInv, NEW t \in Threads, OpenSource(t)
    PROVE  Touches(t)
<1>1. PICK r \in Requests :
         /\ r.kind = "rename"
         /\ thr' = [thr EXCEPT ![t] = [pc |-> "promote", req |-> r, at |-> 1,
                                       files |-> <<dir[r.names[1]]>>]]
  BY DEF OpenSource
<1>2. r.names[1] \in Names
  BY RequestFields
<1> DEFINE rec == [pc |-> "promote", req |-> r, at |-> 1, files |-> <<dir[r.names[1]]>>]
<1>3. Stays(t) /\ thr'[t] = rec
  BY <1>1 DEF FilesInv, Workers, Stays
<1>4. /\ thr'[t].pc = "promote" /\ thr'[t].req = r /\ thr'[t].at = 1
      /\ thr'[t].files = <<dir[r.names[1]]>>
  BY <1>3
<1> HIDE DEF rec
<1>5. UNCHANGED <<dir, blank, made, orphans>> /\ thr[t].pc = "idle"
  BY DEF OpenSource, PcIs
<1>6. dir[r.names[1]] \notin blank
  <2>1. MayRemove(r, r.names[1])
    BY <1>1 DEF MayRemove
  <2>2. \A q \in Requests : ~Creates(q, r.names[1])
    BY <1>2, <2>1 DEF Apart
  <2>3. QED
    BY <1>2, <2>2 DEF PlaceInv
<1>7. Own(t)' = dir[r.names[1]]
  BY <1>4 DEF Own
<1>8. Placing(t)'
  BY <1>4, <1>5, <1>6, <1>7 DEF Placing
<1>9. QED
  BY <1>3, <1>4, <1>5, <1>8, QuietTouches

LEMMA UnlinkTouches ==
    ASSUME FilesInv, NEW t \in Threads, Unlink(t)
    PROVE  Touches(t)
<1>1. /\ thr[t].pc = "unlink" /\ Answer(t) /\ UNCHANGED <<blank, made, orphans>>
      /\ AtWork(t)
  BY DEF FilesInv, Unlink, PcIs
<1>2. /\ Stays(t) /\ Placing(t)' /\ thr'[t].pc = "idle" /\ thr'[t] # thr[t]
  BY <1>1, FailPlaces
<1>3. /\ thr[t].req \in Requests /\ thr[t].req.kind = "delete" /\ thr[t].req.names[1] \in Names
  BY <1>1, RequestFields DEF AtWork, KindIn
<1>4. CASE UNCHANGED dir
  BY <1>1, <1>2, <1>4, QuietTouches
<1>5. CASE dir' = [dir EXCEPT ![thr[t].req.names[1]] = NoFile]
  <2>1. MayRemove(thr[t].req, thr[t].req.names[1])
    BY <1>3 DEF MayRemove
  <2>2. QED
    BY <1>1, <1>2, <1>3, <1>5, <2>1, FreeTouches
<1>6. QED
  BY <1>4, <1>5 DEF Unlink

LEMMA CleanupTouches ==
    ASSUME FilesInv, NEW t \in Threads, FindKept(t) \/ Probe(t)
    PROVE  Touches(t)
<1>1. /\ thr[t].pc \in {"keep", "probe"} /\ UNCHANGED <<blank, made, orphans>>
      /\ AtWork(t) /\ thr \in Workers
  BY DEF FilesInv, FindKept, Probe, PcIs
<1>2. /\ thr[t].req \in Requests /\ thr[t].req.kind = "art" /\ thr[t] \in ThreadState
      /\ thr[t].at \in Nat /\ thr[t].at >= 1
  BY <1>1, ThreadFields DEF AtWork, KindIn, Workers
<1>3. Answer(t) => /\ Stays(t) /\ Placing(t)' /\ thr'[t] # thr[t] /\ thr'[t].pc # "over"
  BY <1>1, FailPlaces
<1>4. CASE FindKept(t)
  <2>1. UNCHANGED dir
    BY <1>4 DEF FindKept
  <2>2. CASE Answer(t)
    BY <1>1, <1>3, <2>1, <2>2, QuietTouches
  <2>3. CASE ~Answer(t)
    <3> DEFINE rec == [thr[t] EXCEPT !.pc = "probe", !.at = 1,
                                     !.files = <<dir[thr[t].req.names[1]]>>]
    <3>1. thr' = [thr EXCEPT ![t] = rec] /\ rec.pc = "probe"
      BY <1>2, <1>4, <2>3 DEF FindKept, ThreadState
    <3> HIDE DEF rec
    <3>2. Stays(t) /\ thr'[t] = rec
      BY <1>1, <3>1 DEF Workers, Stays
    <3>3. QED
      BY <1>1, <2>1, <3>1, <3>2, NoPlace, QuietTouches
  <2>4. QED
    BY <2>2, <2>3
<1>5. CASE Probe(t)
  <2>1. thr[t].at \in DOMAIN Spellings /\ Spellings[thr[t].at] \in Names
    <3>1. thr[t].at <= Len(Spellings) /\ Spellings \in Seq(Names)
      BY <1>1, <1>5, FileStoreAssumption DEF AtWork, Probe, PcIs
    <3>2. QED
      BY <1>2, <3>1
  <2>2. MayRemove(thr[t].req, Spellings[thr[t].at])
    BY <1>2, <2>1 DEF MayRemove, ToSet
  <2>3. Stays(t) /\ Placing(t)' /\ thr'[t] # thr[t] /\ thr'[t].pc # "over"
    <3>1. CASE Answer(t)
      BY <1>3, <3>1
    <3>2. CASE ~Answer(t)
      <4> DEFINE rec == [thr[t] EXCEPT !.at = thr[t].at + 1]
      <4>1. thr' = [thr EXCEPT ![t] = rec] /\ thr[t].pc = "probe"
        BY <1>5, <3>2 DEF Probe, PcIs
      <4>2. rec.pc = "probe" /\ rec.at # thr[t].at
        BY <1>2, <4>1 DEF ThreadState
      <4> HIDE DEF rec
      <4>3. Stays(t) /\ thr'[t] = rec
        BY <1>1, <4>1 DEF Workers, Stays
      <4>4. QED
        BY <4>2, <4>3, NoPlace
    <3>3. QED
      BY <3>1, <3>2
  <2>4. CASE UNCHANGED dir
    BY <1>1, <2>3, <2>4, QuietTouches
  <2>5. CASE dir' = [dir EXCEPT ![Spellings[thr[t].at]] = NoFile]
    BY <1>1, <1>2, <2>1, <2>2, <2>3, <2>5, FreeTouches
  <2>6. QED
    BY <1>5, <2>4, <2>5 DEF Probe
<1>6. QED
  BY <1>4, <1>5

\* A request of another kind replaces the file at its name by its own.
LEMMA ReplaceTouches ==
    ASSUME FilesInv, NEW t \in Threads, MoveReplace(t) \/ Check(t)
    PROVE  Touches(t)
<1>1. /\ thr[t].pc \in {"replace", "check"} /\ UNCHANGED <<blank, made, orphans>>
      /\ AtWork(t) /\ thr \in Workers /\ Counted /\ DirOK(dir, staged, made) /\ StagedInv
      /\ thr[t].pc \in Promoting \cup Placed
  BY DEF FilesInv, MoveReplace, Check, PcIs, Promoting, Placed
<1>2. /\ thr[t].req \in Requests /\ thr[t].req.kind \in {"overwrite", "edit", "art"}
      /\ Dest(t) \in Names /\ thr[t].at \in 1..Len(thr[t].files) /\ thr[t].files \in Seq(Files)
      /\ Len(thr[t].files) <= Len(thr[t].req.names)
  BY <1>1, DestIsName, ThreadFields DEF AtWork, KindIn
<1>3. CASE Fail(t) /\ UNCHANGED dir
  BY <1>1, <1>3, FailPlaces, QuietTouches
<1>4. CASE Done(t) /\ UNCHANGED dir
  <2>1. Stays(t)
    BY <1>1, <1>4, DoneGoes
  <2>2. thr'[t].pc \in {"idle", "keep", "replace"}
    BY <1>1, <1>2, <1>4, DoneGoes DEF Idle, KindIn
  <2>3. QED
    BY <1>1, <1>4, <2>1, <2>2, NoPlace, QuietTouches
<1>5. CASE Moved(t) /\ Goto(t, "check") /\ thr[t].pc = "replace"
  <2>1. dir' = [dir EXCEPT ![Dest(t)] = Own(t)]
    BY <1>2, <1>5 DEF Moved, KindIn
  <2>2. Own(t) \in staged /\ Own(t) \notin blank
    <3>1. thr[t].at \in Left(t)
      BY <1>2, <1>5 DEF Left, KindIn, Promoting
    <3>2. Own(t) \in Holds(t)
      BY <3>1 DEF Holds, Own
    <3>3. QED
      BY <1>1, <3>2 DEF StagedInv, Counted
  <2>3. \A m \in Names : dir'[m] = IF m = Dest(t) THEN Own(t) ELSE dir[m]
    BY <1>1, <1>2, <2>1, <2>2, PutStaged
  <2>4. Stays(t) /\ thr'[t].pc = "check"
    BY <1>1, <1>5, GotoGoes DEF Pcs
  <2>5. Own(t) \in ToSet(thr[t].files)
    BY <1>2 DEF ToSet, Own
  <2>6. MayReplace(thr[t].req, Dest(t))
    <3>1. Dest(t) = thr[t].req.names[thr[t].at]
      BY <1>2 DEF Dest, KindIn
    <3>2. thr[t].at \in DOMAIN thr[t].req.names
      <4>1. thr[t].req.names \in Seq(Names) /\ Len(thr[t].req.names) \in Nat
        BY <1>2, RequestFields
      <4>2. Len(thr[t].files) \in Nat
        BY <1>2
      <4>3. thr[t].at \in 1..Len(thr[t].req.names)
        BY <1>2, <4>1, <4>2
      <4>4. QED
        BY <4>1, <4>3
    <3>3. QED
      BY <1>2, <3>1, <3>2 DEF MayReplace, ToSet
  <2>7. Placing(t)'
    BY <2>4, NoPlace
  <2>8. made' \in made .. MaxFiles
    BY <1>1, CountedFiles
  <2>9. QED
    BY <1>1, <1>2, <1>5, <2>2, <2>3, <2>4, <2>5, <2>6, <2>7, <2>8 DEF Touches, Change
<1>6. QED
  BY <1>3, <1>4, <1>5 DEF MoveReplace, Check, PcIs

\* A file is moved to a name that is free, or held by the request's own
\* placeholder.
LEMMA MoveTouches ==
    ASSUME Apart, FilesInv, PlaceInv, NEW t \in Threads, Moved(t), Goto(t, "verify"),
           \/ thr[t].pc = "promote" /\ dir[Dest(t)] = NoFile
           \/ thr[t].pc = "over",
           UNCHANGED <<blank, made, orphans>>
    PROVE  Touches(t)
<1>1. /\ AtWork(t) /\ thr \in Workers /\ Counted /\ DirOK(dir, staged, made) /\ Placing(t)
      /\ made' \in made .. MaxFiles
  BY CountedFiles DEF FilesInv, PlaceInv
<1>2. /\ Creates(thr[t].req, Dest(t)) /\ Dest(t) \in Names /\ thr[t].req \in Requests
      /\ thr[t].req.names[1] \in Names /\ Own(t) # NoFile
      /\ ~KindIn(t, {"rename"}) => Own(t) \in staged
  BY CreatesDest
<1>3. /\ Stays(t) /\ thr'[t].pc = "verify" /\ Own(t)' = Own(t) /\ Dest(t)' = Dest(t)
  BY <1>1, GotoGoes DEF Pcs, Own, Dest, KindIn
<1>4. thr'[t] # thr[t]
  BY <1>3
<1>5. /\ dir'[Dest(t)] = Own(t) /\ Own(t) \notin blank
      /\ \A n \in Names : dir'[n] # dir[n] =>
            \/ n = Dest(t)
            \/ dir'[n] = NoFile /\ MayRemove(thr[t].req, n)
  <2>1. CASE KindIn(t, {"rename"})
    <3> DEFINE from == thr[t].req.names[1]
    <3>1. dir[from] # NoFile /\ dir' = [dir EXCEPT ![Dest(t)] = dir[from], ![from] = NoFile]
      BY <2>1 DEF Moved
    <3>2. dir[from] = Own(t) /\ Own(t) \notin blank
      BY <1>1, <2>1, <3>1 DEF Placing
    <3>3. MayRemove(thr[t].req, from)
      BY <2>1 DEF MayRemove, KindIn
    <3>4. from # Dest(t)
      BY <1>2, <3>3 DEF Apart
    <3>5. /\ dir'[from] = NoFile /\ dir'[Dest(t)] = dir[from]
          /\ \A l \in Names \ {from, Dest(t)} : dir'[l] = dir[l]
      BY <1>1, <1>2, <3>1, <3>4, MoveName
    <3>6. QED
      BY <3>2, <3>3, <3>5
  <2>2. CASE ~KindIn(t, {"rename"})
    <3>1. dir' = [dir EXCEPT ![Dest(t)] = Own(t)]
      BY <2>2 DEF Moved
    <3>2. \A m \in Names : dir'[m] = IF m = Dest(t) THEN Own(t) ELSE dir[m]
      BY <1>1, <1>2, <2>2, <3>1, PutStaged
    <3>3. QED
      BY <1>1, <1>2, <2>2, <3>2 DEF Counted
  <2>3. QED
    BY <2>1, <2>2
<1>6. \A n \in Names : dir'[n] # dir[n] => Change(t, n)
  BY <1>2, <1>5 DEF Change
<1>7. NoFile \notin blank
  BY <1>1, NoFileIsThere
<1>8. Placing(t)'
  BY <1>3, <1>5 DEF Placing
<1>9. QED
  BY <1>1, <1>2, <1>3, <1>4, <1>5, <1>6, <1>7, <1>8 DEF Touches

LEMMA PromoteTouches ==
    ASSUME Apart, FilesInv, PlaceInv, NEW t \in Threads, MoveNoReplace(t) \/ MoveOver(t)
    PROVE  Touches(t)
<1>1. /\ thr[t].pc \in {"promote", "over"} /\ UNCHANGED <<blank, made, orphans>>
      /\ Counted /\ DirOK(dir, staged, made) /\ thr[t].pc # "idle"
  BY DEF FilesInv, MoveNoReplace, MoveOver, PcIs
<1>2. Fail(t) => Stays(t) /\ Placing(t)' /\ thr'[t].pc = "idle" /\ thr'[t] # thr[t]
  BY <1>1, FailPlaces
<1>3. CASE Moved(t) /\ Goto(t, "verify")
           /\ (thr[t].pc = "promote" => dir[Dest(t)] = NoFile)
  BY <1>1, <1>3, MoveTouches
<1>4. CASE Fail(t) /\ UNCHANGED dir /\ thr[t].pc = "promote"
  BY <1>1, <1>2, <1>4, QuietTouches
<1>5. CASE Fail(t) /\ dir' = [dir EXCEPT ![Dest(t)] = NoFile] /\ thr[t].pc = "over"
  <2>1. Dest(t) \in Names /\ thr[t].req \in Requests
    BY <1>1, CreatesDest
  <2>2. \A m \in Names : dir'[m] = IF m = Dest(t) THEN NoFile ELSE dir[m]
    BY <1>1, <1>5, FreeName
  <2>3. made' \in made .. MaxFiles /\ NoFile \notin blank
    BY <1>1, CountedFiles, NoFileIsThere
  <2>4. QED
    BY <1>1, <1>2, <1>5, <2>1, <2>2, <2>3 DEF Touches, Change
<1>6. QED
  BY <1>3, <1>4, <1>5 DEF MoveNoReplace, MoveOver, PcIs

LEMMA ReserveTouches ==
    ASSUME Apart, FilesInv, PlaceInv, NEW t \in Threads, Reserve(t)
    PROVE  Touches(t)
<1>1. /\ thr[t].pc = "promote" /\ UNCHANGED orphans /\ AtWork(t) /\ thr \in Workers
      /\ Counted /\ DirOK(dir, staged, made) /\ Placing(t)
      /\ made \in Nat /\ MaxFiles \in Nat
  BY CountedFiles DEF FilesInv, PlaceInv, Reserve, PcIs
<1>2. CASE Fail(t) /\ UNCHANGED <<dir, blank, made>>
  BY <1>1, <1>2, FailPlaces, QuietTouches
<1>3. CASE /\ dir[Dest(t)] = NoFile /\ made < MaxFiles /\ made' = made + 1
           /\ blank' = blank \cup {made + 1}
           /\ dir' = [dir EXCEPT ![Dest(t)] = made + 1] /\ Goto(t, "over")
  <2>1. /\ Creates(thr[t].req, Dest(t)) /\ Dest(t) \in Names /\ thr[t].req \in Requests
        /\ thr[t].req.names[1] \in Names /\ Own(t) \in Names \cup 1..made
    BY <1>1, CreatesDest
  <2>2. /\ Stays(t) /\ thr'[t].pc = "over" /\ thr'[t].req = thr[t].req
        /\ Own(t)' = Own(t) /\ Dest(t)' = Dest(t)
    BY <1>1, <1>3, GotoGoes DEF Pcs, Own, Dest, KindIn
  <2>3. dir'[Dest(t)] = made + 1 /\ \A m \in Names \ {Dest(t)} : dir'[m] = dir[m]
    BY <1>1, <1>3, <2>1, PutNew
  <2>4. made' \in made .. MaxFiles /\ made + 1 .. made' = {made + 1}
    BY <1>1, <1>3
  <2>5. Own(t) # made + 1
    BY <1>1, <1>3, <2>1, FileFacts
  <2>6. Placing(t)'
    <3>1. dir'[Dest(t)] \in blank'
      BY <1>3, <2>3
    <3>2. KindIn(t, {"rename"}) =>
             /\ dir[thr[t].req.names[1]] \in {Own(t), NoFile} /\ Own(t) \notin blank'
             /\ thr[t].req.names[1] # Dest(t)
      <4>1. KindIn(t, {"rename"}) => MayRemove(thr[t].req, thr[t].req.names[1])
        BY DEF KindIn, MayRemove
      <4>2. QED
        BY <1>1, <1>3, <2>1, <2>5, <4>1 DEF Placing, Apart
    <3>3. KindIn(t, {"rename"})' <=> KindIn(t, {"rename"})
      BY <2>2 DEF KindIn
    <3>4. QED
      BY <2>1, <2>2, <2>3, <3>1, <3>2, <3>3 DEF Placing
  <2>7. \A n \in Names : dir'[n] # dir[n] => n = Dest(t) /\ Change(t, n) /\ thr'[t] # thr[t]
    BY <1>1, <1>3, <2>1, <2>2, <2>3 DEF Change
  <2>8. QED
    BY <1>1, <1>3, <2>1, <2>2, <2>4, <2>6, <2>7 DEF Touches
<1>4. QED
  BY <1>2, <1>3 DEF Reserve

\* The file that was moved to a name is the one that is there.
LEMMA VerifyTouches ==
    ASSUME Apart, FilesInv, PlaceInv, NEW t \in Threads, Verify(t)
    PROVE  Touches(t)
<1>1. /\ thr[t].pc = "verify" /\ UNCHANGED <<blank, made, orphans>> /\ AtWork(t)
      /\ thr \in Workers /\ dir[Dest(t)] = Own(t)
  BY DEF FilesInv, PlaceInv, Placing, Verify, PcIs
<1>2. Done(t) /\ UNCHANGED dir
  BY <1>1 DEF Verify
<1>3. thr[t].at \in Nat /\ thr[t].at >= 1 /\ thr[t].req.kind \in {"upload", "rename"}
      /\ thr[t].files \in Seq(Files)
      /\ (thr[t].req.kind = "rename" => Len(thr[t].files) = 1)
  BY <1>1, ThreadFields DEF AtWork, KindIn, Promoting, Placed
<1>4. Stays(t)
  BY <1>1, <1>2, DoneGoes
<1>5. \/ thr'[t].pc = "idle"
      \/ thr'[t].pc = "promote" /\ thr'[t].req.kind # "rename"
  <2>1. CASE thr[t].req.kind = "rename"
    <3>1. ~(thr[t].at < Len(thr[t].files))
      <4> DEFINE k == Len(thr[t].files)
      <4>1. k = 1 /\ thr[t].at \in Nat /\ thr[t].at >= 1
        BY <1>3, <2>1
      <4> HIDE DEF k
      <4>2. ~(thr[t].at < k)
        BY <4>1
      <4>3. QED
        BY <4>2 DEF k
    <3>2. QED
      BY <1>1, <1>2, <2>1, <3>1, DoneGoes DEF KindIn, Idle
  <2>2. CASE thr[t].req.kind = "upload"
    BY <1>1, <1>2, <2>2, DoneGoes DEF KindIn, Idle
  <2>3. QED
    BY <1>3, <2>1, <2>2
<1>6. QED
  BY <1>1, <1>2, <1>4, <1>5, NoPlace, QuietTouches

LEMMA HandleTouches ==
    ASSUME Apart, FilesInv, PlaceInv, NEW t \in Threads, Handle(t)
    PROVE  Touches(t)
BY StartTouches, OpenSourceTouches, UnlinkTouches, PromoteTouches, ReserveTouches,
   VerifyTouches, ReplaceTouches, CleanupTouches DEF Handle

LEMMA PlacesHold == ASSUME Apart PROVE Spec => [](FilesInv /\ PlaceInv)
<1>1. Init /\ FilesInv => PlaceInv
  <2> SUFFICES ASSUME Init, FilesInv PROVE PlaceInv
    OBVIOUS
  <2>1. blank = {} /\ \A t \in Threads : thr[t].pc = "idle"
    BY DEF Init, Idle
  <2>2. QED
    BY <2>1 DEF PlaceInv, Placing
<1>2. FilesInv /\ PlaceInv /\ [Next]_vars => PlaceInv'
  <2> SUFFICES ASSUME FilesInv, PlaceInv, [Next]_vars PROVE PlaceInv'
    OBVIOUS
  <2>1. ASSUME NEW t \in Threads, Handle(t) PROVE PlaceInv'
    BY <2>1, HandleTouches, TouchesKeeps
  <2>2. CASE Die
    <3>1. /\ UNCHANGED <<dir, blank>> /\ thr' = [t \in Threads |-> Idle]
          /\ orphans' = orphans \cup staged \cup {f \in blank : \E n \in Names : dir[n] = f}
      BY <2>2 DEF Die
    <3>2. \A t \in Threads : thr'[t].pc = "idle"
      BY <3>1 DEF Idle
    <3>3. \A n \in Names : dir'[n] \notin blank' \ orphans'
      BY <3>1
    <3>4. QED
      BY <3>1, <3>2, <3>3 DEF PlaceInv, Placing
  <2>3. CASE UNCHANGED vars
    <3>1. UNCHANGED <<dir, blank, thr, orphans>>
      BY <2>3 DEF vars
    <3>2. \A t \in Threads : Dest(t)' = Dest(t) /\ Own(t)' = Own(t)
      BY <3>1 DEF Dest, Own, KindIn
    <3>3. \A t \in Threads : Placing(t) => Placing(t)'
      BY <3>1, <3>2 DEF Placing, KindIn
    <3>4. QED
      BY <3>1, <3>2, <3>3 DEF PlaceInv
  <2>4. QED
    BY <2>1, <2>2, <2>3 DEF Next
<1>3. QED
  BY <1>1, <1>2, FilesHold, PTL DEF Spec

\* When the requests' names are apart, what a handler staged, and the empty
\* placeholder it holds a name with, are gone once it has answered, whichever
\* of its steps failed: only a crash leaves either behind.
THEOREM NothingLeftBehindAlways == ASSUME Apart PROVE Spec => []NothingLeftBehind
<1>1. StagedIsOwned /\ PlaceInv => NothingLeftBehind
  BY DEF StagedIsOwned, PlaceInv, NothingLeftBehind, PcIs
<1>2. QED
  BY <1>1, StagedIsOwnedAlways, PlacesHold, PTL

\* When the requests' names are apart, a whole file leaves its name only to a
\* request that was asked to remove it, or to the very file that request
\* brought, in one step: neither a failed move nor the check after it, nor a
\* crash, takes a file away.
THEOREM KeptUntilAskedAlways == ASSUME Apart PROVE Spec => KeptUntilAsked
<1> DEFINE Asked(n) == \E t \in Threads :
                          /\ thr'[t] # thr[t]
                          /\ \/ dir'[n] = NoFile /\ MayRemove(thr[t].req, n)
                             \/ dir'[n] \in ToSet(thr[t].files) /\ MayReplace(thr[t].req, n)
<1>1. ASSUME FilesInv, PlaceInv, [Next]_vars, NEW n \in Names, Whole(dir[n]), dir'[n] # dir[n]
      PROVE  Asked(n)
  <2>1. PICK t \in Threads : Handle(t)
    BY <1>1 DEF Next, vars, Die
  <2>2. Touches(t)
    BY <1>1, <2>1, HandleTouches
  <2>3. Change(t, n) /\ thr'[t] # thr[t]
    BY <1>1, <2>2 DEF Touches
  <2>4. dir[n] # NoFile /\ ~(thr[t].pc = "over" /\ n = Dest(t))
    BY <1>1 DEF Whole, PlaceInv, Placing
  <2>5. QED
    BY <2>3, <2>4 DEF Change
<1>2. FilesInv /\ PlaceInv /\ [Next]_vars =>
         [\A n \in Names : Whole(dir[n]) /\ dir'[n] # dir[n] => Asked(n)]_vars
  BY <1>1
<1>3. QED
  BY <1>2, PlacesHold, PTL DEF Spec, KeptUntilAsked

-----------------------------------------------------------------------------
(* Artwork.  Two replacements of one game's art may remove each other's, in  *)
(* two formats or in one; a replacement that has the game's art to itself    *)
(* leaves it some, whatever fails and wherever the process dies.             *)

\* A game's artwork is changed by Replace Art alone.
ArtOnly ==
    \A r \in Requests :
       IF r.kind = "art" THEN r.names[1] \in ToSet(Spellings)
       ELSE ToSet(r.names) \cap ToSet(Spellings) = {}

\* No two replacements are at work at once.
OneReplaces ==
    \A t, u \in Threads : thr[t].req.kind = "art" /\ thr[u].req.kind = "art" => t = u

\* The file the cleanup keeps is where it was found, and whole.
ArtKept ==
    \A t \in Threads : thr[t].pc = "probe" =>
       dir[thr[t].req.names[1]] = thr[t].files[1] /\ Whole(thr[t].files[1])

\* What is at a name stays whole while it stays there.
LEMMA WholeStays ==
    ASSUME FilesInv, NEW t \in Threads, Touches(t), NEW n \in Names, Whole(dir[n])
    PROVE  dir[n] \notin blank'
<1>1. /\ made \in Nat /\ made' \in Nat /\ made' <= MaxFiles /\ MaxFiles \in Nat
      /\ blank' \subseteq blank \cup (made + 1 .. made')
  BY CountedFiles DEF FilesInv, Touches
<1>2. dir[n] \in Names \cup 1..made /\ dir[n] \notin blank
  BY DEF FilesInv, DirOK, Whole
<1>3. \A f \in made + 1 .. made' : f \in 1..MaxFiles /\ f \notin 1..made
  BY <1>1
<1>4. QED
  BY <1>1, <1>2, <1>3, FileFacts

\* An art request's file is at a name where none is created.
LEMMA ArtName ==
    ASSUME Apart, ArtOnly, FilesInv, PlaceInv, NEW t \in Threads, thr[t].pc \in {"keep", "probe"}
    PROVE  LET p == thr[t].req.names[1] IN
           /\ thr[t].req \in Requests /\ thr[t].req.kind = "art"
           /\ p \in Names /\ p \in ToSet(Spellings) /\ dir[p] \notin blank
           /\ \A r \in Requests : ~Creates(r, p)
<1> DEFINE p == thr[t].req.names[1]
<1>1. thr[t].req \in Requests /\ thr[t].req.kind = "art"
  BY DEF FilesInv, AtWork, KindIn
<1>2. p \in Names /\ p \in ToSet(Spellings)
  BY <1>1, RequestFields DEF ArtOnly
<1>3. \A r \in Requests : ~Creates(r, p)
  BY <1>1, <1>2 DEF Apart, MayRemove
<1>4. dir[p] \notin blank
  BY <1>2, <1>3 DEF PlaceInv
<1>5. QED
  BY <1>1, <1>2, <1>3, <1>4

\* What another request changes is not a game's art.
LEMMA OthersLeaveArt ==
    ASSUME Apart, ArtOnly, OneReplaces, FilesInv, PlaceInv,
           NEW t \in Threads, thr[t].pc \in {"keep", "probe"},
           NEW u \in Threads \ {t}, Touches(u)
    PROVE  dir'[thr[t].req.names[1]] = dir[thr[t].req.names[1]]
<1> DEFINE p == thr[t].req.names[1]
<1>1. /\ thr[t].req.kind = "art" /\ p \in Names /\ p \in ToSet(Spellings)
      /\ \A r \in Requests : ~Creates(r, p)
  BY ArtName
<1> HIDE DEF p
<1> SUFFICES ASSUME dir'[p] # dir[p] PROVE FALSE
  BY DEF p
<1>2. Change(u, p) /\ thr[u].req \in Requests
  BY <1>1 DEF Touches
<1>3. thr[u].req.kind # "art"
  BY <1>1 DEF OneReplaces
<1>4. p \notin ToSet(thr[u].req.names)
  BY <1>1, <1>2, <1>3 DEF ArtOnly
<1>5. ~MayReplace(thr[u].req, p) /\ ~Creates(thr[u].req, p)
  BY <1>1, <1>2, <1>4 DEF MayReplace
<1>6. ~MayRemove(thr[u].req, p)
  <2>1. thr[u].req.names[1] \in ToSet(thr[u].req.names)
    <3>1. thr[u].req.names \in Seq(Names) /\ Len(thr[u].req.names) >= 1
          /\ Len(thr[u].req.names) \in Nat
      BY <1>2, RequestFields
    <3>2. 1 \in DOMAIN thr[u].req.names
      BY <3>1
    <3>3. QED
      BY <3>2 DEF ToSet
  <2>2. QED
    BY <1>3, <1>4, <2>1 DEF MayRemove
<1>7. ~(thr[u].pc = "over" /\ p = Dest(u))
  BY <1>5, CreatesDest
<1>8. QED
  BY <1>2, <1>5, <1>6, <1>7 DEF Change

\* The cleanup leaves the file it keeps.
LEMMA ProbeSpares ==
    ASSUME Apart, ArtOnly, FilesInv, PlaceInv, ArtKept, NEW t \in Threads, Probe(t)
    PROVE  LET p == thr[t].req.names[1] IN
           /\ p \in Names /\ p \in ToSet(Spellings) /\ thr[t].pc = "probe"
           /\ dir'[p] = dir[p] /\ dir[p] = thr[t].files[1] /\ Whole(dir[p])
           /\ blank' = blank
<1> DEFINE p == thr[t].req.names[1]
<1>1. thr[t].pc = "probe" /\ blank' = blank
  BY DEF Probe, PcIs
<1>2. p \in Names /\ p \in ToSet(Spellings)
  BY <1>1, ArtName
<1>3. dir[p] = thr[t].files[1] /\ Whole(dir[p])
  BY <1>1 DEF ArtKept
<1>4. \/ dir' = dir
      \/ /\ dir[Spellings[thr[t].at]] # thr[t].files[1]
         /\ dir' = [dir EXCEPT ![Spellings[thr[t].at]] = NoFile]
  BY DEF Probe
<1>5. p # Spellings[thr[t].at] \/ dir' = dir
  BY <1>3, <1>4
<1>6. dir \in [Names -> Files \cup {NoFile}]
  BY DEF FilesInv, DirOK, Listings
<1> HIDE DEF p
<1>7. dir'[p] = dir[p]
  BY <1>2, <1>4, <1>5, <1>6
<1>8. QED
  BY <1>1, <1>2, <1>3, <1>7 DEF p

\* An art request frees a name only in its cleanup.
LEMMA ArtProbes ==
    ASSUME FilesInv, NEW t \in Threads, Handle(t), thr[t].req.kind = "art",
           NEW n \in Names, dir[n] # NoFile, dir'[n] = NoFile
    PROVE  Probe(t)
<1>1. thr \in Workers /\ AtWork(t) /\ dir' # dir
  BY DEF FilesInv
<1>2. ~(Refuse(t) \/ Stage(t) \/ OpenTarget(t) \/ OpenSource(t) \/ FindTarget(t))
  BY <1>1 DEF Refuse, vars, Stage, OpenTarget, OpenSource, FindTarget
<1>3. ~(Unlink(t) \/ MoveNoReplace(t) \/ Reserve(t) \/ MoveOver(t) \/ Verify(t))
  BY <1>1 DEF AtWork, KindIn, Unlink, MoveNoReplace, Reserve, MoveOver, Verify, PcIs
<1>4. ~(Check(t) \/ FindKept(t))
  BY <1>1 DEF Check, FindKept
<1>5. ASSUME MoveReplace(t) PROVE FALSE
  <2>1. thr[t].pc = "replace" /\ Moved(t)
    BY <1>1, <1>5 DEF MoveReplace, PcIs
  <2>2. thr[t].pc \in Promoting /\ ~KindIn(t, {"rename"})
    BY <2>1 DEF Promoting, KindIn
  <2>3. /\ Own(t) \in staged /\ dir'[Dest(t)] = Own(t)
        /\ \A m \in Names \ {Dest(t)} : dir'[m] = dir[m]
    BY <2>1, <2>2, MovedGoes
  <2>4. NoFile \notin staged
    BY CountedFiles DEF FilesInv
  <2>5. QED
    BY <2>3, <2>4
<1>6. QED
  BY <1>2, <1>3, <1>4, <1>5 DEF Handle

\* A step of the cleanup: it finds what it is to keep, or leaves it alone.
LEMMA OwnKept ==
    ASSUME Apart, ArtOnly, FilesInv, PlaceInv, ArtKept, NEW t \in Threads, Handle(t),
           thr'[t].pc = "probe"
    PROVE  /\ dir'[thr'[t].req.names[1]] = thr'[t].files[1]
           /\ thr'[t].files[1] # NoFile /\ thr'[t].files[1] \notin blank'
<1>1. Touches(t) /\ thr \in Workers /\ thr[t] \in ThreadState
  BY HandleTouches DEF FilesInv, Workers
<1>2. FindKept(t) \/ Probe(t)
  <2>1. CASE Stage(t) \/ OpenTarget(t) \/ OpenSource(t) \/ FindTarget(t) \/ Refuse(t)
    <3>1. CASE Refuse(t)
      BY <3>1 DEF Refuse, vars, PcIs
    <3>2. CASE Stage(t)
      <4>1. PICK r \in Requests : thr' = [thr EXCEPT ![t] =
                  [pc |-> IF r.kind = "upload" THEN "promote" ELSE "replace",
                   req |-> r, at |-> 1, files |-> New(Len(r.names))]]
        BY <3>2 DEF Stage
      <4>2. QED
        BY <1>1, <4>1 DEF Workers
    <3>3. CASE OpenTarget(t)
      BY <1>1, <3>3 DEF OpenTarget, Workers
    <3>4. CASE OpenSource(t)
      BY <1>1, <3>4 DEF OpenSource, Workers
    <3>5. CASE FindTarget(t)
      BY <1>1, <3>5 DEF FindTarget, Workers
    <3>6. QED
      BY <2>1, <3>1, <3>2, <3>3, <3>4, <3>5
  <2>2. CASE Answer(t) \/ Fail(t)
    BY <1>1, <2>2, AnswerEnds DEF Fail, Idle
  <2>3. CASE Goto(t, "verify") \/ Goto(t, "over") \/ Goto(t, "check")
    BY <1>1, <2>3, GotoGoes DEF Pcs
  <2>4. CASE Done(t)
    BY <1>1, <2>4, DoneGoes DEF Idle
  <2>5. QED
    BY <2>1, <2>2, <2>3, <2>4
       DEF Handle, Unlink, MoveNoReplace, Reserve, MoveOver, Verify, MoveReplace, Check
<1>3. thr[t].pc \in {"keep", "probe"}
  BY <1>2 DEF FindKept, Probe, PcIs
<1> DEFINE p == thr[t].req.names[1]
<1>4. p \in Names /\ dir[p] \notin blank
  BY <1>3, ArtName
<1>5. Answer(t) => FALSE
  BY <1>1, AnswerEnds DEF Idle
<1>6. CASE FindKept(t)
  <2>1. /\ dir[p] # NoFile /\ dir' = dir
        /\ thr' = [thr EXCEPT ![t].pc = "probe", ![t].at = 1, ![t].files = <<dir[p]>>]
    BY <1>5, <1>6 DEF FindKept
  <2>2. thr'[t].req = thr[t].req /\ thr'[t].files = <<dir[p]>>
    BY <1>1, <2>1 DEF ThreadState, Workers
  <2>3. dir[p] \notin blank'
    BY <1>1, <1>4, <2>1, WholeStays DEF Whole
  <2>4. thr'[t].files[1] = dir[p]
    BY <2>2
  <2>5. QED
    BY <2>1, <2>2, <2>3, <2>4
<1>7. CASE Probe(t)
  <2>1. thr[t].pc = "probe" /\ thr' = [thr EXCEPT ![t].at = thr[t].at + 1]
    BY <1>5, <1>7 DEF Probe, PcIs
  <2>2. thr'[t].req = thr[t].req /\ thr'[t].files = thr[t].files
    BY <1>1, <2>1 DEF ThreadState, Workers
  <2>3. /\ dir[p] = thr[t].files[1] /\ Whole(dir[p]) /\ dir'[p] = dir[p]
        /\ blank' = blank
    BY <1>7, ProbeSpares
  <2>4. QED
    BY <2>2, <2>3 DEF Whole
<1>8. QED
  BY <1>2, <1>6, <1>7

LEMMA ArtKeptNext ==
    ASSUME Apart, ArtOnly, OneReplaces, FilesInv, PlaceInv, ArtKept, [Next]_vars
    PROVE  ArtKept'
<1>1. ASSUME NEW t \in Threads, Handle(t) PROVE ArtKept'
  <2>1. Touches(t)
    BY <1>1, HandleTouches
  <2>2. ASSUME NEW u \in Threads \ {t}, thr'[u].pc = "probe"
        PROVE  /\ dir'[thr'[u].req.names[1]] = thr'[u].files[1]
               /\ thr'[u].files[1] # NoFile /\ thr'[u].files[1] \notin blank'
    <3>1. thr'[u] = thr[u]
      BY <2>1 DEF Touches, Stays
    <3>2. dir'[thr[u].req.names[1]] = dir[thr[u].req.names[1]]
      BY <2>1, <2>2, <3>1, OthersLeaveArt
    <3>3. dir[thr[u].req.names[1]] = thr[u].files[1] /\ Whole(dir[thr[u].req.names[1]])
          /\ thr[u].req.names[1] \in Names
      BY <2>2, <3>1, ArtName DEF ArtKept
    <3>4. dir[thr[u].req.names[1]] \notin blank'
      BY <2>1, <3>3, WholeStays
    <3>5. QED
      BY <3>1, <3>2, <3>3, <3>4 DEF Whole
  <2>3. ASSUME thr'[t].pc = "probe"
        PROVE  /\ dir'[thr'[t].req.names[1]] = thr'[t].files[1]
               /\ thr'[t].files[1] # NoFile /\ thr'[t].files[1] \notin blank'
    BY <1>1, <2>3, OwnKept
  <2>4. QED
    BY <2>2, <2>3 DEF ArtKept, Whole
<1>2. CASE Die
  <2>1. \A t \in Threads : thr'[t].pc = "idle"
    BY <1>2 DEF Die, Idle
  <2>2. QED
    BY <2>1 DEF ArtKept
<1>3. CASE UNCHANGED vars
  BY <1>3 DEF vars, ArtKept, Whole
<1>4. QED
  BY <1>1, <1>2, <1>3 DEF Next

\* "The promoted file is always kept" (cs_art.h), for
\* replacements that do not overlap, and art that nothing else touches: a game
\* that has art has some after every step, also of the cleanup, after an error
\* and after a crash.  The run files_art shows what overlapping ones do.
THEOREM ArtStaysAlways ==
    ASSUME Apart, ArtOnly
    PROVE  Spec /\ []OneReplaces => ArtStays
<1> DEFINE Some == \E n \in ToSet(Spellings) : Whole(dir[n])
           SomeNext == \E n \in ToSet(Spellings) : Whole(dir'[n])
<1>1. ASSUME FilesInv, PlaceInv, ArtKept, [Next]_vars, Some
      PROVE  SomeNext
  <2>1. PICK n \in ToSet(Spellings) : Whole(dir[n])
    BY <1>1
  <2>2. n \in Names
    <3>1. Spellings \in Seq(Names)
      BY FileStoreAssumption
    <3>2. QED
      BY <3>1 DEF ToSet
  <2>3. CASE dir' = dir /\ blank' = blank
    BY <2>1, <2>3 DEF Whole
  <2>4. CASE ~(dir' = dir /\ blank' = blank)
    <3>1. PICK t \in Threads : Handle(t)
      BY <1>1, <2>4 DEF Next, vars, Die
    <3>2. Touches(t) /\ blank \subseteq blank'
      BY <1>1, <3>1, HandleTouches DEF Touches
    <3>3. CASE dir'[n] = dir[n]
      <4>1. dir[n] \notin blank'
        BY <1>1, <2>1, <2>2, <3>2, WholeStays
      <4>2. QED
        BY <2>1, <3>2, <3>3, <4>1 DEF Whole
    <3>4. CASE dir'[n] # dir[n]
      <4>1. Change(t, n) /\ thr[t].req \in Requests
        BY <2>2, <3>2, <3>4 DEF Touches
      <4>2. dir[n] # NoFile /\ ~(thr[t].pc = "over" /\ n = Dest(t))
        BY <1>1, <2>1, <2>2 DEF Whole, PlaceInv, Placing
      <4>3. CASE dir'[n] = NoFile /\ MayRemove(thr[t].req, n)
        <5>1. thr[t].req.kind = "art"
          <6>1. thr[t].req.names[1] \in ToSet(thr[t].req.names)
            <7>1. thr[t].req.names \in Seq(Names) /\ Len(thr[t].req.names) >= 1
                  /\ Len(thr[t].req.names) \in Nat
              BY <4>1, RequestFields
            <7>2. 1 \in DOMAIN thr[t].req.names
              BY <7>1
            <7>3. QED
              BY <7>2 DEF ToSet
          <6>2. QED
            BY <4>1, <4>3, <6>1 DEF MayRemove, ArtOnly
        <5>2. Probe(t)
          BY <1>1, <2>2, <3>1, <4>2, <4>3, <5>1, ArtProbes
        <5>3. QED
          BY <1>1, <5>2, ProbeSpares DEF Whole
      <4>4. CASE dir'[n] = Own(t) /\ Own(t) \in ToSet(thr[t].files) /\ MayReplace(thr[t].req, n)
        <5>1. dir'[n] \notin blank'
          <6>1. ~Creates(thr[t].req, n)
            BY <4>4 DEF MayReplace, Creates
          <6>2. QED
            BY <2>2, <3>2, <3>4, <6>1 DEF Touches
        <5>2. dir'[n] # NoFile
          <6>1. thr[t].files \in Seq(Files)
            BY <1>1, ThreadFields DEF FilesInv
          <6>2. NoFile \notin Files
            BY FileFacts DEF Files
          <6>3. QED
            BY <4>4, <6>1, <6>2 DEF ToSet
        <5>3. QED
          BY <3>2, <5>1, <5>2 DEF Whole
      <4>5. QED
        BY <4>1, <4>2, <4>3, <4>4 DEF Change
    <3>5. QED
      BY <3>3, <3>4
  <2>5. QED
    BY <2>3, <2>4
<1>2. ASSUME FilesInv, PlaceInv, ArtKept, [Next]_vars
      PROVE  [Some => SomeNext]_vars
  BY <1>1, <1>2
<1>3. Init => ArtKept
  BY DEF Init, Idle, ArtKept
<1>4. FilesInv /\ PlaceInv /\ ArtKept /\ OneReplaces /\ [Next]_vars => ArtKept'
  BY ArtKeptNext
<1>5. FilesInv /\ PlaceInv /\ ArtKept /\ [Next]_vars => [Some => SomeNext]_vars
  BY <1>2
<1> HIDE DEF Some, SomeNext
<1>6. Spec /\ []OneReplaces => [][Some => SomeNext]_vars
  BY <1>3, <1>4, <1>5, PlacesHold, PTL DEF Spec
<1>7. QED
  BY <1>6 DEF ArtStays, Some, SomeNext
=============================================================================
