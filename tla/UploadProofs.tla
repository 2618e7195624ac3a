---------------------------- MODULE UploadProofs ----------------------------
(***************************************************************************)
(* Proofs about the uploads of ROMs (RomPolicy, RomUpload), for any        *)
(* catalogs and selections, any browsers and requests, and batches of any  *)
(* size: that what lands is listed, that companions do not land before     *)
(* their game, that a preview which passed is not taken back, and when a   *)
(* summary is true.                                                        *)
(***************************************************************************)
EXTENDS RomUpload, FiniteSetTheorems, SequenceTheorems, WellFoundedInduction, TLAPS

-----------------------------------------------------------------------------
(* The policy *)

\* What a policy accepts, one of its rows lists and none ignores.
LEMMA AcceptedIsListed ==
    ASSUME NEW c, NEW n, PolicyFor(c, Platform).enforced,
           Accepted(PolicyFor(c, Platform), n)
    PROVE  /\ \E r \in RowsFor(c, Platform) : RowLists(r, n)
           /\ \A r \in RowsFor(c, Platform) : n \notin r.ignored
<1> DEFINE rows == RowsFor(c, Platform)
<1> DEFINE p == PolicyFor(c, Platform)
<1> HIDE DEF rows
<1>1. /\ p.extensions = UNION {r.extensions : r \in rows}
      /\ p.playlists = UNION {r.playlists : r \in rows}
      /\ p.archives = UNION {Archives(r) : r \in rows}
      /\ p.names = UNION {r.names : r \in rows}
      /\ p.ignored = UNION {r.ignored : r \in rows}
  BY DEF PolicyFor, AddSystems, rows
<1> HIDE DEF p
<1>2. /\ n \notin p.ignored
      /\ (n \in p.names \/ n.ext \in p.extensions \cup p.playlists \cup p.archives)
  BY DEF Accepted, p
<1>3. \A r \in rows : n \notin r.ignored
  BY <1>1, <1>2
<1>4. \E r \in rows : RowLists(r, n)
  <2>1. CASE n \in p.names
    BY <1>1, <2>1 DEF RowLists
  <2>2. CASE n.ext \in p.extensions \cup p.playlists
    BY <1>1, <2>2 DEF RowLists
  <2>3. CASE n.ext \in p.archives
    <3>1. PICK r \in rows : n.ext \in Archives(r)
      BY <1>1, <2>3
    <3> QED BY <3>1 DEF Archives, RowLists
  <2> QED BY <1>2, <2>1, <2>2, <2>3
<1> QED BY <1>3, <1>4 DEF rows

-----------------------------------------------------------------------------
(* The order of a selection, and its batches *)

\* g is a game of the bundle that f is in.
GameFor(p, f, g) == g.dir # <<>> /\ Bundle(g) = Bundle(f) /\ Accepted(p, g.name)

\* Every file of a bundle is a game or comes after one, and the others are
\* accepted.
Led(p, files) ==
    \A i \in 1 .. Len(files) :
        IF files[i].dir = <<>> THEN Accepted(p, files[i].name)
        ELSE \E j \in 1 .. i : GameFor(p, files[i], files[j])

\* No game comes after a companion of its bundle.
GamesFirst(p, files) ==
    \A i, j \in 1 .. Len(files) :
        files[i].dir # <<>> /\ ~Accepted(p, files[i].name) /\ GameFor(p, files[i], files[j])
            => j < i

LEMMA LeastOf ==
    ASSUME NEW S, S \subseteq Nat, \E i : i \in S
    PROVE  \E i \in S : \A j \in S : i <= j
<1> DEFINE less == {ss \in Nat \X Nat : ss[1] < ss[2]}
<1>1. IsWellFoundedOn(less, Nat)
  BY NatLessThanWellFounded DEF OpToRel
<1> HIDE DEF less
<1>2. PICK i \in S : \A j \in S : ~(<<j, i>> \in less)
  BY <1>1, WFMin
<1>3. ASSUME NEW j \in S PROVE i <= j
  <2>1. i \in Nat /\ j \in Nat
    BY <1>2
  <2>2. <<j, i>> \notin less
    BY <1>2
  <2>3. ~(j < i)
    BY <2>1, <2>2 DEF less
  <2> QED BY <2>1, <2>3
<1> QED BY <1>3

LEMMA InSeqFacts ==
    ASSUME NEW S, NEW s \in Seq(S)
    PROVE  /\ Len(s) \in Nat
           /\ \A i \in 1 .. Len(s) : s[i] \in InSeq(s) /\ s[i] \in S
           /\ InSeq(s) \subseteq S
           /\ \A x \in InSeq(s) : \E i \in 1 .. Len(s) : s[i] = x
<1>1. Len(s) \in Nat /\ \A i \in 1 .. Len(s) : s[i] \in S
  BY ElementOfSeq
<1> QED BY <1>1 DEF InSeq

LEMMA SelectionFacts ==
    ASSUME NEW s \in Selections
    PROVE  s.files \in Seq(MaySend)
<1>1. s.files \in Seq(InSeq(s.files))
  BY RomUploadAssumption
<1>2. InSeq(s.files) \subseteq MaySend
  BY DEF MaySend
<1> QED BY <1>1, <1>2, SeqMonotonic

\* The order in which the page sends what the preview let pass.
LEMMA OrderFacts ==
    ASSUME NEW files \in Seq(MaySend), Supported(files), NEW E \in Entrypoints(files),
           NEW q \in Prioritized(files, E), NEW s, s = [k \in 1 .. Len(files) |-> files[q[k]]]
    PROVE  /\ s \in Seq(MaySend) /\ Len(s) = Len(files)
           /\ Led(Policy, s)
           /\ (Policy.enforced =>
                 \A f, g \in InSeq(files) :
                    (f.dir # <<>> /\ g.dir # <<>> /\ Bundle(f) = Bundle(g)
                     /\ Accepted(Policy, f.name) /\ Accepted(Policy, g.name)) => f = g)
              => GamesFirst(Policy, s)
<1> DEFINE n == Len(files)
<1>1. n \in Nat /\ \A i \in 1 .. n : files[i] \in MaySend
  BY InSeqFacts
<1>2. /\ \A k \in 1 .. n : q[k] \in 1 .. n
      /\ \A i \in 1 .. n : \E k \in 1 .. n : q[k] = i
      /\ \A j, k \in 1 .. n : j < k /\ files[q[k]] \in E => files[q[j]] \in E
  BY DEF Prioritized
<1>3. s \in [1 .. n -> MaySend]
  BY <1>1, <1>2
<1> HIDE DEF n
<1>4. s \in Seq(MaySend) /\ Len(s) = n
  BY <1>1, <1>3, LenProperties, SeqDef
<1>5. \A k \in 1 .. n : s[k] = files[q[k]] /\ s[k] \in InSeq(files)
  BY <1>2 DEF n, InSeq
<1>6. ASSUME NEW x \in InSeq(files) PROVE \E k \in 1 .. n : s[k] = x
  <2>1. PICK i \in 1 .. n : files[i] = x
    BY <1>6 DEF InSeq, n
  <2>2. PICK k \in 1 .. n : q[k] = i
    BY <1>2
  <2> QED BY <2>1, <2>2, <1>5
<1>7. ASSUME ~Policy.enforced PROVE \A m : Accepted(Policy, m)
  BY <1>7 DEF Accepted
\* With a policy, each bundle that is sent has an entrypoint.
<1>8. ASSUME Policy.enforced
      PROVE  /\ \A e \in E : e \in InSeq(files) /\ e.dir # <<>> /\ Accepted(Policy, e.name)
             /\ \A f \in InSeq(files) : f.dir # <<>> => \E e \in E : Bundle(e) = Bundle(f)
  <2> DEFINE games == {f \in InSeq(files) : f.dir # <<>> /\ Accepted(Policy, f.name)}
  <2> DEFINE tops == {Bundle(f) : f \in games}
  <2>1. E \in SUBSET games /\ tops = {Bundle(f) : f \in E}
    BY <1>8 DEF Entrypoints
  <2>2. ASSUME NEW f \in InSeq(files), f.dir # <<>> PROVE \E e \in E : Bundle(e) = Bundle(f)
    <3>1. PICK g \in InSeq(files) : /\ g.dir # <<>> /\ Bundle(g) = Bundle(f)
                                    /\ Accepted(Policy, g.name)
      BY <2>2 DEF Supported
    <3>2. Bundle(g) \in tops
      BY <3>1
    <3> HIDE DEF tops
    <3> QED BY <2>1, <3>1, <3>2
  <2> QED BY <2>1, <2>2
<1>9. Led(Policy, s)
  <2>1. SUFFICES ASSUME NEW i \in 1 .. n
                 PROVE  IF s[i].dir = <<>> THEN Accepted(Policy, s[i].name)
                        ELSE \E j \in 1 .. i : GameFor(Policy, s[i], s[j])
    BY <1>4 DEF Led
  <2>2. CASE s[i].dir = <<>>
    BY <2>2, <1>5 DEF Supported
  <2>3. CASE s[i].dir # <<>> /\ Accepted(Policy, s[i].name)
    <3>1. GameFor(Policy, s[i], s[i]) /\ i \in 1 .. i
      BY <2>3, <1>1 DEF GameFor
    <3> QED BY <2>3, <3>1
  <2>4. CASE s[i].dir # <<>> /\ ~Accepted(Policy, s[i].name)
    <3>1. PICK e \in E : Bundle(e) = Bundle(s[i])
      BY <2>4, <1>5, <1>7, <1>8
    <3>2. e \in InSeq(files) /\ GameFor(Policy, s[i], e)
      BY <2>4, <3>1, <1>7, <1>8 DEF GameFor
    <3>3. PICK j \in 1 .. n : s[j] = e
      BY <3>2, <1>6
    <3>4. s[i] \notin E
      BY <2>4, <1>7, <1>8
    <3>5. ~(i < j)
      BY <3>3, <3>4, <1>2, <1>5
    <3>6. j \in 1 .. i
      BY <3>5, <1>1
    <3> QED BY <2>4, <3>2, <3>3, <3>6
  <2> QED BY <2>2, <2>3, <2>4
<1>10. ASSUME Policy.enforced =>
                 \A f, g \in InSeq(files) :
                    (f.dir # <<>> /\ g.dir # <<>> /\ Bundle(f) = Bundle(g)
                     /\ Accepted(Policy, f.name) /\ Accepted(Policy, g.name)) => f = g
       PROVE  GamesFirst(Policy, s)
  <2>1. SUFFICES ASSUME NEW i \in 1 .. n, NEW j \in 1 .. n, s[i].dir # <<>>,
                        ~Accepted(Policy, s[i].name), GameFor(Policy, s[i], s[j])
                 PROVE  j < i
    BY <1>4 DEF GamesFirst
  <2>2. PICK e \in E : Bundle(e) = Bundle(s[i])
    BY <2>1, <1>5, <1>7, <1>8
  <2>3. e = s[j]
    <3>1. Policy.enforced
      BY <2>1, <1>7
    <3>2. e \in InSeq(files) /\ e.dir # <<>> /\ Accepted(Policy, e.name)
      BY <3>1, <1>8
    <3>3. s[j] \in InSeq(files) /\ s[j].dir # <<>> /\ Accepted(Policy, s[j].name)
      BY <2>1, <1>5 DEF GameFor
    <3>4. Bundle(e) = Bundle(s[j])
      BY <2>1, <2>2 DEF GameFor
    <3> QED BY <1>10, <3>1, <3>2, <3>3, <3>4
  <2>4. s[i] \notin E
    BY <2>1, <1>7, <1>8
  <2>5. ~(i < j) /\ i # j
    BY <2>2, <2>3, <2>4, <1>2, <1>5
  <2> QED BY <2>5, <1>1
<1> QED BY <1>4, <1>9, <1>10 DEF n

LEMMA BatchFacts ==
    ASSUME NEW b, sending[b].files \in Seq(MaySend), sending[b].at \in Nat,
           sending[b].at \in 1 .. Len(sending[b].files)
    PROVE  LET s == sending[b].files
               at == sending[b].at
               r == NextBatch(b)
           IN  /\ r \in Seq(MaySend) /\ Len(r) \in 1 .. Batch
               /\ Len(s) \in Nat /\ at - 1 + Len(r) <= Len(s)
               /\ \A i \in 1 .. Len(r) : at - 1 + i \in 1 .. Len(s) /\ r[i] = s[at - 1 + i]
               /\ at + Batch <= Len(s) => Len(r) = Batch
               /\ at + Batch > Len(s) => at - 1 + Len(r) = Len(s)
<1> DEFINE s == sending[b].files
<1> DEFINE at == sending[b].at
<1> DEFINE end == IF at + Batch - 1 < Len(s) THEN at + Batch - 1 ELSE Len(s)
<1>1. NextBatch(b) = SubSeq(s, at, end)
  BY DEF NextBatch
<1>2. Len(s) \in Nat /\ Batch \in Nat \ {0}
  BY InSeqFacts, RomUploadAssumption
<1> HIDE DEF s, at
<1>3. s \in Seq(MaySend) /\ at \in 1 .. Len(s)
  BY DEF s, at
<1>4. /\ end \in at .. Len(s) /\ end - at + 1 \in 1 .. Batch
      /\ at + Batch <= Len(s) => end = at + Batch - 1
      /\ at + Batch > Len(s) => end = Len(s)
  BY <1>2, <1>3
<1> HIDE DEF end
<1>5. /\ SubSeq(s, at, end) \in Seq(MaySend)
      /\ Len(SubSeq(s, at, end)) = end - at + 1
      /\ \A i \in 1 .. end - at + 1 : SubSeq(s, at, end)[i] = s[at + i - 1]
  <2>1. at \in 1 .. Len(s) + 1 /\ end \in at - 1 .. Len(s) /\ ~(end < at)
    BY <1>2, <1>3, <1>4
  <2> QED BY <1>3, <2>1, SubSeqProperties
<1> DEFINE r == SubSeq(s, at, end)
<1> DEFINE k == Len(r)
<1> HIDE DEF r
<1>6. r \in Seq(MaySend) /\ k = end - at + 1 /\ \A i \in 1 .. k : r[i] = s[at + i - 1]
  BY <1>5 DEF r
<1> HIDE DEF k
<1>7. /\ k \in 1 .. Batch /\ at - 1 + k <= Len(s)
      /\ \A i \in 1 .. k : at - 1 + i \in 1 .. Len(s) /\ at + i - 1 = at - 1 + i
      /\ at + Batch <= Len(s) => k = Batch
      /\ at + Batch > Len(s) => at - 1 + k = Len(s)
  <2> DEFINE len == Len(s)
  <2>1. /\ len \in Nat /\ Batch \in Nat \ {0} /\ at \in 1 .. len /\ end \in at .. len
        /\ k = end - at + 1 /\ k \in 1 .. Batch
        /\ (at + Batch <= len => end = at + Batch - 1)
        /\ (at + Batch > len => end = len)
    BY <1>2, <1>3, <1>4, <1>6
  <2> HIDE DEF len
  <2>2. /\ k \in 1 .. Batch /\ at - 1 + k <= len
        /\ (at + Batch <= len => k = Batch)
        /\ (at + Batch > len => at - 1 + k = len)
    BY <2>1
  <2>3. ASSUME NEW i \in 1 .. k PROVE at - 1 + i \in 1 .. len /\ at + i - 1 = at - 1 + i
    BY <2>1, <2>3
  <2> QED BY <2>2, <2>3 DEF len
<1> QED BY <1>1, <1>2, <1>6, <1>7 DEF r, k, s, at

-----------------------------------------------------------------------------
(* The invariant *)

PageShape(u) ==
    /\ DOMAIN u = {"pc", "kind", "files", "overwrite", "at", "by", "uploaded", "failed",
                   "cancelled", "put"}
    /\ u.pc \in {"idle", "preview", "send", "wait", "summary"}
    /\ u.files \in Seq(MaySend) /\ u.overwrite \in BOOLEAN /\ u.at \in Nat \ {0}
    /\ u.by \in Workers \cup {Nobody} /\ (u.pc = "wait" <=> u.by # Nobody)
    /\ u.uploaded \in Nat /\ u.failed \in Nat /\ u.put \in Nat
    /\ u.uploaded + u.failed <= Len(u.files)

\* How many of its files an upload has been answered for.
Sent(u) == IF u.at <= Len(u.files) THEN u.at - 1 ELSE Len(u.files)

\* An upload under the policy p, with these files on the card; lost says that
\* some have been taken away.
PageFits(u, p, here, lost) ==
    /\ PageShape(u)
    /\ u.pc = "preview" =>
          /\ \E s \in Selections : u.files = s.files
          /\ u.uploaded = 0 /\ u.failed = 0 /\ u.at = 1
    /\ u.pc \in {"send", "wait"} =>
          /\ u.uploaded + u.failed = Sent(u)
          /\ Led(p, u.files) /\ (OneGame => GamesFirst(p, u.files))
          /\ u.failed = 0 /\ ~lost => \A i \in 1 .. Len(u.files) : i < u.at => u.files[i] \in here

WorkShape(r) ==
    /\ DOMAIN r = {"pc", "page", "files", "overwrite", "at", "code", "path"}
    /\ r.pc \in {"free", "gate", "put", "answer"}
    /\ r.page \in Browsers \cup {Nobody} /\ r.files \in Seq(MaySend) /\ r.overwrite \in BOOLEAN
    /\ r.at \in Nat /\ r.code \in {"ok", "formats", "conflict", "storage"}
    /\ Len(r.files) <= Batch /\ r.path \in 0 .. Len(r.files)

\* A request: past the gate, every bundle has a game on the card or in it, and
\* what comes before the next file is on the card.
WorkFits(r, p, here, lost) ==
    /\ WorkShape(r)
    /\ r.pc = "free" => r.page = Nobody
    /\ r.pc \in {"gate", "put"} => Len(r.files) >= 1 /\ r.code = "ok"
    /\ r.pc = "gate" => r.at = 1
    /\ OneGame => GamesFirst(p, r.files)
    /\ r.pc = "put" =>
          /\ r.at \in 1 .. Len(r.files)
          /\ \A i \in 1 .. Len(r.files) : r.files[i].dir = <<>> => Accepted(p, r.files[i].name)
          /\ ~lost => \A i \in 1 .. Len(r.files) : r.files[i].dir # <<>> =>
                \E g \in here \cup InSeq(r.files) : GameFor(p, r.files[i], g)
          /\ ~lost => \A i \in 1 .. r.at - 1 : r.files[i] \in here
    /\ r.pc = "answer" /\ r.code = "ok" /\ ~lost => InSeq(r.files) \subseteq here

\* A page waits for the request that works for it, which has its next batch.
Paired ==
    /\ \A b \in Browsers : sending[b].pc = "wait" =>
          /\ worker[sending[b].by].page = b /\ worker[sending[b].by].pc # "free"
          /\ sending[b].at <= Len(sending[b].files)
          /\ worker[sending[b].by].files = NextBatch(b)
    /\ \A w \in Workers : worker[w].page # Nobody =>
          /\ worker[w].page \in Browsers
          /\ sending[worker[w].page].pc = "wait" /\ sending[worker[w].page].by = w

LandedInv ==
    /\ card \subseteq MaySend \cup first
    /\ \A f \in Landed : f.dir = <<>> => Accepted(Policy, f.name)
    /\ OneGame /\ ~robbed => \A f \in Landed : f.dir # <<>> => \E g \in card : GameFor(Policy, f, g)

Fitting ==
    /\ sending = [b \in Browsers |-> sending[b]]
    /\ worker = [w \in Workers |-> worker[w]]
    /\ \A b \in Browsers : PageFits(sending[b], Policy, card, robbed)
    /\ \A w \in Workers : WorkFits(worker[w], Policy, card, robbed)

Histories ==
    /\ catalog \in Catalogs /\ first \in CardSets /\ robbed \in BOOLEAN
    /\ faults \in 0 .. MaxFaults

UploadInv == Histories /\ Fitting /\ Paired /\ LandedInv /\ PreviewHolds

LEMMA IdleFits ==
    ASSUME NEW p, NEW here, NEW lost
    PROVE  PageFits(NoUpload, p, here, lost) /\ WorkFits(NoUploadWork, p, here, lost)
<1>1. <<>> \in Seq(MaySend) /\ Len(<<>>) = 0
  OBVIOUS
<1>2. PageShape(NoUpload) /\ NoUpload.pc = "idle"
  BY <1>1 DEF PageShape, NoUpload
<1>3. /\ WorkShape(NoUploadWork) /\ NoUploadWork.pc = "free" /\ NoUploadWork.page = Nobody
      /\ Len(NoUploadWork.files) = 0
  BY <1>1, RomUploadAssumption DEF WorkShape, NoUploadWork
<1>4. GamesFirst(p, NoUploadWork.files)
  BY <1>3 DEF GamesFirst
<1> QED BY <1>2, <1>3, <1>4 DEF PageFits, WorkFits

LEMMA InitOK == RomUploadInit => UploadInv
<1> SUFFICES ASSUME RomUploadInit PROVE UploadInv
  OBVIOUS
<1>1. /\ \A b \in Browsers : sending[b] = NoUpload
      /\ \A w \in Workers : worker[w] = NoUploadWork
      /\ sending = [b \in Browsers |-> NoUpload] /\ worker = [w \in Workers |-> NoUploadWork]
  BY DEF RomUploadInit
<1>2. Histories
  <2>1. MaxFaults \in Nat
    BY RomUploadAssumption
  <2>2. catalog \in Catalogs /\ first \in CardSets
    BY DEF RomUploadInit
  <2>3. robbed \in BOOLEAN
    BY DEF RomUploadInit
  <2>4. faults = 0
    BY DEF RomUploadInit
  <2>5. faults \in 0 .. MaxFaults
    BY <2>1, <2>4
  <2> QED BY <2>2, <2>3, <2>5 DEF Histories
<1>3. Fitting
  BY <1>1, IdleFits DEF Fitting
<1>4. NoUpload.pc = "idle" /\ NoUploadWork.page = Nobody
  BY DEF NoUpload, NoUploadWork
<1>5. Paired /\ PreviewHolds
  BY <1>1, <1>4 DEF Paired, PreviewHolds
<1>6. LandedInv
  BY DEF LandedInv, Landed, RomUploadInit
<1> QED BY <1>2, <1>3, <1>5, <1>6 DEF UploadInv

-----------------------------------------------------------------------------
(* What the actions have in common *)

LEMMA PageKept ==
    ASSUME NEW u, NEW p, NEW here, NEW lost \in BOOLEAN, NEW here2, NEW lost2 \in BOOLEAN,
           PageFits(u, p, here, lost), lost => lost2, ~lost2 => here \subseteq here2
    PROVE  PageFits(u, p, here2, lost2)
BY DEF PageFits

LEMMA WorkKept ==
    ASSUME NEW r, NEW p, NEW here, NEW lost \in BOOLEAN, NEW here2, NEW lost2 \in BOOLEAN,
           WorkFits(r, p, here, lost), lost => lost2, ~lost2 => here \subseteq here2
    PROVE  WorkFits(r, p, here2, lost2)
<1>1. ASSUME ~lost2, r.pc = "put"
      PROVE  /\ \A i \in 1 .. Len(r.files) : r.files[i].dir # <<>> =>
                   \E g \in here2 \cup InSeq(r.files) : GameFor(p, r.files[i], g)
             /\ \A i \in 1 .. r.at - 1 : r.files[i] \in here2
  BY <1>1 DEF WorkFits
<1>2. ASSUME ~lost2, r.pc = "answer", r.code = "ok" PROVE InSeq(r.files) \subseteq here2
  BY <1>2 DEF WorkFits
<1> QED BY <1>1, <1>2 DEF WorkFits

\* Pages and requests that a step does not touch stay as they were.
LEMMA FittingKept ==
    ASSUME UploadInv, catalog' = catalog, robbed' \in BOOLEAN, robbed => robbed',
           ~robbed' => card \subseteq card',
           sending' = [b \in Browsers |-> sending'[b]],
           worker' = [w \in Workers |-> worker'[w]],
           \A b \in Browsers :
              sending'[b] = sending[b] \/ PageFits(sending'[b], Policy, card', robbed'),
           \A w \in Workers :
              worker'[w] = worker[w] \/ WorkFits(worker'[w], Policy, card', robbed')
    PROVE  Policy' = Policy /\ Fitting'
<1>1. Policy' = Policy
  BY DEF Policy
<1>2. robbed \in BOOLEAN
  BY DEF UploadInv, Histories
<1>3. ASSUME NEW b \in Browsers PROVE PageFits(sending'[b], Policy, card', robbed')
  <2>1. PageFits(sending[b], Policy, card, robbed)
    BY DEF UploadInv, Fitting
  <2>2. PageFits(sending[b], Policy, card', robbed')
    BY <2>1, <1>2, PageKept
  <2> QED BY <2>2
<1>4. ASSUME NEW w \in Workers PROVE WorkFits(worker'[w], Policy, card', robbed')
  <2>1. WorkFits(worker[w], Policy, card, robbed)
    BY DEF UploadInv, Fitting
  <2>2. WorkFits(worker[w], Policy, card', robbed')
    BY <2>1, <1>2, WorkKept
  <2> QED BY <2>2
<1> QED BY <1>1, <1>3, <1>4 DEF Fitting

LEMMA LandedKept ==
    ASSUME UploadInv, UNCHANGED <<catalog, card, first, robbed>>
    PROVE  LandedInv'
BY DEF UploadInv, LandedInv, Landed, Policy

LEMMA OnePage ==
    ASSUME UploadInv, NEW b \in Browsers, NEW u, sending' = [sending EXCEPT ![b] = u]
    PROVE  /\ sending' = [c \in Browsers |-> sending'[c]] /\ sending'[b] = u
           /\ \A c \in Browsers \ {b} : sending'[c] = sending[c]
BY DEF UploadInv, Fitting

LEMMA OneWorker ==
    ASSUME UploadInv, NEW w \in Workers, NEW r, worker' = [worker EXCEPT ![w] = r]
    PROVE  /\ worker' = [v \in Workers |-> worker'[v]] /\ worker'[w] = r
           /\ \A v \in Workers \ {w} : worker'[v] = worker[v]
BY DEF UploadInv, Fitting

LEMMA SameNext ==
    ASSUME NEW b, sending'[b].files = sending[b].files, sending'[b].at = sending[b].at
    PROVE  NextBatch(b)' = NextBatch(b)
BY DEF NextBatch

\* A page that waits for nothing, before and after.
LEMMA PageAlone ==
    ASSUME UploadInv, NEW b \in Browsers, NEW u, sending' = [sending EXCEPT ![b] = u],
           PageFits(u, Policy, card, robbed), sending[b].pc # "wait", u.pc # "wait",
           UNCHANGED <<catalog, card, worker, first, robbed>>, faults' \in 0 .. MaxFaults
    PROVE  UploadInv'
<1>1. /\ sending' = [c \in Browsers |-> sending'[c]] /\ sending'[b] = u
      /\ \A c \in Browsers \ {b} : sending'[c] = sending[c]
  BY OnePage
<1>2. Histories'
  BY DEF UploadInv, Histories
<1>3. Fitting'
  <2>1. worker' = [w \in Workers |-> worker'[w]] /\ robbed' \in BOOLEAN
    BY DEF UploadInv, Fitting, Histories
  <2>2. \A c \in Browsers :
           sending'[c] = sending[c] \/ PageFits(sending'[c], Policy, card', robbed')
    BY <1>1
  <2> QED BY <1>1, <2>1, <2>2, FittingKept
<1>4. Paired'
  <2>1. ASSUME NEW c \in Browsers, sending'[c].pc = "wait"
        PROVE  /\ worker'[sending'[c].by].page = c /\ worker'[sending'[c].by].pc # "free"
               /\ sending'[c].at <= Len(sending'[c].files)
               /\ worker'[sending'[c].by].files = NextBatch(c)'
    <3>1. sending'[c] = sending[c]
      BY <2>1, <1>1
    <3> QED BY <2>1, <3>1, SameNext DEF UploadInv, Paired
  <2>2. ASSUME NEW w \in Workers, worker'[w].page # Nobody
        PROVE  /\ worker'[w].page \in Browsers
               /\ sending'[worker'[w].page].pc = "wait" /\ sending'[worker'[w].page].by = w
    BY <2>2, <1>1 DEF UploadInv, Paired
  <2> QED BY <2>1, <2>2 DEF Paired
<1>5. PreviewHolds'
  BY <1>1 DEF UploadInv, PreviewHolds
<1>6. LandedInv'
  BY LandedKept
<1> QED BY <1>2, <1>3, <1>4, <1>5, <1>6 DEF UploadInv

\* A request goes on, for the same page and with the same files.
LEMMA WorkPaired ==
    ASSUME UploadInv, NEW w \in Workers, NEW r, worker' = [worker EXCEPT ![w] = r],
           r.page = worker[w].page,
           r.page # Nobody => r.pc # "free" /\ r.files = worker[w].files,
           \A b \in Browsers : /\ sending'[b].pc = sending[b].pc /\ sending'[b].by = sending[b].by
                               /\ sending'[b].at = sending[b].at
                               /\ sending'[b].files = sending[b].files
    PROVE  Paired'
<1>1. worker'[w] = r /\ \A v \in Workers \ {w} : worker'[v] = worker[v]
  BY OneWorker
<1>2. \A b \in Browsers : NextBatch(b)' = NextBatch(b)
  BY SameNext
<1>3. ASSUME NEW b \in Browsers, sending'[b].pc = "wait"
      PROVE  /\ worker'[sending'[b].by].page = b /\ worker'[sending'[b].by].pc # "free"
             /\ sending'[b].at <= Len(sending'[b].files)
             /\ worker'[sending'[b].by].files = NextBatch(b)'
  <2>1. sending[b].by \in Workers
    BY <1>3, RomUploadAssumption DEF UploadInv, Fitting, PageFits, PageShape
  <2>2. /\ worker[sending[b].by].page = b /\ worker[sending[b].by].pc # "free"
        /\ sending[b].at <= Len(sending[b].files)
        /\ worker[sending[b].by].files = NextBatch(b)
    BY <1>3 DEF UploadInv, Paired
  <2>3. CASE sending[b].by = w
    <3>1. r.page # Nobody
      BY <1>1, <1>3, <2>2, <2>3, RomUploadAssumption
    <3> QED BY <1>1, <1>2, <2>2, <2>3, <3>1
  <2>4. CASE sending[b].by # w
    BY <1>1, <1>2, <2>1, <2>2, <2>4
  <2> QED BY <2>3, <2>4
<1>4. ASSUME NEW v \in Workers, worker'[v].page # Nobody
      PROVE  /\ worker'[v].page \in Browsers
             /\ sending'[worker'[v].page].pc = "wait" /\ sending'[worker'[v].page].by = v
  BY <1>1, <1>4 DEF UploadInv, Paired
<1> QED BY <1>3, <1>4 DEF Paired

-----------------------------------------------------------------------------
(* The page *)

LEMMA FaultBound ==
    ASSUME UploadInv, Fault \/ UNCHANGED faults
    PROVE  faults' \in 0 .. MaxFaults
<1>1. MaxFaults \in Nat
  BY RomUploadAssumption
<1> QED BY <1>1 DEF UploadInv, Histories, Fault

LEMMA ChooseSteps ==
    ASSUME UploadInv, NEW b \in Browsers, Choose(b)
    PROVE  UploadInv'
<1>1. PICK s \in Selections, over \in BOOLEAN :
         sending' = [sending EXCEPT ![b] = [NoUpload EXCEPT !.pc = "preview", !.kind = s.kind,
                                            !.files = s.files, !.overwrite = over]]
  BY DEF Choose
<1> DEFINE u == [NoUpload EXCEPT !.pc = "preview", !.kind = s.kind, !.files = s.files,
                                 !.overwrite = over]
<1>2. /\ DOMAIN u = {"pc", "kind", "files", "overwrite", "at", "by", "uploaded", "failed",
                     "cancelled", "put"}
      /\ u.pc = "preview" /\ u.files = s.files /\ u.overwrite = over /\ u.at = 1
      /\ u.by = Nobody /\ u.uploaded = 0 /\ u.failed = 0 /\ u.put = 0
  BY DEF NoUpload
<1> HIDE DEF u
<1>3. s.files \in Seq(MaySend) /\ Len(s.files) \in Nat
  BY SelectionFacts, InSeqFacts
<1>4. PageFits(u, Policy, card, robbed)
  BY <1>2, <1>3 DEF PageFits, PageShape
<1>5. sending[b].pc # "wait" /\ UNCHANGED <<catalog, card, worker, first, robbed, faults>>
  BY DEF Choose, OnlyPage
<1> QED BY <1>1, <1>2, <1>4, <1>5, PageAlone, FaultBound DEF u

LEMMA PreviewSteps ==
    ASSUME UploadInv, NEW b \in Browsers, Preview(b)
    PROVE  UploadInv'
<1> DEFINE files == sending[b].files
<1>1. /\ sending[b].pc = "preview"
      /\ UNCHANGED <<catalog, card, worker, first, robbed, faults>>
  BY DEF Preview, OnlyPage
<1>2. PageShape(sending[b]) /\ sending[b].at = 1 /\ sending[b].uploaded = 0
      /\ sending[b].failed = 0 /\ \E sel \in Selections : files = sel.files
  BY <1>1 DEF UploadInv, Fitting, PageFits
<1>3. CASE sending' = [sending EXCEPT ![b] = NoUpload]
  <2>1. NoUpload.pc # "wait"
    BY DEF NoUpload
  <2> QED BY <1>1, <1>3, <2>1, IdleFits, PageAlone, FaultBound
<1>4. CASE ~(sending' = [sending EXCEPT ![b] = NoUpload])
  <2>0. PICK E \in Entrypoints(files) : \E q \in Prioritized(files, E) :
           sending' = [sending EXCEPT ![b].pc = "send",
                                      ![b].files = [k \in 1..Len(files) |-> files[q[k]]]]
    BY <1>4 DEF Preview
  <2>1. PICK q \in Prioritized(files, E) :
           sending' = [sending EXCEPT ![b].pc = "send",
                                      ![b].files = [k \in 1..Len(files) |-> files[q[k]]]]
    BY <2>0
  <2> DEFINE s == [k \in 1..Len(files) |-> files[q[k]]]
  <2> DEFINE u == [[sending[b] EXCEPT !.pc = "send"] EXCEPT !.files = s]
  <2>2. Supported(files) /\ files \in Seq(MaySend)
    BY <1>2, <1>4 DEF Preview, PageShape
  <2>3. /\ s \in Seq(MaySend) /\ Len(s) = Len(files) /\ Led(Policy, s)
        /\ (Policy.enforced =>
                 \A f, g \in InSeq(files) :
                    (f.dir # <<>> /\ g.dir # <<>> /\ Bundle(f) = Bundle(g)
                     /\ Accepted(Policy, f.name) /\ Accepted(Policy, g.name)) => f = g)
              => GamesFirst(Policy, s)
    <3> HIDE DEF files
    <3> QED BY <2>2, OrderFacts
  <2>4. ASSUME OneGame PROVE GamesFirst(Policy, s)
    <3>1. catalog \in Catalogs
      BY DEF UploadInv, Histories
    <3>2. PICK sel \in Selections : files = sel.files
      BY <1>2
    <3> HIDE DEF files, s
    <3>3. Policy.enforced =>
                 \A f, g \in InSeq(files) :
                    (f.dir # <<>> /\ g.dir # <<>> /\ Bundle(f) = Bundle(g)
                     /\ Accepted(Policy, f.name) /\ Accepted(Policy, g.name)) => f = g
      BY <2>4, <3>1, <3>2 DEF OneGame, Policy
    <3> QED BY <2>3, <3>3
  <2> HIDE DEF s
  <2>5. sending' = [sending EXCEPT ![b] = u]
    BY <2>1 DEF s
  <2>6. /\ DOMAIN u = DOMAIN sending[b] /\ u.pc = "send" /\ u.files = s
        /\ u.at = sending[b].at /\ u.uploaded = 0 /\ u.failed = 0 /\ u.by = sending[b].by
        /\ u.put = sending[b].put /\ u.overwrite = sending[b].overwrite
    BY <1>2 DEF PageShape
  <2>7. Len(s) \in Nat
    BY <2>3, InSeqFacts
  <2> HIDE DEF u, files
  <2>8. PageShape(u)
    BY <1>1, <1>2, <2>3, <2>6, <2>7 DEF PageShape
  <2>9. u.uploaded + u.failed = Sent(u)
    BY <1>2, <2>6, <2>7 DEF Sent
  <2>10. PageFits(u, Policy, card, robbed)
    <3>1. \A i \in 1 .. Len(u.files) : ~(i < u.at)
      BY <1>2, <2>6
    <3> QED BY <2>3, <2>4, <2>6, <2>8, <2>9, <3>1 DEF PageFits
  <2> QED BY <1>1, <2>5, <2>6, <2>10, PageAlone, FaultBound
<1> QED BY <1>3, <1>4

LEMMA CloseSteps ==
    ASSUME UploadInv, NEW b \in Browsers, CloseSummary(b)
    PROVE  UploadInv'
<1>1. /\ sending[b].pc = "summary" /\ sending' = [sending EXCEPT ![b] = NoUpload]
      /\ UNCHANGED <<catalog, card, worker, first, robbed, faults>>
  BY DEF CloseSummary, OnlyPage
<1>2. NoUpload.pc # "wait"
  BY DEF NoUpload
<1> QED BY <1>1, <1>2, IdleFits, PageAlone, FaultBound

LEMMA GamesFirstPart ==
    ASSUME NEW p, NEW s, NEW r, NEW k \in Nat, Len(s) \in Nat, Len(r) \in Nat,
           GamesFirst(p, s),
           \A i \in 1 .. Len(r) : k + i \in 1 .. Len(s) /\ r[i] = s[k + i]
    PROVE  GamesFirst(p, r)
<1>1. SUFFICES ASSUME NEW i \in 1 .. Len(r), NEW j \in 1 .. Len(r), r[i].dir # <<>>,
                      ~Accepted(p, r[i].name), GameFor(p, r[i], r[j])
               PROVE  j < i
  BY DEF GamesFirst
<1>2. k + j < k + i
  BY <1>1 DEF GamesFirst
<1> QED BY <1>2

LEMMA SendSteps ==
    ASSUME UploadInv, NEW b \in Browsers, SendBatch(b)
    PROVE  UploadInv'
<1>1. /\ sending[b].pc = "send"
      /\ UNCHANGED <<catalog, card, first, robbed, faults>>
  BY DEF SendBatch
<1>2. PageFits(sending[b], Policy, card, robbed) /\ PageShape(sending[b])
      /\ sending[b].by = Nobody
  BY <1>1 DEF UploadInv, Fitting, PageFits, PageShape
<1>3. CASE sending[b].at > Len(sending[b].files)
  <2> DEFINE u == [sending[b] EXCEPT !.pc = "summary"]
  <2>1. sending' = [sending EXCEPT ![b] = u] /\ worker' = worker
    BY <1>3 DEF SendBatch
  <2>2. /\ DOMAIN u = DOMAIN sending[b] /\ u.pc = "summary" /\ u.files = sending[b].files
        /\ u.at = sending[b].at /\ u.uploaded = sending[b].uploaded
        /\ u.failed = sending[b].failed /\ u.by = sending[b].by
        /\ u.put = sending[b].put /\ u.overwrite = sending[b].overwrite
    BY <1>2 DEF PageShape
  <2> HIDE DEF u
  <2>3. PageFits(u, Policy, card, robbed)
    BY <1>2, <2>2 DEF PageFits, PageShape
  <2> QED BY <1>1, <2>1, <2>2, <2>3, PageAlone, FaultBound
<1>4. CASE ~(sending[b].at > Len(sending[b].files))
  <2>1. PICK w \in Workers :
           /\ worker[w].pc = "free"
           /\ worker' = [worker EXCEPT ![w] = [NoUploadWork EXCEPT !.pc = "gate", !.page = b,
                           !.files = NextBatch(b), !.overwrite = sending[b].overwrite]]
           /\ sending' = [sending EXCEPT ![b].pc = "wait", ![b].by = w]
    <3> DEFINE free == {w \in Workers : worker[w].pc = "free"}
    <3> DEFINE w == CHOOSE x \in free : TRUE
    <3>1. free # {}
      BY <1>4 DEF SendBatch
    <3>2. w \in free
      BY <3>1
    <3>3. /\ worker' = [worker EXCEPT ![w] = [NoUploadWork EXCEPT !.pc = "gate", !.page = b,
                           !.files = NextBatch(b), !.overwrite = sending[b].overwrite]]
          /\ sending' = [sending EXCEPT ![b].pc = "wait", ![b].by = w]
      BY <1>4 DEF SendBatch
    <3> HIDE DEF w
    <3> QED BY <3>2, <3>3
  <2> DEFINE u == [[sending[b] EXCEPT !.pc = "wait"] EXCEPT !.by = w]
  <2> DEFINE r == [NoUploadWork EXCEPT !.pc = "gate", !.page = b, !.files = NextBatch(b),
                                       !.overwrite = sending[b].overwrite]
  <2>2. /\ DOMAIN u = DOMAIN sending[b] /\ u.pc = "wait" /\ u.files = sending[b].files
        /\ u.at = sending[b].at /\ u.uploaded = sending[b].uploaded
        /\ u.failed = sending[b].failed /\ u.by = w
        /\ u.put = sending[b].put /\ u.overwrite = sending[b].overwrite
        /\ sending' = [sending EXCEPT ![b] = u]
    BY <1>2, <2>1 DEF PageShape
  <2>3. /\ DOMAIN r = {"pc", "page", "files", "overwrite", "at", "code", "path"}
        /\ r.pc = "gate" /\ r.page = b /\ r.files = NextBatch(b) /\ r.at = 1
        /\ r.overwrite = sending[b].overwrite /\ r.code = "ok" /\ r.path = 0
        /\ worker' = [worker EXCEPT ![w] = r]
    BY <2>1 DEF NoUploadWork
  <2> HIDE DEF u, r
  <2>4. /\ sending[b].files \in Seq(MaySend) /\ sending[b].at \in Nat
        /\ sending[b].at \in 1 .. Len(sending[b].files) /\ Len(sending[b].files) \in Nat
    BY <1>2, <1>4, InSeqFacts DEF PageShape
  <2>5. /\ r.files \in Seq(MaySend) /\ Len(r.files) \in 1 .. Batch
        /\ \A i \in 1 .. Len(r.files) : /\ sending[b].at - 1 + i \in 1 .. Len(sending[b].files)
                                        /\ r.files[i] = sending[b].files[sending[b].at - 1 + i]
    BY <2>3, <2>4, BatchFacts
  <2>6. PageFits(u, Policy, card, robbed)
    <3>1. PageShape(u)
      BY <1>2, <2>1, <2>2, RomUploadAssumption DEF PageShape
    <3>2. Sent(u) = Sent(sending[b])
      BY <2>2 DEF Sent
    <3> QED BY <1>1, <1>2, <2>2, <3>1, <3>2 DEF PageFits
  <2>7. WorkFits(r, Policy, card, robbed)
    <3>1. WorkShape(r) /\ Len(r.files) >= 1
      BY <1>2, <2>3, <2>5, RomUploadAssumption DEF WorkShape, PageShape
    <3>2. ASSUME OneGame PROVE GamesFirst(Policy, r.files)
      <4>1. GamesFirst(Policy, sending[b].files)
        BY <1>1, <1>2, <3>2 DEF PageFits
      <4>2. sending[b].at - 1 \in Nat /\ Len(r.files) \in Nat
        BY <2>4, <2>5
      <4> QED BY <2>4, <2>5, <4>1, <4>2, GamesFirstPart
    <3> QED BY <2>3, <3>1, <3>2 DEF WorkFits
  <2>8. /\ sending' = [c \in Browsers |-> sending'[c]] /\ sending'[b] = u
        /\ \A c \in Browsers \ {b} : sending'[c] = sending[c]
    BY <2>2, OnePage
  <2>9. /\ worker' = [v \in Workers |-> worker'[v]] /\ worker'[w] = r
        /\ \A v \in Workers \ {w} : worker'[v] = worker[v]
    BY <2>3, OneWorker
  <2>10. Fitting'
    <3>1. robbed' \in BOOLEAN
      BY <1>1 DEF UploadInv, Histories
    <3>2. /\ \A c \in Browsers :
                sending'[c] = sending[c] \/ PageFits(sending'[c], Policy, card', robbed')
          /\ \A v \in Workers :
                worker'[v] = worker[v] \/ WorkFits(worker'[v], Policy, card', robbed')
      BY <1>1, <2>6, <2>7, <2>8, <2>9
    <3> QED BY <1>1, <2>8, <2>9, <3>1, <3>2, FittingKept
  <2>11. Paired'
    <3>1. ASSUME NEW c \in Browsers, sending'[c].pc = "wait"
          PROVE  /\ worker'[sending'[c].by].page = c /\ worker'[sending'[c].by].pc # "free"
                 /\ sending'[c].at <= Len(sending'[c].files)
                 /\ worker'[sending'[c].by].files = NextBatch(c)'
      <4>1. CASE c = b
        <5>1. NextBatch(b)' = NextBatch(b)
          BY <2>2, <2>8, SameNext
        <5> QED BY <4>1, <5>1, <2>2, <2>3, <2>4, <2>8, <2>9
      <4>2. CASE c # b
        <5>1. sending'[c] = sending[c] /\ NextBatch(c)' = NextBatch(c)
          BY <4>2, <2>8, SameNext
        <5>2. /\ worker[sending[c].by].page = c /\ worker[sending[c].by].pc # "free"
              /\ sending[c].at <= Len(sending[c].files)
              /\ worker[sending[c].by].files = NextBatch(c)
              /\ sending[c].by \in Workers
          BY <3>1, <5>1, RomUploadAssumption
             DEF UploadInv, Paired, Fitting, PageFits, PageShape
        <5>3. sending[c].by # w
          BY <5>2, <2>1
        <5> QED BY <5>1, <5>2, <5>3, <2>9
      <4> QED BY <4>1, <4>2
    <3>2. ASSUME NEW v \in Workers, worker'[v].page # Nobody
          PROVE  /\ worker'[v].page \in Browsers
                 /\ sending'[worker'[v].page].pc = "wait" /\ sending'[worker'[v].page].by = v
      <4>1. CASE v = w
        BY <4>1, <2>2, <2>3, <2>8, <2>9
      <4>2. CASE v # w
        <5>1. /\ worker'[v] = worker[v] /\ worker[v].page \in Browsers
              /\ sending[worker[v].page].pc = "wait" /\ sending[worker[v].page].by = v
          BY <3>2, <4>2, <2>9 DEF UploadInv, Paired
        <5>2. worker[v].page # b
          BY <5>1, <1>1
        <5> QED BY <5>1, <5>2, <2>8
      <4> QED BY <4>1, <4>2
    <3> QED BY <3>1, <3>2 DEF Paired
  <2>12. PreviewHolds'
    <3>1. SUFFICES ASSUME NEW c \in Browsers, sending'[c].pc = "wait",
                          worker'[sending'[c].by].code = "formats"
                   PROVE  sending'[c].failed > 0 \/ robbed'
      BY DEF PreviewHolds
    <3>2. c # b
      BY <3>1, <2>2, <2>3, <2>8, <2>9
    <3>0. sending'[c] = sending[c] /\ sending[c].pc = "wait"
      BY <3>1, <3>2, <2>8
    <3>3. /\ sending'[c] = sending[c] /\ sending[c].by \in Workers
          /\ worker[sending[c].by].pc # "free"
      BY <3>0, RomUploadAssumption DEF UploadInv, Fitting, PageFits, PageShape, Paired
    <3>4. worker'[sending[c].by] = worker[sending[c].by]
      BY <3>3, <2>1, <2>9
    <3> QED BY <1>1, <3>1, <3>3, <3>4 DEF UploadInv, PreviewHolds
  <2>13. LandedInv' /\ Histories'
    BY <1>1, LandedKept DEF UploadInv, Histories
  <2> QED BY <2>10, <2>11, <2>12, <2>13 DEF UploadInv
<1> QED BY <1>3, <1>4

\* The page stops waiting, and its request, if it goes on, goes on alone.
LEMMA PageLeaves ==
    ASSUME UploadInv, NEW b \in Browsers, sending[b].pc = "wait",
           NEW u, sending' = [sending EXCEPT ![b] = u], u.pc # "wait",
           PageFits(u, Policy, card, robbed),
           NEW r, worker' = [worker EXCEPT ![sending[b].by] = r], r.page = Nobody,
           WorkFits(r, Policy, card, robbed),
           UNCHANGED <<catalog, card, first, robbed>>, faults' \in 0 .. MaxFaults
    PROVE  UploadInv'
<1> DEFINE w == sending[b].by
<1>1. w \in Workers /\ worker[w].page = b
  BY RomUploadAssumption DEF UploadInv, Fitting, PageFits, PageShape, Paired
<1>2. /\ sending' = [c \in Browsers |-> sending'[c]] /\ sending'[b] = u
      /\ \A c \in Browsers \ {b} : sending'[c] = sending[c]
  BY OnePage
<1> HIDE DEF w
<1>3. /\ worker' = [v \in Workers |-> worker'[v]] /\ worker'[w] = r
      /\ \A v \in Workers \ {w} : worker'[v] = worker[v]
  BY <1>1, OneWorker DEF w
<1>4. Histories'
  BY DEF UploadInv, Histories
<1>5. Fitting'
  <2>1. robbed' \in BOOLEAN
    BY DEF UploadInv, Histories
  <2>2. /\ \A c \in Browsers :
              sending'[c] = sending[c] \/ PageFits(sending'[c], Policy, card', robbed')
        /\ \A v \in Workers :
              worker'[v] = worker[v] \/ WorkFits(worker'[v], Policy, card', robbed')
    BY <1>2, <1>3
  <2> QED BY <1>2, <1>3, <2>1, <2>2, FittingKept
\* Whoever else waits has another request.
<1>6. ASSUME NEW c \in Browsers, sending'[c].pc = "wait"
      PROVE  /\ sending'[c] = sending[c] /\ sending[c].by \in Workers
             /\ worker'[sending[c].by] = worker[sending[c].by]
  <2>1. c # b
    BY <1>2, <1>6
  <2>2. sending'[c] = sending[c]
    BY <1>2, <2>1
  <2>3. sending[c].by \in Workers /\ worker[sending[c].by].page = c
    BY <1>6, <2>2, RomUploadAssumption DEF UploadInv, Fitting, PageFits, PageShape, Paired
  <2>4. sending[c].by # w
    BY <1>1, <2>1, <2>3
  <2> QED BY <1>3, <2>2, <2>3, <2>4
<1>7. Paired'
  <2>1. ASSUME NEW c \in Browsers, sending'[c].pc = "wait"
        PROVE  /\ worker'[sending'[c].by].page = c /\ worker'[sending'[c].by].pc # "free"
               /\ sending'[c].at <= Len(sending'[c].files)
               /\ worker'[sending'[c].by].files = NextBatch(c)'
    <3>1. NextBatch(c)' = NextBatch(c)
      BY <1>6, <2>1, SameNext
    <3> QED BY <1>6, <2>1, <3>1 DEF UploadInv, Paired
  <2>2. ASSUME NEW v \in Workers, worker'[v].page # Nobody
        PROVE  /\ worker'[v].page \in Browsers
               /\ sending'[worker'[v].page].pc = "wait" /\ sending'[worker'[v].page].by = v
    <3>1. v # w /\ worker'[v] = worker[v]
      BY <1>3, <2>2
    <3>2. /\ worker[v].page \in Browsers
          /\ sending[worker[v].page].pc = "wait" /\ sending[worker[v].page].by = v
      BY <2>2, <3>1 DEF UploadInv, Paired
    <3>3. worker[v].page # b
      BY <3>1, <3>2 DEF w
    <3> QED BY <1>2, <3>1, <3>2, <3>3
  <2> QED BY <2>1, <2>2 DEF Paired
<1>8. PreviewHolds'
  BY <1>6 DEF UploadInv, PreviewHolds
<1>9. LandedInv'
  BY LandedKept
<1> QED BY <1>4, <1>5, <1>7, <1>8, <1>9 DEF UploadInv

LEMMA CountArith ==
    ASSUME NEW at, NEW len, NEW n, NEW up, NEW fl, NEW some,
           at \in 1 .. len, len \in Nat, Batch \in Nat \ {0}, n \in 1 .. Batch,
           at - 1 + n <= len, at + Batch <= len => n = Batch,
           at + Batch > len => at - 1 + n = len,
           up \in Nat, fl \in Nat, up + fl = at - 1, some \in 0 .. n
    PROVE  /\ up + some \in Nat /\ fl + (n - some) \in Nat /\ at + Batch \in Nat \ {0}
           /\ (up + some) + (fl + (n - some)) = at - 1 + n
           /\ at + Batch <= len => at - 1 + n = at + Batch - 1
           /\ (fl + (n - some) = 0 => fl = 0 /\ some = n)
           /\ \A i \in 1 .. len : i < at + Batch /\ ~(i < at) =>
                 i - at + 1 \in 1 .. n /\ at - 1 + (i - at + 1) = i
OBVIOUS

\* The batch a page waited for is counted.
LEMMA CountedSteps ==
    ASSUME UploadInv, NEW b \in Browsers, sending[b].pc = "wait",
           NEW some \in 0 .. Len(NextBatch(b)),
           some = Len(NextBatch(b)) /\ ~robbed => InSeq(NextBatch(b)) \subseteq card,
           sending' = Counted(b, Len(NextBatch(b)), some),
           NEW r, worker' = [worker EXCEPT ![sending[b].by] = r], r.page = Nobody,
           WorkFits(r, Policy, card, robbed),
           UNCHANGED <<catalog, card, first, robbed>>, faults' \in 0 .. MaxFaults
    PROVE  UploadInv'
<1> DEFINE p == sending[b]
<1> DEFINE s == p.files
<1> DEFINE part == NextBatch(b)
<1> DEFINE n == Len(part)
<1> DEFINE u == [[[[[p EXCEPT !.pc = "send"] EXCEPT !.by = Nobody] EXCEPT !.at = p.at + Batch]
                    EXCEPT !.uploaded = p.uploaded + some] EXCEPT !.failed = p.failed + (n - some)]
<1>1. PageFits(p, Policy, card, robbed) /\ PageShape(p) /\ p.at <= Len(s)
  BY DEF UploadInv, Fitting, PageFits, Paired
<1>2. s \in Seq(MaySend) /\ Len(s) \in Nat /\ p.at \in 1 .. Len(s) /\ p.at \in Nat
  BY <1>1, InSeqFacts DEF PageShape
<1>3. Batch \in Nat \ {0}
  BY RomUploadAssumption
<1>4. /\ part \in Seq(MaySend) /\ n \in 1 .. Batch /\ p.at - 1 + n <= Len(s)
      /\ \A i \in 1 .. n : p.at - 1 + i \in 1 .. Len(s) /\ part[i] = s[p.at - 1 + i]
      /\ p.at + Batch <= Len(s) => n = Batch
      /\ p.at + Batch > Len(s) => p.at - 1 + n = Len(s)
  BY <1>2, BatchFacts
<1>5. sending' = [sending EXCEPT ![b] = u]
  BY <1>1 DEF Counted, PageShape
<1> HIDE DEF n
<1>6. /\ DOMAIN u = DOMAIN p /\ u.pc = "send" /\ u.by = Nobody /\ u.at = p.at + Batch
      /\ u.uploaded = p.uploaded + some /\ u.failed = p.failed + (n - some)
      /\ u.files = s /\ u.put = p.put /\ u.overwrite = p.overwrite
  BY <1>1 DEF PageShape
<1> HIDE DEF u
<1>7. some \in 0 .. n /\ p.uploaded \in Nat /\ p.failed \in Nat
  BY <1>1 DEF PageShape, n
<1>8. p.uploaded + p.failed = p.at - 1
  BY <1>1, <1>2 DEF PageFits, Sent
<1> DEFINE at == p.at
<1> DEFINE len == Len(s)
<1> DEFINE up == p.uploaded
<1> DEFINE fl == p.failed
<1>9. /\ at \in 1 .. len /\ len \in Nat /\ n \in 1 .. Batch
      /\ at - 1 + n <= len /\ (at + Batch <= len => n = Batch)
      /\ (at + Batch > len => at - 1 + n = len)
      /\ up \in Nat /\ fl \in Nat /\ up + fl = at - 1 /\ some \in 0 .. n
  BY <1>2, <1>4, <1>7, <1>8
<1> HIDE DEF at, len, up, fl
<1>10. /\ up + some \in Nat /\ fl + (n - some) \in Nat /\ at + Batch \in Nat \ {0}
       /\ (up + some) + (fl + (n - some)) = at - 1 + n
       /\ at + Batch <= len => at - 1 + n = at + Batch - 1
       /\ (fl + (n - some) = 0 => fl = 0 /\ some = n)
  BY <1>9, <1>3, CountArith
<1>11. ASSUME NEW i \in 1 .. len, i < at + Batch, ~(i < at)
      PROVE  i - at + 1 \in 1 .. n /\ at - 1 + (i - at + 1) = i
  BY <1>9, <1>3, <1>11, CountArith
<1>12. u.uploaded = up + some /\ u.failed = fl + (n - some) /\ u.at = at + Batch /\ Len(s) = len
  BY <1>6 DEF up, fl, at, len
<1>13. u.uploaded + u.failed = Sent(u) /\ Sent(u) <= Len(s)
  <2>1. Sent(u) = IF at + Batch <= len THEN (at + Batch) - 1 ELSE len
    <3>1. u.at = at + Batch /\ Len(u.files) = len
      BY <1>6, <1>12
    <3> QED BY <3>1 DEF Sent
  <2>2. at \in Nat /\ len \in Nat /\ Batch \in Nat
    BY <1>3, <1>9
  <2>3. Sent(u) = at - 1 + n /\ Sent(u) <= len
    <3> HIDE DEF u
    <3>1. CASE at + Batch <= len
      <4>1. Sent(u) = (at + Batch) - 1
        BY <2>1, <3>1
      <4>2. n = Batch /\ at - 1 + n <= len
        BY <1>9, <3>1
      <4> QED BY <2>2, <4>1, <4>2
    <3>2. CASE ~(at + Batch <= len)
      <4>1. Sent(u) = len
        BY <2>1, <3>2
      <4>2. at - 1 + n = len
        BY <1>9, <2>2, <3>2
      <4> QED BY <2>2, <4>1, <4>2
    <3> QED BY <3>1, <3>2
  <2>4. u.uploaded + u.failed = at - 1 + n
    <3>1. u.uploaded + u.failed = (up + some) + (fl + (n - some))
      BY <1>12
    <3> QED BY <3>1, <1>10, Zenon
  <2> QED BY <1>12, <2>3, <2>4
<1>14. PageShape(u)
  <2>1. u.uploaded \in Nat /\ u.failed \in Nat /\ u.at \in Nat \ {0}
    BY <1>12, <1>10, Zenon
  <2> QED BY <1>1, <1>6, <1>13, <2>1 DEF PageShape
<1>15. ASSUME u.failed = 0, ~robbed, NEW i \in 1 .. Len(s), i < u.at
       PROVE  s[i] \in card
  <2>0. fl = 0 /\ some = n
    BY <1>9, <1>10, <1>12, <1>15
  <2>1. some = n /\ p.failed = 0
    BY <2>0 DEF fl
  <2>2. CASE i < p.at
    BY <1>1, <1>15, <2>1, <2>2 DEF PageFits
  <2>3. CASE ~(i < p.at)
    <3>1. i - at + 1 \in 1 .. n /\ at - 1 + (i - at + 1) = i
      <4>1. i \in 1 .. len /\ i < at + Batch /\ ~(i < at)
        BY <1>12, <1>15, <2>3 DEF at
      <4> QED BY <1>11, <4>1
    <3>2. part[i - at + 1] = s[i]
      BY <1>4, <3>1 DEF at
    <3>3. s[i] \in InSeq(part)
      BY <3>1, <3>2 DEF InSeq, n
    <3> QED BY <2>1, <3>3, <1>15 DEF n
  <2> QED BY <2>2, <2>3
<1>16. PageFits(u, Policy, card, robbed)
  BY <1>1, <1>6, <1>13, <1>14, <1>15 DEF PageFits
<1> QED BY <1>5, <1>6, <1>16, PageLeaves

LEMMA ReceiveSteps ==
    ASSUME UploadInv, NEW b \in Browsers, ReceiveAnswer(b)
    PROVE  UploadInv'
<1> DEFINE w == sending[b].by
<1> DEFINE r == worker[w]
<1> DEFINE some == IF r.code = "ok" THEN Len(r.files) ELSE UploadedBefore(r)
<1>1. /\ sending[b].pc = "wait" /\ r.pc = "answer"
      /\ sending' = Counted(b, Len(r.files), some)
      /\ worker' = [worker EXCEPT ![w] = NoUploadWork]
      /\ UNCHANGED <<catalog, card, taken, first, robbed, faults>>
  BY DEF ReceiveAnswer
<1>2. w \in Workers /\ r.files = NextBatch(b) /\ sending[b].at <= Len(sending[b].files)
  BY <1>1, RomUploadAssumption DEF UploadInv, Fitting, PageFits, PageShape, Paired
<1>3. WorkFits(r, Policy, card, robbed) /\ WorkShape(r)
  BY <1>2 DEF UploadInv, Fitting, WorkFits
<1>4. sending[b].files \in Seq(MaySend) /\ sending[b].at \in 1 .. Len(sending[b].files)
      /\ sending[b].at \in Nat
  <2>1. PageShape(sending[b])
    BY DEF UploadInv, Fitting, PageFits
  <2> QED BY <1>2, <2>1, InSeqFacts DEF PageShape
<1>5. Len(NextBatch(b)) \in 1 .. Batch
  BY <1>4, BatchFacts
<1>6. some \in 0 .. Len(NextBatch(b)) /\ (some = Len(NextBatch(b)) => r.code = "ok")
  <2> DEFINE n == Len(r.files)
  <2>1. n \in Nat /\ n >= 1 /\ r.path \in 0 .. n
    BY <1>2, <1>3, <1>5, RomUploadAssumption DEF WorkShape
  <2> HIDE DEF n
  <2>2. r.code # "ok" => some \in 0 .. n /\ some # n
    BY <2>1 DEF UploadedBefore
  <2>3. r.code = "ok" => some = n
    BY DEF n
  <2> HIDE DEF some
  <2>4. some \in 0 .. n /\ (some = n => r.code = "ok")
    BY <2>1, <2>2, <2>3
  <2> QED BY <2>4, <1>2 DEF n
<1>7. some = Len(NextBatch(b)) /\ ~robbed => InSeq(NextBatch(b)) \subseteq card
  BY <1>1, <1>2, <1>3, <1>6 DEF WorkFits
<1>8. NoUploadWork.page = Nobody /\ WorkFits(NoUploadWork, Policy, card, robbed)
  BY IdleFits DEF NoUploadWork
<1> HIDE DEF some
<1>9. sending' = Counted(b, Len(NextBatch(b)), some)
  BY <1>1, <1>2
<1> QED BY <1>1, <1>6, <1>7, <1>8, <1>9, CountedSteps, FaultBound

\* A request that goes on alone fits as it did.
LEMMA AloneFits ==
    ASSUME NEW r, NEW p, NEW here, NEW lost, WorkFits(r, p, here, lost)
    PROVE  LET e == [r EXCEPT !.page = Nobody]
           IN  e.page = Nobody /\ WorkFits(e, p, here, lost)
<1> DEFINE e == [r EXCEPT !.page = Nobody]
<1>1. /\ DOMAIN e = DOMAIN r /\ e.page = Nobody /\ e.pc = r.pc /\ e.files = r.files
      /\ e.overwrite = r.overwrite /\ e.at = r.at /\ e.code = r.code /\ e.path = r.path
  BY DEF WorkFits, WorkShape
<1> HIDE DEF e
<1>2. WorkShape(e)
  BY <1>1 DEF WorkFits, WorkShape
<1>3. WorkFits(e, p, here, lost)
  BY <1>1, <1>2 DEF WorkFits
<1> QED BY <1>1, <1>3 DEF e

LEMMA LoseSteps ==
    ASSUME UploadInv, NEW b \in Browsers, LoseAnswer(b)
    PROVE  UploadInv'
<1> DEFINE w == sending[b].by
<1> DEFINE r == [worker[w] EXCEPT !.page = Nobody]
<1>1. /\ sending[b].pc = "wait" /\ Fault
      /\ sending' = Counted(b, Len(worker[w].files), 0)
      /\ worker' = [worker EXCEPT ![w] = r]
      /\ UNCHANGED <<catalog, card, taken, first, robbed>>
  BY DEF LoseAnswer
<1>2. w \in Workers /\ worker[w].files = NextBatch(b) /\ sending[b].at <= Len(sending[b].files)
  BY <1>1, RomUploadAssumption DEF UploadInv, Fitting, PageFits, PageShape, Paired
<1>3. WorkFits(worker[w], Policy, card, robbed)
  BY <1>2 DEF UploadInv, Fitting
<1>4. r.page = Nobody /\ WorkFits(r, Policy, card, robbed)
  BY <1>3, AloneFits
<1>5. sending[b].files \in Seq(MaySend) /\ sending[b].at \in 1 .. Len(sending[b].files)
      /\ sending[b].at \in Nat
  <2>1. PageShape(sending[b])
    BY DEF UploadInv, Fitting, PageFits
  <2> QED BY <1>2, <2>1, InSeqFacts DEF PageShape
<1>6. Len(NextBatch(b)) \in 1 .. Batch
  BY <1>5, BatchFacts
<1>7. 0 \in 0 .. Len(NextBatch(b)) /\ 0 # Len(NextBatch(b))
  BY <1>6, RomUploadAssumption
<1>8. faults' \in 0 .. MaxFaults
  BY <1>1, FaultBound
<1>9. sending' = Counted(b, Len(NextBatch(b)), 0)
  BY <1>1, <1>2
<1> HIDE DEF r
<1> QED BY <1>1, <1>4, <1>7, <1>8, <1>9, CountedSteps

LEMMA CancelSteps ==
    ASSUME UploadInv, NEW b \in Browsers, Cancel(b)
    PROVE  UploadInv'
<1> DEFINE p == sending[b]
<1> DEFINE w == p.by
<1> DEFINE u == [[[p EXCEPT !.pc = "summary"] EXCEPT !.cancelled = TRUE] EXCEPT !.by = Nobody]
<1>1. /\ p.pc \in {"send", "wait"} /\ Fault
      /\ worker' = IF w = Nobody THEN worker ELSE [worker EXCEPT ![w].page = Nobody]
      /\ UNCHANGED <<catalog, card, taken, first, robbed>>
  BY DEF Cancel
<1>2. PageFits(p, Policy, card, robbed) /\ PageShape(p)
  BY DEF UploadInv, Fitting, PageFits
<1>3. sending' = [sending EXCEPT ![b] = u]
  BY <1>2 DEF Cancel, PageShape
<1>4. /\ DOMAIN u = DOMAIN p /\ u.pc = "summary" /\ u.by = Nobody /\ u.at = p.at
      /\ u.uploaded = p.uploaded /\ u.failed = p.failed
      /\ u.files = p.files /\ u.put = p.put /\ u.overwrite = p.overwrite
  BY <1>2 DEF PageShape
<1> HIDE DEF u
<1>5. PageFits(u, Policy, card, robbed)
  BY <1>2, <1>4 DEF PageFits, PageShape
<1>6. faults' \in 0 .. MaxFaults
  BY <1>1, FaultBound
<1>7. CASE p.pc = "send"
  <2>1. w = Nobody
    BY <1>2, <1>7 DEF PageShape
  <2> QED BY <1>1, <1>3, <1>4, <1>5, <1>6, <1>7, <2>1, PageAlone
<1>8. CASE p.pc = "wait"
  <2> DEFINE r == [worker[w] EXCEPT !.page = Nobody]
  <2>1. w \in Workers /\ w # Nobody
    BY <1>2, <1>8, RomUploadAssumption DEF PageShape
  <2>2. worker' = [worker EXCEPT ![w] = r]
    BY <1>1, <2>1
  <2>3. r.page = Nobody /\ WorkFits(r, Policy, card, robbed)
    <3>1. WorkFits(worker[w], Policy, card, robbed)
      BY <2>1 DEF UploadInv, Fitting
    <3> QED BY <3>1, AloneFits
  <2> HIDE DEF r
  <2> QED BY <1>1, <1>3, <1>4, <1>5, <1>6, <1>8, <2>2, <2>3, PageLeaves
<1> QED BY <1>1, <1>7, <1>8

-----------------------------------------------------------------------------
(* The server *)

\* One request goes on; of the pages only the history of what landed changes.
LEMMA RequestGoesOn ==
    ASSUME UploadInv, NEW w \in Workers, NEW r, worker' = [worker EXCEPT ![w] = r],
           WorkFits(r, Policy, card', robbed'), r.page = worker[w].page,
           r.page # Nobody => r.pc # "free" /\ r.files = worker[w].files,
           r.page # Nobody /\ r.code = "formats" => sending[r.page].failed > 0 \/ robbed,
           UNCHANGED <<catalog, first, robbed>>, faults' \in 0 .. MaxFaults,
           card \subseteq card',
           sending' = [b \in Browsers |-> sending'[b]],
           \A b \in Browsers :
              /\ sending'[b].pc = sending[b].pc /\ sending'[b].by = sending[b].by
              /\ sending'[b].at = sending[b].at /\ sending'[b].files = sending[b].files
              /\ sending'[b].failed = sending[b].failed
              /\ sending'[b] = sending[b] \/ PageFits(sending'[b], Policy, card', robbed'),
           LandedInv'
    PROVE  UploadInv'
<1>1. /\ worker' = [v \in Workers |-> worker'[v]] /\ worker'[w] = r
      /\ \A v \in Workers \ {w} : worker'[v] = worker[v]
  BY OneWorker
<1>2. Histories'
  BY DEF UploadInv, Histories
<1>3. Fitting'
  <2>1. robbed' \in BOOLEAN
    BY DEF UploadInv, Histories
  <2>2. \A v \in Workers :
              worker'[v] = worker[v] \/ WorkFits(worker'[v], Policy, card', robbed')
    BY <1>1
  <2> QED BY <1>1, <2>1, <2>2, FittingKept
<1>4. Paired'
  BY WorkPaired
<1>5. PreviewHolds'
  <2>1. SUFFICES ASSUME NEW b \in Browsers, sending'[b].pc = "wait",
                        worker'[sending'[b].by].code = "formats"
                 PROVE  sending'[b].failed > 0 \/ robbed'
    BY DEF PreviewHolds
  <2>2. sending[b].by \in Workers /\ worker[sending[b].by].page = b
    BY <2>1, RomUploadAssumption DEF UploadInv, Fitting, PageFits, PageShape, Paired
  <2>3. CASE sending[b].by = w
    BY <1>1, <2>1, <2>2, <2>3, RomUploadAssumption
  <2>4. CASE sending[b].by # w
    BY <1>1, <2>1, <2>2, <2>4 DEF UploadInv, PreviewHolds
  <2> QED BY <2>3, <2>4
<1> QED BY <1>2, <1>3, <1>4, <1>5 DEF UploadInv

\* The same, when the card and the pages stay as they are.
LEMMA OnlyRequest ==
    ASSUME UploadInv, NEW w \in Workers, NEW r, worker' = [worker EXCEPT ![w] = r],
           WorkFits(r, Policy, card, robbed), r.page = worker[w].page,
           r.page # Nobody => r.pc # "free" /\ r.files = worker[w].files,
           r.page # Nobody /\ r.code = "formats" => sending[r.page].failed > 0 \/ robbed,
           UNCHANGED <<catalog, card, sending, first, robbed>>, faults' \in 0 .. MaxFaults
    PROVE  UploadInv'
<1>1. sending' = [b \in Browsers |-> sending'[b]]
  BY DEF UploadInv, Fitting
<1>2. LandedInv'
  BY LandedKept
<1> QED BY <1>1, <1>2, RequestGoesOn

LEMMA AnswerFits ==
    ASSUME UploadInv, NEW w \in Workers, NEW code, NEW path,
           code \in {"ok", "formats", "conflict", "storage"}, path \in 0 .. Len(worker[w].files),
           AnswerRequest(w, code, path),
           NEW here, code = "ok" /\ ~robbed => InSeq(worker[w].files) \subseteq here
    PROVE  \E r : /\ worker' = [worker EXCEPT ![w] = r] /\ WorkFits(r, Policy, here, robbed)
                  /\ r.page = worker[w].page /\ r.files = worker[w].files /\ r.pc = "answer"
                  /\ r.code = code
<1> DEFINE o == worker[w]
<1> DEFINE r == [[[o EXCEPT !.pc = "answer"] EXCEPT !.code = code] EXCEPT !.path = path]
<1>1. WorkFits(o, Policy, card, robbed) /\ WorkShape(o)
  BY DEF UploadInv, Fitting, WorkFits
<1>2. worker' = [worker EXCEPT ![w] = r]
  BY <1>1 DEF AnswerRequest, WorkShape
<1>3. /\ DOMAIN r = DOMAIN o /\ r.page = o.page /\ r.files = o.files /\ r.pc = "answer"
      /\ r.code = code /\ r.path = path /\ r.at = o.at /\ r.overwrite = o.overwrite
  BY <1>1 DEF WorkShape
<1> HIDE DEF r
<1>4. WorkShape(r)
  BY <1>1, <1>3 DEF WorkShape
<1>5. WorkFits(r, Policy, here, robbed)
  BY <1>1, <1>3, <1>4 DEF WorkFits
<1> QED BY <1>2, <1>3, <1>5

\* What the preview let pass is not refused unless something failed or went away.
LEMMA GatePasses ==
    ASSUME UploadInv, NEW w \in Workers, worker[w].page # Nobody,
           ScopeRejected(worker[w].files)
    PROVE  sending[worker[w].page].failed > 0 \/ robbed
<1> DEFINE b == worker[w].page
<1> DEFINE p == sending[b]
<1> DEFINE s == p.files
<1> DEFINE part == NextBatch(b)
<1> DEFINE at == p.at
<1>1. b \in Browsers /\ p.pc = "wait" /\ worker[w].files = part /\ at <= Len(s)
  BY DEF UploadInv, Paired
<1>2. PageFits(p, Policy, card, robbed) /\ PageShape(p)
  BY <1>1 DEF UploadInv, Fitting, PageFits
<1>3. s \in Seq(MaySend) /\ at \in Nat /\ at \in 1 .. Len(s) /\ Len(s) \in Nat
  BY <1>1, <1>2, InSeqFacts DEF PageShape
<1>4. /\ Len(part) \in Nat
      /\ \A i \in 1 .. Len(part) : at - 1 + i \in 1 .. Len(s) /\ part[i] = s[at - 1 + i]
  <2>1. /\ Len(part) \in 1 .. Batch
        /\ \A i \in 1 .. Len(part) : at - 1 + i \in 1 .. Len(s) /\ part[i] = s[at - 1 + i]
    BY <1>3, BatchFacts
  <2> DEFINE n == Len(part)
  <2> HIDE DEF n
  <2>2. n \in 1 .. Batch => n \in Nat
    BY RomUploadAssumption
  <2> QED BY <2>1, <2>2 DEF n
<1>5. SUFFICES ASSUME p.failed = 0, ~robbed PROVE FALSE
  BY <1>2 DEF PageShape
<1>6. \A i \in 1 .. Len(s) : i < at => s[i] \in card
  BY <1>1, <1>2, <1>5 DEF PageFits
<1>7. PICK f \in InSeq(part) : IF f.dir = <<>> THEN ~Accepted(Policy, f.name)
                               ELSE ~HasGame(Bundle(f), part)
  BY <1>1 DEF ScopeRejected
<1>8. PICK i \in 1 .. Len(part) : part[i] = f
  BY <1>7 DEF InSeq
<1> DEFINE k == at - 1 + i
<1>9. k \in 1 .. Len(s) /\ s[k] = f
  BY <1>4, <1>8
<1>10. IF f.dir = <<>> THEN Accepted(Policy, f.name)
       ELSE \E j \in 1 .. k : GameFor(Policy, f, s[j])
  BY <1>1, <1>2, <1>9 DEF PageFits, Led
<1>11. PICK j \in 1 .. k : f.dir # <<>> /\ GameFor(Policy, f, s[j])
  BY <1>7, <1>10
<1>12. s[j] \in InSeq(part) \cup card
  <2>1. CASE j < at
    <3>1. j \in 1 .. Len(s)
      <4>1. k \in Nat /\ k <= Len(s) /\ j \in 1 .. k
        BY <1>3, <1>9, <1>11
      <4> HIDE DEF k
      <4> QED BY <1>3, <4>1
    <3> QED BY <1>6, <2>1, <3>1
  <2>2. CASE ~(j < at)
    <3> DEFINE m == j - at + 1
    <3>1. m \in 1 .. i /\ at - 1 + m = j /\ m \in 1 .. Len(part)
      <4>1. at \in Nat /\ i \in Nat /\ j \in Nat /\ j <= at - 1 + i /\ j >= at /\ i <= Len(part)
        BY <1>3, <1>4, <1>8, <1>11, <2>2
      <4> HIDE DEF at
      <4>2. m \in Nat /\ m >= 1 /\ m <= i /\ at - 1 + m = j
        BY <4>1
      <4> HIDE DEF m
      <4> QED BY <1>4, <4>1, <4>2
    <3>2. part[m] = s[j]
      BY <1>4, <3>1
    <3> QED BY <3>1, <3>2 DEF InSeq
  <2> QED BY <2>1, <2>2
<1>13. HasGame(Bundle(f), part)
  BY <1>11, <1>12 DEF HasGame, GameFor
<1> QED BY <1>7, <1>11, <1>13

LEMMA GateSteps ==
    ASSUME UploadInv, NEW w \in Workers, Gate(w)
    PROVE  UploadInv'
<1> DEFINE o == worker[w]
<1> DEFINE files == o.files
<1> DEFINE stuck == {i \in 1..Len(files) : Blocked(files[i])}
<1>1. o.pc = "gate" /\ UNCHANGED <<catalog, card, taken, sending, first, robbed, faults>>
  BY DEF Gate
<1>2. WorkFits(o, Policy, card, robbed) /\ WorkShape(o)
  BY DEF UploadInv, Fitting, WorkFits
<1>3. files \in Seq(MaySend) /\ Len(files) \in Nat /\ Len(files) >= 1 /\ o.code = "ok"
  BY <1>1, <1>2, InSeqFacts DEF WorkShape, WorkFits
<1>4. faults' \in 0 .. MaxFaults
  BY <1>1, FaultBound
<1>5. CASE ScopeRejected(files)
  <2>1. AnswerRequest(w, "formats", 0)
    BY <1>5 DEF Gate
  <2>2. PICK r : /\ worker' = [worker EXCEPT ![w] = r] /\ WorkFits(r, Policy, card, robbed)
                 /\ r.page = o.page /\ r.files = files /\ r.pc = "answer" /\ r.code = "formats"
    BY <1>3, <2>1, AnswerFits
  <2>3. r.page # Nobody => sending[r.page].failed > 0 \/ robbed
    BY <1>5, <2>2, GatePasses
  <2> QED BY <1>1, <1>4, <2>2, <2>3, OnlyRequest
<1>6. CASE ~ScopeRejected(files) /\ stuck # {}
  <2> DEFINE path == CHOOSE i \in stuck : \A j \in stuck : i <= j
  <2>1. AnswerRequest(w, "conflict", path)
    BY <1>6 DEF Gate
  <2>2. path \in 0 .. Len(files)
    <3>1. \E i \in stuck : \A j \in stuck : i <= j
      <4>1. stuck \subseteq Nat /\ \E i : i \in stuck
        BY <1>3, <1>6
      <4> HIDE DEF stuck
      <4> QED BY <4>1, LeastOf
    <3>2. path \in stuck
      BY <3>1
    <3> HIDE DEF path
    <3> QED BY <1>3, <3>2
  <2> HIDE DEF path
  <2>3. PICK r : /\ worker' = [worker EXCEPT ![w] = r] /\ WorkFits(r, Policy, card, robbed)
                 /\ r.page = o.page /\ r.files = files /\ r.pc = "answer" /\ r.code = "conflict"
    BY <2>1, <2>2, AnswerFits
  <2> QED BY <1>1, <1>4, <2>3, OnlyRequest
<1>7. CASE ~ScopeRejected(files) /\ stuck = {}
  <2> DEFINE r == [o EXCEPT !.pc = "put"]
  <2>1. worker' = [worker EXCEPT ![w] = r]
    BY <1>7 DEF Gate
  <2>2. /\ DOMAIN r = DOMAIN o /\ r.page = o.page /\ r.files = files /\ r.pc = "put"
        /\ r.code = o.code /\ r.path = o.path /\ r.at = o.at /\ r.overwrite = o.overwrite
    BY <1>2 DEF WorkShape
  <2> HIDE DEF r
  <2>3. WorkFits(r, Policy, card, robbed)
    <3>1. WorkShape(r)
      BY <1>2, <2>2 DEF WorkShape
    <3>2. o.at = 1
      BY <1>1, <1>2 DEF WorkFits
    <3>3. ASSUME NEW i \in 1 .. Len(files)
          PROVE  IF files[i].dir = <<>> THEN Accepted(Policy, files[i].name)
                 ELSE \E g \in card \cup InSeq(files) : GameFor(Policy, files[i], g)
      <4>1. files[i] \in InSeq(files)
        BY <3>3 DEF InSeq
      <4>2. IF files[i].dir = <<>> THEN Accepted(Policy, files[i].name)
            ELSE HasGame(Bundle(files[i]), files)
        BY <1>7, <4>1 DEF ScopeRejected
      <4> QED BY <4>2 DEF HasGame, GameFor
    <3>4. r.at \in 1 .. Len(r.files) /\ \A i \in 1 .. r.at - 1 : FALSE
      BY <1>3, <2>2, <3>2
    <3> HIDE DEF files
    <3> QED BY <1>2, <1>3, <2>2, <3>1, <3>3, <3>4 DEF WorkFits, files
  <2>4. r.code # "formats"
    BY <1>3, <2>2
  <2> QED BY <1>1, <1>4, <2>1, <2>2, <2>3, <2>4, OnlyRequest
<1> QED BY <1>5, <1>6, <1>7

LEMMA StorageSteps ==
    ASSUME UploadInv, NEW w \in Workers, StorageError(w)
    PROVE  UploadInv'
<1>1. /\ Fault /\ AnswerRequest(w, "storage", 0)
      /\ UNCHANGED <<catalog, card, taken, sending, first, robbed>>
  BY DEF StorageError
<1>2. WorkShape(worker[w])
  BY DEF UploadInv, Fitting, WorkFits
<1>3. 0 \in 0 .. Len(worker[w].files)
  BY <1>2, InSeqFacts DEF WorkShape
<1>4. PICK r : /\ worker' = [worker EXCEPT ![w] = r] /\ WorkFits(r, Policy, card, robbed)
               /\ r.page = worker[w].page /\ r.files = worker[w].files /\ r.pc = "answer"
               /\ r.code = "storage"
  BY <1>1, <1>3, AnswerFits
<1>5. faults' \in 0 .. MaxFaults
  BY <1>1, FaultBound
<1> QED BY <1>1, <1>4, <1>5, OnlyRequest

LEMMA EndSteps ==
    ASSUME UploadInv, NEW w \in Workers, EndAlone(w)
    PROVE  UploadInv'
<1>1. /\ worker[w].page = Nobody /\ worker' = [worker EXCEPT ![w] = NoUploadWork]
      /\ UNCHANGED <<catalog, card, taken, sending, first, robbed, faults>>
  BY DEF EndAlone
<1>2. NoUploadWork.page = Nobody
  BY DEF NoUploadWork
<1> QED BY <1>1, <1>2, IdleFits, FaultBound, OnlyRequest

\* What PutNext adds is accepted, or has its game on the card already.
LEMMA PutLands ==
    ASSUME UploadInv, NEW w \in Workers, worker[w].pc = "put",
           card' = card \cup {worker[w].files[worker[w].at]},
           UNCHANGED <<catalog, first, robbed>>
    PROVE  LandedInv'
<1> DEFINE o == worker[w]
<1> DEFINE files == o.files
<1> DEFINE i == o.at
<1> DEFINE f == files[i]
<1>1. WorkFits(o, Policy, card, robbed) /\ WorkShape(o) /\ i \in 1 .. Len(files)
  BY DEF UploadInv, Fitting, WorkFits
<1>2. files \in Seq(MaySend) /\ Len(files) \in Nat /\ f \in MaySend
  BY <1>1, InSeqFacts DEF WorkShape
<1>3. Policy' = Policy
  BY DEF Policy
<1>4. LandedInv
  BY DEF UploadInv
<1>5. f.dir = <<>> => Accepted(Policy, f.name)
  BY <1>1 DEF WorkFits
<1>6. ASSUME OneGame, ~robbed, f.dir # <<>> PROVE \E g \in card' : GameFor(Policy, f, g)
  <2>1. CASE Accepted(Policy, f.name)
    BY <1>6, <2>1 DEF GameFor
  <2>2. CASE ~Accepted(Policy, f.name)
    <3>1. PICK g \in card \cup InSeq(files) : GameFor(Policy, f, g)
      BY <1>1, <1>6 DEF WorkFits
    <3>2. CASE g \in card
      BY <3>1, <3>2
    <3>3. CASE g \in InSeq(files)
      <4>1. PICK j \in 1 .. Len(files) : files[j] = g
        BY <3>3 DEF InSeq
      <4>2. j < i
        BY <1>1, <1>6, <2>2, <3>1, <4>1 DEF WorkFits, GamesFirst
      <4>3. j \in 1 .. i - 1
        BY <1>1, <1>2, <4>2
      <4>4. g \in card
        BY <1>1, <1>6, <4>1, <4>3 DEF WorkFits
      <4> QED BY <3>1, <4>4
    <3> QED BY <3>1, <3>2, <3>3
  <2> QED BY <2>1, <2>2
<1> HIDE DEF f
<1>7. card' = card \cup {f} /\ first' = first /\ robbed' = robbed
  BY DEF f
<1>8. card' \subseteq MaySend \cup first'
  BY <1>2, <1>4, <1>7 DEF LandedInv
<1>9. ASSUME NEW g \in Landed', g.dir = <<>> PROVE Accepted(Policy, g.name)
  <2>1. g = f \/ g \in Landed
    BY <1>7 DEF Landed
  <2> QED BY <1>4, <1>5, <1>9, <2>1 DEF LandedInv
<1>10. ASSUME OneGame, ~robbed, NEW h \in Landed', h.dir # <<>>
       PROVE  \E g \in card' : GameFor(Policy, h, g)
  <2>1. h = f \/ h \in Landed
    BY <1>7 DEF Landed
  <2>2. CASE h = f
    BY <1>6, <1>10, <2>2
  <2>3. CASE h \in Landed
    BY <1>4, <1>7, <1>10, <2>3 DEF LandedInv
  <2> QED BY <2>1, <2>2, <2>3
<1> QED BY <1>3, <1>7, <1>8, <1>9, <1>10 DEF LandedInv

LEMMA PutSteps ==
    ASSUME UploadInv, NEW w \in Workers, PutNext(w)
    PROVE  UploadInv'
<1> DEFINE o == worker[w]
<1> DEFINE files == o.files
<1> DEFINE i == o.at
<1> DEFINE f == files[i]
<1> DEFINE b == o.page
<1>1. o.pc = "put" /\ UNCHANGED <<catalog, taken, first, robbed, faults>>
  BY DEF PutNext
<1>2. WorkFits(o, Policy, card, robbed) /\ WorkShape(o) /\ i \in 1 .. Len(files)
      /\ o.code = "ok" /\ Len(files) >= 1
  BY <1>1 DEF UploadInv, Fitting, WorkFits
<1>3. files \in Seq(MaySend) /\ Len(files) \in Nat
  BY <1>2, InSeqFacts DEF WorkShape
<1>4. faults' \in 0 .. MaxFaults
  BY <1>1, FaultBound
<1>5. CASE f \in card /\ ~o.overwrite
  <2>1. AnswerRequest(w, "conflict", i) /\ UNCHANGED <<card, sending>>
    BY <1>5 DEF PutNext
  <2>2. i \in 0 .. Len(files)
    BY <1>2, <1>3
  <2>3. PICK r : /\ worker' = [worker EXCEPT ![w] = r] /\ WorkFits(r, Policy, card, robbed)
                 /\ r.page = b /\ r.files = files /\ r.pc = "answer" /\ r.code = "conflict"
    <3> HIDE DEF i
    <3>1. /\ AnswerRequest(w, "conflict", i)
          /\ "conflict" \in {"ok", "formats", "conflict", "storage"}
          /\ ("conflict" = "ok" /\ ~robbed => InSeq(worker[w].files) \subseteq card)
          /\ i \in 0 .. Len(worker[w].files)
      BY <2>1, <2>2
    <3> QED BY <3>1, AnswerFits
  <2> QED BY <1>1, <1>4, <2>1, <2>3, OnlyRequest
<1>6. CASE ~(f \in card /\ ~o.overwrite)
  <2>1. /\ card' = card \cup {f}
        /\ sending' = IF b = Nobody THEN sending ELSE [sending EXCEPT ![b].put = @ + 1]
        /\ IF i = Len(files) THEN AnswerRequest(w, "ok", 0)
           ELSE worker' = [worker EXCEPT ![w].at = i + 1]
    BY <1>6 DEF PutNext
  <2>2. LandedInv'
    BY <1>1, <2>1, PutLands
  <2>3. /\ sending' = [c \in Browsers |-> sending'[c]]
        /\ \A c \in Browsers :
              /\ sending'[c].pc = sending[c].pc /\ sending'[c].by = sending[c].by
              /\ sending'[c].at = sending[c].at /\ sending'[c].files = sending[c].files
              /\ sending'[c].failed = sending[c].failed
              /\ sending'[c] = sending[c] \/ PageFits(sending'[c], Policy, card', robbed')
    <3>1. CASE b = Nobody
      <4>1. sending' = sending
        BY <2>1, <3>1
      <4> QED BY <4>1 DEF UploadInv, Fitting
    <3>2. CASE b # Nobody
      <4>1. b \in Browsers
        BY <1>2, <3>2 DEF WorkShape
      <4> DEFINE p == sending[b]
      <4> DEFINE u == [p EXCEPT !.put = p.put + 1]
      <4>2. PageFits(p, Policy, card, robbed) /\ PageShape(p)
        BY <4>1 DEF UploadInv, Fitting, PageFits
      <4>3. sending' = [sending EXCEPT ![b] = u]
        BY <2>1, <3>2
      <4>4. /\ DOMAIN u = DOMAIN p /\ u.pc = p.pc /\ u.by = p.by /\ u.at = p.at
            /\ u.files = p.files /\ u.failed = p.failed /\ u.uploaded = p.uploaded
            /\ u.overwrite = p.overwrite /\ u.put = p.put + 1
        BY <4>2 DEF PageShape
      <4> HIDE DEF u
      <4>8. u.put \in Nat
        <5>1. p.put \in Nat
          BY <4>2 DEF PageShape
        <5> QED BY <4>4, <5>1
      <4>5. PageFits(u, Policy, card, robbed)
        <5>1. PageShape(u)
          BY <4>2, <4>4, <4>8 DEF PageShape
        <5> QED BY <4>2, <4>4, <5>1 DEF PageFits, Sent
      <4>6. PageFits(u, Policy, card', robbed')
        <5>1. robbed \in BOOLEAN /\ robbed' = robbed /\ card \subseteq card'
          BY <1>1, <2>1 DEF UploadInv, Histories
        <5> QED BY <4>5, <5>1, PageKept
      <4>7. /\ sending' = [c \in Browsers |-> sending'[c]] /\ sending'[b] = u
            /\ \A c \in Browsers \ {b} : sending'[c] = sending[c]
        BY <4>1, <4>3, OnePage
      <4> QED BY <4>4, <4>6, <4>7
    <3> QED BY <3>1, <3>2
  <2>4. \E r : /\ worker' = [worker EXCEPT ![w] = r] /\ WorkFits(r, Policy, card', robbed')
               /\ r.page = b /\ r.files = files /\ r.pc # "free" /\ r.code = "ok"
    <3>1. ~robbed => \A j \in 1 .. i : files[j] \in card'
      <4>1. ASSUME ~robbed, NEW j \in 1 .. i PROVE files[j] \in card'
        <5>1. j = i \/ j \in 1 .. i - 1
          BY <1>2, <1>3
        <5>2. j \in 1 .. i - 1 => files[j] \in card
          BY <1>1, <1>2, <4>1 DEF WorkFits
        <5> QED BY <2>1, <5>1, <5>2
      <4> QED BY <4>1
    <3>2. CASE i = Len(files)
      <4>1. AnswerRequest(w, "ok", 0) /\ 0 \in 0 .. Len(files)
        BY <2>1, <3>2, <1>3
      <4>2. ~robbed => InSeq(files) \subseteq card'
        BY <3>1, <3>2 DEF InSeq
      <4>3. PICK r : /\ worker' = [worker EXCEPT ![w] = r] /\ WorkFits(r, Policy, card', robbed)
                     /\ r.page = b /\ r.files = files /\ r.pc = "answer" /\ r.code = "ok"
        BY <4>1, <4>2, AnswerFits
      <4> QED BY <1>1, <4>3
    <3>3. CASE i # Len(files)
      <4> DEFINE r == [o EXCEPT !.at = i + 1]
      <4>1. worker' = [worker EXCEPT ![w] = r]
        BY <2>1, <3>3
      <4>2. /\ DOMAIN r = DOMAIN o /\ r.page = b /\ r.files = files /\ r.pc = "put"
            /\ r.code = o.code /\ r.path = o.path /\ r.at = i + 1 /\ r.overwrite = o.overwrite
        BY <1>1, <1>2 DEF WorkShape
      <4> HIDE DEF r
      <4>3. i + 1 \in 1 .. Len(files) /\ 1 .. (i + 1) - 1 = 1 .. i /\ i + 1 \in Nat
        BY <1>2, <1>3, <3>3
      <4>4. WorkShape(r)
        BY <1>2, <4>2, <4>3 DEF WorkShape
      <4>5. \A j \in 1 .. r.at - 1 : j \in 1 .. i
        BY <4>2, <4>3
      <4>6. robbed' = robbed /\ card \subseteq card'
        BY <1>1, <2>1
      <4>7. /\ \A j \in 1 .. Len(files) : files[j].dir = <<>> => Accepted(Policy, files[j].name)
            /\ ~robbed => \A j \in 1 .. Len(files) : files[j].dir # <<>> =>
                  \E g \in card' \cup InSeq(files) : GameFor(Policy, files[j], g)
            /\ OneGame => GamesFirst(Policy, files)
        BY <1>1, <1>2, <4>6 DEF WorkFits
      <4>8. WorkFits(r, Policy, card', robbed')
        BY <1>2, <3>1, <4>2, <4>3, <4>4, <4>5, <4>6, <4>7 DEF WorkFits
      <4> QED BY <1>2, <4>1, <4>2, <4>8
    <3> QED BY <3>2, <3>3
  <2>5. PICK r : /\ worker' = [worker EXCEPT ![w] = r] /\ WorkFits(r, Policy, card', robbed')
                 /\ r.page = b /\ r.files = files /\ r.pc # "free" /\ r.code = "ok"
    BY <2>4
  <2>6. card \subseteq card'
    BY <2>1
  <2> QED BY <1>1, <1>4, <2>2, <2>3, <2>5, <2>6, RequestGoesOn
<1> QED BY <1>5, <1>6

LEMMA TakeAwaySteps ==
    ASSUME UploadInv, TakeAway
    PROVE  UploadInv'
<1>1. /\ Fault /\ robbed' = TRUE /\ card' \subseteq card
      /\ UNCHANGED <<catalog, taken, sending, worker, first>>
  BY DEF TakeAway
<1>2. Histories'
  BY <1>1, FaultBound DEF UploadInv, Histories
<1>3. Fitting'
  <2>1. /\ sending' = [b \in Browsers |-> sending'[b]]
        /\ worker' = [w \in Workers |-> worker'[w]]
    BY <1>1 DEF UploadInv, Fitting
  <2> QED BY <1>1, <2>1, FittingKept
<1>4. Paired'
  <2>1. \A b \in Browsers : NextBatch(b)' = NextBatch(b)
    BY <1>1, SameNext
  <2> QED BY <1>1, <2>1 DEF UploadInv, Paired
<1>5. PreviewHolds'
  BY <1>1 DEF PreviewHolds
<1>6. LandedInv'
  <2>1. Policy' = Policy
    BY <1>1 DEF Policy
  <2>2. Landed' \subseteq Landed
    BY <1>1 DEF Landed
  <2> QED BY <1>1, <2>1, <2>2 DEF UploadInv, LandedInv
<1> QED BY <1>2, <1>3, <1>4, <1>5, <1>6 DEF UploadInv

LEMMA NextOK == UploadInv /\ [RomUploadNext]_romUploadVars => UploadInv'
<1> SUFFICES ASSUME UploadInv, [RomUploadNext]_romUploadVars PROVE UploadInv'
  OBVIOUS
<1>1. CASE TakeAway
  BY <1>1, TakeAwaySteps
<1>2. ASSUME NEW b \in Browsers,
             \/ Choose(b) \/ Preview(b) \/ SendBatch(b) \/ ReceiveAnswer(b) \/ LoseAnswer(b)
             \/ Cancel(b) \/ CloseSummary(b)
      PROVE  UploadInv'
  BY <1>2, ChooseSteps, PreviewSteps, SendSteps, ReceiveSteps, LoseSteps, CancelSteps, CloseSteps
<1>3. ASSUME NEW w \in Workers, Gate(w) \/ PutNext(w) \/ StorageError(w) \/ EndAlone(w)
      PROVE  UploadInv'
  BY <1>3, GateSteps, PutSteps, StorageSteps, EndSteps
<1>4. CASE UNCHANGED romUploadVars
  <2>1. /\ catalog' = catalog /\ card' = card /\ sending' = sending /\ worker' = worker
        /\ first' = first /\ robbed' = robbed /\ faults' = faults
    BY <1>4 DEF romUploadVars
  <2>2. Policy' = Policy /\ Landed' = Landed /\ \A b \in Browsers : NextBatch(b)' = NextBatch(b)
    BY <2>1 DEF Policy, Landed, NextBatch
  <2> QED BY <2>1, <2>2
        DEF UploadInv, Histories, Fitting, Paired, LandedInv, PreviewHolds
<1> QED BY <1>1, <1>2, <1>3, <1>4 DEF RomUploadNext

LEMMA Invariance == RomUploadSpec => []UploadInv
BY InitOK, NextOK, PTL DEF RomUploadSpec

-----------------------------------------------------------------------------
(* The theorems *)

\* The types of the page's loop and of the requests: counts that fit the
\* selection, and no request longer than the server takes.
THEOREM UploadTypes == RomUploadSpec => []RomUploadTypeOK
<1>1. UploadInv => RomUploadTypeOK
  <2> SUFFICES ASSUME UploadInv PROVE RomUploadTypeOK
    OBVIOUS
  <2>1. /\ card \subseteq MaySend \cup first /\ first \in CardSets /\ robbed \in BOOLEAN
        /\ faults \in 0 .. MaxFaults
    BY DEF UploadInv, LandedInv, Histories
  <2>2. ASSUME NEW b \in Browsers
        PROVE  /\ sending[b].pc \in {"idle", "preview", "send", "wait", "summary"}
               /\ InSeq(sending[b].files) \subseteq MaySend /\ sending[b].overwrite \in BOOLEAN
               /\ sending[b].by \in Workers \cup {Nobody}
               /\ (sending[b].pc = "wait" <=> sending[b].by # Nobody)
               /\ sending[b].uploaded + sending[b].failed <= Len(sending[b].files)
               /\ sending[b].uploaded >= 0 /\ sending[b].failed >= 0
    <3>1. PageShape(sending[b])
      BY DEF UploadInv, Fitting, PageFits
    <3>2. InSeq(sending[b].files) \subseteq MaySend
      BY <3>1, InSeqFacts DEF PageShape
    <3> QED BY <3>1, <3>2 DEF PageShape
  <2>3. ASSUME NEW w \in Workers
        PROVE  /\ worker[w].pc \in {"free", "gate", "put", "answer"}
               /\ worker[w].page \in Browsers \cup {Nobody}
               /\ Len(worker[w].files) <= Batch /\ worker[w].path \in 0 .. Len(worker[w].files)
    BY DEF UploadInv, Fitting, WorkFits, WorkShape
  <2> QED BY <2>1, <2>2, <2>3 DEF RomUploadTypeOK
<1> QED BY <1>1, Invariance, PTL

\* cs_rom_policy.h's promise, for every catalog: a file outside a bundle that
\* landed on a platform with a policy is listed by one row as that row stands,
\* and no row ignores it.
THEOREM LandedIsListedAlways == RomUploadSpec => []LandedIsListed
<1>1. UploadInv => LandedIsListed
  BY AcceptedIsListed DEF UploadInv, LandedInv, LandedIsListed, Policy
<1> QED BY <1>1, Invariance, PTL

\* Companions do not land before a game of their bundle, whatever fails, is
\* lost or cancelled, in batches of any size, where a bundle has one game.
THEOREM CompanionHasGameAlways ==
    ASSUME OneGame
    PROVE  RomUploadSpec => []CompanionHasGame
<1>1. UploadInv => CompanionHasGame
  BY OneGame DEF UploadInv, LandedInv, CompanionHasGame, GameFor
<1> QED BY <1>1, Invariance, PTL

\* What the preview let pass, the gate does not refuse for its formats in a
\* later batch, unless a batch before failed or something was removed.
THEOREM PreviewHoldsAlways == RomUploadSpec => []PreviewHolds
<1>1. UploadInv => PreviewHolds
  BY DEF UploadInv
<1> QED BY <1>1, Invariance, PTL

-----------------------------------------------------------------------------
(* The summary.  Where a plain file is in the way of a folder, the answer    *)
(* names a file none before which was written, and the page counts those as  *)
(* uploaded.  Where none is, no summary says more than what landed, and one  *)
(* without a fault says just that.                                           *)

Unblocked == \A f \in MaySend : ~Blocked(f)

\* What a page counts when it reads the answer, and what a request has done.
Told(r) == IF r.code = "ok" THEN Len(r.files) ELSE UploadedBefore(r)

Done(r) == IF r.pc = "answer" THEN Told(r) ELSE r.at - 1

\* What landed for a page that it has not been told of.
Owed(b) == IF sending[b].pc = "wait" THEN Done(worker[sending[b].by]) ELSE 0

Tally(b) ==
    /\ sending[b].uploaded + Owed(b) <= sending[b].put
    /\ faults = 0 => sending[b].uploaded + Owed(b) = sending[b].put

Counting == \A b \in Browsers : Tally(b)

\* Nothing that is counted is lost from the history when no fault happens.
NoNewFault == faults' = faults \/ faults' # 0

LEMMA WaitsFor ==
    ASSUME UploadInv, NEW b \in Browsers, sending[b].pc = "wait"
    PROVE  /\ sending[b].by \in Workers /\ worker[sending[b].by].page = b
           /\ worker[sending[b].by].pc # "free"
BY RomUploadAssumption DEF UploadInv, Fitting, PageFits, PageShape, Paired

LEMMA DoneIsNat ==
    ASSUME UploadInv, NEW w \in Workers, worker[w].pc # "free"
    PROVE  Done(worker[w]) \in Nat
<1> DEFINE r == worker[w]
<1> DEFINE n == Len(r.files)
<1>1. WorkFits(r, Policy, card, robbed) /\ WorkShape(r)
  BY DEF UploadInv, Fitting, WorkFits
<1>2. n \in Nat /\ r.path \in 0 .. n /\ r.at \in Nat
  BY <1>1, InSeqFacts DEF WorkShape
<1>3. CASE r.pc = "answer"
  <2> HIDE DEF n
  <2>1. r.path = 0 \/ r.path - 1 \in Nat
    BY <1>2
  <2> QED BY <1>2, <1>3, <2>1 DEF Done, Told, UploadedBefore, n
<1>4. CASE r.pc # "answer"
  <2>1. r.pc \in {"gate", "put"}
    BY <1>1, <1>4 DEF WorkShape
  <2>2. r.at >= 1
    BY <1>1, <1>2, <2>1 DEF WorkFits
  <2> QED BY <1>2, <1>4, <2>2 DEF Done
<1> QED BY <1>3, <1>4

LEMMA FaultCounts ==
    ASSUME UploadInv, Fault
    PROVE  faults' # 0
BY RomUploadAssumption DEF UploadInv, Histories, Fault

\* A page whose counts and whose request's stay as they were.
LEMMA TallyKept ==
    ASSUME Counting, NEW c \in Browsers,
           sending'[c].pc = sending[c].pc, sending'[c].uploaded = sending[c].uploaded,
           sending'[c].put = sending[c].put,
           sending[c].pc = "wait" =>
              Done(worker'[sending'[c].by]) = Done(worker[sending[c].by]),
           NoNewFault
    PROVE  Tally(c)'
<1>1. Owed(c)' = Owed(c)
  BY DEF Owed
<1>2. Tally(c)
  BY DEF Counting
<1> QED BY <1>1, <1>2 DEF Tally, NoNewFault

\* One page goes on, and its request if it had one.
LEMMA PageTally ==
    ASSUME UploadInv, Counting, NEW b \in Browsers, NEW u, sending' = [sending EXCEPT ![b] = u],
           \A v \in Workers : worker'[v] = worker[v] \/ worker[v].page \in {b, Nobody},
           NoNewFault, Tally(b)'
    PROVE  Counting'
<1>1. ASSUME NEW c \in Browsers, c # b PROVE Tally(c)'
  <2>1. sending'[c] = sending[c]
    BY <1>1, OnePage
  <2>2. ASSUME sending[c].pc = "wait" PROVE worker'[sending[c].by] = worker[sending[c].by]
    BY <1>1, <2>2, WaitsFor, RomUploadAssumption
  <2> QED BY <2>1, <2>2, TallyKept
<1> QED BY <1>1 DEF Counting

\* One request goes on, and no page does.
LEMMA RequestTally ==
    ASSUME UploadInv, Counting, NEW w \in Workers, NEW r, worker' = [worker EXCEPT ![w] = r],
           sending' = sending, NoNewFault,
           worker[w].page = Nobody \/ Done(r) = Done(worker[w])
              \/ (faults' # 0 /\ Done(r) \in Nat /\ Done(r) <= Done(worker[w]))
    PROVE  Counting'
<1>1. worker'[w] = r /\ \A v \in Workers \ {w} : worker'[v] = worker[v]
  BY OneWorker
<1>2. ASSUME NEW c \in Browsers PROVE Tally(c)'
  <2>1. CASE sending[c].pc # "wait" \/ Done(worker'[sending[c].by]) = Done(worker[sending[c].by])
    BY <2>1, TallyKept
  <2>2. CASE /\ sending[c].pc = "wait"
             /\ Done(worker'[sending[c].by]) # Done(worker[sending[c].by])
    <3>1. sending[c].by \in Workers /\ worker[sending[c].by].page = c
          /\ worker[sending[c].by].pc # "free"
      BY <2>2, WaitsFor
    <3>2. sending[c].by = w
      BY <1>1, <2>2, <3>1
    <3>3. faults' # 0 /\ Done(r) \in Nat /\ Done(r) <= Done(worker[w])
      BY <1>1, <2>2, <3>1, <3>2, RomUploadAssumption
    <3>4. Owed(c) = Done(worker[w]) /\ Owed(c)' = Done(r)
      BY <1>1, <2>2, <3>2 DEF Owed
    <3>5. Done(worker[w]) \in Nat
      BY <3>1, <3>2, DoneIsNat
    <3>6. sending[c].uploaded \in Nat /\ sending[c].put \in Nat
      BY DEF UploadInv, Fitting, PageFits, PageShape
    <3>7. sending[c].uploaded + Owed(c) <= sending[c].put
      BY DEF Counting, Tally
    <3> DEFINE up == sending[c].uploaded
    <3> DEFINE dn == Done(worker[w])
    <3> DEFINE dr == Done(r)
    <3>8. up + dr <= sending[c].put
      <4>1. up + dn <= sending[c].put /\ dn \in Nat /\ dr \in Nat /\ dr <= dn
        BY <3>3, <3>4, <3>5, <3>7
      <4> HIDE DEF up, dn, dr
      <4> QED BY <3>6, <4>1 DEF up
    <3> QED BY <3>3, <3>4, <3>8 DEF Tally
  <2> QED BY <2>1, <2>2
<1> QED BY <1>2 DEF Counting

\* A page that waits no more has counted what it was owed, or there was a fault.
LEMMA RestTally ==
    ASSUME UploadInv, Counting, NEW b \in Browsers, NEW u, sending' = [sending EXCEPT ![b] = u],
           u.pc # "wait", NEW k \in Nat, u.uploaded = sending[b].uploaded + k,
           u.put = sending[b].put, k = Owed(b) \/ (k <= Owed(b) /\ faults' # 0), NoNewFault
    PROVE  Tally(b)'
<1>1. sending'[b] = u
  BY OnePage
<1>2. Owed(b)' = 0
  BY <1>1 DEF Owed
<1>3. /\ sending[b].uploaded + Owed(b) <= sending[b].put
      /\ faults = 0 => sending[b].uploaded + Owed(b) = sending[b].put
  BY DEF Counting, Tally
<1>4. sending[b].uploaded \in Nat /\ sending[b].put \in Nat
  BY DEF UploadInv, Fitting, PageFits, PageShape
<1>5. Owed(b) \in Nat
  BY WaitsFor, DoneIsNat DEF Owed
<1> DEFINE up == sending[b].uploaded
<1> DEFINE owed == Owed(b)
<1>6. /\ up + owed <= sending[b].put /\ (faults = 0 => up + owed = sending[b].put)
      /\ up \in Nat /\ owed \in Nat /\ (k = owed \/ (k <= owed /\ faults' # 0))
  BY <1>3, <1>4, <1>5
<1> HIDE DEF up, owed
<1>7. up + k <= sending[b].put /\ (faults' = 0 => up + k = sending[b].put)
  BY <1>4, <1>6 DEF NoNewFault
<1>8. sending'[b].uploaded = up + k /\ sending'[b].put = sending[b].put
  BY <1>1 DEF up
<1>9. sending'[b].uploaded + 0 = up + k
  BY <1>6, <1>8
<1> QED BY <1>2, <1>7, <1>8, <1>9 DEF Tally

\* A page that starts anew, or closes, has nothing to count.
LEMMA FreshTally ==
    ASSUME UploadInv, Counting, NEW b \in Browsers, NEW u, sending' = [sending EXCEPT ![b] = u],
           u.pc # "wait", u.uploaded = 0, u.put = 0, worker' = worker, faults' = faults
    PROVE  Counting'
<1>1. sending'[b] = u /\ NoNewFault
  BY OnePage DEF NoNewFault
<1>2. Tally(b)'
  BY <1>1 DEF Tally, Owed
<1> QED BY <1>1, <1>2, PageTally

LEMMA ChooseTally ==
    ASSUME UploadInv, Counting, NEW b \in Browsers, Choose(b) \/ CloseSummary(b)
    PROVE  Counting'
<1>1. worker' = worker /\ faults' = faults
  BY DEF Choose, CloseSummary, OnlyPage
<1>2. CASE Choose(b)
  <2>1. PICK s \in Selections, over \in BOOLEAN :
           sending' = [sending EXCEPT ![b] = [NoUpload EXCEPT !.pc = "preview", !.kind = s.kind,
                                              !.files = s.files, !.overwrite = over]]
    BY <1>2 DEF Choose
  <2> DEFINE u == [NoUpload EXCEPT !.pc = "preview", !.kind = s.kind, !.files = s.files,
                                   !.overwrite = over]
  <2>2. u.pc = "preview" /\ u.uploaded = 0 /\ u.put = 0
    BY DEF NoUpload
  <2> HIDE DEF u
  <2>3. sending' = [sending EXCEPT ![b] = u]
    BY <2>1 DEF u
  <2> QED BY <1>1, <2>2, <2>3, FreshTally
<1>3. CASE CloseSummary(b)
  <2>1. NoUpload.pc = "idle" /\ NoUpload.uploaded = 0 /\ NoUpload.put = 0
    BY DEF NoUpload
  <2> QED BY <1>1, <1>3, <2>1, FreshTally DEF CloseSummary
<1> QED BY <1>2, <1>3

LEMMA PreviewTally ==
    ASSUME UploadInv, Counting, NEW b \in Browsers, Preview(b)
    PROVE  Counting'
<1> DEFINE p == sending[b]
<1>1. p.pc = "preview" /\ worker' = worker /\ faults' = faults
  BY DEF Preview, OnlyPage
<1>2. PageFits(p, Policy, card, robbed) /\ PageShape(p)
  BY DEF UploadInv, Fitting, PageFits
<1>3. CASE sending' = [sending EXCEPT ![b] = NoUpload]
  <2>1. NoUpload.pc = "idle" /\ NoUpload.uploaded = 0 /\ NoUpload.put = 0
    BY DEF NoUpload
  <2> QED BY <1>1, <1>3, <2>1, FreshTally
<1>4. CASE ~(sending' = [sending EXCEPT ![b] = NoUpload])
  <2>1. PICK E, q : sending' = [sending EXCEPT ![b].pc = "send",
                       ![b].files = [k \in 1..Len(p.files) |-> p.files[q[k]]]]
    BY <1>4 DEF Preview
  <2> DEFINE files == [k \in 1..Len(p.files) |-> p.files[q[k]]]
  <2> DEFINE u == [[p EXCEPT !.pc = "send"] EXCEPT !.files = files]
  <2>2. u.pc = "send" /\ u.uploaded = p.uploaded /\ u.put = p.put
    BY <1>2 DEF PageShape
  <2>3. sending' = [sending EXCEPT ![b] = u]
    <3> HIDE DEF files
    <3> QED BY <1>2, <2>1 DEF PageShape, files
  <2> HIDE DEF u
  <2>4. /\ u.uploaded = p.uploaded + 0 /\ u.pc # "wait"
        /\ 0 \in Nat /\ 0 = Owed(b) /\ NoNewFault
    BY <1>1, <1>2, <2>2 DEF PageShape, Owed, NoNewFault
  <2>5. Tally(b)'
    BY <2>2, <2>3, <2>4, RestTally, Zenon
  <2> QED BY <1>1, <2>3, <2>4, <2>5, PageTally
<1> QED BY <1>3, <1>4

LEMMA SendTally ==
    ASSUME UploadInv, Counting, NEW b \in Browsers, SendBatch(b)
    PROVE  Counting'
<1> DEFINE p == sending[b]
<1>1. p.pc = "send" /\ faults' = faults /\ Owed(b) = 0 /\ NoNewFault
  BY DEF SendBatch, Owed, NoNewFault
<1>2. PageFits(p, Policy, card, robbed) /\ PageShape(p)
  BY DEF UploadInv, Fitting, PageFits
<1>3. CASE p.at > Len(p.files)
  <2> DEFINE u == [p EXCEPT !.pc = "summary"]
  <2>1. sending' = [sending EXCEPT ![b] = u] /\ worker' = worker
    BY <1>3 DEF SendBatch
  <2>2. u.pc = "summary" /\ u.uploaded = p.uploaded + 0 /\ u.put = p.put
    BY <1>2 DEF PageShape
  <2> HIDE DEF u
  <2>3. u.pc # "wait" /\ 0 \in Nat /\ 0 = Owed(b)
    BY <1>1, <2>2
  <2>4. Tally(b)'
    BY <1>1, <2>1, <2>2, <2>3, RestTally, Zenon
  <2> QED BY <1>1, <2>1, <2>4, PageTally
<1>4. CASE ~(p.at > Len(p.files))
  <2>1. PICK w \in Workers :
           /\ worker[w].pc = "free"
           /\ worker' = [worker EXCEPT ![w] = [NoUploadWork EXCEPT !.pc = "gate", !.page = b,
                           !.files = NextBatch(b), !.overwrite = p.overwrite]]
           /\ sending' = [sending EXCEPT ![b].pc = "wait", ![b].by = w]
    <3> DEFINE free == {w \in Workers : worker[w].pc = "free"}
    <3> DEFINE w == CHOOSE x \in free : TRUE
    <3>1. free # {}
      BY <1>4 DEF SendBatch
    <3>2. w \in free
      BY <3>1
    <3>3. /\ worker' = [worker EXCEPT ![w] = [NoUploadWork EXCEPT !.pc = "gate", !.page = b,
                           !.files = NextBatch(b), !.overwrite = p.overwrite]]
          /\ sending' = [sending EXCEPT ![b].pc = "wait", ![b].by = w]
      BY <1>4 DEF SendBatch
    <3> HIDE DEF w
    <3> QED BY <3>2, <3>3
  <2> DEFINE u == [[p EXCEPT !.pc = "wait"] EXCEPT !.by = w]
  <2> DEFINE r == [NoUploadWork EXCEPT !.pc = "gate", !.page = b, !.files = NextBatch(b),
                                       !.overwrite = p.overwrite]
  <2>2. u.pc = "wait" /\ u.by = w /\ u.uploaded = p.uploaded /\ u.put = p.put
    BY <1>2 DEF PageShape
  <2>3. r.pc = "gate" /\ r.at = 1
    BY DEF NoUploadWork
  <2>4. sending' = [sending EXCEPT ![b] = u]
    BY <1>2, <2>1 DEF PageShape
  <2> HIDE DEF u
  <2>5. worker' = [worker EXCEPT ![w] = r]
    BY <2>1
  <2> HIDE DEF r
  <2>6. worker'[w] = r /\ \A v \in Workers \ {w} : worker'[v] = worker[v]
    BY <2>5, OneWorker
  <2>7. worker[w].page = Nobody
    BY <2>1 DEF UploadInv, Fitting, WorkFits
  <2>8. sending'[b] = u
    BY <2>4, OnePage
  <2>9. Owed(b)' = 0
    BY <2>2, <2>3, <2>6, <2>8 DEF Owed, Done
  <2>10. Tally(b)'
    BY <1>1, <2>2, <2>8, <2>9 DEF Tally, Counting
  <2> QED BY <1>1, <2>4, <2>6, <2>7, <2>10, PageTally
<1> QED BY <1>3, <1>4

\* A page leaves the request it waited for, with k more files counted.
LEMMA LeaveTally ==
    ASSUME UploadInv, Counting, NEW b \in Browsers, sending[b].pc = "wait",
           NEW u, sending' = [sending EXCEPT ![b] = u], u.pc # "wait",
           NEW k \in Nat, u.uploaded = sending[b].uploaded + k, u.put = sending[b].put,
           k = Owed(b) \/ (k <= Owed(b) /\ faults' # 0), NoNewFault,
           NEW r, worker' = [worker EXCEPT ![sending[b].by] = r]
    PROVE  Counting'
<1>1. sending[b].by \in Workers /\ worker[sending[b].by].page = b
  BY WaitsFor
<1>2. \A v \in Workers \ {sending[b].by} : worker'[v] = worker[v]
  BY <1>1, OneWorker
<1>3. Tally(b)'
  BY RestTally
<1> QED BY <1>1, <1>2, <1>3, PageTally

\* The counts after an answer, as one record.
PageCounted(b, n, some) ==
    [[[[[sending[b] EXCEPT !.pc = "send"] EXCEPT !.by = Nobody] EXCEPT !.at = sending[b].at + Batch]
        EXCEPT !.uploaded = sending[b].uploaded + some]
        EXCEPT !.failed = sending[b].failed + (n - some)]

LEMMA CountedIs ==
    ASSUME UploadInv, NEW b \in Browsers, NEW n, NEW some
    PROVE  /\ Counted(b, n, some) = [sending EXCEPT ![b] = PageCounted(b, n, some)]
           /\ PageCounted(b, n, some).pc = "send"
           /\ PageCounted(b, n, some).uploaded = sending[b].uploaded + some
           /\ PageCounted(b, n, some).put = sending[b].put
<1>1. PageShape(sending[b])
  BY DEF UploadInv, Fitting, PageFits
<1> QED BY <1>1 DEF Counted, PageCounted, PageShape

LEMMA ReceiveTally ==
    ASSUME UploadInv, Counting, NEW b \in Browsers, ReceiveAnswer(b)
    PROVE  Counting'
<1> DEFINE w == sending[b].by
<1> DEFINE r == worker[w]
<1> DEFINE n == Len(r.files)
<1>1. /\ sending[b].pc = "wait" /\ r.pc = "answer" /\ faults' = faults
      /\ sending' = Counted(b, n, Told(r))
      /\ worker' = [worker EXCEPT ![w] = NoUploadWork]
  BY DEF ReceiveAnswer, Told
<1>2. Owed(b) = Told(r) /\ NoNewFault
  BY <1>1 DEF Owed, Done, NoNewFault
<1>3. Owed(b) \in Nat
  BY <1>1, WaitsFor, DoneIsNat DEF Owed
<1> DEFINE u == PageCounted(b, n, Told(r))
<1> HIDE DEF n
<1>4. /\ sending' = [sending EXCEPT ![b] = u] /\ u.pc = "send"
      /\ u.uploaded = sending[b].uploaded + Told(r) /\ u.put = sending[b].put
  BY <1>1, CountedIs
<1> HIDE DEF u
<1>5. Told(r) \in Nat /\ u.pc # "wait" /\ Told(r) = Owed(b)
  BY <1>2, <1>3, <1>4
<1> HIDE DEF r
<1> QED BY <1>1, <1>2, <1>4, <1>5, LeaveTally

LEMMA LoseTally ==
    ASSUME UploadInv, Counting, NEW b \in Browsers, LoseAnswer(b)
    PROVE  Counting'
<1> DEFINE w == sending[b].by
<1> DEFINE n == Len(worker[w].files)
<1> DEFINE r == [worker[w] EXCEPT !.page = Nobody]
<1>1. /\ sending[b].pc = "wait" /\ Fault /\ sending' = Counted(b, n, 0)
      /\ worker' = [worker EXCEPT ![w] = r]
  BY DEF LoseAnswer
<1>2. faults' # 0 /\ NoNewFault
  BY <1>1, FaultCounts DEF NoNewFault
<1>3. Owed(b) \in Nat
  BY <1>1, WaitsFor, DoneIsNat DEF Owed
<1> DEFINE u == PageCounted(b, n, 0)
<1> HIDE DEF n
<1>4. /\ sending' = [sending EXCEPT ![b] = u] /\ u.pc = "send"
      /\ u.uploaded = sending[b].uploaded + 0 /\ u.put = sending[b].put
  BY <1>1, CountedIs
<1> HIDE DEF u
<1> HIDE DEF r
<1>5. 0 \in Nat /\ 0 <= Owed(b)
  BY <1>3
<1> QED BY <1>1, <1>2, <1>4, <1>5, LeaveTally

LEMMA CancelTally ==
    ASSUME UploadInv, Counting, NEW b \in Browsers, Cancel(b)
    PROVE  Counting'
<1> DEFINE p == sending[b]
<1> DEFINE w == p.by
<1> DEFINE u == [[[p EXCEPT !.pc = "summary"] EXCEPT !.cancelled = TRUE] EXCEPT !.by = Nobody]
<1>1. /\ p.pc \in {"send", "wait"} /\ Fault
      /\ worker' = IF w = Nobody THEN worker ELSE [worker EXCEPT ![w].page = Nobody]
  BY DEF Cancel
<1>2. PageShape(p)
  BY DEF UploadInv, Fitting, PageFits
<1>3. sending' = [sending EXCEPT ![b] = u]
  BY <1>2 DEF Cancel, PageShape
<1>4. u.pc = "summary" /\ u.uploaded = p.uploaded + 0 /\ u.put = p.put
  BY <1>2 DEF PageShape
<1> HIDE DEF u
<1>5. faults' # 0 /\ NoNewFault
  BY <1>1, FaultCounts DEF NoNewFault
<1>6. Owed(b) \in Nat /\ 0 <= Owed(b) /\ 0 \in Nat
  BY WaitsFor, DoneIsNat DEF Owed
<1>7. CASE p.pc = "send"
  <2>1. worker' = worker
    BY <1>1, <1>2, <1>7 DEF PageShape
  <2>2. Tally(b)'
    BY <1>3, <1>4, <1>5, <1>6, RestTally
  <2> QED BY <1>3, <1>5, <2>1, <2>2, PageTally
<1>8. CASE p.pc = "wait"
  <2> DEFINE r == [worker[w] EXCEPT !.page = Nobody]
  <2>1. worker' = [worker EXCEPT ![w] = r]
    BY <1>1, <1>2, <1>8, RomUploadAssumption DEF PageShape
  <2> HIDE DEF r
  <2> QED BY <1>3, <1>4, <1>5, <1>6, <1>8, <2>1, LeaveTally
<1> QED BY <1>1, <1>7, <1>8

LEMMA GateTally ==
    ASSUME UploadInv, Counting, Unblocked, NEW w \in Workers, Gate(w)
    PROVE  Counting'
<1> DEFINE o == worker[w]
<1> DEFINE files == o.files
<1> DEFINE stuck == {i \in 1..Len(files) : Blocked(files[i])}
<1>1. o.pc = "gate" /\ sending' = sending /\ NoNewFault
  BY DEF Gate, NoNewFault
<1>2. WorkFits(o, Policy, card, robbed) /\ WorkShape(o)
  BY DEF UploadInv, Fitting, WorkFits
<1>3. Done(o) = 0
  BY <1>1, <1>2 DEF Done, WorkFits
<1>4. stuck = {}
  <2>1. files \in Seq(MaySend)
    BY <1>2 DEF WorkShape
  <2>2. \A i \in 1 .. Len(files) : files[i] \in MaySend
    BY <2>1
  <2> QED BY <2>2 DEF Unblocked
<1>5. CASE ScopeRejected(files)
  <2> DEFINE r == [[[o EXCEPT !.pc = "answer"] EXCEPT !.code = "formats"] EXCEPT !.path = 0]
  <2>1. worker' = [worker EXCEPT ![w] = r]
    BY <1>2, <1>5 DEF Gate, AnswerRequest, WorkShape
  <2>2. r.pc = "answer" /\ r.code = "formats" /\ r.path = 0
    BY <1>2 DEF WorkShape
  <2> HIDE DEF r
  <2>3. Done(r) = 0
    BY <2>2 DEF Done, Told, UploadedBefore
  <2> QED BY <1>1, <1>3, <2>1, <2>3, RequestTally
<1>6. CASE ~ScopeRejected(files)
  <2> DEFINE r == [o EXCEPT !.pc = "put"]
  <2>1. worker' = [worker EXCEPT ![w] = r]
    BY <1>4, <1>6 DEF Gate
  <2>2. r.pc = "put" /\ r.at = o.at
    BY <1>2 DEF WorkShape
  <2> HIDE DEF r
  <2>3. Done(r) = Done(o)
    BY <1>1, <2>2 DEF Done
  <2> QED BY <1>1, <2>1, <2>3, RequestTally
<1> QED BY <1>5, <1>6

LEMMA StorageTally ==
    ASSUME UploadInv, Counting, NEW w \in Workers, StorageError(w)
    PROVE  Counting'
<1> DEFINE o == worker[w]
<1> DEFINE r == [[[o EXCEPT !.pc = "answer"] EXCEPT !.code = "storage"] EXCEPT !.path = 0]
<1>1. o.pc # "free" /\ Fault /\ AnswerRequest(w, "storage", 0) /\ sending' = sending
  BY DEF StorageError
<1>2. WorkShape(o)
  BY DEF UploadInv, Fitting, WorkFits
<1>3. worker' = [worker EXCEPT ![w] = r]
  BY <1>1, <1>2 DEF AnswerRequest, WorkShape
<1>4. r.pc = "answer" /\ r.code = "storage" /\ r.path = 0
  BY <1>2 DEF WorkShape
<1> HIDE DEF r
<1>5. Done(r) = 0
  BY <1>4 DEF Done, Told, UploadedBefore
<1>6. Done(o) \in Nat
  BY <1>1, DoneIsNat
<1>7. Done(r) \in Nat /\ Done(r) <= Done(o)
  BY <1>5, <1>6
<1>8. faults' # 0 /\ NoNewFault
  BY <1>1, FaultCounts DEF NoNewFault
<1> QED BY <1>1, <1>3, <1>7, <1>8, RequestTally

LEMMA EndTally ==
    ASSUME UploadInv, Counting, NEW w \in Workers, EndAlone(w)
    PROVE  Counting'
BY RequestTally DEF EndAlone, NoNewFault

\* A file lands for the page and for its request at once.
LEMMA LandTally ==
    ASSUME UploadInv, Counting, NEW w \in Workers, worker[w].pc = "put",
           NEW r, worker' = [worker EXCEPT ![w] = r], Done(r) = Done(worker[w]) + 1,
           sending' = IF worker[w].page = Nobody THEN sending
                      ELSE [sending EXCEPT ![worker[w].page].put = @ + 1],
           faults' = faults
    PROVE  Counting'
<1>1. NoNewFault
  BY DEF NoNewFault
<1>2. CASE worker[w].page = Nobody
  BY <1>1, <1>2, RequestTally
<1>3. CASE worker[w].page # Nobody
  <2>0. PICK b \in Browsers : b = worker[w].page
    BY <1>3 DEF UploadInv, Paired
  <2> DEFINE p == sending[b]
  <2> DEFINE u == [p EXCEPT !.put = p.put + 1]
  <2>1. p.pc = "wait" /\ p.by = w
    BY <1>3, <2>0 DEF UploadInv, Paired
  <2>2. PageShape(p)
    BY <2>1 DEF UploadInv, Fitting, PageFits
  <2>3. u.pc = "wait" /\ u.by = w /\ u.uploaded = p.uploaded /\ u.put = p.put + 1
    BY <2>1, <2>2 DEF PageShape
  <2>4. sending' = [sending EXCEPT ![b] = u]
    BY <1>3, <2>0
  <2> HIDE DEF u
  <2>5. sending'[b] = u
    BY <2>1, <2>4, OnePage
  <2>6. worker'[w] = r /\ \A v \in Workers \ {w} : worker'[v] = worker[v]
    BY OneWorker
  <2>7. Owed(b) = Done(worker[w]) /\ Owed(b)' = Done(worker[w]) + 1
    <3>1. Owed(b) = Done(worker[w])
      BY <2>1 DEF Owed
    <3>2. sending'[b].pc = "wait" /\ sending'[b].by = w
      BY <2>3, <2>5
    <3>3. Owed(b)' = Done(r)
      BY <2>6, <3>2 DEF Owed
    <3> QED BY <3>1, <3>3
  <2>8. Done(worker[w]) \in Nat /\ p.uploaded \in Nat /\ p.put \in Nat
    BY <2>2, DoneIsNat DEF PageShape
  <2>9. p.uploaded + Done(worker[w]) <= p.put
        /\ (faults = 0 => p.uploaded + Done(worker[w]) = p.put)
    BY <2>1, <2>7 DEF Counting, Tally
  <2>10. Tally(b)'
    <3> DEFINE up == p.uploaded
    <3> DEFINE dn == Done(worker[w])
    <3> DEFINE pt == p.put
    <3>1. up \in Nat /\ dn \in Nat /\ pt \in Nat /\ up + dn <= pt
          /\ (faults = 0 => up + dn = pt)
      BY <2>8, <2>9
    <3> HIDE DEF up, dn, pt
    <3>2. up + (dn + 1) <= pt + 1 /\ (faults = 0 => up + (dn + 1) = pt + 1)
      BY <3>1
    <3>3. sending'[b].uploaded = up /\ sending'[b].put = pt + 1 /\ Owed(b)' = dn + 1
      BY <2>3, <2>5, <2>7 DEF up, dn, pt
    <3> QED BY <3>2, <3>3 DEF Tally
  <2> HIDE DEF p
  <2>11. \A v \in Workers : worker'[v] = worker[v] \/ worker[v].page \in {b, Nobody}
    BY <2>0, <2>6
  <2> QED BY <1>1, <2>0, <2>4, <2>10, <2>11, PageTally
<1> QED BY <1>2, <1>3

LEMMA PutTally ==
    ASSUME UploadInv, Counting, NEW w \in Workers, PutNext(w)
    PROVE  Counting'
<1> DEFINE o == worker[w]
<1> DEFINE files == o.files
<1> DEFINE i == o.at
<1> DEFINE f == files[i]
<1>1. o.pc = "put" /\ faults' = faults /\ NoNewFault
  BY DEF PutNext, NoNewFault
<1>2. WorkShape(o) /\ i \in 1 .. Len(files) /\ i \in Nat /\ i # 0
  BY <1>1 DEF UploadInv, Fitting, WorkFits, WorkShape
<1>3. Done(o) = i - 1
  BY <1>1 DEF Done
<1> HIDE DEF i
<1>4. CASE f \in card /\ ~o.overwrite
  <2> DEFINE r == [[[o EXCEPT !.pc = "answer"] EXCEPT !.code = "conflict"] EXCEPT !.path = i]
  <2>1. worker' = [worker EXCEPT ![w] = r] /\ sending' = sending
    BY <1>2, <1>4 DEF PutNext, AnswerRequest, WorkShape, i
  <2>2. r.pc = "answer" /\ r.code = "conflict" /\ r.path = i
    BY <1>2 DEF WorkShape
  <2> HIDE DEF r
  <2>3. Done(r) = i - 1
    BY <1>2, <2>2 DEF Done, Told, UploadedBefore
  <2> QED BY <1>1, <1>3, <2>1, <2>3, RequestTally
<1>5. CASE ~(f \in card /\ ~o.overwrite)
  <2>1. /\ sending' = IF o.page = Nobody THEN sending ELSE [sending EXCEPT ![o.page].put = @ + 1]
        /\ IF i = Len(files) THEN AnswerRequest(w, "ok", 0)
           ELSE worker' = [worker EXCEPT ![w].at = i + 1]
    BY <1>5 DEF PutNext, i
  <2>2. CASE i = Len(files)
    <3> DEFINE r == [[[o EXCEPT !.pc = "answer"] EXCEPT !.code = "ok"] EXCEPT !.path = 0]
    <3>1. worker' = [worker EXCEPT ![w] = r]
      BY <1>2, <2>1, <2>2 DEF AnswerRequest, WorkShape
    <3>2. r.pc = "answer" /\ r.code = "ok" /\ r.files = files
      BY <1>2 DEF WorkShape
    <3> HIDE DEF r
    <3>3. Done(r) = Len(files)
      BY <3>2 DEF Done, Told
    <3>4. Done(r) = Done(o) + 1
      BY <1>2, <1>3, <2>2, <3>3
    <3> QED BY <1>1, <2>1, <3>1, <3>4, LandTally
  <2>3. CASE i # Len(files)
    <3> DEFINE r == [o EXCEPT !.at = i + 1]
    <3>1. worker' = [worker EXCEPT ![w] = r]
      BY <2>1, <2>3
    <3>2. r.pc = "put" /\ r.at = i + 1
      BY <1>1, <1>2 DEF WorkShape
    <3> HIDE DEF r
    <3>3. Done(r) = Done(o) + 1
      BY <1>2, <1>3, <3>2 DEF Done
    <3> QED BY <1>1, <2>1, <3>1, <3>3, LandTally
  <2> QED BY <2>2, <2>3
<1> QED BY <1>4, <1>5

LEMMA CountingNext ==
    ASSUME UploadInv, Counting, Unblocked, [RomUploadNext]_romUploadVars
    PROVE  Counting'
<1>1. CASE TakeAway
  <2>1. Fault /\ sending' = sending /\ worker' = worker
    BY <1>1 DEF TakeAway
  <2>2. NoNewFault
    BY <2>1, FaultCounts DEF NoNewFault
  <2> QED BY <2>1, <2>2, TallyKept DEF Counting
<1>2. ASSUME NEW b \in Browsers,
             \/ Choose(b) \/ Preview(b) \/ SendBatch(b) \/ ReceiveAnswer(b) \/ LoseAnswer(b)
             \/ Cancel(b) \/ CloseSummary(b)
      PROVE  Counting'
  BY <1>2, ChooseTally, PreviewTally, SendTally, ReceiveTally, LoseTally, CancelTally
<1>3. ASSUME NEW w \in Workers, Gate(w) \/ PutNext(w) \/ StorageError(w) \/ EndAlone(w)
      PROVE  Counting'
  BY <1>3, GateTally, PutTally, StorageTally, EndTally
<1>4. CASE UNCHANGED romUploadVars
  <2>1. sending' = sending /\ worker' = worker /\ NoNewFault
    BY <1>4 DEF romUploadVars, NoNewFault
  <2> QED BY <2>1, TallyKept DEF Counting
<1> QED BY <1>1, <1>2, <1>3, <1>4 DEF RomUploadNext

\* Plain files stay where they are.
LEMMA UnblockedStays ==
    ASSUME [RomUploadNext]_romUploadVars
    PROVE  Unblocked' <=> Unblocked
<1>1. taken' = taken
  BY DEF RomUploadNext, romUploadVars, TakeAway, Choose, Preview, SendBatch, ReceiveAnswer,
         LoseAnswer, Cancel, CloseSummary, Gate, PutNext, StorageError, EndAlone, OnlyPage
<1> QED BY <1>1 DEF Unblocked, Blocked

TallyInv == Unblocked => Counting

LEMMA TallyInvariance == RomUploadSpec => [](UploadInv /\ TallyInv)
<1>1. RomUploadInit => TallyInv
  <2> SUFFICES ASSUME RomUploadInit, NEW b \in Browsers PROVE Tally(b)
    BY DEF TallyInv, Counting
  <2>1. sending[b].pc = "idle" /\ sending[b].uploaded = 0 /\ sending[b].put = 0
    BY DEF RomUploadInit, NoUpload
  <2> QED BY <2>1 DEF Tally, Owed
<1>2. UploadInv /\ TallyInv /\ [RomUploadNext]_romUploadVars => TallyInv'
  <2> SUFFICES ASSUME UploadInv, TallyInv, [RomUploadNext]_romUploadVars, Unblocked'
               PROVE  Counting'
    BY DEF TallyInv
  <2>1. Unblocked /\ Counting
    BY UnblockedStays DEF TallyInv
  <2> QED BY <2>1, CountingNext
<1> QED BY <1>1, <1>2, InitOK, NextOK, PTL DEF RomUploadSpec

\* "A summary of what actually landed on disk", wherever no plain file is in the
\* way of a folder: an upload that was not cancelled, and all of whose requests
\* were answered, counts the files that landed. The run upload_summary shows what
\* a plain file in the way makes of it.
THEOREM SummaryIsTrueAlways == RomUploadSpec => [](Unblocked => SummaryIsTrue)
<1>1. UploadInv /\ TallyInv => (Unblocked => SummaryIsTrue)
  <2> SUFFICES ASSUME UploadInv, Counting, NEW b \in Browsers, sending[b].pc = "summary", faults = 0
               PROVE  sending[b].uploaded = sending[b].put
    BY DEF TallyInv, SummaryIsTrue
  <2>1. sending[b].uploaded \in Nat /\ Owed(b) = 0
    BY DEF UploadInv, Fitting, PageFits, PageShape, Owed
  <2>2. sending[b].uploaded + Owed(b) = sending[b].put
    BY DEF Counting, Tally
  <2> QED BY <2>1, <2>2
<1> QED BY <1>1, TallyInvariance, PTL

\* Under the same condition no count says more than what landed, at any time and
\* whatever fails: a lost answer, a cancelled upload and an error on the card
\* leave files on the card that nobody counts, never the other way round.
CountsNoMore == \A b \in Browsers : sending[b].uploaded <= sending[b].put

THEOREM CountsNoMoreAlways == RomUploadSpec => [](Unblocked => CountsNoMore)
<1>1. UploadInv /\ TallyInv => (Unblocked => CountsNoMore)
  <2> SUFFICES ASSUME UploadInv, Counting, NEW b \in Browsers
               PROVE  sending[b].uploaded <= sending[b].put
    BY DEF TallyInv, CountsNoMore
  <2>1. sending[b].uploaded \in Nat /\ sending[b].put \in Nat
    BY DEF UploadInv, Fitting, PageFits, PageShape
  <2>2. Owed(b) \in Nat
    BY WaitsFor, DoneIsNat DEF Owed
  <2>3. sending[b].uploaded + Owed(b) <= sending[b].put
    BY DEF Counting, Tally
  <2> DEFINE owed == Owed(b)
  <2>4. owed \in Nat /\ sending[b].uploaded + owed <= sending[b].put
    BY <2>2, <2>3
  <2> HIDE DEF owed
  <2> QED BY <2>1, <2>4
<1> QED BY <1>1, TallyInvariance, PTL
=============================================================================
