------------------------- MODULE TrustServerProofs -------------------------
(***************************************************************************)
(* What TLAPS proves of TrustServer, for any number of workers, browsers   *)
(* and ticks: its type, the single use of codes, that what a revocation    *)
(* reported gone or a check turned down stays out, that what memory trusts *)
(* is on disk, how many guesses a span of time allows, and that the store  *)
(* keeps within its rows.                                                  *)
(***************************************************************************)
EXTENDS TrustServer, FiniteSetTheorems, TLAPS

-----------------------------------------------------------------------------
(* The operators of TrustStore have their types. *)

LEMMA FlushType ==
    ASSUME NEW T \in Trust, NEW now \in Nat, NEW force \in BOOLEAN, NEW ok \in BOOLEAN
    PROVE  Flush(T, now, force, ok) \in Trust
  BY DEF Flush, Trust

LEMMA CommitType ==
    ASSUME NEW T \in Trust, NEW now \in Nat, NEW store \in SUBSET Item, NEW ok \in BOOLEAN
    PROVE  /\ Commit(T, store, now, ok) \in Trust
           /\ CommitRemoval(T, store, now, ok) \in Trust
  BY DEF Commit, CommitRemoval, Trust

LEMMA RemoveInactiveType ==
    ASSUME NEW T \in Trust, NEW now \in Nat
    PROVE  RemoveInactive(T, now) \in Trust
  BY DEF RemoveInactive, Trust

LEMMA SweepType ==
    ASSUME NEW T \in Trust, NEW now \in Nat, NEW ok \in BOOLEAN
    PROVE  Sweep(T, now, ok) \in Trust
  BY RemoveInactiveType, FlushType DEF Sweep

LEMMA PruneType ==
    ASSUME NEW T \in Trust, NEW now \in Nat, NEW ok \in BOOLEAN
    PROVE  Prune(T, now, ok) \in Trust
<1>1. [T EXCEPT !.prunedAt = now] \in Trust
  BY DEF Trust
<1>2. QED
  BY <1>1, SweepType DEF Prune

LEMMA LoadType ==
    ASSUME NEW T \in Trust, NEW now \in Nat, NEW ok \in BOOLEAN
    PROVE  Load(T, now, ok) \in Trust
<1>1. [Unloaded(T.file) EXCEPT !.mem = T.file] \in Trust
  BY DEF Trust, Unloaded
<1>2. QED
  BY <1>1, SweepType DEF Load

LEMMA TouchType ==
    ASSUME NEW T \in Trust, NEW token \in Nat, NEW now \in Nat, NEW ok \in BOOLEAN
    PROVE  Touch(T, token, now, ok) \in Trust
<1> DEFINE due == {i \in Matches(T, token, now) :
                       ~(i.seen > 0 /\ now - i.seen < TouchInterval)}
           touched == [T EXCEPT !.mem = (T.mem \ due) \cup {[i EXCEPT !.seen = now] : i \in due},
                                !.dirty = TRUE]
<1>1. due \subseteq Item
  BY DEF Matches, Trust
<1>2. {[i EXCEPT !.seen = now] : i \in due} \subseteq Item
  BY <1>1 DEF Item
<1>3. touched \in Trust
  BY <1>2 DEF Trust
<1>4. QED
  BY <1>3, FlushType DEF Touch

LEMMA AddType ==
    ASSUME NEW store \in SUBSET Item, NEW b \in Browsers, NEW token \in Nat, NEW now \in Nat,
           NEW next \in AddResults(store, b, token, now)
    PROVE  next \in SUBSET Item
<1>1. NewItem(b, token, now) \in Item
  BY StoreAssumption DEF NewItem, Item
<1>2. QED
  BY <1>1 DEF AddResults, Oldest

LEMMA ReadingsType ==
    ASSUME clock \in Nat \ {0}, NEW now \in Readings
    PROVE  now \in Nat /\ now >= 1 /\ now <= clock
  BY DEF Readings

-----------------------------------------------------------------------------
(* Type correctness *)

PinState == [issue: Nat, failures: Nat, until: Nat]
QrState  == [issue: Nat, expires: Nat, failures: Nat, until: Nat]

LEMMA ThreadTypes ==
    /\ Idle \in ThreadState
    /\ Paired \in ThreadState
    /\ \A b \in Browsers, n \in Nat : Pairing(b, n) \in ThreadState
    /\ \A token \in Nat : Revoking(token) \in ThreadState
  BY DEF Idle, Paired, Pairing, Revoking, ThreadState

LEMMA ValueTypes ==
    /\ NoPin \in PinState
    /\ NoQr \in QrState /\ ClearedQr \in QrState
    /\ \A n \in Nat : FreshPin(n) \in PinState
    /\ \A file \in SUBSET Item : Unloaded(file) \in Trust
  BY DEF NoPin, PinState, NoQr, QrState, ClearedQr, FreshPin, Unloaded, Trust

LEMMA FailedType ==
    ASSUME NEW now \in Nat
    PROVE  /\ \A p \in PinState : Failed(p, now) \in PinState
           /\ \A q \in QrState : Failed(q, now) \in QrState
<1>1. now + Lockout \in Nat
  BY ServerAssumption
<1>2. ASSUME NEW p \in PinState PROVE Failed(p, now) \in PinState
  <2>1. p.failures + 1 \in Nat /\ p.until \in Nat
    BY DEF PinState
  <2>2. (IF p.failures + 1 >= MaxFailures THEN now + Lockout ELSE p.until) \in Nat
    BY <1>1, <2>1
  <2>3. QED
    BY <2>1, <2>2 DEF Failed, PinState
<1>3. ASSUME NEW q \in QrState PROVE Failed(q, now) \in QrState
  <2>1. q.failures + 1 \in Nat /\ q.until \in Nat
    BY DEF QrState
  <2>2. (IF q.failures + 1 >= MaxFailures THEN now + Lockout ELSE q.until) \in Nat
    BY <1>1, <2>1
  <2>3. QED
    BY <2>1, <2>2 DEF Failed, QrState
<1>4. QED
  BY <1>2, <1>3

LEMMA IssuePinType ==
    ASSUME issued \in Nat, IssuePin
    PROVE  issued' \in Nat /\ pin' \in PinState
<1>1. issued + 1 \in Nat
  OBVIOUS
<1>2. QED
  BY <1>1, ValueTypes DEF IssuePin

\* What the cookie check of every protected route leaves has its type.
LEMMA CheckCookieType ==
    ASSUME TypeOK, NEW token \in Nat, NEW now \in Readings, NEW okPrune \in BOOLEAN,
           NEW okTouch \in BOOLEAN, NEW accepted \in BOOLEAN,
           CheckCookie(token, now, okPrune, okTouch, accepted)
    PROVE  trust' \in Trust /\ refused' \subseteq Nat
<1>1. now \in Nat
  BY ReadingsType DEF TypeOK
<1>2. Prune(trust, now, okPrune) \in Trust
  BY <1>1, PruneType DEF TypeOK
<1>3. trust' \in Trust
  BY <1>1, <1>2, TouchType DEF CheckCookie
<1>4. refused' \subseteq Nat
  BY DEF CheckCookie, TypeOK
<1>5. QED
  BY <1>3, <1>4

LEMMA InitType == Init => TypeOK
<1> SUFFICES ASSUME Init PROVE TypeOK
  OBVIOUS
<1>1. trust \in Trust
  BY ValueTypes DEF Init
<1>2. thr \in [Threads -> ThreadState]
  BY ThreadTypes DEF Init
<1>3. pin \in PinState /\ qr \in QrState
  BY ValueTypes DEF Init
<1>4. clock \in Nat \ {0}
  BY DEF Init
<1>5. up \in BOOLEAN /\ daemonized \in BOOLEAN
  BY Zenon DEF Init
<1>6. issued \in Nat /\ minted \in Nat
  BY DEF Init
<1>7. admitted \subseteq [issue: Nat, token: Nat] /\ revoked \subseteq Nat /\ refused \subseteq Nat
  BY DEF Init
<1>8. QED
  BY <1>1, <1>2, <1>3, <1>4, <1>5, <1>6, <1>7 DEF TypeOK, PinState, QrState

LEMMA NextType == TypeOK /\ [Next]_vars => TypeOK'
<1> SUFFICES ASSUME TypeOK, [Next]_vars PROVE TypeOK'
  OBVIOUS
<1> USE DEF history
<1>0. /\ trust \in Trust
      /\ pin \in PinState
      /\ qr \in QrState
      /\ thr \in [Threads -> ThreadState]
      /\ clock \in Nat
      /\ issued \in Nat
      /\ minted \in Nat
  BY DEF TypeOK, PinState, QrState
<1>1. CASE Start
  <2>1. trust' \in Trust
    BY <1>0, <1>1, LoadType DEF Start
  <2>2. pin' \in PinState /\ issued' \in Nat
    BY <1>0, <1>1, IssuePinType DEF Start
  <2>3. qr' \in QrState
    BY <1>0, <1>1, ValueTypes DEF Start
  <2>4. QED
    BY <1>1, <2>1, <2>2, <2>3 DEF Start, TypeOK, PinState, QrState
<1>2. CASE Stop
  <2>1. trust' \in Trust
    BY <1>0, <1>2, FlushType DEF Stop
  <2>2. qr' \in QrState
    BY <1>0, <1>2 DEF Stop, ClearedToken, QrState
  <2>3. QED
    BY <1>2, <2>1, <2>2 DEF Stop, TypeOK, QrState
<1>3. CASE Die
  <2>1. trust' \in Trust
    BY <1>0, <1>3, ValueTypes DEF Die, Trust
  <2>2. pin' \in PinState /\ qr' \in QrState /\ thr' \in [Threads -> ThreadState]
    BY <1>3, ValueTypes, ThreadTypes DEF Die
  <2>3. QED
    BY <1>3, <2>1, <2>2 DEF Die, TypeOK, PinState, QrState
<1>4. CASE Tick
  BY <1>4 DEF Tick, TypeOK
<1>5. CASE CountTrusted
  <2>1. trust' \in Trust
    BY <1>0, <1>5, PruneType, ReadingsType DEF CountTrusted, TypeOK
  <2>2. QED
    BY <1>5, <2>1 DEF CountTrusted, TypeOK
<1>6. CASE IssueQr
  BY <1>6, ServerAssumption DEF IssueQr, TypeOK
<1>7. CASE PollQr
  <2>1. qr' \in QrState
    BY <1>0, <1>7, ValueTypes DEF PollQr
  <2>2. QED
    BY <1>7, <2>1 DEF PollQr, TypeOK, QrState
<1>8. CASE RevokeAll
  <2>1. trust' \in Trust
    BY <1>0, <1>8, CommitType DEF RevokeAll
  <2>2. pin' \in PinState /\ issued' \in Nat /\ qr' \in QrState
    BY <1>0, <1>8, IssuePinType, ValueTypes DEF RevokeAll
  <2>3. TokensOf(trust.mem) \subseteq Nat /\ TokensOf(trust.file) \subseteq Nat
    BY <1>0 DEF Trust, TokensOf, Item
  <2>4. revoked' \subseteq Nat
    BY <1>8, <2>3 DEF RevokeAll, TypeOK
  <2>5. QED
    BY <1>8, <2>1, <2>2, <2>4 DEF RevokeAll, TypeOK, PinState, QrState
<1>9. CASE \E token \in 1..minted : Authorize(token)
  <2>1. PICK token \in 1..minted : Authorize(token)
    BY <1>9
  <2>2. trust' \in Trust /\ refused' \subseteq Nat
    BY <2>1, CheckCookieType, <1>0 DEF Authorize
  <2>3. QED
    BY <2>1, <2>2 DEF Authorize, TypeOK
<1>10. CASE \E t \in Threads : Request(t)
  <2> PICK t \in Threads : Request(t)
    BY <1>10
  <2>1. ASSUME NEW b \in Browsers, PairByCode(t, b) PROVE TypeOK'
    <3>1. pin' \in PinState /\ issued' \in Nat
      BY <1>0, <2>1, IssuePinType, FailedType, ReadingsType DEF PairByCode, TypeOK
    <3>2. thr' \in [Threads -> ThreadState]
      BY <1>0, <2>1, ThreadTypes DEF PairByCode, PinState
    <3>3. QED
      BY <2>1, <3>1, <3>2 DEF PairByCode, TypeOK, PinState
  <2>2. ASSUME NEW b \in Browsers, PairByQr(t, b) PROVE TypeOK'
    <3>1. pin' \in PinState /\ issued' \in Nat
      BY <1>0, <2>2, IssuePinType DEF PairByQr
    <3>2. thr' \in [Threads -> ThreadState]
      BY <1>0, <2>2, ThreadTypes DEF PairByQr, QrState
    <3>3. qr' \in QrState
      BY <1>0, <2>2, ValueTypes, FailedType, ReadingsType DEF PairByQr, TypeOK
    <3>4. QED
      BY <2>2, <3>1, <3>2, <3>3 DEF PairByQr, TypeOK, PinState, QrState
  <2>3. CASE TrustBrowser(t)
    <3>1. PICK now \in Readings, okPrune \in BOOLEAN, okCommit \in BOOLEAN :
            \E next \in AddResults(Prune(trust, now, okPrune).mem, thr[t].browser, minted + 1, clock) :
                trust' = Commit(Prune(trust, now, okPrune), next, now, okCommit)
      BY <2>3 DEF TrustBrowser
    <3>2. now \in Nat
      BY ReadingsType DEF TypeOK
    <3>3. Prune(trust, now, okPrune) \in Trust
      BY <1>0, <3>2, PruneType
    <3>4. trust' \in Trust
      <4>1. thr[t].browser \in Browsers
        BY <1>0, <2>3 DEF ThreadState, TrustBrowser
      <4>2. PICK next \in AddResults(Prune(trust, now, okPrune).mem, thr[t].browser, minted + 1, clock) :
                trust' = Commit(Prune(trust, now, okPrune), next, now, okCommit)
        BY <3>1
      <4>3. Prune(trust, now, okPrune).mem \in SUBSET Item
        BY <3>3 DEF Trust
      <4>4. next \in SUBSET Item
        BY <1>0, <4>1, <4>3, AddType
      <4>5. QED
        BY <3>2, <3>3, <4>2, <4>4, CommitType
    <3>5. thr' \in [Threads -> ThreadState]
      BY <1>0, <2>3, ThreadTypes DEF TrustBrowser
    <3>6. qr' \in QrState /\ minted' \in Nat
      BY <1>0, <2>3, ValueTypes DEF TrustBrowser
    <3>7. admitted' \subseteq [issue: Nat, token: Nat]
      BY <1>0, <2>3 DEF TrustBrowser, TypeOK, ThreadState
    <3>8. QED
      BY <2>3, <3>4, <3>5, <3>6, <3>7 DEF TrustBrowser, TypeOK, QrState
  <2>4. CASE ReplyPaired(t)
    <3>1. trust' \in Trust
      BY <1>0, <2>4, PruneType, ReadingsType DEF ReplyPaired, TypeOK
    <3>2. thr' \in [Threads -> ThreadState]
      BY <1>0, <2>4, ThreadTypes DEF ReplyPaired
    <3>3. QED
      BY <2>4, <3>1, <3>2 DEF ReplyPaired, TypeOK
  <2>5. ASSUME NEW token \in 1..minted, RevokeRequest(t, token) PROVE TypeOK'
    <3>1. trust' \in Trust /\ refused' \subseteq Nat
      BY <2>5, CheckCookieType, <1>0 DEF RevokeRequest
    <3>2. thr' \in [Threads -> ThreadState]
      BY <1>0, <2>5, ThreadTypes DEF RevokeRequest
    <3>3. QED
      BY <2>5, <3>1, <3>2 DEF RevokeRequest, TypeOK
  <2>6. CASE RevokeToken(t)
    <3>1. PICK okPrune \in BOOLEAN, okCommit \in BOOLEAN :
            LET pruned == Prune(trust, clock, okPrune)
                next   == RemoveToken(pruned.mem, thr[t].token) IN
            IF next = pruned.mem
            THEN /\ trust' = pruned
                 /\ revoked' = revoked \cup {thr[t].token}
            ELSE /\ trust' = CommitRemoval(pruned, next, clock, okCommit)
                 /\ revoked' = IF okCommit THEN revoked \cup {thr[t].token} ELSE revoked
      BY <2>6 DEF RevokeToken
    <3>2. Prune(trust, clock, okPrune) \in Trust
      BY <1>0, PruneType
    <3>3. RemoveToken(Prune(trust, clock, okPrune).mem, thr[t].token) \in SUBSET Item
      BY <3>2 DEF RemoveToken, Trust
    <3>4. trust' \in Trust
      BY <1>0, <3>1, <3>2, <3>3, CommitType
    <3>5. revoked' \subseteq Nat
      <4>1. thr[t].token \in Nat
        BY <1>0 DEF ThreadState
      <4>2. QED
        BY <3>1, <4>1 DEF TypeOK
    <3>6. thr' \in [Threads -> ThreadState]
      BY <1>0, <2>6, ThreadTypes DEF RevokeToken
    <3>7. QED
      BY <2>6, <3>4, <3>5, <3>6 DEF RevokeToken, TypeOK
  <2>7. QED
    BY <2>1, <2>2, <2>3, <2>4, <2>5, <2>6 DEF Request
<1>11. CASE UNCHANGED vars
  BY <1>11 DEF vars, TypeOK
<1>12. QED
  BY <1>1, <1>2, <1>3, <1>4, <1>5, <1>6, <1>7, <1>8, <1>9, <1>10, <1>11 DEF Next

\* Every variable keeps its type, for any number of workers and browsers and
\* whatever the intervals and bounds are.
THEOREM TypeCorrect == Spec => []TypeOK
<1>1. Init => TypeOK
  BY InitType
<1>2. TypeOK /\ [Next]_vars => TypeOK'
  BY NextType
<1>3. QED
  BY <1>1, <1>2, PTL DEF Spec

-----------------------------------------------------------------------------
(* Single use *)

LEMMA InitIssues == Init => IssueInv
  BY DEF Init, IssueInv, SingleUse, Holds, Idle, NoPin, NoQr

\* While no worker takes an issue, a change of the live ones is harmless if
\* each is cleared, kept, or numbered after everything issued before.
LEMMA LiveIssues ==
    ASSUME TypeOK, TypeOK', IssueInv,
           admitted' = admitted,
           \A t \in Threads : Holds(t)' => thr'[t] = thr[t],
           issued' >= issued,
           \/ pin'.issue = pin.issue
           \/ pin'.issue = issued' /\ issued' > issued
           \/ pin'.issue = 0,
           \/ qr'.issue = qr.issue /\ pin'.issue = pin.issue
           \/ qr'.issue = issued' /\ issued' > issued /\ pin'.issue = pin.issue
           \/ qr'.issue = 0,
           up' => pin'.issue # 0
    PROVE  IssueInv'
<1>1. issued \in Nat /\ issued' \in Nat /\ pin.issue \in Nat /\ pin'.issue \in Nat
      /\ qr.issue \in Nat /\ qr'.issue \in Nat
  BY DEF TypeOK
<1>2. pin'.issue <= issued' /\ qr'.issue <= issued' /\ (pin'.issue # 0 => pin'.issue # qr'.issue)
  BY <1>1 DEF IssueInv
<1>3. \A n \in Nat : Spent(n) => Spent(n)'
  BY <1>1 DEF Spent, IssueInv
<1>4. \A t \in Threads : Holds(t)' => Spent(thr[t].issue)'
  <2> SUFFICES ASSUME NEW t \in Threads, Holds(t)' PROVE Spent(thr[t].issue)'
    OBVIOUS
  <2>1. thr'[t] = thr[t] /\ Holds(t)
    BY DEF Holds
  <2>2. thr[t].issue \in Nat /\ Spent(thr[t].issue)
    BY <2>1 DEF TypeOK, ThreadState, IssueInv
  <2>3. thr'[t].issue = thr[t].issue
    BY <2>1
  <2>4. QED
    BY <2>2, <2>3, <1>3 DEF Spent
<1>5. \A a \in admitted' : Spent(a.issue)'
  BY <1>3 DEF IssueInv, TypeOK, Spent
<1>6. \A t \in Threads : Holds(t)' => Holds(t) /\ thr'[t].issue = thr[t].issue
  BY DEF Holds
<1>7. \A t, u \in Threads : Holds(t)' /\ Holds(u)' /\ thr'[t].issue = thr'[u].issue => t = u
  BY <1>6 DEF IssueInv
<1>8. \A t \in Threads, a \in admitted' : Holds(t)' => thr'[t].issue # a.issue
  BY <1>6 DEF IssueInv
<1>9. SingleUse'
  BY DEF IssueInv, SingleUse
<1>10. QED
  BY <1>2, <1>4, <1>5, <1>7, <1>8, <1>9 DEF IssueInv

\* A right code or QR token: the worker takes the live issue as it stops being one.
LEMMA TakenIssue ==
    ASSUME TypeOK, TypeOK', IssueInv, up,
           NEW t \in Threads, NEW b \in Browsers, NEW n \in {pin.issue, qr.issue}, n # 0,
           thr' = [thr EXCEPT ![t] = Pairing(b, n)],
           admitted' = admitted,
           issued' = issued + 1,
           pin'.issue = issued',
           qr'.issue \in {0, qr.issue} \ {n}
    PROVE  IssueInv'
<1>1. issued \in Nat /\ pin.issue \in Nat /\ qr.issue \in Nat /\ n \in Nat
  BY DEF TypeOK
<1>2. pin'.issue <= issued' /\ qr'.issue <= issued' /\ pin'.issue # 0 /\ pin'.issue # qr'.issue
  BY <1>1 DEF IssueInv
<1>3. \A m \in Nat : Spent(m) => Spent(m)' /\ m # n
  BY <1>1, <1>2 DEF Spent, IssueInv
<1>4. Spent(n)'
  BY <1>1, <1>2 DEF Spent, IssueInv
<1>5. /\ thr'[t].issue = n
      /\ \A u \in Threads \ {t} : thr'[u] = thr[u]
  BY DEF Pairing, TypeOK
<1>6. \A u \in Threads \ {t} : Holds(u)' => Holds(u) /\ thr'[u].issue = thr[u].issue
                                          /\ thr[u].issue \in Nat /\ Spent(thr[u].issue)
  BY <1>5 DEF Holds, IssueInv, TypeOK, ThreadState
<1>7. \A u \in Threads : Holds(u)' => Spent(thr[u].issue)'
  BY <1>3, <1>4, <1>5, <1>6 DEF Spent
<1>8. \A a \in admitted : a.issue \in Nat /\ Spent(a.issue) /\ a.issue # n
  BY <1>3 DEF IssueInv, TypeOK
<1>9. \A a \in admitted' : Spent(a.issue)'
  BY <1>3, <1>8 DEF Spent
<1>10. \A u, v \in Threads : Holds(u)' /\ Holds(v)' /\ thr'[u].issue = thr'[v].issue => u = v
  BY <1>3, <1>5, <1>6 DEF IssueInv
<1>11. \A u \in Threads, a \in admitted' : Holds(u)' => thr'[u].issue # a.issue
  BY <1>5, <1>6, <1>8 DEF IssueInv
<1>12. SingleUse'
  BY DEF IssueInv, SingleUse
<1>13. QED
  BY <1>2, <1>7, <1>9, <1>10, <1>11, <1>12 DEF IssueInv

\* A wrong answer changes neither what is shown nor, for a QR token, its life.
LEMMA FailedKeeps ==
    /\ \A p \in PinState : \A now : Failed(p, now).issue = p.issue
    /\ \A q \in QrState : \A now : Failed(q, now).issue = q.issue
  BY DEF Failed, PinState, QrState

LEMMA NextIssues == TypeOK /\ TypeOK' /\ IssueInv /\ [Next]_vars => IssueInv'
<1> SUFFICES ASSUME TypeOK, TypeOK', IssueInv, [Next]_vars PROVE IssueInv'
  OBVIOUS
<1> USE DEF history
<1>0. issued \in Nat /\ \A t \in Threads : thr[t] \in ThreadState
  BY DEF TypeOK
<1>00. \A t \in Threads : (thr' = [thr EXCEPT ![t] = Idle] \/ thr' = [thr EXCEPT ![t] = Paired]
                            \/ \E k \in Nat : thr' = [thr EXCEPT ![t] = Revoking(k)])
                          => \A u \in Threads : Holds(u)' => thr'[u] = thr[u] /\ u # t
  BY DEF Holds, Idle, Paired, Revoking, TypeOK
<1>1. CASE Start
  BY <1>0, <1>1, LiveIssues DEF Start, IssuePin, FreshPin, ClearedQr, NoQr
<1>2. CASE Stop
  <2>1. qr'.issue = 0
    BY <1>2 DEF Stop, ClearedToken, TypeOK
  <2>2. QED
    BY <1>0, <1>2, <2>1, LiveIssues DEF Stop
<1>3. CASE Die
  <2>1. \A t \in Threads : ~Holds(t)'
    BY <1>3 DEF Die, Holds, Idle
  <2>2. QED
    BY <1>0, <1>3, <2>1, LiveIssues DEF Die, NoPin, NoQr
<1>4. CASE Tick
  BY <1>0, <1>4, LiveIssues DEF Tick, IssueInv
<1>5. CASE CountTrusted
  BY <1>0, <1>5, LiveIssues DEF CountTrusted, IssueInv
<1>6. CASE IssueQr
  BY <1>0, <1>6, LiveIssues DEF IssueQr, IssueInv
<1>7. CASE PollQr
  BY <1>0, <1>7, LiveIssues DEF PollQr, ClearedQr, NoQr, IssueInv
<1>8. CASE RevokeAll
  BY <1>0, <1>8, LiveIssues DEF RevokeAll, IssuePin, FreshPin, ClearedQr, NoQr
<1>9. CASE \E token \in 1..minted : Authorize(token)
  BY <1>0, <1>9, LiveIssues DEF Authorize, IssueInv
<1>10. CASE \E t \in Threads : Request(t)
  <2> PICK t \in Threads : Request(t)
    BY <1>10
  <2>1. ASSUME NEW b \in Browsers, PairByCode(t, b) PROVE IssueInv'
    <3>1. CASE (\E now \in Readings : pin' = Failed(pin, now)) /\ UNCHANGED <<thr, issued>>
      <4>1. pin'.issue = pin.issue
        BY <3>1, FailedKeeps DEF TypeOK, PinState
      <4>2. QED
        BY <1>0, <2>1, <3>1, <4>1, LiveIssues DEF PairByCode, IssueInv
    <3>2. CASE IssuePin /\ thr' = [thr EXCEPT ![t] = Pairing(b, pin.issue)]
      BY <1>0, <2>1, <3>2, TakenIssue DEF PairByCode, IssuePin, FreshPin, IssueInv
    <3>3. QED
      BY <2>1, <3>1, <3>2 DEF PairByCode
  <2>2. ASSUME NEW b \in Browsers, PairByQr(t, b) PROVE IssueInv'
    <3>1. CASE UNCHANGED <<pin, thr, issued>>
      <4>1. qr' = ClearedQr \/ \E now \in Readings : qr' = Failed(qr, now)
        BY <2>2 DEF PairByQr
      <4>2. qr'.issue \in {0, qr.issue}
        BY <4>1, FailedKeeps DEF ClearedQr, NoQr, TypeOK, QrState
      <4>3. QED
        BY <1>0, <2>2, <3>1, <4>2, LiveIssues DEF PairByQr, IssueInv
    <3>2. CASE /\ IssuePin
               /\ qr' = ClearedQr
               /\ thr' = [thr EXCEPT ![t] = Pairing(b, qr.issue)]
      BY <1>0, <2>2, <3>2, TakenIssue DEF PairByQr, IssuePin, FreshPin, ClearedQr, NoQr
    <3>3. QED
      BY <2>2, <3>1, <3>2 DEF PairByQr
  <2>3. CASE TrustBrowser(t)
    <3>1. CASE qr' = ClearedQr /\ thr' = [thr EXCEPT ![t] = Paired]
               /\ admitted' = admitted \cup {[issue |-> thr[t].issue, token |-> minted + 1]}
      <4>1. Holds(t) /\ Spent(thr[t].issue) /\ thr[t].issue \in Nat
        BY <2>3, <1>0 DEF TrustBrowser, Holds, IssueInv, ThreadState
      <4>2. pin' = pin /\ issued' = issued /\ up' = up /\ qr'.issue = 0
        BY <2>3, <3>1 DEF TrustBrowser, ClearedQr, NoQr
      <4>3. \A n \in Nat : Spent(n) => Spent(n)'
        BY <4>2, <1>0 DEF Spent
      <4>4. \A u \in Threads : Holds(u)' => Holds(u) /\ u # t /\ thr'[u] = thr[u]
        BY <1>00, <3>1 DEF Holds
      <4>5. \A u \in Threads : Holds(u)' => Spent(thr[u].issue)'
        BY <4>3, <4>4, <1>0 DEF IssueInv, ThreadState, Spent
      <4>6. \A a \in admitted : a.issue # thr[t].issue /\ a.issue \in Nat /\ Spent(a.issue)
        BY <4>1 DEF IssueInv, TypeOK
      <4>7. \A a \in admitted' : Spent(a.issue)'
        BY <3>1, <4>1, <4>3, <4>6 DEF Spent
      <4>8. SingleUse'
        BY <3>1, <4>6 DEF IssueInv, SingleUse
      <4>9. \A u \in Threads, a \in admitted' : Holds(u)' => thr'[u].issue # a.issue
        BY <3>1, <4>1, <4>4 DEF IssueInv
      <4>10. \A u, v \in Threads : Holds(u)' /\ Holds(v)' /\ thr'[u].issue = thr'[v].issue => u = v
        BY <4>4 DEF IssueInv
      <4>11. pin'.issue <= issued' /\ qr'.issue <= issued' /\ (pin'.issue # 0 => pin'.issue # qr'.issue)
             /\ (up' => pin'.issue # 0)
        BY <1>0, <4>2 DEF IssueInv
      <4>12. QED
        BY <4>5, <4>7, <4>8, <4>9, <4>10, <4>11 DEF IssueInv
    <3>2. CASE thr' = [thr EXCEPT ![t] = Idle] /\ UNCHANGED <<qr, minted, admitted>>
      <4>1. \A u \in Threads : Holds(u)' => thr'[u] = thr[u]
        BY <1>00, <3>2
      <4>2. QED
        BY <1>0, <2>3, <3>2, <4>1, LiveIssues DEF TrustBrowser, IssueInv
    <3>3. QED
      BY <2>3, <3>1, <3>2 DEF TrustBrowser
  <2>4. CASE ReplyPaired(t)
    <3>1. \A u \in Threads : Holds(u)' => thr'[u] = thr[u]
      BY <1>00, <2>4 DEF ReplyPaired
    <3>2. QED
      BY <1>0, <2>4, <3>1, LiveIssues DEF ReplyPaired, IssueInv
  <2>5. ASSUME NEW token \in 1..minted, RevokeRequest(t, token) PROVE IssueInv'
    <3>1. thr' = thr \/ thr' = [thr EXCEPT ![t] = Revoking(token)]
      BY <2>5 DEF RevokeRequest
    <3>2. token \in Nat
      BY DEF TypeOK
    <3>3. \A u \in Threads : Holds(u)' => thr'[u] = thr[u]
      BY <1>00, <3>1, <3>2
    <3>4. QED
      BY <1>0, <2>5, <3>3, LiveIssues DEF RevokeRequest, IssueInv
  <2>6. CASE RevokeToken(t)
    <3>1. \A u \in Threads : Holds(u)' => thr'[u] = thr[u]
      BY <1>00, <2>6 DEF RevokeToken
    <3>2. QED
      BY <1>0, <2>6, <3>1, LiveIssues DEF RevokeToken, IssueInv
  <2>7. QED
    BY <2>1, <2>2, <2>3, <2>4, <2>5, <2>6 DEF Request
<1>11. CASE UNCHANGED vars
  BY <1>0, <1>11, LiveIssues DEF vars, IssueInv
<1>12. QED
  BY <1>1, <1>2, <1>3, <1>4, <1>5, <1>6, <1>7, <1>8, <1>9, <1>10, <1>11 DEF Next

\* A pairing code or QR token admits at most one token, however the two locked
\* sections of the pair handlers interleave with each other, with new codes and
\* QR tokens, with revocations, and with crashes.
THEOREM SingleUseAlways == Spec => []SingleUse
<1>1. Init => TypeOK /\ IssueInv
  BY InitType, InitIssues
<1>2. TypeOK /\ IssueInv /\ [Next]_vars => TypeOK' /\ IssueInv'
  BY NextType, NextIssues
<1>3. IssueInv => SingleUse
  BY DEF IssueInv
<1>4. QED
  BY <1>1, <1>2, <1>3, PTL DEF Spec

-----------------------------------------------------------------------------
(* Memory and file: what every operation on the store keeps *)

\* Memory is on disk, and the file has no active grant that memory lacks.
Sound(T, clk) ==
    /\ \A i \in T.mem \cup T.file : i.seen >= 1
    /\ \A i \in T.mem : \E j \in T.file : Covers(i, j)
    /\ \A j \in T.file : Active(j, clk) => \E i \in T.mem : Covers(i, j)

\* U grants nothing T did not, in memory or in what it newly puts in the file.
Grants(T, U) ==
    /\ TokensOf(U.mem) \subseteq TokensOf(T.mem)
    /\ \A j \in U.file : j \in T.file \/ j.token \in TokensOf(T.mem)

LEMMA SameIsSound ==
    ASSUME NEW T \in Trust, NEW clk, T.file = T.mem, \A i \in T.mem : i.seen >= 1
    PROVE  Sound(T, clk)
<1>1. \A i \in T.mem : Covers(i, i)
  BY DEF Covers, Trust, Item
<1>2. QED
  BY <1>1 DEF Sound

LEMMA ActiveBackwards ==
    ASSUME NEW i \in Item, i.seen >= 1, NEW now \in Nat, NEW clk \in Nat, now <= clk, Active(i, clk)
    PROVE  Active(i, now)
  BY StoreAssumption DEF Active, Item

\* An older copy of an inactive grant is inactive too.
LEMMA CoveredInactive ==
    ASSUME NEW i \in Item, NEW j \in Item, NEW now \in Nat, j.seen >= 1, Covers(i, j), Active(j, now)
    PROVE  Active(i, now)
  BY StoreAssumption DEF Active, Covers, Item

LEMMA CoversTransitive ==
    ASSUME NEW i \in Item, NEW j \in Item, NEW k \in Item, Covers(i, j), Covers(j, k)
    PROVE  Covers(i, k)
  BY DEF Covers, Item

LEMMA FlushKeeps ==
    ASSUME NEW T \in Trust, NEW now, NEW force, NEW ok
    PROVE  /\ Flush(T, now, force, ok).mem = T.mem
           /\ Flush(T, now, force, ok).file \in {T.file, T.mem}
BY DEF Flush, Trust

LEMMA FlushSound ==
    ASSUME NEW T \in Trust, NEW clk \in Nat, NEW now \in Nat, NEW force \in BOOLEAN,
           NEW ok \in BOOLEAN, Sound(T, clk)
    PROVE  /\ Sound(Flush(T, now, force, ok), clk)
           /\ Grants(T, Flush(T, now, force, ok))
           /\ Flush(T, now, force, ok).mem = T.mem
           /\ Flush(T, now, force, ok).file \in {T.file, T.mem}
<1> DEFINE U == Flush(T, now, force, ok)
<1>1. U \in Trust
  BY FlushType
<1>2. U.mem = T.mem /\ (U.file = T.file \/ U.file = T.mem)
  BY FlushKeeps
<1>3. Sound(U, clk)
  <2>1. CASE U.file = T.file
    BY <1>2, <2>1 DEF Sound
  <2>2. CASE U.file = T.mem
    BY <1>1, <1>2, <2>2, SameIsSound DEF Sound
  <2>3. QED
    BY <1>2, <2>1, <2>2
<1>4. QED
  BY <1>2, <1>3 DEF Grants, TokensOf

LEMMA RemoveInactiveSound ==
    ASSUME NEW T \in Trust, NEW clk \in Nat, NEW now \in Nat, now <= clk, Sound(T, clk)
    PROVE  /\ Sound(RemoveInactive(T, now), clk)
           /\ RemoveInactive(T, now).mem = {i \in T.mem : Active(i, now)}
           /\ RemoveInactive(T, now).file = T.file
<1> DEFINE U == RemoveInactive(T, now)
<1>1. U.mem = {i \in T.mem : Active(i, now)} /\ U.file = T.file
  BY DEF RemoveInactive, Trust
<1>2. ASSUME NEW j \in T.file, Active(j, clk) PROVE \E i \in U.mem : Covers(i, j)
  <2>1. PICK i \in T.mem : Covers(i, j)
    BY <1>2 DEF Sound
  <2>2. i \in Item /\ j \in Item /\ i.seen >= 1 /\ j.seen >= 1
    BY DEF Trust, Sound
  <2>3. Active(i, clk)
    BY <1>2, <2>1, <2>2, CoveredInactive
  <2>4. Active(i, now)
    BY <2>2, <2>3, ActiveBackwards
  <2>5. QED
    BY <1>1, <2>1, <2>4
<1>3. QED
  BY <1>1, <1>2 DEF Sound

LEMMA SweepSound ==
    ASSUME NEW T \in Trust, NEW clk \in Nat, NEW now \in Nat, now <= clk, NEW ok \in BOOLEAN,
           Sound(T, clk)
    PROVE  /\ Sound(Sweep(T, now, ok), clk)
           /\ Grants(T, Sweep(T, now, ok))
           /\ Sweep(T, now, ok).mem = {i \in T.mem : Active(i, now)}
           /\ Sweep(T, now, ok).file \in {T.file, Sweep(T, now, ok).mem}
<1> DEFINE R == RemoveInactive(T, now)
<1>1. R \in Trust /\ Sound(R, clk) /\ R.mem = {i \in T.mem : Active(i, now)} /\ R.file = T.file
  BY RemoveInactiveType, RemoveInactiveSound
<1>2. /\ Sound(Flush(R, now, FALSE, ok), clk)
      /\ Grants(R, Flush(R, now, FALSE, ok))
      /\ Flush(R, now, FALSE, ok).mem = R.mem
      /\ Flush(R, now, FALSE, ok).file \in {R.file, R.mem}
  <2>1. R \in Trust /\ Sound(R, clk) /\ FALSE \in BOOLEAN
    BY <1>1
  <2> HIDE DEF R
  <2>2. Sound(Flush(R, now, FALSE, ok), clk)
    BY <2>1, FlushSound
  <2>3. Grants(R, Flush(R, now, FALSE, ok))
    BY <2>1, FlushSound
  <2>4. Flush(R, now, FALSE, ok).mem = R.mem /\ Flush(R, now, FALSE, ok).file \in {R.file, R.mem}
    BY <2>1, FlushKeeps
  <2>5. QED
    BY <2>2, <2>3, <2>4
<1>3. TokensOf(R.mem) \subseteq TokensOf(T.mem)
  BY <1>1 DEF TokensOf
<1>4. QED
  BY <1>1, <1>2, <1>3 DEF Sweep, Grants

LEMMA PruneSound ==
    ASSUME NEW T \in Trust, NEW clk \in Nat, NEW now \in Nat, now <= clk, NEW ok \in BOOLEAN,
           Sound(T, clk)
    PROVE  /\ Sound(Prune(T, now, ok), clk)
           /\ Grants(T, Prune(T, now, ok))
<1> DEFINE R == [T EXCEPT !.prunedAt = now]
<1>1. R \in Trust /\ R.mem = T.mem /\ R.file = T.file
  BY DEF Trust
<1>2. Sound(R, clk)
  BY <1>1 DEF Sound
<1>3. Sound(Sweep(R, now, ok), clk) /\ Grants(R, Sweep(R, now, ok))
  BY <1>1, <1>2, SweepSound
<1>4. Grants(T, Sweep(R, now, ok)) /\ Grants(T, T)
  BY <1>1, <1>3 DEF Grants
<1>5. QED
  BY <1>3, <1>4 DEF Prune

LEMMA LoadSound ==
    ASSUME NEW T \in Trust, NEW clk \in Nat, NEW ok \in BOOLEAN, \A i \in T.file : i.seen >= 1
    PROVE  /\ Sound(Load(T, clk, ok), clk)
           /\ Load(T, clk, ok).mem = {i \in T.file : Active(i, clk)}
           /\ Load(T, clk, ok).file \in {T.file, Load(T, clk, ok).mem}
<1> DEFINE R == [Unloaded(T.file) EXCEPT !.mem = T.file]
<1>1. R \in Trust /\ R.mem = T.file /\ R.file = T.file
  BY DEF Trust, Unloaded
<1>2. Sound(R, clk)
  BY <1>1, SameIsSound
<1>3. /\ Sound(Sweep(R, clk, ok), clk)
      /\ Sweep(R, clk, ok).file \in {R.file, Sweep(R, clk, ok).mem}
      /\ Sweep(R, clk, ok).mem = {i \in R.mem : Active(i, clk)}
  <2> HIDE DEF R
  <2>1. clk <= clk
    OBVIOUS
  <2>2. QED
    BY <2>1, <1>1, <1>2, SweepSound
<1>4. Load(T, clk, ok) = Sweep(R, clk, ok)
  BY DEF Load
<1>5. QED
  BY <1>1, <1>3, <1>4 DEF Grants

LEMMA TouchSound ==
    ASSUME NEW T \in Trust, NEW clk \in Nat, NEW now \in Nat, now >= 1, now <= clk,
           NEW token \in Nat, NEW ok \in BOOLEAN, Sound(T, clk)
    PROVE  /\ Sound(Touch(T, token, now, ok), clk)
           /\ Grants(T, Touch(T, token, now, ok))
<1> DEFINE due == {i \in Matches(T, token, now) :
                       ~(i.seen > 0 /\ now - i.seen < TouchInterval)}
           moved(i) == [i EXCEPT !.seen = now]
           touched == [T EXCEPT !.mem = (T.mem \ due) \cup {moved(i) : i \in due},
                                !.dirty = TRUE]
<1>1. due \subseteq T.mem /\ T.mem \subseteq Item /\ T.file \subseteq Item
  BY DEF Matches, Trust
<1>2. \A i \in due : /\ moved(i) \in Item
                    /\ Covers(moved(i), i)
                    /\ moved(i).token = i.token
                    /\ moved(i).seen >= 1
  <2> SUFFICES ASSUME NEW i \in due
               PROVE  /\ moved(i) \in Item
                      /\ Covers(moved(i), i)
                      /\ moved(i).token = i.token
                      /\ moved(i).seen >= 1
    OBVIOUS
  <2>1. i \in Item
    BY <1>1
  <2>2. i.seen <= now
    BY <2>1, StoreAssumption DEF Item
  <2>3. QED
    BY <2>1, <2>2 DEF Item, Covers
<1>3. touched \in Trust /\ touched.file = T.file
      /\ touched.mem = (T.mem \ due) \cup {moved(i) : i \in due}
  <2>1. {moved(i) : i \in due} \subseteq Item
    BY <1>2
  <2> HIDE DEF due, moved
  <2>2. QED
    BY <1>1, <2>1 DEF Trust
<1>4. TokensOf(touched.mem) \subseteq TokensOf(T.mem)
  <2> SUFFICES ASSUME NEW i \in touched.mem PROVE \E j \in T.mem : j.token = i.token
    BY DEF TokensOf
  <2>1. CASE i \in T.mem
    BY <2>1
  <2>2. CASE i \notin T.mem
    <3>1. PICK k \in due : i = moved(k)
      BY <1>3, <2>2
    <3>2. QED
      BY <1>1, <1>2, <3>1
  <2>3. QED
    BY <2>1, <2>2
<1>5. Sound(touched, clk)
  <2>1. \A i \in touched.mem \cup touched.file : i.seen >= 1
    BY <1>2, <1>3 DEF Sound
  <2>2. ASSUME NEW i \in touched.mem PROVE \E j \in touched.file : Covers(i, j)
    <3>1. CASE i \in T.mem
      BY <1>3, <3>1 DEF Sound
    <3>2. CASE i \notin T.mem
      <4>1. PICK k \in due : i = moved(k)
        BY <1>3, <3>2
      <4>2. PICK j \in T.file : Covers(k, j)
        BY <1>1 DEF Sound
      <4>3. Covers(i, j)
        BY <1>1, <1>2, <4>1, <4>2, CoversTransitive
      <4>4. QED
        BY <1>3, <4>3
    <3>3. QED
      BY <3>1, <3>2
  <2>3. ASSUME NEW j \in touched.file, Active(j, clk) PROVE \E i \in touched.mem : Covers(i, j)
    <3>1. PICK k \in T.mem : Covers(k, j)
      BY <1>3, <2>3 DEF Sound
    <3>2. CASE k \in due
      <4>1. Covers(moved(k), j)
        BY <1>1, <1>2, <1>3, <3>1, <3>2, CoversTransitive
      <4>2. QED
        BY <1>3, <3>2, <4>1
    <3>3. CASE k \notin due
      BY <1>3, <3>1, <3>3
    <3>4. QED
      BY <3>2, <3>3
  <2>4. QED
    BY <2>1, <2>2, <2>3 DEF Sound
<1>6. Grants(T, touched)
  BY <1>3, <1>4 DEF Grants
<1>7. Sound(Flush(touched, now, FALSE, ok), clk) /\ Grants(touched, Flush(touched, now, FALSE, ok))
  <2> HIDE DEF touched
  <2>1. QED
    BY <1>3, <1>5, FlushSound
<1>8. Grants(T, Flush(touched, now, FALSE, ok)) /\ Grants(T, T)
  BY <1>3, <1>4, <1>7 DEF Grants
<1>9. QED
  BY <1>5, <1>7, <1>8 DEF Touch

-----------------------------------------------------------------------------
(* Revoked stays out *)

LEMMA InitTrust == Init => TrustInv
  BY DEF Init, TrustInv, Unloaded, TrustIsDurable, RevokedStaysOut, TokensOf, Idle

LEMMA UpIsSound == TypeOK /\ TrustInv /\ up => Sound(trust, clock)
  BY DEF TrustInv, TrustIsDurable, Sound, TypeOK, Trust

\* A step that keeps memory and file sound and grants nothing new.
LEMMA QuietStep ==
    ASSUME TypeOK, TypeOK', TrustInv,
           Sound(trust', clock), Grants(trust, trust'),
           UNCHANGED <<clock, minted, revoked>>,
           \A t \in Threads : /\ thr'[t].pc = "revoke" => thr'[t].token <= minted
                              /\ thr'[t].pc # "idle" => up'
    PROVE  TrustInv'
<1>1. TokensOf(trust'.mem) \cap revoked = {}
  BY DEF Grants, TrustInv
<1>2. \A i \in trust'.mem : i.token \notin revoked /\ i.token <= minted
  BY <1>1 DEF Grants, TokensOf, TrustInv
<1>3. \A i \in trust'.file : i.token <= minted /\ (i.token \in revoked => ~Active(i, clock))
  <2>1. \A n \in TokensOf(trust.mem) : n \notin revoked /\ n <= minted
    BY DEF TokensOf, TrustInv
  <2>2. QED
    BY <2>1 DEF Grants, TrustInv, RevokedStaysOut
<1>4. RevokedStaysOut'
  BY <1>2, <1>3 DEF RevokedStaysOut
<1>5. QED
  BY <1>1, <1>2, <1>3, <1>4 DEF TrustInv, Sound, TrustIsDurable

\* The cookie check is such a step.
LEMMA CheckCookieQuiet ==
    ASSUME TypeOK, TrustInv, up, NEW token \in Nat, NEW now \in Readings,
           NEW okPrune \in BOOLEAN, NEW okTouch \in BOOLEAN, NEW accepted \in BOOLEAN,
           CheckCookie(token, now, okPrune, okTouch, accepted)
    PROVE  Sound(trust', clock) /\ Grants(trust, trust')
<1> DEFINE P == Prune(trust, now, okPrune)
<1>1. now \in Nat /\ now >= 1 /\ now <= clock /\ clock \in Nat /\ trust \in Trust
  BY ReadingsType DEF TypeOK
<1>2. P \in Trust /\ Sound(P, clock) /\ Grants(trust, P)
  BY <1>1, PruneType, PruneSound, UpIsSound
<1>3. trust' = Touch(P, token, now, okTouch)
  BY DEF CheckCookie
<1>4. Sound(trust', clock) /\ Grants(P, trust')
  BY <1>1, <1>2, <1>3, TouchSound
<1>5. QED
  BY <1>2, <1>4 DEF Grants

LEMMA CommitShape ==
    ASSUME NEW T \in Trust, NEW store \in SUBSET Item, NEW now \in Nat
    PROVE  /\ Commit(T, store, now, TRUE).mem = store
           /\ Commit(T, store, now, TRUE).file = store
           /\ CommitRemoval(T, store, now, TRUE).mem = store
           /\ CommitRemoval(T, store, now, TRUE).file = store
           /\ Commit(T, store, now, FALSE) = T
           /\ CommitRemoval(T, store, now, FALSE) = T
  BY DEF Commit, CommitRemoval, Trust

LEMMA NextTrust == TypeOK /\ TypeOK' /\ TrustInv /\ [Next]_vars => TrustInv'
<1> SUFFICES ASSUME TypeOK, TypeOK', TrustInv, [Next]_vars PROVE TrustInv'
  OBVIOUS
<1> USE DEF history
<1>0. /\ trust \in Trust /\ trust' \in Trust /\ clock \in Nat /\ clock >= 1 /\ minted \in Nat
      /\ revoked \subseteq Nat
  BY DEF TypeOK
<1>a. \A t \in Threads : /\ thr[t].pc = "revoke" => thr[t].token <= minted
                         /\ thr[t].pc # "idle" => up
  BY DEF TrustInv
<1>b. Grants(trust, trust)
  BY DEF Grants
<1>1. CASE Start
  <2>1. \A t \in Threads : thr'[t].pc = "idle"
    BY <1>1 DEF Start, Idle
  <2>2. CASE UNCHANGED trust /\ up' = FALSE
    BY <1>1, <2>1, <2>2 DEF Start, TrustInv, TrustIsDurable, RevokedStaysOut
  <2>3. ASSUME NEW ok \in BOOLEAN, trust' = Load(trust, clock, ok) PROVE TrustInv'
    <3>1. \A i \in trust.file : i.seen >= 1
      BY DEF TrustInv
    <3>2. /\ Sound(trust', clock)
          /\ trust'.mem = {i \in trust.file : Active(i, clock)}
          /\ trust'.file \in {trust.file, trust'.mem}
      BY <1>0, <2>3, <3>1, LoadSound
    <3>3. \A i \in trust'.mem : i.token \notin revoked
      BY <3>2 DEF TrustInv, RevokedStaysOut
    <3>4. TokensOf(trust'.mem) \cap revoked = {}
      BY <3>3 DEF TokensOf
    <3>5. UNCHANGED <<clock, minted, revoked>>
      BY <1>1 DEF Start
    <3>6. \A i \in trust'.mem \cup trust'.file : i \in trust.file
      BY <3>2
    <3>7. RevokedStaysOut'
      BY <3>5, <3>6 DEF TrustInv, RevokedStaysOut
    <3>8. QED
      BY <2>1, <3>2, <3>4, <3>5, <3>6, <3>7 DEF TrustInv, Sound, TrustIsDurable
  <2>4. QED
    BY <1>1, <2>2, <2>3 DEF Start
<1>2. CASE Stop
  <2>1. Sound(trust', clock) /\ Grants(trust, trust')
    BY <1>0, <1>2, FlushSound, UpIsSound DEF Stop
  <2>2. \A t \in Threads : thr'[t].pc = "idle"
    BY <1>2 DEF Stop, Idle
  <2>3. QED
    BY <1>2, <2>1, <2>2, QuietStep DEF Stop
<1>3. CASE Die
  <2>1. trust'.mem = {} /\ trust'.file = trust.file
    BY <1>3 DEF Die, Unloaded
  <2>2. \A t \in Threads : thr'[t].pc = "idle"
    BY <1>3 DEF Die, Idle
  <2>3. QED
    BY <1>3, <2>1, <2>2 DEF Die, TrustInv, TrustIsDurable, RevokedStaysOut, TokensOf
<1>4. CASE Tick
  <2>1. clock' \in Nat /\ clock <= clock'
    BY <1>0, <1>4 DEF Tick
  <2>2. \A i \in trust.mem \cup trust.file : i \in Item /\ i.seen >= 1
    BY <1>0 DEF TrustInv, Trust
  <2>3. \A i \in trust.mem \cup trust.file : Active(i, clock') => Active(i, clock)
    BY <1>0, <2>1, <2>2, ActiveBackwards
  <2>4. RevokedStaysOut'
    BY <1>4, <2>3 DEF Tick, TrustInv, RevokedStaysOut
  <2>5. QED
    BY <1>4, <2>3, <2>4 DEF Tick, TrustInv, TrustIsDurable
<1>5. CASE CountTrusted
  <2>1. Sound(trust', clock) /\ Grants(trust, trust')
    BY <1>0, <1>5, PruneSound, UpIsSound, ReadingsType DEF CountTrusted, TypeOK
  <2>2. QED
    BY <1>5, <1>a, <2>1, QuietStep DEF CountTrusted
<1>6. CASE IssueQr
  BY <1>6, <1>a, <1>b, UpIsSound, QuietStep DEF IssueQr
<1>7. CASE PollQr
  BY <1>7, <1>a, <1>b, UpIsSound, QuietStep DEF PollQr
<1>8. CASE RevokeAll
  <2>1. PICK ok \in BOOLEAN :
            /\ trust' = CommitRemoval(trust, {}, clock, ok)
            /\ revoked' = IF ok THEN revoked \cup TokensOf(trust.mem) \cup TokensOf(trust.file)
                          ELSE revoked
    BY <1>8 DEF RevokeAll
  <2>2. CASE ok = FALSE
    <3>1. trust' = trust /\ revoked' = revoked
      BY <1>0, <2>1, <2>2, CommitShape
    <3>2. QED
      BY <1>8, <1>a, <1>b, <3>1, UpIsSound, QuietStep DEF RevokeAll
  <2>3. CASE ok = TRUE
    <3>1. trust'.mem = {} /\ trust'.file = {}
      BY <1>0, <2>1, <2>3, CommitShape
    <3>2. revoked' = revoked \cup TokensOf(trust.mem) \cup TokensOf(trust.file)
      BY <2>1, <2>3
    <3>3. \A n \in revoked' : n <= minted
      BY <3>2 DEF TokensOf, TrustInv
    <3>4. QED
      BY <1>8, <1>a, <3>1, <3>3 DEF RevokeAll, TrustInv, TrustIsDurable, RevokedStaysOut, TokensOf
  <2>4. QED
    BY <2>2, <2>3
<1>9. CASE \E token \in 1..minted : Authorize(token)
  <2>1. PICK token \in 1..minted : Authorize(token)
    BY <1>9
  <2>2. Sound(trust', clock) /\ Grants(trust, trust')
    BY <1>0, <2>1, CheckCookieQuiet DEF Authorize
  <2>3. QED
    BY <1>a, <2>1, <2>2, QuietStep DEF Authorize
<1>10. CASE \E t \in Threads : Request(t)
  <2> PICK t \in Threads : Request(t)
    BY <1>10
  <2>1. ASSUME NEW b \in Browsers, PairByCode(t, b) PROVE TrustInv'
    <3>1. \A u \in Threads : thr'[u] = thr[u] \/ thr'[u] = Pairing(b, pin.issue)
      BY <2>1 DEF PairByCode, TypeOK
    <3>2. QED
      BY <2>1, <1>a, <1>b, <3>1, UpIsSound, QuietStep DEF PairByCode, Pairing
  <2>2. ASSUME NEW b \in Browsers, PairByQr(t, b) PROVE TrustInv'
    <3>1. \A u \in Threads : thr'[u] = thr[u] \/ thr'[u] = Pairing(b, qr.issue)
      BY <2>2 DEF PairByQr, TypeOK
    <3>2. QED
      BY <2>2, <1>a, <1>b, <3>1, UpIsSound, QuietStep DEF PairByQr, Pairing
  <2>3. CASE TrustBrowser(t)
    <3>1. PICK now \in Readings, okPrune \in BOOLEAN, okCommit \in BOOLEAN :
            /\ \E next \in AddResults(Prune(trust, now, okPrune).mem, thr[t].browser, minted + 1, clock) :
                  trust' = Commit(Prune(trust, now, okPrune), next, now, okCommit)
            /\ \/ okCommit /\ minted' = minted + 1 /\ thr' = [thr EXCEPT ![t] = Paired]
               \/ ~okCommit /\ thr' = [thr EXCEPT ![t] = Idle] /\ minted' = minted
      BY <2>3 DEF TrustBrowser
    <3> DEFINE P == Prune(trust, now, okPrune)
    <3>2. PICK next \in AddResults(P.mem, thr[t].browser, minted + 1, clock) :
              trust' = Commit(P, next, now, okCommit)
      BY <3>1
    <3>3. now \in Nat /\ now <= clock /\ up
      BY <2>3, <1>a, ReadingsType DEF TypeOK, TrustBrowser
    <3>4. P \in Trust /\ Sound(P, clock) /\ Grants(trust, P)
      BY <1>0, <3>3, PruneType, PruneSound, UpIsSound
    <3>5. thr[t].browser \in Browsers
      BY <2>3 DEF TypeOK, ThreadState, TrustBrowser
    <3>6. P.mem \in SUBSET Item /\ next \in SUBSET Item
      BY <1>0, <3>4, <3>5, AddType DEF Trust
    <3>7. \A u \in Threads : thr'[u] = thr[u] \/ thr'[u] = Paired \/ thr'[u] = Idle
      BY <3>1 DEF TypeOK
    <3>8. UNCHANGED <<clock, revoked, up>>
      BY <2>3 DEF TrustBrowser
    <3>9. CASE okCommit = FALSE
      <4>1. trust' = P /\ minted' = minted
        BY <3>1, <3>2, <3>3, <3>4, <3>6, <3>9, CommitShape
      <4>2. UNCHANGED <<clock, minted, revoked>> /\ Sound(trust', clock) /\ Grants(trust, trust')
        BY <3>4, <3>8, <4>1
      <4>3. \A u \in Threads : /\ thr'[u].pc = "revoke" => thr'[u].token <= minted
                               /\ thr'[u].pc # "idle" => up'
        BY <1>a, <3>3, <3>7, <3>8 DEF Idle, Paired
      <4>4. QED
        BY <4>2, <4>3, QuietStep
    <3>10. CASE okCommit = TRUE
      <4>1. trust'.mem = next /\ trust'.file = next /\ minted' = minted + 1
        BY <3>1, <3>2, <3>3, <3>4, <3>6, <3>10, CommitShape
      <4>2. \A i \in next : i \in P.mem \/ i = NewItem(thr[t].browser, minted + 1, clock)
        BY <3>2 DEF AddResults
      <4>3. \A i \in P.mem : i.seen >= 1 /\ i.token <= minted /\ i.token \notin revoked
        BY <3>4 DEF Sound, Grants, TokensOf, TrustInv
      <4>4. minted + 1 \notin revoked
        BY <1>0 DEF TrustInv
      <4>5. \A i \in next : i.seen >= 1 /\ i.token <= minted' /\ i.token \notin revoked
        BY <1>0, <3>6, <4>1, <4>2, <4>3, <4>4 DEF NewItem, Item
      <4>6. Sound(trust', clock)
        BY <1>0, <4>1, <4>5, SameIsSound
      <4>7. TokensOf(trust'.mem) \cap revoked' = {} /\ RevokedStaysOut'
        BY <3>8, <4>1, <4>5 DEF TokensOf, RevokedStaysOut
      <4>8. \A n \in revoked' : n <= minted'
        BY <1>0, <3>8, <4>1 DEF TrustInv
      <4>9. \A u \in Threads : /\ thr'[u].pc = "revoke" => thr'[u].token <= minted'
                               /\ thr'[u].pc # "idle" => up'
        <5>1. \A u \in Threads : thr[u].token \in Nat
          BY DEF TypeOK, ThreadState
        <5>2. QED
          BY <1>0, <1>a, <3>3, <3>7, <3>8, <4>1, <5>1 DEF Idle, Paired
      <4>10. QED
        BY <3>8, <4>1, <4>5, <4>6, <4>7, <4>8, <4>9 DEF TrustInv, Sound, TrustIsDurable
    <3>11. QED
      BY <3>9, <3>10
  <2>4. CASE ReplyPaired(t)
    <3>1. Sound(trust', clock) /\ Grants(trust, trust')
      BY <1>0, <1>a, <2>4, PruneSound, UpIsSound, ReadingsType DEF ReplyPaired, TypeOK
    <3>2. \A u \in Threads : thr'[u] = thr[u] \/ thr'[u] = Idle
      BY <2>4 DEF ReplyPaired, TypeOK
    <3>3. QED
      BY <1>a, <2>4, <3>1, <3>2, QuietStep DEF ReplyPaired, Idle
  <2>5. ASSUME NEW token \in 1..minted, RevokeRequest(t, token) PROVE TrustInv'
    <3>1. Sound(trust', clock) /\ Grants(trust, trust')
      BY <1>0, <2>5, CheckCookieQuiet DEF RevokeRequest
    <3>2. \A u \in Threads : thr'[u] = thr[u] \/ thr'[u] = Revoking(token)
      BY <2>5 DEF RevokeRequest, TypeOK
    <3>3. QED
      BY <1>a, <2>5, <3>1, <3>2, QuietStep DEF RevokeRequest, Revoking
  <2>6. CASE RevokeToken(t)
    <3>1. PICK okPrune \in BOOLEAN, okCommit \in BOOLEAN :
            LET pruned == Prune(trust, clock, okPrune)
                next   == RemoveToken(pruned.mem, thr[t].token) IN
            IF next = pruned.mem
            THEN /\ trust' = pruned
                 /\ revoked' = revoked \cup {thr[t].token}
            ELSE /\ trust' = CommitRemoval(pruned, next, clock, okCommit)
                 /\ revoked' = IF okCommit THEN revoked \cup {thr[t].token} ELSE revoked
      BY <2>6 DEF RevokeToken
    <3> DEFINE P == Prune(trust, clock, okPrune)
               next == RemoveToken(P.mem, thr[t].token)
    <3>2. up /\ thr[t].token <= minted /\ thr[t].token \in Nat
      BY <2>6, <1>a DEF RevokeToken, TypeOK, ThreadState
    <3>3. P \in Trust /\ Sound(P, clock) /\ Grants(trust, P)
      BY <1>0, <3>2, PruneType, PruneSound, UpIsSound
    <3>4. next \in SUBSET Item /\ next \subseteq P.mem /\ \A i \in next : i.token # thr[t].token
      BY <3>3 DEF RemoveToken, Trust
    <3>5. \A u \in Threads : thr'[u] = thr[u] \/ thr'[u] = Idle
      BY <2>6 DEF RevokeToken, TypeOK
    <3>6. UNCHANGED <<clock, minted, up>>
      BY <2>6 DEF RevokeToken
    <3>7. \A u \in Threads : /\ thr'[u].pc = "revoke" => thr'[u].token <= minted
                             /\ thr'[u].pc # "idle" => up'
      BY <1>a, <3>5, <3>6 DEF Idle
    <3>8. \A i \in P.mem : i.seen >= 1 /\ i.token <= minted /\ i.token \notin revoked
      BY <3>3 DEF Sound, Grants, TokensOf, TrustInv
    <3>9. CASE next = P.mem
      <4>1. trust' = P /\ revoked' = revoked \cup {thr[t].token}
        BY <3>1, <3>9
      <4>2. \A i \in P.mem : i.token \notin revoked'
        BY <3>4, <3>8, <3>9, <4>1
      <4>3. \A j \in P.file : j.token <= minted
        BY <3>3 DEF Grants, TrustInv, TokensOf
      <4>4. ASSUME NEW j \in P.file, j.token \in revoked' PROVE ~Active(j, clock)
        <5>1. CASE Active(j, clock)
          <6>1. PICK i \in P.mem : Covers(i, j)
            BY <3>3, <5>1 DEF Sound
          <6>2. i.token = j.token
            BY <6>1 DEF Covers
          <6>3. QED
            BY <4>2, <4>4, <6>2
        <5>2. QED
          BY <5>1
      <4>5. TokensOf(trust'.mem) \cap revoked' = {}
        BY <4>1, <4>2 DEF TokensOf
      <4>6. RevokedStaysOut'
        BY <3>6, <4>1, <4>2, <4>4 DEF RevokedStaysOut
      <4>7. \A n \in revoked' : n <= minted'
        BY <3>2, <3>6, <4>1 DEF TrustInv
      <4>8. QED
        BY <3>3, <3>6, <3>7, <3>8, <4>1, <4>3, <4>5, <4>6, <4>7 DEF TrustInv, Sound, TrustIsDurable
    <3>10. CASE next # P.mem /\ okCommit = TRUE
      <4>1. /\ trust'.mem = next /\ trust'.file = next
            /\ revoked' = revoked \cup {thr[t].token}
        <5>1. /\ trust' = CommitRemoval(P, next, clock, TRUE)
              /\ revoked' = revoked \cup {thr[t].token}
          BY <3>1, <3>10
        <5>2. P \in Trust /\ next \in SUBSET Item /\ clock \in Nat
          BY <1>0, <3>3, <3>4
        <5> HIDE DEF P, next
        <5>3. QED
          BY <5>1, <5>2, CommitShape
      <4>2. \A i \in next : i.token \notin revoked' /\ i.seen >= 1 /\ i.token <= minted
        BY <3>4, <3>8, <4>1
      <4>3. Sound(trust', clock)
        BY <1>0, <4>1, <4>2, SameIsSound
      <4>4. TokensOf(trust'.mem) \cap revoked' = {} /\ RevokedStaysOut'
        BY <4>1, <4>2 DEF TokensOf, RevokedStaysOut
      <4>5. \A n \in revoked' : n <= minted'
        BY <3>2, <3>6, <4>1 DEF TrustInv
      <4>6. QED
        BY <3>6, <3>7, <4>1, <4>2, <4>3, <4>4, <4>5 DEF TrustInv, Sound, TrustIsDurable
    <3>11. CASE next # P.mem /\ okCommit = FALSE
      <4>1. trust' = P /\ revoked' = revoked
        BY <1>0, <3>1, <3>3, <3>4, <3>11, CommitShape
      <4>2. UNCHANGED <<clock, minted, revoked>> /\ Sound(trust', clock) /\ Grants(trust, trust')
        BY <3>3, <3>6, <4>1
      <4>3. QED
        BY <3>6, <3>7, <4>2, QuietStep
    <3>12. QED
      BY <3>9, <3>10, <3>11
  <2>7. QED
    BY <2>1, <2>2, <2>3, <2>4, <2>5, <2>6 DEF Request
<1>11. CASE UNCHANGED vars
  BY <1>11 DEF vars, TrustInv, TrustIsDurable, RevokedStaysOut
<1>12. QED
  BY <1>1, <1>2, <1>3, <1>4, <1>5, <1>6, <1>7, <1>8, <1>9, <1>10, <1>11 DEF Next

LEMMA AlwaysTrust == Spec => [](TypeOK /\ TrustInv)
<1>1. Init => TypeOK /\ TrustInv
  BY InitType, InitTrust
<1>2. TypeOK /\ TrustInv /\ [Next]_vars => TypeOK' /\ TrustInv'
  BY NextType, NextTrust
<1>3. QED
  BY <1>1, <1>2, PTL DEF Spec

\* No copy of a revoked browser's grant is ever accepted again, whichever saves
\* of cs_trust_store_save fail and wherever the process dies.
THEOREM RevokedStaysOutAlways == Spec => []RevokedStaysOut
<1>1. TrustInv => RevokedStaysOut
  BY DEF TrustInv
<1>2. QED
  BY AlwaysTrust, <1>1, PTL

\* What memory trusts is always on disk, with the same token and lifetime: a
\* crash logs nobody out except by the uses not yet flushed.
THEOREM TrustIsDurableAlways == Spec => []TrustIsDurable
<1>1. TrustInv => TrustIsDurable
  BY DEF TrustInv
<1>2. QED
  BY AlwaysTrust, <1>1, PTL

-----------------------------------------------------------------------------
(* Refused stays out *)

\* No grant of the tokens R is good: in memory for any clock reading still in
\* use, and in the file for the next process.
Out(T, R, clk) ==
    /\ \A i \in T.mem : i.token \in R => ~Active(i, clk - Lag)
    /\ \A j \in T.file : j.token \in R => ~Active(j, clk)

\* Why RefusedStaysOut holds: memory loses nothing that an older reading lets in.
RefusedInv == (\A n \in refused : n <= minted) /\ Out(trust, refused, clock)

LEMMA ActiveEarlier ==
    ASSUME NEW i \in Item, i.seen >= 1, NEW now \in Int, NEW clk \in Int, now <= clk, Active(i, clk)
    PROVE  Active(i, now)
  BY StoreAssumption DEF Active, Item

LEMMA FlushOut ==
    ASSUME NEW T \in Trust, NEW R, NEW clk \in Nat, NEW now, NEW force, NEW ok,
           \A i \in T.mem : i.seen >= 1, Out(T, R, clk)
    PROVE  Out(Flush(T, now, force, ok), R, clk)
<1>1. \A i \in T.mem : i.token \in R => ~Active(i, clk)
  <2> SUFFICES ASSUME NEW i \in T.mem, i.token \in R, Active(i, clk) PROVE FALSE
    OBVIOUS
  <2>1. i \in Item /\ clk - Lag \in Int /\ clk - Lag <= clk
    BY ServerAssumption DEF Trust
  <2>2. Active(i, clk - Lag)
    BY <2>1, ActiveEarlier
  <2>3. QED
    BY <2>2 DEF Out
<1>2. QED
  BY <1>1, FlushKeeps DEF Out

LEMMA SweepOut ==
    ASSUME NEW T \in Trust, NEW R, NEW clk \in Nat, NEW now \in Nat, NEW ok,
           \A i \in T.mem : i.seen >= 1, Out(T, R, clk)
    PROVE  Out(Sweep(T, now, ok), R, clk)
<1> DEFINE S == RemoveInactive(T, now)
<1>1. S \in Trust /\ S.mem \subseteq T.mem /\ S.file = T.file
  BY RemoveInactiveType DEF RemoveInactive, Trust
<1>2. Out(S, R, clk) /\ \A i \in S.mem : i.seen >= 1
  BY <1>1 DEF Out
<1> HIDE DEF S
<1>3. Out(Flush(S, now, FALSE, ok), R, clk)
  BY <1>1, <1>2, FlushOut
<1>4. QED
  BY <1>2, <1>3 DEF Sweep, S

LEMMA PruneOut ==
    ASSUME NEW T \in Trust, NEW R, NEW clk \in Nat, NEW now \in Nat, NEW ok,
           \A i \in T.mem : i.seen >= 1, Out(T, R, clk)
    PROVE  Out(Prune(T, now, ok), R, clk)
<1> DEFINE S == [T EXCEPT !.prunedAt = now]
<1>1. S \in Trust /\ S.mem = T.mem /\ S.file = T.file
  BY DEF Trust
<1>2. Out(S, R, clk) /\ \A i \in S.mem : i.seen >= 1
  BY <1>1 DEF Out
<1> HIDE DEF S
<1>3. Out(Sweep(S, now, ok), R, clk)
  BY <1>1, <1>2, SweepOut
<1>4. QED
  BY <1>3 DEF Prune, S

\* A use renews only what its own reading lets in, which no refusal was about.
LEMMA TouchOut ==
    ASSUME NEW T \in Trust, NEW R, NEW clk \in Nat, NEW now \in Nat, now >= 1, clk - Lag <= now,
           NEW token \in Nat, NEW ok, \A i \in T.mem : i.seen >= 1, Out(T, R, clk)
    PROVE  Out(Touch(T, token, now, ok), R, clk)
<1> DEFINE due == {i \in Matches(T, token, now) :
                       ~(i.seen > 0 /\ now - i.seen < TouchInterval)}
           moved(i) == [i EXCEPT !.seen = now]
           touched == [T EXCEPT !.mem = (T.mem \ due) \cup {moved(i) : i \in due},
                                !.dirty = TRUE]
<1>1. \A i \in due : i \in T.mem /\ i \in Item /\ Active(i, now)
  BY DEF Matches, Trust
<1>2. \A i \in due : moved(i) \in Item /\ moved(i).token = i.token /\ moved(i).seen >= 1
  BY <1>1 DEF Item
<1>3. \A i \in due : i.token \notin R
  <2> SUFFICES ASSUME NEW i \in due PROVE i.token \notin R
    OBVIOUS
  <2>1. clk - Lag \in Int
    BY ServerAssumption
  <2>2. Active(i, clk - Lag)
    BY <1>1, <2>1, ActiveEarlier
  <2>3. QED
    BY <1>1, <2>2 DEF Out
<1> HIDE DEF due, moved
<1>4. /\ touched \in Trust /\ touched.file = T.file
      /\ touched.mem = (T.mem \ due) \cup {moved(i) : i \in due}
  BY <1>2 DEF Trust
<1> HIDE DEF touched
<1>5. Out(touched, R, clk) /\ \A i \in touched.mem : i.seen >= 1
  BY <1>2, <1>3, <1>4 DEF Out
<1>6. Out(Flush(touched, now, FALSE, ok), R, clk)
  BY <1>4, <1>5, FlushOut
<1>7. QED
  BY <1>6 DEF Touch, touched, due, moved

LEMMA ReadingIsRecent ==
    ASSUME clock \in Nat \ {0}, NEW now \in Readings
    PROVE  clock - Lag <= now
  BY DEF Readings

\* The cookie check refuses only what no reading still in use lets in.
LEMMA CheckCookieOut ==
    ASSUME TypeOK, TrustInv, RefusedInv, up, NEW token \in 1..minted, NEW now \in Readings,
           NEW okPrune \in BOOLEAN, NEW okTouch \in BOOLEAN, NEW accepted \in BOOLEAN,
           CheckCookie(token, now, okPrune, okTouch, accepted)
    PROVE  Out(trust', refused', clock) /\ \A n \in refused' : n <= minted
<1> DEFINE P == Prune(trust, now, okPrune)
<1>1. /\ now \in Nat /\ now >= 1 /\ now <= clock /\ clock \in Nat /\ clock - Lag <= now
      /\ clock - Lag \in Int /\ clock - Lag <= clock /\ trust \in Trust /\ token \in Nat
  BY ReadingsType, ReadingIsRecent, ServerAssumption DEF TypeOK
<1>2. Sound(trust, clock) /\ P \in Trust /\ Sound(P, clock)
  BY <1>1, PruneType, PruneSound, UpIsSound
<1>3. Out(trust, refused', clock)
  <2>1. CASE refused' = refused
    BY <2>1 DEF RefusedInv
  <2>2. CASE Matches(trust, token, clock - Lag) = {} /\ refused' = refused \cup {token}
    <3>1. \A i \in trust.mem : i.token \in refused' => ~Active(i, clock - Lag)
      BY <2>2 DEF Matches, RefusedInv, Out
    <3>2. ASSUME NEW j \in trust.file, j.token \in refused', Active(j, clock) PROVE FALSE
      <4>1. PICK i \in trust.mem : Covers(i, j)
        BY <1>2, <3>2 DEF Sound
      <4>2. i \in Item /\ j \in Item /\ i.seen >= 1 /\ j.seen >= 1 /\ i.token = j.token
        BY <1>1, <1>2, <4>1 DEF Trust, Sound, Covers
      <4>3. Active(i, clock)
        BY <1>1, <3>2, <4>1, <4>2, CoveredInactive
      <4>4. Active(i, clock - Lag)
        BY <1>1, <4>2, <4>3, ActiveEarlier
      <4>5. QED
        BY <3>1, <3>2, <4>2, <4>4
    <3>3. QED
      BY <3>1, <3>2 DEF Out
  <2>3. QED
    BY <2>1, <2>2 DEF CheckCookie, StillGood
<1>4. Out(P, refused', clock)
  BY <1>1, <1>2, <1>3, PruneOut DEF Sound
<1>5. Out(trust', refused', clock)
  <2>1. trust' = Touch(P, token, now, okTouch)
    BY DEF CheckCookie
  <2> HIDE DEF P
  <2>2. QED
    BY <1>1, <1>2, <1>4, <2>1, TouchOut DEF Sound
<1>6. \A n \in refused' : n <= minted
  BY DEF CheckCookie, RefusedInv
<1>7. QED
  BY <1>5, <1>6

LEMMA NextRefused == TypeOK /\ TrustInv /\ RefusedInv /\ [Next]_vars => RefusedInv'
<1> SUFFICES ASSUME TypeOK, TrustInv, RefusedInv, [Next]_vars PROVE RefusedInv'
  OBVIOUS
<1> USE DEF history
<1>0. /\ trust \in Trust /\ clock \in Nat /\ clock \in Nat \ {0} /\ minted \in Nat
      /\ \A i \in trust.mem \cup trust.file : i.seen >= 1
      /\ Out(trust, refused, clock) /\ \A n \in refused : n <= minted
  BY DEF TypeOK, TrustInv, RefusedInv
<1>1. CASE Start
  <2>1. CASE UNCHANGED trust
    BY <1>1, <2>1 DEF Start, RefusedInv, Out
  <2>2. ASSUME NEW ok \in BOOLEAN, trust' = Load(trust, clock, ok) PROVE RefusedInv'
    <3>1. /\ trust'.mem = {i \in trust.file : Active(i, clock)}
          /\ trust'.file \in {trust.file, trust'.mem}
      BY <1>0, <2>2, LoadSound
    <3>2. \A i \in trust'.mem : i.token \notin refused
      BY <1>0, <3>1 DEF Out
    <3>3. UNCHANGED <<clock, minted, refused>>
      BY <1>1 DEF Start
    <3>4. QED
      BY <1>0, <3>1, <3>2, <3>3 DEF RefusedInv, Out
  <2>3. QED
    BY <1>1, <2>1, <2>2 DEF Start
<1>2. CASE Stop
  BY <1>0, <1>2, FlushOut DEF Stop, RefusedInv
<1>3. CASE Die
  BY <1>0, <1>3 DEF Die, Unloaded, RefusedInv, Out
<1>4. CASE Tick
  <2>1. /\ clock' = clock + 1 /\ clock' \in Int /\ clock - Lag \in Int /\ clock' - Lag \in Int
        /\ clock - Lag <= clock' - Lag
    BY <1>0, <1>4, ServerAssumption DEF Tick
  <2>2. \A i \in trust.mem \cup trust.file : i \in Item /\ i.seen >= 1
    BY <1>0 DEF Trust
  <2>3. \A i \in trust.mem : Active(i, clock' - Lag) => Active(i, clock - Lag)
    BY <1>0, <2>1, <2>2, ActiveEarlier
  <2>4. \A j \in trust.file : Active(j, clock') => Active(j, clock)
    BY <1>0, <2>1, <2>2, ActiveEarlier
  <2>5. QED
    BY <1>0, <1>4, <2>3, <2>4 DEF Tick, RefusedInv, Out
<1>5. CASE CountTrusted
  BY <1>0, <1>5, PruneOut, ReadingsType DEF CountTrusted, RefusedInv
<1>6. CASE IssueQr
  BY <1>6 DEF IssueQr, RefusedInv, Out
<1>7. CASE PollQr
  BY <1>7 DEF PollQr, RefusedInv, Out
<1>8. CASE RevokeAll
  <2>1. PICK ok \in BOOLEAN : trust' = CommitRemoval(trust, {}, clock, ok)
    BY <1>8 DEF RevokeAll
  <2>2. trust' = trust \/ (trust'.mem = {} /\ trust'.file = {})
    <3>1. CASE ok = TRUE
      BY <1>0, <2>1, <3>1, CommitShape
    <3>2. CASE ok = FALSE
      BY <1>0, <2>1, <3>2, CommitShape
    <3>3. QED
      BY <3>1, <3>2
  <2>3. QED
    BY <1>0, <1>8, <2>2 DEF RevokeAll, RefusedInv, Out
<1>9. CASE \E token \in 1..minted : Authorize(token)
  BY <1>9, CheckCookieOut DEF Authorize, RefusedInv
<1>10. CASE \E t \in Threads : Request(t)
  <2> PICK t \in Threads : Request(t)
    BY <1>10
  <2>1. ASSUME NEW b \in Browsers, PairByCode(t, b) PROVE RefusedInv'
    BY <2>1 DEF PairByCode, RefusedInv, Out
  <2>2. ASSUME NEW b \in Browsers, PairByQr(t, b) PROVE RefusedInv'
    BY <2>2 DEF PairByQr, RefusedInv, Out
  <2>3. CASE TrustBrowser(t)
    <3>1. PICK now \in Readings, okPrune \in BOOLEAN, okCommit \in BOOLEAN :
            /\ \E next \in AddResults(Prune(trust, now, okPrune).mem, thr[t].browser, minted + 1, clock) :
                  trust' = Commit(Prune(trust, now, okPrune), next, now, okCommit)
            /\ minted' = IF okCommit THEN minted + 1 ELSE minted
      BY <2>3 DEF TrustBrowser
    <3> DEFINE P == Prune(trust, now, okPrune)
    <3>2. PICK next \in AddResults(P.mem, thr[t].browser, minted + 1, clock) :
              trust' = Commit(P, next, now, okCommit)
      BY <3>1
    <3>3. now \in Nat
      BY ReadingsType DEF TypeOK
    <3>4. P \in Trust /\ Out(P, refused, clock)
      BY <1>0, <3>3, PruneType, PruneOut
    <3>5. thr[t].browser \in Browsers
      BY <2>3 DEF TypeOK, ThreadState, TrustBrowser
    <3>6. P.mem \in SUBSET Item /\ next \in SUBSET Item
      BY <1>0, <3>4, <3>5, AddType DEF Trust
    <3>7. UNCHANGED <<clock, refused>>
      BY <2>3 DEF TrustBrowser
    <3>8. \A i \in next : i \in P.mem \/ i.token = minted + 1
      BY <3>2 DEF AddResults, NewItem
    <3> HIDE DEF P
    <3>9. CASE okCommit = FALSE
      <4>1. trust' = P /\ minted' = minted
        BY <3>1, <3>2, <3>3, <3>4, <3>6, <3>9, CommitShape
      <4>2. QED
        BY <1>0, <3>4, <3>7, <4>1 DEF RefusedInv
    <3>10. CASE okCommit = TRUE
      <4>1. trust'.mem = next /\ trust'.file = next /\ minted' = minted + 1
        BY <3>1, <3>2, <3>3, <3>4, <3>6, <3>10, CommitShape
      <4>2. minted + 1 \notin refused
        BY <1>0
      <4>3. \A i \in next : i.token \in refused => ~Active(i, clock - Lag)
        BY <3>4, <3>8, <4>2 DEF Out
      <4>4. \A i \in next : i.token \in refused => ~Active(i, clock)
        <5> SUFFICES ASSUME NEW i \in next, i.token \in refused, Active(i, clock) PROVE FALSE
          OBVIOUS
        <5>1. i \in P.mem
          BY <3>8, <4>2
        <5>2. i \in Item /\ i.seen >= 1 /\ clock - Lag \in Int /\ clock - Lag <= clock
          <6>1. Sound(P, clock)
            BY <1>0, <2>3, <3>3, ReadingsType, UpIsSound, PruneSound DEF P, TrustBrowser, TrustInv
          <6>2. QED
            BY <1>0, <3>6, <5>1, <6>1, ServerAssumption DEF Sound
        <5>3. Active(i, clock - Lag)
          BY <1>0, <5>2, ActiveEarlier
        <5>4. QED
          BY <4>3, <5>3
      <4>5. \A n \in refused' : n <= minted'
        <5>1. refused \subseteq Nat
          BY DEF TypeOK
        <5>2. QED
          BY <1>0, <3>7, <4>1, <5>1
      <4>6. QED
        BY <3>7, <4>1, <4>3, <4>4, <4>5 DEF RefusedInv, Out
    <3>11. QED
      BY <3>9, <3>10
  <2>4. CASE ReplyPaired(t)
    BY <1>0, <2>4, PruneOut, ReadingsType DEF ReplyPaired, RefusedInv
  <2>5. ASSUME NEW token \in 1..minted, RevokeRequest(t, token) PROVE RefusedInv'
    BY <2>5, CheckCookieOut DEF RevokeRequest, RefusedInv
  <2>6. CASE RevokeToken(t)
    <3>1. PICK okPrune \in BOOLEAN, okCommit \in BOOLEAN :
            LET pruned == Prune(trust, clock, okPrune)
                next   == RemoveToken(pruned.mem, thr[t].token) IN
            \/ trust' = pruned
            \/ trust' = CommitRemoval(pruned, next, clock, okCommit)
      BY <2>6 DEF RevokeToken
    <3> DEFINE P == Prune(trust, clock, okPrune)
               next == RemoveToken(P.mem, thr[t].token)
    <3>2. P \in Trust /\ Out(P, refused, clock) /\ \A i \in P.mem : i.seen >= 1
      <4>1. Sound(trust, clock) /\ clock <= clock
        BY <1>0, <2>6, UpIsSound DEF RevokeToken, TrustInv
      <4>2. QED
        BY <1>0, <4>1, PruneType, PruneOut, PruneSound DEF Sound
    <3>3. next \in SUBSET Item /\ next \subseteq P.mem
      BY <3>2 DEF RemoveToken, Trust
    <3>4. UNCHANGED <<clock, minted, refused>>
      BY <2>6 DEF RevokeToken
    <3> HIDE DEF P, next
    <3>5. trust' = P \/ (trust'.mem = next /\ trust'.file = next)
      <4>1. trust' = P \/ trust' = CommitRemoval(P, next, clock, okCommit)
        BY <3>1 DEF P, next
      <4>2. CASE okCommit = TRUE
        <5>1. trust' = P \/ trust' = CommitRemoval(P, next, clock, TRUE)
          BY <4>1, <4>2
        <5>2. /\ CommitRemoval(P, next, clock, TRUE).mem = next
              /\ CommitRemoval(P, next, clock, TRUE).file = next
          BY <1>0, <3>2, <3>3, CommitShape
        <5>3. QED
          BY <5>1, <5>2
      <4>3. CASE okCommit = FALSE
        BY <1>0, <3>2, <3>3, <4>1, <4>3, CommitShape
      <4>4. QED
        BY <4>2, <4>3
    <3>6. \A i \in next : i.token \in refused => ~Active(i, clock)
      <4> SUFFICES ASSUME NEW i \in next, i.token \in refused, Active(i, clock) PROVE FALSE
        OBVIOUS
      <4>1. i \in Item /\ i \in P.mem /\ i.seen >= 1 /\ clock - Lag \in Int /\ clock - Lag <= clock
        BY <1>0, <3>2, <3>3, ServerAssumption
      <4>2. Active(i, clock - Lag)
        BY <1>0, <4>1, ActiveEarlier
      <4>3. QED
        BY <3>2, <4>1, <4>2 DEF Out
    <3>7. QED
      BY <1>0, <3>2, <3>3, <3>4, <3>5, <3>6 DEF RefusedInv, Out
  <2>7. QED
    BY <2>1, <2>2, <2>3, <2>4, <2>5, <2>6 DEF Request
<1>11. CASE UNCHANGED vars
  BY <1>11 DEF vars, RefusedInv, Out
<1>12. QED
  BY <1>1, <1>2, <1>3, <1>4, <1>5, <1>6, <1>7, <1>8, <1>9, <1>10, <1>11 DEF Next

LEMMA RefusedIsOut == TypeOK /\ TrustInv /\ RefusedInv => RefusedStaysOut
<1> SUFFICES ASSUME TypeOK, TrustInv, RefusedInv, NEW i \in trust.mem \cup trust.file,
                    i.token \in refused, Active(i, clock)
             PROVE  FALSE
  BY DEF RefusedStaysOut
<1>1. i \in Item /\ i.seen >= 1 /\ clock \in Int /\ clock - Lag \in Int /\ clock - Lag <= clock
  BY ServerAssumption DEF TypeOK, Trust, TrustInv
<1>2. Active(i, clock - Lag)
  BY <1>1, ActiveEarlier
<1>3. QED
  BY <1>2 DEF RefusedInv, Out

\* A token that was once turned down is never good again, however old the clock
\* readings are that the workers bring into the mutex.
THEOREM RefusedStaysOutAlways == Spec => []RefusedStaysOut
<1>1. Init => TypeOK /\ TrustInv /\ RefusedInv
  BY InitType, InitTrust DEF Init, RefusedInv, Out, Unloaded
<1>2. TypeOK /\ TrustInv /\ RefusedInv /\ [Next]_vars => TypeOK' /\ TrustInv' /\ RefusedInv'
  BY NextType, NextTrust, NextRefused
<1>3. TypeOK /\ TrustInv /\ RefusedInv => RefusedStaysOut
  BY RefusedIsOut
<1>4. QED
  BY <1>1, <1>2, <1>3, PTL DEF Spec


-----------------------------------------------------------------------------
(* Guessing *)

LEMMA OneMoreTimes == \A n \in Int, l \in Nat : (n + 1) * l = n * l + l
  BY Z3

LEMMA NoneTimes == \A n \in Int, l \in Nat : n <= 0 => n * l <= 0
  BY Z3

\* The arithmetic of one more wrong answer at a time now, f having been given.
LEMMA OneMoreGuess ==
    ASSUME NEW f \in Nat, NEW until \in Nat, NEW now \in Nat, NEW clk \in Nat,
           1 <= now, now <= clk, until <= now,
           f >= MaxFailures => (f - MaxFailures + 1) * Lockout <= until - 1
    PROVE  /\ (f + 1 - MaxFailures) * Lockout <= clk - 1
           /\ f + 1 >= MaxFailures =>
                  (f + 1 - MaxFailures + 1) * Lockout <= now + Lockout - 1
<1> DEFINE n == f + 1 - MaxFailures
<1>0. n \in Int /\ MaxFailures \in Nat /\ Lockout \in Nat
  BY ServerAssumption
<1>1. n * Lockout \in Int /\ (n + 1) * Lockout = n * Lockout + Lockout
  BY <1>0, OneMoreTimes
<1>2. f - MaxFailures + 1 = n
  BY <1>0
<1>3. n * Lockout <= now - 1
  <2>1. CASE f >= MaxFailures
    <3>1. n * Lockout <= until - 1
      BY <1>2, <2>1
    <3>2. QED
      BY <1>1, <3>1
  <2>2. CASE ~(f >= MaxFailures)
    <3>1. n <= 0
      BY <1>0, <2>2
    <3>2. n * Lockout <= 0
      BY <1>0, <3>1, NoneTimes
    <3>3. QED
      BY <1>1, <3>2
  <2>3. QED
    BY <2>1, <2>2
<1>4. n * Lockout <= clk - 1 /\ (n + 1) * Lockout <= now + Lockout - 1
  <2> HIDE DEF n
  <2>1. QED
    BY <1>0, <1>1, <1>3
<1>5. QED
  BY <1>4

\* What GuessInv says of the code's record, and of the QR token's.
Budgeted(p, clk) == (p.failures - MaxFailures) * Lockout <= clk - 1 /\ Throttled(p)

LEMMA FailedBudgeted ==
    ASSUME NEW now \in Nat, NEW clk \in Nat, 1 <= now, now <= clk
    PROVE  /\ \A p \in PinState : p.until <= now /\ Throttled(p) => Budgeted(Failed(p, now), clk)
           /\ \A q \in QrState : q.until <= now /\ Throttled(q) => Budgeted(Failed(q, now), clk)
<1>1. ASSUME NEW p \in PinState \cup QrState, NEW r, p.until <= now, Throttled(p),
             r.failures = p.failures + 1,
             p.failures + 1 >= MaxFailures => r.until = now + Lockout
      PROVE  Budgeted(r, clk)
  <2>1. p.failures \in Nat /\ p.until \in Nat
    BY DEF PinState, QrState
  <2>2. p.failures >= MaxFailures => (p.failures - MaxFailures + 1) * Lockout <= p.until - 1
    BY <1>1 DEF Throttled
  <2>3. /\ (p.failures + 1 - MaxFailures) * Lockout <= clk - 1
        /\ p.failures + 1 >= MaxFailures =>
               (p.failures + 1 - MaxFailures + 1) * Lockout <= now + Lockout - 1
    BY <1>1, <2>1, <2>2, OneMoreGuess
  <2>4. r.failures = p.failures + 1
    BY <1>1
  <2>5. (r.failures - MaxFailures) * Lockout <= clk - 1
    <3>1. (r.failures - MaxFailures) * Lockout = (p.failures + 1 - MaxFailures) * Lockout
      BY <2>1, <2>4, ServerAssumption
    <3>2. QED
      BY <2>3, <3>1
  <2>6. r.failures >= MaxFailures => (r.failures - MaxFailures + 1) * Lockout <= r.until - 1
    <3>1. CASE p.failures + 1 >= MaxFailures
      <4>1. r.until = now + Lockout
        BY <1>1, <3>1
      <4>2. (p.failures + 1 - MaxFailures + 1) * Lockout <= now + Lockout - 1
        BY <2>3, <3>1
      <4>3. (r.failures - MaxFailures + 1) * Lockout
                = (p.failures + 1 - MaxFailures + 1) * Lockout
        BY <2>1, <2>4, ServerAssumption
      <4>4. QED
        BY <2>1, <4>1, <4>2, <4>3, ServerAssumption
    <3>2. CASE ~(p.failures + 1 >= MaxFailures)
      BY <2>4, <3>2, Zenon
    <3>3. QED
      BY <3>1, <3>2
  <2>7. QED
    BY <2>5, <2>6 DEF Budgeted, Throttled
<1>2. ASSUME NEW p \in PinState, p.until <= now, Throttled(p) PROVE Budgeted(Failed(p, now), clk)
  <2>1. Failed(p, now).failures = p.failures + 1
    BY DEF Failed, PinState
  <2>2. p.failures + 1 >= MaxFailures => Failed(p, now).until = now + Lockout
    BY DEF Failed, PinState
  <2>3. QED
    BY <1>1, <1>2, <2>1, <2>2
<1>3. ASSUME NEW q \in QrState, q.until <= now, Throttled(q) PROVE Budgeted(Failed(q, now), clk)
  <2>1. Failed(q, now).failures = q.failures + 1
    BY DEF Failed, QrState
  <2>2. q.failures + 1 >= MaxFailures => Failed(q, now).until = now + Lockout
    BY DEF Failed, QrState
  <2>3. QED
    BY <1>1, <1>3, <2>1, <2>2
<1>4. QED
  BY <1>2, <1>3

\* A record without failures is within the budget.
LEMMA FreshBudgeted ==
    ASSUME NEW p, p.failures = 0, NEW clk \in Nat \ {0}
    PROVE  Budgeted(p, clk)
<1>1. 0 - MaxFailures \in Int /\ 0 - MaxFailures <= 0 /\ Lockout \in Nat /\ ~(0 >= MaxFailures)
  BY ServerAssumption
<1>2. (0 - MaxFailures) * Lockout <= 0 /\ (0 - MaxFailures) * Lockout \in Int
  BY <1>1, NoneTimes
<1>3. QED
  BY <1>1, <1>2 DEF Budgeted, Throttled

\* Time only adds to the budget.
LEMMA LaterBudgeted ==
    ASSUME NEW p, p.failures \in Nat, NEW clk \in Nat, NEW later \in Nat, clk <= later,
           Budgeted(p, clk)
    PROVE  Budgeted(p, later)
<1>1. (p.failures - MaxFailures) * Lockout \in Int
  BY ServerAssumption
<1>2. QED
  BY <1>1 DEF Budgeted

LEMMA GuessParts == GuessInv <=> Budgeted(pin, clock) /\ Budgeted(qr, clock)
  BY DEF GuessInv, GuessBudget, Budgeted

LEMMA InitGuess == Init => GuessInv
<1> SUFFICES ASSUME Init PROVE GuessInv
  OBVIOUS
<1>1. clock = 1 /\ pin.failures = 0 /\ qr.failures = 0
  BY DEF Init, NoPin, NoQr
<1>2. QED
  BY <1>1, FreshBudgeted, GuessParts

\* One step does to each record one of five things: nothing, start over, forget
\* its token, or count a wrong answer the throttle lets through.
LEMMA GuessSteps ==
    ASSUME TypeOK, [Next]_vars
    PROVE  /\ clock' >= clock
           /\ \/ pin' = pin
              \/ pin'.failures = 0
              \/ clock' = clock /\ \E now \in Readings : pin.until <= now /\ pin' = Failed(pin, now)
           /\ \/ qr' = qr
              \/ qr'.failures = 0
              \/ qr' = ClearedToken(qr)
              \/ clock' = clock /\ \E now \in Readings : qr.until <= now /\ qr' = Failed(qr, now)
<1> USE DEF history, IssuePin, FreshPin, NoPin, ClearedQr, NoQr
<1>0. clock \in Nat
  BY DEF TypeOK
<1>1. CASE Start
  BY <1>0, <1>1 DEF Start
<1>2. CASE Stop
  BY <1>0, <1>2 DEF Stop
<1>3. CASE Die
  BY <1>0, <1>3 DEF Die
<1>4. CASE Tick
  BY <1>0, <1>4 DEF Tick
<1>5. CASE CountTrusted
  BY <1>0, <1>5 DEF CountTrusted
<1>6. CASE IssueQr
  BY <1>0, <1>6 DEF IssueQr
<1>7. CASE PollQr
  BY <1>0, <1>7 DEF PollQr
<1>8. CASE RevokeAll
  BY <1>0, <1>8 DEF RevokeAll
<1>9. CASE \E token \in 1..minted : Authorize(token)
  BY <1>0, <1>9 DEF Authorize
<1>10. CASE \E t \in Threads : Request(t)
  <2> PICK t \in Threads : Request(t)
    BY <1>10
  <2>1. CASE \E b \in Browsers : PairByCode(t, b)
    BY <1>0, <2>1 DEF PairByCode
  <2>2. CASE \E b \in Browsers : PairByQr(t, b)
    BY <1>0, <2>2 DEF PairByQr
  <2>3. CASE TrustBrowser(t)
    BY <1>0, <2>3 DEF TrustBrowser
  <2>4. CASE ReplyPaired(t)
    BY <1>0, <2>4 DEF ReplyPaired
  <2>5. CASE \E token \in 1..minted : RevokeRequest(t, token)
    BY <1>0, <2>5 DEF RevokeRequest
  <2>6. CASE RevokeToken(t)
    BY <1>0, <2>6 DEF RevokeToken
  <2>7. QED
    BY <2>1, <2>2, <2>3, <2>4, <2>5, <2>6 DEF Request
<1>11. CASE UNCHANGED vars
  BY <1>0, <1>11 DEF vars
<1>12. QED
  BY <1>1, <1>2, <1>3, <1>4, <1>5, <1>6, <1>7, <1>8, <1>9, <1>10, <1>11 DEF Next

LEMMA NextGuess == TypeOK /\ TypeOK' /\ GuessInv /\ [Next]_vars => GuessInv'
<1> SUFFICES ASSUME TypeOK, TypeOK', GuessInv, [Next]_vars PROVE GuessInv'
  OBVIOUS
<1>0. /\ clock \in Nat \ {0} /\ clock' \in Nat \ {0} /\ clock' >= clock
      /\ pin \in PinState /\ qr \in QrState
      /\ pin.failures \in Nat /\ qr.failures \in Nat
      /\ Budgeted(pin, clock) /\ Budgeted(qr, clock)
      /\ Throttled(pin) /\ Throttled(qr)
  BY GuessSteps, GuessParts DEF TypeOK, PinState, QrState, Budgeted
<1>1. Budgeted(pin', clock')
  <2>1. CASE pin' = pin
    BY <1>0, <2>1, LaterBudgeted
  <2>2. CASE pin'.failures = 0
    BY <1>0, <2>2, FreshBudgeted
  <2>3. ASSUME clock' = clock, NEW now \in Readings, pin.until <= now, pin' = Failed(pin, now)
        PROVE  Budgeted(pin', clock')
    BY <1>0, <2>3, ReadingsType, FailedBudgeted
  <2>4. QED
    BY <2>1, <2>2, <2>3, GuessSteps
<1>2. Budgeted(qr', clock')
  <2>1. CASE qr' = qr
    BY <1>0, <2>1, LaterBudgeted
  <2>2. CASE qr'.failures = 0
    BY <1>0, <2>2, FreshBudgeted
  <2>3. CASE qr' = ClearedToken(qr)
    <3>1. qr'.failures = qr.failures /\ qr'.until = qr.until
      BY <1>0, <2>3 DEF ClearedToken, QrState
    <3>2. Budgeted(qr, clock')
      BY <1>0, LaterBudgeted
    <3>3. QED
      BY <3>1, <3>2 DEF Budgeted, Throttled
  <2>4. ASSUME clock' = clock, NEW now \in Readings, qr.until <= now, qr' = Failed(qr, now)
        PROVE  Budgeted(qr', clock')
    BY <1>0, <2>4, ReadingsType, FailedBudgeted
  <2>5. QED
    BY <2>1, <2>2, <2>3, <2>4, GuessSteps
<1>3. QED
  BY <1>1, <1>2 DEF GuessInv, GuessBudget, Budgeted, Throttled

\* The lockout bounds guessing for any limit, any period and readings of any
\* age: each wrong answer beyond the limit has cost a whole period.
THEOREM GuessBudgetAlways == Spec => []GuessBudget
<1>1. Init => TypeOK /\ GuessInv
  BY InitType, InitGuess
<1>2. TypeOK /\ GuessInv /\ [Next]_vars => TypeOK' /\ GuessInv'
  BY NextType, NextGuess
<1>3. GuessInv => GuessBudget
  BY DEF GuessInv
<1>4. QED
  BY <1>1, <1>2, <1>3, PTL DEF Spec

-----------------------------------------------------------------------------
(* The store holds what it has room for, and the file what can be read back *)

\* A table of auth.c: CS_TRUST_STORE_CAPACITY rows at most, one for a browser.
Fits(store) ==
    /\ IsFiniteSet(store)
    /\ Cardinality(store) <= Capacity
    /\ \A i, j \in store : i.browser = j.browser => i = j

BothFit(T) == Fits(T.mem) /\ Fits(T.file)

StoreFits == BothFit(trust)

LEMMA EmptyFits == Fits({})
  BY FS_EmptySet, StoreAssumption DEF Fits

LEMMA FewerFit ==
    ASSUME NEW S, Fits(S), NEW R \in SUBSET S
    PROVE  Fits(R)
<1>1. IsFiniteSet(R) /\ Cardinality(R) <= Cardinality(S)
  BY FS_Subset DEF Fits
<1>2. Cardinality(R) \in Nat /\ Cardinality(S) \in Nat
  BY <1>1, FS_CardinalityType DEF Fits
<1>3. QED
  BY <1>1, <1>2, StoreAssumption DEF Fits

\* A row for a browser that has none, where there is room for it.
LEMMA OneMoreFits ==
    ASSUME NEW S \in SUBSET Item, Fits(S), Cardinality(S) < Capacity, NEW i \in Item,
           \A j \in S : j.browser # i.browser
    PROVE  Fits(S \cup {i})
<1>1. IsFiniteSet(S) /\ Cardinality(S) \in Nat
  BY FS_CardinalityType DEF Fits
<1>2. IsFiniteSet(S \cup {i}) /\ Cardinality(S \cup {i}) = Cardinality(S) + 1
  <2>1. i \notin S
    OBVIOUS
  <2>2. QED
    BY <1>1, <2>1, FS_AddElement
<1>3. Cardinality(S \cup {i}) \in Nat
  BY <1>2, FS_CardinalityType
<1>4. QED
  BY <1>1, <1>2, <1>3, StoreAssumption DEF Fits

\* cs_trust_store_add: its own row, a free one, or that of one that gives way.
LEMMA AddFits ==
    ASSUME NEW store \in SUBSET Item, Fits(store), NEW b \in Browsers, NEW token \in Nat,
           NEW now \in Nat, NEW next \in AddResults(store, b, token, now)
    PROVE  Fits(next)
<1> DEFINE others == {i \in store : i.browser # b}
           new    == NewItem(b, token, now)
<1>1. new \in Item /\ new.browser = b
  BY StoreAssumption DEF NewItem, Item
<1>2. IsFiniteSet(store) /\ Cardinality(store) \in Nat /\ Cardinality(store) <= Capacity
  BY FS_CardinalityType DEF Fits
<1>3. /\ others \in SUBSET Item /\ Fits(others)
      /\ \A j \in others : j.browser # new.browser
  BY <1>1, FewerFit
<1>4. CASE others # store \/ Cardinality(store) < Capacity
  <2>1. next = others \cup {new}
    BY <1>4 DEF AddResults
  <2>2. IsFiniteSet(others) /\ Cardinality(others) \in Nat
    BY <1>3, FS_CardinalityType DEF Fits
  <2>3. others \in SUBSET store
    OBVIOUS
  <2>4. Cardinality(others) < Capacity
    <3>1. /\ Cardinality(others) <= Cardinality(store)
          /\ Cardinality(store) = Cardinality(others) => store = others
      BY <1>2, <2>3, FS_Subset
    <3>2. QED
      BY <1>2, <1>4, <2>2, <3>1, StoreAssumption
  <2>5. QED
    BY <1>1, <1>3, <2>1, <2>4, OneMoreFits
<1>5. CASE ~(others # store \/ Cardinality(store) < Capacity)
  <2>1. PICK victim \in Oldest(store) : next = (store \ {victim}) \cup {new}
    BY <1>5 DEF AddResults
  <2>2. victim \in store
    BY DEF Oldest
  <2>3. Cardinality(store \ {victim}) < Capacity
    <3>1. Cardinality(store \ {victim}) = Cardinality(store) - 1
      BY <1>2, <2>2, FS_RemoveElement
    <3>2. QED
      BY <1>2, <3>1, StoreAssumption
  <2>4. Fits(store \ {victim}) /\ store \ {victim} \in SUBSET Item
    BY FewerFit
  <2>5. \A j \in store \ {victim} : j.browser # new.browser
    BY <1>3, <1>5
  <2>6. QED
    BY <1>1, <2>1, <2>3, <2>4, <2>5, OneMoreFits
<1>6. QED
  BY <1>4, <1>5

LEMMA FlushFits ==
    ASSUME NEW T \in Trust, NEW now, NEW force, NEW ok, BothFit(T)
    PROVE  BothFit(Flush(T, now, force, ok))
  BY FlushKeeps DEF BothFit

LEMMA SweepFits ==
    ASSUME NEW T \in Trust, NEW now \in Nat, NEW ok \in BOOLEAN, BothFit(T)
    PROVE  BothFit(Sweep(T, now, ok))
<1> DEFINE R == RemoveInactive(T, now)
<1>1. R \in Trust
  BY RemoveInactiveType
<1>2. R.mem \in SUBSET T.mem /\ R.file = T.file
  BY DEF RemoveInactive, Trust
<1>3. BothFit(R)
  BY <1>2, FewerFit DEF BothFit
<1>4. BothFit(Flush(R, now, FALSE, ok))
  <2> HIDE DEF R
  <2>1. QED
    BY <1>1, <1>3, FlushFits
<1>5. QED
  BY <1>3, <1>4 DEF Sweep

LEMMA PruneFits ==
    ASSUME NEW T \in Trust, NEW now \in Nat, NEW ok \in BOOLEAN, BothFit(T)
    PROVE  BothFit(Prune(T, now, ok))
<1> DEFINE R == [T EXCEPT !.prunedAt = now]
<1>1. R \in Trust /\ BothFit(R)
  BY DEF Trust, BothFit
<1>2. BothFit(Sweep(R, now, ok))
  BY <1>1, SweepFits
<1>3. QED
  BY <1>2 DEF Prune

LEMMA LoadFits ==
    ASSUME NEW T \in Trust, NEW now \in Nat, NEW ok \in BOOLEAN, BothFit(T)
    PROVE  BothFit(Load(T, now, ok))
<1> DEFINE R == [Unloaded(T.file) EXCEPT !.mem = T.file]
<1>1. R \in Trust /\ BothFit(R)
  BY DEF Trust, Unloaded, BothFit
<1>2. BothFit(Sweep(R, now, ok))
  BY <1>1, SweepFits
<1>3. QED
  BY <1>2 DEF Load

\* A use moves a row's last_seen_at, and makes no row.
LEMMA TouchFits ==
    ASSUME NEW T \in Trust, NEW token \in Nat, NEW now \in Nat, NEW ok \in BOOLEAN, BothFit(T)
    PROVE  BothFit(Touch(T, token, now, ok))
<1> DEFINE due == {i \in Matches(T, token, now) :
                       ~(i.seen > 0 /\ now - i.seen < TouchInterval)}
           moved(i) == [i EXCEPT !.seen = now]
           store == (T.mem \ due) \cup {moved(i) : i \in due}
           touched == [T EXCEPT !.mem = (T.mem \ due) \cup {moved(i) : i \in due},
                                !.dirty = TRUE]
           kept(i) == IF i \in due THEN moved(i) ELSE i
           f == [i \in T.mem |-> kept(i)]
<1>1. due \subseteq T.mem /\ T.mem \subseteq Item /\ T.file \subseteq Item
  BY DEF Matches, Trust
<1>2. \A i \in Item : moved(i) \in Item /\ moved(i).browser = i.browser
  BY DEF Item
<1>3. \A i \in T.mem : kept(i) \in store /\ kept(i).browser = i.browser
  BY <1>1, <1>2
<1>4. ASSUME NEW j \in store PROVE \E i \in T.mem : j = kept(i)
  <2>1. CASE j \in T.mem \ due
    BY <2>1
  <2>2. CASE j \notin T.mem \ due
    <3>1. PICK i \in due : j = moved(i)
      BY <2>2
    <3>2. QED
      BY <1>1, <3>1
  <2>3. QED
    BY <2>1, <2>2
<1>5. Fits(store)
  <2> HIDE DEF due, moved, store, kept
  <2>1. IsFiniteSet(T.mem) /\ Cardinality(T.mem) \in Nat /\ Cardinality(T.mem) <= Capacity
    BY FS_CardinalityType DEF BothFit, Fits
  <2>2. f \in [T.mem -> store]
    BY <1>3
  <2>3. \A j \in store : \E i \in T.mem : f[i] = j
    BY <1>4
  <2>4. f \in Surjection(T.mem, store)
    BY <2>2, <2>3 DEF Surjection
  <2>5. IsFiniteSet(store) /\ Cardinality(store) <= Cardinality(T.mem)
    BY <2>1, <2>4, FS_Surjection
  <2>6. Cardinality(store) \in Nat
    BY <2>5, FS_CardinalityType
  <2>7. ASSUME NEW j \in store, NEW k \in store, j.browser = k.browser PROVE j = k
    <3>1. PICK i \in T.mem : j = kept(i)
      BY <1>4
    <3>2. PICK m \in T.mem : k = kept(m)
      BY <1>4
    <3>3. i = m
      BY <1>3, <2>7, <3>1, <3>2 DEF BothFit, Fits
    <3>4. QED
      BY <3>1, <3>2, <3>3
  <2>8. QED
    BY <2>1, <2>5, <2>6, <2>7, StoreAssumption DEF Fits
<1>6. touched \in Trust /\ touched.mem = store /\ touched.file = T.file
  <2>1. store \subseteq Item
    BY <1>1, <1>2
  <2> HIDE DEF due, moved
  <2>2. QED
    BY <2>1 DEF Trust
<1>7. BothFit(touched)
  BY <1>5, <1>6 DEF BothFit
<1>8. BothFit(Flush(touched, now, FALSE, ok))
  <2> HIDE DEF touched
  <2>1. QED
    BY <1>6, <1>7, FlushFits
<1>9. QED
  BY <1>8 DEF Touch

LEMMA CommitFits ==
    ASSUME NEW T \in Trust, NEW store \in SUBSET Item, NEW now \in Nat, NEW ok \in BOOLEAN,
           BothFit(T), Fits(store)
    PROVE  /\ BothFit(Commit(T, store, now, ok))
           /\ BothFit(CommitRemoval(T, store, now, ok))
<1>1. CASE ok = TRUE
  BY <1>1, CommitShape DEF BothFit
<1>2. CASE ok = FALSE
  BY <1>2, CommitShape DEF BothFit
<1>3. QED
  BY <1>1, <1>2

LEMMA CheckCookieFits ==
    ASSUME TypeOK, StoreFits, NEW token \in Nat, NEW now \in Readings,
           NEW okPrune \in BOOLEAN, NEW okTouch \in BOOLEAN, NEW accepted \in BOOLEAN,
           CheckCookie(token, now, okPrune, okTouch, accepted)
    PROVE  StoreFits'
<1> DEFINE P == Prune(trust, now, okPrune)
<1>1. now \in Nat /\ trust \in Trust
  BY ReadingsType DEF TypeOK
<1>2. P \in Trust /\ BothFit(P)
  BY <1>1, PruneType, PruneFits DEF StoreFits
<1>3. trust' = Touch(P, token, now, okTouch)
  BY DEF CheckCookie
<1> HIDE DEF P
<1>4. QED
  BY <1>1, <1>2, <1>3, TouchFits DEF StoreFits

LEMMA NextFits == TypeOK /\ StoreFits /\ [Next]_vars => StoreFits'
<1> SUFFICES ASSUME TypeOK, StoreFits, [Next]_vars PROVE StoreFits'
  OBVIOUS
<1>0. trust \in Trust /\ clock \in Nat /\ BothFit(trust) /\ minted \in Nat
  BY DEF TypeOK, StoreFits
<1>00. \A now \in Readings : now \in Nat
  BY ReadingsType DEF TypeOK
<1>1. CASE Start
  BY <1>0, <1>1, LoadFits DEF Start, StoreFits
<1>2. CASE Stop
  BY <1>0, <1>2, FlushFits DEF Stop, StoreFits
<1>3. CASE Die
  BY <1>0, <1>3, EmptyFits DEF Die, Unloaded, BothFit, StoreFits
<1>4. CASE UNCHANGED trust
  BY <1>4 DEF StoreFits
<1>5. CASE CountTrusted
  BY <1>0, <1>00, <1>5, PruneFits DEF CountTrusted, StoreFits
<1>6. CASE RevokeAll
  <2>1. PICK ok \in BOOLEAN : trust' = CommitRemoval(trust, {}, clock, ok)
    BY <1>6 DEF RevokeAll
  <2>2. QED
    BY <1>0, <2>1, EmptyFits, CommitFits DEF StoreFits
<1>7. CASE \E token \in 1..minted : Authorize(token)
  BY <1>0, <1>7, CheckCookieFits DEF Authorize
<1>8. CASE \E t \in Threads : Request(t)
  <2> PICK t \in Threads : Request(t)
    BY <1>8
  <2>1. CASE TrustBrowser(t)
    <3>1. PICK now \in Readings, okPrune \in BOOLEAN, okCommit \in BOOLEAN :
            \E next \in AddResults(Prune(trust, now, okPrune).mem, thr[t].browser, minted + 1, clock) :
                trust' = Commit(Prune(trust, now, okPrune), next, now, okCommit)
      BY <2>1 DEF TrustBrowser
    <3> DEFINE P == Prune(trust, now, okPrune)
    <3>2. PICK next \in AddResults(P.mem, thr[t].browser, minted + 1, clock) :
              trust' = Commit(P, next, now, okCommit)
      BY <3>1
    <3>3. P \in Trust /\ BothFit(P)
      BY <1>0, <1>00, PruneType, PruneFits
    <3>4. thr[t].browser \in Browsers
      BY <2>1 DEF TypeOK, ThreadState, TrustBrowser
    <3> HIDE DEF P
    <3>5. P.mem \in SUBSET Item /\ Fits(P.mem)
      BY <3>3 DEF Trust, BothFit
    <3>6. next \in SUBSET Item /\ Fits(next)
      BY <1>0, <3>4, <3>5, AddType, AddFits
    <3>7. QED
      BY <1>00, <3>2, <3>3, <3>6, CommitFits DEF StoreFits
  <2>2. CASE ReplyPaired(t)
    BY <1>0, <1>00, <2>2, PruneFits DEF ReplyPaired, StoreFits
  <2>3. CASE \E token \in 1..minted : RevokeRequest(t, token)
    BY <1>0, <2>3, CheckCookieFits DEF RevokeRequest
  <2>4. CASE RevokeToken(t)
    <3>1. PICK okPrune \in BOOLEAN, okCommit \in BOOLEAN :
            LET pruned == Prune(trust, clock, okPrune)
                next   == RemoveToken(pruned.mem, thr[t].token) IN
            IF next = pruned.mem THEN trust' = pruned
            ELSE trust' = CommitRemoval(pruned, next, clock, okCommit)
      BY <2>4 DEF RevokeToken
    <3> DEFINE P == Prune(trust, clock, okPrune)
               next == RemoveToken(P.mem, thr[t].token)
    <3>2. P \in Trust /\ BothFit(P)
      BY <1>0, PruneType, PruneFits
    <3>3. next \in SUBSET Item /\ Fits(next)
      BY <3>2, FewerFit DEF RemoveToken, Trust, BothFit
    <3>4. trust' = P \/ trust' = CommitRemoval(P, next, clock, okCommit)
      BY <3>1
    <3> HIDE DEF P, next
    <3>5. QED
      BY <1>0, <3>2, <3>3, <3>4, CommitFits DEF StoreFits
  <2>5. CASE \E b \in Browsers : PairByCode(t, b) \/ PairByQr(t, b)
    BY <2>5 DEF PairByCode, PairByQr, StoreFits
  <2>6. QED
    BY <2>1, <2>2, <2>3, <2>4, <2>5 DEF Request
<1>9. QED
  BY <1>1, <1>2, <1>3, <1>4, <1>5, <1>6, <1>7, <1>8 DEF Next, vars, Tick, IssueQr, PollQr

\* Neither memory nor the file ever has more rows than the table of auth.c has
\* room for, nor two rows for one browser: a browser that pairs again takes its
\* own row, and a full table gives up the row that expires first, whatever is
\* loaded, touched, pruned or half saved in between.
THEOREM StoreFitsAlways == Spec => []StoreFits
<1>1. Init => StoreFits
  BY EmptyFits DEF Init, Unloaded, StoreFits, BothFit
<1>2. QED
  BY <1>1, TypeCorrect, NextFits, PTL DEF Spec

\* As long as no more than 28 browsers ever pair, which is what the parser of
\* auth.c has tokens for, the server can load at its next start whatever it
\* saved: its rows are of different browsers, however often each pairs, is
\* refused, revoked or pruned, and whatever saves fail. With more of them the
\* table, which has room for 32, may grow past what can be read back.
THEOREM FileLoadsAlways ==
    ASSUME IsFiniteSet(Browsers), 3 + 9 * Cardinality(Browsers) <= JsmnTokens
    PROVE  Spec => []FileLoads
<1>1. TypeOK /\ StoreFits => FileLoads
  <2> SUFFICES ASSUME TypeOK, StoreFits PROVE Loadable(trust.file)
    BY DEF FileLoads
  <2> DEFINE owner == [i \in trust.file |-> i.browser]
  <2>1. trust.file \in SUBSET Item /\ Fits(trust.file)
    BY DEF TypeOK, Trust, StoreFits, BothFit
  <2>2. owner \in Injection(trust.file, Browsers)
    <3>1. owner \in [trust.file -> Browsers]
      BY <2>1 DEF Item
    <3>2. \A i, j \in trust.file : owner[i] = owner[j] => i = j
      BY <2>1 DEF Fits
    <3>3. QED
      BY <3>1, <3>2 DEF Injection, IsInjective
  <2> HIDE DEF owner
  <2>3. Cardinality(trust.file) <= Cardinality(Browsers)
    BY <2>2, FS_Injection
  <2>4. Cardinality(trust.file) \in Nat /\ Cardinality(Browsers) \in Nat
    BY <2>1, FS_CardinalityType DEF Fits
  <2>5. QED
    BY <2>3, <2>4, StoreAssumption DEF Loadable
<1>2. QED
  BY <1>1, TypeCorrect, StoreFitsAlways, PTL

=============================================================================
