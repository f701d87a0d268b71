-------------------------- MODULE IdentitySealedProofs --------------------------
(***************************************************************************)
(* No sealed scalar is used that is not stored: where one page seals and   *)
(* restores, no forget races and no mint mistakes the live identity, what  *)
(* the page serves from memory is what is on disk.                         *)
(***************************************************************************)
EXTENDS IdentityHistoryProofs, FiniteSetTheorems

\* The scalars a page keeps, in the memo and in the cache.
Entries(t) == tab[t].memo \cup {tab[t].sealed}

\* Only pages that sealed or restored keep scalars, or run such calls.
SealerInv ==
    /\ IsFiniteSet(sealers)
    /\ \A t \in Tab : tab[t].memo # {} \/ tab[t].sealed # NoSealed => t \in sealers
    /\ \A c \in Call : ~Ended(call[c]) /\ call[c].kind \in {"sealed", "replace"} => call[c].tab \in sealers

\* A page's epoch only grows, so that a sampled one is no later: the mint's
\* sample is taken after the call's.
EpochInv ==
    /\ \A t \in Tab : \A s \in Entries(t) : s.epoch <= tab[t].epoch
    /\ \A c \in Call : ~Ended(call[c]) /\ call[c].kind = "sealed" =>
          /\ call[c].epoch <= T(c).epoch
          /\ InLock(call[c]) => call[c].epoch <= call[c].mark /\ call[c].mark <= T(c).epoch

\* A call that waits, waits for one of the same page and the same epoch.
JoinInv ==
    \A d \in Call : call[d].pc = "sealedJoin" =>
        LET f == call[call[d].mark]
        IN /\ f.kind = "sealed" /\ f.pc \in SealingPc \cup {"lock"}
           /\ f.tab = call[d].tab /\ f.epoch = call[d].epoch

\* The identity that call v may mint has not left it: nobody asks for its
\* scalar, and it is stored only while v ends.
Unborn(v) == call[v].pc = "idle" \/ (call[v].kind = "identity" /\ call[v].pc # "done")

UnbornInv ==
    \A v \in Call : Unborn(v) =>
        /\ \A t \in Tab : v \notin tab[t].held /\ \A s \in Entries(t) : s.owner # v
        /\ \A d \in Call : call[d].owner # v /\ call[d].stored.id # v
        /\ row["device"].id = v => call[v].pc \in After

SInv == SealerInv /\ EpochInv /\ JoinInv /\ UnbornInv

\* Page t may come to have identity o without another mint or restore.
Claimed(t, o) == /\ o # None
                 /\ \/ o = row["device"].id
                    \/ o = tab[t].id
                    \/ \E d \in Call : Resolving(call[d]) /\ call[d].tab = t /\ o = call[d].stored.id

Stored(id, o) == row["sealed"].id = id /\ row["sealed"].owner = o

\* The scalars of such an identity that page t has under its present epoch, or
\* is about to have, are stored.
Durable(t) ==
    /\ \A s \in Entries(t) : Claimed(t, s.owner) /\ s.epoch = tab[t].epoch => Stored(s.id, s.owner)
    /\ \A c \in Call : call[c].tab = t =>
          /\ call[c].pc = "sealedGot" /\ call[c].epoch = tab[t].epoch /\ Claimed(t, call[c].owner) =>
                Stored(call[c].got.id, call[c].owner)
          /\ call[c].pc = "sealedRead" /\ call[c].mark = tab[t].epoch => call[c].got = row["sealed"]
          /\ call[c].pc = "sealedSaved" /\ call[c].mark = tab[t].epoch => Stored(c, call[c].owner)

\* Page t has no scalar under its present epoch, nor is about to have one.
Spent(t) ==
    /\ \A s \in Entries(t) : s.owner # None => s.epoch # tab[t].epoch
    /\ \A d \in Call : call[d].pc = "sealedGot" /\ call[d].tab = t => call[d].epoch # tab[t].epoch

\* While a call that has stored its identity ends, nobody has the scalar of the
\* stored one: it is the call's own, or that of a restore which has moved the
\* page's epoch, and no scalar is had since without the lock.
Gone(t) == \A c \in Call : call[c].pc \in After => row["device"].id = c \/ Spent(t)

OneSealer == \A t, u \in sealers : t = u
Sure      == ~raced /\ ~mistaken /\ OneSealer

DurableInv == Sure => \A t \in sealers : ~Moving(t) => Durable(t) /\ Gone(t)

-----------------------------------------------------------------------------
(* What a call other than the sealed one's leaves of this *)

\* Call c goes on or ends, and page by page at most forgets; with the scalar
\* of the page's caller it does nothing.
Frame(c) ==
    /\ ~Ended(call[c]) /\ Alone(c) /\ UNCHANGED sealers
    /\ call'[c].kind = call[c].kind /\ call'[c].owner = call[c].owner /\ call'[c].pc # "idle"
    /\ Ended(call'[c]) \/ (call'[c].tab = call[c].tab /\ call'[c].epoch = call[c].epoch /\ call'[c].mark = call[c].mark)
    /\ call[c].kind = "sealed" => call[c].pc \in KekPc /\ call'[c].pc \in KekPc \cup {"sealedRow"}
    /\ call[c].pc \in After => call'[c].pc \in After \cup {"done"}
    /\ call'[c].stored.id \in {None, call[c].stored.id} \/ (lock = None /\ call'[c].stored = row["device"])
    /\ \/ row'["device"].id \in {None, row["device"].id, call[c].owner}
       \/ row'["device"].id = c /\ call'[c].pc \in After
    /\ \A t \in Tab : /\ tab'[t].memo = tab[t].memo /\ tab'[t].sealed \in {tab[t].sealed, NoSealed}
                      /\ tab[t].epoch <= tab'[t].epoch
                      /\ tab'[t].held \subseteq tab[t].held \cup {call[c].stored.id, c}
                      /\ c \in tab'[t].held => c \in tab[t].held \/ call'[c].pc = "done"

LEMMA Epochs ==
    ASSUME IInv
    PROVE  /\ \A t \in Tab : tab[t].epoch \in Nat /\ \A s \in Entries(t) : s.epoch \in Nat
           /\ \A c \in Call : call[c].epoch \in Nat /\ call[c].mark \in Nat
  BY DEF IInv, TabInv, CallInv, TabType, CallType, Entries, Scalar, Epoch

\* A waiting call is one that asks for a scalar.
LEMMA JoinCall ==
    ASSUME IInv, NEW c \in Call, call[c].pc \in {"sealedJoin", "sealedRow", "sealedRead", "sealedSaved", "sealedGot"}
    PROVE  /\ ~Ended(call[c]) /\ call[c].kind = "sealed" /\ call[c].tab \in Tab /\ T(c) = tab[call[c].tab]
           /\ call[c] \in CallType /\ call[c].owner # None
           /\ call[c].pc \in {"sealedRow", "sealedRead", "sealedSaved"} => InLock(call[c])
<1>1. ~Ended(call[c])
  BY DEF Ended
<1>2. call[c].pc \in PcOf(call[c].kind) /\ call[c].kind \in Kind /\ call[c].tab \in Tab /\ T(c) = tab[call[c].tab]
      /\ call[c] \in CallType /\ PairSane(c, call[c], saved)
  BY <1>1, Suspended DEF CallType
<1>3. call[c].kind = "sealed"
  BY <1>2 DEF PcOf, KekPc, Kind, ClearNext
<1> QED
  BY <1>1, <1>2, <1>3 DEF PairSane, InLock, SealingPc

LEMMA FrameKeeps ==
    ASSUME IInv, IInv', HInv, SInv, NEW c \in Call, Frame(c)
    PROVE  SInv'
<1>1. /\ ~Ended(call[c]) /\ call[c].tab \in Tab /\ T(c) = tab[call[c].tab] /\ call[c].pc # "idle"
  BY Suspended DEF Frame, Ended
<1>2. \A t \in Tab : \A s \in Entries(t)' : s \in Entries(t) \/ s = NoSealed
  BY DEF Frame, Entries
<1>3. NoSealed.owner = None /\ NoSealed.epoch = 0
  BY DEF NoSealed
<1>4. SealerInv'
  BY <1>1 DEF SInv, SealerInv, Frame, Alone
<1>5. \A d \in Call : ~Ended(call'[d]) => call[d].tab \in Tab /\ T(d)' = tab'[call[d].tab] /\ T(d) = tab[call[d].tab]
                                          /\ ~Ended(call[d])
  <2> SUFFICES ASSUME NEW d \in Call, ~Ended(call'[d])
               PROVE  ~Ended(call[d]) /\ call'[d].tab = call[d].tab
    BY Suspended DEF T
  <2> QED
    BY DEF Frame, Alone
<1>6. EpochInv'
  <2>1. ASSUME NEW t \in Tab, NEW s \in Entries(t)'
        PROVE  s.epoch <= tab'[t].epoch
    BY <1>2, <1>3, Epochs DEF SInv, EpochInv, Frame, IInv, TabInv, TabType, Epoch
  <2>2. ASSUME NEW d \in Call, ~Ended(call'[d]), call'[d].kind = "sealed"
        PROVE  /\ call'[d].epoch <= T(d)'.epoch
               /\ InLock(call'[d]) => call'[d].epoch <= call'[d].mark /\ call'[d].mark <= T(d)'.epoch
    <3>1. /\ ~Ended(call[d]) /\ call[d].kind = "sealed" /\ call'[d].epoch = call[d].epoch /\ call'[d].mark = call[d].mark
          /\ InLock(call'[d]) => InLock(call[d])
      BY <2>2 DEF Frame, Alone, InLock, SealingPc
    <3>2. /\ call[d].epoch <= T(d).epoch
          /\ InLock(call[d]) => call[d].epoch <= call[d].mark /\ call[d].mark <= T(d).epoch
      BY <3>1 DEF SInv, EpochInv
    <3>3. T(d).epoch <= T(d)'.epoch /\ T(d).epoch \in Nat /\ T(d)'.epoch \in Nat
      BY <1>5, <2>2, Epochs DEF Frame, IInv, TabInv, TabType, Epoch
    <3> QED
      BY <3>1, <3>2, <3>3, Epochs
  <2> QED
    BY <2>1, <2>2 DEF EpochInv
<1>7. JoinInv'
  <2> SUFFICES ASSUME NEW d \in Call, call'[d].pc = "sealedJoin"
               PROVE  LET f == call'[call'[d].mark]
                      IN /\ f.kind = "sealed" /\ f.pc \in SealingPc \cup {"lock"}
                         /\ f.tab = call'[d].tab /\ f.epoch = call'[d].epoch
    BY DEF JoinInv
  <2>1. call'[d] = call[d]
    <3>1. call'[d].pc \in PcOf(call'[d].kind) /\ call'[d].kind \in Kind
      BY DEF IInv, CallInv, Shape, Ended, CallType
    <3>2. call'[d].kind = "sealed"
      BY <3>1 DEF PcOf, KekPc, Kind, ClearNext
    <3> QED
      BY <3>2 DEF Frame, Alone, KekPc
  <2>2. call[d].mark \in Call
    BY <2>1 DEF IInv, CallInv, SealedSane
  <2>3. call[d].mark = c => call'[c].pc \in SealingPc /\ ~Ended(call'[c])
    BY <2>1 DEF SInv, JoinInv, Frame, SealingPc, KekPc, Ended
  <2> QED
    BY <2>1, <2>2, <2>3 DEF SInv, JoinInv, Frame, Alone
<1>8. UnbornInv'
  <2> SUFFICES ASSUME NEW v \in Call, Unborn(v)'
               PROVE  /\ \A t \in Tab : v \notin tab'[t].held /\ \A s \in Entries(t)' : s.owner # v
                      /\ \A d \in Call : call'[d].owner # v /\ call'[d].stored.id # v
                      /\ row'["device"].id = v => call'[v].pc \in After
    BY DEF UnbornInv
  <2>1. Unborn(v) /\ v # None
    BY <1>1, Numbers DEF Unborn, Frame, Alone, Ended
  <2>2. /\ \A t \in Tab : v \notin tab[t].held /\ \A s \in Entries(t) : s.owner # v
        /\ \A d \in Call : call[d].owner # v /\ call[d].stored.id # v
        /\ row["device"].id = v => call[v].pc \in After
    BY <2>1 DEF SInv, UnbornInv
  <2>3. v = c => call'[c].pc # "done"
    BY <1>1 DEF Unborn, Frame
  <2>4. lock = None => row["device"].id # v
    BY <2>1, <2>2 DEF HInv, LockHeld, InLock
  <2> QED
    BY <1>2, <1>3, <2>1, <2>2, <2>3, <2>4 DEF Frame, Alone
<1> QED
  BY <1>4, <1>6, <1>7, <1>8 DEF SInv

\* What nobody knows yet, nobody has a scalar of.
LEMMA DurableKept ==
    ASSUME IInv, IInv', SInv, NEW t \in Tab, Durable(t), row'["sealed"] = row["sealed"],
           tab'[t].memo = tab[t].memo, tab'[t].sealed \in {tab[t].sealed, NoSealed}, tab'[t].epoch = tab[t].epoch,
           \A d \in Call : call'[d] = call[d] \/ call'[d].pc \notin {"sealedRead", "sealedSaved", "sealedGot"},
           \A o : Claimed(t, o)' => Claimed(t, o) \/ (o \in Call /\ Unborn(o))
    PROVE  Durable(t)'
<1>1. ASSUME NEW s \in Entries(t)', Claimed(t, s.owner)', s.epoch = tab'[t].epoch
      PROVE  Stored(s.id, s.owner)'
  <2>1. s \in Entries(t)
    BY <1>1 DEF Entries, NoSealed, Claimed
  <2>2. Claimed(t, s.owner)
    BY <1>1, <2>1 DEF SInv, UnbornInv
  <2> QED
    BY <1>1, <2>1, <2>2 DEF Durable, Stored
<1>2. ASSUME NEW d \in Call, call'[d].tab = t
      PROVE  /\ call'[d].pc = "sealedGot" /\ call'[d].epoch = tab'[t].epoch /\ Claimed(t, call[d].owner)' =>
                   Stored(call[d].got.id, call[d].owner)'
             /\ call'[d].pc = "sealedRead" /\ call'[d].mark = tab'[t].epoch => call'[d].got = row'["sealed"]
             /\ call'[d].pc = "sealedSaved" /\ call'[d].mark = tab'[t].epoch => Stored(d, call[d].owner)'
  <2>1. CASE call'[d] = call[d]
    <3>1. Claimed(t, call[d].owner)' => Claimed(t, call[d].owner)
      BY <2>1 DEF SInv, UnbornInv
    <3> QED
      BY <1>2, <2>1, <3>1 DEF Durable, Stored
  <2>2. CASE call'[d].pc \notin {"sealedRead", "sealedSaved", "sealedGot"}
    BY <2>2
  <2> QED
    BY <2>1, <2>2
<1> QED
  BY <1>1, <1>2 DEF Durable

\* The identity of page t moves.
Moved(t) == tab[t].epoch < tab'[t].epoch /\ tab'[t].sealed = NoSealed

\* The identity moves, and what the page has is of an earlier epoch.
LEMMA DurableMoved ==
    ASSUME IInv, IInv', SInv, NEW t \in Tab, Moved(t), tab'[t].memo = tab[t].memo,
           \A d \in Call : call'[d] = call[d] \/ call'[d].pc \notin {"sealedRead", "sealedSaved", "sealedGot"}
    PROVE  Durable(t)'
<1>1. tab[t].epoch \in Nat /\ tab'[t].epoch \in Nat
  BY DEF IInv, TabInv, TabType, Epoch
<1>2. ASSUME NEW s \in Entries(t)', Claimed(t, s.owner)'
      PROVE  s.epoch # tab'[t].epoch
  <2>1. s \in Entries(t) /\ s.epoch \in Nat
    BY <1>2, Epochs DEF Entries, NoSealed, Claimed, Moved
  <2> QED
    BY <1>1, <2>1 DEF SInv, EpochInv, Moved
<1>3. ASSUME NEW d \in Call, call'[d].tab = t, call'[d].pc \in {"sealedRead", "sealedSaved", "sealedGot"}
      PROVE  call'[d].epoch # tab'[t].epoch /\ (call'[d].pc # "sealedGot" => call'[d].mark # tab'[t].epoch)
  <2>1. call'[d] = call[d] /\ T(d) = tab[t] /\ ~Ended(call[d]) /\ call[d].kind = "sealed"
        /\ (call[d].pc # "sealedGot" => InLock(call[d]))
    BY <1>3, JoinCall
  <2>2. call[d].epoch <= tab[t].epoch /\ (call[d].pc # "sealedGot" => call[d].mark <= tab[t].epoch)
    BY <2>1 DEF SInv, EpochInv
  <2> QED
    BY <1>1, <2>1, <2>2, Epochs DEF Moved
<1> QED
  BY <1>2, <1>3 DEF Durable

\* The same of what the page has no scalar for.
LEMMA SpentMoved ==
    ASSUME IInv, IInv', SInv, NEW t \in Tab, Moved(t), tab'[t].memo = tab[t].memo,
           \A d \in Call : call'[d] = call[d] \/ call'[d].pc # "sealedGot"
    PROVE  Spent(t)'
<1>1. tab[t].epoch \in Nat /\ tab'[t].epoch \in Nat
  BY DEF IInv, TabInv, TabType, Epoch
<1>2. ASSUME NEW s \in Entries(t)', s.owner # None
      PROVE  s.epoch # tab'[t].epoch
  <2>1. s \in Entries(t) /\ s.epoch \in Nat
    BY <1>2, Epochs DEF Entries, NoSealed, Moved
  <2> QED
    BY <1>1, <2>1 DEF SInv, EpochInv, Moved
<1>3. ASSUME NEW d \in Call, call'[d].tab = t, call'[d].pc = "sealedGot"
      PROVE  call'[d].epoch # tab'[t].epoch
  <2>1. call'[d] = call[d] /\ T(d) = tab[t] /\ ~Ended(call[d]) /\ call[d].kind = "sealed"
    BY <1>3, JoinCall
  <2> QED
    BY <1>1, <2>1, Epochs DEF SInv, EpochInv, Moved
<1> QED
  BY <1>2, <1>3 DEF Spent

LEMMA GoneKept ==
    ASSUME NEW t \in Tab, Gone(t), tab'[t].memo = tab[t].memo, tab'[t].sealed \in {tab[t].sealed, NoSealed},
           tab'[t].epoch = tab[t].epoch,
           \A d \in Call : call'[d] = call[d] \/ call'[d].pc # "sealedGot",
           \A d \in Call : call'[d].pc \in After =>
              row'["device"].id = d \/ (call[d].pc \in After /\ row'["device"].id = row["device"].id)
    PROVE  Gone(t)'
<1>1. Spent(t) => Spent(t)'
  BY DEF Spent, Entries, NoSealed
<1> QED
  BY <1>1 DEF Gone

\* Nobody ends a call that has stored its identity while another has the lock.
LEMMA NobodyAfter ==
    ASSUME HInv, NEW c \in Call, lock = None \/ (InLock(call[c]) /\ call[c].pc \notin After), NEW d \in Call
    PROVE  call[d].pc \notin After
  BY Numbers DEF HInv, LockHeld, InLock

MovingPc == {"pairSaved", "restoreSealed", "restoreEnd"}

\* Call c, which leaves the scalars alone, brings no page an identity it did
\* not have a claim to, or that nobody knows yet.
Steady(c) ==
    /\ UNCHANGED <<raced, mistaken>> /\ row'["sealed"] = row["sealed"]
    /\ call[c].pc \in MovingPc => call'[c].pc \in MovingPc \/ Moved(call[c].tab)
    /\ \/ row'["device"].id = row["device"].id
       \/ row'["device"].id = c /\ Unborn(c) /\ InLock(call[c]) /\ call[c].pc \notin After
    /\ call'[c].pc \in After => call[c].pc \in After \/ row'["device"].id = c
    /\ Resolving(call'[c]) => \/ Resolving(call[c]) /\ call'[c].stored = call[c].stored
                              \/ call'[c].stored = row["device"]
    /\ \A t \in Tab : \/ Moved(t)
                      \/ /\ tab'[t].sealed = tab[t].sealed /\ tab'[t].epoch = tab[t].epoch
                         /\ \/ tab'[t].id \in {tab[t].id, None}
                            \/ t = call[c].tab /\ Resolving(call[c]) /\ tab'[t].id = call[c].stored.id
                            \/ tab'[t].id = c /\ Unborn(c)

LEMMA SteadyKeeps ==
    ASSUME IInv, IInv', HInv, SInv, DurableInv, NEW c \in Call, Frame(c), Steady(c)
    PROVE  SInv' /\ DurableInv'
<1>1. SInv'
  BY FrameKeeps
<1> SUFFICES ASSUME Sure', NEW t \in sealers', ~Moving(t)'
             PROVE  Durable(t)' /\ Gone(t)'
  BY <1>1 DEF DurableInv
<1>2. t \in Tab /\ t \in sealers /\ ~Ended(call[c]) /\ call[c].tab \in Tab
  BY Suspended DEF Frame, IInv, RestOK, HistoryOK
<1>3. Sure
  BY DEF Sure, OneSealer, Frame, Steady
<1>4. ASSUME NEW d \in Call, call[d].tab = t, call[d].pc \in MovingPc
      PROVE  Moving(t)' \/ Moved(t)
  <2>1. Moved(t) \/ (call'[d].tab = t /\ call'[d].pc \in MovingPc)
    BY <1>4 DEF Frame, Alone, Steady, MovingPc, Ended
  <2> QED
    BY <2>1 DEF Moving, MovingPc
<1>5. call'[c].pc \notin {"sealedRead", "sealedSaved", "sealedGot"}
  <2>1. CASE call[c].kind = "sealed"
    BY <2>1 DEF Frame, KekPc
  <2>2. CASE call[c].kind # "sealed"
    <3>1. Ended(call'[c]) \/ (call'[c].pc \in PcOf(call'[c].kind) /\ call'[c].kind \in Kind)
      BY DEF IInv, CallInv, Shape, CallType
    <3> QED
      BY <2>2, <3>1 DEF Frame, PcOf, KekPc, Kind, ClearNext, Ended
  <2> QED
    BY <2>1, <2>2
<1>6. CASE Moved(t)
  BY <1>2, <1>5, <1>6, DurableMoved, SpentMoved DEF Frame, Alone, Gone
<1>7. CASE ~Moved(t)
  <2>1. Durable(t) /\ Gone(t)
    BY <1>2, <1>3, <1>4, <1>7 DEF DurableInv, Moving, MovingPc
  <2>2. ASSUME NEW o, Claimed(t, o)'
        PROVE  Claimed(t, o) \/ (o \in Call /\ Unborn(o))
    <3>1. CASE o = row'["device"].id \/ o = tab'[t].id
      BY <1>2, <1>7, <2>2, <3>1 DEF Claimed, Steady
    <3>2. CASE \E d \in Call : Resolving(call'[d]) /\ call'[d].tab = t /\ o = call'[d].stored.id
      <4> PICK d \in Call : Resolving(call'[d]) /\ call'[d].tab = t /\ o = call'[d].stored.id
        BY <3>2
      <4>1. ~Ended(call'[d])
        BY DEF Resolving, KekPc, Ended
      <4>2. \/ Resolving(call[d]) /\ call[d].tab = t /\ call'[d].stored = call[d].stored
            \/ o = row["device"].id
        BY <4>1 DEF Frame, Alone, Steady
      <4> QED
        BY <2>2, <4>2 DEF Claimed
    <3> QED
      BY <2>2, <3>1, <3>2 DEF Claimed
  <2>3. Durable(t)'
    BY <1>2, <1>5, <1>7, <2>1, <2>2, DurableKept DEF Frame, Steady, Alone
  <2>4. ASSUME NEW d \in Call, call'[d].pc \in After
        PROVE  row'["device"].id = d \/ (call[d].pc \in After /\ row'["device"].id = row["device"].id)
    BY <2>4, NobodyAfter DEF Frame, Steady, Alone
  <2>5. Gone(t)'
    BY <1>2, <1>5, <1>7, <2>1, <2>4, GoneKept DEF Frame, Steady, Alone
  <2> QED
    BY <2>3, <2>5
<1> QED
  BY <1>6, <1>7

-----------------------------------------------------------------------------
(* The wrapping key, the identity, the Noise keypair *)

\* No page changes what it keeps of scalars and identities, but may drop its own.
TabsQuiet == \A t \in Tab : /\ tab'[t].memo = tab[t].memo /\ tab'[t].sealed = tab[t].sealed
                            /\ tab'[t].epoch = tab[t].epoch /\ tab'[t].held = tab[t].held
                            /\ tab'[t].id \in {tab[t].id, None}

RowsQuiet == row'["device"] = row["device"] /\ row'["sealed"] = row["sealed"]

\* A call goes on, and that is all.
LEMMA GoesQuietly ==
    ASSUME IInv, IInv', HInv, SInv, DurableInv, NEW c \in Call, ~Ended(call[c]), Alone(c), Same(call'[c], call[c]),
           TabsQuiet, RowsQuiet, UNCHANGED <<raced, mistaken, sealers>>, call'[c].pc # "idle",
           call[c].kind = "sealed" => call[c].pc \in KekPc /\ call'[c].pc \in KekPc \cup {"sealedRow"},
           call[c].pc \in After <=> call'[c].pc \in After,
           call[c].pc \in MovingPc => call'[c].pc \in MovingPc,
           Resolving(call'[c]) => Resolving(call[c])
    PROVE  SInv' /\ DurableInv'
<1>1. \A t \in Tab : tab[t].epoch \in Nat
  BY Epochs
<1>2. Frame(c)
  BY <1>1 DEF Frame, Same, TabsQuiet, RowsQuiet
<1>3. Steady(c)
  BY DEF Steady, Same, TabsQuiet, RowsQuiet
<1> QED
  BY <1>2, <1>3, SteadyKeeps

\* A call other than the sealed one's ends, and that is all.
LEMMA EndsQuietly ==
    ASSUME IInv, IInv', HInv, SInv, DurableInv, NEW c \in Call, ~Ended(call[c]), call[c].kind # "sealed", Finish(c),
           TabsQuiet, RowsQuiet, UNCHANGED <<raced, mistaken, sealers>>, call[c].pc \notin MovingPc
    PROVE  SInv' /\ DurableInv'
<1>1. \A t \in Tab : tab[t].epoch \in Nat
  BY Epochs
<1>2. /\ Alone(c) /\ Ended(call'[c]) /\ call'[c].pc = "done" /\ call'[c].kind = call[c].kind
      /\ call'[c].owner = call[c].owner /\ call'[c].stored.id = None /\ ~Resolving(call'[c])
  BY FinishLeaves DEF Finish, Over, IdleCall, IInv, CallInv, NoRow, Harmless, InLock
<1>3. Frame(c)
  BY <1>1, <1>2 DEF Frame, TabsQuiet, RowsQuiet
<1>4. Steady(c)
  BY <1>2 DEF Steady, TabsQuiet, RowsQuiet, After
<1> QED
  BY <1>3, <1>4, SteadyKeeps

LEMMA KekDurable ==
    ASSUME IInv, IInv', HInv, SInv, DurableInv, NEW c \in Call, Kek(c)
    PROVE  SInv' /\ DurableInv'
<1>1. /\ RowsQuiet /\ UNCHANGED <<raced, mistaken, sealers>> /\ call[c].pc \in KekPc
  BY DEF Kek, KekLoaded, KekAdopt, KekMint, KekSaved, RowsQuiet, store, hist, KekPc
<1>2. TabsQuiet
  BY <1>1, KekCall DEF TabsQuiet, Kek, KekLoaded, KekAdopt, KekMint, KekSaved, IInv, TabInv, TabType
<1>3. /\ Alone(c) /\ Same(call'[c], call[c])
      /\ call'[c].pc \in {"legacyRow", "kekSaved", AfterKek(call[c])}
  <2>1. CASE KekLoaded(c) \/ KekSaved(c)
    BY <2>1, HasKekLeaves, ReadLeaves DEF KekLoaded, KekSaved
  <2>2. CASE KekAdopt(c) \/ KekMint(c)
    BY <2>2 DEF KekAdopt, KekMint, Alone, Same, IInv, CallInv, CallType
  <2> QED
    BY <2>1, <2>2 DEF Kek
<1>4. /\ call[c].kind \in {"identity", "sealed", "noise", "replace"} /\ ~Ended(call[c])
      /\ call[c].kind = "sealed" => AfterKek(call[c]) = "sealedRow"
  BY <1>1, KekCall DEF AfterKek
<1> QED
  BY <1>1, <1>2, <1>3, <1>4, GoesQuietly DEF KekPc, After, MovingPc, Resolving, Same, AfterKek

\* A page gets an identity the call has read, or has minted.
LEMMA ResolvesQuietly ==
    ASSUME IInv, IInv', HInv, SInv, DurableInv, NEW c \in Call, NEW id, Resolve(c, id), call[c].kind = "identity",
           RowsQuiet, UNCHANGED <<raced, mistaken, sealers>>, ~Ended(call[c]), call[c].pc \notin MovingPc,
           id = c \/ (Resolving(call[c]) /\ id = call[c].stored.id)
    PROVE  SInv' /\ DurableInv'
<1>1. /\ \A t \in Tab : tab[t].epoch \in Nat
      /\ T(c) \in TabType /\ call[c].tab \in Tab /\ T(c) = tab[call[c].tab] /\ tab \in [Tab -> TabType]
  BY Epochs, Suspended DEF IInv, TabInv
<1>2. /\ Alone(c) /\ Ended(call'[c]) /\ call'[c].pc = "done" /\ call'[c].kind = call[c].kind
      /\ call'[c].owner = call[c].owner /\ call'[c].stored.id = None /\ ~Resolving(call'[c])
  BY FinishLeaves DEF Resolve, Finish, Over, IdleCall, IInv, CallInv, NoRow, Harmless, InLock
<1>3. \A t \in Tab : /\ tab'[t].memo = tab[t].memo /\ tab'[t].sealed = tab[t].sealed
                     /\ tab'[t].epoch = tab[t].epoch /\ tab'[t].held \subseteq tab[t].held \cup {id}
                     /\ tab'[t].id = tab[t].id \/ (t = call[c].tab /\ tab'[t].id = id)
  BY <1>1 DEF Resolve, TabType
<1>4. Unborn(c)
  BY DEF Unborn, Ended
<1>5. Frame(c)
  BY <1>1, <1>2, <1>3 DEF Frame, RowsQuiet
<1>6. Steady(c)
  BY <1>2, <1>3, <1>4 DEF Steady, RowsQuiet, After
<1> QED
  BY <1>5, <1>6, SteadyKeeps

\* A call that resolves the identity takes the lock, goes on or ends.
LEMMA LockedDurable ==
    ASSUME IInv, IInv', HInv, SInv, DurableInv, NEW c \in Call, IdentityLocked(c)
    PROVE  SInv' /\ DurableInv'
<1>1. /\ UNCHANGED <<store, tab, hist>> /\ call[c].pc = "lock" /\ call[c].kind = "identity" /\ lock = None
      /\ ~Ended(call[c])
  BY DEF IdentityLocked, LockFree, Ended
<1>2. /\ Alone(c) /\ call'[c].pc = "deviceRow" /\ call'[c].stored = row["device"] /\ call'[c].kind = "identity"
      /\ call'[c].owner = call[c].owner /\ call'[c].tab = call[c].tab /\ call'[c].epoch = call[c].epoch
      /\ call'[c].mark = call[c].mark
  BY <1>1 DEF IdentityLocked, Alone, IInv, CallInv, CallType
<1>3. \A t \in Tab : tab[t].epoch \in Nat
  BY Epochs
<1>4. Frame(c)
  BY <1>1, <1>2, <1>3 DEF Frame, store, hist, After
<1>5. Steady(c)
  BY <1>1, <1>2 DEF Steady, store, hist, MovingPc, After
<1> QED
  BY <1>4, <1>5, SteadyKeeps

LEMMA ResolvingDurable ==
    ASSUME IInv, IInv', HInv, SInv, DurableInv, NEW c \in Call,
           \/ DeviceLoaded(c) \/ Unwrap(c) \/ SeedLoaded(c) \/ RecoverKeyLoaded(c) \/ RecoverSeedLoaded(c)
           \/ Recovered(c) \/ Generated(c)
    PROVE  SInv' /\ DurableInv'
<1>1. RowsQuiet /\ UNCHANGED <<raced, mistaken, sealers>>
      /\ call[c].pc \in {"deviceRow", "unwrap", "seedRow", "recoverKey", "recoverSeed", "recovered", "generate"}
  BY DEF DeviceLoaded, Unwrap, SeedLoaded, RecoverKeyLoaded, RecoverSeedLoaded, Recovered, Generated, RowsQuiet,
         store, hist
<1>2. /\ ~Ended(call[c]) /\ Resolving(call[c]) /\ call[c] \in CallType /\ T(c) \in TabType /\ call[c].tab \in Tab
      /\ T(c) = tab[call[c].tab] /\ tab \in [Tab -> TabType] /\ call[c].kind = "identity"
      /\ call[c].pc \notin MovingPc \cup After
  BY <1>1, IdentityResolves, Suspended DEF IInv, TabInv, Resolving, MovingPc, After
<1>3. CASE Resolve(c, call[c].stored.id)
  BY <1>1, <1>2, <1>3, ResolvesQuietly
<1>4. CASE UNCHANGED tab \/ \E key : tab' = [tab EXCEPT ![call[c].tab].kek = key]
  <2>1. TabsQuiet
    <3>1. CASE UNCHANGED tab
      BY <3>1 DEF TabsQuiet
    <3>2. ASSUME NEW key, tab' = [tab EXCEPT ![call[c].tab].kek = key]
          PROVE  TabsQuiet
      BY <1>2, <3>2 DEF TabsQuiet, TabType
    <3> QED
      BY <1>4, <3>1, <3>2
  <2>2. CASE Finish(c)
    BY <1>1, <1>2, <2>1, <2>2, EndsQuietly
  <2>3. CASE \E pc \in {"seedRow", "recoverKey", "generate", "recovered"} : Goto(c, pc) \/ \E r : Read(c, pc, r)
    BY <1>1, <1>2, <2>1, <2>3, GotoLeaves, ReadLeaves, GoesQuietly DEF After
  <2>4. CASE RecoverKeyLoaded(c) /\ ~Finish(c)
    <3>1. Alone(c) /\ Same(call'[c], call[c]) /\ call'[c].pc = "recoverSeed"
      BY <1>2, <2>4 DEF RecoverKeyLoaded, Unreadable, Alone, Same, IInv, CallInv, CallType
    <3> QED
      BY <1>1, <1>2, <2>1, <3>1, GoesQuietly DEF After
  <2>5. CASE DeviceLoaded(c)
    <3>1. Alone(c) /\ call'[c] = IF call[c].stored = NoRow THEN [call[c] EXCEPT !.pc = "generate"]
                                                           ELSE AskKek(call[c], T(c).kek)
      BY <2>5 DEF DeviceLoaded, Alone, IInv, CallInv
    <3>2. Same(call'[c], call[c]) /\ call'[c].pc \in {"generate", "kekRow", AfterKek(call[c])}
      BY <1>2, <3>1, AskLeaves DEF Same, CallType
    <3> QED
      BY <1>1, <1>2, <2>1, <3>1, <3>2, GoesQuietly DEF AfterKek, After
  <2>6. CASE Generated(c)
    <3> DEFINE k == [call[c] EXCEPT !.minting = TRUE]
    <3>1. Alone(c) /\ call'[c] = AskKek(k, T(c).kek)
      BY <2>6 DEF Generated, Alone, IInv, CallInv
    <3>2. /\ k \in CallType /\ k.kind = "identity" /\ k.stored = call[c].stored /\ k.tab = call[c].tab
          /\ k.owner = call[c].owner /\ k.epoch = call[c].epoch /\ k.mark = call[c].mark
      BY <1>2 DEF CallType
    <3> HIDE DEF k
    <3>3. Same(call'[c], k) /\ call'[c].pc \in {"kekRow", AfterKek(k)} /\ AfterKek(k) # "idle"
      BY <3>1, <3>2, AskLeaves DEF AfterKek
    <3>4. \A t \in Tab : tab[t].epoch \in Nat
      BY Epochs
    <3>5. /\ call'[c].kind = "identity" /\ call'[c].owner = call[c].owner /\ call'[c].tab = call[c].tab
          /\ call'[c].epoch = call[c].epoch /\ call'[c].mark = call[c].mark /\ call'[c].stored = call[c].stored
          /\ call'[c].pc # "idle"
      BY <3>2, <3>3 DEF Same
    <3>6. ~Ended(call[c]) /\ Alone(c) /\ call[c].kind = "identity" /\ call[c].pc \notin After
      BY <1>2, <3>1
    <3>7. Frame(c)
      <4>1. \A t \in Tab : /\ tab'[t].memo = tab[t].memo /\ tab'[t].sealed = tab[t].sealed
                          /\ tab[t].epoch <= tab'[t].epoch /\ tab'[t].held = tab[t].held
        BY <2>1, <3>4 DEF TabsQuiet
      <4>2. row'["device"].id \in {None, row["device"].id} /\ UNCHANGED sealers
        BY <1>1 DEF RowsQuiet
      <4> QED
        BY <3>5, <3>6, <4>1, <4>2 DEF Frame
    <3>8. Steady(c)
      BY <1>1, <1>2, <2>1, <3>2, <3>3 DEF Steady, Same, TabsQuiet, RowsQuiet, AfterKek, After
    <3> QED
      BY <3>7, <3>8, SteadyKeeps
  <2>7. CASE Unwrap(c) \/ SeedLoaded(c) \/ RecoverKeyLoaded(c)
    BY <1>3, <2>2, <2>3, <2>4, <2>7 DEF Unwrap, SeedLoaded
  <2>8. CASE RecoverSeedLoaded(c) \/ Recovered(c)
    BY <1>3, <2>2, <2>3, <2>8 DEF RecoverSeedLoaded, Recovered, Unreadable
  <2> QED
    BY <2>5, <2>6, <2>7, <2>8
<1> QED
  BY <1>3, <1>4 DEF DeviceLoaded, Unwrap, SeedLoaded, RecoverKeyLoaded, RecoverSeedLoaded, Recovered, Generated,
     Unreadable

LEMMA PersistDurable ==
    ASSUME IInv, IInv', HInv, SInv, DurableInv, NEW c \in Call, Persist(c)
    PROVE  SInv' /\ DurableInv'
<1>1. /\ row' = SavePair(c, call[c].kek) /\ UNCHANGED <<tab, Hist>> /\ call[c].pc = "persist"
      /\ Goto(c, "persisted") /\ c # None
  BY Numbers DEF Persist
<1>2. ~Ended(call[c]) /\ call[c].kind = "identity"
  BY <1>1, IdentityCall DEF IdentityPc
<1>3. Alone(c) /\ Same(call'[c], call[c]) /\ call'[c].pc = "persisted" /\ row'["sealed"] = row["sealed"]
      /\ row'["device"].id = c
  BY <1>1, GotoLeaves, StoredWhole
<1>4. \A t \in Tab : tab[t].epoch \in Nat
  BY Epochs
<1>5. Frame(c)
  BY <1>1, <1>2, <1>3, <1>4 DEF Frame, Same, Hist, After
<1>6. Steady(c)
  BY <1>1, <1>2, <1>3 DEF Steady, Hist, MovingPc, Unborn, Resolving, InLock, KekPc, After
<1> QED
  BY <1>5, <1>6, SteadyKeeps

\* A page whose identity nobody knows yet has no scalar of it.
LEMMA DurableUnborn ==
    ASSUME IInv', SInv', NEW t \in Tab, \A o : Claimed(t, o)' => o \in Call /\ Unborn(o)',
           \A d \in Call : call'[d].pc \notin {"sealedRead", "sealedSaved"}
    PROVE  Durable(t)'
<1>1. ASSUME NEW s \in Entries(t)', Claimed(t, s.owner)'
      PROVE  FALSE
  BY <1>1 DEF SInv, UnbornInv
<1>2. ASSUME NEW d \in Call, Claimed(t, call[d].owner)'
      PROVE  FALSE
  BY <1>2 DEF SInv, UnbornInv
<1> QED
  BY <1>1, <1>2 DEF Durable

\* The cached scalar goes with the seedless identity, and then the stored one.
LEMMA AfterDurable ==
    ASSUME IInv, IInv', HInv, SInv, DurableInv, NEW c \in Call, Persisted(c) \/ ResidueSealed(c) \/ Replaced(c)
    PROVE  SInv' /\ DurableInv'
<1>1. /\ row'["device"] = row["device"] /\ UNCHANGED <<raced, mistaken, sealers>> /\ call[c].pc \in After
  BY DEF Persisted, ResidueSealed, Replaced, hist, After, store, IInv, StoreInv, RowName
<1>2. ~Ended(call[c]) /\ call[c].kind = "identity" /\ call[c].pc \notin MovingPc
  BY <1>1, IdentityCall DEF After, IdentityPc, MovingPc
<1>3. T(c) \in TabType /\ call[c].tab \in Tab /\ T(c) = tab[call[c].tab] /\ tab \in [Tab -> TabType]
  BY <1>2, Suspended DEF IInv, TabInv
<1>4. \A t \in Tab : tab[t].epoch \in Nat
  BY Epochs
<1>5. CASE Resolve(c, c) /\ RowsQuiet
  BY <1>1, <1>2, <1>5, ResolvesQuietly
<1>6. CASE Persisted(c) /\ ~Resolve(c, c)
  <2> DEFINE x == [T(c) EXCEPT !.noise = None, !.sealed = NoSealed, !.epoch = @ + 1]
  <2>1. Goto(c, "residue") /\ tab' = [tab EXCEPT ![call[c].tab] = x] /\ row' = [row EXCEPT !["noise"] = NoRow]
    BY <1>6 DEF Persisted
  <2>2. /\ x.sealed = NoSealed /\ x.epoch = T(c).epoch + 1 /\ x.memo = T(c).memo /\ x.held = T(c).held
    BY <1>3 DEF TabType
  <2> HIDE DEF x
  <2>3. Alone(c) /\ Same(call'[c], call[c]) /\ call'[c].pc = "residue"
    BY <2>1, GotoLeaves
  <2>4. \A t \in Tab : tab'[t] = IF t = call[c].tab THEN x ELSE tab[t]
    BY <1>3, <2>1
  <2>5. row'["sealed"] = row["sealed"]
    BY <2>1 DEF IInv, StoreInv, RowName
  <2>6. Frame(c)
    BY <1>1, <1>2, <1>3, <1>4, <2>2, <2>3, <2>4 DEF Frame, Same, After
  <2>7. Steady(c)
    BY <1>1, <1>2, <1>3, <1>4, <2>2, <2>3, <2>4, <2>5 DEF Steady, Moved, Resolving, KekPc
  <2> QED
    BY <2>6, <2>7, SteadyKeeps
<1>7. CASE ResidueSealed(c)
  <2>1. Alone(c) /\ Same(call'[c], call[c]) /\ call'[c].pc = "replaced" /\ UNCHANGED tab
    BY <1>7, GotoLeaves DEF ResidueSealed
  <2>2. Frame(c)
    BY <1>1, <1>2, <1>4, <2>1 DEF Frame, Same, After
  <2>3. SInv'
    BY <2>2, FrameKeeps
  <2>4. HInv' /\ call'[c].pc \in After /\ Unborn(c)'
    BY <1>1, <1>2, <2>1, AfterHistory DEF After, Unborn, Same
  <2>5. ASSUME Sure', NEW t \in sealers', ~Moving(t)'
        PROVE  Durable(t)' /\ Gone(t)'
    <3>1. t \in Tab /\ t \in sealers /\ Sure
      BY <1>1, <2>5 DEF Sure, OneSealer, IInv, RestOK, HistoryOK
    <3>2. ~Moving(t)
      <4> SUFFICES ASSUME NEW d \in Call, call[d].tab = t, call[d].pc \in MovingPc
                   PROVE  FALSE
        BY DEF Moving, MovingPc
      <4>1. call'[d] = call[d]
        BY <1>2, <2>1 DEF Alone
      <4> QED
        BY <2>5, <4>1 DEF Moving, MovingPc
    <3>3. Gone(t)
      BY <3>1, <3>2 DEF DurableInv
    <3>4. \A d \in Call : call'[d] = call[d] \/ call'[d].pc \notin {"sealedRead", "sealedSaved", "sealedGot"}
      BY <2>1 DEF Alone
    <3>5. Gone(t)'
      BY <1>1, <2>1, <3>1, <3>3, <3>4, GoneKept DEF Alone
    <3>6. tab'[t].id = None /\ \A d \in Call : InLock(call'[d]) => d = c
      BY <2>4, <2>5, <3>1 DEF HInv, AfterAlone, NoneLoaded, LockHeld, InLock, Sure
    <3>7. ~Resolving(call'[c])
      BY <2>1 DEF Resolving, KekPc
    <3>8. ASSUME NEW d \in Call
          PROVE  call'[d].pc \notin {"sealedRead", "sealedSaved"}
      <4>1. call'[d] = call[d] \/ d = c
        BY <2>1 DEF Alone
      <4>2. call[d].pc \in {"sealedRead", "sealedSaved"} => InLock(call[d])
        BY JoinCall
      <4> QED
        BY <2>1, <3>6, <4>1, <4>2
    <3>9. \A d \in Call : ~Resolving(call'[d])
      BY <3>6, <3>7 DEF InLock
    <3>10. CASE row'["device"].id = c
      <4>1. \A o : Claimed(t, o)' => o = c
        BY <3>6, <3>9, <3>10 DEF Claimed
      <4> QED
        BY <2>3, <2>4, <3>1, <3>5, <3>8, <4>1, DurableUnborn
    <3>11. CASE Spent(t)'
      BY <3>5, <3>8, <3>11 DEF Durable, Spent, Claimed
    <3> QED
      BY <2>4, <3>3, <3>5, <3>10, <3>11 DEF Gone
  <2> QED
    BY <2>3, <2>5 DEF DurableInv
<1>8. CASE Persisted(c) /\ Resolve(c, c)
  BY <1>5, <1>8 DEF Persisted, RowsQuiet, IInv, StoreInv, RowName
<1>9. CASE Replaced(c)
  BY <1>5, <1>9 DEF Replaced, RowsQuiet, store
<1> QED
  BY <1>6, <1>7, <1>8, <1>9

\* The Noise keypair is nobody's scalar.
LEMMA NoiseDurable ==
    ASSUME IInv, IInv', HInv, SInv, DurableInv, NEW c \in Call, Noise(c)
    PROVE  SInv' /\ DurableInv'
<1>1. /\ RowsQuiet /\ UNCHANGED <<raced, mistaken, sealers>> /\ ~Ended(call[c])
      /\ call[c].pc \in {"noiseRow", "noiseRead", "noiseSaved"}
  BY DEF Noise, NoiseRow, NoiseLoaded, NoiseSaved, hist, store, RowsQuiet, IInv, StoreInv, RowName, Ended
<1>2. /\ call[c].kind = "noise" /\ T(c) \in TabType /\ call[c].tab \in Tab /\ T(c) = tab[call[c].tab]
      /\ tab \in [Tab -> TabType]
  BY <1>1, KindOf, Suspended DEF IInv, TabInv
<1>3. TabsQuiet
  <2>1. CASE UNCHANGED tab
    BY <2>1 DEF TabsQuiet
  <2>2. ASSUME NEW key, tab' = [tab EXCEPT ![call[c].tab].noise = key]
        PROVE  TabsQuiet
    BY <1>2, <2>2 DEF TabsQuiet, TabType
  <2> QED
    BY <2>1, <2>2 DEF Noise, NoiseRow, NoiseLoaded, NoiseSaved
<1>4. CASE Finish(c)
  BY <1>1, <1>2, <1>3, <1>4, EndsQuietly DEF MovingPc
<1>5. CASE \E pc \in {"noiseRead", "noiseSaved"} : Goto(c, pc) \/ \E r : Read(c, pc, r)
  <2>1. Alone(c) /\ Same(call'[c], call[c]) /\ call'[c].pc \in {"noiseRead", "noiseSaved"}
    BY <1>5, GotoLeaves, ReadLeaves
  <2> QED
    BY <1>1, <1>2, <1>3, <2>1, GoesQuietly DEF MovingPc, After, Resolving, KekPc
<1> QED
  BY <1>4, <1>5 DEF Noise, NoiseRow, NoiseLoaded, NoiseSaved

\* While a restore moves the page's identity nothing is asked of the page.
LEMMA RestoringKeeps ==
    ASSUME IInv, IInv', HInv, SInv, DurableInv, NEW c \in Call, ~Ended(call[c]), call[c].kind = "replace",
           Alone(c), Same(call'[c], call[c]), call'[c].pc \in MovingPc, UNCHANGED <<tab, raced, mistaken, sealers>>,
           row'["device"].id \in {row["device"].id, call[c].owner}
    PROVE  SInv' /\ DurableInv'
<1>1. \A t \in Tab : tab[t].epoch \in Nat
  BY Epochs
<1>2. call[c].pc \notin After /\ call'[c].pc \notin {"idle", "done"}
  BY IdentityCall DEF After, IdentityPc, MovingPc
<1>3. Frame(c)
  BY <1>1, <1>2 DEF Frame, Same, Ended
<1>4. SInv'
  BY <1>3, FrameKeeps
<1>5. ASSUME OneSealer, NEW t \in sealers
      PROVE  Moving(t)'
  <2>1. call[c].tab \in sealers
    BY DEF SInv, SealerInv
  <2>2. call'[c].tab = t
    BY <1>5, <2>1 DEF OneSealer, Same
  <2> QED
    BY <2>2 DEF Moving, MovingPc
<1> QED
  BY <1>4, <1>5 DEF DurableInv, Sure, OneSealer

LEMMA RestoreDurable ==
    ASSUME IInv, IInv', HInv, SInv, DurableInv, NEW c \in Call, Restore(c)
    PROVE  SInv' /\ DurableInv'
<1>1. /\ UNCHANGED <<raced, mistaken, sealers>> /\ ~Ended(call[c])
      /\ call[c].pc \in {"pairSave", "pairSaved", "restoreSealed", "restoreEnd"}
  BY DEF Restore, PairSave, PairSaved, RestoreSealed, RestoreEnd, hist, Hist, Ended
<1>2. /\ call[c].kind = "replace" /\ T(c) \in TabType /\ call[c].tab \in Tab /\ T(c) = tab[call[c].tab]
      /\ tab \in [Tab -> TabType] /\ call[c].owner # None
  BY <1>1, KindOf, Suspended DEF IInv, TabInv, PairSane
<1>3. CASE PairSave(c)
  <2>1. Alone(c) /\ Same(call'[c], call[c]) /\ call'[c].pc = "pairSaved" /\ UNCHANGED tab
        /\ row'["device"].id = call[c].owner
    BY <1>2, <1>3, GotoLeaves, StoredWhole DEF PairSave
  <2> QED
    BY <1>1, <1>2, <2>1, RestoringKeeps DEF MovingPc
<1>4. CASE PairSaved(c) \/ RestoreSealed(c)
  <2>1. Alone(c) /\ Same(call'[c], call[c]) /\ call'[c].pc \in {"restoreSealed", "restoreEnd"} /\ UNCHANGED tab
        /\ row'["device"] = row["device"]
    BY <1>4, GotoLeaves, ReadLeaves DEF PairSaved, RestoreSealed, store, IInv, StoreInv, RowName
  <2> QED
    BY <1>1, <1>2, <2>1, RestoringKeeps DEF MovingPc
<1>5. CASE RestoreEnd(c)
  <2> DEFINE x == [T(c) EXCEPT !.id = None, !.sealed = NoSealed, !.epoch = @ + 1]
  <2>1. tab' = [tab EXCEPT ![call[c].tab] = x] /\ Finish(c) /\ UNCHANGED row
    BY <1>5 DEF RestoreEnd, store
  <2>2. x.id = None /\ x.sealed = NoSealed /\ x.epoch = T(c).epoch + 1 /\ x.memo = T(c).memo /\ x.held = T(c).held
    BY <1>2 DEF TabType
  <2> HIDE DEF x
  <2>3. \A t \in Tab : tab'[t] = IF t = call[c].tab THEN x ELSE tab[t]
    BY <1>2, <2>1
  <2>4. \A t \in Tab : tab[t].epoch \in Nat
    BY Epochs
  <2>5. /\ Alone(c) /\ Ended(call'[c]) /\ call'[c].pc = "done" /\ call'[c].kind = call[c].kind
        /\ call'[c].owner = call[c].owner /\ call'[c].stored.id = None /\ ~Resolving(call'[c])
    BY <2>1, FinishLeaves DEF Finish, Over, IdleCall, IInv, CallInv, NoRow, Harmless, InLock
  <2>6. Frame(c)
    BY <1>1, <1>2, <2>1, <2>2, <2>3, <2>4, <2>5 DEF Frame
  <2>7. Steady(c)
    BY <1>1, <1>2, <2>1, <2>2, <2>3, <2>4, <2>5 DEF Steady, Moved, After
  <2> QED
    BY <2>6, <2>7, SteadyKeeps
<1> QED
  BY <1>3, <1>4, <1>5 DEF Restore

\* A request is refused; the sealed call's is below.
LEMMA FaultDurable ==
    ASSUME IInv, IInv', HInv, SInv, DurableInv, NEW c \in Call, UNCHANGED <<store, hist>>,
           LegacyFault(c) \/ IdentityFault(c) \/ (OtherFault(c) /\ call[c].kind # "clear")
    PROVE  SInv' /\ DurableInv'
<1>1. RowsQuiet /\ UNCHANGED <<raced, mistaken, sealers>>
  BY DEF RowsQuiet, store, hist
<1>2. CASE LegacyFault(c)
  <2>1. /\ Alone(c) /\ Same(call'[c], call[c]) /\ call'[c].pc = "legacyRow" /\ call[c].pc = "legacyRow"
        /\ UNCHANGED tab /\ ~Ended(call[c])
    BY <1>2, ReadLeaves DEF LegacyFault, Ended
  <2> QED
    BY <1>1, <2>1, GoesQuietly DEF TabsQuiet, KekPc, After, MovingPc, Resolving, Same
<1>3. CASE IdentityFault(c)
  <2>1. /\ call[c].kind = "identity" /\ ~Ended(call[c])
        /\ call[c].pc \in KekPc \cup {"unwrap", "recoverKey", "deviceRow", "persist", "residue"}
    BY <1>3 DEF IdentityFault, KekFails, Ended, KekPc
  <2>2. T(c) \in TabType /\ call[c].tab \in Tab /\ T(c) = tab[call[c].tab] /\ tab \in [Tab -> TabType]
    BY <2>1, Suspended DEF IInv, TabInv
  <2>3. CASE Finish(c)
    <3>1. \A t \in Tab : tab[t].epoch \in Nat
      BY Epochs
    <3>2. /\ Alone(c) /\ Ended(call'[c]) /\ call'[c].pc = "done" /\ call'[c].kind = call[c].kind
          /\ call'[c].owner = call[c].owner /\ call'[c].stored.id = None /\ ~Resolving(call'[c])
      BY <2>3, FinishLeaves DEF Finish, Over, IdleCall, IInv, CallInv, NoRow, Harmless, InLock
    <3>3. \A t \in Tab : /\ tab'[t].memo = tab[t].memo /\ tab'[t].sealed = tab[t].sealed /\ tab'[t].id = tab[t].id
                         /\ tab'[t].epoch = tab[t].epoch /\ tab'[t].held \subseteq tab[t].held \cup {c}
      BY <1>3, <2>2 DEF IdentityFault, TabType
    <3>4. Frame(c)
      BY <1>1, <2>1, <3>1, <3>2, <3>3 DEF Frame, RowsQuiet
    <3>5. Steady(c)
      BY <1>1, <2>1, <3>2, <3>3 DEF Steady, RowsQuiet, MovingPc, KekPc, After
    <3> QED
      BY <3>4, <3>5, SteadyKeeps
  <2>4. CASE /\ UNCHANGED tab
             /\ \/ call[c].pc # "residue" /\ Read(c, "recoverKey", Wrapped(legacy, None, None))
                \/ call[c].pc = "residue" /\ Goto(c, "replaced")
    <3>1. /\ Alone(c) /\ Same(call'[c], call[c])
          /\ call'[c].pc = IF call[c].pc = "residue" THEN "replaced" ELSE "recoverKey"
      BY <2>4, GotoLeaves, ReadLeaves
    <3> QED
      BY <1>1, <2>1, <2>4, <3>1, GoesQuietly DEF TabsQuiet, KekPc, After, MovingPc, Resolving, Same
  <2> QED
    BY <1>3, <2>1, <2>3, <2>4 DEF IdentityFault, KekFails
<1>4. CASE OtherFault(c) /\ call[c].kind # "clear"
  <2>1. ~Ended(call[c]) /\ UNCHANGED tab /\ call[c].kind \in {"noise", "replace"}
    BY <1>4 DEF OtherFault, KekFails, Ended, ClearNext
  <2>2. CASE call[c].pc \in {"pairSaved", "restoreSealed"}
    <3>1. Alone(c) /\ Same(call'[c], call[c]) /\ call'[c].pc = "restoreEnd" /\ call[c].kind = "replace"
      BY <1>4, <2>1, <2>2, GotoLeaves, KindOf DEF OtherFault
    <3> QED
      BY <1>1, <2>1, <3>1, RestoringKeeps DEF RowsQuiet, MovingPc
  <2>3. CASE call[c].pc \notin {"pairSaved", "restoreSealed"}
    <3>1. Finish(c) /\ call[c].pc # "restoreEnd"
      BY <1>4, <2>3 DEF OtherFault, KekFails, ClearNext
    <3> QED
      BY <1>1, <2>1, <2>3, <3>1, EndsQuietly DEF TabsQuiet, MovingPc
  <2> QED
    BY <2>2, <2>3
<1> QED
  BY <1>2, <1>3, <1>4

-----------------------------------------------------------------------------
(* The sealed scalar *)

\* Call c goes on or ends, as do those that wait for it; its page may get the
\* scalar of c's identity.
SealedFrame(c) ==
    /\ ~Ended(call[c]) /\ call[c].kind = "sealed" /\ UNCHANGED <<sealers, raced>> /\ row'["device"] = row["device"]
    /\ \A d \in Call : call'[d] # call[d] =>
          /\ d = c \/ (call[d].pc = "sealedJoin" /\ call[d].mark = c)
          /\ call'[d].kind = "sealed" /\ call'[d].owner = call[d].owner
          /\ call'[d].stored.id \in {None, call[d].stored.id}
          /\ call'[d].pc \in SealingPc \cup {"sealedGot", "done"}
          /\ Ended(call'[d]) \/ (call'[d].tab = call[d].tab /\ call'[d].epoch = call[d].epoch)
          /\ InLock(call'[d]) => d = c /\ \/ call'[c].mark = T(c).epoch
                                          \/ InLock(call[c]) /\ call'[c].mark = call[c].mark
    /\ \A d \in Call : call[d].pc = "sealedJoin" /\ call[d].mark = c => call'[c].pc \in SealingPc \/ call'[d] # call[d]
    /\ \A t \in Tab : /\ tab'[t].id = tab[t].id /\ tab'[t].epoch = tab[t].epoch /\ tab'[t].held = tab[t].held
                      /\ t # call[c].tab => tab'[t] = tab[t]
                      /\ \A s \in Entries(t)' : \/ s \in Entries(t)
                                                \/ s.owner = call[c].owner /\ s.epoch <= tab[t].epoch

LEMMA SealedFrameKeeps ==
    ASSUME IInv, IInv', HInv, SInv, NEW c \in Call, SealedFrame(c)
    PROVE  SInv'
<1>1. /\ ~Ended(call[c]) /\ call[c].tab \in Tab /\ T(c) = tab[call[c].tab] /\ call[c].tab \in sealers
  BY Suspended DEF SealedFrame, SInv, SealerInv
<1>2. \A d \in Call : call'[d] # call[d] => ~Ended(call[d]) /\ call[d].kind = "sealed"
  BY JoinCall DEF SealedFrame
<1>3. SealerInv'
  BY <1>1, <1>2 DEF SInv, SealerInv, SealedFrame
<1>4. EpochInv'
  <2>1. ASSUME NEW t \in Tab, NEW s \in Entries(t)'
        PROVE  s.epoch <= tab'[t].epoch
    BY DEF SInv, EpochInv, SealedFrame
  <2>2. ASSUME NEW d \in Call, ~Ended(call'[d]), call'[d].kind = "sealed"
        PROVE  /\ call'[d].epoch <= T(d)'.epoch
               /\ InLock(call'[d]) => call'[d].epoch <= call'[d].mark /\ call'[d].mark <= T(d)'.epoch
    <3>1. /\ ~Ended(call[d]) /\ call[d].kind = "sealed" /\ call'[d].epoch = call[d].epoch /\ call'[d].tab = call[d].tab
      BY <1>2, <2>2 DEF SealedFrame
    <3>2. call[d].tab \in Tab /\ T(d)'.epoch = T(d).epoch /\ T(d).epoch \in Nat
      BY <3>1, Suspended, Epochs DEF SealedFrame, T
    <3>3. /\ call[d].epoch <= T(d).epoch
          /\ InLock(call[d]) => call[d].epoch <= call[d].mark /\ call[d].mark <= T(d).epoch
      BY <3>1 DEF SInv, EpochInv
    <3>4. InLock(call'[d]) => call'[d].mark = T(d).epoch \/ (InLock(call[d]) /\ call'[d].mark = call[d].mark)
      BY DEF SealedFrame
    <3> QED
      BY <3>1, <3>2, <3>3, <3>4
  <2> QED
    BY <2>1, <2>2 DEF EpochInv
<1>5. JoinInv'
  <2> SUFFICES ASSUME NEW d \in Call, call'[d].pc = "sealedJoin"
               PROVE  LET f == call'[call'[d].mark]
                      IN /\ f.kind = "sealed" /\ f.pc \in SealingPc \cup {"lock"}
                         /\ f.tab = call'[d].tab /\ f.epoch = call'[d].epoch
    BY DEF JoinInv
  <2>1. call'[d] = call[d]
    BY DEF SealedFrame, SealingPc, KekPc
  <2>2. call[d].mark \in Call
    BY <2>1 DEF IInv, CallInv, SealedSane
  <2> DEFINE f == call[call[d].mark]
             g == call'[call[d].mark]
  <2>3. /\ f.kind = "sealed" /\ f.pc \in SealingPc \cup {"lock"} /\ f.tab = call[d].tab /\ f.epoch = call[d].epoch
    BY <2>1 DEF SInv, JoinInv
  <2>4. g = f \/ (call[d].mark = c /\ g.kind = "sealed" /\ g.pc \in SealingPc /\ ~Ended(g) /\ g.tab = f.tab /\ g.epoch = f.epoch)
    <3>1. CASE g = f
      BY <3>1
    <3>2. CASE g # f
      <4>1. call[d].mark = c
        BY <2>2, <2>3, <3>2 DEF SealedFrame, SealingPc, KekPc
      <4>2. g.pc \in SealingPc
        BY <2>1, <4>1 DEF SealedFrame
      <4>3. ~Ended(g)
        BY <4>2 DEF Ended, SealingPc, KekPc
      <4> QED
        BY <2>2, <3>2, <4>1, <4>2, <4>3 DEF SealedFrame
    <3> QED
      BY <3>1, <3>2
  <2> HIDE DEF f, g
  <2>5. g.kind = "sealed" /\ g.pc \in SealingPc \cup {"lock"} /\ g.tab = call[d].tab /\ g.epoch = call[d].epoch
    BY <2>3, <2>4
  <2> QED
    BY <2>1, <2>5 DEF g
<1>6. UnbornInv'
  <2> SUFFICES ASSUME NEW v \in Call, Unborn(v)'
               PROVE  /\ \A t \in Tab : v \notin tab'[t].held /\ \A s \in Entries(t)' : s.owner # v
                      /\ \A d \in Call : call'[d].owner # v /\ call'[d].stored.id # v
                      /\ row'["device"].id = v => call'[v].pc \in After
    BY DEF UnbornInv
  <2>1. call'[v] = call[v] /\ Unborn(v) /\ v # None
    BY Numbers DEF Unborn, SealedFrame, SealingPc, KekPc
  <2>2. /\ \A t \in Tab : v \notin tab[t].held /\ \A s \in Entries(t) : s.owner # v
        /\ \A d \in Call : call[d].owner # v /\ call[d].stored.id # v
        /\ row["device"].id = v => call[v].pc \in After
    BY <2>1 DEF SInv, UnbornInv
  <2> QED
    BY <2>1, <2>2 DEF SealedFrame
<1> QED
  BY <1>3, <1>4, <1>5, <1>6 DEF SInv

\* The scalar page t gets of an identity it has a claim to is the stored one.
LEMMA SealedKeeps ==
    ASSUME IInv, IInv', HInv, SInv, DurableInv, NEW c \in Call, SealedFrame(c), row'["sealed"] = row["sealed"],
           mistaken => mistaken', NEW t \in Tab, t = call[c].tab,
           (\E d \in Call : call[d].pc \in After) /\ Gone(t) => Gone(t)',
           Sure' /\ Durable(t) /\ ~Moving(t) =>
              /\ \A s \in Entries(t)' \ Entries(t) :
                    Claimed(t, s.owner) /\ s.epoch = tab[t].epoch => Stored(s.id, s.owner)
              /\ \A d \in Call : call'[d] # call[d] /\ call'[d].tab = t =>
                    /\ call'[d].pc = "sealedGot" /\ call[d].epoch = tab[t].epoch /\ Claimed(t, call[d].owner) =>
                          Stored(call'[d].got.id, call[d].owner)
                    /\ call'[d].pc = "sealedRead" /\ call'[d].mark = tab[t].epoch => call'[d].got = row["sealed"]
                    /\ call'[d].pc = "sealedSaved" /\ call'[d].mark = tab[t].epoch => Stored(d, call[d].owner)
    PROVE  SInv' /\ DurableInv'
<1>1. SInv'
  BY SealedFrameKeeps
<1> SUFFICES ASSUME Sure', NEW u \in sealers', ~Moving(u)'
             PROVE  Durable(u)' /\ Gone(u)'
  BY <1>1 DEF DurableInv
<1>2. /\ call[c].tab \in Tab /\ T(c) = tab[call[c].tab] /\ call[c].tab \in sealers
  BY Suspended DEF SealedFrame, SInv, SealerInv
<1>3. u = t /\ t = call[c].tab /\ Sure
  BY <1>2 DEF SealedFrame, Sure, OneSealer, IInv, RestOK, HistoryOK
<1>4. \A d \in Call : call'[d] # call[d] => ~Ended(call[d]) /\ call[d].kind = "sealed"
  BY JoinCall DEF SealedFrame
<1>5. ~Moving(t)
  <2> SUFFICES ASSUME NEW d \in Call, call[d].tab = t, call[d].pc \in MovingPc
               PROVE  FALSE
    BY DEF Moving, MovingPc
  <2>1. ~Ended(call[d]) /\ call[d].kind \in Kind /\ call[d].pc \in PcOf(call[d].kind)
    BY Suspended DEF MovingPc, Ended, CallType
  <2>2. call[d].kind # "sealed"
    BY <2>1 DEF MovingPc, PcOf, KekPc
  <2> QED
    BY <1>3, <1>4, <2>2 DEF Moving, MovingPc
<1>6. Durable(t) /\ Gone(t)
  BY <1>2, <1>3, <1>5 DEF DurableInv
<1>7. \A o : Claimed(t, o)' => Claimed(t, o)
  BY <1>2, <1>3, <1>4 DEF Claimed, SealedFrame, Resolving
<1>8. \A id, o : Stored(id, o) => Stored(id, o)'
  BY DEF Stored
<1>9. ASSUME NEW s \in Entries(t)', Claimed(t, s.owner)', s.epoch = tab'[t].epoch
      PROVE  Stored(s.id, s.owner)'
  <2>1. Claimed(t, s.owner) /\ s.epoch = T(c).epoch
    BY <1>2, <1>3, <1>7, <1>9 DEF SealedFrame
  <2>2. CASE s \in Entries(t)
    BY <1>2, <1>3, <1>6, <1>8, <2>1, <2>2 DEF Durable
  <2>3. CASE s \notin Entries(t)
    <3>1. Stored(s.id, s.owner)
      BY <1>2, <1>3, <1>5, <1>6, <2>1, <2>3
    <3> QED
      BY <1>8, <3>1
  <2> QED
    BY <2>2, <2>3
<1>10. ASSUME NEW d \in Call, call'[d].tab = t
       PROVE  /\ call'[d].pc = "sealedGot" /\ call'[d].epoch = tab'[t].epoch /\ Claimed(t, call[d].owner)' =>
                    Stored(call[d].got.id, call[d].owner)'
              /\ call'[d].pc = "sealedRead" /\ call'[d].mark = tab'[t].epoch => call'[d].got = row'["sealed"]
              /\ call'[d].pc = "sealedSaved" /\ call'[d].mark = tab'[t].epoch => Stored(d, call[d].owner)'
  <2>1. tab'[t].epoch = T(c).epoch /\ T(c) = tab[t] /\ call'[d].owner = call[d].owner
    BY <1>2, <1>3 DEF SealedFrame
  <2>2. CASE call'[d] = call[d]
    <3>1. Claimed(t, call[d].owner)' => Claimed(t, call[d].owner)
      BY <1>7, <2>2
    <3> QED
      BY <1>6, <1>8, <1>10, <2>1, <2>2, <3>1 DEF Durable
  <2>3. CASE call'[d] # call[d]
    <3>1. call'[d].epoch = call[d].epoch \/ Ended(call'[d])
      BY <2>3 DEF SealedFrame
    <3>2. Claimed(t, call[d].owner)' => Claimed(t, call[d].owner)
      BY <1>7, <2>1
    <3>3. /\ call'[d].pc = "sealedGot" /\ call[d].epoch = T(c).epoch /\ Claimed(t, call[d].owner) =>
                Stored(call'[d].got.id, call[d].owner)
          /\ call'[d].pc = "sealedRead" /\ call'[d].mark = T(c).epoch => call'[d].got = row["sealed"]
          /\ call'[d].pc = "sealedSaved" /\ call'[d].mark = T(c).epoch => Stored(d, call[d].owner)
      BY <1>2, <1>3, <1>5, <1>6, <1>10, <2>3
    <3> QED
      BY <1>8, <2>1, <3>1, <3>2, <3>3 DEF Ended, Stored
  <2> QED
    BY <2>2, <2>3
<1>11. Gone(t)'
  <2>1. ASSUME \A d \in Call : call[d].pc \notin After
        PROVE  \A d \in Call : call'[d].pc \notin After
    BY <2>1 DEF SealedFrame, SealingPc, KekPc, After
  <2> QED
    BY <1>6, <2>1 DEF Gone
<1> QED
  BY <1>3, <1>9, <1>10, <1>11 DEF Durable


\* The calls that c settles get its scalar.
LEMMA FulfilLeaves ==
    ASSUME IInv, NEW c \in Call, ~Ended(call[c]), call[c].kind = "sealed", NEW key, Fulfil(c, key)
    PROVE  \A d \in Call : IF Settles(c, d)
               THEN /\ call'[d].pc = "sealedGot" /\ call'[d].got.id = key /\ call'[d].kind = "sealed"
                    /\ call'[d].tab = call[d].tab /\ call'[d].epoch = call[d].epoch /\ call'[d].stored = call[d].stored
                    /\ call'[d].owner = call[d].owner /\ call[d].owner = call[c].owner
               ELSE call'[d] = call[d]
<1> SUFFICES ASSUME NEW d \in Call, Settles(c, d)
             PROVE  /\ call'[d].pc = "sealedGot" /\ call'[d].got.id = key /\ call'[d].kind = "sealed"
                    /\ call'[d].tab = call[d].tab /\ call'[d].epoch = call[d].epoch /\ call'[d].stored = call[d].stored
                    /\ call'[d].owner = call[d].owner /\ call[d].owner = call[c].owner
  BY DEF Fulfil
<1>1. call[d] \in CallType /\ call[d].kind = "sealed" /\ call[d].owner = call[c].owner
  BY SettledCalls
<1>2. call'[d] = [call[d] EXCEPT !.pc = "sealedGot", !.got = Wrapped(key, None, None)]
  BY DEF Fulfil
<1>3. Wrapped(key, None, None).id = key
  BY DEF Wrapped
<1> QED
  BY <1>1, <1>2, <1>3 DEF CallType

LEMMA FulfilKeeps ==
    ASSUME IInv, IInv', HInv, SInv, DurableInv, NEW c \in Call, call[c].kind = "sealed",
           call[c].pc \in SealingPc \cup {"lock"}, NEW key, Fulfil(c, key), UNCHANGED <<sealers, raced>>,
           RowsQuiet, mistaken => mistaken', NEW t \in Tab, t = call[c].tab, lock = None \/ InLock(call[c]),
           UNCHANGED tab \/ (CacheSealed(c, key) /\ InLock(call[c])),
           /\ Sure' /\ Durable(t) /\ ~Moving(t) /\ Claimed(t, call[c].owner)
           /\ call[c].epoch = tab[t].epoch \/ (InLock(call[c]) /\ call[c].mark = tab[t].epoch)
           => Stored(key, call[c].owner)
    PROVE  SInv' /\ DurableInv'
<1> DEFINE s0 == [owner |-> call[c].owner, epoch |-> call[c].mark, id |-> key]
<1>1. ~Ended(call[c]) /\ tab \in [Tab -> TabType] /\ T(c) = tab[t]
  BY DEF SealingPc, KekPc, Ended, IInv, TabInv, T
<1>2. \A d \in Call : IF Settles(c, d)
               THEN /\ call'[d].pc = "sealedGot" /\ call'[d].got.id = key /\ call'[d].kind = "sealed"
                    /\ call'[d].tab = call[d].tab /\ call'[d].epoch = call[d].epoch /\ call'[d].stored = call[d].stored
                    /\ call'[d].owner = call[d].owner /\ call[d].owner = call[c].owner
               ELSE call'[d] = call[d]
  BY <1>1, FulfilLeaves
<1>3. s0.owner = call[c].owner /\ s0.epoch = call[c].mark /\ s0.id = key
  OBVIOUS
<1>4. UNCHANGED tab \/ (tab' = [tab EXCEPT ![t].sealed = s0] /\ InLock(call[c]))
  BY DEF CacheSealed
<1> HIDE DEF s0
<1>5. \A u \in Tab : /\ tab'[u].id = tab[u].id /\ tab'[u].epoch = tab[u].epoch /\ tab'[u].held = tab[u].held
                     /\ u # t => tab'[u] = tab[u]
                     /\ \A s \in Entries(u)' : s \in Entries(u) \/ (InLock(call[c]) /\ s = s0)
  BY <1>1, <1>4 DEF TabType, Entries
<1>6. InLock(call[c]) => call[c].mark <= tab[t].epoch
  BY <1>1 DEF SInv, EpochInv
<1>7. SealedFrame(c)
  <2>1. Settles(c, c) /\ \A d \in Call : Settles(c, d) => d = c \/ (call[d].pc = "sealedJoin" /\ call[d].mark = c)
    BY DEF Settles
  <2>2. \A d \in Call : call[d].pc = "sealedJoin" /\ call[d].mark = c => call'[d] # call[d]
    BY <1>2 DEF Settles
  <2>3. \A d \in Call : Settles(c, d) => ~InLock(call'[d])
    BY <1>2 DEF InLock, Resolving, After, SealingPc, KekPc
  <2>4. \A u \in Tab : \A s \in Entries(u)' : s \in Entries(u) \/ (s.owner = call[c].owner /\ s.epoch <= tab[u].epoch)
    <3> SUFFICES ASSUME NEW u \in Tab, NEW s \in Entries(u)', s \notin Entries(u)
                 PROVE  s.owner = call[c].owner /\ s.epoch <= tab[u].epoch
      OBVIOUS
    <3>1. InLock(call[c]) /\ s = s0
      BY <1>5
    <3>2. u = t
      BY <1>5 DEF Entries
    <3> QED
      BY <1>3, <1>6, <3>1, <3>2
  <2> QED
    BY <1>1, <1>2, <1>5, <2>1, <2>2, <2>3, <2>4 DEF SealedFrame, RowsQuiet
<1>8. ASSUME Sure', Durable(t), ~Moving(t)
      PROVE  /\ \A s \in Entries(t)' \ Entries(t) :
                    Claimed(t, s.owner) /\ s.epoch = tab[t].epoch => Stored(s.id, s.owner)
             /\ \A d \in Call : call'[d] # call[d] /\ call'[d].tab = t =>
                    /\ call'[d].pc = "sealedGot" /\ call[d].epoch = tab[t].epoch /\ Claimed(t, call[d].owner) =>
                          Stored(call'[d].got.id, call[d].owner)
                    /\ call'[d].pc = "sealedRead" /\ call'[d].mark = tab[t].epoch => call'[d].got = row["sealed"]
                    /\ call'[d].pc = "sealedSaved" /\ call'[d].mark = tab[t].epoch => Stored(d, call[d].owner)
  <2>1. \A d \in Call : Settles(c, d) => call[d].epoch = call[c].epoch
    BY DEF Settles, SInv, JoinInv
  <2>2. \A d \in Call : call'[d] # call[d] => Settles(c, d)
    BY <1>2
  <2>3. ASSUME NEW s \in Entries(t)' \ Entries(t), Claimed(t, s.owner), s.epoch = tab[t].epoch
        PROVE  Stored(s.id, s.owner)
    BY <1>3, <1>5, <1>8, <2>3
  <2>4. ASSUME NEW d \in Call, call'[d] # call[d]
        PROVE  /\ call'[d].pc = "sealedGot"
               /\ call[d].epoch = tab[t].epoch /\ Claimed(t, call[d].owner) => Stored(call'[d].got.id, call[d].owner)
    BY <1>2, <1>8, <2>1, <2>2, <2>4
  <2> QED
    BY <2>3, <2>4
<1>9. \A d \in Call : call[d].pc \notin After
  BY NobodyAfter DEF SealingPc, KekPc, After
<1> QED
  BY <1>7, <1>8, <1>9, SealedKeeps DEF RowsQuiet

\* A request fails, and all who wait are told.
LEMMA ThrowsDurable ==
    ASSUME IInv, IInv', HInv, SInv, DurableInv, NEW c \in Call, call[c].kind = "sealed",
           call[c].pc \in SealingPc, SealedThrows(c), UNCHANGED <<sealers, raced, mistaken>>, RowsQuiet
    PROVE  SInv' /\ DurableInv'
<1>1. ~Ended(call[c]) /\ tab \in [Tab -> TabType] /\ T(c) = tab[call[c].tab] /\ call[c].tab \in Tab
  BY Suspended DEF SealingPc, KekPc, Ended, IInv, TabInv
<1>2. \A d \in Call : call'[d] = IF Settles(c, d) THEN Over(d) ELSE call[d]
  BY DEF SealedThrows
<1>3. \A d \in Call : /\ Over(d).kind = call[d].kind /\ Over(d).owner = call[d].owner /\ Over(d).pc = "done"
                      /\ Over(d).stored.id = None /\ Over(d).tab = "none"
  BY DEF Over, IdleCall, NoRow
<1>4. \A d \in Call : Settles(c, d) => call[d].kind = "sealed" /\ Over(d) # call[d] /\ Ended(Over(d)) /\ ~InLock(Over(d))
  BY <1>1, <1>3, SettledCalls DEF Ended, InLock, Resolving, After, SealingPc, KekPc
<1>5. \A u \in Tab : /\ tab'[u].id = tab[u].id /\ tab'[u].epoch = tab[u].epoch /\ tab'[u].held = tab[u].held
                     /\ u # call[c].tab => tab'[u] = tab[u]
                     /\ Entries(u)' = Entries(u)
  BY <1>1 DEF SealedThrows, TabType, Entries
<1>6. SealedFrame(c)
  BY <1>1, <1>2, <1>3, <1>4, <1>5 DEF SealedFrame, Settles, RowsQuiet
<1>7. \A d \in Call : call'[d] # call[d] => call'[d].tab = "none"
  BY <1>2, <1>3
<1>8. \A d \in Call : call[d].pc \notin After
  BY NobodyAfter DEF InLock, SealingPc, KekPc, After
<1> QED
  BY <1>1, <1>5, <1>6, <1>7, <1>8, SealedKeeps, IdentityAssumption DEF RowsQuiet


\* A call takes the lock: the scalar is there by now, or it has to be read.
LEMMA SealedLockedDurable ==
    ASSUME IInv, IInv', HInv, SInv, DurableInv, NEW c \in Call, SealedLocked(c)
    PROVE  SInv' /\ DurableInv'
<1>1. /\ UNCHANGED <<store, tab, hist>> /\ call[c].pc = "lock" /\ call[c].kind = "sealed" /\ ~Ended(call[c])
      /\ lock = None
  BY DEF SealedLocked, LockFree, Ended
<1>2. T(c) \in TabType /\ call[c].tab \in Tab /\ T(c) = tab[call[c].tab] /\ call[c] \in CallType
  BY <1>1, Suspended
<1>3. CASE CachedFor(call[c].tab, call[c].owner)
  <2>1. Fulfil(c, T(c).sealed.id)
    BY <1>3 DEF SealedLocked
  <2>2. /\ T(c).sealed \in Entries(call[c].tab) /\ T(c).sealed.owner = call[c].owner
        /\ T(c).sealed.epoch = tab[call[c].tab].epoch
    BY <1>2, <1>3 DEF Entries, CachedFor
  <2>3. Durable(call[c].tab) /\ Claimed(call[c].tab, call[c].owner) => Stored(T(c).sealed.id, call[c].owner)
    BY <1>2, <2>2 DEF Durable
  <2> QED
    BY <1>1, <1>2, <2>1, <2>3, FulfilKeeps DEF store, hist, RowsQuiet
<1>4. CASE ~CachedFor(call[c].tab, call[c].owner)
  <2> DEFINE k == [call[c] EXCEPT !.mark = T(c).epoch]
  <2>1. Alone(c) /\ call'[c] = AskKek(k, T(c).kek)
    BY <1>1, <1>4 DEF SealedLocked, Alone, IInv, CallInv
  <2>2. /\ k \in CallType /\ k.kind = "sealed" /\ k.mark = T(c).epoch /\ k.tab = call[c].tab /\ k.owner = call[c].owner
        /\ k.epoch = call[c].epoch /\ k.stored = call[c].stored
    BY <1>1, <1>2 DEF CallType, TabType
  <2> HIDE DEF k
  <2>3. Same(call'[c], k) /\ call'[c].pc \in {"sealedRow", "kekRow"}
    BY <2>1, <2>2, AskLeaves DEF AfterKek
  <2>4. call'[c].pc \in SealingPc
    BY <2>3 DEF SealingPc, KekPc
  <2>5. /\ call'[c].kind = "sealed" /\ call'[c].mark = T(c).epoch /\ call'[c].tab = call[c].tab
        /\ call'[c].owner = call[c].owner /\ call'[c].epoch = call[c].epoch /\ call'[c].stored = call[c].stored
    BY <2>2, <2>3 DEF Same
  <2>6. /\ row'["device"] = row["device"] /\ row'["sealed"] = row["sealed"] /\ UNCHANGED <<sealers, raced, mistaken, tab>>
        /\ \A u \in Tab : \A s \in Entries(u)' : s \in Entries(u)
    BY <1>1 DEF store, hist, Entries
  <2>7. SealedFrame(c)
    BY <1>1, <2>1, <2>4, <2>5, <2>6 DEF SealedFrame, Alone
  <2>8. \A d \in Call : call'[d] # call[d] => call'[d].pc \in {"sealedRow", "kekRow"}
    BY <2>1, <2>3 DEF Alone
  <2>9. \A d \in Call : call[d].pc \notin After
    BY <1>1, NobodyAfter
  <2> QED
    BY <1>2, <2>6, <2>7, <2>8, <2>9, SealedKeeps
<1> QED
  BY <1>3, <1>4

\* What the page's promise gives goes into its memo, if the epoch still stands.
LEMMA SealedGotDurable ==
    ASSUME IInv, IInv', HInv, SInv, DurableInv, NEW c \in Call, SealedGot(c)
    PROVE  SInv' /\ DurableInv'
<1>1. UNCHANGED <<store, hist>> /\ call[c].pc = "sealedGot" /\ Finish(c)
  BY DEF SealedGot
<1>2. /\ ~Ended(call[c]) /\ call[c].kind = "sealed" /\ call[c].tab \in Tab /\ T(c) = tab[call[c].tab]
      /\ tab \in [Tab -> TabType]
  BY <1>1, JoinCall DEF IInv, TabInv
<1>3. /\ Alone(c) /\ Ended(call'[c]) /\ ~InLock(call'[c]) /\ call'[c].kind = call[c].kind
      /\ call'[c].owner = call[c].owner /\ call'[c].stored.id = None /\ call'[c].tab = "none" /\ call'[c].pc = "done"
  BY <1>1, FinishLeaves DEF Harmless, Finish, Over, IdleCall, IInv, CallInv, NoRow
<1> DEFINE s0 == [owner |-> call[c].owner, epoch |-> call[c].epoch, id |-> call[c].got.id]
           x  == [T(c) EXCEPT !.memo = Memoised(c), !.inflight = IF @ = c THEN None ELSE @]
<1>4. s0.owner = call[c].owner /\ s0.epoch = call[c].epoch /\ s0.id = call[c].got.id
  OBVIOUS
<1>5. /\ tab' = [tab EXCEPT ![call[c].tab] = x]
      /\ x.memo = Memoised(c) /\ x.id = T(c).id /\ x.epoch = T(c).epoch /\ x.held = T(c).held /\ x.sealed = T(c).sealed
      /\ Memoised(c) = IF T(c).epoch = call[c].epoch THEN T(c).memo \cup {s0} ELSE T(c).memo
  <2>1. tab' = [tab EXCEPT ![call[c].tab] = x]
    BY <1>2 DEF SealedGot
  <2>2. T(c) \in TabType
    BY <1>2
  <2> QED
    BY <2>1, <2>2 DEF Memoised, TabType
<1> HIDE DEF s0, x
<1>6. \A u \in Tab : /\ tab'[u].id = tab[u].id /\ tab'[u].epoch = tab[u].epoch /\ tab'[u].held = tab[u].held
                     /\ u # call[c].tab => tab'[u] = tab[u]
                     /\ tab'[u].sealed = tab[u].sealed /\ (u = call[c].tab => tab'[u].memo = Memoised(c))
  BY <1>2, <1>5
<1>7. \A u \in Tab : \A s \in Entries(u)' : s \in Entries(u) \/ (u = call[c].tab /\ s = s0 /\ s0.epoch = tab[u].epoch)
  <2> SUFFICES ASSUME NEW u \in Tab, NEW s \in Entries(u)', s \notin Entries(u)
               PROVE  u = call[c].tab /\ s = s0 /\ s0.epoch = tab[u].epoch
    OBVIOUS
  <2>1. u = call[c].tab /\ s \in Memoised(c) /\ s \notin T(c).memo
    BY <1>2, <1>6 DEF Entries
  <2> QED
    BY <1>2, <1>4, <1>5, <2>1
<1>8. tab[call[c].tab].epoch \in Nat
  BY <1>2, Epochs
<1>9. \A d \in Call : ~(call[d].pc = "sealedJoin" /\ call[d].mark = c)
  BY <1>1 DEF SInv, JoinInv, SealingPc, KekPc
<1>10. SealedFrame(c)
  <2>1. \A u \in Tab : \A s \in Entries(u)' : s \in Entries(u) \/ (s.owner = call[c].owner /\ s.epoch <= tab[u].epoch)
    BY <1>4, <1>7, <1>8
  <2> QED
    BY <1>1, <1>2, <1>3, <1>6, <1>9, <2>1 DEF SealedFrame, Alone, store, hist
<1>11. ASSUME Durable(call[c].tab), NEW s, s = s0, s.epoch = tab[call[c].tab].epoch, Claimed(call[c].tab, s.owner)
       PROVE  Stored(s.id, s.owner)
  BY <1>1, <1>4, <1>11 DEF Durable
<1>12. \A d \in Call : call'[d] # call[d] => call'[d].tab = "none"
  BY <1>3 DEF Alone
<1>13. ASSUME NEW t \in Tab, t = call[c].tab, Gone(t)
       PROVE  Gone(t)'
  <2>1. Spent(t) => s0.epoch # tab[t].epoch
    BY <1>1, <1>4, <1>13 DEF Spent
  <2>2. Spent(t) => Spent(t)'
    BY <1>2, <1>3, <1>6, <1>7, <1>13, <2>1 DEF Spent, Alone
  <2> QED
    BY <1>1, <1>3, <1>13, <2>2 DEF Gone, Alone, store, After
<1> QED
  BY <1>1, <1>2, <1>7, <1>10, <1>11, <1>12, <1>13, SealedKeeps, IdentityAssumption DEF store, hist

\* The stored scalar is read, and used or not.
LEMMA SealedReadDurable ==
    ASSUME IInv, IInv', HInv, SInv, DurableInv, NEW c \in Call, SealedRow(c) \/ SealedLoaded(c) \/ SealedSaved(c)
    PROVE  SInv' /\ DurableInv'
<1>1. /\ UNCHANGED <<store, hist>> /\ call[c].pc \in {"sealedRow", "sealedRead", "sealedSaved"}
  BY DEF SealedRow, SealedLoaded, SealedSaved
<1>2. /\ ~Ended(call[c]) /\ call[c].kind = "sealed" /\ call[c].tab \in Tab /\ T(c) = tab[call[c].tab]
      /\ InLock(call[c]) /\ call[c].pc \in SealingPc
  BY <1>1, JoinCall DEF SealingPc
<1>3. RowsQuiet /\ UNCHANGED <<sealers, raced, mistaken>>
  BY <1>1 DEF RowsQuiet, store, hist
<1>4. call[c].epoch = tab[call[c].tab].epoch => call[c].mark = tab[call[c].tab].epoch
  <2>1. call[c].epoch <= call[c].mark /\ call[c].mark <= tab[call[c].tab].epoch
    BY <1>2 DEF SInv, EpochInv
  <2> QED
    BY <1>2, <2>1, Epochs
<1>5. CASE SealedRow(c)
  <2>1. /\ Alone(c) /\ Same(call'[c], call[c]) /\ call'[c].pc = "sealedRead" /\ call'[c].got = row["sealed"]
        /\ UNCHANGED tab
    BY <1>5, ReadLeaves DEF SealedRow
  <2>2. \A u \in Tab : Entries(u)' = Entries(u)
    BY <2>1 DEF Entries
  <2>3. SealedFrame(c)
    BY <1>2, <1>3, <2>1, <2>2 DEF SealedFrame, Alone, Same, RowsQuiet, SealingPc
  <2>4. \A d \in Call : call'[d] # call[d] => call'[d].pc = "sealedRead" /\ call'[d].got = row["sealed"]
    BY <2>1 DEF Alone
  <2>5. \A d \in Call : call[d].pc \notin After
    BY <1>1, <1>2, NobodyAfter DEF After
  <2> QED
    BY <1>2, <1>3, <2>2, <2>3, <2>4, <2>5, SealedKeeps DEF RowsQuiet
<1>6. CASE SealedLoaded(c) /\ call[c].got.kek = call[c].kek
  <2>1. /\ CacheSealed(c, call[c].got.id) /\ Fulfil(c, call[c].got.id) /\ call[c].got.owner = call[c].owner
        /\ call[c].pc = "sealedRead"
    BY <1>6 DEF SealedLoaded, Usable
  <2>2. Durable(call[c].tab) /\ call[c].mark = tab[call[c].tab].epoch => Stored(call[c].got.id, call[c].owner)
    BY <1>2, <2>1 DEF Durable, Stored
  <2> QED
    BY <1>2, <1>3, <1>4, <2>1, <2>2, FulfilKeeps
<1>7. CASE SealedLoaded(c) /\ call[c].got.kek # call[c].kek
  BY <1>2, <1>3, <1>7, ThrowsDurable DEF SealedLoaded
<1>8. CASE SealedSaved(c)
  <2>1. CacheSealed(c, c) /\ Fulfil(c, c) /\ call[c].pc = "sealedSaved"
    BY <1>8 DEF SealedSaved
  <2>2. Durable(call[c].tab) /\ call[c].mark = tab[call[c].tab].epoch => Stored(c, call[c].owner)
    BY <1>2, <2>1 DEF Durable
  <2> QED
    BY <1>2, <1>3, <1>4, <2>1, <2>2, FulfilKeeps
<1> QED
  BY <1>5, <1>6, <1>7, <1>8


\* Nobody but the call that has the lock resolves the identity.
LEMMA ClaimsInLock ==
    ASSUME HInv, NEW c \in Call, InLock(call[c]), call[c].kind = "sealed", NEW t \in Tab, NEW o, Claimed(t, o)
    PROVE  o # None /\ o \in {row["device"].id, tab[t].id}
  BY DEF Claimed, HInv, LockHeld, InLock, Resolving

\* A scalar is minted: handed out when the page's identity is not the call's,
\* stored when it is.
LEMMA MintDurable ==
    ASSUME IInv, IInv', HInv, SInv, DurableInv, NEW c \in Call, SealedMint(c)
    PROVE  SInv' /\ DurableInv'
<1>1. /\ UNCHANGED <<tab, raced, sealers>> /\ call[c].pc = "sealedRead" /\ call[c].got.owner # call[c].owner
      /\ mistaken' = (mistaken \/ Mistakes(c)) /\ mistaken \in BOOLEAN
  BY DEF SealedMint, Usable, IInv, RestOK, HistoryOK
<1>2. /\ ~Ended(call[c]) /\ call[c].kind = "sealed" /\ call[c].tab \in Tab /\ T(c) = tab[call[c].tab]
      /\ InLock(call[c]) /\ call[c].pc \in SealingPc
  BY <1>1, JoinCall DEF SealingPc
<1>3. call[c].epoch = tab[call[c].tab].epoch => call[c].mark = tab[call[c].tab].epoch
  <2>1. call[c].epoch <= call[c].mark /\ call[c].mark <= tab[call[c].tab].epoch
    BY <1>2 DEF SInv, EpochInv
  <2> QED
    BY <1>2, <2>1, Epochs
<1>4. CASE Retired(c)
  <2>1. Fulfil(c, c) /\ UNCHANGED row
    BY <1>1, <1>4 DEF SealedMint
  <2>2. ~(/\ Sure' /\ ~Moving(call[c].tab) /\ call[c].mark = tab[call[c].tab].epoch
          /\ Claimed(call[c].tab, call[c].owner))
    <3> SUFFICES ASSUME ~mistaken', ~Moving(call[c].tab), call[c].mark = tab[call[c].tab].epoch,
                        Claimed(call[c].tab, call[c].owner)
                 PROVE  FALSE
      BY DEF Sure
    <3>1. call[c].owner # row["device"].id
      BY <1>1, <1>2, <1>4 DEF Mistakes
    <3>2. tab[call[c].tab].id # call[c].owner
      BY <1>2, <1>4 DEF Retired
    <3> QED
      BY <1>2, <3>1, <3>2, ClaimsInLock
  <2> QED
    BY <1>1, <1>2, <1>3, <2>1, <2>2, FulfilKeeps DEF RowsQuiet
<1>5. CASE ~Retired(c)
  <2>1. Goto(c, "sealedSaved") /\ row' = [row EXCEPT !["sealed"] = Wrapped(c, call[c].kek, call[c].owner)]
    BY <1>1, <1>5 DEF SealedMint
  <2>2. Alone(c) /\ Same(call'[c], call[c]) /\ call'[c].pc = "sealedSaved"
    BY <2>1, GotoLeaves
  <2>3. /\ row'["device"] = row["device"] /\ row'["sealed"].id = c /\ row'["sealed"].owner = call[c].owner
    BY <2>1 DEF IInv, StoreInv, RowName, Wrapped
  <2>4. SealedFrame(c)
    BY <1>1, <1>2, <2>2, <2>3 DEF SealedFrame, Alone, Same, Entries, SealingPc
  <2>5. SInv'
    BY <2>4, SealedFrameKeeps
  <2>17. \A d \in Call : call'[d].pc \notin After
    BY <1>1, <1>2, <2>2, NobodyAfter DEF Alone, After
  <2> SUFFICES ASSUME Sure', NEW t \in sealers', ~Moving(t)'
               PROVE  Durable(t)'
    BY <2>5, <2>17 DEF DurableInv, Gone
  <2>6. call[c].tab \in sealers
    BY <1>2 DEF SInv, SealerInv
  <2>7. t = call[c].tab /\ ~mistaken /\ ~Mistakes(c) /\ Sure /\ t \in sealers /\ T(c) = tab[t] /\ t \in Tab
    BY <1>1, <1>2, <2>6 DEF Sure, OneSealer
  <2>8. ~Moving(t)
    <3> SUFFICES ASSUME NEW d \in Call, call[d].tab = t, call[d].pc \in MovingPc
                 PROVE  FALSE
      BY DEF Moving, MovingPc
    <3>1. d # c
      BY <1>1 DEF MovingPc
    <3> QED
      BY <2>2, <3>1 DEF Moving, MovingPc, Alone
  <2>9. Durable(t)
    BY <2>7, <2>8 DEF DurableInv
  <2>10. call[c].mark = tab[t].epoch /\ tab[t].id \in {None, call[c].owner} /\ call[c].owner = row["device"].id
    BY <1>5, <2>7, <2>8 DEF Retired, Mistakes
  <2>11. \A o : Claimed(t, o)' => Claimed(t, o) /\ o = call[c].owner
    <3> SUFFICES ASSUME NEW o, Claimed(t, o)'
                 PROVE  Claimed(t, o) /\ o = call[c].owner
      OBVIOUS
    <3>1. Claimed(t, o)
      BY <1>1, <1>2, <2>2, <2>3 DEF Claimed, Alone, Same, Resolving
    <3> QED
      BY <1>2, <2>7, <2>10, <3>1, ClaimsInLock
  <2>12. call[c].got = row["sealed"]
    BY <1>1, <2>7, <2>9, <2>10 DEF Durable
  <2>13. \A id : ~Stored(id, call[c].owner)
    BY <1>1, <2>12 DEF Stored
  <2>14. ASSUME NEW s \in Entries(t)', Claimed(t, s.owner)', s.epoch = tab'[t].epoch
         PROVE  FALSE
    BY <1>1, <2>7, <2>9, <2>11, <2>13, <2>14 DEF Durable, Entries
  <2>15. ASSUME NEW d \in Call, call'[d].tab = t
         PROVE  /\ call'[d].pc = "sealedGot" /\ call'[d].epoch = tab'[t].epoch => ~Claimed(t, call[d].owner)'
                /\ call'[d].pc \notin {"sealedRead", "sealedSaved"} \/ d = c
    <3>1. CASE d = c
      BY <2>2, <3>1
    <3>2. CASE d # c
      <4>1. call'[d] = call[d] /\ tab' = tab
        BY <1>1, <2>2, <3>2 DEF Alone
      <4>2. call[d].pc \notin {"sealedRead", "sealedSaved"}
        BY <1>2, <3>2, JoinCall DEF HInv, LockHeld
      <4>3. call[d].pc = "sealedGot" /\ call[d].epoch = tab[t].epoch => ~Claimed(t, call[d].owner)'
        BY <2>7, <2>9, <2>11, <2>13, <2>15, <4>1 DEF Durable
      <4> QED
        BY <4>1, <4>2, <4>3
    <3> QED
      BY <3>1, <3>2
  <2>16. Stored(c, call[c].owner)' /\ call'[c].pc = "sealedSaved"
    BY <2>2, <2>3 DEF Stored, Same
  <2> QED
    BY <2>14, <2>15, <2>16 DEF Durable
<1> QED
  BY <1>4, <1>5

LEMMA SealedDurableStep ==
    ASSUME IInv, IInv', HInv, SInv, DurableInv, NEW c \in Call, Sealed(c)
    PROVE  SInv' /\ DurableInv'
  BY SealedLockedDurable, SealedReadDurable, MintDurable, SealedGotDurable DEF Sealed

LEMMA SealedFaultDurable ==
    ASSUME IInv, IInv', HInv, SInv, DurableInv, NEW c \in Call, UNCHANGED <<store, hist>>, SealedFault(c)
    PROVE  SInv' /\ DurableInv'
  BY ThrowsDurable DEF SealedFault, KekFails, SealingPc, KekPc, RowsQuiet, store, hist


-----------------------------------------------------------------------------
(* A forget *)

\* While a forget that raced nothing runs, nobody has an identity to claim.
LEMMA NothingClaimed ==
    ASSUME IInv', HInv', SInv', NEW c \in Call, Clearing(call'[c])
    PROVE  DurableInv'
<1> SUFFICES ASSUME ~raced', NEW t \in Tab
             PROVE  Durable(t)' /\ Gone(t)'
  BY DEF DurableInv, Sure, IInv, RestOK, HistoryOK
<1>1. /\ row'["device"] = NoRow /\ NoRow.id = None
      /\ \A d \in Call \ {c} : Ended(call'[d])
      /\ \A u \in Tab : tab'[u].id = None
  BY DEF HInv, ClearAlone, NoRow
<1>2. \A d \in Call : ~Resolving(call'[d])
  BY <1>1 DEF Resolving, Clearing, Ended, KekPc
<1>3. \A d \in Call : call'[d].pc \notin {"sealedRead", "sealedSaved"} \cup After
  <2>1. call'[c].kind = "clear" /\ call'[c].pc \in PcOf(call'[c].kind)
    BY DEF Clearing, IInv, CallInv, Shape
  <2> QED
    BY <1>1, <2>1 DEF PcOf, ClearNext, Ended, After
<1>4. \A o : ~Claimed(t, o)'
  BY <1>1, <1>2 DEF Claimed
<1> QED
  BY <1>3, <1>4, DurableUnborn DEF Gone

\* The last step of a forget leaves nobody with an identity either.
LEMMA ClearsDurable ==
    ASSUME IInv, IInv', HInv, SInv, NEW c \in Call, Clearing(call[c]), Alone(c), call'[c].kind = "clear",
           call'[c].owner = call[c].owner, call'[c].stored.id \in {None, call[c].stored.id},
           call'[c].pc # "idle",
           \/ Ended(call'[c])
           \/ call'[c].tab = call[c].tab /\ call'[c].epoch = call[c].epoch /\ call'[c].mark = call[c].mark,
           row'["device"] = row["device"], UNCHANGED <<tab, raced, mistaken, sealers>>
    PROVE  SInv' /\ DurableInv'
<1>1. \A t \in Tab : tab[t].epoch \in Nat
  BY Epochs
<1>2. call[c].pc \notin After /\ ~Ended(call[c]) /\ call[c].kind = "clear"
  BY IdentityCall DEF After, IdentityPc, Clearing
<1>3. Frame(c)
  BY <1>1, <1>2 DEF Frame
<1>4. SInv'
  BY <1>3, FrameKeeps
<1> SUFFICES ASSUME ~raced, NEW t \in Tab
             PROVE  Durable(t)' /\ Gone(t)'
  BY <1>4 DEF DurableInv, Sure, IInv, RestOK, HistoryOK
<1>5. /\ row'["device"].id = None /\ \A d \in Call \ {c} : Ended(call'[d])
      /\ \A u \in Tab : tab'[u].id = None
  BY DEF HInv, ClearAlone, NoRow, Alone
<1>6. Ended(call'[c]) \/ (call'[c].pc \in DOMAIN ClearNext)
  BY DEF IInv, CallInv, Shape, PcOf
<1>7. \A d \in Call : ~Resolving(call'[d]) /\ call'[d].pc \notin {"sealedRead", "sealedSaved"} \cup After
  BY <1>5, <1>6 DEF Resolving, Ended, KekPc, ClearNext, After
<1>8. \A o : ~Claimed(t, o)'
  BY <1>5, <1>7 DEF Claimed
<1> QED
  BY <1>4, <1>7, <1>8, DurableUnborn DEF Gone

LEMMA ClearStepDurable ==
    ASSUME IInv, IInv', HInv, SInv, NEW c \in Call,
           ClearStep(c) \/ (OtherFault(c) /\ call[c].kind = "clear" /\ UNCHANGED <<store, hist>>)
    PROVE  SInv' /\ DurableInv'
<1>1. UNCHANGED <<tab, raced, mistaken, sealers>> /\ row'["device"] = row["device"]
  BY DEF ClearStep, OtherFault, hist, store, Cleared, RowName
<1>2. ~Ended(call[c])
  BY DEF ClearStep, OtherFault, KekFails, ClearNext, Ended
<1>3. call[c].kind = "clear" /\ call[c].pc \in DOMAIN ClearNext
  <2>1. CASE ClearStep(c)
    BY <1>2, <2>1, KindOf DEF ClearStep
  <2>2. CASE call[c].kind = "clear"
    BY <1>2, <2>2, Suspended DEF PcOf
  <2> QED
    BY <2>1, <2>2
<1>4. CASE Finish(c)
  <2>1. /\ Alone(c) /\ Ended(call'[c]) /\ call'[c].kind = call[c].kind /\ call'[c].owner = call[c].owner
        /\ call'[c].stored.id = None /\ call'[c].pc = "done"
    BY <1>4, FinishLeaves DEF Finish, Over, IdleCall, IInv, CallInv, NoRow
  <2> QED
    BY <1>1, <1>2, <1>3, <2>1, ClearsDurable DEF Clearing
<1>5. CASE ClearStep(c) /\ Goto(c, ClearNext[call[c].pc])
  <2>1. Alone(c) /\ Same(call'[c], call[c]) /\ call'[c].pc = ClearNext[call[c].pc]
    BY <1>5, GotoLeaves
  <2>2. ClearNext[call[c].pc] # "idle"
    BY <1>3 DEF ClearNext
  <2> QED
    BY <1>1, <1>2, <1>3, <2>1, <2>2, ClearsDurable DEF Clearing, Same
<1>6. CASE OtherFault(c)
  BY <1>3, <1>4, <1>6 DEF OtherFault, ClearNext
<1> QED
  BY <1>4, <1>5, <1>6 DEF ClearStep


-----------------------------------------------------------------------------
(* Calls are made *)

\* Call c is made, for nobody or for an identity that somebody has.
Makes(c) ==
    /\ call[c].pc = "idle" /\ Alone(c) /\ ~Ended(call'[c]) /\ ~InLock(call'[c]) /\ call'[c].stored.id = None
    /\ sealers \subseteq sealers' /\ IsFiniteSet(sealers')
    /\ call'[c].kind \in {"sealed", "replace"} => call'[c].tab \in sealers'
    /\ call'[c].kind = "sealed" => call'[c].epoch = tab[call'[c].tab].epoch
    /\ call'[c].pc = "sealedJoin" =>
          /\ call'[c].mark \in Call \ {c}
          /\ LET f == call[call'[c].mark]
             IN /\ f.kind = "sealed" /\ f.pc \in SealingPc \cup {"lock"}
                /\ f.tab = call'[c].tab /\ f.epoch = call'[c].epoch
    /\ \/ call'[c].owner \in {None, Old}
       \/ \E u \in Tab : call'[c].owner \in tab[u].held
       \/ call'[c].owner = c /\ call'[c].kind # "identity"
    /\ row'["device"].id \in {None, row["device"].id}
    /\ \A t \in Tab : /\ tab'[t].memo = tab[t].memo /\ tab'[t].sealed \in {tab[t].sealed, NoSealed}
                      /\ tab[t].epoch <= tab'[t].epoch /\ tab'[t].held = tab[t].held
                      /\ call'[c].kind = "sealed" => tab'[t].epoch = tab[t].epoch

LEMMA MakesKeeps ==
    ASSUME IInv, IInv', SInv, NEW c \in Call, Makes(c)
    PROVE  SInv'
<1>1. \A t \in Tab : \A s \in Entries(t)' : s \in Entries(t) \/ s = NoSealed
  BY DEF Makes, Entries
<1>2. NoSealed.owner = None /\ NoSealed.epoch = 0
  BY DEF NoSealed
<1>3. SealerInv'
  BY DEF SInv, SealerInv, Makes, Alone
<1>4. ASSUME NEW d \in Call, ~Ended(call'[d])
      PROVE  call'[d].tab \in Tab /\ T(d)' = tab'[call'[d].tab]
  BY <1>4 DEF IInv, CallInv, Shape, CallType, T
<1>5. EpochInv'
  <2>1. ASSUME NEW t \in Tab, NEW s \in Entries(t)'
        PROVE  s.epoch <= tab'[t].epoch
    BY <1>1, <1>2, <2>1, Epochs DEF SInv, EpochInv, Makes, IInv, TabInv, TabType, Epoch
  <2>2. ASSUME NEW d \in Call, ~Ended(call'[d]), call'[d].kind = "sealed"
        PROVE  /\ call'[d].epoch <= T(d)'.epoch
               /\ InLock(call'[d]) => call'[d].epoch <= call'[d].mark /\ call'[d].mark <= T(d)'.epoch
    <3>1. CASE d = c
      <4>1. call'[d].epoch = T(d)'.epoch /\ ~InLock(call'[d])
        BY <1>4, <2>2, <3>1 DEF Makes
      <4>2. call'[d].epoch \in Nat
        BY DEF IInv, CallInv, CallType, Epoch
      <4> QED
        BY <4>1, <4>2
    <3>2. CASE d # c
      <4>1. call'[d] = call[d]
        BY <3>2 DEF Makes, Alone
      <4>2. /\ call[d].epoch <= T(d).epoch
            /\ InLock(call[d]) => call[d].epoch <= call[d].mark /\ call[d].mark <= T(d).epoch
        BY <2>2, <4>1 DEF SInv, EpochInv
      <4>3. T(d).epoch <= T(d)'.epoch /\ T(d).epoch \in Nat /\ T(d)'.epoch \in Nat
        BY <1>4, <2>2, <4>1, Epochs DEF Makes, T, IInv, TabInv, TabType, Epoch
      <4> QED
        BY <4>1, <4>2, <4>3, Epochs
    <3> QED
      BY <3>1, <3>2
  <2> QED
    BY <2>1, <2>2 DEF EpochInv
<1>6. JoinInv'
  <2> SUFFICES ASSUME NEW d \in Call, call'[d].pc = "sealedJoin"
               PROVE  LET f == call'[call'[d].mark]
                      IN /\ f.kind = "sealed" /\ f.pc \in SealingPc \cup {"lock"}
                         /\ f.tab = call'[d].tab /\ f.epoch = call'[d].epoch
    BY DEF JoinInv
  <2>1. CASE d = c
    BY <2>1 DEF Makes, Alone
  <2>2. CASE d # c
    <3>1. call'[d] = call[d] /\ call[d].mark \in Call
      BY <2>2 DEF Makes, Alone, IInv, CallInv, SealedSane
    <3>2. call[d].mark # c
      BY <3>1 DEF SInv, JoinInv, Makes, SealingPc, KekPc
    <3> QED
      BY <3>1, <3>2 DEF SInv, JoinInv, Makes, Alone
  <2> QED
    BY <2>1, <2>2
<1>7. UnbornInv'
  <2> SUFFICES ASSUME NEW v \in Call, Unborn(v)'
               PROVE  /\ \A t \in Tab : v \notin tab'[t].held /\ \A s \in Entries(t)' : s.owner # v
                      /\ \A d \in Call : call'[d].owner # v /\ call'[d].stored.id # v
                      /\ row'["device"].id = v => call'[v].pc \in After
    BY DEF UnbornInv
  <2>1. Unborn(v) /\ v # None /\ v # Old /\ (v = c => call'[c].kind = "identity")
    BY Numbers DEF Unborn, Makes, Alone, Ended
  <2>2. /\ \A t \in Tab : v \notin tab[t].held /\ \A s \in Entries(t) : s.owner # v
        /\ \A d \in Call : call[d].owner # v /\ call[d].stored.id # v
        /\ row["device"].id = v => call[v].pc \in After
    BY <2>1 DEF SInv, UnbornInv
  <2>3. call'[c].owner # v
    BY <2>1, <2>2 DEF Makes
  <2>4. row["device"].id = v => v # c
    BY <2>2 DEF Makes, After
  <2> QED
    BY <1>1, <1>2, <2>1, <2>2, <2>3, <2>4 DEF Makes, Alone
<1> QED
  BY <1>3, <1>5, <1>6, <1>7 DEF SInv

\* A page that never sealed nor restored has nothing to be stored.
LEMMA UnsealedDurable ==
    ASSUME IInv, SInv, NEW t \in Tab, t \notin sealers
    PROVE  Durable(t) /\ Gone(t)
<1>1. tab[t].memo = {} /\ tab[t].sealed = NoSealed /\ NoSealed.owner = None
  BY DEF SInv, SealerInv, NoSealed
<1>2. \A d \in Call : call[d].tab = t => call[d].pc \notin {"sealedRead", "sealedSaved", "sealedGot"}
  BY JoinCall DEF SInv, SealerInv
<1> QED
  BY <1>1, <1>2 DEF Durable, Gone, Spent, Entries, Claimed

\* A call that is made has its scalar, if it has one, from its page.
LEMMA MakesDurable ==
    ASSUME IInv, IInv', SInv, DurableInv, NEW c \in Call, Makes(c), BesideClear, mistaken' = mistaken, UNCHANGED store,
           \A t \in Tab : tab'[t].sealed = tab[t].sealed /\ tab'[t].epoch = tab[t].epoch /\ tab'[t].id \in {tab[t].id, None},
           call'[c].pc \notin MovingPc \cup {"sealedRead", "sealedSaved"},
           call'[c].pc = "sealedGot" => LET t == call'[c].tab IN
               \/ \E s \in Entries(t) : s.owner = call'[c].owner /\ s.epoch = tab[t].epoch /\ s.id = call'[c].got.id
               \/ \E f \in Call : /\ call[f].pc = "sealedGot" /\ call[f].tab = t /\ call[f].owner = call'[c].owner
                                  /\ call[f].epoch = tab[t].epoch /\ call[f].got.id = call'[c].got.id
    PROVE  SInv' /\ DurableInv'
<1>1. SInv'
  BY MakesKeeps
<1> SUFFICES ASSUME Sure', NEW t \in Tab, ~Moving(t)'
             PROVE  Durable(t)' /\ Gone(t)'
  BY <1>1 DEF DurableInv, IInv, RestOK, HistoryOK
<1>2. Sure
  <2>1. ~raced /\ ~mistaken
    BY DEF Sure, BesideClear
  <2>2. sealers \subseteq sealers' /\ OneSealer'
    BY DEF Sure, Makes
  <2> QED
    BY <2>1, <2>2 DEF Sure, OneSealer
<1>3. ~Moving(t)
  <2> SUFFICES ASSUME NEW d \in Call, call[d].tab = t, call[d].pc \in MovingPc
               PROVE  FALSE
    BY DEF Moving, MovingPc
  <2>1. call'[d] = call[d]
    BY DEF Makes, Alone, MovingPc
  <2> QED
    BY <2>1 DEF Moving, MovingPc
<1>4. Durable(t) /\ Gone(t)
  BY <1>2, <1>3, UnsealedDurable DEF DurableInv
<1>5. \A o : Claimed(t, o)' => Claimed(t, o)
  BY DEF Claimed, Makes, Alone, InLock, store
<1>6. ASSUME NEW s \in Entries(t)', Claimed(t, s.owner)', s.epoch = tab'[t].epoch
      PROVE  Stored(s.id, s.owner)'
  BY <1>4, <1>5, <1>6 DEF Durable, Entries, Makes, Stored, store
<1>7. ASSUME NEW d \in Call, call'[d].tab = t
      PROVE  /\ call'[d].pc = "sealedGot" /\ call'[d].epoch = tab'[t].epoch /\ Claimed(t, call[d].owner)' =>
                   Stored(call[d].got.id, call[d].owner)'
             /\ call'[d].pc = "sealedRead" /\ call'[d].mark = tab'[t].epoch => call'[d].got = row'["sealed"]
             /\ call'[d].pc = "sealedSaved" /\ call'[d].mark = tab'[t].epoch => Stored(d, call[d].owner)'
  <2>1. tab'[t].epoch = tab[t].epoch /\ row' = row
    BY DEF store
  <2>2. CASE d # c
    <3>1. call'[d] = call[d]
      BY <2>2 DEF Makes, Alone
    <3>2. Claimed(t, call[d].owner)' => Claimed(t, call[d].owner)
      BY <1>5, <3>1
    <3> QED
      BY <1>4, <1>7, <2>1, <3>1, <3>2 DEF Durable, Stored
  <2>3. CASE d = c /\ call'[c].pc = "sealedGot" /\ Claimed(t, call[c].owner)'
    <3>1. Claimed(t, call'[c].owner)
      BY <1>5, <2>3
    <3>2. Stored(call'[c].got.id, call'[c].owner)
      BY <1>4, <1>7, <2>3, <3>1 DEF Durable
    <3> QED
      BY <2>1, <2>3, <3>2 DEF Stored
  <2> QED
    BY <2>2, <2>3
<1>8. Durable(t)'
  BY <1>6, <1>7 DEF Durable
<1>9. Gone(t)'
  <2>1. call'[c].pc = "sealedGot" => call'[c].owner # None
    <3> SUFFICES ASSUME call'[c].pc = "sealedGot"
                 PROVE  call'[c].owner # None
      OBVIOUS
    <3>1. ~Ended(call'[c]) /\ call'[c].kind \in Kind /\ call'[c].pc \in PcOf(call'[c].kind)
      BY DEF Ended, IInv, CallInv, Shape, CallType
    <3>2. call'[c].kind = "sealed"
      BY <3>1 DEF PcOf, KekPc, Kind, ClearNext
    <3> QED
      BY <3>1, <3>2 DEF IInv, CallInv, PairSane
  <2>2. Spent(t) => Spent(t)'
    BY <2>1 DEF Spent, Makes, Alone, Entries
  <2>3. \A d \in Call : call'[d].pc \in After => call[d].pc \in After
    BY DEF Makes, Alone, InLock
  <2> QED
    BY <1>4, <2>2, <2>3 DEF Gone, store
<1> QED
  BY <1>8, <1>9


LEMMA PlainStarts ==
    ASSUME IInv, IInv', HInv, SInv, DurableInv, NEW c \in Call, NEW t \in Tab, IdentityStart(c, t) \/ NoiseStart(c, t)
    PROVE  SInv' /\ DurableInv'
<1>1. UNCHANGED <<store, tab, mistaken, sealers>> /\ BesideClear /\ call[c].pc = "idle" /\ IsFiniteSet(sealers)
  BY DEF IdentityStart, NoiseStart, Next1, SInv, SealerInv
<1>2. /\ Alone(c) /\ call'[c].kind \in {"identity", "noise"} /\ call'[c].pc \in {"lock", "kekRow", "noiseRow"}
      /\ call'[c].owner = None /\ call'[c].stored.id = None
      /\ call'[c].pc = "lock" \/ call'[c].kind = "noise"
  <2> DEFINE m(kind) == Made(c, kind, t, None)
  <2>1. \A kind \in {"identity", "noise"} : /\ m(kind) \in CallType /\ m(kind).kind = kind /\ m(kind).owner = None
                                            /\ m(kind).stored.id = None
    BY MadeShape, Numbers DEF Kind, NoRow
  <2> HIDE DEF m
  <2>2. CASE IdentityStart(c, t)
    <3>1. call' = [call EXCEPT ![c] = [m("identity") EXCEPT !.pc = "lock"]]
      BY <2>2 DEF IdentityStart, m
    <3> QED
      BY <2>1, <3>1 DEF Alone, IInv, CallInv, CallType
  <2>3. CASE NoiseStart(c, t)
    <3>1. call' = [call EXCEPT ![c] = AskKek(m("noise"), tab[t].kek)]
      BY <2>3 DEF NoiseStart, m
    <3>2. Alone(c) /\ call'[c] = AskKek(m("noise"), tab[t].kek)
      BY <3>1 DEF Alone, IInv, CallInv
    <3>3. Same(call'[c], m("noise")) /\ call'[c].pc \in {"kekRow", AfterKek(m("noise"))}
      BY <2>1, <3>2, AskLeaves
    <3>4. AfterKek(m("noise")) = "noiseRow"
      BY <2>1 DEF AfterKek
    <3> QED
      BY <2>1, <3>2, <3>3, <3>4 DEF Same
  <2> QED
    BY <2>2, <2>3
<1>3. \A u \in Tab : tab[u].epoch \in Nat
  BY Epochs
<1>4. Makes(c)
  BY <1>1, <1>2, <1>3 DEF Makes, Ended, InLock, Resolving, After, KekPc, store
<1> QED
  BY <1>1, <1>2, <1>4, MakesDurable DEF MovingPc

LEMMA ReplaceStarts ==
    ASSUME IInv, IInv', HInv, SInv, DurableInv, NEW c \in Call, NEW t \in Tab, NEW o \in {Old, c}, ReplaceStart(c, t, o)
    PROVE  SInv' /\ DurableInv'
<1>1. UNCHANGED <<store, mistaken>> /\ BesideClear /\ call[c].pc = "idle" /\ sealers' = sealers \cup {t}
  BY DEF ReplaceStart, Next1
<1>2. IsFiniteSet(sealers')
  BY <1>1, FS_AddElement DEF SInv, SealerInv
<1> DEFINE m == Made(c, "replace", t, o)
<1>3. m \in CallType /\ m.kind = "replace" /\ m.owner = o /\ m.tab = t /\ m.stored.id = None
  BY MadeShape, Numbers DEF Kind, NoRow
<1>4. Alone(c) /\ call'[c] = AskKek(m, None)
  BY DEF ReplaceStart, Alone, IInv, CallInv
<1> HIDE DEF m
<1>5. Same(call'[c], m) /\ call'[c].pc = "kekRow"
  BY <1>3, <1>4, AskLeaves
<1>6. \A u \in Tab : /\ tab'[u].memo = tab[u].memo /\ tab'[u].sealed = tab[u].sealed /\ tab'[u].epoch = tab[u].epoch
                     /\ tab'[u].held = tab[u].held /\ tab'[u].id \in {tab[u].id, None}
  <2> DEFINE x == [tab[t] EXCEPT !.id = None, !.kek = None]
  <2>1. tab \in [Tab -> TabType]
    BY DEF IInv, TabInv
  <2>2. tab' = [tab EXCEPT ![t] = x]
    BY <2>1 DEF ReplaceStart
  <2>3. /\ x.memo = tab[t].memo /\ x.sealed = tab[t].sealed /\ x.epoch = tab[t].epoch /\ x.held = tab[t].held
        /\ x.id = None
    BY <2>1 DEF TabType
  <2> HIDE DEF x
  <2> QED
    BY <2>1, <2>2, <2>3
<1>7. \A u \in Tab : tab[u].epoch \in Nat
  BY Epochs
<1>8. Makes(c)
  BY <1>1, <1>2, <1>3, <1>4, <1>5, <1>6, <1>7 DEF Makes, Same, Ended, InLock, Resolving, After, KekPc, store
<1> QED
  BY <1>1, <1>5, <1>6, <1>8, MakesDurable DEF MovingPc

LEMMA SealedStarts ==
    ASSUME IInv, IInv', HInv, SInv, DurableInv, NEW c \in Call, NEW t \in Tab, NEW o \in Key, SealedStart(c, t, o)
    PROVE  SInv' /\ DurableInv'
<1>1. /\ UNCHANGED <<store, mistaken>> /\ BesideClear /\ call[c].pc = "idle" /\ sealers' = sealers \cup {t}
      /\ o \in tab[t].held
  BY DEF SealedStart, Next1
<1>2. IsFiniteSet(sealers')
  BY <1>1, FS_AddElement DEF SInv, SealerInv
<1> DEFINE new == Made(c, "sealed", t, o)
           f == tab[t].inflight
<1>3. /\ new \in CallType /\ new.kind = "sealed" /\ new.owner = o /\ new.tab = t /\ new.stored.id = None
      /\ new.epoch = tab[t].epoch
  <2>1. new \in CallType /\ new.kind = "sealed" /\ new.owner = o /\ new.tab = t /\ new.stored.id = None
    BY MadeShape, Numbers DEF Kind, NoRow
  <2>2. new.epoch = tab[t].epoch
    BY DEF Made, IdleCall
  <2> QED
    BY <2>1, <2>2
<1> DEFINE takes(id) == [new EXCEPT !.pc = "sealedGot", !.got.id = id]
           joins     == [new EXCEPT !.pc = "sealedJoin", !.mark = f]
           asks      == [new EXCEPT !.pc = "lock"]
<1>4. /\ CachedFor(t, o) => call' = [call EXCEPT ![c] = takes(tab[t].sealed.id)]
      /\ ~CachedFor(t, o) /\ InflightFor(t, o) =>
            call' = IF call[f].pc = "sealedGot" THEN [call EXCEPT ![c] = takes(call[f].got.id)]
                                                ELSE [call EXCEPT ![c] = joins]
      /\ ~CachedFor(t, o) /\ ~InflightFor(t, o) => call' = [call EXCEPT ![c] = asks]
      /\ tab' = tab \/ tab' = [tab EXCEPT ![t].inflight = c]
  BY DEF SealedStart
<1> DEFINE Kept(k) == k.kind = "sealed" /\ k.owner = o /\ k.tab = t /\ k.stored.id = None /\ k.epoch = tab[t].epoch
<1> HIDE DEF new
<1>5. /\ \A id : Kept(takes(id)) /\ takes(id).pc = "sealedGot" /\ takes(id).got.id = id
      /\ Kept(joins) /\ joins.pc = "sealedJoin" /\ joins.mark = f
      /\ Kept(asks) /\ asks.pc = "lock"
  <2>1. ASSUME NEW id
        PROVE  Kept(takes(id)) /\ takes(id).pc = "sealedGot" /\ takes(id).got.id = id
    <3>1. new.got \in Row
      BY <1>3 DEF CallType
    <3> QED
      BY <1>3, <3>1 DEF CallType, Row
  <2>2. Kept(joins) /\ joins.pc = "sealedJoin" /\ joins.mark = f
    BY <1>3 DEF CallType
  <2>3. Kept(asks) /\ asks.pc = "lock"
    BY <1>3 DEF CallType
  <2> QED
    BY <2>1, <2>2, <2>3
<1> HIDE DEF takes, joins, asks
<1>6. Alone(c) /\ Kept(call'[c]) /\ call'[c].pc \in {"sealedGot", "sealedJoin", "lock"}
  BY <1>4, <1>5 DEF Alone, IInv, CallInv
<1>7. \A u \in Tab : /\ tab'[u].memo = tab[u].memo /\ tab'[u].sealed = tab[u].sealed /\ tab'[u].epoch = tab[u].epoch
                     /\ tab'[u].held = tab[u].held /\ tab'[u].id = tab[u].id /\ tab[u].epoch \in Nat
  BY <1>4 DEF IInv, TabInv, TabType, Epoch
<1>8. InflightFor(t, o) =>
          /\ f \in Call \ {c} /\ call[f].kind = "sealed" /\ call[f].tab = t /\ call[f].pc # "sealedJoin"
          /\ call[f].owner = o /\ call[f].epoch = tab[t].epoch /\ call[f].pc \in SealingPc \cup {"lock", "sealedGot"}
  <2> SUFFICES ASSUME InflightFor(t, o)
               PROVE  /\ f \in Call \ {c} /\ call[f].kind = "sealed" /\ call[f].tab = t /\ call[f].pc # "sealedJoin"
                      /\ call[f].owner = o /\ call[f].epoch = tab[t].epoch
                      /\ call[f].pc \in SealingPc \cup {"lock", "sealedGot"}
    OBVIOUS
  <2>1. /\ f \in Call /\ call[f].kind = "sealed" /\ call[f].tab = t /\ call[f].pc # "sealedJoin"
        /\ call[f].owner = o /\ call[f].epoch = tab[t].epoch
    BY DEF InflightFor, IInv, FlightInv, TabInv, TabType
  <2>2. ~Ended(call[f]) /\ call[f].pc \in PcOf(call[f].kind)
    BY <2>1, IdentityAssumption DEF IInv, CallInv, Shape
  <2> QED
    BY <1>1, <2>1, <2>2 DEF PcOf, SealingPc, Ended
<1>9. call'[c].pc = "sealedJoin" => InflightFor(t, o) /\ call'[c].mark = f /\ call[f].pc # "sealedGot"
  BY <1>4, <1>5 DEF IInv, CallInv
<1>10. call'[c].pc = "sealedGot" =>
           \/ CachedFor(t, o) /\ call'[c].got.id = tab[t].sealed.id
           \/ InflightFor(t, o) /\ call[f].pc = "sealedGot" /\ call'[c].got.id = call[f].got.id
  BY <1>4, <1>5 DEF IInv, CallInv
<1> HIDE DEF f
<1>11. Makes(c)
  BY <1>1, <1>2, <1>6, <1>7, <1>8, <1>9 DEF Makes, Ended, InLock, Resolving, After, SealingPc, KekPc, store
<1>12. call'[c].pc = "sealedGot" =>
           \/ \E s \in Entries(t) : s.owner = call'[c].owner /\ s.epoch = tab[t].epoch /\ s.id = call'[c].got.id
           \/ \E d \in Call : /\ call[d].pc = "sealedGot" /\ call[d].tab = t /\ call[d].owner = call'[c].owner
                              /\ call[d].epoch = tab[t].epoch /\ call[d].got.id = call'[c].got.id
  BY <1>6, <1>8, <1>10 DEF CachedFor, Entries
<1> QED
  BY <1>1, <1>6, <1>7, <1>11, <1>12, MakesDurable DEF MovingPc


LEMMA ClearStartsDurable ==
    ASSUME IInv, IInv', HInv, HInv', SInv, NEW c \in Call, NEW t \in Tab, ClearStart(c, t)
    PROVE  SInv' /\ DurableInv'
<1>1. /\ call[c].pc = "idle" /\ Alone(c) /\ call'[c].kind = "clear" /\ call'[c].pc = "clearSeed"
      /\ row'["device"] = NoRow /\ sealers' = sealers
      /\ tab'[t].sealed = NoSealed /\ tab'[t].epoch = tab[t].epoch + 1 /\ tab'[t].memo = tab[t].memo
      /\ tab'[t].held = tab[t].held
      /\ \A u \in Tab \ {t} : tab'[u] = tab[u]
  BY ClearStarts
<1>2. call'[c].owner = None /\ call'[c].stored.id = None
  <2> DEFINE m == Made(c, "clear", t, None)
  <2>1. m \in CallType /\ m.owner = None /\ m.stored.id = None
    BY MadeShape, Numbers DEF Kind, NoRow
  <2>2. call' = [call EXCEPT ![c] = [m EXCEPT !.pc = "clearSeed"]]
    BY DEF ClearStart
  <2> HIDE DEF m
  <2> QED
    BY <2>1, <2>2 DEF IInv, CallInv, CallType
<1>3. \A u \in Tab : tab[u].epoch \in Nat
  BY Epochs
<1>4. IsFiniteSet(sealers) /\ NoRow.id = None
  BY DEF SInv, SealerInv, NoRow
<1>5. Makes(c)
  BY <1>1, <1>2, <1>3, <1>4 DEF Makes, Ended, InLock, Resolving, After, KekPc
<1>6. SInv'
  BY <1>5, MakesKeeps
<1> QED
  BY <1>1, <1>6, NothingClaimed DEF Clearing, Ended

LEMMA StartsDurable ==
    ASSUME IInv, IInv', HInv, HInv', SInv, DurableInv, NEW c \in Call, NEW t \in Tab, Starts(c, t)
    PROVE  SInv' /\ DurableInv'
  BY PlainStarts, SealedStarts, ReplaceStarts, ClearStartsDurable DEF Starts

-----------------------------------------------------------------------------
(* A reload; the theorem *)

LEMMA ReloadDurable ==
    ASSUME IInv, IInv', HInv, SInv, DurableInv, NEW t \in Tab, Reload(t)
    PROVE  SInv' /\ DurableInv'
<1> DEFINE dead == {c \in Call : Running(c) /\ call[c].tab = t}
<1>1. /\ UNCHANGED <<store, hist>> /\ tab' = [tab EXCEPT ![t] = FreshTab]
      /\ call' = [c \in Call |-> IF c \in dead THEN Over(c) ELSE call[c]]
  BY DEF Reload
<1>2. \A d \in Call : /\ Over(d).pc = "done" /\ Over(d).kind = call[d].kind /\ Over(d).owner = call[d].owner
                      /\ Over(d).stored.id = None /\ Over(d).tab = "none"
  BY DEF Over, IdleCall, NoRow
<1>3. /\ FreshTab.memo = {} /\ FreshTab.sealed = NoSealed /\ FreshTab.epoch = 0 /\ FreshTab.held = {}
      /\ NoSealed.owner = None /\ NoSealed.epoch = 0
  BY DEF FreshTab, NoSealed
<1>4. /\ tab'[t] = FreshTab /\ \A u \in Tab \ {t} : tab'[u] = tab[u]
      /\ Entries(t)' = {NoSealed} /\ \A u \in Tab \ {t} : Entries(u)' = Entries(u)
  BY <1>1, <1>3 DEF IInv, TabInv, Entries
<1>5. ASSUME NEW d \in Call
      PROVE  \/ call'[d] = call[d] /\ call[d].tab # t
             \/ call'[d] = Over(d) /\ call'[d].pc = "done" /\ Ended(call'[d]) /\ call[d].tab = t
  <2>1. ~Running(d) => call[d].tab # t
    BY IdentityAssumption DEF Running, IInv, CallInv, Shape, Ended
  <2> QED
    BY <1>1, <1>2, <2>1 DEF Ended
<1> HIDE DEF dead
<1>6. ASSUME NEW d \in Call, ~Ended(call'[d])
      PROVE  call'[d] = call[d] /\ call[d].tab \in Tab \ {t} /\ T(d)' = T(d)
  <2>1. call'[d] = call[d] /\ call[d].tab # t
    BY <1>5, <1>6
  <2> QED
    BY <1>4, <1>6, <2>1, Suspended DEF T
<1>7. SealerInv'
  BY <1>1, <1>3, <1>4, <1>6 DEF SInv, SealerInv, hist
<1>8. EpochInv'
  <2>1. \A u \in Tab : \A s \in Entries(u)' : s.epoch <= tab'[u].epoch
    BY <1>3, <1>4 DEF SInv, EpochInv
  <2> QED
    BY <1>6, <2>1 DEF SInv, EpochInv
<1>9. JoinInv'
  <2> SUFFICES ASSUME NEW d \in Call, call'[d].pc = "sealedJoin"
               PROVE  LET f == call'[call'[d].mark]
                      IN /\ f.kind = "sealed" /\ f.pc \in SealingPc \cup {"lock"}
                         /\ f.tab = call'[d].tab /\ f.epoch = call'[d].epoch
    BY DEF JoinInv
  <2>1. call'[d] = call[d] /\ call[d].tab # t
    BY <1>5
  <2>2. call[d].mark \in Call /\ call[call[d].mark].tab # t
    BY <2>1 DEF IInv, CallInv, SealedSane, SInv, JoinInv
  <2>3. call'[call[d].mark] = call[call[d].mark]
    BY <1>5, <2>2
  <2> QED
    BY <2>1, <2>3 DEF SInv, JoinInv
<1>10. UnbornInv'
  <2> SUFFICES ASSUME NEW v \in Call, Unborn(v)'
               PROVE  /\ \A u \in Tab : v \notin tab'[u].held /\ \A s \in Entries(u)' : s.owner # v
                      /\ \A d \in Call : call'[d].owner # v /\ call'[d].stored.id # v
                      /\ row'["device"].id = v => call'[v].pc \in After
    BY DEF UnbornInv
  <2>1. call'[v] = call[v] /\ Unborn(v) /\ v # None
    BY <1>5, Numbers DEF Unborn
  <2>2. /\ \A u \in Tab : v \notin tab[u].held /\ \A s \in Entries(u) : s.owner # v
        /\ \A d \in Call : call[d].owner # v /\ call[d].stored.id # v
        /\ row["device"].id = v => call[v].pc \in After
    BY <2>1 DEF SInv, UnbornInv
  <2>3. \A u \in Tab : v \notin tab'[u].held /\ \A s \in Entries(u)' : s.owner # v
    BY <1>3, <1>4, <2>1, <2>2
  <2>4. \A d \in Call : call'[d].owner # v /\ call'[d].stored.id # v
    BY <1>2, <1>5, <2>1, <2>2
  <2> QED
    BY <1>1, <2>1, <2>2, <2>3, <2>4 DEF store
<1>11. SInv'
  BY <1>7, <1>8, <1>9, <1>10 DEF SInv
<1> SUFFICES ASSUME Sure', NEW u \in sealers', ~Moving(u)'
             PROVE  Durable(u)' /\ Gone(u)'
  BY <1>11 DEF DurableInv
<1>12. CASE u = t
  <2>1. \A d \in Call : call'[d].tab # t
    BY <1>2, <1>5, IdentityAssumption
  <2> QED
    BY <1>3, <1>4, <1>12, <2>1 DEF Durable, Claimed, Gone, Spent
<1>13. CASE u # t
  <2>1. u \in Tab \ {t} /\ u \in sealers /\ Sure
    BY <1>1, <1>13 DEF IInv, RestOK, HistoryOK, hist, Sure, OneSealer
  <2>2. ~Moving(u)
    <3> SUFFICES ASSUME NEW d \in Call, call[d].tab = u, call[d].pc \in MovingPc
                 PROVE  FALSE
      BY DEF Moving, MovingPc
    <3>1. call'[d] = call[d]
      BY <1>5, <2>1
    <3> QED
      BY <3>1 DEF Moving, MovingPc
  <2>3. Durable(u) /\ Gone(u)
    BY <2>1, <2>2 DEF DurableInv
  <2>4. \A o : Claimed(u, o)' => Claimed(u, o)
    BY <1>1, <1>4, <1>6, <2>1 DEF Claimed, store, Resolving, Ended, KekPc
  <2>5. row'["sealed"] = row["sealed"] /\ tab'[u] = tab[u]
    BY <1>1, <1>4, <2>1 DEF store
  <2>6. \A d \in Call : call'[d] = call[d] \/ call'[d].pc \notin {"sealedRead", "sealedSaved", "sealedGot"}
    BY <1>5
  <2>7. Gone(u)'
    <3>1. \A d \in Call : call'[d].pc \in After => call'[d] = call[d]
      BY <1>5 DEF After
    <3> QED
      BY <1>1, <2>1, <2>3, <2>5, <2>6, <3>1, GoneKept DEF store
  <2> QED
    BY <2>1, <2>3, <2>4, <2>5, <2>6, <2>7, DurableKept
<1> QED
  BY <1>12, <1>13

LEMMA InitDurable == ASSUME Init PROVE SInv /\ DurableInv
<1>1. /\ call = [c \in Call |-> IdleCall] /\ sealers = {} /\ IsFiniteSet({})
      /\ IdleCall.pc = "idle" /\ IdleCall.owner = None /\ IdleCall.stored = NoRow /\ NoRow.id = None
  BY FS_EmptySet DEF Init, IdleCall, NoRow
<1>2. PICK name \in Layouts, settled \in SUBSET Tab : Layout(name, settled)
  BY DEF Init
<1>3. /\ tab = [t \in Tab |-> IF t \in settled THEN SettledTab ELSE FreshTab]
      /\ row["device"] \in {NoRow, Wrapped(Old, Old, None)}
  BY <1>2 DEF Layout, RowName
<1>4. /\ SettledTab.memo = {} /\ SettledTab.sealed = NoSealed /\ SettledTab.held = {Old} /\ SettledTab.epoch = 0
      /\ FreshTab.memo = {} /\ FreshTab.sealed = NoSealed /\ FreshTab.held = {} /\ FreshTab.epoch = 0
      /\ NoSealed.owner = None /\ NoSealed.epoch = 0 /\ Wrapped(Old, Old, None).id = Old
  BY DEF SettledTab, FreshTab, NoSealed, Wrapped
<1>5. \A t \in Tab : /\ tab[t].memo = {} /\ tab[t].sealed = NoSealed /\ tab[t].held \subseteq {Old} /\ tab[t].epoch = 0
                     /\ Entries(t) = {NoSealed}
  BY <1>3, <1>4 DEF Entries
<1>6. SealerInv /\ JoinInv /\ EpochInv
  BY <1>1, <1>4, <1>5 DEF SealerInv, JoinInv, EpochInv, Ended
<1>7. UnbornInv
  BY <1>1, <1>3, <1>4, <1>5, Numbers DEF UnbornInv
<1> QED
  BY <1>1, <1>6, <1>7 DEF SInv, DurableInv

LEMMA StepDurable ==
    ASSUME IInv, IInv', HInv, HInv', SInv, DurableInv, [Next]_vars
    PROVE  SInv' /\ DurableInv'
<1>1. CASE UNCHANGED vars
  <2>1. SInv'
    BY <1>1 DEF vars, store, hist, SInv, SealerInv, EpochInv, JoinInv, UnbornInv, Unborn, Entries, T
  <2>2. DurableInv'
    BY <1>1 DEF vars, store, hist, DurableInv, Sure, OneSealer, Moving, Durable, Gone, Spent, Entries, Claimed, Stored
  <2> QED
    BY <2>1, <2>2
<1>2. ASSUME NEW c \in Call, Identity(c)
      PROVE  SInv' /\ DurableInv'
  BY <1>2, LockedDurable, ResolvingDurable, PersistDurable, AfterDurable DEF Identity
<1>3. ASSUME NEW c \in Call, Fault(c)
      PROVE  SInv' /\ DurableInv'
  BY <1>3, FaultDurable, SealedFaultDurable, ClearStepDurable DEF Fault
<1> QED
  BY <1>1, <1>2, <1>3, StartsDurable, KekDurable, SealedDurableStep, NoiseDurable, RestoreDurable, ClearStepDurable,
     ReloadDurable DEF Next

\* "No undurable key can survive" (replaceDeviceIdentity): where only one page
\* seals and restores, no forget races and no mint goes by another identity
\* than the stored one, every scalar the page would hand out from memory once a
\* restore has ended is the one on disk, whatever faults, reloads and calls
\* that wait for one another came between.
THEOREM NoneUndurable == Spec => []SealedDurable
<1>1. Init => IInv /\ HInv /\ SInv /\ DurableInv
  BY InitIInv, InitHInv, InitDurable
<1>2. (IInv /\ HInv /\ SInv /\ DurableInv) /\ [Next]_vars => (IInv /\ HInv /\ SInv /\ DurableInv)'
  BY StepIInv, StepHInv, StepDurable
<1>3. IInv /\ SInv /\ DurableInv => SealedDurable
  <2> SUFFICES ASSUME IInv, SInv, DurableInv, ~raced, ~mistaken, Cardinality(sealers) <= 1,
                      \A c \in Call : Running(c) => call[c].kind # "replace",
                      NEW t \in Tab, NEW s \in Served(t)
               PROVE  row["sealed"].id = s.id
    BY DEF SealedDurable
  <2>1. OneSealer
    <3>1. IsFiniteSet(sealers) /\ Cardinality(sealers) \in Nat
      BY FS_CardinalityType DEF SInv, SealerInv
    <3>2. Cardinality(sealers) = 0 \/ Cardinality(sealers) = 1
      BY <3>1
    <3>3. sealers = {} \/ \E x : sealers = {x}
      BY <3>1, <3>2, FS_EmptySet, FS_Singleton
    <3> QED
      BY <3>3 DEF OneSealer
  <2>2. s \in Entries(t) /\ s.owner # None /\ s.owner = tab[t].id /\ s.epoch = tab[t].epoch
    BY DEF Served, Entries
  <2>3. t \in sealers
    BY <2>2 DEF SInv, SealerInv, Entries, NoSealed
  <2>4. ~Moving(t)
    <3> SUFFICES ASSUME NEW d \in Call, call[d].pc \in MovingPc
                 PROVE  FALSE
      BY DEF Moving, MovingPc
    <3>1. ~Ended(call[d]) /\ Running(d)
      BY DEF MovingPc, Ended, Running
    <3>2. call[d].pc \in PcOf(call[d].kind) /\ call[d].kind \in Kind
      BY <3>1, Suspended DEF CallType
    <3> QED
      BY <3>1, <3>2 DEF MovingPc, PcOf, KekPc, Kind, ClearNext
  <2>5. Durable(t)
    BY <2>1, <2>3, <2>4 DEF DurableInv, Sure
  <2> QED
    BY <2>2, <2>5 DEF Durable, Claimed, Stored
<1> QED
  BY <1>1, <1>2, <1>3, PTL DEF Spec


=============================================================================
