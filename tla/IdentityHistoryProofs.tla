------------------------- MODULE IdentityHistoryProofs -------------------------
(***************************************************************************)
(* What the Web lock protects: the stored identity is not overwritten by a *)
(* mint while it is whole; and, where no forget raced and no backup was    *)
(* restored, it is the one every page has and it can be opened.            *)
(***************************************************************************)
EXTENDS IdentityStoreProofs

\* A call that resolves the identity and has not stored one; that has stored
\* one; that works on the rows under the lock; that works on them without.
Resolving(k) == k.kind = "identity" /\ k.pc \in KekPc \cup
    {"deviceRow", "unwrap", "seedRow", "recoverKey", "recoverSeed", "recovered", "generate", "persist"}
After        == {"persisted", "residue", "replaced"}
SealingPc    == KekPc \cup {"sealedRow", "sealedRead", "sealedSaved"}
InLock(k)    == Resolving(k) \/ k.pc \in After \/ (k.kind = "sealed" /\ k.pc \in SealingPc)
Outside(k)   == ~Ended(k) /\ k.kind \in {"noise", "replace"}
Clearing(k)  == ~Ended(k) /\ k.kind = "clear"

LockHeld    == \A c \in Call : InLock(call[c]) => lock = c
MintsHeld   == \A c \in Call : call[c].minting => call[c].kind = "identity" /\ InLock(call[c])
RestoreSeen == /\ \A c \in Call : Outside(call[c]) /\ call[c].kind = "replace" => restored
               /\ ~restored => overtaken = {}

\* A forget that raced nothing has the origin to itself.
ClearAlone ==
    \A c \in Call : Clearing(call[c]) =>
        /\ row["device"] = NoRow
        /\ \A d \in Call \ {c} : Ended(call[d])
        /\ \A t \in Tab : tab[t].id = None /\ tab[t].kek = None

\* No page has an identity.
NoneLoaded == \A t \in Tab : tab[t].id = None

\* Whatever came from an identity left it whole; so do the calls that take no
\* lock, but for those made before there was one.
LoadedWhole ==
    /\ \A t \in Tab : tab[t].id # None => Whole
    /\ ~restored /\ ~early => \A c \in Call : Outside(call[c]) => Whole

\* No page has an identity yet while a call that has stored a pair ends, and
\* only a restore stores another.
AfterAlone ==
    \A c \in Call : call[c].pc \in After =>
        /\ Whole /\ NoneLoaded
        /\ ~restored => row["device"].id = c

SeedPc == {"seedRow", "recoverSeed", "recovered"}

\* A call mints on its way to the step that stores the pair, and goes on with
\* what it has found otherwise.
ReadShape(k) ==
    /\ k.minting => k.pc \in KekPc \cup {"persist"}
    /\ k.pc = "persist" => k.minting
    /\ ~k.minting /\ k.pc \notin {"deviceRow", "generate"} => k.stored # NoRow

\* The call found no identity, or no seed.
Bare(k) == k.stored = NoRow \/ (k.pc \in SeedPc /\ k.got = NoRow) \/ k.minting \/ k.pc = "generate"

\* What the call did not find is not there.
ReadKept(k) ==
    /\ k.stored = NoRow => row["device"] = NoRow
    /\ k.pc \in SeedPc /\ k.got = NoRow => row["seed"] = NoRow
    /\ k.minting \/ k.pc = "generate" => k.stored = NoRow \/ row["seed"] = NoRow

\* What the call found is there.
ReadPresent(k) ==
    /\ k.stored # NoRow => row["device"] # NoRow
    /\ k.pc \in SeedPc /\ k.got # NoRow => row["seed"] # NoRow

Current(k) == k.stored = row["device"]

\* What a call that resolves the identity goes by is still so, each part as
\* long as nothing came that undoes it.
ReadGood(c) ==
    /\ ReadShape(call[c])
    /\ c \notin overtaken => ReadKept(call[c])
    /\ ~raced => ReadPresent(call[c]) /\ (Bare(call[c]) => NoneLoaded)
    /\ ~raced /\ ~restored => Current(call[c])

ReadInv == \A c \in Call : Resolving(call[c]) => ReadGood(c)
IdInv   == ~restored => \A t \in Tab : tab[t].id \in {None, row["device"].id}

HInv == /\ LockHeld /\ MintsHeld /\ RestoreSeen /\ ReadInv
        /\ ~raced => ClearAlone /\ LoadedWhole /\ AfterAlone /\ IdInv

\* What the call found, where no forget raced and nothing was restored.
ReadSane(k) ==
    /\ k.stored = NoRow <=> row["device"] = NoRow
    /\ k.pc \in SeedPc => (k.got = NoRow <=> row["seed"] = NoRow)
    /\ k.minting \/ k.pc = "generate" => k.stored = NoRow \/ row["seed"] = NoRow
    /\ ReadShape(k)

LEMMA Sane ==
    ASSUME HInv, ~raced, ~restored, NEW c \in Call, Resolving(call[c])
    PROVE  ReadSane(call[c]) /\ Current(call[c])
  BY DEF HInv, ReadInv, ReadGood, ReadKept, ReadPresent, ReadSane, RestoreSeen, Current

-----------------------------------------------------------------------------
(* A call goes on *)

\* A call that no longer touches the rows.
Harmless(k) == ~InLock(k) /\ ~Outside(k) /\ ~Clearing(k) /\ ~k.minting

PairSame == row'["device"] = row["device"] /\ row'["seed"] = row["seed"]

\* Call c goes on or ends; others at most end or get their scalar; the pair is
\* left alone; a page gets an identity only from the call that has the lock.
Proceeds(c) ==
    /\ ~Ended(call[c]) /\ call[c].kind # "clear" /\ call'[c].kind = call[c].kind
    /\ \A d \in Call \ {c} : call'[d] = call[d] \/ Harmless(call'[d])
    /\ PairSame /\ UNCHANGED <<raced, restored, overtaken, early>>
    /\ \/ lock' = lock
       \/ lock = None /\ lock' = c
       \/ lock = c /\ lock' = None
    /\ InLock(call'[c]) => lock' = c
    /\ call'[c].minting => call'[c].kind = "identity" /\ InLock(call'[c])
    /\ call'[c].pc \in After => call[c].pc \in After
    /\ \A t \in Tab : \/ tab'[t].id \in {tab[t].id, None}
                      \/ Harmless(call'[c]) /\ lock = c /\ InLock(call[c]) /\ (~raced => Whole)
                         /\ (~raced /\ ~restored => tab'[t].id = row["device"].id)

LEMMA HKept ==
    ASSUME IInv, HInv, NEW c \in Call, Proceeds(c),
           Resolving(call'[c]) => ReadGood(c)'
    PROVE  HInv'
<1>1. LockHeld'
  BY Numbers DEF HInv, LockHeld, Proceeds, Harmless
<1>2. RestoreSeen' /\ MintsHeld'
  BY DEF HInv, RestoreSeen, MintsHeld, Proceeds, Harmless, Outside
<1>3. Whole' = Whole /\ row'["device"] = row["device"] /\ row'["seed"] = row["seed"]
  BY DEF Proceeds, PairSame, Whole
<1>4. ASSUME NEW d \in Call \ {c}, Resolving(call'[d])
      PROVE  ReadGood(d)'
  <2>1. call'[d] = call[d] /\ InLock(call[d]) /\ ReadGood(d)
    BY <1>4 DEF Proceeds, Harmless, InLock, HInv, ReadInv
  <2>2. ~InLock(call[c])
    BY <2>1 DEF HInv, LockHeld
  <2>3. NoneLoaded => NoneLoaded'
    BY <2>2 DEF NoneLoaded, Proceeds
  <2> QED
    BY <1>3, <2>1, <2>3 DEF Proceeds, ReadGood, ReadKept, ReadPresent, Current
<1>5. ReadInv'
  BY <1>4 DEF ReadInv
<1> SUFFICES ASSUME ~raced
             PROVE  ClearAlone' /\ LoadedWhole' /\ AfterAlone' /\ IdInv'
  BY <1>1, <1>2, <1>5 DEF HInv, Proceeds
<1>6. ~\E d \in Call : Clearing(call[d])
  BY DEF HInv, ClearAlone, Proceeds, Clearing
<1>7. ClearAlone'
  BY <1>6 DEF Proceeds, Harmless, Clearing, ClearAlone
<1>8. LoadedWhole'
  BY <1>3 DEF HInv, Proceeds, Harmless, LoadedWhole, Outside
<1>9. AfterAlone'
  BY <1>3 DEF HInv, Proceeds, Harmless, AfterAlone, NoneLoaded, LockHeld, InLock
<1>10. IdInv'
  BY <1>3 DEF HInv, Proceeds, IdInv
<1> QED
  BY <1>7, <1>8, <1>9, <1>10

-----------------------------------------------------------------------------
(* What a step leaves of a call *)

Alone(c)   == \A d \in Call \ {c} : call'[d] = call[d]
Same(k, j) == /\ k.kind = j.kind /\ k.tab = j.tab /\ k.owner = j.owner /\ k.epoch = j.epoch
              /\ k.mark = j.mark /\ k.stored = j.stored /\ k.minting = j.minting

LEMMA GotoLeaves ==
    ASSUME IInv, NEW c \in Call, NEW pc, Goto(c, pc)
    PROVE  /\ Alone(c) /\ Same(call'[c], call[c]) /\ call'[c].pc = pc
           /\ call'[c].got = call[c].got /\ call'[c].kek = call[c].kek
  BY DEF Goto, Alone, Same, IInv, CallInv, CallType

LEMMA ReadLeaves ==
    ASSUME IInv, NEW c \in Call, NEW pc, NEW r, Read(c, pc, r)
    PROVE  /\ Alone(c) /\ Same(call'[c], call[c]) /\ call'[c].pc = pc
           /\ call'[c].got = r /\ call'[c].kek = call[c].kek
  BY DEF Read, Alone, Same, IInv, CallInv, CallType

LEMMA HasKekLeaves ==
    ASSUME IInv, NEW c \in Call, NEW key, HasKek(c, key)
    PROVE  /\ Alone(c) /\ Same(call'[c], call[c]) /\ call'[c].pc = AfterKek(call[c])
           /\ call'[c].got = call[c].got /\ call'[c].kek = key
  BY DEF HasKek, Alone, Same, IInv, CallInv, CallType

LEMMA FinishLeaves ==
    ASSUME IInv, NEW c \in Call, Finish(c)
    PROVE  /\ Alone(c) /\ Ended(call'[c]) /\ Harmless(call'[c]) /\ call'[c].kind = call[c].kind
           /\ call'[c].owner = call[c].owner /\ call'[c].stored = NoRow /\ call'[c].tab = "none"
           /\ lock' = IF lock = c THEN None ELSE lock
<1>1. call' = [call EXCEPT ![c] = Over(c)] /\ call \in [Call -> CallType]
  BY DEF Finish, IInv, CallInv
<1>2. call'[c] = Over(c) /\ Alone(c)
  BY <1>1 DEF Alone
<1>3. /\ Over(c).kind = call[c].kind /\ Over(c).tab = "none" /\ Over(c).pc = "done"
      /\ Over(c).owner = call[c].owner /\ Over(c).stored = NoRow /\ Over(c).minting = FALSE
  BY DEF Over, IdleCall
<1> QED
  BY <1>2, <1>3 DEF Finish, Ended, Harmless, InLock, Resolving, Outside, Clearing, KekPc, After, SealingPc

LEMMA AskLeaves ==
    ASSUME NEW k \in CallType, NEW cached
    PROVE  LET r == AskKek(k, cached)
           IN /\ Same(r, k)
              /\ cached # None => r.pc = AfterKek(k) /\ r.kek = cached /\ r.got = k.got
              /\ cached = None => r.pc = "kekRow" /\ r.kek = k.kek /\ r.got = Wrapped(kek, None, None)
<1>1. CASE cached # None
  BY <1>1 DEF AskKek, Same, CallType
<1>2. CASE cached = None
  BY <1>2 DEF AskKek, Same, CallType
<1> QED
  BY <1>1, <1>2

\* No page gets another identity.
IdsKept == \A t \in Tab : tab'[t].id \in {tab[t].id, None}

\* What the call goes by is what it went by, or what it has just read.
ReadsOn(c) ==
    /\ call'[c].stored = call[c].stored
    /\ ReadShape(call[c]) =>
          /\ ReadShape(call'[c])
          /\ ReadKept(call[c]) => ReadKept(call'[c])
          /\ ReadPresent(call[c]) => ReadPresent(call'[c])
          /\ Bare(call'[c]) => Bare(call[c]) \/ ~Whole

LEMMA GoodGoesOn ==
    ASSUME HInv, NEW c \in Call, PairSame, UNCHANGED <<raced, restored, overtaken, early>>, IdsKept,
           ReadsOn(c), ReadGood(c)
    PROVE  ReadGood(c)'
<1>1. row'["device"] = row["device"] /\ row'["seed"] = row["seed"]
  BY DEF PairSame
<1>2. ASSUME ~raced, Bare(call'[c])
      PROVE  NoneLoaded'
  BY <1>2 DEF ReadsOn, ReadGood, HInv, LoadedWhole, NoneLoaded, IdsKept
<1> QED
  BY <1>1, <1>2 DEF ReadsOn, ReadGood, ReadKept, ReadPresent, Current

\* A call goes on under the lock it has, or without.
LEMMA InPlace ==
    ASSUME IInv, HInv, NEW c \in Call, ~Ended(call[c]), call[c].kind # "clear", Alone(c),
           call'[c].kind = call[c].kind, PairSame, UNCHANGED <<lock, raced, restored, overtaken, early>>, IdsKept,
           InLock(call'[c]) => InLock(call[c]),
           call'[c].minting => call'[c].kind = "identity" /\ InLock(call'[c]),
           call'[c].pc \in After => call[c].pc \in After,
           Resolving(call'[c]) => ReadGood(c)'
    PROVE  HInv' /\ Proceeds(c)
<1>1. Proceeds(c)
  BY DEF Proceeds, Alone, IdsKept, HInv, LockHeld
<1> QED
  BY <1>1, HKept

\* A call that is not the identity's reads nothing of the pair.
LEMMA OtherInPlace ==
    ASSUME IInv, HInv, NEW c \in Call, ~Ended(call[c]), call[c].kind \in {"sealed", "noise", "replace"}, Alone(c),
           call'[c].kind = call[c].kind, PairSame, UNCHANGED <<lock, raced, restored, overtaken, early>>, IdsKept,
           call'[c].pc \notin After, InLock(call'[c]) => InLock(call[c]), call'[c].minting = call[c].minting
    PROVE  HInv' /\ Proceeds(c)
  BY InPlace DEF Resolving, HInv, MintsHeld

\* A call ends.
LEMMA EndsInPlace ==
    ASSUME IInv, HInv, NEW c \in Call, ~Ended(call[c]), call[c].kind # "clear", Finish(c),
           PairSame, UNCHANGED <<raced, restored, overtaken, early>>, IdsKept
    PROVE  HInv' /\ Proceeds(c)
<1>1. /\ Alone(c) /\ Harmless(call'[c]) /\ call'[c].kind = call[c].kind
      /\ lock' = IF lock = c THEN None ELSE lock
  BY FinishLeaves
<1>2. Proceeds(c)
  BY <1>1 DEF Proceeds, Alone, IdsKept, Harmless, InLock
<1> QED
  BY <1>1, <1>2, HKept DEF Harmless, InLock

-----------------------------------------------------------------------------
(* The wrapping key *)

LEMMA KekCall ==
    ASSUME IInv, NEW c \in Call, call[c].pc \in KekPc
    PROVE  /\ ~Ended(call[c]) /\ call[c].kind \in {"identity", "sealed", "noise", "replace"}
           /\ call[c] \in CallType /\ T(c) = tab[call[c].tab] /\ call[c].tab \in Tab
<1>1. ~Ended(call[c])
  BY DEF KekPc, Ended
<1> QED
  BY <1>1, Suspended DEF PcOf, KekPc, ClearNext, CallType, Kind

\* A call that asks for the KEK goes on to the next place.
LEMMA KekGoesOn ==
    ASSUME IInv, HInv, NEW c \in Call, call[c].pc \in KekPc, Alone(c), Same(call'[c], call[c]),
           call'[c].pc \in {"legacyRow", "kekSaved", AfterKek(call[c])},
           PairSame, UNCHANGED <<lock, raced, restored, overtaken, early>>, IdsKept
    PROVE  HInv' /\ Proceeds(c)
<1>1. ~Ended(call[c]) /\ call[c].kind \in {"identity", "sealed", "noise", "replace"}
  BY KekCall
<1>2. CASE call[c].kind = "identity"
  <2>1. call'[c].pc \in {"legacyRow", "kekSaved"} \/ call'[c].pc = IF call[c].minting THEN "persist" ELSE "unwrap"
    BY <1>2 DEF AfterKek
  <2>2. Resolving(call[c]) /\ Resolving(call'[c]) /\ call'[c].pc \notin After
    BY <1>2, <2>1 DEF Resolving, KekPc, Same, After
  <2>3. ReadsOn(c)
    BY <2>1 DEF ReadsOn, ReadShape, ReadKept, ReadPresent, Bare, Same, KekPc, SeedPc
  <2> QED
    BY <1>1, <1>2, <2>2, <2>3, InPlace, GoodGoesOn DEF InLock, Same, HInv, ReadInv
<1>3. CASE call[c].kind # "identity"
  <2>1. AfterKek(call[c]) \in {"sealedRow", "noiseRow", "pairSave"}
    BY <1>1, <1>3 DEF AfterKek
  <2>2. call'[c].pc \notin After /\ (InLock(call'[c]) => InLock(call[c]))
    BY <1>1, <1>3, <2>1 DEF InLock, Resolving, After, SealingPc, KekPc, Same
  <2> QED
    BY <1>1, <1>3, <2>2, OtherInPlace DEF Same
<1> QED
  BY <1>2, <1>3

LEMMA KekHistory ==
    ASSUME IInv, HInv, NEW c \in Call, Kek(c)
    PROVE  HInv' /\ Proceeds(c)
<1>1. PairSame /\ UNCHANGED <<lock, raced, restored, overtaken, early>> /\ call[c].pc \in KekPc
  BY DEF Kek, KekLoaded, KekAdopt, KekMint, KekSaved, PairSame, store, hist, KekPc
<1>2. IdsKept
  BY KekCall DEF IdsKept, Kek, KekLoaded, KekAdopt, KekMint, KekSaved, IInv, TabInv, TabType
<1>3. /\ Alone(c) /\ Same(call'[c], call[c])
      /\ call'[c].pc \in {"legacyRow", "kekSaved", AfterKek(call[c])}
  <2>1. CASE KekLoaded(c) \/ KekSaved(c)
    BY <2>1, HasKekLeaves, ReadLeaves DEF KekLoaded, KekSaved
  <2>2. CASE KekAdopt(c) \/ KekMint(c)
    BY <2>2 DEF KekAdopt, KekMint, Alone, Same, IInv, CallInv, CallType
  <2> QED
    BY <2>1, <2>2 DEF Kek
<1> QED
  BY <1>1, <1>2, <1>3, KekGoesOn

-----------------------------------------------------------------------------
(* The identity *)

\* A call that resolves the identity goes on resolving it.
LEMMA ResolvesOn ==
    ASSUME IInv, HInv, NEW c \in Call, Resolving(call[c]), Resolving(call'[c]), Alone(c),
           PairSame, UNCHANGED <<lock, raced, restored, overtaken, early>>, IdsKept,
           ReadsOn(c)
    PROVE  HInv' /\ Proceeds(c)
<1>1. ~Ended(call[c]) /\ call[c].kind = "identity" /\ call'[c].kind = "identity"
  BY DEF Resolving, KekPc, Ended
<1>2. call'[c].pc \notin After /\ InLock(call'[c]) /\ InLock(call[c])
  BY DEF Resolving, KekPc, After, InLock
<1> QED
  BY <1>1, <1>2, InPlace, GoodGoesOn DEF HInv, ReadInv

LEMMA IdentityResolves ==
    ASSUME IInv, NEW c \in Call,
           call[c].pc \in {"deviceRow", "unwrap", "seedRow", "recoverKey", "recoverSeed", "recovered",
                           "generate", "persist"}
    PROVE  ~Ended(call[c]) /\ Resolving(call[c]) /\ call[c] \in CallType /\ T(c) \in TabType
  BY IdentityCall, Suspended DEF IdentityPc, Resolving

LEMMA LockedHistory ==
    ASSUME IInv, HInv, NEW c \in Call, IdentityLocked(c)
    PROVE  HInv' /\ Proceeds(c)
<1>1. /\ UNCHANGED <<store, tab, raced, restored, overtaken, early>> /\ call[c].pc = "lock" /\ call[c].kind = "identity"
      /\ lock = None /\ lock' = c /\ ~Ended(call[c])
  BY DEF IdentityLocked, LockFree, Ended, hist
<1>2. /\ Alone(c) /\ call'[c].pc = "deviceRow" /\ call'[c].stored = row["device"]
      /\ call'[c].kind = "identity" /\ call'[c].minting = call[c].minting
  BY <1>1 DEF IdentityLocked, Alone, IInv, CallInv, CallType
<1>3. ~InLock(call[c]) /\ ~call'[c].minting
  BY <1>1, <1>2 DEF HInv, MintsHeld, InLock, Resolving, KekPc, After
<1>4. Proceeds(c)
  BY <1>1, <1>2, <1>3 DEF Proceeds, Alone, PairSame, store, After
<1>5. ReadGood(c)'
  <2>1. row' = row /\ tab' = tab /\ raced' = raced /\ restored' = restored
    BY <1>1 DEF store
  <2>2. ~raced /\ row["device"] = NoRow => NoneLoaded
    BY DEF HInv, LoadedWhole, NoneLoaded, Whole
  <2>3. ReadShape(call'[c]) /\ ~(call'[c].pc \in SeedPc) /\ (Bare(call'[c]) => row["device"] = NoRow)
    BY <1>2, <1>3 DEF ReadShape, SeedPc, Bare
  <2> QED
    BY <1>2, <1>3, <2>1, <2>2, <2>3 DEF ReadGood, ReadKept, ReadPresent, Current, NoneLoaded
<1> QED
  BY <1>4, <1>5, HKept

LEMMA DeviceLoadedHistory ==
    ASSUME IInv, HInv, NEW c \in Call, DeviceLoaded(c)
    PROVE  HInv' /\ Proceeds(c)
<1>1. UNCHANGED <<store, lock, tab, raced, restored, overtaken, early>> /\ call[c].pc = "deviceRow"
  BY DEF DeviceLoaded, hist
<1>2. Resolving(call[c]) /\ call[c] \in CallType /\ call[c].kind = "identity"
  BY <1>1, IdentityResolves DEF Resolving
<1>3. Alone(c) /\ call'[c] = IF call[c].stored = NoRow THEN [call[c] EXCEPT !.pc = "generate"]
                                                       ELSE AskKek(call[c], T(c).kek)
  BY DEF DeviceLoaded, Alone, IInv, CallInv
<1>4. /\ Same(call'[c], call[c])
      /\ IF call[c].stored = NoRow THEN call'[c].pc = "generate"
                                   ELSE call'[c].pc \in {AfterKek(call[c]), "kekRow"}
  BY <1>2, <1>3, AskLeaves DEF Same, CallType
<1>5. ReadShape(call[c]) => ~call[c].minting
  BY <1>1 DEF ReadShape, KekPc
<1>6. Resolving(call'[c])
  BY <1>2, <1>4 DEF Resolving, Same, AfterKek, KekPc
<1>7. ReadsOn(c)
  BY <1>1, <1>2, <1>4, <1>5 DEF ReadsOn, ReadShape, ReadKept, ReadPresent, Bare, SeedPc, Same, AfterKek, KekPc
<1> QED
  BY <1>1, <1>2, <1>3, <1>6, <1>7, ResolvesOn DEF store, PairSame, IdsKept

LEMMA UnwrapHistory ==
    ASSUME IInv, HInv, NEW c \in Call, Unwrap(c)
    PROVE  HInv' /\ Proceeds(c)
<1>1. UNCHANGED <<store, lock, tab, raced, restored, overtaken, early>> /\ call[c].pc = "unwrap"
  BY DEF Unwrap, hist
<1>2. Resolving(call[c]) /\ call[c].kind = "identity"
  BY <1>1, IdentityResolves DEF Resolving
<1>3. /\ Alone(c) /\ Same(call'[c], call[c]) /\ call'[c].pc \in {"seedRow", "recoverKey"}
      /\ call'[c].pc = "seedRow" => call'[c].got = row["seed"]
  BY ReadLeaves DEF Unwrap
<1>4. ReadsOn(c)
  BY <1>1, <1>3
     DEF ReadsOn, ReadShape, ReadKept, ReadPresent, Bare, SeedPc, Same, KekPc, Whole
<1>5. Resolving(call'[c])
  BY <1>2, <1>3 DEF Resolving, Same
<1> QED
  BY <1>1, <1>2, <1>3, <1>4, <1>5, ResolvesOn DEF store, PairSame, IdsKept

\* A call returns the identity, which is stored whole.
LEMMA ResolvedHistory ==
    ASSUME IInv, HInv, NEW c \in Call, InLock(call[c]), call[c].kind = "identity", NEW id, Resolve(c, id),
           UNCHANGED <<store, raced, restored, overtaken, early>>, ~raced => Whole, ~raced /\ ~restored => id = row["device"].id
    PROVE  HInv' /\ Proceeds(c)
<1>1. ~Ended(call[c]) /\ lock = c
  BY DEF Ended, InLock, Resolving, KekPc, After, HInv, LockHeld
<1>2. Alone(c) /\ Harmless(call'[c]) /\ call'[c].kind = call[c].kind /\ lock' = None
  BY <1>1, FinishLeaves DEF Resolve
<1>3. \A t \in Tab : tab'[t].id = tab[t].id \/ tab'[t].id = id
  <2>1. T(c) \in TabType /\ call[c].tab \in Tab /\ T(c) = tab[call[c].tab] /\ tab \in [Tab -> TabType]
    BY <1>1, Suspended DEF IInv, TabInv
  <2> QED
    BY <2>1 DEF Resolve, TabType
<1>4. Proceeds(c)
  BY <1>1, <1>2, <1>3 DEF Proceeds, Alone, Harmless, InLock, PairSame, store
<1> QED
  BY <1>2, <1>4, HKept DEF Harmless, InLock

LEMMA SeedLoadedHistory ==
    ASSUME IInv, HInv, NEW c \in Call, SeedLoaded(c)
    PROVE  HInv' /\ Proceeds(c)
<1>1. UNCHANGED <<store, raced, restored, overtaken, early>> /\ call[c].pc = "seedRow"
  BY DEF SeedLoaded, hist
<1>2. Resolving(call[c]) /\ call[c].kind = "identity"
  BY <1>1, IdentityResolves DEF Resolving
<1>3. ReadGood(c)
  BY <1>2 DEF HInv, ReadInv
<1>4. CASE Resolve(c, call[c].stored.id) /\ call[c].got # NoRow
  <2>1. ~raced => Whole
    BY <1>1, <1>3, <1>4 DEF ReadGood, ReadShape, ReadPresent, SeedPc, Whole, KekPc
  <2>2. ~raced /\ ~restored => call[c].stored.id = row["device"].id
    BY <1>3 DEF ReadGood, Current
  <2> QED
    BY <1>1, <1>2, <1>4, <2>1, <2>2, ResolvedHistory DEF InLock
<1>5. CASE /\ UNCHANGED <<lock, tab>>
           /\ \/ Goto(c, "generate") /\ call[c].got = NoRow
              \/ Read(c, "recoverKey", Wrapped(legacy, None, None))
  <2>1. /\ Alone(c) /\ Same(call'[c], call[c])
        /\ \/ call'[c].pc = "generate" /\ call[c].got = NoRow
           \/ call'[c].pc = "recoverKey"
    BY <1>5, GotoLeaves, ReadLeaves
  <2>2. Resolving(call'[c])
    BY <1>2, <2>1 DEF Resolving, Same
  <2>3. ReadsOn(c)
    BY <1>1, <2>1
       DEF ReadsOn, ReadShape, ReadKept, ReadPresent, Bare, SeedPc, Same, KekPc, Whole
  <2> QED
    BY <1>1, <1>2, <1>5, <2>1, <2>2, <2>3, ResolvesOn DEF store, PairSame, IdsKept
<1> QED
  BY <1>4, <1>5 DEF SeedLoaded

LEMMA RecoverHistory ==
    ASSUME IInv, HInv, NEW c \in Call, RecoverKeyLoaded(c) \/ RecoverSeedLoaded(c)
    PROVE  HInv' /\ Proceeds(c)
<1>1. /\ UNCHANGED <<legacy, row, raced, restored, overtaken, early>> /\ call[c] \in CallType
      /\ call[c].pc \in {"recoverKey", "recoverSeed"} /\ ~Ended(call[c])
  BY IdentityResolves DEF RecoverKeyLoaded, RecoverSeedLoaded, hist
<1>2. Resolving(call[c]) /\ call[c].kind = "identity"
  BY <1>1, IdentityResolves DEF Resolving
<1>3. IdsKept
  BY <1>1, Suspended DEF IdsKept, RecoverKeyLoaded, RecoverSeedLoaded, Unreadable, IInv, TabInv, TabType
<1>4. CASE Unreadable(c)
  BY <1>1, <1>2, <1>3, <1>4, EndsInPlace DEF Unreadable, PairSame
<1>5. CASE /\ call[c].pc = "recoverKey" /\ UNCHANGED lock
           /\ call' = [call EXCEPT ![c].pc = "recoverSeed", ![c].kek = call[c].got.id, ![c].got = row["seed"]]
  <2>1. /\ Alone(c) /\ Same(call'[c], call[c]) /\ call'[c].pc = "recoverSeed" /\ call'[c].got = row["seed"]
    BY <1>1, <1>5 DEF Alone, Same, IInv, CallInv, CallType
  <2>2. Resolving(call'[c])
    BY <1>2, <2>1 DEF Resolving, Same
  <2>3. ReadsOn(c)
    BY <1>1, <1>5, <2>1
       DEF ReadsOn, ReadShape, ReadKept, ReadPresent, Bare, SeedPc, Same, KekPc, Whole
  <2> QED
    BY <1>1, <1>2, <1>3, <1>5, <2>1, <2>2, <2>3, ResolvesOn DEF PairSame
<1>6. CASE call[c].pc = "recoverSeed" /\ UNCHANGED lock /\ Goto(c, "recovered")
  <2>1. /\ Alone(c) /\ Same(call'[c], call[c]) /\ call'[c].pc = "recovered" /\ call'[c].got = call[c].got
    BY <1>6, GotoLeaves
  <2>2. Resolving(call'[c])
    BY <1>2, <2>1 DEF Resolving, Same
  <2>3. ReadsOn(c)
    BY <1>1, <1>6, <2>1
       DEF ReadsOn, ReadShape, ReadKept, ReadPresent, Bare, SeedPc, Same, KekPc, Whole
  <2> QED
    BY <1>1, <1>2, <1>3, <1>6, <2>1, <2>2, <2>3, ResolvesOn DEF PairSame
<1> QED
  BY <1>4, <1>5, <1>6 DEF RecoverKeyLoaded, RecoverSeedLoaded

LEMMA RecoveredHistory ==
    ASSUME IInv, HInv, NEW c \in Call, Recovered(c)
    PROVE  HInv' /\ Proceeds(c)
<1>1. UNCHANGED <<store, raced, restored, overtaken, early>> /\ call[c].pc = "recovered"
  BY DEF Recovered, hist
<1>2. Resolving(call[c]) /\ call[c].kind = "identity"
  BY <1>1, IdentityResolves DEF Resolving
<1>3. ReadGood(c)
  BY <1>2 DEF HInv, ReadInv
<1>4. CASE Resolve(c, call[c].stored.id) /\ call[c].got # NoRow
  <2>1. ~raced => Whole
    BY <1>1, <1>3, <1>4 DEF ReadGood, ReadShape, ReadPresent, SeedPc, Whole, KekPc
  <2>2. ~raced /\ ~restored => call[c].stored.id = row["device"].id
    BY <1>3 DEF ReadGood, Current
  <2> QED
    BY <1>1, <1>2, <1>4, <2>1, <2>2, ResolvedHistory DEF InLock
<1>5. CASE UNCHANGED <<lock, tab>> /\ Goto(c, "generate") /\ call[c].got = NoRow
  <2>1. Alone(c) /\ Same(call'[c], call[c]) /\ call'[c].pc = "generate"
    BY <1>5, GotoLeaves
  <2>2. Resolving(call'[c])
    BY <1>2, <2>1 DEF Resolving, Same
  <2>3. ReadsOn(c)
    BY <1>1, <1>5, <2>1
       DEF ReadsOn, ReadShape, ReadKept, ReadPresent, Bare, SeedPc, Same, KekPc, Whole
  <2> QED
    BY <1>1, <1>2, <1>5, <2>1, <2>2, <2>3, ResolvesOn DEF store, PairSame, IdsKept
<1> QED
  BY <1>4, <1>5 DEF Recovered

LEMMA GeneratedHistory ==
    ASSUME IInv, HInv, NEW c \in Call, Generated(c)
    PROVE  HInv' /\ Proceeds(c)
<1>1. UNCHANGED <<store, lock, tab, raced, restored, overtaken, early>> /\ call[c].pc = "generate"
  BY DEF Generated, hist
<1>2. Resolving(call[c]) /\ call[c] \in CallType /\ call[c].kind = "identity"
  BY <1>1, IdentityResolves DEF Resolving
<1> DEFINE k == [call[c] EXCEPT !.minting = TRUE]
<1>3. Alone(c) /\ call'[c] = AskKek(k, T(c).kek)
  BY DEF Generated, Alone, IInv, CallInv
<1>4. k \in CallType /\ k.kind = "identity" /\ k.minting /\ k.stored = call[c].stored
  BY <1>2 DEF CallType
<1> HIDE DEF k
<1>5. AfterKek(k) = "persist"
  BY <1>4 DEF AfterKek
<1>6. /\ call'[c].kind = "identity" /\ call'[c].minting /\ call'[c].stored = call[c].stored
      /\ call'[c].pc \in {"persist", "kekRow"}
  BY <1>3, <1>4, <1>5, AskLeaves DEF Same
<1>7. Resolving(call'[c])
  BY <1>6 DEF Resolving, KekPc
<1>8. ReadsOn(c)
  BY <1>1, <1>6
     DEF ReadsOn, ReadShape, ReadKept, ReadPresent, Bare, SeedPc, KekPc, Whole
<1> QED
  BY <1>1, <1>2, <1>3, <1>7, <1>8, ResolvesOn DEF store, PairSame, IdsKept

\* What follows once the pair is stored.
LEMMA AfterHistory ==
    ASSUME IInv, HInv, NEW c \in Call, Persisted(c) \/ ResidueSealed(c) \/ Replaced(c)
    PROVE  HInv' /\ Proceeds(c)
<1>1. PairSame /\ UNCHANGED <<raced, restored, overtaken, early>> /\ call[c].pc \in After
  BY DEF Persisted, ResidueSealed, Replaced, hist, After, PairSame, store, IInv, StoreInv, RowName
<1>2. ~Ended(call[c]) /\ InLock(call[c]) /\ call[c].kind = "identity"
  BY <1>1, IdentityCall DEF After, IdentityPc, InLock
<1>3. T(c) \in TabType /\ call[c].tab \in Tab /\ T(c) = tab[call[c].tab] /\ tab \in [Tab -> TabType]
  BY <1>2, Suspended DEF IInv, TabInv
<1>4. CASE Resolve(c, c) /\ UNCHANGED store
  BY <1>1, <1>2, <1>4, ResolvedHistory DEF HInv, AfterAlone
<1>5. CASE /\ UNCHANGED lock
           /\ \/ /\ Goto(c, "residue")
                 /\ tab' = [tab EXCEPT ![call[c].tab] = [T(c) EXCEPT !.noise = None, !.sealed = NoSealed, !.epoch = @ + 1]]
              \/ Goto(c, "replaced") /\ UNCHANGED tab
  <2>1. Alone(c) /\ Same(call'[c], call[c]) /\ call'[c].pc \in {"residue", "replaced"}
    BY <1>5, GotoLeaves
  <2>2. InLock(call'[c]) /\ ~Resolving(call'[c]) /\ call'[c].kind = "identity"
    BY <1>2, <2>1 DEF InLock, After, Resolving, KekPc, Same
  <2> DEFINE x == [T(c) EXCEPT !.noise = None, !.sealed = NoSealed, !.epoch = @ + 1]
  <2>3. x.id = T(c).id
    BY <1>3 DEF TabType
  <2> HIDE DEF x
  <2>4. IdsKept
    BY <1>3, <1>5, <2>3 DEF IdsKept, x
  <2> QED
    BY <1>1, <1>2, <1>5, <2>1, <2>2, <2>4, InPlace
<1>6. CASE Persisted(c)
  BY <1>4, <1>5, <1>6 DEF Persisted, store
<1>7. CASE ResidueSealed(c)
  BY <1>5, <1>7 DEF ResidueSealed
<1>8. CASE Replaced(c)
  BY <1>4, <1>8 DEF Replaced
<1> QED
  BY <1>6, <1>7, <1>8
-----------------------------------------------------------------------------
(* Sealed scalars, the Noise keypair, a restore before and after it stores *)

\* The calls that wait for c's promise go on with a scalar, or end.
LEMMA SettledHarmless ==
    ASSUME IInv, HInv, NEW c \in Call, call[c].kind = "sealed",
           \/ \E key : Fulfil(c, key)
           \/ call' = [d \in Call |-> IF Settles(c, d) THEN Over(d) ELSE call[d]]
    PROVE  /\ Harmless(call'[c]) /\ call'[c].kind = "sealed"
           /\ \A d \in Call : call'[d] = call[d] \/ Harmless(call'[d])
<1>1. ASSUME NEW d \in Call, Settles(c, d)
      PROVE  /\ call[d] \in CallType /\ call[d].kind = "sealed" /\ ~call[d].minting
  <2>1. CASE call[d].pc = "sealedJoin"
    <3>1. call[d] \in CallType /\ call[d].pc \in PcOf(call[d].kind) /\ call[d].kind \in Kind
      BY <2>1, Suspended DEF Ended, CallType
    <3>2. call[d].kind = "sealed"
      BY <2>1, <3>1 DEF PcOf, KekPc, Kind, ClearNext
    <3> QED
      BY <3>1, <3>2 DEF HInv, MintsHeld
  <2> QED
    BY <1>1, <2>1 DEF Settles, HInv, MintsHeld, IInv, CallInv
<1>2. ASSUME NEW d \in Call, Settles(c, d)
      PROVE  Harmless(Over(d)) /\ Over(d).kind = call[d].kind
  BY DEF Over, IdleCall, Harmless, InLock, Resolving, Outside, Clearing, After, SealingPc, KekPc, Ended
<1>3. ASSUME NEW d \in Call, Settles(c, d), NEW r
      PROVE  LET k == [call[d] EXCEPT !.pc = "sealedGot", !.got = r]
             IN Harmless(k) /\ k.kind = "sealed"
  <2> DEFINE k == [call[d] EXCEPT !.pc = "sealedGot", !.got = r]
  <2>1. k.pc = "sealedGot" /\ k.kind = "sealed" /\ ~k.minting
    BY <1>1, <1>3 DEF CallType
  <2> HIDE DEF k
  <2>2. Harmless(k)
    BY <2>1 DEF Harmless, InLock, Resolving, Outside, Clearing, After, SealingPc, KekPc, Ended
  <2> QED
    BY <2>1, <2>2 DEF k
<1>4. Settles(c, c)
  BY DEF Settles
<1>5. CASE \E key : Fulfil(c, key)
  <2> PICK key : Fulfil(c, key)
    BY <1>5
  <2>1. call' = [d \in Call |-> IF Settles(c, d) THEN [call[d] EXCEPT !.pc = "sealedGot", !.got = Wrapped(key, None, None)]
                                                 ELSE call[d]]
    BY DEF Fulfil
  <2> QED
    BY <1>3, <1>4, <2>1
<1>6. CASE call' = [d \in Call |-> IF Settles(c, d) THEN Over(d) ELSE call[d]]
  BY <1>1, <1>2, <1>4, <1>6
<1> QED
  BY <1>5, <1>6

\* The promise of c is settled, and the lock given back.
LEMMA SettlesInPlace ==
    ASSUME IInv, HInv, NEW c \in Call, ~Ended(call[c]), call[c].kind = "sealed",
           \/ \E key : Fulfil(c, key)
           \/ SealedThrows(c),
           PairSame, UNCHANGED <<raced, restored, overtaken, early>>, IdsKept
    PROVE  HInv' /\ Proceeds(c)
<1>1. /\ Harmless(call'[c]) /\ call'[c].kind = "sealed"
      /\ \A d \in Call : call'[d] = call[d] \/ Harmless(call'[d])
  BY SettledHarmless DEF SealedThrows
<1>2. lock' = IF lock = c THEN None ELSE lock
  BY DEF Fulfil, SealedThrows
<1>3. Proceeds(c)
  BY <1>1, <1>2 DEF Proceeds, IdsKept, Harmless, InLock
<1> QED
  BY <1>1, <1>3, HKept DEF Harmless, InLock

\* What is done for a sealed scalar leaves every page its identity and its KEK.
LEMMA SealedPages ==
    ASSUME IInv, NEW c \in Call, Sealed(c)
    PROVE  \A t \in Tab : tab'[t].id = tab[t].id /\ tab'[t].kek = tab[t].kek
<1>1. tab \in [Tab -> TabType]
  BY DEF IInv, TabInv
<1>2. CASE UNCHANGED tab
  BY <1>2
<1>3. CASE \E key : CacheSealed(c, key)
  BY <1>1, <1>3 DEF CacheSealed, TabType
<1>4. CASE SealedThrows(c)
  BY <1>1, <1>4 DEF SealedThrows, TabType
<1>5. CASE SealedGot(c)
  BY <1>1, <1>5 DEF SealedGot, TabType
<1>6. \/ UNCHANGED tab \/ (\E key : CacheSealed(c, key)) \/ SealedThrows(c) \/ SealedGot(c)
  BY DEF Sealed, SealedLocked, SealedRow, SealedLoaded, SealedMint, SealedSaved
<1> QED
  BY <1>2, <1>3, <1>4, <1>5, <1>6

LEMMA SealedHistory ==
    ASSUME IInv, HInv, NEW c \in Call, Sealed(c)
    PROVE  HInv' /\ Proceeds(c)
<1>1. PairSame /\ UNCHANGED <<raced, restored, overtaken, early>>
  BY DEF Sealed, SealedLocked, SealedRow, SealedLoaded, SealedMint, SealedSaved, SealedGot, hist, store, PairSame,
         IInv, StoreInv, RowName
<1>2. call[c].pc \in {"lock", "sealedRow", "sealedRead", "sealedSaved", "sealedGot"} /\ ~Ended(call[c])
  BY DEF Sealed, SealedLocked, SealedRow, SealedLoaded, SealedMint, SealedSaved, SealedGot, Ended
<1>3. call[c].kind = "sealed"
  BY <1>2, SealedCall DEF Sealed, SealedLocked, SealedRow, SealedLoaded, SealedMint, SealedSaved, SealedGot,
         SealedPc
<1>4. T(c) \in TabType /\ call[c].tab \in Tab /\ T(c) = tab[call[c].tab] /\ tab \in [Tab -> TabType] /\ call[c] \in CallType
  BY <1>2, Suspended DEF IInv, TabInv
<1>5. IdsKept
  BY SealedPages DEF IdsKept
<1>6. CASE (\E key : Fulfil(c, key)) \/ SealedThrows(c)
  BY <1>1, <1>2, <1>3, <1>5, <1>6, SettlesInPlace
<1>7. CASE Finish(c)
  BY <1>1, <1>2, <1>3, <1>5, <1>7, EndsInPlace
<1>8. CASE /\ UNCHANGED lock
           /\ \/ Read(c, "sealedRead", row["sealed"]) /\ call[c].pc = "sealedRow"
              \/ Goto(c, "sealedSaved") /\ call[c].pc = "sealedRead"
  <2>1. Alone(c) /\ Same(call'[c], call[c]) /\ call'[c].pc \in {"sealedRead", "sealedSaved"} /\ call[c].pc \in SealingPc
    BY <1>8, ReadLeaves, GotoLeaves DEF SealingPc
  <2>2. InLock(call[c]) /\ call'[c].pc \notin After
    BY <1>3, <2>1 DEF InLock, After
  <2> QED
    BY <1>1, <1>2, <1>3, <1>5, <1>8, <2>1, <2>2, OtherInPlace DEF Same
<1>9. CASE /\ call[c].pc = "lock" /\ lock = None /\ lock' = c
           /\ call' = [call EXCEPT ![c] = AskKek([@ EXCEPT !.mark = T(c).epoch], T(c).kek)]
  <2> DEFINE k == [call[c] EXCEPT !.mark = T(c).epoch]
  <2>1. Alone(c) /\ call'[c] = AskKek(k, T(c).kek)
    BY <1>9 DEF Alone, IInv, CallInv
  <2>2. k \in CallType /\ k.kind = "sealed" /\ k.minting = call[c].minting
    BY <1>3, <1>4 DEF CallType, TabType
  <2> HIDE DEF k
  <2>3. call'[c].kind = "sealed" /\ call'[c].minting = call[c].minting /\ call'[c].pc \in {"sealedRow", "kekRow"}
    BY <2>1, <2>2, AskLeaves DEF AfterKek, Same
  <2>4. ~call'[c].minting /\ call'[c].pc \notin After /\ ~Resolving(call'[c])
    BY <1>3, <2>3 DEF HInv, MintsHeld, After, Resolving
  <2>5. Proceeds(c)
    BY <1>1, <1>2, <1>3, <1>5, <1>9, <2>1, <2>3, <2>4 DEF Proceeds, Alone, IdsKept
  <2> QED
    BY <2>4, <2>5, HKept
<1>10. CASE SealedLocked(c)
  BY <1>6, <1>9, <1>10 DEF SealedLocked, LockFree
<1>11. CASE SealedRow(c) \/ SealedMint(c)
  BY <1>6, <1>8, <1>11 DEF SealedRow, SealedMint
<1>12. CASE SealedLoaded(c) \/ SealedSaved(c)
  BY <1>6, <1>12 DEF SealedLoaded, SealedSaved
<1>13. CASE SealedGot(c)
  BY <1>7, <1>13 DEF SealedGot
<1> QED
  BY <1>10, <1>11, <1>12, <1>13 DEF Sealed

\* The Noise keypair, and a restore except where it stores the pair.
LEMMA OutsideHistory ==
    ASSUME IInv, HInv, NEW c \in Call, Noise(c) \/ PairSaved(c) \/ RestoreSealed(c) \/ RestoreEnd(c)
    PROVE  HInv' /\ Proceeds(c)
<1>1. /\ PairSame /\ UNCHANGED <<raced, restored, overtaken, early>> /\ ~Ended(call[c])
      /\ call[c].pc \in {"noiseRow", "noiseRead", "noiseSaved", "pairSaved", "restoreSealed", "restoreEnd"}
  BY DEF Noise, NoiseRow, NoiseLoaded, NoiseSaved, PairSaved, RestoreSealed, RestoreEnd, hist, store, PairSame,
         IInv, StoreInv, RowName, Ended
<1>2. call[c].kind \in {"noise", "replace"}
  BY <1>1, KindOf
<1>3. T(c) \in TabType /\ call[c].tab \in Tab /\ T(c) = tab[call[c].tab] /\ tab \in [Tab -> TabType]
  BY <1>1, Suspended DEF IInv, TabInv
<1>4. IdsKept
  <2>1. CASE UNCHANGED tab
    BY <2>1 DEF IdsKept
  <2>2. CASE \E key : tab' = [tab EXCEPT ![call[c].tab].noise = key]
    BY <1>3, <2>2 DEF IdsKept, TabType
  <2>3. CASE RestoreEnd(c)
    <3> DEFINE x == [T(c) EXCEPT !.id = None, !.sealed = NoSealed, !.epoch = @ + 1]
    <3>1. x.id = None /\ tab' = [tab EXCEPT ![call[c].tab] = x]
      BY <1>3, <2>3 DEF RestoreEnd, TabType
    <3> HIDE DEF x
    <3> QED
      BY <1>3, <3>1 DEF IdsKept
  <2> QED
    BY <2>1, <2>2, <2>3 DEF Noise, NoiseRow, NoiseLoaded, NoiseSaved, PairSaved, RestoreSealed
<1>5. CASE Finish(c)
  BY <1>1, <1>2, <1>4, <1>5, EndsInPlace
<1>6. CASE UNCHANGED lock /\ \E pc \in {"noiseRead", "noiseSaved", "restoreSealed", "restoreEnd"} :
               Goto(c, pc) \/ \E r : Read(c, pc, r)
  <2>1. Alone(c) /\ Same(call'[c], call[c]) /\ call'[c].pc \in {"noiseRead", "noiseSaved", "restoreSealed", "restoreEnd"}
    BY <1>6, GotoLeaves, ReadLeaves
  <2> QED
    BY <1>1, <1>2, <1>4, <1>6, <2>1, OtherInPlace DEF Same, After, InLock, Resolving
<1>7. CASE NoiseRow(c) \/ PairSaved(c)
  BY <1>6, <1>7 DEF NoiseRow, PairSaved
<1>8. CASE NoiseLoaded(c) \/ NoiseSaved(c)
  BY <1>5, <1>6, <1>8 DEF NoiseLoaded, NoiseSaved
<1>9. CASE RestoreSealed(c) \/ RestoreEnd(c)
  BY <1>5, <1>6, <1>9 DEF RestoreSealed, RestoreEnd
<1> QED
  BY <1>7, <1>8, <1>9 DEF Noise

LEMMA StoredWhole ==
    ASSUME IInv, NEW id, NEW k, id # None, row' = SavePair(id, k)
    PROVE  Whole' /\ row'["device"].id = id /\ row'["device"].kek = k /\ row'["sealed"] = row["sealed"]
<1>1. row'["device"] = Wrapped(id, k, None) /\ row'["seed"] = Wrapped(id, k, None) /\ row'["sealed"] = row["sealed"]
  BY DEF SavePair, IInv, StoreInv, RowName
<1>2. Wrapped(id, k, None).id = id /\ Wrapped(id, k, None).kek = k /\ NoRow.id = None
  BY DEF Wrapped, NoRow
<1> QED
  BY <1>1, <1>2 DEF Whole

\* A restore stores its pair, over whatever there is.
LEMMA PairSaveHistory ==
    ASSUME IInv, HInv, NEW c \in Call, PairSave(c)
    PROVE  HInv'
<1>1. /\ row' = SavePair(call[c].owner, call[c].kek) /\ UNCHANGED <<lock, tab, Hist>> /\ call[c].pc = "pairSave"
      /\ Goto(c, "pairSaved") /\ ~Ended(call[c])
      /\ overtaken' = overtaken \cup {d \in Call : Running(d) /\ call[d].kind = "identity"}
  BY DEF PairSave, Ended
<1>2. call[c].kind = "replace" /\ call[c].owner # None
  BY <1>1, KindOf, Suspended DEF PairSane
<1>3. Alone(c) /\ Same(call'[c], call[c]) /\ call'[c].pc = "pairSaved"
  BY <1>1, GotoLeaves
<1>4. Outside(call[c]) /\ Outside(call'[c]) /\ ~InLock(call'[c]) /\ ~call'[c].minting /\ ~Clearing(call'[c])
  BY <1>1, <1>2, <1>3 DEF Outside, Same, InLock, Resolving, After, Ended, HInv, MintsHeld, Clearing
<1>5. LockHeld' /\ MintsHeld' /\ RestoreSeen' /\ restored'
  BY <1>1, <1>2, <1>3, <1>4 DEF HInv, LockHeld, MintsHeld, RestoreSeen, Alone, Hist
<1>6. Whole'
  BY <1>1, <1>2, StoredWhole
<1>7. ASSUME NEW d \in Call, Resolving(call'[d])
      PROVE  ReadGood(d)'
  <2>1. call'[d] = call[d] /\ Resolving(call[d]) /\ ReadGood(d)
    BY <1>3, <1>4, <1>7 DEF Alone, InLock, HInv, ReadInv
  <2>2. d \in overtaken'
    BY <1>1, <2>1 DEF Resolving, Running, KekPc
  <2>3. ReadPresent(call[d])'
    BY <1>6 DEF ReadPresent, Whole
  <2> QED
    BY <1>1, <1>5, <2>1, <2>2, <2>3 DEF ReadGood, NoneLoaded, Hist
<1>8. ReadInv'
  BY <1>7 DEF ReadInv
<1> SUFFICES ASSUME ~raced
             PROVE  ClearAlone' /\ LoadedWhole' /\ AfterAlone' /\ IdInv'
  BY <1>1, <1>5, <1>8 DEF HInv, Hist
<1>9. ClearAlone'
  BY <1>2, <1>3, <1>4 DEF HInv, ClearAlone, Clearing, Outside, Alone
<1>10. LoadedWhole' /\ IdInv'
  BY <1>5, <1>6 DEF LoadedWhole, IdInv
<1>11. AfterAlone'
  BY <1>1, <1>3, <1>5, <1>6 DEF HInv, AfterAlone, NoneLoaded, Alone, After
<1> QED
  BY <1>9, <1>10, <1>11

\* A mint stores its pair where there was no whole one.
LEMMA PersistHistory ==
    ASSUME IInv, HInv, NEW c \in Call, Persist(c)
    PROVE  /\ HInv'
           /\ c \notin overtaken => ~Whole
<1>1. /\ row' = SavePair(c, call[c].kek) /\ UNCHANGED <<lock, tab, Hist, overtaken>> /\ call[c].pc = "persist"
      /\ Goto(c, "persisted") /\ c # None
  BY Numbers DEF Persist
<1>2. ~Ended(call[c]) /\ Resolving(call[c]) /\ call[c].kind = "identity" /\ lock = c
  BY <1>1, IdentityResolves DEF Resolving, HInv, LockHeld, InLock
<1>3. Alone(c) /\ Same(call'[c], call[c]) /\ call'[c].pc = "persisted"
  BY <1>1, GotoLeaves
<1>4. InLock(call'[c]) /\ ~Resolving(call'[c]) /\ call'[c].kind = "identity" /\ ~Outside(call'[c]) /\ ~Clearing(call'[c])
  BY <1>2, <1>3 DEF InLock, Resolving, After, KekPc, Same, Outside, Clearing
<1>5. LockHeld' /\ MintsHeld' /\ RestoreSeen'
  BY <1>1, <1>2, <1>3, <1>4 DEF HInv, LockHeld, MintsHeld, RestoreSeen, Alone, Hist
<1>6. ReadGood(c) /\ call[c].minting
  BY <1>1, <1>2 DEF HInv, ReadInv, ReadGood, ReadShape
<1>7. c \notin overtaken => ~Whole
  BY <1>6 DEF ReadGood, ReadKept, Whole
<1>8. \A d \in Call \ {c} : call'[d].pc \notin After /\ ~Resolving(call'[d])
  BY <1>2, <1>3 DEF HInv, LockHeld, Alone, InLock
<1>9. ReadInv'
  BY <1>4, <1>8 DEF ReadInv
<1>10. ASSUME ~raced
       PROVE  ClearAlone' /\ LoadedWhole' /\ AfterAlone' /\ IdInv'
  <2>1. Whole' /\ row'["device"].id = c
    BY <1>1, StoredWhole
  <2>2. NoneLoaded'
    BY <1>1, <1>6, <1>10 DEF ReadGood, Bare, NoneLoaded
  <2>3. ClearAlone'
    BY <1>2, <1>3, <1>4, <1>10 DEF HInv, ClearAlone, Clearing, Alone
  <2> QED
    BY <1>8, <2>1, <2>2, <2>3 DEF LoadedWhole, AfterAlone, IdInv, NoneLoaded
<1> QED
  BY <1>1, <1>5, <1>7, <1>9, <1>10 DEF HInv, Hist

-----------------------------------------------------------------------------
(* A request is refused; a forget; a reload; a new call *)

LEMMA LegacyFaultHistory ==
    ASSUME IInv, HInv, NEW c \in Call, LegacyFault(c), UNCHANGED <<store, hist>>
    PROVE  HInv' /\ Proceeds(c)
<1>1. /\ Alone(c) /\ Same(call'[c], call[c]) /\ call'[c].pc = "legacyRow" /\ call[c].pc \in KekPc
      /\ UNCHANGED <<lock, tab>>
  BY ReadLeaves DEF LegacyFault, KekPc
<1> QED
  BY <1>1, KekGoesOn DEF PairSame, IdsKept, store, hist

LEMMA IdentityFaultHistory ==
    ASSUME IInv, HInv, NEW c \in Call, IdentityFault(c), UNCHANGED <<store, hist>>
    PROVE  HInv' /\ Proceeds(c)
<1>1. PairSame /\ UNCHANGED <<raced, restored, overtaken, early>> /\ call[c].kind = "identity"
  BY DEF IdentityFault, PairSame, store, hist
<1>2. ~Ended(call[c])
  BY DEF IdentityFault, KekFails, Ended
<1>3. T(c) \in TabType /\ call[c].tab \in Tab /\ T(c) = tab[call[c].tab] /\ tab \in [Tab -> TabType]
  BY <1>2, Suspended DEF IInv, TabInv
<1>4. IdsKept
  BY <1>3 DEF IdsKept, IdentityFault, TabType
<1>5. CASE Finish(c)
  BY <1>1, <1>2, <1>4, <1>5, EndsInPlace
<1>6. CASE /\ call[c].pc = "unwrap" \/ (KekFails(c) /\ ~call[c].minting)
           /\ Read(c, "recoverKey", Wrapped(legacy, None, None))
           /\ UNCHANGED <<lock, tab>>
  <2>1. Alone(c) /\ Same(call'[c], call[c]) /\ call'[c].pc = "recoverKey"
    BY <1>6, ReadLeaves
  <2>2. Resolving(call[c]) /\ Resolving(call'[c]) /\ call[c].pc \in KekPc \cup {"unwrap"}
    BY <1>1, <1>6, <2>1 DEF Resolving, Same, KekFails, KekPc
  <2>3. ReadsOn(c)
    BY <1>1, <1>6, <2>1, <2>2
       DEF ReadsOn, ReadShape, ReadKept, ReadPresent, Bare, SeedPc, Same, KekPc, Whole
  <2> QED
    BY <1>1, <1>4, <1>6, <2>1, <2>2, <2>3, ResolvesOn
<1>7. CASE call[c].pc = "residue" /\ Goto(c, "replaced") /\ UNCHANGED <<lock, tab>>
  <2>1. Alone(c) /\ Same(call'[c], call[c]) /\ call'[c].pc = "replaced"
    BY <1>7, GotoLeaves
  <2> QED
    BY <1>1, <1>2, <1>4, <1>7, <2>1, InPlace DEF Same, InLock, After, Resolving, KekPc
<1> QED
  BY <1>5, <1>6, <1>7 DEF IdentityFault

LEMMA SealedFaultHistory ==
    ASSUME IInv, HInv, NEW c \in Call, SealedFault(c), UNCHANGED <<store, hist>>
    PROVE  HInv' /\ Proceeds(c)
<1>1. ~Ended(call[c]) /\ call[c].kind = "sealed" /\ SealedThrows(c)
  BY DEF SealedFault, KekFails, Ended
<1>2. T(c) \in TabType /\ call[c].tab \in Tab /\ T(c) = tab[call[c].tab] /\ tab \in [Tab -> TabType]
  BY <1>1, Suspended DEF IInv, TabInv
<1>3. IdsKept
  BY <1>1, <1>2 DEF IdsKept, SealedThrows, TabType
<1> QED
  BY <1>1, <1>3, SettlesInPlace DEF PairSame, store, hist

LEMMA OtherFaultHistory ==
    ASSUME IInv, HInv, NEW c \in Call, call[c].kind # "clear", OtherFault(c), UNCHANGED <<store, hist>>
    PROVE  HInv' /\ Proceeds(c)
<1>1. ~Ended(call[c]) /\ UNCHANGED tab
  BY DEF OtherFault, KekFails, Ended, ClearNext
<1>2. CASE Finish(c)
  BY <1>1, <1>2, EndsInPlace DEF PairSame, IdsKept, store, hist
<1>3. CASE Goto(c, "restoreEnd") /\ UNCHANGED lock
  <2>1. Alone(c) /\ Same(call'[c], call[c]) /\ call'[c].pc = "restoreEnd"
    BY <1>3, GotoLeaves
  <2> QED
    BY <1>1, <1>3, <2>1, OtherInPlace
       DEF OtherFault, Same, After, InLock, Resolving, PairSame, IdsKept, store, hist
<1> QED
  BY <1>2, <1>3 DEF OtherFault

\* Calls end, pages are fresh, and nothing else changes that matters.
LEMMA Wanes ==
    ASSUME HInv, PairSame, UNCHANGED <<raced, restored, overtaken, early>>, IdsKept,
           \A t \in Tab : tab'[t].kek \in {tab[t].kek, None},
           \A d \in Call : call'[d] = call[d] \/ (Ended(call'[d]) /\ Harmless(call'[d])),
           \A d \in Call : InLock(call'[d]) => lock' = lock
    PROVE  HInv'
<1>1. LockHeld' /\ MintsHeld' /\ RestoreSeen'
  BY DEF HInv, LockHeld, MintsHeld, RestoreSeen, Harmless
<1>2. Whole' = Whole /\ row'["device"] = row["device"] /\ row'["seed"] = row["seed"]
  BY DEF PairSame, Whole
<1>3. NoneLoaded => NoneLoaded'
  BY DEF NoneLoaded, IdsKept
<1>4. ASSUME NEW d \in Call, Resolving(call'[d])
      PROVE  ReadGood(d)'
  <2>1. call'[d] = call[d] /\ ReadGood(d)
    BY <1>4 DEF Harmless, InLock, HInv, ReadInv
  <2> QED
    BY <1>2, <1>3, <2>1 DEF ReadGood, ReadKept, ReadPresent, Current
<1>5. ReadInv'
  BY <1>4 DEF ReadInv
<1> SUFFICES ASSUME ~raced
             PROVE  ClearAlone' /\ LoadedWhole' /\ AfterAlone' /\ IdInv'
  BY <1>1, <1>5 DEF HInv
<1>6. ClearAlone'
  BY DEF HInv, ClearAlone, PairSame, IdsKept, Harmless
<1>7. LoadedWhole' /\ AfterAlone' /\ IdInv'
  BY <1>2, <1>3 DEF HInv, LoadedWhole, AfterAlone, IdInv, PairSame, IdsKept, Harmless, InLock
<1> QED
  BY <1>6, <1>7

LEMMA ReloadHistory ==
    ASSUME IInv, HInv, NEW t \in Tab, Reload(t)
    PROVE  HInv'
<1> DEFINE dead == {c \in Call : Running(c) /\ call[c].tab = t}
<1>1. /\ UNCHANGED <<store, hist>> /\ tab' = [tab EXCEPT ![t] = FreshTab]
      /\ call' = [c \in Call |-> IF c \in dead THEN Over(c) ELSE call[c]]
      /\ lock' = IF lock \in dead THEN None ELSE lock
  BY DEF Reload
<1>2. ASSUME NEW d \in Call
      PROVE  Ended(Over(d)) /\ Harmless(Over(d))
  BY DEF Over, IdleCall, Harmless, InLock, Resolving, Outside, Clearing, After, SealingPc, KekPc, Ended
<1>3. FreshTab.id = None /\ FreshTab.kek = None
  BY DEF FreshTab
<1>4. \A u \in Tab : tab'[u] = tab[u] \/ tab'[u] = FreshTab
  BY <1>1 DEF IInv, TabInv
<1>5. \A d \in Call : InLock(call'[d]) => lock' = lock
  BY <1>1, <1>2 DEF HInv, LockHeld, Harmless
<1> QED
  BY <1>1, <1>2, <1>3, <1>4, <1>5, Wanes DEF PairSame, IdsKept, store, hist

\* A forget goes on, or ends.
LEMMA ClearsOn ==
    ASSUME IInv, HInv, NEW c \in Call, Clearing(call[c]), Alone(c), call'[c].kind = "clear", ~call'[c].minting,
           call'[c].pc \notin After, row'["device"] = row["device"], row'["seed"] \in {row["seed"], NoRow},
           UNCHANGED <<tab, raced, restored, overtaken, early>>,
           lock' = lock \/ (lock = c /\ lock' = None)
    PROVE  HInv'
<1>1. ~InLock(call'[c]) /\ ~Outside(call'[c]) /\ ~Resolving(call'[c])
  BY DEF InLock, Outside, Resolving
<1>2. LockHeld' /\ MintsHeld' /\ RestoreSeen'
  BY <1>1 DEF HInv, LockHeld, MintsHeld, RestoreSeen, Alone
<1>3. ASSUME NEW d \in Call, Resolving(call'[d])
      PROVE  ReadGood(d)' /\ raced
  <2>1. d # c /\ call'[d] = call[d] /\ Resolving(call[d]) /\ ReadGood(d)
    BY <1>1, <1>3 DEF Alone, HInv, ReadInv
  <2>2. raced
    BY <2>1 DEF HInv, ClearAlone, Resolving, Ended, KekPc
  <2> QED
    BY <2>1, <2>2 DEF ReadGood, ReadKept
<1>4. ReadInv'
  BY <1>3 DEF ReadInv
<1>5. ASSUME ~raced
      PROVE  ClearAlone' /\ LoadedWhole' /\ AfterAlone' /\ IdInv'
  <2>1. /\ row'["device"] = NoRow /\ \A t \in Tab : tab'[t].id = None /\ tab'[t].kek = None
        /\ \A d \in Call \ {c} : Ended(call'[d])
    BY <1>5 DEF HInv, ClearAlone, Alone
  <2>2. \A d \in Call : ~Outside(call'[d]) /\ call'[d].pc \notin After
    BY <1>1, <2>1 DEF Outside, After, Ended
  <2>3. ClearAlone'
    BY <2>1 DEF ClearAlone, Clearing
  <2> QED
    BY <2>1, <2>2, <2>3 DEF LoadedWhole, AfterAlone, IdInv
<1> QED
  BY <1>2, <1>4, <1>5 DEF HInv

LEMMA ClearStepHistory ==
    ASSUME IInv, HInv, NEW c \in Call, ClearStep(c)
    PROVE  HInv'
<1>1. UNCHANGED <<tab, raced, restored, overtaken, early>> /\ call[c].pc \in DOMAIN ClearNext /\ ~Ended(call[c])
  BY DEF ClearStep, ClearNext, Ended, hist
<1>2. Clearing(call[c]) /\ row'["device"] = row["device"] /\ row'["seed"] \in {row["seed"], NoRow}
  BY <1>1, KindOf DEF Clearing, ClearStep, Cleared, RowName
<1>3. CASE Finish(c)
  BY <1>1, <1>2, <1>3, FinishLeaves, ClearsOn DEF Clearing, Harmless, InLock
<1>4. CASE Goto(c, ClearNext[call[c].pc]) /\ UNCHANGED lock
  <2>1. Alone(c) /\ Same(call'[c], call[c]) /\ call'[c].pc = ClearNext[call[c].pc]
    BY <1>4, GotoLeaves
  <2>2. ClearNext[call[c].pc] \notin After
    BY <1>1 DEF ClearNext, After
  <2> QED
    BY <1>1, <1>2, <1>4, <2>1, <2>2, ClearsOn DEF Clearing, Same, HInv, MintsHeld
<1> QED
  BY <1>3, <1>4 DEF ClearStep

LEMMA FaultHistory ==
    ASSUME IInv, HInv, NEW c \in Call, Fault(c)
    PROVE  HInv'
<1>1. UNCHANGED <<store, hist>>
  BY DEF Fault
<1>2. CASE OtherFault(c) /\ call[c].kind = "clear"
  <2>1. ~Ended(call[c]) /\ UNCHANGED tab
    BY <1>2 DEF OtherFault, KekFails, Ended, ClearNext
  <2>2. call[c].pc \in DOMAIN ClearNext
    BY <1>2, <2>1, Suspended DEF PcOf
  <2>3. Finish(c)
    BY <1>2, <2>2 DEF OtherFault, ClearNext
  <2> QED
    BY <1>1, <1>2, <2>1, <2>3, FinishLeaves, ClearsOn DEF Clearing, Harmless, InLock, store, hist
<1> QED
  BY <1>1, <1>2, LegacyFaultHistory, IdentityFaultHistory, SealedFaultHistory, OtherFaultHistory DEF Fault

\* A call is made, and no forget runs.
LEMMA Starting ==
    ASSUME IInv, HInv, NEW c \in Call, call[c].pc = "idle", Alone(c), ~InLock(call'[c]), ~Clearing(call'[c]),
           ~call'[c].minting, PairSame, lock' = lock, BesideClear, IdsKept, restored => restored',
           early => early', overtaken' = overtaken,
           Outside(call'[c]) => \/ call'[c].kind = "replace" /\ restored'
                                \/ call'[c].kind = "noise" /\ (early' \/ Whole)
    PROVE  HInv'
<1>1. LockHeld' /\ MintsHeld' /\ RestoreSeen'
  BY DEF HInv, LockHeld, MintsHeld, RestoreSeen, Alone
<1>2. raced => raced'
  BY DEF BesideClear
<1>3. Whole' = Whole /\ row'["device"] = row["device"] /\ row'["seed"] = row["seed"]
  BY DEF PairSame, Whole
<1>4. NoneLoaded => NoneLoaded'
  BY DEF NoneLoaded, IdsKept
<1>5. ASSUME NEW d \in Call, Resolving(call'[d])
      PROVE  ReadGood(d)'
  <2>1. call'[d] = call[d] /\ ReadGood(d)
    BY <1>5 DEF Alone, InLock, HInv, ReadInv
  <2> QED
    BY <1>2, <1>3, <1>4, <2>1 DEF ReadGood, ReadKept, ReadPresent, Current
<1>6. ReadInv'
  BY <1>5 DEF ReadInv
<1> SUFFICES ASSUME ~raced'
             PROVE  ClearAlone' /\ LoadedWhole' /\ AfterAlone' /\ IdInv'
  BY <1>1, <1>6 DEF HInv
<1>7. ~raced /\ \A d \in Call : ~Clearing(call[d])
  BY DEF BesideClear, Clearing, Running, Ended, IInv, RestOK, HistoryOK
<1>8. ClearAlone'
  BY <1>7 DEF ClearAlone, Alone
<1>9. LoadedWhole' /\ IdInv'
  BY <1>3, <1>7 DEF HInv, LoadedWhole, IdInv, IdsKept, Alone
<1>10. AfterAlone'
  BY <1>3, <1>4, <1>7 DEF HInv, AfterAlone, Alone, InLock
<1> QED
  BY <1>8, <1>9, <1>10

LEMMA StartsHistory ==
    ASSUME IInv, HInv, NEW c \in Call, NEW t \in Tab, Starts(c, t), ~ClearStart(c, t)
    PROVE  HInv'
<1>1. /\ PairSame /\ lock' = lock /\ BesideClear /\ (restored => restored') /\ call[c].pc = "idle"
      /\ (early => early') /\ overtaken' = overtaken
  <2>1. CASE IdentityStart(c, t)
    BY <2>1 DEF IdentityStart, PairSame, store, Next1
  <2>4. CASE NoiseStart(c, t)
    <3>1. early => early'
      BY <2>4, Zenon DEF NoiseStart
    <3> QED
      BY <2>4, <3>1 DEF NoiseStart, PairSame, store, Next1
  <2>2. CASE \E o \in Key : SealedStart(c, t, o)
    BY <2>2 DEF SealedStart, PairSame, store, Next1
  <2>3. CASE \E o \in {Old, c} : ReplaceStart(c, t, o)
    BY <2>3 DEF ReplaceStart, PairSame, store, Next1
  <2> QED
    BY <2>1, <2>2, <2>3, <2>4 DEF Starts
<1>2. tab \in [Tab -> TabType] /\ call \in [Call -> CallType]
  BY DEF IInv, TabInv, CallInv
<1>3. ASSUME NEW kind \in Kind, NEW o \in Key
      PROVE  /\ Made(c, kind, t, o) \in CallType /\ Made(c, kind, t, o).kind = kind
             /\ ~Made(c, kind, t, o).minting
  <2>1. Made(c, kind, t, o) \in CallType /\ Made(c, kind, t, o).kind = kind
    BY MadeShape
  <2>2. Made(c, kind, t, o).minting = FALSE
    BY DEF Made, IdleCall
  <2> QED
    BY <2>1, <2>2
<1>4. CASE IdentityStart(c, t)
  <2>1. /\ Alone(c) /\ call'[c].kind = "identity" /\ call'[c].pc = "lock" /\ ~call'[c].minting
    BY <1>2, <1>4 DEF IdentityStart, Alone, Made, IdleCall
  <2> QED
    BY <1>1, <1>4, <2>1, Starting DEF IdentityStart, IdsKept, Outside, Clearing, InLock, Resolving, After, KekPc
<1>5. CASE \E o \in Key : SealedStart(c, t, o)
  <2> PICK o \in Key : SealedStart(c, t, o)
    BY <1>5
  <2> DEFINE new == Made(c, "sealed", t, o)
  <2>0. new \in CallType /\ new.kind = "sealed" /\ ~new.minting
    BY <1>3 DEF Kind
  <2>1. /\ Alone(c) /\ call'[c].kind = "sealed" /\ call'[c].pc \in {"sealedGot", "sealedJoin", "lock"}
        /\ ~call'[c].minting
    <3> DEFINE joins(f) == [new EXCEPT !.pc = "sealedJoin", !.mark = f]
               takes(v) == [new EXCEPT !.pc = "sealedGot", !.got.id = v]
               asks     == [new EXCEPT !.pc = "lock"]
    <3>1. \/ \E f : call' = [call EXCEPT ![c] = joins(f)]
          \/ \E v : call' = [call EXCEPT ![c] = takes(v)]
          \/ call' = [call EXCEPT ![c] = asks]
      BY DEF SealedStart
    <3> HIDE DEF new
    <3>2. \A v : takes(v).kind = "sealed" /\ takes(v).pc = "sealedGot" /\ ~takes(v).minting
      BY <2>0 DEF CallType
    <3>3. \A f : joins(f).kind = "sealed" /\ joins(f).pc = "sealedJoin" /\ ~joins(f).minting
      BY <2>0 DEF CallType
    <3>4. asks.kind = "sealed" /\ asks.pc = "lock" /\ ~asks.minting
      BY <2>0 DEF CallType
    <3> HIDE DEF joins, takes, asks
    <3> QED
      BY <1>2, <3>1, <3>2, <3>3, <3>4 DEF Alone
  <2>2. UNCHANGED tab \/ tab' = [tab EXCEPT ![t].inflight = c]
    BY DEF SealedStart
  <2>3. IdsKept
    BY <1>2, <2>2 DEF IdsKept, TabType
  <2> QED
    BY <1>1, <2>1, <2>3, Starting DEF Outside, Clearing, InLock, Resolving, After, SealingPc, KekPc
<1>6. CASE NoiseStart(c, t)
  <2>1. Alone(c) /\ call'[c] = AskKek(Made(c, "noise", t, None), tab[t].kek) /\ UNCHANGED tab
        /\ (early' \/ Whole)
    BY <1>2, <1>6 DEF NoiseStart, Alone
  <2>2. call'[c].kind = "noise" /\ ~call'[c].minting /\ call'[c].pc \in {"kekRow", "noiseRow"}
    BY <1>3, <2>1, AskLeaves, Numbers DEF Same, AfterKek, Kind
  <2> QED
    BY <1>1, <2>1, <2>2, Starting DEF IdsKept, Clearing, InLock, Resolving, After
<1>7. CASE \E o \in {Old, c} : ReplaceStart(c, t, o)
  <2> PICK o \in {Old, c} : ReplaceStart(c, t, o)
    BY <1>7
  <2>1. Alone(c) /\ call'[c] = AskKek(Made(c, "replace", t, o), None) /\ restored'
    BY <1>2 DEF ReplaceStart, Alone
  <2>2. call'[c].kind = "replace" /\ ~call'[c].minting /\ call'[c].pc \in {"kekRow", "pairSave"}
    BY <1>3, <2>1, AskLeaves, Numbers DEF Same, AfterKek, Kind
  <2>3. IdsKept
    BY <1>2 DEF ReplaceStart, IdsKept, TabType
  <2> QED
    BY <1>1, <2>1, <2>2, <2>3, Starting DEF Clearing, InLock, Resolving, After
<1> QED
  BY <1>4, <1>5, <1>6, <1>7 DEF Starts

\* What a forget finds when it races nothing.
LEMMA ClearStarts ==
    ASSUME IInv, NEW c \in Call, NEW t \in Tab, ClearStart(c, t)
    PROVE  /\ call[c].pc = "idle" /\ Alone(c) /\ call'[c].kind = "clear" /\ call'[c].pc = "clearSeed"
           /\ ~call'[c].minting /\ call'[c].tab = t /\ row'["device"] = NoRow /\ row'["sealed"] = row["sealed"]
           /\ UNCHANGED <<kek, legacy, lock, restored, sealers, mistaken, overtaken, early>>
           /\ row'["seed"] = row["seed"] /\ (raced => raced')
           /\ tab'[t].id = None /\ tab'[t].kek = None /\ tab'[t].sealed = NoSealed
           /\ tab'[t].epoch = tab[t].epoch + 1 /\ tab'[t].memo = tab[t].memo /\ tab'[t].held = tab[t].held
           /\ \A u \in Tab \ {t} : tab'[u] = tab[u]
           /\ ~raced' => /\ ~raced
                         /\ \A d \in Call : Ended(call[d])
                         /\ \A u \in Tab \ {t} : tab[u].id = None /\ tab[u].kek = None /\ tab[u].memo = {}
                                                 /\ tab[u].sealed = NoSealed
<1>1. tab \in [Tab -> TabType] /\ call \in [Call -> CallType] /\ row \in [RowName -> Row]
  BY DEF IInv, TabInv, CallInv, StoreInv
<1> DEFINE m == Made(c, "clear", t, None)
           x == [tab[t] EXCEPT !.id = None, !.kek = None, !.noise = None, !.sealed = NoSealed, !.epoch = @ + 1]
<1>2. m \in CallType /\ m.kind = "clear" /\ ~m.minting /\ m.tab = t
  <2>1. m \in CallType /\ m.kind = "clear" /\ m.tab = t
    BY MadeShape, Numbers DEF Kind
  <2>2. m.minting = FALSE
    BY DEF Made, IdleCall
  <2> QED
    BY <2>1, <2>2
<1>3. /\ call' = [call EXCEPT ![c] = [m EXCEPT !.pc = "clearSeed"]] /\ tab' = [tab EXCEPT ![t] = x]
      /\ row' = [row EXCEPT !["device"] = NoRow] /\ call[c].pc = "idle"
      /\ UNCHANGED <<kek, legacy, lock, restored, sealers, mistaken, overtaken, early>> /\ (raced => raced')
  BY DEF ClearStart, Next1
<1>4. /\ x.id = None /\ x.kek = None /\ x.sealed = NoSealed /\ x.epoch = tab[t].epoch + 1
      /\ x.memo = tab[t].memo /\ x.held = tab[t].held
  BY <1>1 DEF TabType
<1>5. ASSUME ~raced'
      PROVE  /\ ~raced
             /\ \A d \in Call : Ended(call[d])
             /\ \A u \in Tab \ {t} : tab[u].id = None /\ tab[u].kek = None /\ tab[u].memo = {}
                                     /\ tab[u].sealed = NoSealed
  <2>1. ~raced /\ (\A d \in Call : ~Running(d)) /\ \A u \in Tab \ {t} : ~Warm(u)
    BY <1>5 DEF ClearStart, IInv, RestOK, HistoryOK
  <2>2. ASSUME NEW u \in Tab \ {t}
        PROVE  tab[u].id = None /\ tab[u].kek = None /\ tab[u].memo = {} /\ tab[u].sealed = NoSealed
    <3> DEFINE y == [tab[u] EXCEPT !.epoch = 0, !.held = {}]
    <3>1. y.id = tab[u].id /\ y.kek = tab[u].kek /\ y.memo = tab[u].memo /\ y.sealed = tab[u].sealed
      BY <1>1 DEF TabType
    <3>2. y = FreshTab
      BY <2>1 DEF Warm
    <3> HIDE DEF y
    <3>3. FreshTab.id = None /\ FreshTab.kek = None /\ FreshTab.memo = {} /\ FreshTab.sealed = NoSealed
      BY DEF FreshTab
    <3> QED
      BY <3>1, <3>2, <3>3
  <2> QED
    BY <2>1, <2>2 DEF Running, Ended
<1> HIDE DEF m, x
<1>6. Alone(c) /\ call'[c].kind = "clear" /\ call'[c].pc = "clearSeed" /\ ~call'[c].minting /\ call'[c].tab = t
  BY <1>1, <1>2, <1>3 DEF Alone, CallType
<1> QED
  BY <1>1, <1>3, <1>4, <1>5, <1>6 DEF RowName

LEMMA ClearStartHistory ==
    ASSUME IInv, HInv, NEW c \in Call, NEW t \in Tab, ClearStart(c, t)
    PROVE  HInv'
<1>1. /\ Alone(c) /\ call'[c].kind = "clear" /\ call'[c].pc = "clearSeed" /\ ~call'[c].minting
      /\ row'["device"] = NoRow /\ row'["seed"] = row["seed"] /\ UNCHANGED <<lock, restored, overtaken>>
  BY ClearStarts
<1>2. ~InLock(call'[c]) /\ ~Outside(call'[c]) /\ ~Resolving(call'[c])
  BY <1>1 DEF InLock, Resolving, After, Outside
<1>3. LockHeld' /\ MintsHeld' /\ RestoreSeen'
  BY <1>1, <1>2 DEF HInv, LockHeld, MintsHeld, RestoreSeen, Alone
<1>4. ASSUME NEW d \in Call, Resolving(call'[d])
      PROVE  ReadGood(d)'
  <2>1. call'[d] = call[d] /\ ReadGood(d) /\ ~Ended(call[d])
    BY <1>1, <1>2, <1>4 DEF Alone, HInv, ReadInv, Resolving, Ended, KekPc
  <2>2. raced'
    BY <2>1, ClearStarts
  <2> QED
    BY <1>1, <2>1, <2>2 DEF ReadGood, ReadKept
<1>5. ReadInv'
  BY <1>4 DEF ReadInv
<1>6. ASSUME ~raced'
      PROVE  ClearAlone' /\ LoadedWhole' /\ AfterAlone' /\ IdInv'
  <2>1. /\ \A d \in Call \ {c} : Ended(call'[d])
        /\ \A u \in Tab : tab'[u].id = None /\ tab'[u].kek = None
    BY <1>1, <1>6, ClearStarts DEF Alone
  <2>2. \A d \in Call : ~Outside(call'[d]) /\ call'[d].pc \notin After
    BY <1>1, <1>2, <2>1 DEF Outside, After, Ended
  <2>3. ClearAlone'
    BY <1>1, <2>1 DEF ClearAlone, Clearing
  <2> QED
    BY <2>1, <2>2, <2>3 DEF LoadedWhole, AfterAlone, IdInv
<1> QED
  BY <1>3, <1>5, <1>6 DEF HInv

-----------------------------------------------------------------------------
(* The theorems of the lock *)

LEMMA InitHInv == ASSUME Init PROVE HInv
<1>1. call = [c \in Call |-> IdleCall] /\ IdleCall.pc = "idle" /\ IdleCall.minting = FALSE /\ overtaken = {}
  BY DEF Init, IdleCall
<1>2. \A c \in Call : /\ ~InLock(call[c]) /\ ~Resolving(call[c]) /\ ~Outside(call[c]) /\ ~Clearing(call[c])
                      /\ ~call[c].minting /\ call[c].pc \notin After
  BY <1>1 DEF InLock, Resolving, Outside, Clearing, Ended, After, SealingPc, KekPc
<1>3. PICK name \in Layouts, settled \in SUBSET Tab : Layout(name, settled)
  BY DEF Init
<1>4. /\ tab = [t \in Tab |-> IF t \in settled THEN SettledTab ELSE FreshTab]
      /\ settled # {} => name \in {"current", "sealed"}
      /\ name \in {"current", "sealed"} => row["device"] = Wrapped(Old, Old, None) /\ row["seed"] = Wrapped(Old, Old, None)
  BY <1>3 DEF Layout, RowName
<1>5. SettledTab.id = Old /\ FreshTab.id = None /\ Wrapped(Old, Old, None).id = Old /\ NoRow.id = None /\ Old # None
  BY Numbers DEF SettledTab, FreshTab, Wrapped, NoRow
<1>6. \A t \in Tab : tab[t].id # None => Whole /\ tab[t].id = row["device"].id
  BY <1>4, <1>5 DEF Whole
<1> QED
  BY <1>1, <1>2, <1>6 DEF HInv, LockHeld, MintsHeld, RestoreSeen, ClearAlone, LoadedWhole, AfterAlone, ReadInv, IdInv

LEMMA StepHInv ==
    ASSUME IInv, HInv, [Next]_vars
    PROVE  HInv'
<1>1. CASE UNCHANGED vars
  BY <1>1 DEF vars, store, hist, HInv, LockHeld, MintsHeld, RestoreSeen, ClearAlone, LoadedWhole, AfterAlone,
              ReadInv, ReadGood, ReadKept, ReadPresent, NoneLoaded, Current, IdInv, Whole
<1>2. ASSUME NEW c \in Call, NEW t \in Tab, Starts(c, t)
      PROVE  HInv'
  BY <1>2, StartsHistory, ClearStartHistory
<1>3. ASSUME NEW c \in Call, Identity(c)
      PROVE  HInv'
  BY <1>3, LockedHistory, DeviceLoadedHistory, UnwrapHistory, SeedLoadedHistory, RecoverHistory,
     RecoveredHistory, GeneratedHistory, PersistHistory, AfterHistory DEF Identity
<1>4. ASSUME NEW c \in Call, Noise(c) \/ Restore(c)
      PROVE  HInv'
  BY <1>4, OutsideHistory, PairSaveHistory DEF Restore
<1> QED
  BY <1>1, <1>2, <1>3, <1>4, KekHistory, SealedHistory, ClearStepHistory, FaultHistory, ReloadHistory DEF Next

LEMMA History == Spec => [](IInv /\ HInv)
<1>1. Init => IInv /\ HInv
  BY InitIInv, InitHInv
<1>2. IInv /\ HInv /\ [Next]_vars => (IInv /\ HInv)'
  BY StepIInv, StepHInv
<1> QED
  BY <1>1, <1>2, PTL DEF Spec

\* As long as nothing was forgotten in a race and no backup restored, every
\* page that has an identity has the stored one, whichever calls, faults and
\* reloads came between (withIdentityLock).
THEOREM OneForAll == Spec => []OneIdentity
<1>1. HInv => OneIdentity
  BY DEF HInv, IdInv, OneIdentity
<1> QED
  BY <1>1, History, PTL

\* A mint never overwrites an identity that is whole, save one that a restore
\* stored while it ran, and none because it could not be opened, whatever
\* forgets, other pages, faults and reloads did (mintIdentityWithStorageFallback
\* after a failed unwrapIdentityWith).
THEOREM KeptWhole == Spec => IdentityKept
<1>1. IInv /\ HInv => \A c \in Call :
          /\ c \notin overtaken
          /\ call[c].pc = "persist" /\ call'[c].pc = "persisted"
          => ~Whole
  <2> SUFFICES ASSUME IInv, HInv, NEW c \in Call, c \notin overtaken, call[c].pc = "persist"
               PROVE  ~Whole
    OBVIOUS
  <2>1. Resolving(call[c])
    BY IdentityResolves
  <2> QED
    BY <2>1 DEF HInv, ReadInv, ReadGood, ReadShape, ReadKept, Whole
<1> QED
  BY <1>1, History, PTL DEF IdentityKept

-----------------------------------------------------------------------------
(* The stored identity can be opened *)

\* The stored pair is wrapped under the legacy key.
Legacy == row["device"].kek = legacy

\* A call that asks for the KEK comes to adopt the legacy key or to mint one
\* only where that locks nothing out; with nothing stored, what it has found is
\* what is stored.
KekSafe(k) ==
    /\ k.pc = "kekRow" /\ k.got.id = None => row["device"] = NoRow \/ Legacy
    /\ k.pc = "legacyRow" => /\ k.got.id \in {None, legacy}
                             /\ row["device"] = NoRow \/ Legacy
    /\ k.pc = "kekSaved" => k.kek # None
    /\ row["device"] = NoRow => /\ k.pc = "kekRow" => k.got.id = kek
                                /\ k.pc = "legacyRow" => kek = None
                                /\ k.pc = "kekSaved" => k.kek \in {kek, legacy}

\* A call that resolves the identity, in a page that caches the KEK x: where
\* there is no seed, it mints under the key that opened what is stored.
ReadSafe(k, x) ==
    /\ k.pc = "recoverKey" => k.got.id \in {None, legacy}
    /\ k.pc = "recoverSeed" => k.kek = legacy /\ k.stored.kek = legacy /\ k.stored # NoRow /\ k.kek # None
    /\ k.pc = "persist" /\ k.stored = NoRow => k.kek \in {kek, legacy} \ {None}
    /\ k.stored # NoRow /\ row["seed"] = NoRow =>
          /\ k.pc \in {"unwrap", "seedRow"} => k.kek = x
          /\ k.pc = "seedRow" => k.kek = k.stored.kek
          /\ k.pc \in {"recovered", "generate"} => x = legacy
          /\ k.minting => k.pc = "persist" /\ k.kek = legacy

Opens ==
    /\ row["device"] # NoRow => row["device"].kek \in {kek, legacy} \ {None}
    /\ row["device"] # NoRow /\ row["seed"] = NoRow => Legacy
    /\ row["device"] = NoRow => \A t \in Tab : tab[t].kek \in {None, kek, legacy}
    /\ \A c \in Call : KekSafe(call[c])
    /\ \A c \in Call : Resolving(call[c]) => ReadSafe(call[c], T(c).kek)

OpenInv == ~raced /\ ~restored /\ ~early => Opens

\* A harmless call does not ask for the KEK.
LEMMA HarmlessKek ==
    ASSUME NEW k, Shape(k), Harmless(k) \/ Clearing(k)
    PROVE  k.pc \notin KekPc
<1> SUFFICES ASSUME k.pc \in KekPc
             PROVE  FALSE
  OBVIOUS
<1>1. ~Ended(k) /\ k.kind \in {"identity", "sealed", "noise", "replace"} /\ k.kind # "clear"
  BY DEF Shape, KekPc, Ended, PcOf, ClearNext, CallType, Kind
<1> QED
  BY <1>1 DEF Harmless, InLock, Resolving, SealingPc, Outside, Clearing

\* With nothing stored, who asks for the KEK has the lock.
LEMMA KekInLock ==
    ASSUME IInv, HInv, ~raced, ~restored, ~early, NEW c \in Call, call[c].pc \in KekPc, ~Whole
    PROVE  InLock(call[c]) /\ lock = c
<1>1. ~Ended(call[c]) /\ call[c].kind \in {"identity", "sealed", "noise", "replace"}
  BY Suspended DEF KekPc, Ended, PcOf, ClearNext, CallType, Kind
<1>2. ~Outside(call[c])
  BY DEF HInv, LoadedWhole
<1> QED
  BY <1>1, <1>2 DEF Outside, InLock, Resolving, SealingPc, HInv, LockHeld

\* What step of call c, which goes on, leaves the stored identity open.
KekKept(c) ==
    /\ legacy' = legacy
    /\ kek' = kek \/ (row["device"] = NoRow /\ InLock(call[c]) /\ kek = None) \/ (row["device"] # NoRow /\ Legacy)
    /\ \A t \in Tab : \/ tab'[t].kek = tab[t].kek
                      \/ /\ InLock(call[c]) \/ Whole
                         /\ row["device"] = NoRow => tab'[t].kek \in {None, kek', legacy}

LEMMA OpenKept ==
    ASSUME IInv, IInv', HInv, OpenInv, NEW c \in Call, Proceeds(c),
           ~raced /\ ~restored /\ ~early => /\ KekKept(c) /\ KekSafe(call[c])'
                                            /\ Resolving(call'[c]) => ReadSafe(call[c], T(c).kek)'
    PROVE  OpenInv'
<1> SUFFICES ASSUME ~raced, ~restored, ~early
             PROVE  Opens'
  BY DEF OpenInv, Proceeds
<1> USE DEF OpenInv
<1>1. row'["device"] = row["device"] /\ row'["seed"] = row["seed"] /\ Whole' = Whole /\ Legacy' = Legacy
  BY DEF Proceeds, PairSame, KekKept, Legacy, Whole
<1>2. ASSUME InLock(call[c])
      PROVE  \A d \in Call \ {c} : ~InLock(call[d])
  BY <1>2 DEF HInv, LockHeld
<1>3. ASSUME NEW d \in Call \ {c}
      PROVE  KekSafe(call[d])'
  <2>1. CASE Harmless(call'[d])
    <3>1. call'[d].pc \notin KekPc
      BY <2>1, HarmlessKek DEF IInv, CallInv
    <3> QED
      BY <3>1 DEF KekSafe, KekPc
  <2>2. CASE call'[d] = call[d]
    <3>1. KekSafe(call[d])
      BY DEF Opens
    <3>2. CASE kek' = kek
      BY <1>1, <2>2, <3>1, <3>2 DEF KekSafe, KekKept
    <3>3. CASE row["device"] # NoRow
      BY <1>1, <2>2, <3>1, <3>3 DEF KekSafe, KekKept
    <3>4. CASE row["device"] = NoRow /\ InLock(call[c])
      <4>1. call[d].pc \notin KekPc
        BY <1>2, <3>4, KekInLock DEF Whole
      <4> QED
        BY <2>2, <4>1 DEF KekSafe, KekPc
    <3> QED
      BY <3>2, <3>3, <3>4 DEF KekKept
  <2> QED
    BY <2>1, <2>2 DEF Proceeds
<1>4. ASSUME NEW d \in Call \ {c}, Resolving(call'[d])
      PROVE  ReadSafe(call[d], T(d).kek)'
  <2>1. call'[d] = call[d] /\ Resolving(call[d]) /\ InLock(call[d])
    BY <1>4 DEF Proceeds, Harmless, InLock
  <2>2. ReadSafe(call[d], T(d).kek) /\ ReadSane(call[d]) /\ ~InLock(call[c])
    BY <1>2, <2>1, Sane DEF Opens
  <2>3. call[d].tab \in Tab
    BY <2>1, Suspended DEF Resolving, Ended, KekPc
  <2>4. T(d).kek' = T(d).kek \/ Whole
    BY <2>1, <2>2, <2>3 DEF KekKept, T
  <2> QED
    BY <1>1, <2>1, <2>2, <2>4 DEF ReadSafe, KekKept, Whole, ReadSane
<1>5. /\ row'["device"] # NoRow => row'["device"].kek \in {kek', legacy'} \ {None}
      /\ row'["device"] # NoRow /\ row'["seed"] = NoRow => Legacy'
  BY <1>1 DEF Opens, KekKept, Legacy
<1>6. row'["device"] = NoRow => \A t \in Tab : tab'[t].kek \in {None, kek', legacy'}
  BY <1>1 DEF Opens, KekKept
<1> QED
  BY <1>3, <1>4, <1>5, <1>6 DEF Opens

KeysSame == UNCHANGED <<kek, legacy>> /\ \A t \in Tab : tab'[t].kek = tab[t].kek

\* A call goes on to where it neither asks for the KEK nor resolves anything.
LEMMA OpenQuiet ==
    ASSUME IInv, IInv', HInv, OpenInv, NEW c \in Call, Proceeds(c), KeysSame,
           call'[c].pc \notin KekPc, ~Resolving(call'[c])
    PROVE  OpenInv'
<1>1. KekSafe(call[c])'
  BY DEF KekSafe, KekPc
<1> QED
  BY <1>1, OpenKept DEF KeysSame, KekKept

\* A call goes on to ask for the KEK, or with the cached one.
LEMMA AskSafe ==
    ASSUME Opens, NEW k \in CallType, k.kind \in {"identity", "sealed", "noise", "replace"}, NEW cached,
           UNCHANGED <<kek, legacy, row>>, NEW c \in Call, call'[c] = AskKek(k, cached)
    PROVE  KekSafe(call[c])'
<1> DEFINE r == AskKek(k, cached)
<1>1. r.pc = AfterKek(k) \/ (r.pc = "kekRow" /\ r.got.id = kek)
  BY AskLeaves DEF Wrapped
<1>2. AfterKek(k) \notin KekPc
  BY DEF AfterKek, KekPc
<1> HIDE DEF r
<1>3. KekSafe(r)
  BY <1>1, <1>2 DEF KekSafe, KekPc, Opens, Legacy
<1> QED
  BY <1>3 DEF r, KekSafe, Legacy

\* A call gets the KEK, or goes on to the next place where one may be.
LEMMA KekOpen ==
    ASSUME IInv, IInv', HInv, OpenInv, NEW c \in Call, Kek(c)
    PROVE  OpenInv'
<1>1. /\ Proceeds(c) /\ UNCHANGED <<legacy, row>> /\ call[c].pc \in KekPc /\ tab \in [Tab -> TabType]
      /\ ~Ended(call[c]) /\ call[c].kind \in {"identity", "sealed", "noise", "replace"}
      /\ call[c] \in CallType /\ T(c) = tab[call[c].tab] /\ call[c].tab \in Tab
  BY KekHistory, KekCall DEF Kek, KekLoaded, KekAdopt, KekMint, KekSaved, KekPc, store, IInv, TabInv
<1> SUFFICES ASSUME ~raced, ~restored, ~early
             PROVE  KekKept(c) /\ KekSafe(call[c])' /\ (Resolving(call'[c]) => ReadSafe(call[c], T(c).kek)')
  BY <1>1, OpenKept
<1>2. Opens /\ KekSafe(call[c]) /\ (Resolving(call[c]) => ReadSafe(call[c], T(c).kek) /\ ReadSane(call[c]))
  BY Sane DEF OpenInv, Opens
<1>3. InLock(call[c]) \/ Whole
  BY <1>1, KekInLock
<1>4. row["device"] = NoRow => InLock(call[c])
  BY <1>3 DEF Whole
<1>5. ASSUME Same(call'[c], call[c]), Resolving(call'[c])
      PROVE  /\ Resolving(call[c]) /\ (call[c].stored = NoRow <=> row["device"] = NoRow)
             /\ call[c].stored # NoRow /\ row["seed"] = NoRow => ~call[c].minting
  <2>1. Resolving(call[c])
    BY <1>1, <1>5 DEF Resolving, Same
  <2> QED
    BY <1>1, <1>2, <2>1 DEF ReadSane, ReadSafe, KekPc
<1>6. ASSUME NEW key, key # None, HasKek(c, key), tab' = [tab EXCEPT ![call[c].tab].kek = key], kek' = kek,
             row["device"] = NoRow => key \in {kek, legacy}
      PROVE  KekKept(c) /\ KekSafe(call[c])' /\ (Resolving(call'[c]) => ReadSafe(call[c], T(c).kek)')
  <2>1. Same(call'[c], call[c]) /\ call'[c].pc = AfterKek(call[c]) /\ call'[c].kek = key
    BY <1>6, HasKekLeaves
  <2>2. AfterKek(call[c]) \in {"persist", "unwrap", "sealedRow", "noiseRow", "pairSave"}
    BY <1>1 DEF AfterKek
  <2>3. T(c).kek' = key
    BY <1>1, <1>6, <2>1 DEF T, Same, TabType
  <2>4. KekKept(c)
    BY <1>1, <1>3, <1>6 DEF KekKept, TabType
  <2>5. KekSafe(call[c])'
    BY <2>1, <2>2 DEF KekSafe
  <2>6. ASSUME Resolving(call'[c])
        PROVE  ReadSafe(call[c], T(c).kek)'
    <3>1. /\ Resolving(call[c]) /\ (call[c].stored = NoRow <=> row["device"] = NoRow)
          /\ call[c].stored # NoRow /\ row["seed"] = NoRow => ~call[c].minting
      BY <1>5, <2>1, <2>6
    <3> QED
      BY <1>1, <1>6, <2>1, <2>2, <2>3, <3>1 DEF ReadSafe, Same
  <2> QED
    BY <2>4, <2>5, <2>6
<1>7. ASSUME Same(call'[c], call[c]), call'[c].pc \in {"legacyRow", "kekSaved"}, UNCHANGED tab,
             KekSafe(call[c])', kek' = kek \/ (row["device"] = NoRow /\ kek = None) \/ (row["device"] # NoRow /\ Legacy)
      PROVE  KekKept(c) /\ KekSafe(call[c])' /\ (Resolving(call'[c]) => ReadSafe(call[c], T(c).kek)')
  <2>1. KekKept(c)
    BY <1>1, <1>4, <1>7 DEF KekKept
  <2>2. ASSUME Resolving(call'[c])
        PROVE  ReadSafe(call[c], T(c).kek)'
    <3>1. call[c].stored # NoRow /\ row["seed"] = NoRow => ~call[c].minting
      BY <1>5, <1>7, <2>2
    <3> QED
      BY <1>1, <1>7, <3>1 DEF ReadSafe, Same
  <2> QED
    BY <1>7, <2>1, <2>2
<1>8. CASE KekLoaded(c)
  <2>1. CASE call[c].got.id # None
    BY <1>2, <1>6, <1>8, <2>1 DEF KekLoaded, KekSafe, store
  <2>2. CASE call[c].got.id = None
    <3>1. /\ Same(call'[c], call[c]) /\ call'[c].pc = "legacyRow" /\ call'[c].got.id = legacy
          /\ UNCHANGED <<tab, kek>> /\ call[c].pc = "kekRow"
      BY <1>8, <2>2, ReadLeaves DEF KekLoaded, Wrapped, store
    <3>2. KekSafe(call[c])'
      BY <1>1, <1>2, <2>2, <3>1 DEF KekSafe, Legacy
    <3> QED
      BY <1>7, <3>1, <3>2
  <2> QED
    BY <2>1, <2>2
<1>9. CASE KekAdopt(c) \/ KekMint(c)
  <2>1. /\ Same(call'[c], call[c]) /\ call'[c].pc = "kekSaved" /\ UNCHANGED tab /\ call[c].pc = "legacyRow"
        /\ call'[c].kek # None /\ call'[c].kek \in {kek', legacy} /\ kek' \in {kek, call'[c].kek}
    BY <1>1, <1>2, <1>9, Numbers DEF KekAdopt, KekMint, Same, KekSafe, IInv, CallInv, CallType
  <2>2. KekSafe(call[c])'
    BY <1>1, <2>1 DEF KekSafe
  <2> QED
    BY <1>2, <1>7, <2>1, <2>2 DEF KekSafe
<1>10. CASE KekSaved(c)
  <2>1. call[c].pc = "kekSaved" /\ HasKek(c, call[c].kek) /\ tab' = [tab EXCEPT ![call[c].tab].kek = call[c].kek]
        /\ kek' = kek
    BY <1>10 DEF KekSaved, store
  <2> QED
    BY <1>2, <1>6, <2>1 DEF KekSafe
<1> QED
  BY <1>8, <1>9, <1>10 DEF Kek


\* A call goes on to where it is harmless.
LEMMA OpenHarmless ==
    ASSUME IInv, IInv', HInv, OpenInv, NEW c \in Call, Proceeds(c), KeysSame, Harmless(call'[c])
    PROVE  OpenInv'
<1>1. call'[c].pc \notin KekPc
  BY HarmlessKek DEF IInv, CallInv
<1>2. ~Resolving(call'[c])
  BY DEF Harmless, InLock
<1> QED
  BY <1>1, <1>2, OpenQuiet

LEMMA OpenEnds ==
    ASSUME IInv, IInv', HInv, OpenInv, NEW c \in Call, Proceeds(c), KeysSame, Finish(c)
    PROVE  OpenInv'
  BY FinishLeaves, OpenHarmless

\* A call that resolves the identity finds the lock free, and what is stored.
LEMMA LockedOpen ==
    ASSUME IInv, IInv', HInv, OpenInv, NEW c \in Call, IdentityLocked(c)
    PROVE  OpenInv'
<1>1. UNCHANGED <<store, tab>> /\ call'[c].pc = "deviceRow" /\ Proceeds(c) /\ HInv'
  <2>1. call \in [Call -> CallType]
    BY DEF IInv, CallInv
  <2>2. UNCHANGED <<store, tab>> /\ call'[c].pc = "deviceRow"
    BY <2>1 DEF IdentityLocked, CallType
  <2> QED
    BY <2>2, LockedHistory
<1>2. KeysSame
  BY <1>1 DEF KeysSame, store
<1>3. KekSafe(call[c])'
  BY <1>1 DEF KekSafe
<1>4. ASSUME Resolving(call'[c])
      PROVE  ReadSafe(call[c], T(c).kek)'
  BY <1>1, <1>4 DEF HInv, ReadInv, ReadGood, ReadShape, ReadSafe, KekPc
<1> QED
  BY <1>1, <1>2, <1>3, <1>4, OpenKept DEF KeysSame, KekKept

\* What is known of a call that resolves the identity.
LEMMA ResolvingOpen ==
    ASSUME IInv, HInv, OpenInv, ~raced, ~restored, ~early, NEW c \in Call, Resolving(call[c])
    PROVE  /\ Opens /\ ReadSafe(call[c], T(c).kek) /\ ReadSane(call[c]) /\ call[c].stored = row["device"]
           /\ row["device"] # NoRow /\ row["seed"] = NoRow => legacy # None /\ call[c].stored.kek = legacy
  BY Sane DEF OpenInv, Opens, Current, Legacy

LEMMA DeviceLoadedOpen ==
    ASSUME IInv, IInv', HInv, OpenInv, NEW c \in Call, DeviceLoaded(c)
    PROVE  OpenInv'
<1>1. UNCHANGED <<store, tab>> /\ call[c].pc = "deviceRow" /\ Proceeds(c)
  BY DeviceLoadedHistory DEF DeviceLoaded
<1>2. Resolving(call[c]) /\ call[c] \in CallType /\ call[c].kind = "identity" /\ KeysSame
  BY <1>1, IdentityResolves DEF Resolving, KeysSame, store
<1>3. call'[c] = IF call[c].stored = NoRow THEN [call[c] EXCEPT !.pc = "generate"]
                                           ELSE AskKek(call[c], T(c).kek)
  BY DEF DeviceLoaded, IInv, CallInv
<1> SUFFICES ASSUME ~raced, ~restored, ~early
             PROVE  KekSafe(call[c])' /\ (Resolving(call'[c]) => ReadSafe(call[c], T(c).kek)')
  BY <1>1, <1>2, OpenKept DEF KeysSame, KekKept
<1>4. Opens /\ ReadSane(call[c]) /\ ~call[c].minting
  BY <1>1, <1>2, ResolvingOpen DEF ReadSane, ReadShape, KekPc
<1>5. CASE call[c].stored = NoRow
  <2>1. call'[c].pc = "generate" /\ call'[c].stored = NoRow
    BY <1>2, <1>3, <1>5 DEF CallType
  <2> QED
    BY <2>1 DEF KekSafe, ReadSafe
<1>6. CASE call[c].stored # NoRow
  <2>1. call'[c] = AskKek(call[c], T(c).kek) /\ UNCHANGED <<kek, legacy, row>>
    BY <1>1, <1>3, <1>6 DEF store
  <2>2. KekSafe(call[c])'
    BY <1>2, <1>4, <2>1, AskSafe
  <2>3. /\ Same(call'[c], call[c])
        /\ call'[c].pc = "kekRow" \/ (call'[c].pc = "unwrap" /\ call'[c].kek = T(c).kek)
    BY <1>2, <1>4, <2>1, AskLeaves DEF AfterKek
  <2>4. T(c).kek' = T(c).kek
    BY <1>1, <2>3 DEF T, Same
  <2>5. ReadSafe(call[c], T(c).kek)'
    BY <1>4, <1>6, <2>3, <2>4 DEF ReadSafe, Same
  <2> QED
    BY <2>2, <2>5
<1> QED
  BY <1>5, <1>6

\* The stored pair is unwrapped, and its seed read.
LEMMA UnwrapOpen ==
    ASSUME IInv, IInv', HInv, OpenInv, NEW c \in Call, Unwrap(c)
    PROVE  OpenInv'
<1>1. UNCHANGED <<store, tab>> /\ call[c].pc = "unwrap" /\ Proceeds(c)
  BY UnwrapHistory DEF Unwrap
<1>2. Resolving(call[c]) /\ KeysSame
  BY <1>1, IdentityResolves DEF KeysSame, store
<1>3. /\ Same(call'[c], call[c]) /\ call'[c].kek = call[c].kek
      /\ \/ call'[c].pc = "seedRow" /\ call[c].stored.kek = call[c].kek
         \/ call'[c].pc = "recoverKey" /\ call'[c].got.id = legacy
  BY ReadLeaves DEF Unwrap, Wrapped
<1>4. T(c).kek' = T(c).kek
  BY <1>1, <1>3 DEF T, Same
<1> SUFFICES ASSUME ~raced, ~restored, ~early
             PROVE  KekSafe(call[c])' /\ (Resolving(call'[c]) => ReadSafe(call[c], T(c).kek)')
  BY <1>1, <1>2, OpenKept DEF KeysSame, KekKept
<1>5. ReadSafe(call[c], T(c).kek) /\ ~call[c].minting
  BY <1>1, <1>2, ResolvingOpen DEF ReadSane, ReadShape, KekPc
<1>6. KekSafe(call[c])'
  BY <1>3 DEF KekSafe
<1>7. ReadSafe(call[c], T(c).kek)'
  BY <1>1, <1>3, <1>4, <1>5 DEF ReadSafe, Same, store
<1> QED
  BY <1>6, <1>7

\* A call goes on to generate where there is no seed, with the legacy key.
LEMMA GenerateOpen ==
    ASSUME IInv, IInv', HInv, OpenInv, NEW c \in Call, Proceeds(c), UNCHANGED <<store, tab>>,
           Resolving(call[c]), call[c].pc \in {"seedRow", "recovered"}, Goto(c, "generate")
    PROVE  OpenInv'
<1>1. Same(call'[c], call[c]) /\ call'[c].pc = "generate" /\ KeysSame
  BY GotoLeaves DEF KeysSame, store
<1>2. T(c).kek' = T(c).kek
  BY <1>1 DEF T, Same
<1> SUFFICES ASSUME ~raced, ~restored, ~early
             PROVE  KekSafe(call[c])' /\ (Resolving(call'[c]) => ReadSafe(call[c], T(c).kek)')
  BY <1>1, OpenKept DEF KeysSame, KekKept
<1>3. /\ ReadSafe(call[c], T(c).kek) /\ ~call[c].minting
      /\ call[c].stored # NoRow /\ row["seed"] = NoRow => call[c].stored.kek = legacy
  BY ResolvingOpen DEF ReadSane, ReadShape, KekPc
<1>4. KekSafe(call[c])'
  BY <1>1 DEF KekSafe
<1>5. ReadSafe(call[c], T(c).kek)'
  BY <1>1, <1>2, <1>3 DEF ReadSafe, Same, store
<1> QED
  BY <1>4, <1>5

\* A call goes on to try the legacy key.
LEMMA RecoverOpen ==
    ASSUME IInv, IInv', HInv, OpenInv, NEW c \in Call, Proceeds(c), UNCHANGED <<store, tab>>,
           Resolving(call[c]), ~call[c].minting, Read(c, "recoverKey", Wrapped(legacy, None, None))
    PROVE  OpenInv'
<1>1. Same(call'[c], call[c]) /\ call'[c].pc = "recoverKey" /\ call'[c].got.id = legacy /\ KeysSame
  BY ReadLeaves DEF KeysSame, store, Wrapped
<1>2. KekSafe(call[c])'
  BY <1>1 DEF KekSafe
<1>3. ReadSafe(call[c], T(c).kek)'
  BY <1>1 DEF ReadSafe, Same, store
<1> QED
  BY <1>1, <1>2, <1>3, OpenKept DEF KeysSame, KekKept

LEMMA ResolvedKeys ==
    ASSUME IInv, NEW c \in Call, ~Ended(call[c]), NEW id, Resolve(c, id), UNCHANGED store
    PROVE  KeysSame /\ Finish(c)
<1>1. T(c) \in TabType /\ call[c].tab \in Tab /\ T(c) = tab[call[c].tab] /\ tab \in [Tab -> TabType]
  BY Suspended DEF IInv, TabInv
<1> QED
  BY <1>1 DEF Resolve, KeysSame, TabType, store

LEMMA SeedLoadedOpen ==
    ASSUME IInv, IInv', HInv, OpenInv, NEW c \in Call, SeedLoaded(c)
    PROVE  OpenInv'
<1>1. UNCHANGED store /\ call[c].pc = "seedRow" /\ Proceeds(c)
  BY SeedLoadedHistory DEF SeedLoaded
<1>2. Resolving(call[c]) /\ ~Ended(call[c])
  BY <1>1, IdentityResolves
<1>3. CASE Resolve(c, call[c].stored.id)
  BY <1>1, <1>2, <1>3, ResolvedKeys, OpenEnds
<1>4. CASE Goto(c, "generate") /\ UNCHANGED <<lock, tab>>
  BY <1>1, <1>2, <1>4, GenerateOpen
<1>5. CASE Read(c, "recoverKey", Wrapped(legacy, None, None)) /\ UNCHANGED <<lock, tab>>
  <2>1. ~call[c].minting
    BY <1>1, <1>2 DEF HInv, ReadInv, ReadGood, ReadShape, KekPc
  <2> QED
    BY <1>1, <1>2, <1>5, <2>1, RecoverOpen DEF OpenInv, Proceeds
<1> QED
  BY <1>3, <1>4, <1>5 DEF SeedLoaded

\* The legacy key has opened the identity, and is used from then on.
LEMMA RecoverLoadedOpen ==
    ASSUME IInv, IInv', HInv, OpenInv, NEW c \in Call, RecoverKeyLoaded(c) \/ RecoverSeedLoaded(c)
    PROVE  OpenInv'
<1>1. /\ UNCHANGED <<legacy, row>> /\ Proceeds(c) /\ call[c].pc \in {"recoverKey", "recoverSeed"}
      /\ call[c] \in CallType
  BY RecoverHistory, IdentityResolves DEF RecoverKeyLoaded, RecoverSeedLoaded
<1>2. Resolving(call[c]) /\ ~Ended(call[c])
  BY <1>1, IdentityResolves
<1>3. T(c) \in TabType /\ call[c].tab \in Tab /\ T(c) = tab[call[c].tab] /\ tab \in [Tab -> TabType]
  BY <1>2, Suspended DEF IInv, TabInv
<1>4. CASE Unreadable(c)
  BY <1>1, <1>4, OpenEnds DEF Unreadable, KeysSame
<1>5. CASE /\ call[c].pc = "recoverKey" /\ call[c].got.id # None /\ call[c].got.id = call[c].stored.kek
           /\ call' = [call EXCEPT ![c].pc = "recoverSeed", ![c].kek = call[c].got.id, ![c].got = row["seed"]]
           /\ UNCHANGED <<kek, tab>>
  <2>1. Same(call'[c], call[c]) /\ call'[c].pc = "recoverSeed" /\ call'[c].kek = call[c].got.id
    BY <1>1, <1>5 DEF Same, IInv, CallInv, CallType
  <2>2. KekSafe(call[c])'
    BY <2>1 DEF KekSafe
  <2>3. ASSUME ~raced, ~restored, ~early
        PROVE  ReadSafe(call[c], T(c).kek)'
    <3>1. ReadSafe(call[c], T(c).kek) /\ ~call[c].minting /\ call[c].stored # NoRow
      BY <1>2, <1>5, <2>3, ResolvingOpen DEF ReadSane, ReadShape, KekPc
    <3> QED
      BY <1>1, <1>5, <2>1, <3>1 DEF ReadSafe, Same
  <2> QED
    BY <1>1, <1>5, <2>2, <2>3, OpenKept DEF KekKept
<1>6. CASE /\ call[c].pc = "recoverSeed" /\ tab' = [tab EXCEPT ![call[c].tab].kek = call[c].kek]
           /\ kek' \in {kek, call[c].kek} /\ Goto(c, "recovered")
  <2>1. Same(call'[c], call[c]) /\ call'[c].pc = "recovered"
    BY <1>6, GotoLeaves
  <2>2. T(c).kek' = call[c].kek
    BY <1>3, <1>6, <2>1 DEF T, Same, TabType
  <2>3. KekSafe(call[c])'
    BY <2>1 DEF KekSafe
  <2> SUFFICES ASSUME ~raced, ~restored, ~early
               PROVE  KekKept(c) /\ ReadSafe(call[c], T(c).kek)'
    BY <1>1, <2>3, OpenKept
  <2>4. /\ ReadSafe(call[c], T(c).kek) /\ ~call[c].minting /\ call[c].stored # NoRow
        /\ call[c].stored = row["device"]
    BY <1>2, <1>6, ResolvingOpen DEF ReadSane, ReadShape, KekPc
  <2>5. call[c].kek = legacy /\ Legacy /\ row["device"] # NoRow
    BY <1>6, <2>4 DEF ReadSafe, Legacy
  <2>6. KekKept(c)
    BY <1>1, <1>2, <1>3, <1>6, <2>5 DEF KekKept, InLock, TabType
  <2>7. ReadSafe(call[c], T(c).kek)'
    BY <1>1, <2>1, <2>2, <2>4, <2>5 DEF ReadSafe, Same
  <2> QED
    BY <2>6, <2>7
<1> QED
  BY <1>4, <1>5, <1>6 DEF RecoverKeyLoaded, RecoverSeedLoaded

LEMMA RecoveredOpen ==
    ASSUME IInv, IInv', HInv, OpenInv, NEW c \in Call, Recovered(c)
    PROVE  OpenInv'
<1>1. UNCHANGED store /\ call[c].pc = "recovered" /\ Proceeds(c)
  BY RecoveredHistory DEF Recovered
<1>2. Resolving(call[c]) /\ ~Ended(call[c])
  BY <1>1, IdentityResolves
<1>3. CASE Resolve(c, call[c].stored.id)
  BY <1>1, <1>2, <1>3, ResolvedKeys, OpenEnds
<1>4. CASE Goto(c, "generate") /\ UNCHANGED <<lock, tab>>
  BY <1>1, <1>2, <1>4, GenerateOpen
<1> QED
  BY <1>3, <1>4 DEF Recovered

\* A minted identity is wrapped under the cached key, or one is asked for.
LEMMA GeneratedOpen ==
    ASSUME IInv, IInv', HInv, OpenInv, NEW c \in Call, Generated(c)
    PROVE  OpenInv'
<1>1. UNCHANGED <<store, tab>> /\ call[c].pc = "generate" /\ Proceeds(c)
  BY GeneratedHistory DEF Generated
<1>2. Resolving(call[c]) /\ call[c] \in CallType /\ call[c].kind = "identity" /\ KeysSame /\ T(c) = tab[call[c].tab]
      /\ call[c].tab \in Tab
  BY <1>1, IdentityResolves, Suspended DEF Resolving, KeysSame, store
<1> DEFINE k == [call[c] EXCEPT !.minting = TRUE]
<1>3. call'[c] = AskKek(k, T(c).kek) /\ UNCHANGED <<kek, legacy, row>>
  BY <1>1 DEF Generated, IInv, CallInv, store
<1>4. k \in CallType /\ k.kind = "identity" /\ k.minting /\ k.stored = call[c].stored /\ k.tab = call[c].tab
  BY <1>2 DEF CallType
<1> HIDE DEF k
<1> SUFFICES ASSUME ~raced, ~restored, ~early
             PROVE  KekSafe(call[c])' /\ ReadSafe(call[c], T(c).kek)'
  BY <1>1, <1>2, OpenKept DEF KeysSame, KekKept
<1>5. /\ Opens /\ ReadSafe(call[c], T(c).kek) /\ ReadSane(call[c]) /\ call[c].stored = row["device"]
      /\ row["device"] # NoRow /\ row["seed"] = NoRow => legacy # None
  BY <1>2, ResolvingOpen
<1>6. KekSafe(call[c])'
  BY <1>3, <1>4, <1>5, AskSafe
<1>7. /\ Same(call'[c], k)
      /\ \/ call'[c].pc = "kekRow" /\ T(c).kek = None
         \/ call'[c].pc = "persist" /\ call'[c].kek = T(c).kek /\ T(c).kek # None
  BY <1>3, <1>4, AskLeaves DEF AfterKek
<1>8. row["device"] = NoRow => T(c).kek \in {None, kek, legacy}
  BY <1>2, <1>5 DEF Opens
<1>9. call[c].stored # NoRow /\ row["seed"] = NoRow => T(c).kek = legacy
  BY <1>1, <1>5 DEF ReadSafe
<1>10. T(c).kek' = T(c).kek
  BY <1>1, <1>4, <1>7 DEF T, Same
<1>11. ReadSafe(call[c], T(c).kek)'
  BY <1>3, <1>4, <1>5, <1>7, <1>8, <1>9, <1>10 DEF ReadSafe, Same
<1> QED
  BY <1>6, <1>11

\* A mint stores its pair under a key that is stored.
LEMMA PersistOpen ==
    ASSUME IInv, IInv', HInv, OpenInv, NEW c \in Call, Persist(c)
    PROVE  OpenInv'
<1>1. /\ row' = SavePair(c, call[c].kek) /\ UNCHANGED <<kek, legacy, Hist>> /\ call[c].pc = "persist"
      /\ Goto(c, "persisted") /\ c # None
  BY Numbers DEF Persist
<1>2. Resolving(call[c]) /\ lock = c
  BY <1>1, IdentityResolves DEF HInv, LockHeld, InLock
<1> SUFFICES ASSUME ~raced, ~restored, ~early
             PROVE  Opens'
  BY <1>1 DEF OpenInv, Hist
<1>3. ~Whole
  BY PersistHistory DEF HInv, RestoreSeen
<1>4. call[c].kek \in {kek, legacy} \ {None}
  <2>1. /\ ReadSafe(call[c], T(c).kek) /\ ReadSane(call[c])
        /\ row["device"] # NoRow /\ row["seed"] = NoRow => legacy # None
    BY <1>2, ResolvingOpen
  <2> QED
    BY <1>1, <1>3, <2>1 DEF ReadSafe, ReadSane, ReadShape, Whole
<1>5. Whole' /\ row'["device"].kek = call[c].kek
  BY <1>1, StoredWhole
<1>6. Alone(c) /\ call'[c].pc = "persisted"
  BY <1>1, GotoLeaves
<1>7. ASSUME NEW d \in Call
      PROVE  call'[d].pc \notin KekPc /\ ~Resolving(call'[d])
  <2>1. CASE d = c
    BY <1>6, <2>1 DEF KekPc, Resolving
  <2>2. CASE d # c
    <3>1. ~InLock(call[d]) /\ call'[d] = call[d]
      BY <1>2, <1>6, <2>2 DEF HInv, LockHeld, Alone
    <3> QED
      BY <1>3, <3>1, KekInLock DEF InLock
  <2> QED
    BY <2>1, <2>2
<1> QED
  BY <1>1, <1>4, <1>5, <1>7 DEF Opens, KekSafe, KekPc, Whole

LEMMA AfterOpen ==
    ASSUME IInv, IInv', HInv, OpenInv, NEW c \in Call, Persisted(c) \/ ResidueSealed(c) \/ Replaced(c)
    PROVE  OpenInv'
<1>1. Proceeds(c) /\ ~Ended(call[c]) /\ UNCHANGED <<kek, legacy>>
  BY AfterHistory DEF Proceeds, Persisted, ResidueSealed, Replaced, store
<1>2. T(c) \in TabType /\ call[c].tab \in Tab /\ T(c) = tab[call[c].tab] /\ tab \in [Tab -> TabType]
  BY <1>1, Suspended DEF IInv, TabInv
<1>3. CASE Resolve(c, c)
  <2>1. KeysSame /\ Finish(c)
    BY <1>1, <1>2, <1>3 DEF Resolve, KeysSame, TabType
  <2> QED
    BY <1>1, <2>1, OpenEnds
<1>4. CASE \/ /\ Goto(c, "residue")
              /\ tab' = [tab EXCEPT ![call[c].tab] = [T(c) EXCEPT !.noise = None, !.sealed = NoSealed, !.epoch = @ + 1]]
           \/ Goto(c, "replaced") /\ UNCHANGED tab
  <2>1. Same(call'[c], call[c]) /\ call'[c].pc \in {"residue", "replaced"}
    BY <1>4, GotoLeaves
  <2> DEFINE x == [T(c) EXCEPT !.noise = None, !.sealed = NoSealed, !.epoch = @ + 1]
  <2>2. x.kek = T(c).kek
    BY <1>2 DEF TabType
  <2> HIDE DEF x
  <2>3. KeysSame
    BY <1>1, <1>2, <1>4, <2>2 DEF KeysSame, x
  <2> QED
    BY <1>1, <2>1, <2>3, OpenQuiet DEF KekPc, Resolving
<1> QED
  BY <1>3, <1>4 DEF Persisted, ResidueSealed, Replaced

\* Sealed scalars: the lock's holder may ask for the KEK.
LEMMA SealedOpen ==
    ASSUME IInv, IInv', HInv, OpenInv, NEW c \in Call, Sealed(c)
    PROVE  OpenInv'
<1>1. /\ Proceeds(c) /\ UNCHANGED <<kek, legacy>> /\ ~Ended(call[c])
      /\ call[c].pc \in {"lock", "sealedRow", "sealedRead", "sealedSaved", "sealedGot"}
  BY SealedHistory DEF Proceeds, Sealed, SealedLocked, SealedRow, SealedLoaded, SealedMint, SealedSaved, SealedGot,
                       store
<1>2. call[c].kind = "sealed"
  BY <1>1, SealedCall DEF Sealed, SealedLocked, SealedRow, SealedLoaded, SealedMint, SealedSaved, SealedGot,
         SealedPc
<1>3. /\ T(c) \in TabType /\ call[c].tab \in Tab /\ T(c) = tab[call[c].tab] /\ tab \in [Tab -> TabType]
      /\ call[c] \in CallType
  BY <1>1, Suspended DEF IInv, TabInv
<1>4. KeysSame
  BY <1>1, SealedPages DEF KeysSame
<1>5. CASE (\E key : Fulfil(c, key)) \/ SealedThrows(c)
  <2>1. Harmless(call'[c])
    BY <1>2, <1>5, SettledHarmless DEF SealedThrows
  <2> QED
    BY <1>1, <1>4, <2>1, OpenHarmless
<1>6. CASE Finish(c)
  BY <1>1, <1>4, <1>6, OpenEnds
<1>7. CASE Read(c, "sealedRead", row["sealed"]) \/ Goto(c, "sealedSaved")
  <2>1. call'[c].pc \in {"sealedRead", "sealedSaved"}
    BY <1>7, ReadLeaves, GotoLeaves
  <2> QED
    BY <1>1, <1>4, <2>1, OpenQuiet DEF KekPc, Resolving
<1>8. CASE UNCHANGED store /\ call' = [call EXCEPT ![c] = AskKek([@ EXCEPT !.mark = T(c).epoch], T(c).kek)]
  <2> DEFINE k == [call[c] EXCEPT !.mark = T(c).epoch]
  <2>1. call'[c] = AskKek(k, T(c).kek) /\ UNCHANGED <<kek, legacy, row>>
    BY <1>8 DEF IInv, CallInv, store
  <2>2. k \in CallType /\ k.kind = "sealed"
    BY <1>2, <1>3 DEF CallType, TabType
  <2> HIDE DEF k
  <2>3. call'[c].kind = "sealed"
    BY <2>1, <2>2, AskLeaves DEF Same
  <2>4. OpenInv /\ ~raced /\ ~restored /\ ~early => KekSafe(call[c])'
    BY <2>1, <2>2, AskSafe DEF OpenInv
  <2> QED
    BY <1>1, <1>4, <2>3, <2>4, OpenKept DEF KeysSame, KekKept, Resolving
<1>9. CASE SealedLocked(c)
  BY <1>5, <1>8, <1>9 DEF SealedLocked
<1>10. CASE SealedRow(c) \/ SealedMint(c)
  BY <1>5, <1>7, <1>10 DEF SealedRow, SealedMint
<1>11. CASE SealedLoaded(c) \/ SealedSaved(c) \/ SealedGot(c)
  BY <1>5, <1>6, <1>11 DEF SealedLoaded, SealedSaved, SealedGot
<1> QED
  BY <1>9, <1>10, <1>11 DEF Sealed

LEMMA OutsideOpen ==
    ASSUME IInv, IInv', HInv, OpenInv, NEW c \in Call, Noise(c) \/ Restore(c)
    PROVE  OpenInv'
<1>1. CASE PairSave(c)
  <2>1. call[c].kind = "replace" /\ ~Ended(call[c]) /\ restored' = restored
    BY <1>1, KindOf DEF PairSave, Ended, Hist
  <2> QED
    BY <2>1 DEF HInv, RestoreSeen, Outside, OpenInv
<1>2. CASE Noise(c) \/ PairSaved(c) \/ RestoreSealed(c) \/ RestoreEnd(c)
  <2>1. Proceeds(c) /\ UNCHANGED <<kek, legacy>> /\ ~Ended(call[c])
    BY <1>2, OutsideHistory DEF Proceeds, Noise, NoiseRow, NoiseLoaded, NoiseSaved, PairSaved, RestoreSealed,
                                RestoreEnd, store
  <2>2. T(c) \in TabType /\ call[c].tab \in Tab /\ T(c) = tab[call[c].tab] /\ tab \in [Tab -> TabType]
    BY <2>1, Suspended DEF IInv, TabInv
  <2>3. KeysSame
    <3>1. CASE UNCHANGED tab
      BY <2>1, <3>1 DEF KeysSame
    <3>2. CASE \E key : tab' = [tab EXCEPT ![call[c].tab].noise = key]
      BY <2>1, <2>2, <3>2 DEF KeysSame, TabType
    <3>3. CASE RestoreEnd(c)
      <4> DEFINE x == [T(c) EXCEPT !.id = None, !.sealed = NoSealed, !.epoch = @ + 1]
      <4>1. x.kek = T(c).kek /\ tab' = [tab EXCEPT ![call[c].tab] = x]
        BY <2>2, <3>3 DEF RestoreEnd, TabType
      <4> HIDE DEF x
      <4> QED
        BY <2>1, <2>2, <4>1 DEF KeysSame
    <3> QED
      BY <1>2, <3>1, <3>2, <3>3 DEF Noise, NoiseRow, NoiseLoaded, NoiseSaved, PairSaved, RestoreSealed
  <2>4. CASE Finish(c)
    BY <2>1, <2>3, <2>4, OpenEnds
  <2>5. CASE \E pc \in {"noiseRead", "noiseSaved", "restoreSealed", "restoreEnd"} :
                 Goto(c, pc) \/ \E r : Read(c, pc, r)
    <3>1. call'[c].pc \in {"noiseRead", "noiseSaved", "restoreSealed", "restoreEnd"}
      BY <2>5, GotoLeaves, ReadLeaves
    <3> QED
      BY <2>1, <2>3, <3>1, OpenQuiet DEF KekPc, Resolving
  <2>6. CASE Noise(c)
    BY <2>4, <2>5, <2>6 DEF Noise, NoiseRow, NoiseLoaded, NoiseSaved
  <2>7. CASE PairSaved(c) \/ RestoreSealed(c) \/ RestoreEnd(c)
    BY <2>4, <2>5, <2>7 DEF PairSaved, RestoreSealed, RestoreEnd
  <2> QED
    BY <1>2, <2>6, <2>7
<1> QED
  BY <1>1, <1>2 DEF Restore

\* Nothing is stored, no key cached, and no call runs but a forget.
LEMMA OpenEmpty ==
    ASSUME ~raced' => /\ row'["device"] = NoRow /\ \A t \in Tab : tab'[t].kek = None
                      /\ \A d \in Call : Ended(call'[d]) \/ call'[d].kind = "clear",
           IInv'
    PROVE  OpenInv'
<1> SUFFICES ASSUME ~raced'
             PROVE  Opens'
  BY DEF OpenInv
<1>1. ASSUME NEW d \in Call
      PROVE  call'[d].pc \notin KekPc /\ ~Resolving(call'[d])
  <2>1. Shape(call'[d])
    BY DEF IInv, CallInv
  <2> QED
    BY <2>1 DEF Shape, PcOf, Ended, KekPc, Resolving, ClearNext, CallType, Kind
<1> QED
  BY <1>1 DEF Opens, KekSafe, KekPc

LEMMA ClearStepOpen ==
    ASSUME IInv, IInv', HInv, NEW c \in Call, Clearing(call[c]), Alone(c), call'[c].kind = "clear",
           row'["device"] = row["device"], UNCHANGED <<tab, raced>>
    PROVE  OpenInv'
  BY OpenEmpty DEF HInv, ClearAlone, Alone

LEMMA ClearsOpen ==
    ASSUME IInv, IInv', HInv, NEW c \in Call,
           \/ ClearStep(c)
           \/ \E t \in Tab : ClearStart(c, t)
           \/ Fault(c) /\ call[c].kind = "clear"
    PROVE  OpenInv'
<1>1. CASE ClearStep(c)
  <2>1. UNCHANGED <<tab, raced>> /\ call[c].pc \in DOMAIN ClearNext /\ ~Ended(call[c])
    BY <1>1 DEF ClearStep, ClearNext, Ended, hist
  <2>2. Clearing(call[c]) /\ row'["device"] = row["device"]
    BY <1>1, <2>1, KindOf DEF Clearing, ClearStep, Cleared, RowName
  <2>3. Alone(c) /\ call'[c].kind = "clear"
    BY <1>1, <2>2, FinishLeaves, GotoLeaves DEF ClearStep, Clearing, Same
  <2> QED
    BY <2>1, <2>2, <2>3, ClearStepOpen
<1>2. CASE \E t \in Tab : ClearStart(c, t)
  <2> PICK t \in Tab : ClearStart(c, t)
    BY <1>2
  <2>1. ~raced' => \A u \in Tab : tab'[u].kek = None
    BY ClearStarts
  <2>2. ~raced' => \A d \in Call : Ended(call'[d]) \/ call'[d].kind = "clear"
    BY ClearStarts DEF Alone
  <2> QED
    BY <2>1, <2>2, ClearStarts, OpenEmpty
<1>3. CASE Fault(c) /\ call[c].kind = "clear"
  <2>1. OtherFault(c) /\ UNCHANGED <<store, raced>>
    BY <1>3, KekCall DEF Fault, LegacyFault, IdentityFault, SealedFault, hist, KekPc
  <2>2. ~Ended(call[c]) /\ UNCHANGED tab
    BY <2>1 DEF OtherFault, KekFails, Ended, ClearNext
  <2>3. Alone(c) /\ call'[c].kind = "clear"
    BY <1>3, <2>1, FinishLeaves, GotoLeaves DEF OtherFault, Same
  <2> QED
    BY <1>3, <2>1, <2>2, <2>3, ClearStepOpen DEF Clearing, store
<1> QED
  BY <1>1, <1>2, <1>3

\* A request is refused, and the call goes on without what it asked for.
LEMMA FaultOpen ==
    ASSUME IInv, IInv', HInv, OpenInv, NEW c \in Call, Fault(c), call[c].kind # "clear"
    PROVE  OpenInv'
<1>1. UNCHANGED <<store, hist>>
  BY DEF Fault
<1>2. CASE LegacyFault(c)
  <2>1. /\ Proceeds(c) /\ Same(call'[c], call[c]) /\ call'[c].pc = "legacyRow" /\ call'[c].got.id = None
        /\ call[c].pc = "legacyRow" /\ UNCHANGED tab
    BY <1>1, <1>2, LegacyFaultHistory, ReadLeaves DEF LegacyFault, NoRow
  <2>2. KekSafe(call[c]) /\ ~raced /\ ~restored /\ ~early => KekSafe(call[c])'
    BY <1>1, <2>1 DEF KekSafe, Legacy, store
  <2>3. ASSUME ~raced, ~restored, ~early, Resolving(call'[c])
        PROVE  ReadSafe(call[c], T(c).kek)'
    <3>1. Resolving(call[c])
      BY <2>1, <2>3 DEF Resolving, Same
    <3>2. ReadSafe(call[c], T(c).kek)
      BY <2>3, <3>1, ResolvingOpen
    <3> QED
      BY <1>1, <2>1, <3>2 DEF ReadSafe, Same, store
  <2> QED
    BY <1>1, <2>1, <2>2, <2>3, OpenKept DEF KekKept, OpenInv, Opens, store
<1>3. CASE IdentityFault(c)
  <2>1. Proceeds(c) /\ ~Ended(call[c]) /\ call[c].kind = "identity"
    BY <1>1, <1>3, IdentityFaultHistory DEF Proceeds, IdentityFault
  <2>2. T(c) \in TabType /\ call[c].tab \in Tab /\ T(c) = tab[call[c].tab] /\ tab \in [Tab -> TabType]
    BY <2>1, Suspended DEF IInv, TabInv
  <2>3. KeysSame
    BY <1>1, <1>3, <2>2 DEF KeysSame, IdentityFault, TabType, store
  <2>4. CASE Finish(c)
    BY <2>1, <2>3, <2>4, OpenEnds
  <2>5. CASE /\ call[c].pc = "unwrap" \/ (KekFails(c) /\ ~call[c].minting)
             /\ Read(c, "recoverKey", Wrapped(legacy, None, None))
             /\ UNCHANGED tab
    <3>1. Resolving(call[c])
      BY <2>1, <2>5 DEF Resolving, KekFails, KekPc
    <3>2. ~call[c].minting
      BY <2>5, <3>1 DEF HInv, ReadInv, ReadGood, ReadShape, KekPc
    <3> QED
      BY <1>1, <2>1, <2>5, <3>1, <3>2, RecoverOpen DEF OpenInv, Proceeds
  <2>6. CASE Goto(c, "replaced")
    <3>1. call'[c].pc = "replaced"
      BY <2>6, GotoLeaves
    <3> QED
      BY <2>1, <2>3, <3>1, OpenQuiet DEF KekPc, Resolving
  <2> QED
    BY <1>3, <2>4, <2>5, <2>6 DEF IdentityFault
<1>4. CASE SealedFault(c)
  <2>1. Proceeds(c) /\ ~Ended(call[c]) /\ call[c].kind = "sealed" /\ SealedThrows(c)
    BY <1>1, <1>4, SealedFaultHistory DEF Proceeds, SealedFault
  <2>2. T(c) \in TabType /\ call[c].tab \in Tab /\ T(c) = tab[call[c].tab] /\ tab \in [Tab -> TabType]
    BY <2>1, Suspended DEF IInv, TabInv
  <2>3. KeysSame
    BY <1>1, <2>1, <2>2 DEF KeysSame, SealedThrows, TabType, store
  <2>4. Harmless(call'[c])
    BY <2>1, SettledHarmless DEF SealedThrows
  <2> QED
    BY <2>1, <2>3, <2>4, OpenHarmless
<1>5. CASE OtherFault(c)
  <2>1. Proceeds(c) /\ KeysSame
    BY <1>1, <1>5, OtherFaultHistory DEF OtherFault, KeysSame, store
  <2>2. CASE Finish(c)
    BY <2>1, <2>2, OpenEnds
  <2>3. CASE Goto(c, "restoreEnd")
    <3>1. call'[c].pc = "restoreEnd"
      BY <2>3, GotoLeaves
    <3> QED
      BY <2>1, <3>1, OpenQuiet DEF KekPc, Resolving
  <2> QED
    BY <1>5, <2>2, <2>3 DEF OtherFault
<1> QED
  BY <1>2, <1>3, <1>4, <1>5 DEF Fault

LEMMA ReloadOpen ==
    ASSUME IInv, IInv', HInv, OpenInv, NEW t \in Tab, Reload(t)
    PROVE  OpenInv'
<1> DEFINE dead == {c \in Call : Running(c) /\ call[c].tab = t}
<1>1. /\ UNCHANGED <<store, hist>> /\ tab' = [tab EXCEPT ![t] = FreshTab]
      /\ call' = [c \in Call |-> IF c \in dead THEN Over(c) ELSE call[c]]
  BY DEF Reload
<1> SUFFICES ASSUME ~raced, ~restored, ~early
             PROVE  Opens'
  BY <1>1 DEF OpenInv, hist
<1>2. Opens
  BY DEF OpenInv
<1>3. \A u \in Tab : tab'[u] = (IF u = t THEN FreshTab ELSE tab[u]) /\ FreshTab.kek = None
  BY <1>1 DEF IInv, TabInv, FreshTab
<1>4. ASSUME NEW d \in Call, d \in dead
      PROVE  call'[d].pc = "done"
  BY <1>1, <1>4 DEF Over, IdleCall
<1>5. ASSUME NEW d \in Call, d \notin dead
      PROVE  call'[d] = call[d]
  BY <1>1, <1>5
<1>6. ASSUME NEW d \in Call, Resolving(call'[d])
      PROVE  ReadSafe(call[d], T(d).kek)'
  <2>1. d \notin dead /\ call'[d] = call[d]
    BY <1>4, <1>5, <1>6 DEF Resolving, KekPc
  <2>2. Running(d) /\ call[d].tab \in Tab /\ ReadSafe(call[d], T(d).kek)
    BY <1>2, <1>6, <2>1, Suspended DEF Resolving, Running, Ended, KekPc, Opens
  <2>3. T(d).kek' = T(d).kek
    BY <1>3, <2>1, <2>2 DEF T
  <2> QED
    BY <1>1, <2>1, <2>2, <2>3 DEF ReadSafe, store
<1>7. ASSUME NEW d \in Call
      PROVE  KekSafe(call[d])'
  BY <1>1, <1>2, <1>4, <1>5 DEF Opens, KekSafe, Legacy, store
<1> QED
  BY <1>1, <1>2, <1>3, <1>6, <1>7 DEF Opens, Legacy, store

\* A call is made, beside those that run.
LEMMA Joining ==
    ASSUME IInv, OpenInv, NEW c \in Call, Alone(c), UNCHANGED store, BesideClear, restored => restored', early => early',
           \A t \in Tab : tab'[t].kek = tab[t].kek, ~Resolving(call'[c]),
           Opens => KekSafe(call[c])'
    PROVE  OpenInv'
<1> SUFFICES ASSUME ~raced', ~restored', ~early'
             PROVE  Opens'
  BY DEF OpenInv
<1>1. Opens
  BY DEF OpenInv, BesideClear
<1>2. ASSUME NEW d \in Call, Resolving(call'[d])
      PROVE  ReadSafe(call[d], T(d).kek)'
  <2>1. d # c /\ call'[d] = call[d] /\ ReadSafe(call[d], T(d).kek)
    BY <1>1, <1>2 DEF Alone, Opens
  <2>2. call[d].tab \in Tab
    BY <1>2, <2>1, Suspended DEF Resolving, Ended, KekPc
  <2>3. T(d).kek' = T(d).kek
    BY <2>1, <2>2 DEF T
  <2> QED
    BY <2>1, <2>3 DEF ReadSafe, store
<1>3. ASSUME NEW d \in Call
      PROVE  KekSafe(call[d])'
  BY <1>1 DEF Opens, Alone, KekSafe, Legacy, store
<1> QED
  BY <1>1, <1>2, <1>3 DEF Opens, Legacy, store

LEMMA StartsOpen ==
    ASSUME IInv, IInv', HInv, OpenInv, NEW c \in Call, NEW t \in Tab, Starts(c, t), ~ClearStart(c, t)
    PROVE  OpenInv'
<1>1. tab \in [Tab -> TabType] /\ call \in [Call -> CallType]
  BY DEF IInv, TabInv, CallInv
<1>2. CASE IdentityStart(c, t)
  <2>1. Alone(c) /\ call'[c].pc = "lock"
    BY <1>1, <1>2 DEF IdentityStart, Alone, Made, IdleCall
  <2> QED
    BY <1>2, <2>1, Joining DEF IdentityStart, Resolving, KekSafe, KekPc
<1>3. CASE \E o \in Key : SealedStart(c, t, o)
  <2> PICK o \in Key : SealedStart(c, t, o)
    BY <1>3
  <2>1. /\ call' \in [Call -> CallType] /\ \E k : call' = [call EXCEPT ![c] = k] /\ k.pc \in {"sealedGot", "sealedJoin", "lock"}
        /\ tab' = tab \/ tab' = [tab EXCEPT ![t].inflight = c]
    <3> DEFINE new == Made(c, "sealed", t, o)
               joins(f) == [new EXCEPT !.pc = "sealedJoin", !.mark = f]
               takes(v) == [new EXCEPT !.pc = "sealedGot", !.got.id = v]
               asks     == [new EXCEPT !.pc = "lock"]
    <3>1. \/ \E f : call' = [call EXCEPT ![c] = joins(f)]
          \/ \E v : call' = [call EXCEPT ![c] = takes(v)]
          \/ call' = [call EXCEPT ![c] = asks]
      BY DEF SealedStart
    <3>2. new \in CallType
      BY MadeShape DEF Kind
    <3> HIDE DEF new
    <3>3. \A v : takes(v).pc = "sealedGot"
      BY <3>2 DEF CallType
    <3>4. \A f : joins(f).pc = "sealedJoin"
      BY <3>2 DEF CallType
    <3>5. asks.pc = "lock"
      BY <3>2 DEF CallType
    <3> HIDE DEF joins, takes, asks
    <3>6. call' \in [Call -> CallType]
      BY DEF IInv, CallInv
    <3> QED
      BY <3>1, <3>3, <3>4, <3>5, <3>6 DEF SealedStart
  <2>2. Alone(c) /\ call'[c].pc \in {"sealedGot", "sealedJoin", "lock"}
    BY <1>1, <2>1 DEF Alone
  <2>3. \A u \in Tab : tab'[u].kek = tab[u].kek
    BY <1>1, <2>1 DEF TabType
  <2>4. UNCHANGED store /\ BesideClear /\ restored' = restored /\ early' = early
    BY DEF SealedStart
  <2> QED
    BY <2>2, <2>3, <2>4, Joining DEF Resolving, KekSafe, KekPc
<1>4. CASE NoiseStart(c, t)
  <2>1. Alone(c) /\ call'[c] = AskKek(Made(c, "noise", t, None), tab[t].kek) /\ UNCHANGED <<store, tab>>
    BY <1>1, <1>4 DEF NoiseStart, Alone
  <2>2. Made(c, "noise", t, None) \in CallType /\ Made(c, "noise", t, None).kind = "noise"
    BY MadeShape, Numbers DEF Kind
  <2>3. ~Resolving(call'[c])
    BY <2>1, <2>2, AskLeaves DEF Same, Resolving
  <2>4. Opens => KekSafe(call[c])'
    BY <2>1, <2>2, AskSafe DEF store
  <2> QED
    BY <1>4, <2>1, <2>3, <2>4, Joining DEF NoiseStart
<1>5. CASE \E o \in {Old, c} : ReplaceStart(c, t, o)
  BY <1>5 DEF ReplaceStart, OpenInv
<1> QED
  BY <1>2, <1>3, <1>4, <1>5 DEF Starts

LEMMA InitOpen == ASSUME Init PROVE OpenInv
<1>1. call = [c \in Call |-> IdleCall] /\ IdleCall.pc = "idle"
  BY DEF Init, IdleCall
<1>2. \A c \in Call : KekSafe(call[c]) /\ ~Resolving(call[c])
  BY <1>1 DEF KekSafe, Resolving, KekPc
<1>3. PICK name \in Layouts, settled \in SUBSET Tab : Layout(name, settled)
  BY DEF Init
<1>4. name \in {"fresh", "current", "sealed", "pre98", "broken", "seedless"}
  BY IdentityAssumption
<1>5. /\ row["device"] = IF name = "fresh" THEN NoRow ELSE Wrapped(Old, Old, None)
      /\ row["seed"] = IF name \in {"fresh", "seedless"} THEN NoRow ELSE Wrapped(Old, Old, None)
      /\ legacy = IF name \in {"pre98", "broken", "seedless"} THEN Old ELSE None
      /\ name \in {"current", "sealed"} => kek = Old
      /\ tab = [t \in Tab |-> IF t \in settled THEN SettledTab ELSE FreshTab]
      /\ name = "fresh" => settled = {}
  BY <1>3, <1>4 DEF Layout, RowName
<1>6. Wrapped(Old, Old, None).kek = Old /\ Wrapped(Old, Old, None) # NoRow /\ FreshTab.kek = None /\ Old # None
  BY Numbers DEF Wrapped, NoRow, FreshTab
<1>7. row["device"] = NoRow => \A t \in Tab : tab[t].kek = None
  BY <1>5, <1>6
<1> QED
  BY <1>2, <1>4, <1>5, <1>6, <1>7 DEF OpenInv, Opens, Legacy

LEMMA StepOpen ==
    ASSUME IInv, IInv', HInv, OpenInv, [Next]_vars
    PROVE  OpenInv'
<1>1. CASE UNCHANGED vars
  BY <1>1 DEF vars, store, hist, OpenInv, Opens, KekSafe, ReadSafe, Legacy, T
<1>2. ASSUME NEW c \in Call, NEW t \in Tab, Starts(c, t)
      PROVE  OpenInv'
  BY <1>2, StartsOpen, ClearsOpen
<1>3. ASSUME NEW c \in Call, Identity(c)
      PROVE  OpenInv'
  BY <1>3, LockedOpen, DeviceLoadedOpen, UnwrapOpen, SeedLoadedOpen, RecoverLoadedOpen, RecoveredOpen,
     GeneratedOpen, PersistOpen, AfterOpen DEF Identity
<1>4. ASSUME NEW c \in Call, ClearStep(c) \/ Fault(c)
      PROVE  OpenInv'
  BY <1>4, ClearsOpen, FaultOpen
<1> QED
  BY <1>1, <1>2, <1>3, <1>4, KekOpen, SealedOpen, OutsideOpen, ReloadOpen DEF Next

\* As long as nothing was forgotten in a race, no backup restored and no Noise
\* keypair asked for before there was an identity, the stored identity is
\* wrapped under a key that is stored too: the 2026-08-06 lockout
\* (getOrCreateWrappingKey minting past the legacy key) cannot recur.
THEOREM AlwaysOpens == Spec => []PairOpens
<1>1. Init => IInv /\ HInv /\ OpenInv
  BY InitIInv, InitHInv, InitOpen
<1>2. (IInv /\ HInv /\ OpenInv) /\ [Next]_vars => (IInv /\ HInv /\ OpenInv)'
  BY StepIInv, StepHInv, StepOpen
<1>3. OpenInv => PairOpens
  BY DEF OpenInv, Opens, PairOpens
<1> QED
  BY <1>1, <1>2, <1>3, PTL DEF Spec

=============================================================================
