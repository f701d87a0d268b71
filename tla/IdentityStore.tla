---------------------------- MODULE IdentityStore ----------------------------
(***************************************************************************)
(* The device's keys (identity/src/device-identity.ts, x25519-identity.ts):*)
(* the wrapping key (KEK), the Ed25519 identity, the sealed-messaging      *)
(* scalar and the Noise keypair, in IndexedDB, used by several tabs.       *)
(*                                                                         *)
(* A tab runs calls that suspend at every await.  A transaction takes      *)
(* effect in the step whose code asks for it; what it answers is used in   *)
(* the call's next step, when everything may have changed.  Key material   *)
(* is a number: 0 is none, Old and Bogus were there before the model       *)
(* starts, and call c mints the value c, whichever kind of key it mints.   *)
(* A row is what it holds, the KEK it is wrapped under, and its owner.     *)
(***************************************************************************)
EXTENDS Naturals, FiniteSets

CONSTANTS
    Tab,            \* pages of one origin
    MaxCalls,       \* calls made in all
    Layouts,        \* what earlier versions and sessions left in IndexedDB
    MaxOpen,        \* calls in progress at once
    MaxUnlocked,    \* calls of each kind that takes no lock in all
    MaxMishaps      \* storage faults and reloads or crashes of tabs in all

None  == 0
Old   == 1
Bogus == 2
Call  == 3 .. (2 + MaxCalls)
Key   == 0 .. (2 + MaxCalls)

Kind    == {"identity", "sealed", "noise", "replace", "clear"}
RowName == {"device", "seed", "sealed", "noise"}
Row     == [id : Key, kek : Key, owner : Key]
NoRow   == [id |-> None, kek |-> None, owner |-> None]
Wrapped(id, k, owner) == [id |-> id, kek |-> k, owner |-> owner]

ASSUME IdentityAssumption ==
    /\ Tab # {} /\ "none" \notin Tab
    /\ MaxCalls \in Nat \ {0}
    /\ MaxOpen \in Nat /\ MaxUnlocked \in Nat /\ MaxMishaps \in Nat
    /\ Layouts \subseteq {"fresh", "current", "sealed", "pre98", "broken", "seedless"}

VARIABLES
    kek,        \* the entry of the KEK database
    legacy,     \* the WRAPPING_KEY_NAME row of the identity database
    row,        \* the other rows of the identity database
    lock,       \* the call that holds the Web lock, or None
    tab,        \* the module variables of each page
    call,       \* the calls and where each is suspended
    mishaps,    \* storage faults and reloads so far
    saved,      \* identities that were ever stored
    raced,      \* a forget ran beside another call or another tab's caches
    sealers,    \* tabs that asked for a sealed scalar or restored a backup
    restored,   \* a backup was restored
    mistaken,   \* a page minted a scalar mistaking which identity is live
    overtaken,  \* the identity calls beside which a restore stored its pair
    early       \* a Noise keypair was asked for before an identity was whole

store == <<kek, legacy, row>>
hist  == <<saved, raced, sealers, restored, mistaken, overtaken, early>>
vars  == <<kek, legacy, row, lock, tab, call, mishaps, hist>>

-----------------------------------------------------------------------------
NoSealed == [owner |-> None, epoch |-> 0, id |-> None]

\* cachedIdentity, cachedWrappingKey, cachedX25519Keypair, cachedSealedX25519,
\* identityEpochCounter, inflightSealed (the call that fills it), x25519Cache
\* (as the set of its entries), and the identities the app has been given.
FreshTab == [id |-> None, kek |-> None, noise |-> None, sealed |-> NoSealed,
             epoch |-> 0, inflight |-> None, memo |-> {}, held |-> {}]

SettledTab == [FreshTab EXCEPT !.id = Old, !.kek = Old, !.held = {Old}]

Warm(u) == /\ u \in Tab
           /\ [tab[u] EXCEPT !.epoch = 0, !.held = {}] # FreshTab

\* owner: whose scalar is asked for, or the identity of the backup.
\* epoch: sampled when the call was made.  mark: sampled by sealedX25519Mint,
\* and the call that is waited for by one that joined it.
\* stored: the device row it read first.  got: what it read last.
IdleCall == [kind |-> "identity", tab |-> "none", pc |-> "idle",
             epoch |-> 0, mark |-> 0, owner |-> None, kek |-> None,
             stored |-> NoRow, got |-> NoRow, minting |-> FALSE]

Layout(name, settled) ==
    LET has(names) == name \in names
        old == Wrapped(Old, Old, None)
    IN /\ kek = CASE has({"current", "sealed"}) -> Old [] has({"broken"}) -> Bogus [] OTHER -> None
       /\ legacy = IF has({"pre98", "broken", "seedless"}) THEN Old ELSE None
       /\ row = [r \in RowName |->
                    CASE r = "device" /\ ~has({"fresh"})              -> old
                      [] r = "seed" /\ ~has({"fresh", "seedless"})    -> old
                      [] r = "sealed" /\ has({"sealed"})              -> Wrapped(Old, Old, Old)
                      [] OTHER                                        -> NoRow]
       /\ tab = [t \in Tab |-> IF t \in settled THEN SettledTab ELSE FreshTab]
       /\ settled # {} => has({"current", "sealed"})

Init ==
    /\ \E name \in Layouts, settled \in SUBSET Tab : Layout(name, settled)
    /\ lock = None
    /\ call = [c \in Call |-> IdleCall]
    /\ mishaps = 0
    /\ saved = {row["device"].id} \ {None}
    /\ raced = FALSE
    /\ sealers = {}
    /\ restored = FALSE
    /\ mistaken = FALSE
    /\ overtaken = {}
    /\ early = FALSE

Running(c) == call[c].pc \notin {"idle", "done"}
Next1(c)   == /\ call[c].pc = "idle" /\ \A d \in Call : d < c => call[d].pc # "idle"
              /\ Cardinality({d \in Call : Running(d)}) < MaxOpen
Room(k)    == Cardinality({d \in Call : call[d].kind = k}) < MaxUnlocked
T(c)       == tab[call[c].tab]

Goto(c, pc)    == call' = [call EXCEPT ![c].pc = pc]
Read(c, pc, r) == call' = [call EXCEPT ![c].pc = pc, ![c].got = r]

Over(c) == [IdleCall EXCEPT !.pc = "done", !.kind = call[c].kind, !.owner = call[c].owner]

\* A call that ends, with the lock given back if it holds it.
Finish(c) == /\ call' = [call EXCEPT ![c] = Over(c)]
             /\ lock' = IF lock = c THEN None ELSE lock

Env  == mishaps
Hist == <<raced, sealers, restored, mistaken, early>>

\* Both halves of the identity are stored.
Whole == row["device"] # NoRow /\ row["seed"] # NoRow

\* A call is made, beside those that run.
Made(c, k, t, owner) == [IdleCall EXCEPT !.kind = k, !.tab = t, !.owner = owner, !.epoch = tab[t].epoch]
BesideClear == raced' = (raced \/ \E d \in Call : Running(d) /\ call[d].kind = "clear")

-----------------------------------------------------------------------------
\* getOrCreateWrappingKey: the cached key, the stored one, the legacy one,
\* a fresh one.

AfterKek(k) == CASE k.kind = "identity" -> IF k.minting THEN "persist" ELSE "unwrap"
                 [] k.kind = "sealed"   -> "sealedRow"
                 [] k.kind = "noise"    -> "noiseRow"
                 [] k.kind = "replace"  -> "pairSave"

\* Call k as it goes on with the cached key, or asks for the stored one.
AskKek(k, cached) ==
    IF cached # None THEN [k EXCEPT !.pc = AfterKek(k), !.kek = cached]
                     ELSE [k EXCEPT !.pc = "kekRow", !.got = Wrapped(kek, None, None)]

HasKek(c, key) == call' = [call EXCEPT ![c].pc = AfterKek(call[c]), ![c].kek = key]

KekLoaded(c) ==
    /\ call[c].pc = "kekRow"
    /\ IF call[c].got.id # None
       THEN /\ tab' = [tab EXCEPT ![call[c].tab].kek = call[c].got.id]
            /\ HasKek(c, call[c].got.id)
       ELSE /\ Read(c, "legacyRow", Wrapped(legacy, None, None))
            /\ UNCHANGED tab
    /\ UNCHANGED <<store, lock, Env, hist>>

\* adoptLegacyWrappingKey: the copy forward may fail, or the runtime be unable
\* to store a CryptoKey; the key is used either way.
KekAdopt(c) ==
    /\ call[c].pc = "legacyRow"
    /\ call[c].got.id # None
    /\ kek' \in {kek, call[c].got.id}
    /\ call' = [call EXCEPT ![c].pc = "kekSaved", ![c].kek = call[c].got.id]
    /\ UNCHANGED <<legacy, row, lock, tab, Env, hist>>

KekMintUnsaved(c) ==
    /\ call[c].pc = "legacyRow"
    /\ call[c].got.id = None
    /\ call' = [call EXCEPT ![c].pc = "kekSaved", ![c].kek = c]
    /\ UNCHANGED <<kek, legacy, row, lock, tab, Env, hist>>

KekMint(c) ==
    /\ call[c].pc = "legacyRow"
    /\ call[c].got.id = None
    /\ kek' = c
    /\ call' = [call EXCEPT ![c].pc = "kekSaved", ![c].kek = c]
    /\ UNCHANGED <<legacy, row, lock, tab, Env, hist>>

KekSaved(c) ==
    /\ call[c].pc = "kekSaved"
    /\ tab' = [tab EXCEPT ![call[c].tab].kek = call[c].kek]
    /\ HasKek(c, call[c].kek)
    /\ UNCHANGED <<store, lock, Env, hist>>

-----------------------------------------------------------------------------
\* getOrCreateDeviceIdentity.  A call in a tab that has the identity, or waits
\* for it, changes nothing and is left out.

IdentityStart(c, t) ==
    /\ Next1(c)
    /\ tab[t].id = None
    /\ ~\E d \in Call : Running(d) /\ call[d].kind = "identity" /\ call[d].tab = t
    /\ call' = [call EXCEPT ![c] = [Made(c, "identity", t, None) EXCEPT !.pc = "lock"]]
    /\ BesideClear
    /\ UNCHANGED <<store, lock, tab, Env, saved, sealers, restored, mistaken, overtaken, early>>

LockFreeAlways(c) == TRUE

\* withIdentityLock: the callback starts once the lock is free.
LockFree(c) == lock = None

IdentityLocked(c) ==
    /\ call[c].kind = "identity"
    /\ call[c].pc = "lock"
    /\ LockFree(c)
    /\ lock' = c
    /\ call' = [call EXCEPT ![c].pc = "deviceRow", ![c].stored = row["device"]]
    /\ UNCHANGED <<store, tab, Env, hist>>

Resolve(c, id) ==
    /\ tab' = [tab EXCEPT ![call[c].tab].id = id, ![call[c].tab].held = @ \cup {id}]
    /\ Finish(c)

\* Nothing stored: generate.  Otherwise unwrap what is stored.
DeviceLoaded(c) ==
    /\ call[c].pc = "deviceRow"
    /\ call' = [call EXCEPT ![c] = IF @.stored = NoRow THEN [@ EXCEPT !.pc = "generate"]
                                                       ELSE AskKek(@, T(c).kek)]
    /\ UNCHANGED <<store, lock, tab, Env, hist>>

\* unwrapIdentityWith: the PKCS#8 key opens under the KEK or throws; then the
\* seed row is read, in a transaction of its own.
Unwrap(c) ==
    /\ call[c].pc = "unwrap"
    /\ IF call[c].stored.kek = call[c].kek
       THEN Read(c, "seedRow", row["seed"])
       ELSE Read(c, "recoverKey", Wrapped(legacy, None, None))
    /\ UNCHANGED <<store, lock, tab, Env, hist>>

\* The seed opens, and it belongs to the public key read before.
SeedFits(c) == /\ call[c].got.kek = call[c].kek
               /\ call[c].got.id = call[c].stored.id

SeedLoaded(c) ==
    /\ call[c].pc = "seedRow"
    /\ IF call[c].got = NoRow
       THEN Goto(c, "generate") /\ UNCHANGED <<lock, tab>>
       ELSE IF SeedFits(c)
       THEN Resolve(c, call[c].stored.id)
       ELSE Read(c, "recoverKey", Wrapped(legacy, None, None)) /\ UNCHANGED <<lock, tab>>
    /\ UNCHANGED <<store, Env, hist>>

UnreadableMints(c) == Goto(c, "generate") /\ UNCHANGED <<kek, lock, tab>>

\* The identity is there and cannot be read: the call throws.
Unreadable(c) == Finish(c) /\ UNCHANGED <<kek, tab>>

\* recoverWithLegacyKey: tried after an unwrap failed; the legacy key replaces
\* the stored KEK only once it has opened the identity.
RecoverKeyLoaded(c) ==
    /\ call[c].pc = "recoverKey"
    /\ IF call[c].got.id # None /\ call[c].got.id = call[c].stored.kek
       THEN /\ call' = [call EXCEPT ![c].pc = "recoverSeed", ![c].kek = call[c].got.id, ![c].got = row["seed"]]
            /\ UNCHANGED <<kek, lock, tab>>
       ELSE Unreadable(c)
    /\ UNCHANGED <<legacy, row, Env, hist>>

RecoverSeedLoaded(c) ==
    /\ call[c].pc = "recoverSeed"
    /\ IF call[c].got = NoRow \/ SeedFits(c)
       THEN /\ tab' = [tab EXCEPT ![call[c].tab].kek = call[c].kek]
            /\ kek' \in {kek, call[c].kek}
            /\ Goto(c, "recovered")
            /\ UNCHANGED lock
       ELSE Unreadable(c)
    /\ UNCHANGED <<legacy, row, Env, hist>>

Recovered(c) ==
    /\ call[c].pc = "recovered"
    /\ IF call[c].got = NoRow
       THEN Goto(c, "generate") /\ UNCHANGED <<lock, tab>>
       ELSE Resolve(c, call[c].stored.id)
    /\ UNCHANGED <<store, Env, hist>>

GeneratedCached(c) ==
    /\ call[c].pc = "generate"
    /\ call' = [call EXCEPT ![c] = AskKek([@ EXCEPT !.minting = TRUE], T(c).kek)]
    /\ tab' = [tab EXCEPT ![call[c].tab].id = c]
    /\ UNCHANGED <<store, lock, Env, hist>>

\* generateDeviceIdentity has made the identity c; persistIdentity asks for
\* the KEK.
Generated(c) ==
    /\ call[c].pc = "generate"
    /\ call' = [call EXCEPT ![c] = AskKek([@ EXCEPT !.minting = TRUE], T(c).kek)]
    /\ UNCHANGED <<store, lock, tab, Env, hist>>

SavePairTorn(id, k) == [row EXCEPT !["seed"] = Wrapped(id, k, None)]

\* persistIdentity: seed and public key in one transaction.
SavePair(id, k) == [row EXCEPT !["device"] = Wrapped(id, k, None), !["seed"] = Wrapped(id, k, None)]

Persist(c) ==
    /\ call[c].pc = "persist"
    /\ row' = SavePair(c, call[c].kek)
    /\ saved' = saved \cup {c}
    /\ Goto(c, "persisted")
    /\ UNCHANGED <<kek, legacy, lock, tab, Env, Hist, overtaken>>

\* A first identity is cached.  The replacement of a seedless one first drops
\* what belonged to the old, from memory and then row by row.
Persisted(c) ==
    /\ call[c].pc = "persisted"
    /\ IF call[c].stored = NoRow
       THEN /\ Resolve(c, c)
            /\ UNCHANGED row
       ELSE /\ tab' = [tab EXCEPT ![call[c].tab] =
                          [T(c) EXCEPT !.noise = None, !.sealed = NoSealed, !.epoch = @ + 1]]
            /\ row' = [row EXCEPT !["noise"] = NoRow]
            /\ Goto(c, "residue")
            /\ UNCHANGED lock
    /\ UNCHANGED <<kek, legacy, Env, hist>>

ResidueSealed(c) ==
    /\ call[c].pc = "residue"
    /\ row' = [row EXCEPT !["sealed"] = NoRow]
    /\ Goto(c, "replaced")
    /\ UNCHANGED <<kek, legacy, lock, tab, Env, hist>>

Replaced(c) ==
    /\ call[c].pc = "replaced"
    /\ Resolve(c, c)
    /\ UNCHANGED <<store, Env, hist>>

-----------------------------------------------------------------------------
\* getOrCreateX25519Identity over getOrCreateSealedX25519Secret.  A call that
\* finds its object's memo entry changes nothing and is left out.

InflightFor(t, o) == LET f == tab[t].inflight
                     IN f # None /\ call[f].owner = o /\ call[f].epoch = tab[t].epoch

CachedFor(t, o) == tab[t].sealed.owner = o /\ tab[t].sealed.epoch = tab[t].epoch

\* The cached scalar, the one a call in flight will have, or a call of its own.
SealedStart(c, t, o) ==
    LET new == Made(c, "sealed", t, o)
        f   == tab[t].inflight
    IN /\ Next1(c)
       /\ o \in tab[t].held
       /\ IF CachedFor(t, o)
          THEN /\ call' = [call EXCEPT ![c] = [new EXCEPT !.pc = "sealedGot", !.got.id = tab[t].sealed.id]]
               /\ UNCHANGED tab
          ELSE IF InflightFor(t, o)
          THEN /\ call' = [call EXCEPT ![c] = IF call[f].pc = "sealedGot"
                                              THEN [new EXCEPT !.pc = "sealedGot", !.got.id = call[f].got.id]
                                              ELSE [new EXCEPT !.pc = "sealedJoin", !.mark = f]]
               /\ UNCHANGED tab
          ELSE /\ call' = [call EXCEPT ![c] = [new EXCEPT !.pc = "lock"]]
               /\ tab' = [tab EXCEPT ![t].inflight = c]
       /\ BesideClear
       /\ sealers' = sealers \cup {t}
       /\ UNCHANGED <<store, lock, Env, saved, restored, mistaken, overtaken, early>>

\* What the calls that wait for c's promise, c among them, go on with.
Settles(c, d) == d = c \/ (call[d].pc = "sealedJoin" /\ call[d].mark = c)

Fulfil(c, key) ==
    /\ call' = [d \in Call |-> IF Settles(c, d) THEN [call[d] EXCEPT !.pc = "sealedGot", !.got = Wrapped(key, None, None)]
                                                ELSE call[d]]
    /\ lock' = IF lock = c THEN None ELSE lock

SealedThrowsLeaving(c) ==
    /\ call' = [d \in Call |-> IF Settles(c, d) THEN Over(d) ELSE call[d]]
    /\ lock' = IF lock = c THEN None ELSE lock
    /\ UNCHANGED tab

SealedThrows(c) ==
    /\ call' = [d \in Call |-> IF Settles(c, d) THEN Over(d) ELSE call[d]]
    /\ lock' = IF lock = c THEN None ELSE lock
    /\ tab' = [tab EXCEPT ![call[c].tab].inflight = IF @ = c THEN None ELSE @]

SealedLocked(c) ==
    /\ call[c].kind = "sealed"
    /\ call[c].pc = "lock"
    /\ LockFree(c)
    /\ IF CachedFor(call[c].tab, call[c].owner)
       THEN Fulfil(c, T(c).sealed.id)
       ELSE /\ lock' = c
            /\ call' = [call EXCEPT ![c] = AskKek([@ EXCEPT !.mark = T(c).epoch], T(c).kek)]
    /\ UNCHANGED <<store, tab, Env, hist>>

SealedRow(c) ==
    /\ call[c].pc = "sealedRow"
    /\ Read(c, "sealedRead", row["sealed"])
    /\ UNCHANGED <<store, lock, tab, Env, hist>>

UsableAnyOwner(c) == call[c].got # NoRow

Usable(c) == call[c].got.owner = call[c].owner

CacheSealed(c, key) ==
    tab' = [tab EXCEPT ![call[c].tab].sealed = [owner |-> call[c].owner, epoch |-> call[c].mark, id |-> key]]

SealedLoaded(c) ==
    /\ call[c].pc = "sealedRead"
    /\ Usable(c)
    /\ IF call[c].got.kek = call[c].kek
       THEN CacheSealed(c, call[c].got.id) /\ Fulfil(c, call[c].got.id)
       ELSE SealedThrows(c)
    /\ UNCHANGED <<store, Env, hist>>

\* The identity moved, or another one is live: the scalar is handed out and
\* not stored.
Retired(c) == \/ T(c).epoch # call[c].mark
              \/ T(c).id # None /\ T(c).id # call[c].owner

\* A restore has stored its pair and not yet moved the page's epoch.
Moving(t) == \E d \in Call : /\ call[d].tab = t
                             /\ call[d].pc \in {"pairSaved", "restoreSealed", "restoreEnd"}

\* What the page goes by differs from what is stored, and no move is under way
\* that would drop what comes of it.
Mistakes(c) == /\ T(c).epoch = call[c].mark
               /\ ~Moving(call[c].tab)
               /\ Retired(c) <=> call[c].owner = row["device"].id

SealedMint(c) ==
    /\ call[c].pc = "sealedRead"
    /\ ~Usable(c)
    /\ IF Retired(c)
       THEN /\ Fulfil(c, c)
            /\ UNCHANGED row
       ELSE /\ row' = [row EXCEPT !["sealed"] = Wrapped(c, call[c].kek, call[c].owner)]
            /\ Goto(c, "sealedSaved")
            /\ UNCHANGED lock
    /\ mistaken' = (mistaken \/ Mistakes(c))
    /\ UNCHANGED <<kek, legacy, tab, Env, saved, raced, sealers, restored, overtaken, early>>

SealedSaved(c) ==
    /\ call[c].pc = "sealedSaved"
    /\ CacheSealed(c, c)
    /\ Fulfil(c, c)
    /\ UNCHANGED <<store, Env, hist>>

\* The memo takes the scalar unless the identity moved since the call was made.
Memoised(c) == IF T(c).epoch = call[c].epoch
               THEN T(c).memo \cup {[owner |-> call[c].owner, epoch |-> call[c].epoch, id |-> call[c].got.id]}
               ELSE T(c).memo

SealedGot(c) ==
    /\ call[c].pc = "sealedGot"
    /\ tab' = [tab EXCEPT ![call[c].tab].memo = Memoised(c), ![call[c].tab].inflight = IF @ = c THEN None ELSE @]
    /\ Finish(c)
    /\ UNCHANGED <<store, Env, hist>>

-----------------------------------------------------------------------------
\* getOrCreateX25519Keypair: no lock, nothing in flight is shared, and nothing
\* makes it wait for an identity.

NoiseStart(c, t) ==
    /\ Next1(c) /\ Room("noise")
    /\ tab[t].noise = None
    /\ call' = [call EXCEPT ![c] = AskKek(Made(c, "noise", t, None), tab[t].kek)]
    /\ BesideClear
    /\ early' = (early \/ ~Whole)
    /\ UNCHANGED <<store, lock, tab, Env, saved, sealers, restored, mistaken, overtaken>>

NoiseRow(c) ==
    /\ call[c].pc = "noiseRow"
    /\ Read(c, "noiseRead", row["noise"])
    /\ UNCHANGED <<store, lock, tab, Env, hist>>

NoiseLoaded(c) ==
    /\ call[c].pc = "noiseRead"
    /\ IF call[c].got = NoRow
       THEN /\ row' = [row EXCEPT !["noise"] = Wrapped(c, call[c].kek, None)]
            /\ Goto(c, "noiseSaved")
            /\ UNCHANGED <<lock, tab>>
       ELSE /\ tab' = IF call[c].got.kek = call[c].kek
                      THEN [tab EXCEPT ![call[c].tab].noise = call[c].got.id] ELSE tab
            /\ Finish(c)
            /\ UNCHANGED row
    /\ UNCHANGED <<kek, legacy, Env, hist>>

NoiseSaved(c) ==
    /\ call[c].pc = "noiseSaved"
    /\ tab' = [tab EXCEPT ![call[c].tab].noise = c]
    /\ Finish(c)
    /\ UNCHANGED <<store, Env, hist>>

-----------------------------------------------------------------------------
\* replaceDeviceIdentity: a backup, of this or of another identity, is
\* restored without the lock, whether or not the page has an identity or is
\* minting one.

ReplaceStart(c, t, o) ==
    /\ Next1(c) /\ Room("replace")
    /\ tab' = [tab EXCEPT ![t].id = None, ![t].kek = None]
    /\ call' = [call EXCEPT ![c] = AskKek(Made(c, "replace", t, o), None)]
    /\ BesideClear
    /\ restored' = TRUE
    /\ sealers' = sealers \cup {t}
    /\ UNCHANGED <<store, lock, Env, saved, mistaken, overtaken, early>>

PairSave(c) ==
    /\ call[c].pc = "pairSave"
    /\ row' = SavePair(call[c].owner, call[c].kek)
    /\ saved' = saved \cup {call[c].owner}
    /\ overtaken' = overtaken \cup {d \in Call : Running(d) /\ call[d].kind = "identity"}
    /\ Goto(c, "pairSaved")
    /\ UNCHANGED <<kek, legacy, lock, tab, Env, Hist>>

PairSaved(c) ==
    /\ call[c].pc = "pairSaved"
    /\ Read(c, "restoreSealed", row["sealed"])
    /\ UNCHANGED <<store, lock, tab, Env, hist>>

\* The scalar of another identity is deleted, by what was read before.
RestoreSealed(c) ==
    /\ call[c].pc = "restoreSealed"
    /\ row' = IF call[c].got # NoRow /\ ~Usable(c) THEN [row EXCEPT !["sealed"] = NoRow] ELSE row
    /\ Goto(c, "restoreEnd")
    /\ UNCHANGED <<kek, legacy, lock, tab, Env, hist>>

RestoreEndUnbumped(c) ==
    /\ call[c].pc = "restoreEnd"
    /\ tab' = [tab EXCEPT ![call[c].tab].id = None]
    /\ Finish(c)
    /\ UNCHANGED <<store, Env, hist>>

RestoreEnd(c) ==
    /\ call[c].pc = "restoreEnd"
    /\ tab' = [tab EXCEPT ![call[c].tab] = [T(c) EXCEPT !.id = None, !.sealed = NoSealed, !.epoch = @ + 1]]
    /\ Finish(c)
    /\ UNCHANGED <<store, Env, hist>>

-----------------------------------------------------------------------------
\* clearDeviceIdentity: from memory at once, then row by row; no lock.

ClearStart(c, t) ==
    /\ Next1(c) /\ Room("clear")
    /\ tab' = [tab EXCEPT ![t] = [tab[t] EXCEPT !.id = None, !.kek = None, !.noise = None,
                                                !.sealed = NoSealed, !.epoch = @ + 1]]
    /\ row' = [row EXCEPT !["device"] = NoRow]
    /\ call' = [call EXCEPT ![c] = [Made(c, "clear", t, None) EXCEPT !.pc = "clearSeed"]]
    /\ raced' = (raced \/ (\E d \in Call : Running(d)) \/ (\E u \in Tab \ {t} : Warm(u)))
    /\ UNCHANGED <<kek, legacy, lock, Env, saved, sealers, restored, mistaken, overtaken, early>>

ClearNext == [clearSeed |-> "clearLegacy", clearLegacy |-> "clearNoise", clearNoise |-> "clearSealed",
              clearSealed |-> "clearKek", clearKek |-> "done"]

Cleared(r, pc) == CASE r = "seed" -> pc = "clearSeed" [] r = "noise" -> pc = "clearNoise"
                    [] r = "sealed" -> pc = "clearSealed" [] r = "device" -> FALSE

ClearStep(c) ==
    /\ call[c].pc \in DOMAIN ClearNext
    /\ row' = [r \in RowName |-> IF Cleared(r, call[c].pc) THEN NoRow ELSE row[r]]
    /\ legacy' = IF call[c].pc = "clearLegacy" THEN None ELSE legacy
    /\ kek' = IF call[c].pc = "clearKek" THEN None ELSE kek
    /\ IF ClearNext[call[c].pc] = "done" THEN Finish(c) ELSE Goto(c, ClearNext[call[c].pc]) /\ UNCHANGED lock
    /\ UNCHANGED <<tab, Env, hist>>

-----------------------------------------------------------------------------
\* A request is refused: IndexedDB is not there, is full, or fails.

\* The KEK cannot be read, or a fresh one not be stored.
KekFails(c) == call[c].pc = "kekRow" \/ (call[c].pc = "legacyRow" /\ call[c].got.id = None)

\* An unreadable legacy key counts as none.
LegacyFault(c) ==
    /\ call[c].pc = "legacyRow"
    /\ call[c].got.id # None
    /\ Read(c, "legacyRow", NoRow)
    /\ UNCHANGED <<lock, tab>>

\* An unwrap that fails is followed by the recovery; a mint that fails gives
\* an identity for this session, not cached, or throws.
IdentityFault(c) ==
    /\ call[c].kind = "identity"
    /\ \/ /\ call[c].pc = "unwrap" \/ (KekFails(c) /\ ~call[c].minting)
          /\ Read(c, "recoverKey", Wrapped(legacy, None, None))
          /\ UNCHANGED <<lock, tab>>
       \/ /\ call[c].pc = "recoverKey"
          /\ Finish(c)
          /\ UNCHANGED tab
       \/ /\ call[c].pc \in {"deviceRow", "persist"} \/ (KekFails(c) /\ call[c].minting)
          /\ tab' \in {tab, [tab EXCEPT ![call[c].tab].held = @ \cup {c}]}
          /\ Finish(c)
       \/ /\ call[c].pc = "residue"
          /\ Goto(c, "replaced")
          /\ UNCHANGED <<lock, tab>>

SealedFault(c) ==
    /\ call[c].kind = "sealed"
    /\ KekFails(c) \/ call[c].pc \in {"sealedRow", "sealedRead"}
    /\ SealedThrows(c)

\* Once the pair is stored a restore no longer fails.
OtherFault(c) ==
    /\ call[c].kind \in {"noise", "replace", "clear"}
    /\ IF call[c].pc \in {"pairSaved", "restoreSealed"}
       THEN Goto(c, "restoreEnd") /\ UNCHANGED lock
       ELSE /\ KekFails(c) \/ call[c].pc \in {"noiseRow", "noiseRead", "pairSave"} \cup DOMAIN ClearNext
            /\ Finish(c)
    /\ UNCHANGED tab

Fault(c) ==
    /\ mishaps < MaxMishaps
    /\ mishaps' = mishaps + 1
    /\ LegacyFault(c) \/ IdentityFault(c) \/ SealedFault(c) \/ OtherFault(c)
    /\ UNCHANGED <<store, hist>>

\* The page is reloaded or dies; its lock is given back.
Reload(t) ==
    LET dead == {c \in Call : Running(c) /\ call[c].tab = t}
    IN /\ mishaps < MaxMishaps
       /\ mishaps' = mishaps + 1
       /\ tab' = [tab EXCEPT ![t] = FreshTab]
       /\ call' = [c \in Call |-> IF c \in dead THEN Over(c) ELSE call[c]]
       /\ lock' = IF lock \in dead THEN None ELSE lock
       /\ UNCHANGED <<store, hist>>

-----------------------------------------------------------------------------
Starts(c, t) ==
    \/ IdentityStart(c, t)
    \/ \E o \in Key : SealedStart(c, t, o)
    \/ NoiseStart(c, t)
    \/ \E o \in {Old, c} : ReplaceStart(c, t, o)
    \/ ClearStart(c, t)

Kek(c)      == KekLoaded(c) \/ KekAdopt(c) \/ KekMint(c) \/ KekSaved(c)
Identity(c) == \/ IdentityLocked(c) \/ DeviceLoaded(c) \/ Unwrap(c) \/ SeedLoaded(c)
               \/ RecoverKeyLoaded(c) \/ RecoverSeedLoaded(c) \/ Recovered(c)
               \/ Generated(c) \/ Persist(c) \/ Persisted(c) \/ ResidueSealed(c) \/ Replaced(c)
Sealed(c)   == \/ SealedLocked(c) \/ SealedRow(c) \/ SealedLoaded(c) \/ SealedMint(c)
               \/ SealedSaved(c) \/ SealedGot(c)
Noise(c)    == NoiseRow(c) \/ NoiseLoaded(c) \/ NoiseSaved(c)
Restore(c)  == PairSave(c) \/ PairSaved(c) \/ RestoreSealed(c) \/ RestoreEnd(c)

Next == \/ \E c \in Call, t \in Tab : Starts(c, t)
        \/ \E c \in Call : Kek(c) \/ Identity(c) \/ Sealed(c) \/ Noise(c) \/ Restore(c) \/ ClearStep(c) \/ Fault(c)
        \/ \E t \in Tab : Reload(t)

Spec == Init /\ [][Next]_vars

-----------------------------------------------------------------------------
Pc == {"idle", "done", "lock", "kekRow", "legacyRow", "kekSaved", "deviceRow", "unwrap", "seedRow",
       "recoverKey", "recoverSeed", "recovered", "generate", "persist", "persisted", "residue", "replaced",
       "sealedJoin", "sealedRow", "sealedRead", "sealedSaved", "sealedGot", "noiseRow", "noiseRead",
       "noiseSaved", "pairSave", "pairSaved", "restoreSealed", "restoreEnd",
       "clearSeed", "clearLegacy", "clearNoise", "clearSealed", "clearKek"}
Epoch   == Nat
Scalar  == [owner : Key, epoch : Epoch, id : Key]
TabType == [id : Key, kek : Key, noise : Key, sealed : Scalar, epoch : Epoch, inflight : Call \cup {None},
            memo : SUBSET Scalar, held : SUBSET Key]
CallType == [kind : Kind, tab : Tab \cup {"none"}, pc : Pc, epoch : Epoch, mark : Epoch, owner : Key,
             kek : Key, stored : Row, got : Row, minting : BOOLEAN]

\* The variables keep their types; a call that runs is a call of a page, the
\* lock is held by a call that runs, and what a page has in flight runs there.
TypeOK ==
    /\ kek \in Key /\ legacy \in Key
    /\ row \in [RowName -> Row]
    /\ lock \in Call \cup {None}
    /\ tab \in [Tab -> TabType]
    /\ call \in [Call -> CallType]
    /\ \A c \in Call : Running(c) <=> call[c].tab \in Tab
    /\ lock # None => Running(lock)
    /\ \A t \in Tab : tab[t].inflight # None => call[tab[t].inflight].tab = t
    /\ mishaps \in Nat
    /\ saved \subseteq Key
    /\ raced \in BOOLEAN /\ restored \in BOOLEAN /\ mistaken \in BOOLEAN
    /\ sealers \subseteq Tab /\ overtaken \subseteq Call /\ early \in BOOLEAN

\* SEC-CR-009: the seed and the public key that are stored together are those
\* of one identity under one KEK, whatever writes, restores, forgets, faults
\* and crashes did (persistIdentity, replaceDeviceIdentity: saveMany).
PairMatched ==
    row["device"] # NoRow /\ row["seed"] # NoRow => row["seed"] = row["device"]

\* SEC-CR-001: the identity a page signs with was stored; no page keeps one
\* that exists in memory alone (mintIdentityWithStorageFallback).
CachedWasSaved == \A t \in Tab : tab[t].id \in saved \cup {None}

\* As long as nothing was forgotten in a race and no backup restored, every
\* page that has an identity has the stored one (withIdentityLock).
OneIdentity ==
    ~raced /\ ~restored => \A t \in Tab : tab[t].id \in {None, row["device"].id}

\* The 2026-08-06 lockout: the stored identity is wrapped under a key that
\* is stored too, in either database, as long as nothing was forgotten in a race
\* or restored, and no Noise keypair asked for before there was an identity.
PairOpens ==
    ~raced /\ ~restored /\ ~early /\ row["device"] # NoRow => row["device"].kek \in {kek, legacy}

\* The identity the scalar with this number was minted for.
OwnerOf(v) == IF v = Old THEN Old ELSE call[v].owner

\* A sealed scalar is used only for the identity it was minted for: stored,
\* cached, memoised or handed to a caller, across restores and forgets.
SealedForOwner ==
    /\ row["sealed"] # NoRow => OwnerOf(row["sealed"].id) = row["sealed"].owner
    /\ \A t \in Tab : /\ tab[t].sealed # NoSealed => OwnerOf(tab[t].sealed.id) = tab[t].sealed.owner
                      /\ \A m \in tab[t].memo : OwnerOf(m.id) = m.owner
    /\ \A c \in Call : call[c].pc = "sealedGot" => OwnerOf(call[c].got.id) = call[c].owner

\* The scalars a page would hand out for its identity without reading.
Served(t) == {s \in tab[t].memo \cup {tab[t].sealed} : s.owner # None /\ s.owner = tab[t].id /\ s.epoch = tab[t].epoch}

\* "No undurable key can survive" (replaceDeviceIdentity): where only one page
\* seals and restores, no forget races, and no mint went by another identity
\* than the stored one, what the page serves from memory once a restore has
\* ended is what is stored.
SealedDurable ==
    /\ ~raced /\ ~mistaken /\ Cardinality(sealers) <= 1
    /\ \A c \in Call : Running(c) => call[c].kind # "replace"
    => \A t \in Tab : \A s \in Served(t) : row["sealed"].id = s.id

\* A mint never overwrites an identity that is whole, save one that a restore
\* stored while it ran: only one without a seed is replaced, and none because it
\* could not be opened, whatever forgets, other tabs, faults and reloads did.
IdentityKept ==
    [][\A c \in Call :
          /\ c \notin overtaken
          /\ call[c].pc = "persist" /\ call'[c].pc = "persisted"
          => ~Whole]_vars

=============================================================================
